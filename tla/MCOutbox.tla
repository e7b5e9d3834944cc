------------------------------ MODULE MCOutbox ------------------------------
(***************************************************************************)
(* Small instances of Outbox and of its refinement for TLC: processes that *)
(* share a Postgres store, and one process over the file store, with the   *)
(* same rows and slots.  A behaviour is one of the two.                    *)
(***************************************************************************)
EXTENDS OutboxDelivery, TLC

CONSTANTS i1, p1, p2, t1, t2, t3, w1, w2

VARIABLE driver   \* the store of this behaviour

\* Two processes that share the store: both run a loop called "worker-1",
\* the first also one called "worker-2".
SharedProcOf == (t1 :> p1) @@ (t2 :> p2) @@ (t3 :> p1)
SharedNameOf == (t1 :> w1) @@ (t2 :> w1) @@ (t3 :> w2)

TwoSegments == [i \in Item |-> 2]
OneSegment == [i \in Item |-> 1]

\* One process with all the slots, over the file store.
FileBox ==
  INSTANCE OutboxDelivery WITH Driver <- "file", Proc <- {p1}, ProcOf <- [t \in Thread |-> p1]

all == <<driver, vars>>

InPostgres(A) == driver = "postgres" /\ A /\ UNCHANGED driver
InFile(A) == driver = "file" /\ A /\ UNCHANGED driver

MCInit == Init /\ driver \in {"postgres", "file"}

MCSpec ==
  /\ MCInit
  /\ [][InPostgres(Next) \/ InFile(FileBox!Next)]_all

\* Fairness of Outbox and of FileBox.
MCFairSpec ==
  /\ MCSpec
  /\ \A t \in Thread : WF_all(InPostgres(ThreadStep(t))) /\ WF_all(InFile(FileBox!ThreadStep(t)))
  /\ \A n \in Name :
       /\ \A p \in Proc : WF_all(InPostgres(Claim(p, n)))
       /\ WF_all(InFile(FileBox!Claim(p1, n)))
  /\ \A p \in Proc :
       WF_all(InPostgres(Requeue(p))) /\ WF_all(InPostgres(Exit(p))) /\ WF_all(InPostgres(Restart(p)))
  /\ WF_all(InFile(FileBox!Requeue(p1))) /\ WF_all(InFile(FileBox!Exit(p1))) /\ WF_all(InFile(FileBox!Restart(p1)))
  /\ \A i \in Item : WF_all(InPostgres(BecomeDue(i))) /\ WF_all(InFile(FileBox!BecomeDue(i)))
=============================================================================
