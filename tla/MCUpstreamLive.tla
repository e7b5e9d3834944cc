--------------------------- MODULE MCUpstreamLive ---------------------------
(***************************************************************************)
(* What must eventually happen on the side of the upstream: the calls of   *)
(* its connection (Upstream) and the receipts that wait for the client     *)
(* (Receipts).  One of the two runs in a behaviour and the other stays as  *)
(* it begins.                                                              *)
(***************************************************************************)
EXTENDS Naturals

CONSTANTS e1, m1, m2, c1, c2, p1, x1, tick, onBind, AllClients, None

VARIABLES
  part,
  loop, attempt, bound, out, link, idle, closed, pc, at, waiter, reply, pending, slots, releasing,
  drops, stalls, delivers, written,                                                  \* Upstream
  row, msg, lock, job, online, outcome, receipts, nacks, faults, crashes, acked, writers \* Receipts

\* One call and the enquire loop share a queue of one place; the peer drops the
\* connection or stops reading it.
Call == {e1}
Up(MaxDrops, MaxStalls) == INSTANCE Upstream WITH
  WindowSize <- 1, OutCap <- 1, MaxAttempts <- 1, MaxDelivers <- 0, MayClose <- FALSE, Enquires <- TRUE, NoPdu <- None

\* A message of each of two clients, of which the second never binds, one handler,
\* the ticker and the flush of a bind, a crash, and listings of one row in any order
\* (so also the oldest first).  A bound: the row of the absent client does not expire.
Worker == {x1}
Flusher == {tick, onBind}
Dlr == INSTANCE Receipts WITH
  Msg <- {m1, m2}, Segments <- [m \in {m1, m2} |-> 1], Kind <- [m \in {m1, m2} |-> "smpp"], Client <- {c1, c2},
  System <- [m \in {m1, m2} |-> IF m = m1 THEN c1 ELSE c2], Process <- {p1},
  Home <- [a \in Worker \cup Flusher |-> p1],
  Target <- [f \in Flusher |-> IF f = onBind THEN c1 ELSE AllClients], Nobody <- None,
  Bucket <- [r \in {m1, m2} \X {1} |-> 0], Intermediate <- {},
  Outcome <- [r \in {m1, m2} \X {1} |-> {"DELIVRD"}], FlushLimit <- 1, OldestFirst <- FALSE,
  Age <- [r \in {m1, m2} \X {1} |-> IF r[1] = m1 THEN 2 ELSE 1],
  MaxReceipts <- 2, MaxNacks <- 1, MaxFaults <- 0, MaxCrashes <- 1

upstream == <<loop, attempt, bound, out, link, idle, closed, pc, at, waiter, reply, pending, slots, releasing,
              drops, stalls, delivers, written>>
dlr == <<row, msg, lock, job, online, outcome, receipts, nacks, faults, crashes, acked, writers>>
vars == <<part, upstream, dlr>>

Init ==
  /\ part \in {"upstream", "receipts"}
  /\ Up(1, 0)!UpstreamInit \/ (part = "upstream" /\ Up(0, 1)!UpstreamInit)
  /\ Dlr!Init

InUpstream(A) == part = "upstream" /\ A /\ UNCHANGED <<part, dlr>>
InReceipts(A) == part = "receipts" /\ A /\ UNCHANGED <<part, upstream>>

Next == InUpstream(Up(1, 1)!UpstreamNext) \/ InReceipts(Dlr!Next /\ ~row'[<<m2, 1>>].expired)

\* The fairness of the FairSpec of each component, for the one that runs.
FairSpec ==
  /\ Init /\ [][Next]_vars
  /\ WF_vars(InUpstream(Up(1, 1)!LoopStep))
  /\ WF_vars(InUpstream(Up(1, 1)!WriterStep(1))) /\ WF_vars(InUpstream(Up(1, 1)!Tick(1)))
  /\ SF_vars(InUpstream(Up(1, 1)!EnquirerSends(1))) /\ WF_vars(InUpstream(Up(1, 1)!EnquirerStops(1)))
  /\ SF_vars(InUpstream(Up(1, 1)!ReaderReplies(1))) /\ WF_vars(InUpstream(Up(1, 1)!ReaderStops(1)))
  /\ SF_vars(InUpstream(Up(1, 1)!Send(e1))) /\ WF_vars(InUpstream(Up(1, 1)!CallStep(e1))) /\ WF_vars(InUpstream(Up(1, 1)!Release(e1)))
  /\ SF_vars(InReceipts(Dlr!LockRow(x1))) /\ WF_vars(InReceipts(Dlr!HandleDLR(x1)))
  /\ \A a \in Worker \cup Flusher : WF_vars(InReceipts(Dlr!Tell(a))) /\ WF_vars(InReceipts(Dlr!finishDLRDelivery(a)))
  /\ \A f \in Flusher : /\ SF_vars(InReceipts(Dlr!FlushRow(f))) /\ WF_vars(InReceipts(Dlr!FlushDLR(f)))
                        /\ WF_vars(InReceipts(Dlr!Tick(f)))

-----------------------------------------------------------------------------
\* Every call of submit returns, although the peer drops the connection, does not
\* read it or does not answer, unless it waits for ever for room in a full queue.
CallsReturn == Up(1, 1)!CallsReturn

\* A connection whose peer has stopped reading is closed by the idle timeout, unless
\* the enquire loop waits for ever for room in a full queue.
StallHeals == Up(1, 1)!StallHeals

\* A receipt that waits as ready in the store reaches a client that stays bound,
\* also if it becomes ready just after the flush of the bind, or before a crash.
ReadyIsFlushed == Dlr!ReadyIsFlushed
=============================================================================
