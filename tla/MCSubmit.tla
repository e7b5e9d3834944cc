------------------------------ MODULE MCSubmit ------------------------------
(***************************************************************************)
(* Instances of Submit for TLC: two processes over Postgres, and one over  *)
(* the file store that does not die.  A behaviour is one of the two; what  *)
(* the file store keeps when it dies is in MCStores.                       *)
(***************************************************************************)
EXTENDS Submit

CONSTANTS c1, c2, c3, c4, c5, k1, k2, p1, p2

VARIABLE driver   \* the store of this behaviour

\* Three calls with one key, one with another and one without; the quota holds
\* two of the smaller messages or one of the larger.
KeyMixed == [c \in Call |-> IF c \in {c1, c2, c5} THEN k1 ELSE IF c = c3 THEN k2 ELSE NoKey]
SizeMixed == [c \in Call |-> IF c = c3 THEN 2 ELSE 1]
HomeTwo == [c \in Call |-> IF c \in {c1, c4} THEN p1 ELSE p2]

FileSubmit ==
  INSTANCE Submit WITH Driver <- "file", Process <- {p1}, Home <- [c \in Call |-> p1],
                       MaxCrashes <- 0, MaxExpiries <- 0

all == <<driver, vars>>

InPostgres(A) == driver = "postgres" /\ A /\ UNCHANGED driver
InFile(A) == driver = "file" /\ A /\ UNCHANGED driver

MCInit == (driver = "postgres" /\ Init) \/ (driver = "file" /\ FileSubmit!Init)

\* Fairness of Submit for both.
MCFairSpec ==
  /\ MCInit /\ [][InPostgres(Next) \/ InFile(FileSubmit!Next)]_all
  /\ \A c \in Call : WF_all(InPostgres(CallStep(c))) /\ WF_all(InFile(FileSubmit!CallStep(c)))
=============================================================================
