----------------------------- MODULE MCReceipts -----------------------------
(***************************************************************************)
(* Receipts for TLC.  A behaviour is one of three cases, with messages,    *)
(* goroutines and bounds of its own: "segments", a message of two segments *)
(* and two handlers of one process; "processes", handlers and flushes of   *)
(* two processes, which do not share their locks, with a failing store     *)
(* call and a crash; "callback", a message with an HTTP callback and one   *)
(* that wants no receipt, whose rows share a lock, with receipts before    *)
(* the final one and a crash.                                              *)
(***************************************************************************)
EXTENDS Receipts, TLC

CONSTANTS m1, m2, m3, m4, c1, p1, p2, w1, w2, x1, x2, tick1, tick2, onBind

VARIABLE case

SegmentsOf4 == [m \in Msg |-> IF m = m1 THEN 2 ELSE 1]
KindOf4 == [m \in Msg |-> CASE m \in {m1, m2} -> "smpp" [] m = m3 -> "http_callback" [] m = m4 -> "smpp_quiet"]
SystemOf4 == [m \in Msg |-> c1]
HomeOf7 == [a \in Actor |-> IF a \in {x2, tick2} THEN p2 ELSE p1]
TargetOf3 == [f \in Flusher |-> IF f = onBind THEN c1 ELSE AllClients]
BucketOf5 == [r \in Row |-> IF r[1] = m1 THEN r[2] ELSE 0]
AgeOf5 == [r \in Row |-> r[2]]
OutcomeOf5 == [r \in Row |-> CASE r = <<m1, 1>> -> {"DELIVRD", "REJECTD"}
                               [] r = <<m1, 2>> -> {"UNDELIV"}
                               [] OTHER -> {"DELIVRD"}]

\* What takes part in a case, and how much of each bound it uses.
Case ==
  [segments  |-> [msgs |-> {m1}, actors |-> {w1, w2, tick1, onBind}, states |-> Final,
                  receipts |-> 3, faults |-> 0, crashes |-> 0],
   processes |-> [msgs |-> {m2}, actors |-> {x1, x2, tick2, onBind}, states |-> Final \cup Intermediate,
                  receipts |-> 2, faults |-> 1, crashes |-> 1],
   callback  |-> [msgs |-> {m3, m4}, actors |-> {w1, w2, onBind}, states |-> Final \cup Intermediate,
                  receipts |-> 3, faults |-> 0, crashes |-> 1]]

InCase ==
  LET k == Case[case] IN
  /\ \A m \in Msg \ k.msgs : msg[m] = "sending"
  /\ \A a \in Actor : job[a].at # "idle" => a \in k.actors
  /\ \A w \in Worker : job[w].at # "idle" => job[w].row[1] \in k.msgs /\ job[w].state \in k.states
  /\ MaxReceipts - receipts <= k.receipts
  /\ MaxFaults - faults <= k.faults
  /\ MaxCrashes - crashes <= k.crashes

MCInit ==
  /\ Init
  /\ case \in DOMAIN Case
  /\ case # "segments" => outcome[<<m1, 1>>] = "DELIVRD"

MCNext == Next /\ UNCHANGED case /\ InCase'

MCSpec == MCInit /\ [][MCNext]_<<vars, case>>

\* The handlers of one process are alike.
WorkerSymmetry == Permutations({w1, w2})
=============================================================================
