------------------------------ MODULE Delivery ------------------------------
(***************************************************************************)
(* What the outbox promises of a message, whoever works on it: its durable *)
(* life only goes forward, its outcome is final, it is handed to the       *)
(* upstream at most once and only while it is durably "given", and it is   *)
(* "sent" only when the upstream has taken all of it.                      *)
(***************************************************************************)
EXTENDS Naturals

CONSTANT Item

VARIABLES
  life,    \* what is durable about each message
  calls,   \* how often it was handed to the upstream
  got      \* the upstream has taken all of it

vars == <<life, calls, got>>

Outcome == {"unsure", "sent", "failed"}
Life == {"none", "waiting", "given"} \cup Outcome

Init ==
  /\ life = [i \in Item |-> "none"]
  /\ calls = [i \in Item |-> 0]
  /\ got = [i \in Item |-> FALSE]

\* The lives that may follow one another.  A file store that failed to write
\* some of its snapshots records several changes with the next one.
After(s) ==
  {s} \cup (IF s \in Outcome THEN {}
            ELSE Outcome \cup {"given"} \cup (IF s = "given" THEN {} ELSE {"waiting"}))

\* A write to the store, about any number of messages.
Record ==
  /\ life' \in [Item -> Life]
  /\ \A i \in Item : /\ life'[i] \in After(life[i])
                     /\ life'[i] = "sent" => got[i]
  /\ UNCHANGED <<calls, got>>

\* The only call of the provider for a message.
Call(i) ==
  /\ life[i] = "given" /\ calls[i] = 0
  /\ calls' = [calls EXCEPT ![i] = 1]
  /\ UNCHANGED <<life, got>>

\* The upstream takes the message.
Take(i) ==
  /\ life[i] = "given" /\ calls[i] = 1
  /\ got' = [got EXCEPT ![i] = TRUE]
  /\ UNCHANGED <<life, calls>>

Next == Record \/ \E i \in Item : Call(i) \/ Take(i)

Spec == Init /\ [][Next]_vars
=============================================================================
