--------------------------- MODULE MCConnections ---------------------------
(***************************************************************************)
(* Instances for TLC of the SMPP connections: one to an upstream           *)
(* (Upstream), the sessions of the server (SmppServer), the goroutines of  *)
(* one session (SmppSession).  They share no state, so that one of them    *)
(* runs in a behaviour and the others stay as they begin.                  *)
(***************************************************************************)
EXTENDS Upstream, SmppServer, SmppSession, TLC

VARIABLE part   \* what runs

\* The server without a limit of sessions: its queue has one place.
Unlimited == INSTANCE SmppServer WITH MaxSessions <- 0, MaxSubmits <- 2

\* Two calls compete for one slot of the window while connections come and go.
Slots ==
  /\ UpstreamNext
  /\ stalls' = MaxStalls /\ delivers' = MaxDelivers
  /\ \A a \in Attempt : ~EnquirerStep(a)

\* One call next to the enquire loop and requests of the peer, with a full queue.
Full ==
  /\ UpstreamNext
  /\ Cardinality({c \in Call : pc'[c] # "new"}) <= 1
  /\ drops' = MaxDrops /\ attempt' <= 1

vars == <<part, upstreamVars, serverVars, sessionVars>>

Init ==
  /\ part \in {"slots", "full", "server", "unlimited", "session"}
  /\ UpstreamInit /\ ServerInit /\ SessionInit

Next ==
  /\ UNCHANGED part
  /\ \/ /\ (part = "slots" /\ Slots) \/ (part = "full" /\ Full)
        /\ UNCHANGED <<serverVars, sessionVars>>
     \/ /\ (part = "server" /\ ServerNext) \/ (part = "unlimited" /\ Unlimited!ServerNext)
        /\ UNCHANGED <<upstreamVars, sessionVars>>
     \/ part = "session" /\ SessionNext /\ UNCHANGED <<upstreamVars, serverVars>>

Spec == Init /\ [][Next]_vars

\* The calls, the sessions and the deliveries are alike.
Alike == Permutations(Call) \cup Permutations(SessionId) \cup Permutations(Delivery)
=============================================================================
