----------------------------- MODULE SmppSession -----------------------------
(***************************************************************************)
(* The goroutines of one downstream SMPP session (smpp/session.go): the    *)
(* read, write and enquire loops, the submit jobs that answer over it and  *)
(* the calls of SendDeliverSM that wait for a deliver_sm_resp.  They share *)
(* the bounded queue out.                                                  *)
(*                                                                         *)
(* The client may stop sending, stop reading, go away, and acknowledge a   *)
(* delivery late or never.  What it sends is bounded by MaxRequests.       *)
(***************************************************************************)
EXTENDS Integers, Sequences

CONSTANTS
  Delivery,      \* calls of SendDeliverSM; each has its own sequence number
  Job,           \* submit jobs of the session
  SessionOutCap, \* capacity of out: 64
  MaxRequests,   \* bound: PDUs of the client
  Nothing

VARIABLES
  sClosed,   \* Session.closed is closed
  served,    \* Serve has returned and called OnClosed
  sBound,    \* bindMode # BindNone
  sOut,      \* Session.out
  hand,      \* the PDU the write loop is writing
  sReader, writer, enquirer,   \* where the loops are
  sIdle,     \* enquire ticks since the last PDU was read
  delivery,  \* where each SendDeliverSM is
  deliverResp,  \* the registered deliveries
  status,    \* the status in the channel of each delivery
  job,       \* where each job is
  silent, stalled, gone,      \* the client does not send, does not read, is away
  requests,  \* PDUs sent by the client
  received,  \* history: deliveries that reached the client
  acked      \* history: deliveries the client has acknowledged with status OK

loops == <<sReader, writer, enquirer>>
client == <<silent, stalled, gone, requests>>
deliveries == <<delivery, deliverResp, status>>
sessionVars == <<sClosed, served, sBound, sOut, hand, loops, sIdle, deliveries, job, client, received, acked>>

SessionInit ==
  /\ sClosed = FALSE /\ served = FALSE /\ sBound = FALSE
  /\ sOut = <<>> /\ hand = Nothing
  /\ sReader = "read" /\ writer = "run" /\ enquirer = "run"
  /\ sIdle = 0
  /\ delivery = [d \in Delivery |-> "idle"]
  /\ deliverResp = {}
  /\ status = [d \in Delivery |-> "none"]
  /\ job = [j \in Job |-> "idle"]
  /\ silent = FALSE /\ stalled = FALSE /\ gone = FALSE /\ requests = 0
  /\ received = {} /\ acked = {}

-----------------------------------------------------------------------------
(* Session.Send: wait for room in out, or for the close. *)

Queued(p) == Len(sOut) < SessionOutCap /\ sOut' = Append(sOut, p)
Refused == sClosed /\ UNCHANGED sOut

(* The read loop. *)

ClientSends ==
  /\ sReader = "read" /\ ~sClosed /\ ~silent /\ ~gone
  /\ requests < MaxRequests
  /\ requests' = requests + 1
  /\ sIdle' = 0

\* A bind that is accepted (it clears the read deadline) or refused, a submit
\* that is refused, an enquire_link, an unbind: all are answered.
Request(accepted) ==
  /\ ClientSends
  /\ sBound' = (sBound \/ accepted)
  /\ sReader' = "send"
  /\ UNCHANGED <<sClosed, served, sOut, hand, writer, enquirer, deliveries, job, silent, stalled, gone, received, acked>>

\* A submit_sm within the window: a job answers it.
SubmitSM(j) ==
  /\ ClientSends /\ sBound
  /\ job[j] = "idle"
  /\ job' = [job EXCEPT ![j] = "send"]
  /\ UNCHANGED <<sClosed, served, sBound, sOut, hand, loops, deliveries, silent, stalled, gone, received, acked>>

\* Mutant: a deliver_sm_resp goes to every delivery that waits.
completeAnyResp(d, ok) ==
  status' = [e \in Delivery |-> IF e \in deliverResp /\ status[e] = "none"
                                THEN IF ok THEN "ok" ELSE "error" ELSE status[e]]

\* A status is kept only for a registered delivery that has none yet.
completeDeliverResp(d, ok) ==
  status' = [status EXCEPT ![d] = IF d \in deliverResp /\ @ = "none"
                                  THEN IF ok THEN "ok" ELSE "error" ELSE @]

\* Early, late, or a second time.
DeliverSMResp(d, ok) ==
  /\ ClientSends /\ d \in received
  /\ acked' = IF ok THEN acked \cup {d} ELSE acked
  /\ completeDeliverResp(d, ok)
  /\ UNCHANGED <<sClosed, served, sBound, sOut, hand, loops, delivery, deliverResp, job, silent, stalled, gone, received>>

ReaderAnswers ==
  /\ sReader = "send"
  /\ Queued("response") \/ Refused
  /\ sReader' = "read"
  /\ UNCHANGED <<sClosed, served, sBound, hand, writer, enquirer, sIdle, deliveries, job, client, received, acked>>

\* Mutant: the read deadline is set only after the bind.
ReadFailsLate ==
  /\ sReader = "read"
  /\ sClosed \/ gone
  /\ sReader' = "end" /\ sClosed' = TRUE /\ served' = TRUE
  /\ UNCHANGED <<sBound, sOut, hand, writer, enquirer, sIdle, deliveries, job, client, received, acked>>

\* The connection is closed, or the bind has not come within the read deadline.
\* Serve closes the session and reports it.
ReadFails ==
  /\ sReader = "read"
  /\ sClosed \/ gone \/ ~sBound
  /\ sReader' = "end" /\ sClosed' = TRUE /\ served' = TRUE
  /\ UNCHANGED <<sBound, sOut, hand, writer, enquirer, sIdle, deliveries, job, client, received, acked>>

-----------------------------------------------------------------------------
(* The write loop: every write has a deadline. *)

WriterTakes ==
  /\ writer = "run" /\ hand = Nothing /\ sOut # <<>>
  /\ hand' = Head(sOut) /\ sOut' = Tail(sOut)
  /\ UNCHANGED <<sClosed, served, sBound, loops, sIdle, deliveries, job, client, received, acked>>

WriterWrites ==
  /\ hand # Nothing /\ ~stalled /\ ~sClosed /\ ~gone
  /\ hand' = Nothing
  /\ received' = received \cup ({hand} \cap Delivery)
  /\ UNCHANGED <<sClosed, served, sBound, sOut, loops, sIdle, deliveries, job, client, acked>>

\* Mutant: a write to a client that does not read has no deadline.
WriteFailsNoDeadline ==
  /\ hand # Nothing /\ (sClosed \/ gone)
  /\ hand' = Nothing /\ writer' = "end" /\ sClosed' = TRUE
  /\ UNCHANGED <<served, sBound, sOut, sReader, enquirer, sIdle, deliveries, job, client, received, acked>>

WriteFails ==
  /\ hand # Nothing /\ (stalled \/ sClosed \/ gone)
  /\ hand' = Nothing /\ writer' = "end" /\ sClosed' = TRUE
  /\ UNCHANGED <<served, sBound, sOut, sReader, enquirer, sIdle, deliveries, job, client, received, acked>>

WriterEnds ==
  /\ writer = "run" /\ hand = Nothing /\ sClosed
  /\ writer' = "end"
  /\ UNCHANGED <<sClosed, served, sBound, sOut, hand, sReader, enquirer, sIdle, deliveries, job, client, received, acked>>

WriteLoop == WriterTakes \/ WriterWrites \/ WriteFails \/ WriterEnds

-----------------------------------------------------------------------------
(* The enquire loop. *)

\* Nothing before the bind; the session is closed at the third tick after the last
\* PDU was read.
EnquireTick ==
  /\ enquirer = "run" /\ ~sClosed /\ sBound
  /\ \/ sIdle >= 2 /\ sClosed' = TRUE /\ enquirer' = "end" /\ UNCHANGED sIdle
     \/ sIdle < 2 /\ sIdle' = sIdle + 1 /\ enquirer' = "send" /\ UNCHANGED sClosed
  /\ UNCHANGED <<served, sBound, sOut, hand, sReader, writer, deliveries, job, client, received, acked>>

EnquirerAsks ==
  /\ enquirer = "send"
  /\ Queued("enquire") \/ Refused
  /\ enquirer' = "run"
  /\ UNCHANGED <<sClosed, served, sBound, hand, sReader, writer, sIdle, deliveries, job, client, received, acked>>

EnquirerEnds ==
  /\ enquirer = "run" /\ sClosed
  /\ enquirer' = "end"
  /\ UNCHANGED <<sClosed, served, sBound, sOut, hand, sReader, writer, sIdle, deliveries, job, client, received, acked>>

-----------------------------------------------------------------------------
(* SendDeliverSM and the answers of the submit jobs. *)

StartDelivery(d) ==
  /\ delivery[d] = "idle" /\ sBound
  /\ delivery' = [delivery EXCEPT ![d] = "send"]
  /\ deliverResp' = deliverResp \cup {d}
  /\ UNCHANGED <<sClosed, served, sBound, sOut, hand, loops, sIdle, status, job, client, received, acked>>

EndDelivery(d, r) ==
  /\ delivery' = [delivery EXCEPT ![d] = r]
  /\ deliverResp' = deliverResp \ {d}

SendDelivery(d) ==
  /\ delivery[d] = "send"
  /\ \/ Queued(d) /\ delivery' = [delivery EXCEPT ![d] = "wait"] /\ UNCHANGED deliverResp
     \/ Refused /\ EndDelivery(d, "failed")
  /\ UNCHANGED <<sClosed, served, sBound, hand, loops, sIdle, status, job, client, received, acked>>

\* The response, the timer or the close of the session.
AwaitResp(d) ==
  /\ delivery[d] = "wait"
  /\ \/ status[d] # "none" /\ EndDelivery(d, status[d])
     \/ EndDelivery(d, "failed")
  /\ UNCHANGED <<sClosed, served, sBound, sOut, hand, loops, sIdle, status, job, client, received, acked>>

JobAnswers(j) ==
  /\ job[j] = "send"
  /\ Queued("response") \/ Refused
  /\ job' = [job EXCEPT ![j] = "done"]
  /\ UNCHANGED <<sClosed, served, sBound, hand, loops, sIdle, deliveries, client, received, acked>>

-----------------------------------------------------------------------------
(* The client misbehaves, the server stops. *)

GoSilent == ~silent /\ silent' = TRUE
            /\ UNCHANGED <<sClosed, served, sBound, sOut, hand, loops, sIdle, deliveries, job, stalled, gone, requests, received, acked>>
StopReading == ~stalled /\ stalled' = TRUE
               /\ UNCHANGED <<sClosed, served, sBound, sOut, hand, loops, sIdle, deliveries, job, silent, gone, requests, received, acked>>
GoAway == ~gone /\ gone' = TRUE
          /\ UNCHANGED <<sClosed, served, sBound, sOut, hand, loops, sIdle, deliveries, job, silent, stalled, requests, received, acked>>
Shutdown == ~sClosed /\ sClosed' = TRUE
            /\ UNCHANGED <<served, sBound, sOut, hand, loops, sIdle, deliveries, job, client, received, acked>>

SessionNext ==
  \/ \E accepted \in BOOLEAN : Request(accepted)
  \/ \E j \in Job : SubmitSM(j) \/ JobAnswers(j)
  \/ \E d \in Delivery : \/ StartDelivery(d) \/ SendDelivery(d) \/ AwaitResp(d)
                         \/ \E ok \in BOOLEAN : DeliverSMResp(d, ok)
  \/ ReaderAnswers \/ ReadFails \/ WriteLoop
  \/ EnquireTick \/ EnquirerAsks \/ EnquirerEnds
  \/ GoSilent \/ StopReading \/ GoAway \/ Shutdown

SessionSpec == SessionInit /\ [][SessionNext]_sessionVars

\* Goroutines proceed, tickers tick and deadlines expire.  A full channel serves its
\* blocked senders in the order of their arrival, hence strong fairness for them.
\* The client owes nothing.
SessionFairSpec ==
  /\ SessionSpec
  /\ SF_sessionVars(ReaderAnswers) /\ WF_sessionVars(ReadFails) /\ WF_sessionVars(WriteLoop)
  /\ WF_sessionVars(EnquireTick) /\ SF_sessionVars(EnquirerAsks) /\ WF_sessionVars(EnquirerEnds)
  /\ \A d \in Delivery : SF_sessionVars(SendDelivery(d)) /\ WF_sessionVars(AwaitResp(d))
  /\ \A j \in Job : SF_sessionVars(JobAnswers(j))

-----------------------------------------------------------------------------
\* A delivery reported as acknowledged was acknowledged by the client, itself and
\* not another one, however late and in whatever order the responses come.
AckIsReal == \A d \in Delivery : delivery[d] = "ok" => d \in acked

\* A client that sends nothing any more loses its session, bound or not, whatever
\* the loops were doing: the session ends and leaves the server's table.
SilentEnds == silent ~> served

\* No SendDeliverSM and no submit job hangs on a client that does not read.
SendersReturn ==
  /\ \A d \in Delivery : (delivery[d] = "send") ~> (delivery[d] \in {"ok", "error", "failed"})
  /\ \A j \in Job : (job[j] = "send") ~> (job[j] = "done")
=============================================================================
