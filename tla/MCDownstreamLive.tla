-------------------------- MODULE MCDownstreamLive --------------------------
(***************************************************************************)
(* What must eventually happen on the side of the clients: the sessions of *)
(* the SMPP server (SmppServer), the goroutines of one session             *)
(* (SmppSession) and the writer of call detail records (Cdr).  One of them *)
(* runs in a behaviour and the others stay as they begin.                  *)
(***************************************************************************)
EXTENDS Naturals

CONSTANTS SessionId, y1, w1, Delivery, j1, Emitter, Writer, First, None

VARIABLES
  part,
  st, sessions, reader, bindMode, systemID, inflight, jobs, running, submits,        \* SmppServer
  sClosed, served, sBound, sOut, hand, sReader, writer, enquirer, sIdle, delivery, deliverResp, status, job,
  silent, stalled, gone, requests, received, acked,                                  \* SmppSession
  sink, emit, seq, in, closed, close, loop, file, finals, left, closeErr, dropped, lost, late, panic, faults   \* Cdr

Server == INSTANCE SmppServer WITH
  SystemID <- {y1}, Worker <- {w1}, MaxSessions <- 1, MaxSessionsPerSystemID <- 1, SessionWindowSize <- 2, MaxSubmits <- 3,
  Nobody <- None

Session == INSTANCE SmppSession WITH
  Job <- {j1}, SessionOutCap <- 1, MaxRequests <- 2, Nothing <- None

Records == INSTANCE Cdr WITH
  Buffer <- 1, MaxRecords <- 2, OnFull <- [w \in Writer |-> "block"], MaxCdrFaults <- 1, Nil <- None,
  cdrSeq <- seq, cdrFaults <- faults

server == <<st, sessions, reader, bindMode, systemID, inflight, jobs, running, submits>>
session == <<sClosed, served, sBound, sOut, hand, sReader, writer, enquirer, sIdle, delivery, deliverResp, status, job,
             silent, stalled, gone, requests, received, acked>>
records == <<sink, emit, seq, in, closed, close, loop, file, finals, left, closeErr, dropped, lost, late, panic, faults>>
vars == <<part, server, session, records>>

Init == part \in {"server", "session", "records"} /\ Server!ServerInit /\ Session!SessionInit /\ Records!CdrInit

InServer(A) == part = "server" /\ A /\ UNCHANGED <<part, session, records>>
InSession(A) == part = "session" /\ A /\ UNCHANGED <<part, server, records>>
InRecords(A) == part = "records" /\ A /\ UNCHANGED <<part, server, session>>

Next == InServer(Server!ServerNext) \/ InSession(Session!SessionNext) \/ InRecords(Records!CdrNext)

\* The fairness of the FairSpec of each component, for the one that runs.
FairSpec ==
  /\ Init /\ [][Next]_vars
  /\ \A s \in SessionId : /\ WF_vars(InServer(Server!StoreMode(s))) /\ WF_vars(InServer(Server!StoreSystemID(s)))
                          /\ WF_vars(InServer(Server!onSubmit(s))) /\ WF_vars(InServer(Server!Unregister(s)))
  /\ WF_vars(InServer(Server!StartJob(w1))) /\ WF_vars(InServer(Server!EndJob(w1)))
  /\ SF_vars(InSession(Session!ReaderAnswers)) /\ WF_vars(InSession(Session!ReadFails))
  /\ WF_vars(InSession(Session!WriteLoop)) /\ WF_vars(InSession(Session!EnquireTick))
  /\ SF_vars(InSession(Session!EnquirerAsks)) /\ WF_vars(InSession(Session!EnquirerEnds))
  /\ \A d \in Delivery : SF_vars(InSession(Session!SendDelivery(d))) /\ WF_vars(InSession(Session!AwaitResp(d)))
  /\ SF_vars(InSession(Session!JobAnswers(j1)))
  /\ \A e \in Emitter : /\ WF_vars(InRecords(Records!RLock(e))) /\ WF_vars(InRecords(Records!NextSeq(e)))
                        /\ WF_vars(InRecords(Records!Send(e)))
  /\ \A w \in Writer : /\ WF_vars(InRecords(Records!WantLock(w))) /\ WF_vars(InRecords(Records!CloseIn(w)))
                       /\ WF_vars(InRecords(Records!AwaitDone(w))) /\ WF_vars(InRecords(Records!Receive(w)))
                       /\ WF_vars(InRecords(Records!EndLoop(w)))

-----------------------------------------------------------------------------
\* A closed session leaves the table of the server, and what it had in flight ends.
ClosedDrains == Server!ClosedDrains

\* A client that sends nothing any more loses its session, bound or not.
SilentEnds == Session!SilentEnds

\* No delivery and no submit job hangs on a client that does not read.
SendersReturn == Session!SendersReturn

\* Close of the CDR writer returns, although emitters are blocked on the full
\* queue and the file system fails.
CloseEnds == Records!CloseEnds
=============================================================================
