----------------------------- MODULE SmppServer -----------------------------
(***************************************************************************)
(* The SMPP server as a set of sessions (smpp/server.go, the bind and      *)
(* submit handlers of smpp/session.go) and the queue of submit jobs that   *)
(* all sessions share (cmd/mysmpp/main.go).                                *)
(*                                                                         *)
(* Every session has one reader goroutine, which handles its PDUs in turn; *)
(* the workers run the jobs.  Session ids are never reused.                *)
(***************************************************************************)
EXTENDS Integers, Sequences, FiniteSets

CONSTANTS
  SessionId,     \* the connections that are made, one id each
  SystemID,      \* system ids of the ESMEs
  Worker,        \* goroutines that run submit jobs
  MaxSessions,   \* smpp.max_sessions; 0 or less: no limit
  MaxSessionsPerSystemID,    \* 0 or less: no limit
  SessionWindowSize,         \* smpp.window_size; 0 or less: the default of a session
  MaxSubmits,    \* bound: submit_sm accepted from one session
  Nobody

ASSUME ServerAssumption ==
  /\ IsFiniteSet(Worker) /\ Nobody \notin SessionId
  /\ MaxSessions \in Int /\ MaxSessionsPerSystemID \in Int /\ SessionWindowSize \in Int

\* The window of a session.
SessionWindow == IF SessionWindowSize <= 0 THEN 16 ELSE SessionWindowSize

Mode == {"rx", "tx", "trx"}
CanSubmit(m) == m \in {"tx", "trx"}

VARIABLES
  st,        \* per session: "none", "serving", "closed" (Session.closed), "gone"
  sessions,  \* Server.sessions
  reader,    \* what the reader of each session is about to do
  bindMode, systemID,    \* Session.bindMode, Session.systemID
  inflight,  \* Session.inflight
  jobs,      \* submitJobs: the sessions of the queued jobs
  running,   \* the session whose job a worker runs
  submits    \* submit_sm handed to onSubmit, per session

serverVars == <<st, sessions, reader, bindMode, systemID, inflight, jobs, running, submits>>

Reading == [do |-> "read", sys |-> Nobody, mode |-> "none"]

ServerInit ==
  /\ st = [s \in SessionId |-> "none"]
  /\ sessions = {}
  /\ reader = [s \in SessionId |-> Reading]
  /\ bindMode = [s \in SessionId |-> "none"]
  /\ systemID = [s \in SessionId |-> Nobody]
  /\ inflight = [s \in SessionId |-> 0]
  /\ jobs = <<>>
  /\ running = [w \in Worker |-> Nobody]
  /\ submits = [s \in SessionId |-> 0]

-----------------------------------------------------------------------------
(* ListenAndServe: register the accepted connection or close it. *)

\* register refuses.
SessionsFull == MaxSessions > 0 /\ Cardinality(sessions) >= MaxSessions

Accept(s) ==
  /\ st[s] = "none"
  /\ IF SessionsFull
     THEN st' = [st EXCEPT ![s] = "gone"] /\ UNCHANGED sessions
     ELSE st' = [st EXCEPT ![s] = "serving"] /\ sessions' = sessions \cup {s}
  /\ UNCHANGED <<reader, bindMode, systemID, inflight, jobs, running, submits>>

\* The peer goes, a write fails, the session is idle too long, the server stops.
CloseSession(s) ==
  /\ st[s] = "serving"
  /\ st' = [st EXCEPT ![s] = "closed"]
  /\ UNCHANGED <<sessions, reader, bindMode, systemID, inflight, jobs, running, submits>>

\* The read loop ends and Serve calls OnClosed.
Unregister(s) ==
  /\ st[s] = "closed" /\ reader[s].do = "read"
  /\ st' = [st EXCEPT ![s] = "gone"]
  /\ sessions' = sessions \ {s}
  /\ UNCHANGED <<reader, bindMode, systemID, inflight, jobs, running, submits>>

-----------------------------------------------------------------------------
(* handleBind: the limit is checked under the server's lock, the bind is recorded
   later, the mode before the system id. *)

bindAllowed(s, y) ==
  \/ MaxSessionsPerSystemID <= 0
  \/ Cardinality({t \in sessions \ {s} : systemID[t] = y}) < MaxSessionsPerSystemID

CheckBind(s, y, m) ==
  /\ st[s] = "serving" /\ reader[s].do = "read"
  /\ bindMode[s] = "none"
  /\ bindAllowed(s, y)
  /\ reader' = [reader EXCEPT ![s] = [do |-> "mode", sys |-> y, mode |-> m]]
  /\ UNCHANGED <<st, sessions, bindMode, systemID, inflight, jobs, running, submits>>

StoreMode(s) ==
  /\ reader[s].do = "mode"
  /\ bindMode' = [bindMode EXCEPT ![s] = reader[s].mode]
  /\ reader' = [reader EXCEPT ![s].do = "system"]
  /\ UNCHANGED <<st, sessions, systemID, inflight, jobs, running, submits>>

StoreSystemID(s) ==
  /\ reader[s].do = "system"
  /\ systemID' = [systemID EXCEPT ![s] = reader[s].sys]
  /\ reader' = [reader EXCEPT ![s] = Reading]
  /\ UNCHANGED <<st, sessions, bindMode, inflight, jobs, running, submits>>

-----------------------------------------------------------------------------
(* submit_sm: the window of the session, then the shared queue. *)

AtLeastOne(n) == IF n < 1 THEN 1 ELSE n

\* Mutant: one place per session.
JobsCapPerSession == AtLeastOne(MaxSessions)

\* submitJobs has room for the configured window of every session that may be
\* registered, and one place when there is no limit.
JobsCap == AtLeastOne(MaxSessions * AtLeastOne(SessionWindowSize))

\* A submit_sm within the window; one beyond it, and one that does not parse,
\* leave inflight as it was.
ReadSubmit(s) ==
  /\ st[s] = "serving" /\ reader[s].do = "read"
  /\ CanSubmit(bindMode[s])
  /\ submits[s] < MaxSubmits
  /\ inflight[s] + 1 <= SessionWindow
  /\ inflight' = [inflight EXCEPT ![s] = @ + 1]
  /\ submits' = [submits EXCEPT ![s] = @ + 1]
  /\ reader' = [reader EXCEPT ![s].do = "submit"]
  /\ UNCHANGED <<st, sessions, bindMode, systemID, jobs, running>>

Fits == Len(jobs) < JobsCap

onSubmit(s) ==
  /\ reader[s].do = "submit"
  /\ reader' = [reader EXCEPT ![s] = Reading]
  /\ \/ Fits /\ jobs' = Append(jobs, s) /\ UNCHANGED inflight
     \/ ~Fits /\ inflight' = [inflight EXCEPT ![s] = @ - 1] /\ UNCHANGED jobs    \* throttled
  /\ UNCHANGED <<st, sessions, bindMode, systemID, running, submits>>

StartJob(w) ==
  /\ running[w] = Nobody /\ jobs # <<>>
  /\ running' = [running EXCEPT ![w] = Head(jobs)]
  /\ jobs' = Tail(jobs)
  /\ UNCHANGED <<st, sessions, reader, bindMode, systemID, inflight, submits>>

\* Mutant: the job of a session that is gone ends without CompleteSubmit.
EndJobIfOpen(w) ==
  /\ running[w] # Nobody
  /\ running' = [running EXCEPT ![w] = Nobody]
  /\ inflight' = IF st[running[w]] = "serving" THEN [inflight EXCEPT ![running[w]] = @ - 1] ELSE inflight
  /\ UNCHANGED <<st, sessions, reader, bindMode, systemID, jobs, submits>>

\* Dispatcher.Submit and the answer are done; the deferred CompleteSubmit.
EndJob(w) ==
  /\ running[w] # Nobody
  /\ running' = [running EXCEPT ![w] = Nobody]
  /\ inflight' = [inflight EXCEPT ![running[w]] = @ - 1]
  /\ UNCHANGED <<st, sessions, reader, bindMode, systemID, jobs, submits>>

ServerNext ==
  \/ \E s \in SessionId :
       \/ Accept(s) \/ CloseSession(s) \/ Unregister(s)
       \/ \E y \in SystemID, m \in Mode : CheckBind(s, y, m)
       \/ StoreMode(s) \/ StoreSystemID(s) \/ ReadSubmit(s) \/ onSubmit(s)
  \/ \E w \in Worker : StartJob(w) \/ EndJob(w)

ServerSpec == ServerInit /\ [][ServerNext]_serverVars

\* The reader goes on with the PDU it has read, the workers with the jobs; a
\* closed session ends.
ServerFairSpec ==
  /\ ServerSpec
  /\ \A s \in SessionId : /\ WF_serverVars(StoreMode(s)) /\ WF_serverVars(StoreSystemID(s))
                          /\ WF_serverVars(onSubmit(s)) /\ WF_serverVars(Unregister(s))
  /\ \A w \in Worker : WF_serverVars(StartJob(w)) /\ WF_serverVars(EndJob(w))

-----------------------------------------------------------------------------
\* Sessions and window are configured.  Without a limit of sessions the queue has one
\* place for all of them, and with a window of 0 or less one place per session.
Sized == MaxSessions > 0 /\ SessionWindowSize > 0

\* inflight of a session counts exactly the submits that are being handed over,
\* queued or run, also when the session closes before they end; and when max_sessions
\* and window_size are set, the queue is full for a submit within its window only
\* while jobs of sessions that are gone are still in it (dispatch of a submit_sm,
\* CompleteSubmit, the job queue of main).
JobsExact ==
  \A s \in SessionId :
    /\ inflight[s] = Cardinality({i \in DOMAIN jobs : jobs[i] = s})
                     + Cardinality({w \in Worker : running[w] = s})
                     + (IF reader[s].do = "submit" THEN 1 ELSE 0)
    /\ Sized /\ reader[s].do = "submit" /\ ~Fits => \E i \in DOMAIN jobs : jobs[i] \notin sessions

\* A session that is closed leaves the table, and what it had in flight ends.
ClosedDrains ==
  \A s \in SessionId : (st[s] = "closed") ~> (st[s] = "gone" /\ inflight[s] = 0)

\* At most max_sessions_per_system_id sessions are bound with one system id.  The
\* code does not keep this: two binds may both be counted before either is stored.
BindLimit ==
  \A y \in SystemID :
    Cardinality({s \in sessions : systemID[s] = y}) <= MaxSessionsPerSystemID
=============================================================================
