------------------------------ MODULE Receipts ------------------------------
(***************************************************************************)
(* Delivery receipts: from the upstream to the client.                     *)
(*                                                                         *)
(* CompleteOutboxSend leaves one pending row per segment of a message.     *)
(* HandleDLR writes an upstream receipt into its row, aggregates the rows  *)
(* of the message, records the state of the message and tells the client.  *)
(* What the client does not take stays in the row as ready, and FlushDLR   *)
(* tries it again: when a receiver of the client binds, and on a ticker.   *)
(* The rows of a message are deleted when all are final and delivered.     *)
(*                                                                         *)
(* Handlers and flushes of several processes run at the same time over one *)
(* store.  Every store call is a step of its own.  The lock of a row       *)
(* (lockDLR) exists once per process and bucket.                           *)
(***************************************************************************)
EXTENDS Integers, FiniteSets, FiniteSetsExt

CONSTANTS
  Msg,           \* messages the upstream has accepted
  Segments,      \* Segments[m]: number of segments of m
  Kind,          \* Kind[m]: "smpp", "smpp_quiet", "http" or "http_callback"
  Client,        \* systems that bind receivers
  System,        \* System[m]: the client that submitted m
  Process,       \* gateway processes
  Worker,        \* goroutines that run HandleDLR
  Flusher,       \* goroutines that run FlushDLR
  Home,          \* Home[a]: the process of goroutine a
  Target,        \* Target[f]: the client f flushes, or AllClients
  AllClients,    \* FlushDLR("")
  Nobody,        \* no holder of a lock
  Bucket,        \* Bucket[r]: index of the lock of row r
  Intermediate,  \* receipt states before the final one
  Outcome,       \* Outcome[r]: the states the upstream may end row r in
  FlushLimit,    \* rows that one listing of FlushDLR returns (500)
  OldestFirst,   \* does the store list by age (Postgres) or in any order?
  Age,           \* Age[r]: place of r in the order of received_at and provider id
  MaxReceipts,   \* bound: receipts of the upstream
  MaxNacks,      \* bound: receipts that clients do not take
  MaxFaults,     \* bound: failing store calls
  MaxCrashes     \* bound: crashes of a process

Rows(m) == {m} \X (1..Segments[m])
Row == UNION {Rows(m) : m \in Msg}
Actor == Worker \cup Flusher
LockId == Process \X {Bucket[r] : r \in Row}
Final == {"DELIVRD", "EXPIRED", "DELETED", "UNDELIV", "REJECTD", "UNKNOWN"}

ASSUME ReceiptsAssumption ==
  /\ Segments \in [Msg -> Nat \ {0}]
  /\ Home \in [Actor -> Process] /\ Worker \cap Flusher = {} /\ Nobody \notin Actor
  /\ \A r \in Row : Outcome[r] \subseteq Final
  /\ Intermediate \cap Final = {}
  /\ FlushLimit \in Nat \ {0} /\ OldestFirst \in BOOLEAN /\ Age \in [Row -> Nat]
  /\ MaxReceipts \in Nat /\ MaxNacks \in Nat /\ MaxFaults \in Nat /\ MaxCrashes \in Nat

VARIABLES
  row,       \* pending rows: where, state, ready, delivered, expired
  msg,       \* state of each message
  lock,      \* holder of each lock
  job,       \* what each goroutine is doing
  online,    \* clients with a bound receiver, per process
  outcome,   \* state in which the upstream ends each row
  receipts, nacks, faults, crashes,  \* what may still happen
  acked,     \* history: receipt states the client has acknowledged, per row
  writers    \* history: processes that have written a receipt to the row

vars == <<row, msg, lock, job, online, outcome, receipts, nacks, faults, crashes, acked, writers>>
history == <<acked, writers>>
bounds == <<receipts, nacks, faults, crashes>>

Idle == [at |-> "idle", row |-> Nobody, state |-> "", agg |-> "PENDING", todo |-> {}]

Init ==
  /\ row = [r \in Row |-> [where |-> "absent", state |-> "", ready |-> FALSE,
                           delivered |-> FALSE, expired |-> FALSE]]
  /\ msg = [m \in Msg |-> "sending"]
  /\ lock = [l \in LockId |-> Nobody]
  /\ job = [a \in Actor |-> Idle]
  /\ online = [p \in Process |-> {}]
  /\ outcome \in {o \in [Row -> UNION {Outcome[r] : r \in Row}] : \A r \in Row : o[r] \in Outcome[r]}
  /\ receipts = MaxReceipts /\ nacks = MaxNacks /\ faults = MaxFaults /\ crashes = MaxCrashes
  /\ acked = [r \in Row |-> {}] /\ writers = [r \in Row |-> {}]

-----------------------------------------------------------------------------
(* The store. *)

Live(r) == row[r].where = "live"

\* What the calls on a pending row make of it.
Updated(rec, s) == [rec EXCEPT !.state = s, !.delivered = FALSE]
Deferred(rec, s) == [rec EXCEPT !.state = s, !.delivered = FALSE, !.ready = TRUE]
Delivered(rec) == [rec EXCEPT !.delivered = TRUE, !.ready = FALSE]
Sweepable(rec) == rec.where = "live" /\ rec.expired /\ ~rec.ready
ReadyFor(f, r) == Live(r) /\ row[r].ready /\ Target[f] \in {AllClients, System[r[1]]}

Lock(a, r) == <<Home[a], Bucket[r]>>

\* Goroutine a has written to row r.
Writes(a, r) == writers' = [writers EXCEPT ![r] = @ \cup {Home[a]}]

dlrFailureRank(s) ==
  CASE s = "REJECTD" -> 6
    [] s = "UNDELIV" -> 5
    [] s = "EXPIRED" -> 4
    [] s = "DELETED" -> 3
    [] s = "UNKNOWN" -> 2
    [] OTHER -> 0

\* Mutant: the number of segments that the message should have is not compared.
AggregateUncounted(m) ==
  LET S == {r \in Rows(m) : Live(r)}
      final == S # {} /\ \A r \in S : row[r].state \in Final
      worst == Max({dlrFailureRank(row[r].state) : r \in S} \cup {0})
  IN [final |-> final,
      told  |-> \A r \in S : row[r].delivered,
      state |-> CASE ~final -> "PENDING"
                  [] final /\ worst = 0 -> "DELIVRD"
                  [] OTHER -> CHOOSE s \in Final : dlrFailureRank(s) = worst]

\* The state of a message from its pending rows: final when every segment has
\* a row and all rows are final, and then the worst of their states.
aggregateDLR(m) ==
  LET S == {r \in Rows(m) : Live(r)}
      whole == Cardinality(S) = Segments[m]
      final == whole /\ \A r \in S : row[r].state \in Final
      worst == Max({dlrFailureRank(row[r].state) : r \in S} \cup {0})
  IN [final |-> final,
      told  |-> whole /\ \A r \in S : row[r].delivered,
      state |-> CASE ~final -> "PENDING"
                  [] final /\ worst = 0 -> "DELIVRD"
                  [] OTHER -> CHOOSE s \in Final : dlrFailureRank(s) = worst]

\* CompleteOutboxSend stores the rows of a message, in one commit with its state.
StorePending(m) ==
  /\ msg[m] = "sending"
  /\ msg' = [msg EXCEPT ![m] = "sent"]
  /\ row' = [r \in Row |-> IF r \in Rows(m) THEN [row[r] EXCEPT !.where = "live"] ELSE row[r]]
  /\ UNCHANGED <<lock, job, online, outcome, bounds, history>>

\* The lifetime of a pending row ends.
Expire(r) ==
  /\ Live(r) /\ ~row[r].expired
  /\ row' = [row EXCEPT ![r].expired = TRUE]
  /\ UNCHANGED <<msg, lock, job, online, outcome, bounds, history>>

\* SweepExpiredPending, on the ticker and, in the memory store, inside most
\* calls: rows that are past their lifetime and not ready are deleted.
Sweep ==
  /\ \E r \in Row : Sweepable(row[r])
  /\ row' = [r \in Row |-> IF Sweepable(row[r]) THEN [row[r] EXCEPT !.where = "swept"] ELSE row[r]]
  /\ UNCHANGED <<msg, lock, job, online, outcome, bounds, history>>

-----------------------------------------------------------------------------
(* Steps of a goroutine. *)

At(a, place) == job[a].at = place
Goes(a, place) == job' = [job EXCEPT ![a].at = place]

\* The lock is taken, and the work on the row begins at the given place.
Locks(a, r, place) ==
  /\ lock[Lock(a, r)] = Nobody
  /\ lock' = [lock EXCEPT ![Lock(a, r)] = a]
  /\ job' = [job EXCEPT ![a].at = place, ![a].row = r]

\* What a goroutine does after the row it holds: a handler is done, a flush goes
\* on with the rows it has listed, or gives up.
Unlocks(a, rest) ==
  /\ lock' = [lock EXCEPT ![Lock(a, job[a].row)] = Nobody]
  /\ job' = [job EXCEPT ![a] = IF a \in Worker \/ rest = {} THEN Idle
                               ELSE [Idle EXCEPT !.at = "next", !.todo = rest]]

\* FlushDLR loops until nothing is ready when it flushes one client, and lists
\* once when it flushes all.
AfterRow(a) ==
  IF a \in Flusher /\ Target[a] # AllClients /\ job[a].todo = {}
  THEN /\ lock' = [lock EXCEPT ![Lock(a, job[a].row)] = Nobody]
       /\ job' = [job EXCEPT ![a] = [Idle EXCEPT !.at = "listing"]]
  ELSE Unlocks(a, job[a].todo)

\* A receipt of the upstream comes to a goroutine: through the channel, its
\* overflow or the HTTP callback of a provider, in any order, perhaps twice.
OnDLR(w) ==
  /\ At(w, "idle")
  /\ receipts > 0
  /\ \E r \in Row : \E s \in Intermediate \cup {outcome[r]} :
       job' = [job EXCEPT ![w] = [Idle EXCEPT !.at = "locking", !.row = r, !.state = s]]
  /\ receipts' = receipts - 1
  /\ UNCHANGED <<row, msg, lock, online, outcome, nacks, faults, crashes, history>>

LockRow(w) ==
  /\ At(w, "locking")
  /\ Locks(w, job[w].row, "getting")
  /\ UNCHANGED <<row, msg, online, outcome, bounds, history>>

\* getPendingForDLR polls until the row is there or dlrLookupWait is over.
getPendingForDLR(w) ==
  /\ At(w, "getting")
  /\ IF Live(job[w].row) THEN Goes(w, "updating") /\ UNCHANGED lock
                         ELSE Unlocks(w, {})
  /\ UNCHANGED <<row, msg, online, outcome, bounds, history>>

\* Mutant: the rows are aggregated before the receipt is written.
UpdateAfterList(w) ==
  /\ At(w, "updating")
  /\ IF Live(job[w].row)
     THEN /\ row' = [row EXCEPT ![job[w].row] = Updated(@, job[w].state)]
          /\ job' = [job EXCEPT ![w].at = "recording", ![w].agg = aggregateDLR(job[w].row[1]).state]
          /\ Writes(w, job[w].row)
          /\ UNCHANGED lock
     ELSE Unlocks(w, {}) /\ UNCHANGED <<row, writers>>
  /\ UNCHANGED <<msg, online, outcome, bounds, acked>>

\* The receipt replaces the state of the row, which is undelivered again.  The
\* row stays ready if it was.
UpdatePendingDLR(w) ==
  /\ At(w, "updating")
  /\ IF Live(job[w].row)
     THEN /\ row' = [row EXCEPT ![job[w].row] = Updated(@, job[w].state)]
          /\ Goes(w, "aggregating")
          /\ Writes(w, job[w].row)
          /\ UNCHANGED lock
     ELSE Unlocks(w, {}) /\ UNCHANGED <<row, writers>>
  /\ UNCHANGED <<msg, online, outcome, bounds, acked>>

ListAndAggregate(w) ==
  /\ At(w, "aggregating")
  /\ job' = [job EXCEPT ![w].at = "recording", ![w].agg = aggregateDLR(job[w].row[1]).state]
  /\ UNCHANGED <<row, msg, lock, online, outcome, bounds, history>>

\* Whether the client is told at all.
Wants(m) == Kind[m] \in {"smpp", "http_callback"}

\* A final aggregate becomes the state of the message.
RecordState(w) ==
  LET m == job[w].row[1] IN
  /\ At(w, "recording")
  /\ msg' = IF job[w].agg = "PENDING" THEN msg ELSE [msg EXCEPT ![m] = job[w].agg]
  /\ Goes(w, IF Wants(m) THEN "telling" ELSE "finishing")
  /\ UNCHANGED <<row, lock, online, outcome, bounds, history>>

\* UpdateMessageState fails; HandleDLR logs it and goes on.
RecordFails(w) ==
  /\ At(w, "recording") /\ job[w].agg # "PENDING"
  /\ faults > 0 /\ faults' = faults - 1
  /\ Goes(w, IF Wants(job[w].row[1]) THEN "telling" ELSE "finishing")
  /\ UNCHANGED <<row, msg, lock, online, outcome, receipts, nacks, crashes, history>>

-----------------------------------------------------------------------------
(* Telling the client, from a handler or from a flush. *)

Smpp(m) == Kind[m] = "smpp"

\* pushSMPPDLR needs a bound receiver in this process; a callback needs none.
Reachable(a) ==
  LET m == job[a].row[1] IN Smpp(m) => System[m] \in online[Home[a]]

\* The client acknowledges the receipt.
Acked(a) ==
  /\ At(a, "telling") /\ Reachable(a)
  /\ acked' = [acked EXCEPT ![job[a].row] = @ \cup {job[a].state}]
  /\ Goes(a, "finishing")
  /\ UNCHANGED <<row, msg, lock, online, outcome, bounds, writers>>

\* What follows a receipt that did not get through.  A handler keeps it for
\* later, unless it was a callback; a flush leaves the row, and stops unless it
\* flushes all clients.
NotTold(a) ==
  CASE a \in Worker /\ Smpp(job[a].row[1])  -> Goes(a, "deferring") /\ UNCHANGED lock
    [] a \in Worker /\ ~Smpp(job[a].row[1]) -> Unlocks(a, {})
    [] a \in Flusher -> Unlocks(a, IF Target[a] = AllClients THEN job[a].todo ELSE {})

\* Mutant: a receipt that is not acknowledged counts as delivered.
NackedFinishes(a) ==
  /\ At(a, "telling") /\ Reachable(a)
  /\ nacks > 0 /\ nacks' = nacks - 1
  /\ Goes(a, "finishing")
  /\ UNCHANGED <<row, msg, lock, online, outcome, receipts, faults, crashes, history>>

\* The client refuses the receipt, its answer is late, or its session ends.
Nacked(a) ==
  /\ At(a, "telling") /\ Reachable(a)
  /\ nacks > 0 /\ nacks' = nacks - 1
  /\ NotTold(a)
  /\ UNCHANGED <<row, msg, online, outcome, receipts, faults, crashes, history>>

NoReceiver(a) ==
  /\ At(a, "telling") /\ ~Reachable(a)
  /\ NotTold(a)
  /\ UNCHANGED <<row, msg, online, outcome, bounds, history>>

MarkDLRReady(w) ==
  LET r == job[w].row IN
  /\ At(w, "deferring")
  /\ row' = IF Live(r) THEN [row EXCEPT ![r] = Deferred(@, job[w].state)] ELSE row
  /\ Unlocks(w, {})
  /\ UNCHANGED <<msg, online, outcome, bounds, history>>

\* finishDLRDelivery: the row is delivered, whatever its state is by now.
MarkDLRDelivered(a) ==
  LET r == job[a].row IN
  /\ At(a, "finishing")
  /\ IF Live(r)
     THEN /\ row' = [row EXCEPT ![r] = Delivered(@)]
          /\ Goes(a, "checking")
          /\ Writes(a, r)
          /\ UNCHANGED lock
     ELSE AfterRow(a) /\ UNCHANGED <<row, writers>>
  /\ UNCHANGED <<msg, online, outcome, bounds, acked>>

\* The rows of the message are finished when all are final and delivered.
CheckFinished(a) ==
  /\ At(a, "checking")
  /\ LET agg == aggregateDLR(job[a].row[1]) IN
     IF agg.final /\ agg.told THEN Goes(a, "deleting") /\ UNCHANGED lock ELSE AfterRow(a)
  /\ UNCHANGED <<row, msg, online, outcome, bounds, history>>

DeletePendingByGatewayID(a) ==
  /\ At(a, "deleting")
  /\ row' = [r \in Row |-> IF r \in Rows(job[a].row[1]) /\ Live(r)
                           THEN [row[r] EXCEPT !.where = "finished"] ELSE row[r]]
  /\ AfterRow(a)
  /\ UNCHANGED <<msg, online, outcome, bounds, history>>

-----------------------------------------------------------------------------
(* FlushDLR. *)

\* Mutant: nothing flushes on the ticker.
TickNever(f) == FALSE /\ UNCHANGED vars

\* The ticker of pendingSweepLoop.
Tick(f) ==
  /\ At(f, "idle") /\ Target[f] = AllClients
  /\ Goes(f, "listing")
  /\ UNCHANGED <<row, msg, lock, online, outcome, bounds, history>>

\* A receiver binds; the flush of its client starts in a goroutine of its own.
Bind(f) ==
  /\ At(f, "idle") /\ Target[f] # AllClients
  /\ Target[f] \notin online[Home[f]]
  /\ online' = [online EXCEPT ![Home[f]] = @ \cup {Target[f]}]
  /\ Goes(f, "listing")
  /\ UNCHANGED <<row, msg, lock, outcome, bounds, history>>

Unbind(p, c) ==
  /\ c \in online[p]
  /\ online' = [online EXCEPT ![p] = @ \ {c}]
  /\ UNCHANGED <<row, msg, lock, job, outcome, bounds, history>>

\* At most FlushLimit ready rows are listed, without any lock: the oldest ones, or
\* those the memory store meets first in its map.
ListReadyDLR(f) ==
  LET ready == {r \in Row : ReadyFor(f, r)}
  IN /\ At(f, "listing")
     /\ \E S \in kSubset(Min({FlushLimit, Cardinality(ready)}), ready) :
          /\ OldestFirst => \A r \in S, q \in ready \ S : Age[r] <= Age[q]
          /\ job' = [job EXCEPT ![f] = IF S = {} THEN Idle
               ELSE [Idle EXCEPT !.at = "next", !.todo = {[row |-> r, state |-> row[r].state] : r \in S}]]
     /\ UNCHANGED <<row, msg, lock, online, outcome, bounds, history>>

\* The next listed row is locked; what is pushed is the state it was listed with.
FlushRow(f) ==
  /\ At(f, "next")
  /\ \E item \in job[f].todo :
       /\ lock[Lock(f, item.row)] = Nobody
       /\ lock' = [lock EXCEPT ![Lock(f, item.row)] = f]
       /\ job' = [job EXCEPT ![f] = [Idle EXCEPT !.at = "telling", !.row = item.row,
                                                 !.state = item.state, !.todo = job[f].todo \ {item}]]
  /\ UNCHANGED <<row, msg, online, outcome, bounds, history>>

-----------------------------------------------------------------------------
\* A store call fails without effect: a handler returns the error, a flush stops.
StoreCall == {"getting", "updating", "aggregating", "deferring", "finishing", "checking", "deleting"}

StoreFails(a) ==
  /\ faults > 0 /\ faults' = faults - 1
  /\ \/ job[a].at \in StoreCall /\ Unlocks(a, {})
     \/ At(a, "listing") /\ job' = [job EXCEPT ![a] = Idle] /\ UNCHANGED lock
  /\ UNCHANGED <<row, msg, online, outcome, receipts, nacks, crashes, history>>

\* A process dies: its goroutines, locks and sessions are gone, and the receipts
\* it was handling with them.  The rows are in the database.
Crash(p) ==
  /\ crashes > 0 /\ crashes' = crashes - 1
  /\ job' = [a \in Actor |-> IF Home[a] = p THEN Idle ELSE job[a]]
  /\ lock' = [l \in LockId |-> IF l[1] = p THEN Nobody ELSE lock[l]]
  /\ online' = [online EXCEPT ![p] = {}]
  /\ UNCHANGED <<row, msg, outcome, receipts, nacks, faults, history>>

HandleDLR(w) ==
  \/ LockRow(w) \/ getPendingForDLR(w) \/ UpdatePendingDLR(w) \/ ListAndAggregate(w)
  \/ RecordState(w) \/ MarkDLRReady(w)

Tell(a) == Acked(a) \/ NoReceiver(a) \/ Nacked(a)
finishDLRDelivery(a) == MarkDLRDelivered(a) \/ CheckFinished(a) \/ DeletePendingByGatewayID(a)
FlushDLR(f) == ListReadyDLR(f) \/ FlushRow(f)

Next ==
  \/ \E m \in Msg : StorePending(m)
  \/ \E r \in Row : Expire(r)
  \/ Sweep
  \/ \E w \in Worker : OnDLR(w) \/ HandleDLR(w) \/ RecordFails(w)
  \/ \E a \in Actor : Tell(a) \/ finishDLRDelivery(a) \/ StoreFails(a)
  \/ \E f \in Flusher : Tick(f) \/ Bind(f) \/ FlushDLR(f)
  \/ \E p \in Process : Crash(p) \/ \E c \in Client : Unbind(p, c)

Spec == Init /\ [][Next]_vars

\* Goroutines proceed: the locks they wait for are held for a bounded time, and
\* a push has a timeout.  The ticker of pendingSweepLoop fires.
FairSpec ==
  /\ Spec
  /\ \A w \in Worker : SF_vars(LockRow(w)) /\ WF_vars(HandleDLR(w))
  /\ \A a \in Actor : WF_vars(Tell(a)) /\ WF_vars(finishDLRDelivery(a))
  /\ \A f \in Flusher : SF_vars(FlushRow(f)) /\ WF_vars(FlushDLR(f)) /\ WF_vars(Tick(f))

-----------------------------------------------------------------------------
\* The worst state in which the upstream ends a segment of the message.
Worst(m) ==
  CHOOSE s \in {outcome[r] : r \in Rows(m)} :
    \A r \in Rows(m) : dlrFailureRank(outcome[r]) <= dlrFailureRank(s)

\* The final state that HandleDLR records for a message is the worst of the
\* states in which the upstream ended its segments, although receipts arrive in
\* any order, twice or never, and rows of some segments expire before others
\* are final.
FinalStateIsTrue == \A m \in Msg : msg[m] \in Final => msg[m] = Worst(m)

\* The locks of a row are no protection once two processes write to it.
Shared(r) == \E p, q \in writers[r] : p # q

\* The client has been told the final state of a row.  The code keeps less with
\* receipts before the final one: FlushDLR may send an SMPP client the state it
\* listed earlier, and finishDLRDelivery takes it for the final one that the row
\* has got meanwhile; so may a handler of another process.
Told(r) ==
  \/ outcome[r] \in acked[r]
  \/ acked[r] \cap Intermediate # {} /\ (Smpp(r[1]) \/ Shared(r))

\* Rows are finished (deleted because final and delivered) only after the client
\* has acknowledged the final state of each, if it wants receipts, however
\* handlers, flushes, refusals, crashes and binds interleave.
FinalIsTold == \A r \in Row : row[r].where = "finished" /\ Wants(r[1]) => Told(r)

\* No store call has failed and no process has died.
Clean == faults = MaxFaults /\ crashes = MaxCrashes

\* When no handler is at work on a message and all its rows hold final states,
\* the message has its final state, and so it has when its rows are finished:
\* of two handlers that update different segments, one sees both updates.  A row
\* that several processes write may be finished before the handler that made it
\* final has aggregated.
AllFinalIsRecorded ==
  \A m \in Msg :
    /\ Clean /\ \A r \in Rows(m) : ~Shared(r)
    /\ \A w \in Worker : job[w].at = "idle" \/ job[w].row[1] # m
    /\ \A r \in Rows(m) : (Live(r) /\ row[r].state \in Final) \/ row[r].where = "finished"
    => msg[m] \in Final

\* Ready rows that a listing in process p may return in place of r for ever: those of
\* clients that have no receiver there.
InTheWay(r, p) == {q \in Row \ {r} : Live(q) /\ row[q].ready /\ System[q[1]] \notin online[p]}

\* A receipt that waits as ready in the store reaches a client that stays bound and
\* does not refuse it for ever, as long as fewer than FlushLimit rows of absent
\* clients wait too: also one that becomes ready just after the flush of the client's
\* bind, and after a crash.
ReadyIsFlushed ==
  \A r \in Row : \A p \in Process :
    <>[](System[r[1]] \in online[p] /\ Cardinality(InTheWay(r, p)) < FlushLimit) =>
      [](Live(r) /\ row[r].ready => <>(~Live(r) \/ ~row[r].ready))
=============================================================================
