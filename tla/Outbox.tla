------------------------------- MODULE Outbox -------------------------------
(***************************************************************************)
(* The outbox of the gateway and the dispatcher goroutines that empty it.  *)
(*                                                                         *)
(* A row of the outbox is one accepted message.  Worker loops claim rows,  *)
(* one goroutine per claimed row (processOutbox) looks the provider up,    *)
(* persists "sending", calls the provider and records the result.  Every   *)
(* store call is one step, so that the steps of several goroutines, of     *)
(* several processes, of the stale-claim sweep and of a crash interleave   *)
(* between them.  A Postgres call may fail before it takes effect, or take *)
(* effect and lose its reply.  The file store changes its memory first and *)
(* then writes a snapshot of it; when that write fails the call fails, the *)
(* memory keeps the change and a crash loses it.                           *)
(***************************************************************************)
EXTENDS Naturals, FiniteSets

CONSTANTS
  Item,          \* outbox rows (each with its message)
  Proc,          \* gateway processes that share the store
  Thread,        \* semaphore slots of the worker loops of all processes
  Name,          \* worker ids: "worker-1", "worker-2", ...
  ProcOf,        \* the process a slot belongs to
  NameOf,        \* the worker id its loop passes to the store
  None,          \* no item, no owner
  Segments,      \* how many submit_sm a row's message takes (Pool.SendAll)
  WantsReceipt,  \* rows of SMPP messages with registered_delivery set
  Driver,        \* "postgres" or "file" (the file store embeds the memory store)
  ClaimLimit,    \* dispatcher.claim_limit
  MaxAttempts,   \* dispatcher.max_attempts
  RetryOnTimeout,       \* providers[].smpp.retry_on_timeout
  ClaimOutlivesTimeout, \* may a live goroutine hold a claim beyond claim_timeout?
  MaxClaims,     \* bound: claims of one row
  MaxFaults,     \* bound: failing store calls
  MaxCrashes,    \* bound: crashes and shutdowns
  MaxChanges     \* bound: registry reloads and message trims

ASSUME ThreadAssumption ==
  /\ ProcOf \in [Thread -> Proc]
  /\ NameOf \in [Thread -> Name]
  /\ None \notin Item \cup Name
  /\ Segments \in [Item -> Nat \ {0}]
  /\ WantsReceipt \subseteq Item

ASSUME ConfigAssumption ==
  /\ Driver \in {"postgres", "file"}
  /\ Driver = "file" => \A p, q \in Proc : p = q
  /\ ClaimLimit \in Nat \ {0}
  /\ MaxAttempts \in Nat \ {0}
  /\ RetryOnTimeout \in BOOLEAN
  /\ ClaimOutlivesTimeout \in BOOLEAN

ASSUME BoundAssumption ==
  /\ MaxClaims \in Nat
  /\ MaxFaults \in Nat
  /\ MaxCrashes \in Nat
  /\ MaxChanges \in Nat

VARIABLES
  box,          \* outbox rows: state, claimed_by, attempt, next_retry_at reached
  msg,          \* message states
  failRow,      \* the pending "local-failure" receipt of a row is stored and ready
  disk,         \* the durable copy of the three: Postgres, or the snapshot file
  job,          \* what each slot's goroutine is doing
  mode,         \* life of each process
  registered,   \* the provider is in the registry
  faults,       \* store calls that may still fail
  crashes,      \* crashes and shutdowns that may still happen
  changes,      \* registry reloads and message trims that may still happen
  entries,      \* history: provider calls made for each row
  entrants,     \* history: worker ids whose goroutines made them
  taken,        \* history: the most segments the upstream took in one call
  told          \* history: the client has acknowledged a failure receipt

store == <<box, msg, failRow, disk>>
budget == <<faults, crashes, changes>>
history == <<entries, entrants, taken, told>>
vars == <<box, msg, failRow, disk, job, mode, registered,
          faults, crashes, changes, entries, entrants, taken, told>>

(***************************************************************************)
(* Rows, message states and goroutines.                                    *)
(***************************************************************************)
RowState == {"absent", "pending", "claimed", "sending", "uncertain", "done", "failed"}
MsgState == {"none", "queued", "sent", "UNKNOWN", "UNDELIV", "REJECTD", "trimmed"}
Step == {"idle", "lookup", "mark", "recheck", "call", "inflight", "complete",
         "uncertain", "failMsg", "failRow", "failBox", "undo"}
Cause == {"none", "missing", "rejected", "timeout"}

Row == [state : RowState, owner : Name \cup {None}, attempt : Nat, due : BOOLEAN]
Image == [box : [Item -> Row], msg : [Item -> MsgState], failRow : [Item -> BOOLEAN]]
Job == {j \in [pc : Step, item : Item \cup {None}, attempt : Nat, tries : 0..2,
               cause : Cause, queued : BOOLEAN] : j.pc # "idle" => j.item \in Item}

\* A free semaphore slot.
FreeSlot == [pc |-> "idle", item |-> None, attempt |-> 0, tries |-> 0,
             cause |-> "none", queued |-> FALSE]

\* processOutbox(item) about to start, with the row as ClaimOutbox returned it.
Started(i, attempt) == [pc |-> "lookup", item |-> i, attempt |-> attempt, tries |-> 0,
                        cause |-> "none", queued |-> FALSE]

Busy(t) == job[t].pc # "idle"
Holds(t, i) == Busy(t) /\ job[t].item = i

Init ==
  /\ box = [i \in Item |-> [state |-> "absent", owner |-> None, attempt |-> 0, due |-> FALSE]]
  /\ msg = [i \in Item |-> "none"]
  /\ failRow = [i \in Item |-> FALSE]
  /\ disk = [box |-> box, msg |-> msg, failRow |-> failRow]
  /\ job = [t \in Thread |-> FreeSlot]
  /\ mode = [p \in Proc |-> "up"]
  /\ registered = TRUE
  /\ faults = MaxFaults
  /\ crashes = MaxCrashes
  /\ changes = MaxChanges
  /\ entries = [i \in Item |-> 0]
  /\ entrants = [i \in Item |-> {}]
  /\ taken = [i \in Item |-> 0]
  /\ told = [i \in Item |-> FALSE]

-----------------------------------------------------------------------------
(***************************************************************************)
(* How a store call ends.  Saved: it is durable and the caller hears so.   *)
(* Lost: it took effect and the caller gets an error; in Postgres the      *)
(* reply was lost after the commit, in the file store persist failed.      *)
(* Unsaved: a Postgres call that had no effect, because of a fault or      *)
(* because the worker context is cancelled (the file store ignores it).    *)
(***************************************************************************)
Fault == faults > 0 /\ faults' = faults - 1

Snapshot == disk' = [box |-> box', msg |-> msg', failRow |-> failRow']

Cancelled(t) == Driver = "postgres" /\ mode[ProcOf[t]] = "stopping"

Saved == Snapshot /\ UNCHANGED faults

Lost == Fault /\ IF Driver = "postgres" THEN Snapshot ELSE UNCHANGED disk

Unsaved == Driver = "postgres" /\ Fault /\ UNCHANGED store

CallFails(t) == IF Cancelled(t) THEN UNCHANGED <<store, faults>> ELSE Unsaved

\* SubmitAtomic: message, idempotency key, quota and outbox row in one commit.
Enqueue(p, i) ==
  /\ mode[p] # "down"
  /\ box[i].state = "absent"
  /\ box' = [box EXCEPT ![i].state = "pending", ![i].due = TRUE]
  /\ msg' = [msg EXCEPT ![i] = "queued"]
  /\ UNCHANGED failRow
  /\ Saved \/ Lost
  /\ UNCHANGED <<job, mode, registered, crashes, changes, history>>

\* The retry delay of a row has elapsed.
BecomeDue(i) ==
  /\ box[i].state = "pending" /\ ~box[i].due
  /\ box' = [box EXCEPT ![i].due = TRUE]
  /\ disk' = [disk EXCEPT !.box[i].due = TRUE]
  /\ UNCHANGED <<msg, failRow, job, mode, registered, budget, history>>

(***************************************************************************)
(* One tick of a worker loop.  The loop claims at most ClaimLimit due      *)
(* rows, and no more than it has free slots; each goes to its own slot.    *)
(* When the call fails although it took effect (a lost reply, a failed     *)
(* file write) the rows stay claimed and no goroutine works on them.       *)
(***************************************************************************)
LoopSlots(p, n) == {t \in Thread : ProcOf[t] = p /\ NameOf[t] = n}
FreeSlots(p, n) == {t \in LoopSlots(p, n) : ~Busy(t)}
Claimable == {i \in Item : box[i].state = "pending" /\ box[i].due /\ box[i].attempt < MaxClaims}

ClaimRow(r, n) == [r EXCEPT !.state = "claimed", !.owner = n, !.attempt = @ + 1, !.due = FALSE]

ClaimOutbox(p, n, f) ==
  LET S == DOMAIN f IN
  /\ mode[p] = "up"
  /\ S # {}
  /\ Cardinality(S) <= ClaimLimit
  /\ \/ Driver = "postgres"    \* FOR UPDATE SKIP LOCKED may skip any row
     \/ S = Claimable
     \/ Cardinality(S) \in {ClaimLimit, Cardinality(FreeSlots(p, n))}
  /\ \A i, k \in S : f[i] = f[k] => i = k
  /\ box' = [i \in Item |-> IF i \in S THEN ClaimRow(box[i], n) ELSE box[i]]
  /\ UNCHANGED <<msg, failRow>>
  /\ \/ /\ job' = [t \in Thread |->
                     IF \E i \in S : f[i] = t
                       THEN LET i == CHOOSE k \in S : f[k] = t IN Started(i, box[i].attempt + 1)
                       ELSE job[t]]
        /\ Saved
     \/ /\ Lost
        /\ UNCHANGED job
  /\ UNCHANGED <<mode, registered, crashes, changes, history>>

\* workerLoop: the claims a loop can make in this state.
Claim(p, n) ==
  \E S \in SUBSET Claimable : \E f \in [S -> FreeSlots(p, n)] : ClaimOutbox(p, n, f)

\* workerLoop returns on shutdown before it has started a claimed row.
AbandonClaim(t) ==
  /\ mode[ProcOf[t]] = "stopping"
  /\ job[t].pc = "lookup"
  /\ job' = [job EXCEPT ![t] = FreeSlot]
  /\ UNCHANGED <<store, mode, registered, budget, history>>

-----------------------------------------------------------------------------
(***************************************************************************)
(* processOutbox, one step per store call.                                 *)
(***************************************************************************)

\* failOutbox: with a permanent error, or at the last attempt, the message
\* state and the receipt are written before the row.
Terminal(j) == j.attempt >= MaxAttempts \/ j.cause \in {"rejected", "timeout"}

BeginFail(j, cause) ==
  LET k == [j EXCEPT !.cause = cause, !.tries = 0] IN
  [k EXCEPT !.pc = IF Terminal(k) THEN "failMsg" ELSE "failBox"]

\* registry.Get.
LookupProvider(t) ==
  /\ job[t].pc = "lookup"
  /\ job' = [job EXCEPT ![t] = IF registered THEN [@ EXCEPT !.pc = "mark"]
                                             ELSE BeginFail(@, "missing")]
  /\ UNCHANGED <<store, mode, registered, budget, history>>

\* retryStoreTransition under the worker context: three tries, fewer when
\* the process is shutting down; then the goroutine ends.
MarkFailed(t) ==
  IF job[t].tries < 2 /\ mode[ProcOf[t]] = "up"
    THEN [job[t] EXCEPT !.pc = "mark", !.tries = @ + 1]
    ELSE FreeSlot

\* Mutant: claimed_by is not compared.
StateIn(i, n, states) == box[i].state \in states

OwnedIn(i, n, states) == box[i].state \in states /\ box[i].owner = n

\* The file store answers nil for a row that already is "sending" under the
\* same worker id; Postgres updates "claimed" rows and reads again otherwise.
Markable == IF Driver = "file" THEN {"claimed", "sending"} ELSE {"claimed"}

MarkOutboxSending(t) ==
  LET i == job[t].item
      ok == OwnedIn(i, NameOf[t], Markable)
      fail == job' = [job EXCEPT ![t] = MarkFailed(t)]
  IN
  /\ job[t].pc = "mark"
  /\ \/ /\ ok /\ ~Cancelled(t)
        /\ box' = [box EXCEPT ![i].state = "sending"]
        /\ UNCHANGED <<msg, failRow>>
        /\ \/ job' = [job EXCEPT ![t].pc = "call"] /\ Saved
           \/ fail /\ Lost
     \/ /\ ~ok /\ ~Cancelled(t)
        /\ job' = [job EXCEPT ![t] = IF Driver = "file" THEN MarkFailed(t)
                                     ELSE [@ EXCEPT !.pc = "recheck"]]
        /\ UNCHANGED <<store, faults>>
     \/ fail /\ CallFails(t)
  /\ UNCHANGED <<mode, registered, crashes, changes, history>>

\* Postgres only: the SELECT after an UPDATE that matched no row.
RecheckSending(t) ==
  /\ job[t].pc = "recheck"
  /\ \/ /\ ~Cancelled(t)
        /\ job' = [job EXCEPT ![t] = IF OwnedIn(@.item, NameOf[t], {"sending"})
                                       THEN [@ EXCEPT !.pc = "call"]
                                       ELSE MarkFailed(t)]
        /\ UNCHANGED <<store, faults>>
     \/ /\ CallFails(t)
        /\ job' = [job EXCEPT ![t] = MarkFailed(t)]
  /\ UNCHANGED <<mode, registered, crashes, changes, history>>

\* sendProvider is entered: from here on the upstream may have the message.
EnterProvider(t) ==
  LET i == job[t].item IN
  /\ job[t].pc = "call"
  /\ job' = [job EXCEPT ![t].pc = "inflight"]
  /\ entries' = [entries EXCEPT ![i] = @ + 1]
  /\ entrants' = [entrants EXCEPT ![i] = @ \cup {NameOf[t]}]
  /\ UNCHANGED <<store, mode, registered, budget, taken, told>>

\* The upstream took the first k segments of the message in this call.
Took(i, k) == taken' = [taken EXCEPT ![i] = IF @ < k THEN k ELSE @]

\* sendProvider returns.  SendAll submits the segments in turn and stops at
\* the first error.  A rejection is an answer of the upstream to one segment.
\* After a timeout or any other error that segment may have been taken or not.
ProviderReturns(t) ==
  LET i == job[t].item IN
  /\ job[t].pc = "inflight"
  /\ \/ /\ job' = [job EXCEPT ![t].pc = "complete", ![t].tries = 0]
        /\ Took(i, Segments[i])
     \/ /\ job' = [job EXCEPT ![t] = BeginFail(@, "rejected")]
        /\ \E k \in 0 .. Segments[i] - 1 : Took(i, k)
     \/ /\ ~RetryOnTimeout
        /\ job' = [job EXCEPT ![t] = BeginFail(@, "timeout")]
        /\ \E k \in 0 .. Segments[i] : Took(i, k)
     \/ /\ job' = [job EXCEPT ![t].pc = "uncertain", ![t].tries = 0]
        /\ \E k \in 0 .. Segments[i] : Took(i, k)
  /\ UNCHANGED <<store, mode, registered, budget, entries, entrants, told>>

\* The five-second context of the result writes may expire at any try.
CompleteFailed(t) ==
  {[job[t] EXCEPT !.pc = "uncertain", !.tries = 0]} \cup
  (IF job[t].tries < 2 THEN {[job[t] EXCEPT !.tries = @ + 1]} ELSE {})

\* CompleteOutboxSend: the message, the pending DLR rows and the outbox row
\* change together; a row that is "done" already is left alone.
CompleteOutboxSend(t) ==
  LET i == job[t].item
      ok == OwnedIn(i, NameOf[t], {"sending"}) /\ msg[i] # "trimmed"
      end == job' = [job EXCEPT ![t] = FreeSlot]
      fail == \E j \in CompleteFailed(t) : job' = [job EXCEPT ![t] = j]
  IN
  /\ job[t].pc = "complete"
  /\ \/ /\ ok
        /\ box' = [box EXCEPT ![i].state = "done"]
        /\ msg' = [msg EXCEPT ![i] = "sent"]
        /\ UNCHANGED failRow
        /\ (end /\ Saved) \/ (fail /\ Lost)
     \/ /\ box[i].state = "done"
        /\ UNCHANGED <<box, msg, failRow>>
        /\ (end /\ Saved) \/ (fail /\ Lost)
     \/ /\ ~ok /\ box[i].state # "done"
        /\ fail
        /\ UNCHANGED <<store, faults>>
     \/ fail /\ Unsaved
  /\ UNCHANGED <<mode, registered, crashes, changes, history>>

UncertainFailed(t) ==
  {FreeSlot} \cup (IF job[t].tries < 2 THEN {[job[t] EXCEPT !.tries = @ + 1]} ELSE {})

\* MarkOutboxUncertain: row "uncertain", message UNKNOWN.
MarkOutboxUncertain(t) ==
  LET i == job[t].item
      ok == OwnedIn(i, NameOf[t], {"sending", "uncertain"})
      fail == \E j \in UncertainFailed(t) : job' = [job EXCEPT ![t] = j]
  IN
  /\ job[t].pc = "uncertain"
  /\ \/ /\ ok
        /\ box' = [box EXCEPT ![i].state = "uncertain"]
        /\ msg' = [msg EXCEPT ![i] = IF @ = "trimmed" THEN @ ELSE "UNKNOWN"]
        /\ UNCHANGED failRow
        /\ \/ job' = [job EXCEPT ![t] = FreeSlot] /\ Saved
           \/ fail /\ Lost
     \/ /\ ~ok
        /\ fail
        /\ UNCHANGED <<store, faults>>
     \/ fail /\ Unsaved
  /\ UNCHANGED <<mode, registered, crashes, changes, history>>

-----------------------------------------------------------------------------
(***************************************************************************)
(* failOutbox.                                                             *)
(***************************************************************************)

\* terminalFailureDLR: an SMPP status is a rejection, anything else UNDELIV.
FailureState(cause) == IF cause = "rejected" THEN "REJECTD" ELSE "UNDELIV"

\* Mutant: the message keeps its state when the row fails.
FailMessageSkipped(t) ==
  /\ job[t].pc = "failMsg"
  /\ job' = [job EXCEPT ![t].pc = IF job[t].item \in WantsReceipt THEN "failRow" ELSE "failBox"]
  /\ UNCHANGED <<store, mode, registered, budget, history>>

\* UpdateMessageState; its error is ignored.
FailMessage(t) ==
  LET i == job[t].item IN
  /\ job[t].pc = "failMsg"
  /\ job' = [job EXCEPT ![t].pc = IF i \in WantsReceipt THEN "failRow" ELSE "failBox"]
  /\ \/ /\ msg[i] = "trimmed"                 \* ErrNotFound
        /\ UNCHANGED <<store, faults>>
     \/ /\ msg[i] # "trimmed" /\ ~Cancelled(t)
        /\ msg' = [msg EXCEPT ![i] = FailureState(job[t].cause)]
        /\ UNCHANGED <<box, failRow>>
        /\ Saved \/ Lost
     \/ CallFails(t)
  /\ UNCHANGED <<mode, registered, crashes, changes, history>>

\* Mutant: the receipt is stored but not marked ready.
SaveFailureReceiptNotReady(t) ==
  /\ job[t].pc = "failRow"
  /\ job' = [job EXCEPT ![t].pc = "failBox", ![t].queued = TRUE]
  /\ UNCHANGED <<store, mode, registered, budget, history>>

\* queueTerminalFailureDLR: the receipt is stored ready for delivery.
SaveFailureReceipt(t) ==
  LET i == job[t].item
      fail == job' = [job EXCEPT ![t].pc = "failBox"]
  IN
  /\ job[t].pc = "failRow"
  /\ \/ /\ ~Cancelled(t)
        /\ failRow' = [failRow EXCEPT ![i] = TRUE]
        /\ UNCHANGED <<box, msg>>
        /\ \/ job' = [job EXCEPT ![t].pc = "failBox", ![t].queued = TRUE] /\ Saved
           \/ fail /\ Lost
     \/ fail /\ CallFails(t)
  /\ UNCHANGED <<mode, registered, crashes, changes, history>>

\* The store decides between retry and failure: Postgres by the caller's
\* retry time alone, the memory store also by the row's own attempt count.
FailsForGood(i, j) == Terminal(j) \/ (Driver = "file" /\ box[i].attempt >= MaxAttempts)

\* Mutant: a terminal failure is recorded whatever the row's state.
FailableFromAny(i, j) == IF FailsForGood(i, j) THEN RowState ELSE {"claimed"}

FailableFrom(i, j) == IF FailsForGood(i, j) THEN {"claimed", "sending"} ELSE {"claimed"}

FailRow(i, j) ==
  IF FailsForGood(i, j)
    THEN [box[i] EXCEPT !.state = "failed", !.owner = IF Driver = "file" THEN @ ELSE None]
    ELSE [box[i] EXCEPT !.state = "pending", !.owner = None, !.due = FALSE]

\* FailOutbox does not look at claimed_by.  On success the queued receipt is
\* handed to the DLR workers, on error it is deleted again.
FailOutbox(t) ==
  LET i == job[t].item
      ok == box[i].state \in FailableFrom(i, job[t])
      fail == job' = [job EXCEPT ![t] = IF @.queued THEN [@ EXCEPT !.pc = "undo"] ELSE FreeSlot]
  IN
  /\ job[t].pc = "failBox"
  /\ \/ /\ ok /\ ~Cancelled(t)
        /\ box' = [box EXCEPT ![i] = FailRow(i, job[t])]
        /\ UNCHANGED <<msg, failRow>>
        /\ \/ job' = [job EXCEPT ![t] = FreeSlot] /\ Saved
           \/ fail /\ Lost
     \/ /\ ~ok /\ ~Cancelled(t)
        /\ fail
        /\ UNCHANGED <<store, faults>>
     \/ fail /\ CallFails(t)
  /\ UNCHANGED <<mode, registered, crashes, changes, history>>

\* DeletePending of the receipt after FailOutbox failed; its error is ignored.
DeleteFailureReceipt(t) ==
  /\ job[t].pc = "undo"
  /\ job' = [job EXCEPT ![t] = FreeSlot]
  /\ \/ /\ ~Cancelled(t)
        /\ failRow' = [failRow EXCEPT ![job[t].item] = FALSE]
        /\ UNCHANGED <<box, msg>>
        /\ Saved \/ Lost
     \/ CallFails(t)
  /\ UNCHANGED <<mode, registered, crashes, changes, history>>

\* The client acknowledges a ready receipt, which the periodic FlushDLR, a bind or
\* the DLR worker that FailOutbox woke has sent it, and the row is deleted.  An
\* attempt that finds no bound client or no acknowledgement leaves the row as it is;
\* nobody has to bind or to acknowledge (Receipts models the attempts).
DeliverFailureReceipt(p, i) ==
  /\ mode[p] = "up"
  /\ failRow[i]
  /\ failRow' = [failRow EXCEPT ![i] = FALSE]
  /\ told' = [told EXCEPT ![i] = TRUE]
  /\ UNCHANGED <<box, msg>>
  /\ Saved \/ Lost
  /\ UNCHANGED <<job, mode, registered, crashes, changes, entries, entrants, taken>>

-----------------------------------------------------------------------------
(***************************************************************************)
(* The sweep of stale claims, the registry, and the life of a process.     *)
(***************************************************************************)

\* Mutant: the sweep leaves out rows at their last attempt.
StaleWithAttemptsLeft == {i \in Item : box[i].state = "claimed" /\ box[i].attempt < MaxAttempts
                                       /\ (ClaimOutlivesTimeout \/ \A t \in Thread : ~Holds(t, i))}

\* Claims older than claim_timeout.  With ClaimOutlivesTimeout a goroutine
\* that is merely slow may still be working on such a row.
Stale == {i \in Item : box[i].state = "claimed"
                       /\ (ClaimOutlivesTimeout \/ \A t \in Thread : ~Holds(t, i))}

RequeueStaleOutbox(p, S) ==
  /\ mode[p] = "up"
  /\ S # {}
  /\ box' = [i \in Item |-> IF i \in S
                THEN [box[i] EXCEPT !.state = "pending", !.owner = None, !.due = TRUE]
                ELSE box[i]]
  /\ UNCHANGED <<msg, failRow>>
  /\ Saved \/ Lost
  /\ UNCHANGED <<job, mode, registered, crashes, changes, history>>

\* requeueStale: the rows one sweep finds, at most claimLimit * workers of them.
Requeue(p) == \E S \in SUBSET Stale : RequeueStaleOutbox(p, S)

\* Registry.Replace adds or removes the provider.
ReloadProviders ==
  /\ changes > 0
  /\ changes' = changes - 1
  /\ registered' = ~registered
  /\ UNCHANGED <<store, job, mode, faults, crashes, history>>

\* trimMessagesLocked: a submit of some other message pushes this one out of
\* the newest messages that the memory store keeps.
TrimMessage(i) ==
  /\ Driver = "file"
  /\ \A p \in Proc : mode[p] # "down"
  /\ msg[i] \notin {"none", "trimmed"}
  /\ changes > 0
  /\ changes' = changes - 1
  /\ msg' = [msg EXCEPT ![i] = "trimmed"]
  /\ UNCHANGED <<box, failRow>>
  /\ Saved
  /\ UNCHANGED <<job, mode, registered, crashes, history>>

\* Dispatcher.Close cancels the loops and waits for the goroutines.
Stop(p) ==
  /\ mode[p] = "up"
  /\ crashes > 0
  /\ crashes' = crashes - 1
  /\ mode' = [mode EXCEPT ![p] = "stopping"]
  /\ UNCHANGED <<store, job, registered, faults, changes, history>>

Exit(p) ==
  /\ mode[p] = "stopping"
  /\ \A t \in Thread : ProcOf[t] = p => ~Busy(t)
  /\ mode' = [mode EXCEPT ![p] = "down"]
  /\ UNCHANGED <<store, job, registered, budget, history>>

\* The process dies; its goroutines are gone, the store keeps what it holds.
Crash(p) ==
  /\ mode[p] # "down"
  /\ crashes > 0
  /\ crashes' = crashes - 1
  /\ mode' = [mode EXCEPT ![p] = "down"]
  /\ job' = [t \in Thread |-> IF ProcOf[t] = p THEN FreeSlot ELSE job[t]]
  /\ UNCHANGED <<store, registered, faults, changes, history>>

\* Mutant: load requeues rows in "sending" too.
LoadedSending(r) == IF r.state \in {"claimed", "sending"}
                      THEN [r EXCEPT !.state = "pending", !.owner = None, !.due = TRUE]
                      ELSE r

\* FileStore.load turns claimed rows into pending ones.
Loaded(r) == IF r.state = "claimed"
               THEN [r EXCEPT !.state = "pending", !.owner = None, !.due = TRUE]
               ELSE r

\* A new process starts.  Postgres has kept everything; the file store reads
\* the last snapshot it wrote.  (That a start may find no snapshot is in FileStore
\* and IdAlloc; here the file is there.)
Restart(p) ==
  /\ mode[p] = "down"
  /\ mode' = [mode EXCEPT ![p] = "up"]
  /\ \/ /\ Driver = "postgres"
        /\ UNCHANGED <<box, msg, failRow>>
     \/ /\ Driver = "file"
        /\ box' = [i \in Item |-> Loaded(disk.box[i])]
        /\ msg' = disk.msg
        /\ failRow' = disk.failRow
  /\ UNCHANGED <<disk, job, registered, budget, history>>

-----------------------------------------------------------------------------
ThreadStep(t) ==
  \/ AbandonClaim(t)
  \/ LookupProvider(t)
  \/ MarkOutboxSending(t)
  \/ RecheckSending(t)
  \/ EnterProvider(t)
  \/ ProviderReturns(t)
  \/ CompleteOutboxSend(t)
  \/ MarkOutboxUncertain(t)
  \/ FailMessage(t)
  \/ SaveFailureReceipt(t)
  \/ FailOutbox(t)
  \/ DeleteFailureReceipt(t)

Next ==
  \/ \E p \in Proc, i \in Item : Enqueue(p, i)
  \/ \E i \in Item : BecomeDue(i)
  \/ \E p \in Proc, n \in Name : Claim(p, n)
  \/ \E t \in Thread : ThreadStep(t)
  \/ \E p \in Proc, i \in Item : DeliverFailureReceipt(p, i)
  \/ \E p \in Proc : Requeue(p)
  \/ ReloadProviders
  \/ \E i \in Item : TrimMessage(i)
  \/ \E p \in Proc : Stop(p)
  \/ \E p \in Proc : Exit(p)
  \/ \E p \in Proc : Crash(p)
  \/ \E p \in Proc : Restart(p)

Spec == Init /\ [][Next]_vars

(***************************************************************************)
(* Fairness.  Worker loops and the sweep run on tickers for as long as the *)
(* process is up, goroutines run to their end, retry delays elapse, and    *)
(* the operator restarts what is down.  Nothing obliges a client to submit *)
(* or to take a receipt, a store to fail or a process to crash.            *)
(***************************************************************************)
Fairness ==
  /\ \A t \in Thread : WF_vars(ThreadStep(t))
  /\ \A p \in Proc, n \in Name : WF_vars(Claim(p, n))
  /\ \A p \in Proc : WF_vars(Requeue(p)) /\ WF_vars(Exit(p)) /\ WF_vars(Restart(p))
  /\ \A i \in Item : WF_vars(BecomeDue(i))

FairSpec == Spec /\ Fairness

-----------------------------------------------------------------------------
(***************************************************************************)
(* Properties.                                                             *)
(***************************************************************************)
Committed == {"sending", "uncertain", "done", "failed"}
Outcome == {"uncertain", "done", "failed"}

\* Every store row, goroutine and counter has its type: a goroutine that is
\* running has a row, and retryStoreTransition makes at most three tries.
TypeOK ==
  /\ box \in [Item -> Row]
  /\ msg \in [Item -> MsgState]
  /\ failRow \in [Item -> BOOLEAN]
  /\ disk \in Image
  /\ job \in [Thread -> Job]
  /\ mode \in [Proc -> {"up", "stopping", "down"}]
  /\ registered \in BOOLEAN
  /\ faults \in Nat /\ crashes \in Nat /\ changes \in Nat
  /\ entries \in [Item -> Nat]
  /\ entrants \in [Item -> SUBSET Name]
  /\ taken \in [Item -> Nat]
  /\ told \in [Item -> BOOLEAN]

\* Fail closed: whatever stale-claim sweeps, retries, crashes, failed writes
\* and restarts do, a row whose "sending" is durable is never queued again.
FailClosed ==
  [][\A i \in Item : disk.box[i].state \in Committed => disk'.box[i].state \in Committed]_vars

\* A durable outcome stays: no late CompleteOutboxSend, FailOutbox or
\* MarkOutboxUncertain of another goroutine replaces it.
OutcomeFinal ==
  [][\A i \in Item : disk.box[i].state \in Outcome => disk'.box[i].state = disk.box[i].state]_vars

\* "sending" is durable before the provider is entered: a row whose message
\* the upstream may have comes back from a crash neither pending nor claimed.
CallIsPersisted ==
  /\ \A i \in Item : entries[i] > 0 => disk.box[i].state \in Committed
  /\ \A t \in Thread :
       job[t].pc \in {"call", "inflight"} => disk.box[job[t].item].state \in Committed

\* The ownership checks of the store let the goroutines of only one worker id
\* into the provider for a row.
OneWorkerIdEnters ==
  \A i \in Item : \A m, n \in entrants[i] : m = n

\* The provider is entered at most once for a row.
AtMostOneEntry == \A i \in Item : entries[i] <= 1

\* A row is "done" only if the upstream took every segment of its message.
DoneIsAccepted == \A i \in Item : box[i].state = "done" => taken[i] = Segments[i]

\* What the message says is true.  REJECTD: the upstream has not accepted all its
\* segments from any goroutine.  And as long as no store call has failed, once no
\* goroutine works on a row the message tells the row's outcome.
MessageTellsOutcome ==
  \A i \in Item :
    /\ msg[i] = "REJECTD" => taken[i] < Segments[i]
    /\ (faults = MaxFaults /\ \A t \in Thread : ~Holds(t, i)) =>
      /\ box[i].state = "done" => msg[i] \in {"sent", "trimmed"}
      /\ box[i].state = "uncertain" => msg[i] \in {"UNKNOWN", "trimmed"}
      /\ box[i].state = "failed" => msg[i] \in {"UNDELIV", "REJECTD", "trimmed"}

\* Every durable row is eventually handed to the provider or given up, across
\* crashes, lost claims and failing store calls.
EventuallyCommitted ==
  \A i \in Item : (disk.box[i].state = "pending") ~> (box[i].state \in Committed)

\* No store call has failed, and no process has crashed or been shut down.
Undisturbed == faults = MaxFaults /\ crashes = MaxCrashes

\* Without crashes and store failures every row gets an outcome.  And a row that
\* failed has its receipt stored ready for a client that asked for one, until the
\* client has acknowledged it: over crashes, shutdowns and restarts between any two
\* of the calls that record the failure, as long as no store call has failed.
FailureHasReceipt ==
  \A i \in Item :
    /\ (box[i].state = "pending") ~> (box[i].state \in Outcome \/ ~Undisturbed)
    /\ [](faults = MaxFaults /\ box[i].state = "failed" /\ i \in WantsReceipt => failRow[i] \/ told[i])
=============================================================================
