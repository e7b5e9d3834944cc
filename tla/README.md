# Verification of the mysmpp gateway

mysmpp is an SMS gateway. Clients submit messages over SMPP or HTTP, the gateway
stores them, sends them to an upstream provider over SMPP or HTTP, and passes the
delivery receipts of the upstream back. The TLA+ modules here model the parts of it
in which goroutines, processes, store failures and crashes meet, and the algorithms
with boundaries that are easy to get wrong. TLC checks them on small instances, and
TLAPS proves the central results for every value of the constants. Paths below are
relative to `src/`.

## The system and its modules

A message that passes the checks of `Submit` becomes one outbox row in the same commit
as the message itself. A worker loop claims rows under its worker id; one goroutine per
claimed row looks up the provider, persists the row as `sending`, calls the provider and
records the result. A sweep returns claims that are older than `claim_timeout`. Rows in
`sending` are never returned: the code prefers a message that is not sent to one that is
sent twice. The provider hands the message to a connection of the upstream pool, whose
window bounds the unanswered PDUs. Receipts of the upstream are matched with the pending
rows of the message, aggregated over its segments and pushed to the client, at once or
when it binds again.

| module | source | state and actions |
|---|---|---|
| `Outbox` | `internal/dispatch/dispatcher.go` `workerLoop` to `failOutbox`, `requeueLoop`; the outbox calls of `internal/store` | rows, messages, failure receipts, their durable copy, one goroutine per slot; claim, each store call, provider call, sweep, reload, shutdown, crash, restart |
| `Delivery`, `OutboxDelivery` | what `Outbox` promises | the durable life of a message, how often it was handed over, whether the upstream took it; the refinement mapping |
| `FileStore` | `internal/store/file.go` `persist`, `load` | memory and the three files; every file operation, its failure, kills |
| `Submit` | `dispatcher.go` `Submit`; `SubmitAtomic` of the stores | keys, quota, messages; the checks in their order, the transaction statement by statement with its locks |
| `IdAlloc` | `internal/dispatch/idalloc.go` | the stored sequence, the range of each process, starts with and without the store file |
| `Receipts` | `dispatcher.go` `HandleDLR`, `aggregateDLR`, `finishDLRDelivery`, `FlushDLR` | pending rows, message states, the locks of `lockDLR`, handlers and flushes step by step |
| `Upstream` | `internal/smppclient` `connection.go`, `window.go` | the reconnect loop, out queue and loops of each connection, window, calls of `submit` |
| `SmppServer` | `internal/smpp/server.go`, `cmd/mysmpp/main.go` | sessions, binds, in-flight counts, the job queue and its workers |
| `SmppSession` | `internal/smpp/session.go` | read, write and enquire loops over the out channel, `SendDeliverSM` and its answers |
| `Cdr` | `internal/cdr/writer.go` | `Emit`, `Close`, the writing loop, files, the sink replaced by a reload |
| `Reload` | `internal/httpgw/rules.go` `UpdateConfig`; `internal/admin`; `internal/config/bootstrap.go` | the configuration in use, its parts, writers and providers, the file; each step of an edit |
| `Routing` | `internal/router/router.go` | compile and resolve; operators for prefix, window and weight |
| `Limits` | `internal/tenant/tenant.go` `Allow`; `rules.go` `applyRisk`, `allowRate` | token bucket, counters, sweep, requests with their clock reading |
| `ProviderLimit` | `internal/provider/ratelimit.go` | token channel, ticker, refilling goroutine, waiting calls |
| `Filter` | `internal/filter` | the automaton built level by level, the scan, the verdict, the mask |
| `Text` | `internal/message` | encoding, segments, reassembly, seven-bit packing |

`OutboxProofs`, `OutboxTimely`, `LimitStoreProofs`, `CdrProofs`, `SubmitProofs`,
`ReceiptsProofs`, `ConnectionProofs` and `ReloadProofs` hold the theorems. The `MC*` modules
hold the instances. Modules that are extended together have names of their own
(`UpstreamInit`, `ServerSpec`, `sessionVars`). `PROJECT.json` lists each part of the
repository with its status, each definition with its lines, and each hazard with the
properties that cover it.

### How the models correspond to the code

`Outbox`. `box[i]` is the outbox row (`due`: `next_retry_at` has passed), `msg[i]` the
state of the message (`trimmed` when the memory store dropped it), `failRow[i]` the
pending row `"local-failure:" + GatewayID`, `job[t]` the goroutine in slot `t`. Each store
call of `processOutbox` and `failOutbox` is one action. `Driver` selects the store:

- Postgres: `MarkOutboxSending` is an UPDATE and, if no row matched, a SELECT. A call
  fails without effect, or takes effect and loses its reply. A call under the cancelled
  worker context fails; the result writes have a context of their own.
- File: the memory changes first and `persist` writes it afterwards. A failed write
  leaves the memory changed and the caller with an error; a crash goes back to the
  snapshot (`disk`). `FileStore` opens up the step that replaces the snapshot. That a
  start may find no snapshot is modelled there and in `IdAlloc`; `Outbox` and `Submit`
  are about starts that find it.

A provider call lets the upstream take any prefix of the segments and returns success, a
rejection, a timeout or another error, as `Pool.SendAll` and `connection.submit` do. Time
appears as `due`, as staleness (`ClaimOutlivesTimeout`) and as the five-second context of
the result writes, which may expire at any try. `DeliverFailureReceipt` is the
acknowledgement of a failure receipt by its client, which need not come; the attempts to
get it are in `Receipts`. The order in which rows are claimed is
open; so is which of the claimed rows a shutdown abandons.

`FileStore`. The contents of memory and files are sets of changes. The death of the
process is modelled, not that of the machine: a rename is permanent once made.

`Submit`. Refusals are the codes of `Submit` in its order; a reload makes some of them
apply. With Postgres the lock of the key row and of the quota row are explicit; with the
file store one mutex covers the change and `persist` follows.

`IdAlloc`. `RestartEmpty` is the start of a file store that finds no file: the sequence
begins again. The history variable `resets` counts these starts, and each id is recorded
with the number of those before it.

`SmppServer`. A limit that is 0 or less means none, as in the code. A window of 0 or less
counts as 1 in `main` (`JobsCap`) and as 16 in `Session` (`SessionWindow`).

`Cdr`. Flush, close and rename of a file that is finished fail each on its own. A file
whose rename failed keeps its temporary name (`left`).

`Receipts`. A handler takes its receipt in any order and any number of times, takes the
lock of the row's bucket in its process, and makes each store call as a step of its own.
A flush works on the rows it listed before, at most `FlushLimit` (500 in the code): the
oldest ones with Postgres, any with the memory store (`OldestFirst`). HTTP clients have a
callback instead of a session. Two history variables take no
part in any guard: `acked` holds the states the client has acknowledged, `writers` the
processes that have written a receipt to a row. A row with two writers is `Shared`: the
locks of `lockDLR` exist per process and do not protect it.

`Upstream`. Timeouts may fire at any time, except that the idle check of `enquireLoop`
waits until a healthy peer has been served (`Drained`): its period is thirty seconds, a
round trip is not. The real queue has 128 places and the window 16. The queue still
fills when the peer stops reading, because each timeout frees a slot while the PDU stays
queued; the instances have one place.

`Limits`, `ProviderLimit`. Time is in ticks. A request may hold a clock reading up to
`MaxStale` ticks old when it gets the lock. Rate and burst of a bucket do not change: that
`Allow` fills the bucket when a reload changes them is left out. A provider's refill may be
late by any time.

`Reload`. An edit copies the configuration, changes one part, validates, prepares,
swaps the parts one by one, closes what was replaced, and writes the file; it may be
refused or fail at each of these, and a crash may come at any.

`Filter`, `Text`, `Routing`. Letters, digits and clock times come from small sets; limits
of a segment, a day and a week are constants. The automaton, the splitting, the packing and
the window test are the code's algorithms, and the properties compare them with direct
definitions of what they should give.

## Runs

Components that share no state are checked in one run: a variable that never changes
(`driver`, `part`, `case`, `subject`) says which of them moves.

| run | instances | properties |
|---|---|---|
| `outbox` | two processes that both have a `worker-1` and share Postgres, and one process over the file store; 3 slots, slow goroutines, a fault, a crash | `OneWorkerIdEnters`, `FailClosed`, `OutcomeFinal` |
| `outbox_timely` | the same without slow goroutines; 2 segments, 2 faults, 2 crashes, fairness | `MessageTellsOutcome`, `KeepsPromise`, `EventuallyCommitted`, `FailureHasReceipt` |
| `stores` | file store with concurrent writers, faults and kills; ids over both stores, with a start without file; submits in the file store; a CDR writer that blocks replaced by one that drops | `RecoversUnlessReset`, `NoIdTwice`, `SubmitExact` (one message per key and an exact quota), `Accounted` |
| `submit` | five calls, of which three share a key: two processes over Postgres with a reload, a lost reply, a crash, an expiry; one over the file store that does not die | `OneIdPerKey`, `QuotaExact`, `RetryGetsOriginal`, `CallsAnswered` |
| `receipts` | a message in two segments; two processes with a fault and a crash; an HTTP callback beside a message without receipt | `FinalStateIsTrue`, `FinalIsTold`, `AllFinalIsRecorded` |
| `connections` | two calls at one slot with drops; a call beside a stalled peer; three connections over two session places; two without any limit; one session | `SlotsExact`, `UnsentStaysUnsent`, `JobsExact`, `AckIsReal` |
| `upstream_live` | a call and the enquire loop with a drop or a stall; receipts of two clients, one of which stays away, with a bind, a negative answer and a crash | `CallsReturn`, `StallHeals`, `ReadyIsFlushed` |
| `downstream_live` | sessions, one session's loops, Close of the CDR writer | `ClosedDrains`, `SilentEnds`, `SendersReturn`, `CloseEnds` |
| `rules` | one administrator with a fault and a crash, two without; route tables; counters; buckets; keyword tables; texts | `PartsAgree`, `SavedIsKept`, `ProvidersExact`, `BestRoute`, `WindowBound`, `RateBound`, `SendRate`, `FindExact`, `VerdictExact`, `SegmentsExact`, `PackedIsKept` |

Some properties carry the exception the code makes, so that the run includes the case:

- `MessageTellsOutcome` is about behaviours in which no store call has failed;
  so is the second half of `FailureHasReceipt`, while its first half ends also when a
  process stops. That the client takes the receipt is claimed by neither.
- `NoIdTwice` compares ids handed out with no empty start of the file store between them.
- `Accounted` allows lost events and files with a temporary name when a writer has
  reported an error.
- `JobsExact` claims room in the queue when `max_sessions` and `window_size` are set; its
  first half is for every configuration.
- `ReadyIsFlushed` is about a client that stays bound, while fewer than `FlushLimit`
  ready rows belong to clients without a receiver in that process.
- `EventuallyCommitted` goes from a row that is durably pending to the state in the store:
  the memory of the file store may be ahead of its disk.
- `RetryGetsOriginal` is about the rate limit and the quota only.
- `FinalIsTold` excepts a client that was sent an older intermediate state, by a flush of
  an SMPP client or by a handler of a second process.
- `AllFinalIsRecorded` is about behaviours without a failed store call or a crash, and
  about messages whose rows were not written by two processes.
- `CallsReturn` and `StallHeals` of `Upstream` except a sender that waits for ever at a
  full queue.
- `PartsAgree` and `SavedIsKept` are about requests that come one after the other
  (`~overlap`), `ProvidersExact` about any.
- `FindExact` is about keywords of up to two letters.
- `PackedIsKept` excepts a last `@` on a byte boundary.
- `RateBound` is about a bucket whose rate and burst do not change.
- `WindowBound` allows, in a span of the window less `MaxStale`, two windows' worth.
- `SendRate` counts messages: a message of several segments takes one token.

### Bounds

`MaxClaims` bounds the claims of a row, `MaxFaults` failing calls, `MaxCrashes` crashes and
shutdowns, `MaxChanges` reloads and trims of the outbox, `MaxReceipts` receipts, `MaxNacks`
negative answers, `MaxResets` starts without a store file, `MaxCdrFaults` calls of the CDR
loop in which the file system fails, `MaxAttempts`, `MaxDrops`, `MaxStalls` and
`MaxDelivers` connections and what the peer does, `MaxSubmits` and `MaxRequests` what a
client sends, `MaxEdits`, `MaxReloads`, `MaxExpiries` edits, reloads and expiring keys,
`MaxTime` ticks. Rows do not influence each other except through slots and the claim limit,
so one is enough; what matters is the number of goroutines that meet at it. Three slots give
two goroutines of one worker id in different processes and one of another id; two attempts
give a retry and a last attempt. In `outbox_timely`, `MaxClaims` is larger than the crashes
and faults can use up, so that the bound never stands in for progress. Queues, windows and
session tables have one or two places, so that they are full in many states; `FlushLimit` is
1, so that a row of another client takes the whole listing. In `upstream_live` the row of
the client that stays away does not expire. Texts are long enough for three segments and for
a packed byte boundary; text, prefix and keyword sets hold the letters of each class the
code tells apart. What is proved does not depend on any bound.

Deadlock is not checked: once the bounds are used up the models have nothing left to do,
as the gateway has without traffic. That no one waits for ever is stated as liveness.

### Fairness

Weak fairness of the steps of every goroutine that can run, of the loops on tickers
(claims, sweep, flush, enquire), of the elapse of a delay, of a timeout of the code, and of
the restart of a stopped process, which is the supervisor's part. Strong fairness where a
goroutine waits for a lock or for room in a channel that others may take first: Go queues
waiters of a channel in order, and a mutex hands over to a waiter that starves. A provider
call returns because `connection.submit` and the HTTP client have timeouts; the case in
which it does not is the exception of `CallsReturn`. Nothing is assumed of clients,
peers, administrators, faults or crashes: in particular no client has to bind or to take
a receipt. What `ReadyIsFlushed` says of a client that stays bound rests on `MaxNacks`: it
refuses finitely often.

## What does not hold

Three runs end in a violation. Each checks a sentence of the documentation:

- `outbox_slow` (`AtMostOneEntry`): `docs/RELIABILITY_GUARDRAILS.md:59` calls the size of
  `claim_timeout` "an operational recommendation, not a correctness requirement". Worker
  ids repeat in every process, so the ownership check passes for a second goroutine with
  the same id and both enter the provider. What the check does give is
  `OneWorkerIdEnters`; both it and `AtMostOneEntry` for timely goroutines are proved.
- `file_store_kill` (`KilledStoreRecovers`): `mysmpp-测试文档.md:292` (REL-01) expects a
  restart after kill -9 to recover the store. A kill between the two renames of `persist`
  leaves only the `.bak` file, and `load` starts empty.
- `filter_long` (`AllFound`): `mysmpp-测试文档.md:146` says of overlapping keywords that all
  are hit. Below depth two of the trie `buildAC` sets a failure link to the wrong node or
  to none: `aaa` is found once in `aaaa`.

The work on the models met further sentences that the code does not keep. Where a
property is named, it is stated in the module and is not part of a run.

| code | what happens | said in |
|---|---|---|
| `dispatcher.go:839` | a row in `sending` or `uncertain` is never tried again (`FailClosed`) | `docs/mysmpp-问题核查与解决方案.md:108`: at least once |
| `connection.go:310` | a timeout of `submit_sm_resp` is a permanent error: the row becomes failed though the upstream may have the message | `docs/ARCHITECTURE.md:114`: timeouts become uncertain |
| `dispatcher.go:837` | an upstream that is not bound makes the row uncertain at the first attempt (`Upstream`, `UnreachableIsRetried`); so does a provider's rate limit | `mysmpp-测试文档.md:294`: retried with backoff |
| `dispatcher.go:1233` | a flush pushes the copy it listed before the lock; the final state is then never told (exception of `FinalIsTold`) | `mysmpp-修复文档.md:192` |
| `file.go:339` | a duplicate is answered from memory without `persist`; a crash loses it (`OneIdPerKey`, `AckedIsStored` with the file store) | `docs/HTTP_TO_SMPP_API_ZH.md:85`: the original id for 24 hours |
| `dispatcher.go:218` | a retry is refused after a reload of tenant, filter or route (exception of `RetryGetsOriginal`) | the same |
| `dispatcher.go:1213` | a flush lists 500 rows of all clients; rows of clients that stay away can take them all (exception of `ReadyIsFlushed`) | `mysmpp-修复文档.md:376`: a periodic flush for each client that is bound |
| `connection.go:257` | `enquireLoop` waits at the full queue and does not close the connection (exception of `StallHeals`) | `docs/OPTIMIZATION_REPORT_2026-07-26.md:49` |
| `connection.go:334` | `send` waits at the queue of an ended connection (exception of `CallsReturn`) | `docs/CONFIGURATION.md:409`: bounded by `response_timeout_ms` |
| `server.go:142` | binds at the same time exceed the limit (`SmppServer`, `BindLimit`) | `docs/DR_FULL_FLOW_TEST_PLAN.md:437` |
| `writer.go:84` | numbers of a CDR file may be out of order (`Cdr`, `SeqIncreases`) | `mysmpp-测试文档.md:196` |
| `writer.go:81` | an `Emit` that meets the old writer closed is lost (`Cdr`, `ReloadLosesNothing`) | `mysmpp-改造开发文档 (2).md:320` |
| `rules.go:438`, `:450` | two administrators leave parts of both configurations, or close the writer in use (`PartsAgree` of `Reload` with two) | `mysmpp-改造开发文档 (2).md:603`, `:606` |
| `admin/server.go:404` | of two edits at the same time the first is undone (`SavedIsKept`) | `docs/ADMIN.md:67` |
| `bootstrap.go:184` | a crash between the renames leaves no configuration file (`Reload`, `FileSurvives`) | `docs/ARCHITECTURE.md:153` |
| `dispatcher.go:294` | time windows are compared with the UTC clock (`Routing`, `WindowIsLocal` with a zone) | `mysmpp-改造开发文档 (2).md:88` |
| `engine.go:181` | the tail of an overlapping hit stays unmasked (`Filter`, `HitsAreMasked`) | `mysmpp-改造开发文档 (2).md:258` |
| `codec.go:134` | a last `@` on a byte boundary is dropped (`Text`, `PackedRoundTrip`) | `mysmpp-测试文档.md:70` |

## Proofs

All theorems hold for any number of rows, messages, segments, goroutines, calls, sessions,
processes, faults and crashes, and for every value of the bounds. They rest on the named
assumptions of the modules, which TLC evaluates on every run: bounds and sizes are natural
numbers (windows, queues and segment counts at least 1), a goroutine has one process,
handlers are no flushes, the states before the final one are not final, with the file
store there is one process.

None of the properties is inductive. What each proof adds:

- `OutboxProofs`: `TypeOK` is inductive. For `FailClosed`, `CallIsPersisted` and
  `OneWorkerIdEnters`, `OwnerInv` adds: the row of a goroutine that has passed
  `MarkOutboxSending` (a sender) is durably committed; a row that is not has never been
  called for; what is durably committed is committed in memory too, and with Postgres the
  two agree; while a row is `sending`, its `claimed_by` is the worker id of all its senders
  and of everyone who has entered. Nearly all actions are quiet (no new sender, no row made
  `sending`, none taken back), which `QuietStep` handles once; `MarkStep` is the exception.
- `OutboxTimely`, all under `~ClaimOutlivesTimeout`. `HoldInv`: a row has one goroutine at
  most; a queued row has none; a goroutine that has not called yet works on a row nobody has
  called for; receipts are written for terminal failures only. `PromiseInv`: the memory is
  never behind the disk, a goroutine at the provider has a row that is durably `sending`,
  and a row is done, or about to be, only when the upstream took all segments. From these
  `Outbox` implements `Delivery` step by step (`KeepsPromise`), and `OutcomeFinal` and
  `DoneIsAccepted` follow. For `MessageTellsOutcome`, `RefusalInv` says why a goroutine that
  fails a row may do so, and `ToldInv` where in `failOutbox` the message is ahead of its row.
- `LimitStoreProofs`: the bounds on spans are made inductive by counting what is still to be
  spent: tokens and a waiting tick (`LimiterInv`), the credit of the bucket up to the
  latest time it has seen (`BucketInv`), and for each counter the window it is in and the
  one before (`WindowInv`). `AckedOnDisk` is not inductive, because `Install` replaces the
  newest snapshot by the copy of one call. `PersistInv` adds that this copy holds every
  acknowledged change: it was made under `persistMu`, and only its holder acknowledges.
  `NoIdTwice` needs that the unused parts of the ranges are disjoint from each other and
  from what was handed out since the last empty start (`Recent`), which the stored sequence
  covers (`IdInv`).
- `CdrProofs`: `Accounted` follows from `CdrInv`: no queue and no file holds an event twice,
  an event is in one place from the moment `Emit` returns (`Tally`), every step of the loop
  moves it to one other place (`EventsMove`), and a writer whose loop does not run has
  nobody sending to it. Whatever calls of a finish fail, its events go to a finished
  file, to one that keeps its temporary name, or are lost, and the latter two leave an
  error behind (`Finishes`, `Reported`).
- `SubmitProofs`: with Postgres `OneIdPerKey`, `OneMessagePerKey` and `AckedIsStored` follow
  from `KeyInv`: what was acknowledged and what was stored under a living key are the id the
  key names, that id is stored, and a key that is locked names none. With the file store
  `OneMessagePerKey` follows from `OnceInv`, which says the same of the memory and of what
  the snapshot holds. `RetryGetsOriginal` is proved for both: who debits the quota holds the
  lock of a key that names nothing. `QuotaExact`, for both stores, follows from `QuotaInv`:
  the usage is the number of segments of what is stored, in memory and on disk; a call about
  to commit holds the lock of the quota row and has found room, which nobody can take before
  it commits; a call stores once. `JobsExact` follows from `JobsInv`; that the queue has
  room when sessions and window are limited (`Sized`) needs a count over sessions
  (`FiberBound`: jobs of at most `MaxSessions` sessions, each with at most a window of them,
  do not fill the queue), proved by induction over a finite set of sets.
- `ReceiptsProofs`: `ReceiptsInv` says of each goroutine what it knows at the place where
  it is (`JobOK`), of each row what its flags mean (`RowOK`) and of each message who is going
  to record its state (`MsgOK`). A goroutine at work holds the lock of its row and carries a
  receipt the upstream sent; after its update the row has the state it wrote, unless it is
  shared, since a second goroutine at the row is one of another process; before it has
  recorded, the row is not delivered. So when all rows of a message are final and the state
  is not recorded, some handler has yet to aggregate or has aggregated all of them, and what
  `finishDLRDelivery` concluded from its check stays true until the rows are deleted.
  `Aggregated` proves that `aggregateDLR` computes the worst outcome.
- `ConnectionProofs`: `SlotsExact` follows from `SlotInv`, which says in which places a call
  is pending or releasing. `UnsentStaysUnsent` needs that no queue and no write loop carries
  the PDU of a call that has answered that it was not sent (`SentInv`). `AckIsReal` needs
  that an `ok` status was set by the client's answer to that delivery (`SessionInv`).
- `ReloadProofs`: `ProvidersExact` holds for any number of administrators: each request
  answers for the providers it is to build, has built and not yet registered, or has taken
  out and not yet closed. No two of them, and no request and the registry, answer for the
  same providers, and nothing else is open (`ProvidersInv`). `PartsInv` and
  `SavedInv` say which steps a request has done at each place. `SavedIsKept` is proved for
  `Seed = None`, as in the run: with a seed file the start after a crash between the two
  renames of `AtomicWriteFile` takes the seed. The history variable `overlap` marks
  behaviours in which two requests were served at the same time.

Only model-checked:

- every liveness property: fairness is out of the prover's reach;
- `BestRoute`, `FindExact`, `VerdictExact`, `SegmentsExact` and `PackedIsKept`: what a
  recursive definition computes needs induction over its data;
- `OutcomeFinal` with slow goroutines, and `OneIdPerKey` with the file store (which a crash
  may break, see above; the run has none there).

`SubmitExact` of the run `stores` is `OneMessagePerKey` and `QuotaExact` of an instance; both
are proved. Only proved, and in no run's list: the type invariants and `CallIsPersisted`,
`AckedOnDisk` and `AckedIsStored`, which the listed properties of the same run rest on; and
`AtMostOneEntry` and `DoneIsAccepted` for timely goroutines, which `KeepsPromise` contains.

## Not modelled

- Byte-level PDU, TLV and UDH encoding, receipt text parsing, HTTP request rules and
  templates, static pages, configuration defaults, destination rules over generated number
  tables: sequential data transformations without state.
- Regular expressions of the filter; their hits join those of the keywords. The guess at
  the encoding of received bytes.
- The choice among the connections of a pool, and the mock and HTTP providers beyond the
  results of a call.
- Login, sessions and pages of the console; the edits made through it are in `Reload`.
- `EnqueueOutbox`, `AckOutbox` and the map of `internal/dispatch/pending.go` have no caller
  in the running gateway. `cmd/testesme` and `tools/countryrules` are tools.
