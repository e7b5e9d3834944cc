------------------------------- MODULE Submit -------------------------------
(***************************************************************************)
(* Dispatcher.Submit: the checks before a message is stored, and the       *)
(* SubmitAtomic of the stores with its idempotency keys and daily quota.   *)
(*                                                                         *)
(* Clients retry a submit with the key of the first one.  Submits of all   *)
(* processes meet in the store: as transactions with row locks in          *)
(* Postgres, under one mutex in the memory of the file store, which writes *)
(* its snapshot afterwards.  The gateway id of a call is the call itself;  *)
(* IdAlloc shows that calls get different ids.                             *)
(***************************************************************************)
EXTENDS Integers, Sequences, FiniteSets, FiniteSetsExt

CONSTANTS
  Call,         \* calls of Submit
  Key,          \* client id and client message id
  NoKey,        \* a submit without client message id
  KeyOf,        \* KeyOf[c]
  SizeOf,       \* SizeOf[c]: segments
  Limit,        \* daily segments of the tenant
  Process,      \* gateway processes
  Home,         \* Home[c]: the process that handles c
  Driver,       \* "postgres" or "file"
  None,
  Refusable,    \* checks that configuration or load may make refuse
  MaxReloads, MaxFaults, MaxCrashes, MaxExpiries   \* bounds

\* The checks of Submit in their order, by the reason they report.
Check == <<"tenant_disabled", "tenant_tps", "filter_block", "filter_mask_multipart",
           "no_route", "bad_dest", "no_provider">>
Reason == {Check[i] : i \in DOMAIN Check}

ASSUME SubmitAssumption ==
  /\ KeyOf \in [Call -> Key \cup {NoKey}] /\ NoKey \notin Key
  /\ SizeOf \in [Call -> Nat \ {0}]
  /\ Home \in [Call -> Process]
  /\ Limit \in Nat
  /\ None \notin Call /\ "tenant_tps" \notin Call /\ "quota" \notin Call
  /\ Driver \in {"postgres", "file"}
  /\ Refusable \subseteq Reason
  /\ MaxReloads \in Nat /\ MaxFaults \in Nat /\ MaxCrashes \in Nat /\ MaxExpiries \in Nat

VARIABLES
  db,        \* what the store holds: key, used, stored
  disk,      \* its durable copy; equal to db in Postgres
  pc,        \* where each call is
  reply,     \* what each call returned: the id of a message or an error
  keyLock,   \* the transaction that has inserted a key and not committed
  quotaLock, \* the transaction that has debited the quota and not committed
  refusing,  \* checks that refuse at present
  reloads, faults, crashes, expiries,   \* what may still happen
  acks,      \* history: ids returned for each key since the key last expired
  since      \* history: messages stored under each key since it last expired

vars == <<db, disk, pc, reply, keyLock, quotaLock, refusing, reloads, faults, crashes, expiries, acks, since>>
locks == <<keyLock, quotaLock>>
bounds == <<reloads, faults, crashes, expiries>>

Init ==
  /\ db = [key |-> [k \in Key |-> None], used |-> 0, stored |-> {}]
  /\ disk = db
  /\ pc = [c \in Call |-> "new"]
  /\ reply = [c \in Call |-> "none"]
  /\ keyLock = [k \in Key |-> None]
  /\ quotaLock = None
  /\ refusing = {}
  /\ reloads = MaxReloads /\ faults = MaxFaults /\ crashes = MaxCrashes /\ expiries = MaxExpiries
  /\ acks = [k \in Key |-> {}]
  /\ since = [k \in Key |-> {}]

-----------------------------------------------------------------------------
Keyed(c) == KeyOf[c] # NoKey

\* CheckIdempotency: the key of the call names a message.
Known(c) == Keyed(c) /\ db.key[KeyOf[c]] # None

Goes(c, place) == pc' = [pc EXCEPT ![c] = place]

\* The call returns an error.
Refuses(c, why) ==
  /\ Goes(c, "done")
  /\ reply' = [reply EXCEPT ![c] = why]
  /\ UNCHANGED acks

\* The call returns the id of a message: its own, or that of an earlier call
\* with the same key (receiptForExisting).
Accepts(c, id) ==
  /\ Goes(c, "done")
  /\ reply' = [reply EXCEPT ![c] = id]
  /\ acks' = IF Keyed(c) THEN [acks EXCEPT ![KeyOf[c]] = @ \cup {id}] ELSE acks

\* The first check that refuses, in the order of the code.
FirstRefusal == LET i == Min({i \in DOMAIN Check : Check[i] \in refusing}) IN Check[i]

\* Mutant: a call beyond the rate limit is refused although its key is known.
CheckRefusesKnown(c) ==
  /\ pc[c] = "new"
  /\ \/ refusing = {} /\ Goes(c, "submit") /\ UNCHANGED <<reply, acks>>
     \/ refusing # {} /\ Refuses(c, FirstRefusal)
  /\ UNCHANGED <<db, disk, locks, refusing, bounds, since>>

\* Tenant, rate limit, filter, route, destination and provider.  A call beyond
\* the rate limit is still answered if its key is known.
CheckCall(c) ==
  /\ pc[c] = "new"
  /\ \/ refusing = {} /\ Goes(c, "submit") /\ UNCHANGED <<reply, acks>>
     \/ refusing # {} /\ FirstRefusal = "tenant_tps" /\ Known(c) /\ Accepts(c, db.key[KeyOf[c]])
     \/ refusing # {} /\ (FirstRefusal # "tenant_tps" \/ ~Known(c)) /\ Refuses(c, FirstRefusal)
  /\ UNCHANGED <<db, disk, locks, refusing, bounds, since>>

\* What a committed submit leaves in the store.
Stored(c) ==
  [key |-> IF Keyed(c) THEN [db.key EXCEPT ![KeyOf[c]] = c] ELSE db.key,
   used |-> db.used + SizeOf[c],
   stored |-> db.stored \cup {c}]
NotesStored(c) == since' = IF Keyed(c) THEN [since EXCEPT ![KeyOf[c]] = @ \cup {c}] ELSE since

\* Mutant: the quota is compared before the debit is added.
OverQuotaByOne(c) == SizeOf[c] > Limit \/ db.used > Limit

OverQuota(c) == SizeOf[c] > Limit \/ db.used > Limit - SizeOf[c]

-----------------------------------------------------------------------------
(* SubmitAtomic in Postgres: one transaction. *)

InTx(c) == pc[c] \in {"debit", "commit"}

\* The end of a transaction releases its locks.
EndsTx(c) ==
  /\ keyLock' = [k \in Key |-> IF keyLock[k] = c THEN None ELSE keyLock[k]]
  /\ quotaLock' = IF quotaLock = c THEN None ELSE quotaLock

\* Mutant: the key is looked up without waiting for an uncommitted one.
InsertKeyUnlocked(c) ==
  /\ Driver = "postgres" /\ pc[c] = "submit"
  /\ IF Known(c)
     THEN Accepts(c, db.key[KeyOf[c]])
     ELSE Goes(c, "debit") /\ UNCHANGED <<reply, acks>>
  /\ UNCHANGED <<db, disk, locks, refusing, bounds, since>>

\* INSERT ... ON CONFLICT DO NOTHING waits for a transaction that has inserted
\* the key; a committed key makes the call a duplicate.
InsertKey(c) ==
  /\ Driver = "postgres" /\ pc[c] = "submit"
  /\ Keyed(c) => keyLock[KeyOf[c]] = None
  /\ IF Known(c)
     THEN Accepts(c, db.key[KeyOf[c]]) /\ UNCHANGED keyLock
     ELSE /\ Goes(c, "debit")
          /\ keyLock' = IF Keyed(c) THEN [keyLock EXCEPT ![KeyOf[c]] = c] ELSE keyLock
          /\ UNCHANGED <<reply, acks>>
  /\ UNCHANGED <<db, disk, quotaLock, refusing, bounds, since>>

\* Mutant: a refused debit leaves its transaction open.
DebitKeepsTx(c) ==
  /\ pc[c] = "debit" /\ quotaLock = None
  /\ IF OverQuota(c)
     THEN Refuses(c, "quota") /\ UNCHANGED locks
     ELSE Goes(c, "commit") /\ quotaLock' = c /\ UNCHANGED <<keyLock, reply, acks>>
  /\ UNCHANGED <<db, disk, refusing, bounds, since>>

\* The upsert of the quota row waits for the row lock; nothing updated means
\* that the quota is used up, and the key is rolled back.
DebitQuota(c) ==
  /\ pc[c] = "debit" /\ quotaLock = None
  /\ IF OverQuota(c)
     THEN Refuses(c, "quota") /\ EndsTx(c)
     ELSE Goes(c, "commit") /\ quotaLock' = c /\ UNCHANGED <<keyLock, reply, acks>>
  /\ UNCHANGED <<db, disk, refusing, bounds, since>>

\* Message and outbox row are inserted and everything is committed.  The reply
\* of the commit may be lost.
Commit(c) ==
  /\ pc[c] = "commit"
  /\ db' = Stored(c) /\ disk' = db'
  /\ NotesStored(c)
  /\ EndsTx(c)
  /\ \/ Accepts(c, c) /\ UNCHANGED faults
     \/ faults > 0 /\ faults' = faults - 1 /\ Refuses(c, "error")
  /\ UNCHANGED <<refusing, reloads, crashes, expiries>>

\* A statement fails; the transaction is rolled back.
TxFails(c) ==
  /\ InTx(c)
  /\ faults > 0 /\ faults' = faults - 1
  /\ Refuses(c, "error")
  /\ EndsTx(c)
  /\ UNCHANGED <<db, disk, refusing, reloads, crashes, expiries, since>>

-----------------------------------------------------------------------------
(* SubmitAtomic in the file store: the memory, then the snapshot. *)

\* Mutant: the key is written without being looked up.
SubmitBlind(c) ==
  /\ Driver = "file" /\ pc[c] = "submit"
  /\ \/ OverQuota(c) /\ Refuses(c, "quota") /\ UNCHANGED <<db, since>>
     \/ /\ ~OverQuota(c)
        /\ db' = Stored(c) /\ NotesStored(c)
        /\ Goes(c, "saving")
        /\ UNCHANGED <<reply, acks>>
  /\ UNCHANGED <<disk, locks, refusing, bounds>>

SubmitAtomic(c) ==
  /\ Driver = "file" /\ pc[c] = "submit"
  /\ \/ Known(c) /\ Accepts(c, db.key[KeyOf[c]]) /\ UNCHANGED <<db, since>>
     \/ ~Known(c) /\ OverQuota(c) /\ Refuses(c, "quota") /\ UNCHANGED <<db, since>>
     \/ /\ ~Known(c) /\ ~OverQuota(c)
        /\ db' = Stored(c) /\ NotesStored(c)
        /\ Goes(c, "saving")
        /\ UNCHANGED <<reply, acks>>
  /\ UNCHANGED <<disk, locks, refusing, bounds>>

\* persist writes all of the memory, or fails and leaves it changed.
Save(c) ==
  /\ pc[c] = "saving"
  /\ \/ disk' = db /\ Accepts(c, c) /\ UNCHANGED faults
     \/ faults > 0 /\ faults' = faults - 1 /\ Refuses(c, "error") /\ UNCHANGED disk
  /\ UNCHANGED <<db, locks, refusing, reloads, crashes, expiries, since>>

-----------------------------------------------------------------------------
\* A key gets older than its time to live; its record is deleted by the next
\* call that meets it.
Expire(k) ==
  /\ expiries > 0 /\ expiries' = expiries - 1
  /\ db.key[k] # None
  /\ db' = [db EXCEPT !.key[k] = None]
  /\ disk' = [disk EXCEPT !.key[k] = None]
  /\ acks' = [acks EXCEPT ![k] = {}]
  /\ since' = [since EXCEPT ![k] = {}]
  /\ UNCHANGED <<pc, reply, locks, refusing, reloads, faults, crashes>>

\* Configuration is reloaded, the rate limit is reached or has recovered.
Reload ==
  /\ reloads > 0 /\ reloads' = reloads - 1
  /\ refusing' \in (SUBSET Refusable) \ {refusing}
  /\ UNCHANGED <<db, disk, pc, reply, locks, faults, crashes, expiries, acks, since>>

\* A process dies: its calls are never answered, its transactions are rolled
\* back, and the file store starts again from its snapshot.  (That a start may find
\* no snapshot is in FileStore and IdAlloc; here the file is there.)
Crash(p) ==
  LET lost == {c \in Call : Home[c] = p /\ pc[c] \notin {"new", "done"}} IN
  /\ crashes > 0 /\ crashes' = crashes - 1
  /\ pc' = [c \in Call |-> IF c \in lost THEN "done" ELSE pc[c]]
  /\ reply' = [c \in Call |-> IF c \in lost THEN "gone" ELSE reply[c]]
  /\ keyLock' = [k \in Key |-> IF keyLock[k] \in lost THEN None ELSE keyLock[k]]
  /\ quotaLock' = IF quotaLock \in lost THEN None ELSE quotaLock
  /\ db' = disk
  /\ since' = [k \in Key |-> since[k] \cap disk.stored]
  /\ UNCHANGED <<disk, refusing, reloads, faults, expiries, acks>>

CallStep(c) ==
  \/ CheckCall(c) \/ InsertKey(c) \/ DebitQuota(c) \/ Commit(c) \/ SubmitAtomic(c) \/ Save(c)

Next ==
  \/ \E c \in Call : CallStep(c) \/ TxFails(c)
  \/ \E k \in Key : Expire(k)
  \/ Reload
  \/ \E p \in Process : Crash(p)

Spec == Init /\ [][Next]_vars

\* Goroutines proceed.  The calls that compete for a lock are finitely many, so
\* that weak fairness is enough.
FairSpec == Spec /\ \A c \in Call : WF_vars(CallStep(c))

-----------------------------------------------------------------------------
Image == [key : [Key -> Call \cup {None}], used : Nat, stored : SUBSET Call]

\* In Postgres a transaction in progress holds its locks.
TypeOK ==
  /\ db \in Image /\ disk \in Image
  /\ Driver = "postgres" => disk = db /\ \A c \in Call : pc[c] # "saving"
  /\ pc \in [Call -> {"new", "submit", "debit", "commit", "saving", "done"}]
  /\ keyLock \in [Key -> Call \cup {None}] /\ quotaLock \in Call \cup {None}
  /\ acks \in [Key -> SUBSET Call] /\ since \in [Key -> SUBSET Call]
  /\ \A c \in Call : /\ InTx(c) /\ Keyed(c) => keyLock[KeyOf[c]] = c
                     /\ pc[c] = "commit" <=> quotaLock = c

\* Within the lifetime of a key at most one message is stored under it, although
\* calls with the same key run at the same time and some of them fail.
OneMessagePerKey == \A k \in Key : \A i, j \in since[k] : i = j

\* Within the lifetime of a key every successful call with it returns the same
\* id, before and after crashes.
OneIdPerKey == \A k \in Key : \A i, j \in acks[k] : i = j

\* An id that was returned for a key that is still alive names a message that
\* is durable.
AckedIsStored == \A k \in Key : acks[k] \subseteq disk.stored

\* The segments of the messages of the calls S.
SegmentsOf(S) == UNION {{c} \X (1..SizeOf[c]) : c \in S}

\* The daily usage is what the stored messages cost, no more and no less, and
\* within the limit: duplicates, refused and failed calls cost nothing.
QuotaExact ==
  /\ db.used = Cardinality(SegmentsOf(db.stored))
  /\ db.used <= Limit

\* Why the keys hold in Postgres: what was stored or returned under a living key
\* is the message the key names, and a key that a transaction is inserting does
\* not exist yet.
KeyInv ==
  /\ TypeOK
  /\ \A k \in Key : /\ acks[k] \cup since[k] \subseteq {db.key[k]}
                    /\ db.key[k] # None => db.key[k] \in db.stored
                    /\ keyLock[k] # None => db.key[k] = None

\* A retry of a submit that was stored is not refused for the rate limit or the
\* quota while its key is alive: it gets the id of the first submit.  (It may be
\* refused by a filter, route or tenant that has changed since: those checks come
\* before the key is looked up.)
RetryGetsOriginal ==
  [][\A c \in Call :
       Keyed(c) /\ reply[c] = "none" /\ reply'[c] \in {"tenant_tps", "quota"} => db.key[KeyOf[c]] = None]_vars

\* Every call returns, or its process dies: no transaction waits for ever.
CallsAnswered == \A c \in Call : (pc[c] # "new") ~> (pc[c] = "done")
=============================================================================
