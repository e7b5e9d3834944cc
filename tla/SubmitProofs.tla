---------------------------- MODULE SubmitProofs ----------------------------
(***************************************************************************)
(* Proofs about the way of a submit.  Submit: within the lifetime of a key *)
(* one message is stored and every successful call returns its id, and the *)
(* daily usage is what the stored messages cost.  SmppServer: the submits  *)
(* in flight of a session and the room for them in the shared queue.  All  *)
(* for any number of calls, keys, processes, sessions and workers.         *)
(***************************************************************************)
EXTENDS Submit, SmppServer, FiniteSetTheorems, WellFoundedInduction, TLAPS

-----------------------------------------------------------------------------
(* Submit: the idempotency keys. *)

Spots == {"new", "submit", "debit", "commit", "saving", "done"}

\* At the start no key exists.
LEMMA KeyInit == Init => KeyInv
  BY SubmitAssumption DEF Init, KeyInv, TypeOK, Image, InTx

\* A call that is answered with a known id, refused or moved on, without a change
\* of the store: the answer is the id that the key names.
LEMMA AnswerKeeps ==
  ASSUME KeyInv, NEW c \in Call,
         UNCHANGED <<db, disk, since>>,
         \/ acks' = acks
         \/ Known(c) /\ acks' = [acks EXCEPT ![KeyOf[c]] = @ \cup {db.key[KeyOf[c]]}],
         TypeOK \/ acks' = acks
  PROVE  /\ acks' \in [Key -> SUBSET Call]
         /\ \A k \in Key : /\ acks'[k] \cup since'[k] \subseteq {db'.key[k]}
                           /\ db'.key[k] # None => db'.key[k] \in db'.stored
  <1> USE SubmitAssumption DEF KeyInv, TypeOK, Image
  <1>1. CASE acks' = acks
    BY <1>1
  <1>2. CASE Known(c) /\ acks' = [acks EXCEPT ![KeyOf[c]] = @ \cup {db.key[KeyOf[c]]}]
    <2>1. KeyOf[c] \in Key /\ db.key[KeyOf[c]] \in Call
      BY <1>2 DEF Known, Keyed
    <2> QED BY <1>2, <2>1
  <1> QED BY <1>1, <1>2

\* The checks before the store.
LEMMA CheckKeeps ==
  ASSUME KeyInv, NEW c \in Call, CheckCall(c)
  PROVE  KeyInv'
  <1> USE SubmitAssumption DEF KeyInv, TypeOK, Image
  <1>1. /\ pc[c] = "new" /\ pc' \in [Call -> Spots]
        /\ pc'[c] \in {"submit", "done"} /\ \A d \in Call : d # c => pc'[d] = pc[d]
    BY DEF CheckCall, Goes, Accepts, Refuses, Spots
  <1>2. UNCHANGED <<db, disk, keyLock, quotaLock, since>>
    BY DEF CheckCall, locks
  <1>3. acks' = acks \/ (Known(c) /\ acks' = [acks EXCEPT ![KeyOf[c]] = @ \cup {db.key[KeyOf[c]]}])
    BY DEF CheckCall, Accepts, Refuses, Known
  <1>4. /\ acks' \in [Key -> SUBSET Call]
        /\ \A k \in Key : /\ acks'[k] \cup since'[k] \subseteq {db'.key[k]}
                          /\ db'.key[k] # None => db'.key[k] \in db'.stored
    BY <1>2, <1>3, AnswerKeeps
  <1> QED BY <1>1, <1>2, <1>4 DEF InTx, Spots

\* The key is inserted under its lock, or the call is a duplicate.
LEMMA InsertKeeps ==
  ASSUME KeyInv, NEW c \in Call, InsertKey(c)
  PROVE  KeyInv'
  <1> USE SubmitAssumption DEF KeyInv, TypeOK, Image
  <1>1. /\ pc[c] = "submit" /\ pc' \in [Call -> Spots]
        /\ \A d \in Call : d # c => pc'[d] = pc[d]
    BY DEF InsertKey, Goes, Accepts, Spots
  <1>2. UNCHANGED <<db, disk, quotaLock, since>>
    BY DEF InsertKey
  <1>3. acks' = acks \/ (Known(c) /\ acks' = [acks EXCEPT ![KeyOf[c]] = @ \cup {db.key[KeyOf[c]]}])
    BY DEF InsertKey, Accepts, Known
  <1>4. /\ acks' \in [Key -> SUBSET Call]
        /\ \A k \in Key : /\ acks'[k] \cup since'[k] \subseteq {db'.key[k]}
                          /\ db'.key[k] # None => db'.key[k] \in db'.stored
    BY <1>2, <1>3, AnswerKeeps
  <1>5. CASE Known(c)
    <2>1. pc'[c] = "done" /\ keyLock' = keyLock
      BY <1>1, <1>5 DEF InsertKey, Accepts, Goes
    <2> QED BY <1>1, <1>2, <1>4, <2>1 DEF InTx, Spots
  <1>6. CASE ~Known(c)
    <2>1. /\ pc'[c] = "debit"
          /\ keyLock' = IF Keyed(c) THEN [keyLock EXCEPT ![KeyOf[c]] = c] ELSE keyLock
          /\ Keyed(c) => keyLock[KeyOf[c]] = None
      BY <1>1, <1>6 DEF InsertKey, Goes
    <2>2. Keyed(c) => KeyOf[c] \in Key /\ db.key[KeyOf[c]] = None
      BY <1>6 DEF Keyed, Known
    <2>3. \A d \in Call : d # c /\ InTx(d) /\ Keyed(d) /\ Keyed(c) => KeyOf[d] # KeyOf[c]
      BY <2>1
    <2>4. \A d \in Call : (InTx(d) /\ Keyed(d))' => keyLock'[KeyOf[d]] = d
      BY <1>1, <2>1, <2>2, <2>3 DEF InTx, Keyed
    <2> QED BY <1>1, <1>2, <1>4, <2>1, <2>2, <2>4 DEF InTx, Spots
  <1> QED BY <1>5, <1>6

\* What the end of a transaction leaves of the locks.
LEMMA EndsTxLocks ==
  ASSUME KeyInv, NEW c \in Call, EndsTx(c), Goes(c, "done"), InTx(c)
  PROVE  /\ keyLock' \in [Key -> Call \cup {None}] /\ quotaLock' \in Call \cup {None}
         /\ pc' \in [Call -> Spots]
         /\ \A d \in Call : /\ (InTx(d) /\ Keyed(d))' => keyLock'[KeyOf[d]] = d
                            /\ pc'[d] = "commit" <=> quotaLock' = d
                            /\ pc'[d] = "saving" => pc[d] = "saving"
         /\ \A k \in Key : keyLock'[k] # None => keyLock'[k] = keyLock[k] /\ keyLock[k] # c
         /\ Keyed(c) => keyLock'[KeyOf[c]] = None
  <1> USE SubmitAssumption DEF KeyInv, TypeOK, Image
  <1>1. pc' \in [Call -> Spots] /\ pc'[c] = "done" /\ \A d \in Call : d # c => pc'[d] = pc[d]
    BY DEF Goes, Spots
  <1>2. keyLock' \in [Key -> Call \cup {None}] /\ quotaLock' \in Call \cup {None}
    BY DEF EndsTx
  <1>3. \A k \in Key : keyLock'[k] # None => keyLock'[k] = keyLock[k] /\ keyLock[k] # c
    BY DEF EndsTx
  <1>4. Keyed(c) => keyLock'[KeyOf[c]] = None
    BY DEF EndsTx, Keyed
  <1>5. \A d \in Call : (InTx(d) /\ Keyed(d))' => keyLock'[KeyOf[d]] = d
    BY <1>1 DEF EndsTx, InTx, Keyed
  <1>6. \A d \in Call : pc'[d] = "commit" <=> quotaLock' = d
    BY <1>1 DEF EndsTx
  <1> QED BY <1>1, <1>2, <1>3, <1>4, <1>5, <1>6

\* The quota is debited under its lock, or the transaction is rolled back.
LEMMA DebitKeeps ==
  ASSUME KeyInv, NEW c \in Call, DebitQuota(c)
  PROVE  KeyInv'
  <1> USE SubmitAssumption DEF KeyInv, TypeOK, Image
  <1>1. pc[c] = "debit" /\ quotaLock = None /\ UNCHANGED <<db, disk, since, acks>>
    BY DEF DebitQuota, Refuses
  <1>2. CASE OverQuota(c)
    <2>1. EndsTx(c) /\ Goes(c, "done") /\ InTx(c)
      BY <1>1, <1>2 DEF DebitQuota, Refuses, InTx
    <2> QED BY <1>1, <2>1, EndsTxLocks DEF Spots
  <1>3. CASE ~OverQuota(c)
    <2>1. pc' = [pc EXCEPT ![c] = "commit"] /\ quotaLock' = c /\ keyLock' = keyLock
      BY <1>3 DEF DebitQuota, Goes
    <2> QED BY <1>1, <2>1 DEF InTx
  <1> QED BY <1>2, <1>3

\* A statement fails and everything is rolled back.
LEMMA TxFailsKeeps ==
  ASSUME KeyInv, NEW c \in Call, TxFails(c)
  PROVE  KeyInv'
  <1> USE SubmitAssumption DEF KeyInv, TypeOK, Image
  <1>1. EndsTx(c) /\ Goes(c, "done") /\ InTx(c) /\ UNCHANGED <<db, disk, since, acks>>
    BY DEF TxFails, Refuses
  <1> QED BY <1>1, EndsTxLocks DEF Spots

\* The commit stores the message under a key that did not exist: its transaction
\* held the lock of the key.
LEMMA CommitKeeps ==
  ASSUME KeyInv, NEW c \in Call, Commit(c)
  PROVE  KeyInv'
  <1> USE SubmitAssumption DEF KeyInv, TypeOK, Image
  <1>1. EndsTx(c) /\ Goes(c, "done") /\ InTx(c) /\ pc[c] = "commit"
    BY DEF Commit, Accepts, Refuses, InTx
  <1>2. /\ db' = Stored(c) /\ disk' = db'
        /\ since' = IF Keyed(c) THEN [since EXCEPT ![KeyOf[c]] = @ \cup {c}] ELSE since
        /\ acks' = acks \/ acks' = IF Keyed(c) THEN [acks EXCEPT ![KeyOf[c]] = @ \cup {c}] ELSE acks
    BY DEF Commit, NotesStored, Accepts, Refuses
  <1>3. /\ db'.key = IF Keyed(c) THEN [db.key EXCEPT ![KeyOf[c]] = c] ELSE db.key
        /\ db'.used = db.used + SizeOf[c]
        /\ db'.stored = db.stored \cup {c}
    BY <1>2 DEF Stored
  <1>4. Keyed(c) => KeyOf[c] \in Key /\ keyLock[KeyOf[c]] = c /\ db.key[KeyOf[c]] = None
    BY <1>1 DEF Keyed
  <1>5. Keyed(c) => acks[KeyOf[c]] = {} /\ since[KeyOf[c]] = {}
    BY <1>4
  <1>6. acks' \in [Key -> SUBSET Call] /\ since' \in [Key -> SUBSET Call]
    BY <1>2, <1>4
  <1>7. \A k \in Key : acks'[k] \cup since'[k] \subseteq {db'.key[k]}
    BY <1>2, <1>3, <1>4, <1>5
  <1>8. \A k \in Key : db'.key[k] # None => db'.key[k] \in db'.stored
    BY <1>3, <1>4
  <1>9. db' \in Image
    <2>1. (IF Keyed(c) THEN [db.key EXCEPT ![KeyOf[c]] = c] ELSE db.key) \in [Key -> Call \cup {None}]
      BY <1>4
    <2>2. db.used + SizeOf[c] \in Nat /\ db.stored \cup {c} \in SUBSET Call
      OBVIOUS
    <2> QED BY <1>2, <2>1, <2>2 DEF Stored
  <1>10. \A k \in Key : keyLock'[k] # None => db'.key[k] = None
    <2>1. \A k \in Key : keyLock'[k] # None => keyLock'[k] = keyLock[k] /\ keyLock[k] # c
      BY <1>1, EndsTxLocks
    <2> QED BY <1>3, <1>4, <2>1
  <1> QED BY <1>1, <1>2, <1>6, <1>7, <1>8, <1>9, <1>10, EndsTxLocks DEF Spots

\* An expired key is forgotten together with what was stored and returned under it.
LEMMA ExpireKeeps ==
  ASSUME KeyInv, Driver = "postgres", NEW k \in Key, Expire(k)
  PROVE  KeyInv'
  <1> USE SubmitAssumption DEF KeyInv, TypeOK, Image
  <1>1. /\ db' = [db EXCEPT !.key[k] = None] /\ disk' = [disk EXCEPT !.key[k] = None]
        /\ acks' = [acks EXCEPT ![k] = {}] /\ since' = [since EXCEPT ![k] = {}]
        /\ UNCHANGED <<pc, keyLock, quotaLock>>
    BY DEF Expire, locks
  <1> QED BY <1>1 DEF InTx

\* A crash rolls back the transactions of its process; the store keeps what was
\* committed.
LEMMA CrashKeeps ==
  ASSUME KeyInv, Driver = "postgres", NEW p \in Process, Crash(p)
  PROVE  KeyInv'
  <1> USE SubmitAssumption DEF KeyInv, TypeOK, Image
  <1> DEFINE lost == {c \in Call : Home[c] = p /\ pc[c] \notin {"new", "done"}}
  <1>1. /\ db' = db /\ disk' = disk /\ acks' = acks
        /\ since' = [k \in Key |-> since[k] \cap disk.stored]
        /\ pc' = [c \in Call |-> IF c \in lost THEN "done" ELSE pc[c]]
        /\ keyLock' = [k \in Key |-> IF keyLock[k] \in lost THEN None ELSE keyLock[k]]
        /\ quotaLock' = IF quotaLock \in lost THEN None ELSE quotaLock
    BY DEF Crash
  <1>2. \A c \in Call : (InTx(c) /\ Keyed(c))' => keyLock'[KeyOf[c]] = c
    BY <1>1 DEF InTx, Keyed
  <1>3. \A c \in Call : pc'[c] = "commit" <=> quotaLock' = c
    BY <1>1
  <1>4. /\ pc' \in [Call -> Spots] /\ keyLock' \in [Key -> Call \cup {None}]
        /\ quotaLock' \in Call \cup {None} /\ since' \in [Key -> SUBSET Call]
    BY <1>1 DEF Spots
  <1>5. \A k \in Key : since'[k] \subseteq since[k] /\ (keyLock'[k] # None => keyLock[k] # None)
    BY <1>1
  <1> QED BY <1>1, <1>2, <1>3, <1>4, <1>5 DEF Spots

\* The steps of the file store do not occur in Postgres, and a reload changes
\* nothing that KeyInv mentions.
LEMMA KeyInvNext ==
  ASSUME KeyInv, Driver = "postgres", [Next]_vars
  PROVE  KeyInv'
  <1>1. ASSUME NEW c \in Call, CallStep(c) PROVE KeyInv'
    <2>1. ~SubmitAtomic(c)
      BY DEF SubmitAtomic
    <2>2. ~Save(c)
      BY DEF Save, KeyInv, TypeOK
    <2> QED BY <1>1, <2>1, <2>2, CheckKeeps, InsertKeeps, DebitKeeps, CommitKeeps DEF CallStep
  <1>2. CASE Reload \/ UNCHANGED vars
    BY <1>2 DEF Reload, vars, locks, KeyInv, TypeOK, InTx
  <1> QED BY <1>1, <1>2, TxFailsKeeps, ExpireKeeps, CrashKeeps DEF Next

\* In Postgres every successful call with a living key returns the same id.
THEOREM KeyNamesOneId == Driver = "postgres" /\ Spec => []OneIdPerKey
  <1>1. KeyInv => OneIdPerKey
    BY DEF KeyInv, OneIdPerKey
  <1>2. SUFFICES ASSUME Driver = "postgres" PROVE Spec => []OneIdPerKey
    OBVIOUS
  <1>3. KeyInv /\ [Next]_vars => KeyInv'
    BY <1>2, KeyInvNext
  <1> QED BY KeyInit, <1>1, <1>2, <1>3, PTL DEF Spec

\* In Postgres an id that was returned for a living key is durable.
THEOREM AnsweredIsStored == Driver = "postgres" /\ Spec => []AckedIsStored
  <1>1. KeyInv /\ Driver = "postgres" => AckedIsStored
    BY SubmitAssumption DEF KeyInv, TypeOK, AckedIsStored
  <1>2. SUFFICES ASSUME Driver = "postgres" PROVE Spec => []AckedIsStored
    OBVIOUS
  <1>3. KeyInv /\ [Next]_vars => KeyInv'
    BY <1>2, KeyInvNext
  <1> QED BY KeyInit, <1>1, <1>2, <1>3, PTL DEF Spec

-----------------------------------------------------------------------------
(* Submit: the daily quota, in Postgres and in the file store. *)

\* Two sets with nothing in common have as many elements as both together.
LEMMA DisjointUnion ==
  ASSUME NEW S, NEW T, IsFiniteSet(S), IsFiniteSet(T), S \cap T = {}
  PROVE  Cardinality(S \cup T) = Cardinality(S) + Cardinality(T)
<1>1. Cardinality(S \cup T) = Cardinality(S) + Cardinality(T) - Cardinality(S \cap T)
  BY FS_Union
<1>2. Cardinality(S \cap T) = 0
  BY FS_EmptySet
<1>3. Cardinality(S) \in Nat /\ Cardinality(T) \in Nat
  BY FS_CardinalityType
<1> QED
  BY <1>1, <1>2, <1>3

\* One more message costs its segments.
LEMMA OneMoreCosts ==
  ASSUME NEW S, NEW c \in Call, c \notin S, IsFiniteSet(SegmentsOf(S))
  PROVE  /\ IsFiniteSet(SegmentsOf(S \cup {c}))
         /\ Cardinality(SegmentsOf(S \cup {c})) = Cardinality(SegmentsOf(S)) + SizeOf[c]
<1> DEFINE N == {c} \X (1..SizeOf[c])
<1>1. SizeOf[c] \in Nat /\ 1 \in Int /\ SizeOf[c] \in Int
  BY SubmitAssumption
<1>2. IsFiniteSet(1..SizeOf[c]) /\ Cardinality(1..SizeOf[c]) = SizeOf[c]
  <2>1. PICK n \in Nat : n = SizeOf[c]
    BY <1>1
  <2>2. IsFiniteSet(1..n) /\ Cardinality(1..n) = n
    BY FS_Interval
  <2> QED
    BY <2>1, <2>2
<1>3. IsFiniteSet({c}) /\ Cardinality({c}) = 1
  BY FS_Singleton
<1>4. IsFiniteSet(N) /\ Cardinality(N) = SizeOf[c]
  <2>1. PICK A, B : A = {c} /\ B = 1..SizeOf[c]
    OBVIOUS
  <2>2. IsFiniteSet(A \X B) /\ Cardinality(A \X B) = Cardinality(A) * Cardinality(B)
    BY <1>2, <1>3, <2>1, FS_Product
  <2>3. Cardinality(A) = 1 /\ Cardinality(B) = SizeOf[c] /\ N = A \X B
    BY <1>2, <1>3, <2>1
  <2>4. 1 * SizeOf[c] = SizeOf[c]
    BY <1>1
  <2> HIDE DEF N
  <2> QED
    BY <2>2, <2>3, <2>4
<1>5. SegmentsOf(S \cup {c}) = SegmentsOf(S) \cup N
  BY DEF SegmentsOf
<1>6. SegmentsOf(S) \cap N = {}
  BY DEF SegmentsOf
<1> HIDE DEF N
<1>7. IsFiniteSet(SegmentsOf(S) \cup N) /\ Cardinality(SegmentsOf(S) \cup N) = Cardinality(SegmentsOf(S)) + Cardinality(N)
  BY <1>4, <1>6, DisjointUnion, FS_Union
<1> QED
  BY <1>4, <1>5, <1>7

\* An image of the store whose usage is what its messages cost.
Counted(d) ==
  /\ d \in Image
  /\ IsFiniteSet(SegmentsOf(d.stored)) /\ d.used = Cardinality(SegmentsOf(d.stored)) /\ d.used <= Limit

\* Why the quota holds: a call between its debit and its commit holds the row of
\* the quota, so that what it found free is still free; a call stores once.
QuotaInv ==
  /\ Counted(db) /\ Counted(disk)
  /\ pc \in [Call -> Spots]
  /\ Driver = "postgres" => disk = db
  /\ Driver = "file" => \A c \in Call : ~InTx(c)
  /\ \A c \in Call : /\ pc[c] = "commit" => quotaLock = c /\ ~OverQuota(c)
                     /\ c \in db.stored \cup disk.stored => pc[c] \in {"saving", "done"}

LEMMA QuotaStart == Init => QuotaInv
<1> SUFFICES ASSUME Init PROVE QuotaInv
  OBVIOUS
<1>1. SegmentsOf({}) = {}
  BY DEF SegmentsOf
<1>2. IsFiniteSet({}) /\ Cardinality({}) = 0
  BY FS_EmptySet
<1>3. db \in Image /\ db.stored = {} /\ db.used = 0 /\ disk = db
  BY SubmitAssumption DEF Init, Image
<1>4. Counted(db)
  BY <1>1, <1>2, <1>3, SubmitAssumption DEF Counted
<1> QED
  BY <1>3, <1>4 DEF Init, QuotaInv, InTx, Spots

\* A step that leaves usage and messages as they are, and moves calls without
\* letting another one commit.
LEMMA QuotaKept ==
  ASSUME QuotaInv, db' \in Image, disk' \in Image,
         db'.used = db.used, db'.stored = db.stored, disk'.used = disk.used, disk'.stored = disk.stored,
         Driver = "postgres" => disk' = db',
         pc' \in [Call -> Spots],
         \A c \in Call : /\ pc[c] \in {"saving", "done"} => pc'[c] \in {"saving", "done"}
                         /\ pc'[c] = "commit" => pc[c] = "commit" /\ quotaLock' = quotaLock
                         /\ Driver = "file" => pc'[c] # "debit"
  PROVE  QuotaInv'
<1>1. Counted(db)' /\ Counted(disk)'
  BY DEF QuotaInv, Counted, SegmentsOf
<1>2. \A c \in Call : pc'[c] = "commit" => (quotaLock = c)' /\ ~OverQuota(c)'
  BY DEF QuotaInv, OverQuota
<1>3. Driver = "file" => \A c \in Call : ~InTx(c)'
  BY DEF QuotaInv, InTx
<1>4. \A c \in Call : c \in db'.stored \cup disk'.stored => pc'[c] \in {"saving", "done"}
  BY DEF QuotaInv
<1> QED
  BY <1>1, <1>2, <1>3, <1>4 DEF QuotaInv

\* The message is stored by a call that found room for it.
LEMMA QuotaStored ==
  ASSUME QuotaInv, NEW c \in Call, pc[c] \notin {"saving", "done"}, ~OverQuota(c)
  PROVE  Counted(Stored(c)) /\ Stored(c).stored = db.stored \cup {c}
<1>1. c \notin db.stored /\ Counted(db)
  BY DEF QuotaInv
<1>2. PICK d, S : d = Stored(c) /\ S = db.stored
  OBVIOUS
<1>3. d.used = db.used + SizeOf[c] /\ d.stored = S \cup {c}
  BY <1>2 DEF Stored
<1>4. IsFiniteSet(SegmentsOf(S)) /\ db.used = Cardinality(SegmentsOf(S)) /\ db \in Image
  BY <1>1, <1>2 DEF Counted
<1>5. IsFiniteSet(SegmentsOf(S \cup {c})) /\ Cardinality(SegmentsOf(S \cup {c})) = Cardinality(SegmentsOf(S)) + SizeOf[c]
  BY <1>1, <1>2, <1>4, OneMoreCosts
<1>6. db.used \in Nat /\ SizeOf[c] \in Nat /\ Limit \in Nat /\ db.used <= Limit - SizeOf[c]
  BY <1>4, SubmitAssumption DEF Image, OverQuota
<1>7. db.used + SizeOf[c] <= Limit
  BY <1>6
<1>8. d \in Image
  <2>1. (IF Keyed(c) THEN [db.key EXCEPT ![KeyOf[c]] = c] ELSE db.key) \in [Key -> Call \cup {None}]
    BY <1>4, SubmitAssumption DEF Image, Keyed
  <2>2. db.used + SizeOf[c] \in Nat /\ db.stored \cup {c} \in SUBSET Call
    BY <1>4, <1>6 DEF Image
  <2> QED
    BY <1>2, <2>1, <2>2 DEF Stored, Image
<1> QED
  BY <1>2, <1>3, <1>4, <1>5, <1>7, <1>8 DEF Counted

LEMMA QuotaCommit ==
  ASSUME QuotaInv, NEW c \in Call, Commit(c) \/ (SubmitAtomic(c) /\ pc'[c] = "saving")
  PROVE  QuotaInv'
<1>1. pc[c] \in {"commit", "submit"} /\ ~OverQuota(c) /\ db' = Stored(c)
  BY DEF Commit, SubmitAtomic, QuotaInv, Accepts, Refuses, Goes
<1>2. Counted(db)' /\ db'.stored = db.stored \cup {c}
  <2>1. PICK d : d = Stored(c)
    OBVIOUS
  <2>2. Counted(d) /\ d.stored = db.stored \cup {c} /\ db' = d
    BY <1>1, <2>1, QuotaStored
  <2> QED
    BY <2>2 DEF Counted, SegmentsOf
<1>3. disk' = disk \/ disk' = db'
  BY DEF Commit, SubmitAtomic
<1>4. Counted(disk)'
  <2>1. CASE disk' = db'
    BY <1>2, <2>1 DEF Counted, SegmentsOf
  <2>2. CASE disk' = disk
    BY <2>2 DEF QuotaInv, Counted, SegmentsOf
  <2> QED
    BY <1>3, <2>1, <2>2
<1>5. PICK v \in {"saving", "done"} : pc' = [pc EXCEPT ![c] = v]
  BY DEF Commit, SubmitAtomic, Accepts, Refuses, Goes, QuotaInv
<1>6. pc \in [Call -> Spots]
  BY DEF QuotaInv
<1>7. pc' \in [Call -> Spots] /\ pc'[c] \in {"saving", "done"} /\ \A d \in Call : d # c => pc'[d] = pc[d]
  BY <1>5, <1>6 DEF Spots
<1>8. Driver = "postgres" => disk' = db'
  BY DEF Commit, SubmitAtomic
<1>9. \A d \in Call : pc'[d] # "commit"
  <2> SUFFICES ASSUME NEW d \in Call, pc'[d] = "commit" PROVE FALSE
    OBVIOUS
  <2>1. d # c /\ pc[d] = "commit" /\ quotaLock = d /\ InTx(d)
    BY <1>7 DEF QuotaInv, InTx
  <2>2. pc[c] = "commit" /\ quotaLock = c
    BY <2>1, SubmitAssumption DEF QuotaInv, Commit, SubmitAtomic
  <2> QED
    BY <2>1, <2>2
<1>10. Driver = "file" => \A d \in Call : ~InTx(d)'
  BY <1>7 DEF QuotaInv, InTx
<1>11. \A d \in Call : d \in db'.stored \cup disk'.stored => pc'[d] \in {"saving", "done"}
  BY <1>2, <1>3, <1>7 DEF QuotaInv
<1> QED
  BY <1>2, <1>4, <1>7, <1>8, <1>9, <1>10, <1>11 DEF QuotaInv

LEMMA QuotaDebit ==
  ASSUME QuotaInv, NEW c \in Call, DebitQuota(c)
  PROVE  QuotaInv'
<1>1. db' = db /\ disk' = disk /\ pc \in [Call -> Spots] /\ db \in Image /\ disk \in Image
  BY DEF DebitQuota, QuotaInv, Counted
<1>2. CASE OverQuota(c)
  <2>1. pc' = [pc EXCEPT ![c] = "done"]
    BY <1>2 DEF DebitQuota, Refuses, Goes
  <2>2. \A d \in Call : pc[d] # "commit"
    BY SubmitAssumption DEF DebitQuota, QuotaInv
  <2>3. pc' \in [Call -> Spots] /\ \A d \in Call : pc'[d] = IF d = c THEN "done" ELSE pc[d]
    BY <1>1, <2>1 DEF Spots
  <2> QED
    BY <1>1, <2>2, <2>3, QuotaKept DEF QuotaInv, InTx
<1>3. CASE ~OverQuota(c)
  <2>1. pc' = [pc EXCEPT ![c] = "commit"] /\ quotaLock' = c
    BY <1>3 DEF DebitQuota, Goes
  <2>2. \A d \in Call : pc[d] # "commit"
    BY SubmitAssumption DEF DebitQuota, QuotaInv
  <2>3. pc' \in [Call -> Spots] /\ \A d \in Call : pc'[d] = IF d = c THEN "commit" ELSE pc[d]
    BY <1>1, <2>1 DEF Spots
  <2>4. pc[c] = "debit" /\ Driver # "file"
    BY DEF DebitQuota, QuotaInv, InTx
  <2>5. Counted(db)' /\ Counted(disk)'
    BY <1>1 DEF QuotaInv, Counted, SegmentsOf
  <2>6. ~OverQuota(c)'
    BY <1>1, <1>3 DEF OverQuota
  <2> QED
    BY <1>1, <2>1, <2>2, <2>3, <2>4, <2>5, <2>6 DEF QuotaInv
<1> QED
  BY <1>2, <1>3

LEMMA QuotaStep == QuotaInv /\ [Next]_vars => QuotaInv'
<1> SUFFICES ASSUME QuotaInv, [Next]_vars PROVE QuotaInv'
  OBVIOUS
<1>1. pc \in [Call -> Spots] /\ db \in Image /\ disk \in Image /\ (Driver = "postgres" => disk = db)
  BY DEF QuotaInv, Counted
<1>2. ASSUME NEW c \in Call, db' = db, disk' = disk, NEW v \in Spots \ {"commit"}, pc' = [pc EXCEPT ![c] = v],
             pc[c] \in {"saving", "done"} => v \in {"saving", "done"}, v = "debit" => Driver # "file",
             quotaLock' = quotaLock \/ (quotaLock = c /\ pc[c] = "commit")
      PROVE  QuotaInv'
  <2>1. pc' \in [Call -> Spots] /\ \A d \in Call : pc'[d] = IF d = c THEN v ELSE pc[d]
    BY <1>1, <1>2
  <2>2. \A d \in Call : pc'[d] = "commit" => pc[d] = "commit" /\ quotaLock' = quotaLock
    BY <1>2, <2>1 DEF QuotaInv
  <2>3. \A d \in Call : Driver = "file" => pc'[d] # "debit"
    BY <1>2, <2>1 DEF QuotaInv, InTx
  <2> QED
    BY <1>1, <1>2, <2>1, <2>2, <2>3, QuotaKept
<1>3. ASSUME NEW c \in Call, CheckCall(c) PROVE QuotaInv'
  <2>1. /\ db' = db /\ disk' = disk /\ quotaLock' = quotaLock /\ pc[c] = "new"
        /\ \E v \in {"submit", "done"} : pc' = [pc EXCEPT ![c] = v]
    BY <1>3 DEF CheckCall, Goes, Accepts, Refuses, locks
  <2> QED
    BY <1>2, <2>1 DEF Spots
<1>4. ASSUME NEW c \in Call, InsertKey(c) PROVE QuotaInv'
  <2>1. /\ db' = db /\ disk' = disk /\ quotaLock' = quotaLock /\ pc[c] = "submit" /\ Driver # "file"
        /\ \E v \in {"debit", "done"} : pc' = [pc EXCEPT ![c] = v]
    BY <1>4 DEF InsertKey, Goes, Accepts
  <2> QED
    BY <1>2, <2>1 DEF Spots
<1>5. ASSUME NEW c \in Call, SubmitAtomic(c), pc'[c] # "saving" PROVE QuotaInv'
  <2>1. db' = db /\ disk' = disk /\ quotaLock' = quotaLock /\ pc[c] = "submit" /\ pc' = [pc EXCEPT ![c] = "done"]
    BY <1>1, <1>5 DEF SubmitAtomic, Goes, Accepts, Refuses, locks
  <2> QED
    BY <1>2, <2>1 DEF Spots
<1>6. ASSUME NEW c \in Call, TxFails(c) PROVE QuotaInv'
  <2>1. db' = db /\ disk' = disk /\ pc[c] \in {"debit", "commit"} /\ pc' = [pc EXCEPT ![c] = "done"]
    BY <1>6 DEF TxFails, Refuses, Goes, InTx
  <2>2. quotaLock' = IF quotaLock = c THEN None ELSE quotaLock
    BY <1>6 DEF TxFails, EndsTx
  <2>3. CASE quotaLock # c \/ pc[c] = "commit"
    BY <1>2, <2>1, <2>2, <2>3 DEF Spots
  <2>4. CASE quotaLock = c /\ pc[c] # "commit"
    <3>1. \A d \in Call : pc[d] # "commit"
      BY <2>4 DEF QuotaInv
    <3>2. pc' \in [Call -> Spots] /\ \A d \in Call : pc'[d] = IF d = c THEN "done" ELSE pc[d]
      BY <1>1, <2>1 DEF Spots
    <3> QED
      BY <1>1, <2>1, <3>1, <3>2, QuotaKept DEF QuotaInv, InTx
  <2> QED
    BY <2>3, <2>4
<1>7. ASSUME NEW c \in Call, Save(c) PROVE QuotaInv'
  <2>1. /\ db' = db /\ quotaLock' = quotaLock /\ pc[c] = "saving" /\ pc' = [pc EXCEPT ![c] = "done"]
        /\ disk' = disk \/ disk' = db
    BY <1>7 DEF Save, Goes, Accepts, Refuses, locks
  <2>2. CASE disk' = disk
    BY <1>2, <2>1, <2>2 DEF Spots
  <2>3. CASE disk' = db
    <3>1. pc' \in [Call -> Spots] /\ \A d \in Call : pc'[d] = IF d = c THEN "done" ELSE pc[d]
      BY <1>1, <2>1 DEF Spots
    <3>2. Counted(db)' /\ Counted(disk)'
      BY <2>1, <2>3 DEF QuotaInv, Counted, SegmentsOf
    <3>3. \A d \in Call : pc'[d] = "commit" => quotaLock' = d /\ ~OverQuota(d)'
      BY <2>1, <3>1 DEF QuotaInv, OverQuota
    <3>4. Driver = "file" => \A d \in Call : ~InTx(d)'
      BY <3>1 DEF QuotaInv, InTx
    <3>5. \A d \in Call : d \in db'.stored \cup disk'.stored => pc'[d] \in {"saving", "done"}
      BY <2>1, <2>3, <3>1 DEF QuotaInv
    <3> QED
      BY <2>1, <2>3, <3>1, <3>2, <3>3, <3>4, <3>5 DEF QuotaInv
  <2> QED
    BY <2>1, <2>2, <2>3
<1>8. ASSUME NEW k \in Key, Expire(k) PROVE QuotaInv'
  <2>1. pc' = pc /\ quotaLock' = quotaLock
    BY <1>8 DEF Expire, locks
  <2>2. db' = [db EXCEPT !.key[k] = None] /\ disk' = [disk EXCEPT !.key[k] = None]
    BY <1>8 DEF Expire
  <2>3. /\ db' \in Image /\ db'.used = db.used /\ db'.stored = db.stored
        /\ disk' \in Image /\ disk'.used = disk.used /\ disk'.stored = disk.stored
    BY <1>1, <2>2 DEF Image
  <2>4. Driver = "postgres" => disk' = db'
    BY <1>1, <2>2
  <2> QED
    BY <1>1, <2>1, <2>3, <2>4, QuotaKept DEF QuotaInv, InTx
<1>9. ASSUME NEW p \in Process, Crash(p) PROVE QuotaInv'
  <2>1. PICK lost : lost = {c \in Call : Home[c] = p /\ pc[c] \notin {"new", "done"}}
    OBVIOUS
  <2>2. /\ db' = disk /\ disk' = disk
        /\ pc' = [c \in Call |-> IF c \in lost THEN "done" ELSE pc[c]]
        /\ quotaLock' = IF quotaLock \in lost THEN None ELSE quotaLock
    BY <1>9, <2>1 DEF Crash
  <2>3. pc' \in [Call -> Spots] /\ \A c \in Call : pc'[c] = IF c \in lost THEN "done" ELSE pc[c]
    BY <1>1, <2>2 DEF Spots
  <2>4. Counted(db)' /\ Counted(disk)'
    BY <2>2 DEF QuotaInv, Counted, SegmentsOf
  <2>5. \A c \in Call : pc'[c] = "commit" => quotaLock' = c /\ ~OverQuota(c)'
    <3> SUFFICES ASSUME NEW c \in Call, pc'[c] = "commit" PROVE quotaLock' = c /\ ~OverQuota(c)'
      OBVIOUS
    <3>1. c \notin lost /\ pc[c] = "commit" /\ quotaLock = c /\ ~OverQuota(c)
      BY <2>3 DEF QuotaInv
    <3>2. db' = db
      BY <1>1, <2>2, <3>1, SubmitAssumption DEF QuotaInv, InTx
    <3> QED
      BY <2>2, <3>1, <3>2 DEF OverQuota
  <2>6. Driver = "file" => \A c \in Call : ~InTx(c)'
    BY <2>3 DEF QuotaInv, InTx
  <2>7. \A c \in Call : c \in db'.stored \cup disk'.stored => pc'[c] \in {"saving", "done"}
    BY <2>2, <2>3 DEF QuotaInv
  <2> QED
    BY <2>2, <2>3, <2>4, <2>5, <2>6, <2>7 DEF QuotaInv
<1>10. CASE Reload \/ UNCHANGED vars
  <2>1. db' = db /\ disk' = disk /\ pc' = pc /\ quotaLock' = quotaLock
    BY <1>10 DEF Reload, vars, locks
  <2> QED
    BY <1>1, <2>1, QuotaKept DEF QuotaInv, InTx
<1> QED
  BY <1>3, <1>4, <1>5, <1>6, <1>7, <1>8, <1>9, <1>10, QuotaCommit, QuotaDebit DEF Next, CallStep

\* The daily usage is at every moment the number of segments of the stored
\* messages and within the limit, in Postgres and in the file store, for any calls,
\* keys, faults, crashes and expiries (SubmitAtomic, debitQuota).
THEOREM QuotaHolds == Spec => []QuotaExact
<1>1. QuotaInv => QuotaExact
  BY DEF QuotaInv, Counted, QuotaExact
<1> QED
  BY <1>1, QuotaStart, QuotaStep, PTL DEF Spec

-----------------------------------------------------------------------------
(* Submit: one message per key, and the answer to a retry, in both stores.   *)

\* The file store: what was stored under a living key is what the memory has for
\* the key, and what the snapshot holds of it is what the snapshot has for the key.
OnceInv ==
  \A k \in Key : /\ since[k] \subseteq Call /\ since[k] \subseteq {db.key[k]}
                 /\ since[k] \cap disk.stored \subseteq {disk.key[k]}

\* The change in memory is made under one mutex, a message is not in the snapshot
\* before it is saved, and a restart forgets what the snapshot does not hold.
LEMMA OnceStep ==
  ASSUME Driver = "file", QuotaInv, OnceInv, since \in [Key -> SUBSET Call], [Next]_vars
  PROVE  OnceInv' /\ since' \in [Key -> SUBSET Call]
<1> USE SubmitAssumption
<1>1. db \in Image /\ disk \in Image
  BY DEF QuotaInv, Counted
<1>2. CASE UNCHANGED <<db, disk, since>>
  BY <1>2 DEF OnceInv
<1>3. ASSUME NEW c \in Call, CallStep(c) \/ TxFails(c) PROVE OnceInv' /\ since' \in [Key -> SUBSET Call]
  <2>1. ~InsertKey(c) /\ ~DebitQuota(c) /\ ~Commit(c) /\ ~TxFails(c)
    BY DEF QuotaInv, InTx, InsertKey, DebitQuota, Commit, TxFails
  <2>2. CASE CheckCall(c)
    BY <1>2, <2>2 DEF CheckCall
  <2>3. CASE SubmitAtomic(c) /\ db' # db
    <3>1. /\ ~Known(c) /\ db' = Stored(c) /\ disk' = disk /\ pc[c] = "submit"
          /\ since' = IF Keyed(c) THEN [since EXCEPT ![KeyOf[c]] = @ \cup {c}] ELSE since
      BY <2>3 DEF SubmitAtomic, NotesStored
    <3>2. db'.key = IF Keyed(c) THEN [db.key EXCEPT ![KeyOf[c]] = c] ELSE db.key
      BY <3>1 DEF Stored
    <3>3. c \notin disk.stored
      BY <3>1 DEF QuotaInv
    <3>4. Keyed(c) => KeyOf[c] \in Key /\ since[KeyOf[c]] = {}
      BY <3>1 DEF Keyed, Known, OnceInv
    <3>5. since' \in [Key -> SUBSET Call]
      BY <3>1, <3>4
    <3>6. \A k \in Key : since'[k] \subseteq {db'.key[k]} /\ since'[k] \cap disk.stored \subseteq {disk.key[k]}
      BY <1>1, <3>1, <3>2, <3>3, <3>4 DEF OnceInv, Image
    <3> QED
      BY <3>1, <3>5, <3>6 DEF OnceInv
  <2>4. CASE SubmitAtomic(c) /\ db' = db
    <3>1. c \notin db.stored
      BY <2>4 DEF QuotaInv, SubmitAtomic
    <3>2. since' = since /\ disk' = disk
      BY <2>4, <3>1 DEF SubmitAtomic, Stored
    <3> QED
      BY <1>2, <2>4, <3>2
  <2>5. CASE Save(c)
    BY <2>5 DEF Save, OnceInv
  <2> QED
    BY <1>3, <2>1, <2>2, <2>3, <2>4, <2>5 DEF CallStep
<1>4. ASSUME NEW k \in Key, Expire(k) PROVE OnceInv' /\ since' \in [Key -> SUBSET Call]
  <2>1. /\ db' = [db EXCEPT !.key[k] = None] /\ disk' = [disk EXCEPT !.key[k] = None]
        /\ since' = [since EXCEPT ![k] = {}]
    BY <1>4 DEF Expire
  <2> QED
    BY <1>1, <2>1 DEF OnceInv, Image
<1>5. ASSUME NEW p \in Process, Crash(p) PROVE OnceInv' /\ since' \in [Key -> SUBSET Call]
  <2>1. db' = disk /\ disk' = disk /\ since' = [k \in Key |-> since[k] \cap disk.stored]
    BY <1>5 DEF Crash
  <2> QED
    BY <2>1 DEF OnceInv
<1>6. CASE Reload \/ UNCHANGED vars
  BY <1>2, <1>6 DEF Reload, vars
<1> QED
  BY <1>3, <1>4, <1>5, <1>6 DEF Next

\* At most one message is stored under a living key, in Postgres and in the file
\* store: calls with the same key at the same time, failing commits and crashes
\* do not make a second one (SubmitAtomic).
THEOREM KeyStoresOnce == Spec => []OneMessagePerKey
<1>1. ASSUME Driver = "postgres" PROVE Spec => []OneMessagePerKey
  <2>1. KeyInv => OneMessagePerKey
    BY DEF KeyInv, OneMessagePerKey
  <2>2. KeyInv /\ [Next]_vars => KeyInv'
    BY <1>1, KeyInvNext
  <2> QED
    BY KeyInit, <2>1, <2>2, PTL DEF Spec
<1>2. ASSUME Driver = "file" PROVE Spec => []OneMessagePerKey
  <2> DEFINE Inv == QuotaInv /\ OnceInv /\ since \in [Key -> SUBSET Call]
  <2>1. Init => Inv
    <3>1. Init => OnceInv /\ since \in [Key -> SUBSET Call]
      BY DEF Init, OnceInv
    <3> QED
      BY <3>1, QuotaStart
  <2>2. Inv /\ [Next]_vars => Inv'
    BY <1>2, OnceStep, QuotaStep
  <2>3. Inv => OneMessagePerKey
    BY DEF OnceInv, OneMessagePerKey
  <2> QED
    BY <2>1, <2>2, <2>3, PTL DEF Spec
<1> QED
  BY <1>1, <1>2, SubmitAssumption

\* What a call may return.
Answers == Call \cup {"none", "gone", "error", "quota"} \cup Reason

ReplyInv == reply \in [Call -> Answers] /\ refusing \subseteq Reason

\* The first check that refuses reports its reason.
LEMMA RefusalHasReason ==
  ASSUME refusing \subseteq Reason, refusing # {}
  PROVE  FirstRefusal \in Reason
<1> DEFINE S == {i \in DOMAIN Check : Check[i] \in refusing}
<1>1. DOMAIN Check = 1..7
  BY DEF Check
<1>2. S # {} /\ S \subseteq 1..7
  BY <1>1 DEF Reason
<1>3. \E x \in S : \A y \in S : x =< y
  <2> HIDE DEF S
  <2>1. CASE 1 \in S \/ 2 \in S
    BY <1>2, <2>1
  <2>2. CASE 1 \notin S /\ 2 \notin S /\ (3 \in S \/ 4 \in S)
    BY <1>2, <2>2
  <2>3. CASE S \subseteq 5..7
    <3>1. CASE 5 \in S
      BY <2>3, <3>1
    <3>2. CASE 5 \notin S /\ 6 \in S
      BY <2>3, <3>2
    <3>3. CASE 5 \notin S /\ 6 \notin S
      <4>1. PICK x \in S : TRUE
        BY <1>2
      <4>2. x = 7 /\ \A y \in S : y = 7
        BY <2>3, <3>3
      <4> QED
        BY <4>1, <4>2
    <3> QED
      BY <3>1, <3>2, <3>3
  <2> QED
    BY <1>2, <2>1, <2>2, <2>3
<1>4. Min(S) \in S
  <2> HIDE DEF S
  <2> QED
    BY <1>3 DEF Min
<1>5. FirstRefusal = Check[Min(S)]
  BY DEF FirstRefusal
<1>6. PICK i \in DOMAIN Check : i = Min(S)
  BY <1>4
<1> QED
  BY <1>5, <1>6 DEF Reason

LEMMA ReplyStep ==
  ASSUME ReplyInv, KeyInv \/ QuotaInv, [Next]_vars
  PROVE  ReplyInv'
<1> USE SubmitAssumption
<1>1. db \in Image
  BY DEF KeyInv, TypeOK, QuotaInv, Counted
<1>2. \A c \in Call : Known(c) => db.key[KeyOf[c]] \in Answers
  BY <1>1 DEF Known, Keyed, Image, Answers
<1>3. refusing # {} => FirstRefusal \in Answers
  BY RefusalHasReason DEF ReplyInv, Answers
<1>4. ASSUME NEW c \in Call, CallStep(c) \/ TxFails(c) PROVE ReplyInv'
  <2>1. reply' = reply \/ \E a \in Answers : reply' = [reply EXCEPT ![c] = a]
    BY <1>2, <1>3, <1>4 DEF CallStep, CheckCall, InsertKey, DebitQuota, Commit, SubmitAtomic, Save, TxFails,
                            Accepts, Refuses, Answers
  <2>2. refusing' = refusing
    BY <1>4 DEF CallStep, CheckCall, InsertKey, DebitQuota, Commit, SubmitAtomic, Save, TxFails
  <2> QED
    BY <2>1, <2>2 DEF ReplyInv
<1>5. ASSUME NEW k \in Key, Expire(k) PROVE ReplyInv'
  BY <1>5 DEF Expire, ReplyInv
<1>6. ASSUME NEW p \in Process, Crash(p) PROVE ReplyInv'
  BY <1>6 DEF Crash, ReplyInv, Answers
<1>7. CASE Reload
  BY <1>7 DEF Reload, ReplyInv
<1>8. CASE UNCHANGED vars
  BY <1>8 DEF vars, ReplyInv
<1> QED
  BY <1>4, <1>5, <1>6, <1>7, <1>8 DEF Next

\* A call is refused for the rate limit or the quota only if its key is not
\* known: the check looks it up, and whoever debits the quota holds its lock.
LEMMA RefusedIsNew ==
  ASSUME ReplyInv, QuotaInv, Driver = "postgres" => KeyInv, Next,
         NEW c \in Call, Keyed(c), reply[c] = "none", reply'[c] \in {"tenant_tps", "quota"}
  PROVE  db.key[KeyOf[c]] = None
<1> USE SubmitAssumption
<1>1. db \in Image /\ KeyOf[c] \in Key
  BY DEF QuotaInv, Counted, Keyed
<1>2. ASSUME NEW d \in Call, CallStep(d) \/ TxFails(d) PROVE db.key[KeyOf[c]] = None
  <2>1. reply' = reply \/ \E a : reply' = [reply EXCEPT ![d] = a]
    BY <1>2 DEF CallStep, CheckCall, InsertKey, DebitQuota, Commit, SubmitAtomic, Save, TxFails, Accepts, Refuses
  <2>2. d = c
    BY <2>1 DEF ReplyInv
  <2>3. \A a : reply' = [reply EXCEPT ![c] = a] => a \in {"tenant_tps", "quota"} /\ a \notin Call
    BY DEF ReplyInv
  <2>4. ~Save(c) /\ ~TxFails(c) /\ ~Commit(c)
    BY <2>3 DEF Save, TxFails, Commit, Accepts, Refuses
  <2>5. ASSUME CheckCall(c) PROVE db.key[KeyOf[c]] = None
    <3>1. Known(c) => db.key[KeyOf[c]] \in Call
      BY <1>1 DEF Known, Image
    <3>2. PICK a : a = FirstRefusal
      OBVIOUS
    <3>3. refusing # {} => a \in Reason
      BY <3>2, RefusalHasReason DEF ReplyInv
    <3>4. "quota" \notin Reason
      BY DEF Reason, Check
    <3>5. reply' = [reply EXCEPT ![c] = a] /\ refusing # {} => a = "tenant_tps"
      BY <2>3, <3>3, <3>4
    <3> QED
      BY <2>3, <2>5, <3>1, <3>2, <3>5 DEF CheckCall, Accepts, Refuses, Known
  <2>6. ASSUME InsertKey(c) PROVE db.key[KeyOf[c]] = None
    BY <1>1, <2>3, <2>6 DEF InsertKey, Accepts, Known, Image
  <2>7. ASSUME SubmitAtomic(c) PROVE db.key[KeyOf[c]] = None
    BY <1>1, <2>3, <2>7 DEF SubmitAtomic, Accepts, Known, Image
  <2>8. ASSUME DebitQuota(c) PROVE db.key[KeyOf[c]] = None
    <3>1. InTx(c) /\ Driver = "postgres"
      BY <2>8 DEF DebitQuota, InTx, QuotaInv
    <3> QED
      BY <1>1, <3>1 DEF KeyInv, TypeOK
  <2> QED
    BY <1>2, <2>2, <2>4, <2>5, <2>6, <2>7, <2>8 DEF CallStep
<1>3. ASSUME NEW k \in Key, Expire(k) PROVE FALSE
  BY <1>3 DEF Expire
<1>4. ASSUME NEW p \in Process, Crash(p) PROVE FALSE
  BY <1>4 DEF Crash
<1>5. CASE Reload
  BY <1>5 DEF Reload
<1> QED
  BY <1>2, <1>3, <1>4, <1>5 DEF Next

\* A retry of a stored submit is not refused for the rate limit or the quota
\* while its key is alive, in both stores, whatever the other calls do (Submit,
\* SubmitAtomic).
THEOREM RetryHolds == Spec => RetryGetsOriginal
<1> DEFINE Inv == ReplyInv /\ QuotaInv /\ (Driver = "postgres" => KeyInv)
<1>1. Init => Inv
  <2>1. Init => ReplyInv
    BY DEF Init, ReplyInv, Answers
  <2> QED
    BY <2>1, QuotaStart, KeyInit
<1>2. Inv /\ [Next]_vars => Inv'
  BY ReplyStep, QuotaStep, KeyInvNext
<1>3. Inv /\ [Next]_vars =>
        [\A c \in Call : Keyed(c) /\ reply[c] = "none" /\ reply'[c] \in {"tenant_tps", "quota"}
            => db.key[KeyOf[c]] = None]_vars
  BY RefusedIsNew
<1> QED
  BY <1>1, <1>2, <1>3, PTL DEF Spec, RetryGetsOriginal

-----------------------------------------------------------------------------
(* SmppServer: the submits in flight, and why the shared queue has room.     *)

\* If at most W elements of D are sent to each element of a finite set, D has at
\* most W times as many elements as that set.
LEMMA FiberBound ==
  ASSUME NEW W \in Nat, NEW S, IsFiniteSet(S), NEW D, NEW f \in [D -> S],
         \A s \in S : IsFiniteSet({d \in D : f[d] = s}) /\ Cardinality({d \in D : f[d] = s}) <= W
  PROVE  IsFiniteSet(D) /\ Cardinality(D) <= Cardinality(S) * W
<1> DEFINE Over(T) == {d \in D : f[d] \in T}
           Good(T) == IsFiniteSet(Over(T)) /\ Cardinality(Over(T)) <= Cardinality(T) * W
           Bad == {T \in SUBSET S : ~Good(T)}
<1>1. Bad = {}
  <2> SUFFICES ASSUME Bad # {} PROVE FALSE
    OBVIOUS
  <2>1. IsWellFoundedOn(StrictSubsetOrdering(S), FiniteSubsetsOf(S)) /\ Bad \subseteq FiniteSubsetsOf(S)
    BY FS_StrictSubsetOrderingWellFounded, FS_FiniteSubsetsOfFinite
  <2>2. PICK T \in Bad : \A U \in Bad : ~(<<U, T>> \in StrictSubsetOrdering(S))
    <3> HIDE DEF Bad
    <3> QED
      BY <2>1, WFMin
  <2>3. T \subseteq S /\ ~Good(T) /\ IsFiniteSet(T)
    BY FS_Subset
  <2>4. CASE T = {}
    <3>1. Over(T) = {} /\ Cardinality(T) = 0 /\ Cardinality({}) = 0 /\ IsFiniteSet({}) /\ 0 * W = 0
      BY <2>4, FS_EmptySet
    <3>2. Cardinality(Over(T)) <= Cardinality(T) * W
      BY <3>1
    <3> QED
      BY <2>3, <3>1, <3>2
  <2>5. CASE T # {}
    <3>1. PICK t \in T : TRUE
      BY <2>5
    <3>2. PICK U : U = T \ {t}
      OBVIOUS
    <3>3. U \subseteq S /\ U \subseteq T /\ U # T /\ <<U, T>> \in StrictSubsetOrdering(S)
      BY <2>3, <3>1, <3>2 DEF StrictSubsetOrdering
    <3>4. Good(U)
      BY <2>2, <3>3
    <3>5. IsFiniteSet(U) /\ Cardinality(U) = Cardinality(T) - 1 /\ Cardinality(T) \in Nat /\ Cardinality(U) \in Nat
      BY <2>3, <3>1, <3>2, FS_RemoveElement, FS_CardinalityType
    <3>6. PICK F : F = {d \in D : f[d] = t}
      OBVIOUS
    <3>7. Over(T) = Over(U) \cup F /\ Over(U) \cap F = {} /\ IsFiniteSet(F) /\ Cardinality(F) <= W
      BY <2>3, <3>1, <3>2, <3>6
    <3>8. IsFiniteSet(Over(T)) /\ Cardinality(Over(T)) = Cardinality(Over(U)) + Cardinality(F)
      <4>1. PICK A, B : A = Over(T) /\ B = Over(U)
        OBVIOUS
      <4>2. A = B \cup F /\ B \cap F = {} /\ IsFiniteSet(B) /\ IsFiniteSet(F)
        BY <3>4, <3>7, <4>1
      <4>3. IsFiniteSet(A) /\ Cardinality(A) = Cardinality(B) + Cardinality(F)
        BY <4>2, DisjointUnion, FS_Union
      <4> QED
        BY <4>1, <4>3
    <3>9. Cardinality(Over(U)) \in Nat /\ Cardinality(F) \in Nat
      BY <3>4, <3>7, FS_CardinalityType
    <3>10. Cardinality(T) * W = Cardinality(U) * W + W
      BY <3>5
    <3>11. Cardinality(U) * W \in Nat
      BY <3>5
    <3>12. Cardinality(Over(T)) <= Cardinality(T) * W
      <4> HIDE DEF Over
      <4> QED
        BY <3>4, <3>7, <3>8, <3>9, <3>10, <3>11
    <3> QED
      BY <2>3, <3>8, <3>12
  <2> QED
    BY <2>4, <2>5
<1>2. Good(S) /\ Over(S) = D
  BY <1>1
<1> QED
  BY <1>2

Places(q, s) == {i \in DOMAIN q : q[i] = s}
Runs(s) == {w \in Worker : running[w] = s}

LEMMA PlacesFinite ==
  ASSUME NEW q \in Seq(SessionId), NEW s
  PROVE  IsFiniteSet(Places(q, s)) /\ Cardinality(Places(q, s)) \in Nat
<1>1. IsFiniteSet(1..Len(q)) /\ Places(q, s) \subseteq 1..Len(q)
  BY FS_Interval DEF Places
<1> QED
  BY <1>1, FS_Subset, FS_CardinalityType

LEMMA PlacesAppend ==
  ASSUME NEW q \in Seq(SessionId), NEW s \in SessionId, NEW t \in SessionId
  PROVE  Cardinality(Places(Append(q, s), t)) = Cardinality(Places(q, t)) + (IF t = s THEN 1 ELSE 0)
<1>1. CASE t # s
  <2>1. Places(Append(q, s), t) = Places(q, t)
    BY <1>1 DEF Places
  <2> QED
    BY <1>1, <2>1, PlacesFinite
<1>2. CASE t = s
  <2>1. Places(Append(q, s), t) = Places(q, t) \cup {Len(q) + 1} /\ Len(q) + 1 \notin Places(q, t)
    BY <1>2 DEF Places
  <2> QED
    BY <1>2, <2>1, PlacesFinite, FS_AddElement
<1> QED
  BY <1>1, <1>2

LEMMA PlacesTail ==
  ASSUME NEW q \in Seq(SessionId), q # <<>>, NEW t \in SessionId
  PROVE  Cardinality(Places(Tail(q), t)) = Cardinality(Places(q, t)) - (IF t = Head(q) THEN 1 ELSE 0)
<1>1. PICK S, T : S = Places(Tail(q), t) /\ T = Places(q, t) \ {1}
  OBVIOUS
<1>2. /\ Tail(q) \in Seq(SessionId) /\ Len(Tail(q)) = Len(q) - 1 /\ Len(q) \in Nat /\ Head(q) = q[1] /\ 1 \in DOMAIN q
      /\ \A i \in 1..Len(Tail(q)) : Tail(q)[i] = q[i + 1]
  OBVIOUS
<1>3. S = {i \in 1..(Len(q) - 1) : q[i + 1] = t} /\ T = {i \in 2..Len(q) : q[i] = t}
  BY <1>1, <1>2 DEF Places
<1>4. PICK g : g = [i \in S |-> i + 1]
  OBVIOUS
<1>5. g \in Injection(S, T)
  <2>1. g \in [S -> T]
    BY <1>3, <1>4
  <2>2. \A i, j \in S : g[i] = g[j] => i = j
    BY <1>3, <1>4
  <2> QED
    BY <2>1, <2>2 DEF Injection, IsInjective
<1>6. g \in Surjection(S, T)
  <2>1. ASSUME NEW j \in T PROVE \E i \in S : g[i] = j
    <3>1. j - 1 \in S
      BY <1>3
    <3>2. g[j - 1] = j
      BY <1>3, <1>4, <3>1
    <3> QED
      BY <3>1, <3>2
  <2> QED
    BY <1>5, <2>1 DEF Injection, Surjection
<1>7. Cardinality(T) = Cardinality(S)
  <2>1. IsFiniteSet(S)
    BY <1>1, <1>2, PlacesFinite
  <2> QED
    BY <1>5, <1>6, <2>1, FS_Bijection DEF ExistsBijection, Bijection
<1>8. CASE t = Head(q)
  <2>1. 1 \in Places(q, t)
    BY <1>2, <1>8 DEF Places
  <2> QED
    BY <1>1, <1>7, <1>8, <2>1, PlacesFinite, FS_RemoveElement
<1>9. CASE t # Head(q)
  <2>1. T = Places(q, t)
    BY <1>1, <1>2, <1>9 DEF Places
  <2>2. Cardinality(Places(q, t)) \in Nat
    BY PlacesFinite
  <2>3. Cardinality(Places(Tail(q), t)) = Cardinality(Places(q, t))
    BY <1>1, <1>7, <2>1
  <2>4. (IF t = Head(q) THEN 1 ELSE 0) = 0
    BY <1>9
  <2> QED
    BY <2>2, <2>3, <2>4
<1> QED
  BY <1>8, <1>9

LEMMA ServerFacts ==
  /\ IsFiniteSet(Worker) /\ Nobody \notin SessionId
  /\ MaxSessions \in Int /\ SessionWindow \in Nat
  BY ServerAssumption DEF SessionWindow

SubmitsOne(s) == IF reader[s].do = "submit" THEN 1 ELSE 0

JobsInv ==
  /\ st \in [SessionId -> {"none", "serving", "closed", "gone"}]
  /\ sessions = {s \in SessionId : st[s] \in {"serving", "closed"}}
  /\ IsFiniteSet(sessions) /\ (MaxSessions > 0 => Cardinality(sessions) <= MaxSessions)
  /\ reader \in [SessionId -> [do : {"read", "mode", "system", "submit"}, sys : SystemID \cup {Nobody}, mode : Mode \cup {"none"}]]
  /\ inflight \in [SessionId -> 0..SessionWindow]
  /\ jobs \in Seq(SessionId) /\ running \in [Worker -> SessionId \cup {Nobody}]
  /\ \A s \in SessionId :
       /\ reader[s].do # "read" => s \in sessions
       /\ inflight[s] = Cardinality(Places(jobs, s)) + Cardinality(Runs(s)) + SubmitsOne(s)

LEMMA WithinRange ==
  ASSUME NEW n \in Int, NEW w \in Nat, n >= 0, n <= w
  PROVE  n \in 0..w
  OBVIOUS

LEMMA RunsFinite ==
  ASSUME JobsInv, NEW s
  PROVE  IsFiniteSet(Runs(s)) /\ Cardinality(Runs(s)) \in Nat
<1>1. Runs(s) \subseteq Worker
  BY DEF Runs
<1> QED
  BY <1>1, ServerFacts, FS_Subset, FS_CardinalityType

\* A submit within the window finds room unless a session that is gone has jobs
\* in the queue: the places of the sessions in the table are enough.
LEMMA RoomForAll == JobsInv => JobsExact
<1> SUFFICES ASSUME JobsInv, NEW s \in SessionId
             PROVE  /\ inflight[s] = Cardinality(Places(jobs, s)) + Cardinality(Runs(s)) + SubmitsOne(s)
                    /\ Sized /\ reader[s].do = "submit" /\ ~Fits => \E i \in DOMAIN jobs : jobs[i] \notin sessions
  BY DEF JobsExact, Places, Runs, SubmitsOne
<1>1. inflight[s] = Cardinality(Places(jobs, s)) + Cardinality(Runs(s)) + SubmitsOne(s)
  BY DEF JobsInv
<1>2. SUFFICES ASSUME Sized, reader[s].do = "submit", \A i \in DOMAIN jobs : jobs[i] \in sessions PROVE Fits
  BY <1>1
<1>3. PICK q, D : q \in Seq(SessionId) /\ q = jobs /\ D = 0..Len(q)
  BY DEF JobsInv
<1>4. Len(q) \in Nat /\ DOMAIN q = 1..Len(q) /\ s \in sessions
  BY <1>2, <1>3 DEF JobsInv
<1>5. PICK f : f = [i \in D |-> IF i = 0 THEN s ELSE q[i]]
  OBVIOUS
<1>6. f \in [D -> sessions]
  BY <1>2, <1>3, <1>4, <1>5
<1>7. ASSUME NEW t \in sessions
      PROVE  IsFiniteSet({d \in D : f[d] = t}) /\ Cardinality({d \in D : f[d] = t}) <= SessionWindow
  <2>1. t \in SessionId
    BY <1>7 DEF JobsInv
  <2>2. /\ inflight[t] = Cardinality(Places(q, t)) + Cardinality(Runs(t)) + SubmitsOne(t)
        /\ inflight[t] \in 0..SessionWindow
    BY <1>3, <2>1 DEF JobsInv
  <2>3. /\ IsFiniteSet(Places(q, t)) /\ Cardinality(Places(q, t)) \in Nat /\ Cardinality(Runs(t)) \in Nat
        /\ SubmitsOne(t) \in {0, 1}
    BY <1>3, PlacesFinite, RunsFinite DEF SubmitsOne
  <2>4. CASE t # s
    <3>1. {d \in D : f[d] = t} = Places(q, t)
      BY <1>3, <1>4, <1>5, <2>4 DEF Places
    <3>2. Cardinality(Places(q, t)) <= SessionWindow
      BY <2>2, <2>3, ServerFacts
    <3> QED
      BY <2>3, <3>1, <3>2
  <2>5. CASE t = s
    <3>1. {d \in D : f[d] = t} = Places(q, t) \cup {0} /\ 0 \notin Places(q, t)
      BY <1>3, <1>4, <1>5, <2>5 DEF Places
    <3>2. IsFiniteSet(Places(q, t) \cup {0}) /\ Cardinality(Places(q, t) \cup {0}) = Cardinality(Places(q, t)) + 1
      BY <2>3, <3>1, FS_AddElement
    <3>3. SubmitsOne(t) = 1
      BY <1>2, <2>5 DEF SubmitsOne
    <3>4. Cardinality(Places(q, t)) + 1 <= SessionWindow
      BY <2>2, <2>3, <3>3, ServerFacts
    <3> QED
      BY <3>1, <3>2, <3>4
  <2> QED
    BY <2>4, <2>5
<1>8. Cardinality(D) <= Cardinality(sessions) * SessionWindow
  <2>1. PICK S : S = sessions
    OBVIOUS
  <2>2. IsFiniteSet(S) /\ f \in [D -> S]
        /\ \A t \in S : IsFiniteSet({d \in D : f[d] = t}) /\ Cardinality({d \in D : f[d] = t}) <= SessionWindow
    BY <1>6, <1>7, <2>1 DEF JobsInv
  <2> QED
    BY <2>1, <2>2, FiberBound, ServerFacts
<1>9. Cardinality(D) = Len(q) + 1
  BY <1>3, <1>4, FS_Interval
<1>10. Cardinality(sessions) * SessionWindow <= MaxSessions * SessionWindow
  <2>1. Cardinality(sessions) \in Nat /\ Cardinality(sessions) <= MaxSessions /\ MaxSessions \in Nat /\ SessionWindow \in Nat
    BY <1>2, FS_CardinalityType, ServerFacts DEF JobsInv, Sized
  <2>2. ASSUME NEW n \in Nat, NEW m \in Nat, NEW k \in Nat, n <= m PROVE n * k <= m * k /\ n * k \in Nat /\ m * k \in Nat
    BY <2>2
  <2> QED
    BY <2>1, <2>2
<1>11. Cardinality(sessions) * SessionWindow \in Nat
  BY FS_CardinalityType, ServerFacts DEF JobsInv
<1>12. JobsCap = MaxSessions * SessionWindow /\ JobsCap \in Nat
  <2>1. MaxSessions \in Nat \ {0} /\ SessionWindowSize \in Nat \ {0}
    BY <1>2, ServerAssumption DEF Sized
  <2>2. ASSUME NEW m \in Nat \ {0}, NEW k \in Nat \ {0} PROVE m * k \in Nat \ {0}
    BY <2>2
  <2>3. PICK c : c = MaxSessions * SessionWindowSize /\ c \in Nat \ {0}
    BY <2>1, <2>2
  <2>4. SessionWindow = SessionWindowSize /\ AtLeastOne(SessionWindowSize) = SessionWindowSize /\ AtLeastOne(c) = c
    BY <2>1, <2>3 DEF SessionWindow, AtLeastOne
  <2> QED
    BY <2>3, <2>4 DEF JobsCap
<1> QED
  BY <1>3, <1>4, <1>8, <1>9, <1>10, <1>11, <1>12 DEF Fits

LEMMA JobsStart == ServerInit => JobsInv
<1> SUFFICES ASSUME ServerInit PROVE JobsInv
  OBVIOUS
<1>1. \A s \in SessionId : Places(jobs, s) = {} /\ Runs(s) = {} /\ SubmitsOne(s) = 0
  BY ServerFacts DEF ServerInit, Places, Runs, SubmitsOne, Reading
<1>2. Cardinality({}) = 0 /\ IsFiniteSet({}) /\ 0 \in 0..SessionWindow /\ (MaxSessions > 0 => 0 <= MaxSessions)
  BY FS_EmptySet, ServerFacts
<1>3. \A s \in SessionId : inflight[s] = Cardinality(Places(jobs, s)) + Cardinality(Runs(s)) + SubmitsOne(s)
  <2>1. \A s \in SessionId : inflight[s] = 0
    BY DEF ServerInit
  <2> QED
    BY <1>1, <1>2, <2>1
<1>4. reader \in [SessionId -> [do : {"read", "mode", "system", "submit"}, sys : SystemID \cup {Nobody}, mode : Mode \cup {"none"}]]
  BY DEF ServerInit, Reading
<1>5. \A s \in SessionId : reader[s].do = "read"
  BY DEF ServerInit, Reading
<1>6. /\ st \in [SessionId -> {"none", "serving", "closed", "gone"}]
      /\ sessions = {s \in SessionId : st[s] \in {"serving", "closed"}} /\ sessions = {}
  BY DEF ServerInit
<1>7. /\ inflight \in [SessionId -> 0..SessionWindow] /\ jobs \in Seq(SessionId)
      /\ running \in [Worker -> SessionId \cup {Nobody}]
  BY <1>2 DEF ServerInit
<1> QED
  BY <1>2, <1>3, <1>4, <1>5, <1>6, <1>7 DEF JobsInv

\* A step of the table of sessions, or of a reader that is not about to submit.
LEMMA JobsKept ==
  ASSUME JobsInv, inflight' = inflight, jobs' = jobs, running' = running, NEW s \in SessionId,
         \A t \in SessionId : t # s => reader'[t] = reader[t] /\ st'[t] = st[t],
         st' \in [SessionId -> {"none", "serving", "closed", "gone"}],
         reader' \in [SessionId -> [do : {"read", "mode", "system", "submit"}, sys : SystemID \cup {Nobody}, mode : Mode \cup {"none"}]],
         sessions' = {t \in SessionId : st'[t] \in {"serving", "closed"}},
         IsFiniteSet(sessions'), MaxSessions > 0 => Cardinality(sessions') <= MaxSessions,
         reader'[s].do # "read" => s \in sessions',
         reader[s].do = "submit" <=> reader'[s].do = "submit"
  PROVE  JobsInv'
<1>1. \A t \in SessionId : Places(jobs, t)' = Places(jobs, t) /\ Runs(t)' = Runs(t) /\ SubmitsOne(t)' = SubmitsOne(t)
  BY DEF Places, Runs, SubmitsOne
<1>2. \A t \in SessionId : inflight'[t] = Cardinality(Places(jobs, t)') + Cardinality(Runs(t)') + SubmitsOne(t)'
  BY <1>1 DEF JobsInv
<1>3. \A t \in SessionId : reader'[t].do # "read" => t \in sessions'
  <2>1. \A t \in SessionId : t # s /\ reader[t].do # "read" => st[t] \in {"serving", "closed"}
    BY DEF JobsInv
  <2> QED
    BY <2>1
<1> QED
  BY <1>2, <1>3 DEF JobsInv

\* A step of the jobs: only session s, or none, gets or loses one.
LEMMA JobsMoved ==
  ASSUME JobsInv, sessions' = sessions, st' = st, NEW s \in SessionId,
         \A t \in SessionId : t # s => reader'[t] = reader[t] /\ inflight'[t] = inflight[t],
         reader' \in [SessionId -> [do : {"read", "mode", "system", "submit"}, sys : SystemID \cup {Nobody}, mode : Mode \cup {"none"}]],
         reader'[s].do # "read" => s \in sessions,
         inflight' \in [SessionId -> Int], inflight'[s] <= SessionWindow,
         jobs' \in Seq(SessionId), running' \in [Worker -> SessionId \cup {Nobody}],
         \A t \in SessionId : inflight'[t] = Cardinality(Places(jobs, t)') + Cardinality(Runs(t)') + SubmitsOne(t)'
  PROVE  JobsInv'
<1>1. ASSUME NEW t \in SessionId PROVE inflight'[t] \in 0..SessionWindow
  <2>1. Cardinality(Places(jobs, t)') \in Nat
    <3>1. PICK q \in Seq(SessionId) : q = jobs'
      OBVIOUS
    <3>2. Places(jobs, t)' = Places(q, t)
      BY <3>1 DEF Places
    <3> QED
      BY <3>2, PlacesFinite
  <2>2. Cardinality(Runs(t)') \in Nat
    <3>1. Runs(t)' \subseteq Worker
      BY DEF Runs
    <3> QED
      BY <3>1, ServerFacts, FS_Subset, FS_CardinalityType
  <2>3. SubmitsOne(t)' \in {0, 1}
    BY DEF SubmitsOne
  <2>4. inflight'[t] >= 0
    BY <2>1, <2>2, <2>3
  <2>5. inflight'[t] <= SessionWindow
    <3>1. t # s => inflight'[t] \in 0..SessionWindow
      BY DEF JobsInv
    <3> QED
      BY <3>1
  <2>6. inflight'[t] \in Int /\ SessionWindow \in Nat
    BY ServerFacts
  <2> QED
    BY <2>4, <2>5, <2>6, WithinRange
<1>2. inflight' \in [SessionId -> 0..SessionWindow]
  BY <1>1
<1>3. \A t \in SessionId : reader'[t].do # "read" => t \in sessions'
  BY DEF JobsInv
<1> QED
  BY <1>2, <1>3 DEF JobsInv

LEMMA TableStep ==
  ASSUME JobsInv, NEW s \in SessionId,
         \/ Accept(s) \/ CloseSession(s) \/ Unregister(s) \/ StoreMode(s) \/ StoreSystemID(s)
         \/ \E y \in SystemID, m \in Mode : CheckBind(s, y, m)
  PROVE  JobsInv'
<1>1. inflight' = inflight /\ jobs' = jobs /\ running' = running
  BY DEF Accept, CloseSession, Unregister, StoreMode, StoreSystemID, CheckBind
<1>2. st \in [SessionId -> {"none", "serving", "closed", "gone"}] /\ sessions = {t \in SessionId : st[t] \in {"serving", "closed"}}
  BY DEF JobsInv
<1>3. Cardinality(sessions) \in Nat /\ IsFiniteSet(sessions) /\ (MaxSessions > 0 => Cardinality(sessions) <= MaxSessions)
  BY FS_CardinalityType DEF JobsInv
<1> DEFINE R == [do : {"read", "mode", "system", "submit"}, sys : SystemID \cup {Nobody}, mode : Mode \cup {"none"}]
<1>4. reader \in [SessionId -> R] /\ reader[s] \in R
  BY DEF JobsInv
<1>5. CASE Accept(s) \/ CloseSession(s) \/ Unregister(s)
  <2>1. reader' = reader
    BY <1>5 DEF Accept, CloseSession, Unregister
  <2>2. PICK v \in {"serving", "closed", "gone"} : st' = [st EXCEPT ![s] = v]
    BY <1>5 DEF Accept, CloseSession, Unregister
  <2>3. sessions' = {t \in SessionId : st'[t] \in {"serving", "closed"}}
    BY <1>2, <1>5 DEF Accept, CloseSession, Unregister
  <2>4. IsFiniteSet(sessions') /\ (MaxSessions > 0 => Cardinality(sessions') <= MaxSessions)
    <3>1. CASE sessions' = sessions
      BY <1>3, <3>1
    <3>2. CASE Accept(s) /\ ~SessionsFull
      <4>1. sessions' = sessions \cup {s} /\ s \notin sessions
        BY <1>2, <3>2 DEF Accept
      <4>2. PICK S, T : S = sessions /\ T = sessions'
        OBVIOUS
      <4>3. IsFiniteSet(T) /\ Cardinality(T) = Cardinality(S) + 1
        BY <1>3, <4>1, <4>2, FS_AddElement
      <4> QED
        BY <1>3, <3>2, <4>2, <4>3, ServerFacts DEF SessionsFull
    <3>3. CASE Unregister(s)
      <4>1. sessions' = sessions \ {s} /\ s \in sessions
        BY <1>2, <3>3 DEF Unregister
      <4>2. PICK S, T : S = sessions /\ T = sessions'
        OBVIOUS
      <4>3. IsFiniteSet(T) /\ Cardinality(T) = Cardinality(S) - 1
        BY <1>3, <4>1, <4>2, FS_RemoveElement
      <4> QED
        BY <1>3, <4>2, <4>3, ServerFacts
    <3> QED
      BY <1>3, <1>5, <3>1, <3>2, <3>3, ServerFacts DEF Accept, CloseSession
  <2>5. reader'[s].do # "read" => s \in sessions'
    <3>1. reader[s].do # "read" => st[s] \in {"serving", "closed"}
      BY <1>2 DEF JobsInv
    <3>2. reader[s].do # "read" => CloseSession(s)
      BY <1>5, <3>1 DEF Accept, Unregister
    <3> QED
      BY <1>2, <2>1, <2>3, <3>2 DEF CloseSession
  <2>6. \A t \in SessionId : t # s => st'[t] = st[t]
    BY <1>2, <2>2
  <2>7. st' \in [SessionId -> {"none", "serving", "closed", "gone"}]
    BY <1>2, <2>2
  <2> QED
    BY <1>1, <1>4, <2>1, <2>3, <2>4, <2>5, <2>6, <2>7, JobsKept
<1>6. ASSUME sessions' = sessions, st' = st, NEW r \in R, reader' = [reader EXCEPT ![s] = r], s \in sessions,
             reader[s].do # "submit", r.do # "submit"
      PROVE  JobsInv'
  <2>1. reader' \in [SessionId -> R] /\ reader'[s] = r /\ \A t \in SessionId : t # s => reader'[t] = reader[t]
    BY <1>4, <1>6
  <2> QED
    BY <1>1, <1>2, <1>3, <1>6, <2>1, JobsKept
<1>7. CASE StoreMode(s)
  <2>1. PICK r : r = [reader[s] EXCEPT !.do = "system"]
    OBVIOUS
  <2>2. r \in R /\ r.do = "system"
    BY <1>4, <2>1
  <2>3. sessions' = sessions /\ st' = st /\ reader' = [reader EXCEPT ![s] = r] /\ reader[s].do = "mode"
    BY <1>7, <2>1 DEF StoreMode
  <2>4. s \in sessions
    BY <2>3 DEF JobsInv
  <2> QED
    BY <1>6, <2>2, <2>3, <2>4
<1>8. CASE StoreSystemID(s)
  <2>1. PICK r : r = Reading
    OBVIOUS
  <2>2. r \in R /\ r.do = "read"
    BY <2>1 DEF Reading
  <2>3. sessions' = sessions /\ st' = st /\ reader' = [reader EXCEPT ![s] = r] /\ reader[s].do = "system"
    BY <1>8, <2>1 DEF StoreSystemID
  <2>4. s \in sessions
    BY <2>3 DEF JobsInv
  <2> QED
    BY <1>6, <2>2, <2>3, <2>4
<1>9. ASSUME NEW y \in SystemID, NEW m \in Mode, CheckBind(s, y, m) PROVE JobsInv'
  <2>1. PICK r : r = [do |-> "mode", sys |-> y, mode |-> m]
    OBVIOUS
  <2>2. r \in R /\ r.do = "mode"
    BY <2>1
  <2>3. sessions' = sessions /\ st' = st /\ reader' = [reader EXCEPT ![s] = r] /\ reader[s].do = "read"
    BY <1>9, <2>1 DEF CheckBind
  <2>4. s \in sessions
    BY <1>2, <1>9 DEF CheckBind
  <2> QED
    BY <1>6, <2>2, <2>3, <2>4
<1> QED
  BY <1>5, <1>7, <1>8, <1>9

LEMMA SubmitStep ==
  ASSUME JobsInv, NEW s \in SessionId, ReadSubmit(s) \/ onSubmit(s)
  PROVE  JobsInv'
<1> DEFINE R == [do : {"read", "mode", "system", "submit"}, sys : SystemID \cup {Nobody}, mode : Mode \cup {"none"}]
<1>1. sessions' = sessions /\ st' = st /\ running' = running
  BY DEF ReadSubmit, onSubmit
<1>2. /\ reader \in [SessionId -> R] /\ reader[s] \in R /\ jobs \in Seq(SessionId)
      /\ inflight \in [SessionId -> 0..SessionWindow] /\ running \in [Worker -> SessionId \cup {Nobody}]
  BY DEF JobsInv
<1>3. \A t \in SessionId : Runs(t)' = Runs(t)
  BY <1>1 DEF Runs
<1>4. ASSUME NEW t \in SessionId
      PROVE  /\ inflight[t] = Cardinality(Places(jobs, t)) + Cardinality(Runs(t)) + SubmitsOne(t)
             /\ Cardinality(Places(jobs, t)) \in Nat /\ Cardinality(Runs(t)) \in Nat /\ inflight[t] \in Int
             /\ inflight[t] <= SessionWindow
  <2>1. PICK q \in Seq(SessionId) : q = jobs
    BY <1>2
  <2>2. Cardinality(Places(q, t)) \in Nat
    BY PlacesFinite
  <2>3. inflight[t] \in Int /\ inflight[t] <= SessionWindow
    BY <1>2, ServerFacts
  <2> QED
    BY <2>1, <2>2, <2>3, RunsFinite DEF JobsInv
<1>5. \A t \in SessionId : t # s /\ reader'[t] = reader[t] => SubmitsOne(t)' = SubmitsOne(t)
  BY DEF SubmitsOne
<1>6. CASE ReadSubmit(s)
  <2>1. PICK r : r = [reader[s] EXCEPT !.do = "submit"]
    OBVIOUS
  <2>2. r \in R /\ r.do = "submit"
    BY <1>2, <2>1
  <2>3. reader' = [reader EXCEPT ![s] = r] /\ reader[s].do = "read" /\ jobs' = jobs /\ s \in sessions
    BY <1>6, <2>1 DEF ReadSubmit, JobsInv
  <2>4. reader' \in [SessionId -> R] /\ reader'[s] = r /\ \A t \in SessionId : t # s => reader'[t] = reader[t]
    BY <1>2, <2>2, <2>3
  <2>5. SubmitsOne(s) = 0 /\ SubmitsOne(s)' = 1
    BY <2>2, <2>3, <2>4 DEF SubmitsOne
  <2>6. /\ \A t \in SessionId : t # s => inflight'[t] = inflight[t]
        /\ inflight'[s] = inflight[s] + 1 /\ inflight'[s] <= SessionWindow
        /\ inflight' \in [SessionId -> Int]
    BY <1>2, <1>6 DEF ReadSubmit
  <2>7. \A t \in SessionId : Places(jobs, t)' = Places(jobs, t)
    BY <2>3 DEF Places
  <2>8. ASSUME NEW t \in SessionId
        PROVE  inflight'[t] = Cardinality(Places(jobs, t)') + Cardinality(Runs(t)') + SubmitsOne(t)'
    <3>1. CASE t # s
      BY <1>3, <1>4, <1>5, <2>4, <2>6, <2>7, <3>1
    <3>2. CASE t = s
      BY <1>3, <1>4, <2>5, <2>6, <2>7, <3>2
    <3> QED
      BY <3>1, <3>2
  <2>9. jobs' \in Seq(SessionId) /\ running' \in [Worker -> SessionId \cup {Nobody}]
    BY <1>1, <1>2, <2>3
  <2> QED
    BY <1>1, <2>3, <2>4, <2>6, <2>8, <2>9, JobsMoved
<1>7. CASE onSubmit(s)
  <2>1. PICK r : r = Reading
    OBVIOUS
  <2>2. r \in R /\ r.do = "read"
    BY <2>1 DEF Reading
  <2>3. reader' = [reader EXCEPT ![s] = r] /\ reader[s].do = "submit"
    BY <1>7, <2>1 DEF onSubmit
  <2>4. reader' \in [SessionId -> R] /\ reader'[s] = r /\ \A t \in SessionId : t # s => reader'[t] = reader[t]
    BY <1>2, <2>2, <2>3
  <2>5. SubmitsOne(s) = 1 /\ SubmitsOne(s)' = 0
    BY <2>2, <2>3, <2>4 DEF SubmitsOne
  <2>6. CASE jobs' = Append(jobs, s) /\ inflight' = inflight
    <3>1. PICK q \in Seq(SessionId) : q = jobs
      BY <1>2
    <3>2. ASSUME NEW t \in SessionId
          PROVE  Cardinality(Places(jobs, t)') = Cardinality(Places(jobs, t)) + (IF t = s THEN 1 ELSE 0)
      <4>1. PICK z : z = Append(q, s)
        OBVIOUS
      <4>2. Places(jobs, t)' = Places(z, t) /\ Places(jobs, t) = Places(q, t)
        BY <2>6, <3>1, <4>1 DEF Places
      <4>3. Cardinality(Places(z, t)) = Cardinality(Places(q, t)) + (IF t = s THEN 1 ELSE 0)
        BY <4>1, PlacesAppend
      <4> QED
        BY <4>2, <4>3
    <3>3. ASSUME NEW t \in SessionId
          PROVE  inflight'[t] = Cardinality(Places(jobs, t)') + Cardinality(Runs(t)') + SubmitsOne(t)'
      <4>1. CASE t # s
        <5>1. SubmitsOne(t)' = SubmitsOne(t) /\ Runs(t)' = Runs(t)
          BY <1>3, <1>5, <2>4, <4>1
        <5>2. Cardinality(Places(jobs, t)') = Cardinality(Places(jobs, t))
          BY <1>4, <3>2, <4>1
        <5> QED
          BY <1>4, <2>6, <5>1, <5>2
      <4>2. CASE t = s
        BY <1>3, <1>4, <2>5, <2>6, <3>2, <4>2
      <4> QED
        BY <4>1, <4>2
    <3>4. jobs' \in Seq(SessionId) /\ running' \in [Worker -> SessionId \cup {Nobody}] /\ inflight' \in [SessionId -> Int]
      BY <1>1, <1>2, <2>6
    <3> QED
      BY <1>1, <1>4, <2>2, <2>4, <2>6, <3>3, <3>4, JobsMoved
  <2>7. CASE jobs' = jobs /\ inflight' = [inflight EXCEPT ![s] = @ - 1]
    <3>1. /\ \A t \in SessionId : t # s => inflight'[t] = inflight[t]
          /\ inflight'[s] = inflight[s] - 1 /\ inflight'[s] <= SessionWindow /\ inflight' \in [SessionId -> Int]
      BY <1>2, <2>7, ServerFacts
    <3>2. \A t \in SessionId : Places(jobs, t)' = Places(jobs, t)
      BY <2>7 DEF Places
    <3>3. ASSUME NEW t \in SessionId
          PROVE  inflight'[t] = Cardinality(Places(jobs, t)') + Cardinality(Runs(t)') + SubmitsOne(t)'
      <4>1. CASE t # s
        BY <1>3, <1>4, <1>5, <2>4, <3>1, <3>2, <4>1
      <4>2. CASE t = s
        BY <1>3, <1>4, <2>5, <3>1, <3>2, <4>2
      <4> QED
        BY <4>1, <4>2
    <3>4. jobs' \in Seq(SessionId) /\ running' \in [Worker -> SessionId \cup {Nobody}]
      BY <1>1, <1>2, <2>7
    <3> QED
      BY <1>1, <2>2, <2>4, <3>1, <3>3, <3>4, JobsMoved
  <2> QED
    BY <1>7, <2>6, <2>7 DEF onSubmit
<1> QED
  BY <1>6, <1>7

LEMMA WorkerStep ==
  ASSUME JobsInv, NEW w \in Worker, StartJob(w) \/ EndJob(w)
  PROVE  JobsInv'
<1>1. sessions' = sessions /\ st' = st /\ reader' = reader
  BY DEF StartJob, EndJob
<1>2. /\ jobs \in Seq(SessionId) /\ running \in [Worker -> SessionId \cup {Nobody}]
      /\ inflight \in [SessionId -> 0..SessionWindow] /\ Nobody \notin SessionId
      /\ SessionWindow \in Nat
  BY ServerFacts DEF JobsInv
<1>3. \A t \in SessionId : SubmitsOne(t)' = SubmitsOne(t) /\ SubmitsOne(t) \in {0, 1}
  BY <1>1 DEF SubmitsOne
<1>4. PICK q \in Seq(SessionId) : q = jobs
  BY <1>2
<1>5. ASSUME NEW t \in SessionId
      PROVE  /\ inflight[t] = Cardinality(Places(q, t)) + Cardinality(Runs(t)) + SubmitsOne(t)
             /\ Cardinality(Places(q, t)) \in Nat /\ Cardinality(Runs(t)) \in Nat
  BY <1>4, PlacesFinite, RunsFinite DEF JobsInv
<1>6. CASE StartJob(w)
  <2>1. PICK h, z : h = Head(q) /\ z = Tail(q)
    OBVIOUS
  <2>2. q # <<>> /\ jobs' = z /\ running' = [running EXCEPT ![w] = h] /\ running[w] = Nobody /\ inflight' = inflight
    BY <1>4, <1>6, <2>1 DEF StartJob
  <2>3. h \in SessionId /\ z \in Seq(SessionId)
    BY <2>1, <2>2
  <2>4. ASSUME NEW t \in SessionId
        PROVE  Cardinality(Places(jobs, t)') = Cardinality(Places(q, t)) - (IF t = h THEN 1 ELSE 0)
    <3>1. Places(jobs, t)' = Places(z, t)
      BY <2>2 DEF Places
    <3> QED
      BY <2>1, <2>2, <3>1, PlacesTail
  <2>5. ASSUME NEW t \in SessionId
        PROVE  Cardinality(Runs(t)') = Cardinality(Runs(t)) + (IF t = h THEN 1 ELSE 0)
    <3>1. PICK S, T : S = Runs(t) /\ T = Runs(t)'
      OBVIOUS
    <3>2. IsFiniteSet(S)
      BY <3>1, RunsFinite
    <3>3. CASE t = h
      <4>1. T = S \cup {w} /\ w \notin S
        BY <1>2, <2>2, <3>1, <3>3 DEF Runs
      <4> QED
        BY <3>1, <3>2, <3>3, <4>1, FS_AddElement
    <3>4. CASE t # h
      <4>1. T = S
        BY <1>2, <2>2, <3>1, <3>4 DEF Runs
      <4> QED
        BY <1>5, <3>1, <3>4, <4>1
    <3> QED
      BY <3>3, <3>4
  <2>6. ASSUME NEW t \in SessionId
        PROVE  inflight'[t] = Cardinality(Places(jobs, t)') + Cardinality(Runs(t)') + SubmitsOne(t)'
    BY <1>3, <1>5, <2>2, <2>4, <2>5
  <2>7. jobs' \in Seq(SessionId) /\ running' \in [Worker -> SessionId \cup {Nobody}] /\ inflight' \in [SessionId -> Int]
    BY <1>2, <2>2, <2>3
  <2>8. inflight'[h] <= SessionWindow
    BY <1>2, <2>2, <2>3
  <2>9. reader' \in [SessionId -> [do : {"read", "mode", "system", "submit"}, sys : SystemID \cup {Nobody}, mode : Mode \cup {"none"}]]
    BY <1>1 DEF JobsInv
  <2>10. reader'[h].do # "read" => h \in sessions
    BY <1>1, <2>3 DEF JobsInv
  <2> QED
    BY <1>1, <2>2, <2>3, <2>6, <2>7, <2>8, <2>9, <2>10, JobsMoved
<1>7. CASE EndJob(w)
  <2>1. PICK h : h = running[w]
    OBVIOUS
  <2>2. h \in SessionId /\ running' = [running EXCEPT ![w] = Nobody] /\ inflight' = [inflight EXCEPT ![h] = @ - 1] /\ jobs' = q
    BY <1>2, <1>4, <1>7, <2>1 DEF EndJob
  <2>3. \A t \in SessionId : Places(jobs, t)' = Places(q, t)
    BY <2>2 DEF Places
  <2>4. ASSUME NEW t \in SessionId
        PROVE  Cardinality(Runs(t)') = Cardinality(Runs(t)) - (IF t = h THEN 1 ELSE 0)
    <3>1. PICK S, T : S = Runs(t) /\ T = Runs(t)'
      OBVIOUS
    <3>2. IsFiniteSet(S)
      BY <3>1, RunsFinite
    <3>3. CASE t = h
      <4>1. T = S \ {w} /\ w \in S
        BY <1>2, <2>1, <2>2, <3>1, <3>3 DEF Runs
      <4> QED
        BY <3>1, <3>2, <3>3, <4>1, FS_RemoveElement
    <3>4. CASE t # h
      <4>1. T = S
        BY <1>2, <2>1, <2>2, <3>1, <3>4 DEF Runs
      <4> QED
        BY <1>5, <3>1, <3>4, <4>1
    <3> QED
      BY <3>3, <3>4
  <2>5. /\ inflight' \in [SessionId -> Int] /\ inflight'[h] = inflight[h] - 1 /\ inflight'[h] <= SessionWindow
        /\ \A t \in SessionId : t # h => inflight'[t] = inflight[t]
    BY <1>2, <2>2
  <2>6. ASSUME NEW t \in SessionId
        PROVE  inflight'[t] = Cardinality(Places(jobs, t)') + Cardinality(Runs(t)') + SubmitsOne(t)'
    <3>1. CASE t = h
      <4>1. Cardinality(Runs(t)') = Cardinality(Runs(t)) - 1
        BY <2>4, <3>1
      <4>2. Cardinality(Places(jobs, t)') = Cardinality(Places(q, t)) /\ SubmitsOne(t)' = SubmitsOne(t)
        BY <1>3, <2>3
      <4>3. inflight'[t] = inflight[t] - 1
        BY <2>5, <3>1
      <4> QED
        BY <1>3, <1>5, <4>1, <4>2, <4>3
    <3>2. CASE t # h
      <4>1. Cardinality(Runs(t)') = Cardinality(Runs(t))
        BY <1>5, <2>4, <3>2
      <4>2. Cardinality(Places(jobs, t)') = Cardinality(Places(q, t)) /\ SubmitsOne(t)' = SubmitsOne(t)
        BY <1>3, <2>3
      <4>3. inflight'[t] = inflight[t]
        BY <2>5, <3>2
      <4> QED
        BY <1>5, <4>1, <4>2, <4>3
    <3> QED
      BY <3>1, <3>2
  <2>7. jobs' \in Seq(SessionId) /\ running' \in [Worker -> SessionId \cup {Nobody}]
    BY <1>2, <1>4, <2>2
  <2>8. reader' \in [SessionId -> [do : {"read", "mode", "system", "submit"}, sys : SystemID \cup {Nobody}, mode : Mode \cup {"none"}]]
    BY <1>1 DEF JobsInv
  <2>9. reader'[h].do # "read" => h \in sessions
    BY <1>1, <2>2 DEF JobsInv
  <2> QED
    BY <1>1, <2>2, <2>5, <2>6, <2>7, <2>8, <2>9, JobsMoved
<1> QED
  BY <1>6, <1>7

LEMMA JobsStep == JobsInv /\ [ServerNext]_serverVars => JobsInv'
<1> SUFFICES ASSUME JobsInv, [ServerNext]_serverVars PROVE JobsInv'
  OBVIOUS
<1>1. CASE UNCHANGED serverVars
  <2>1. /\ st' = st /\ sessions' = sessions /\ reader' = reader /\ inflight' = inflight
        /\ jobs' = jobs /\ running' = running
    BY <1>1 DEF serverVars
  <2>2. \A t \in SessionId : Places(jobs, t)' = Places(jobs, t) /\ Runs(t)' = Runs(t) /\ SubmitsOne(t)' = SubmitsOne(t)
    BY <2>1 DEF Places, Runs, SubmitsOne
  <2> QED
    BY <2>1, <2>2 DEF JobsInv
<1>2. CASE ServerNext
  BY <1>2, TableStep, SubmitStep, WorkerStep DEF ServerNext
<1> QED
  BY <1>1, <1>2

\* The in-flight count of a session is at every moment the number of its submits
\* the reader hands over, the queue holds or a worker runs, and a submit within
\* its window is, with a limit of sessions and a window, turned away by a full queue
\* only when jobs of sessions that are gone take up places, for every number of
\* sessions, workers and submits (dispatch, CompleteSubmit, the job queue of main).
THEOREM JobsExactHolds == ServerSpec => []JobsExact
<1>1. ServerInit => JobsInv
  BY JobsStart
<1> QED
  BY <1>1, RoomForAll, JobsStep, PTL DEF ServerSpec
=============================================================================
