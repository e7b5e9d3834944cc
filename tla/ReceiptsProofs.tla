--------------------------- MODULE ReceiptsProofs ---------------------------
(***************************************************************************)
(* Proofs about delivery receipts, for any number of messages, segments,   *)
(* processes, handlers and flushes: the state recorded for a message is    *)
(* the worst outcome of its segments, rows are finished only after the     *)
(* client was told, and a message whose rows are all final is recorded.    *)
(*                                                                         *)
(* None of the three is inductive.  The invariant says of each goroutine   *)
(* what it has established at the place where it is (JobOK): that it holds *)
(* the lock of its row, that the receipt it carries is one the upstream    *)
(* sent, that the row still has the state it wrote unless another process  *)
(* has written it too, and what it concluded from a check that other       *)
(* goroutines have outdated since.                                         *)
(***************************************************************************)
EXTENDS Receipts, FiniteSetTheorems, TLAPS

Busy == {"getting", "updating", "aggregating", "recording", "telling", "deferring", "finishing", "checking", "deleting"}
Place == Busy \cup {"idle", "locking", "listing", "next"}
HandlerOnly == {"locking", "getting", "updating", "aggregating", "recording", "deferring"}
AfterUpdate == {"aggregating", "recording", "telling", "deferring", "finishing"}

RState == Intermediate \cup Final \cup {""}
JobType == [at : Place, row : Row \cup {Nobody}, state : RState, agg : Final \cup {"PENDING"},
            todo : SUBSET [row : Row, state : RState]]
RowType == [where : {"absent", "live", "swept", "finished"}, state : RState, ready : BOOLEAN,
            delivered : BOOLEAN, expired : BOOLEAN]

Types ==
  /\ row \in [Row -> RowType] /\ msg \in [Msg -> {"sending", "sent"} \cup Final]
  /\ lock \in [LockId -> Actor \cup {Nobody}] /\ job \in [Actor -> JobType]
  /\ outcome \in [Row -> Final]
  /\ acked \in [Row -> SUBSET RState] /\ writers \in [Row -> SUBSET Process]
  /\ faults \in 0..MaxFaults /\ crashes \in 0..MaxCrashes

\* The receipts that the upstream sends for a row.
Sent(r) == Intermediate \cup {outcome[r]}

\* No row of the message is written by two processes, nothing has failed.
Undisturbed(m) == Clean /\ \A r \in Rows(m) : ~Shared(r)

AllTold(m) == \A r \in Rows(m) : Wants(r[1]) => Told(r)

\* What goroutine a knows when its local state is j.
JobOK(a, j) ==
  /\ j.at \in Busy \cup {"locking"} => j.row \in Row /\ j.state \in Sent(j.row)
  /\ j.at \in Busy => lock[Lock(a, j.row)] = a
  /\ \A item \in j.todo : item.state \in Sent(item.row) /\ Smpp(item.row[1])
  /\ j.at \in HandlerOnly => a \in Worker
  /\ (a \in Flusher /\ j.at \in Busy) \/ j.at = "deferring" => Smpp(j.row[1])
  /\ j.at = "finishing" /\ Wants(j.row[1]) => j.state \in acked[j.row]
  /\ j.at = "recording" /\ j.agg # "PENDING" => j.agg = Worst(j.row[1])
  /\ a \in Worker /\ j.at \in AfterUpdate =>
       Home[a] \in writers[j.row] /\ (Shared(j.row) \/ row[j.row].state = j.state)
  /\ j.at \in {"aggregating", "recording"} => Shared(j.row) \/ ~row[j.row].delivered
  /\ j.at = "deleting" => AllTold(j.row[1]) /\ (Undisturbed(j.row[1]) => msg[j.row[1]] \in Final)

RowOK(r) ==
  /\ row[r].state \in Sent(r) \cup {""}
  /\ row[r].ready => Smpp(r[1]) /\ row[r].state \in Sent(r)
  /\ row[r].delivered /\ row[r].state \in Final /\ Wants(r[1]) => Told(r)
  /\ row[r].where = "finished" => (Wants(r[1]) => Told(r)) /\ (Undisturbed(r[1]) => msg[r[1]] \in Final)

AllFinal(m) == \A r \in Rows(m) : Live(r) /\ row[r].state \in Final

\* A handler is about to see the rows of the message, or has seen them final.
WillRecord(w, m) ==
  job[w].row \in Rows(m) /\ (job[w].at = "aggregating" \/ (job[w].at = "recording" /\ job[w].agg # "PENDING"))

MsgOK(m) ==
  /\ msg[m] \in Final => msg[m] = Worst(m)
  /\ msg[m] = "sending" => \A r \in Rows(m) : row[r].where = "absent" /\ row[r].state = ""
  /\ Undisturbed(m) /\ AllFinal(m) => msg[m] \in Final \/ \E w \in Worker : WillRecord(w, m)

ReceiptsInv ==
  /\ Types
  /\ \A a \in Actor : JobOK(a, job[a])
  /\ \A r \in Row : RowOK(r)
  /\ \A m \in Msg : MsgOK(m)

-----------------------------------------------------------------------------
(* Rows, ranks and the aggregate. *)

LEMMA RowsOf ==
  ASSUME NEW m \in Msg
  PROVE  /\ Rows(m) \subseteq Row /\ Rows(m) # {}
         /\ \A r \in Rows(m) : r[1] = m
         /\ IsFiniteSet(Rows(m)) /\ Cardinality(Rows(m)) = Segments[m]
<1>1. PICK n \in Nat : n = Segments[m] /\ n # 0
  BY ReceiptsAssumption
<1>2. PICK A, B : A = {m} /\ B = 1..n
  OBVIOUS
<1>3. Rows(m) = A \X B
  BY <1>1, <1>2 DEF Rows
<1>4. IsFiniteSet(A) /\ Cardinality(A) = 1
  BY <1>2, FS_Singleton
<1>5. IsFiniteSet(B) /\ Cardinality(B) = n
  <2>1. IsFiniteSet(1..n) /\ Cardinality(1..n) = IF 1 > n THEN 0 ELSE n - 1 + 1
    BY FS_Interval
  <2> QED
    BY <1>1, <1>2, <2>1
<1>6. IsFiniteSet(A \X B) /\ Cardinality(A \X B) = Cardinality(A) * Cardinality(B)
  BY <1>4, <1>5, FS_Product
<1>7. 1 * n = n
  OBVIOUS
<1>8. <<m, 1>> \in Rows(m)
  BY <1>1, <1>2, <1>3
<1>9. \A r \in Rows(m) : r[1] = m
  BY <1>2, <1>3
<1>10. Rows(m) \subseteq Row
  BY DEF Row
<1> QED
  BY <1>1, <1>3, <1>4, <1>5, <1>6, <1>7, <1>8, <1>9, <1>10

LEMMA RowOfMsg ==
  ASSUME NEW r \in Row
  PROVE  r[1] \in Msg /\ r \in Rows(r[1])
<1>1. PICK m \in Msg : r \in Rows(m)
  BY DEF Row
<1> QED
  BY <1>1, RowsOf

LEMMA RowOfOne ==
  ASSUME NEW m \in Msg, NEW r \in Row
  PROVE  r \in Rows(m) <=> r[1] = m
  BY RowsOf, RowOfMsg

LEMMA Ranks ==
  ASSUME NEW s \in Final
  PROVE  /\ dlrFailureRank(s) \in 0..6
         /\ dlrFailureRank(s) = 0 <=> s = "DELIVRD"
         /\ \A t \in Final : dlrFailureRank(s) = dlrFailureRank(t) => s = t
  BY DEF Final, dlrFailureRank

LEMMA HasLargest ==
  ASSUME NEW S \in SUBSET (0..6), S # {}
  PROVE  \E x \in S : \A y \in S : y <= x
<1>1. 6 \in S \/ 5 \in S \/ 4 \in S \/ 3 \in S \/ 2 \in S \/ 1 \in S \/ 0 \in S
  <2>1. PICK z \in S : z \in 0..6
    OBVIOUS
  <2>2. z = 6 \/ z = 5 \/ z = 4 \/ z = 3 \/ z = 2 \/ z = 1 \/ z = 0
    BY <2>1
  <2> QED
    BY <2>2
<1>2. \A y \in S : y \in Nat /\ y <= 6
  OBVIOUS
<1>3. CASE 6 \in S
  BY <1>2, <1>3
<1>4. CASE 6 \notin S /\ 5 \in S
  BY <1>4
<1>5. CASE 6 \notin S /\ 5 \notin S /\ 4 \in S
  BY <1>5
<1>6. CASE 6 \notin S /\ 5 \notin S /\ 4 \notin S /\ 3 \in S
  BY <1>6
<1>7. CASE 6 \notin S /\ 5 \notin S /\ 4 \notin S /\ 3 \notin S /\ 2 \in S
  BY <1>7
<1>8. CASE 6 \notin S /\ 5 \notin S /\ 4 \notin S /\ 3 \notin S /\ 2 \notin S /\ 1 \in S
  BY <1>8
<1>9. CASE 6 \notin S /\ 5 \notin S /\ 4 \notin S /\ 3 \notin S /\ 2 \notin S /\ 1 \notin S /\ 0 \in S
  BY <1>9
<1> QED
  BY <1>1, <1>3, <1>4, <1>5, <1>6, <1>7, <1>8, <1>9

LEMMA WorstIs ==
  ASSUME NEW m \in Msg, outcome \in [Row -> Final]
  PROVE  /\ Worst(m) \in Final
         /\ \E r \in Rows(m) : Worst(m) = outcome[r]
         /\ \A r \in Rows(m) : dlrFailureRank(outcome[r]) <= dlrFailureRank(Worst(m))
<1>1. \A r \in Rows(m) : outcome[r] \in Final /\ dlrFailureRank(outcome[r]) \in 0..6
  BY RowsOf, Ranks
<1>2. PICK S : S = {dlrFailureRank(outcome[r]) : r \in Rows(m)}
  OBVIOUS
<1>3. S \in SUBSET (0..6) /\ S # {}
  BY <1>1, <1>2, RowsOf
<1>4. PICK x \in S : \A y \in S : y <= x
  BY <1>3, HasLargest
<1>5. PICK s \in {outcome[r] : r \in Rows(m)} : dlrFailureRank(s) = x
  BY <1>2, <1>4
<1>6. \A r \in Rows(m) : dlrFailureRank(outcome[r]) <= dlrFailureRank(s)
  BY <1>2, <1>4, <1>5
<1>7. /\ Worst(m) \in {outcome[r] : r \in Rows(m)}
      /\ \A r \in Rows(m) : dlrFailureRank(outcome[r]) <= dlrFailureRank(Worst(m))
  BY <1>5, <1>6 DEF Worst
<1> QED
  BY <1>1, <1>7

LEMMA Aggregated ==
  ASSUME ReceiptsInv, NEW m \in Msg
  PROVE  /\ aggregateDLR(m).final <=> AllFinal(m)
         /\ aggregateDLR(m).final /\ aggregateDLR(m).told => \A r \in Rows(m) : row[r].delivered
         /\ aggregateDLR(m).state = IF AllFinal(m) THEN Worst(m) ELSE "PENDING"
<1>1. PICK S : S = {r \in Rows(m) : Live(r)}
  OBVIOUS
<1>2. IsFiniteSet(S) /\ (Cardinality(S) = Segments[m] <=> S = Rows(m))
  <2>1. PICK R : R = Rows(m)
    OBVIOUS
  <2>2. IsFiniteSet(R) /\ Cardinality(R) = Segments[m] /\ S \subseteq R
    BY <1>1, <2>1, RowsOf
  <2>3. IsFiniteSet(S) /\ Cardinality(S) <= Cardinality(R) /\ (Cardinality(S) = Cardinality(R) => S = R)
    BY <2>2, FS_Subset
  <2> QED
    BY <2>1, <2>2, <2>3
<1>3. PICK f : f = (Cardinality(S) = Segments[m] /\ \A r \in S : row[r].state \in Final)
  OBVIOUS
<1>4. f <=> AllFinal(m)
  BY <1>1, <1>2, <1>3 DEF AllFinal
<1>5. PICK u : u = Max({dlrFailureRank(row[r].state) : r \in S} \cup {0})
  OBVIOUS
<1>6. PICK d : d = (Cardinality(S) = Segments[m] /\ \A r \in S : row[r].delivered)
  OBVIOUS
<1>7. aggregateDLR(m) =
        [final |-> f,
         told  |-> d,
         state |-> CASE ~f -> "PENDING"
                     [] f /\ u = 0 -> "DELIVRD"
                     [] OTHER -> CHOOSE s \in Final : dlrFailureRank(s) = u]
  BY <1>1, <1>3, <1>5, <1>6 DEF aggregateDLR
<1>8. aggregateDLR(m).final = f
  BY <1>7
<1>9. aggregateDLR(m).told => \A r \in Rows(m) : row[r].delivered
  <2>1. aggregateDLR(m).told = d
    BY <1>7
  <2> QED
    BY <1>2, <1>6, <2>1
<1>10. CASE ~f
  <2>1. aggregateDLR(m).state = "PENDING"
    BY <1>7, <1>10
  <2> QED
    BY <1>4, <1>8, <1>9, <1>10, <2>1
<1>11. CASE f
  <2>1. PICK v : v = Worst(m)
    OBVIOUS
  <2>2. outcome \in [Row -> Final]
    BY DEF ReceiptsInv, Types
  <2>3. /\ v \in Final /\ \E r \in Rows(m) : v = outcome[r]
        /\ \A r \in Rows(m) : dlrFailureRank(outcome[r]) <= dlrFailureRank(v)
    BY <2>1, <2>2, WorstIs
  <2>4. \A r \in Rows(m) : row[r].state = outcome[r]
    <3> SUFFICES ASSUME NEW r \in Rows(m) PROVE row[r].state = outcome[r]
      OBVIOUS
    <3>1. r \in Row /\ row[r].state \in Final
      BY <1>4, <1>11, RowsOf DEF AllFinal
    <3>2. row[r].state \in Intermediate \cup {outcome[r]} \cup {""}
      BY <3>1 DEF ReceiptsInv, RowOK, Sent
    <3> QED
      BY <3>1, <3>2, ReceiptsAssumption DEF Final
  <2>5. S = Rows(m)
    BY <1>2, <1>3, <1>11
  <2>6. PICK K : K = {dlrFailureRank(row[r].state) : r \in S} \cup {0}
    OBVIOUS
  <2>7. dlrFailureRank(v) \in K /\ dlrFailureRank(v) \in 0..6 /\ K \subseteq 0..6
    <3>1. \A r \in Rows(m) : outcome[r] \in Final
      BY <2>2, RowsOf
    <3> QED
      BY <2>3, <2>4, <2>5, <2>6, <3>1, Ranks
  <2>8. \A y \in K : y <= dlrFailureRank(v)
    BY <2>3, <2>4, <2>5, <2>6, <2>7
  <2>9. u = dlrFailureRank(v)
    <3>1. u = CHOOSE x \in K : \A y \in K : x >= y
      BY <1>5, <2>6 DEF Max
    <3>2. u \in K /\ \A y \in K : u >= y
      BY <2>7, <2>8, <3>1
    <3> QED
      BY <2>7, <2>8, <3>2
  <2>10. aggregateDLR(m).state = v
    <3>1. CASE u = 0
      BY <1>7, <1>11, <2>3, <2>9, <3>1, Ranks
    <3>2. CASE u # 0
      <4>1. aggregateDLR(m).state = CHOOSE s \in Final : dlrFailureRank(s) = u
        BY <1>7, <1>11, <3>2
      <4>2. \A s \in Final : dlrFailureRank(s) = u <=> s = v
        BY <2>3, <2>9, Ranks
      <4> QED
        BY <2>3, <4>1, <4>2
    <3> QED
      BY <3>1, <3>2
  <2> QED
    BY <1>4, <1>8, <1>9, <1>11, <2>1, <2>10
<1> QED
  BY <1>10, <1>11, <1>3

-----------------------------------------------------------------------------
(* What a step leaves as it is. *)

\* What never goes back: acknowledgements, writers, final states, failures.
Later ==
  /\ outcome' = outcome
  /\ \A r \in Row : acked[r] \subseteq acked'[r] /\ writers[r] \subseteq writers'[r]
  /\ \A m \in Msg : msg[m] \in Final => msg'[m] \in Final
  /\ Clean' => Clean

LEMMA RowsLater ==
  ASSUME Later, NEW r \in Row
  PROVE  (Shared(r) => Shared(r)') /\ (Told(r) => Told(r)') /\ Sent(r)' = Sent(r)
<1>1. acked[r] \subseteq acked'[r] /\ writers[r] \subseteq writers'[r] /\ outcome' = outcome
  BY DEF Later
<1>2. Shared(r) => Shared(r)'
  BY <1>1 DEF Shared
<1>3. Told(r) => Told(r)'
  BY <1>1, <1>2 DEF Told
<1>4. Sent(r)' = Sent(r)
  BY <1>1 DEF Sent
<1> QED
  BY <1>2, <1>3, <1>4

LEMMA MsgsLater ==
  ASSUME Later, NEW m \in Msg
  PROVE  /\ AllTold(m) => AllTold(m)'
         /\ Undisturbed(m)' => Undisturbed(m)
         /\ Worst(m)' = Worst(m)
<1>1. \A r \in Rows(m) : (Shared(r) => Shared(r)') /\ (Told(r) => Told(r)')
  BY RowsOf, RowsLater
<1>2. AllTold(m) => AllTold(m)'
  BY <1>1 DEF AllTold
<1>3. Undisturbed(m)' => Undisturbed(m)
  BY <1>1 DEF Undisturbed, Later
<1>4. Worst(m)' = Worst(m)
  BY DEF Worst, Later
<1> QED
  BY <1>2, <1>3, <1>4

LEMMA JobKept ==
  ASSUME Later, NEW b \in Actor, NEW j \in JobType, JobOK(b, j),
         j.at \in Busy => lock'[Lock(b, j.row)] = b,
         b \in Worker /\ j.at \in AfterUpdate =>
           Shared(j.row)' \/ (row'[j.row].state = row[j.row].state /\ (row'[j.row].delivered => row[j.row].delivered))
  PROVE  JobOK(b, j)'
<1>1. j.at \in Busy \cup {"locking"} => j.row \in Row /\ j.state \in Sent(j.row)'
  BY RowsLater DEF JobOK
<1>2. \A item \in j.todo : item.state \in Sent(item.row)' /\ Smpp(item.row[1])
  <2> SUFFICES ASSUME NEW item \in j.todo PROVE item.state \in Sent(item.row)' /\ Smpp(item.row[1])
    OBVIOUS
  <2>1. item.row \in Row
    BY DEF JobType
  <2> QED
    BY <2>1, RowsLater DEF JobOK
<1>3. j.at = "finishing" /\ Wants(j.row[1]) => j.state \in acked'[j.row]
  BY <1>1 DEF JobOK, Later, Busy
<1>4. j.at \in Busy => j.row \in Row /\ j.row[1] \in Msg /\ j.row \in Rows(j.row[1])
  BY <1>1, RowOfMsg
<1>5. j.at = "recording" /\ j.agg # "PENDING" => j.agg = Worst(j.row[1])'
  BY <1>4, MsgsLater DEF JobOK, Busy
<1>6. b \in Worker /\ j.at \in AfterUpdate =>
        Home[b] \in writers'[j.row] /\ (Shared(j.row)' \/ row'[j.row].state = j.state)
  <2> SUFFICES ASSUME b \in Worker, j.at \in AfterUpdate
               PROVE  Home[b] \in writers'[j.row] /\ (Shared(j.row)' \/ row'[j.row].state = j.state)
    OBVIOUS
  <2>1. j.row \in Row
    BY <1>4 DEF AfterUpdate, Busy
  <2> QED
    BY <2>1, RowsLater DEF JobOK, Later
<1>7. j.at \in {"aggregating", "recording"} => Shared(j.row)' \/ ~row'[j.row].delivered
  <2> SUFFICES ASSUME j.at \in {"aggregating", "recording"} PROVE Shared(j.row)' \/ ~row'[j.row].delivered
    OBVIOUS
  <2>1. j.row \in Row /\ b \in Worker /\ j.at \in AfterUpdate
    BY <1>4 DEF AfterUpdate, Busy, JobOK, HandlerOnly
  <2> QED
    BY <2>1, RowsLater DEF JobOK
<1>8. j.at = "deleting" => AllTold(j.row[1])' /\ (Undisturbed(j.row[1])' => msg'[j.row[1]] \in Final)
  <2> SUFFICES ASSUME j.at = "deleting"
               PROVE  AllTold(j.row[1])' /\ (Undisturbed(j.row[1])' => msg'[j.row[1]] \in Final)
    OBVIOUS
  <2>1. PICK m \in Msg : m = j.row[1]
    BY <1>4 DEF Busy
  <2>2. AllTold(m) /\ (Undisturbed(m) => msg[m] \in Final)
    BY <2>1 DEF JobOK
  <2>3. AllTold(m)' /\ (Undisturbed(m)' => msg'[m] \in Final)
    BY <2>2, MsgsLater DEF Later
  <2> QED
    BY <2>1, <2>3
<1> QED
  BY <1>1, <1>2, <1>3, <1>5, <1>6, <1>7, <1>8 DEF JobOK

LEMMA RowKept ==
  ASSUME Later, NEW r \in Row, RowOK(r), row'[r].state = row[r].state, row'[r].ready => row[r].ready,
         row'[r].delivered => row[r].delivered, row'[r].where = "finished" => row[r].where = "finished"
  PROVE  RowOK(r)'
<1>1. r[1] \in Msg
  BY RowOfMsg
<1>2. (Told(r) => Told(r)') /\ Sent(r)' = Sent(r)
  BY RowsLater
<1>3. Undisturbed(r[1])' => Undisturbed(r[1])
  BY <1>1, MsgsLater
<1>4. msg[r[1]] \in Final => msg'[r[1]] \in Final
  BY <1>1 DEF Later
<1> QED
  BY <1>2, <1>3, <1>4 DEF RowOK

LEMMA MsgKept ==
  ASSUME Later, NEW m \in Msg, MsgOK(m), msg'[m] = msg[m],
         msg[m] = "sending" => \A r \in Rows(m) : row'[r].where = row[r].where /\ row'[r].state = row[r].state,
         Undisturbed(m)' /\ AllFinal(m)' => AllFinal(m) /\ \A w \in Worker : WillRecord(w, m) => WillRecord(w, m)'
  PROVE  MsgOK(m)'
<1>1. Worst(m)' = Worst(m) /\ (Undisturbed(m)' => Undisturbed(m))
  BY MsgsLater
<1>2. msg'[m] \in Final => msg'[m] = Worst(m)'
  BY <1>1 DEF MsgOK
<1>3. msg'[m] = "sending" => \A r \in Rows(m) : row'[r].where = "absent" /\ row'[r].state = ""
  BY DEF MsgOK
<1>4. Undisturbed(m)' /\ AllFinal(m)' => msg'[m] \in Final \/ \E w \in Worker : WillRecord(w, m)'
  BY <1>1 DEF MsgOK
<1> QED
  BY <1>2, <1>3, <1>4 DEF MsgOK

\* A lock that is taken or released by a was free or its own.
LEMMA OthersKeepLocks ==
  ASSUME ReceiptsInv, NEW a \in Actor, NEW l \in LockId, lock[l] \in {a, Nobody}, NEW v \in {a, Nobody},
         lock' = [lock EXCEPT ![l] = v]
  PROVE  /\ lock' \in [LockId -> Actor \cup {Nobody}] /\ lock'[l] = v
         /\ \A b \in Actor : b # a /\ job[b].at \in Busy => lock'[Lock(b, job[b].row)] = b
<1>1. lock \in [LockId -> Actor \cup {Nobody}] /\ Nobody \notin Actor
  BY ReceiptsAssumption DEF ReceiptsInv, Types
<1>2. lock' \in [LockId -> Actor \cup {Nobody}] /\ lock'[l] = v
  BY <1>1
<1>3. ASSUME NEW b \in Actor, b # a, job[b].at \in Busy PROVE lock'[Lock(b, job[b].row)] = b
  <2>1. job[b].row \in Row /\ lock[Lock(b, job[b].row)] = b
    BY <1>3 DEF ReceiptsInv, JobOK
  <2>2. PICK k : k = Lock(b, job[b].row)
    OBVIOUS
  <2>3. k \in LockId
    BY <2>1, <2>2, ReceiptsAssumption DEF Lock, LockId
  <2>4. k # l
    BY <1>1, <1>3, <2>1, <2>2
  <2> QED
    BY <1>1, <2>1, <2>2, <2>3, <2>4
<1> QED
  BY <1>2, <1>3

\* Two goroutines at work on one row are of different processes.
LEMMA OneOfAProcess ==
  ASSUME ReceiptsInv, NEW a \in Actor, NEW b \in Actor, a # b, job[a].at \in Busy, job[b].at \in Busy,
         job[a].row = job[b].row
  PROVE  Home[a] # Home[b]
  BY DEF ReceiptsInv, JobOK, Lock

-----------------------------------------------------------------------------
(* Steps of a goroutine that change only its own state and its lock. *)

\* Goroutine a goes on; the others keep their locks.
Becomes(a, j) ==
  /\ job' = [job EXCEPT ![a] = j]
  /\ lock' \in [LockId -> Actor \cup {Nobody}]
  /\ \A b \in Actor : b # a /\ job[b].at \in Busy => lock'[Lock(b, job[b].row)] = b

LEMMA JobTypes ==
  ASSUME Types, NEW a \in Actor, NEW j \in JobType, job' = [job EXCEPT ![a] = j]
  PROVE  job' \in [Actor -> JobType] /\ job'[a] = j /\ \A b \in Actor : b # a => job'[b] = job[b]
  BY DEF Types

\* A goroutine that is not about to record moves on, or a store call fails.
LEMMA Moves ==
  ASSUME ReceiptsInv, NEW a \in Actor, NEW j \in JobType, Becomes(a, j), JobOK(a, j)',
         row' = row, msg' = msg, outcome' = outcome, acked' = acked, writers' = writers,
         faults' \in 0..MaxFaults, crashes' = crashes, Clean' => Clean,
         job[a].at \in {"aggregating", "recording"} => ~Clean'
  PROVE  ReceiptsInv'
<1>1. job' \in [Actor -> JobType] /\ job'[a] = j /\ \A b \in Actor : b # a => job'[b] = job[b]
  BY JobTypes DEF ReceiptsInv, Becomes
<1>2. Types'
  BY <1>1 DEF ReceiptsInv, Types, Becomes
<1>3. Later
  BY DEF Later
<1>4. ASSUME NEW b \in Actor PROVE JobOK(b, job[b])'
  <2>1. CASE b = a
    BY <1>1, <2>1
  <2>2. CASE b # a
    <3>1. PICK k \in JobType : k = job[b]
      BY DEF ReceiptsInv, Types
    <3>2. JobOK(b, k)
      BY <3>1 DEF ReceiptsInv
    <3>3. k.at \in Busy => lock'[Lock(b, k.row)] = b
      BY <2>2, <3>1 DEF Becomes
    <3>4. JobOK(b, k)'
      BY <1>3, <3>2, <3>3, JobKept
    <3>5. job'[b] = k
      BY <1>1, <2>2, <3>1
    <3> QED
      BY <3>4, <3>5
  <2> QED
    BY <2>1, <2>2
<1>5. ASSUME NEW r \in Row PROVE RowOK(r)'
  BY <1>3, RowKept DEF ReceiptsInv
<1>6. ASSUME NEW m \in Msg PROVE MsgOK(m)'
  <2>1. AllFinal(m)' => AllFinal(m)
    BY DEF AllFinal, Live
  <2>2. ASSUME Undisturbed(m)', NEW w \in Worker, WillRecord(w, m) PROVE WillRecord(w, m)'
    <3>1. w # a
      BY <2>2 DEF WillRecord, Undisturbed
    <3>2. job'[w] = job[w]
      BY <1>1, <3>1 DEF Actor
    <3> QED
      BY <2>2, <3>2 DEF WillRecord
  <2>3. MsgOK(m)
    BY DEF ReceiptsInv
  <2> QED
    BY <1>3, <2>1, <2>2, <2>3, MsgKept
<1> QED
  BY <1>2, <1>4, <1>5, <1>6 DEF ReceiptsInv

\* A goroutine that has no row.
LEMMA IdleType ==
  /\ Idle \in JobType /\ Idle.at = "idle" /\ Idle.todo = {} /\ Idle.agg = "PENDING"
  /\ \A p \in Place : LET j == [Idle EXCEPT !.at = p] IN j \in JobType /\ j.at = p /\ j.todo = {}
  /\ \A p \in Place, t \in SUBSET [row : Row, state : RState] :
       LET j == [Idle EXCEPT !.at = p, !.todo = t] IN j \in JobType /\ j.at = p /\ j.todo = t
  BY DEF Idle, JobType, Place, RState

LEMMA LockIds ==
  ASSUME NEW a \in Actor, NEW r \in Row
  PROVE  Lock(a, r) \in LockId
  BY ReceiptsAssumption DEF Lock, LockId

\* The lock of the row is released, and the goroutine ends, lists again or goes on
\* with what it has listed.
LEMMA Releases ==
  ASSUME ReceiptsInv, NEW a \in Actor, job[a].at \in Busy, NEW rest \in SUBSET job[a].todo, outcome' = outcome,
         Unlocks(a, rest) \/ AfterRow(a)
  PROVE  \E j \in JobType : Becomes(a, j) /\ JobOK(a, j)' /\ j.at \in {"idle", "listing", "next"}
<1>1. job[a] \in JobType /\ JobOK(a, job[a])
  BY DEF ReceiptsInv, Types
<1>2. PICK l : l = Lock(a, job[a].row)
  OBVIOUS
<1>3. l \in LockId /\ lock[l] = a
  BY <1>1, <1>2, LockIds DEF JobOK
<1>4. lock' = [lock EXCEPT ![l] = Nobody]
  BY <1>2 DEF Unlocks, AfterRow
<1>5. PICK t, j :
        /\ t \in SUBSET job[a].todo
        /\ job' = [job EXCEPT ![a] = j] /\ j \in {Idle, [Idle EXCEPT !.at = "listing"], [Idle EXCEPT !.at = "next", !.todo = t]}
  BY DEF Unlocks, AfterRow
<1>6. t \in SUBSET [row : Row, state : RState] /\ \A item \in t : item.state \in Sent(item.row) /\ Smpp(item.row[1])
  BY <1>1, <1>5 DEF JobType, JobOK
<1>7. j \in JobType /\ j.at \in {"idle", "listing", "next"} /\ j.todo \in {{}, t}
  <2>1. "listing" \in Place /\ "next" \in Place
    BY DEF Place
  <2>2. CASE j = Idle
    BY <2>2, IdleType
  <2>3. CASE j = [Idle EXCEPT !.at = "listing"]
    BY <2>1, <2>3, IdleType
  <2>4. CASE j = [Idle EXCEPT !.at = "next", !.todo = t]
    BY <1>6, <2>1, <2>4, IdleType
  <2> QED
    BY <1>5, <2>2, <2>3, <2>4
<1>8. \A item \in j.todo : item.state \in Sent(item.row)' /\ Smpp(item.row[1])
  BY <1>6, <1>7 DEF Sent
<1>9. JobOK(a, j)'
  BY <1>7, <1>8 DEF JobOK, Busy, HandlerOnly, AfterUpdate
<1>10. Becomes(a, j)
  BY <1>3, <1>4, <1>5, OthersKeepLocks DEF Becomes
<1> QED
  BY <1>7, <1>9, <1>10

\* The goroutine goes to another place with the lock it has.
LEMMA Walks ==
  ASSUME ReceiptsInv, NEW a \in Actor, NEW p \in Place, Goes(a, p), lock' = lock
  PROVE  \E j \in JobType : /\ Becomes(a, j) /\ j.at = p /\ j.row = job[a].row /\ j.state = job[a].state
                            /\ j.agg = job[a].agg /\ j.todo = job[a].todo
<1>1. PICK k \in JobType : k = job[a]
  BY DEF ReceiptsInv, Types
<1>2. PICK j : j = [k EXCEPT !.at = p]
  OBVIOUS
<1>3. j \in JobType /\ j.at = p /\ j.row = k.row /\ j.state = k.state /\ j.agg = k.agg /\ j.todo = k.todo
  BY <1>2 DEF JobType
<1>4. job' = [job EXCEPT ![a] = j]
  BY <1>1, <1>2 DEF Goes, ReceiptsInv, Types
<1>5. Becomes(a, j)
  BY <1>4 DEF Becomes, ReceiptsInv, Types, JobOK
<1> QED
  BY <1>1, <1>3, <1>5

StoreKept == row' = row /\ msg' = msg /\ outcome' = outcome /\ acked' = acked /\ writers' = writers /\ crashes' = crashes
MayFail == faults' = faults \/ (faults > 0 /\ faults' = faults - 1)

LEMMA CleanLater ==
  ASSUME ReceiptsInv, crashes' = crashes, MayFail
  PROVE  faults' \in 0..MaxFaults /\ (Clean' => Clean) /\ (faults' # faults => ~Clean')
  BY ReceiptsAssumption DEF ReceiptsInv, Types, MayFail, Clean

LEMMA Quiet ==
  ASSUME ReceiptsInv, NEW a \in Actor, StoreKept, MayFail,
         job[a].at \in {"aggregating", "recording"} => faults' # faults,
         \E j \in JobType : Becomes(a, j) /\ JobOK(a, j)'
  PROVE  ReceiptsInv'
<1>1. PICK j \in JobType : Becomes(a, j) /\ JobOK(a, j)'
  OBVIOUS
<1>2. faults' \in 0..MaxFaults /\ (Clean' => Clean) /\ (faults' # faults => ~Clean')
  BY CleanLater DEF StoreKept
<1> QED
  BY <1>1, <1>2, Moves DEF StoreKept

\* A step to place p with the lock that the goroutine has.
LEMMA WalkStep ==
  ASSUME ReceiptsInv, NEW a \in Actor, NEW p \in Place, Goes(a, p), lock' = lock, StoreKept, MayFail,
         job[a].at \in {"aggregating", "recording"} => faults' # faults,
         \A j \in JobType : j.at = p /\ j.row = job[a].row /\ j.state = job[a].state
                            /\ j.agg = job[a].agg /\ j.todo = job[a].todo => JobOK(a, j)
  PROVE  ReceiptsInv'
<1>1. PICK j \in JobType : /\ Becomes(a, j) /\ j.at = p /\ j.row = job[a].row /\ j.state = job[a].state
                           /\ j.agg = job[a].agg /\ j.todo = job[a].todo
  BY Walks
<1>2. JobOK(a, j)
  BY <1>1
<1>3. Later
  BY CleanLater DEF Later, StoreKept
<1>4. j.at \in Busy => lock'[Lock(a, j.row)] = a
  BY <1>2 DEF JobOK
<1>5. JobOK(a, j)'
  BY <1>2, <1>3, <1>4, JobKept DEF StoreKept
<1> QED
  BY <1>1, <1>5, Quiet

LEMMA ReleaseStep ==
  ASSUME ReceiptsInv, NEW a \in Actor, job[a].at \in Busy, NEW rest \in SUBSET job[a].todo,
         Unlocks(a, rest) \/ AfterRow(a), StoreKept, MayFail,
         job[a].at \in {"aggregating", "recording"} => faults' # faults
  PROVE  ReceiptsInv'
  BY Releases, Quiet DEF StoreKept

LEMMA OnDLRStep ==
  ASSUME ReceiptsInv, NEW w \in Worker, OnDLR(w)
  PROVE  ReceiptsInv'
<1>1. w \in Actor /\ StoreKept /\ MayFail /\ lock' = lock
  BY DEF OnDLR, Actor, StoreKept, MayFail, history
<1>2. PICK r, s : r \in Row /\ s \in Intermediate \cup {outcome[r]}
                       /\ job' = [job EXCEPT ![w] = [Idle EXCEPT !.at = "locking", !.row = r, !.state = s]]
  BY DEF OnDLR
<1>3. PICK j : j = [Idle EXCEPT !.at = "locking", !.row = r, !.state = s]
  OBVIOUS
<1>4. outcome \in [Row -> Final]
  BY DEF ReceiptsInv, Types
<1>5. s \in RState
  BY <1>2, <1>4 DEF RState
<1>6. j \in JobType /\ j.at = "locking" /\ j.row = r /\ j.state = s /\ j.todo = {}
  BY <1>2, <1>3, <1>5 DEF Idle, JobType, Place
<1>7. JobOK(w, j)'
  BY <1>1, <1>2, <1>6 DEF JobOK, Busy, HandlerOnly, AfterUpdate, Sent, StoreKept
<1>8. Becomes(w, j)
  BY <1>1, <1>2, <1>3 DEF Becomes, ReceiptsInv, Types, JobOK
<1>9. job[w].at = "idle"
  BY DEF OnDLR, At
<1> QED
  BY <1>1, <1>6, <1>7, <1>8, <1>9, Quiet

LEMMA LockRowStep ==
  ASSUME ReceiptsInv, NEW w \in Worker, LockRow(w)
  PROVE  ReceiptsInv'
<1>1. w \in Actor /\ StoreKept /\ MayFail /\ job[w].at = "locking"
  BY DEF LockRow, Actor, StoreKept, MayFail, history, bounds, At
<1>2. PICK k \in JobType : k = job[w] /\ JobOK(w, k)
  BY <1>1 DEF ReceiptsInv, Types
<1>3. PICK r, l, j : r = k.row /\ l = Lock(w, r) /\ j = [k EXCEPT !.at = "getting", !.row = r]
  OBVIOUS
<1>4. r \in Row /\ k.state \in Sent(r)
  BY <1>1, <1>2, <1>3 DEF JobOK
<1>5. lock[l] = Nobody /\ lock' = [lock EXCEPT ![l] = w] /\ job' = [job EXCEPT ![w].at = "getting", ![w].row = r]
  BY <1>2, <1>3 DEF LockRow, Locks
<1>6. job' = [job EXCEPT ![w] = j]
  BY <1>1, <1>2, <1>3, <1>5 DEF ReceiptsInv, Types
<1>7. j \in JobType /\ j.at = "getting" /\ j.row = r /\ j.state = k.state /\ j.todo = k.todo
  BY <1>2, <1>3, <1>4 DEF JobType, Place, Busy
<1>8. l \in LockId
  BY <1>1, <1>3, <1>4, LockIds
<1>9. Becomes(w, j) /\ lock'[l] = w
  BY <1>1, <1>5, <1>6, <1>8, OthersKeepLocks DEF Becomes
<1>10. \A item \in j.todo : item.state \in Sent(item.row)' /\ Smpp(item.row[1])
  BY <1>1, <1>2, <1>7 DEF JobOK, StoreKept, Sent
<1>11. w \notin Flusher
  BY ReceiptsAssumption
<1>12. JobOK(w, j)'
  BY <1>1, <1>3, <1>4, <1>7, <1>9, <1>10, <1>11 DEF JobOK, Busy, HandlerOnly, AfterUpdate, Sent, StoreKept
<1> QED
  BY <1>1, <1>7, <1>9, <1>12, Quiet

LEMMA GetStep ==
  ASSUME ReceiptsInv, NEW w \in Worker, getPendingForDLR(w)
  PROVE  ReceiptsInv'
<1>1. w \in Actor /\ StoreKept /\ MayFail /\ job[w].at = "getting"
  BY DEF getPendingForDLR, Actor, StoreKept, MayFail, history, bounds, At
<1>2. JobOK(w, job[w])
  BY <1>1 DEF ReceiptsInv
<1>3. CASE Goes(w, "updating") /\ lock' = lock
  <2>1. ASSUME NEW j \in JobType, j.at = "updating", j.row = job[w].row, j.state = job[w].state, j.todo = job[w].todo
        PROVE  JobOK(w, j)
    BY <1>1, <1>2, <2>1, ReceiptsAssumption DEF JobOK, Busy, HandlerOnly, AfterUpdate
  <2>2. "updating" \in Place
    BY DEF Place, Busy
  <2> QED
    BY <1>1, <1>3, <2>1, <2>2, WalkStep
<1>4. CASE Unlocks(w, {})
  <2>1. {} \in SUBSET job[w].todo /\ job[w].at \in Busy
    BY <1>1 DEF Busy
  <2> QED
    BY <1>1, <1>4, <2>1, ReleaseStep
<1> QED
  BY <1>3, <1>4 DEF getPendingForDLR

LEMMA RecordFailsStep ==
  ASSUME ReceiptsInv, NEW w \in Worker, RecordFails(w)
  PROVE  ReceiptsInv'
<1>1. w \in Actor /\ StoreKept /\ MayFail /\ faults' # faults /\ job[w].at = "recording" /\ lock' = lock
  BY DEF RecordFails, Actor, StoreKept, MayFail, history, At, ReceiptsInv, Types
<1>2. JobOK(w, job[w])
  BY <1>1 DEF ReceiptsInv
<1>3. PICK p : p = (IF Wants(job[w].row[1]) THEN "telling" ELSE "finishing") /\ Goes(w, p)
  BY DEF RecordFails
<1>4. ASSUME NEW j \in JobType, j.at = p, j.row = job[w].row, j.state = job[w].state, j.todo = job[w].todo
      PROVE  JobOK(w, j)
  BY <1>1, <1>2, <1>3, <1>4, ReceiptsAssumption DEF JobOK, Busy, HandlerOnly, AfterUpdate
<1>5. p \in Place
  BY <1>3 DEF Place, Busy
<1> QED
  BY <1>1, <1>3, <1>4, <1>5, WalkStep

LEMMA NotToldStep ==
  ASSUME ReceiptsInv, NEW a \in Actor, Nacked(a) \/ NoReceiver(a)
  PROVE  ReceiptsInv'
<1>1. StoreKept /\ MayFail /\ job[a].at = "telling" /\ NotTold(a)
  BY DEF Nacked, NoReceiver, StoreKept, MayFail, history, bounds, At
<1>2. JobOK(a, job[a]) /\ job[a].at \in Busy
  BY <1>1 DEF ReceiptsInv, Busy
<1>3. CASE a \in Worker /\ Smpp(job[a].row[1]) /\ Goes(a, "deferring") /\ lock' = lock
  <2>1. ASSUME NEW j \in JobType, j.at = "deferring", j.row = job[a].row, j.state = job[a].state, j.todo = job[a].todo
        PROVE  JobOK(a, j)
    BY <1>1, <1>2, <1>3, <2>1, ReceiptsAssumption DEF JobOK, Busy, HandlerOnly, AfterUpdate
  <2>2. "deferring" \in Place
    BY DEF Place, Busy
  <2> QED
    BY <1>1, <1>3, <2>1, <2>2, WalkStep
<1>4. CASE \E rest \in SUBSET job[a].todo : Unlocks(a, rest)
  BY <1>1, <1>2, <1>4, ReleaseStep
<1>5. a \in Flusher /\ a \notin Worker => \E rest \in SUBSET job[a].todo : Unlocks(a, rest)
  <2> SUFFICES ASSUME a \in Flusher, a \notin Worker PROVE \E rest \in SUBSET job[a].todo : Unlocks(a, rest)
    OBVIOUS
  <2>1. PICK rest : rest = (IF Target[a] = AllClients THEN job[a].todo ELSE {}) /\ Unlocks(a, rest)
    BY <1>1 DEF NotTold
  <2> QED
    BY <2>1
<1>6. a \in Worker /\ ~Smpp(job[a].row[1]) => \E rest \in SUBSET job[a].todo : Unlocks(a, rest)
  <2> SUFFICES ASSUME a \in Worker, ~Smpp(job[a].row[1]) PROVE \E rest \in SUBSET job[a].todo : Unlocks(a, rest)
    OBVIOUS
  <2>1. PICK rest : rest = {} /\ Unlocks(a, rest)
    BY <1>1, ReceiptsAssumption DEF NotTold
  <2> QED
    BY <2>1
<1>7. a \in Worker /\ Smpp(job[a].row[1]) => Goes(a, "deferring") /\ lock' = lock
  BY <1>1, ReceiptsAssumption DEF NotTold
<1> QED
  BY <1>3, <1>4, <1>5, <1>6, <1>7, ReceiptsAssumption DEF Actor

\* What the check of finishDLRDelivery shows stays true, although it looks only
\* at the rows: a handler that has not recorded yet leaves a row undelivered.
LEMMA FinishedIsKnown ==
  ASSUME ReceiptsInv, NEW m \in Msg, aggregateDLR(m).final, aggregateDLR(m).told
  PROVE  AllTold(m) /\ (Undisturbed(m) => msg[m] \in Final)
<1>1. AllFinal(m) /\ \A r \in Rows(m) : row[r].delivered
  BY Aggregated
<1>2. Rows(m) \subseteq Row
  BY RowsOf
<1>3. ASSUME NEW r \in Rows(m), Wants(r[1]) PROVE Told(r)
  BY <1>1, <1>2, <1>3 DEF AllFinal, ReceiptsInv, RowOK
<1>4. ASSUME Undisturbed(m), msg[m] \notin Final PROVE FALSE
  <2>1. PICK w \in Worker : WillRecord(w, m)
    BY <1>1, <1>4 DEF ReceiptsInv, MsgOK
  <2>2. job[w].row \in Rows(m) /\ job[w].at \in {"aggregating", "recording"}
    BY <2>1 DEF WillRecord
  <2>3. JobOK(w, job[w])
    BY DEF ReceiptsInv, Actor
  <2>4. Shared(job[w].row) \/ ~row[job[w].row].delivered
    BY <2>2, <2>3 DEF JobOK
  <2> QED
    BY <1>1, <1>4, <2>2, <2>4 DEF Undisturbed
<1> QED
  BY <1>3, <1>4 DEF AllTold

LEMMA CheckStep ==
  ASSUME ReceiptsInv, NEW a \in Actor, CheckFinished(a)
  PROVE  ReceiptsInv'
<1>1. StoreKept /\ MayFail /\ job[a].at = "checking"
  BY DEF CheckFinished, StoreKept, MayFail, history, bounds, At
<1>2. JobOK(a, job[a]) /\ job[a].at \in Busy
  BY <1>1 DEF ReceiptsInv, Busy
<1>3. PICK m : m = job[a].row[1]
  OBVIOUS
<1>4. m \in Msg
  BY <1>2, <1>3, RowOfMsg DEF JobOK
<1>5. CASE aggregateDLR(m).final /\ aggregateDLR(m).told
  <2>1. Goes(a, "deleting") /\ lock' = lock
    BY <1>3, <1>5 DEF CheckFinished
  <2>2. AllTold(m) /\ (Undisturbed(m) => msg[m] \in Final)
    BY <1>4, <1>5, FinishedIsKnown
  <2>3. ASSUME NEW j \in JobType, j.at = "deleting", j.row = job[a].row, j.state = job[a].state, j.todo = job[a].todo
        PROVE  JobOK(a, j)
    BY <1>1, <1>2, <1>3, <2>2, <2>3 DEF JobOK, Busy, HandlerOnly, AfterUpdate
  <2>4. "deleting" \in Place
    BY DEF Place, Busy
  <2> QED
    BY <1>1, <2>1, <2>3, <2>4, WalkStep
<1>6. CASE ~(aggregateDLR(m).final /\ aggregateDLR(m).told)
  <2>1. AfterRow(a) /\ {} \in SUBSET job[a].todo
    BY <1>3, <1>6 DEF CheckFinished
  <2> QED
    BY <1>1, <1>2, <2>1, ReleaseStep
<1> QED
  BY <1>5, <1>6

LEMMA StartFlushStep ==
  ASSUME ReceiptsInv, NEW f \in Flusher, Tick(f) \/ Bind(f)
  PROVE  ReceiptsInv'
<1>1. f \in Actor /\ StoreKept /\ MayFail /\ job[f].at = "idle" /\ Goes(f, "listing") /\ lock' = lock
  BY DEF Tick, Bind, Actor, StoreKept, MayFail, history, bounds, At
<1>2. JobOK(f, job[f])
  BY <1>1 DEF ReceiptsInv
<1>3. ASSUME NEW j \in JobType, j.at = "listing", j.todo = job[f].todo PROVE JobOK(f, j)
  BY <1>1, <1>2, <1>3 DEF JobOK, Busy, HandlerOnly, AfterUpdate
<1>4. "listing" \in Place
  BY DEF Place
<1> QED
  BY <1>1, <1>3, <1>4, WalkStep

LEMMA ListReadyStep ==
  ASSUME ReceiptsInv, NEW f \in Flusher, ListReadyDLR(f)
  PROVE  ReceiptsInv'
<1>1. f \in Actor /\ StoreKept /\ MayFail /\ job[f].at = "listing" /\ lock' = lock
  BY DEF ListReadyDLR, Actor, StoreKept, MayFail, history, bounds, At
<1>0. PICK S \in SUBSET {r \in Row : ReadyFor(f, r)} :
        job' = [job EXCEPT ![f] = IF S = {} THEN Idle
                  ELSE [Idle EXCEPT !.at = "next", !.todo = {[row |-> r, state |-> row[r].state] : r \in S}]]
  BY Zenon DEF ListReadyDLR, kSubset
<1>2. PICK t : t = {[row |-> r, state |-> row[r].state] : r \in S}
  OBVIOUS
<1>3. t \in SUBSET [row : Row, state : RState]
  BY <1>0, <1>2 DEF ReceiptsInv, Types, RowType
<1>4. \A item \in t : item.state \in Sent(item.row) /\ Smpp(item.row[1])
  <2> SUFFICES ASSUME NEW item \in t PROVE item.state \in Sent(item.row) /\ Smpp(item.row[1])
    OBVIOUS
  <2>1. PICK r \in Row : ReadyFor(f, r) /\ item = [row |-> r, state |-> row[r].state]
    BY <1>0, <1>2
  <2>2. RowOK(r) /\ row[r].ready
    BY <2>1 DEF ReadyFor, ReceiptsInv
  <2>3. row[r].state \in Sent(r) /\ Smpp(r[1]) /\ item.row = r /\ item.state = row[r].state
    BY <2>1, <2>2 DEF RowOK
  <2> QED
    BY <2>3
<1>5. PICK j : j \in {Idle, [Idle EXCEPT !.at = "next", !.todo = t]} /\ job' = [job EXCEPT ![f] = j]
  BY <1>0, <1>2
<1>6. j \in JobType /\ j.at \in {"idle", "next"} /\ j.todo \subseteq t
  <2>1. "next" \in Place
    BY DEF Place
  <2>2. CASE j = Idle
    BY <2>2, IdleType
  <2>3. CASE j = [Idle EXCEPT !.at = "next", !.todo = t]
    <3>1. j \in JobType /\ j.at = "next" /\ j.todo = t
      BY <1>3, <2>1, <2>3, IdleType
    <3> QED
      BY <3>1
  <2> QED
    BY <1>5, <2>2, <2>3
<1>7. \A item \in j.todo : item.state \in Sent(item.row)' /\ Smpp(item.row[1])
  BY <1>1, <1>4, <1>6 DEF Sent, StoreKept
<1>8. JobOK(f, j)'
  BY <1>6, <1>7 DEF JobOK, Busy, HandlerOnly, AfterUpdate
<1>9. Becomes(f, j)
  BY <1>1, <1>5 DEF Becomes, ReceiptsInv, Types, JobOK
<1> QED
  BY <1>1, <1>6, <1>8, <1>9, Quiet

LEMMA FlushRowStep ==
  ASSUME ReceiptsInv, NEW f \in Flusher, FlushRow(f)
  PROVE  ReceiptsInv'
<1>1. f \in Actor /\ StoreKept /\ MayFail /\ job[f].at = "next"
  BY DEF FlushRow, Actor, StoreKept, MayFail, history, bounds, At
<1>2. PICK k \in JobType : k = job[f] /\ JobOK(f, k)
  BY <1>1 DEF ReceiptsInv, Types
<1>3. PICK item \in k.todo :
        /\ lock[Lock(f, item.row)] = Nobody
        /\ lock' = [lock EXCEPT ![Lock(f, item.row)] = f]
        /\ job' = [job EXCEPT ![f] = [Idle EXCEPT !.at = "telling", !.row = item.row,
                                                  !.state = item.state, !.todo = k.todo \ {item}]]
  BY <1>2 DEF FlushRow
<1>4. item.row \in Row /\ item.state \in RState /\ item.state \in Sent(item.row) /\ Smpp(item.row[1])
  BY <1>2 DEF JobType, JobOK
<1>5. PICK j : j = [Idle EXCEPT !.at = "telling", !.row = item.row, !.state = item.state, !.todo = k.todo \ {item}]
  OBVIOUS
<1>6. j.at = "telling" /\ j.row = item.row /\ j.state = item.state /\ j.todo = k.todo \ {item}
  BY <1>5 DEF Idle
<1>7. j \in JobType
  BY <1>2, <1>4, <1>5 DEF Idle, JobType, Place, Busy
<1>8. PICK l : l = Lock(f, item.row)
  OBVIOUS
<1>9. l \in LockId
  BY <1>1, <1>4, <1>8, LockIds
<1>10. Becomes(f, j) /\ lock'[l] = f
  BY <1>1, <1>3, <1>5, <1>8, <1>9, OthersKeepLocks DEF Becomes
<1>11. \A i \in j.todo : i.state \in Sent(i.row)' /\ Smpp(i.row[1])
  BY <1>1, <1>2, <1>6 DEF JobOK, StoreKept, Sent
<1>12. f \notin Worker
  BY ReceiptsAssumption
<1>13. item.state \in Sent(item.row)'
  BY <1>1, <1>4 DEF StoreKept, Sent
<1>14. JobOK(f, j)'
  BY <1>4, <1>6, <1>8, <1>10, <1>11, <1>12, <1>13 DEF JobOK, Busy, HandlerOnly, AfterUpdate
<1> QED
  BY <1>1, <1>7, <1>10, <1>14, Quiet

LEMMA StoreFailsStep ==
  ASSUME ReceiptsInv, NEW a \in Actor, StoreFails(a)
  PROVE  ReceiptsInv'
<1>1. StoreKept /\ MayFail /\ faults' # faults
  BY DEF StoreFails, StoreKept, MayFail, history, ReceiptsInv, Types
<1>2. CASE job[a].at \in StoreCall /\ Unlocks(a, {})
  <2>1. job[a].at \in Busy /\ {} \in SUBSET job[a].todo
    BY <1>2 DEF StoreCall, Busy
  <2> QED
    BY <1>1, <1>2, <2>1, ReleaseStep
<1>3. CASE At(a, "listing") /\ job' = [job EXCEPT ![a] = Idle] /\ lock' = lock
  <2>1. Becomes(a, Idle)
    BY <1>3 DEF Becomes, ReceiptsInv, Types, JobOK
  <2>2. JobOK(a, Idle)'
    BY IdleType DEF JobOK, Busy, HandlerOnly, AfterUpdate
  <2> QED
    BY <1>1, <2>1, <2>2, IdleType, Quiet
<1> QED
  BY <1>2, <1>3 DEF StoreFails

-----------------------------------------------------------------------------
(* Steps of the store alone. *)

LEMMA RowsChange ==
  ASSUME ReceiptsInv, UNCHANGED <<lock, job, outcome, bounds, history>>, Later,
         row' \in [Row -> RowType], msg' \in [Msg -> {"sending", "sent"} \cup Final],
         \A r \in Row : /\ row'[r].state = row[r].state /\ row'[r].ready = row[r].ready
                        /\ row'[r].delivered = row[r].delivered
                        /\ row'[r].where = "finished" => row[r].where = "finished",
         \A m \in Msg : MsgOK(m)'
  PROVE  ReceiptsInv'
<1>1. Types'
  BY DEF ReceiptsInv, Types, bounds, history
<1>2. ASSUME NEW b \in Actor PROVE JobOK(b, job[b])'
  <2>1. PICK j \in JobType : j = job[b] /\ j = job'[b] /\ JobOK(b, j)
    BY DEF ReceiptsInv, Types
  <2>2. j.at \in Busy => lock'[Lock(b, j.row)] = b /\ j.row \in Row
    BY <2>1 DEF JobOK
  <2>3. j.at \in AfterUpdate => j.at \in Busy
    BY DEF AfterUpdate, Busy
  <2>4. JobOK(b, j)'
    BY <2>1, <2>2, <2>3, JobKept
  <2> QED
    BY <2>1, <2>4
<1>3. ASSUME NEW r \in Row PROVE RowOK(r)'
  BY RowKept DEF ReceiptsInv
<1> QED
  BY <1>1, <1>2, <1>3 DEF ReceiptsInv

LEMMA UnbindStep ==
  ASSUME ReceiptsInv, UNCHANGED <<row, msg, lock, job, outcome, bounds, history>>
  PROVE  ReceiptsInv'
<1>1. Later
  BY DEF Later, bounds, history, Clean
<1>2. ASSUME NEW m \in Msg PROVE MsgOK(m)'
  <2>1. AllFinal(m)' = AllFinal(m) /\ \A w \in Worker : WillRecord(w, m) => WillRecord(w, m)'
    BY DEF AllFinal, Live, WillRecord
  <2> QED
    BY <1>1, <2>1, MsgKept DEF ReceiptsInv
<1>3. row' \in [Row -> RowType] /\ msg' \in [Msg -> {"sending", "sent"} \cup Final]
  BY DEF ReceiptsInv, Types
<1> QED
  BY <1>1, <1>2, <1>3, RowsChange

LEMMA StorePendingStep ==
  ASSUME ReceiptsInv, NEW m \in Msg, StorePending(m)
  PROVE  ReceiptsInv'
<1>1. /\ msg \in [Msg -> {"sending", "sent"} \cup Final] /\ row \in [Row -> RowType]
      /\ msg[m] = "sending" /\ msg' = [msg EXCEPT ![m] = "sent"]
      /\ row' = [r \in Row |-> IF r \in Rows(m) THEN [row[r] EXCEPT !.where = "live"] ELSE row[r]]
      /\ UNCHANGED <<lock, job, outcome, bounds, history>>
  BY DEF ReceiptsInv, Types, StorePending
<1>2. msg' \in [Msg -> {"sending", "sent"} \cup Final] /\ row' \in [Row -> RowType]
  BY <1>1 DEF RowType
<1>3. Later
  BY <1>1 DEF Later, bounds, history, Clean, Final
<1>4. ASSUME NEW r \in Row
      PROVE  /\ row'[r].state = row[r].state /\ row'[r].ready = row[r].ready /\ row'[r].delivered = row[r].delivered
             /\ row'[r].where = "finished" => row[r].where = "finished"
             /\ r \notin Rows(m) => row'[r] = row[r]
  BY <1>1 DEF RowType
<1>5. ASSUME NEW n \in Msg PROVE MsgOK(n)'
  <2>1. CASE n = m
    <3>1. Rows(m) \subseteq Row /\ Rows(m) # {} /\ \A r \in Rows(m) : row[r].state = ""
      BY <1>1, RowsOf DEF ReceiptsInv, MsgOK
    <3>2. PICK r \in Rows(m) : row'[r].state = ""
      BY <1>4, <3>1
    <3>3. ~AllFinal(m)'
      BY <3>2 DEF AllFinal, Final
    <3>4. msg'[m] = "sent"
      BY <1>1
    <3> QED
      BY <2>1, <3>3, <3>4 DEF MsgOK, Final
  <2>2. CASE n # m
    <3>1. Rows(n) \subseteq Row /\ \A r \in Rows(n) : r \notin Rows(m)
      BY <2>2, RowsOf
    <3>2. \A r \in Rows(n) : row'[r] = row[r]
      BY <1>4, <3>1
    <3>3. AllFinal(n)' => AllFinal(n)
      BY <3>2 DEF AllFinal, Live
    <3>4. \A w \in Worker : WillRecord(w, n) => WillRecord(w, n)'
      BY <1>1 DEF WillRecord
    <3>5. msg'[n] = msg[n] /\ MsgOK(n)
      BY <1>1, <2>2 DEF ReceiptsInv
    <3> QED
      BY <1>3, <3>2, <3>3, <3>4, <3>5, MsgKept
  <2> QED
    BY <2>1, <2>2
<1> QED
  BY <1>1, <1>2, <1>3, <1>4, <1>5, RowsChange

\* Rows grow old and are swept.
LEMMA SweepStep ==
  ASSUME ReceiptsInv, Sweep \/ \E x \in Row : Expire(x)
  PROVE  ReceiptsInv'
<1>1. /\ msg \in [Msg -> {"sending", "sent"} \cup Final] /\ row \in [Row -> RowType]
      /\ msg' = msg /\ UNCHANGED <<lock, job, outcome, bounds, history>>
  BY DEF ReceiptsInv, Types, Sweep, Expire
<1>2. /\ row' \in [Row -> RowType]
      /\ \A r \in Row : /\ row'[r].state = row[r].state /\ row'[r].ready = row[r].ready
                        /\ row'[r].delivered = row[r].delivered
                        /\ row'[r].where = row[r].where \/ (row[r].where = "live" /\ row'[r].where = "swept")
  <2>1. CASE Sweep
    <3>1. row' = [r \in Row |-> IF Sweepable(row[r]) THEN [row[r] EXCEPT !.where = "swept"] ELSE row[r]]
      BY <2>1 DEF Sweep
    <3> QED
      BY <1>1, <3>1 DEF RowType, Sweepable
  <2>2. ASSUME NEW x \in Row, Expire(x)
        PROVE  /\ row' \in [Row -> RowType]
               /\ \A r \in Row : /\ row'[r].state = row[r].state /\ row'[r].ready = row[r].ready
                                 /\ row'[r].delivered = row[r].delivered /\ row'[r].where = row[r].where
    <3>1. row' = [row EXCEPT ![x].expired = TRUE]
      BY <2>2 DEF Expire
    <3> QED
      BY <1>1, <3>1 DEF RowType
  <2> QED
    BY <2>1, <2>2
<1>3. Later
  BY <1>1 DEF Later, bounds, history, Clean
<1>4. ASSUME NEW m \in Msg PROVE MsgOK(m)'
  <2>1. Rows(m) \subseteq Row /\ MsgOK(m)
    BY RowsOf DEF ReceiptsInv
  <2>2. AllFinal(m)' => AllFinal(m)
    BY <1>2, <2>1 DEF AllFinal, Live
  <2>3. \A w \in Worker : WillRecord(w, m) => WillRecord(w, m)'
    BY <1>1 DEF WillRecord
  <2>4. msg[m] = "sending" => \A r \in Rows(m) : row'[r].where = row[r].where /\ row'[r].state = row[r].state
    BY <1>2, <2>1 DEF MsgOK
  <2> QED
    BY <1>1, <1>3, <2>1, <2>2, <2>3, <2>4, MsgKept
<1>5. \A r \in Row : row'[r].where = "finished" => row[r].where = "finished"
  BY <1>2
<1> QED
  BY <1>1, <1>2, <1>3, <1>4, <1>5, RowsChange

-----------------------------------------------------------------------------
(* Steps that record, tell or end. *)

\* The other goroutines, when a row they work on changes only in the hands of a
\* second process.
LEMMA JobsKept ==
  ASSUME ReceiptsInv, NEW a \in Actor, NEW j \in JobType, Becomes(a, j), JobOK(a, j)', Later,
         \A b \in Worker, r \in Row : b # a /\ job[b].at \in AfterUpdate /\ job[b].row = r =>
           \/ Shared(r)'
           \/ row'[r].state = row[r].state /\ (row'[r].delivered => row[r].delivered)
  PROVE  /\ job' \in [Actor -> JobType] /\ lock' \in [LockId -> Actor \cup {Nobody}]
         /\ job'[a] = j /\ \A b \in Actor : b # a => job'[b] = job[b]
         /\ \A b \in Actor : JobOK(b, job[b])'
<1>1. job' \in [Actor -> JobType] /\ job'[a] = j /\ \A b \in Actor : b # a => job'[b] = job[b]
  BY JobTypes DEF ReceiptsInv, Becomes
<1>2. ASSUME NEW b \in Actor PROVE JobOK(b, job[b])'
  <2>1. CASE b = a
    BY <1>1, <2>1
  <2>2. CASE b # a
    <3>1. PICK k \in JobType : k = job[b]
      BY DEF ReceiptsInv, Types
    <3>2. JobOK(b, k)
      BY <3>1 DEF ReceiptsInv
    <3>3. k.at \in Busy => lock'[Lock(b, k.row)] = b
      BY <2>2, <3>1 DEF Becomes
    <3>4. b \in Worker /\ k.at \in AfterUpdate =>
            \/ Shared(k.row)'
            \/ row'[k.row].state = row[k.row].state /\ (row'[k.row].delivered => row[k.row].delivered)
      <4>1. k.at \in AfterUpdate => k.row \in Row
        BY <3>2 DEF JobOK, AfterUpdate, Busy
      <4> QED
        BY <2>2, <3>1, <4>1
    <3>5. JobOK(b, k)'
      BY <3>2, <3>3, <3>4, JobKept
    <3>6. job'[b] = k
      BY <1>1, <2>2, <3>1
    <3> QED
      BY <3>5, <3>6
  <2> QED
    BY <2>1, <2>2
<1> QED
  BY <1>1, <1>2 DEF Becomes

LEMMA Progress ==
  ASSUME ReceiptsInv, NEW a \in Actor, NEW j \in JobType, Becomes(a, j), JobOK(a, j)', Later, row' = row,
         msg' \in [Msg -> {"sending", "sent"} \cup Final], acked' \in [Row -> SUBSET RState], writers' = writers,
         UNCHANGED bounds,
         \A m \in Msg : /\ msg'[m] \in Final => msg'[m] = Worst(m)
                        /\ msg'[m] = "sending" => msg[m] = "sending"
                        /\ WillRecord(a, m) /\ AllFinal(m) => msg'[m] \in Final \/ (a \in Worker /\ WillRecord(a, m)')
  PROVE  ReceiptsInv'
<1>1. /\ job' \in [Actor -> JobType] /\ lock' \in [LockId -> Actor \cup {Nobody}]
      /\ job'[a] = j /\ \A b \in Actor : b # a => job'[b] = job[b]
      /\ \A b \in Actor : JobOK(b, job[b])'
  BY JobsKept
<1>2. Types'
  BY <1>1 DEF ReceiptsInv, Types, bounds, Later
<1>3. ASSUME NEW r \in Row PROVE RowOK(r)'
  BY RowKept DEF ReceiptsInv
<1>4. ASSUME NEW m \in Msg PROVE MsgOK(m)'
  <2>1. MsgOK(m) /\ Worst(m)' = Worst(m) /\ (Undisturbed(m)' => Undisturbed(m))
    BY MsgsLater DEF ReceiptsInv
  <2>2. AllFinal(m)' => AllFinal(m)
    BY DEF AllFinal, Live
  <2>3. ASSUME Undisturbed(m)', AllFinal(m)', msg'[m] \notin Final PROVE \E w \in Worker : WillRecord(w, m)'
    <3>1. msg[m] \notin Final
      BY <2>3 DEF Later
    <3>2. PICK w \in Worker : WillRecord(w, m)
      BY <2>1, <2>2, <2>3, <3>1 DEF MsgOK
    <3>3. CASE w = a
      BY <2>2, <2>3, <3>2, <3>3
    <3>4. CASE w # a
      <4>1. job'[w] = job[w]
        BY <1>1, <3>4 DEF Actor
      <4> QED
        BY <3>2, <4>1 DEF WillRecord
    <3> QED
      BY <3>3, <3>4
  <2>4. msg'[m] = "sending" => \A r \in Rows(m) : row'[r].where = "absent" /\ row'[r].state = ""
    BY <2>1 DEF MsgOK
  <2> QED
    BY <2>1, <2>3, <2>4 DEF MsgOK
<1> QED
  BY <1>1, <1>2, <1>3, <1>4 DEF ReceiptsInv

LEMMA AckedStep ==
  ASSUME ReceiptsInv, NEW a \in Actor, Acked(a)
  PROVE  ReceiptsInv'
<1>1. /\ job[a].at = "telling" /\ Goes(a, "finishing") /\ lock' = lock /\ row' = row /\ msg' = msg
      /\ outcome' = outcome /\ writers' = writers /\ UNCHANGED bounds
      /\ acked' = [acked EXCEPT ![job[a].row] = @ \cup {job[a].state}]
  BY DEF Acked, At
<1>2. PICK k \in JobType : k = job[a] /\ JobOK(a, k)
  BY DEF ReceiptsInv, Types
<1>3. "finishing" \in Place
  BY DEF Place, Busy
<1>4. PICK j \in JobType : /\ Becomes(a, j) /\ j.at = "finishing" /\ j.row = k.row /\ j.state = k.state
                           /\ j.agg = k.agg /\ j.todo = k.todo
  BY <1>1, <1>2, <1>3, Walks
<1>5. k.row \in Row /\ k.state \in RState /\ acked \in [Row -> SUBSET RState] /\ k.at = "telling"
  BY <1>1, <1>2 DEF JobOK, Busy, ReceiptsInv, Types, JobType
<1>6. /\ acked' \in [Row -> SUBSET RState] /\ k.state \in acked'[k.row]
      /\ \A r \in Row : acked[r] \subseteq acked'[r]
  BY <1>1, <1>2, <1>5
<1>7. Later
  BY <1>1, <1>6 DEF Later, Clean, bounds
<1>8. JobOK(a, k)'
  <2>1. k.at \in Busy => lock'[Lock(a, k.row)] = a
    BY <1>1, <1>2 DEF JobOK
  <2> QED
    BY <1>1, <1>2, <1>7, <2>1, JobKept
<1>9. JobOK(a, j)'
  BY <1>4, <1>5, <1>6, <1>8, ReceiptsAssumption DEF JobOK, Busy, HandlerOnly, AfterUpdate
<1>10. ASSUME NEW m \in Msg PROVE /\ msg'[m] \in Final => msg'[m] = Worst(m)
                                  /\ ~WillRecord(a, m)
  BY <1>1 DEF ReceiptsInv, MsgOK, WillRecord
<1>11. msg' \in [Msg -> {"sending", "sent"} \cup Final]
  BY <1>1 DEF ReceiptsInv, Types
<1> QED
  BY <1>1, <1>4, <1>6, <1>7, <1>9, <1>10, <1>11, Progress

LEMMA AggregateStep ==
  ASSUME ReceiptsInv, NEW w \in Worker, ListAndAggregate(w)
  PROVE  ReceiptsInv'
<1>1. /\ w \in Actor /\ job[w].at = "aggregating" /\ lock' = lock /\ row' = row /\ msg' = msg
      /\ outcome' = outcome /\ acked' = acked /\ writers' = writers /\ UNCHANGED bounds
  BY DEF ListAndAggregate, At, Actor, history
<1>2. PICK k \in JobType : k = job[w] /\ JobOK(w, k)
  BY <1>1 DEF ReceiptsInv, Types
<1>3. PICK m, g : m = k.row[1] /\ g = aggregateDLR(m).state
  OBVIOUS
<1>4. k.row \in Row /\ m \in Msg /\ k.row \in Rows(m)
  BY <1>1, <1>2, <1>3, RowOfMsg DEF JobOK, Busy
<1>5. g = (IF AllFinal(m) THEN Worst(m) ELSE "PENDING") /\ Worst(m) \in Final
  BY <1>3, <1>4, Aggregated, WorstIs DEF ReceiptsInv, Types
<1>6. PICK j : j = [k EXCEPT !.at = "recording", !.agg = g]
  OBVIOUS
<1>7. job' = [job EXCEPT ![w] = j]
  <2>1. job' = [job EXCEPT ![w].at = "recording", ![w].agg = g]
    BY <1>2, <1>3 DEF ListAndAggregate
  <2> QED
    BY <1>1, <1>2, <1>6, <2>1 DEF ReceiptsInv, Types
<1>8. j \in JobType /\ j.at = "recording" /\ j.row = k.row /\ j.state = k.state /\ j.todo = k.todo /\ j.agg = g
  BY <1>2, <1>5, <1>6 DEF JobType, Place, Busy
<1>9. Later
  BY <1>1 DEF Later, Clean, bounds
<1>10. g # "PENDING" => g = Worst(m)
  BY <1>5
<1>11. JobOK(w, j)
  BY <1>1, <1>2, <1>3, <1>8, <1>10 DEF JobOK, Busy, HandlerOnly, AfterUpdate
<1>12. JobOK(w, j)'
  <2>1. j.at \in Busy => lock'[Lock(w, j.row)] = w
    BY <1>1, <1>11 DEF JobOK
  <2> QED
    BY <1>1, <1>8, <1>9, <1>11, <2>1, JobKept
<1>13. Becomes(w, j)
  BY <1>1, <1>7 DEF Becomes, ReceiptsInv, Types, JobOK
<1>14. job'[w] = j
  BY <1>1, <1>7 DEF ReceiptsInv, Types
<1>15. ASSUME NEW n \in Msg
       PROVE  /\ msg'[n] \in Final => msg'[n] = Worst(n)
              /\ WillRecord(w, n) /\ AllFinal(n) => WillRecord(w, n)'
  <2>1. msg'[n] \in Final => msg'[n] = Worst(n)
    BY <1>1 DEF ReceiptsInv, MsgOK
  <2>2. ASSUME WillRecord(w, n), AllFinal(n) PROVE WillRecord(w, n)'
    <3>1. k.row \in Rows(n) /\ n = m
      BY <1>2, <1>3, <2>2, RowsOf DEF WillRecord
    <3>2. g # "PENDING"
      BY <1>5, <2>2, <3>1 DEF Final
    <3> QED
      BY <1>8, <1>14, <3>1, <3>2 DEF WillRecord
  <2> QED
    BY <2>1, <2>2
<1>16. msg' \in [Msg -> {"sending", "sent"} \cup Final] /\ acked' \in [Row -> SUBSET RState]
  BY <1>1 DEF ReceiptsInv, Types
<1> QED
  BY <1>1, <1>8, <1>9, <1>12, <1>13, <1>15, <1>16, Progress

LEMMA RecordStep ==
  ASSUME ReceiptsInv, NEW w \in Worker, RecordState(w)
  PROVE  ReceiptsInv'
<1>1. /\ w \in Actor /\ job[w].at = "recording" /\ lock' = lock /\ row' = row
      /\ outcome' = outcome /\ acked' = acked /\ writers' = writers /\ UNCHANGED bounds
  BY DEF RecordState, At, Actor, history
<1>2. PICK k \in JobType : k = job[w] /\ JobOK(w, k)
  BY <1>1 DEF ReceiptsInv, Types
<1>3. PICK m, p : m = k.row[1] /\ p = (IF Wants(m) THEN "telling" ELSE "finishing")
  OBVIOUS
<1>4. k.row \in Row /\ m \in Msg /\ k.row \in Rows(m) /\ k.agg \in Final \cup {"PENDING"}
  BY <1>1, <1>2, <1>3, RowOfMsg DEF JobOK, Busy, JobType
<1>5. /\ msg' = IF k.agg = "PENDING" THEN msg ELSE [msg EXCEPT ![m] = k.agg]
      /\ Goes(w, p)
  BY <1>2, <1>3 DEF RecordState
<1>6. msg \in [Msg -> {"sending", "sent"} \cup Final]
  BY DEF ReceiptsInv, Types
<1>7. p \in Place
  BY <1>3 DEF Place, Busy
<1>8. PICK j \in JobType : /\ Becomes(w, j) /\ j.at = p /\ j.row = k.row /\ j.state = k.state
                           /\ j.agg = k.agg /\ j.todo = k.todo
  BY <1>1, <1>2, <1>5, <1>7, Walks
<1>9. JobOK(w, j)
  BY <1>1, <1>2, <1>3, <1>8, ReceiptsAssumption DEF JobOK, Busy, HandlerOnly, AfterUpdate
<1>10. /\ msg' \in [Msg -> {"sending", "sent"} \cup Final]
       /\ k.agg # "PENDING" => msg'[m] = k.agg /\ k.agg \in Final /\ k.agg = Worst(m)
       /\ \A n \in Msg : n # m \/ k.agg = "PENDING" => msg'[n] = msg[n]
  BY <1>1, <1>2, <1>3, <1>4, <1>5, <1>6 DEF JobOK
<1>11. Later
  BY <1>1, <1>10 DEF Later, Clean, bounds
<1>12. JobOK(w, j)'
  <2>1. j.at \in Busy => lock'[Lock(w, j.row)] = w
    BY <1>1, <1>9 DEF JobOK
  <2> QED
    BY <1>1, <1>8, <1>9, <1>11, <2>1, JobKept
<1>13. ASSUME NEW n \in Msg
       PROVE  /\ msg'[n] \in Final => msg'[n] = Worst(n)
              /\ msg'[n] = "sending" => msg[n] = "sending"
              /\ WillRecord(w, n) => msg'[n] \in Final
  <2>1. MsgOK(n)
    BY DEF ReceiptsInv
  <2>2. WillRecord(w, n) => n = m /\ k.agg # "PENDING"
    BY <1>1, <1>2, <1>3, RowsOf DEF WillRecord
  <2>3. "sending" \notin Final
    BY DEF Final
  <2> QED
    BY <1>10, <2>1, <2>2, <2>3 DEF MsgOK
<1>14. acked' \in [Row -> SUBSET RState]
  BY <1>1 DEF ReceiptsInv, Types
<1> QED
  BY <1>1, <1>8, <1>10, <1>11, <1>12, <1>13, <1>14, Progress

LEMMA CrashStep ==
  ASSUME ReceiptsInv, NEW p \in Process, Crash(p)
  PROVE  ReceiptsInv'
<1>1. /\ row' = row /\ msg' = msg /\ outcome' = outcome /\ acked' = acked /\ writers' = writers /\ faults' = faults
      /\ crashes > 0 /\ crashes' = crashes - 1
      /\ job' = [a \in Actor |-> IF Home[a] = p THEN Idle ELSE job[a]]
      /\ lock' = [l \in LockId |-> IF l[1] = p THEN Nobody ELSE lock[l]]
  BY DEF Crash, history
<1>2. crashes' \in 0..MaxCrashes /\ ~Clean'
  <2>1. crashes \in 0..MaxCrashes /\ MaxCrashes \in Nat
    BY ReceiptsAssumption DEF ReceiptsInv, Types
  <2> QED
    BY <1>1, <2>1 DEF Clean
<1>3. Later
  BY <1>1, <1>2 DEF Later
<1>4. job' \in [Actor -> JobType] /\ lock' \in [LockId -> Actor \cup {Nobody}]
  BY <1>1, IdleType DEF ReceiptsInv, Types
<1>5. Types'
  BY <1>1, <1>2, <1>4 DEF ReceiptsInv, Types
<1>6. ASSUME NEW b \in Actor PROVE JobOK(b, job[b])'
  <2>1. CASE Home[b] = p
    <3>1. job'[b] = Idle
      BY <1>1, <2>1
    <3>2. JobOK(b, Idle)'
      BY IdleType DEF JobOK, Busy, HandlerOnly, AfterUpdate
    <3> QED
      BY <3>1, <3>2
  <2>2. CASE Home[b] # p
    <3>1. PICK k \in JobType : k = job[b] /\ k = job'[b] /\ JobOK(b, k)
      BY <1>1, <2>2 DEF ReceiptsInv, Types
    <3>2. ASSUME k.at \in Busy PROVE lock'[Lock(b, k.row)] = b
      <4>1. k.row \in Row /\ lock[Lock(b, k.row)] = b
        BY <3>1, <3>2 DEF JobOK
      <4>2. Lock(b, k.row) \in LockId /\ Lock(b, k.row)[1] # p
        BY <2>2, <4>1, LockIds DEF Lock
      <4> QED
        BY <1>1, <4>1, <4>2
    <3>3. JobOK(b, k)'
      BY <1>1, <1>3, <3>1, <3>2, JobKept
    <3> QED
      BY <3>1, <3>3
  <2> QED
    BY <2>1, <2>2
<1>7. ASSUME NEW r \in Row PROVE RowOK(r)'
  BY <1>1, <1>3, RowKept DEF ReceiptsInv
<1>8. ASSUME NEW m \in Msg PROVE MsgOK(m)'
  <2>1. ~Undisturbed(m)'
    BY <1>2 DEF Undisturbed
  <2> QED
    BY <1>1, <1>3, <2>1, MsgKept DEF ReceiptsInv
<1> QED
  BY <1>5, <1>6, <1>7, <1>8 DEF ReceiptsInv

-----------------------------------------------------------------------------
(* Steps that write a row. *)

\* Another goroutine with the same row is one of another process, so that the
\* row has two writers.
LEMMA SecondWriter ==
  ASSUME ReceiptsInv, Later, NEW a \in Actor, NEW b \in Worker, NEW r \in Row, a # b, job[a].at \in Busy,
         job[a].row = r, job[b].at \in AfterUpdate, job[b].row = r, Home[a] \in writers'[r]
  PROVE  Shared(r)'
<1>1. b \in Actor /\ job[b].at \in Busy /\ JobOK(b, job[b])
  BY DEF Actor, AfterUpdate, Busy, ReceiptsInv
<1>2. Home[b] \in writers'[r]
  BY <1>1 DEF JobOK, Later
<1>3. Home[a] # Home[b]
  BY <1>1, OneOfAProcess
<1> QED
  BY <1>2, <1>3 DEF Shared

LEMMA WriteStep ==
  ASSUME ReceiptsInv, NEW a \in Actor, NEW r \in Row, NEW j \in JobType, NEW rec \in RowType,
         job[a].at \in Busy \ {"aggregating", "recording"}, job[a].row = r, Live(r),
         row' = [row EXCEPT ![r] = rec], rec.where = "live",
         writers' \in [Row -> SUBSET Process], \A x \in Row : writers[x] \subseteq writers'[x], Home[a] \in writers'[r],
         UNCHANGED <<msg, outcome, bounds, acked>>,
         Becomes(a, j), JobOK(a, j)', RowOK(r)',
         \/ a \in Worker /\ j.at = "aggregating" /\ j.row = r
         \/ rec.state = row[r].state
         \/ Shared(r)'
  PROVE  ReceiptsInv'
<1>1. Later
  BY DEF Later, Clean, bounds
<1>2. ASSUME NEW b \in Worker, NEW x \in Row, b # a, job[b].at \in AfterUpdate, job[b].row = x
      PROVE  Shared(x)' \/ (row'[x].state = row[x].state /\ (row'[x].delivered => row[x].delivered))
  <2>1. CASE x = r
    BY <1>1, <1>2, <2>1, SecondWriter
  <2>2. CASE x # r
    BY <2>2 DEF ReceiptsInv, Types
  <2> QED
    BY <2>1, <2>2
<1>3. /\ job' \in [Actor -> JobType] /\ lock' \in [LockId -> Actor \cup {Nobody}]
      /\ job'[a] = j /\ \A b \in Actor : b # a => job'[b] = job[b]
      /\ \A b \in Actor : JobOK(b, job[b])'
  BY <1>1, <1>2, JobsKept
<1>4. row' \in [Row -> RowType] /\ row'[r] = rec /\ \A x \in Row : x # r => row'[x] = row[x]
  BY DEF ReceiptsInv, Types
<1>5. Types'
  BY <1>3, <1>4 DEF ReceiptsInv, Types, bounds
<1>6. ASSUME NEW x \in Row PROVE RowOK(x)'
  <2>1. CASE x = r
    BY <2>1
  <2>2. CASE x # r
    BY <1>1, <1>4, <2>2, RowKept DEF ReceiptsInv
  <2> QED
    BY <2>1, <2>2
<1>7. ASSUME NEW m \in Msg PROVE MsgOK(m)'
  <2>1. MsgOK(m) /\ Rows(m) \subseteq Row
    BY RowsOf DEF ReceiptsInv
  <2>2. \A w \in Worker : WillRecord(w, m) => WillRecord(w, m)'
    <3> SUFFICES ASSUME NEW w \in Worker, WillRecord(w, m) PROVE WillRecord(w, m)'
      OBVIOUS
    <3>1. w # a
      BY DEF WillRecord
    <3>2. job'[w] = job[w]
      BY <1>3, <3>1 DEF Actor
    <3> QED
      BY <3>2 DEF WillRecord
  <2>3. msg[m] = "sending" => r \notin Rows(m)
    BY <2>1 DEF MsgOK, Live
  <2>4. msg[m] = "sending" => \A x \in Rows(m) : row'[x].where = row[x].where /\ row'[x].state = row[x].state
    BY <1>4, <2>1, <2>3
  <2>5. CASE Undisturbed(m)' /\ AllFinal(m)' => AllFinal(m)
    BY <1>1, <2>1, <2>2, <2>4, <2>5, MsgKept
  <2>6. CASE Undisturbed(m)' /\ AllFinal(m)' /\ ~AllFinal(m)
    <3>1. PICK x \in Rows(m) : ~(Live(x) /\ row[x].state \in Final)
      BY <2>6 DEF AllFinal
    <3>2. row'[x].where = "live" /\ row'[x].state \in Final
      BY <2>6 DEF AllFinal, Live
    <3>3. x = r
      BY <1>4, <2>1, <3>1, <3>2 DEF Live
    <3>4. rec.state # row[r].state /\ ~Shared(r)'
      BY <1>4, <2>6, <3>1, <3>2, <3>3 DEF Undisturbed
    <3>5. a \in Worker /\ WillRecord(a, m)'
      BY <1>3, <3>3, <3>4 DEF WillRecord
    <3>6. (msg[m] \in Final => msg[m] = Worst(m)) /\ Worst(m)' = Worst(m)
      BY <1>1, <2>1, MsgsLater DEF MsgOK
    <3>7. msg[m] = "sending" => \A y \in Rows(m) : row[y].where = "absent" /\ row[y].state = ""
      BY <2>1 DEF MsgOK
    <3> QED
      BY <2>4, <3>5, <3>6, <3>7 DEF MsgOK
  <2> QED
    BY <2>5, <2>6
<1> QED
  BY <1>3, <1>5, <1>6, <1>7 DEF ReceiptsInv

LEMMA UpdateStep ==
  ASSUME ReceiptsInv, NEW w \in Worker, UpdatePendingDLR(w)
  PROVE  ReceiptsInv'
<1>1. /\ w \in Actor /\ job[w].at = "updating" /\ UNCHANGED <<msg, outcome, bounds, acked>>
  BY DEF UpdatePendingDLR, At, Actor
<1>2. PICK k \in JobType : k = job[w] /\ JobOK(w, k)
  BY <1>1 DEF ReceiptsInv, Types
<1>3. PICK r, s : r = k.row /\ s = k.state
  OBVIOUS
<1>4. r \in Row /\ s \in Sent(r) /\ s \in RState /\ RowOK(r) /\ row[r] \in RowType
  BY <1>1, <1>2, <1>3 DEF JobOK, Busy, JobType, ReceiptsInv, Types
<1>5. CASE Live(r)
  <2>1. /\ row' = [row EXCEPT ![r] = Updated(row[r], s)] /\ Goes(w, "aggregating") /\ lock' = lock
        /\ writers' = [writers EXCEPT ![r] = writers[r] \cup {Home[w]}]
    BY <1>2, <1>3, <1>5 DEF UpdatePendingDLR, Writes
  <2>2. PICK rec : rec = Updated(row[r], s)
    OBVIOUS
  <2>3. /\ rec \in RowType /\ rec.where = "live" /\ rec.state = s /\ rec.delivered = FALSE
        /\ rec.ready = row[r].ready
    BY <1>4, <1>5, <2>2 DEF Updated, RowType, Live
  <2>4. /\ writers' \in [Row -> SUBSET Process] /\ Home[w] \in writers'[r]
        /\ \A x \in Row : writers[x] \subseteq writers'[x]
    BY <1>1, <1>4, <2>1, ReceiptsAssumption DEF ReceiptsInv, Types
  <2>5. "aggregating" \in Place
    BY DEF Place, Busy
  <2>6. PICK j \in JobType : /\ Becomes(w, j) /\ j.at = "aggregating" /\ j.row = r /\ j.state = s /\ j.todo = k.todo
    BY <1>1, <1>2, <1>3, <2>1, <2>5, Walks
  <2>7. row'[r] = rec
    BY <1>4, <2>1, <2>2 DEF ReceiptsInv, Types
  <2>8. \A x \in Row : Sent(x)' = Sent(x)
    BY <1>1 DEF Sent
  <2>9. JobOK(w, j)'
    <3>1. lock'[Lock(w, r)] = w
      BY <1>1, <1>2, <1>3, <2>1 DEF JobOK, Busy
    <3>2. \A item \in j.todo : item.state \in Sent(item.row)' /\ Smpp(item.row[1])
      BY <1>1, <1>2, <2>6 DEF JobOK, Sent
    <3> QED
      BY <1>4, <2>3, <2>4, <2>6, <2>7, <2>8, <3>1, <3>2, ReceiptsAssumption DEF JobOK, Busy, HandlerOnly, AfterUpdate
  <2>10. RowOK(r)'
    BY <1>4, <2>3, <2>7, <2>8 DEF RowOK
  <2>11. job[w].at \in Busy \ {"aggregating", "recording"} /\ job[w].row = r
    BY <1>1, <1>2, <1>3 DEF Busy
  <2> QED
    BY <1>1, <1>4, <1>5, <2>1, <2>2, <2>3, <2>4, <2>6, <2>9, <2>10, <2>11, WriteStep
<1>6. CASE ~Live(r)
  <2>1. Unlocks(w, {}) /\ row' = row /\ writers' = writers
    BY <1>2, <1>3, <1>6 DEF UpdatePendingDLR
  <2>2. StoreKept /\ MayFail /\ job[w].at \in Busy /\ {} \in SUBSET job[w].todo
    BY <1>1, <2>1 DEF StoreKept, MayFail, bounds, Busy
  <2> QED
    BY <1>1, <2>1, <2>2, ReleaseStep
<1> QED
  BY <1>5, <1>6

LEMMA MarkReadyStep ==
  ASSUME ReceiptsInv, NEW w \in Worker, MarkDLRReady(w)
  PROVE  ReceiptsInv'
<1>1. /\ w \in Actor /\ job[w].at = "deferring" /\ Unlocks(w, {}) /\ writers' = writers
      /\ UNCHANGED <<msg, outcome, bounds, acked>>
  BY DEF MarkDLRReady, At, Actor, history
<1>2. PICK k \in JobType : k = job[w] /\ JobOK(w, k)
  BY <1>1 DEF ReceiptsInv, Types
<1>3. PICK r, s : r = k.row /\ s = k.state
  OBVIOUS
<1>4. r \in Row /\ s \in Sent(r) /\ s \in RState /\ RowOK(r) /\ row[r] \in RowType
  BY <1>1, <1>2, <1>3 DEF JobOK, Busy, JobType, ReceiptsInv, Types
<1>5. Smpp(r[1]) /\ Home[w] \in writers[r] /\ (Shared(r) \/ row[r].state = s)
  BY <1>1, <1>2, <1>3 DEF JobOK, AfterUpdate
<1>6. job[w].at \in Busy \ {"aggregating", "recording"} /\ job[w].row = r /\ {} \in SUBSET job[w].todo
  BY <1>1, <1>2, <1>3 DEF Busy
<1>7. CASE Live(r)
  <2>1. row' = [row EXCEPT ![r] = Deferred(row[r], s)]
    BY <1>2, <1>3, <1>7 DEF MarkDLRReady
  <2>2. PICK rec : rec = Deferred(row[r], s)
    OBVIOUS
  <2>3. rec \in RowType /\ rec.where = "live" /\ rec.state = s /\ rec.delivered = FALSE
    BY <1>4, <1>7, <2>2 DEF Deferred, RowType, Live
  <2>4. writers' \in [Row -> SUBSET Process]
    BY <1>1 DEF ReceiptsInv, Types
  <2>5. PICK j \in JobType : Becomes(w, j) /\ JobOK(w, j)'
    BY <1>1, <1>6, Releases
  <2>6. row'[r] = rec
    BY <1>4, <2>1, <2>2 DEF ReceiptsInv, Types
  <2>7. RowOK(r)'
    BY <1>1, <1>4, <1>5, <2>3, <2>6 DEF RowOK, Sent
  <2>8. Shared(r)' \/ rec.state = row[r].state
    BY <1>1, <1>5, <2>3 DEF Shared
  <2> QED
    BY <1>1, <1>4, <1>5, <1>6, <1>7, <2>1, <2>2, <2>3, <2>4, <2>5, <2>7, <2>8, WriteStep
<1>8. CASE ~Live(r)
  <2>1. row' = row
    BY <1>2, <1>3, <1>8 DEF MarkDLRReady
  <2>2. StoreKept /\ MayFail
    BY <1>1, <2>1 DEF StoreKept, MayFail, bounds
  <2> QED
    BY <1>1, <1>6, <2>2, ReleaseStep
<1> QED
  BY <1>7, <1>8

\* A goroutine that has told the client the state it carries has told it the
\* final state of the row, or an earlier one as Told allows.
LEMMA FinishingTold ==
  ASSUME ReceiptsInv, NEW a \in Actor, job[a].at = "finishing", NEW r \in Row, job[a].row = r,
         row[r].state \in Final, Wants(r[1])
  PROVE  Told(r)
<1>1. PICK k \in JobType : k = job[a] /\ JobOK(a, k) /\ k.at = "finishing" /\ k.row = r
  BY DEF ReceiptsInv, Types
<1>2. k.state \in acked[r] /\ k.state \in Sent(r)
  BY <1>1 DEF JobOK, Busy
<1>3. row[r].state = outcome[r]
  BY ReceiptsAssumption DEF ReceiptsInv, RowOK, Sent, Final
<1>4. CASE a \in Flusher
  <2>1. Smpp(r[1])
    BY <1>1, <1>4 DEF JobOK, Busy
  <2> QED
    BY <1>2, <2>1 DEF Told, Sent
<1>5. CASE a \in Worker
  <2>1. Shared(r) \/ row[r].state = k.state
    BY <1>1, <1>5 DEF JobOK, AfterUpdate
  <2> QED
    BY <1>2, <1>3, <2>1 DEF Told, Sent
<1> QED
  BY <1>4, <1>5 DEF Actor

LEMMA MarkDeliveredStep ==
  ASSUME ReceiptsInv, NEW a \in Actor, MarkDLRDelivered(a)
  PROVE  ReceiptsInv'
<1>1. job[a].at = "finishing" /\ UNCHANGED <<msg, outcome, bounds, acked>>
  BY DEF MarkDLRDelivered, At
<1>2. PICK k \in JobType : k = job[a] /\ JobOK(a, k)
  BY DEF ReceiptsInv, Types
<1>3. PICK r : r = k.row
  OBVIOUS
<1>4. r \in Row /\ RowOK(r) /\ row[r] \in RowType
  BY <1>1, <1>2, <1>3 DEF JobOK, Busy, ReceiptsInv, Types
<1>5. job[a].at \in Busy \ {"aggregating", "recording"} /\ job[a].row = r /\ {} \in SUBSET job[a].todo
  BY <1>1, <1>2, <1>3 DEF Busy
<1>6. CASE Live(r)
  <2>1. /\ row' = [row EXCEPT ![r] = Delivered(row[r])] /\ Goes(a, "checking") /\ lock' = lock
        /\ writers' = [writers EXCEPT ![r] = writers[r] \cup {Home[a]}]
    BY <1>2, <1>3, <1>6 DEF MarkDLRDelivered, Writes
  <2>2. PICK rec : rec = Delivered(row[r])
    OBVIOUS
  <2>3. rec \in RowType /\ rec.where = "live" /\ rec.state = row[r].state /\ rec.ready = FALSE
    BY <1>4, <1>6, <2>2 DEF Delivered, RowType, Live
  <2>4. /\ writers' \in [Row -> SUBSET Process] /\ Home[a] \in writers'[r]
        /\ \A x \in Row : writers[x] \subseteq writers'[x]
    BY <1>4, <2>1, ReceiptsAssumption DEF ReceiptsInv, Types
  <2>5. "checking" \in Place
    BY DEF Place, Busy
  <2>6. PICK j \in JobType : /\ Becomes(a, j) /\ j.at = "checking" /\ j.row = r /\ j.state = k.state /\ j.todo = k.todo
    BY <1>2, <1>3, <2>1, <2>5, Walks
  <2>7. row'[r] = rec
    BY <1>4, <2>1, <2>2 DEF ReceiptsInv, Types
  <2>8. Later
    BY <1>1, <2>4 DEF Later, Clean, bounds
  <2>9. JobOK(a, j)'
    <3>1. /\ lock'[Lock(a, r)] = a /\ k.state \in Sent(r)'
          /\ (a \in Flusher => Smpp(r[1]))
      BY <1>1, <1>2, <1>3, <2>1 DEF JobOK, Busy, Sent
    <3>2. \A item \in j.todo : item.state \in Sent(item.row)' /\ Smpp(item.row[1])
      BY <1>1, <1>2, <2>6 DEF JobOK, Sent
    <3> QED
      BY <1>4, <2>6, <3>1, <3>2 DEF JobOK, Busy, HandlerOnly, AfterUpdate
  <2>10. row[r].state \in Final /\ Wants(r[1]) => Told(r)'
    BY <1>1, <1>4, <1>5, <2>8, FinishingTold, RowsLater
  <2>11. RowOK(r)'
    BY <1>1, <1>4, <2>3, <2>7, <2>10 DEF RowOK, Sent
  <2> QED
    BY <1>1, <1>4, <1>5, <1>6, <2>1, <2>2, <2>3, <2>4, <2>6, <2>9, <2>11, WriteStep
<1>7. CASE ~Live(r)
  <2>1. AfterRow(a) /\ row' = row /\ writers' = writers
    BY <1>2, <1>3, <1>7 DEF MarkDLRDelivered
  <2>2. StoreKept /\ MayFail
    BY <1>1, <2>1 DEF StoreKept, MayFail, bounds
  <2> QED
    BY <1>5, <2>1, <2>2, ReleaseStep
<1> QED
  BY <1>6, <1>7

LEMMA DeleteStep ==
  ASSUME ReceiptsInv, NEW a \in Actor, DeletePendingByGatewayID(a)
  PROVE  ReceiptsInv'
<1>1. /\ job[a].at = "deleting" /\ AfterRow(a) /\ UNCHANGED <<msg, outcome, bounds, acked, writers>>
  BY DEF DeletePendingByGatewayID, At, history
<1>2. PICK k \in JobType : k = job[a] /\ JobOK(a, k)
  BY DEF ReceiptsInv, Types
<1>3. PICK m : m = k.row[1]
  OBVIOUS
<1>4. m \in Msg
  BY <1>1, <1>2, <1>3, RowOfMsg DEF JobOK, Busy
<1>5. AllTold(m) /\ (Undisturbed(m) => msg[m] \in Final)
  BY <1>1, <1>2, <1>3 DEF JobOK
<1>6. row' = [r \in Row |-> IF r \in Rows(m) /\ Live(r) THEN [row[r] EXCEPT !.where = "finished"] ELSE row[r]]
  BY <1>2, <1>3 DEF DeletePendingByGatewayID
<1>7. /\ row' \in [Row -> RowType]
      /\ \A r \in Row : /\ row'[r].state = row[r].state /\ row'[r].ready = row[r].ready
                        /\ row'[r].delivered = row[r].delivered
                        /\ \/ row'[r].where = row[r].where
                           \/ r \in Rows(m) /\ row[r].where = "live" /\ row'[r].where = "finished"
  BY <1>6 DEF ReceiptsInv, Types, RowType, Live
<1>8. Later
  BY <1>1 DEF Later, Clean, bounds
<1>9. job[a].at \in Busy /\ {} \in SUBSET job[a].todo
  BY <1>1 DEF Busy
<1>10. PICK j \in JobType : Becomes(a, j) /\ JobOK(a, j)'
  BY <1>1, <1>9, Releases
<1>11. /\ job' \in [Actor -> JobType] /\ lock' \in [LockId -> Actor \cup {Nobody}]
       /\ job'[a] = j /\ \A b \in Actor : b # a => job'[b] = job[b]
       /\ \A b \in Actor : JobOK(b, job[b])'
  BY <1>7, <1>8, <1>10, JobsKept
<1>12. Types'
  BY <1>1, <1>7, <1>11 DEF ReceiptsInv, Types, bounds
<1>13. ASSUME NEW r \in Row PROVE RowOK(r)'
  <2>1. CASE row'[r].where = row[r].where
    BY <1>7, <1>8, <2>1, RowKept DEF ReceiptsInv
  <2>2. CASE r \in Rows(m) /\ row'[r].where = "finished"
    <3>1. r[1] = m /\ (Wants(r[1]) => Told(r))
      BY <1>4, <1>5, <2>2, RowsOf DEF AllTold
    <3>2. Undisturbed(m)' => msg'[m] \in Final
      BY <1>1, <1>4, <1>5, <1>8, MsgsLater
    <3>3. RowOK(r) /\ (Told(r) => Told(r)') /\ Sent(r)' = Sent(r)
      BY <1>8, RowsLater DEF ReceiptsInv
    <3> QED
      BY <1>7, <3>1, <3>2, <3>3 DEF RowOK
  <2> QED
    BY <1>7, <2>1, <2>2
<1>14. ASSUME NEW n \in Msg PROVE MsgOK(n)'
  <2>1. Rows(n) \subseteq Row /\ MsgOK(n)
    BY RowsOf DEF ReceiptsInv
  <2>2. AllFinal(n)' => AllFinal(n)
    BY <1>7, <2>1 DEF AllFinal, Live
  <2>3. \A w \in Worker : WillRecord(w, n) => WillRecord(w, n)'
    <3> SUFFICES ASSUME NEW w \in Worker, WillRecord(w, n) PROVE WillRecord(w, n)'
      OBVIOUS
    <3>1. w # a
      BY <1>1 DEF WillRecord
    <3>2. job'[w] = job[w]
      BY <1>11, <3>1 DEF Actor
    <3> QED
      BY <3>2 DEF WillRecord
  <2>4. msg[n] = "sending" => \A r \in Rows(n) : row'[r].where = row[r].where /\ row'[r].state = row[r].state
    BY <1>7, <2>1 DEF MsgOK
  <2> QED
    BY <1>1, <1>8, <2>1, <2>2, <2>3, <2>4, MsgKept
<1> QED
  BY <1>11, <1>12, <1>13, <1>14 DEF ReceiptsInv

-----------------------------------------------------------------------------
LEMMA ReceiptsStart ==
  ASSUME Init
  PROVE  ReceiptsInv
<1>1. Types
  <2>1. row \in [Row -> RowType]
    BY DEF Init, RowType, RState
  <2>2. msg \in [Msg -> {"sending", "sent"} \cup Final] /\ lock \in [LockId -> Actor \cup {Nobody}]
    BY DEF Init
  <2>3. job \in [Actor -> JobType]
    BY IdleType DEF Init
  <2>4. outcome \in [Row -> Final]
    BY ReceiptsAssumption DEF Init
  <2>5. acked \in [Row -> SUBSET RState] /\ writers \in [Row -> SUBSET Process]
    BY DEF Init
  <2>6. faults \in 0..MaxFaults /\ crashes \in 0..MaxCrashes
    <3>1. faults = MaxFaults /\ crashes = MaxCrashes
      BY DEF Init
    <3>2. MaxFaults \in Nat /\ MaxCrashes \in Nat
      BY ReceiptsAssumption
    <3> QED
      BY <3>1, <3>2
  <2> QED
    BY <2>1, <2>2, <2>3, <2>4, <2>5, <2>6 DEF Types
<1>2. ASSUME NEW a \in Actor PROVE JobOK(a, job[a])
  <2>1. job[a] = Idle
    BY DEF Init
  <2> QED
    BY <2>1, IdleType DEF JobOK, Busy, HandlerOnly, AfterUpdate
<1>3. ASSUME NEW r \in Row
      PROVE  row[r].state = "" /\ row[r].ready = FALSE /\ row[r].delivered = FALSE /\ row[r].where = "absent"
  BY DEF Init
<1>4. ASSUME NEW r \in Row PROVE RowOK(r)
  BY <1>3 DEF RowOK
<1>5. ASSUME NEW m \in Msg PROVE MsgOK(m)
  <2>1. Rows(m) \subseteq Row /\ Rows(m) # {}
    BY RowsOf
  <2>2. ~AllFinal(m)
    BY <1>3, <2>1 DEF AllFinal, Live
  <2>3. msg[m] = "sending" /\ "sending" \notin Final
    BY DEF Init, Final
  <2> QED
    BY <1>3, <2>1, <2>2, <2>3 DEF MsgOK
<1> QED
  BY <1>1, <1>2, <1>4, <1>5 DEF ReceiptsInv

LEMMA ReceiptsStep ==
  ASSUME ReceiptsInv, [Next]_vars
  PROVE  ReceiptsInv'
<1>1. ASSUME NEW m \in Msg, StorePending(m) PROVE ReceiptsInv'
  BY <1>1, StorePendingStep
<1>2. ASSUME Sweep \/ \E r \in Row : Expire(r) PROVE ReceiptsInv'
  BY <1>2, SweepStep
<1>3. ASSUME NEW w \in Worker, OnDLR(w) \/ HandleDLR(w) \/ RecordFails(w) PROVE ReceiptsInv'
  BY <1>3, OnDLRStep, LockRowStep, GetStep, UpdateStep, AggregateStep, RecordStep, MarkReadyStep, RecordFailsStep
     DEF HandleDLR
<1>4. ASSUME NEW a \in Actor, Tell(a) \/ finishDLRDelivery(a) \/ StoreFails(a) PROVE ReceiptsInv'
  BY <1>4, AckedStep, NotToldStep, MarkDeliveredStep, CheckStep, DeleteStep, StoreFailsStep DEF Tell, finishDLRDelivery
<1>5. ASSUME NEW f \in Flusher, Tick(f) \/ Bind(f) \/ FlushDLR(f) PROVE ReceiptsInv'
  BY <1>5, StartFlushStep, ListReadyStep, FlushRowStep DEF FlushDLR
<1>6. ASSUME NEW p \in Process, Crash(p) PROVE ReceiptsInv'
  BY <1>6, CrashStep
<1>7. ASSUME NEW p \in Process, NEW c \in Client, Unbind(p, c) PROVE ReceiptsInv'
  BY <1>7, UnbindStep DEF Unbind
<1>8. CASE UNCHANGED vars
  BY <1>8, UnbindStep DEF vars, bounds, history
<1> QED
  BY <1>1, <1>2, <1>3, <1>4, <1>5, <1>6, <1>7, <1>8 DEF Next

LEMMA ReceiptsInvariant == Spec => []ReceiptsInv
  BY ReceiptsStart, ReceiptsStep, PTL DEF Spec

\* FinalStateIsTrue of Receipts, for any number of messages, segments, handlers,
\* flushes and processes: the state HandleDLR records for a message is the worst
\* of the outcomes of its segments, in whatever order receipts come.
THEOREM FinalStateHolds == Spec => []FinalStateIsTrue
<1>1. ReceiptsInv => FinalStateIsTrue
  BY DEF ReceiptsInv, MsgOK, FinalStateIsTrue
<1> QED
  BY <1>1, ReceiptsInvariant, PTL

\* FinalIsTold of Receipts: finishDLRDelivery deletes the rows of a message only
\* when the client has acknowledged what it had to be told of each.
THEOREM FinalToldHolds == Spec => []FinalIsTold
<1>1. ReceiptsInv => FinalIsTold
  BY DEF ReceiptsInv, RowOK, FinalIsTold
<1> QED
  BY <1>1, ReceiptsInvariant, PTL

\* AllFinalIsRecorded of Receipts: of the handlers that make the rows of a message
\* final, one has seen all of them and has recorded the state of the message.
THEOREM RecordedHolds == Spec => []AllFinalIsRecorded
<1>1. ReceiptsInv => AllFinalIsRecorded
  <2> SUFFICES ASSUME ReceiptsInv, NEW m \in Msg,
                      Clean, \A r \in Rows(m) : ~Shared(r),
                      \A w \in Worker : job[w].at = "idle" \/ job[w].row[1] # m,
                      \A r \in Rows(m) : (Live(r) /\ row[r].state \in Final) \/ row[r].where = "finished"
               PROVE  msg[m] \in Final
    BY DEF AllFinalIsRecorded
  <2>1. Undisturbed(m)
    BY DEF Undisturbed
  <2>2. Rows(m) \subseteq Row /\ \A r \in Rows(m) : r[1] = m
    BY RowsOf
  <2>3. CASE \E r \in Rows(m) : row[r].where = "finished"
    BY <2>1, <2>2, <2>3 DEF ReceiptsInv, RowOK
  <2>4. CASE AllFinal(m)
    <3>1. ASSUME NEW w \in Worker, WillRecord(w, m) PROVE FALSE
      BY <2>2, <3>1 DEF WillRecord
    <3> QED
      BY <2>1, <2>4, <3>1 DEF ReceiptsInv, MsgOK
  <2> QED
    BY <2>3, <2>4 DEF AllFinal
<1> QED
  BY <1>1, ReceiptsInvariant, PTL
=============================================================================
