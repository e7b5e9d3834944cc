----------------------------- MODULE OutboxTimely -----------------------------
(***************************************************************************)
(* What the outbox guarantees when no goroutine holds a claim beyond       *)
(* claim_timeout: the provider is entered at most once for a row, the      *)
(* promise of Delivery is kept, and what the message says is true.         *)
(***************************************************************************)
EXTENDS OutboxProofs, OutboxDelivery

\* Goroutines that have not entered the provider yet.
Fresh == {"lookup", "mark", "recheck", "call"}

HoldersUnique ==
  \A t, u \in Thread : Busy(t) /\ Busy(u) /\ job[t].item = job[u].item => t = u

QueuedUnheld ==
  \A i \in Item : box[i].state \in {"absent", "pending"} => \A t \in Thread : ~Holds(t, i)

FreshHolders == \A t \in Thread : job[t].pc \in Fresh => entries[job[t].item] = 0

\* A receipt is queued, and deleted again, for a terminal failure only.
ReceiptJob(j) ==
  /\ j.queued => j.pc \in {"failBox", "undo"}
  /\ j.queued \/ j.pc \in {"failMsg", "failRow"} => Terminal(j)

ReceiptsTerminal == \A t \in Thread : ReceiptJob(job[t])

DownIsEmpty == \A t \in Thread : mode[ProcOf[t]] = "down" => ~Busy(t)

HoldInv ==
  /\ HoldersUnique
  /\ QueuedUnheld
  /\ FreshHolders
  /\ ReceiptsTerminal
  /\ DownIsEmpty
  /\ AtMostOneEntry

-----------------------------------------------------------------------------
\* A goroutine goes on with its row, or ends.
KeepsRow(t, j) ==
  /\ ReceiptJob(j)
  /\ j.pc # "idle" => Busy(t) /\ j.item = job[t].item
  /\ j.pc \in Fresh => job[t].pc \in Fresh

KeepRows == \A t \in Thread : KeepsRow(t, job'[t])

\* A row that is queued was queued before or has nobody working on it.
QueuedFreely ==
  \A i \in Item : box'[i].state \in {"absent", "pending"} =>
    \/ box[i].state \in {"absent", "pending"}
    \/ \A t \in Thread : ~Holds(t, i)'

ModeStep ==
  \A t \in Thread : mode'[ProcOf[t]] = "down" => mode[ProcOf[t]] = "down" \/ ~Busy(t)'

\* Steps that hand no row to a goroutine and do not enter the provider.
LEMMA KeepStep ==
  ASSUME HoldInv, entries' = entries, KeepRows, QueuedFreely, ModeStep
  PROVE  HoldInv'
<1> USE DEF KeepRows, KeepsRow
<1>1. HoldersUnique'  BY DEF HoldInv, HoldersUnique, Busy
<1>2. QueuedUnheld'  BY DEF HoldInv, QueuedUnheld, QueuedFreely, Holds, Busy
<1>3. FreshHolders'  BY DEF HoldInv, FreshHolders, Fresh
<1>4. ReceiptsTerminal'  BY DEF ReceiptsTerminal, ReceiptJob, Terminal
<1>5. DownIsEmpty'  BY DEF HoldInv, DownIsEmpty, ModeStep, Busy
<1>6. AtMostOneEntry'  BY DEF HoldInv, AtMostOneEntry
<1> QED BY <1>1, <1>2, <1>3, <1>4, <1>5, <1>6 DEF HoldInv

LEMMA SameRows ==
  ASSUME HoldInv, job' = job
  PROVE  KeepRows
BY DEF KeepRows, KeepsRow, HoldInv, ReceiptsTerminal, Busy

LEMMA OneRow ==
  ASSUME HoldInv, TypeOK, NEW t \in Thread, NEW j, KeepsRow(t, j), job' = [job EXCEPT ![t] = j]
  PROVE  KeepRows
<1>1. job'[t] = j /\ \A u \in Thread : u # t => job'[u] = job[u]
  BY DEF TypeOK
<1> QED BY <1>1 DEF KeepRows, KeepsRow, HoldInv, ReceiptsTerminal, Busy

LEMMA KeepUpdates ==
  ASSUME HoldInv, TypeOK, NEW t \in Thread, Busy(t)
  PROVE  /\ KeepsRow(t, FreeSlot)
         /\ job[t].pc \in Fresh => KeepsRow(t, MarkFailed(t))
         /\ ~job[t].queued => \A c \in Cause : KeepsRow(t, BeginFail(job[t], c))
         /\ job[t].pc \in Fresh =>
              \A s \in {"mark", "recheck", "call", "inflight"} : KeepsRow(t, [job[t] EXCEPT !.pc = s])
         /\ job[t].pc = "failMsg" =>
              \A s \in {"failRow", "failBox"} : KeepsRow(t, [job[t] EXCEPT !.pc = s])
         /\ job[t].pc = "failRow" => KeepsRow(t, [job[t] EXCEPT !.pc = "failBox"])
         /\ job[t].pc = "failRow" => KeepsRow(t, [job[t] EXCEPT !.pc = "failBox", !.queued = TRUE])
         /\ job[t].pc = "failBox" => KeepsRow(t, [job[t] EXCEPT !.pc = "undo"])
         /\ ~job[t].queued => KeepsRow(t, [job[t] EXCEPT !.pc = "complete", !.tries = 0])
         /\ ~job[t].queued => KeepsRow(t, [job[t] EXCEPT !.pc = "uncertain", !.tries = 0])
         /\ KeepsRow(t, [job[t] EXCEPT !.tries = @ + 1])
<1>1. job[t] \in Job /\ job[t].pc # "idle"  BY DEF TypeOK, Busy
<1>2. ReceiptJob(job[t])  BY DEF HoldInv, ReceiptsTerminal
<1> USE <1>1, <1>2 DEF KeepsRow, Fresh, Job
<1>3. KeepsRow(t, FreeSlot)  BY DEF FreeSlot, ReceiptJob
<1>4. ASSUME job[t].pc \in Fresh PROVE KeepsRow(t, MarkFailed(t))
  BY <1>3, <1>4 DEF MarkFailed, ReceiptJob
<1>5. ASSUME ~job[t].queued, NEW c \in Cause PROVE KeepsRow(t, BeginFail(job[t], c))
  <2> DEFINE k == [job[t] EXCEPT !.cause = c, !.tries = 0]
  <2>0. 0 \in 0..2  OBVIOUS
  <2>1. k \in Job  BY <1>1, <2>0, JobUpdate
  <2>3. ~k.queued /\ k.item = job[t].item  BY <1>5
  <2> HIDE DEF k
  <2>2. BeginFail(job[t], c) = [k EXCEPT !.pc = IF Terminal(k) THEN "failMsg" ELSE "failBox"]
    BY DEF BeginFail, k
  <2> QED BY <2>1, <2>2, <2>3 DEF ReceiptJob, Terminal
<1>6. ASSUME job[t].pc \in Fresh, NEW s \in {"mark", "recheck", "call", "inflight"}
      PROVE  KeepsRow(t, [job[t] EXCEPT !.pc = s])
  BY <1>6 DEF ReceiptJob
<1>7. ASSUME job[t].pc = "failMsg", NEW s \in {"failRow", "failBox"}
      PROVE  KeepsRow(t, [job[t] EXCEPT !.pc = s])
  BY <1>7 DEF ReceiptJob, Terminal
<1>8. ASSUME job[t].pc = "failRow" PROVE KeepsRow(t, [job[t] EXCEPT !.pc = "failBox"])
  BY <1>8 DEF ReceiptJob, Terminal
<1>9. ASSUME job[t].pc = "failRow"
      PROVE  KeepsRow(t, [job[t] EXCEPT !.pc = "failBox", !.queued = TRUE])
  BY <1>9 DEF ReceiptJob, Terminal
<1>10. ASSUME job[t].pc = "failBox" PROVE KeepsRow(t, [job[t] EXCEPT !.pc = "undo"])
  BY <1>10 DEF ReceiptJob, Terminal
<1>11. ASSUME ~job[t].queued PROVE KeepsRow(t, [job[t] EXCEPT !.pc = "complete", !.tries = 0])
  BY <1>11 DEF ReceiptJob
<1>12. ASSUME ~job[t].queued PROVE KeepsRow(t, [job[t] EXCEPT !.pc = "uncertain", !.tries = 0])
  BY <1>12 DEF ReceiptJob
<1>13. KeepsRow(t, [job[t] EXCEPT !.tries = @ + 1])
  BY DEF ReceiptJob, Terminal
<1> QED BY <1>3, <1>4, <1>5, <1>6, <1>7, <1>8, <1>9, <1>10, <1>11, <1>12, <1>13

-----------------------------------------------------------------------------
\* A row that is queued in memory has never been sent.
LEMMA QueuedUnsent ==
  ASSUME OwnerInv
  PROVE  \A i \in Item : box[i].state \notin Committed => entries[i] = 0
BY DEF OwnerInv, DiskFollows, EntriesCommitted

\* The steps of a goroutine.
LEMMA HoldThreadStep ==
  ASSUME HoldInv, OwnerInv, TypeOK, TypeOK', NEW t \in Thread, ThreadStep(t)
  PROVE  HoldInv'
<1> DEFINE i == job[t].item
<1>1. Busy(t) /\ i \in Item
  BY DEF TypeOK, Job, Busy, ThreadStep, AbandonClaim, LookupProvider, MarkOutboxSending,
     RecheckSending, EnterProvider, ProviderReturns, CompleteOutboxSend, MarkOutboxUncertain,
     FailMessage, SaveFailureReceipt, FailOutbox, DeleteFailureReceipt
<1>2. box \in [Item -> Row] /\ box[i] \in Row /\ job \in [Thread -> Job] /\ job[t] \in Job
  BY <1>1 DEF TypeOK
<1>3. ModeStep
  BY DEF ModeStep, ThreadStep, AbandonClaim, LookupProvider, MarkOutboxSending,
     RecheckSending, EnterProvider, ProviderReturns, CompleteOutboxSend, MarkOutboxUncertain,
     FailMessage, SaveFailureReceipt, FailOutbox, DeleteFailureReceipt
<1>4. ASSUME box' = box \/ \E s \in Committed : box' = [box EXCEPT ![i].state = s]
      PROVE  QueuedFreely
  BY <1>1, <1>2, <1>4 DEF QueuedFreely, Row, Committed
<1>5. job[t].pc \notin {"failBox", "undo"} => ~job[t].queued
  BY DEF HoldInv, ReceiptsTerminal, ReceiptJob
<1> HIDE DEF i
<1>a. CASE AbandonClaim(t)
  <2>1. KeepRows  BY <1>a, <1>1, KeepUpdates, OneRow DEF AbandonClaim
  <2>2. box' = box /\ entries' = entries  BY <1>a DEF AbandonClaim, store, history
  <2> QED BY <1>3, <1>4, <2>1, <2>2, KeepStep
<1>b. CASE LookupProvider(t)
  <2>1. KeepRows
    <3>1. job' = [job EXCEPT ![t] = [job[t] EXCEPT !.pc = "mark"]]
          \/ job' = [job EXCEPT ![t] = BeginFail(job[t], "missing")]
      BY <1>b DEF LookupProvider
    <3>2. job[t].pc \in Fresh /\ ~job[t].queued  BY <1>b, <1>5 DEF LookupProvider, Fresh
    <3>3. "missing" \in Cause  BY DEF Cause
    <3> QED BY <1>1, <3>1, <3>2, <3>3, KeepUpdates, OneRow
  <2>2. box' = box /\ entries' = entries  BY <1>b DEF LookupProvider, store, history
  <2> QED BY <1>3, <1>4, <2>1, <2>2, KeepStep
<1>c. CASE MarkOutboxSending(t)
  <2>1. \/ job' = [job EXCEPT ![t] = [job[t] EXCEPT !.pc = "call"]]
        \/ job' = [job EXCEPT ![t] = [job[t] EXCEPT !.pc = "recheck"]]
        \/ job' = [job EXCEPT ![t] = MarkFailed(t)]
    BY <1>c, <1>2 DEF MarkOutboxSending
  <2>2. job[t].pc \in Fresh  BY <1>c DEF MarkOutboxSending, Fresh
  <2>3. KeepRows  BY <1>1, <2>1, <2>2, KeepUpdates, OneRow
  <2>4. box' = box \/ box' = [box EXCEPT ![i].state = "sending"]
    BY <1>c, CallEnd DEF MarkOutboxSending, store, i
  <2>5. entries' = entries  BY <1>c DEF MarkOutboxSending, history
  <2>6. QueuedFreely  BY <1>4, <2>4 DEF Committed
  <2> QED BY <1>3, <2>3, <2>5, <2>6, KeepStep
<1>d. CASE RecheckSending(t)
  <2>1. \/ job' = [job EXCEPT ![t] = [job[t] EXCEPT !.pc = "call"]]
        \/ job' = [job EXCEPT ![t] = MarkFailed(t)]
    BY <1>d, <1>2 DEF RecheckSending
  <2>2. job[t].pc \in Fresh  BY <1>d DEF RecheckSending, Fresh
  <2>3. KeepRows  BY <1>1, <2>1, <2>2, KeepUpdates, OneRow
  <2>4. box' = box /\ entries' = entries
    BY <1>d, CallEnd DEF RecheckSending, store, history
  <2> QED BY <1>3, <1>4, <2>3, <2>4, KeepStep
<1>e. CASE EnterProvider(t)
  <2>1. /\ job' = [job EXCEPT ![t] = [job[t] EXCEPT !.pc = "inflight"]]
        /\ job[t].pc \in Fresh /\ box' = box
    BY <1>e, <1>2 DEF EnterProvider, Fresh, store
  <2>2. KeepRows  BY <1>1, <2>1, KeepUpdates, OneRow
  <2>3. /\ job'[t].pc = "inflight" /\ job'[t].item = i
        /\ \A u \in Thread : u # t => job'[u] = job[u]
    BY <1>2, <2>1 DEF Job, i
  <2>4. entries[i] = 0  BY <2>1 DEF HoldInv, FreshHolders, i
  <2>5. entries'[i] = 1 /\ \A k \in Item : k # i => entries'[k] = entries[k]
    BY <1>e, <1>1, <2>4 DEF EnterProvider, TypeOK, i
  <2>6. HoldersUnique' /\ QueuedUnheld' /\ ReceiptsTerminal' /\ DownIsEmpty'
    <3>1. HoldersUnique'
      BY <2>2 DEF KeepRows, KeepsRow, HoldInv, HoldersUnique, Busy
    <3>2. QueuedUnheld'
      BY <2>1, <2>2 DEF KeepRows, KeepsRow, HoldInv, QueuedUnheld, Holds, Busy
    <3>3. ReceiptsTerminal'  BY <2>2 DEF KeepRows, KeepsRow, ReceiptsTerminal, ReceiptJob, Terminal
    <3>4. DownIsEmpty'  BY <1>3, <2>2 DEF KeepRows, KeepsRow, HoldInv, DownIsEmpty, ModeStep, Busy
    <3> QED BY <3>1, <3>2, <3>3, <3>4
  <2>7. FreshHolders'
    <3> SUFFICES ASSUME NEW u \in Thread, job'[u].pc \in Fresh PROVE entries'[job'[u].item] = 0
      BY DEF FreshHolders
    <3>1. u # t /\ job'[u] = job[u]  BY <2>3 DEF Fresh
    <3>2. Busy(u) /\ job[u].item \in Item  BY <3>1 DEF Fresh, Busy, TypeOK, Job
    <3>3. job[u].item # i  BY <1>1, <3>1, <3>2 DEF HoldInv, HoldersUnique, i
    <3> QED BY <2>5, <3>1, <3>2, <3>3 DEF HoldInv, FreshHolders
  <2>8. AtMostOneEntry'  BY <2>5 DEF HoldInv, AtMostOneEntry
  <2> QED BY <2>6, <2>7, <2>8 DEF HoldInv
<1>f. CASE ProviderReturns(t)
  <2>1. \/ job' = [job EXCEPT ![t] = [job[t] EXCEPT !.pc = "complete", !.tries = 0]]
        \/ job' = [job EXCEPT ![t] = BeginFail(job[t], "rejected")]
        \/ job' = [job EXCEPT ![t] = BeginFail(job[t], "timeout")]
        \/ job' = [job EXCEPT ![t] = [job[t] EXCEPT !.pc = "uncertain", !.tries = 0]]
    BY <1>f, <1>2 DEF ProviderReturns
  <2>2. ~job[t].queued  BY <1>f, <1>5 DEF ProviderReturns
  <2>3. KeepRows  BY <1>1, <2>1, <2>2, KeepUpdates, OneRow DEF Cause
  <2>4. box' = box /\ entries' = entries  BY <1>f DEF ProviderReturns, store
  <2> QED BY <1>3, <1>4, <2>3, <2>4, KeepStep
<1>g. CASE CompleteOutboxSend(t)
  <2>1. \/ job' = [job EXCEPT ![t] = FreeSlot]
        \/ job' = [job EXCEPT ![t] = [job[t] EXCEPT !.pc = "uncertain", !.tries = 0]]
        \/ job' = [job EXCEPT ![t] = [job[t] EXCEPT !.tries = @ + 1]]
    BY <1>g DEF CompleteOutboxSend, CompleteFailed
  <2>2. ~job[t].queued  BY <1>g, <1>5 DEF CompleteOutboxSend
  <2>3. KeepRows  BY <1>1, <2>1, <2>2, KeepUpdates, OneRow
  <2>4. box' = box \/ box' = [box EXCEPT ![i].state = "done"]
    BY <1>g, CallEnd DEF CompleteOutboxSend, store, i
  <2>5. entries' = entries  BY <1>g DEF CompleteOutboxSend, history
  <2>6. QueuedFreely  BY <1>4, <2>4 DEF Committed
  <2> QED BY <1>3, <2>3, <2>5, <2>6, KeepStep
<1>h. CASE MarkOutboxUncertain(t)
  <2>1. \/ job' = [job EXCEPT ![t] = FreeSlot]
        \/ job' = [job EXCEPT ![t] = [job[t] EXCEPT !.tries = @ + 1]]
    BY <1>h DEF MarkOutboxUncertain, UncertainFailed
  <2>2. KeepRows  BY <1>1, <2>1, KeepUpdates, OneRow
  <2>3. box' = box \/ box' = [box EXCEPT ![i].state = "uncertain"]
    BY <1>h, CallEnd DEF MarkOutboxUncertain, store, i
  <2>4. entries' = entries  BY <1>h DEF MarkOutboxUncertain, history
  <2>5. QueuedFreely  BY <1>4, <2>3 DEF Committed
  <2> QED BY <1>3, <2>2, <2>4, <2>5, KeepStep
<1>i. CASE FailMessage(t)
  <2>1. \E s \in {"failRow", "failBox"} : job' = [job EXCEPT ![t] = [job[t] EXCEPT !.pc = s]]
    BY <1>i, <1>2 DEF FailMessage
  <2>2. job[t].pc = "failMsg" /\ entries' = entries  BY <1>i DEF FailMessage, history
  <2>3. KeepRows  BY <1>1, <2>1, <2>2, KeepUpdates, OneRow
  <2>4. box' = box  BY <1>i, CallEnd DEF FailMessage, store
  <2> QED BY <1>3, <1>4, <2>2, <2>3, <2>4, KeepStep
<1>j. CASE SaveFailureReceipt(t)
  <2>1. \/ job' = [job EXCEPT ![t] = [job[t] EXCEPT !.pc = "failBox"]]
        \/ job' = [job EXCEPT ![t] = [job[t] EXCEPT !.pc = "failBox", !.queued = TRUE]]
    BY <1>j, <1>2 DEF SaveFailureReceipt
  <2>2. job[t].pc = "failRow" /\ entries' = entries  BY <1>j DEF SaveFailureReceipt, history
  <2>3. KeepRows  BY <1>1, <2>1, <2>2, KeepUpdates, OneRow
  <2>4. box' = box  BY <1>j, CallEnd DEF SaveFailureReceipt
  <2> QED BY <1>3, <1>4, <2>2, <2>3, <2>4, KeepStep
<1>k. CASE FailOutbox(t)
  <2>1. /\ job[t].pc = "failBox" /\ entries' = entries
        /\ \/ job' = [job EXCEPT ![t] = FreeSlot]
           \/ job[t].queued /\ job' = [job EXCEPT ![t] = [job[t] EXCEPT !.pc = "undo"]]
    BY <1>k, <1>2 DEF FailOutbox, history
  <2>2. KeepRows  BY <1>1, <2>1, KeepUpdates, OneRow
  <2>3. CASE box' = box  BY <1>3, <1>4, <2>1, <2>2, <2>3, KeepStep
  <2>4. CASE box' = [box EXCEPT ![i] = FailRow(i, job[t])]
    <3>1. job[t].queued => FailRow(i, job[t]).state = "failed"
      BY <1>2 DEF FailRow, FailsForGood, HoldInv, ReceiptsTerminal, ReceiptJob, Row
    <3>2. ~job[t].queued => \A u \in Thread : job'[u].pc = "idle" \/ job'[u].item # i
      <4> SUFFICES ASSUME ~job[t].queued, NEW u \in Thread
                   PROVE  job'[u].pc = "idle" \/ job'[u].item # i
        OBVIOUS
      <4>1. job'[t].pc = "idle" /\ \A v \in Thread : v # t => job'[v] = job[v]
        BY <1>2, <2>1 DEF FreeSlot
      <4> QED BY <1>1, <4>1 DEF HoldInv, HoldersUnique, Busy, i
    <3>3. QueuedFreely
      <4> SUFFICES ASSUME NEW k \in Item, box'[k].state \in {"absent", "pending"}
                   PROVE  \/ box[k].state \in {"absent", "pending"}
                          \/ \A u \in Thread : ~Holds(u, k)'
        BY DEF QueuedFreely
      <4>1. CASE k # i  BY <1>1, <1>2, <2>4, <4>1
      <4>2. CASE k = i
        <5>1. box'[i] = FailRow(i, job[t])  BY <1>1, <1>2, <2>4
        <5> QED BY <3>1, <3>2, <4>2, <5>1 DEF Holds, Busy
      <4> QED BY <4>1, <4>2
    <3> QED BY <1>3, <2>1, <2>2, <3>3, KeepStep
  <2> QED BY <1>k, <2>3, <2>4, CallEnd DEF FailOutbox, store, i
<1>l. CASE DeleteFailureReceipt(t)
  <2>1. KeepRows  BY <1>l, <1>1, KeepUpdates, OneRow DEF DeleteFailureReceipt
  <2>2. box' = box /\ entries' = entries
    BY <1>l, CallEnd DEF DeleteFailureReceipt, history
  <2> QED BY <1>3, <1>4, <2>1, <2>2, KeepStep
<1> QED BY <1>a, <1>b, <1>c, <1>d, <1>e, <1>f, <1>g, <1>h, <1>i, <1>j, <1>k, <1>l DEF ThreadStep


LEMMA HoldClaim ==
  ASSUME HoldInv, OwnerInv, TypeOK, TypeOK', NEW p \in Proc, NEW n \in Name, Claim(p, n)
  PROVE  HoldInv'
<1>1. PICK S \in SUBSET Claimable : \E f \in [S -> FreeSlots(p, n)] : ClaimOutbox(p, n, f)
  BY DEF Claim
<1>2. PICK f \in [S -> FreeSlots(p, n)] : ClaimOutbox(p, n, f)
  BY <1>1
<1>a. DOMAIN f = S  OBVIOUS
<1>3. /\ box' = [i \in Item |-> IF i \in S THEN ClaimRow(box[i], n) ELSE box[i]]
      /\ mode' = mode /\ entries' = entries /\ mode[p] = "up"
      /\ \A i, k \in S : f[i] = f[k] => i = k
  BY <1>2, <1>a DEF ClaimOutbox, history
<1>4. \A i \in S : i \in Item /\ box[i].state = "pending" /\ f[i] \in Thread
                   /\ ProcOf[f[i]] = p /\ ~Busy(f[i])
  BY DEF Claimable, FreeSlots, LoopSlots
<1>5. \A i \in Item : box'[i].state \in {"absent", "pending"} =>
                        i \notin S /\ box'[i] = box[i]
  <2>1. \A i \in S : ClaimRow(box[i], n).state = "claimed"
    BY <1>4 DEF TypeOK, Row, ClaimRow
  <2> QED BY <1>3, <2>1
<1>6. CASE job' = job
  <2>1. QueuedFreely /\ ModeStep  BY <1>3, <1>5, <1>6 DEF QueuedFreely, ModeStep, HoldInv, DownIsEmpty
  <2> QED BY <1>3, <1>6, <2>1, SameRows, KeepStep
<1>7. CASE \A t \in Thread :
             \/ \E i \in S : f[i] = t /\ \E a \in Nat : job'[t] = Started(i, a)
             \/ job'[t] = job[t] /\ \A i \in S : f[i] # t
  <2>1. \A t \in Thread :
          \/ job'[t].pc = "lookup" /\ ~job'[t].queued /\ job'[t].item \in S /\ f[job'[t].item] = t
          \/ job'[t] = job[t] /\ \A i \in S : f[i] # t
    <3>1. \A i, a : Started(i, a).pc = "lookup" /\ ~Started(i, a).queued /\ Started(i, a).item = i
      BY DEF Started
    <3> QED BY <1>7, <3>1
  <2>2. HoldersUnique'
    <3> SUFFICES ASSUME NEW t \in Thread, NEW u \in Thread, Busy(t)', Busy(u)',
                        job'[t].item = job'[u].item
                 PROVE  t = u
      BY DEF HoldersUnique
    <3>1. ASSUME NEW v \in Thread, NEW w \in Thread, job'[v].item \in S, f[job'[v].item] = v,
                 job'[w] = job[w], Busy(w)'
          PROVE  job'[w].item # job'[v].item
      BY <3>1, <1>4 DEF HoldInv, QueuedUnheld, Holds, Busy
    <3> QED BY <2>1, <3>1 DEF HoldInv, HoldersUnique, Busy
  <2>3. QueuedUnheld'
    BY <1>5, <2>1 DEF HoldInv, QueuedUnheld, Holds, Busy
  <2>4. FreshHolders'
    BY <1>3, <1>4, <2>1, QueuedUnsent DEF HoldInv, FreshHolders, Committed
  <2>5. ReceiptsTerminal'
    BY <2>1 DEF HoldInv, ReceiptsTerminal, ReceiptJob, Terminal
  <2>6. DownIsEmpty'
    BY <1>3, <1>4, <2>1 DEF HoldInv, DownIsEmpty, Busy
  <2>7. AtMostOneEntry'  BY <1>3 DEF HoldInv, AtMostOneEntry
  <2> QED BY <2>2, <2>3, <2>4, <2>5, <2>6, <2>7 DEF HoldInv
<1>8. job' = job \/ \A t \in Thread :
             \/ \E i \in S : f[i] = t /\ \E a \in Nat : job'[t] = Started(i, a)
             \/ job'[t] = job[t] /\ \A i \in S : f[i] # t
  <2>1. CASE job' = [t \in Thread |->
                     IF \E i \in S : f[i] = t
                       THEN LET i == CHOOSE k \in S : f[k] = t IN Started(i, box[i].attempt + 1)
                       ELSE job[t]]
    <3> SUFFICES ASSUME NEW t \in Thread
                 PROVE  \/ \E i \in S : f[i] = t /\ \E a \in Nat : job'[t] = Started(i, a)
                        \/ job'[t] = job[t] /\ \A i \in S : f[i] # t
      OBVIOUS
    <3>1. CASE \E i \in S : f[i] = t
      <4> DEFINE k == CHOOSE i \in S : f[i] = t
      <4>1. k \in S /\ f[k] = t  BY <3>1
      <4>2. job'[t] = Started(k, box[k].attempt + 1)  BY <2>1, <3>1
      <4> HIDE DEF k
      <4>3. box[k].attempt + 1 \in Nat  BY <1>4, <4>1 DEF TypeOK, Row
      <4> QED BY <4>1, <4>2, <4>3
    <3>2. CASE ~\E i \in S : f[i] = t  BY <2>1, <3>2
    <3> QED BY <3>1, <3>2
  <2>2. CASE job' = job  BY <2>2
  <2>3. DOMAIN f = S  OBVIOUS
  <2> QED BY <1>2, <2>1, <2>2, <2>3 DEF ClaimOutbox
<1> QED BY <1>6, <1>7, <1>8


LEMMA HoldStep ==
  ASSUME ~ClaimOutlivesTimeout, HoldInv, OwnerInv, TypeOK, TypeOK', [Next]_vars
  PROVE  HoldInv'
<1>0. box \in [Item -> Row] /\ disk.box \in [Item -> Row]  BY DEF TypeOK, Image
<1>a. ASSUME mode' = mode, job' = job PROVE ModeStep
  BY <1>a DEF ModeStep
<1>b. ASSUME box' = box PROVE QueuedFreely
  BY <1>b DEF QueuedFreely
<1>1. ASSUME NEW p \in Proc, NEW i \in Item, Enqueue(p, i) PROVE HoldInv'
  <2>1. QueuedFreely  BY <1>0, <1>1 DEF Enqueue, QueuedFreely, Row
  <2> QED BY <1>a, <1>1, <2>1, SameRows, KeepStep DEF Enqueue, history
<1>2. ASSUME NEW i \in Item, BecomeDue(i) PROVE HoldInv'
  <2>1. QueuedFreely  BY <1>0, <1>2 DEF BecomeDue, QueuedFreely, Row
  <2> QED BY <1>a, <1>2, <2>1, SameRows, KeepStep DEF BecomeDue, history
<1>3. ASSUME NEW p \in Proc, NEW n \in Name, Claim(p, n) PROVE HoldInv'
  BY <1>3, HoldClaim
<1>4. ASSUME NEW t \in Thread, ThreadStep(t) PROVE HoldInv'
  BY <1>4, HoldThreadStep
<1>5. ASSUME NEW p \in Proc, NEW i \in Item, DeliverFailureReceipt(p, i) PROVE HoldInv'
  BY <1>a, <1>b, <1>5, SameRows, KeepStep DEF DeliverFailureReceipt
<1>6. ASSUME NEW p \in Proc, Requeue(p) PROVE HoldInv'
  <2>1. PICK S \in SUBSET Stale : RequeueStaleOutbox(p, S)  BY <1>6 DEF Requeue
  <2>2. /\ box' = [i \in Item |-> IF i \in S
                THEN [box[i] EXCEPT !.state = "pending", !.owner = None, !.due = TRUE]
                ELSE box[i]]
        /\ job' = job /\ mode' = mode /\ entries' = entries
    BY <2>1 DEF RequeueStaleOutbox, history
  <2>3. \A i \in S : \A t \in Thread : ~Holds(t, i)  BY DEF Stale
  <2>4. QueuedFreely  BY <2>2, <2>3 DEF QueuedFreely, Holds, Busy
  <2> QED BY <1>a, <2>2, <2>4, SameRows, KeepStep
<1>7. CASE ReloadProviders
  BY <1>a, <1>b, <1>7, SameRows, KeepStep DEF ReloadProviders, store, history
<1>8. ASSUME NEW i \in Item, TrimMessage(i) PROVE HoldInv'
  BY <1>a, <1>b, <1>8, SameRows, KeepStep DEF TrimMessage, history
<1>9. ASSUME NEW p \in Proc, Stop(p) PROVE HoldInv'
  <2>1. ModeStep  BY <1>9, ThreadAssumption DEF Stop, ModeStep, TypeOK
  <2> QED BY <1>b, <1>9, <2>1, SameRows, KeepStep DEF Stop, store, history
<1>10. ASSUME NEW p \in Proc, Exit(p) PROVE HoldInv'
  <2>1. ModeStep  BY <1>10, ThreadAssumption DEF Exit, ModeStep, TypeOK, Busy
  <2> QED BY <1>b, <1>10, <2>1, SameRows, KeepStep DEF Exit, store, history
<1>11. ASSUME NEW p \in Proc, Crash(p) PROVE HoldInv'
  <2>1. \A t \in Thread : job'[t] = IF ProcOf[t] = p THEN FreeSlot ELSE job[t]
    BY <1>11 DEF Crash
  <2>2. ModeStep
    BY <1>11, <2>1, ThreadAssumption DEF Crash, ModeStep, TypeOK, Busy, FreeSlot
  <2>3. KeepRows
    BY <2>1 DEF KeepRows, KeepsRow, FreeSlot, ReceiptJob, HoldInv, ReceiptsTerminal, Busy, Fresh
  <2> QED BY <1>b, <1>11, <2>2, <2>3, KeepStep DEF Crash, store, history
<1>12. ASSUME NEW p \in Proc, Restart(p) PROVE HoldInv'
  <2>0. job' = job /\ entries' = entries /\ mode[p] = "down" /\ mode' = [mode EXCEPT ![p] = "up"]
    BY <1>12 DEF Restart, history
  <2>1. ModeStep  BY <2>0, ThreadAssumption DEF ModeStep, TypeOK
  <2>2. QueuedFreely
    <3>1. CASE Driver = "postgres"  BY <1>b, <1>12, <3>1 DEF Restart
    <3>2. CASE Driver = "file"
      <4>1. \A t \in Thread : ProcOf[t] = p  BY <3>2, ThreadAssumption, ConfigAssumption
      <4>2. \A t \in Thread : job'[t].pc = "idle"  BY <2>0, <4>1 DEF HoldInv, DownIsEmpty, Busy
      <4> QED BY <4>2 DEF QueuedFreely, Holds, Busy
    <3> QED BY <3>1, <3>2, ConfigAssumption
  <2> QED BY <2>0, <2>1, <2>2, SameRows, KeepStep
<1>13. CASE UNCHANGED vars
  BY <1>a, <1>b, <1>13, SameRows, KeepStep DEF vars
<1> QED BY <1>1, <1>2, <1>3, <1>4, <1>5, <1>6, <1>7, <1>8, <1>9, <1>10, <1>11, <1>12, <1>13
    DEF Next

LEMMA HoldInit == Init => HoldInv
<1> SUFFICES ASSUME Init PROVE HoldInv
  OBVIOUS
<1>1. \A t \in Thread : job[t].pc = "idle" /\ ~job[t].queued  BY DEF Init, FreeSlot
<1>2. \A i \in Item : entries[i] = 0  BY DEF Init
<1> QED BY <1>1, <1>2 DEF HoldInv, HoldersUnique, QueuedUnheld, FreshHolders, ReceiptsTerminal,
            ReceiptJob, DownIsEmpty, AtMostOneEntry, Holds, Busy, Fresh

\* When claim_timeout exceeds the time a goroutine can hold a claim, processOutbox
\* enters the provider at most once for a row, whatever crashes, failing store
\* calls and sweeps happen, with any number of processes that reuse worker ids.
THEOREM EnteredOnce == ~ClaimOutlivesTimeout => (Spec => []AtMostOneEntry)
<1> SUFFICES ASSUME ~ClaimOutlivesTimeout PROVE Spec => []AtMostOneEntry
  OBVIOUS
<1>1. Init => HoldInv  BY HoldInit
<1>2. HoldInv /\ (TypeOK /\ OwnerInv) /\ (TypeOK /\ OwnerInv)' /\ [Next]_vars => HoldInv'
  BY HoldStep
<1>3. HoldInv => AtMostOneEntry  BY DEF HoldInv
<1> QED BY <1>1, <1>2, <1>3, OwnerInvariant, PTL DEF Spec

-----------------------------------------------------------------------------
(***************************************************************************)
(* The outbox keeps the promise of Delivery, for both stores.              *)
(***************************************************************************)
\* What is durable is never ahead of the memory.
Behind ==
  \A i \in Item : /\ disk.box[i].state \in Outcome => box[i].state = disk.box[i].state
                  /\ disk.box[i].state # "absent" => box[i].state # "absent"

AtProvider(j) == j.pc \in {"call", "inflight"}

\* The row of a goroutine at the provider is "sending", durably.
Given ==
  \A t \in Thread : AtProvider(job[t]) =>
    /\ box[job[t].item].state = "sending" /\ disk.box[job[t].item].state = "sending"
    /\ job[t].pc = "inflight" => entries[job[t].item] = 1

\* Success is recorded for what the upstream has taken.
Whole ==
  /\ \A i \in Item : /\ taken[i] <= Segments[i]
                     /\ box[i].state = "done" => taken[i] = Segments[i]
  /\ \A t \in Thread : job[t].pc = "complete" => taken[job[t].item] = Segments[job[t].item]

PromiseInv == Behind /\ Given /\ Whole

-----------------------------------------------------------------------------
\* What steps do to the rows in memory: outcomes stay, rows stay, and only a
\* message that was taken becomes "done".
Forward ==
  \A i \in Item : /\ box[i].state \in Outcome => box'[i].state = box[i].state
                  /\ box[i].state # "absent" => box'[i].state # "absent"
                  /\ box'[i].state = "done" => box[i].state = "done" \/ taken[i] = Segments[i]

\* A goroutine gets to the provider by a durable "sending" only, and leaves it
\* for "complete" by the answer of the upstream only.
KeptJob(t, j) ==
  /\ AtProvider(j) =>
       \/ AtProvider(job[t]) /\ j.item = job[t].item /\ (j.pc = "inflight" => job[t].pc = "inflight")
       \/ j.pc = "call" /\ box'[j.item].state = "sending" /\ disk'.box[j.item].state = "sending"
  /\ j.pc = "complete" => job[t].pc = "complete" /\ j.item = job[t].item

KeptJobs == \A t \in Thread : KeptJob(t, job'[t])

\* Nobody else changes the row of a goroutine at the provider.
SendingKept ==
  \A t \in Thread : AtProvider(job'[t]) /\ box[job'[t].item].state = "sending"
                      => box'[job'[t].item].state = "sending"

PromiseStep == [Promise!Next]_(Promise!vars)

\* The durable lives go forward.
LEMMA LivesForward ==
  ASSUME TypeOK, TypeOK', Behind, Behind', DiskStep, Forward, ClosedStep, taken' = taken,
         Whole', entries' = entries
  PROVE  PromiseStep
<1> DEFINE life(i) == LifeOf(disk.box[i].state)
<1>1. \A i \in Item : disk.box[i].state \in RowState /\ disk'.box[i].state \in RowState
  BY DEF TypeOK, Image, Row
<1>2. ASSUME NEW i \in Item PROVE life(i)' \in Promise!After(life(i)) /\ life(i)' \in Promise!Life
  BY <1>1 DEF Behind, DiskStep, Forward, ClosedStep, LifeOf, Promise!After, Promise!Outcome,
     Promise!Life, Outcome, Committed, RowState
<1>3. ASSUME NEW i \in Item, life(i)' = "sent" PROVE taken[i] = Segments[i]
  BY <1>1, <1>3 DEF Behind, Whole, LifeOf, Outcome, RowState
<1>4. Promise!Record
  BY <1>2, <1>3, Zenon DEF Promise!Record
<1> QED BY <1>4 DEF PromiseStep, Promise!Next

\* Steps that neither enter the provider nor come back from it.
LEMMA RecordStep ==
  ASSUME PromiseInv, TypeOK, TypeOK', DiskStep, Forward, ClosedStep, KeptJobs, SendingKept,
         taken' = taken, entries' = entries
  PROVE  PromiseInv' /\ PromiseStep
<1>1. Behind'
  BY DEF PromiseInv, Behind, DiskStep, Forward
<1>2. \A t \in Thread : AtProvider(job[t]) \/ job[t].pc = "complete" => job[t].item \in Item
  BY DEF TypeOK, Job, AtProvider
<1>3. Given'
  <2> SUFFICES ASSUME NEW t \in Thread, AtProvider(job'[t])
               PROVE  /\ box'[job'[t].item].state = "sending"
                      /\ disk'.box[job'[t].item].state = "sending"
                      /\ job'[t].pc = "inflight" => entries'[job'[t].item] = 1
    BY DEF Given, AtProvider
  <2>1. CASE AtProvider(job[t]) /\ job'[t].item = job[t].item
             /\ (job'[t].pc = "inflight" => job[t].pc = "inflight")
    BY <1>2, <2>1 DEF PromiseInv, Given, SendingKept, DiskStep
  <2>2. CASE job'[t].pc = "call" /\ box'[job'[t].item].state = "sending"
             /\ disk'.box[job'[t].item].state = "sending"
    BY <2>2
  <2> QED BY <2>1, <2>2 DEF KeptJobs, KeptJob
<1>4. Whole'
  BY <1>2 DEF PromiseInv, Whole, Forward, KeptJobs, KeptJob
<1> QED BY <1>1, <1>3, <1>4, LivesForward DEF PromiseInv

LEMMA SameKept ==
  ASSUME job' = job
  PROVE  KeptJobs
BY DEF KeptJobs, KeptJob

LEMMA OneKept ==
  ASSUME TypeOK, NEW t \in Thread, NEW j, KeptJob(t, j), job' = [job EXCEPT ![t] = j]
  PROVE  KeptJobs
<1>1. job'[t] = j /\ \A u \in Thread : u # t => job'[u] = job[u]
  BY DEF TypeOK
<1> QED BY <1>1 DEF KeptJobs, KeptJob

\* Rows that keep their state.
LEMMA SameBox ==
  ASSUME box' = box
  PROVE  Forward /\ SendingKept
BY DEF Forward, SendingKept

-----------------------------------------------------------------------------
\* A goroutine changes the state of its own row; nobody else is at the provider
\* with it.
LEMMA OwnBox ==
  ASSUME HoldInv, TypeOK, KeptJobs, NEW t \in Thread, Busy(t), NEW r,
         box' = [box EXCEPT ![job[t].item] = r],
         box[job[t].item].state \notin Outcome \/ r.state = box[job[t].item].state,
         r.state # "absent",
         r.state = "done" => taken[job[t].item] = Segments[job[t].item],
         AtProvider(job'[t]) => r.state = "sending",
         \A u \in Thread : u # t => job'[u] = job[u]
  PROVE  Forward /\ SendingKept
<1> DEFINE i == job[t].item
<1>1. i \in Item /\ box \in [Item -> Row]  BY DEF TypeOK, Job, Busy
<1>2. box'[i] = r /\ \A k \in Item : k # i => box'[k] = box[k]  BY <1>1
<1>3. Forward  BY <1>1, <1>2 DEF Forward
<1>4. ASSUME NEW u \in Thread, AtProvider(job'[u]), box[job'[u].item].state = "sending"
      PROVE  box'[job'[u].item].state = "sending"
  <2>1. CASE u = t
    <3>1. job'[t].item = i \/ box'[job'[t].item].state = "sending"
      BY <1>4, <2>1 DEF KeptJobs, KeptJob
    <3> QED BY <1>2, <1>4, <2>1, <3>1
  <2>2. CASE u # t
    <3>1. job[u].item # i /\ job[u].item \in Item
      BY <1>4, <2>2 DEF HoldInv, HoldersUnique, Busy, AtProvider, TypeOK, Job
    <3> QED BY <1>2, <1>4, <2>2, <3>1
  <2> QED BY <2>1, <2>2
<1> QED BY <1>3, <1>4 DEF SendingKept

\* The goroutine states that are not at the provider and not before "complete".
LEMMA KeptUpdates ==
  ASSUME TypeOK, NEW t \in Thread, Busy(t)
  PROVE  /\ KeptJob(t, FreeSlot)
         /\ KeptJob(t, MarkFailed(t))
         /\ \A c \in Cause : KeptJob(t, BeginFail(job[t], c))
         /\ \A s \in {"mark", "recheck", "failRow", "failBox", "undo"} :
              KeptJob(t, [job[t] EXCEPT !.pc = s])
         /\ KeptJob(t, [job[t] EXCEPT !.pc = "failBox", !.queued = TRUE])
         /\ KeptJob(t, [job[t] EXCEPT !.pc = "uncertain", !.tries = 0])
         /\ KeptJob(t, [job[t] EXCEPT !.tries = @ + 1])
<1>1. job[t] \in Job  BY DEF TypeOK
<1> USE <1>1 DEF KeptJob, AtProvider, Job
<1>2. KeptJob(t, FreeSlot)  BY DEF FreeSlot
<1>3. KeptJob(t, MarkFailed(t))  BY <1>2 DEF MarkFailed
<1>4. \A c \in Cause : KeptJob(t, BeginFail(job[t], c))  BY DEF BeginFail
<1>5. \A s \in {"mark", "recheck", "failRow", "failBox", "undo"} :
        KeptJob(t, [job[t] EXCEPT !.pc = s])
  OBVIOUS
<1>6. KeptJob(t, [job[t] EXCEPT !.pc = "failBox", !.queued = TRUE])  OBVIOUS
<1>7. KeptJob(t, [job[t] EXCEPT !.pc = "uncertain", !.tries = 0])  OBVIOUS
<1>8. KeptJob(t, [job[t] EXCEPT !.tries = @ + 1])  OBVIOUS
<1> QED BY <1>2, <1>3, <1>4, <1>5, <1>6, <1>7, <1>8

\* The steps of a goroutine.
LEMMA PromiseThreadStep ==
  ASSUME PromiseInv, HoldInv, OwnerInv, TypeOK, TypeOK', ClosedStep,
         NEW t \in Thread, ThreadStep(t)
  PROVE  PromiseInv' /\ PromiseStep
<1> DEFINE i == job[t].item
<1>1. Busy(t) /\ i \in Item
  BY DEF TypeOK, Job, Busy, ThreadStep, AbandonClaim, LookupProvider, MarkOutboxSending,
     RecheckSending, EnterProvider, ProviderReturns, CompleteOutboxSend, MarkOutboxUncertain,
     FailMessage, SaveFailureReceipt, FailOutbox, DeleteFailureReceipt
<1>2. box \in [Item -> Row] /\ box[i] \in Row /\ job \in [Thread -> Job] /\ job[t] \in Job
  BY <1>1 DEF TypeOK
<1>3. ASSUME NEW j, KeptJob(t, j), job' = [job EXCEPT ![t] = j], box' = box, DiskStep,
             taken' = taken, entries' = entries
      PROVE  PromiseInv' /\ PromiseStep
  BY <1>3, OneKept, SameBox, RecordStep, Zenon
<1>4. ASSUME NEW j, KeptJob(t, j), job' = [job EXCEPT ![t] = j], DiskStep,
             taken' = taken, entries' = entries,
             NEW r, box' = [box EXCEPT ![i] = r],
             box[i].state \notin Outcome \/ r.state = box[i].state, r.state # "absent",
             r.state = "done" => taken[i] = Segments[i],
             AtProvider(j) => r.state = "sending"
      PROVE  PromiseInv' /\ PromiseStep
  <2>1. KeptJobs  BY <1>4, OneKept, Zenon
  <2>2. job'[t] = j /\ \A u \in Thread : u # t => job'[u] = job[u]  BY <1>2, <1>4
  <2>3. Forward /\ SendingKept  BY <1>1, <1>4, <2>1, <2>2, OwnBox, Zenon
  <2> QED BY <1>4, <2>1, <2>3, RecordStep
<1> HIDE DEF i
<1>a. CASE AbandonClaim(t)
  BY <1>a, <1>1, <1>3, KeptUpdates, StoreIdle, Zenon DEF AbandonClaim, store, history
<1>b. CASE LookupProvider(t)
  <2>1. job' = [job EXCEPT ![t] = [job[t] EXCEPT !.pc = "mark"]]
        \/ job' = [job EXCEPT ![t] = BeginFail(job[t], "missing")]
    BY <1>b, Zenon DEF LookupProvider
  <2>2. "missing" \in Cause  BY DEF Cause
  <2>3. box' = box /\ disk' = disk /\ entries' = entries /\ taken' = taken
    BY <1>b DEF LookupProvider, store, history
  <2> QED BY <1>1, <1>3, <2>1, <2>2, <2>3, KeptUpdates, StoreIdle, Zenon
<1>c. CASE MarkOutboxSending(t)
  <2>0. entries' = entries /\ taken' = taken  BY <1>c DEF MarkOutboxSending, history
  <2>1. CASE /\ OwnedIn(i, NameOf[t], Markable) /\ box' = [box EXCEPT ![i].state = "sending"]
             /\ \/ job' = [job EXCEPT ![t].pc = "call"] /\ Saved
                \/ job' = [job EXCEPT ![t] = MarkFailed(t)] /\ Lost
    <3> DEFINE r == [box[i] EXCEPT !.state = "sending"]
    <3>1. r.state = "sending" /\ box' = [box EXCEPT ![i] = r] /\ box'[i] = r
      BY <1>1, <1>2, <2>1 DEF Row
    <3>2. box[i].state \notin Outcome
      BY <2>1 DEF OwnedIn, Markable, Outcome
    <3> HIDE DEF r
    <3>3. CASE job' = [job EXCEPT ![t].pc = "call"] /\ Saved
      <4> DEFINE j == [job[t] EXCEPT !.pc = "call"]
      <4>1. disk'.box = box'  BY <3>3 DEF Saved, Snapshot
      <4>2. j.pc = "call" /\ j.item = i /\ job' = [job EXCEPT ![t] = j]  BY <1>2, <3>3 DEF Job, i
      <4> HIDE DEF j
      <4>3. KeptJob(t, j)  BY <3>1, <4>1, <4>2 DEF KeptJob
      <4>4. DiskStep  BY <3>3, StoreEnd
      <4> QED BY <1>4, <2>0, <3>1, <3>2, <4>2, <4>3, <4>4, Zenon
    <3>4. CASE job' = [job EXCEPT ![t] = MarkFailed(t)] /\ Lost
      <4>1. KeptJob(t, MarkFailed(t))  BY <1>1, KeptUpdates, Zenon
      <4>2. DiskStep  BY <3>4, StoreEnd
      <4> QED BY <1>4, <2>0, <3>1, <3>2, <3>4, <4>1, <4>2, Zenon
    <3> QED BY <2>1, <3>3, <3>4
  <2>2. CASE /\ box' = box /\ disk' = disk
             /\ \/ job' = [job EXCEPT ![t] = [job[t] EXCEPT !.pc = "recheck"]]
                \/ job' = [job EXCEPT ![t] = MarkFailed(t)]
    BY <1>1, <1>3, <2>0, <2>2, KeptUpdates, StoreIdle, Zenon
  <2>3. ASSUME CallFails(t) PROVE box' = box /\ disk' = disk  BY <2>3, CallEnd
  <2> QED BY <1>c, <1>2, <2>1, <2>2, <2>3 DEF MarkOutboxSending, store, i
<1>d. CASE RecheckSending(t)
  <2>0. box' = box /\ disk' = disk /\ entries' = entries /\ taken' = taken
    BY <1>d, CallEnd DEF RecheckSending, store, history
  <2>1. CASE job' = [job EXCEPT ![t] = MarkFailed(t)]
    BY <1>1, <1>3, <2>0, <2>1, KeptUpdates, StoreIdle, Zenon
  <2>2. CASE OwnedIn(i, NameOf[t], {"sending"}) /\ job' = [job EXCEPT ![t] = [job[t] EXCEPT !.pc = "call"]]
    <3> DEFINE j == [job[t] EXCEPT !.pc = "call"]
    <3>1. j.pc = "call" /\ j.item = i  BY <1>2 DEF Job, i
    <3>2. box[i].state = "sending" /\ disk.box = box
      BY <1>d, <2>2 DEF OwnedIn, RecheckSending, OwnerInv, RecheckIsPostgres, DiskFollows
    <3> HIDE DEF j
    <3>3. KeptJob(t, j)  BY <2>0, <3>1, <3>2 DEF KeptJob
    <3> QED BY <1>3, <2>0, <2>2, <3>3, StoreIdle, Zenon DEF j
  <2> QED BY <1>d, <1>2, <2>1, <2>2 DEF RecheckSending, i
<1>e. CASE EnterProvider(t)
  <2>1. /\ job' = [job EXCEPT ![t] = [job[t] EXCEPT !.pc = "inflight"]]
        /\ job[t].pc = "call" /\ box' = box /\ disk' = disk /\ taken' = taken
    BY <1>e, <1>2 DEF EnterProvider, store
  <2>2. /\ job'[t].pc = "inflight" /\ job'[t].item = i
        /\ \A u \in Thread : u # t => job'[u] = job[u]
    BY <1>2, <2>1 DEF Job, i
  <2>3. entries[i] = 0  BY <2>1 DEF HoldInv, FreshHolders, Fresh, i
  <2>4. entries' = [entries EXCEPT ![i] = 1] /\ entries \in [Item -> Nat]
    BY <1>e, <2>3 DEF EnterProvider, TypeOK, i
  <2>5. box[i].state = "sending" /\ disk.box[i].state = "sending"
    BY <2>1 DEF PromiseInv, Given, AtProvider, i
  <2>6. Promise!Call(i)
    BY <1>1, <2>1, <2>3, <2>4, <2>5 DEF Promise!Call, LifeOf
  <2>7. Given'
    <3> SUFFICES ASSUME NEW u \in Thread, AtProvider(job'[u])
                 PROVE  /\ box'[job'[u].item].state = "sending"
                        /\ disk'.box[job'[u].item].state = "sending"
                        /\ job'[u].pc = "inflight" => entries'[job'[u].item] = 1
      BY DEF Given, AtProvider
    <3>1. CASE u = t  BY <1>1, <2>1, <2>2, <2>4, <2>5, <3>1
    <3>2. CASE u # t
      <4>1. job'[u] = job[u] /\ job[u].item # i /\ job[u].item \in Item
        BY <1>1, <2>2, <3>2 DEF HoldInv, HoldersUnique, Busy, AtProvider, TypeOK, Job, i
      <4>2. entries'[job[u].item] = entries[job[u].item]  BY <2>4, <4>1
      <4> QED BY <2>1, <4>1, <4>2, Zenon DEF PromiseInv, Given
    <3> QED BY <3>1, <3>2
  <2>8. Behind' /\ Whole'
    <3>1. Behind'  BY <2>1 DEF PromiseInv, Behind
    <3>2. Whole'  BY <2>1, <2>2 DEF PromiseInv, Whole
    <3> QED BY <3>1, <3>2
  <2> QED BY <1>1, <2>6, <2>7, <2>8 DEF PromiseInv, PromiseStep, Promise!Next
<1>f. CASE ProviderReturns(t)
  <2>1. /\ job[t].pc = "inflight" /\ box' = box /\ disk' = disk /\ entries' = entries
        /\ \A u \in Thread : u # t => job'[u] = job[u]
    BY <1>f, <1>2 DEF ProviderReturns, store
  <2>2. ~AtProvider(job'[t])
    <3>1. \A c \in Cause : ~AtProvider(BeginFail(job[t], c))
      BY <1>2 DEF BeginFail, AtProvider, Job
    <3> QED BY <1>f, <1>2, <3>1 DEF ProviderReturns, AtProvider, Job, Cause
  <2>3. PICK k \in 0 .. Segments[i] :
          /\ taken' = [taken EXCEPT ![i] = IF @ < k THEN k ELSE @]
          /\ job'[t].pc = "complete" => k = Segments[i]
    <3>1. \A c \in Cause : BeginFail(job[t], c).pc # "complete"
      BY <1>2 DEF BeginFail, Job
    <3>2. Segments[i] \in Nat \ {0}  BY <1>1, ThreadAssumption
    <3>3. CASE Took(i, Segments[i])
      <4>1. Segments[i] \in 0 .. Segments[i]  BY <3>2
      <4> QED BY <3>3, <4>1, Zenon DEF Took
    <3>4. CASE job'[t].pc # "complete" /\ \E k \in 0 .. Segments[i] : Took(i, k)
      BY <3>4, Zenon DEF Took
    <3>5. job'[t].pc # "complete" \/ Took(i, Segments[i])
      BY <1>f, <1>2, <3>1 DEF ProviderReturns, Job, Cause, i
    <3>6. \E k \in 0 .. Segments[i] : Took(i, k)
      BY <1>f, <3>2 DEF ProviderReturns, i
    <3> QED BY <3>3, <3>4, <3>5, <3>6
  <2>4. /\ taken \in [Item -> Nat] /\ Segments[i] \in Nat /\ taken[i] <= Segments[i]
        /\ \A m \in Item : m # i => taken'[m] = taken[m]
        /\ taken'[i] = IF taken[i] < k THEN k ELSE taken[i]
    BY <1>1, <2>3, ThreadAssumption, Zenon DEF TypeOK, PromiseInv, Whole
  <2>5. /\ taken'[i] <= Segments[i]
        /\ taken[i] = Segments[i] => taken'[i] = Segments[i]
        /\ job'[t].pc = "complete" => taken'[i] = Segments[i]
    BY <1>1, <2>3, <2>4
  <2>6. job'[t].pc = "complete" => job'[t].item = i
    <3>1. \A c \in Cause : BeginFail(job[t], c).pc # "complete"
      BY <1>2 DEF BeginFail, Job
    <3> QED BY <1>f, <1>2, <3>1 DEF ProviderReturns, Job, Cause, i
  <2>7. Whole'
    <3>1. ASSUME NEW m \in Item
          PROVE  taken'[m] <= Segments[m] /\ (box'[m].state = "done" => taken'[m] = Segments[m])
      BY <2>1, <2>4, <2>5 DEF PromiseInv, Whole
    <3>2. ASSUME NEW u \in Thread, job'[u].pc = "complete"
          PROVE  taken'[job'[u].item] = Segments[job'[u].item]
      <4>1. CASE u = t  BY <2>5, <2>6, <3>2, <4>1
      <4>2. CASE u # t
        <5>1. job[u].item \in Item /\ taken[job[u].item] = Segments[job[u].item]
          BY <2>1, <3>2, <4>2 DEF TypeOK, Job, PromiseInv, Whole
        <5> QED BY <2>1, <2>4, <2>5, <4>2, <5>1
      <4> QED BY <4>1, <4>2
    <3> QED BY <3>1, <3>2 DEF Whole
  <2>8. Behind' /\ Given'
    <3>1. Behind'  BY <2>1 DEF PromiseInv, Behind
    <3>2. Given'  BY <2>1, <2>2 DEF PromiseInv, Given
    <3> QED BY <3>1, <3>2
  <2>9. PromiseStep
    <3> DEFINE got == [m \in Item |-> taken[m] = Segments[m]]
    <3>1. \A m \in Item : m # i => (taken'[m] = Segments[m]) = (taken[m] = Segments[m])
      BY <2>4
    <3>2. CASE (taken'[i] = Segments[i]) = (taken[i] = Segments[i])
      <4>1. got' = got  BY <2>4, <3>1, <3>2
      <4> QED BY <2>1, <4>1 DEF PromiseStep, Promise!vars
    <3>3. CASE taken'[i] = Segments[i] /\ taken[i] # Segments[i]
      <4>0. PICK m \in Item : m = i  BY <1>1
      <4>1. got' = [got EXCEPT ![m] = TRUE]  BY <3>1, <3>3, <4>0, Zenon
      <4>2. disk.box[m].state = "sending" /\ entries[m] = 1
        BY <2>1, <4>0 DEF PromiseInv, Given, AtProvider, i
      <4>3. Promise!Take(m)  BY <2>1, <4>1, <4>2 DEF Promise!Take, LifeOf
      <4> HIDE DEF got
      <4> QED BY <4>3 DEF PromiseStep, Promise!Next
    <3>4. taken[i] = Segments[i] => taken'[i] = Segments[i]  BY <2>5
    <3> HIDE DEF got
    <3>5. CASE taken[i] = Segments[i]  BY <3>2, <3>4, <3>5
    <3>6. CASE taken'[i] # Segments[i] /\ taken[i] # Segments[i]  BY <3>2, <3>6
    <3> QED BY <3>3, <3>5, <3>6
  <2> QED BY <2>7, <2>8, <2>9 DEF PromiseInv
<1>g. CASE CompleteOutboxSend(t)
  <2>0. entries' = entries /\ taken' = taken /\ taken[i] = Segments[i]
    BY <1>g DEF CompleteOutboxSend, history, PromiseInv, Whole, i
  <2>1. \E j : KeptJob(t, j) /\ job' = [job EXCEPT ![t] = j] /\ ~AtProvider(j)
    <3>1. KeptJob(t, FreeSlot) /\ ~AtProvider(FreeSlot)  BY <1>1, KeptUpdates, Zenon DEF FreeSlot, AtProvider
    <3>2. \A j \in CompleteFailed(t) : KeptJob(t, j) /\ ~AtProvider(j)
      BY <1>g, <1>1, <1>2, KeptUpdates, Zenon DEF CompleteOutboxSend, CompleteFailed, AtProvider, Job
    <3> QED BY <1>g, <3>1, <3>2 DEF CompleteOutboxSend
  <2>2. PICK j : KeptJob(t, j) /\ job' = [job EXCEPT ![t] = j] /\ ~AtProvider(j)  BY <2>1, Zenon
  <2>3. CASE box' = box /\ DiskStep  BY <1>3, <2>0, <2>2, <2>3, Zenon
  <2>4. CASE OwnedIn(i, NameOf[t], {"sending"}) /\ box' = [box EXCEPT ![i].state = "done"] /\ DiskStep
    <3> DEFINE r == [box[i] EXCEPT !.state = "done"]
    <3>1. r.state = "done" /\ box' = [box EXCEPT ![i] = r]  BY <1>2, <2>4 DEF Row
    <3>2. box[i].state \notin Outcome  BY <2>4 DEF OwnedIn, Outcome
    <3> HIDE DEF r
    <3> QED BY <1>4, <2>0, <2>2, <2>4, <3>1, <3>2, Zenon
  <2> QED BY <1>g, <2>3, <2>4, StoreEnd, StoreIdle, CallEnd DEF CompleteOutboxSend, store, i
<1>h. CASE MarkOutboxUncertain(t)
  <2>0. entries' = entries /\ taken' = taken  BY <1>h DEF MarkOutboxUncertain, history
  <2>1. \E j : KeptJob(t, j) /\ job' = [job EXCEPT ![t] = j] /\ ~AtProvider(j)
    <3>1. KeptJob(t, FreeSlot) /\ ~AtProvider(FreeSlot)  BY <1>1, KeptUpdates, Zenon DEF FreeSlot, AtProvider
    <3>2. \A j \in UncertainFailed(t) : KeptJob(t, j) /\ ~AtProvider(j)
      BY <1>h, <1>1, <1>2, <3>1, KeptUpdates, Zenon DEF MarkOutboxUncertain, UncertainFailed, AtProvider, Job
    <3> QED BY <1>h, <3>1, <3>2 DEF MarkOutboxUncertain
  <2>2. PICK j : KeptJob(t, j) /\ job' = [job EXCEPT ![t] = j] /\ ~AtProvider(j)  BY <2>1, Zenon
  <2>3. CASE box' = box /\ DiskStep  BY <1>3, <2>0, <2>2, <2>3, Zenon
  <2>4. CASE /\ OwnedIn(i, NameOf[t], {"sending", "uncertain"})
             /\ box' = [box EXCEPT ![i].state = "uncertain"] /\ DiskStep
    <3> DEFINE r == [box[i] EXCEPT !.state = "uncertain"]
    <3>1. r.state = "uncertain" /\ box' = [box EXCEPT ![i] = r]  BY <1>2, <2>4 DEF Row
    <3>2. box[i].state \notin Outcome \/ r.state = box[i].state  BY <2>4, <3>1 DEF OwnedIn, Outcome
    <3> HIDE DEF r
    <3> QED BY <1>4, <2>0, <2>2, <2>4, <3>1, <3>2, Zenon
  <2> QED BY <1>h, <2>3, <2>4, StoreEnd, StoreIdle, CallEnd DEF MarkOutboxUncertain, store, i
<1>i. CASE FailMessage(t)
  <2>1. \E s \in {"failRow", "failBox"} : job' = [job EXCEPT ![t] = [job[t] EXCEPT !.pc = s]]
    BY <1>i, <1>2, Zenon DEF FailMessage
  <2>2. box' = box /\ DiskStep
    BY <1>i, StoreEnd, StoreIdle, CallEnd DEF FailMessage, store
  <2>3. entries' = entries /\ taken' = taken  BY <1>i DEF FailMessage, history
  <2> QED BY <1>1, <1>3, <2>1, <2>2, <2>3, KeptUpdates, Zenon
<1>j. CASE SaveFailureReceipt(t)
  <2>1. \/ job' = [job EXCEPT ![t] = [job[t] EXCEPT !.pc = "failBox"]]
        \/ job' = [job EXCEPT ![t] = [job[t] EXCEPT !.pc = "failBox", !.queued = TRUE]]
    BY <1>j, <1>2 DEF SaveFailureReceipt
  <2>2. box' = box /\ DiskStep
    BY <1>j, StoreEnd, StoreIdle, CallEnd DEF SaveFailureReceipt
  <2>3. entries' = entries /\ taken' = taken  BY <1>j DEF SaveFailureReceipt, history
  <2> QED BY <1>1, <1>3, <2>1, <2>2, <2>3, KeptUpdates, Zenon
<1>k. CASE FailOutbox(t)
  <2>0. entries' = entries /\ taken' = taken  BY <1>k DEF FailOutbox, history
  <2>1. \E j : KeptJob(t, j) /\ job' = [job EXCEPT ![t] = j] /\ ~AtProvider(j)
    <3>1. \/ job' = [job EXCEPT ![t] = FreeSlot]
          \/ job' = [job EXCEPT ![t] = [job[t] EXCEPT !.pc = "undo"]]
      BY <1>k, <1>2 DEF FailOutbox
    <3>2. KeptJob(t, FreeSlot) /\ ~AtProvider(FreeSlot)  BY <1>1, KeptUpdates, Zenon DEF FreeSlot, AtProvider
    <3>3. KeptJob(t, [job[t] EXCEPT !.pc = "undo"]) /\ ~AtProvider([job[t] EXCEPT !.pc = "undo"])
      BY <1>1, <1>2, KeptUpdates, Zenon DEF AtProvider, Job
    <3> QED BY <3>1, <3>2, <3>3
  <2>2. PICK j : KeptJob(t, j) /\ job' = [job EXCEPT ![t] = j] /\ ~AtProvider(j)  BY <2>1, Zenon
  <2>3. CASE box' = box /\ DiskStep  BY <1>3, <2>0, <2>2, <2>3, Zenon
  <2>4. CASE /\ box[i].state \in FailableFrom(i, job[t])
             /\ box' = [box EXCEPT ![i] = FailRow(i, job[t])] /\ DiskStep
    <3>1. FailRow(i, job[t]).state \in {"failed", "pending"}  BY <1>2 DEF FailRow, Row
    <3>2. box[i].state \notin Outcome  BY <2>4 DEF FailableFrom, Outcome
    <3> QED BY <1>4, <2>0, <2>2, <2>4, <3>1, <3>2, Zenon
  <2> QED BY <1>k, <2>3, <2>4, StoreEnd, StoreIdle, CallEnd DEF FailOutbox, store, i
<1>l. CASE DeleteFailureReceipt(t)
  <2>1. job' = [job EXCEPT ![t] = FreeSlot] /\ entries' = entries /\ taken' = taken
    BY <1>l DEF DeleteFailureReceipt, history
  <2>2. box' = box /\ DiskStep
    BY <1>l, StoreEnd, StoreIdle, CallEnd DEF DeleteFailureReceipt
  <2> QED BY <1>1, <1>3, <2>1, <2>2, KeptUpdates, Zenon
<1> QED BY <1>a, <1>b, <1>c, <1>d, <1>e, <1>f, <1>g, <1>h, <1>i, <1>j, <1>k, <1>l DEF ThreadStep

\* Every step.
LEMMA PromiseEveryStep ==
  ASSUME PromiseInv, HoldInv, OwnerInv, TypeOK, TypeOK', [Next]_vars
  PROVE  PromiseInv' /\ PromiseStep
<1>0. box \in [Item -> Row] /\ disk.box \in [Item -> Row] /\ ClosedStep
  BY OwnerStep DEF TypeOK, Image
<1>a. ASSUME job' = job, Forward, DiskStep, taken' = taken, entries' = entries,
             \A i \in Item : box[i].state = "sending" => box'[i].state = "sending"
      PROVE  PromiseInv' /\ PromiseStep
  <2>1. \A t \in Thread : AtProvider(job[t]) => job[t].item \in Item
    BY DEF TypeOK, Job, AtProvider
  <2>2. SendingKept  BY <1>a, <2>1 DEF SendingKept
  <2> QED BY <1>0, <1>a, <2>2, SameKept, RecordStep
<1>b. ASSUME box' = box, disk' = disk, KeptJobs, taken' = taken, entries' = entries
      PROVE  PromiseInv' /\ PromiseStep
  BY <1>0, <1>b, SameBox, StoreIdle, RecordStep
<1>1. ASSUME NEW p \in Proc, NEW i \in Item, Enqueue(p, i) PROVE PromiseInv' /\ PromiseStep
  <2>1. Forward /\ \A k \in Item : box[k].state = "sending" => box'[k].state = "sending"
    BY <1>0, <1>1 DEF Enqueue, Forward, Outcome, Row
  <2> QED BY <1>a, <1>1, <2>1, StoreEnd, Zenon DEF Enqueue, history
<1>2. ASSUME NEW i \in Item, BecomeDue(i) PROVE PromiseInv' /\ PromiseStep
  <2>1. Forward /\ \A k \in Item : box[k].state = "sending" => box'[k].state = "sending"
    BY <1>0, <1>2 DEF BecomeDue, Forward, Outcome, Row
  <2>2. disk'.box = [disk.box EXCEPT ![i].due = TRUE]
    BY <1>2 DEF BecomeDue, TypeOK, Image
  <2>3. DiskStep
    <3>1. CASE Driver = "postgres"
      BY <1>2, <2>2, <3>1, Zenon DEF BecomeDue, OwnerInv, DiskFollows, DiskStep
    <3>2. CASE Driver = "file"
      BY <1>0, <2>2, <3>2 DEF DiskStep, Row
    <3> QED BY <3>1, <3>2, ConfigAssumption
  <2> QED BY <1>a, <1>2, <2>1, <2>3 DEF BecomeDue, history
<1>3. ASSUME NEW p \in Proc, NEW n \in Name, Claim(p, n) PROVE PromiseInv' /\ PromiseStep
  <2>0. PICK S \in SUBSET Claimable : \E f \in [S -> FreeSlots(p, n)] : ClaimOutbox(p, n, f)
    BY <1>3 DEF Claim
  <2>1. PICK f \in [S -> FreeSlots(p, n)] : ClaimOutbox(p, n, f)
    BY <2>0
  <2>2. DOMAIN f = S /\ \A i \in S : i \in Item /\ box[i].state = "pending"
    BY <2>1 DEF Claimable
  <2>3. /\ box' = [i \in Item |-> IF i \in S THEN ClaimRow(box[i], n) ELSE box[i]]
        /\ (Saved \/ Lost) /\ entries' = entries /\ taken' = taken
    BY <2>1, <2>2 DEF ClaimOutbox, history
  <2>4. \A i \in Item : ClaimRow(box[i], n).state = "claimed"  BY <1>0 DEF ClaimRow, Row
  <2>5. Forward /\ \A k \in Item : box[k].state = "sending" => box'[k] = box[k]
    BY <2>2, <2>3, <2>4 DEF Forward, Outcome
  <2>6. ASSUME NEW t \in Thread PROVE job'[t] = job[t] \/ job'[t].pc = "lookup"
    <3>0. \A i, a : Started(i, a).pc = "lookup"  BY DEF Started
    <3>1. CASE UNCHANGED job  BY <3>1
    <3>2. CASE job' = [u \in Thread |->
                   IF \E i \in DOMAIN f : f[i] = u
                     THEN LET i == CHOOSE k \in DOMAIN f : f[k] = u IN Started(i, box[i].attempt + 1)
                     ELSE job[u]]
      <4> DEFINE k == CHOOSE k \in DOMAIN f : f[k] = t
      <4>1. job'[t] = IF \E i \in DOMAIN f : f[i] = t THEN Started(k, box[k].attempt + 1) ELSE job[t]
        BY <3>2
      <4> HIDE DEF k
      <4> QED BY <3>0, <4>1
    <3> QED BY <2>1, <3>1, <3>2, Zenon DEF ClaimOutbox
  <2>7. KeptJobs  BY <2>6 DEF KeptJobs, KeptJob, AtProvider
  <2>8. \A t \in Thread : AtProvider(job'[t]) => job'[t].item \in Item
    BY <2>6 DEF TypeOK, Job, AtProvider
  <2>9. SendingKept  BY <2>5, <2>8 DEF SendingKept
  <2> QED BY <1>0, <2>3, <2>5, <2>7, <2>9, StoreEnd, RecordStep
<1>4. ASSUME NEW t \in Thread, ThreadStep(t) PROVE PromiseInv' /\ PromiseStep
  BY <1>0, <1>4, PromiseThreadStep
<1>5. ASSUME NEW p \in Proc, NEW i \in Item, DeliverFailureReceipt(p, i)
      PROVE  PromiseInv' /\ PromiseStep
  BY <1>a, <1>5, SameBox, StoreEnd DEF DeliverFailureReceipt
<1>6. ASSUME NEW p \in Proc, Requeue(p) PROVE PromiseInv' /\ PromiseStep
  <2>1. PICK S \in SUBSET Stale : RequeueStaleOutbox(p, S)  BY <1>6 DEF Requeue
  <2>2. \A i \in S : i \in Item /\ box[i].state = "claimed"  BY DEF Stale
  <2>3. Forward /\ \A k \in Item : box[k].state = "sending" => box'[k].state = "sending"
    BY <1>0, <2>1, <2>2, Zenon DEF RequeueStaleOutbox, Forward, Outcome, Row
  <2> QED BY <1>a, <2>1, <2>3, StoreEnd, Zenon DEF RequeueStaleOutbox, history
<1>7. CASE ReloadProviders
  BY <1>b, <1>7, SameKept DEF ReloadProviders, store, history
<1>8. ASSUME NEW i \in Item, TrimMessage(i) PROVE PromiseInv' /\ PromiseStep
  BY <1>a, <1>8, SameBox, StoreEnd DEF TrimMessage, history
<1>9. ASSUME NEW p \in Proc, Stop(p) PROVE PromiseInv' /\ PromiseStep
  BY <1>b, <1>9, SameKept DEF Stop, store, history
<1>10. ASSUME NEW p \in Proc, Exit(p) PROVE PromiseInv' /\ PromiseStep
  BY <1>b, <1>10, SameKept DEF Exit, store, history
<1>11. ASSUME NEW p \in Proc, Crash(p) PROVE PromiseInv' /\ PromiseStep
  <2>1. KeptJobs  BY <1>11 DEF Crash, FreeSlot, KeptJobs, KeptJob, AtProvider
  <2> QED BY <1>b, <1>11, <2>1 DEF Crash, store, history
<1>12. ASSUME NEW p \in Proc, Restart(p) PROVE PromiseInv' /\ PromiseStep
  <2>0. job' = job /\ entries' = entries /\ taken' = taken /\ disk' = disk /\ mode[p] = "down"
    BY <1>12 DEF Restart, history
  <2>1. CASE Driver = "postgres"
    <3>1. box' = box  BY <1>12, <2>1 DEF Restart
    <3> QED BY <1>b, <2>0, <3>1, SameKept
  <2>2. CASE Driver = "file"
    <3>1. \A i \in Item : box'[i] = Loaded(disk.box[i])
      BY <1>12, <2>2 DEF Restart
    <3>2. \A i \in Item : \/ box'[i] = disk.box[i]
                          \/ disk.box[i].state = "claimed" /\ box'[i].state = "pending"
      BY <1>0, <3>1, Zenon DEF Loaded, Row
    <3>3. \A t \in Thread : job'[t].pc = "idle"
      <4>1. \A t \in Thread : ProcOf[t] = p  BY <2>2, ThreadAssumption, ConfigAssumption
      <4> QED BY <2>0, <4>1 DEF HoldInv, DownIsEmpty, Busy
    <3>4. Behind'  BY <2>0, <3>2 DEF Behind, Outcome
    <3>5. Given'  BY <3>3 DEF Given, AtProvider
    <3>6. Whole'
      BY <2>0, <3>2, <3>3 DEF Whole, PromiseInv, Behind, Outcome
    <3>7. PromiseStep
      <4>1. UNCHANGED <<disk, entries, taken>>  BY <2>0
      <4> QED BY <4>1 DEF PromiseStep, Promise!vars
    <3> QED BY <3>4, <3>5, <3>6, <3>7 DEF PromiseInv
  <2> QED BY <2>1, <2>2, ConfigAssumption
<1>13. CASE UNCHANGED vars
  BY <1>b, <1>13, SameKept DEF vars
<1> QED BY <1>1, <1>2, <1>3, <1>4, <1>5, <1>6, <1>7, <1>8, <1>9, <1>10, <1>11, <1>12, <1>13
    DEF Next

LEMMA PromiseInit == Init => PromiseInv /\ Promise!Init
<1> SUFFICES ASSUME Init PROVE PromiseInv /\ Promise!Init
  OBVIOUS
<1>1. \A t \in Thread : job[t].pc = "idle"  BY DEF Init, FreeSlot
<1>2. /\ \A i \in Item : box[i].state = "absent" /\ disk.box[i].state = "absent"
      /\ entries = [i \in Item |-> 0] /\ taken = [i \in Item |-> 0]
  BY DEF Init
<1>3. \A i \in Item : Segments[i] \in Nat \ {0}  BY ThreadAssumption
<1>4. PromiseInv
  BY <1>1, <1>2, <1>3 DEF PromiseInv, Behind, Given, Whole, AtProvider, Outcome
<1>5. Promise!Init
  BY <1>2, <1>3, Zenon DEF Promise!Init, LifeOf
<1> QED BY <1>4, <1>5

\* When claim_timeout exceeds the time a goroutine can hold a claim, the
\* dispatcher and its store implement Delivery, with any number of processes,
\* worker ids, crashes, sweeps and failing store calls.
THEOREM OutboxDelivers == ~ClaimOutlivesTimeout => (Spec => KeepsPromise)
<1> SUFFICES ASSUME ~ClaimOutlivesTimeout PROVE Spec => KeepsPromise
  OBVIOUS
<1>1. Init => HoldInv /\ PromiseInv /\ Promise!Init  BY HoldInit, PromiseInit
<1>2. HoldInv /\ (TypeOK /\ OwnerInv) /\ (TypeOK /\ OwnerInv)' /\ [Next]_vars => HoldInv'
  BY HoldStep
<1>3. PromiseInv /\ HoldInv /\ (TypeOK /\ OwnerInv) /\ (TypeOK /\ OwnerInv)' /\ [Next]_vars
        => PromiseInv' /\ [Promise!Next]_(Promise!vars)
  BY PromiseEveryStep DEF PromiseStep
<1> QED BY <1>1, <1>2, <1>3, OwnerInvariant, PTL DEF Spec, KeepsPromise, Promise!Spec

\* With the same assumption a row is "done" only if the upstream took all of it.
THEOREM DoneAccepted == ~ClaimOutlivesTimeout => (Spec => []DoneIsAccepted)
<1> SUFFICES ASSUME ~ClaimOutlivesTimeout PROVE Spec => []DoneIsAccepted
  OBVIOUS
<1>1. Init => HoldInv /\ PromiseInv  BY HoldInit, PromiseInit
<1>2. HoldInv /\ (TypeOK /\ OwnerInv) /\ (TypeOK /\ OwnerInv)' /\ [Next]_vars => HoldInv'
  BY HoldStep
<1>3. PromiseInv /\ HoldInv /\ (TypeOK /\ OwnerInv) /\ (TypeOK /\ OwnerInv)' /\ [Next]_vars => PromiseInv'
  BY PromiseEveryStep
<1>4. PromiseInv => DoneIsAccepted  BY DEF PromiseInv, Whole, DoneIsAccepted
<1> QED BY <1>1, <1>2, <1>3, <1>4, OwnerInvariant, PTL DEF Spec

\* With the same assumption an outcome that is durable is never replaced.
THEOREM OutcomeStays == ~ClaimOutlivesTimeout => (Spec => OutcomeFinal)
<1> SUFFICES ASSUME ~ClaimOutlivesTimeout PROVE Spec => OutcomeFinal
  OBVIOUS
<1>1. Init => HoldInv /\ PromiseInv  BY HoldInit, PromiseInit
<1>2. HoldInv /\ (TypeOK /\ OwnerInv) /\ (TypeOK /\ OwnerInv)' /\ [Next]_vars => HoldInv'
  BY HoldStep
<1>3. PromiseInv /\ HoldInv /\ (TypeOK /\ OwnerInv) /\ (TypeOK /\ OwnerInv)' /\ [Next]_vars
        => PromiseInv' /\ [\A i \in Item : disk.box[i].state \in Outcome
                             => disk'.box[i].state = disk.box[i].state]_vars
  <2> SUFFICES ASSUME PromiseInv, HoldInv, TypeOK, OwnerInv, TypeOK', OwnerInv', [Next]_vars
               PROVE  PromiseInv' /\ \A i \in Item : disk.box[i].state \in Outcome
                                       => disk'.box[i].state = disk.box[i].state
    OBVIOUS
  <2>1. PromiseInv' /\ PromiseStep  BY PromiseEveryStep
  <2>2. ASSUME NEW i \in Item, disk.box[i].state \in Outcome
        PROVE  disk'.box[i].state = disk.box[i].state
    <3>1. LifeOf(disk'.box[i].state) = LifeOf(disk.box[i].state)
      BY <2>1, <2>2, Zenon DEF PromiseStep, Promise!Next, Promise!Record, Promise!Call, Promise!Take,
         Promise!vars, Promise!After, Promise!Outcome, LifeOf, Outcome
    <3>2. disk.box[i].state \in RowState /\ disk'.box[i].state \in RowState
      BY DEF TypeOK, Image, Row
    <3> QED BY <2>2, <3>1, <3>2 DEF LifeOf, RowState, Outcome
  <2> QED BY <2>1, <2>2
<1> QED BY <1>1, <1>2, <1>3, OwnerInvariant, PTL DEF Spec, OutcomeFinal

-----------------------------------------------------------------------------
(***************************************************************************)
(* What the message says is true.                                          *)
(***************************************************************************)
\* The steps of failOutbox.
Failing == {"failMsg", "failRow", "failBox", "undo"}

\* The upstream has answered the only call, and has not taken the message whole.
Refused(i) == entries[i] = 1 /\ taken[i] < Segments[i]

\* The upstream takes segments in the one call of a row only.
UntakenUntilSent ==
  /\ \A i \in Item : entries[i] = 0 => taken[i] = 0
  /\ \A t \in Thread : job[t].pc = "inflight" => taken[job[t].item] = 0

CausesFail ==
  \A t \in Thread : /\ job[t].cause # "none" => job[t].pc \in Failing
                    /\ job[t].cause = "rejected" => Refused(job[t].item)

\* REJECTD, in memory or durable, follows the answer of the upstream.
RejectedIsRefused ==
  \A i \in Item : msg[i] = "REJECTD" \/ disk.msg[i] = "REJECTD" =>
    Refused(i) /\ \A t \in Thread : Holds(t, i) => job[t].pc # "inflight"

RefusalInv == UntakenUntilSent /\ CausesFail /\ RejectedIsRefused

\* A goroutine goes on with its row and attempt, or ends.  It is past the message
\* of a failure for good only where it was about to write it.
GoesOn(t, j) ==
  /\ j.pc # "idle" => Busy(t) /\ j.item = job[t].item /\ j.attempt = job[t].attempt
  /\ j.pc \in {"failRow", "failBox"} /\ Terminal(j) =>
       job[t].pc \in {"failMsg", "failRow", "failBox"} /\ Terminal(job[t])

\* It does not enter the provider and gets no answer from it.
Silent(t, j) ==
  /\ j.cause # "none" => j.pc \in Failing
  /\ j.cause = "rejected" => job[t].cause = "rejected" /\ j.item = job[t].item
  /\ j.pc = "inflight" => job[t].pc = "inflight" /\ j.item = job[t].item

AllSilent == \A t \in Thread : Silent(t, job'[t])

Moved(t, j) == GoesOn(t, j) /\ Silent(t, j)

MsgKept == disk'.msg = disk.msg \/ disk'.msg = msg'

\* A message becomes REJECTD when it is refused and nobody is calling.
RejectsRefused ==
  \A i \in Item : msg'[i] = "REJECTD" =>
    \/ msg[i] = "REJECTD" \/ disk.msg[i] = "REJECTD"
    \/ Refused(i) /\ \A t \in Thread : Holds(t, i) => job[t].pc # "inflight"

LEMMA RefusalStep ==
  ASSUME RefusalInv, TypeOK, TypeOK', AllSilent, MsgKept, RejectsRefused,
         entries' = entries, taken' = taken
  PROVE  RefusalInv'
<1>1. UntakenUntilSent'  BY DEF RefusalInv, UntakenUntilSent, AllSilent, Silent
<1>2. CausesFail'
  <2> SUFFICES ASSUME NEW t \in Thread
               PROVE  /\ job'[t].cause # "none" => job'[t].pc \in Failing
                      /\ job'[t].cause = "rejected" =>
                           entries[job'[t].item] = 1 /\ taken[job'[t].item] < Segments[job'[t].item]
    BY DEF CausesFail, Refused, Failing
  <2>1. Silent(t, job'[t])  BY DEF AllSilent
  <2>2. ASSUME job'[t].cause = "rejected"
        PROVE  entries[job'[t].item] = 1 /\ taken[job'[t].item] < Segments[job'[t].item]
    <3>1. Refused(job[t].item) /\ job'[t].item = job[t].item
      BY <2>1, <2>2 DEF Silent, RefusalInv, CausesFail, Failing
    <3> QED BY <3>1 DEF Refused
  <2> QED BY <2>1, <2>2 DEF Silent
<1>3. RejectedIsRefused'
  <2> SUFFICES ASSUME NEW i \in Item, msg'[i] = "REJECTD" \/ disk'.msg[i] = "REJECTD"
               PROVE  Refused(i)' /\ \A t \in Thread : Holds(t, i)' => job'[t].pc # "inflight"
    BY DEF RejectedIsRefused
  <2>1. Refused(i) /\ \A t \in Thread : Holds(t, i) => job[t].pc # "inflight"
    BY DEF RefusalInv, RejectedIsRefused, MsgKept, RejectsRefused
  <2> QED BY <2>1 DEF Refused, AllSilent, Silent, Holds, Busy
<1> QED BY <1>1, <1>2, <1>3 DEF RefusalInv

LEMMA SameSilent ==
  ASSUME RefusalInv, job' = job
  PROVE  AllSilent
BY DEF AllSilent, Moved, Silent, RefusalInv, CausesFail, Busy

LEMMA OneSilent ==
  ASSUME RefusalInv, TypeOK, NEW t \in Thread, NEW j, Moved(t, j), job' = [job EXCEPT ![t] = j]
  PROVE  AllSilent
<1>1. job'[t] = j /\ \A u \in Thread : u # t => job'[u] = job[u]
  BY DEF TypeOK
<1> QED BY <1>1 DEF AllSilent, Moved, Silent, RefusalInv, CausesFail, Busy

LEMMA MovedUpdates ==
  ASSUME RefusalInv, TypeOK, NEW t \in Thread, Busy(t)
  PROVE  /\ Moved(t, FreeSlot)
         /\ job[t].pc \in Fresh => Moved(t, MarkFailed(t))
         /\ \A c \in {"missing", "timeout"} : Moved(t, BeginFail(job[t], c))
         /\ job[t].pc \in Fresh =>
              \A s \in {"mark", "recheck", "call"} : Moved(t, [job[t] EXCEPT !.pc = s])
         /\ job[t].pc = "failMsg" =>
              \A s \in {"failRow", "failBox"} : Moved(t, [job[t] EXCEPT !.pc = s])
         /\ job[t].pc = "failRow" => Moved(t, [job[t] EXCEPT !.pc = "failBox"])
         /\ job[t].pc = "failRow" => Moved(t, [job[t] EXCEPT !.pc = "failBox", !.queued = TRUE])
         /\ job[t].pc = "failBox" => Moved(t, [job[t] EXCEPT !.pc = "undo"])
         /\ job[t].pc \notin Failing => Moved(t, [job[t] EXCEPT !.pc = "complete", !.tries = 0])
         /\ job[t].pc \notin Failing => Moved(t, [job[t] EXCEPT !.pc = "uncertain", !.tries = 0])
         /\ Moved(t, [job[t] EXCEPT !.tries = @ + 1])
<1>1. job[t] \in Job /\ job[t].pc # "idle"  BY DEF TypeOK, Busy
<1>2. job[t].cause # "none" => job[t].pc \in Failing  BY DEF RefusalInv, CausesFail
<1> USE <1>1, <1>2 DEF Moved, GoesOn, Silent, Fresh, Job, Failing
<1>3. Moved(t, FreeSlot)  BY DEF FreeSlot
<1>4. ASSUME job[t].pc \in Fresh PROVE Moved(t, MarkFailed(t))
  BY <1>3, <1>4 DEF MarkFailed
<1>5. ASSUME NEW c \in {"missing", "timeout"} PROVE Moved(t, BeginFail(job[t], c))
  <2> DEFINE k == [job[t] EXCEPT !.cause = c, !.tries = 0]
  <2>0. 0 \in 0..2 /\ c \in Cause  BY DEF Cause
  <2>1. k \in Job  BY <1>1, <2>0, JobUpdate
  <2>3. k.item = job[t].item /\ k.attempt = job[t].attempt /\ k.cause = c  OBVIOUS
  <2> HIDE DEF k
  <2>2. BeginFail(job[t], c) = [k EXCEPT !.pc = IF Terminal(k) THEN "failMsg" ELSE "failBox"]
    BY DEF BeginFail, k
  <2> QED BY <2>1, <2>2, <2>3 DEF Terminal
<1>6. ASSUME job[t].pc \in Fresh, NEW s \in {"mark", "recheck", "call"}
      PROVE  Moved(t, [job[t] EXCEPT !.pc = s])
  BY <1>6
<1>7. ASSUME job[t].pc = "failMsg", NEW s \in {"failRow", "failBox"}
      PROVE  Moved(t, [job[t] EXCEPT !.pc = s])
  BY <1>7 DEF Terminal
<1>8. ASSUME job[t].pc = "failRow" PROVE Moved(t, [job[t] EXCEPT !.pc = "failBox"])
  BY <1>8 DEF Terminal
<1>9. ASSUME job[t].pc = "failRow"
      PROVE  Moved(t, [job[t] EXCEPT !.pc = "failBox", !.queued = TRUE])
  BY <1>9 DEF Terminal
<1>10. ASSUME job[t].pc = "failBox" PROVE Moved(t, [job[t] EXCEPT !.pc = "undo"])
  BY <1>10
<1>11. ASSUME job[t].pc \notin Failing PROVE Moved(t, [job[t] EXCEPT !.pc = "complete", !.tries = 0])
  BY <1>11
<1>12. ASSUME job[t].pc \notin Failing PROVE Moved(t, [job[t] EXCEPT !.pc = "uncertain", !.tries = 0])
  BY <1>12
<1>13. Moved(t, [job[t] EXCEPT !.tries = @ + 1])
  BY DEF Terminal
<1> QED BY <1>3, <1>4, <1>5, <1>6, <1>7, <1>8, <1>9, <1>10, <1>11, <1>12, <1>13

-----------------------------------------------------------------------------
\* The message tells what became of the row.
Tells(r, m) ==
  /\ r.state = "done" => m \in {"sent", "trimmed"}
  /\ r.state = "uncertain" => m \in {"UNKNOWN", "trimmed"}
  /\ r.state = "failed" => m \in {"UNDELIV", "REJECTD", "trimmed"}

NoFault == faults = MaxFaults

\* A goroutine works on the attempt it has claimed.
SameAttempt == \A t \in Thread : Busy(t) => job[t].attempt = box[job[t].item].attempt

\* failOutbox has written the message before it fails the row for good, unless
\* the process is shutting down and the row will not be written either.
ToldBefore(t) ==
  job[t].pc \in {"failRow", "failBox"} /\ Terminal(job[t]) =>
    Cancelled(t) \/ msg[job[t].item] \in {"UNDELIV", "REJECTD", "trimmed"}

\* A row with an outcome has nobody working on it.
OutcomeTold ==
  \A i \in Item :
    /\ Tells(box[i], msg[i]) /\ Tells(disk.box[i], disk.msg[i])
    /\ box[i].state \in Outcome => \A t \in Thread : ~Holds(t, i)

ToldInv ==
  /\ faults <= MaxFaults
  /\ SameAttempt
  /\ NoFault => OutcomeTold /\ \A t \in Thread : ToldBefore(t)

\* How a store call ends, for the message and for the count of faults.
StoreEnded ==
  \/ faults' < faults
  \/ faults' = faults /\ disk'.box = box' /\ disk'.msg = msg'
  \/ faults' = faults /\ disk' = disk /\ box' = box /\ msg' = msg

LEMMA StoreCallEnds ==
  ASSUME TypeOK, Saved \/ Lost
  PROVE  StoreEnded /\ MsgKept
BY DEF StoreEnded, MsgKept, Saved, Lost, Snapshot, Fault, TypeOK

LEMMA StoreEnds ==
  ASSUME TypeOK, NEW t \in Thread
  PROVE  /\ Saved \/ Lost => StoreEnded /\ MsgKept
         /\ Saved => faults' = faults
         /\ Lost => faults' < faults
         /\ CallFails(t) \/ Unsaved => StoreEnded /\ MsgKept /\ box' = box /\ msg' = msg
         /\ Unsaved => faults' < faults
         /\ UNCHANGED <<store, faults>> => StoreEnded /\ MsgKept /\ box' = box /\ msg' = msg
BY DEF StoreEnded, MsgKept, Saved, Lost, Snapshot, Fault, CallFails, Unsaved, store, TypeOK

LEMMA StoreFaults ==
  ASSUME TypeOK, TypeOK', StoreEnded
  PROVE  faults' <= faults
<1>1. faults \in Nat /\ faults' \in Nat  BY DEF TypeOK
<1> QED BY <1>1 DEF StoreEnded

LEMMA StoreKept ==
  ASSUME TypeOK, StoreEnded, faults' = faults
  PROVE  disk' = disk \/ (disk'.box = box' /\ disk'.msg = msg')
<1>1. faults \in Nat  BY DEF TypeOK
<1> QED BY <1>1 DEF StoreEnded

LEMMA StillNoFault ==
  ASSUME ToldInv, TypeOK, TypeOK', faults' <= faults
  PROVE  faults' <= MaxFaults /\ (NoFault' => NoFault /\ faults' = faults)
<1>1. faults \in Nat /\ faults' \in Nat /\ MaxFaults \in Nat  BY BoundAssumption DEF TypeOK
<1> QED BY <1>1 DEF ToldInv, NoFault

\* A step of a goroutine that changes its own row and message at most.
LEMMA ThreadTold ==
  ASSUME ToldInv, HoldInv, TypeOK, TypeOK', NEW t \in Thread, Busy(t), NEW j, GoesOn(t, j),
         job' = [job EXCEPT ![t] = j], mode' = mode, StoreEnded,
         \A k \in Item : k # job[t].item => box'[k] = box[k] /\ msg'[k] = msg[k],
         j.pc # "idle" => box'[job[t].item].attempt = box[job[t].item].attempt,
         faults' = faults =>
           /\ NoFault => Tells(box'[job[t].item], msg'[job[t].item])
           /\ box'[job[t].item].state \in Outcome =>
                j.pc = "idle" \/ box'[job[t].item].state = box[job[t].item].state
           /\ j.pc \in {"failRow", "failBox"} =>
                \/ msg'[job[t].item] = msg[job[t].item] /\ job[t].pc # "failMsg"
                \/ Cancelled(t)
                \/ msg'[job[t].item] \in {"UNDELIV", "REJECTD", "trimmed"}
  PROVE  ToldInv'
<1> DEFINE i == job[t].item
<1>1. i \in Item /\ job \in [Thread -> Job]  BY DEF TypeOK, Job, Busy
<1>2. job'[t] = j /\ \A u \in Thread : u # t => job'[u] = job[u]  BY <1>1
<1>3. \A u \in Thread : u # t /\ Busy(u) => job[u].item # i /\ job[u].item \in Item
  BY DEF HoldInv, HoldersUnique, Busy, TypeOK, Job
<1> HIDE DEF i
<1>4. faults' <= MaxFaults /\ (NoFault' => NoFault /\ faults' = faults)
  BY StoreFaults, StillNoFault
<1>5. SameAttempt'
  <2> SUFFICES ASSUME NEW u \in Thread, Busy(u)'
               PROVE  job'[u].attempt = box'[job'[u].item].attempt
    BY DEF SameAttempt
  <2>1. CASE u = t
    BY <1>2, <2>1 DEF Busy, GoesOn, ToldInv, SameAttempt, i
  <2>2. CASE u # t
    BY <1>2, <1>3, <2>2 DEF Busy, ToldInv, SameAttempt, i
  <2> QED BY <2>1, <2>2
<1>7. ASSUME NoFault' PROVE OutcomeTold' /\ \A u \in Thread : ToldBefore(u)'
  <2>0. NoFault /\ faults' = faults  BY <1>4, <1>7
  <2>a. OutcomeTold /\ \A u \in Thread : ToldBefore(u)  BY <2>0 DEF ToldInv
  <2>1. \A k \in Item : Tells(box'[k], msg'[k])
    BY <2>0, <2>a DEF OutcomeTold, i
  <2>2. \A k \in Item : Tells(disk'.box[k], disk'.msg[k])
    BY <2>0, <2>1, <2>a, StoreKept DEF OutcomeTold
  <2>3. ASSUME NEW k \in Item, box'[k].state \in Outcome, NEW u \in Thread
        PROVE  ~Holds(u, k)'
    <3>1. ASSUME k # i PROVE ~Holds(u, k)'
      <4>1. ~Holds(u, k) /\ ~Holds(t, k)  BY <2>3, <2>a, <3>1 DEF OutcomeTold, i
      <4> QED BY <1>2, <3>1, <4>1 DEF Holds, Busy, GoesOn, i
    <3>2. ASSUME k = i PROVE ~Holds(u, k)'
      <4>1. box[i].state \notin Outcome
        BY <1>1, <2>a DEF OutcomeTold, Holds, i
      <4>2. j.pc = "idle"  BY <2>0, <2>3, <3>2, <4>1 DEF i
      <4> QED BY <1>2, <1>3, <3>2, <4>2 DEF Holds, Busy
    <3> QED BY <3>1, <3>2
  <2>4. ASSUME NEW u \in Thread PROVE ToldBefore(u)'
    <3> SUFFICES ASSUME job'[u].pc \in {"failRow", "failBox"}, Terminal(job'[u])
                 PROVE  Cancelled(u)' \/ msg'[job'[u].item] \in {"UNDELIV", "REJECTD", "trimmed"}
      BY DEF ToldBefore, Terminal
    <3>0. Cancelled(u)' <=> Cancelled(u)  BY DEF Cancelled
    <3>1. CASE u # t
      <4>1. job'[u] = job[u] /\ job[u].item # i /\ job[u].item \in Item
        BY <1>2, <1>3, <3>1 DEF Busy
      <4> QED BY <2>a, <3>0, <4>1 DEF ToldBefore, i
    <3>2. CASE u = t
      <4>1. j = job'[u] /\ j.item = i  BY <1>2, <3>2 DEF GoesOn, i
      <4>2. job[t].pc \in {"failMsg", "failRow", "failBox"} /\ Terminal(job[t])
        BY <4>1 DEF GoesOn
      <4>3. CASE msg'[i] = msg[i] /\ job[t].pc # "failMsg"
        BY <2>a, <3>0, <3>2, <4>1, <4>2, <4>3 DEF ToldBefore, i
      <4> QED BY <2>0, <3>0, <3>2, <4>1, <4>3 DEF i
    <3> QED BY <3>1, <3>2
  <2> QED BY <2>1, <2>2, <2>3, <2>4 DEF OutcomeTold
<1> QED BY <1>4, <1>5, <1>7 DEF ToldInv

\* The steps of a goroutine.
LEMMA TellThreadStep ==
  ASSUME RefusalInv, ToldInv, PromiseInv, HoldInv, OwnerInv, TypeOK, TypeOK',
         NEW t \in Thread, ThreadStep(t)
  PROVE  RefusalInv' /\ ToldInv'
<1> DEFINE i == job[t].item
<1>1. Busy(t) /\ i \in Item
  BY DEF TypeOK, Job, Busy, ThreadStep, AbandonClaim, LookupProvider, MarkOutboxSending,
     RecheckSending, EnterProvider, ProviderReturns, CompleteOutboxSend, MarkOutboxUncertain,
     FailMessage, SaveFailureReceipt, FailOutbox, DeleteFailureReceipt
<1>2. /\ box \in [Item -> Row] /\ box[i] \in Row /\ job \in [Thread -> Job] /\ job[t] \in Job
      /\ msg \in [Item -> MsgState]
  BY <1>1 DEF TypeOK
<1>0. faults \in Nat /\ faults' \in Nat  BY DEF TypeOK
<1>3. mode' = mode
  BY DEF ThreadStep, AbandonClaim, LookupProvider, MarkOutboxSending,
     RecheckSending, EnterProvider, ProviderReturns, CompleteOutboxSend, MarkOutboxUncertain,
     FailMessage, SaveFailureReceipt, FailOutbox, DeleteFailureReceipt
\* Rows that a goroutine holds have no outcome yet.
<1>4. NoFault => box[i].state \notin Outcome
  BY <1>1 DEF ToldInv, OutcomeTold, Holds
<1>5. ASSUME NEW r, r.state = box[i].state, NEW m PROVE NoFault => Tells(r, m)
  BY <1>4, <1>5 DEF Tells, Outcome
<1> HIDE DEF i
\* Nothing but the goroutine changes.
<1>6. ASSUME NEW j, Moved(t, j), job' = [job EXCEPT ![t] = j], StoreEnded, MsgKept,
             box' = box, msg' = msg, taken' = taken, entries' = entries,
             j.pc \in {"failRow", "failBox"} => job[t].pc # "failMsg" \/ Cancelled(t)
      PROVE  RefusalInv' /\ ToldInv'
  <2>1. AllSilent  BY <1>6, OneSilent, Zenon
  <2>2. RejectsRefused  BY <1>6 DEF RejectsRefused
  <2>3. RefusalInv'  BY <1>6, <2>1, <2>2, RefusalStep
  <2>4. NoFault => Tells(box'[i], msg'[i])  BY <1>5, <1>6
  <2>5. ToldInv'  BY <1>1, <1>3, <1>6, <2>4, ThreadTold, Zenon DEF Moved, i
  <2> QED BY <2>3, <2>5
\* The row, or the message without becoming REJECTD, changes.
<1>7. ASSUME NEW j, Moved(t, j), job' = [job EXCEPT ![t] = j], StoreEnded, MsgKept,
             NEW r, box' = [box EXCEPT ![i] = r], j.pc # "idle" => r.attempt = box[i].attempt,
             NEW m, msg' = [msg EXCEPT ![i] = m], m = "REJECTD" => m = msg[i],
             taken' = taken, entries' = entries,
             faults' = faults =>
               /\ NoFault => Tells(r, m)
               /\ r.state \in Outcome => j.pc = "idle"
               /\ j.pc \notin {"failRow", "failBox"}
      PROVE  RefusalInv' /\ ToldInv'
  <2>0. /\ box'[i] = r /\ msg'[i] = m
        /\ \A k \in Item : k # i => box'[k] = box[k] /\ msg'[k] = msg[k]
    BY <1>1, <1>2, <1>7
  <2>1. AllSilent  BY <1>7, OneSilent, Zenon
  <2>2. RejectsRefused  BY <1>7, <2>0 DEF RejectsRefused
  <2>3. RefusalInv'  BY <1>7, <2>1, <2>2, RefusalStep
  <2>5. ToldInv'  BY <1>1, <1>3, <1>7, <2>0, ThreadTold, Zenon DEF Moved, i
  <2> QED BY <2>3, <2>5
<1>a. CASE AbandonClaim(t)
  <2>1. UNCHANGED <<store, faults>> /\ taken' = taken /\ entries' = entries
        /\ job' = [job EXCEPT ![t] = FreeSlot]
    BY <1>a DEF AbandonClaim, budget, history
  <2>2. FreeSlot.pc = "idle"  BY DEF FreeSlot
  <2> QED BY <1>1, <1>6, <2>1, <2>2, MovedUpdates, StoreEnds, Zenon
<1>b. CASE LookupProvider(t)
  <2>1. job' = [job EXCEPT ![t] = [job[t] EXCEPT !.pc = "mark"]]
        \/ job' = [job EXCEPT ![t] = BeginFail(job[t], "missing")]
    BY <1>b DEF LookupProvider
  <2>2. UNCHANGED <<store, faults>> /\ taken' = taken /\ entries' = entries /\ job[t].pc = "lookup"
    BY <1>b DEF LookupProvider, budget, history
  <2>3. Moved(t, [job[t] EXCEPT !.pc = "mark"]) /\ Moved(t, BeginFail(job[t], "missing"))
    BY <1>1, <2>2, MovedUpdates DEF Fresh
  <2> QED BY <1>6, <2>1, <2>2, <2>3, StoreEnds
<1>c. CASE MarkOutboxSending(t)
  <2>0. entries' = entries /\ taken' = taken /\ job[t].pc = "mark"
    BY <1>c DEF MarkOutboxSending, history
  <2>1. /\ Moved(t, MarkFailed(t)) /\ Moved(t, [job[t] EXCEPT !.pc = "call"])
        /\ Moved(t, [job[t] EXCEPT !.pc = "recheck"])
    BY <1>1, <2>0, MovedUpdates DEF Fresh
  <2>2. CASE /\ box' = [box EXCEPT ![i].state = "sending"] /\ msg' = msg
             /\ \/ job' = [job EXCEPT ![t].pc = "call"]
                \/ job' = [job EXCEPT ![t] = MarkFailed(t)]
             /\ Saved \/ Lost
    <3> DEFINE r == [box[i] EXCEPT !.state = "sending"]
    <3>1. r.state = "sending" /\ r.attempt = box[i].attempt /\ box' = [box EXCEPT ![i] = r]
      BY <1>1, <1>2, <2>2 DEF Row
    <3>2. Tells(r, msg[i]) /\ r.state \notin Outcome  BY <3>1 DEF Tells, Outcome
    <3>3. PICK j : /\ Moved(t, j) /\ job' = [job EXCEPT ![t] = j]
                   /\ j.pc \notin {"failRow", "failBox"}
      <4>1. [job[t] EXCEPT !.pc = "call"].pc = "call" /\ MarkFailed(t).pc \in {"mark", "idle"}
        BY <1>2 DEF Job, MarkFailed, FreeSlot
      <4> QED BY <1>2, <2>1, <2>2, <4>1
    <3>4. StoreEnded /\ MsgKept  BY <2>2, StoreEnds
    <3>5. msg' = [msg EXCEPT ![i] = msg[i]]  BY <1>1, <1>2, <2>2
    <3> HIDE DEF r
    <3> QED BY <1>7, <2>0, <3>1, <3>2, <3>3, <3>4, <3>5, Zenon
  <2>3. CASE /\ \/ job' = [job EXCEPT ![t] = [job[t] EXCEPT !.pc = "recheck"]]
                \/ job' = [job EXCEPT ![t] = MarkFailed(t)]
             /\ UNCHANGED <<store, faults>> \/ CallFails(t)
    BY <1>6, <2>0, <2>1, <2>3, StoreEnds
  <2> QED BY <1>c, <1>2, <2>2, <2>3 DEF MarkOutboxSending, i
<1>d. CASE RecheckSending(t)
  <2>0. entries' = entries /\ taken' = taken /\ job[t].pc = "recheck"
    BY <1>d DEF RecheckSending, history
  <2>1. Moved(t, MarkFailed(t)) /\ Moved(t, [job[t] EXCEPT !.pc = "call"])
    BY <1>1, <2>0, MovedUpdates DEF Fresh
  <2>2. /\ \/ job' = [job EXCEPT ![t] = [job[t] EXCEPT !.pc = "call"]]
           \/ job' = [job EXCEPT ![t] = MarkFailed(t)]
        /\ UNCHANGED <<store, faults>> \/ CallFails(t)
    BY <1>d DEF RecheckSending
  <2> QED BY <1>6, <2>0, <2>1, <2>2, StoreEnds
<1>e. CASE EnterProvider(t)
  <2> DEFINE j == [job[t] EXCEPT !.pc = "inflight"]
  <2>1. /\ job' = [job EXCEPT ![t] = j] /\ job[t].pc = "call"
        /\ UNCHANGED <<store, faults>> /\ taken' = taken
    BY <1>e, <1>2 DEF EnterProvider, budget
  <2>2. /\ j.pc = "inflight" /\ j.item = i /\ j.attempt = job[t].attempt /\ j.cause = job[t].cause
        /\ job'[t] = j /\ \A u \in Thread : u # t => job'[u] = job[u]
    BY <1>2, <2>1 DEF Job, i
  <2> HIDE DEF j
  <2>3. entries[i] = 0 /\ taken[i] = 0 /\ job[t].cause = "none"
    BY <1>1, <2>1 DEF HoldInv, FreshHolders, Fresh, RefusalInv, UntakenUntilSent, CausesFail,
       Failing, i
  <2>4. entries'[i] = 1 /\ \A k \in Item : k # i => entries'[k] = entries[k]
    BY <1>e, <1>1, <2>3 DEF EnterProvider, TypeOK, i
  <2>5. \A u \in Thread : u # t /\ Busy(u) => job[u].item # i /\ job[u].item \in Item
    BY <1>1 DEF HoldInv, HoldersUnique, Busy, TypeOK, Job, i
  <2>6. UntakenUntilSent'
    BY <2>1, <2>2, <2>3, <2>4 DEF RefusalInv, UntakenUntilSent, Busy
  <2>7. CausesFail'
    <3> SUFFICES ASSUME NEW u \in Thread
                 PROVE  /\ job'[u].cause # "none" => job'[u].pc \in Failing
                        /\ job'[u].cause = "rejected" =>
                             entries'[job'[u].item] = 1 /\ taken[job'[u].item] < Segments[job'[u].item]
      BY <2>1 DEF CausesFail, Refused, Failing
    <3>1. CASE u = t  BY <2>2, <2>3, <3>1
    <3>2. CASE u # t
      BY <2>2, <2>4, <2>5, <3>2 DEF RefusalInv, CausesFail, Refused, Failing, Busy
    <3> QED BY <3>1, <3>2
  <2>8. RejectedIsRefused'
    <3> SUFFICES ASSUME NEW k \in Item, msg[k] = "REJECTD" \/ disk.msg[k] = "REJECTD"
                 PROVE  Refused(k)' /\ \A u \in Thread : Holds(u, k)' => job'[u].pc # "inflight"
      BY <2>1 DEF RejectedIsRefused, store
    <3>1. Refused(k) /\ \A u \in Thread : Holds(u, k) => job[u].pc # "inflight"
      BY DEF RefusalInv, RejectedIsRefused
    <3>2. k # i  BY <2>3, <3>1 DEF Refused
    <3> QED BY <2>1, <2>2, <2>4, <3>1, <3>2 DEF Refused, Holds, Busy
  <2>9. GoesOn(t, j)  BY <1>1, <2>2 DEF GoesOn, i
  <2>10. box' = box /\ msg' = msg  BY <2>1 DEF store
  <2>11. NoFault => Tells(box'[i], msg'[i])  BY <1>5, <2>10
  <2>12. StoreEnded  BY <2>1, StoreEnds
  <2>13. ToldInv'
    BY <1>1, <1>3, <2>1, <2>2, <2>9, <2>10, <2>11, <2>12, ThreadTold, Zenon DEF i
  <2> QED BY <2>6, <2>7, <2>8, <2>13 DEF RefusalInv
<1>f. CASE ProviderReturns(t)
  <2>0. /\ job[t].pc = "inflight" /\ UNCHANGED <<store, faults>> /\ entries' = entries
        /\ entries[i] = 1 /\ taken[i] = 0 /\ job[t].cause = "none"
    BY <1>f DEF ProviderReturns, budget, PromiseInv, Given, AtProvider, RefusalInv,
       UntakenUntilSent, CausesFail, Failing, i
  <2> DEFINE Answered(j) == /\ GoesOn(t, j) /\ j.pc # "inflight" /\ j.item = i
                            /\ j.cause # "none" => j.pc \in Failing
                            /\ j.pc \in {"failRow", "failBox"} => ~Terminal(j)
  <2>1. ASSUME NEW j, Answered(j), job' = [job EXCEPT ![t] = j], NEW k \in Nat, Took(i, k),
               j.cause = "rejected" => k < Segments[i]
        PROVE  RefusalInv' /\ ToldInv'
    <3>1. job'[t] = j /\ \A u \in Thread : u # t => job'[u] = job[u]  BY <1>2, <2>1
    <3>2. taken'[i] = k /\ \A l \in Item : l # i => taken'[l] = taken[l]
      BY <1>1, <2>0, <2>1 DEF Took, TypeOK
    <3>3. \A u \in Thread : u # t /\ Busy(u) => job[u].item # i /\ job[u].item \in Item
      BY <1>1 DEF HoldInv, HoldersUnique, Busy, TypeOK, Job, i
    <3>4. UntakenUntilSent'
      BY <2>0, <2>1, <3>1, <3>2, <3>3 DEF RefusalInv, UntakenUntilSent, Busy
    <3>5. CausesFail'
      <4> SUFFICES ASSUME NEW u \in Thread
                   PROVE  /\ job'[u].cause # "none" => job'[u].pc \in Failing
                          /\ job'[u].cause = "rejected" =>
                               /\ entries[job'[u].item] = 1
                               /\ taken'[job'[u].item] < Segments[job'[u].item]
        BY <2>0 DEF CausesFail, Refused, Failing
      <4>1. CASE u = t  BY <2>0, <2>1, <3>1, <3>2, <4>1
      <4>2. CASE u # t
        BY <3>1, <3>2, <3>3, <4>2 DEF RefusalInv, CausesFail, Refused, Failing, Busy
      <4> QED BY <4>1, <4>2
    <3>6. RejectedIsRefused'
      <4> SUFFICES ASSUME NEW l \in Item, msg[l] = "REJECTD" \/ disk.msg[l] = "REJECTD"
                   PROVE  Refused(l)' /\ \A u \in Thread : Holds(u, l)' => job'[u].pc # "inflight"
        BY <2>0 DEF RejectedIsRefused, store
      <4>1. Refused(l) /\ \A u \in Thread : Holds(u, l) => job[u].pc # "inflight"
        BY DEF RefusalInv, RejectedIsRefused
      <4>2. l # i  BY <1>1, <2>0, <4>1 DEF Holds, i
      <4> QED BY <2>0, <2>1, <3>1, <3>2, <4>1, <4>2 DEF Refused, Holds, Busy
    <3>7. box' = box /\ msg' = msg  BY <2>0 DEF store
    <3>8. NoFault => Tells(box'[i], msg'[i])  BY <1>5, <3>7
    <3>9. StoreEnded  BY <2>0, StoreEnds
    <3>10. job[t].pc # "failMsg"  BY <2>0
    <3>11. ToldInv'
      BY <1>1, <1>3, <2>1, <3>7, <3>8, <3>9, <3>10, ThreadTold, Zenon DEF i
    <3> QED BY <3>4, <3>5, <3>6, <3>11 DEF RefusalInv
  <2>2. ASSUME NEW c \in {"rejected", "timeout"}
        PROVE  Answered(BeginFail(job[t], c)) /\ BeginFail(job[t], c).cause = c
    <3> DEFINE k == [job[t] EXCEPT !.cause = c, !.tries = 0]
    <3>0. 0 \in 0..2 /\ c \in Cause  BY DEF Cause
    <3>1. k \in Job  BY <1>1, <1>2, <3>0, JobUpdate DEF Busy
    <3>3. k.item = i /\ k.attempt = job[t].attempt /\ k.cause = c  BY <1>2 DEF Job, i
    <3> HIDE DEF k
    <3>2. BeginFail(job[t], c) = [k EXCEPT !.pc = IF Terminal(k) THEN "failMsg" ELSE "failBox"]
      BY DEF BeginFail, k
    <3> QED BY <1>1, <3>1, <3>2, <3>3 DEF Terminal, GoesOn, Failing, Job, i
  <2>3. ASSUME NEW s \in {"complete", "uncertain"}
        PROVE  /\ Answered([job[t] EXCEPT !.pc = s, !.tries = 0])
               /\ [job[t] EXCEPT !.pc = s, !.tries = 0].cause # "rejected"
    BY <1>1, <1>2, <2>0 DEF GoesOn, Job, i
  <2> HIDE DEF Answered
  <2>4. Segments[i] \in Nat /\ 0 .. Segments[i] \subseteq Nat /\ 0 .. Segments[i] - 1 \subseteq Nat
    BY <1>1, ThreadAssumption
  <2>5. CASE job' = [job EXCEPT ![t].pc = "complete", ![t].tries = 0] /\ Took(i, Segments[i])
    BY <1>2, <2>1, <2>3, <2>4, <2>5
  <2>6. CASE /\ job' = [job EXCEPT ![t] = BeginFail(@, "rejected")]
             /\ \E k \in 0 .. Segments[i] - 1 : Took(i, k)
    <3>1. PICK k \in 0 .. Segments[i] - 1 : Took(i, k)  BY <2>6
    <3>2. k \in Nat /\ k < Segments[i]  BY <2>4, <3>1
    <3> QED BY <1>2, <2>1, <2>2, <2>6, <3>1, <3>2
  <2>7. CASE /\ job' = [job EXCEPT ![t] = BeginFail(@, "timeout")]
             /\ \E k \in 0 .. Segments[i] : Took(i, k)
    <3>1. PICK k \in 0 .. Segments[i] : Took(i, k)  BY <2>7
    <3>2. k \in Nat  BY <2>4, <3>1
    <3> QED BY <1>2, <2>1, <2>2, <2>7, <3>1, <3>2
  <2>8. CASE /\ job' = [job EXCEPT ![t].pc = "uncertain", ![t].tries = 0]
             /\ \E k \in 0 .. Segments[i] : Took(i, k)
    <3>1. PICK k \in 0 .. Segments[i] : Took(i, k)  BY <2>8
    <3>2. k \in Nat  BY <2>4, <3>1
    <3> QED BY <1>2, <2>1, <2>3, <2>8, <3>1, <3>2
  <2> QED BY <1>f, <2>5, <2>6, <2>7, <2>8 DEF ProviderReturns, i
<1>g. CASE CompleteOutboxSend(t)
  <2>0. entries' = entries /\ taken' = taken /\ job[t].pc = "complete"
    BY <1>g DEF CompleteOutboxSend, history
  <2>1. \A j \in CompleteFailed(t) : Moved(t, j) /\ j.pc \in {"uncertain", "complete"}
    <3>1. /\ Moved(t, [job[t] EXCEPT !.pc = "uncertain", !.tries = 0])
          /\ Moved(t, [job[t] EXCEPT !.tries = @ + 1])
      BY <1>1, <2>0, MovedUpdates DEF Failing
    <3>2. [job[t] EXCEPT !.pc = "uncertain", !.tries = 0].pc = "uncertain"
          /\ [job[t] EXCEPT !.tries = @ + 1].pc = "complete"
      BY <1>2, <2>0 DEF Job
    <3> QED BY <3>1, <3>2 DEF CompleteFailed
  <2>2. Moved(t, FreeSlot) /\ FreeSlot.pc = "idle"  BY <1>1, MovedUpdates DEF FreeSlot
  <2>3. CASE /\ box' = [box EXCEPT ![i].state = "done"] /\ msg' = [msg EXCEPT ![i] = "sent"]
             /\ \/ job' = [job EXCEPT ![t] = FreeSlot] /\ Saved
                \/ (\E j \in CompleteFailed(t) : job' = [job EXCEPT ![t] = j]) /\ Lost
    <3> DEFINE r == [box[i] EXCEPT !.state = "done"]
    <3>1. r.state = "done" /\ r.attempt = box[i].attempt /\ box' = [box EXCEPT ![i] = r]
      BY <1>1, <1>2, <2>3 DEF Row
    <3>2. Tells(r, "sent")  BY <3>1 DEF Tells
    <3>3. PICK j : /\ Moved(t, j) /\ job' = [job EXCEPT ![t] = j]
                   /\ j.pc \notin {"failRow", "failBox"} /\ (faults' = faults => j.pc = "idle")
      <4>1. CASE job' = [job EXCEPT ![t] = FreeSlot]  BY <2>2, <4>1
      <4>2. CASE Lost
        <5>1. faults' # faults  BY <1>0, <4>2, StoreEnds
        <5> QED BY <2>1, <2>2, <2>3, <5>1
      <4> QED BY <2>3, <4>1, <4>2
    <3>4. StoreEnded /\ MsgKept  BY <2>3, StoreEnds
    <3> HIDE DEF r
    <3> QED BY <1>7, <2>0, <2>3, <3>1, <3>2, <3>3, <3>4
  <2>4. CASE /\ box' = box /\ msg' = msg
             /\ \/ job' = [job EXCEPT ![t] = FreeSlot]
                \/ \E j \in CompleteFailed(t) : job' = [job EXCEPT ![t] = j]
             /\ Saved \/ Lost \/ UNCHANGED <<store, faults>> \/ Unsaved
    <3>1. PICK j : Moved(t, j) /\ job' = [job EXCEPT ![t] = j] /\ j.pc \notin {"failRow", "failBox"}
      BY <2>1, <2>2, <2>4
    <3>2. StoreEnded /\ MsgKept  BY <2>4, StoreEnds
    <3> QED BY <1>6, <2>0, <2>4, <3>1, <3>2, Zenon
  <2> QED BY <1>g, <2>3, <2>4 DEF CompleteOutboxSend, Unsaved, store, i
<1>h. CASE MarkOutboxUncertain(t)
  <2>0. entries' = entries /\ taken' = taken /\ job[t].pc = "uncertain"
    BY <1>h DEF MarkOutboxUncertain, history
  <2>1. \A j \in UncertainFailed(t) : Moved(t, j) /\ j.pc \in {"idle", "uncertain"}
    <3>1. Moved(t, FreeSlot) /\ Moved(t, [job[t] EXCEPT !.tries = @ + 1])
      BY <1>1, MovedUpdates
    <3>2. FreeSlot.pc = "idle" /\ [job[t] EXCEPT !.tries = @ + 1].pc = "uncertain"
      BY <1>2, <2>0 DEF Job, FreeSlot
    <3> QED BY <3>1, <3>2 DEF UncertainFailed
  <2>2. Moved(t, FreeSlot) /\ FreeSlot.pc = "idle"  BY <1>1, MovedUpdates DEF FreeSlot
  <2>3. CASE /\ box' = [box EXCEPT ![i].state = "uncertain"]
             /\ msg' = [msg EXCEPT ![i] = IF @ = "trimmed" THEN @ ELSE "UNKNOWN"]
             /\ \/ job' = [job EXCEPT ![t] = FreeSlot] /\ Saved
                \/ (\E j \in UncertainFailed(t) : job' = [job EXCEPT ![t] = j]) /\ Lost
    <3> DEFINE r == [box[i] EXCEPT !.state = "uncertain"]
               m == IF msg[i] = "trimmed" THEN msg[i] ELSE "UNKNOWN"
    <3>1. r.state = "uncertain" /\ r.attempt = box[i].attempt /\ box' = [box EXCEPT ![i] = r]
      BY <1>1, <1>2, <2>3 DEF Row
    <3>2. m \in {"UNKNOWN", "trimmed"} /\ msg' = [msg EXCEPT ![i] = m]  BY <2>3
    <3>3. PICK j : /\ Moved(t, j) /\ job' = [job EXCEPT ![t] = j]
                   /\ j.pc \notin {"failRow", "failBox"} /\ (faults' = faults => j.pc = "idle")
      <4>1. CASE job' = [job EXCEPT ![t] = FreeSlot]  BY <2>2, <4>1
      <4>2. CASE Lost
        <5>1. faults' # faults  BY <1>0, <4>2, StoreEnds
        <5> QED BY <2>1, <2>2, <2>3, <5>1
      <4> QED BY <2>3, <4>1, <4>2
    <3>4. StoreEnded /\ MsgKept  BY <2>3, StoreEnds
    <3> HIDE DEF r, m
    <3>5. Tells(r, m) /\ m # "REJECTD"  BY <3>1, <3>2 DEF Tells
    <3> QED BY <1>7, <2>0, <3>1, <3>2, <3>3, <3>4, <3>5, Zenon
  <2>4. CASE /\ box' = box /\ msg' = msg
             /\ \E j \in UncertainFailed(t) : job' = [job EXCEPT ![t] = j]
             /\ UNCHANGED <<store, faults>> \/ Unsaved
    <3>1. PICK j : Moved(t, j) /\ job' = [job EXCEPT ![t] = j] /\ j.pc \notin {"failRow", "failBox"}
      BY <2>1, <2>4
    <3>2. StoreEnded /\ MsgKept  BY <2>4, StoreEnds
    <3> QED BY <1>6, <2>0, <2>4, <3>1, <3>2, Zenon
  <2> QED BY <1>h, <2>3, <2>4 DEF MarkOutboxUncertain, Unsaved, store, i
<1>i. CASE FailMessage(t)
  <2> DEFINE s == IF i \in WantsReceipt THEN "failRow" ELSE "failBox"
             j == [job[t] EXCEPT !.pc = s]
  <2>0. /\ entries' = entries /\ taken' = taken /\ job[t].pc = "failMsg" /\ s \in {"failRow", "failBox"}
        /\ job' = [job EXCEPT ![t] = j]
    BY <1>i, <1>2 DEF FailMessage, history, i
  <2> HIDE DEF s
  <2>1. Moved(t, j)  BY <1>1, <2>0, MovedUpdates
  <2> HIDE DEF j
  <2>2. AllSilent  BY <2>0, <2>1, OneSilent, Zenon
  <2>3. CASE /\ msg[i] # "trimmed" /\ msg' = [msg EXCEPT ![i] = FailureState(job[t].cause)]
             /\ box' = box
             /\ Saved \/ Lost
    <3>1. /\ msg'[i] = FailureState(job[t].cause)
          /\ \A k \in Item : k # i => msg'[k] = msg[k]
      BY <1>1, <1>2, <2>3
    <3>2. msg'[i] \in {"UNDELIV", "REJECTD", "trimmed"}
      BY <3>1 DEF FailureState
    <3>3. RejectsRefused
      <4> SUFFICES ASSUME NEW k \in Item, msg'[k] = "REJECTD"
                   PROVE  \/ msg[k] = "REJECTD"
                          \/ Refused(k) /\ \A u \in Thread : Holds(u, k) => job[u].pc # "inflight"
        BY DEF RejectsRefused
      <4>1. CASE k = i
        <5>1. job[t].cause = "rejected"  BY <3>1, <4>1 DEF FailureState
        <5>2. Refused(i)  BY <5>1 DEF RefusalInv, CausesFail, i
        <5>3. \A u \in Thread : Holds(u, i) => u = t
          BY <1>1 DEF HoldInv, HoldersUnique, Holds, i
        <5> QED BY <2>0, <4>1, <5>2, <5>3
      <4>2. CASE k # i  BY <3>1, <4>2
      <4> QED BY <4>1, <4>2
    <3>4. StoreEnded /\ MsgKept  BY <2>3, StoreEnds
    <3>5. RefusalInv'  BY <2>0, <2>2, <3>3, <3>4, RefusalStep
    <3>6. NoFault => Tells(box'[i], msg'[i])  BY <1>5, <2>3
    <3>7. ToldInv'
      BY <1>1, <1>3, <2>0, <2>1, <2>3, <3>1, <3>2, <3>4, <3>6, ThreadTold, Zenon DEF Moved, i
    <3> QED BY <3>5, <3>7
  <2>4. CASE msg[i] = "trimmed" /\ UNCHANGED <<store, faults>>
    <3>1. StoreEnded /\ MsgKept /\ box' = box /\ msg' = msg  BY <2>4, StoreEnds
    <3>2. RejectsRefused  BY <3>1 DEF RejectsRefused
    <3>3. RefusalInv'  BY <2>0, <2>2, <3>1, <3>2, RefusalStep
    <3>4. NoFault => Tells(box'[i], msg'[i])  BY <1>5, <3>1
    <3>5. msg'[i] \in {"UNDELIV", "REJECTD", "trimmed"}  BY <2>4, <3>1
    <3>6. ToldInv'
      BY <1>1, <1>3, <2>0, <2>1, <3>1, <3>4, <3>5, ThreadTold, Zenon DEF Moved, i
    <3> QED BY <3>3, <3>6
  <2>5. CASE CallFails(t)
    <3>1. StoreEnded /\ MsgKept /\ box' = box /\ msg' = msg  BY <2>5, StoreEnds
    <3>2. RejectsRefused  BY <3>1 DEF RejectsRefused
    <3>3. RefusalInv'  BY <2>0, <2>2, <3>1, <3>2, RefusalStep
    <3>4. NoFault => Tells(box'[i], msg'[i])  BY <1>5, <3>1
    <3>5. faults' = faults => Cancelled(t)  BY <1>0, <2>5 DEF CallFails, Unsaved, Fault
    <3>6. ToldInv'
      BY <1>1, <1>3, <2>0, <2>1, <3>1, <3>4, <3>5, ThreadTold, Zenon DEF Moved, i
    <3> QED BY <3>3, <3>6
  <2> QED BY <1>i, <2>3, <2>4, <2>5 DEF FailMessage, i
<1>j. CASE SaveFailureReceipt(t)
  <2>0. entries' = entries /\ taken' = taken /\ job[t].pc = "failRow" /\ box' = box /\ msg' = msg
    BY <1>j, StoreEnds DEF SaveFailureReceipt, history
  <2>1. /\ Moved(t, [job[t] EXCEPT !.pc = "failBox"])
        /\ Moved(t, [job[t] EXCEPT !.pc = "failBox", !.queued = TRUE])
    BY <1>1, <2>0, MovedUpdates
  <2>2. /\ \/ job' = [job EXCEPT ![t] = [job[t] EXCEPT !.pc = "failBox"]]
           \/ job' = [job EXCEPT ![t] = [job[t] EXCEPT !.pc = "failBox", !.queued = TRUE]]
        /\ Saved \/ Lost \/ CallFails(t)
    BY <1>j, <1>2 DEF SaveFailureReceipt
  <2>3. StoreEnded /\ MsgKept  BY <2>2, StoreEnds
  <2> QED BY <1>6, <2>0, <2>1, <2>2, <2>3
<1>k. CASE FailOutbox(t)
  <2>0. entries' = entries /\ taken' = taken /\ job[t].pc = "failBox"
    BY <1>k DEF FailOutbox, history
  <2> DEFINE j == IF job[t].queued THEN [job[t] EXCEPT !.pc = "undo"] ELSE FreeSlot
  <2>1. Moved(t, j) /\ j.pc \in {"undo", "idle"} /\ Moved(t, FreeSlot) /\ FreeSlot.pc = "idle"
    <3>1. FreeSlot.pc = "idle" /\ [job[t] EXCEPT !.pc = "undo"].pc = "undo"
      BY <1>2 DEF Job, FreeSlot
    <3> QED BY <1>1, <2>0, <3>1, MovedUpdates
  <2> HIDE DEF j
  <2>2. CASE /\ ~Cancelled(t) /\ box' = [box EXCEPT ![i] = FailRow(i, job[t])] /\ msg' = msg
             /\ \/ job' = [job EXCEPT ![t] = FreeSlot] /\ Saved
                \/ job' = [job EXCEPT ![t] = j] /\ Lost
    <3> DEFINE r == FailRow(i, job[t])
    <3>1. /\ r.state \in {"failed", "pending"} /\ r.attempt = box[i].attempt
          /\ r.state = "failed" => FailsForGood(i, job[t])
      BY <1>2 DEF FailRow, Row
    <3>2. FailsForGood(i, job[t]) => Terminal(job[t])
      BY <1>1, <1>2 DEF FailsForGood, Terminal, ToldInv, SameAttempt, i
    <3>3. NoFault /\ r.state = "failed" => msg[i] \in {"UNDELIV", "REJECTD", "trimmed"}
      BY <2>0, <2>2, <3>1, <3>2 DEF ToldInv, ToldBefore, i
    <3> HIDE DEF r
    <3>4. NoFault => Tells(r, msg[i])  BY <3>1, <3>3 DEF Tells
    <3>5. PICK k : /\ Moved(t, k) /\ job' = [job EXCEPT ![t] = k]
                   /\ k.pc \notin {"failRow", "failBox"} /\ (faults' = faults => k.pc = "idle")
      <4>1. CASE job' = [job EXCEPT ![t] = FreeSlot]  BY <2>1, <4>1
      <4>2. CASE Lost
        <5>1. faults' # faults  BY <1>0, <4>2, StoreEnds
        <5> QED BY <2>1, <2>2, <5>1
      <4> QED BY <2>2, <4>1, <4>2
    <3>6. StoreEnded /\ MsgKept  BY <2>2, StoreEnds
    <3>7. msg' = [msg EXCEPT ![i] = msg[i]]  BY <1>1, <1>2, <2>2
    <3>8. box' = [box EXCEPT ![i] = r]  BY <2>2 DEF r
    <3> QED BY <1>7, <2>0, <3>1, <3>4, <3>5, <3>6, <3>7, <3>8, Zenon
  <2>3. CASE job' = [job EXCEPT ![t] = j] /\ (UNCHANGED <<store, faults>> \/ CallFails(t))
    <3>1. StoreEnded /\ MsgKept /\ box' = box /\ msg' = msg  BY <2>3, StoreEnds
    <3>2. j.pc \notin {"failRow", "failBox"}  BY <2>1
    <3> QED BY <1>6, <2>0, <2>1, <2>3, <3>1, <3>2, Zenon
  <2> QED BY <1>k, <2>2, <2>3 DEF FailOutbox, i, j
<1>l. CASE DeleteFailureReceipt(t)
  <2>0. entries' = entries /\ taken' = taken /\ box' = box /\ msg' = msg
    BY <1>l, StoreEnds DEF DeleteFailureReceipt, history
  <2>1. job' = [job EXCEPT ![t] = FreeSlot] /\ (Saved \/ Lost \/ CallFails(t))
    BY <1>l DEF DeleteFailureReceipt
  <2>2. Moved(t, FreeSlot) /\ FreeSlot.pc = "idle"  BY <1>1, MovedUpdates DEF FreeSlot
  <2>3. StoreEnded /\ MsgKept  BY <2>1, StoreEnds
  <2> QED BY <1>6, <2>0, <2>1, <2>2, <2>3
<1> QED BY <1>a, <1>b, <1>c, <1>d, <1>e, <1>f, <1>g, <1>h, <1>i, <1>j, <1>k, <1>l DEF ThreadStep

-----------------------------------------------------------------------------
\* Steps of others: goroutines stay as they are or end.
Bystander(t) ==
  Busy(t)' => /\ job'[t] = job[t]
              /\ box'[job[t].item].attempt = box[job[t].item].attempt
              /\ Cancelled(t) => Cancelled(t)'
              /\ msg'[job[t].item] \in {msg[job[t].item], "trimmed"}

LEMMA OtherTold ==
  ASSUME ToldInv, TypeOK, TypeOK', faults' <= faults, \A t \in Thread : Bystander(t),
         faults' = faults /\ NoFault => OutcomeTold'
  PROVE  ToldInv'
<1> USE DEF Bystander
<1>1. faults' <= MaxFaults /\ (NoFault' => NoFault /\ faults' = faults)
  BY StillNoFault
<1>2. SameAttempt'  BY DEF SameAttempt, ToldInv, Busy
<1>3. NoFault' => OutcomeTold'  BY <1>1
<1>4. ASSUME NoFault', NEW t \in Thread PROVE ToldBefore(t)'
  <2> SUFFICES ASSUME job'[t].pc \in {"failRow", "failBox"}, Terminal(job'[t])
               PROVE  Cancelled(t)' \/ msg'[job'[t].item] \in {"UNDELIV", "REJECTD", "trimmed"}
    BY DEF ToldBefore, Terminal
  <2>1. job'[t] = job[t]  BY DEF Busy
  <2>2. Cancelled(t) \/ msg[job[t].item] \in {"UNDELIV", "REJECTD", "trimmed"}
    BY <1>1, <1>4, <2>1 DEF ToldInv, ToldBefore
  <2> QED BY <2>1, <2>2 DEF Busy
<1> QED BY <1>1, <1>2, <1>3, <1>4 DEF ToldInv

\* A worker loop hands rows that nobody works on to goroutines.
LEMMA TellClaim ==
  ASSUME RefusalInv, ToldInv, HoldInv, HoldInv', TypeOK, TypeOK',
         NEW p \in Proc, NEW n \in Name, Claim(p, n)
  PROVE  RefusalInv' /\ ToldInv'
<1>1. PICK S \in SUBSET Claimable : \E f \in [S -> FreeSlots(p, n)] : ClaimOutbox(p, n, f)
  BY DEF Claim
<1>2. PICK f \in [S -> FreeSlots(p, n)] : ClaimOutbox(p, n, f)
  BY <1>1
<1>3. DOMAIN f = S  OBVIOUS
<1>4. /\ box' = [i \in Item |-> IF i \in S THEN ClaimRow(box[i], n) ELSE box[i]]
      /\ mode' = mode /\ entries' = entries /\ taken' = taken /\ msg' = msg
      /\ Saved \/ Lost
  BY <1>2, <1>3 DEF ClaimOutbox, history
<1>5. \A i \in S : i \in Item /\ box[i].state = "pending" /\ \A t \in Thread : ~Holds(t, i)
  BY DEF Claimable, HoldInv, QueuedUnheld
<1>6. \A i \in Item : /\ i \in S => box'[i].state = "claimed" /\ box'[i].attempt = box[i].attempt + 1
                      /\ i \notin S => box'[i] = box[i]
  BY <1>4 DEF TypeOK, Row, ClaimRow
<1>7. \A t \in Thread :
        \/ \E i \in S : job'[t] = Started(i, box[i].attempt + 1)
        \/ job'[t] = job[t]
  <2>1. CASE job' = [t \in Thread |->
                     IF \E i \in S : f[i] = t
                       THEN LET i == CHOOSE k \in S : f[k] = t IN Started(i, box[i].attempt + 1)
                       ELSE job[t]]
    <3> SUFFICES ASSUME NEW t \in Thread
                 PROVE  \/ \E i \in S : job'[t] = Started(i, box[i].attempt + 1)
                        \/ job'[t] = job[t]
      OBVIOUS
    <3>1. CASE \E i \in S : f[i] = t
      <4> DEFINE k == CHOOSE i \in S : f[i] = t
      <4>1. k \in S  BY <3>1
      <4>2. job'[t] = Started(k, box[k].attempt + 1)  BY <2>1, <3>1
      <4> QED BY <4>1, <4>2
    <3>2. CASE ~\E i \in S : f[i] = t  BY <2>1, <3>2
    <3> QED BY <3>1, <3>2
  <2>2. CASE job' = job  BY <2>2
  <2> QED BY <1>2, <1>3, <2>1, <2>2 DEF ClaimOutbox
<1>8. \A t \in Thread :
        \/ /\ job'[t].pc = "lookup" /\ job'[t].cause = "none" /\ job'[t].item \in S
           /\ job'[t].attempt = box[job'[t].item].attempt + 1
        \/ job'[t] = job[t]
  <2>1. \A i, a : /\ Started(i, a).pc = "lookup" /\ Started(i, a).cause = "none"
                  /\ Started(i, a).item = i /\ Started(i, a).attempt = a
    BY DEF Started
  <2> QED BY <1>7, <2>1
<1>9. StoreEnded /\ MsgKept  BY <1>4, StoreCallEnds
<1>10. RefusalInv'
  <2>1. AllSilent
    BY <1>8 DEF AllSilent, Silent, RefusalInv, CausesFail, Failing
  <2>2. RejectsRefused  BY <1>4 DEF RejectsRefused
  <2> QED BY <1>4, <1>9, <2>1, <2>2, RefusalStep
<1>11. ToldInv'
  <2>0. faults' <= MaxFaults /\ (NoFault' => NoFault /\ faults' = faults)
    BY <1>9, StoreFaults, StillNoFault
  <2>1. SameAttempt'
    <3> SUFFICES ASSUME NEW t \in Thread, Busy(t)'
                 PROVE  job'[t].attempt = box'[job'[t].item].attempt
      BY DEF SameAttempt
    <3>1. CASE job'[t].item \in S /\ job'[t].attempt = box[job'[t].item].attempt + 1
      BY <1>5, <1>6, <3>1
    <3>2. CASE job'[t] = job[t]
      <4>1. Busy(t) /\ job[t].item \in Item /\ job[t].item \notin S
        BY <1>5, <3>2 DEF Busy, Holds, TypeOK, Job
      <4> QED BY <1>6, <3>2, <4>1 DEF ToldInv, SameAttempt
    <3> QED BY <1>8, <3>1, <3>2
  <2>2. ASSUME NoFault' PROVE OutcomeTold'
    <3>0. faults' = faults /\ OutcomeTold  BY <2>0, <2>2 DEF ToldInv
    <3>1. \A i \in Item : Tells(box'[i], msg'[i])
      BY <1>4, <1>6, <3>0 DEF Tells, OutcomeTold
    <3>2. \A i \in Item : Tells(disk'.box[i], disk'.msg[i])
      BY <1>9, <3>0, <3>1, StoreKept DEF OutcomeTold
    <3>3. ASSUME NEW i \in Item, box'[i].state \in Outcome, NEW t \in Thread PROVE ~Holds(t, i)'
      <4>1. i \notin S /\ box'[i] = box[i]  BY <1>6, <3>3 DEF Outcome
      <4>2. ~Holds(t, i)  BY <3>0, <3>3, <4>1 DEF OutcomeTold
      <4> QED BY <1>8, <4>1, <4>2 DEF Holds, Busy
    <3> QED BY <3>1, <3>2, <3>3 DEF OutcomeTold
  <2>3. ASSUME NoFault', NEW t \in Thread PROVE ToldBefore(t)'
    <3> SUFFICES ASSUME job'[t].pc \in {"failRow", "failBox"}, Terminal(job'[t])
                 PROVE  Cancelled(t)' \/ msg'[job'[t].item] \in {"UNDELIV", "REJECTD", "trimmed"}
      BY DEF ToldBefore, Terminal
    <3>1. job'[t] = job[t]  BY <1>8
    <3>2. Cancelled(t)' <=> Cancelled(t)  BY <1>4 DEF Cancelled
    <3> QED BY <1>4, <2>0, <2>3, <3>1, <3>2 DEF ToldInv, ToldBefore
  <2> QED BY <2>0, <2>1, <2>2, <2>3 DEF ToldInv
<1> QED BY <1>10, <1>11

\* Every step.
LEMMA TellStep ==
  ASSUME RefusalInv, ToldInv, PromiseInv, HoldInv, HoldInv', OwnerInv, TypeOK, TypeOK',
         ~ClaimOutlivesTimeout, [Next]_vars
  PROVE  RefusalInv' /\ ToldInv'
<1>0. /\ box \in [Item -> Row] /\ msg \in [Item -> MsgState] /\ job \in [Thread -> Job]
      /\ mode \in [Proc -> {"up", "stopping", "down"}]
      /\ faults \in Nat /\ faults' \in Nat
  BY DEF TypeOK
<1>b. \A t \in Thread : Busy(t) => job[t].item \in Item  BY DEF TypeOK, Job, Busy
<1>c. NoFault => OutcomeTold  BY DEF ToldInv
\* Rows change between the states without an outcome, where nobody holds them.
<1>d. ASSUME job' = job, mode' = mode, StoreEnded, MsgKept, entries' = entries, taken' = taken,
             \A i \in Item : \/ box'[i].state = box[i].state /\ box'[i].attempt = box[i].attempt
                             \/ box'[i].state \notin Outcome /\ \A t \in Thread : ~Holds(t, i),
             \A i \in Item : \/ msg'[i] \in {msg[i], "trimmed"}
                             \/ /\ msg'[i] # "REJECTD" /\ box'[i].state \notin Outcome
                                /\ \A t \in Thread : ~Holds(t, i)
      PROVE  RefusalInv' /\ ToldInv'
  <2>1. RejectsRefused  BY <1>d DEF RejectsRefused
  <2>2. RefusalInv'  BY <1>d, <2>1, SameSilent, RefusalStep
  <2>3. faults' <= faults  BY <1>d, StoreFaults
  <2>5. ASSUME faults' = faults, NoFault PROVE OutcomeTold'
    <3>0. OutcomeTold  BY <1>c, <2>5
    <3>1. \A i \in Item : Tells(box'[i], msg'[i])
      BY <1>d, <3>0 DEF OutcomeTold, Tells, Outcome
    <3>2. \A i \in Item : Tells(disk'.box[i], disk'.msg[i])
      BY <1>d, <2>5, <3>0, <3>1, StoreKept DEF OutcomeTold
    <3>3. \A i \in Item : box'[i].state \in Outcome => \A t \in Thread : ~Holds(t, i)'
      BY <1>d, <3>0 DEF OutcomeTold, Holds, Busy
    <3> QED BY <3>1, <3>2, <3>3 DEF OutcomeTold
  <2>6. \A t \in Thread : Bystander(t)
    BY <1>b, <1>d DEF Bystander, Holds, Busy, Cancelled
  <2>7. ToldInv'  BY <2>3, <2>5, <2>6, OtherTold
  <2> QED BY <2>2, <2>7
\* The store does not change, and goroutines end at most.
<1>e. ASSUME UNCHANGED <<store, faults>>, entries' = entries, taken' = taken,
             \A t \in Thread : job'[t] = FreeSlot \/ (job'[t] = job[t] /\ (Cancelled(t) /\ Busy(t) => Cancelled(t)'))
      PROVE  RefusalInv' /\ ToldInv'
  <2>1. box' = box /\ msg' = msg /\ disk' = disk /\ MsgKept  BY <1>e DEF store, MsgKept
  <2>2. AllSilent
    <3>1. FreeSlot.cause = "none" /\ FreeSlot.pc = "idle"  BY DEF FreeSlot
    <3>2. ASSUME NEW t \in Thread PROVE Silent(t, FreeSlot) /\ Silent(t, job[t])
      BY <3>1 DEF Silent, RefusalInv, CausesFail
    <3> QED BY <1>e, <3>2 DEF AllSilent
  <2>3. RejectsRefused  BY <2>1 DEF RejectsRefused
  <2>4. RefusalInv'  BY <1>e, <2>1, <2>2, <2>3, RefusalStep
  <2>5. \A t \in Thread : Busy(t)' => job'[t] = job[t] /\ (Cancelled(t) => Cancelled(t)')
    BY <1>e DEF Busy, FreeSlot
  <2>6. \A i \in Item, t \in Thread : Holds(t, i)' => Holds(t, i)
    BY <2>5 DEF Holds, Busy
  <2>7. faults' <= faults  BY <1>0, <1>e
  <2>8. \A t \in Thread : Bystander(t)  BY <2>1, <2>5 DEF Bystander
  <2>9. NoFault => OutcomeTold'  BY <1>c, <2>1, <2>6 DEF OutcomeTold
  <2>10. ToldInv'  BY <2>7, <2>8, <2>9, OtherTold
  <2> QED BY <2>4, <2>10
<1>1. ASSUME NEW p \in Proc, NEW i \in Item, Enqueue(p, i) PROVE RefusalInv' /\ ToldInv'
  <2>1. /\ box[i].state = "absent" /\ (Saved \/ Lost)
        /\ job' = job /\ mode' = mode /\ entries' = entries /\ taken' = taken
    BY <1>1 DEF Enqueue, history
  <2>2. /\ box'[i].state = "pending" /\ msg'[i] = "queued"
        /\ \A k \in Item : k # i => box'[k] = box[k] /\ msg'[k] = msg[k]
    BY <1>0, <1>1 DEF Enqueue, Row
  <2>3. \A t \in Thread : ~Holds(t, i)  BY <2>1 DEF HoldInv, QueuedUnheld
  <2>4. StoreEnded /\ MsgKept  BY <2>1, StoreCallEnds
  <2> QED BY <1>d, <2>1, <2>2, <2>3, <2>4 DEF Outcome
<1>2. ASSUME NEW i \in Item, BecomeDue(i) PROVE RefusalInv' /\ ToldInv'
  <2>1. /\ job' = job /\ mode' = mode /\ entries' = entries /\ taken' = taken /\ msg' = msg
        /\ faults' = faults
    BY <1>2 DEF BecomeDue, history, budget
  <2>2. \A k \in Item : box'[k].state = box[k].state /\ box'[k].attempt = box[k].attempt
    BY <1>0, <1>2 DEF BecomeDue, Row
  <2>3. disk'.msg = disk.msg /\ \A k \in Item : disk'.box[k].state = disk.box[k].state
    BY <1>2 DEF BecomeDue, TypeOK, Image, Row
  <2>4. RefusalInv'
    BY <2>1, <2>3, SameSilent, RefusalStep DEF RejectsRefused, MsgKept
  <2>5. ASSUME NoFault PROVE OutcomeTold'
    <3>1. OutcomeTold  BY <1>c, <2>5
    <3> QED BY <2>1, <2>2, <2>3, <3>1 DEF OutcomeTold, Tells, Holds, Busy
  <2>6. \A t \in Thread : Bystander(t)
    BY <1>b, <2>1, <2>2 DEF Bystander, Busy, Cancelled
  <2>7. faults' <= faults  BY <1>0, <2>1
  <2>8. ToldInv'  BY <2>5, <2>6, <2>7, OtherTold
  <2> QED BY <2>4, <2>8
<1>3. ASSUME NEW p \in Proc, NEW n \in Name, Claim(p, n) PROVE RefusalInv' /\ ToldInv'
  BY <1>3, TellClaim
<1>4. ASSUME NEW t \in Thread, ThreadStep(t) PROVE RefusalInv' /\ ToldInv'
  BY <1>4, TellThreadStep
<1>5. ASSUME NEW p \in Proc, NEW i \in Item, DeliverFailureReceipt(p, i) PROVE RefusalInv' /\ ToldInv'
  <2>1. /\ job' = job /\ mode' = mode /\ entries' = entries /\ taken' = taken /\ msg' = msg
        /\ box' = box /\ (Saved \/ Lost)
    BY <1>5 DEF DeliverFailureReceipt
  <2>2. StoreEnded /\ MsgKept  BY <2>1, StoreCallEnds
  <2> QED BY <1>d, <2>1, <2>2
<1>6. ASSUME NEW p \in Proc, Requeue(p) PROVE RefusalInv' /\ ToldInv'
  <2>1. PICK S \in SUBSET Stale : RequeueStaleOutbox(p, S)  BY <1>6 DEF Requeue
  <2>2. /\ box' = [i \in Item |-> IF i \in S
                THEN [box[i] EXCEPT !.state = "pending", !.owner = None, !.due = TRUE]
                ELSE box[i]]
        /\ job' = job /\ mode' = mode /\ entries' = entries /\ taken' = taken /\ msg' = msg
        /\ Saved \/ Lost
    BY <2>1 DEF RequeueStaleOutbox, history
  <2>3. \A i \in S : \A t \in Thread : ~Holds(t, i)  BY DEF Stale
  <2>4. \A i \in Item : \/ box'[i] = box[i]
                        \/ i \in S /\ box'[i].state = "pending"
    BY <1>0, <2>2 DEF Row
  <2>5. StoreEnded /\ MsgKept  BY <2>2, StoreCallEnds
  <2> QED BY <1>d, <2>2, <2>3, <2>4, <2>5 DEF Outcome
<1>7. CASE ReloadProviders
  BY <1>e, <1>7 DEF ReloadProviders, history, Cancelled
<1>8. ASSUME NEW i \in Item, TrimMessage(i) PROVE RefusalInv' /\ ToldInv'
  <2>1. /\ job' = job /\ mode' = mode /\ entries' = entries /\ taken' = taken /\ box' = box
        /\ Saved
    BY <1>8 DEF TrimMessage, history
  <2>2. \A k \in Item : msg'[k] \in {msg[k], "trimmed"}  BY <1>0, <1>8 DEF TrimMessage
  <2>3. StoreEnded /\ MsgKept  BY <2>1, StoreCallEnds
  <2> QED BY <1>d, <2>1, <2>2, <2>3
<1>9. ASSUME NEW p \in Proc, Stop(p) PROVE RefusalInv' /\ ToldInv'
  BY <1>0, <1>e, <1>9, ThreadAssumption DEF Stop, history, Cancelled
<1>10. ASSUME NEW p \in Proc, Exit(p) PROVE RefusalInv' /\ ToldInv'
  <2>1. \A t \in Thread : Busy(t) => ProcOf[t] # p /\ ProcOf[t] \in Proc
    BY <1>10, ThreadAssumption DEF Exit
  <2> QED BY <1>0, <1>e, <1>10, <2>1 DEF Exit, history, budget, Cancelled
<1>11. ASSUME NEW p \in Proc, Crash(p) PROVE RefusalInv' /\ ToldInv'
  <2>1. \A t \in Thread : job'[t] = IF ProcOf[t] = p THEN FreeSlot ELSE job[t]
    BY <1>11 DEF Crash
  <2> QED BY <1>0, <1>e, <1>11, <2>1, ThreadAssumption DEF Crash, history, Cancelled
<1>12. ASSUME NEW p \in Proc, Restart(p) PROVE RefusalInv' /\ ToldInv'
  <2>0. /\ job' = job /\ entries' = entries /\ taken' = taken /\ disk' = disk /\ faults' = faults
        /\ mode[p] = "down" /\ mode' = [mode EXCEPT ![p] = "up"]
    BY <1>12 DEF Restart, history, budget
  <2>1. CASE Driver = "postgres"
    <3>1. UNCHANGED <<store, faults>>  BY <1>12, <2>0, <2>1 DEF Restart, store
    <3>2. \A t \in Thread : Busy(t) => ProcOf[t] # p /\ ProcOf[t] \in Proc
      BY <2>0, ThreadAssumption DEF HoldInv, DownIsEmpty
    <3> QED BY <1>0, <1>e, <2>0, <3>1, <3>2 DEF Cancelled
  <2>2. CASE Driver = "file"
    <3>1. \A t \in Thread : ProcOf[t] = p  BY <2>2, ThreadAssumption, ConfigAssumption
    <3>2. \A t \in Thread : ~Busy(t)'  BY <2>0, <3>1 DEF HoldInv, DownIsEmpty, Busy
    <3>3. box' = [i \in Item |-> Loaded(disk.box[i])] /\ msg' = disk.msg
      BY <1>12, <2>2 DEF Restart
    <3>4. \A i \in Item : Loaded(disk.box[i]).state \in {disk.box[i].state, "pending"}
      BY DEF Loaded, TypeOK, Image, Row
    <3>5. RefusalInv'
      <4>1. RejectsRefused  BY <3>3 DEF RejectsRefused
      <4> QED BY <2>0, <4>1, SameSilent, RefusalStep DEF MsgKept
    <3>6. ASSUME NoFault PROVE OutcomeTold'
      <4>1. OutcomeTold  BY <1>c, <3>6
      <4> QED BY <2>0, <3>2, <3>3, <3>4, <4>1 DEF OutcomeTold, Tells, Holds
    <3>7. faults' <= faults  BY <1>0, <2>0
    <3>8. \A t \in Thread : Bystander(t)  BY <3>2 DEF Bystander
    <3>9. ToldInv'  BY <3>6, <3>7, <3>8, OtherTold
    <3> QED BY <3>5, <3>9
  <2> QED BY <2>1, <2>2, ConfigAssumption
<1>13. CASE UNCHANGED vars
  BY <1>e, <1>13 DEF vars, store, Cancelled
<1> QED BY <1>1, <1>2, <1>3, <1>4, <1>5, <1>6, <1>7, <1>8, <1>9, <1>10, <1>11, <1>12, <1>13
    DEF Next

LEMMA TellInit == Init => RefusalInv /\ ToldInv
<1> SUFFICES ASSUME Init PROVE RefusalInv /\ ToldInv
  OBVIOUS
<1>1. \A t \in Thread : job[t].pc = "idle" /\ job[t].cause = "none"  BY DEF Init, FreeSlot
<1>2. \A i \in Item : /\ entries[i] = 0 /\ taken[i] = 0
                      /\ msg[i] = "none" /\ disk.msg[i] = "none"
                      /\ box[i].state = "absent" /\ disk.box[i].state = "absent"
  BY DEF Init
<1>3. RefusalInv
  BY <1>1, <1>2 DEF RefusalInv, UntakenUntilSent, CausesFail, RejectedIsRefused
<1>4. faults <= MaxFaults /\ SameAttempt
  BY <1>1, BoundAssumption DEF Init, SameAttempt, Busy
<1>5. OutcomeTold /\ \A t \in Thread : ToldBefore(t)
  BY <1>1, <1>2 DEF OutcomeTold, Tells, Outcome, ToldBefore
<1> QED BY <1>3, <1>4, <1>5 DEF ToldInv

\* What the message says is true when claim_timeout exceeds the time a goroutine
\* can hold a claim, for both stores: REJECTD stands only for what the upstream has
\* refused, and without store failures the message tells the row's outcome as soon
\* as no goroutine works on the row, whatever crashes, shutdowns and sweeps happen.
THEOREM MessageIsTrue == ~ClaimOutlivesTimeout => (Spec => []MessageTellsOutcome)
<1> SUFFICES ASSUME ~ClaimOutlivesTimeout PROVE Spec => []MessageTellsOutcome
  OBVIOUS
<1>1. Init => HoldInv /\ PromiseInv /\ RefusalInv /\ ToldInv  BY HoldInit, PromiseInit, TellInit
<1>2. HoldInv /\ (TypeOK /\ OwnerInv) /\ (TypeOK /\ OwnerInv)' /\ [Next]_vars => HoldInv'
  BY HoldStep
<1>3. PromiseInv /\ HoldInv /\ (TypeOK /\ OwnerInv) /\ (TypeOK /\ OwnerInv)' /\ [Next]_vars => PromiseInv'
  BY PromiseEveryStep
<1>4. RefusalInv /\ ToldInv /\ PromiseInv /\ HoldInv /\ HoldInv'
      /\ (TypeOK /\ OwnerInv) /\ (TypeOK /\ OwnerInv)' /\ [Next]_vars => RefusalInv' /\ ToldInv'
  BY TellStep
<1>5. RefusalInv /\ ToldInv => MessageTellsOutcome
  BY DEF RefusalInv, RejectedIsRefused, Refused, ToldInv, OutcomeTold, Tells, NoFault,
     MessageTellsOutcome
<1> QED BY <1>1, <1>2, <1>3, <1>4, <1>5, OwnerInvariant, PTL DEF Spec
=============================================================================
