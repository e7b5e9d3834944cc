----------------------------- MODULE OutboxProofs -----------------------------
(***************************************************************************)
(* Type correctness of Outbox, and what the ownership checks of the store  *)
(* and the persisted "sending" guarantee, for every set of rows, processes, *)
(* slots and worker ids, and every value of the bounds.                    *)
(***************************************************************************)
EXTENDS Outbox, TLAPS

\* The updates of a goroutine's record keep its type.
LEMMA JobUpdate ==
  ASSUME NEW j \in Job, j.pc # "idle"
  PROVE  /\ \A s \in Step \ {"idle"} : [j EXCEPT !.pc = s] \in Job
         /\ \A n \in 0..2 : [j EXCEPT !.tries = n] \in Job
         /\ \A s \in Step \ {"idle"}, n \in 0..2 : [j EXCEPT !.pc = s, !.tries = n] \in Job
         /\ \A c \in Cause, n \in 0..2 : [j EXCEPT !.cause = c, !.tries = n] \in Job
         /\ \A c \in Cause, n \in 0..2 : [j EXCEPT !.cause = c, !.tries = n].pc # "idle"
         /\ \A s \in Step \ {"idle"} : [j EXCEPT !.pc = s, !.queued = TRUE] \in Job
<1>1. \A s \in Step \ {"idle"} : [j EXCEPT !.pc = s] \in Job  BY DEF Job
<1>2. \A n \in 0..2 : [j EXCEPT !.tries = n] \in Job  BY DEF Job
<1>3. \A s \in Step \ {"idle"}, n \in 0..2 : [j EXCEPT !.pc = s, !.tries = n] \in Job  BY DEF Job
<1>4. \A c \in Cause, n \in 0..2 : [j EXCEPT !.cause = c, !.tries = n] \in Job  BY DEF Job
<1>5. \A c \in Cause, n \in 0..2 : [j EXCEPT !.cause = c, !.tries = n].pc # "idle"  BY DEF Job
<1>6. \A s \in Step \ {"idle"} : [j EXCEPT !.pc = s, !.queued = TRUE] \in Job  BY DEF Job
<1> QED BY <1>1, <1>2, <1>3, <1>4, <1>5, <1>6

\* The goroutine states that the steps of processOutbox produce are typed.
LEMMA JobType ==
  ASSUME TypeOK, NEW t \in Thread
  PROVE  /\ job[t] \in Job
         /\ FreeSlot \in Job
         /\ \A i \in Item, a \in Nat : Started(i, a) \in Job
         /\ \A c \in Cause : job[t].pc # "idle" => BeginFail(job[t], c) \in Job
         /\ job[t].pc # "idle" => MarkFailed(t) \in Job
         /\ job[t].pc # "idle" => CompleteFailed(t) \subseteq Job
         /\ job[t].pc # "idle" => UncertainFailed(t) \subseteq Job
<1>1. job[t] \in Job  BY DEF TypeOK
<1>2. FreeSlot \in Job  BY DEF FreeSlot, Job, Step, Cause
<1>3. \A i \in Item, a \in Nat : Started(i, a) \in Job
  BY DEF Started, Job, Step, Cause
<1>4. 0 \in 0..2 /\ job[t].tries \in 0..2 /\ (job[t].tries < 2 => job[t].tries + 1 \in 0..2)
  BY <1>1 DEF Job
<1>5. ASSUME NEW c \in Cause, job[t].pc # "idle" PROVE BeginFail(job[t], c) \in Job
  <2> DEFINE k == [job[t] EXCEPT !.cause = c, !.tries = 0]
  <2>1. k \in Job /\ k.pc # "idle"  BY <1>1, <1>4, <1>5, JobUpdate
  <2> HIDE DEF k
  <2>2. {"failMsg", "failBox"} \subseteq Step \ {"idle"}  BY DEF Step
  <2>3. [k EXCEPT !.pc = IF Terminal(k) THEN "failMsg" ELSE "failBox"] \in Job
    BY <2>1, <2>2 DEF Job
  <2> QED BY <2>3 DEF BeginFail, k
<1>6. ASSUME job[t].pc # "idle" PROVE MarkFailed(t) \in Job
  <2>1. CASE job[t].tries < 2 /\ mode[ProcOf[t]] = "up"
    <3>1. "mark" \in Step \ {"idle"}  BY DEF Step
    <3>2. [job[t] EXCEPT !.pc = "mark", !.tries = job[t].tries + 1] \in Job
      BY <1>1, <1>4, <1>6, <2>1, <3>1, JobUpdate
    <3> QED BY <2>1, <3>2 DEF MarkFailed
  <2>2. CASE ~(job[t].tries < 2 /\ mode[ProcOf[t]] = "up")
    BY <1>2, <2>2 DEF MarkFailed
  <2> QED BY <2>1, <2>2
<1>7. ASSUME job[t].pc # "idle" PROVE CompleteFailed(t) \subseteq Job
  <2>1. "uncertain" \in Step \ {"idle"}  BY DEF Step
  <2>2. [job[t] EXCEPT !.pc = "uncertain", !.tries = 0] \in Job
    BY <1>1, <1>4, <1>7, <2>1, JobUpdate
  <2>3. job[t].tries < 2 => [job[t] EXCEPT !.tries = job[t].tries + 1] \in Job
    BY <1>1, <1>4, <1>7, <2>1, JobUpdate
  <2> QED BY <2>2, <2>3 DEF CompleteFailed
<1>8. ASSUME job[t].pc # "idle" PROVE UncertainFailed(t) \subseteq Job
  BY <1>1, <1>2, <1>8 DEF UncertainFailed, Job, Step
<1> QED BY <1>1, <1>2, <1>3, <1>5, <1>6, <1>7, <1>8

\* However a store call ends, what is durable and the fault count stay typed.
LEMMA StoreCallType ==
  ASSUME TypeOK, Saved \/ Lost,
         box' \in [Item -> Row], msg' \in [Item -> MsgState], failRow' \in [Item -> BOOLEAN]
  PROVE  disk' \in Image /\ faults' \in Nat
BY DEF TypeOK, Saved, Lost, Snapshot, Fault, Image

LEMMA CallFailsType ==
  ASSUME TypeOK, NEW t \in Thread, CallFails(t) \/ Unsaved
  PROVE  UNCHANGED store /\ faults' \in Nat
BY DEF TypeOK, CallFails, Unsaved, Fault


\* The updates of an outbox row keep its type.
LEMMA RowType ==
  ASSUME TypeOK, NEW i \in Item
  PROVE  /\ \A s \in RowState : [box EXCEPT ![i].state = s] \in [Item -> Row]
         /\ [box EXCEPT ![i].state = "pending", ![i].due = TRUE] \in [Item -> Row]
         /\ \A n \in Name : ClaimRow(box[i], n) \in Row
         /\ \A j \in Job : FailRow(i, j) \in Row
         /\ [box[i] EXCEPT !.state = "pending", !.owner = None, !.due = TRUE] \in Row
         /\ Loaded(disk.box[i]) \in Row
<1>1. box \in [Item -> Row] /\ box[i] \in Row  BY DEF TypeOK
<1>2. \A s \in RowState : [box EXCEPT ![i].state = s] \in [Item -> Row]  BY <1>1 DEF Row
<1>3. [box EXCEPT ![i].state = "pending", ![i].due = TRUE] \in [Item -> Row]
  BY <1>1 DEF Row, RowState
<1>4. ASSUME NEW n \in Name PROVE ClaimRow(box[i], n) \in Row
  <2>1. box[i].attempt + 1 \in Nat  BY <1>1 DEF Row
  <2>2. \A m \in Nat : [box[i] EXCEPT !.state = "claimed", !.owner = n, !.attempt = m, !.due = FALSE] \in Row
    BY <1>1 DEF Row, RowState
  <2> QED BY <2>1, <2>2 DEF ClaimRow
<1>5. \A j \in Job : FailRow(i, j) \in Row  BY <1>1 DEF Row, RowState, FailRow
<1>6. [box[i] EXCEPT !.state = "pending", !.owner = None, !.due = TRUE] \in Row
  BY <1>1 DEF Row, RowState
<1>7. disk.box[i] \in Row  BY DEF TypeOK, Image
<1>8. Loaded(disk.box[i]) \in Row  BY <1>7 DEF Row, RowState, Loaded
<1> QED BY <1>2, <1>3, <1>4, <1>5, <1>6, <1>8

\* Every step keeps the types.
LEMMA TypeStep == TypeOK /\ [Next]_vars => TypeOK'
<1> SUFFICES ASSUME TypeOK, [Next]_vars PROVE TypeOK'
  OBVIOUS
<1> USE ThreadAssumption
<1>1. ASSUME NEW p \in Proc, NEW i \in Item, Enqueue(p, i) PROVE TypeOK'
  <2>1. box' \in [Item -> Row] /\ msg' \in [Item -> MsgState] /\ failRow' \in [Item -> BOOLEAN]
    BY <1>1, RowType DEF Enqueue, TypeOK, MsgState
  <2>2. disk' \in Image /\ faults' \in Nat  BY <1>1, <2>1, StoreCallType DEF Enqueue
  <2> QED BY <1>1, <2>1, <2>2 DEF Enqueue, TypeOK, history
<1>2. ASSUME NEW i \in Item, BecomeDue(i) PROVE TypeOK'
  <2>1. box' \in [Item -> Row]  BY <1>2 DEF BecomeDue, TypeOK, Row
  <2>2. disk' \in Image
    <3>1. disk \in Image /\ disk.box \in [Item -> Row]  BY DEF TypeOK, Image
    <3>2. [disk.box EXCEPT ![i].due = TRUE] \in [Item -> Row]  BY <3>1 DEF Row
    <3>3. disk' = [disk EXCEPT !.box = [disk.box EXCEPT ![i].due = TRUE]]  BY <1>2 DEF BecomeDue
    <3> QED BY <3>1, <3>2, <3>3 DEF Image
  <2> QED BY <1>2, <2>1, <2>2 DEF BecomeDue, TypeOK, budget, history
<1>3. ASSUME NEW p \in Proc, NEW n \in Name, Claim(p, n) PROVE TypeOK'
  <2>0. PICK S \in SUBSET Claimable : \E f \in [S -> FreeSlots(p, n)] : ClaimOutbox(p, n, f)
    BY <1>3 DEF Claim
  <2>1. PICK f \in [S -> FreeSlots(p, n)] : ClaimOutbox(p, n, f)
    BY <2>0
  <2>2. DOMAIN f = S /\ S \subseteq Item  BY <2>1 DEF Claimable
  <2>3. box' \in [Item -> Row] /\ msg' \in [Item -> MsgState] /\ failRow' \in [Item -> BOOLEAN]
    BY <2>1, <2>2, RowType DEF ClaimOutbox, TypeOK
  <2>4. disk' \in Image /\ faults' \in Nat  BY <2>1, <2>3, StoreCallType DEF ClaimOutbox
  <2>5. job' \in [Thread -> Job]
    <3>1. CASE UNCHANGED job  BY <3>1 DEF TypeOK
    <3>2. CASE job' = [t \in Thread |->
                     IF \E i \in S : f[i] = t
                       THEN LET i == CHOOSE k \in S : f[k] = t IN Started(i, box[i].attempt + 1)
                       ELSE job[t]]
      <4> SUFFICES ASSUME NEW t \in Thread PROVE job'[t] \in Job
        BY <3>2
      <4>1. CASE ~\E i \in S : f[i] = t  BY <3>2, <4>1 DEF TypeOK
      <4>2. CASE \E i \in S : f[i] = t
        <5> DEFINE k == CHOOSE k \in S : f[k] = t
        <5>1. k \in S  BY <4>2
        <5>2. k \in Item /\ box[k].attempt + 1 \in Nat  BY <5>1, <2>2 DEF TypeOK, Row
        <5>3. job'[t] = Started(k, box[k].attempt + 1)  BY <3>2, <4>2
        <5> HIDE DEF k
        <5> QED BY <5>2, <5>3, JobType
      <4> QED BY <4>1, <4>2
    <3> QED BY <2>1, <2>2, <3>1, <3>2 DEF ClaimOutbox
  <2> QED BY <2>1, <2>3, <2>4, <2>5 DEF ClaimOutbox, TypeOK, history
<1>4. ASSUME NEW t \in Thread, ThreadStep(t) PROVE TypeOK'
  <2> DEFINE i == job[t].item
  <2>1. job[t].pc # "idle" /\ i \in Item
    BY <1>4 DEF TypeOK, Job, ThreadStep, AbandonClaim, LookupProvider, MarkOutboxSending,
       RecheckSending, EnterProvider, ProviderReturns, CompleteOutboxSend, MarkOutboxUncertain,
       FailMessage, SaveFailureReceipt, FailOutbox, DeleteFailureReceipt
  <2>2. job \in [Thread -> Job] /\ job[t] \in Job  BY DEF TypeOK
  <2>3. ASSUME NEW j \in Job, job' = [job EXCEPT ![t] = j] PROVE job' \in [Thread -> Job]
    BY <2>2, <2>3
  <2>4. 0 \in 0..2  OBVIOUS
  <2> HIDE DEF i
  <2>a. CASE AbandonClaim(t)
    <3>1. job' \in [Thread -> Job]  BY <2>a, <2>3, JobType DEF AbandonClaim
    <3> QED BY <2>a, <3>1 DEF AbandonClaim, TypeOK, store, budget, history
  <2>b. CASE LookupProvider(t)
    <3>1. [job[t] EXCEPT !.pc = "mark"] \in Job  BY <2>1, <2>2, JobUpdate DEF Step
    <3>2. BeginFail(job[t], "missing") \in Job  BY <2>1, JobType DEF Cause
    <3>3. job' \in [Thread -> Job]  BY <2>b, <2>2, <3>1, <3>2 DEF LookupProvider
    <3> QED BY <2>b, <3>3 DEF LookupProvider, TypeOK, store, budget, history
  <2>c. CASE MarkOutboxSending(t)
    <3>1. [job[t] EXCEPT !.pc = "call"] \in Job /\ [job[t] EXCEPT !.pc = "recheck"] \in Job
      BY <2>1, <2>2, JobUpdate DEF Step
    <3>2. job' \in [Thread -> Job]
      BY <2>c, <2>1, <2>2, <3>1, JobType DEF MarkOutboxSending
    <3>3. /\ box' \in [Item -> Row] /\ disk' \in Image /\ faults' \in Nat
          /\ msg' \in [Item -> MsgState] /\ failRow' \in [Item -> BOOLEAN]
      <4>1. CASE UNCHANGED store /\ faults' \in Nat  BY <4>1 DEF TypeOK, store
      <4>2. CASE /\ box' = [box EXCEPT ![i].state = "sending"]
                 /\ UNCHANGED <<msg, failRow>>
                 /\ Saved \/ Lost
        <5>1. box' \in [Item -> Row]  BY <4>2, <2>1, RowType DEF RowState
        <5> QED BY <4>2, <5>1, StoreCallType DEF TypeOK
      <4> QED BY <2>c, <4>1, <4>2, CallFailsType DEF MarkOutboxSending, TypeOK, i
    <3> QED BY <2>c, <3>2, <3>3 DEF MarkOutboxSending, TypeOK, history
  <2>d. CASE RecheckSending(t)
    <3>1. [job[t] EXCEPT !.pc = "call"] \in Job  BY <2>1, <2>2, JobUpdate DEF Step
    <3>2. job' \in [Thread -> Job]
      BY <2>d, <2>1, <2>2, <3>1, JobType DEF RecheckSending
    <3>3. UNCHANGED store /\ faults' \in Nat
      BY <2>d, CallFailsType DEF RecheckSending, TypeOK
    <3> QED BY <2>d, <3>2, <3>3 DEF RecheckSending, TypeOK, store, history
  <2>e. CASE EnterProvider(t)
    <3>1. [job[t] EXCEPT !.pc = "inflight"] \in Job  BY <2>1, <2>2, JobUpdate DEF Step
    <3>2. job' \in [Thread -> Job]  BY <2>e, <2>2, <3>1 DEF EnterProvider
    <3>3. entries' \in [Item -> Nat] /\ entrants' \in [Item -> SUBSET Name]
      BY <2>e, <2>1 DEF EnterProvider, TypeOK, i
    <3> QED BY <2>e, <3>2, <3>3 DEF EnterProvider, TypeOK, store, budget
  <2>f. CASE ProviderReturns(t)
    <3>1. /\ [job[t] EXCEPT !.pc = "complete", !.tries = 0] \in Job
          /\ [job[t] EXCEPT !.pc = "uncertain", !.tries = 0] \in Job
      BY <2>1, <2>2, <2>4, JobUpdate DEF Step
    <3>2. BeginFail(job[t], "rejected") \in Job /\ BeginFail(job[t], "timeout") \in Job
      BY <2>1, JobType DEF Cause
    <3>3. job' \in [Thread -> Job]  BY <2>f, <2>2, <3>1, <3>2 DEF ProviderReturns
    <3>4. Segments[i] \in Nat  BY <2>1
    <3>5. \A k \in Nat : Took(i, k) => taken' \in [Item -> Nat]  BY <2>1 DEF Took, TypeOK
    <3>6. taken' \in [Item -> Nat]  BY <2>f, <3>4, <3>5 DEF ProviderReturns, i
    <3> QED BY <2>f, <3>3, <3>6 DEF ProviderReturns, TypeOK, store, budget
  <2>g. CASE CompleteOutboxSend(t)
    <3>1. job' \in [Thread -> Job]
      BY <2>g, <2>1, <2>2, JobType DEF CompleteOutboxSend
    <3>2. /\ box' \in [Item -> Row] /\ disk' \in Image /\ faults' \in Nat
          /\ msg' \in [Item -> MsgState] /\ failRow' \in [Item -> BOOLEAN]
      <4>1. CASE UNCHANGED store /\ faults' \in Nat  BY <4>1 DEF TypeOK, store
      <4>2. CASE /\ box' = [box EXCEPT ![i].state = "done"] \/ UNCHANGED box
                 /\ msg' = [msg EXCEPT ![i] = "sent"] \/ UNCHANGED msg
                 /\ UNCHANGED failRow
                 /\ Saved \/ Lost
        <5>1. box' \in [Item -> Row]
          <6>1. CASE UNCHANGED box  BY <6>1 DEF TypeOK
          <6>2. CASE box' = [box EXCEPT ![i].state = "done"]  BY <2>1, <6>2, RowType DEF RowState
          <6> QED BY <4>2, <6>1, <6>2
        <5>2. msg' \in [Item -> MsgState]  BY <4>2, <2>1 DEF MsgState, TypeOK
        <5> QED BY <4>2, <5>1, <5>2, StoreCallType DEF TypeOK
      <4> QED BY <2>g, <4>1, <4>2, CallFailsType DEF CompleteOutboxSend, TypeOK, i
    <3> QED BY <2>g, <3>1, <3>2 DEF CompleteOutboxSend, TypeOK, history
  <2>h. CASE MarkOutboxUncertain(t)
    <3>1. job' \in [Thread -> Job]
      BY <2>h, <2>1, <2>2, JobType DEF MarkOutboxUncertain
    <3>2. /\ box' \in [Item -> Row] /\ disk' \in Image /\ faults' \in Nat
          /\ msg' \in [Item -> MsgState] /\ failRow' \in [Item -> BOOLEAN]
      <4>1. CASE UNCHANGED store /\ faults' \in Nat  BY <4>1 DEF TypeOK, store
      <4>2. CASE /\ box' = [box EXCEPT ![i].state = "uncertain"]
                 /\ msg' = [msg EXCEPT ![i] = IF @ = "trimmed" THEN @ ELSE "UNKNOWN"]
                 /\ UNCHANGED failRow
                 /\ Saved \/ Lost
        <5>1. box' \in [Item -> Row]  BY <4>2, <2>1, RowType DEF RowState
        <5>2. msg' \in [Item -> MsgState]  BY <4>2, <2>1 DEF MsgState, TypeOK
        <5> QED BY <4>2, <5>1, <5>2, StoreCallType DEF TypeOK
      <4> QED BY <2>h, <4>1, <4>2, CallFailsType DEF MarkOutboxUncertain, TypeOK, i
    <3> QED BY <2>h, <3>1, <3>2 DEF MarkOutboxUncertain, TypeOK, history
  <2>i. CASE FailMessage(t)
    <3>1. [job[t] EXCEPT !.pc = "failRow"] \in Job /\ [job[t] EXCEPT !.pc = "failBox"] \in Job
      BY <2>1, <2>2, JobUpdate DEF Step
    <3>2. job' \in [Thread -> Job]  BY <2>i, <2>2, <3>1 DEF FailMessage
    <3>3. /\ box' \in [Item -> Row] /\ disk' \in Image /\ faults' \in Nat
          /\ msg' \in [Item -> MsgState] /\ failRow' \in [Item -> BOOLEAN]
      <4>1. CASE UNCHANGED store /\ faults' \in Nat  BY <4>1 DEF TypeOK, store
      <4>2. CASE /\ msg' = [msg EXCEPT ![i] = FailureState(job[t].cause)]
                 /\ UNCHANGED <<box, failRow>>
                 /\ Saved \/ Lost
        <5>1. msg' \in [Item -> MsgState]  BY <4>2, <2>1 DEF MsgState, TypeOK, FailureState
        <5> QED BY <4>2, <5>1, StoreCallType DEF TypeOK
      <4> QED BY <2>i, <4>1, <4>2, CallFailsType DEF FailMessage, TypeOK, i
    <3> QED BY <2>i, <3>2, <3>3 DEF FailMessage, TypeOK, history
  <2>j. CASE SaveFailureReceipt(t)
    <3>1. [job[t] EXCEPT !.pc = "failBox"] \in Job
          /\ [job[t] EXCEPT !.pc = "failBox", !.queued = TRUE] \in Job
      BY <2>1, <2>2, JobUpdate DEF Step
    <3>2. job' \in [Thread -> Job]  BY <2>j, <2>2, <3>1 DEF SaveFailureReceipt
    <3>3. /\ box' \in [Item -> Row] /\ disk' \in Image /\ faults' \in Nat
          /\ msg' \in [Item -> MsgState] /\ failRow' \in [Item -> BOOLEAN]
      <4>1. CASE UNCHANGED store /\ faults' \in Nat  BY <4>1 DEF TypeOK, store
      <4>2. CASE /\ failRow' = [failRow EXCEPT ![i] = TRUE]
                 /\ UNCHANGED <<box, msg>>
                 /\ Saved \/ Lost
        <5>1. failRow' \in [Item -> BOOLEAN]  BY <4>2, <2>1 DEF TypeOK
        <5> QED BY <4>2, <5>1, StoreCallType DEF TypeOK
      <4> QED BY <2>j, <4>1, <4>2, CallFailsType DEF SaveFailureReceipt, TypeOK, i
    <3> QED BY <2>j, <3>2, <3>3 DEF SaveFailureReceipt, TypeOK, history
  <2>k. CASE FailOutbox(t)
    <3>1. [job[t] EXCEPT !.pc = "undo"] \in Job  BY <2>1, <2>2, JobUpdate DEF Step
    <3>2. job' \in [Thread -> Job]  BY <2>k, <2>2, <3>1, JobType DEF FailOutbox
    <3>3. /\ box' \in [Item -> Row] /\ disk' \in Image /\ faults' \in Nat
          /\ msg' \in [Item -> MsgState] /\ failRow' \in [Item -> BOOLEAN]
      <4>1. CASE UNCHANGED store /\ faults' \in Nat  BY <4>1 DEF TypeOK, store
      <4>2. CASE /\ box' = [box EXCEPT ![i] = FailRow(i, job[t])]
                 /\ UNCHANGED <<msg, failRow>>
                 /\ Saved \/ Lost
        <5>1. FailRow(i, job[t]) \in Row  BY <2>1, <2>2, RowType
        <5>2. box' \in [Item -> Row]  BY <4>2, <5>1 DEF TypeOK
        <5> QED BY <4>2, <5>2, StoreCallType DEF TypeOK
      <4> QED BY <2>k, <4>1, <4>2, CallFailsType DEF FailOutbox, TypeOK, i
    <3> QED BY <2>k, <3>2, <3>3 DEF FailOutbox, TypeOK, history
  <2>l. CASE DeleteFailureReceipt(t)
    <3>1. job' \in [Thread -> Job]  BY <2>l, <2>3, JobType DEF DeleteFailureReceipt
    <3>2. /\ box' \in [Item -> Row] /\ disk' \in Image /\ faults' \in Nat
          /\ msg' \in [Item -> MsgState] /\ failRow' \in [Item -> BOOLEAN]
      <4>1. CASE UNCHANGED store /\ faults' \in Nat  BY <4>1 DEF TypeOK, store
      <4>2. CASE /\ failRow' = [failRow EXCEPT ![i] = FALSE]
                 /\ UNCHANGED <<box, msg>>
                 /\ Saved \/ Lost
        <5>1. failRow' \in [Item -> BOOLEAN]  BY <4>2, <2>1 DEF TypeOK
        <5> QED BY <4>2, <5>1, StoreCallType DEF TypeOK
      <4> QED BY <2>l, <4>1, <4>2, CallFailsType DEF DeleteFailureReceipt, TypeOK, i
    <3> QED BY <2>l, <3>1, <3>2 DEF DeleteFailureReceipt, TypeOK, history
  <2> QED BY <1>4, <2>a, <2>b, <2>c, <2>d, <2>e, <2>f, <2>g, <2>h, <2>i, <2>j, <2>k, <2>l
      DEF ThreadStep
<1>5. ASSUME NEW p \in Proc, NEW i \in Item, DeliverFailureReceipt(p, i) PROVE TypeOK'
  <2>1. box' \in [Item -> Row] /\ msg' \in [Item -> MsgState] /\ failRow' \in [Item -> BOOLEAN]
    BY <1>5 DEF DeliverFailureReceipt, TypeOK
  <2>2. disk' \in Image /\ faults' \in Nat  BY <1>5, <2>1, StoreCallType DEF DeliverFailureReceipt
  <2> QED BY <1>5, <2>1, <2>2 DEF DeliverFailureReceipt, TypeOK
<1>6. ASSUME NEW p \in Proc, Requeue(p) PROVE TypeOK'
  <2>1. PICK S \in SUBSET Stale : RequeueStaleOutbox(p, S)  BY <1>6 DEF Requeue
  <2>2. box' \in [Item -> Row] /\ msg' \in [Item -> MsgState] /\ failRow' \in [Item -> BOOLEAN]
    BY <2>1, RowType DEF RequeueStaleOutbox, TypeOK
  <2>3. disk' \in Image /\ faults' \in Nat  BY <2>1, <2>2, StoreCallType DEF RequeueStaleOutbox
  <2> QED BY <2>1, <2>2, <2>3 DEF RequeueStaleOutbox, TypeOK, history
<1>7. CASE ReloadProviders
  BY <1>7 DEF ReloadProviders, TypeOK, store, history
<1>8. ASSUME NEW i \in Item, TrimMessage(i) PROVE TypeOK'
  <2>1. box' \in [Item -> Row] /\ msg' \in [Item -> MsgState] /\ failRow' \in [Item -> BOOLEAN]
    BY <1>8 DEF TrimMessage, TypeOK, MsgState
  <2>2. disk' \in Image /\ faults' \in Nat  BY <1>8, <2>1, StoreCallType DEF TrimMessage
  <2> QED BY <1>8, <2>1, <2>2 DEF TrimMessage, TypeOK, history
<1>9. ASSUME NEW p \in Proc, Stop(p) PROVE TypeOK'
  BY <1>9 DEF Stop, TypeOK, store, history
<1>10. ASSUME NEW p \in Proc, Exit(p) PROVE TypeOK'
  BY <1>10 DEF Exit, TypeOK, store, budget, history
<1>11. ASSUME NEW p \in Proc, Crash(p) PROVE TypeOK'
  <2>1. job' \in [Thread -> Job]  BY <1>11, JobType DEF Crash, TypeOK
  <2> QED BY <1>11, <2>1 DEF Crash, TypeOK, store, history
<1>12. ASSUME NEW p \in Proc, Restart(p) PROVE TypeOK'
  <2>1. box' \in [Item -> Row]  BY <1>12, RowType DEF Restart, TypeOK
  <2>2. msg' \in [Item -> MsgState] /\ failRow' \in [Item -> BOOLEAN]
    BY <1>12 DEF Restart, TypeOK, Image
  <2> QED BY <1>12, <2>1, <2>2 DEF Restart, TypeOK, budget, history
<1>13. CASE UNCHANGED vars
  BY <1>13 DEF vars, TypeOK
<1> QED BY <1>1, <1>2, <1>3, <1>4, <1>5, <1>6, <1>7, <1>8, <1>9, <1>10, <1>11, <1>12, <1>13
    DEF Next

\* Rows, goroutines and counters of the outbox are typed in every behaviour
\* of the dispatcher and the store, for any number of them.
THEOREM TypeCorrect == Spec => []TypeOK
<1>1. Init => TypeOK
  BY ThreadAssumption, BoundAssumption
  DEF Init, TypeOK, Row, RowState, MsgState, Image, FreeSlot, Job, Step, Cause
<1> QED BY <1>1, TypeStep, PTL DEF Spec

-----------------------------------------------------------------------------
(***************************************************************************)
(* Ownership.                                                              *)
(***************************************************************************)
\* A goroutine that has passed MarkOutboxSending.
SenderJob(j) ==
  \/ j.pc \in {"call", "inflight", "complete", "uncertain"}
  \/ j.pc # "idle" /\ j.cause \in {"rejected", "timeout"}

Sender(t) == SenderJob(job[t])

SendersCommitted ==
  \A t \in Thread : Sender(t) => disk.box[job[t].item].state \in Committed

EntriesCommitted ==
  \A i \in Item : disk.box[i].state \notin Committed => entries[i] = 0 /\ entrants[i] = {}

\* What is durable holds in memory too, and Postgres has no other memory.
DiskFollows ==
  /\ \A i \in Item : disk.box[i].state \in Committed => box[i].state \in Committed
  /\ Driver = "postgres" => disk.box = box

\* While a row is "sending", everybody who entered or may still enter the
\* provider for it goes by the name in claimed_by.
OwnedBy(row, i) ==
  row.state = "sending" =>
    /\ entrants[i] \subseteq {row.owner}
    /\ \A t \in Thread : Sender(t) /\ job[t].item = i => NameOf[t] = row.owner

SendingOwned == \A i \in Item : OwnedBy(box[i], i) /\ OwnedBy(disk.box[i], i)

SendersAgree ==
  \A t \in Thread : Sender(t) =>
    /\ entrants[job[t].item] \subseteq {NameOf[t]}
    /\ \A u \in Thread : Sender(u) /\ job[u].item = job[t].item => NameOf[u] = NameOf[t]

\* Only the Postgres store reads a row again after an UPDATE missed it.
RecheckIsPostgres == \A t \in Thread : job[t].pc = "recheck" => Driver = "postgres"

OwnerInv ==
  /\ RecheckIsPostgres
  /\ SendersCommitted
  /\ EntriesCommitted
  /\ DiskFollows
  /\ SendingOwned
  /\ SendersAgree
  /\ OneWorkerIdEnters

-----------------------------------------------------------------------------
\* What most steps do to goroutines, to rows and to what is durable: no
\* goroutine passes MarkOutboxSending, no row becomes "sending" or comes back
\* from it, and the durable rows are those in memory or, in the file store,
\* stay as they are.
QuietJob(t, j) ==
  /\ SenderJob(j) => Sender(t) /\ j.item = job[t].item
  /\ j.pc = "recheck" => Driver = "postgres"

QuietJobs == \A t \in Thread : QuietJob(t, job'[t])

QuietBox ==
  \A i \in Item : \/ box'[i].state = box[i].state /\ box'[i].owner = box[i].owner
                  \/ /\ box'[i].state # "sending"
                     /\ box[i].state \in Committed => box'[i].state \in Committed

DiskStep ==
  \/ disk'.box = box'
  \/ /\ Driver = "file"
     /\ \A i \in Item : /\ disk'.box[i].state = disk.box[i].state
                        /\ disk'.box[i].owner = disk.box[i].owner

\* A durable "sending", or what became of it, is not taken back.
ClosedStep ==
  \A i \in Item : disk.box[i].state \in Committed => disk'.box[i].state \in Committed

\* A quiet step keeps the invariant.
LEMMA QuietStep ==
  ASSUME OwnerInv, TypeOK, TypeOK', entries' = entries, entrants' = entrants,
         QuietJobs, QuietBox, DiskStep
  PROVE  OwnerInv' /\ ClosedStep
<1> USE DEF QuietJobs, QuietJob, QuietBox, DiskStep, Sender
<1>0. RecheckIsPostgres'  BY DEF RecheckIsPostgres
<1>1. \A t \in Thread : Sender(t) => job[t].item \in Item
  BY DEF SenderJob, TypeOK, Job
<1>2. \A i \in Item : disk'.box[i].state \in Committed => box'[i].state \in Committed
  BY DEF OwnerInv, DiskFollows
<1>3. \A i \in Item : disk.box[i].state \in Committed => disk'.box[i].state \in Committed
  BY DEF OwnerInv, DiskFollows
<1>4. SendersCommitted'  BY <1>1, <1>3 DEF OwnerInv, SendersCommitted
<1>5. EntriesCommitted'  BY <1>3 DEF OwnerInv, EntriesCommitted
<1>6. DiskFollows'  BY <1>2, ConfigAssumption DEF DiskFollows
<1>7. SendersAgree'  BY DEF OwnerInv, SendersAgree
<1>8. ASSUME NEW i \in Item PROVE OwnedBy(box[i], i)' /\ OwnedBy(disk.box[i], i)'
  <2>1. OwnedBy(box[i], i) /\ OwnedBy(disk.box[i], i)  BY DEF OwnerInv, SendingOwned
  <2>2. OwnedBy(box[i], i)'  BY <2>1 DEF OwnedBy
  <2>3. OwnedBy(disk.box[i], i)'  BY <2>1, <2>2 DEF OwnedBy
  <2> QED BY <2>2, <2>3
<1>9. SendingOwned'  BY <1>8 DEF SendingOwned
<1> QED BY <1>0, <1>3, <1>4, <1>5, <1>6, <1>7, <1>9 DEF OwnerInv, OneWorkerIdEnters, ClosedStep

\* MarkOutboxSending took effect on a row that the goroutine's worker id owns.
\* The goroutine goes on to the provider only if that is durable.
LEMMA MarkStep ==
  ASSUME OwnerInv, TypeOK, TypeOK',
         entries' = entries, entrants' = entrants,
         RecheckIsPostgres',
         NEW t \in Thread, NEW i \in Item, job[t].item = i,
         OwnedIn(i, NameOf[t], {"claimed", "sending"}),
         box' = [box EXCEPT ![i].state = "sending"],
         \A u \in Thread : Sender(u)' => /\ job'[u].item = job[u].item
                                         /\ Sender(u) \/ u = t,
         Sender(t)' => disk'.box = box' \/ Sender(t),
         disk'.box = box' \/ (Driver = "file" /\ disk'.box = disk.box)
  PROVE  OwnerInv' /\ ClosedStep
<1>1. \A u \in Thread : Sender(u) => job[u].item \in Item
  BY DEF Sender, SenderJob, TypeOK, Job
<1>2. /\ box'[i].state = "sending" /\ box'[i].owner = NameOf[t]
      /\ \A k \in Item : k # i => box'[k] = box[k]
  BY DEF TypeOK, Row, OwnedIn
<1>3. /\ entrants[i] \subseteq {NameOf[t]}
      /\ \A u \in Thread : Sender(u) /\ job[u].item = i => NameOf[u] = NameOf[t]
  <2>1. CASE box[i].state = "sending"
    BY <2>1 DEF OwnerInv, SendingOwned, OwnedBy, OwnedIn
  <2>2. CASE box[i].state = "claimed"
    <3>1. disk.box[i].state \notin Committed  BY <2>2 DEF OwnerInv, DiskFollows, Committed
    <3> QED BY <3>1 DEF OwnerInv, EntriesCommitted, SendersCommitted
  <2> QED BY <2>1, <2>2 DEF OwnedIn
<1>4. \A k \in Item : box[k].state \in Committed => box'[k].state \in Committed
  BY <1>2 DEF Committed
<1>5. \A k \in Item : disk.box[k].state \in Committed => disk'.box[k].state \in Committed
  BY <1>4 DEF OwnerInv, DiskFollows
<1>6. SendersCommitted'
  BY <1>1, <1>2, <1>5 DEF OwnerInv, SendersCommitted, Committed
<1>7. EntriesCommitted'  BY <1>5 DEF OwnerInv, EntriesCommitted
<1>8. DiskFollows'  BY <1>4, ConfigAssumption DEF OwnerInv, DiskFollows
<1>9. SendersAgree'
  <2> SUFFICES ASSUME NEW u \in Thread, Sender(u)'
               PROVE  /\ entrants[job[u].item] \subseteq {NameOf[u]}
                      /\ \A v \in Thread : Sender(v)' /\ job[v].item = job[u].item
                                             => NameOf[v] = NameOf[u]
    BY DEF SendersAgree
  <2>1. CASE job[u].item = i
    BY <1>3, <2>1
  <2>2. CASE job[u].item # i
    BY <2>2 DEF OwnerInv, SendersAgree
  <2> QED BY <2>1, <2>2
<1>10. ASSUME NEW k \in Item PROVE OwnedBy(box[k], k)' /\ OwnedBy(disk.box[k], k)'
  <2>1. OwnedBy(box[k], k) /\ OwnedBy(disk.box[k], k)  BY DEF OwnerInv, SendingOwned
  <2>2. OwnedBy(box[k], k)'
    <3>1. CASE k = i  BY <1>2, <1>3, <3>1 DEF OwnedBy
    <3>2. CASE k # i  BY <1>2, <2>1, <3>2 DEF OwnedBy
    <3> QED BY <3>1, <3>2
  <2>3. OwnedBy(disk.box[k], k)'
    <3>1. CASE disk'.box = box'
      <4>1. disk'.box[k] = box'[k]  BY <3>1
      <4> QED BY <2>2, <4>1 DEF OwnedBy
    <3>2. CASE disk'.box = disk.box /\ (Sender(t)' => Sender(t))
      <4>1. disk'.box[k] = disk.box[k]  BY <3>2
      <4>2. \A u \in Thread : Sender(u)' => Sender(u) /\ job'[u].item = job[u].item
        BY <3>2
      <4> QED BY <2>1, <4>1, <4>2 DEF OwnedBy
    <3> QED BY <3>1, <3>2
  <2> QED BY <2>2, <2>3
<1>11. SendingOwned'  BY <1>10 DEF SendingOwned
<1> QED BY <1>5, <1>6, <1>7, <1>8, <1>9, <1>11 DEF OwnerInv, OneWorkerIdEnters, ClosedStep

-----------------------------------------------------------------------------
(***************************************************************************)
(* The quiet steps.                                                        *)
(***************************************************************************)

\* How a store call ends decides what is durable.
LEMMA StoreEnd ==
  ASSUME OwnerInv, Saved \/ Lost
  PROVE  DiskStep
BY ConfigAssumption DEF DiskStep, Saved, Lost, Snapshot

LEMMA StoreIdle ==
  ASSUME OwnerInv, disk' = disk, box' = box
  PROVE  DiskStep /\ QuietBox
BY ConfigAssumption DEF DiskStep, QuietBox, OwnerInv, DiskFollows

LEMMA CallEnd ==
  ASSUME OwnerInv, NEW t \in Thread, CallFails(t) \/ Unsaved
  PROVE  disk' = disk /\ box' = box
BY DEF CallFails, Unsaved, store

LEMMA SameJobs ==
  ASSUME OwnerInv, job' = job
  PROVE  QuietJobs
BY DEF QuietJobs, QuietJob, Sender, OwnerInv, RecheckIsPostgres

\* A step of one goroutine concerns that goroutine only.
LEMMA OneJob ==
  ASSUME OwnerInv, TypeOK, NEW t \in Thread, NEW j, QuietJob(t, j), job' = [job EXCEPT ![t] = j]
  PROVE  QuietJobs
<1>1. job'[t] = j /\ \A u \in Thread : u # t => job'[u] = job[u]
  BY DEF TypeOK
<1> QED BY <1>1 DEF QuietJobs, QuietJob, Sender, OwnerInv, RecheckIsPostgres

\* The goroutine states that follow a failing call or a refusal.
LEMMA QuietUpdates ==
  ASSUME OwnerInv, TypeOK, NEW t \in Thread, job[t].pc # "idle"
  PROVE  /\ QuietJob(t, FreeSlot)
         /\ QuietJob(t, MarkFailed(t))
         /\ QuietJob(t, BeginFail(job[t], "missing"))
         /\ \A s \in {"mark", "failRow", "failBox", "undo"} : QuietJob(t, [job[t] EXCEPT !.pc = s])
         /\ QuietJob(t, [job[t] EXCEPT !.pc = "failBox", !.queued = TRUE])
<1>1. job[t] \in Job  BY DEF TypeOK
<1>2. QuietJob(t, FreeSlot)  BY DEF QuietJob, SenderJob, FreeSlot
<1>3. QuietJob(t, MarkFailed(t))
  BY <1>1, <1>2 DEF QuietJob, SenderJob, Sender, MarkFailed, Job
<1>4. QuietJob(t, BeginFail(job[t], "missing"))
  BY <1>1 DEF QuietJob, SenderJob, BeginFail, Job
<1>5. \A s \in {"mark", "failRow", "failBox", "undo"} : QuietJob(t, [job[t] EXCEPT !.pc = s])
  BY <1>1 DEF QuietJob, SenderJob, Sender, Job
<1>6. QuietJob(t, [job[t] EXCEPT !.pc = "failBox", !.queued = TRUE])
  BY <1>1 DEF QuietJob, SenderJob, Sender, Job
<1> QED BY <1>2, <1>3, <1>4, <1>5, <1>6

\* The goroutine states that follow the provider call.
LEMMA QuietResults ==
  ASSUME OwnerInv, TypeOK, NEW t \in Thread, Sender(t)
  PROVE  /\ QuietJob(t, [job[t] EXCEPT !.pc = "complete", !.tries = 0])
         /\ QuietJob(t, [job[t] EXCEPT !.pc = "uncertain", !.tries = 0])
         /\ \A c \in {"rejected", "timeout"} : QuietJob(t, BeginFail(job[t], c))
         /\ job[t].pc # "recheck" => \A j \in CompleteFailed(t) : QuietJob(t, j)
         /\ job[t].pc # "recheck" => \A j \in UncertainFailed(t) : QuietJob(t, j)
<1>1. job[t] \in Job  BY DEF TypeOK
<1>2. QuietJob(t, [job[t] EXCEPT !.pc = "complete", !.tries = 0])
  BY <1>1 DEF QuietJob, Job
<1>3. QuietJob(t, [job[t] EXCEPT !.pc = "uncertain", !.tries = 0])
  BY <1>1 DEF QuietJob, Job
<1>4. ASSUME NEW c \in {"rejected", "timeout"} PROVE QuietJob(t, BeginFail(job[t], c))
  BY <1>1 DEF QuietJob, BeginFail, Job
<1>5. ASSUME job[t].pc # "recheck" PROVE \A j \in CompleteFailed(t) : QuietJob(t, j)
  <2>1. QuietJob(t, [job[t] EXCEPT !.tries = @ + 1])  BY <1>1, <1>5 DEF QuietJob, Job
  <2> QED BY <1>3, <2>1 DEF CompleteFailed
<1>6. ASSUME job[t].pc # "recheck" PROVE \A j \in UncertainFailed(t) : QuietJob(t, j)
  <2>1. QuietJob(t, [job[t] EXCEPT !.tries = @ + 1])  BY <1>1, <1>6 DEF QuietJob, Job
  <2>2. QuietJob(t, FreeSlot)  BY DEF QuietJob, SenderJob, FreeSlot
  <2> QED BY <2>1, <2>2 DEF UncertainFailed
<1> QED BY <1>2, <1>3, <1>4, <1>5, <1>6


-----------------------------------------------------------------------------
(***************************************************************************)
(* The invariant is inductive.                                             *)
(***************************************************************************)

\* The steps of a goroutine.
LEMMA OwnerThreadStep ==
  ASSUME OwnerInv, TypeOK, TypeOK', NEW t \in Thread, ThreadStep(t)
  PROVE  OwnerInv' /\ ClosedStep
<1> DEFINE i == job[t].item
<1>1. job[t].pc # "idle" /\ i \in Item
  BY DEF TypeOK, Job, ThreadStep, AbandonClaim, LookupProvider, MarkOutboxSending,
     RecheckSending, EnterProvider, ProviderReturns, CompleteOutboxSend, MarkOutboxUncertain,
     FailMessage, SaveFailureReceipt, FailOutbox, DeleteFailureReceipt
<1>2. box \in [Item -> Row] /\ box[i] \in Row /\ job \in [Thread -> Job] /\ job[t] \in Job
  BY <1>1 DEF TypeOK
<1> HIDE DEF i
<1>a. CASE AbandonClaim(t)
  <2>1. QuietJobs  BY <1>a, <1>1, QuietUpdates, OneJob DEF AbandonClaim
  <2>2. disk' = disk /\ box' = box /\ entries' = entries /\ entrants' = entrants
    BY <1>a DEF AbandonClaim, store, history
  <2> QED BY <2>1, <2>2, StoreIdle, QuietStep
<1>b. CASE LookupProvider(t)
  <2>1. QuietJobs
    <3>1. job' = [job EXCEPT ![t] = [job[t] EXCEPT !.pc = "mark"]]
          \/ job' = [job EXCEPT ![t] = BeginFail(job[t], "missing")]
      BY <1>b DEF LookupProvider
    <3> QED BY <1>1, <3>1, QuietUpdates, OneJob
  <2>2. disk' = disk /\ box' = box /\ entries' = entries /\ entrants' = entrants
    BY <1>b DEF LookupProvider, store, history
  <2> QED BY <2>1, <2>2, StoreIdle, QuietStep
<1>c. CASE MarkOutboxSending(t)
  <2>0. entries' = entries /\ entrants' = entrants  BY <1>c DEF MarkOutboxSending, history
  <2>1. CASE /\ OwnedIn(i, NameOf[t], Markable)
             /\ box' = [box EXCEPT ![i].state = "sending"]
             /\ \/ job' = [job EXCEPT ![t].pc = "call"] /\ Saved
                \/ job' = [job EXCEPT ![t] = MarkFailed(t)] /\ Lost
    <3>1. OwnedIn(i, NameOf[t], {"claimed", "sending"})
      BY <2>1 DEF OwnedIn, Markable
    <3>0. Saved \/ Lost  BY <2>1
    <3>2. disk'.box = box' \/ (Driver = "file" /\ disk'.box = disk.box)
      BY <3>0, ConfigAssumption DEF Saved, Lost, Snapshot
    <3>3. CASE job' = [job EXCEPT ![t].pc = "call"] /\ Saved
      <4>1. /\ job'[t].pc = "call" /\ job'[t].item = job[t].item
            /\ \A u \in Thread : u # t => job'[u] = job[u]
        BY <1>2, <3>3 DEF Job
      <4>2. disk'.box = box'  BY <3>3 DEF Saved, Snapshot
      <4>3. RecheckIsPostgres'  BY <4>1 DEF OwnerInv, RecheckIsPostgres
      <4>4. \A u \in Thread : Sender(u)' => job'[u].item = job[u].item /\ (Sender(u) \/ u = t)
        BY <4>1 DEF Sender
      <4> QED BY <1>1, <2>0, <2>1, <3>1, <4>2, <4>3, <4>4, MarkStep DEF i
    <3>4. CASE job' = [job EXCEPT ![t] = MarkFailed(t)] /\ Lost
      <4>1. QuietJobs  BY <1>1, <3>4, QuietUpdates, OneJob
      <4>2. RecheckIsPostgres'  BY <4>1 DEF QuietJobs, QuietJob, RecheckIsPostgres
      <4>3. \A u \in Thread : Sender(u)' => Sender(u) /\ job'[u].item = job[u].item
        BY <4>1 DEF QuietJobs, QuietJob, Sender
      <4> QED BY <1>1, <2>0, <2>1, <3>1, <3>2, <4>2, <4>3, MarkStep DEF i
    <3> QED BY <2>1, <3>3, <3>4
  <2>2. CASE /\ ~OwnedIn(i, NameOf[t], Markable)
             /\ job' = [job EXCEPT ![t] = IF Driver = "file" THEN MarkFailed(t)
                                          ELSE [@ EXCEPT !.pc = "recheck"]]
             /\ UNCHANGED <<store, faults>>
    <3>1. disk' = disk /\ box' = box  BY <2>2 DEF store
    <3>2. QuietJobs
      <4>1. CASE Driver = "file"
        BY <1>1, <2>2, <4>1, QuietUpdates, OneJob
      <4>2. CASE Driver # "file"
        <5>1. QuietJob(t, [job[t] EXCEPT !.pc = "recheck"])
          BY <1>1, <1>2, <4>2, ConfigAssumption DEF QuietJob, SenderJob, Sender, Job
        <5> QED BY <2>2, <4>2, <5>1, OneJob
      <4> QED BY <4>1, <4>2
    <3> QED BY <2>0, <3>1, <3>2, StoreIdle, QuietStep
  <2>3. CASE job' = [job EXCEPT ![t] = MarkFailed(t)] /\ CallFails(t)
    <3>1. QuietJobs  BY <1>1, <2>3, QuietUpdates, OneJob
    <3> QED BY <2>0, <2>3, <3>1, CallEnd, StoreIdle, QuietStep
  <2> QED BY <1>c, <2>1, <2>2, <2>3 DEF MarkOutboxSending, i
<1>d. CASE RecheckSending(t)
  <2>0. entries' = entries /\ entrants' = entrants /\ Driver = "postgres"
    BY <1>d DEF RecheckSending, history, OwnerInv, RecheckIsPostgres
  <2>1. disk' = disk /\ box' = box /\ disk.box = box
    BY <1>d, <2>0, CallEnd DEF RecheckSending, store, OwnerInv, DiskFollows
  <2>2. CASE job' = [job EXCEPT ![t] = MarkFailed(t)]
    <3>1. QuietJobs  BY <1>1, <2>2, QuietUpdates, OneJob
    <3> QED BY <2>0, <2>1, <3>1, StoreIdle, QuietStep
  <2>3. CASE /\ OwnedIn(i, NameOf[t], {"sending"})
             /\ job' = [job EXCEPT ![t] = [job[t] EXCEPT !.pc = "call"]]
    <3>1. /\ job'[t].pc = "call" /\ job'[t].item = job[t].item
          /\ \A u \in Thread : u # t => job'[u] = job[u]
      BY <1>2, <2>3 DEF Job
    <3>2. RecheckIsPostgres'  BY <3>1 DEF OwnerInv, RecheckIsPostgres
    <3>3. \A u \in Thread : Sender(u)' => job'[u].item = job[u].item /\ (Sender(u) \/ u = t)
      BY <3>1 DEF Sender
    <3>4. box' = [box EXCEPT ![i].state = "sending"]
      BY <1>1, <1>2, <2>1, <2>3 DEF OwnedIn, Row
    <3>5. OwnedIn(i, NameOf[t], {"claimed", "sending"})  BY <2>3 DEF OwnedIn
    <3>6. disk'.box = box'  BY <2>1
    <3> QED BY <1>1, <2>0, <3>2, <3>3, <3>4, <3>5, <3>6, MarkStep DEF i
  <2> QED BY <1>d, <2>2, <2>3 DEF RecheckSending, i
<1>e. CASE EnterProvider(t)
  <2>1. /\ job'[t].pc = "inflight" /\ job'[t].item = i
        /\ \A u \in Thread : u # t => job'[u] = job[u]
        /\ Sender(t)
    BY <1>e, <1>2 DEF EnterProvider, Job, Sender, SenderJob, i
  <2>2. /\ entries'[i] = entries[i] + 1 /\ entrants'[i] = entrants[i] \cup {NameOf[t]}
        /\ \A k \in Item : k # i => entries'[k] = entries[k] /\ entrants'[k] = entrants[k]
        /\ disk' = disk /\ box' = box
    BY <1>e, <1>1 DEF EnterProvider, TypeOK, store, i
  <2>3. disk.box[i].state \in Committed  BY <2>1 DEF OwnerInv, SendersCommitted, i
  <2>4. \A u \in Thread : /\ Sender(u)' <=> Sender(u)
                          /\ job'[u].item = job[u].item
    BY <2>1 DEF Sender, SenderJob, i
  <2>5. entrants[i] \subseteq {NameOf[t]}  BY <2>1 DEF OwnerInv, SendersAgree, i
  <2>6. SendersCommitted'  BY <2>2, <2>4 DEF OwnerInv, SendersCommitted
  <2>7. EntriesCommitted'  BY <2>2, <2>3 DEF OwnerInv, EntriesCommitted
  <2>8. DiskFollows'  BY <2>2 DEF OwnerInv, DiskFollows
  <2>9. RecheckIsPostgres'  BY <2>1 DEF OwnerInv, RecheckIsPostgres
  <2>10. SendersAgree'
    <3> SUFFICES ASSUME NEW u \in Thread, Sender(u)
                 PROVE  /\ entrants'[job[u].item] \subseteq {NameOf[u]}
                        /\ \A v \in Thread : Sender(v) /\ job[v].item = job[u].item
                                               => NameOf[v] = NameOf[u]
      BY <2>4 DEF SendersAgree
    <3>1. job[u].item \in Item  BY DEF Sender, SenderJob, TypeOK, Job
    <3>2. /\ entrants[job[u].item] \subseteq {NameOf[u]}
          /\ \A v \in Thread : Sender(v) /\ job[v].item = job[u].item => NameOf[v] = NameOf[u]
      BY DEF OwnerInv, SendersAgree
    <3>3. CASE job[u].item = i  BY <2>1, <2>2, <3>2, <3>3 DEF i
    <3>4. CASE job[u].item # i  BY <2>2, <3>1, <3>2, <3>4
    <3> QED BY <3>3, <3>4
  <2>11. SendingOwned'
    BY <1>1, <2>1, <2>2, <2>4, <2>5 DEF OwnerInv, SendingOwned, OwnedBy, i
  <2>12. OneWorkerIdEnters'  BY <2>2, <2>5 DEF OwnerInv, OneWorkerIdEnters
  <2> QED BY <2>2, <2>6, <2>7, <2>8, <2>9, <2>10, <2>11, <2>12 DEF OwnerInv, ClosedStep
<1>f. CASE ProviderReturns(t)
  <2>1. Sender(t)  BY <1>f DEF ProviderReturns, Sender, SenderJob
  <2>2. \/ job' = [job EXCEPT ![t] = [job[t] EXCEPT !.pc = "complete", !.tries = 0]]
        \/ job' = [job EXCEPT ![t] = BeginFail(job[t], "rejected")]
        \/ job' = [job EXCEPT ![t] = BeginFail(job[t], "timeout")]
        \/ job' = [job EXCEPT ![t] = [job[t] EXCEPT !.pc = "uncertain", !.tries = 0]]
    BY <1>f, <1>2 DEF ProviderReturns
  <2>3. QuietJobs  BY <2>1, <2>2, QuietResults, OneJob
  <2>4. disk' = disk /\ box' = box /\ entries' = entries /\ entrants' = entrants
    BY <1>f DEF ProviderReturns, store
  <2> QED BY <2>3, <2>4, StoreIdle, QuietStep
<1>g. CASE CompleteOutboxSend(t)
  <2>1. Sender(t) /\ job[t].pc # "recheck"
    BY <1>g DEF CompleteOutboxSend, Sender, SenderJob
  <2>2. \/ job' = [job EXCEPT ![t] = FreeSlot]
        \/ \E j \in CompleteFailed(t) : job' = [job EXCEPT ![t] = j]
    BY <1>g DEF CompleteOutboxSend
  <2>3. QuietJobs  BY <1>1, <2>1, <2>2, QuietResults, QuietUpdates, OneJob
  <2>4. entries' = entries /\ entrants' = entrants  BY <1>g DEF CompleteOutboxSend, history
  <2>5. CASE /\ box' = [box EXCEPT ![i].state = "done"] \/ box' = box
             /\ Saved \/ Lost
    <3>1. QuietBox  BY <1>1, <1>2, <2>5 DEF QuietBox, Committed, Row
    <3> QED BY <2>3, <2>4, <2>5, <3>1, StoreEnd, QuietStep
  <2>6. CASE disk' = disk /\ box' = box
    BY <2>3, <2>4, <2>6, StoreIdle, QuietStep
  <2> QED BY <1>g, <2>5, <2>6, CallEnd DEF CompleteOutboxSend, store, i
<1>h. CASE MarkOutboxUncertain(t)
  <2>1. Sender(t) /\ job[t].pc # "recheck"
    BY <1>h DEF MarkOutboxUncertain, Sender, SenderJob
  <2>2. \/ job' = [job EXCEPT ![t] = FreeSlot]
        \/ \E j \in UncertainFailed(t) : job' = [job EXCEPT ![t] = j]
    BY <1>h DEF MarkOutboxUncertain
  <2>3. QuietJobs  BY <1>1, <2>1, <2>2, QuietResults, QuietUpdates, OneJob
  <2>4. entries' = entries /\ entrants' = entrants  BY <1>h DEF MarkOutboxUncertain, history
  <2>5. CASE /\ box' = [box EXCEPT ![i].state = "uncertain"]
             /\ Saved \/ Lost
    <3>1. QuietBox  BY <1>1, <1>2, <2>5 DEF QuietBox, Committed, Row
    <3> QED BY <2>3, <2>4, <2>5, <3>1, StoreEnd, QuietStep
  <2>6. CASE disk' = disk /\ box' = box
    BY <2>3, <2>4, <2>6, StoreIdle, QuietStep
  <2> QED BY <1>h, <2>5, <2>6, CallEnd DEF MarkOutboxUncertain, store, i
<1>i. CASE FailMessage(t)
  <2>1. \E s \in {"failRow", "failBox"} : job' = [job EXCEPT ![t] = [job[t] EXCEPT !.pc = s]]
    BY <1>i, <1>2 DEF FailMessage
  <2>2. QuietJobs  BY <1>1, <2>1, QuietUpdates, OneJob
  <2>3. entries' = entries /\ entrants' = entrants  BY <1>i DEF FailMessage, history
  <2>4. DiskStep /\ QuietBox
    BY <1>i, StoreEnd, StoreIdle, CallEnd DEF FailMessage, store, QuietBox
  <2> QED BY <2>2, <2>3, <2>4, QuietStep
<1>j. CASE SaveFailureReceipt(t)
  <2>1. \/ job' = [job EXCEPT ![t] = [job[t] EXCEPT !.pc = "failBox"]]
        \/ job' = [job EXCEPT ![t] = [job[t] EXCEPT !.pc = "failBox", !.queued = TRUE]]
    BY <1>j, <1>2 DEF SaveFailureReceipt
  <2>2. QuietJobs  BY <1>1, <2>1, QuietUpdates, OneJob
  <2>3. entries' = entries /\ entrants' = entrants  BY <1>j DEF SaveFailureReceipt, history
  <2>4. DiskStep /\ QuietBox
    BY <1>j, StoreEnd, StoreIdle, CallEnd DEF SaveFailureReceipt, QuietBox
  <2> QED BY <2>2, <2>3, <2>4, QuietStep
<1>k. CASE FailOutbox(t)
  <2>1. \/ job' = [job EXCEPT ![t] = FreeSlot]
        \/ job' = [job EXCEPT ![t] = [job[t] EXCEPT !.pc = "undo"]]
    BY <1>k, <1>2 DEF FailOutbox
  <2>2. QuietJobs  BY <1>1, <2>1, QuietUpdates, OneJob
  <2>3. entries' = entries /\ entrants' = entrants  BY <1>k DEF FailOutbox, history
  <2>4. CASE /\ box[i].state \in FailableFrom(i, job[t])
             /\ box' = [box EXCEPT ![i] = FailRow(i, job[t])]
             /\ Saved \/ Lost
    <3>1. box[i].state \in Committed => FailsForGood(i, job[t])
      BY <2>4 DEF FailableFrom, Committed
    <3>2. /\ FailRow(i, job[t]).state \in {"failed", "pending"}
          /\ FailsForGood(i, job[t]) => FailRow(i, job[t]).state = "failed"
      BY <1>2 DEF FailRow, Row
    <3>3. QuietBox  BY <1>1, <1>2, <2>4, <3>1, <3>2 DEF QuietBox, Committed
    <3> QED BY <2>2, <2>3, <2>4, <3>3, StoreEnd, QuietStep
  <2>5. CASE disk' = disk /\ box' = box
    BY <2>2, <2>3, <2>5, StoreIdle, QuietStep
  <2> QED BY <1>k, <2>4, <2>5, CallEnd DEF FailOutbox, store, i
<1>l. CASE DeleteFailureReceipt(t)
  <2>1. QuietJobs  BY <1>l, <1>1, QuietUpdates, OneJob DEF DeleteFailureReceipt
  <2>2. entries' = entries /\ entrants' = entrants  BY <1>l DEF DeleteFailureReceipt, history
  <2>3. DiskStep /\ QuietBox
    BY <1>l, StoreEnd, StoreIdle, CallEnd DEF DeleteFailureReceipt, QuietBox
  <2> QED BY <2>1, <2>2, <2>3, QuietStep
<1> QED BY <1>a, <1>b, <1>c, <1>d, <1>e, <1>f, <1>g, <1>h, <1>i, <1>j, <1>k, <1>l DEF ThreadStep


\* Every step.
LEMMA OwnerStep ==
  ASSUME OwnerInv, TypeOK, TypeOK', [Next]_vars
  PROVE  OwnerInv' /\ ClosedStep
<1>0. box \in [Item -> Row] /\ disk.box \in [Item -> Row]  BY DEF TypeOK, Image
<1>1. ASSUME NEW p \in Proc, NEW i \in Item, Enqueue(p, i) PROVE OwnerInv' /\ ClosedStep
  <2>1. QuietBox  BY <1>0, <1>1 DEF Enqueue, QuietBox, Committed, Row
  <2>2. QuietJobs  BY <1>1, SameJobs DEF Enqueue
  <2> QED BY <1>1, <2>1, <2>2, StoreEnd, QuietStep DEF Enqueue, history
<1>2. ASSUME NEW i \in Item, BecomeDue(i) PROVE OwnerInv' /\ ClosedStep
  <2>1. QuietBox  BY <1>0, <1>2 DEF BecomeDue, QuietBox, Row
  <2>2. QuietJobs  BY <1>2, SameJobs DEF BecomeDue
  <2>3. disk'.box = [disk.box EXCEPT ![i].due = TRUE]
    BY <1>2 DEF BecomeDue, TypeOK, Image
  <2>4. DiskStep
    <3>1. CASE Driver = "postgres"
      BY <1>2, <2>3, <3>1 DEF BecomeDue, OwnerInv, DiskFollows, DiskStep
    <3>2. CASE Driver = "file"
      BY <1>0, <2>3, <3>2 DEF DiskStep, Row
    <3> QED BY <3>1, <3>2, ConfigAssumption
  <2> QED BY <1>2, <2>1, <2>2, <2>4, QuietStep DEF BecomeDue, history
<1>3. ASSUME NEW p \in Proc, NEW n \in Name, Claim(p, n) PROVE OwnerInv' /\ ClosedStep
  <2>0. PICK S \in SUBSET Claimable : \E f \in [S -> FreeSlots(p, n)] : ClaimOutbox(p, n, f)
    BY <1>3 DEF Claim
  <2>1. PICK f \in [S -> FreeSlots(p, n)] : ClaimOutbox(p, n, f)
    BY <2>0
  <2>2. DOMAIN f = S /\ \A i \in S : i \in Item /\ box[i].state = "pending"
    BY <2>1 DEF Claimable
  <2>3. QuietBox
    <3>1. \A i \in Item : ClaimRow(box[i], n).state = "claimed"  BY <1>0 DEF ClaimRow, Row
    <3> QED BY <2>1, <2>2, <3>1 DEF ClaimOutbox, QuietBox, Committed
  <2>4. QuietJobs
    <3>0. \A i, a : Started(i, a).pc = "lookup" /\ Started(i, a).cause = "none"
      BY DEF Started
    <3>1. ASSUME NEW t \in Thread
          PROVE  job'[t] = job[t] \/ (job'[t].pc = "lookup" /\ job'[t].cause = "none")
      <4>1. CASE UNCHANGED job  BY <4>1
      <4>2. CASE job' = [u \in Thread |->
                     IF \E i \in S : f[i] = u
                       THEN LET i == CHOOSE k \in S : f[k] = u IN Started(i, box[i].attempt + 1)
                       ELSE job[u]]
        <5> DEFINE k == CHOOSE k \in S : f[k] = t
        <5>1. job'[t] = IF \E i \in S : f[i] = t THEN Started(k, box[k].attempt + 1) ELSE job[t]
          BY <4>2
        <5> HIDE DEF k
        <5> QED BY <3>0, <5>1
      <4> QED BY <2>1, <2>2, <4>1, <4>2 DEF ClaimOutbox
    <3> QED BY <3>1 DEF QuietJobs, QuietJob, Sender, SenderJob, OwnerInv, RecheckIsPostgres
  <2>5. (Saved \/ Lost) /\ entries' = entries /\ entrants' = entrants
    BY <2>1 DEF ClaimOutbox, history
  <2> QED BY <2>3, <2>4, <2>5, StoreEnd, QuietStep
<1>4. ASSUME NEW t \in Thread, ThreadStep(t) PROVE OwnerInv' /\ ClosedStep
  BY <1>4, OwnerThreadStep
<1>5. ASSUME NEW p \in Proc, NEW i \in Item, DeliverFailureReceipt(p, i)
      PROVE  OwnerInv' /\ ClosedStep
  <2>1. QuietBox /\ QuietJobs  BY <1>5, SameJobs DEF DeliverFailureReceipt, QuietBox
  <2> QED BY <1>5, <2>1, StoreEnd, QuietStep DEF DeliverFailureReceipt
<1>6. ASSUME NEW p \in Proc, Requeue(p) PROVE OwnerInv' /\ ClosedStep
  <2>1. PICK S \in SUBSET Stale : RequeueStaleOutbox(p, S)  BY <1>6 DEF Requeue
  <2>2. QuietBox
    <3>1. \A i \in S : i \in Item /\ box[i].state = "claimed"  BY DEF Stale
    <3> QED BY <1>0, <2>1, <3>1 DEF RequeueStaleOutbox, QuietBox, Committed, Row
  <2>3. QuietJobs  BY <2>1, SameJobs DEF RequeueStaleOutbox
  <2> QED BY <2>1, <2>2, <2>3, StoreEnd, QuietStep DEF RequeueStaleOutbox, history
<1>7. CASE ReloadProviders
  <2>1. QuietJobs  BY <1>7, SameJobs DEF ReloadProviders
  <2> QED BY <1>7, <2>1, StoreIdle, QuietStep DEF ReloadProviders, store, history
<1>8. ASSUME NEW i \in Item, TrimMessage(i) PROVE OwnerInv' /\ ClosedStep
  <2>1. QuietBox /\ QuietJobs  BY <1>8, SameJobs DEF TrimMessage, QuietBox
  <2> QED BY <1>8, <2>1, StoreEnd, QuietStep DEF TrimMessage, history
<1>9. ASSUME NEW p \in Proc, Stop(p) PROVE OwnerInv' /\ ClosedStep
  <2>1. QuietJobs  BY <1>9, SameJobs DEF Stop
  <2> QED BY <1>9, <2>1, StoreIdle, QuietStep DEF Stop, store, history
<1>10. ASSUME NEW p \in Proc, Exit(p) PROVE OwnerInv' /\ ClosedStep
  <2>1. QuietJobs  BY <1>10, SameJobs DEF Exit
  <2> QED BY <1>10, <2>1, StoreIdle, QuietStep DEF Exit, store, history
<1>11. ASSUME NEW p \in Proc, Crash(p) PROVE OwnerInv' /\ ClosedStep
  <2>1. QuietJobs
    BY <1>11 DEF Crash, FreeSlot, QuietJobs, QuietJob, Sender, SenderJob, OwnerInv, RecheckIsPostgres
  <2> QED BY <1>11, <2>1, StoreIdle, QuietStep DEF Crash, store, history
<1>12. ASSUME NEW p \in Proc, Restart(p) PROVE OwnerInv' /\ ClosedStep
  <2>1. CASE Driver = "postgres"
    <3>1. QuietJobs  BY <1>12, SameJobs DEF Restart
    <3> QED BY <1>12, <2>1, <3>1, ConfigAssumption, StoreIdle, QuietStep DEF Restart, history
  <2>2. CASE Driver = "file"
    <3>1. /\ disk' = disk /\ job' = job /\ entries' = entries /\ entrants' = entrants
          /\ \A i \in Item : box'[i] = Loaded(disk.box[i])
      BY <1>12, <2>2, ConfigAssumption DEF Restart, history
    <3>2. \A i \in Item : \/ box'[i] = disk.box[i]
                          \/ disk.box[i].state = "claimed" /\ box'[i].state = "pending"
      BY <1>0, <3>1 DEF Loaded, Row
    <3>3. RecheckIsPostgres' /\ SendersCommitted' /\ EntriesCommitted' /\ SendersAgree'
      BY <3>1 DEF OwnerInv, RecheckIsPostgres, SendersCommitted, EntriesCommitted, SendersAgree, Sender
    <3>4. DiskFollows'  BY <2>2, <3>1, <3>2 DEF DiskFollows, Committed
    <3>5. SendingOwned'
      BY <3>1, <3>2 DEF OwnerInv, SendingOwned, OwnedBy, Sender
    <3>6. OneWorkerIdEnters' /\ ClosedStep
      BY <3>1 DEF OwnerInv, OneWorkerIdEnters, ClosedStep
    <3> QED BY <3>3, <3>4, <3>5, <3>6 DEF OwnerInv
  <2> QED BY <2>1, <2>2, ConfigAssumption
<1>13. CASE UNCHANGED vars
  <2>1. QuietJobs  BY <1>13, SameJobs DEF vars
  <2> QED BY <1>13, <2>1, StoreIdle, QuietStep DEF vars
<1> QED BY <1>1, <1>2, <1>3, <1>4, <1>5, <1>6, <1>7, <1>8, <1>9, <1>10, <1>11, <1>12, <1>13
    DEF Next

LEMMA OwnerInit == Init => OwnerInv
<1> SUFFICES ASSUME Init PROVE OwnerInv
  OBVIOUS
<1>1. \A t \in Thread : job[t].pc = "idle"  BY DEF Init, FreeSlot
<1>2. \A t \in Thread : ~Sender(t)  BY <1>1 DEF Sender, SenderJob
<1>3. disk.box = box /\ \A i \in Item : box[i].state = "absent" /\ entries[i] = 0 /\ entrants[i] = {}
  BY DEF Init
<1> QED BY <1>1, <1>2, <1>3 DEF OwnerInv, RecheckIsPostgres, SendersCommitted, EntriesCommitted,
      DiskFollows, SendingOwned, OwnedBy, SendersAgree, OneWorkerIdEnters, Committed

\* The invariant holds in every state that the dispatcher and the store reach.
THEOREM OwnerInvariant == Spec => [](TypeOK /\ OwnerInv)
<1>1. Init => TypeOK /\ OwnerInv
  BY OwnerInit, ThreadAssumption, BoundAssumption
  DEF Init, TypeOK, Row, RowState, MsgState, Image, FreeSlot, Job, Step, Cause
<1>2. TypeOK /\ OwnerInv /\ [Next]_vars => (TypeOK /\ OwnerInv)'
  BY TypeStep, OwnerStep
<1> QED BY <1>1, <1>2, PTL DEF Spec

\* "sending" is durable before sendProvider is entered, whatever is claimed,
\* swept, lost, crashed and restarted, for both stores.
THEOREM CallPersisted == Spec => []CallIsPersisted
<1>1. TypeOK /\ OwnerInv => CallIsPersisted
  <2> SUFFICES ASSUME TypeOK, OwnerInv PROVE CallIsPersisted
    OBVIOUS
  <2>1. \A i \in Item : entries[i] > 0 => disk.box[i].state \in Committed
    BY DEF OwnerInv, EntriesCommitted
  <2>2. \A t \in Thread :
          job[t].pc \in {"call", "inflight"} => disk.box[job[t].item].state \in Committed
    BY DEF OwnerInv, SendersCommitted, Sender, SenderJob
  <2> QED BY <2>1, <2>2 DEF CallIsPersisted
<1> QED BY <1>1, OwnerInvariant, PTL

\* For a row the goroutines of one worker id only ever enter the provider,
\* even when claims are swept from under goroutines that still run.
THEOREM OneWorkerId == Spec => []OneWorkerIdEnters
<1>1. TypeOK /\ OwnerInv => OneWorkerIdEnters  BY DEF OwnerInv
<1> QED BY <1>1, OwnerInvariant, PTL

\* No sweep, retry, failed write, crash or restart queues a row again whose
\* "sending" is durable.
THEOREM NeverRequeued == Spec => FailClosed
<1>1. TypeOK /\ OwnerInv /\ (TypeOK /\ OwnerInv)' /\ [Next]_vars
        => [\A i \in Item : disk.box[i].state \in Committed => disk'.box[i].state \in Committed]_vars
  BY OwnerStep DEF ClosedStep
<1> QED BY <1>1, OwnerInvariant, PTL DEF Spec, FailClosed
=============================================================================
