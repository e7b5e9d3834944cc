-------------------------- MODULE ConnectionProofs --------------------------
(***************************************************************************)
(* Proofs about the SMPP connections.  SmppSession: a delivery that counts *)
(* as acknowledged was acknowledged by the client.  Upstream: what a place *)
(* in the window is held by, and what a call that was not sent reports.    *)
(* All for any number of deliveries, calls, attempts and places.           *)
(***************************************************************************)
EXTENDS Upstream, SmppSession, FiniteSetTheorems, TLAPS

-----------------------------------------------------------------------------
(* SmppSession: only an acknowledgement of a delivery makes its status "ok". *)

SessionInv ==
  /\ delivery \in [Delivery -> {"idle", "send", "wait", "ok", "error", "failed"}]
  /\ status \in [Delivery -> {"none", "ok", "error"}]
  /\ \A d \in Delivery : status[d] = "ok" => d \in acked
  /\ AckIsReal

LEMMA SessionStep == SessionInv /\ [SessionNext]_sessionVars => SessionInv'
<1> SUFFICES ASSUME SessionInv, [SessionNext]_sessionVars PROVE SessionInv'
  OBVIOUS
<1>1. ASSUME NEW d \in Delivery, NEW ok \in BOOLEAN, DeliverSMResp(d, ok) PROVE SessionInv'
  <2>1. delivery' = delivery /\ acked \subseteq acked' /\ (ok => d \in acked')
    BY <1>1 DEF DeliverSMResp
  <2>2. \A e \in Delivery : e # d => status'[e] = status[e]
    BY <1>1 DEF DeliverSMResp, completeDeliverResp, SessionInv
  <2>3. status'[d] = status[d] \/ (IF ok THEN status'[d] = "ok" ELSE status'[d] = "error")
    BY <1>1 DEF DeliverSMResp, completeDeliverResp, SessionInv
  <2>4. status' \in [Delivery -> {"none", "ok", "error"}]
    <3>1. status' = [status EXCEPT ![d] = status'[d]]
      BY <1>1 DEF DeliverSMResp, completeDeliverResp, SessionInv
    <3> QED
      BY <2>3, <3>1 DEF SessionInv
  <2> QED
    BY <2>1, <2>2, <2>3, <2>4 DEF SessionInv, AckIsReal
<1>2. ASSUME NEW d \in Delivery, StartDelivery(d) \/ SendDelivery(d) \/ AwaitResp(d) PROVE SessionInv'
  <2>1. /\ status' = status /\ acked' = acked
        /\ \E r \in {"send", "wait", "error", "failed"} \cup ({status[d]} \ {"none"}) :
             delivery' = [delivery EXCEPT ![d] = r]
    BY <1>2 DEF StartDelivery, SendDelivery, AwaitResp, EndDelivery, SessionInv
  <2> QED
    BY <2>1 DEF SessionInv, AckIsReal
<1>3. CASE UNCHANGED <<delivery, status, acked>>
  BY <1>3 DEF SessionInv, AckIsReal
<1>4. ASSUME NEW j \in Job, SubmitSM(j) \/ JobAnswers(j) PROVE UNCHANGED <<delivery, status, acked>>
  BY <1>4 DEF SubmitSM, JobAnswers, deliveries
<1>5. ASSUME NEW accepted \in BOOLEAN, Request(accepted) PROVE UNCHANGED <<delivery, status, acked>>
  BY <1>5 DEF Request, deliveries
<1>6. CASE \/ ReaderAnswers \/ ReadFails \/ WriteLoop \/ EnquireTick \/ EnquirerAsks \/ EnquirerEnds
           \/ GoSilent \/ StopReading \/ GoAway \/ Shutdown
  <2>1. UNCHANGED <<delivery, status, acked>>
    BY <1>6 DEF ReaderAnswers, ReadFails, WriteLoop, WriterTakes, WriterWrites, WriteFails, WriterEnds,
       EnquireTick, EnquirerAsks, EnquirerEnds, GoSilent, StopReading, GoAway, Shutdown, deliveries
  <2> QED
    BY <2>1, <1>3
<1>7. CASE UNCHANGED sessionVars
  BY <1>3, <1>7 DEF sessionVars, deliveries
<1> QED
  BY <1>1, <1>2, <1>3, <1>4, <1>5, <1>6, <1>7 DEF SessionNext

\* A delivery reported as acknowledged was acknowledged by the client
\* (completeDeliverResp): for any number of deliveries, responses and jobs.
THEOREM AckIsRealHolds == SessionSpec => []AckIsReal
<1>1. SessionInit => SessionInv
  BY DEF SessionInit, SessionInv, AckIsReal
<1>2. SessionInv => AckIsReal
  BY DEF SessionInv
<1> QED
  BY <1>1, <1>2, SessionStep, PTL DEF SessionSpec

-----------------------------------------------------------------------------
(* Upstream: a slot of the window belongs to one call, which has yet to      *)
(* register, is registered, or is to be released by whoever resolved it.     *)

Holding == {c \in Call : pc[c] = "slot"} \cup pending

CallType ==
  /\ pc \in [Call -> {"new", "bound", "slot", "registered", "send", "wait", "done"}]
  /\ waiter \in [Call -> {"none", "lost", "ok", "rejected", "notready", "timeout", "cancelled"}]
  /\ reply \in [Call -> {"none", "notbound", "full", "notready", "lost", "ok", "rejected", "timeout", "cancelled"}]
  /\ pending \subseteq Call /\ releasing \subseteq Call /\ slots \in Nat

SlotInv ==
  /\ CallType
  /\ \A c \in Call : pc[c] \in {"new", "bound", "slot"} => c \notin pending /\ c \notin releasing
  /\ pending \cap releasing = {}
  /\ SlotsExact

LEMMA CallsAreFinite ==
  ASSUME CallType
  PROVE  /\ IsFiniteSet(Holding) /\ IsFiniteSet(releasing) /\ IsFiniteSet(pending)
         /\ IsFiniteSet({c \in Call : pc[c] = "slot"})
         /\ Cardinality(Holding) \in Nat /\ Cardinality(releasing) \in Nat
<1>1. Holding \subseteq Call /\ releasing \subseteq Call /\ pending \subseteq Call /\ {c \in Call : pc[c] = "slot"} \subseteq Call
  BY DEF CallType, Holding
<1>2. \A S : S \subseteq Call => IsFiniteSet(S)
  BY UpstreamAssumption, FS_Subset
<1> QED
  BY <1>1, <1>2, FS_CardinalityType

LEMMA UpstreamStart == UpstreamInit => SlotInv
<1> SUFFICES ASSUME UpstreamInit PROVE SlotInv
  OBVIOUS
<1>1. CallType /\ \A c \in Call : c \notin pending /\ c \notin releasing
  BY DEF UpstreamInit, CallType
<1>2. {c \in Call : pc[c] = "slot"} \cup pending = {} /\ releasing = {}
  BY DEF UpstreamInit
<1>3. Cardinality({}) = 0 /\ slots = 0 /\ WindowSize \in Nat
  BY FS_EmptySet, UpstreamAssumption DEF UpstreamInit
<1>4. SlotsExact
  BY <1>2, <1>3 DEF SlotsExact
<1> QED
  BY <1>1, <1>2, <1>4 DEF SlotInv

\* A step that moves no call in or out of a slot.
LEMMA SlotsKept ==
  ASSUME SlotInv, CallType', Holding' = Holding, releasing' = releasing, slots' = slots,
         \A c \in Call : pc'[c] \in {"new", "bound", "slot"} => pc'[c] = pc[c] \/ (pc[c] = "new" /\ pc'[c] = "bound"),
         \A c \in pending' : c \in pending \/ (pc[c] = "slot" /\ pc'[c] = "registered")
  PROVE  SlotInv'
<1>1. {c \in Call : pc'[c] = "slot"} \cup pending' = {c \in Call : pc[c] = "slot"} \cup pending
  BY DEF Holding
<1>2. SlotsExact'
  BY <1>1 DEF SlotInv, SlotsExact
<1>3. \A c \in Call : pc'[c] \in {"new", "bound", "slot"} => c \notin pending' /\ c \notin releasing'
  BY DEF SlotInv, CallType
<1>4. pending' \cap releasing' = {}
  BY DEF SlotInv, CallType
<1> QED
  BY <1>2, <1>3, <1>4 DEF SlotInv

\* A registered call is resolved by whoever takes its registration.
LEMMA ResolveSlots ==
  ASSUME SlotInv, CallType', NEW c \in Call, NEW r, Resolve(c, r), slots' = slots,
         pc[c] \notin {"new", "bound", "slot"} \/ c \notin pending,
         pc' = pc \/ (pc[c] \in {"registered", "send", "wait"} /\ pc' = [pc EXCEPT ![c] = "done"])
  PROVE  SlotInv'
<1>1. \A d \in Call : pc'[d] \in {"new", "bound", "slot"} <=> pc[d] \in {"new", "bound", "slot"}
  BY DEF SlotInv, CallType
<1>2. {d \in Call : pc'[d] = "slot"} = {d \in Call : pc[d] = "slot"}
  BY DEF SlotInv, CallType
<1>3. CASE c \notin pending
  <2>1. pending' = pending /\ releasing' = releasing
    BY <1>3 DEF Resolve
  <2>2. SlotsExact'
    BY <1>2, <2>1 DEF SlotInv, SlotsExact
  <2> QED
    BY <1>1, <2>1, <2>2 DEF SlotInv, CallType
<1>4. CASE c \in pending
  <2>1. pending' = pending \ {c} /\ releasing' = releasing \cup {c} /\ c \notin releasing /\ pc[c] # "slot"
    BY <1>4 DEF Resolve, SlotInv
  <2>2. Holding' = Holding \ {c} /\ c \in Holding
    BY <1>2, <1>4, <2>1 DEF Holding
  <2>3. Cardinality(Holding') = Cardinality(Holding) - 1
    BY <2>2, CallsAreFinite, FS_RemoveElement DEF SlotInv
  <2>4. Cardinality(releasing') = Cardinality(releasing) + 1
    BY <2>1, CallsAreFinite, FS_AddElement DEF SlotInv
  <2>5. SlotsExact'
    BY <2>3, <2>4, CallsAreFinite DEF SlotInv, SlotsExact, Holding
  <2> QED
    BY <1>1, <2>1, <2>5, <1>4 DEF SlotInv, CallType
<1> QED
  BY <1>3, <1>4

-----------------------------------------------------------------------------
(* What is queued, in the hands of a write loop or written was queued by its  *)
(* call, which then waits for the answer and never says that it did not send. *)

Link == [open : BOOLEAN, stalled : BOOLEAN, over : BOOLEAN, err : BOOLEAN, queue : Seq(Pdu), hand : Pdu \cup {NoPdu},
         writer : {"run", "end"}, reader : {"run", "reply", "last", "end"}, enquirer : {"run", "send", "end"},
         wire : SUBSET Pdu]

LinkType ==
  /\ link \in [Attempt -> Link] /\ at \in [Sender -> 0..MaxAttempts]
  /\ out \in 0..MaxAttempts /\ attempt \in 0..MaxAttempts

Carries(l, p) == l.hand = p \/ \E i \in 1..Len(l.queue) : l.queue[i] = p

Carried(p) == \E a \in Attempt : Carries(link[a], p)

SentInv ==
  /\ LinkType
  /\ \A c \in Call :
       /\ Carried(c) \/ c \in written => pc[c] \in {"wait", "done"} /\ reply[c] \notin Unsent
       /\ pc[c] # "done" => reply[c] = "none" /\ waiter[c] # "notready"

\* A step that leaves every queue and what the write loops have in their hands.
Calm ==
  /\ link' \in [Attempt -> Link]
  /\ \A b \in Attempt : link'[b].queue = link[b].queue /\ link'[b].hand = link[b].hand

LEMMA CalmCarries == ASSUME Calm, NEW p PROVE Carried(p)' <=> Carried(p)
  BY DEF Calm, Carried, Carries

LEMMA CalmOne ==
  ASSUME LinkType, NEW a, NEW r, link' = [link EXCEPT ![a] = r],
         a \in Attempt => r \in Link /\ r.queue = link[a].queue /\ r.hand = link[a].hand
  PROVE  Calm
  BY DEF LinkType, Calm

LEMMA CalmFields ==
  ASSUME NEW l \in Link
  PROVE  /\ \A x \in BOOLEAN : [l EXCEPT !.open = x] \in Link /\ [l EXCEPT !.open = x].queue = l.queue /\ [l EXCEPT !.open = x].hand = l.hand
         /\ \A x \in BOOLEAN : [l EXCEPT !.over = x] \in Link /\ [l EXCEPT !.over = x].queue = l.queue /\ [l EXCEPT !.over = x].hand = l.hand
         /\ \A x \in BOOLEAN : [l EXCEPT !.stalled = x] \in Link /\ [l EXCEPT !.stalled = x].queue = l.queue /\ [l EXCEPT !.stalled = x].hand = l.hand
         /\ \A x \in {"run", "end"} : [l EXCEPT !.writer = x] \in Link /\ [l EXCEPT !.writer = x].queue = l.queue /\ [l EXCEPT !.writer = x].hand = l.hand
  BY DEF Link

LEMMA LoopLinks ==
  ASSUME LinkType, LoopStep \/ Close
  PROVE  Calm /\ at' = at /\ out' \in 0..MaxAttempts /\ attempt' \in 0..MaxAttempts
<1>1. at' = at /\ out' \in 0..MaxAttempts /\ attempt' \in 0..MaxAttempts
  BY UpstreamAssumption DEF LinkType, LoopStep, Close, BeginAttempt, Dial, Bind, StartLoops, EndServe, Unbind, FailAll, Backoff
<1> SUFFICES Calm
  BY <1>1
<1>2. CASE link' = link
  BY <1>2 DEF LinkType, Calm
<1>3. ASSUME NEW n, NEW x \in BOOLEAN, link' = [link EXCEPT ![n].open = x] PROVE Calm
  <2>1. link' = [link EXCEPT ![n] = [link[n] EXCEPT !.open = x]]
    BY <1>3
  <2> QED
    BY <2>1, CalmOne, CalmFields DEF LinkType
<1>4. CASE StartLoops
  <2>1. PICK e, n :
          /\ e \in {"run", "end"} /\ n = attempt
          /\ link' = [link EXCEPT ![n].writer = "run", ![n].reader = "run", ![n].enquirer = e]
    BY <1>4 DEF StartLoops
  <2>2. PICK r : r = [link[n] EXCEPT !.writer = "run", !.reader = "run", !.enquirer = e]
    OBVIOUS
  <2>3. n \in Attempt => r \in Link /\ r.queue = link[n].queue /\ r.hand = link[n].hand
    BY <2>1, <2>2 DEF LinkType, Link
  <2>4. link' = [link EXCEPT ![n] = r]
    BY <2>1, <2>2 DEF LinkType
  <2> QED
    BY <1>1, <2>3, <2>4, CalmOne
<1>5. CASE EndServe
  <2>1. PICK n : n = attempt
    OBVIOUS
  <2>2. link' = [link EXCEPT ![n] = [link[n] EXCEPT !.over = TRUE]]
    BY <1>5, <2>1 DEF EndServe
  <2> QED
    BY <2>2, CalmOne, CalmFields DEF LinkType
<1>6. CASE BeginAttempt \/ Bind \/ FailAll \/ Backoff
  BY <1>6, <1>2 DEF BeginAttempt, Bind, FailAll, Backoff
<1>7. CASE Dial
  <2>1. PICK n : n = attempt'
    OBVIOUS
  <2> QED
    BY <1>7, <1>2, <1>3, <2>1 DEF Dial
<1>8. CASE Unbind \/ Close
  <2>1. PICK n : n = attempt
    OBVIOUS
  <2> QED
    BY <1>8, <1>2, <1>3, <2>1 DEF Unbind, Close, CloseConn
<1> QED
  BY <1>1, <1>4, <1>5, <1>6, <1>7, <1>8 DEF LoopStep

\* A step after which no submit_sm is carried that was not carried before.
Settled ==
  /\ link' \in [Attempt -> Link]
  /\ \A c \in Call : Carried(c)' => Carried(c)

LEMMA CalmSettles == ASSUME Calm PROVE Settled
  BY CalmCarries DEF Calm, Settled

LEMMA SettledOne ==
  ASSUME LinkType, NEW a \in Attempt, NEW r \in Link, link' = [link EXCEPT ![a] = r],
         \A c \in Call : Carries(r, c) => Carries(link[a], c)
  PROVE  Settled
<1>1. link' \in [Attempt -> Link] /\ \A b \in Attempt : link'[b] = IF b = a THEN r ELSE link[b]
  BY DEF LinkType
<1>2. ASSUME NEW c \in Call, NEW b \in Attempt, Carries(link'[b], c) PROVE Carries(link[b], c)
  BY <1>1, <1>2
<1> QED
  BY <1>1, <1>2 DEF Settled, Carried

Push(l, b, p) == [l EXCEPT ![b].queue = Append(@, p)]

LEMMA Pushed ==
  ASSUME NEW l \in [Attempt -> Link], NEW b \in Attempt, NEW p \in Pdu, NEW m,
         m = Push(l, b, p)
  PROVE  /\ m \in [Attempt -> Link]
         /\ \A x \in Attempt, q \in Pdu : q # p /\ Carries(m[x], q) => Carries(l[x], q)
<1>1. l[b] \in Link
  OBVIOUS
<1>2. PICK s \in Seq(Pdu) : s = l[b].queue
  BY <1>1 DEF Link
<1>3. PICK t \in Seq(Pdu) : t = Append(s, p)
  <2>1. Append(s, p) \in Seq(Pdu)
    OBVIOUS
  <2> QED
    BY <2>1
<1>4. PICK r : r = [l[b] EXCEPT !.queue = t]
  OBVIOUS
<1>5. r \in Link /\ r.hand = l[b].hand /\ r.queue = t
  BY <1>1, <1>4 DEF Link
<1>6. m = [l EXCEPT ![b] = r]
  BY <1>2, <1>3, <1>4 DEF Push
<1>7. m \in [Attempt -> Link] /\ \A x \in Attempt : m[x] = IF x = b THEN r ELSE l[x]
  BY <1>5, <1>6
<1>8. ASSUME NEW q \in Pdu, q # p, Carries(r, q) PROVE Carries(l[b], q)
  BY <1>2, <1>5, <1>8, <1>3 DEF Carries
<1> QED
  BY <1>7, <1>8

LEMMA Replied ==
  ASSUME NEW l \in [Attempt -> Link], NEW a \in Attempt, NEW m, m = AfterReply(l, a)
  PROVE  m \in [Attempt -> Link] /\ \A x \in Attempt : m[x].queue = l[x].queue /\ m[x].hand = l[x].hand
<1>1. CASE l[a].reader = "last"
  <2>1. PICK r : r = [l[a] EXCEPT !.reader = "end", !.err = TRUE]
    OBVIOUS
  <2>2. r \in Link /\ r.queue = l[a].queue /\ r.hand = l[a].hand
    BY <2>1 DEF Link
  <2>3. m = [l EXCEPT ![a] = r]
    BY <1>1, <2>1 DEF AfterReply
  <2> QED
    BY <2>2, <2>3
<1>2. CASE l[a].reader # "last"
  <2>1. PICK r : r = [l[a] EXCEPT !.reader = "run"]
    OBVIOUS
  <2>2. r \in Link /\ r.queue = l[a].queue /\ r.hand = l[a].hand
    BY <2>1 DEF Link
  <2>3. m = [l EXCEPT ![a] = r]
    BY <1>2, <2>1 DEF AfterReply
  <2> QED
    BY <2>2, <2>3
<1> QED
  BY <1>1, <1>2

LEMMA WriterLinks ==
  ASSUME LinkType, NEW a \in Attempt, WriterStep(a)
  PROVE  /\ Settled
         /\ \A c \in Call : c \in written' => c \in written \/ Carried(c)
<1>0. link[a] \in Link
  BY DEF LinkType
<1>1. CASE TakeOut(a)
  <2>1. PICK s \in Seq(Pdu) : s = link[a].queue
    BY <1>0 DEF Link
  <2>2. PICK h, t : h = Head(s) /\ t = Tail(s)
    OBVIOUS
  <2>3. PICK r : r = [link[a] EXCEPT !.hand = h, !.queue = t]
    OBVIOUS
  <2>4. s # <<>> /\ written' = written /\ link' = [link EXCEPT ![a] = r]
    BY <1>1, <2>1, <2>2, <2>3 DEF TakeOut
  <2>5. Head(s) = s[1] /\ 1 \in 1..Len(s) /\ Tail(s) \in Seq(Pdu) /\ Len(Tail(s)) = Len(s) - 1
        /\ \A i \in 1..Len(Tail(s)) : Tail(s)[i] = s[i + 1] /\ i + 1 \in 1..Len(s)
    BY <2>4
  <2>6. h \in Pdu /\ t \in Seq(Pdu)
    BY <2>2, <2>5
  <2>7. r.hand = h /\ r.queue = t /\ r \in Link
    BY <1>0, <2>3, <2>6 DEF Link
  <2>8. r.hand = s[1] /\ r.queue = Tail(s) /\ r \in Link
    BY <2>2, <2>5, <2>7
  <2>9. ASSUME NEW c \in Call, Carries(r, c) PROVE Carries(link[a], c)
    BY <2>1, <2>5, <2>8, <2>9 DEF Carries
  <2> QED
    BY <2>4, <2>8, <2>9, SettledOne
<1>2. CASE WritePDU(a)
  <2>1. PICK r \in Link :
          /\ link' = [link EXCEPT ![a] = r]
          /\ r.hand = NoPdu /\ r.queue = link[a].queue
    <3>1. PICK p : p = link[a].hand
      OBVIOUS
    <3>2. PICK r1, r2 : /\ r1 = [link[a] EXCEPT !.hand = NoPdu, !.wire = @ \cup {p}]
                        /\ r2 = [link[a] EXCEPT !.hand = NoPdu, !.writer = "end", !.err = TRUE]
      OBVIOUS
    <3>3. p \in Pdu /\ (link' = [link EXCEPT ![a] = r1] \/ link' = [link EXCEPT ![a] = r2])
      BY <1>0, <1>2, <3>1, <3>2 DEF WritePDU, Link
    <3>4. r1 \in Link /\ r1.hand = NoPdu /\ r1.queue = link[a].queue
      BY <1>0, <3>2, <3>3 DEF Link
    <3>5. r2 \in Link /\ r2.hand = NoPdu /\ r2.queue = link[a].queue
      BY <1>0, <3>2, <3>3 DEF Link
    <3> QED
      BY <3>3, <3>4, <3>5
  <2>2. ASSUME NEW c \in Call, Carries(r, c) PROVE Carries(link[a], c)
    BY <2>1, <2>2, UpstreamAssumption DEF Carries, Pdu
  <2>3. ASSUME NEW c \in Call, c \in written' PROVE c \in written \/ Carried(c)
    BY <1>2, <2>3 DEF WritePDU, Carried, Carries
  <2> QED
    BY <2>1, <2>2, <2>3, SettledOne
<1>3. CASE WriterStops(a)
  <2>1. PICK r : r = [link[a] EXCEPT !.writer = "end"]
    OBVIOUS
  <2>2. r \in Link /\ r.queue = link[a].queue /\ r.hand = link[a].hand
    BY <1>0, <2>1 DEF Link
  <2>3. link' = [link EXCEPT ![a] = r] /\ written' = written
    BY <1>3, <2>1 DEF WriterStops
  <2> QED
    BY <2>2, <2>3, CalmOne, CalmSettles
<1> QED
  BY <1>1, <1>2, <1>3 DEF WriterStep

LEMMA ReaderLinks ==
  ASSUME LinkType, NEW a \in Attempt,
         \/ ReaderReplies(a) \/ ReaderStops(a) \/ EnquireResp(a)
         \/ \E c \in Call, r \in {"ok", "rejected"} : SubmitResp(a, c, r)
         \/ \E last \in BOOLEAN : PeerRequest(a, last)
  PROVE  Settled /\ at' \in [Sender -> 0..MaxAttempts] /\ written' = written
<1>0. link \in [Attempt -> Link] /\ link[a] \in Link
  BY DEF LinkType
<1>1. written' = written
  BY DEF ReaderReplies, ReaderStops, EnquireResp, SubmitResp, PeerRequest
<1>2. at' \in [Sender -> 0..MaxAttempts]
  BY UpstreamAssumption DEF LinkType, ReaderReplies, ReaderStops, EnquireResp, SubmitResp, PeerRequest, GivesUp
<1> SUFFICES Settled
  BY <1>1, <1>2
<1>3. CASE ReaderReplies(a)
  <2>1. CASE link' = AfterReply(link, a)
    <3>1. PICK l, m : l = link /\ m = link'
      OBVIOUS
    <3> QED
      BY <1>0, <2>1, <3>1, Replied, CalmSettles DEF Calm
  <2>2. CASE /\ at[Reader(a)] # 0
             /\ link' = AfterReply([link EXCEPT ![at[Reader(a)]].queue = Append(@, "reply")], a)
    <3>1. PICK b \in Attempt : b = at[Reader(a)]
      <4>1. Reader(a) \in Sender
        BY DEF Sender
      <4> QED
        BY <2>2, <4>1, UpstreamAssumption DEF LinkType, Attempt
    <3>2. PICK l, m, n : l \in [Attempt -> Link] /\ l = link /\ m = Push(l, b, "reply") /\ n = link'
      BY <1>0
    <3>3. /\ m \in [Attempt -> Link]
          /\ \A x \in Attempt, q \in Pdu : q # "reply" /\ Carries(m[x], q) => Carries(l[x], q)
      <4>1. "reply" \in Pdu
        BY DEF Pdu
      <4> QED
        BY <3>2, <4>1, Pushed
    <3>4. n \in [Attempt -> Link] /\ \A x \in Attempt : n[x].queue = m[x].queue /\ n[x].hand = m[x].hand
      <4>1. n = AfterReply(m, a)
        BY <2>2, <3>1, <3>2 DEF Push
      <4> QED
        BY <3>3, <4>1, Replied
    <3>5. ASSUME NEW c \in Call, NEW x \in Attempt, Carries(n[x], c) PROVE Carries(l[x], c)
      <4>1. c \in Pdu /\ c # "reply" /\ Carries(m[x], c)
        BY <3>4, <3>5, UpstreamAssumption DEF Pdu, Carries
      <4> QED
        BY <3>3, <4>1
    <3> QED
      BY <3>2, <3>4, <3>5 DEF Settled, Carried
  <2> QED
    BY <1>3, <2>1, <2>2 DEF ReaderReplies
<1>4. ASSUME NEW r, link' = [link EXCEPT ![a] = r], r \in Link, r.queue = link[a].queue, r.hand = link[a].hand
      PROVE  Settled
  BY <1>4, CalmOne, CalmSettles
<1>5. CASE ReaderStops(a)
  <2>1. PICK r1, r2 : r1 = [link[a] EXCEPT !.reader = "end", !.err = TRUE] /\ r2 = [link[a] EXCEPT !.reader = "end"]
    OBVIOUS
  <2>2. r1 \in Link /\ r1.queue = link[a].queue /\ r1.hand = link[a].hand
    BY <1>0, <2>1 DEF Link
  <2>3. r2 \in Link /\ r2.queue = link[a].queue /\ r2.hand = link[a].hand
    BY <1>0, <2>1 DEF Link
  <2>4. link' = [link EXCEPT ![a] = r1] \/ link' = [link EXCEPT ![a] = r2]
    BY <1>5, <2>1 DEF ReaderStops
  <2> QED
    BY <1>4, <2>2, <2>3, <2>4
<1>6. ASSUME NEW c \in Pdu, link' = [link EXCEPT ![a].wire = @ \ {c}] PROVE Settled
  <2>1. PICK r : r = [link[a] EXCEPT !.wire = @ \ {c}]
    OBVIOUS
  <2>2. r \in Link /\ r.queue = link[a].queue /\ r.hand = link[a].hand
    BY <1>0, <2>1 DEF Link
  <2>3. link' = [link EXCEPT ![a] = r]
    BY <1>6, <2>1
  <2> QED
    BY <1>4, <2>2, <2>3
<1>7. CASE EnquireResp(a) \/ \E c \in Call, r \in {"ok", "rejected"} : SubmitResp(a, c, r)
  BY <1>6, <1>7 DEF EnquireResp, SubmitResp, Pdu
<1>8. ASSUME NEW last \in BOOLEAN, PeerRequest(a, last) PROVE Settled
  <2>1. PICK v \in {"last", "reply"} : link' = [link EXCEPT ![a].reader = v]
    BY <1>8 DEF PeerRequest
  <2>2. PICK r : r = [link[a] EXCEPT !.reader = v]
    OBVIOUS
  <2>3. r \in Link /\ r.queue = link[a].queue /\ r.hand = link[a].hand
    BY <1>0, <2>2 DEF Link
  <2>4. link' = [link EXCEPT ![a] = r]
    BY <2>1, <2>2
  <2> QED
    BY <1>4, <2>3, <2>4
<1> QED
  BY <1>3, <1>5, <1>7, <1>8

LEMMA EnquirerLinks ==
  ASSUME LinkType, NEW a \in Attempt, EnquirerStep(a) \/ Drop(a) \/ Stall(a)
  PROVE  Settled /\ at' \in [Sender -> 0..MaxAttempts] /\ written' = written
<1>0. link \in [Attempt -> Link] /\ link[a] \in Link
  BY DEF LinkType
<1>1. written' = written
  BY DEF EnquirerStep, Tick, EnquirerSends, EnquirerStops, Drop, Stall
<1>2. at' \in [Sender -> 0..MaxAttempts]
  BY UpstreamAssumption DEF LinkType, EnquirerStep, Tick, EnquirerSends, EnquirerStops, Drop, Stall, GivesUp
<1> SUFFICES Settled
  BY <1>1, <1>2
<1>3. ASSUME NEW r, link' = [link EXCEPT ![a] = r], r \in Link, r.queue = link[a].queue, r.hand = link[a].hand
      PROVE  Settled
  BY <1>3, CalmOne, CalmSettles
<1>4. ASSUME NEW v \in {"run", "send", "end"}, link' = [link EXCEPT ![a].enquirer = v] PROVE Settled
  <2>1. PICK r : r = [link[a] EXCEPT !.enquirer = v]
    OBVIOUS
  <2>2. r \in Link /\ r.queue = link[a].queue /\ r.hand = link[a].hand
    BY <1>0, <2>1 DEF Link
  <2> QED
    BY <1>3, <1>4, <2>1, <2>2
<1>5. CASE Drop(a) \/ Stall(a)
  <2>1. link' = [link EXCEPT ![a] = [link[a] EXCEPT !.open = FALSE]] \/ link' = [link EXCEPT ![a] = [link[a] EXCEPT !.stalled = TRUE]]
    BY <1>5 DEF Drop, Stall
  <2> QED
    BY <1>0, <1>3, <2>1, CalmFields
<1>6. CASE EnquirerStops(a)
  BY <1>4, <1>6 DEF EnquirerStops
<1>7. CASE Tick(a)
  <2>1. CASE link' = [link EXCEPT ![attempt].open = FALSE, ![a].enquirer = "end"]
    <3>1. PICK n : n = attempt
      OBVIOUS
    <3>2. PICK l : l = [link EXCEPT ![n] = [link[n] EXCEPT !.open = FALSE]]
      OBVIOUS
    <3>3. l \in [Attempt -> Link] /\ \A b \in Attempt : l[b].queue = link[b].queue /\ l[b].hand = link[b].hand
      BY <1>0, <3>2, CalmFields
    <3>4. PICK r : r = [l[a] EXCEPT !.enquirer = "end"]
      OBVIOUS
    <3>5. r \in Link /\ r.queue = l[a].queue /\ r.hand = l[a].hand
      BY <3>3, <3>4 DEF Link
    <3>6. link' = [l EXCEPT ![a] = r]
      BY <2>1, <3>1, <3>2, <3>4
    <3> QED
      BY <3>3, <3>5, <3>6, CalmSettles DEF Calm
  <2>2. CASE \E v \in {"run", "send", "end"} : link' = [link EXCEPT ![a].enquirer = v]
    BY <1>4, <2>2
  <2> QED
    BY <1>7, <2>1, <2>2 DEF Tick
<1>8. CASE EnquirerSends(a)
  <2>1. CASE link' = [link EXCEPT ![a].enquirer = "run"]
    BY <1>4, <2>1
  <2>2. CASE /\ at[Enquirer(a)] # 0
             /\ link' = [link EXCEPT ![at[Enquirer(a)]].queue = Append(@, "enquire"), ![a].enquirer = "run"]
    <3>1. PICK b \in Attempt : b = at[Enquirer(a)]
      <4>1. Enquirer(a) \in Sender
        BY DEF Sender
      <4> QED
        BY <2>2, <4>1, UpstreamAssumption DEF LinkType, Attempt
    <3>2. PICK l, m, n : l \in [Attempt -> Link] /\ l = link /\ m = Push(l, b, "enquire") /\ n = link'
      BY <1>0
    <3>3. /\ m \in [Attempt -> Link]
          /\ \A x \in Attempt, q \in Pdu : q # "enquire" /\ Carries(m[x], q) => Carries(l[x], q)
      <4>1. "enquire" \in Pdu
        BY DEF Pdu
      <4> QED
        BY <3>2, <4>1, Pushed
    <3>4. PICK r : r = [m[a] EXCEPT !.enquirer = "run"]
      OBVIOUS
    <3>5. r \in Link /\ r.queue = m[a].queue /\ r.hand = m[a].hand
      <4>1. m[a] \in Link
        BY <3>3
      <4> QED
        BY <3>4, <4>1 DEF Link
    <3>6. n = [m EXCEPT ![a] = r]
      BY <2>2, <3>1, <3>2, <3>4 DEF Push
    <3>7. n \in [Attempt -> Link] /\ \A x \in Attempt : n[x].queue = m[x].queue /\ n[x].hand = m[x].hand
      BY <3>3, <3>5, <3>6
    <3>8. ASSUME NEW c \in Call, NEW x \in Attempt, Carries(n[x], c) PROVE Carries(l[x], c)
      <4>1. c \in Pdu /\ c # "enquire" /\ Carries(m[x], c)
        BY <3>7, <3>8, UpstreamAssumption DEF Pdu, Carries
      <4> QED
        BY <3>3, <4>1
    <3> QED
      BY <3>2, <3>7, <3>8 DEF Settled, Carried
  <2> QED
    BY <1>8, <2>1, <2>2 DEF EnquirerSends
<1> QED
  BY <1>5, <1>6, <1>7, <1>8 DEF EnquirerStep

-----------------------------------------------------------------------------
(* The steps that concern a call. *)

\* What a step of call c does to the calls: only c moves.
LEMMA CallMoves ==
  ASSUME CallType, NEW c \in Call, CallStep(c)
  PROVE  /\ CallType'
         /\ \A d \in Call : d # c => pc'[d] = pc[d] /\ reply'[d] = reply[d] /\ waiter'[d] = waiter[d]
         /\ written' = written /\ out' = out /\ attempt' = attempt
<1>0. written' = written /\ out' = out /\ attempt' = attempt
  BY DEF CallStep, CheckBound, Acquire, Register, ReadOut, Send, Wait
<1> SUFFICES /\ CallType'
             /\ \A d \in Call : d # c => pc'[d] = pc[d] /\ reply'[d] = reply[d] /\ waiter'[d] = waiter[d]
  BY <1>0
<1>1. CASE CheckBound(c)
  BY <1>1 DEF CallType, CheckBound, Returns
<1>2. CASE Acquire(c)
  BY <1>2 DEF CallType, Acquire, Returns
<1>3. CASE Register(c)
  BY <1>3 DEF CallType, Register
<1>4. CASE ReadOut(c)
  BY <1>4 DEF CallType, ReadOut, Returns, Resolve
<1>5. CASE Send(c)
  BY <1>5 DEF CallType, Send, Returns, Resolve
<1>6. CASE Wait(c)
  BY <1>6 DEF CallType, Wait, Returns, Resolve
<1> QED
  BY <1>1, <1>2, <1>3, <1>4, <1>5, <1>6 DEF CallStep

LEMMA CallSlots ==
  ASSUME SlotInv, NEW c \in Call, CallStep(c)
  PROVE  SlotInv'
<1>0. CallType /\ CallType'
  BY CallMoves DEF SlotInv
<1>1. ASSUME NEW r, Resolve(c, r), slots' = slots, pc[c] \in {"registered", "send", "wait"},
             pc' = [pc EXCEPT ![c] = "done"]
      PROVE  SlotInv'
  BY <1>0, <1>1, ResolveSlots
<1>2. ASSUME pending' = pending, releasing' = releasing, slots' = slots,
             \A d \in Call : d # c => pc'[d] = pc[d],
             pc[c] # "slot", pc'[c] # "slot", pc'[c] \in {"new", "bound"} => pc[c] = "new"
      PROVE  SlotInv'
  <2>1. Holding' = Holding
    BY <1>0, <1>2 DEF Holding, CallType
  <2> QED
    BY <1>0, <1>2, <2>1, SlotsKept DEF CallType
<1>3. CASE CheckBound(c)
  BY <1>0, <1>2, <1>3 DEF CheckBound, Returns, CallType
<1>4. CASE Acquire(c)
  <2>1. CASE slots = WindowSize /\ Returns(c, "full") /\ UNCHANGED slots
    BY <1>0, <1>2, <1>4, <2>1 DEF Acquire, Returns, CallType
  <2>2. CASE slots < WindowSize /\ slots' = slots + 1 /\ pc' = [pc EXCEPT ![c] = "slot"] /\ UNCHANGED reply
    <3>1. pending' = pending /\ releasing' = releasing /\ pc[c] = "bound" /\ c \notin pending
      BY <1>4 DEF Acquire, SlotInv
    <3>2. Holding' = Holding \cup {c} /\ c \notin Holding
      BY <1>0, <2>2, <3>1 DEF Holding, CallType
    <3>3. Cardinality(Holding') = Cardinality(Holding) + 1
      BY <1>0, <3>2, CallsAreFinite, FS_AddElement
    <3>4. SlotsExact'
      BY <1>0, <2>2, <3>1, <3>3, CallsAreFinite, UpstreamAssumption DEF SlotInv, SlotsExact, Holding, CallType
    <3>5. \A d \in Call : pc'[d] \in {"new", "bound", "slot"} => pc[d] \in {"new", "bound", "slot"}
      BY <1>0, <2>2, <3>1 DEF CallType
    <3> QED
      BY <1>0, <3>1, <3>4, <3>5 DEF SlotInv
  <2> QED
    BY <1>4, <2>1, <2>2 DEF Acquire
<1>5. CASE Register(c)
  <2>1. /\ pending' = pending \cup {c} /\ releasing' = releasing /\ slots' = slots
        /\ pc[c] = "slot" /\ pc' = [pc EXCEPT ![c] = "registered"]
    BY <1>5 DEF Register
  <2>2. Holding' = Holding
    BY <1>0, <2>1 DEF Holding, CallType
  <2> QED
    BY <1>0, <2>1, <2>2, SlotsKept DEF CallType
<1>6. CASE ReadOut(c)
  BY <1>0, <1>1, <1>2, <1>6 DEF ReadOut, Returns, CallType
<1>7. CASE Send(c)
  BY <1>0, <1>1, <1>2, <1>7 DEF Send, Returns, CallType
<1>8. CASE Wait(c)
  BY <1>0, <1>1, <1>2, <1>8 DEF Wait, Returns, CallType
<1> QED
  BY <1>3, <1>4, <1>5, <1>6, <1>7, <1>8 DEF CallStep

LEMMA DisjointUnion ==
  ASSUME NEW S, NEW T, IsFiniteSet(S), IsFiniteSet(T), S \cap T = {}
  PROVE  Cardinality(S \cup T) = Cardinality(S) + Cardinality(T)
<1>1. Cardinality(S \cup T) = Cardinality(S) + Cardinality(T) - Cardinality(S \cap T)
  BY FS_Union
<1>2. Cardinality(S \cap T) = 0
  BY FS_EmptySet
<1>3. Cardinality(S) \in Nat /\ Cardinality(T) \in Nat
  BY FS_CardinalityType
<1> QED
  BY <1>1, <1>2, <1>3

LEMMA FailAllSlots ==
  ASSUME SlotInv, FailAll
  PROVE  SlotInv'
<1>1. /\ pc' = pc /\ reply' = reply /\ slots' = slots /\ pending' = {}
      /\ releasing' = releasing \cup pending
  BY DEF FailAll
<1>2. CallType'
  BY <1>1 DEF SlotInv, CallType, FailAll
<1>3. PICK H : H = {c \in Call : pc[c] = "slot"}
  OBVIOUS
<1>4. H \cap pending = {} /\ releasing \cap pending = {} /\ IsFiniteSet(H) /\ IsFiniteSet(pending) /\ IsFiniteSet(releasing)
  BY <1>3, CallsAreFinite DEF SlotInv
<1>5. Cardinality(H) \in Nat /\ Cardinality(pending) \in Nat /\ Cardinality(releasing) \in Nat
  BY <1>4, FS_CardinalityType
<1>6. Cardinality(H \cup pending) = Cardinality(H) + Cardinality(pending)
  BY <1>4, DisjointUnion
<1>7. Cardinality(releasing \cup pending) = Cardinality(releasing) + Cardinality(pending)
  BY <1>4, DisjointUnion
<1>8. {c \in Call : pc'[c] = "slot"} \cup pending' = H
  BY <1>1, <1>3
<1>9. SlotsExact'
  BY <1>1, <1>3, <1>5, <1>6, <1>7, <1>8 DEF SlotInv, SlotsExact
<1> QED
  BY <1>1, <1>2, <1>9 DEF SlotInv

LEMMA SlotStep == SlotInv /\ [UpstreamNext]_upstreamVars => SlotInv'
<1> SUFFICES ASSUME SlotInv, [UpstreamNext]_upstreamVars PROVE SlotInv'
  OBVIOUS
<1>1. CASE UNCHANGED calls
  BY <1>1 DEF calls, SlotInv, CallType, SlotsExact
<1>2. CASE LoopStep \/ Close
  <2>1. FailAll \/ UNCHANGED calls
    BY <1>2 DEF LoopStep, Close, BeginAttempt, Dial, Bind, StartLoops, EndServe, Unbind, Backoff
  <2> QED
    BY <1>1, <2>1, FailAllSlots
<1>3. ASSUME NEW a \in Attempt, WriterStep(a) \/ EnquirerStep(a) \/ ReaderReplies(a) \/ ReaderStops(a)
                                \/ EnquireResp(a) \/ Drop(a) \/ Stall(a)
      PROVE  UNCHANGED calls
  BY <1>3 DEF WriterStep, TakeOut, WritePDU, WriterStops, EnquirerStep, Tick, EnquirerSends, EnquirerStops,
     ReaderReplies, ReaderStops, EnquireResp, Drop, Stall
<1>4. ASSUME NEW a \in Attempt, NEW last \in BOOLEAN, PeerRequest(a, last) PROVE UNCHANGED calls
  BY <1>4 DEF PeerRequest
<1>5. ASSUME NEW a \in Attempt, NEW c \in Call, NEW r \in {"ok", "rejected"}, SubmitResp(a, c, r) PROVE SlotInv'
  <2>1. Resolve(c, r) /\ slots' = slots /\ pc' = pc /\ reply' = reply
    BY <1>5 DEF SubmitResp
  <2>2. CallType'
    BY <2>1 DEF SlotInv, CallType, Resolve
  <2>3. pc[c] \notin {"new", "bound", "slot"} \/ c \notin pending
    BY DEF SlotInv
  <2> QED
    BY <2>1, <2>2, <2>3, ResolveSlots
<1>6. ASSUME NEW c \in Call, Release(c) PROVE SlotInv'
  <2>1. /\ c \in releasing /\ releasing' = releasing \ {c} /\ slots' = slots - 1
        /\ pc' = pc /\ waiter' = waiter /\ reply' = reply /\ pending' = pending
    BY <1>6 DEF Release
  <2>2. Cardinality(releasing') = Cardinality(releasing) - 1
    BY <2>1, CallsAreFinite, FS_RemoveElement DEF SlotInv
  <2>3. SlotsExact' /\ slots' \in Nat
    <3>1. Cardinality(Holding) \in Nat /\ Cardinality(releasing') \in Nat
      BY <2>1, CallsAreFinite, FS_CardinalityType, FS_RemoveElement DEF SlotInv
    <3> QED
      BY <2>1, <2>2, <3>1, CallsAreFinite, UpstreamAssumption DEF SlotInv, SlotsExact, Holding, CallType
  <2> QED
    BY <2>1, <2>3 DEF SlotInv, CallType
<1>7. CASE UNCHANGED upstreamVars
  BY <1>1, <1>7 DEF upstreamVars
<1> QED
  BY <1>1, <1>2, <1>3, <1>4, <1>5, <1>6, <1>7, CallSlots DEF UpstreamNext

\* The slots of the window of an upstream connection are exactly those of the
\* calls that hold one, and never more than the window size, whoever resolves a
\* call first: the answer, the timer, the cancelled context, the loss of the
\* connection or the close of the pool.  For any calls, window and connections.
THEOREM SlotsExactHolds == UpstreamSpec => []SlotsExact
<1>1. SlotInv => SlotsExact
  BY DEF SlotInv
<1> QED
  BY <1>1, UpstreamStart, SlotStep, PTL DEF UpstreamSpec

-----------------------------------------------------------------------------

LEMMA SentStart == UpstreamInit => SentInv
<1> SUFFICES ASSUME UpstreamInit PROVE SentInv
  OBVIOUS
<1>1. PICK l : l = [open |-> FALSE, stalled |-> FALSE, over |-> FALSE, err |-> FALSE,
                    queue |-> <<>>, hand |-> NoPdu, writer |-> "end", reader |-> "end",
                    enquirer |-> "end", wire |-> {}]
  OBVIOUS
<1>2. l \in Link /\ l.hand = NoPdu /\ l.queue = <<>>
  BY <1>1 DEF Link
<1>3. link = [a \in Attempt |-> l]
  BY <1>1 DEF UpstreamInit
<1>4. LinkType
  <2>1. 0 \in 0..MaxAttempts
    BY UpstreamAssumption
  <2> QED
    BY <1>2, <1>3, <2>1 DEF UpstreamInit, LinkType
<1>5. \A c \in Call : ~Carried(c)
  BY <1>2, <1>3, UpstreamAssumption DEF Carried, Carries, Pdu
<1> QED
  BY <1>4, <1>5 DEF UpstreamInit, SentInv

\* A step that moves no call.
LEMMA SentKept ==
  ASSUME SentInv, LinkType', pc' = pc, reply' = reply,
         \A c \in Call : Carried(c)' => Carried(c),
         \A c \in Call : c \in written' => c \in written \/ Carried(c),
         \A c \in Call : waiter'[c] = "notready" => waiter[c] = "notready"
  PROVE  SentInv'
  BY DEF SentInv

LEMMA CallSent ==
  ASSUME SentInv, CallType, NEW c \in Call, CallStep(c)
  PROVE  SentInv'
<1>1. /\ CallType'
      /\ \A d \in Call : d # c => pc'[d] = pc[d] /\ reply'[d] = reply[d] /\ waiter'[d] = waiter[d]
      /\ written' = written /\ out' = out /\ attempt' = attempt
  BY CallMoves
<1>2. LinkType' /\ \A d \in Call : Carried(d)' => Carried(d) \/ (d = c /\ pc[c] = "send" /\ pc'[c] = "wait" /\ reply' = reply /\ waiter' = waiter)
  <2>1. CASE link' = link
    <3>1. at' \in [Sender -> 0..MaxAttempts]
      <4>1. at' = at \/ \E n \in {0, out} : at' = [at EXCEPT ![c] = n]
        BY DEF CallStep, CheckBound, Acquire, Register, ReadOut, Send, Wait, PushTo, GivesUp
      <4>2. {0, out} \subseteq 0..MaxAttempts /\ at \in [Sender -> 0..MaxAttempts]
        BY UpstreamAssumption DEF SentInv, LinkType
      <4> QED
        BY <4>1, <4>2
    <3> QED
      BY <1>1, <2>1, <3>1 DEF SentInv, LinkType, Carried
  <2>2. CASE pc[c] = "send" /\ PushTo(c, c) /\ pc' = [pc EXCEPT ![c] = "wait"] /\ UNCHANGED <<waiter, reply, pending, releasing>>
    <3>1. PICK b \in Attempt : b = at[c]
      BY <2>2, UpstreamAssumption DEF SentInv, LinkType, PushTo, Sender, Attempt
    <3>2. PICK l, m : l \in [Attempt -> Link] /\ l = link /\ m = link'
      BY DEF SentInv, LinkType
    <3>3. m = Push(l, b, c) /\ c \in Pdu
      BY <2>2, <3>1, <3>2 DEF PushTo, Push, Pdu
    <3>4. m \in [Attempt -> Link] /\ \A x \in Attempt, q \in Pdu : q # c /\ Carries(m[x], q) => Carries(l[x], q)
      BY <3>1, <3>2, <3>3, Pushed
    <3>5. at' \in [Sender -> 0..MaxAttempts]
      <4>1. at' = [at EXCEPT ![c] = 0]
        BY <2>2 DEF PushTo
      <4>2. 0 \in 0..MaxAttempts /\ at \in [Sender -> 0..MaxAttempts]
        BY UpstreamAssumption DEF SentInv, LinkType
      <4> QED
        BY <4>1, <4>2
    <3>6. ASSUME NEW d \in Call, Carried(d)', d # c PROVE Carried(d)
      BY <3>2, <3>4, <3>6 DEF Carried, Pdu
    <3>7. pc'[c] = "wait"
      BY <2>2 DEF CallType
    <3> QED
      BY <1>1, <2>2, <3>2, <3>4, <3>5, <3>6, <3>7 DEF SentInv, LinkType
  <2> QED
    BY <2>1, <2>2 DEF CallStep, CheckBound, Acquire, Register, ReadOut, Send, Wait
<1>3. /\ pc'[c] # "done" => reply'[c] = "none" /\ waiter'[c] # "notready"
      /\ pc[c] = "wait" => reply'[c] \notin Unsent
      /\ pc[c] # "done" /\ (pc[c] = "wait" => pc'[c] \in {"wait", "done"})
  <2>1. CASE CheckBound(c)
    BY <2>1 DEF SentInv, CallType, CheckBound, Returns, Unsent
  <2>2. CASE Acquire(c)
    BY <2>2 DEF SentInv, CallType, Acquire, Returns, Unsent
  <2>3. CASE Register(c)
    BY <2>3 DEF SentInv, CallType, Register, Unsent
  <2>4. CASE ReadOut(c)
    BY <2>4 DEF SentInv, CallType, ReadOut, Returns, Resolve, Unsent
  <2>5. CASE Send(c)
    BY <2>5 DEF SentInv, CallType, Send, Returns, Resolve, Unsent
  <2>6. CASE Wait(c)
    BY <2>6 DEF SentInv, CallType, Wait, Returns, Resolve, Unsent
  <2> QED
    BY <2>1, <2>2, <2>3, <2>4, <2>5, <2>6 DEF CallStep
<1>4. ASSUME NEW d \in Call
      PROVE  /\ Carried(d)' \/ d \in written' => pc'[d] \in {"wait", "done"} /\ reply'[d] \notin Unsent
             /\ pc'[d] # "done" => reply'[d] = "none" /\ waiter'[d] # "notready"
  <2>1. CASE d # c
    BY <1>1, <1>2, <2>1 DEF SentInv
  <2>2. CASE d = c
    BY <1>1, <1>2, <1>3, <2>2 DEF SentInv, Unsent
  <2> QED
    BY <2>1, <2>2
<1> QED
  BY <1>2, <1>4 DEF SentInv

LEMMA SentStep == SentInv /\ CallType /\ [UpstreamNext]_upstreamVars => SentInv'
<1> SUFFICES ASSUME SentInv, CallType, [UpstreamNext]_upstreamVars PROVE SentInv'
  OBVIOUS
<1>0. LinkType
  BY DEF SentInv
<1>1. ASSUME Settled, at' \in [Sender -> 0..MaxAttempts], out' \in 0..MaxAttempts, attempt' \in 0..MaxAttempts,
             pc' = pc, reply' = reply, \A c \in Call : c \in written' => c \in written \/ Carried(c),
             \A c \in Call : waiter'[c] = "notready" => waiter[c] = "notready"
      PROVE  SentInv'
  <2>1. LinkType'
    BY <1>1 DEF LinkType, Settled
  <2> QED
    BY <1>1, <2>1, SentKept DEF Settled
<1>2. CASE LoopStep \/ Close
  <2>1. pc' = pc /\ reply' = reply /\ written' = written /\ \A c \in Call : waiter'[c] \in {waiter[c], "lost"}
    BY <1>2 DEF LoopStep, Close, BeginAttempt, Dial, Bind, StartLoops, EndServe, Unbind, FailAll, Backoff, calls
  <2>2. Calm /\ at' = at /\ out' \in 0..MaxAttempts /\ attempt' \in 0..MaxAttempts
    BY <1>0, <1>2, LoopLinks
  <2> QED
    BY <1>0, <1>1, <2>1, <2>2, CalmSettles DEF LinkType
<1>3. ASSUME NEW a \in Attempt, WriterStep(a) PROVE SentInv'
  <2>1. UNCHANGED <<at, out, attempt, pc, reply, waiter>>
    BY <1>3 DEF WriterStep, TakeOut, WritePDU, WriterStops, calls
  <2> QED
    BY <1>0, <1>1, <1>3, <2>1, WriterLinks DEF LinkType
<1>4. ASSUME NEW a \in Attempt, EnquirerStep(a) \/ Drop(a) \/ Stall(a) PROVE SentInv'
  <2>1. UNCHANGED <<out, attempt, pc, reply, waiter>>
    BY <1>4 DEF EnquirerStep, Tick, EnquirerSends, EnquirerStops, Drop, Stall, calls
  <2> QED
    BY <1>0, <1>1, <1>4, <2>1, EnquirerLinks DEF LinkType
<1>5. ASSUME NEW a \in Attempt,
             \/ ReaderReplies(a) \/ ReaderStops(a) \/ EnquireResp(a)
             \/ \E c \in Call, r \in {"ok", "rejected"} : SubmitResp(a, c, r)
             \/ \E last \in BOOLEAN : PeerRequest(a, last)
      PROVE  SentInv'
  <2>1. UNCHANGED <<out, attempt, pc, reply>> /\ \A c \in Call : waiter'[c] \in {waiter[c], "ok", "rejected"}
    BY <1>5 DEF ReaderReplies, ReaderStops, EnquireResp, SubmitResp, PeerRequest, Resolve, CallType, calls
  <2> QED
    BY <1>0, <1>1, <1>5, <2>1, ReaderLinks DEF LinkType
<1>6. CASE UNCHANGED <<link, at, out, attempt, pc, reply, waiter, written>>
  BY <1>6 DEF SentInv, LinkType, Carried
<1>7. ASSUME NEW c \in Call, Release(c) PROVE SentInv'
  BY <1>6, <1>7 DEF Release
<1>8. CASE UNCHANGED upstreamVars
  BY <1>6, <1>8 DEF upstreamVars, calls
<1> QED
  BY <1>2, <1>3, <1>4, <1>5, <1>7, <1>8, CallSent DEF UpstreamNext

\* A call of connection.submit that reports "not bound", "window full" or "not
\* ready" has not sent, and nothing that outlives its connection sends it later: for
\* any calls, queues and connections.
THEOREM UnsentHolds == UpstreamSpec => []UnsentStaysUnsent
<1>1. SentInv => UnsentStaysUnsent
  BY DEF SentInv, UnsentStaysUnsent
<1>2. SlotInv => CallType
  BY DEF SlotInv
<1>3. UpstreamInit => SentInv /\ SlotInv
  BY SentStart, UpstreamStart
<1>4. SentInv /\ SlotInv /\ [UpstreamNext]_upstreamVars => (SentInv /\ SlotInv)'
  BY <1>2, SentStep, SlotStep
<1> QED
  BY <1>1, <1>3, <1>4, PTL DEF UpstreamSpec
=============================================================================
