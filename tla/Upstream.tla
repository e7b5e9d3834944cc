------------------------------ MODULE Upstream ------------------------------
(***************************************************************************)
(* One connection of the SMPP client to its upstream (smppclient): the     *)
(* reconnect loop, the write, read and enquire goroutines of each attempt, *)
(* the window of unanswered submits and the calls of submit.               *)
(*                                                                         *)
(* The peer may drop the connection, stop reading it, answer late or not   *)
(* at all.  Timers fire at any time.  Sequence numbers are never reused    *)
(* within a run, so a submit_sm is known by its call.                      *)
(***************************************************************************)
EXTENDS Integers, Sequences, FiniteSets

CONSTANTS
  Call,          \* calls of connection.submit
  WindowSize,    \* providers[].smpp.window_size
  OutCap,        \* capacity of the out channel: 128
  MaxAttempts,   \* bound: connections made
  MaxDrops, MaxStalls, MaxDelivers,   \* bounds: what the peer does
  MayClose,      \* may the pool be closed?
  Enquires,      \* is enquire_period positive?
  NoPdu

Attempt == 1 .. MaxAttempts
Reader(a) == <<"reader", a>>
Enquirer(a) == <<"enquirer", a>>
Pdu == Call \cup {"enquire", "reply"}

ASSUME UpstreamAssumption ==
  /\ IsFiniteSet(Call) /\ {"enquire", "reply"} \cap Call = {} /\ NoPdu \notin Pdu
  /\ WindowSize \in Nat /\ MaxAttempts \in Nat

VARIABLES
  loop,      \* where the reconnect loop is
  attempt,   \* the connection it is using
  bound,     \* connection.bound
  out,       \* connection.out: the attempt whose queue it is, 0 for nil
  link,      \* per attempt: socket, queue, goroutines, what the peer has not answered
  idle,      \* enquire ticks since something was last read
  closed,    \* connection.closed is closed
  pc,        \* where each call is
  at,        \* the queue on which each sender is blocked, 0 if none
  waiter,    \* the result in the channel of each call
  reply,     \* what each call returned
  pending,   \* registered calls
  slots,     \* slots in use
  releasing, \* calls whose result is delivered and whose slot is about to be freed
  drops, stalls, delivers,   \* what the peer may still do
  written    \* history: calls whose submit_sm reached the peer

calls == <<pc, waiter, reply, pending, slots, releasing>>
peer == <<drops, stalls, delivers>>
upstreamVars == <<loop, attempt, bound, out, link, idle, closed, calls, at, peer, written>>

Sender == Call \cup {Reader(a) : a \in Attempt} \cup {Enquirer(a) : a \in Attempt}

UpstreamInit ==
  /\ loop = "start" /\ attempt = 0 /\ bound = FALSE /\ out = 0
  /\ link = [a \in Attempt |->
               [open |-> FALSE, stalled |-> FALSE, over |-> FALSE, err |-> FALSE,
                queue |-> <<>>, hand |-> NoPdu, writer |-> "end", reader |-> "end",
                enquirer |-> "end", wire |-> {}]]
  /\ idle = 0 /\ closed = FALSE
  /\ pc = [c \in Call |-> "new"] /\ at = [s \in Sender |-> 0]
  /\ waiter = [c \in Call |-> "none"] /\ reply = [c \in Call |-> "none"]
  /\ pending = {} /\ slots = 0 /\ releasing = {}
  /\ drops = MaxDrops /\ stalls = MaxStalls /\ delivers = MaxDelivers
  /\ written = {}

-----------------------------------------------------------------------------
(* The reconnect loop: connectAndServe and what follows it. *)

BeginAttempt ==
  /\ loop = "start"
  /\ loop' = IF closed THEN "stopped" ELSE "dial"
  /\ UNCHANGED <<attempt, bound, out, link, idle, closed, calls, at, peer, written>>

\* The dial succeeds or not.  A close during the dial does not reach its socket.
Dial ==
  /\ loop = "dial"
  /\ \/ loop' = "ended" /\ UNCHANGED <<attempt, link>>
     \/ /\ attempt < MaxAttempts
        /\ attempt' = attempt + 1
        /\ link' = [link EXCEPT ![attempt'].open = TRUE]
        /\ loop' = "bind"
  /\ UNCHANGED <<bound, out, idle, closed, calls, at, peer, written>>

\* The bind is answered, refused or times out.  The first tick of the enquire loop
\* comes a whole period after the answer: idle counts it already.
Bind ==
  /\ loop = "bind"
  /\ \/ /\ link[attempt].open /\ ~link[attempt].stalled
        /\ bound' = TRUE /\ idle' = 1 /\ loop' = "ready"
     \/ loop' = "ended" /\ UNCHANGED <<bound, idle>>
  /\ UNCHANGED <<attempt, out, link, closed, calls, at, peer, written>>

StartLoops ==
  /\ loop = "ready"
  /\ loop' = "serve"
  /\ out' = attempt
  /\ link' = [link EXCEPT ![attempt].writer = "run", ![attempt].reader = "run",
                         ![attempt].enquirer = IF Enquires THEN "run" ELSE "end"]
  /\ UNCHANGED <<attempt, bound, idle, closed, calls, at, peer, written>>

\* An error of the write or read loop, or the pool is closed.
EndServe ==
  /\ loop = "serve" /\ (link[attempt].err \/ closed)
  /\ loop' = "ended"
  /\ link' = [link EXCEPT ![attempt].over = TRUE]
  /\ out' = 0
  /\ UNCHANGED <<attempt, bound, idle, closed, calls, at, peer, written>>

CloseConn == link' = [link EXCEPT ![attempt].open = FALSE]

Unbind ==
  /\ loop = "ended"
  /\ loop' = "failing"
  /\ bound' = FALSE
  /\ IF attempt > 0 THEN CloseConn ELSE UNCHANGED link
  /\ UNCHANGED <<attempt, out, idle, closed, calls, at, peer, written>>

\* window.failAll: every registered call gets an error.
FailAll ==
  /\ loop = "failing"
  /\ loop' = "backoff"
  /\ waiter' = [c \in Call |-> IF c \in pending THEN "lost" ELSE waiter[c]]
  /\ releasing' = releasing \cup pending
  /\ pending' = {}
  /\ UNCHANGED <<attempt, bound, out, link, idle, closed, pc, reply, slots, at, peer, written>>

Backoff ==
  /\ loop = "backoff"
  /\ loop' = IF closed THEN "stopped" ELSE "start"
  /\ UNCHANGED <<attempt, bound, out, link, idle, closed, calls, at, peer, written>>

LoopStep == BeginAttempt \/ Dial \/ Bind \/ StartLoops \/ EndServe \/ Unbind \/ FailAll \/ Backoff

-----------------------------------------------------------------------------
(* connection.send: read connection.out, then wait for room in that queue. *)

PushTo(s, p) ==
  /\ at[s] # 0 /\ Len(link[at[s]].queue) < OutCap
  /\ link' = [link EXCEPT ![at[s]].queue = Append(@, p)]
  /\ at' = [at EXCEPT ![s] = 0]

GivesUp(s) == at[s] # 0 /\ closed /\ at' = [at EXCEPT ![s] = 0]

(* writeLoop: WritePDU has no deadline. *)

TakeOut(a) ==
  /\ link[a].writer = "run" /\ link[a].hand = NoPdu /\ link[a].queue # <<>>
  /\ link' = [link EXCEPT ![a].hand = Head(link[a].queue), ![a].queue = Tail(@)]
  /\ UNCHANGED <<loop, attempt, bound, out, idle, closed, calls, at, peer, written>>

WritePDU(a) ==
  LET p == link[a].hand IN
  /\ p # NoPdu
  /\ \/ /\ link[a].open /\ ~link[a].stalled
        /\ link' = [link EXCEPT ![a].hand = NoPdu, ![a].wire = @ \cup {p}]
        /\ written' = written \cup ({p} \cap Call)
     \/ /\ ~link[a].open
        /\ link' = [link EXCEPT ![a].hand = NoPdu, ![a].writer = "end", ![a].err = TRUE]
        /\ UNCHANGED written
  /\ UNCHANGED <<loop, attempt, bound, out, idle, closed, calls, at, peer>>

WriterStops(a) ==
  /\ link[a].writer = "run" /\ link[a].hand = NoPdu
  /\ link[a].over \/ closed
  /\ link' = [link EXCEPT ![a].writer = "end"]
  /\ UNCHANGED <<loop, attempt, bound, out, idle, closed, calls, at, peer, written>>

WriterStep(a) == TakeOut(a) \/ WritePDU(a) \/ WriterStops(a)

-----------------------------------------------------------------------------
(* window.complete and window.fail: whoever removes the registration delivers
   the result and frees the slot. *)

\* Mutant: the slot is freed whether or not the call was still registered.
ResolveAlways(c, r) ==
  /\ pending' = pending \ {c}
  /\ waiter' = IF c \in pending THEN [waiter EXCEPT ![c] = r] ELSE waiter
  /\ releasing' = releasing \cup {c}

Resolve(c, r) ==
  /\ pending' = pending \ {c}
  /\ IF c \in pending
     THEN waiter' = [waiter EXCEPT ![c] = r] /\ releasing' = releasing \cup {c}
     ELSE UNCHANGED <<waiter, releasing>>

Release(c) ==
  /\ c \in releasing
  /\ releasing' = releasing \ {c}
  /\ slots' = slots - 1
  /\ UNCHANGED <<loop, attempt, bound, out, link, idle, closed, pc, waiter, reply, pending, at, peer, written>>

(* readLoop. *)

\* The peer answers a submit_sm, perhaps long after the call has given up.
SubmitResp(a, c, r) ==
  /\ link[a].reader = "run" /\ link[a].open /\ c \in link[a].wire
  /\ link' = [link EXCEPT ![a].wire = @ \ {c}]
  /\ idle' = 0
  /\ Resolve(c, r)
  /\ UNCHANGED <<loop, attempt, bound, out, closed, pc, reply, slots, at, peer, written>>

EnquireResp(a) ==
  /\ link[a].reader = "run" /\ link[a].open /\ "enquire" \in link[a].wire
  /\ link' = [link EXCEPT ![a].wire = @ \ {"enquire"}]
  /\ idle' = 0
  /\ UNCHANGED <<loop, attempt, bound, out, closed, calls, at, peer, written>>

\* deliver_sm, enquire_link, unbind or anything else that needs a reply.
PeerRequest(a, last) ==
  /\ link[a].reader = "run" /\ link[a].open
  /\ delivers > 0 /\ delivers' = delivers - 1
  /\ idle' = 0
  /\ at' = [at EXCEPT ![Reader(a)] = out]
  /\ link' = [link EXCEPT ![a].reader = IF last THEN "last" ELSE "reply"]
  /\ UNCHANGED <<loop, attempt, bound, out, closed, calls, drops, stalls, written>>

\* The reply is queued, or there is no queue; an unbind ends the loop.
AfterReply(l, a) ==
  IF l[a].reader = "last" THEN [l EXCEPT ![a].reader = "end", ![a].err = TRUE]
  ELSE [l EXCEPT ![a].reader = "run"]

ReaderReplies(a) ==
  /\ link[a].reader \in {"reply", "last"}
  /\ \/ /\ at[Reader(a)] # 0 /\ Len(link[at[Reader(a)]].queue) < OutCap
        /\ link' = AfterReply([link EXCEPT ![at[Reader(a)]].queue = Append(@, "reply")], a)
        /\ at' = [at EXCEPT ![Reader(a)] = 0]
     \/ at[Reader(a)] = 0 /\ link' = AfterReply(link, a) /\ UNCHANGED at
     \/ GivesUp(Reader(a)) /\ link' = AfterReply(link, a)
  /\ UNCHANGED <<loop, attempt, bound, out, idle, closed, calls, peer, written>>

ReaderStops(a) ==
  /\ link[a].reader = "run"
  /\ \/ ~link[a].open /\ link' = [link EXCEPT ![a].reader = "end", ![a].err = TRUE]
     \/ link[a].over /\ link' = [link EXCEPT ![a].reader = "end"]
  /\ UNCHANGED <<loop, attempt, bound, out, idle, closed, calls, at, peer, written>>

-----------------------------------------------------------------------------
(* enquireLoop. *)

\* Timing: within one enquire period the write loop writes what it has been given,
\* unless the peer does not read.
Drained(a) == link[a].open /\ ~link[a].stalled => link[a].hand = NoPdu /\ link[a].queue = <<>>

\* Mutant: at the third tick the loop ends and leaves the connection open.
TickLeavesOpen(a) ==
  /\ link[a].enquirer = "run" /\ bound /\ Drained(a)
  /\ \/ /\ idle >= 2
        /\ link' = [link EXCEPT ![a].enquirer = "end"]
        /\ UNCHANGED <<idle, at>>
     \/ /\ idle < 2
        /\ idle' = idle + 1
        /\ at' = [at EXCEPT ![Enquirer(a)] = out]
        /\ link' = [link EXCEPT ![a].enquirer = IF out = 0 THEN "run" ELSE "send"]
  /\ UNCHANGED <<loop, attempt, bound, out, closed, calls, peer, written>>

\* A tick of the enquire period.  At the third tick without anything read the
\* connection is closed.
Tick(a) ==
  /\ link[a].enquirer = "run" /\ bound /\ Drained(a)
  /\ \/ /\ idle >= 2
        /\ link' = [link EXCEPT ![attempt].open = FALSE, ![a].enquirer = "end"]
        /\ UNCHANGED <<idle, at>>
     \/ /\ idle < 2
        /\ idle' = idle + 1
        /\ at' = [at EXCEPT ![Enquirer(a)] = out]
        /\ link' = [link EXCEPT ![a].enquirer = IF out = 0 THEN "run" ELSE "send"]
  /\ UNCHANGED <<loop, attempt, bound, out, closed, calls, peer, written>>

EnquirerSends(a) ==
  /\ link[a].enquirer = "send"
  /\ \/ /\ at[Enquirer(a)] # 0 /\ Len(link[at[Enquirer(a)]].queue) < OutCap
        /\ link' = [link EXCEPT ![at[Enquirer(a)]].queue = Append(@, "enquire"), ![a].enquirer = "run"]
        /\ at' = [at EXCEPT ![Enquirer(a)] = 0]
     \/ GivesUp(Enquirer(a)) /\ link' = [link EXCEPT ![a].enquirer = "run"]
  /\ UNCHANGED <<loop, attempt, bound, out, idle, closed, calls, peer, written>>

EnquirerStops(a) ==
  /\ link[a].enquirer = "run" /\ (link[a].over \/ closed)
  /\ link' = [link EXCEPT ![a].enquirer = "end"]
  /\ UNCHANGED <<loop, attempt, bound, out, idle, closed, calls, at, peer, written>>

EnquirerStep(a) == Tick(a) \/ EnquirerSends(a) \/ EnquirerStops(a)

-----------------------------------------------------------------------------
(* connection.submit. *)

Returns(c, r) == pc' = [pc EXCEPT ![c] = "done"] /\ reply' = [reply EXCEPT ![c] = r]

\* Pool.pick and submit look whether the connection is bound.
CheckBound(c) ==
  /\ pc[c] = "new"
  /\ \/ bound /\ pc' = [pc EXCEPT ![c] = "bound"] /\ UNCHANGED reply
     \/ ~bound /\ Returns(c, "notbound")
  /\ UNCHANGED <<loop, attempt, bound, out, link, idle, closed, waiter, pending, slots, releasing, at, peer, written>>

\* window.acquire
Acquire(c) ==
  /\ pc[c] = "bound"
  /\ \/ slots < WindowSize /\ slots' = slots + 1 /\ pc' = [pc EXCEPT ![c] = "slot"] /\ UNCHANGED reply
     \/ slots = WindowSize /\ Returns(c, "full") /\ UNCHANGED slots
  /\ UNCHANGED <<loop, attempt, bound, out, link, idle, closed, waiter, pending, releasing, at, peer, written>>

\* window.register
Register(c) ==
  /\ pc[c] = "slot"
  /\ pending' = pending \cup {c}
  /\ pc' = [pc EXCEPT ![c] = "registered"]
  /\ UNCHANGED <<loop, attempt, bound, out, link, idle, closed, waiter, reply, slots, releasing, at, peer, written>>

ReadOut(c) ==
  /\ pc[c] = "registered"
  /\ \/ /\ out # 0 /\ at' = [at EXCEPT ![c] = out] /\ pc' = [pc EXCEPT ![c] = "send"]
        /\ UNCHANGED <<waiter, reply, pending, releasing>>
     \/ out = 0 /\ Resolve(c, "notready") /\ Returns(c, "notready") /\ UNCHANGED at
  /\ UNCHANGED <<loop, attempt, bound, out, link, idle, closed, slots, peer, written>>

\* Mutant: after queueing, a call reports "not ready" if the connection has ended.
SendRechecks(c) ==
  /\ pc[c] = "send"
  /\ PushTo(c, c)
  /\ IF out = at[c] THEN pc' = [pc EXCEPT ![c] = "wait"] /\ UNCHANGED <<waiter, reply, pending, releasing>>
     ELSE Resolve(c, "notready") /\ Returns(c, "notready")
  /\ UNCHANGED <<loop, attempt, bound, out, idle, closed, slots, peer, written>>

Send(c) ==
  /\ pc[c] = "send"
  /\ \/ PushTo(c, c) /\ pc' = [pc EXCEPT ![c] = "wait"] /\ UNCHANGED <<waiter, reply, pending, releasing>>
     \/ GivesUp(c) /\ Resolve(c, "notready") /\ Returns(c, "notready") /\ UNCHANGED link
  /\ UNCHANGED <<loop, attempt, bound, out, idle, closed, slots, peer, written>>

\* Mutant: the timer of the response is never looked at.
WaitForever(c) ==
  /\ pc[c] = "wait" /\ waiter[c] # "none"
  /\ Returns(c, waiter[c])
  /\ UNCHANGED <<loop, attempt, bound, out, link, idle, closed, waiter, pending, slots, releasing, at, peer, written>>

\* The result arrives, the response timer fires or the context is cancelled.
Wait(c) ==
  /\ pc[c] = "wait"
  /\ \/ waiter[c] # "none" /\ Returns(c, waiter[c]) /\ UNCHANGED <<waiter, pending, releasing>>
     \/ \E r \in {"timeout", "cancelled"} : Resolve(c, r) /\ Returns(c, r)
  /\ UNCHANGED <<loop, attempt, bound, out, link, idle, closed, slots, at, peer, written>>

CallStep(c) == CheckBound(c) \/ Acquire(c) \/ Register(c) \/ ReadOut(c) \/ Send(c) \/ Wait(c)

-----------------------------------------------------------------------------
(* The peer and the pool. *)

Drop(a) ==
  /\ drops > 0 /\ drops' = drops - 1
  /\ link[a].open
  /\ link' = [link EXCEPT ![a].open = FALSE]
  /\ UNCHANGED <<loop, attempt, bound, out, idle, closed, calls, at, stalls, delivers, written>>

\* The peer stops reading; what is written blocks.
Stall(a) ==
  /\ stalls > 0 /\ stalls' = stalls - 1
  /\ link[a].open /\ ~link[a].stalled
  /\ link' = [link EXCEPT ![a].stalled = TRUE]
  /\ UNCHANGED <<loop, attempt, bound, out, idle, closed, calls, at, drops, delivers, written>>

Close ==
  /\ MayClose /\ ~closed
  /\ closed' = TRUE
  /\ IF attempt > 0 THEN CloseConn ELSE UNCHANGED link
  /\ UNCHANGED <<loop, attempt, bound, out, idle, calls, at, peer, written>>

UpstreamNext ==
  \/ LoopStep \/ Close
  \/ \E a \in Attempt :
       \/ WriterStep(a) \/ EnquirerStep(a) \/ ReaderReplies(a) \/ ReaderStops(a)
       \/ EnquireResp(a) \/ Drop(a) \/ Stall(a)
       \/ \E c \in Call, r \in {"ok", "rejected"} : SubmitResp(a, c, r)
       \/ \E last \in BOOLEAN : PeerRequest(a, last)
  \/ \E c \in Call : CallStep(c) \/ Release(c)

UpstreamSpec == UpstreamInit /\ [][UpstreamNext]_upstreamVars

\* Goroutines proceed and timers fire.  A full channel serves its blocked senders
\* in the order of their arrival, hence strong fairness for them.  The peer owes
\* nothing.
UpstreamFairSpec ==
  /\ UpstreamSpec
  /\ WF_upstreamVars(LoopStep)
  /\ \A a \in Attempt : /\ WF_upstreamVars(WriterStep(a)) /\ WF_upstreamVars(Tick(a)) /\ SF_upstreamVars(EnquirerSends(a))
                        /\ WF_upstreamVars(EnquirerStops(a)) /\ SF_upstreamVars(ReaderReplies(a)) /\ WF_upstreamVars(ReaderStops(a))
  /\ \A c \in Call : WF_upstreamVars(CallStep(c)) /\ SF_upstreamVars(Send(c)) /\ WF_upstreamVars(Release(c))

-----------------------------------------------------------------------------
Unsent == {"notbound", "full", "notready"}

\* No slot of the window leaks and none is freed twice, while answers, timeouts,
\* the loss of the connection and the close of the pool compete for a call: the
\* slots in use are those of the calls that hold one.
SlotsExact ==
  /\ slots = Cardinality({c \in Call : pc[c] = "slot"} \cup pending) + Cardinality(releasing)
  /\ slots <= WindowSize

\* A call that says it could not send has not sent, and its submit_sm is not
\* written later by a write loop that still holds it.
UnsentStaysUnsent == \A c \in Call : reply[c] \in Unsent => c \notin written

\* A sender waits for room in a queue.
Blocked(s) == at[s] # 0 /\ Len(link[at[s]].queue) = OutCap

\* Every call of submit returns, within the response timeout after it was queued,
\* although the peer drops the connection, does not read it or does not answer.
\* The one exception: a call that finds the queue full waits without a timer, and
\* waits for ever if the write loop of that queue has ended or its peer never
\* reads again.
CallsReturn ==
  \A c \in Call : (pc[c] # "new") ~> (pc[c] = "done" \/ [](pc[c] = "send" /\ Blocked(c)))

\* A connection whose peer has stopped reading is closed by the idle timeout of
\* the enquire loop, so that the client can connect again, unless the queue is so
\* full that the enquire loop itself waits on it for ever.
StallHeals ==
  \A a \in Attempt :
    (link[a].open /\ link[a].stalled) ~> (~link[a].open \/ []Blocked(Enquirer(a)))

\* What processOutbox makes of a result of submit: a permanent error fails the
\* row (a timeout is one unless retry_on_timeout is set), any other error makes it
\* uncertain.
Fate(r) ==
  IF r = "ok" THEN "done" ELSE IF r \in {"rejected", "timeout"} THEN "failed" ELSE "uncertain"

\* A message that could not be sent because the upstream is not reachable is
\* tried again.  The code does not keep this: both errors are not permanent, and
\* processOutbox marks the row uncertain.
UnreachableIsRetried == \A c \in Call : reply[c] \in {"notbound", "notready"} => Fate(reply[c]) # "uncertain"
=============================================================================
