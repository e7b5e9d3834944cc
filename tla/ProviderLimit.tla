--------------------------- MODULE ProviderLimit ---------------------------
(***************************************************************************)
(* The rate limit around a provider (provider/ratelimit.go): a channel of  *)
(* tokens that a goroutine refills on a ticker and that every call takes   *)
(* one token from, however many segments its message has.                  *)
(*                                                                         *)
(* Time is counted in periods of the ticker (a second divided by tps).     *)
(* The refilling goroutine may be late; the channel of a ticker holds one  *)
(* tick and drops the others.                                              *)
(***************************************************************************)
EXTENDS Integers

CONSTANTS
  Sender,    \* calls of Send and SendAll
  Capacity,  \* rate_limit.burst, the capacity of the channel
  MaxPeriods \* bound: periods

ASSUME CapacityAssumption == Capacity \in Nat /\ MaxPeriods \in Nat

VARIABLES
  period,
  tokens,    \* tokens in the channel
  ticks,     \* ticks in the channel of the ticker
  refilling, \* the goroutine runs
  stopped,   \* RateLimitedProvider.stop is closed
  call,      \* where each call is
  sent       \* history: messages let through before each period

limiterVars == <<period, tokens, ticks, refilling, stopped, call, sent>>

\* NewRateLimitedProvider
LimiterInit ==
  /\ period = 0 /\ tokens = Capacity
  /\ ticks = 0 /\ refilling = TRUE /\ stopped = FALSE
  /\ call = [c \in Sender |-> "new"]
  /\ sent = [t \in 0..MaxPeriods + 1 |-> 0]

NewPeriod ==
  /\ period < MaxPeriods
  /\ period' = period + 1
  /\ ticks' = IF refilling THEN 1 ELSE ticks
  /\ sent' = [sent EXCEPT ![period' + 1] = sent[period']]
  /\ UNCHANGED <<tokens, refilling, stopped, call>>

\* Mutant: a full channel does not keep a token out.
RefillAlways ==
  /\ refilling /\ ticks > 0
  /\ ticks' = ticks - 1
  /\ tokens' = tokens + 1
  /\ UNCHANGED <<period, refilling, stopped, call, sent>>

\* A tick adds a token, unless the channel is full.
Refill ==
  /\ refilling /\ ticks > 0
  /\ ticks' = ticks - 1
  /\ tokens' = IF tokens < Capacity THEN tokens + 1 ELSE tokens
  /\ UNCHANGED <<period, refilling, stopped, call, sent>>

EndRefill ==
  /\ refilling /\ stopped
  /\ refilling' = FALSE
  /\ UNCHANGED <<period, tokens, ticks, stopped, call, sent>>

BeginSend(c) ==
  /\ call[c] = "new"
  /\ call' = [call EXCEPT ![c] = "wait"]
  /\ UNCHANGED <<period, tokens, ticks, refilling, stopped, sent>>

\* wait: a token, or the end of the time limit or of the caller's context.  A
\* closed provider still gives the tokens that are left.
Wait(c) ==
  /\ call[c] = "wait"
  /\ \/ /\ tokens > 0 /\ tokens' = tokens - 1
        /\ call' = [call EXCEPT ![c] = "sent"]
        /\ sent' = [sent EXCEPT ![period + 1] = @ + 1]
     \/ call' = [call EXCEPT ![c] = "limited"] /\ UNCHANGED <<tokens, sent>>
  /\ UNCHANGED <<period, ticks, refilling, stopped>>

Close ==
  /\ ~stopped /\ stopped' = TRUE
  /\ UNCHANGED <<period, tokens, ticks, refilling, call, sent>>

LimiterNext == NewPeriod \/ Refill \/ EndRefill \/ Close \/ \E c \in Sender : BeginSend(c) \/ Wait(c)

LimiterSpec == LimiterInit /\ [][LimiterNext]_limiterVars

-----------------------------------------------------------------------------

\* In any span of time no more messages pass than the burst, one for every period
\* of the span and one for a tick that was waiting: the refilling goroutine does
\* not make up for ticks it was late for (refill, wait).
SendRate == \A s, e \in 0..period : s <= e => sent[e + 1] - sent[s] <= Capacity + (e - s) + 1
=============================================================================
