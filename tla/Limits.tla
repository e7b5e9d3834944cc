------------------------------- MODULE Limits -------------------------------
(***************************************************************************)
(* The limits a submission over HTTP passes: the counters of applyRisk     *)
(* (httpgw/rules.go), which start anew every window, and the token bucket  *)
(* of the tenant (tenant/tenant.go).                                       *)
(*                                                                         *)
(* Both read the clock before they take their lock, so a request may come  *)
(* with a time that is older than the one the last request left.  Time is  *)
(* counted in ticks; a time read is at most MaxStale ticks old when used.  *)
(* The limits are those of one configuration: that a reload with another   *)
(* tps or burst fills the bucket again is outside of this model.           *)
(***************************************************************************)
EXTENDS Integers, FiniteSetsExt

CONSTANTS
  Request,    \* requests in work at the same time, all of one client
  Number,     \* their destinations
  Setting,    \* configured limits: risk.per_number_per_minute (min), per_number_per_day
              \* (day), per_client_per_second (sec) and limits.tps of the tenant, each 0
              \* for none, and limits.burst
  Window,     \* the window of each kind of counter
  SweepTicks, \* a sweep of the counters is due after so many ticks
  MaxStale,   \* bound: age of a time when it is used
  MaxTime,    \* bound: ticks
  Unset

Kind == {"min", "day", "sec"}
Key  == ({"min", "day"} \X Number) \cup {<<"sec", Unset>>}

Counter == [start : Int, count : Nat]
Bucket  == [tokens : Int, last : Int]

ASSUME LimitsAssumption ==
  /\ Setting \subseteq [min : Nat, day : Nat, sec : Nat, tps : Nat, burst : Nat]
  /\ Window \in [Kind -> Nat] /\ MaxStale \in Nat /\ MaxTime \in Nat
  /\ Unset \notin Counter \cup Bucket \cup Int

VARIABLES
  limits,   \* the limits in force, of Setting
  now,
  risk,     \* Gateway.riskCounts: per key the start of the window and its count, or Unset
  swept,    \* Gateway.riskSweep, or Unset
  bucket,   \* TokenBucket.buckets of the tenant: tokens and last, or Unset
  asks,     \* where each request is, its number, and the time it has read
  passed,   \* history: requests let through per key before each tick
  granted   \* history: tokens given before each tick

limitVars == <<limits, now, risk, swept, bucket, asks, passed, granted>>

Limit(k) == limits[k[1]]

\* The counters of a message to n, in order.
Checks(n) == <<<<"min", n>>, <<"day", n>>, <<"sec", Unset>>>>

Free == [at |-> "idle", n |-> Unset, i |-> 0, t |-> Unset]

LimitInit ==
  /\ limits \in Setting
  /\ now = 0
  /\ risk = [k \in Key |-> Unset] /\ swept = Unset
  /\ bucket = Unset
  /\ asks = [r \in Request |-> Free]
  /\ passed = [k \in Key |-> [t \in 0..MaxTime + 1 |-> 0]]
  /\ granted = [t \in 0..MaxTime + 1 |-> 0]

\* From check i on: the first one that has a limit, or the dispatcher.
Enter(n, i) ==
  LET due == {j \in i..3 : Limit(Checks(n)[j]) > 0} IN
  IF due = {} THEN [at |-> "tenant", n |-> n, i |-> 0, t |-> Unset]
  ELSE [at |-> "risk", n |-> n, i |-> Min(due), t |-> Unset]

Arrive(r) ==
  /\ asks[r].at = "idle"
  /\ \E n \in Number : asks' = [asks EXCEPT ![r] = Enter(n, 1)]
  /\ UNCHANGED <<limits, now, risk, swept, bucket, passed, granted>>

ReadClock(r) ==
  /\ asks[r].at \in {"risk", "tenant"} /\ asks[r].t = Unset
  /\ asks' = [asks EXCEPT ![r].t = now]
  /\ UNCHANGED <<limits, now, risk, swept, bucket, passed, granted>>

Tick ==
  /\ now < MaxTime
  /\ \A r \in Request : asks[r].t # Unset => now - asks[r].t < MaxStale
  /\ now' = now + 1
  /\ passed' = [k \in Key |-> [passed[k] EXCEPT ![now' + 1] = passed[k][now']]]
  /\ granted' = [granted EXCEPT ![now' + 1] = granted[now']]
  /\ UNCHANGED <<limits, risk, swept, bucket, asks>>

-----------------------------------------------------------------------------
(* applyRisk and allowRate *)

SweepDue(t) == swept = Unset \/ t - swept >= SweepTicks

\* Mutant: the sweep takes every counter.
SweptAll(t) == [k \in Key |-> Unset]

Swept(t) ==
  [k \in Key |-> IF risk[k] # Unset /\ t > risk[k].start + Window[k[1]] THEN Unset ELSE risk[k]]

AllowRate(r) ==
  LET t == asks[r].t
      k == Checks(asks[r].n)[asks[r].i]
      counts == IF SweepDue(t) THEN Swept(t) ELSE risk
      rec    == counts[k]
      fresh  == rec = Unset \/ t - rec.start >= Window[k[1]]
      ok     == fresh \/ rec.count < Limit(k)
  IN
  /\ asks[r].at = "risk" /\ t # Unset
  /\ swept' = IF SweepDue(t) THEN t ELSE swept
  /\ risk' = IF fresh THEN [counts EXCEPT ![k] = [start |-> t, count |-> 1]]
             ELSE IF ok THEN [counts EXCEPT ![k].count = @ + 1] ELSE counts
  /\ passed' = IF ok THEN [passed EXCEPT ![k][now + 1] = @ + 1] ELSE passed
  /\ asks' = [asks EXCEPT ![r] = IF ok THEN Enter(asks[r].n, asks[r].i + 1) ELSE Free]
  /\ UNCHANGED <<limits, now, bucket, granted>>

-----------------------------------------------------------------------------
(* TokenBucket.Allow *)

\* Mutant: the time of the last credit goes back with a late request.
CreditBack(b, t) ==
  LET sum == b.tokens + (t - b.last) * limits.tps IN
  [tokens |-> IF t <= b.last THEN b.tokens ELSE IF sum > limits.burst THEN limits.burst ELSE sum, last |-> t]

Credit(b, t) ==
  LET sum == b.tokens + (t - b.last) * limits.tps IN
  IF t > b.last THEN [tokens |-> IF sum > limits.burst THEN limits.burst ELSE sum, last |-> t] ELSE b

\* The bucket of an unchanged tps and burst: a full one at first, then credited.
Allow(r) ==
  LET b  == IF bucket = Unset THEN [tokens |-> limits.burst, last |-> asks[r].t] ELSE Credit(bucket, asks[r].t)
      ok == b.tokens >= 1
  IN
  /\ asks[r].at = "tenant" /\ asks[r].t # Unset
  /\ IF limits.tps = 0 THEN UNCHANGED <<bucket, granted>> ELSE
     /\ bucket' = IF ok THEN [b EXCEPT !.tokens = @ - 1] ELSE b
     /\ granted' = IF ok THEN [granted EXCEPT ![now + 1] = @ + 1] ELSE granted
  /\ asks' = [asks EXCEPT ![r] = Free]
  /\ UNCHANGED <<limits, now, risk, swept, passed>>

-----------------------------------------------------------------------------

LimitNext == Tick \/ \E r \in Request : Arrive(r) \/ ReadClock(r) \/ AllowRate(r) \/ Allow(r)

LimitSpec == LimitInit /\ [][LimitNext]_limitVars

-----------------------------------------------------------------------------

\* While tps and burst stay as they are, the bucket gives in any span of time no
\* more than its burst and what the rate yields over the span, give or take the age of the times that requests
\* come with: requests that overtake each other between the clock and the lock
\* never credit the same time twice (TokenBucket.Allow).
RateBound ==
  \A s, e \in 0..now :
    s <= e => granted[e + 1] - granted[s] <= limits.burst + limits.tps * (e - s + MaxStale)

\* In any span as long as its window, less the age of the times that requests
\* come with, a counter lets at most two windows' worth through, whatever the
\* sweep of old counters and late requests do to it (allowRate).
WindowBound ==
  \A k \in Key : Limit(k) > 0 =>
    \A s, e \in 0..now :
      s <= e /\ e < s + Window[k[1]] - MaxStale => passed[k][e + 1] - passed[k][s] <= 2 * Limit(k)
=============================================================================
