-------------------------- MODULE LimitStoreProofs --------------------------
(***************************************************************************)
(* Proofs about the limits of the configuration, that is the rate limit of *)
(* a provider (ProviderLimit) and the counters and the bucket of a         *)
(* submission (Limits), and about what is kept in stores: the snapshots of *)
(* the file store (FileStore) and the gateway ids (IdAlloc).               *)
(***************************************************************************)
EXTENDS Limits, ProviderLimit, FileStore, IdAlloc, TLAPS

-----------------------------------------------------------------------------
(* ProviderLimit: what has been sent since a period, the tokens at hand and   *)
(* the tick that waits are paid for by the burst and the periods since.       *)

LimiterType ==
  /\ period \in 0..MaxPeriods
  /\ tokens \in 0..Capacity
  /\ ticks \in 0..1
  /\ sent \in [0..MaxPeriods + 1 -> Nat]

\* The inductive invariant behind SendRate: the bound for the spans that end now
\* counts the tokens and the tick that are still to be spent.
LimiterInv ==
  /\ LimiterType
  /\ \A s \in 0..period :
       sent[period + 1] - sent[s] + tokens + ticks <= Capacity + (period - s) + 1
  /\ SendRate

LEMMA LimiterStart == LimiterInit => LimiterInv
  BY CapacityAssumption DEF LimiterInit, LimiterInv, LimiterType, SendRate

LEMMA LimiterStep == LimiterInv /\ [LimiterNext]_limiterVars => LimiterInv'
<1> SUFFICES ASSUME LimiterInv, [LimiterNext]_limiterVars PROVE LimiterInv'
  OBVIOUS
<1> USE CapacityAssumption
<1>a. LimiterType /\ SendRate
  BY DEF LimiterInv
<1>b. /\ \A s \in 0..period : sent[period + 1] - sent[s] + tokens + ticks <= Capacity + (period - s) + 1
      /\ \A s \in 0..period + 1 : sent[s] \in Nat
      /\ period \in 0..MaxPeriods /\ tokens \in 0..Capacity /\ ticks \in 0..1 /\ Capacity \in Nat
  BY DEF LimiterInv, LimiterType
\* The spans that ended before keep their bound; for those that end now it follows.
<1>c. ASSUME NEW q \in {period, period + 1}, period' = q, LimiterType',
             \A s \in 0..q : sent'[s] = sent[s],
             \A s \in 0..q : sent'[q + 1] - sent'[s] + tokens' + ticks' <= Capacity + (q - s) + 1
      PROVE  LimiterInv'
  <2>0. q \in 0..MaxPeriods /\ tokens' \in Nat /\ ticks' \in Nat /\ sent' \in [0..MaxPeriods + 1 -> Nat]
    BY <1>c DEF LimiterType
  <2>1. ASSUME NEW s \in 0..q, NEW e \in 0..q, s <= e
        PROVE  sent'[e + 1] - sent'[s] <= Capacity + (e - s) + 1
    <3>1. CASE e = q
      <4>1. sent'[q + 1] - sent'[s] + tokens' + ticks' <= Capacity + (q - s) + 1
        BY <1>c
      <4>2. sent'[q + 1] \in Nat /\ sent'[s] \in Nat
        BY <2>0
      <4> QED
        BY <1>b, <2>0, <3>1, <4>1, <4>2
    <3>2. CASE e < q
      <4>1. e + 1 \in 0..q /\ e \in 0..period /\ s \in 0..period
        BY <1>b, <2>0, <2>1, <3>2
      <4>2. sent[e + 1] - sent[s] <= Capacity + (e - s) + 1
        BY <1>a, <2>1, <4>1 DEF SendRate
      <4> QED
        BY <1>c, <4>1, <4>2
    <3> QED
      BY <2>0, <3>1, <3>2
  <2> QED
    BY <1>c, <2>1 DEF LimiterInv, SendRate
<1>1. CASE NewPeriod
  <2>1. /\ LimiterType' /\ period' = period + 1
        /\ sent'[period + 2] = sent[period + 1]
        /\ \A s \in 0..period + 1 : sent'[s] = sent[s]
    BY <1>a, <1>1 DEF NewPeriod, LimiterType
  <2>2. ASSUME NEW s \in 0..period + 1
        PROVE  sent'[period + 2] - sent'[s] + tokens' + ticks' <= Capacity + (period + 1 - s) + 1
    <3>1. CASE s = period + 1
      BY <1>b, <1>1, <2>1, <3>1 DEF NewPeriod
    <3>2. CASE s \in 0..period
      <4>1. sent[period + 1] - sent[s] + tokens + ticks <= Capacity + (period - s) + 1
        BY <1>b, <3>2
      <4>2. sent'[period + 2] = sent[period + 1] /\ sent'[s] = sent[s]
        BY <1>b, <2>1, <3>2
      <4>3. tokens' = tokens /\ ticks' <= ticks + 1 /\ ticks' \in 0..1
        BY <1>b, <1>1, <2>1 DEF NewPeriod, LimiterType
      <4>4. sent[period + 1] \in Nat /\ sent[s] \in Nat
        BY <1>b, <3>2
      <4> QED
        BY <1>b, <2>1, <3>2, <4>1, <4>2, <4>3, <4>4
    <3> QED
      BY <1>b, <2>1, <3>1, <3>2
  <2> QED
    BY <1>b, <1>c, <2>1, <2>2
<1>2. CASE Refill
  <2>1. /\ LimiterType' /\ period' = period /\ sent' = sent /\ ticks' = ticks - 1
        /\ tokens' = tokens + 1 \/ tokens' = tokens
    BY <1>a, <1>b, <1>2 DEF Refill, LimiterType
  <2>2. \A s \in 0..period : sent'[period + 1] - sent'[s] + tokens' + ticks' <= Capacity + (period - s) + 1
    <3>1. CASE tokens' = tokens + 1
      BY <1>b, <2>1, <3>1
    <3>2. CASE tokens' = tokens
      BY <1>b, <2>1, <3>2
    <3> QED
      BY <2>1, <3>1, <3>2
  <2> QED
    BY <1>c, <2>1, <2>2
<1>3. CASE EndRefill \/ Close \/ UNCHANGED limiterVars
  BY <1>3 DEF EndRefill, Close, limiterVars, LimiterInv, LimiterType, SendRate
<1>4. ASSUME NEW c \in Sender, BeginSend(c) PROVE LimiterInv'
  BY <1>4 DEF BeginSend, LimiterInv, LimiterType, SendRate
<1>5. ASSUME NEW c \in Sender, Wait(c) PROVE LimiterInv'
  <2>1. CASE tokens > 0 /\ tokens' = tokens - 1 /\ sent' = [sent EXCEPT ![period + 1] = @ + 1]
    <3>1. /\ LimiterType' /\ period' = period /\ ticks' = ticks
          /\ sent'[period + 1] = sent[period + 1] + 1
          /\ \A s \in 0..period : sent'[s] = sent[s]
      BY <1>a, <1>b, <1>5, <2>1 DEF Wait, LimiterType
    <3> QED
      BY <1>b, <1>c, <2>1, <3>1
  <2>2. CASE UNCHANGED <<tokens, sent>>
    BY <1>5, <2>2 DEF Wait, LimiterInv, LimiterType, SendRate
  <2> QED
    BY <1>5, <2>1, <2>2 DEF Wait
<1> QED
  BY <1>1, <1>2, <1>3, <1>4, <1>5 DEF LimiterNext

\* In any span of time no more messages pass the rate limit of a provider than
\* its burst, one for every period and one for a tick that was waiting
\* (RateLimitedProvider.refill, wait), for any number of calls, any burst and
\* any length of time.
THEOREM SendRateHolds == LimiterSpec => []SendRate
<1>1. LimiterInv => SendRate
  BY DEF LimiterInv
<1> QED
  BY <1>1, LimiterStart, LimiterStep, PTL DEF LimiterSpec

-----------------------------------------------------------------------------
(* Limits: the bucket and the counters.                                       *)

Ask == [at : {"idle", "risk", "tenant"}, n : Number \cup {Unset}, i : 0..3, t : Int \cup {Unset}]

\* A request at a counter is at one that has a limit, and a time that has been
\* read is not older than the bound.
AskOK(a) ==
  /\ a.t # Unset => a.t \in Int /\ a.t <= now /\ now - a.t <= MaxStale
  /\ a.at = "risk" => a.n \in Number /\ a.i \in 1..3

LimitType ==
  /\ limits \in Setting
  /\ now \in 0..MaxTime
  /\ risk \in [Key -> Counter \cup {Unset}]
  /\ bucket \in Bucket \cup {Unset}
  /\ asks \in [Request -> Ask]
  /\ \A r \in Request : AskOK(asks[r])
  /\ passed \in [Key -> [0..MaxTime + 1 -> Nat]]
  /\ granted \in [0..MaxTime + 1 -> Nat]

LEMMA ChecksAreKeys ==
  ASSUME NEW n \in Number, NEW i \in 1..3
  PROVE  Checks(n)[i] \in Key /\ Checks(n)[i][1] \in Kind
<1>1. i = 1 \/ i = 2 \/ i = 3
  OBVIOUS
<1> QED
  BY <1>1 DEF Checks, Key, Kind

LEMMA EnterIsAsk ==
  ASSUME LimitsAssumption, NEW n \in Number, NEW i \in 1..4
  PROVE  Enter(n, i) \in Ask /\ Enter(n, i).t = Unset
         /\ (Enter(n, i).at = "risk" => Enter(n, i).n = n /\ Enter(n, i).i \in 1..3)
<1> DEFINE due == {j \in i..3 : Limit(Checks(n)[j]) > 0}
<1>1. due \subseteq 1..3
  OBVIOUS
<1>2. due # {} => Min(due) \in due
  <2> HIDE DEF due
  <2> SUFFICES ASSUME due # {} PROVE \E x \in due : \A y \in due : x <= y
    BY DEF Min
  <2>1. \A x \in due : x = 1 \/ x = 2 \/ x = 3
    BY <1>1
  <2>2. CASE 1 \in due
    BY <2>1, <2>2
  <2>3. CASE 1 \notin due /\ 2 \in due
    BY <2>1, <2>3
  <2>4. CASE 1 \notin due /\ 2 \notin due
    BY <2>1, <2>4
  <2> QED
    BY <2>2, <2>3, <2>4
<1>3. Enter(n, i) = IF due = {} THEN [at |-> "tenant", n |-> n, i |-> 0, t |-> Unset]
                    ELSE [at |-> "risk", n |-> n, i |-> Min(due), t |-> Unset]
  BY DEF Enter
<1> HIDE DEF due
<1>4. CASE due = {}
  BY <1>3, <1>4 DEF Ask
<1>5. CASE due # {}
  <2>1. Min(due) \in 1..3
    BY <1>1, <1>2, <1>5
  <2> QED
    BY <1>3, <1>5, <2>1 DEF Ask
<1> QED
  BY <1>4, <1>5

LEMMA LimitTypeStart == LimitInit => LimitType
  BY LimitsAssumption DEF LimitInit, LimitType, AskOK, Ask, Free

LEMMA LimitTypeStep == LimitType /\ [LimitNext]_limitVars => LimitType'
<1> SUFFICES ASSUME LimitType, [LimitNext]_limitVars PROVE LimitType'
  OBVIOUS
<1> USE LimitsAssumption
<1>a. Free \in Ask /\ Free.t = Unset /\ Free.at = "idle"
  BY DEF Free, Ask
<1>b. ASSUME NEW r \in Request, NEW a \in Ask, asks' = [asks EXCEPT ![r] = a], now' = now,
             a.t # Unset => a.t \in Int /\ a.t <= now /\ now - a.t <= MaxStale,
             a.at = "risk" => a.n \in Number /\ a.i \in 1..3
      PROVE  asks' \in [Request -> Ask] /\ \A q \in Request : AskOK(asks[q])'
  BY <1>b DEF LimitType, AskOK
<1>1. CASE Tick
  <2>1. ASSUME NEW r \in Request PROVE AskOK(asks[r])'
    <3>1. AskOK(asks[r]) /\ asks' = asks /\ now' = now + 1 /\ (asks[r].t # Unset => now - asks[r].t < MaxStale)
      BY <1>1 DEF LimitType, Tick
    <3> QED
      BY <3>1 DEF AskOK, LimitType
  <2>2. /\ now' \in 0..MaxTime
        /\ passed' \in [Key -> [0..MaxTime + 1 -> Nat]]
        /\ granted' \in [0..MaxTime + 1 -> Nat]
    BY <1>1 DEF LimitType, Tick
  <2> QED
    BY <1>1, <2>1, <2>2 DEF LimitType, Tick
<1>2. ASSUME NEW r \in Request, Arrive(r) PROVE LimitType'
  <2>1. PICK n \in Number : asks' = [asks EXCEPT ![r] = Enter(n, 1)]
    BY <1>2 DEF Arrive
  <2>2. Enter(n, 1) \in Ask /\ Enter(n, 1).t = Unset
        /\ (Enter(n, 1).at = "risk" => Enter(n, 1).n = n /\ Enter(n, 1).i \in 1..3)
    BY EnterIsAsk
  <2>3. asks' \in [Request -> Ask] /\ \A q \in Request : AskOK(asks[q])'
    BY <1>b, <1>2, <2>1, <2>2 DEF Arrive
  <2> QED
    BY <1>2, <2>3 DEF LimitType, Arrive
<1>3. ASSUME NEW r \in Request, ReadClock(r) PROVE LimitType'
  <2> DEFINE a == [asks[r] EXCEPT !.t = now]
  <2>1. a \in Ask /\ a.t = now /\ a.n = asks[r].n /\ a.i = asks[r].i /\ a.at = asks[r].at
    <3>1. asks[r] \in Ask /\ now \in Int
      BY DEF LimitType
    <3> QED
      BY <3>1 DEF Ask
  <2>2. asks' = [asks EXCEPT ![r] = a] /\ now' = now
    BY <1>3 DEF ReadClock, LimitType
  <2> HIDE DEF a
  <2>3. AskOK(asks[r])
    BY DEF LimitType
  <2>4. asks' \in [Request -> Ask] /\ \A q \in Request : AskOK(asks[q])'
    BY <1>b, <2>1, <2>2, <2>3 DEF AskOK, LimitType
  <2> QED
    BY <1>3, <2>4 DEF LimitType, ReadClock
<1>4. ASSUME NEW r \in Request, AllowRate(r) PROVE LimitType'
  <2> DEFINE t == asks[r].t
             k == Checks(asks[r].n)[asks[r].i]
             counts == IF SweepDue(t) THEN Swept(t) ELSE risk
  <2>1. t \in Int /\ asks[r].n \in Number /\ asks[r].i \in 1..3
    BY <1>4 DEF AllowRate, LimitType, AskOK
  <2>2. k \in Key
    BY <2>1, ChecksAreKeys
  <2>3. counts \in [Key -> Counter \cup {Unset}]
    BY DEF LimitType, Swept
  <2>4. risk' \in [Key -> Counter \cup {Unset}]
    <3>1. \/ risk' = [counts EXCEPT ![k] = [start |-> t, count |-> 1]]
          \/ counts[k] # Unset /\ risk' = [counts EXCEPT ![k].count = @ + 1]
          \/ risk' = counts
      BY <1>4 DEF AllowRate
    <3> HIDE DEF t, k, counts
    <3>2. [start |-> t, count |-> 1] \in Counter
      BY <2>1 DEF Counter
    <3>3. counts[k] # Unset => [counts[k] EXCEPT !.count = @ + 1] \in Counter
      BY <2>2, <2>3 DEF Counter
    <3> QED
      BY <2>2, <2>3, <3>1, <3>2, <3>3
  <2>5. passed' \in [Key -> [0..MaxTime + 1 -> Nat]]
    <3>1. passed' = passed \/ passed' = [passed EXCEPT ![k][now + 1] = @ + 1]
      BY <1>4 DEF AllowRate
    <3> HIDE DEF k
    <3>2. now + 1 \in 0..MaxTime + 1 /\ passed[k] \in [0..MaxTime + 1 -> Nat]
      BY <2>2 DEF LimitType
    <3>3. [passed[k] EXCEPT ![now + 1] = @ + 1] \in [0..MaxTime + 1 -> Nat]
      BY <3>2
    <3> QED
      BY <2>2, <3>1, <3>3 DEF LimitType
  <2>6. asks' \in [Request -> Ask] /\ \A q \in Request : AskOK(asks[q])'
    <3> DEFINE a == Enter(asks[r].n, asks[r].i + 1)
    <3>1. asks' = [asks EXCEPT ![r] = a] \/ asks' = [asks EXCEPT ![r] = Free]
      BY <1>4 DEF AllowRate
    <3>2. asks[r].i + 1 \in 1..4
      BY <2>1
    <3>3. a \in Ask /\ a.t = Unset /\ (a.at = "risk" => a.n = asks[r].n /\ a.i \in 1..3)
      BY <2>1, <3>2, EnterIsAsk
    <3> HIDE DEF a
    <3>4. now' = now
      BY <1>4 DEF AllowRate
    <3>5. CASE asks' = [asks EXCEPT ![r] = a]
      BY <1>b, <2>1, <3>3, <3>4, <3>5
    <3>6. CASE asks' = [asks EXCEPT ![r] = Free]
      BY <1>a, <1>b, <3>4, <3>6
    <3> QED
      BY <3>1, <3>5, <3>6
  <2> QED
    BY <1>4, <2>4, <2>5, <2>6 DEF LimitType, AllowRate
<1>5. ASSUME NEW r \in Request, Allow(r) PROVE LimitType'
  <2>1. asks' \in [Request -> Ask] /\ \A q \in Request : AskOK(asks[q])'
    BY <1>a, <1>b, <1>5 DEF Allow
  <2>2. bucket' \in Bucket \cup {Unset}
    <3> DEFINE b == IF bucket = Unset THEN [tokens |-> limits.burst, last |-> asks[r].t] ELSE Credit(bucket, asks[r].t)
    <3>1. asks[r].t \in Int /\ limits.burst \in Nat /\ limits.tps \in Nat
      BY <1>5 DEF LimitType, AskOK, Allow
    <3>2. b \in Bucket
      <4>1. CASE bucket = Unset
        BY <3>1, <4>1 DEF Bucket
      <4>2. CASE bucket # Unset
        <5>1. bucket \in Bucket
          BY <4>2 DEF LimitType
        <5> QED
          BY <3>1, <4>2, <5>1 DEF Bucket, Credit
      <4> QED
        BY <4>1, <4>2
    <3>3. bucket' = bucket \/ bucket' = b \/ bucket' = [b EXCEPT !.tokens = @ - 1]
      BY <1>5 DEF Allow
    <3> HIDE DEF b
    <3> QED
      BY <3>2, <3>3 DEF Bucket, LimitType
  <2>3. granted' \in [0..MaxTime + 1 -> Nat]
    <3>1. granted' = granted \/ granted' = [granted EXCEPT ![now + 1] = @ + 1]
      BY <1>5 DEF Allow
    <3>2. now + 1 \in 0..MaxTime + 1 /\ granted \in [0..MaxTime + 1 -> Nat]
      BY DEF LimitType
    <3> QED
      BY SMTT(60), <3>1, <3>2
  <2> QED
    BY <1>5, <2>1, <2>2, <2>3 DEF LimitType, Allow
<1>6. CASE UNCHANGED limitVars
  BY <1>6 DEF limitVars, LimitType, AskOK
<1> QED
  BY <1>1, <1>2, <1>3, <1>4, <1>5, <1>6 DEF LimitNext

-----------------------------------------------------------------------------
(* The bucket: for every earlier tick either nothing was given since, or what *)
(* was given since and what is left are paid for by the burst and the rate.   *)

Paid(b, s) ==
  /\ b.last >= s - MaxStale
  /\ granted[now + 1] - granted[s] + b.tokens <= limits.burst + limits.tps * (b.last - s + MaxStale)

BucketInv ==
  /\ IF bucket = Unset THEN granted[now + 1] = 0 ELSE
     /\ bucket.tokens \in 0..limits.burst /\ bucket.last <= now
     /\ \A s \in 0..now : granted[now + 1] <= granted[s] \/ Paid(bucket, s)
  /\ RateBound

\* A credit of (t - l) ticks at rate p pays for the move of the last credit.
LEMMA CreditPays ==
  ASSUME NEW p \in Nat, NEW B \in Int, NEW g \in Int, NEW k \in Int, NEW l \in Int, NEW t \in Int,
         NEW s \in Int, NEW m \in Int, NEW sum \in Int,
         g + k <= B + p * (l - s + m), sum <= k + (t - l) * p
  PROVE  g + sum <= B + p * (t - s + m)
<1>1. p * (t - s + m) = p * (l - s + m) + (t - l) * p
  OBVIOUS
<1>2. p * (l - s + m) \in Int /\ (t - l) * p \in Int
  OBVIOUS
<1> QED
  BY <1>1, <1>2

LEMMA RateIsPositive == ASSUME NEW p \in Nat, NEW x \in Nat PROVE p * x \in Nat
  OBVIOUS

LEMMA PaidIsBounded ==
  ASSUME NEW p \in Nat, NEW B \in Nat, NEW g \in Int, NEW k \in Nat, NEW l \in Int, NEW n \in Int,
         NEW s \in Int, NEW m \in Nat, s <= n,
         g <= 0 \/ (l <= n /\ g + k <= B + p * (l - s + m))
  PROVE  g <= B + p * (n - s + m)
<1>1. CASE g <= 0
  <2>1. p * (n - s + m) \in Nat
    BY RateIsPositive, n - s + m \in Nat
  <2> QED
    BY <1>1, <2>1
<1>2. CASE l <= n /\ g + k <= B + p * (l - s + m)
  <2>1. p * (n - s + m) = p * (l - s + m) + p * (n - l)
    OBVIOUS
  <2>2. p * (n - l) \in Nat
    BY <1>2, RateIsPositive, n - l \in Nat
  <2>3. p * (l - s + m) \in Int
    OBVIOUS
  <2> QED
    BY <1>2, <2>1, <2>2, <2>3
<1> QED
  BY <1>1, <1>2

LEMMA BucketStart == LimitInit => BucketInv
<1> SUFFICES ASSUME LimitInit PROVE BucketInv
  OBVIOUS
<1>1. /\ now = 0 /\ bucket = Unset /\ MaxTime \in Nat /\ MaxStale \in Nat
      /\ limits.burst \in Nat /\ limits.tps \in Nat
      /\ granted = [t \in 0..MaxTime + 1 |-> 0]
  BY LimitsAssumption DEF LimitInit
<1>2. granted[1] = 0 /\ granted[0] = 0
  BY <1>1
<1>3. limits.tps * MaxStale \in Nat
  BY <1>1, RateIsPositive
<1>4. ASSUME NEW s \in 0..now, NEW e \in 0..now
      PROVE  granted[e + 1] - granted[s] <= limits.burst + limits.tps * (e - s + MaxStale)
  <2>1. s = 0 /\ e = 0 /\ e - s + MaxStale = MaxStale
    BY <1>1
  <2> QED
    BY <1>1, <1>2, <1>3, <2>1
<1> QED
  BY <1>1, <1>2, <1>4 DEF BucketInv, RateBound

LEMMA BucketStep == LimitType /\ LimitType' /\ BucketInv /\ [LimitNext]_limitVars => BucketInv'
<1> SUFFICES ASSUME LimitType, LimitType', BucketInv, [LimitNext]_limitVars PROVE BucketInv'
  OBVIOUS
<1> DEFINE B == limits.burst
           p == limits.tps
<1>a. /\ B \in Nat /\ p \in Nat /\ now \in Nat /\ now \in 0..MaxTime /\ MaxStale \in Nat /\ MaxTime \in Nat
      /\ granted \in [0..MaxTime + 1 -> Nat] /\ granted' \in [0..MaxTime + 1 -> Nat]
      /\ \A s \in 0..now + 1 : granted[s] \in Nat
  <2>1. B \in Nat /\ p \in Nat
    BY LimitsAssumption DEF LimitType
  <2>2. now \in 0..MaxTime /\ MaxStale \in Nat /\ MaxTime \in Nat
    BY LimitsAssumption DEF LimitType
  <2>3. granted \in [0..MaxTime + 1 -> Nat] /\ granted' \in [0..MaxTime + 1 -> Nat]
    BY DEF LimitType
  <2>4. \A s \in 0..now + 1 : s \in 0..MaxTime + 1
    BY <2>2
  <2>5. \A s \in 0..now + 1 : granted[s] \in Nat
    BY <2>3, <2>4
  <2> QED
    BY <2>1, <2>2, <2>3, <2>5
<1>b. limits' = limits
  BY DEF LimitNext, limitVars, Tick, Arrive, ReadClock, AllowRate, Allow
\* The spans that ended before keep their bound; those that end now must have it.
<1>c. ASSUME NEW q \in {now, now + 1}, now' = q, q \in 0..MaxTime, \A s \in 0..q : granted'[s] = granted[s],
             \A s \in 0..q : granted'[q + 1] - granted'[s] <= B + p * (q - s + MaxStale)
      PROVE  RateBound'
  <2>1. ASSUME NEW s \in 0..q, NEW e \in 0..q, s <= e
        PROVE  granted'[e + 1] - granted'[s] <= B + p * (e - s + MaxStale)
    <3>1. CASE e = q
      BY <1>c, <3>1
    <3>2. CASE e < q
      <4>1. e + 1 \in 0..q /\ e \in 0..now /\ s \in 0..now
        BY <1>a, <1>c, <2>1, <3>2
      <4>2. granted[e + 1] - granted[s] <= B + p * (e - s + MaxStale)
        BY <2>1, <4>1 DEF BucketInv, RateBound
      <4> QED
        BY <1>c, <4>1, <4>2
    <3> QED
      BY <1>a, <1>c, <3>1, <3>2
  <2> QED
    BY <1>b, <1>c, <2>1 DEF RateBound
<1> HIDE DEF B, p
\* What is paid for keeps the bound.
<1>d. ASSUME NEW q \in {now, now + 1}, q \in 0..MaxTime, NEW s \in 0..q, NEW g \in Int, NEW k \in Nat, NEW l \in Int,
             g <= 0 \/ (l <= q /\ g + k <= B + p * (l - s + MaxStale))
      PROVE  g <= B + p * (q - s + MaxStale)
  <2>1. s <= q /\ s \in Int /\ q \in Int
    BY <1>a, <1>d
  <2> QED
    BY <1>a, <1>d, <2>1, PaidIsBounded
<1>e. ASSUME NEW q, now' = q, bucket' = Unset, granted'[q + 1] = 0, RateBound'
      PROVE  BucketInv'
  BY <1>e DEF BucketInv
<1>f. ASSUME NEW q, now' = q, NEW c, bucket' = c, c # Unset, c.tokens \in 0..B, c.last <= q, RateBound',
             \A s \in 0..q : \/ granted'[q + 1] <= granted'[s]
                             \/ /\ c.last >= s - MaxStale
                                /\ granted'[q + 1] - granted'[s] + c.tokens <= B + p * (c.last - s + MaxStale)
      PROVE  BucketInv'
  BY <1>b, <1>f DEF BucketInv, Paid, B, p
<1>1. CASE Tick
  <2>1. /\ now' = now + 1 /\ now + 1 \in 0..MaxTime /\ bucket' = bucket
        /\ \A s \in 0..now + 1 : granted'[s] = granted[s]
        /\ granted'[now + 2] = granted[now + 1]
    BY <1>1, <1>a DEF Tick
  <2>2. CASE bucket = Unset
    <3>1. granted'[now + 2] = 0
      BY <2>1, <2>2 DEF BucketInv
    <3>2. ASSUME NEW s \in 0..now + 1 PROVE granted'[now + 2] - granted'[s] <= B + p * (now + 1 - s + MaxStale)
      <4>1. granted'[now + 2] - granted'[s] \in Int /\ granted'[now + 2] - granted'[s] <= 0
        BY <1>a, <2>1, <3>1
      <4> QED
        BY <1>a, <1>d, <2>1, <4>1
    <3>3. RateBound'
      BY <1>a, <1>c, <2>1, <3>2
    <3> QED
      BY <1>a, <1>e, <2>1, <2>2, <3>1, <3>3
  <2>3. CASE bucket # Unset
    <3>0. bucket.tokens \in 0..B /\ bucket.last <= now /\ bucket.last \in Int /\ bucket.tokens \in Nat
      BY <1>a, <2>3 DEF BucketInv, LimitType, Bucket, B
    <3>1. ASSUME NEW s \in 0..now + 1
          PROVE  \/ granted'[now + 2] <= granted'[s]
                 \/ /\ bucket.last >= s - MaxStale
                    /\ granted'[now + 2] - granted'[s] + bucket.tokens <= B + p * (bucket.last - s + MaxStale)
      <4>1. CASE s = now + 1
        BY <1>a, <2>1, <4>1
      <4>2. CASE s \in 0..now
        <5>1. granted[now + 1] <= granted[s] \/ Paid(bucket, s)
          BY <2>3, <4>2 DEF BucketInv
        <5> QED
          BY <1>a, <2>1, <4>2, <5>1 DEF Paid, B, p
      <4> QED
        BY <1>a, <4>1, <4>2
    <3>2. ASSUME NEW s \in 0..now + 1 PROVE granted'[now + 2] - granted'[s] <= B + p * (now + 1 - s + MaxStale)
      <4>1. granted'[now + 2] - granted'[s] \in Int
        BY <1>a, <2>1
      <4>2. granted'[now + 2] <= granted'[s] => granted'[now + 2] - granted'[s] <= 0
        BY <1>a, <2>1
      <4>3. bucket.last <= now + 1
        BY <1>a, <3>0
      <4>4. \/ granted'[now + 2] - granted'[s] <= 0
            \/ granted'[now + 2] - granted'[s] + bucket.tokens <= B + p * (bucket.last - s + MaxStale)
        BY <3>1, <4>2
      <4> DEFINE g == granted'[now + 2] - granted'[s]
                 k == bucket.tokens
                 l == bucket.last
      <4>5. g \in Int /\ k \in Nat /\ l \in Int /\ l <= now + 1 /\ (g <= 0 \/ g + k <= B + p * (l - s + MaxStale))
        BY <3>0, <4>1, <4>3, <4>4
      <4> HIDE DEF g, k, l
      <4>6. g <= B + p * (now + 1 - s + MaxStale)
        <5>1. s <= now + 1 /\ now + 1 \in Int /\ s \in Int
          BY <1>a
        <5> QED
          BY <1>a, <4>5, <5>1, PaidIsBounded
      <4> QED
        BY <4>6 DEF g
    <3>3. RateBound'
      BY <1>a, <1>c, <2>1, <3>2
    <3> QED
      BY <1>a, <1>f, <2>1, <2>3, <3>0, <3>1, <3>3
  <2> QED
    BY <2>2, <2>3
<1>2. CASE UNCHANGED <<limits, now, bucket, granted>>
  BY <1>2 DEF BucketInv, Paid, RateBound
<1>3. ASSUME NEW r \in Request, Allow(r), p # 0 PROVE BucketInv'
  <2> DEFINE t == asks[r].t
             b == IF bucket = Unset THEN [tokens |-> B, last |-> t] ELSE Credit(bucket, t)
  <2>1. t \in Int /\ t <= now /\ now - t <= MaxStale
    BY <1>3 DEF Allow, LimitType, AskOK
  <2>2. /\ now' = now
        /\ \/ b.tokens >= 1 /\ bucket' = [b EXCEPT !.tokens = @ - 1] /\ granted' = [granted EXCEPT ![now + 1] = @ + 1]
           \/ ~(b.tokens >= 1) /\ bucket' = b /\ granted' = granted
    BY <1>3 DEF Allow, p, B
  <2>3. /\ b \in Bucket /\ b.tokens \in 0..B /\ b.last <= now /\ b.last >= t
        /\ \A s \in 0..now : granted[now + 1] <= granted[s] \/ Paid(b, s)
    <3>1. CASE bucket = Unset
      <4>1. b = [tokens |-> B, last |-> t]
        BY <3>1
      <4>2. granted[now + 1] = 0
        BY <3>1 DEF BucketInv
      <4> HIDE DEF b, t
      <4>3. b.tokens = B /\ b.last = t /\ b \in Bucket
        BY <1>a, <2>1, <4>1 DEF Bucket
      <4> QED
        BY <1>a, <2>1, <4>2, <4>3
    <3>2. CASE bucket # Unset
      <4>0. /\ bucket.tokens \in 0..B /\ bucket.last <= now /\ bucket.last \in Int /\ bucket \in Bucket
            /\ \A s \in 0..now : granted[now + 1] <= granted[s] \/ Paid(bucket, s)
        BY <3>2 DEF BucketInv, LimitType, Bucket, B
      <4>1. CASE ~(t > bucket.last)
        <5>1. b = bucket
          BY <3>2, <4>1 DEF Credit
        <5> HIDE DEF b, t
        <5> QED
          BY <2>1, <4>0, <4>1, <5>1
      <4>2. CASE t > bucket.last
        <5> DEFINE sum == bucket.tokens + (t - bucket.last) * p
        <5>1. b = [tokens |-> IF sum > B THEN B ELSE sum, last |-> t]
          BY <3>2, <4>2 DEF Credit, p, B
        <5>2. (t - bucket.last) * p \in Nat
          BY <1>a, <2>1, <4>0, <4>2, RateIsPositive, t - bucket.last \in Nat
        <5>3. sum \in Nat
          BY <4>0, <5>2
        <5> HIDE DEF b, t
        <5>4. b.last = t /\ b.tokens \in 0..B /\ b.tokens <= sum /\ b \in Bucket
          <6> HIDE DEF sum
          <6> QED
            BY <1>a, <2>1, <5>1, <5>3 DEF Bucket
        <5>5. ASSUME NEW s \in 0..now, Paid(bucket, s) PROVE Paid(b, s)
          <6> DEFINE g == granted[now + 1] - granted[s]
                     k == bucket.tokens
                     l == bucket.last
                     k1 == b.tokens
          <6>1. /\ g \in Int /\ k \in Int /\ l \in Int /\ k1 \in Int /\ s \in Int
                /\ l >= s - MaxStale /\ g + k <= B + p * (l - s + MaxStale)
                /\ k1 <= k + (t - l) * p /\ t > l
            <7>1. granted[now + 1] \in Nat /\ granted[s] \in Nat
              BY <1>a
            <7>2. l >= s - MaxStale /\ g + k <= B + p * (l - s + MaxStale)
              BY <5>5 DEF Paid, B, p
            <7>3. k \in Int /\ l \in Int /\ k1 \in Int /\ s \in Int /\ t > l
              BY <1>a, <4>0, <4>2, <5>4
            <7>4. k1 <= k + (t - l) * p
              BY <5>4
            <7> QED
              BY <7>1, <7>2, <7>3, <7>4
          <6> HIDE DEF g, k, l, k1
          <6>2. g + k1 <= B + p * (t - s + MaxStale)
            BY <1>a, <2>1, <6>1, CreditPays
          <6>3. t >= s - MaxStale
            BY <1>a, <2>1, <6>1
          <6> QED
            BY <5>4, <6>2, <6>3 DEF Paid, g, k1, B, p
        <5> QED
          BY <2>1, <4>0, <5>4, <5>5
      <4> QED
        BY <4>1, <4>2
    <3> QED
      BY <3>1, <3>2
  <2> HIDE DEF t, b
  <2>4. \A c : c \in Bucket => c # Unset
    BY LimitsAssumption
  <2>5. CASE ~(b.tokens >= 1) /\ bucket' = b /\ granted' = granted
    <3>1. RateBound'
      BY <1>b, <2>2, <2>5 DEF BucketInv, RateBound
    <3> QED
      BY <1>f, <2>2, <2>3, <2>4, <2>5, <3>1 DEF Paid, B, p
  <2>6. CASE b.tokens >= 1 /\ bucket' = [b EXCEPT !.tokens = @ - 1] /\ granted' = [granted EXCEPT ![now + 1] = @ + 1]
    <3> DEFINE c == [b EXCEPT !.tokens = @ - 1]
    <3>1. c \in Bucket /\ c.tokens = b.tokens - 1 /\ c.last = b.last /\ bucket' = c /\ b.tokens \in Int /\ b.last \in Int
      BY <2>3, <2>6 DEF Bucket
    <3> HIDE DEF c
    <3>2. granted'[now + 1] = granted[now + 1] + 1 /\ \A s \in 0..now : granted'[s] = granted[s]
      BY <1>a, <2>6
    <3>3. ASSUME NEW s \in 0..now
          PROVE  /\ c.last >= s - MaxStale
                 /\ granted'[now + 1] - granted'[s] + c.tokens <= B + p * (c.last - s + MaxStale)
      <4>1. CASE granted[now + 1] <= granted[s]
        <5>1. c.last - s + MaxStale \in Nat
          BY SMTT(60), <1>a, <2>1, <2>3, <3>1
        <5>2. p * (c.last - s + MaxStale) \in Nat
          BY <1>a, <5>1, RateIsPositive
        <5>3. granted'[now + 1] - granted'[s] + c.tokens <= B
          BY SMTT(60), <1>a, <2>3, <3>1, <3>2, <4>1
        <5>4. granted'[now + 1] - granted'[s] + c.tokens \in Int /\ c.last >= s - MaxStale
          <6>1. granted'[now + 1] \in Nat /\ granted'[s] \in Nat
            BY <1>a, <3>2
          <6>2. c.last >= s - MaxStale
            BY <1>a, <3>1, <5>1
          <6> QED
            BY <3>1, <6>1, <6>2
        <5> QED
          BY <1>a, <5>2, <5>3, <5>4
      <4>2. CASE Paid(b, s)
        <5>1. granted'[now + 1] - granted'[s] + c.tokens = granted[now + 1] - granted[s] + b.tokens
          <6>1. granted[now + 1] \in Nat /\ granted[s] \in Nat
            BY <1>a
          <6> QED
            BY <3>1, <3>2, <6>1
        <5> QED
          BY <3>1, <4>2, <5>1 DEF Paid, B, p
      <4> QED
        BY <2>3, <4>1, <4>2
    <3>4. ASSUME NEW s \in 0..now
          PROVE  granted'[now + 1] - granted'[s] <= B + p * (now - s + MaxStale)
      <4> DEFINE g == granted'[now + 1] - granted'[s]
                 k == c.tokens
                 l == c.last
      <4>1. g \in Int /\ k \in Nat /\ l \in Int /\ l <= now /\ g + k <= B + p * (l - s + MaxStale)
        <5>1. granted'[now + 1] \in Nat /\ granted'[s] \in Nat
          BY <1>a, <3>2
        <5>2. g + k <= B + p * (l - s + MaxStale)
          BY <3>3
        <5>3. k \in Nat /\ l \in Int /\ l <= now
          BY <1>a, <2>3, <2>6, <3>1
        <5> QED
          BY <5>1, <5>2, <5>3
      <4> HIDE DEF g, k, l
      <4>2. g <= B + p * (now - s + MaxStale)
        BY <1>a, <1>d, <4>1
      <4> QED
        BY <4>2 DEF g
    <3>5. RateBound'
      BY <1>a, <1>c, <2>2, <3>2, <3>4
    <3>6. c.tokens \in 0..B /\ c.last <= now /\ c # Unset
      BY <1>a, <2>3, <2>4, <2>6, <3>1
    <3> QED
      BY <1>f, <2>2, <3>1, <3>3, <3>5, <3>6
  <2> QED
    BY <2>2, <2>5, <2>6
<1>4. ASSUME NEW r \in Request, Allow(r), p = 0 PROVE BucketInv'
  BY <1>2, <1>4 DEF Allow, p
<1>5. ASSUME NEW r \in Request, Arrive(r) \/ ReadClock(r) \/ AllowRate(r) PROVE BucketInv'
  BY <1>2, <1>5 DEF Arrive, ReadClock, AllowRate
<1>6. CASE UNCHANGED limitVars
  BY <1>2, <1>6 DEF limitVars
<1> QED
  BY <1>1, <1>3, <1>4, <1>5, <1>6 DEF LimitNext

-----------------------------------------------------------------------------
(* The counters: what a counter let through since an earlier tick is in its   *)
(* present window, or in that one and one before it that it follows closely,  *)
(* or the span since that tick is longer than the bound is about.             *)

Over(k, s) == now >= s + Window[k[1]] - MaxStale

\* d passed the counter k since tick s, and c is the counter's record.
Counted(k, c, s, d) ==
  \/ Over(k, s)
  \/ c = Unset /\ d <= Limit(k)
  \/ c # Unset /\ d <= c.count
  \/ c # Unset /\ c.start >= s - MaxStale /\ d <= Limit(k) + c.count

WindowInv ==
  /\ \A k \in Key : Limit(k) > 0 =>
       /\ risk[k] # Unset => risk[k].count <= Limit(k)
       /\ \A s \in 0..now : Counted(k, risk[k], s, passed[k][now + 1] - passed[k][s])
  /\ WindowBound

LEMMA WindowStart == LimitInit => WindowInv
<1> SUFFICES ASSUME LimitInit PROVE WindowInv
  OBVIOUS
<1>1. /\ now = 0 /\ MaxTime \in Nat
      /\ \A k \in Key : risk[k] = Unset /\ passed[k] = [t \in 0..MaxTime + 1 |-> 0]
      /\ \A k \in Key : Limit(k) \in Nat
  BY LimitsAssumption DEF LimitInit, Limit, Key
<1>2. \A k \in Key : passed[k][0] = 0 /\ passed[k][1] = 0
  BY <1>1
<1> QED
  BY <1>1, <1>2 DEF WindowInv, WindowBound, Counted

LEMMA LimitNat ==
  ASSUME LimitType
  PROVE  \A k \in Key : k[1] \in Kind /\ limits[k[1]] \in Nat
<1>1. limits \in [min : Nat, day : Nat, sec : Nat, tps : Nat, burst : Nat]
  BY LimitsAssumption DEF LimitType
<1>2. \A k \in Key : k[1] = "min" \/ k[1] = "day" \/ k[1] = "sec"
  BY DEF Key
<1> QED
  BY <1>1, <1>2 DEF Kind

\* The spans of a counter that ended before keep their bound; for those that
\* end now it follows from what is counted.
LEMMA WindowNow ==
  ASSUME LimitType, LimitType', WindowInv, limits' = limits, NEW q \in {now, now + 1}, now' = q,
         \A k \in Key : \A s \in 0..q : passed'[k][s] = passed[k][s],
         \A k \in Key : Limit(k) > 0 =>
           /\ risk'[k] # Unset => risk'[k].count <= Limit(k)
           /\ \A s \in 0..q : Counted(k, risk[k], s, passed[k][q + 1] - passed[k][s])'
  PROVE  WindowInv'
<1>0. /\ now \in 0..MaxTime /\ q \in 0..MaxTime /\ MaxTime \in Nat /\ MaxStale \in Nat
      /\ \A k \in Key : Window[k[1]] \in Nat /\ Limit(k) \in Nat /\ Limit(k)' = Limit(k)
      /\ passed' \in [Key -> [0..MaxTime + 1 -> Nat]]
      /\ risk' \in [Key -> Counter \cup {Unset}]
  <2>1. \A k \in Key : k[1] \in Kind /\ limits[k[1]] \in Nat
    BY LimitNat
  <2>2. \A k \in Key : Limit(k)' = Limit(k)
    BY DEF Limit
  <2> QED
    BY <2>1, <2>2, LimitsAssumption DEF LimitType, Limit
<1>1. ASSUME NEW k \in Key, Limit(k) > 0, NEW s \in 0..q, NEW e \in 0..q, s <= e, e < s + Window[k[1]] - MaxStale
      PROVE  passed'[k][e + 1] - passed'[k][s] <= 2 * Limit(k)
  <2>1. CASE e = q
    <3>1. Counted(k, risk[k], s, passed[k][q + 1] - passed[k][s])'
      BY <1>1
    <3>2. passed'[k][q + 1] \in Nat /\ passed'[k][s] \in Nat
      BY <1>0
    <3>3. ~ Over(k, s)'
      BY <1>0, <1>1, <2>1 DEF Over
    <3>4. risk'[k] # Unset => risk'[k].count <= Limit(k) /\ risk'[k].count \in Nat
      BY <1>0, <1>1 DEF Counter
    <3>5. \/ passed'[k][q + 1] - passed'[k][s] <= Limit(k)
          \/ risk'[k] # Unset /\ passed'[k][q + 1] - passed'[k][s] <= risk'[k].count
          \/ risk'[k] # Unset /\ passed'[k][q + 1] - passed'[k][s] <= Limit(k) + risk'[k].count
      BY <1>0, <3>1, <3>3 DEF Counted
    <3> QED
      BY SMTT(60), <1>0, <2>1, <3>2, <3>4, <3>5
  <2>2. CASE e < q
    <3>1. e + 1 \in 0..q /\ e \in 0..now /\ s \in 0..now
      BY <1>0, <1>1, <2>2
    <3>2. passed[k][e + 1] - passed[k][s] <= 2 * Limit(k)
      BY <1>1, <3>1 DEF WindowInv, WindowBound
    <3> QED
      BY <3>1, <3>2
  <2> QED
    BY <1>0, <2>1, <2>2
<1>2. WindowBound'
  BY <1>0, <1>1 DEF WindowBound
<1> QED
  BY <1>0, <1>2 DEF WindowInv

\* A request that comes a window after a record has begun.
LEMMA WindowsApart ==
  ASSUME NEW n \in Int, NEW t \in Int, NEW start \in Int, NEW w \in Int, NEW m \in Int, NEW s \in Int,
         t <= n, t >= start + w, start >= s - m
  PROVE  n >= s + w - m
  OBVIOUS

LEMMA WindowStep == LimitType /\ LimitType' /\ WindowInv /\ [LimitNext]_limitVars => WindowInv'
<1> SUFFICES ASSUME LimitType, LimitType', WindowInv, [LimitNext]_limitVars PROVE WindowInv'
  OBVIOUS
<1>b. limits' = limits
  BY DEF LimitNext, limitVars, Tick, Arrive, ReadClock, AllowRate, Allow
<1>0. /\ now \in 0..MaxTime /\ MaxTime \in Nat /\ MaxStale \in Nat
      /\ \A k \in Key : Window[k[1]] \in Nat /\ Limit(k) \in Nat /\ Limit(k)' = Limit(k)
      /\ passed \in [Key -> [0..MaxTime + 1 -> Nat]] /\ passed' \in [Key -> [0..MaxTime + 1 -> Nat]]
      /\ risk \in [Key -> Counter \cup {Unset}]
  BY <1>b, LimitNat, LimitsAssumption DEF LimitType, Limit
<1>1. CASE Tick
  <2>1. PICK q : q = now + 1
    OBVIOUS
  <2>2. /\ now' = q /\ q \in {now, now + 1} /\ risk' = risk
        /\ \A k \in Key : /\ passed'[k][q + 1] = passed[k][q]
                          /\ \A s \in 0..q : passed'[k][s] = passed[k][s]
    BY <1>0, <1>1, <2>1 DEF Tick
  <2>3. ASSUME NEW k \in Key, Limit(k) > 0, NEW s \in 0..q
        PROVE  Counted(k, risk[k], s, passed[k][q + 1] - passed[k][s])'
    <3>1. CASE s \in 0..now
      <4>1. Counted(k, risk[k], s, passed[k][q] - passed[k][s])
        BY <2>1, <2>3, <3>1 DEF WindowInv
      <4>2. Over(k, s) => Over(k, s)'
        BY SMTT(60), <1>0, <2>1, <2>2, <3>1 DEF Over
      <4> QED
        BY <1>0, <2>2, <4>1, <4>2 DEF Counted
    <3>2. CASE s = q
      <4>a. q \in 0..MaxTime + 1 /\ q \in 0..q
        BY <1>0, <2>1
      <4>b. passed[k][q] \in Nat
        BY <1>0, <4>a
      <4>c. passed'[k][q + 1] = passed[k][q] /\ passed'[k][q] = passed[k][q]
        BY <2>2, <4>a
      <4>1. passed'[k][q + 1] - passed'[k][s] = 0
        BY <3>2, <4>b, <4>c
      <4>2. risk[k] # Unset => risk[k].count \in Nat
        BY <1>0 DEF Counter
      <4> QED
        BY SMTT(60), <1>0, <2>2, <4>1, <4>2 DEF Counted
    <3> QED
      BY <1>0, <2>1, <3>1, <3>2
  <2>4. \A k \in Key : Limit(k) > 0 => (risk'[k] # Unset => risk'[k].count <= Limit(k))
    BY <2>2 DEF WindowInv
  <2> QED
    BY <1>0, <1>b, <2>2, <2>3, <2>4, WindowNow
<1>2. ASSUME NEW r \in Request, AllowRate(r) PROVE WindowInv'
  <2> DEFINE t == asks[r].t
             k == Checks(asks[r].n)[asks[r].i]
             counts == IF SweepDue(t) THEN Swept(t) ELSE risk
             rec == counts[k]
             fresh == rec = Unset \/ t - rec.start >= Window[k[1]]
  <2>1. /\ t \in Int /\ t <= now /\ now - t <= MaxStale /\ k \in Key
        /\ counts \in [Key -> Counter \cup {Unset}]
    <3>1. asks[r].n \in Number /\ asks[r].i \in 1..3 /\ t \in Int /\ t <= now /\ now - t <= MaxStale
      BY <1>2 DEF AllowRate, LimitType, AskOK
    <3>2. k \in Key
      BY <3>1, ChecksAreKeys
    <3> QED
      BY <1>0, <3>1, <3>2 DEF Swept
  <2>2. /\ now' = now
        /\ \/ /\ fresh /\ risk' = [counts EXCEPT ![k] = [start |-> t, count |-> 1]]
              /\ passed' = [passed EXCEPT ![k][now + 1] = @ + 1]
           \/ /\ ~fresh /\ rec.count < Limit(k) /\ risk' = [counts EXCEPT ![k].count = @ + 1]
              /\ passed' = [passed EXCEPT ![k][now + 1] = @ + 1]
           \/ ~fresh /\ risk' = counts /\ passed' = passed
    BY <1>2 DEF AllowRate
  \* The sweep keeps what is counted.
  <2>3. ASSUME NEW j \in Key, Limit(j) > 0
        PROVE  /\ counts[j] # Unset => counts[j].count <= Limit(j)
               /\ \A s \in 0..now : Counted(j, counts[j], s, passed[j][now + 1] - passed[j][s])
    <3>0. risk[j] # Unset => risk[j].start \in Int /\ risk[j].count \in Nat
      BY <1>0 DEF Counter
    <3>1. CASE counts[j] = risk[j]
      BY <2>3, <3>1 DEF WindowInv
    <3>2. CASE counts[j] # risk[j]
      <4>1. counts[j] = Unset /\ risk[j] # Unset /\ t > risk[j].start + Window[j[1]]
        BY <3>2 DEF Swept
      <4> HIDE DEF counts, t
      <4>2. ASSUME NEW s \in 0..now PROVE Counted(j, counts[j], s, passed[j][now + 1] - passed[j][s])
        <5> DEFINE d == passed[j][now + 1] - passed[j][s]
        <5>1. Counted(j, risk[j], s, d) /\ risk[j].count <= Limit(j)
          BY <2>3, <4>1 DEF WindowInv
        <5>2. d \in Int
          BY <1>0
        <5> HIDE DEF d
        <5>3. CASE d <= risk[j].count
          <6>1. d <= Limit(j)
            BY <1>0, <3>0, <4>1, <5>1, <5>2, <5>3
          <6> QED
            BY <4>1, <6>1 DEF Counted, d
        <5>4. CASE risk[j].start >= s - MaxStale
          <6>1. now >= s + Window[j[1]] - MaxStale
            BY SMTT(60), <1>0, <2>1, <3>0, <4>1, <5>4, WindowsApart
          <6> QED
            BY <6>1 DEF Counted, Over
        <5>5. CASE Over(j, s)
          BY <5>5 DEF Counted
        <5> QED
          BY <4>1, <5>1, <5>3, <5>4, <5>5 DEF Counted, d
      <4> QED
        BY <4>1, <4>2
    <3> QED
      BY <3>1, <3>2
  <2> HIDE DEF counts, t, k
  <2>4. /\ \A j \in Key : \A s \in 0..now : passed'[j][s] = passed[j][s]
        /\ \A j \in Key : j # k => passed'[j] = passed[j] /\ risk'[j] = counts[j]
    <3>1. now + 1 \in 0..MaxTime + 1 /\ \A s \in 0..now : s # now + 1 /\ s \in 0..MaxTime + 1
      BY <1>0
    <3>2. passed' = passed \/ passed' = [passed EXCEPT ![k][now + 1] = @ + 1]
      BY <2>2
    <3>4. \A j \in Key : j # k => passed'[j] = passed[j]
      BY <1>0, <2>1, <3>2
    <3>6. passed'[k] = passed[k] \/ passed'[k] = [passed[k] EXCEPT ![now + 1] = @ + 1]
      BY <1>0, <2>1, <3>2
    <3>7. \A s \in 0..now : passed'[k][s] = passed[k][s]
      BY <1>0, <2>1, <3>1, <3>6
    <3>3. \A j \in Key : \A s \in 0..now : passed'[j][s] = passed[j][s]
      BY <3>4, <3>7
    <3>5. \A j \in Key : j # k => risk'[j] = counts[j]
      BY <2>1, <2>2
    <3> QED
      BY <3>3, <3>4, <3>5
  <2>5. ASSUME NEW j \in Key, Limit(j) > 0
        PROVE  /\ risk'[j] # Unset => risk'[j].count <= Limit(j)
               /\ \A s \in 0..now : Counted(j, risk'[j], s, passed'[j][now + 1] - passed'[j][s])
    <3>1. CASE j # k \/ (risk' = counts /\ passed' = passed)
      BY <2>3, <2>4, <2>5, <3>1 DEF Counted
    <3>2. CASE j = k /\ fresh /\ risk' = [counts EXCEPT ![k] = [start |-> t, count |-> 1]]
               /\ passed' = [passed EXCEPT ![k][now + 1] = @ + 1]
      <4>1. /\ risk'[j] = [start |-> t, count |-> 1] /\ risk'[j] # Unset
            /\ passed'[j][now + 1] = passed[j][now + 1] + 1
        <5>1. [start |-> t, count |-> 1] \in Counter
          BY <2>1 DEF Counter
        <5> QED
          BY <1>0, <2>1, <3>2, <5>1, LimitsAssumption
      <4>2. ASSUME NEW s \in 0..now PROVE Counted(j, risk'[j], s, passed'[j][now + 1] - passed'[j][s])
        <5> DEFINE d == passed[j][now + 1] - passed[j][s]
        <5>1. Counted(j, counts[j], s, d) /\ (counts[j] # Unset => counts[j].count <= Limit(j))
          BY <2>3, <2>5
        <5>2. d \in Int /\ passed'[j][now + 1] - passed'[j][s] = d + 1
          <6>1. passed[j][now + 1] \in Nat /\ passed[j][s] \in Nat
            BY <1>0
          <6> QED
            BY <2>4, <4>1, <6>1
        <5> HIDE DEF d
        <5>3. counts[j] # Unset => counts[j].start \in Int /\ counts[j].count \in Nat
          BY <2>1 DEF Counter
        <5>4. CASE Over(j, s)
          BY <5>4 DEF Counted
        <5>5. CASE ~ Over(j, s)
          <6>1. d <= Limit(j)
            <7>1. CASE counts[j] = Unset
              BY <5>1, <5>5, <7>1 DEF Counted
            <7>2. CASE counts[j] # Unset
              <8>1. t - counts[j].start >= Window[j[1]]
                BY <3>2, <7>2
              <8>2. ~ (counts[j].start >= s - MaxStale)
                <9> DEFINE st == counts[j].start
                           w == Window[j[1]]
                <9>1. st \in Int /\ w \in Int /\ t - st >= w /\ s \in Int
                  BY <1>0, <5>3, <7>2, <8>1
                <9>2. ~ (now >= s + w - MaxStale)
                  BY <5>5 DEF Over
                <9> HIDE DEF st, w
                <9>3. t >= st + w
                  BY <2>1, <9>1
                <9>4. ~ (st >= s - MaxStale)
                  BY <1>0, <2>1, <9>1, <9>2, <9>3, WindowsApart
                <9> QED
                  BY <9>4 DEF st
              <8> QED
                BY SMTT(60), <1>0, <5>1, <5>2, <5>3, <5>5, <7>2, <8>2 DEF Counted
            <7> QED
              BY <7>1, <7>2
          <6>2. risk'[j].start >= s - MaxStale /\ risk'[j].count = 1
            BY <1>0, <2>1, <4>1
          <6>3. d + 1 <= Limit(j) + 1
            BY <1>0, <5>2, <6>1
          <6> QED
            BY <4>1, <5>2, <6>2, <6>3 DEF Counted
        <5> QED
          BY <5>4, <5>5
      <4> QED
        BY SMTT(60), <1>0, <2>5, <4>1, <4>2
    <3>3. CASE j = k /\ ~fresh /\ rec.count < Limit(k) /\ risk' = [counts EXCEPT ![k].count = @ + 1]
               /\ passed' = [passed EXCEPT ![k][now + 1] = @ + 1]
      <4>0. counts[j] \in Counter /\ counts[j] # Unset /\ counts[j].count < Limit(j)
        BY <2>1, <3>3
      <4>1. /\ risk'[j] = [counts[j] EXCEPT !.count = @ + 1]
            /\ passed'[j][now + 1] = passed[j][now + 1] + 1
        BY <1>0, <2>1, <3>3
      <4>2. /\ risk'[j] \in Counter /\ risk'[j].start = counts[j].start /\ risk'[j].count = counts[j].count + 1
            /\ counts[j].count \in Nat
        BY <4>0, <4>1 DEF Counter
      <4>3. risk'[j] # Unset
        BY <4>2, LimitsAssumption
      <4>4. ASSUME NEW s \in 0..now PROVE Counted(j, risk'[j], s, passed'[j][now + 1] - passed'[j][s])
        <5> DEFINE d == passed[j][now + 1] - passed[j][s]
        <5>1. Counted(j, counts[j], s, d)
          BY <2>3, <2>5
        <5>2. d \in Int /\ passed'[j][now + 1] - passed'[j][s] = d + 1
          <6>1. passed[j][now + 1] \in Nat /\ passed[j][s] \in Nat
            BY <1>0
          <6> QED
            BY <2>4, <4>1, <6>1
        <5> HIDE DEF d
        <5>3. CASE Over(j, s)
          BY <5>3 DEF Counted
        <5>4. CASE d <= counts[j].count
          <6>1. d + 1 <= risk'[j].count
            BY SMTT(60), <4>2, <5>2, <5>4
          <6> QED
            BY <4>3, <5>2, <6>1 DEF Counted
        <5>5. CASE counts[j].start >= s - MaxStale /\ d <= Limit(j) + counts[j].count
          <6>1. d + 1 <= Limit(j) + risk'[j].count
            BY SMTT(60), <1>0, <4>2, <5>2, <5>5
          <6> QED
            BY <4>2, <4>3, <5>2, <5>5, <6>1 DEF Counted
        <5> QED
          BY <4>0, <5>1, <5>3, <5>4, <5>5 DEF Counted
      <4>5. risk'[j].count <= Limit(j)
        BY <1>0, <4>0, <4>2
      <4> QED
        BY <4>4, <4>5
    <3>4. CASE j = k
      <4>1. CASE fresh
        BY <2>2, <3>2, <3>4, <4>1
      <4>2. CASE ~fresh
        BY <2>2, <3>1, <3>3, <3>4, <4>2
      <4> QED
        BY <4>1, <4>2
    <3> QED
      BY <3>1, <3>4
  <2>6. PICK q : q = now
    OBVIOUS
  <2>7. ASSUME NEW j \in Key, Limit(j) > 0
        PROVE  /\ risk'[j] # Unset => risk'[j].count <= Limit(j)
               /\ \A s \in 0..q : Counted(j, risk[j], s, passed[j][q + 1] - passed[j][s])'
    BY <1>0, <2>2, <2>5, <2>6, <2>7 DEF Counted, Over
  <2>8. now' = q /\ q \in {now, now + 1} /\ \A j \in Key : \A s \in 0..q : passed'[j][s] = passed[j][s]
    BY <2>2, <2>4, <2>6
  <2> QED
    BY <1>b, <2>7, <2>8, WindowNow
<1>3. CASE UNCHANGED <<limits, now, risk, passed>>
  BY <1>3 DEF WindowInv, WindowBound, Counted, Over, Limit
<1>4. ASSUME NEW r \in Request, Arrive(r) \/ ReadClock(r) \/ Allow(r) PROVE WindowInv'
  BY <1>3, <1>4 DEF Arrive, ReadClock, Allow
<1>5. CASE UNCHANGED limitVars
  BY <1>3, <1>5 DEF limitVars
<1> QED
  BY <1>1, <1>2, <1>4, <1>5 DEF LimitNext

\* In any span of time the bucket of a tenant gives no more than its burst and
\* what the rate yields over the span, give or take the age of the times that
\* requests come with (TokenBucket.Allow): for any number of requests, any rate
\* and burst and any age.
THEOREM RateBoundHolds == LimitSpec => []RateBound
<1>1. LimitInit => LimitType /\ BucketInv
  BY LimitTypeStart, BucketStart
<1>2. LimitType /\ BucketInv /\ [LimitNext]_limitVars => LimitType' /\ BucketInv'
  BY LimitTypeStep, BucketStep
<1>3. BucketInv => RateBound
  BY DEF BucketInv
<1> QED
  BY <1>1, <1>2, <1>3, PTL DEF LimitSpec

\* In any span as long as its window, less the age of the times that requests
\* come with, a counter of the risk control lets at most two windows' worth
\* through (allowRate): for any windows, limits, interval of the sweep and any
\* number of requests.
THEOREM WindowBoundHolds == LimitSpec => []WindowBound
<1>1. LimitInit => LimitType /\ WindowInv
  BY LimitTypeStart, WindowStart
<1>2. LimitType /\ WindowInv /\ [LimitNext]_limitVars => LimitType' /\ WindowInv'
  BY LimitTypeStep, WindowStep
<1>3. WindowInv => WindowBound
  BY DEF WindowInv
<1> QED
  BY <1>1, <1>2, <1>3, PTL DEF LimitSpec

-----------------------------------------------------------------------------
(* FileStore: the newest snapshot on the disk holds every acknowledged        *)
(* change, for any number of calls, failing file operations and kills.        *)
(* AckedOnDisk is not inductive: Install replaces the newest snapshot by the  *)
(* copy of one call.  PersistInv adds that the copy was made from a memory    *)
(* that held every acknowledged change and that nothing has been acknowledged *)
(* since, because only the holder of persistMu acknowledges.                  *)

\* What the call inside persist knows.
CopyComplete(c) ==
  /\ c \in snap[c]
  /\ snap[c] \subseteq mem
  /\ ~reset => acked \subseteq snap[c]

PersistInv ==
  /\ AckedOnDisk
  /\ RecoversUnlessReset
  /\ \A c \in Call : pc[c] = "waiting" => c \in mem
  /\ \A c \in Call : pc[c] \in InPersist => CopyComplete(c)
  /\ \A c \in Call : pc[c] \in {"checking", "moving"} => path # NoFile
  /\ \A c \in Call : pc[c] \in InPersist \cup {"waiting"} => up

LEMMA FilesDiffer == \A S \in SUBSET Call : S # NoFile
BY FileAssumption DEF NoFile

LEMMA TypeInit == Init => TypeOK
<1> SUFFICES ASSUME Init PROVE TypeOK
  OBVIOUS
<1>1. \A c \in Call : lock # c /\ pc[c] \notin InPersist
  BY FileAssumption DEF Init, InPersist
<1>2. path \in (SUBSET Call) \cup {NoFile} /\ bak \in (SUBSET Call) \cup {NoFile}
  BY DEF Init
<1> QED BY <1>1, <1>2, FileAssumption DEF Init, TypeOK, Place

LEMMA PersistInit == Init => PersistInv
BY DEF Init, PersistInv, AckedOnDisk, RecoversUnlessReset, InPersist, Newest

LEMMA TypeStep ==
  ASSUME TypeOK, [Next]_vars
  PROVE  TypeOK'
<1> USE FileAssumption DEF TypeOK, Place, InPersist
<1>1. ASSUME NEW c \in Call, Apply(c) PROVE TypeOK'
  BY <1>1 DEF Apply, Goes
<1>2. ASSUME NEW c \in Call, Copy(c) PROVE TypeOK'
  BY <1>2 DEF Copy, Goes
<1>3. ASSUME NEW c \in Call, pc[c] \in InPersist, Fail(c), UNCHANGED bak PROVE TypeOK'
  BY <1>3 DEF Fail, Goes
<1>4. ASSUME NEW c \in Call, WriteTemp(c) PROVE TypeOK'
  BY <1>3, <1>4 DEF WriteTemp, Goes
<1>5. ASSUME NEW c \in Call, RemoveBak(c) PROVE TypeOK'
  BY <1>5 DEF RemoveBak, Goes
<1>6. ASSUME NEW c \in Call, MoveOld(c) PROVE TypeOK'
  <2>1. CASE Fail(c) /\ UNCHANGED bak  BY <1>3, <1>6, <2>1 DEF MoveOld
  <2>2. CASE ~(Fail(c) /\ UNCHANGED bak)
    <3>1. path' \in (SUBSET Call) \cup {NoFile} /\ bak' \in (SUBSET Call) \cup {NoFile}
      BY <1>6, <2>2 DEF MoveOld
    <3> QED BY <1>6, <2>2, <3>1 DEF MoveOld, Goes
  <2> QED BY <2>1, <2>2
<1>7. ASSUME NEW c \in Call, Install(c) PROVE TypeOK'
  <2>1. CASE Fail(c)  BY <1>3, <1>7, <2>1 DEF Install
  <2>2. CASE ~Fail(c)
    <3>1. path' \in (SUBSET Call) \cup {NoFile}  BY <1>7, <2>2 DEF Install
    <3> QED BY <1>7, <2>2, <3>1 DEF Install, Goes
  <2> QED BY <2>1, <2>2
<1>8. CASE Kill
  <2>1. pc' \in [Call -> Place] /\ \A c \in Call : pc'[c] \notin InPersist  BY <1>8 DEF Kill
  <2>2. lock' = None /\ \A c \in Call : lock' # c  BY <1>8 DEF Kill
  <2>3. mem' \subseteq Call /\ snap' \in [Call -> SUBSET Call] /\ crashes' \in Nat
    BY <1>8 DEF Kill
  <2> QED BY <1>8, <2>1, <2>2, <2>3 DEF Kill
<1>9. CASE Load
  <2>1. mem' \subseteq Call  BY <1>9 DEF Load
  <2>2. reset' \in BOOLEAN /\ up' \in BOOLEAN  BY <1>9 DEF Load
  <2> QED BY <1>9, <2>1, <2>2 DEF Load
<1>10. CASE UNCHANGED vars  BY <1>10 DEF vars
<1> QED BY <1>1, <1>2, <1>4, <1>5, <1>6, <1>7, <1>8, <1>9, <1>10 DEF Next, Persist

\* Only one call is inside persist, so a step there leaves no other to check.
LEMMA OneInside ==
  ASSUME TypeOK, NEW c \in Call, NEW d \in Call, pc[c] \in InPersist, pc[d] \in InPersist
  PROVE  c = d
BY DEF TypeOK

LEMMA PersistStep ==
  ASSUME TypeOK, PersistInv, [Next]_vars
  PROVE  PersistInv'
<1> USE DEF PersistInv, CopyComplete
<1>0. /\ pc \in [Call -> Place] /\ snap \in [Call -> SUBSET Call]
      /\ path \in (SUBSET Call) \cup {NoFile} /\ bak \in (SUBSET Call) \cup {NoFile}
  BY DEF TypeOK
<1>1. ASSUME NEW c \in Call, Apply(c) PROVE PersistInv'
  BY <1>0, <1>1 DEF Apply, Goes, InPersist, AckedOnDisk, Newest, RecoversUnlessReset
<1>2. ASSUME NEW c \in Call, Copy(c) PROVE PersistInv'
  <2>1. /\ pc[c] = "waiting" /\ up /\ c \in mem
        /\ pc' = [pc EXCEPT ![c] = "writing"] /\ snap' = [snap EXCEPT ![c] = mem]
        /\ UNCHANGED <<mem, path, bak, up, acked, reset>>
    BY <1>2 DEF Copy, Goes
  <2>2. pc'[c] = "writing" /\ snap'[c] = mem
        /\ \A d \in Call : d # c => pc'[d] = pc[d] /\ snap'[d] = snap[d]
    BY <1>0, <2>1
  <2>3. \A d \in Call : pc'[d] \in InPersist => CopyComplete(d)'
    BY <2>1, <2>2 DEF RecoversUnlessReset
  <2>4. AckedOnDisk' /\ RecoversUnlessReset'
    BY <2>1 DEF AckedOnDisk, Newest, RecoversUnlessReset
  <2> QED BY <2>1, <2>2, <2>3, <2>4
<1>3. ASSUME NEW c \in Call, pc[c] \in InPersist, Fail(c), UNCHANGED bak PROVE PersistInv'
  BY <1>0, <1>3 DEF Fail, Goes, InPersist, AckedOnDisk, Newest, RecoversUnlessReset
<1>4. ASSUME NEW c \in Call, WriteTemp(c) PROVE PersistInv'
  <2>1. CASE Fail(c)  BY <1>3, <1>4, <2>1 DEF WriteTemp, InPersist
  <2>2. CASE ~Fail(c)
    BY <1>0, <1>4, <2>2 DEF WriteTemp, Goes, InPersist, AckedOnDisk, Newest, RecoversUnlessReset
  <2> QED BY <2>1, <2>2
<1>5. ASSUME NEW c \in Call, RemoveBak(c) PROVE PersistInv'
  BY <1>0, <1>5 DEF RemoveBak, Goes, InPersist, AckedOnDisk, Newest, RecoversUnlessReset
<1>6. ASSUME NEW c \in Call, MoveOld(c) PROVE PersistInv'
  <2>1. CASE Fail(c) /\ UNCHANGED bak  BY <1>3, <1>6, <2>1 DEF MoveOld, InPersist
  <2>2. CASE ~(Fail(c) /\ UNCHANGED bak)
    <3>1. /\ pc[c] = "moving" /\ bak' = path /\ path' = NoFile /\ path # NoFile
          /\ pc' = [pc EXCEPT ![c] = "installing"]
          /\ UNCHANGED <<mem, snap, up, acked, reset>>
      BY <1>6, <2>2 DEF MoveOld, Goes
    <3>2. \A d \in Call : pc'[d] \notin {"checking", "moving"}
      BY <1>0, <3>1, OneInside DEF InPersist
    <3>3. AckedOnDisk'  BY <3>1 DEF AckedOnDisk, Newest
    <3>4. RecoversUnlessReset'  BY <3>1 DEF RecoversUnlessReset
    <3> QED BY <1>0, <3>1, <3>2, <3>3, <3>4 DEF InPersist
  <2> QED BY <2>1, <2>2
<1>7. ASSUME NEW c \in Call, Install(c) PROVE PersistInv'
  <2>1. CASE Fail(c)  BY <1>3, <1>7, <2>1 DEF Install, InPersist
  <2>2. CASE ~Fail(c)
    <3>1. /\ pc[c] = "installing" /\ path' = snap[c] /\ bak' = bak
          /\ acked' = acked \cup {c} /\ pc' = [pc EXCEPT ![c] = "returned"]
          /\ UNCHANGED <<mem, snap, up, reset>>
      BY <1>7, <2>2 DEF Install, Goes
    <3>2. path' # NoFile  BY <1>0, <3>1, FilesDiffer
    <3>3. CopyComplete(c)  BY <3>1 DEF InPersist
    <3>4. AckedOnDisk'  BY <3>1, <3>2, <3>3 DEF AckedOnDisk, Newest
    <3>5. RecoversUnlessReset'  BY <3>1, <3>3 DEF RecoversUnlessReset
    <3>6. \A d \in Call : pc'[d] \notin InPersist
      BY <1>0, <3>1, OneInside DEF InPersist
    <3> QED BY <1>0, <3>1, <3>4, <3>5, <3>6 DEF InPersist
  <2> QED BY <2>1, <2>2
<1>8. CASE Kill
  BY <1>0, <1>8 DEF Kill, InPersist, AckedOnDisk, Newest, RecoversUnlessReset
<1>9. CASE Load
  <2>1. AckedOnDisk'  BY <1>9 DEF Load, AckedOnDisk, Newest
  <2>2. RecoversUnlessReset'
    BY <1>9 DEF Load, AckedOnDisk, Newest, RecoversUnlessReset
  <2>3. \A d \in Call : pc'[d] = pc[d] /\ pc[d] \notin InPersist \cup {"waiting"}
    BY <1>9 DEF Load
  <2> QED BY <2>1, <2>2, <2>3 DEF InPersist
<1>10. CASE UNCHANGED vars
  BY <1>10 DEF vars, AckedOnDisk, Newest, RecoversUnlessReset, InPersist
<1> QED BY <1>1, <1>2, <1>4, <1>5, <1>6, <1>7, <1>8, <1>9, <1>10 DEF Next, Persist

\* Every value keeps its type, and persistMu is held by exactly the call that
\* is inside persist.
THEOREM FileTypes == Spec => []TypeOK
<1>1. Init => TypeOK  BY TypeInit
<1>2. TypeOK /\ [Next]_vars => TypeOK'  BY TypeStep
<1> QED BY <1>1, <1>2, PTL DEF Spec

\* What FileStore acknowledged is in the newest snapshot on the disk, whichever
\* file operations fail and whenever the process is killed.
THEOREM AckedIsDurable == Spec => []AckedOnDisk
<1>1. TypeOK /\ PersistInv /\ [Next]_vars => PersistInv'  BY PersistStep
<1>2. PersistInv => AckedOnDisk  BY DEF PersistInv
<1> QED BY <1>1, <1>2, PersistInit, FileTypes, PTL DEF Spec

\* A restarted file store has what it acknowledged before, unless load found
\* the ".bak" file only.
THEOREM RestartRecovers == Spec => []RecoversUnlessReset
<1>1. TypeOK /\ PersistInv /\ [Next]_vars => PersistInv'  BY PersistStep
<1>2. PersistInv => RecoversUnlessReset  BY DEF PersistInv
<1> QED BY <1>1, <1>2, PersistInit, FileTypes, PTL DEF Spec

-----------------------------------------------------------------------------
(* IdAlloc: no gateway id is handed out twice, unless a start found no store   *)
(* file in between.  IdInv is inductive, for any number of processes, any span *)
(* and any bounds.                                                            *)

\* Before the first range is reserved nothing has been handed out.
LEMMA InitEstablishes == IdInit => IdInv
  BY IdAssumption DEF IdInit, IdInv, IdTypeOK, NoIdTwice, RangesApart, Recent, Unused

\* What was handed out is numbers.
LEMMA IssuedNumbers ==
  ASSUME IdInv, NEW x \in issued
  PROVE  x[1] \in Nat /\ x[2] \in Nat /\ x[3] \in Nat
  <1>1. x \in Nat \X Nat \X Nat
    BY DEF IdInv, IdTypeOK
  <1> QED BY <1>1

\* A step that hands nothing out, extends no range and takes nothing off the disk.
LEMMA ApartKept ==
  ASSUME IdInv, issued' = issued, count' = count, resets' = resets,
         disk' \in Nat, disk' >= disk,
         \A q \in Process : Unused(q)' \subseteq Unused(q)
  PROVE  NoIdTwice' /\ RangesApart'
  <1>1. Recent' = Recent
    BY DEF Recent
  <1>2. \A x \in Recent : x[1] \in Nat /\ x[1] <= disk /\ disk \in Nat
    BY IssuedNumbers DEF Recent, IdInv, IdTypeOK, RangesApart
  <1>3. \A x \in Recent' : x[1] <= disk'
    BY <1>1, <1>2
  <1>4. NoIdTwice'
    BY DEF NoIdTwice, IdInv
  <1>5. /\ \A q \in Process : Unused(q)' \cap {x[1] : x \in Recent'} = {}
        /\ \A q, r \in Process : q # r => Unused(q)' \cap Unused(r)' = {}
        /\ \A x \in issued' : x[2] < count' /\ x[3] <= resets'
    BY <1>1 DEF RangesApart, IdInv
  <1> QED BY <1>3, <1>4, <1>5 DEF RangesApart

\* A range that begins behind the sequence cannot meet an older one: those end
\* at the durable sequence, and so does everything handed out since it began.
LEMMA ReserveKeeps ==
  ASSUME IdInv, NEW p \in Process, Reserve(p)
  PROVE  IdInv'
  <1> USE IdAssumption DEF IdInv, IdTypeOK
  <1>1. IdTypeOK'
    BY DEF Reserve
  <1>2. NoIdTwice'
    BY DEF Reserve, NoIdTwice
  <1>3. \A q \in Process : Unused(q)' = IF q = p THEN (seq + 1)..(seq + Span) ELSE Unused(q)
    BY DEF Reserve, Unused
  <1>4. \A q \in Process : \A n \in Unused(q) : n \in Int /\ n <= disk
    BY DEF Unused
  <1>5. Recent' = Recent /\ \A x \in Recent : x[1] \in Nat /\ x[1] <= disk
    BY IssuedNumbers DEF RangesApart, Recent, Reserve
  <1>6. \A n \in (seq + 1)..(seq + Span) : n > disk
    OBVIOUS
  <1>7. \A q \in Process : Unused(q)' \cap {x[1] : x \in Recent'} = {}
    BY <1>3, <1>5, <1>6 DEF RangesApart
  <1>8. \A q, r \in Process : q # r => Unused(q)' \cap Unused(r)' = {}
    BY <1>3, <1>4, <1>6 DEF RangesApart
  <1>9. \A x \in Recent' : x[1] <= disk'
    BY <1>5 DEF Reserve
  <1>10. \A x \in issued' : x[2] < count' /\ x[3] <= resets'
    BY DEF Reserve, RangesApart
  <1> QED BY <1>1, <1>2, <1>7, <1>8, <1>9, <1>10 DEF RangesApart

\* A number leaves the unused part of its range when it is handed out.
LEMMA NewGatewayIDKeeps ==
  ASSUME IdInv, NEW p \in Process, NewGatewayID(p)
  PROVE  IdInv'
  <1> USE IdAssumption DEF IdInv, IdTypeOK
  <1>0. next[p] \in Nat /\ end[p] \in Nat /\ next[p] # 0 /\ next[p] <= end[p] /\ end[p] <= disk
    BY DEF NewGatewayID, Exhausted
  <1>1. next[p] \in Unused(p)
    BY <1>0 DEF Unused
  <1>2. /\ \A x \in issued' : x \in issued \/ x = <<next[p], count, resets>>
        /\ resets' = resets /\ disk' = disk /\ disk \in Nat /\ resets \in Nat /\ count \in Nat
    BY DEF NewGatewayID, Issues
  <1>3. IdTypeOK'
    <2>1. issued' \subseteq Nat \X Nat \X Nat
      BY <1>0, <1>2
    <2>2. next' \in [Process -> Nat] /\ end' = end /\ count' \in Nat
      BY <1>0 DEF NewGatewayID, Issues
    <2>3. \A q \in Process : next'[q] = 0 => end'[q] = 0
      BY <1>0 DEF NewGatewayID
    <2> QED BY <2>1, <2>2, <2>3 DEF NewGatewayID
  <1>4. \A x \in Recent : x[1] # next[p]
    BY <1>1 DEF RangesApart
  <1>5. NoIdTwice'
    <2> SUFFICES ASSUME NEW x \in issued', NEW y \in issued', x[1] = y[1], x[3] = y[3] PROVE x = y
      BY DEF NoIdTwice
    <2>1. \A z \in issued : ~(z[1] = next[p] /\ z[3] = resets)
      BY <1>4 DEF Recent
    <2>2. CASE x \in issued /\ y \in issued
      BY <2>2 DEF NoIdTwice
    <2> QED BY <1>2, <2>1, <2>2
  <1>6. \A q \in Process : Unused(q)' = IF q = p THEN (next[p] + 1)..end[p] ELSE Unused(q)
    BY <1>0 DEF NewGatewayID, Unused
  <1>7. Unused(p) = next[p]..end[p]
    BY <1>0 DEF Unused
  <1>8. \A q \in Process : Unused(q)' \subseteq Unused(q) /\ next[p] \notin Unused(q)'
    <2> TAKE q \in Process
    <2>1. CASE q = p
      BY <1>0, <1>6, <1>7, <2>1
    <2>2. CASE q # p
      BY <1>1, <1>6, <2>2 DEF RangesApart
    <2> QED BY <2>1, <2>2
  <1>9. \A x \in Recent' : x \in Recent \/ x[1] = next[p]
    BY <1>2 DEF Recent
  <1>10. \A q \in Process : Unused(q)' \cap {x[1] : x \in Recent'} = {}
    BY <1>8, <1>9 DEF RangesApart
  <1>11. \A q, r \in Process : q # r => Unused(q)' \cap Unused(r)' = {}
    BY <1>8 DEF RangesApart
  <1>12. \A x \in Recent' : x[1] <= disk'
    <2>1. \A x \in Recent : x[1] <= disk
      BY DEF RangesApart
    <2> QED BY <1>0, <1>2, <1>9, <2>1
  <1>13. ASSUME NEW x \in issued' PROVE x[2] < count' /\ x[3] <= resets'
    <2>1. count' \in Nat /\ (issued' = issued \/ count' = count + 1) /\ count' >= count
      BY DEF NewGatewayID, Issues
    <2>2. CASE x \in issued
      <3>1. x[2] \in Nat /\ x[2] < count /\ x[3] <= resets
        BY <2>2, IssuedNumbers DEF RangesApart
      <3> QED BY <1>2, <2>1, <3>1
    <2>3. CASE x \notin issued
      <3>1. x[2] = count /\ x[3] = resets /\ count' = count + 1
        BY <1>2, <1>13, <2>1, <2>3
      <3> QED BY <1>2, <3>1
    <2> QED BY <2>2, <2>3
  <1> QED BY <1>3, <1>5, <1>10, <1>11, <1>12, <1>13 DEF RangesApart

\* After an empty start nothing has been handed out since.
LEMMA RestartEmptyKeeps ==
  ASSUME IdInv, NEW p \in Process, RestartEmpty(p)
  PROVE  IdInv'
  <1>1. \A q \in Process : q = p
    BY IdAssumption DEF RestartEmpty
  <1>2. \A q \in Process : Unused(q)' = {}
    BY <1>1 DEF RestartEmpty, Forgets, Unused, IdInv, IdTypeOK
  <1>3. /\ IdTypeOK
        /\ seq' = 0 /\ disk' = 0 /\ next' = [next EXCEPT ![p] = 0] /\ end' = [end EXCEPT ![p] = 0]
        /\ failures' = failures /\ issued' = issued /\ count' = count /\ resets' = resets + 1
    BY DEF RestartEmpty, Forgets, IdInv
  <1>4. IdTypeOK'
    <2>1. \A q \in Process : next'[q] = 0 /\ end'[q] = 0
      BY <1>1, <1>3 DEF IdTypeOK
    <2> QED BY <1>3, <2>1 DEF IdTypeOK
  <1>5. \A x \in issued : x[2] < count /\ x[3] <= resets /\ x[3] \in Nat /\ resets \in Nat
    BY IssuedNumbers DEF IdInv, IdTypeOK, RangesApart
  <1>6. Recent' = {}
    BY <1>3, <1>5 DEF Recent
  <1>7. NoIdTwice'
    BY <1>3 DEF NoIdTwice, IdInv
  <1>8. \A x \in issued' : x[2] < count' /\ x[3] <= resets'
    BY <1>3, <1>5
  <1>9. RangesApart'
    BY <1>2, <1>6, <1>8 DEF RangesApart
  <1> QED BY <1>4, <1>7, <1>9 DEF IdInv

\* A failed reservation wastes numbers at most, and a restart that finds its store
\* forgets a range; the durable sequence does not go back.
LEMMA OthersKeep ==
  ASSUME IdInv,
         \/ \E p \in Process : ReserveFails(p) \/ Restart(p)
         \/ SaveSequence
         \/ UNCHANGED idVars
  PROVE  IdInv'
  <1> USE IdAssumption DEF IdInv, IdTypeOK
  <1>1. ASSUME NEW p \in Process, ReserveFails(p) PROVE IdInv'
    <2>1. IdTypeOK'
      BY <1>1 DEF ReserveFails
    <2>2. \A q \in Process : Unused(q)' = Unused(q)
      BY <1>1 DEF ReserveFails, Unused
    <2>3. issued' = issued /\ count' = count /\ resets' = resets /\ disk' >= disk /\ disk' \in Nat
      BY <1>1 DEF ReserveFails
    <2> QED BY <2>1, <2>2, <2>3, ApartKept
  <1>2. ASSUME NEW p \in Process, Restart(p) PROVE IdInv'
    <2>1. IdTypeOK'
      BY <1>2 DEF Restart, Forgets
    <2>2. \A q \in Process : Unused(q)' \subseteq Unused(q)
      BY <1>2 DEF Restart, Forgets, Unused
    <2>3. issued' = issued /\ count' = count /\ resets' = resets /\ disk' >= disk /\ disk' \in Nat
      BY <1>2 DEF Restart
    <2> QED BY <2>1, <2>2, <2>3, ApartKept
  <1>3. CASE SaveSequence
    <2>1. IdTypeOK'
      BY <1>3 DEF SaveSequence
    <2>2. \A q \in Process : Unused(q)' = Unused(q)
      BY <1>3 DEF SaveSequence, Unused
    <2>3. issued' = issued /\ count' = count /\ resets' = resets /\ disk' >= disk /\ disk' \in Nat
      BY <1>3 DEF SaveSequence
    <2> QED BY <2>1, <2>2, <2>3, ApartKept
  <1>4. CASE UNCHANGED idVars
    BY <1>4 DEF idVars, NoIdTwice, RangesApart, Recent, Unused
  <1> QED BY <1>1, <1>2, <1>3, <1>4

\* idAllocator and ReserveGatewayIDRange hand out no id twice unless the file store
\* was started without its file in between, for any number of processes and whatever
\* fails; with Postgres there is no such start.
THEOREM IdsUnique == IdSpec => []NoIdTwice
  <1>1. IdInv /\ [IdNext]_idVars => IdInv'
    BY ReserveKeeps, NewGatewayIDKeeps, RestartEmptyKeeps, OthersKeep DEF IdNext
  <1>2. IdInv => NoIdTwice
    BY DEF IdInv
  <1> QED BY InitEstablishes, <1>1, <1>2, PTL DEF IdSpec
=============================================================================
