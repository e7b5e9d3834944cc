------------------------------ MODULE Routing ------------------------------
(***************************************************************************)
(* The router (router/router.go): the table that a reload builds from the  *)
(* routes and the enabled providers, the choice of the route of a message  *)
(* and the choice of its provider.                                         *)
(*                                                                         *)
(* Numbers are sequences of digits.  Time is counted in ticks of UTC, Day  *)
(* ticks a day.  The hash of a gateway id is a number.                     *)
(***************************************************************************)
EXTENDS Integers, Sequences, FiniteSets, SequencesExt

CONSTANTS
  Tables,     \* route tables of valid configurations: sequences of routes
  Enablings,  \* sets of enabled providers
  Inputs,     \* messages: to, from, system, client, tags, utc, hash
  Day,        \* ticks of a day
  Week,       \* days of a week
  Zone,       \* local time is Zone ticks ahead of UTC
  MaxReloads, \* bound: reloads; a router depends on the last one only
  None

VARIABLES
  table,   \* the routes of the configuration
  router,  \* the router in use: sorted routes and enabled providers
  input,   \* the message routed last
  result,  \* its route and its provider, or None
  reloads

vars == <<table, router, input, result, reloads>>

-----------------------------------------------------------------------------
(* Building *)

LongestPrefix(route) == LET lens == {Len(p) : p \in route.prefix} IN Max(lens \cup {0})

RouteSelectable(route, enabled) ==
  IF route.weighted # <<>> THEN \E i \in DOMAIN route.weighted : route.weighted[i].provider \in enabled
  ELSE IF route.failover # <<>> THEN ToSet(route.failover) \cap enabled # {}
  ELSE route.provider \in enabled

\* A stable sort: by priority, then by the longest prefix.
SortRoutes(rs) ==
  LET before(i, j) ==
        \/ rs[i].priority > rs[j].priority
        \/ /\ rs[i].priority = rs[j].priority
           /\ \/ LongestPrefix(rs[i]) > LongestPrefix(rs[j])
              \/ LongestPrefix(rs[i]) = LongestPrefix(rs[j]) /\ i < j
      order == SetToSortSeq(DOMAIN rs, before)
  IN [k \in DOMAIN rs |-> rs[order[k]]]

NewWithProviders(rs, enabled) ==
  LET keep(route) == route.enabled /\ RouteSelectable(route, enabled)
  IN [routes |-> SortRoutes(SelectSeq(rs, keep)), enabled |-> enabled]

-----------------------------------------------------------------------------
(* The route of a message *)

HasAnyPrefix(number, prefixes) == \E p \in prefixes : IsPrefix(p, number)

InWindow(day, cur, w) ==
  /\ w.days = {} \/ day \in w.days
  /\ IF w.start <= w.end THEN w.start <= cur /\ cur <= w.end ELSE w.start <= cur \/ cur <= w.end

\* env.ReceivedAt is in UTC: so are the day and the clock.
InAnyWindow(utc, windows) ==
  \E w \in windows : InWindow((utc \div Day) % Week, utc % Day, w)

RouteMatches(route, in) ==
  /\ route.enabled
  /\ route.from # {} => HasAnyPrefix(in.from, route.from)
  /\ route.systems # {} => in.system \in route.systems
  /\ route.clients # {} => in.client \in route.clients
  /\ route.tags \subseteq in.tags
  /\ route.windows # {} => InAnyWindow(in.utc, route.windows)

\* -1: the number has none of the prefixes.
MatchedPrefixLen(route, to) ==
  IF route.prefix = {} THEN 0
  ELSE Max({Len(p) : p \in {q \in route.prefix : IsPrefix(q, to)}} \cup {-1})

\* Mutant: priority alone decides; the table is sorted, so the first one wins.
BetterPriority(route, len, best) == best = None \/ route.priority > best.route.priority

Better(route, len, best) ==
  \/ best = None
  \/ route.priority > best.route.priority
  \/ route.priority = best.route.priority /\ len > best.len

MatchRoute(r, in) ==
  LET step(best, route) ==
        LET len == MatchedPrefixLen(route, in.to) IN
        IF RouteMatches(route, in) /\ len >= 0 /\ Better(route, len, best)
        THEN [route |-> route, len |-> len] ELSE best
      best == FoldLeft(step, None, r.routes)
  IN IF best = None THEN None ELSE best.route

-----------------------------------------------------------------------------
(* Its provider *)

Weights(route, enabled) ==
  LET usable(wp) == wp.provider \in enabled IN SelectSeq(route.weighted, usable)

Total(ws) == FoldLeft(LAMBDA sum, wp : sum + wp.weight, 0, ws)

Pick(ws, n) ==
  LET step(acc, wp) ==
        IF acc.provider # None THEN acc
        ELSE IF acc.n < wp.weight THEN [acc EXCEPT !.provider = wp.provider]
        ELSE [acc EXCEPT !.n = @ - wp.weight]
  IN FoldLeft(step, [n |-> n, provider |-> None], ws).provider

\* The weights are those that Validate lets through; their sum is far from 2^64.
SelectProvider(r, route, hash) ==
  IF route.weighted # <<>> THEN
     LET ws == Weights(route, r.enabled) IN
     IF ws = <<>> THEN None ELSE Pick(ws, hash % Total(ws))
  ELSE IF route.failover # <<>> THEN
     LET up(p) == p \in r.enabled
         chain == SelectSeq(route.failover, up)
     IN IF chain = <<>> THEN None ELSE Head(chain)
  ELSE IF route.provider \in r.enabled THEN route.provider ELSE None

-----------------------------------------------------------------------------

Init ==
  /\ table = <<>>
  /\ router = NewWithProviders(<<>>, {})
  /\ input = None /\ result = None /\ reloads = 0

ReloadRoutes ==
  \E rs \in Tables, enabled \in Enablings :
    /\ reloads < MaxReloads /\ reloads' = reloads + 1
    /\ table' = rs
    /\ router' = NewWithProviders(rs, enabled)
    /\ input' = None /\ result' = None

\* The part of Submit that routes the message.
Route ==
  \E in \in Inputs :
    LET route == MatchRoute(router, in) IN
    /\ input' = in
    /\ result' = IF route = None THEN None
                 ELSE [route |-> route, provider |-> SelectProvider(router, route, in.hash)]
    /\ UNCHANGED <<table, router, reloads>>

Next == ReloadRoutes \/ Route

Spec == Init /\ [][Next]_vars

-----------------------------------------------------------------------------

\* A window holds from its start round the clock to its end, both included, on
\* the days it names.
Holds(w, utc) ==
  /\ w.days # {} => (utc \div Day) % Week \in w.days
  /\ (utc - w.start) % Day <= (w.end - w.start) % Day

\* Does the route serve the message?
Serves(route, in) ==
  /\ RouteMatches([route EXCEPT !.windows = {}], in)
  /\ route.windows # {} => \E w \in route.windows : Holds(w, in.utc)
  /\ MatchedPrefixLen(route, in.to) >= 0

\* The provider a weighted route owes a hash: each enabled one has as many turns
\* as its weight.
Due(route, hash) ==
  LET ws == Weights(route, router.enabled)
      turns == FlattenSeq([k \in DOMAIN ws |-> [n \in 1..ws[k].weight |-> ws[k].provider]])
  IN turns[(hash % Len(turns)) + 1]

\* A message takes a route of the configuration that serves it and has a
\* provider, and no other such route has a higher priority, or the same and a
\* longer matching prefix; it takes none only where there is no such route.
\* The sort by the longest prefix of a route never hides a longer match, windows
\* hold past midnight, and the provider is enabled and has its turn (MatchRoute,
\* sortRoutes, inAnyWindow, selectProvider).
BestRoute ==
  input # None =>
    LET good == {i \in DOMAIN table : table[i].enabled /\ Serves(table[i], input)
                                      /\ RouteSelectable(table[i], router.enabled)}
        rank(i) == <<table[i].priority, MatchedPrefixLen(table[i], input.to)>>
        beats(a, b) == a[1] > b[1] \/ (a[1] = b[1] /\ a[2] > b[2])
    IN IF result = None THEN good = {}
       ELSE /\ \E i \in good : /\ table[i] = result.route
                               /\ \A j \in good : ~beats(rank(j), rank(i))
            /\ result.provider \in router.enabled
            /\ result.route.weighted # <<>> => result.provider = Due(result.route, input.hash)

\* The windows of the route taken hold at the local time of the message.  The code
\* does not keep this: Submit resolves with time.Now().UTC().
WindowIsLocal ==
  result # None /\ result.route.windows # {} =>
    InAnyWindow(input.utc + Zone, result.route.windows)
=============================================================================
