------------------------------ MODULE MCRules ------------------------------
(***************************************************************************)
(* Instances for TLC of the configuration and of what it governs: its      *)
(* reload (Reload), the routes (Routing), the limits (Limits and           *)
(* ProviderLimit), the content filter (Filter) and the segments of a text  *)
(* (Text).  They share no state, so that one of them runs in a behaviour   *)
(* and the others stay as they begin.                                      *)
(***************************************************************************)
EXTENDS Reload, Limits, ProviderLimit, SequencesExt

CONSTANTS r1, r2, v1, v2, p1

VARIABLES
  subject,                                            \* what runs
  table, router, input, result, reloads,              \* Routing
  rules, queue, kids, fail, out, sms, hits, verdict,  \* Filter
  text, encoding, segments, got                       \* Text

-----------------------------------------------------------------------------
(* One administrator with a failure and a crash; two at the same time without. *)

Cfg(routes, providers, cdr, auto) == [routes |-> routes, providers |-> providers, cdr |-> cdr, auto |-> auto]
FirstConfig == Cfg([n \in Name |-> IF n = r1 THEN v1 ELSE None], {p1}, TRUE, TRUE)

\* Configurations sent whole: one without records and providers, and one that a
\* running process refuses.
Raw == {Cfg([n \in Name |-> v2], {}, FALSE, FALSE), Cfg([n \in Name |-> None], {}, TRUE, TRUE)}

Admin == ReloadNext /\ Cardinality({e \in Editor : req'[e].at # "idle"}) <= 1

\* Their edits are of sections and of whole configurations.
Admins == ReloadNext /\ edits' <= 2 /\ faults' = 0 /\ crashes' = 0 /\ about'[edits'] \in {{}, Name}

-----------------------------------------------------------------------------
(* Tables of two routes, which differ from the first in what they ask for or  *)
(* in how they choose, or of three that differ in prefix and provider.        *)

Plain == [enabled |-> TRUE, priority |-> 1, prefix |-> {<<1>>}, from |-> {}, systems |-> {}, clients |-> {},
          tags |-> {}, windows |-> {}, provider |-> "a", weighted |-> <<>>, failover |-> <<>>]

W(p, n) == [provider |-> p, weight |-> n]

ByPrefix ==
  { Plain,
    [Plain EXCEPT !.prefix = {}, !.provider = "b"],
    [Plain EXCEPT !.prefix = {<<1, 2>>}, !.from = {<<2>>}, !.provider = "b"],
    [Plain EXCEPT !.prefix = {<<1>>, <<2, 1, 1>>}, !.provider = "b"] }

Others ==
  { [Plain EXCEPT !.prefix = {<<1, 2>>}, !.weighted = <<W("a", 2), W("b", 1), W("c", 2)>>],
    [Plain EXCEPT !.priority = 2, !.failover = <<"c", "b">>, !.tags = {"otp"}],
    [Plain EXCEPT !.priority = 2, !.windows = {[days |-> {}, start |-> 3, end |-> 0]}],
    [Plain EXCEPT !.priority = 2, !.windows = {[days |-> {0}, start |-> 1, end |-> 2]}, !.systems = {"s"}],
    [Plain EXCEPT !.priority = 2, !.clients = {"s"}, !.enabled = FALSE],
    [Plain EXCEPT !.clients = {"s"}, !.provider = "c"] }

RouteTables == {t \in BoundedSeq(ByPrefix \cup Others, 2) \cup BoundedSeq(ByPrefix, 3) : IsInjective(t)}

In(to, from, sys, tags, utc, hash) ==
  [to |-> to, from |-> from, system |-> sys, client |-> sys, tags |-> tags, utc |-> utc, hash |-> hash]

Messages ==
  {In(to, <<2>>, "s", tags, utc, 3) : to \in {<<1, 2>>, <<2, 1, 1>>, <<1>>}, tags \in {{}, {"otp"}}, utc \in {0, 2, 5}}
    \cup {In(<<1, 2>>, <<1>>, "t", {}, 3, h) : h \in 0..4}

Routes == INSTANCE Routing WITH
  Tables <- RouteTables, Enablings <- {{"a"}, {"b", "c"}, {"a", "b", "c"}}, Inputs <- Messages,
  Day <- 4, Week <- 2, Zone <- 0, MaxReloads <- 1

-----------------------------------------------------------------------------
(* Two requests that meet all counters of a number; three that meet a bucket; *)
(* five calls of a provider.                                                  *)

CounterLimits == [min |-> 1, day |-> 1, sec |-> 2, tps |-> 0, burst |-> 0]
BucketLimits  == [min |-> 0, day |-> 0, sec |-> 0, tps |-> 1, burst |-> 2]
Limitings == {CounterLimits, BucketLimits}
Windows == [w \in Kind |-> CASE w = "min" -> 3 [] w = "day" -> 5 [] w = "sec" -> 2]

Counters == LimitNext /\ Cardinality({r \in Request : asks'[r].at # "idle"}) <= 2

-----------------------------------------------------------------------------
(* Rules of each kind with one or two keywords, over the letters a and b, the *)
(* capital A and a letter without width; and pairs with a keyword of three.   *)

Rule(action, priority, words) == [action |-> action, priority |-> priority, tag |-> action, words |-> words]

Words == {<<"a">>, <<"b">>, <<"a", "b">>, <<"A", "a">>, <<"b", "a">>}

FilterTables ==
  {<<Rule("tag", 3, {u}), Rule("mask", 2, {v, w}), Rule("block", 1, {x})>> :
     u \in Words, v \in Words, w \in Words, x \in {<<"b", "b">>, <<"a", "a">>}}
  \cup {<<Rule("mask", p, {v}), Rule("mask", 2, {w})>> : p \in {1, 3}, v \in Words, w \in Words}
  \cup {<<Rule("block", 1, {v}), Rule("mask", 1, {w})>> :
     v \in {<<"a", "a", "a">>, <<"a", "b", "a">>}, w \in {<<"b", "a">>, <<"b", "a", "b">>}}

Content == INSTANCE Filter WITH
  RuleTables <- FilterTables, Texts <- SeqOf({"a", "b", "zw"}, 4) \cup {<<"A", "b">>, <<"A", "A", "A">>},
  ZeroWidth <- {"zw"}, Half <- [c \in {"a", "b", "A", "zw"} |-> IF c = "A" THEN "a" ELSE c], text <- sms

-----------------------------------------------------------------------------
(* '@' and 'a' of the basic alphabet, '{' of the extension table, a letter    *)
(* outside both and one that takes a surrogate pair.                          *)

Codes(Letters, Encodings, MaxLetters) == INSTANCE Text WITH
  DefaultCodes <- [c \in {"at", "a"} |-> IF c = "at" THEN 0 ELSE 97], ExtCodes <- [c \in {"brace"} |-> 40],
  Surrogates <- {"emoji"}, Question <- 63, ByteSize <- 8,
  SingleLimit <- [enc \in {"gsm7", "8bit", "ucs2"} |-> IF enc = "ucs2" THEN 4 ELSE 5],
  ConcatLimit <- [enc \in {"gsm7", "8bit", "ucs2"} |-> IF enc = "gsm7" THEN 3 ELSE 2]

SplitNext == Codes({"a", "brace", "han", "emoji"}, {"auto", "gsm7", "8bit", "ucs2"}, 5)!Next
PackNext == Codes({"at", "a", "brace"}, {}, 9)!Next

-----------------------------------------------------------------------------
routing == <<table, router, input, result, reloads>>
filter == <<rules, queue, kids, fail, out, sms, hits, verdict>>
codes == <<text, encoding, segments, got>>
vars == <<subject, reloadVars, routing, limitVars, limiterVars, filter, codes>>

Init ==
  /\ subject \in {"admin", "admins", "routes", "counters", "bucket", "provider", "filter", "split", "pack"}
  /\ ReloadInit
  /\ Routes!Init
  /\ limits = (IF subject = "bucket" THEN BucketLimits ELSE CounterLimits) /\ LimitInit
  /\ LimiterInit
  /\ Content!Init
  /\ Codes({}, {}, 0)!Init

Next ==
  /\ UNCHANGED subject
  /\ \/ /\ (subject = "admin" /\ Admin) \/ (subject = "admins" /\ Admins)
        /\ UNCHANGED <<routing, limitVars, limiterVars, filter, codes>>
     \/ subject = "routes" /\ Routes!Next /\ UNCHANGED <<reloadVars, limitVars, limiterVars, filter, codes>>
     \/ /\ (subject = "counters" /\ Counters) \/ (subject = "bucket" /\ LimitNext)
        /\ UNCHANGED <<reloadVars, routing, limiterVars, filter, codes>>
     \/ subject = "provider" /\ LimiterNext /\ UNCHANGED <<reloadVars, routing, limitVars, filter, codes>>
     \/ subject = "filter" /\ Content!Next /\ UNCHANGED <<reloadVars, routing, limitVars, limiterVars, codes>>
     \/ /\ (subject = "split" /\ SplitNext) \/ (subject = "pack" /\ PackNext)
        /\ UNCHANGED <<reloadVars, routing, limitVars, limiterVars, filter>>

Spec == Init /\ [][Next]_vars

\* The editors and the requests are alike.
Alike == Permutations(Editor) \cup Permutations(Request)

-----------------------------------------------------------------------------
\* A message takes a route that serves it and has a provider, and no such route
\* has a higher priority, or the same and a longer matching prefix.
BestRoute == subject = "routes" => Routes!BestRoute

\* The filter reports every keyword wherever it stands in the text, and nothing
\* else: as long as no keyword has more than two letters, and, as AllFound, always.
FindExact == subject = "filter" => Content!FindExact
AllFound == subject = "filter" => Content!AllFound

\* The verdict is the strictest that a rule with a hit asks for, and only letters
\* that belong to a hit, or that normalization removes next to one, are masked.
VerdictExact == subject = "filter" => Content!VerdictExact

\* A text is cut into segments that fit, that it needs, and that give it back in
\* whatever order they come.
SegmentsExact == Codes({}, {}, 0)!SegmentsExact

\* Packing a text of the seven-bit alphabet and unpacking it gives the text, but
\* for a last '@' that ends on a byte boundary.
PackedIsKept == subject = "pack" => Codes({}, {}, 0)!PackedIsKept
=============================================================================
