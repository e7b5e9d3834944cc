------------------------------- MODULE Filter -------------------------------
(***************************************************************************)
(* The content filter (internal/filter): the automaton that Compile builds *)
(* from the keywords of all rules (buildAC), the scan of a text (Find) and *)
(* the verdict over what it hits (Evaluate).                               *)
(*                                                                         *)
(* A text and a keyword are sequences of letters, and a position is a      *)
(* letter, not a byte.  A node of the trie is named by the letters that    *)
(* lead to it.  Hits of regular expressions are left out: Evaluate treats  *)
(* them as the hits of keywords.                                           *)
(***************************************************************************)
EXTENDS Integers, Sequences, FiniteSets, SequencesExt

CONSTANTS
  RuleTables,  \* sequences of enabled rules: action, priority, tag, words
  Texts,       \* texts to evaluate
  ZeroWidth,   \* letters that normalize.strip_zero_width removes
  Half,        \* Half[c]: c after full_to_half and lowercase
  None

VARIABLES
  rules,    \* Engine.rules with their normalized keywords
  queue,    \* the queue of buildAC
  kids,     \* children of the head of the queue that are not yet linked
  fail,     \* acNode.fail
  out,      \* acNode.out: <<keyword, rule>>
  text,     \* the text evaluated last
  hits,     \* what Find reports of it: rule, start, end in the normalized text
  verdict   \* the decision, or None

vars == <<rules, queue, kids, fail, out, text, hits, verdict>>

Root == <<>>

-----------------------------------------------------------------------------
(* Normalization *)

Kept(t) == {i \in DOMAIN t : t[i] \notin ZeroWidth}

Normalized(t) == LET keep(c) == c \notin ZeroWidth
                     s == SelectSeq(t, keep)
                 IN [i \in DOMAIN s |-> Half[s[i]]]

\* Mutant: positions of the normalized text are taken for those of the text.
NormIsOrig(t, k) == k

\* The end, in the text, of letter k of the normalized text.
NormToOrig(t, k) ==
  IF k = 0 THEN 0 ELSE CHOOSE i \in Kept(t) : Cardinality({j \in Kept(t) : j <= i}) = k

-----------------------------------------------------------------------------
(* buildAC *)

Patterns(rs) == UNION {{<<Normalized(w), i>> : w \in rs[i].words} : i \in DOMAIN rs} \ ({Root} \X DOMAIN rs)
Nodes(rs) == {Root} \cup UNION {Prefixes(p[1]) : p \in Patterns(rs)}
Children(rs, n) == {u \in Nodes(rs) : u # Root /\ Front(u) = n}
HasChild(n, c) == Append(n, c) \in DOMAIN fail

\* Every map is ranged over in any order.
Compile ==
  \E rs \in RuleTables :
    \E first \in SetToSeqs(Children(rs, Root)) :
      /\ rules = <<>>
      /\ rules' = rs
      /\ fail' = [n \in Nodes(rs) |-> Root]
      /\ out' = [n \in Nodes(rs) |-> {p \in Patterns(rs) : p[1] = n}]
      /\ queue' = first
      /\ kids' = IF first = <<>> THEN {} ELSE Children(rs, Head(first))
      /\ UNCHANGED <<text, hits, verdict>>

RECURSIVE Climb(_, _)
Climb(n, c) == IF n = Root \/ HasChild(n, c) THEN n ELSE Climb(fail[n], c)

\* Mutant: what the failure node reports is not added.
LinkOwn(u) ==
  LET c == Last(u)
      f == Climb(fail[Front(u)], c)
      g == IF f = Root THEN Root ELSE Append(f, c)
  IN
  /\ fail' = IF HasChild(g, c) /\ Append(g, c) # u THEN [fail EXCEPT ![u] = Append(g, c)] ELSE fail
  /\ UNCHANGED out

\* The failure link of u: the climb stops at the child itself when it finds one
\* below the root, and the child is then asked for the letter once more.
Link(u) ==
  LET c == Last(u)
      f == Climb(fail[Front(u)], c)
      g == IF f = Root THEN Root ELSE Append(f, c)
  IN
  /\ fail' = IF HasChild(g, c) /\ Append(g, c) # u THEN [fail EXCEPT ![u] = Append(g, c)] ELSE fail
  /\ out' = [out EXCEPT ![u] = @ \cup out[fail'[u]]]

LinkChild ==
  \E u \in kids :
    /\ Link(u)
    /\ kids' = kids \ {u} /\ queue' = Append(queue, u)
    /\ UNCHANGED <<rules, text, hits, verdict>>

NextNode ==
  /\ queue # <<>> /\ kids = {}
  /\ queue' = Tail(queue)
  /\ kids' = IF queue' = <<>> THEN {} ELSE Children(rules, Head(queue'))
  /\ UNCHANGED <<rules, fail, out, text, hits, verdict>>

-----------------------------------------------------------------------------
(* Find *)

Find(s) ==
  LET step(acc, i) ==
        LET c == s[i]
            n == Climb(acc.node, c)
            m == IF HasChild(n, c) THEN Append(n, c) ELSE n
        IN [node |-> m,
            found |-> acc.found \cup {[rule |-> p[2], start |-> i - Len(p[1]), end |-> i] :
                                      p \in {q \in out[m] : Len(q[1]) <= i}}]
  IN FoldLeft(step, [node |-> Root, found |-> {}], [i \in DOMAIN s |-> i]).found

-----------------------------------------------------------------------------
(* Evaluate *)

ActionRank(a) == CASE a = "block" -> 4 [] a = "mask" -> 3 [] a = "tag" -> 2 [] OTHER -> 1

Ahead(i, j) ==
  \/ ActionRank(rules[i].action) > ActionRank(rules[j].action)
  \/ ActionRank(rules[i].action) = ActionRank(rules[j].action) /\ rules[i].priority > rules[j].priority

Interval(t, h) == [start |-> NormToOrig(t, h.start), end |-> NormToOrig(t, h.end)]

\* maskText: intervals by start, in any order for one start; one that starts
\* inside the last one replaced is skipped.  The letters replaced, from pos on.
RECURSIVE MaskFrom(_, _, _)
MaskFrom(pos, starts, endOf) ==
  LET left == {s \in starts : s >= pos} IN
  IF left = {} THEN {}
  ELSE LET s == CHOOSE s \in left : \A o \in left : s <= o
       IN ((s + 1)..endOf[s]) \cup MaskFrom(endOf[s], starts \ {s}, endOf)

\* The masked letters of t that the hits of one rule may leave.
Maskings(t, hs) ==
  LET ins    == {Interval(t, h) : h \in hs}
      starts == {in.start : in \in ins}
      ends   == [starts -> {in.end : in \in ins}]
  IN {MaskFrom(0, starts, e) : e \in {f \in ends : \A s \in starts : [start |-> s, end |-> f[s]] \in ins}}

TagsOf(hs) == {rules[h.rule].tag : h \in {g \in hs : rules[g.rule].action = "tag"}}

Verdict(action, rule, masked, tags) == [action |-> action, rule |-> rule, masked |-> masked, tags |-> tags]

\* The sorted hits are taken in turn; which of several rules of the same rank
\* and priority comes first depends on the text, and is left open.  (A bound:
\* one text, as a verdict does not depend on the texts before.)
Evaluate ==
  \E t \in Texts :
    LET hs == Find(Normalized(t))
        hit == {h.rule : h \in hs}
        first == {i \in hit : \A j \in hit : ~Ahead(j, i)}
    IN
    /\ rules # <<>> /\ queue = <<>> /\ verdict = None
    /\ text' = t /\ hits' = hs
    /\ \/ /\ \A i \in first : rules[i].action \notin {"block", "mask"}
          /\ verdict' = Verdict("pass", None, {}, TagsOf(hs))
       \/ \E i \in first :
            /\ rules[i].action = "block"
            /\ verdict' = Verdict("block", i, {}, TagsOf(hs))
       \/ \E i \in first :
            /\ rules[i].action = "mask"
            /\ \E masked \in Maskings(t, {h \in hs : h.rule = i}) :
                 verdict' = Verdict("mask", i, masked, TagsOf(hs))
    /\ UNCHANGED <<rules, queue, kids, fail, out>>

-----------------------------------------------------------------------------

Init ==
  /\ rules = <<>> /\ queue = <<>> /\ kids = {}
  /\ fail = [n \in {Root} |-> Root] /\ out = [n \in {Root} |-> {}]
  /\ text = None /\ hits = {} /\ verdict = None

Next == Compile \/ LinkChild \/ NextNode \/ Evaluate

Spec == Init /\ [][Next]_vars

-----------------------------------------------------------------------------

\* Where a keyword stands in a text.
Occurrences(s, w) == {e \in Len(w)..Len(s) : SubSeq(s, e - Len(w) + 1, e) = w}

AllHits(s) ==
  UNION {{[rule |-> p[2], start |-> e - Len(p[1]), end |-> e] : e \in Occurrences(s, p[1])} : p \in Patterns(rules)}

\* The scan reports every keyword wherever it stands in the normalized text,
\* and nothing else: keywords inside, across or at the end of others included
\* (buildAC, Find).  The code does not keep this below depth two of the trie.
AllFound == verdict # None => hits = AllHits(Normalized(text))

\* The scan is exact for rules whose keywords have one or two letters, however
\* these overlap: no failure link then leads below the first letter.
FindExact == (\A p \in Patterns(rules) : Len(p[1]) <= 2) => AllFound

\* What a hit of the rule covers in the text itself.
Covered == UNION {(Interval(text, h).start + 1)..Interval(text, h).end : h \in {g \in hits : g.rule = verdict.rule}}

\* The verdict is the strictest that a rule with a hit asks for, by the rule of
\* the highest priority, and carries the tags of all (Evaluate: block > mask >
\* tag > pass).  Masking replaces only letters that belong to a hit or that
\* normalization removes next to one (collectMaskHits, normToOrig).
VerdictExact ==
  verdict # None =>
    LET hit == {h.rule : h \in hits}
        asks(a) == {i \in hit : rules[i].action = a}
        top(S) == {i \in S : \A j \in S : rules[i].priority >= rules[j].priority}
        place(i) == Cardinality({j \in Kept(text) : j <= i})
    IN /\ verdict.action = (IF asks("block") # {} THEN "block" ELSE IF asks("mask") # {} THEN "mask" ELSE "pass")
       /\ verdict.rule \in (IF verdict.action = "pass" THEN {None} ELSE top(asks(verdict.action)))
       /\ verdict.tags = {rules[i].tag : i \in asks("tag")}
       /\ verdict.action = "mask" =>
            \A i \in verdict.masked : text[i] \in ZeroWidth
              \/ \E h \in hits : h.start < place(i) /\ place(i) <= h.end

\* Every letter of a hit of the rule is masked.  The code does not keep this: of
\* two hits that overlap maskText replaces the first only.
HitsAreMasked == verdict # None /\ verdict.action = "mask" => Covered \subseteq verdict.masked
=============================================================================
