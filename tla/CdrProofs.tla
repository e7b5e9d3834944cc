------------------------------ MODULE CdrProofs ------------------------------
(***************************************************************************)
(* Proofs about the call detail records (Cdr): every event that has been   *)
(* emitted is in exactly one place, whatever reloads, shutdowns and        *)
(* failing file operations happen, and no goroutine sends on the closed    *)
(* channel of a writer.                                                    *)
(*                                                                         *)
(* Accounted is not inductive.  CdrInv adds who may hold the lock of a     *)
(* writer while it closes (CdrLife), that what is queued, written or given *)
(* up belongs to an emitter that is done with it (Owned), and that queues  *)
(* and files hold no event twice (Kept).                                   *)
(***************************************************************************)
EXTENDS Cdr, FiniteSetTheorems, TLAPS

Stages == {"idle", "loaded", "locked", "send", "done"}

Emits == [Emitter -> [at : Stages, w : Writer \cup {Nil}, seq : Nat]]

\* What is known of a file that is not written any more.
Closed == [recs : Seq(Event), count : Nat]

CdrTypes ==
  /\ sink \in Writer
  /\ emit \in Emits
  /\ cdrSeq \in [Writer -> Nat] /\ in \in [Writer -> Seq(Event)]
  /\ closed \in [Writer -> BOOLEAN] /\ loop \in [Writer -> BOOLEAN] /\ closeErr \in [Writer -> BOOLEAN]
  /\ close \in [Writer -> {"none", "start", "want", "wait", "done"}]
  /\ file \in [Writer -> CdrFile \cup {Nil}]
  /\ finals \in SUBSET Closed /\ left \in SUBSET Closed
  /\ cdrFaults \in Nat

Started(w) == loop[w] \/ close[w] # "none"

\* A writer whose loop does not run has nothing to write, and nobody sends to it
\* any more: it has not been made yet, or it is closed.
WriterOK(w) ==
  /\ closed[w] <=> close[w] \in {"wait", "done"}
  /\ close[w] = "done" => ~loop[w]
  /\ ~loop[w] => in[w] = <<>> /\ file[w] = Nil /\ (close[w] = "none" \/ closed[w])

EmitOK(e) ==
  /\ emit[e].at # "idle" => emit[e].w \in Writer /\ Started(emit[e].w)
  /\ emit[e].at \in {"locked", "send"} => ~closed[emit[e].w]

\* No event is twice in a queue or a file.
Distinct(s) == \A i, j \in DOMAIN s : s[i].id = s[j].id => i = j

Sound(f) == f.safe <= Len(f.recs) /\ f.count = Len(f.recs) /\ f.count <= MaxRecords /\ Distinct(f.recs)
FileOK(f) == Sound(f) /\ f.count < MaxRecords /\ (f.bad => cdrFaults > 0)

InFinals == In(finals)
InLeft == In(left)

One(b) == IF b THEN 1 ELSE 0

\* The number of places in which an event is.
Tally(e) ==
  One(e \in Ids(in[emit[e].w])) + One(e \in InFile(emit[e].w)) + One(e \in InFinals) + One(e \in InLeft)
    + One(e \in dropped) + One(e \in lost) + One(e \in late)

\* The file system has failed, and the Close of some writer says so.
Reported == cdrFaults > 0 /\ \E w \in Writer : closeErr[w]

FinalsOK ==
  /\ \A f \in finals : f.count <= MaxRecords
  /\ Reported \/ (lost = {} /\ left = {} /\ \A f \in finals : Len(f.recs) = f.count)

CdrLife ==
  /\ Started(sink)
  /\ \A w \in Writer : WriterOK(w)
  /\ \A e \in Emitter : EmitOK(e)
  /\ panic = FALSE

Owned ==
  /\ \A w \in Writer : \A e \in Ids(in[w]) \cup InFile(w) : e \in Emitter /\ emit[e].at = "done" /\ emit[e].w = w
  /\ \A e \in InFinals \cup InLeft \cup dropped \cup lost \cup late : e \in Emitter /\ emit[e].at = "done"
  /\ \A e \in Emitter : emit[e].at = "done" => Tally(e) = 1

Kept ==
  /\ \A w \in Writer : Distinct(in[w]) /\ (file[w] # Nil => FileOK(file[w]))
  /\ \A e \in dropped : OnFull[emit[e].w] = "drop"
  /\ FinalsOK

\* Why Accounted holds: an event is in one place from the moment Emit returns, its
\* queue and its file hold it once, and every step of the loop takes it from one
\* place and puts it into another.
CdrInv == CdrTypes /\ CdrLife /\ Owned /\ Kept

LEMMA IdsAppend ==
  ASSUME NEW s \in Seq(Event), NEW r \in Event
  PROVE  /\ Append(s, r) \in Seq(Event) /\ Len(Append(s, r)) = Len(s) + 1
         /\ Ids(Append(s, r)) = Ids(s) \cup {r.id}
         /\ Distinct(s) /\ r.id \notin Ids(s) => Distinct(Append(s, r))
<1>0. Append(s, r) \in Seq(Event)
  OBVIOUS
<1>1. PICK t \in Seq(Event) : t = Append(s, r)
  BY <1>0, Zenon
<1>2. /\ Len(s) \in Nat /\ Len(t) = Len(s) + 1 /\ DOMAIN s = 1..Len(s) /\ DOMAIN t = 1..(Len(s) + 1)
      /\ t[Len(s) + 1] = r /\ \A i \in 1..Len(s) : t[i] = s[i]
  BY <1>1
<1>3. Ids(t) = Ids(s) \cup {r.id}
  <2>1. \A x \in Ids(t) : x \in Ids(s) \cup {r.id}
    BY <1>2 DEF Ids
  <2>2. \A x \in Ids(s) : x \in Ids(t)
    BY <1>2 DEF Ids
  <2>3. r.id \in Ids(t)
    BY <1>2 DEF Ids
  <2> QED
    BY <2>1, <2>2, <2>3
<1>4. ASSUME Distinct(s), r.id \notin Ids(s) PROVE Distinct(t)
  <2>1. \A i \in 1..Len(s) : s[i].id # r.id
    BY <1>2, <1>4 DEF Ids
  <2> QED
    BY <1>2, <1>4, <2>1 DEF Distinct
<1> QED
  BY <1>1, <1>2, <1>3, <1>4

LEMMA IdsTail ==
  ASSUME NEW s \in Seq(Event), s # <<>>, Distinct(s)
  PROVE  /\ Head(s) \in Event /\ Tail(s) \in Seq(Event) /\ Head(s).id \in Ids(s)
         /\ Ids(Tail(s)) = Ids(s) \ {Head(s).id} /\ Distinct(Tail(s))
<1>0. Tail(s) \in Seq(Event)
  OBVIOUS
<1>1. PICK t \in Seq(Event) : t = Tail(s)
  BY <1>0, Zenon
<1>2. /\ Len(s) \in Nat \ {0} /\ Len(t) = Len(s) - 1 /\ DOMAIN s = 1..Len(s) /\ DOMAIN t = 1..(Len(s) - 1)
      /\ Head(s) = s[1] /\ \A i \in 1..(Len(s) - 1) : t[i] = s[i + 1]
  BY <1>1
<1>3. Head(s) \in Event /\ Head(s).id \in Ids(s)
  BY <1>2 DEF Ids
<1>4. Distinct(t)
  BY <1>2 DEF Distinct
<1>5. \A x \in Ids(t) : x \in Ids(s) /\ x # Head(s).id
  BY <1>2 DEF Ids, Distinct
<1>6. \A x \in Ids(s) : x # Head(s).id => x \in Ids(t)
  <2> SUFFICES ASSUME NEW i \in 1..Len(s), s[i].id # Head(s).id PROVE s[i].id \in Ids(t)
    BY <1>2 DEF Ids
  <2>1. i # 1 /\ i - 1 \in 1..(Len(s) - 1) /\ t[i - 1] = s[i]
    BY <1>2
  <2> QED
    BY <1>2, <2>1 DEF Ids
<1> QED
  BY <1>1, <1>3, <1>4, <1>5, <1>6

LEMMA IdsSplit ==
  ASSUME NEW s \in Seq(Event), NEW k \in Nat, k <= Len(s), Distinct(s)
  PROVE  /\ SubSeq(s, 1, k) \in Seq(Event) /\ Len(SubSeq(s, 1, k)) = k
         /\ Ids(SubSeq(s, 1, k)) \cup {s[i].id : i \in k + 1 .. Len(s)} = Ids(s)
         /\ Ids(SubSeq(s, 1, k)) \cap {s[i].id : i \in k + 1 .. Len(s)} = {}
<1>0. SubSeq(s, 1, k) \in Seq(Event)
  OBVIOUS
<1>1. PICK t \in Seq(Event) : t = SubSeq(s, 1, k)
  BY <1>0, Zenon
<1>2. Len(s) \in Nat /\ DOMAIN s = 1..Len(s) /\ Len(t) = k /\ DOMAIN t = 1..k /\ \A i \in 1..k : t[i] = s[i]
  BY <1>1
<1>3. Ids(t) = {s[i].id : i \in 1..k} /\ Ids(s) = {s[i].id : i \in 1..Len(s)}
  BY <1>2 DEF Ids
<1>4. \A i \in 1..Len(s) : i \in 1..k \/ i \in k + 1 .. Len(s)
  BY <1>2
<1>5. \A i \in 1..k : \A j \in k + 1 .. Len(s) : s[i].id # s[j].id
  BY <1>2 DEF Distinct
<1>6. Ids(t) \cup {s[i].id : i \in k + 1 .. Len(s)} = Ids(s)
  BY <1>2, <1>3, <1>4
<1> QED
  BY <1>1, <1>2, <1>3, <1>5, <1>6

LEMMA CdrStart == CdrInit => CdrInv
<1> SUFFICES ASSUME CdrInit PROVE CdrInv
  OBVIOUS
<1> USE CdrAssumption
<1>1. CdrTypes
  BY DEF CdrInit, CdrTypes, Emits, Free, Stages
<1>2. CdrLife
  BY DEF CdrInit, CdrLife, Started, WriterOK, EmitOK, Free
<1>3. Ids(<<>>) = {}
  BY DEF Ids
<1>4. \A w \in Writer : in[w] = <<>> /\ file[w] = Nil /\ InFile(w) = {}
  BY DEF CdrInit, InFile
<1>5. InFinals = {} /\ InLeft = {} /\ dropped = {} /\ lost = {} /\ late = {} /\ \A e \in Emitter : emit[e].at = "idle"
  BY DEF CdrInit, InFinals, InLeft, In, Free
<1>6. Owned
  BY <1>3, <1>4, <1>5 DEF Owned
<1>7. Kept
  BY <1>4, <1>5 DEF Kept, Distinct, FinalsOK, CdrInit
<1> QED
  BY <1>1, <1>2, <1>6, <1>7 DEF CdrInv

\* A step that finishes no file and loses no event.
LEMMA FinalsKept ==
  ASSUME CdrTypes, FinalsOK, UNCHANGED <<finals, left, lost, closeErr>>, cdrFaults' \in Nat, cdrFaults' >= cdrFaults
  PROVE  FinalsOK'
<1>1. Reported => Reported'
  BY DEF CdrTypes, Reported
<1> QED
  BY <1>1 DEF FinalsOK

\* A step in which nobody returns from Emit and the loops do nothing.
LEMMA NothingMoves ==
  ASSUME CdrTypes, Owned, Kept,
         UNCHANGED <<in, file, finals, left, closeErr, dropped, lost, late, cdrFaults>>,
         \A e \in Emitter : emit'[e].at = "done" <=> emit[e].at = "done",
         \A e \in Emitter : emit[e].at = "done" => emit'[e].w = emit[e].w
  PROVE  Owned' /\ Kept'
<1>1. InFinals' = InFinals /\ InLeft' = InLeft /\ \A w : InFile(w)' = InFile(w)
  BY DEF InFinals, InLeft, In, InFile
<1>2. \A e \in Emitter : emit[e].at = "done" => Tally(e)' = Tally(e)
  BY <1>1 DEF Tally
<1>3. Owned'
  BY <1>1, <1>2 DEF Owned
<1>4. \A f : FileOK(f)' <=> FileOK(f)
  BY DEF FileOK
<1>5. \A e \in dropped : e \in Emitter /\ emit[e].at = "done"
  BY DEF Owned
<1>6. Kept'
  BY <1>4, <1>5 DEF Kept, FinalsOK, Reported
<1> QED
  BY <1>3, <1>6

\* The loop of a writer takes events from its queue and its file: A is what it puts
\* into a finished file, C into a file whose rename failed, B what it loses.
Moves(w, A, B, C) ==
  /\ emit' = emit /\ dropped' = dropped /\ late' = late
  /\ \A v \in Writer \ {w} : in'[v] = in[v] /\ file'[v] = file[v]
  /\ InFinals' = InFinals \cup A /\ InLeft' = InLeft \cup C /\ lost' = lost \cup B
  /\ (Ids(in[w]) \cup InFile(w))' \cup A \cup B \cup C = Ids(in[w]) \cup InFile(w)
  /\ (Ids(in[w]) \cap InFile(w))' = {} /\ (Ids(in[w]) \cup InFile(w))' \cap (A \cup B \cup C) = {}
  /\ A \cap B = {} /\ A \cap C = {} /\ B \cap C = {}

LEMMA EventsMove ==
  ASSUME CdrTypes, CdrLife, Owned, NEW w \in Writer, NEW A, NEW B, NEW C, Moves(w, A, B, C)
  PROVE  Owned'
<1> USE DEF Moves
<1>1. \A v \in Writer \ {w} : Ids(in[v])' = Ids(in[v]) /\ InFile(v)' = InFile(v)
  BY DEF InFile
<1>2. \A v \in Writer : (Ids(in[v]) \cup InFile(v))' \subseteq Ids(in[v]) \cup InFile(v)
  BY <1>1
<1>3. A \cup B \cup C \subseteq Ids(in[w]) \cup InFile(w)
  OBVIOUS
<1>4. ASSUME NEW e \in Emitter, emit[e].at = "done", emit[e].w = w, Tally(e) = 1 PROVE Tally(e)' = 1
  <2> DEFINE q == e \in Ids(in[w])
             f == e \in InFile(w)
             n == e \in InFinals
             m == e \in InLeft
             l == e \in lost
  <2>1. Tally(e) = One(q) + One(f) + One(n) + One(m) + One(e \in dropped) + One(l) + One(e \in late)
    BY <1>4 DEF Tally
  <2>2. Tally(e)' = One(q') + One(f') + One(n \/ e \in A) + One(m \/ e \in C) + One(e \in dropped)
                      + One(l \/ e \in B) + One(e \in late)
    BY <1>4 DEF Tally
  <2>3. /\ q \/ f <=> (q \/ f)' \/ e \in A \/ e \in B \/ e \in C
        /\ ~(q /\ f)' /\ ~((q \/ f)' /\ (e \in A \/ e \in B \/ e \in C))
        /\ ~(e \in A /\ e \in B) /\ ~(e \in A /\ e \in C) /\ ~(e \in B /\ e \in C)
    OBVIOUS
  <2> HIDE DEF q, f, n, m, l
  <2> QED
    BY <1>4, <2>1, <2>2, <2>3 DEF One
<1>5. ASSUME NEW e \in Emitter, emit[e].at = "done", emit[e].w # w, Tally(e) = 1 PROVE Tally(e)' = 1
  <2>1. e \notin A /\ e \notin B /\ e \notin C
    BY <1>3, <1>5 DEF Owned
  <2>2. Ids(in[emit[e].w])' = Ids(in[emit[e].w]) /\ InFile(emit[e].w)' = InFile(emit[e].w)
    BY <1>1, <1>5 DEF CdrLife, EmitOK
  <2> QED
    BY <1>5, <2>1, <2>2 DEF Tally
<1>6. \A e \in Emitter : emit'[e].at = "done" => Tally(e)' = 1
  BY <1>4, <1>5 DEF Owned
<1>7. \A v \in Writer : \A e \in (Ids(in[v]) \cup InFile(v))' : e \in Emitter /\ emit'[e].at = "done" /\ emit'[e].w = v
  BY <1>2 DEF Owned
<1>8. \A e \in (InFinals \cup InLeft \cup dropped \cup lost \cup late)' : e \in Emitter /\ emit'[e].at = "done"
  BY <1>3 DEF Owned
<1> QED
  BY <1>6, <1>7, <1>8 DEF Owned

LEMMA EmitMoves ==
  ASSUME emit \in Emits, NEW e \in Emitter, NEW p \in Stages, NEW n \in Nat,
         emit' = [emit EXCEPT ![e].at = p] \/ emit' = [emit EXCEPT ![e].at = p, ![e].seq = n]
  PROVE  /\ emit' \in Emits /\ emit'[e].at = p /\ emit'[e].w = emit[e].w
         /\ \A d \in Emitter : d # e => emit'[d] = emit[d]
<1>1. CASE emit' = [emit EXCEPT ![e].at = p]
  BY <1>1 DEF Emits
<1>2. CASE emit' = [emit EXCEPT ![e].at = p, ![e].seq = n]
  BY <1>2 DEF Emits
<1> QED
  BY <1>1, <1>2

LEMMA EmitSteps ==
  ASSUME CdrInv, NEW e \in Emitter, LoadSink(e) \/ NextSeq(e)
  PROVE  CdrInv'
<1> USE CdrAssumption DEF CdrInv
<1>1. UNCHANGED <<sink, in, closed, close, loop, file, finals, left, closeErr, dropped, lost, late, panic, cdrFaults>>
  BY DEF LoadSink, NextSeq
<1>2. CdrTypes'
  <2>1. CASE LoadSink(e)
    BY <1>1, <2>1 DEF LoadSink, CdrTypes, Emits, Free, Stages
  <2>2. CASE NextSeq(e)
    <3>1. emit[e].w \in Writer
      BY <2>2 DEF NextSeq, CdrLife, EmitOK
    <3>2. cdrSeq' \in [Writer -> Nat] /\ cdrSeq'[emit[e].w] \in Nat
      BY <2>2, <3>1 DEF NextSeq, CdrTypes
    <3>3. emit' \in Emits
      BY <2>2, <3>2, EmitMoves DEF NextSeq, CdrTypes, Stages
    <3> QED
      BY <1>1, <3>2, <3>3 DEF CdrTypes
  <2> QED
    BY <2>1, <2>2
<1>3. /\ \A d \in Emitter : d # e => emit'[d] = emit[d]
      /\ emit[e].at # "done" /\ emit'[e].at \in {"loaded", "send"}
      /\ emit'[e].at = "loaded" => emit'[e].w = sink
      /\ emit'[e].at = "send" => emit'[e].w = emit[e].w /\ emit[e].at = "locked"
  <2>1. CASE LoadSink(e)
    BY <2>1 DEF LoadSink, CdrTypes, Emits, Free
  <2>2. CASE NextSeq(e)
    <3>1. emit[e].w \in Writer
      BY <2>2 DEF NextSeq, CdrLife, EmitOK
    <3>2. cdrSeq'[emit[e].w] \in Nat
      BY <2>2, <3>1 DEF NextSeq, CdrTypes
    <3> QED
      BY <2>2, <3>2, EmitMoves DEF NextSeq, CdrTypes, Stages
  <2> QED
    BY <2>1, <2>2
<1>4. CdrLife'
  <2>1. ASSUME NEW d \in Emitter PROVE EmitOK(d)'
    <3>1. Started(sink) /\ sink \in Writer /\ EmitOK(d) /\ \A v : Started(v)' <=> Started(v)
      BY <1>1 DEF CdrLife, Started, CdrTypes
    <3> QED
      BY <1>1, <1>3, <3>1 DEF EmitOK
  <2> QED
    BY <1>1, <2>1 DEF CdrLife, WriterOK, Started
<1> QED
  BY <1>1, <1>2, <1>3, <1>4, NothingMoves

\* An event for a closed writer is given up.
LEMMA RLockStep ==
  ASSUME CdrInv, NEW e \in Emitter, RLock(e)
  PROVE  CdrInv'
<1> USE CdrAssumption DEF CdrInv
<1>1. /\ UNCHANGED <<sink, cdrSeq, in, closed, close, loop, file, finals, left, closeErr, dropped, lost, panic, cdrFaults>>
      /\ emit[e].at = "loaded" /\ emit[e].w \in Writer
  BY DEF RLock, CdrLife, EmitOK
<1>2. /\ \A d \in Emitter : emit'[d].w = emit[d].w /\ (d # e => emit'[d].at = emit[d].at)
      /\ \/ emit'[e].at = "done" /\ late' = late \cup {e}
         \/ emit'[e].at = "locked" /\ ~closed[emit[e].w] /\ late' = late
      /\ emit' \in Emits
  BY EmitMoves DEF RLock, CdrTypes, Stages
<1>3. CdrTypes'
  BY <1>1, <1>2 DEF CdrTypes
<1>4. CdrLife'
  <2>1. ASSUME NEW d \in Emitter PROVE EmitOK(d)'
    BY <1>1, <1>2 DEF CdrLife, EmitOK, Started
  <2> QED
    BY <1>1, <2>1 DEF CdrLife, WriterOK, Started
<1>5. CASE late' = late /\ emit'[e].at = "locked"
  BY <1>1, <1>2, <1>3, <1>4, <1>5, NothingMoves
<1>6. CASE emit'[e].at = "done" /\ late' = late \cup {e}
  <2>1. InFinals' = InFinals /\ InLeft' = InLeft /\ \A w : InFile(w)' = InFile(w)
    BY <1>1 DEF InFinals, InLeft, In, InFile
  <2>2. \A d \in Emitter : d # e /\ emit[d].at = "done" => Tally(d)' = Tally(d)
    BY <1>1, <1>2, <1>6, <2>1 DEF Tally
  <2>3. /\ e \notin Ids(in[emit[e].w]) /\ e \notin InFile(emit[e].w) /\ e \notin InFinals /\ e \notin InLeft
        /\ e \notin dropped /\ e \notin lost
    BY <1>1 DEF Owned
  <2>4. Tally(e)' = 1
    BY <1>1, <1>2, <1>6, <2>1, <2>3 DEF Tally, One
  <2>5. Owned'
    BY <1>1, <1>2, <1>6, <2>1, <2>2, <2>4 DEF Owned
  <2>6. \A f : FileOK(f)' <=> FileOK(f)
    BY <1>1 DEF FileOK
  <2>7. Kept'
    BY <1>1, <1>2, <2>6 DEF Kept, FinalsOK, Reported, Owned
  <2> QED
    BY <1>3, <1>4, <2>5, <2>7
<1> QED
  BY <1>2, <1>5, <1>6

\* An event is queued, or dropped by a writer that does not wait.
LEMMA SendStep ==
  ASSUME CdrInv, NEW e \in Emitter, Send(e)
  PROVE  CdrInv'
<1> USE CdrAssumption DEF CdrInv
<1>1. PICK w \in Writer : w = emit[e].w /\ ~closed[w] /\ emit[e].at = "send"
  BY DEF Send, CdrLife, EmitOK
<1>2. /\ UNCHANGED <<sink, cdrSeq, closed, close, loop, file, finals, left, closeErr, lost, late, cdrFaults>>
      /\ panic' = (panic \/ closed[w])
  BY <1>1 DEF Send
<1>3. \A d \in Emitter : emit'[d].w = emit[d].w /\ (d # e => emit'[d].at = emit[d].at) /\ emit'[e].at = "done"
  BY EmitMoves DEF Send, CdrTypes, Stages
<1>4. PICK r \in Event : r = [id |-> e, seq |-> emit[e].seq]
  BY DEF Event, CdrTypes, Emits
<1>5. \/ dropped' = dropped /\ in' = [in EXCEPT ![w] = Append(@, r)]
      \/ OnFull[w] = "drop" /\ dropped' = dropped \cup {e} /\ in' = in
  BY <1>1, <1>4 DEF Send
<1>6. /\ e \notin Ids(in[w]) /\ e \notin InFile(w) /\ e \notin InFinals /\ e \notin InLeft
      /\ e \notin dropped /\ e \notin lost /\ e \notin late
  BY <1>1 DEF Owned
<1>7. /\ Append(in[w], r) \in Seq(Event) /\ Ids(Append(in[w], r)) = Ids(in[w]) \cup {e}
      /\ Distinct(Append(in[w], r))
  <2>1. in[w] \in Seq(Event) /\ r.id = e /\ Distinct(in[w])
    BY <1>4 DEF CdrTypes, Kept
  <2> QED
    BY <1>6, <2>1, IdsAppend
<1>8. CdrTypes'
  <2>1. in' \in [Writer -> Seq(Event)]
    BY <1>5, <1>7 DEF CdrTypes
  <2>2. emit' \in Emits
    BY EmitMoves DEF Send, CdrTypes, Stages
  <2> QED
    BY <1>2, <2>1, <2>2 DEF CdrTypes
<1>9. CdrLife'
  <2>1. ASSUME NEW d \in Emitter PROVE EmitOK(d)'
    BY <1>1, <1>2, <1>3 DEF CdrLife, EmitOK, Started
  <2>2. loop[w]
    BY <1>1 DEF CdrLife, EmitOK, WriterOK, Started
  <2>3. ASSUME NEW v \in Writer PROVE WriterOK(v)'
    <3>1. v # w => in'[v] = in[v]
      BY <1>5 DEF CdrTypes
    <3> QED
      BY <1>2, <2>2, <3>1 DEF CdrLife, WriterOK
  <2>4. panic' = FALSE
    BY <1>1, <1>2 DEF CdrLife
  <2> QED
    BY <1>2, <2>1, <2>3, <2>4 DEF CdrLife, Started
<1>10. InFinals' = InFinals /\ InLeft' = InLeft /\ \A v : InFile(v)' = InFile(v)
  BY <1>2 DEF InFinals, InLeft, In, InFile
<1>11. \A v \in Writer : /\ v # w => in'[v] = in[v]
                        /\ Distinct(in'[v])
                        /\ Ids(in'[v]) \subseteq Ids(in[v]) \cup {e}
                        /\ Ids(in'[v]) \ {e} = Ids(in[v]) \ {e}
  BY <1>5, <1>7 DEF CdrTypes, Kept
<1>12. Tally(e)' = 1
  <2>1. One((e \in Ids(in[w]))') + One((e \in dropped)') = 1
    <3>1. (e \in Ids(in[w]))' <=> e \notin dropped'
      BY <1>5, <1>6, <1>7 DEF CdrTypes
    <3> QED
      BY <3>1 DEF One
  <2>2. Tally(e)' = One((e \in Ids(in[w]))') + 0 + 0 + 0 + One((e \in dropped)') + 0 + 0
    BY <1>1, <1>2, <1>3, <1>6, <1>10 DEF Tally, One
  <2> HIDE DEF One
  <2>3. One((e \in Ids(in[w]))') \in Int /\ One((e \in dropped)') \in Int
    BY DEF One
  <2> QED
    BY <2>1, <2>2, <2>3
<1>13. \A d \in Emitter : d # e /\ emit[d].at = "done" => Tally(d)' = Tally(d)
  <2> SUFFICES ASSUME NEW d \in Emitter, d # e, emit[d].at = "done" PROVE Tally(d)' = Tally(d)
    OBVIOUS
  <2>1. emit[d].w \in Writer /\ emit'[d].w = emit[d].w
    BY <1>3 DEF CdrLife, EmitOK
  <2>2. (d \in Ids(in[emit[d].w]))' <=> d \in Ids(in[emit[d].w])
    BY <1>11, <2>1
  <2>3. d \in dropped' <=> d \in dropped
    BY <1>5
  <2> QED
    BY <1>2, <1>10, <2>1, <2>2, <2>3 DEF Tally
<1>14. Owned'
  <2>1. ASSUME NEW v \in Writer, NEW d \in (Ids(in[v]) \cup InFile(v))'
        PROVE  d \in Emitter /\ emit'[d].at = "done" /\ emit'[d].w = v
    BY <1>1, <1>3, <1>10, <1>11 DEF Owned
  <2>2. ASSUME NEW d \in (InFinals \cup InLeft \cup dropped \cup lost \cup late)' PROVE d \in Emitter /\ emit'[d].at = "done"
    BY <1>2, <1>3, <1>5, <1>10 DEF Owned
  <2> QED
    BY <1>3, <1>12, <1>13, <2>1, <2>2 DEF Owned
<1>15. Kept'
  <2>1. \A f : FileOK(f)' <=> FileOK(f)
    BY <1>2 DEF FileOK
  <2>2. \A d \in dropped' : OnFull[emit'[d].w] = "drop"
    BY <1>1, <1>3, <1>5 DEF Kept, Owned
  <2> QED
    BY <1>2, <1>11, <2>1, <2>2 DEF Kept, FinalsOK, Reported
<1> QED
  BY <1>8, <1>9, <1>14, <1>15

\* A reload or a shutdown, and the steps of Close.
LEMMA CloseSteps ==
  ASSUME CdrInv, NEW w \in Writer,
         Reload(w) \/ Shutdown \/ WantLock(w) \/ CloseIn(w) \/ AwaitDone(w)
  PROVE  CdrInv'
<1> USE CdrAssumption DEF CdrInv
<1>1. UNCHANGED <<emit, cdrSeq, in, file, finals, left, closeErr, dropped, lost, late, panic, cdrFaults>>
  BY DEF Reload, Shutdown, WantLock, CloseIn, AwaitDone
<1>2. Owned' /\ Kept'
  BY <1>1, NothingMoves
<1>3. sink \in Writer /\ Started(sink) /\ \A v \in Writer : WriterOK(v)
  BY DEF CdrTypes, CdrLife
<1>4. CdrTypes'
  BY <1>1 DEF CdrTypes, Reload, Shutdown, WantLock, CloseIn, AwaitDone
<1>5. \A v \in Writer : Started(v) => Started(v)'
  BY DEF CdrTypes, Started, Reload, Shutdown, WantLock, CloseIn, AwaitDone
<1>6. Started(sink)'
  BY <1>3, <1>5 DEF CdrTypes, Started, Reload, Shutdown, WantLock, CloseIn, AwaitDone
<1>7. \A v \in Writer : closed'[v] => closed[v] \/ (v = w /\ Holds(w) = {})
  BY DEF CdrTypes, Reload, Shutdown, WantLock, CloseIn, AwaitDone
<1>8. ASSUME NEW e \in Emitter PROVE EmitOK(e)'
  BY <1>1, <1>5, <1>7 DEF CdrLife, EmitOK, Holds
<1>9. ASSUME NEW v \in Writer PROVE WriterOK(v)'
  <2>1. WriterOK(v)
    BY <1>3
  <2>2. CASE Reload(w)
    <3>1. w # sink
      BY <1>3, <2>2 DEF Started, Reload
    <3> QED
      <4>1. /\ closed' = closed /\ loop' = [loop EXCEPT ![w] = TRUE]
            /\ close' = [close EXCEPT ![sink] = "start"] /\ close[sink] = "none" /\ close[w] = "none"
        BY <2>2 DEF Reload
      <4>2. loop[sink]
        BY <1>3, <4>1 DEF Started
      <4>3. loop'[v] = (v = w \/ loop[v]) /\ close'[v] = IF v = sink THEN "start" ELSE close[v]
        BY <4>1 DEF CdrTypes
      <4> QED
        BY <1>1, <2>1, <3>1, <4>1, <4>2, <4>3 DEF WriterOK
  <2>3. CASE Shutdown
    BY <1>1, <1>3, <2>1, <2>3 DEF CdrTypes, WriterOK, Shutdown, Started
  <2>4. CASE WantLock(w)
    BY <1>1, <2>1, <2>4 DEF CdrTypes, WriterOK, WantLock
  <2>5. CASE CloseIn(w)
    BY <1>1, <2>1, <2>5 DEF CdrTypes, WriterOK, CloseIn
  <2>6. CASE AwaitDone(w)
    BY <1>1, <2>1, <2>6 DEF CdrTypes, WriterOK, AwaitDone
  <2> QED
    BY <2>2, <2>3, <2>4, <2>5, <2>6
<1> QED
  BY <1>1, <1>2, <1>4, <1>6, <1>8, <1>9 DEF CdrLife

\* A file is flushed: what has been written is safe, or the file is bad.
LEMMA FlushedFile ==
  ASSUME NEW f \in CdrFile, Sound(f), NEW n \in {0, 1}
  PROVE  /\ Flushed(f, n) \in CdrFile /\ Sound(Flushed(f, n))
         /\ Flushed(f, n).recs = f.recs /\ Flushed(f, n).count = f.count
         /\ Flushed(f, n).bad <=> (f.bad \/ n = 1)
         /\ ~Flushed(f, n).bad => Flushed(f, n).safe = Len(f.recs)
<1>1. f.recs \in Seq(Event) /\ Len(f.recs) \in Nat /\ f.bad \in BOOLEAN
  BY DEF CdrFile
<1>2. CASE f.bad \/ n = 1
  <2>1. Flushed(f, n) = [f EXCEPT !.bad = TRUE]
    BY <1>2 DEF Flushed
  <2> QED
    BY <1>1, <1>2, <2>1 DEF CdrFile, Sound
<1>3. CASE ~(f.bad \/ n = 1)
  <2>1. Flushed(f, n) = [f EXCEPT !.safe = Len(f.recs)]
    BY <1>3 DEF Flushed
  <2> QED
    BY <1>1, <1>3, <2>1 DEF CdrFile, Sound
<1> QED
  BY <1>2, <1>3

\* The events R go to finished files (A), to files whose rename failed (C) or are
\* lost (B).
Parted(R) ==
  \E A, B, C : /\ InFinals' = InFinals \cup A /\ InLeft' = InLeft \cup C /\ lost' = lost \cup B
               /\ A \cup B \cup C = R /\ A \cap B = {} /\ A \cap C = {} /\ B \cap C = {}

\* A file is finished.
LEMMA Finishes ==
  ASSUME CdrTypes, FinalsOK, NEW w \in Writer, NEW f \in CdrFile, Sound(f), NEW F \in SUBSET FileCall,
         Finish(w, f, F), cdrFaults' = cdrFaults + Faults(F), f.bad => cdrFaults > 0
  PROVE  /\ finals' \in SUBSET Closed /\ left' \in SUBSET Closed /\ FinalsOK'
         /\ closeErr' \in [Writer -> BOOLEAN] /\ file' = [file EXCEPT ![w] = Nil]
         /\ Parted(Ids(f.recs))
<1>0. PICK n \in {0, 1} : n = IF "flush" \in F THEN 1 ELSE 0
  OBVIOUS
<1>1. PICK g \in CdrFile : /\ g = Flushed(f, n) /\ Sound(g) /\ g.recs = f.recs /\ (g.bad <=> (f.bad \/ n = 1))
                           /\ ~g.bad => g.safe = Len(g.recs)
  BY FlushedFile
<1>2. PICK N : N = IF g.count > 0 THEN {FinalOf(g)} ELSE {}
  OBVIOUS
<1>3. /\ finals' = IF "rename" \in F THEN finals ELSE finals \cup N
      /\ left' = IF "rename" \in F THEN left \cup N ELSE left
      /\ lost' = lost \cup {g.recs[i].id : i \in g.safe + 1 .. Len(g.recs)}
      /\ closeErr' = [closeErr EXCEPT ![w] = @ \/ g.bad \/ F # {}]
      /\ file' = [file EXCEPT ![w] = Nil]
  BY <1>0, <1>1, <1>2 DEF Finish
<1>4. PICK B, D : /\ B = {g.recs[i].id : i \in g.safe + 1 .. Len(g.recs)}
                  /\ D = Ids(SubSeq(g.recs, 1, g.safe))
  OBVIOUS
<1>5. /\ g.recs \in Seq(Event) /\ g.safe \in Nat /\ g.count \in Nat /\ g.safe <= Len(g.recs)
      /\ g.count = Len(g.recs) /\ g.count <= MaxRecords /\ Distinct(g.recs) /\ g.bad \in BOOLEAN
  BY <1>1 DEF CdrFile, Sound
<1>6. /\ SubSeq(g.recs, 1, g.safe) \in Seq(Event) /\ Len(SubSeq(g.recs, 1, g.safe)) = g.safe
      /\ D \cup B = Ids(g.recs) /\ D \cap B = {}
  BY <1>4, <1>5, IdsSplit
<1>7. FinalOf(g) = [recs |-> SubSeq(g.recs, 1, g.safe), count |-> g.count]
  BY DEF FinalOf
<1>8. finals' \in SUBSET Closed /\ left' \in SUBSET Closed
  <2>1. FinalOf(g) \in Closed
    BY <1>5, <1>6, <1>7 DEF Closed
  <2> QED
    BY <1>2, <1>3, <2>1 DEF CdrTypes
<1>9. /\ closeErr' \in [Writer -> BOOLEAN]
      /\ g.bad \/ F # {} => closeErr'[w]
      /\ \A v \in Writer : closeErr[v] => closeErr'[v]
  BY <1>3, <1>5 DEF CdrTypes
<1>10. FinalsOK'
  <2>1. \A h \in N : h.count = g.count /\ Len(h.recs) = g.safe
    BY <1>2, <1>6, <1>7
  <2>2. \A h \in finals' : h \in finals \/ h \in N
    BY <1>3
  <2>3. \A h \in finals' : h.count <= MaxRecords
    BY <1>5, <2>1, <2>2 DEF FinalsOK
  <2>4. cdrFaults \in Nat /\ cdrFaults' >= cdrFaults /\ (F # {} => cdrFaults' > 0) /\ cdrFaults' \in Nat
    BY DEF CdrTypes, Faults
  <2>5. CASE Reported
    <3>1. Reported'
      BY <1>9, <2>4, <2>5 DEF Reported
    <3> QED
      BY <2>3, <3>1 DEF FinalsOK
  <2>6. CASE g.bad \/ F # {}
    <3>1. g.bad => cdrFaults > 0 \/ F # {}
      BY <1>0, <1>1
    <3>2. Reported'
      BY <1>9, <2>4, <2>6, <3>1 DEF Reported
    <3> QED
      BY <2>3, <3>2 DEF FinalsOK
  <2>7. CASE ~Reported /\ ~g.bad /\ F = {}
    <3>1. lost = {} /\ left = {} /\ \A h \in finals : Len(h.recs) = h.count
      BY <2>7 DEF FinalsOK
    <3>2. g.safe = g.count /\ {g.recs[i].id : i \in g.safe + 1 .. Len(g.recs)} = {}
      BY <1>1, <1>5, <2>7
    <3>3. lost' = {} /\ left' = {}
      BY <1>3, <2>7, <3>1, <3>2
    <3>4. \A h \in finals' : Len(h.recs) = h.count
      BY <2>1, <2>2, <3>1, <3>2
    <3> QED
      BY <2>3, <3>3, <3>4 DEF FinalsOK
  <2> QED
    BY <2>5, <2>6, <2>7
<1>11. In(N) = D
  <2>1. CASE g.count > 0
    <3>1. N = {FinalOf(g)} /\ Ids(FinalOf(g).recs) = D
      BY <1>2, <1>4, <1>7, <2>1
    <3> QED
      BY <3>1 DEF In
  <2>2. CASE ~(g.count > 0)
    <3>1. Len(g.recs) = 0 /\ Ids(g.recs) = {} /\ N = {}
      BY <1>2, <1>5, <2>2 DEF Ids
    <3> QED
      BY <1>6, <3>1 DEF In
  <2> QED
    BY <2>1, <2>2
<1>12. \A S : In(S \cup N) = In(S) \cup D
  BY <1>11 DEF In
<1>13. lost' = lost \cup B /\ D \cup B = Ids(f.recs)
  BY <1>1, <1>3, <1>4, <1>6
<1>14. Parted(Ids(f.recs))
  <2>1. CASE "rename" \in F
    <3>1. PICK A : A = {}
      OBVIOUS
    <3>2. /\ InFinals' = InFinals \cup A /\ InLeft' = InLeft \cup D
          /\ A \cup B \cup D = Ids(f.recs) /\ A \cap B = {} /\ A \cap D = {} /\ B \cap D = {}
      BY <1>3, <1>6, <1>12, <1>13, <2>1, <3>1 DEF InFinals, InLeft
    <3> QED
      BY <1>13, <3>2, Zenon DEF Parted
  <2>2. CASE "rename" \notin F
    <3>1. PICK C : C = {}
      OBVIOUS
    <3>2. /\ InFinals' = InFinals \cup D /\ InLeft' = InLeft \cup C
          /\ D \cup B \cup C = Ids(f.recs) /\ D \cap B = {} /\ D \cap C = {} /\ B \cap C = {}
      BY <1>3, <1>6, <1>12, <1>13, <2>2, <3>1 DEF InFinals, InLeft
    <3> QED
      BY <1>13, <3>2, Zenon DEF Parted
  <2> QED
    BY <2>1, <2>2
<1> QED
  BY <1>3, <1>8, <1>9, <1>10, <1>14

\* A step of the loop of w leaves the emitters and the other writers alone.
LEMMA LoopLife ==
  ASSUME CdrTypes, CdrLife, NEW w \in Writer, loop[w],
         UNCHANGED <<sink, emit, closed, close, panic>>,
         \A v \in Writer \ {w} : in'[v] = in[v] /\ file'[v] = file[v],
         \/ loop' = loop
         \/ loop' = [loop EXCEPT ![w] = FALSE] /\ closed[w] /\ in'[w] = <<>> /\ file'[w] = Nil
  PROVE  CdrLife'
<1>1. \A v \in Writer : Started(v) => Started(v)'
  BY DEF CdrTypes, CdrLife, Started, WriterOK
<1>2. ASSUME NEW v \in Writer PROVE WriterOK(v)'
  BY DEF CdrTypes, CdrLife, WriterOK
<1>3. ASSUME NEW e \in Emitter PROVE EmitOK(e)'
  BY <1>1 DEF CdrLife, EmitOK
<1> QED
  BY <1>1, <1>2, <1>3 DEF CdrTypes, CdrLife

\* The file of a writer is finished because of its age or because the loop ends.
LEMMA FinishStep ==
  ASSUME CdrInv, NEW w \in Writer, file[w] # Nil, NEW F \in SUBSET FileCall, Finish(w, file[w], F),
         cdrFaults' = cdrFaults + Faults(F), UNCHANGED <<sink, emit, cdrSeq, in, closed, close, dropped, late, panic>>,
         loop' \in [Writer -> BOOLEAN], CdrLife'
  PROVE  CdrInv'
<1> USE CdrAssumption DEF CdrInv
<1>1. PICK f \in CdrFile : f = file[w] /\ Sound(f) /\ (f.bad => cdrFaults > 0)
  BY DEF CdrTypes, Kept, FileOK
<1>0. Finish(w, f, F) /\ FinalsOK /\ CdrTypes
  BY <1>1 DEF Kept
<1>2. PICK A, B, C : /\ InFinals' = InFinals \cup A /\ InLeft' = InLeft \cup C /\ lost' = lost \cup B
                     /\ A \cup B \cup C = Ids(f.recs) /\ A \cap B = {} /\ A \cap C = {} /\ B \cap C = {}
  <2>1. Parted(Ids(f.recs))
    BY <1>0, <1>1, Finishes
  <2> QED
    BY <2>1 DEF Parted
<1>3. /\ finals' \in SUBSET Closed /\ left' \in SUBSET Closed /\ FinalsOK'
      /\ closeErr' \in [Writer -> BOOLEAN] /\ file' = [file EXCEPT ![w] = Nil]
  BY <1>0, <1>1, Finishes
<1>4. cdrFaults \in Nat /\ cdrFaults' \in Nat /\ cdrFaults' >= cdrFaults
  BY DEF CdrTypes, Faults
<1>5. CdrTypes'
  BY <1>3, <1>4 DEF CdrTypes
<1>6. file'[w] = Nil /\ \A v \in Writer \ {w} : file'[v] = file[v]
  BY <1>3 DEF CdrTypes
<1>7. InFile(w) = Ids(f.recs) /\ InFile(w)' = {}
  BY <1>1, <1>6 DEF InFile
<1>8. Ids(in[w]) \cap InFile(w) = {}
  <2> SUFFICES ASSUME NEW e \in Ids(in[w]), e \in InFile(w) PROVE FALSE
    OBVIOUS
  <2>1. e \in Emitter /\ emit[e].w = w /\ Tally(e) = 1
    BY DEF Owned
  <2> QED
    BY <2>1 DEF Tally, One
<1>9. Owned'
  <2>1. Moves(w, A, B, C)
    BY <1>2, <1>6, <1>7, <1>8 DEF Moves
  <2> QED
    BY <2>1, EventsMove
<1>10. Kept'
  BY <1>3, <1>4, <1>6 DEF Kept, FileOK
<1> QED
  BY <1>5, <1>9, <1>10

LEMMA AgeStep ==
  ASSUME CdrInv, NEW w \in Writer, Age(w)
  PROVE  CdrInv'
<1>1. PICK F \in SUBSET FileCall : cdrFaults' = cdrFaults + Faults(F) /\ Finish(w, file[w], F)
  BY DEF Age
<1>2. UNCHANGED <<sink, emit, cdrSeq, in, closed, close, loop, dropped, late, panic>> /\ loop[w] /\ file[w] # Nil
  BY DEF Age
<1>3. \A v \in Writer \ {w} : file'[v] = file[v]
  BY <1>1 DEF Finish, CdrInv, CdrTypes
<1>4. CdrLife'
  BY <1>2, <1>3, LoopLife DEF CdrInv
<1> QED
  BY <1>1, <1>2, <1>4, FinishStep DEF CdrInv, CdrTypes

LEMMA EndLoopStep ==
  ASSUME CdrInv, NEW w \in Writer, EndLoop(w)
  PROVE  CdrInv'
<1>1. /\ UNCHANGED <<sink, emit, cdrSeq, in, closed, close, dropped, late, panic>>
      /\ loop[w] /\ closed[w] /\ in[w] = <<>> /\ loop' = [loop EXCEPT ![w] = FALSE]
  BY DEF EndLoop
<1>2. loop' \in [Writer -> BOOLEAN]
  BY <1>1 DEF CdrInv, CdrTypes
<1>3. CASE file[w] = Nil
  <2>1. UNCHANGED <<file, finals, left, lost, closeErr>> /\ cdrFaults' = cdrFaults
    BY <1>3 DEF EndLoop, CdrInv, CdrTypes
  <2>2. CdrLife'
    BY <1>1, <1>3, <2>1, LoopLife DEF CdrInv
  <2>3. CdrTypes'
    BY <1>1, <1>2, <2>1 DEF CdrInv, CdrTypes
  <2> QED
    BY <1>1, <2>1, <2>2, <2>3, NothingMoves DEF CdrInv
<1>4. CASE file[w] # Nil
  <2>1. PICK F \in SUBSET FileCall : cdrFaults' = cdrFaults + Faults(F) /\ Finish(w, file[w], F)
    BY <1>4 DEF EndLoop
  <2>2. file'[w] = Nil /\ \A v \in Writer \ {w} : file'[v] = file[v]
    BY <2>1 DEF Finish, CdrInv, CdrTypes
  <2>3. CdrLife'
    BY <1>1, <2>2, LoopLife DEF CdrInv
  <2> QED
    BY <1>1, <1>2, <1>4, <2>1, <2>3, FinishStep
<1> QED
  BY <1>3, <1>4

LEMMA SyncTickStep ==
  ASSUME CdrInv, NEW w \in Writer, SyncTick(w)
  PROVE  CdrInv'
<1> USE CdrAssumption DEF CdrInv
<1>1. PICK n \in {0, 1} : cdrFaults' = cdrFaults + n /\ file' = [file EXCEPT ![w] = Flushed(file[w], n)]
  BY DEF SyncTick
<1>2. /\ UNCHANGED <<sink, emit, cdrSeq, in, closed, close, loop, finals, left, closeErr, dropped, lost, late, panic>>
      /\ loop[w] /\ file[w] # Nil
  BY DEF SyncTick
<1>3. PICK f \in CdrFile : f = file[w] /\ FileOK(f) /\ Sound(f)
  BY <1>2 DEF CdrTypes, Kept, FileOK
<1>4. PICK g \in CdrFile : /\ g = Flushed(f, n) /\ Sound(g) /\ g.recs = f.recs /\ g.count = f.count
                           /\ g.bad <=> (f.bad \/ n = 1)
  BY <1>3, FlushedFile
<1>5. cdrFaults \in Nat /\ cdrFaults' \in Nat /\ cdrFaults' >= cdrFaults /\ (n = 1 => cdrFaults' > 0)
  BY <1>1 DEF CdrTypes
<1>6. file' \in [Writer -> CdrFile \cup {Nil}] /\ file'[w] = g /\ \A v \in Writer \ {w} : file'[v] = file[v]
  BY <1>1, <1>3, <1>4 DEF CdrTypes
<1>7. CdrTypes'
  BY <1>2, <1>5, <1>6 DEF CdrTypes
<1>8. CdrLife'
  BY <1>2, <1>6, LoopLife
<1>9. g # Nil /\ InFile(w) = Ids(f.recs) /\ InFile(w)' = Ids(g.recs)
  BY <1>2, <1>3, <1>6 DEF InFile
<1>10. InFinals' = InFinals /\ InLeft' = InLeft /\ \A v \in Writer : InFile(v)' = InFile(v)
  BY <1>2, <1>4, <1>6, <1>9 DEF InFinals, InLeft, In, InFile
<1>11. Owned'
  <2>1. ASSUME NEW e \in Emitter, emit[e].at = "done" PROVE Tally(e)' = Tally(e)
    <3>1. emit[e].w \in Writer
      BY <2>1 DEF CdrLife, EmitOK
    <3> QED
      BY <1>2, <1>10, <3>1 DEF Tally
  <2> QED
    BY <1>2, <1>10, <2>1 DEF Owned
<1>12. FileOK(g)'
  BY <1>3, <1>4, <1>5 DEF FileOK
<1>13. Kept'
  <2>1. ASSUME NEW v \in Writer, file'[v] # Nil PROVE FileOK(file[v])'
    BY <1>5, <1>6, <1>12, <2>1 DEF Kept, FileOK
  <2>2. FinalsOK'
    BY <1>2, <1>5, FinalsKept DEF Kept
  <2> QED
    BY <1>2, <2>1, <2>2 DEF Kept
<1> QED
  BY <1>7, <1>8, <1>11, <1>13

\* The loop takes an event and loses it, writes it, or writes it and finishes the
\* file.
LEMMA ReceiveStep ==
  ASSUME CdrInv, NEW w \in Writer, Receive(w)
  PROVE  CdrInv'
<1> USE CdrAssumption DEF CdrInv
<1>1. /\ UNCHANGED <<sink, emit, cdrSeq, closed, close, loop, dropped, late, panic>>
      /\ loop[w] /\ in[w] # <<>> /\ in' = [in EXCEPT ![w] = Tail(@)]
  BY DEF Receive
<1>2. in[w] \in Seq(Event) /\ Distinct(in[w])
  BY DEF CdrTypes, Kept
<1>3. PICK r \in Event, q \in Seq(Event) : /\ r = Head(in[w]) /\ q = Tail(in[w]) /\ r.id \in Ids(in[w])
                                          /\ Ids(q) = Ids(in[w]) \ {r.id} /\ Distinct(q)
  BY <1>1, <1>2, IdsTail, Zenon
<1>4. in' \in [Writer -> Seq(Event)] /\ in'[w] = q /\ \A v \in Writer \ {w} : in'[v] = in[v]
  BY <1>1, <1>3 DEF CdrTypes
<1>5. PICK f \in CdrFile : /\ f = IF file[w] = Nil THEN Empty ELSE file[w]
                           /\ FileOK(f) /\ Sound(f) /\ Ids(f.recs) = InFile(w)
  <2>1. CASE file[w] = Nil
    <3>1. /\ Empty \in CdrFile /\ Empty.recs = <<>> /\ Empty.safe = 0 /\ Empty.count = 0 /\ Empty.bad = FALSE
          /\ Ids(<<>>) = {} /\ Distinct(<<>>)
      BY DEF Empty, CdrFile, Ids, Distinct
    <3>2. FileOK(Empty) /\ Sound(Empty) /\ Ids(Empty.recs) = InFile(w)
      BY <2>1, <3>1 DEF FileOK, Sound, InFile
    <3> QED
      BY <2>1, <3>1, <3>2
  <2>2. CASE file[w] # Nil
    BY <2>2 DEF CdrTypes, Kept, FileOK, InFile
  <2> QED
    BY <2>1, <2>2
<1>6. Ids(in[w]) \cap InFile(w) = {}
  <2> SUFFICES ASSUME NEW e \in Ids(in[w]), e \in InFile(w) PROVE FALSE
    OBVIOUS
  <2>1. e \in Emitter /\ emit[e].w = w /\ Tally(e) = 1
    BY DEF Owned
  <2> QED
    BY <2>1 DEF Tally, One
<1>7. PICK g \in CdrFile : /\ g = [f EXCEPT !.recs = Append(@, r), !.count = @ + 1]
                           /\ g.safe <= Len(g.recs) /\ g.count = Len(g.recs) /\ g.count <= MaxRecords
                           /\ Distinct(g.recs) /\ Ids(g.recs) = InFile(w) \cup {r.id} /\ g.bad = f.bad
  <2>1. /\ f.recs \in Seq(Event) /\ f.count \in Nat /\ f.safe \in Nat /\ f.safe <= Len(f.recs)
        /\ f.count = Len(f.recs) /\ f.count < MaxRecords /\ Distinct(f.recs)
    BY <1>5 DEF CdrFile, FileOK, Sound
  <2>2. PICK t \in Seq(Event) : t = Append(f.recs, r) /\ Len(t) = Len(f.recs) + 1
                               /\ Ids(t) = InFile(w) \cup {r.id} /\ Distinct(t)
    <3>1. r.id \notin Ids(f.recs)
      BY <1>3, <1>5, <1>6
    <3> QED
      BY <1>5, <2>1, <3>1, IdsAppend, Zenon
  <2>3. PICK g : g = [f EXCEPT !.recs = Append(@, r), !.count = @ + 1]
    OBVIOUS
  <2>4. g.recs = t /\ g.count = f.count + 1 /\ g.safe = f.safe /\ g.bad = f.bad
    BY <2>2, <2>3 DEF CdrFile
  <2>5. g \in CdrFile
    <3>1. Append(f.recs, r) \in Seq(Event) /\ f.count + 1 \in Nat
      BY <2>1, <2>2
    <3> QED
      BY <2>3, <3>1 DEF CdrFile
  <2>6. g.safe <= Len(g.recs) /\ g.count = Len(g.recs) /\ g.count <= MaxRecords
    BY <2>1, <2>2, <2>4
  <2> QED
    BY <2>2, <2>3, <2>4, <2>5, <2>6
<1>8. Sound(g)
  BY <1>7 DEF Sound
<1>9. cdrFaults \in Nat
  BY DEF CdrTypes
\* The event is lost: no file could be opened, or the file is bad.
<1>10. CASE /\ file' = file /\ finals' = finals /\ left' = left /\ lost' = lost \cup {r.id} /\ closeErr' = [closeErr EXCEPT ![w] = TRUE]
            /\ cdrFaults' \in Nat /\ cdrFaults' >= cdrFaults /\ cdrFaults' > 0
  <2>1. closeErr' \in [Writer -> BOOLEAN] /\ closeErr'[w]
    BY <1>10 DEF CdrTypes
  <2>2. CdrTypes'
    BY <1>1, <1>4, <1>10, <2>1 DEF CdrTypes
  <2>3. CdrLife'
    BY <1>1, <1>4, <1>10, LoopLife
  <2>4. InFinals' = InFinals \cup {} /\ InLeft' = InLeft \cup {} /\ InFile(w)' = InFile(w)
    BY <1>10 DEF InFinals, InLeft, In, InFile
  <2>5. Ids(in[w])' = Ids(in[w]) \ {r.id}
    BY <1>3, <1>4
  <2>6. Owned'
    <3>1. PICK A, B : A = {} /\ B = {r.id}
      OBVIOUS
    <3>2. Moves(w, A, B, A)
      BY <1>1, <1>3, <1>4, <1>6, <1>10, <2>4, <2>5, <3>1 DEF Moves
    <3> QED
      BY <3>2, EventsMove
  <2>7. \A v \in Writer : Distinct(in'[v])
    BY <1>3, <1>4 DEF Kept
  <2>8. Reported'
    BY <1>10, <2>1 DEF Reported
  <2>9. FinalsOK'
    BY <1>10, <2>8 DEF Kept, FinalsOK
  <2>10. ASSUME NEW v \in Writer, file'[v] # Nil PROVE FileOK(file[v])'
    BY <1>9, <1>10, <2>10 DEF Kept, FileOK
  <2>11. Kept'
    BY <1>1, <2>7, <2>9, <2>10 DEF Kept
  <2> QED
    BY <2>2, <2>3, <2>6, <2>11
\* The event is written, and the file may be synced.
<1>11. ASSUME NEW n \in {0, 1}, NEW h \in CdrFile, h = g \/ h = Flushed(g, n), ~Full(g), f.bad = FALSE,
              cdrFaults' = cdrFaults + n, file' = [file EXCEPT ![w] = h], UNCHANGED <<finals, left, lost, closeErr>>
       PROVE  CdrInv'
  <2>1. h.recs = g.recs /\ h.count = g.count /\ Sound(h) /\ (h.bad => n = 1)
    <3>1. PICK k : k = Flushed(g, n)
      OBVIOUS
    <3>2. k.recs = g.recs /\ k.count = g.count /\ Sound(k) /\ (k.bad <=> (g.bad \/ n = 1))
      BY <1>8, <3>1, FlushedFile
    <3> QED
      BY <1>7, <1>8, <1>11, <3>1, <3>2
  <2>2. cdrFaults' \in Nat /\ cdrFaults' >= cdrFaults /\ (n = 1 => cdrFaults' > 0)
    BY <1>9, <1>11
  <2>3. file' \in [Writer -> CdrFile \cup {Nil}] /\ file'[w] = h /\ \A v \in Writer \ {w} : file'[v] = file[v]
    BY <1>11 DEF CdrTypes
  <2>4. CdrTypes'
    BY <1>1, <1>4, <1>11, <2>2, <2>3 DEF CdrTypes
  <2>5. CdrLife'
    BY <1>1, <1>4, <2>3, LoopLife
  <2>6. InFinals' = InFinals \cup {} /\ InLeft' = InLeft \cup {} /\ lost' = lost \cup {} /\ InFile(w)' = InFile(w) \cup {r.id}
    BY <1>7, <1>11, <2>1, <2>3 DEF InFinals, InLeft, In, InFile
  <2>7. Ids(in[w])' = Ids(in[w]) \ {r.id}
    BY <1>3, <1>4
  <2>8. Owned'
    <3>1. PICK A : A = {}
      OBVIOUS
    <3>2. Moves(w, A, A, A)
      BY <1>1, <1>3, <1>4, <1>6, <2>3, <2>6, <2>7, <3>1 DEF Moves
    <3> QED
      BY <3>2, EventsMove
  <2>9. FileOK(h)'
    <3>1. h.count < MaxRecords
      BY <1>7, <1>11, <2>1 DEF Full, CdrFile
    <3> QED
      BY <2>1, <2>2, <3>1 DEF FileOK
  <2>10. ASSUME NEW v \in Writer, file'[v] # Nil PROVE FileOK(file[v])'
    BY <1>9, <2>2, <2>3, <2>9, <2>10 DEF Kept, FileOK
  <2>11. \A v \in Writer : Distinct(in'[v])
    BY <1>3, <1>4 DEF Kept
  <2>12. FinalsOK'
    BY <1>11, <2>2, FinalsKept DEF Kept
  <2>13. Kept'
    BY <1>1, <2>10, <2>11, <2>12 DEF Kept
  <2> QED
    BY <2>4, <2>5, <2>8, <2>13
\* The event fills the file, which is finished.
<1>12. ASSUME NEW F \in SUBSET FileCall, cdrFaults' = cdrFaults + Faults(F), f.bad = FALSE, Finish(w, g, F)
       PROVE  CdrInv'
  <2>0. FinalsOK /\ (g.bad => cdrFaults > 0)
    BY <1>7, <1>12 DEF Kept
  <2>1. PICK A, B, C : /\ InFinals' = InFinals \cup A /\ InLeft' = InLeft \cup C /\ lost' = lost \cup B
                       /\ A \cup B \cup C = Ids(g.recs) /\ A \cap B = {} /\ A \cap C = {} /\ B \cap C = {}
    <3>1. Parted(Ids(g.recs))
      BY <1>8, <1>12, <2>0, Finishes
    <3> QED
      BY <3>1 DEF Parted
  <2>2. /\ finals' \in SUBSET Closed /\ left' \in SUBSET Closed /\ FinalsOK'
        /\ closeErr' \in [Writer -> BOOLEAN] /\ file' = [file EXCEPT ![w] = Nil]
    BY <1>8, <1>12, <2>0, Finishes
  <2>3. cdrFaults' \in Nat /\ cdrFaults' >= cdrFaults
    BY <1>9, <1>12 DEF Faults
  <2>4. file' \in [Writer -> CdrFile \cup {Nil}] /\ file'[w] = Nil /\ \A v \in Writer \ {w} : file'[v] = file[v]
    BY <2>2 DEF CdrTypes
  <2>5. CdrTypes'
    BY <1>1, <1>4, <2>2, <2>3, <2>4 DEF CdrTypes
  <2>6. CdrLife'
    BY <1>1, <1>4, <2>4, LoopLife
  <2>7. InFile(w)' = {} /\ Ids(in[w])' = Ids(in[w]) \ {r.id} /\ A \cup B \cup C = InFile(w) \cup {r.id}
    BY <1>3, <1>4, <1>7, <2>1, <2>4 DEF InFile
  <2>8. Owned'
    <3>1. Moves(w, A, B, C)
      BY <1>1, <1>3, <1>4, <1>6, <2>1, <2>4, <2>7 DEF Moves
    <3> QED
      BY <3>1, EventsMove
  <2>9. ASSUME NEW v \in Writer, file'[v] # Nil PROVE FileOK(file[v])'
    BY <1>9, <2>3, <2>4, <2>9 DEF Kept, FileOK
  <2>10. \A v \in Writer : Distinct(in'[v])
    BY <1>3, <1>4 DEF Kept
  <2>11. Kept'
    BY <1>1, <2>2, <2>9, <2>10 DEF Kept
  <2> QED
    BY <2>5, <2>6, <2>8, <2>11
<1>13. CASE file[w] = Nil /\ cdrFaults' = cdrFaults + 1 /\ lost' = lost \cup {r.id} /\ UNCHANGED <<file, finals, left>>
            /\ closeErr' = [closeErr EXCEPT ![w] = TRUE]
  <2>1. cdrFaults' \in Nat /\ cdrFaults' >= cdrFaults /\ cdrFaults' > 0
    BY <1>9, <1>13
  <2> QED
    BY <1>10, <1>13, <2>1, Zenon
<1>14. CASE f.bad /\ lost' = lost \cup {r.id} /\ UNCHANGED <<file, finals, left, cdrFaults>>
            /\ closeErr' = [closeErr EXCEPT ![w] = TRUE]
  <2>1. cdrFaults > 0
    BY <1>5, <1>14 DEF FileOK
  <2> QED
    BY <1>9, <1>10, <1>14, <2>1
<1>15. f.bad \in BOOLEAN
  BY DEF CdrFile
<1>16. ASSUME NEW F \in SUBSET FileCall, ~f.bad, cdrFaults' = cdrFaults + Faults(F), Finish(w, g, F)
       PROVE  CdrInv'
  BY <1>12, <1>15, <1>16
<1>17. ASSUME NEW n \in {0, 1}, NEW synced \in BOOLEAN, cdrFaults' = cdrFaults + n, ~f.bad, ~Full(g),
              file' = [file EXCEPT ![w] = IF synced THEN Flushed(g, n) ELSE g],
              UNCHANGED <<finals, left, lost, closeErr>>
       PROVE  CdrInv'
  <2>1. PICK h : h = IF synced THEN Flushed(g, n) ELSE g
    OBVIOUS
  <2>2. h \in CdrFile /\ (h = g \/ h = Flushed(g, n))
    BY <1>8, <2>1, FlushedFile
  <2> QED
    BY <1>11, <1>15, <1>17, <2>1, <2>2
<1> QED
  BY <1>3, <1>5, <1>7, <1>13, <1>14, <1>16, <1>17, Zenon DEF Receive

LEMMA CdrStep ==
  ASSUME CdrInv, [CdrNext]_cdrVars
  PROVE  CdrInv'
<1>1. CASE CdrNext
  BY <1>1, CdrAssumption, EmitSteps, RLockStep, SendStep, CloseSteps, ReceiveStep, AgeStep, SyncTickStep, EndLoopStep
     DEF CdrNext
<1>2. CASE UNCHANGED cdrVars
  <2>1. CdrTypes' /\ CdrLife'
    BY <1>2 DEF cdrVars, CdrInv, CdrTypes, CdrLife, Started, WriterOK, EmitOK
  <2> QED
    BY <1>2, <2>1, NothingMoves DEF cdrVars, CdrInv
<1> QED
  BY <1>1, <1>2

\* Every emitted event is in exactly one place, a closed writer has nothing queued or
\* open, and unless the file system failed and a writer reports it no event is lost,
\* no file keeps its temporary name and finished files hold what their names say: for
\* any number of emitters and reloads, any mix of blocking and dropping writers, and
\* failures of opening, writing, flushing, closing and renaming (Emit, Close, loop).
THEOREM AccountedHolds == CdrSpec => []Accounted
<1>1. CdrInv => Accounted
  <2> SUFFICES ASSUME CdrInv PROVE Accounted
    OBVIOUS
  <2> USE DEF CdrInv
  <2>1. ASSUME NEW e \in Emitter, emit[e].at = "done"
        PROVE  Cardinality({p \in {<<"in", Ids(in[emit[e].w])>>, <<"file", InFile(emit[e].w)>>,
                                   <<"finals", In(finals)>>, <<"left", In(left)>>, <<"dropped", dropped>>,
                                   <<"lost", lost>>, <<"late", late>>} : e \in p[2]}) = 1
    <3> DEFINE Q == Ids(in[emit[e].w])
               F == InFile(emit[e].w)
               N == In(finals)
               M == In(left)
               P == {<<"in", Q>>, <<"file", F>>, <<"finals", N>>, <<"left", M>>, <<"dropped", dropped>>,
                     <<"lost", lost>>, <<"late", late>>}
    <3>1. One(e \in Q) + One(e \in F) + One(e \in N) + One(e \in M) + One(e \in dropped) + One(e \in lost)
            + One(e \in late) = 1
      BY <2>1 DEF Owned, Tally, InFinals, InLeft
    <3> HIDE DEF Q, F, N, M
    <3>2. \E x \in P : {p \in P : e \in p[2]} = {x}
      <4>1. CASE e \in Q
        <5>1. e \notin F /\ e \notin N /\ e \notin M /\ e \notin dropped /\ e \notin lost /\ e \notin late
          BY <3>1, <4>1 DEF One
        <5> QED
          BY <4>1, <5>1
      <4>2. CASE e \in F
        <5>1. e \notin Q /\ e \notin N /\ e \notin M /\ e \notin dropped /\ e \notin lost /\ e \notin late
          BY <3>1, <4>2 DEF One
        <5> QED
          BY <4>2, <5>1
      <4>3. CASE e \in N
        <5>1. e \notin Q /\ e \notin F /\ e \notin M /\ e \notin dropped /\ e \notin lost /\ e \notin late
          BY <3>1, <4>3 DEF One
        <5> QED
          BY <4>3, <5>1
      <4>4. CASE e \in M
        <5>1. e \notin Q /\ e \notin F /\ e \notin N /\ e \notin dropped /\ e \notin lost /\ e \notin late
          BY <3>1, <4>4 DEF One
        <5> QED
          BY <4>4, <5>1
      <4>5. CASE e \in dropped
        <5>1. e \notin Q /\ e \notin F /\ e \notin N /\ e \notin M /\ e \notin lost /\ e \notin late
          BY <3>1, <4>5 DEF One
        <5> QED
          BY <4>5, <5>1
      <4>6. CASE e \in lost
        <5>1. e \notin Q /\ e \notin F /\ e \notin N /\ e \notin M /\ e \notin dropped /\ e \notin late
          BY <3>1, <4>6 DEF One
        <5> QED
          BY <4>6, <5>1
      <4>7. CASE e \in late
        <5>1. e \notin Q /\ e \notin F /\ e \notin N /\ e \notin M /\ e \notin dropped /\ e \notin lost
          BY <3>1, <4>7 DEF One
        <5> QED
          BY <4>7, <5>1
      <4>8. e \in Q \/ e \in F \/ e \in N \/ e \in M \/ e \in dropped \/ e \in lost \/ e \in late
        BY <3>1 DEF One
      <4> QED
        BY <4>1, <4>2, <4>3, <4>4, <4>5, <4>6, <4>7, <4>8
    <3>3. Cardinality({p \in P : e \in p[2]}) = 1
      BY <3>2, FS_Singleton
    <3> QED
      BY <3>3 DEF Q, F, N, M
  <2>2. \A w \in Writer : close[w] = "done" => in[w] = <<>> /\ file[w] = Nil
    BY DEF CdrLife, WriterOK
  <2> QED
    BY <2>1, <2>2, Zenon DEF Accounted, CdrLife, Kept, FinalsOK, Reported
<1> QED
  BY <1>1, CdrStart, CdrStep, PTL DEF CdrSpec

=============================================================================
