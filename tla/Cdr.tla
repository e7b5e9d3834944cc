-------------------------------- MODULE Cdr --------------------------------
(***************************************************************************)
(* The writer of call detail records (cdr/writer.go): Emit by many         *)
(* goroutines, Close, and the loop that writes and rotates the files; and  *)
(* the reload that replaces the writer under the dispatcher's sink pointer *)
(* (Dispatcher.emitCDR, Gateway.UpdateConfig).                             *)
(*                                                                         *)
(* An emitter emits one event.  Opening, writing, flushing, closing and    *)
(* renaming a file may fail.  Of a file only the events and the count in   *)
(* its name are kept.                                                      *)
(***************************************************************************)
EXTENDS Integers, Sequences, FiniteSets

CONSTANTS
  Emitter,      \* goroutines that emit one event each
  Writer,       \* writers, in the order in which a reload makes them
  First,        \* the writer made at start
  Buffer,       \* cdr.buffer
  MaxRecords,   \* cdr.max_records
  OnFull,       \* cdr.on_full of each writer: "block" or "drop"
  MaxCdrFaults, \* bound: failures of the file system, each in one call of the loop
  Nil           \* no writer, no file

Event == [id : Emitter, seq : Nat]
CdrFile == [recs : Seq(Event), safe : Nat, count : Nat, bad : BOOLEAN]

\* NewWriter replaces a buffer and a max_records of zero.
ASSUME CdrAssumption ==
  /\ First \in Writer
  /\ Buffer \in Nat \ {0} /\ MaxRecords \in Nat \ {0}
  /\ OnFull \in [Writer -> {"block", "drop"}]
  /\ MaxCdrFaults \in Nat
  /\ Nil \notin Writer /\ Nil \notin CdrFile

VARIABLES
  sink,     \* Dispatcher.cdrSink
  emit,     \* per emitter: where it is, its writer and its Seq
  cdrSeq,   \* Writer.seq
  in,       \* Writer.in
  closed,   \* Writer.closed, and in is closed
  close,    \* where Close of each writer is
  loop,     \* is the loop of the writer running?
  file,     \* the current file of the loop, or Nil
  finals,   \* files with their final name
  left,     \* closed files that kept the name .jsonl.writing
  closeErr, \* Writer.closeErr is set
  dropped,  \* events counted as dropped
  lost,     \* history: events the loop could not write
  late,     \* history: events emitted to a closed writer
  panic,    \* history: a send on a closed channel
  cdrFaults

cdrVars == <<sink, emit, cdrSeq, in, closed, close, loop, file, finals, left, closeErr, dropped, lost, late, panic, cdrFaults>>

Empty == [recs |-> <<>>, safe |-> 0, count |-> 0, bad |-> FALSE]
Free == [at |-> "idle", w |-> Nil, seq |-> 0]

CdrInit ==
  /\ sink = First
  /\ emit = [e \in Emitter |-> Free]
  /\ cdrSeq = [w \in Writer |-> 0]
  /\ in = [w \in Writer |-> <<>>]
  /\ closed = [w \in Writer |-> FALSE]
  /\ close = [w \in Writer |-> "none"]
  /\ loop = [w \in Writer |-> w = First]
  /\ file = [w \in Writer |-> Nil]
  /\ finals = {} /\ left = {}
  /\ closeErr = [w \in Writer |-> FALSE]
  /\ dropped = {} /\ lost = {} /\ late = {} /\ panic = FALSE /\ cdrFaults = 0

-----------------------------------------------------------------------------
(* Emit *)

Holds(w) == {e \in Emitter : emit[e].at \in {"locked", "send"} /\ emit[e].w = w}

LoadSink(e) ==
  /\ emit[e].at = "idle"
  /\ emit' = [emit EXCEPT ![e] = [Free EXCEPT !.at = "loaded", !.w = sink]]
  /\ UNCHANGED <<sink, cdrSeq, in, closed, close, loop, file, finals, left, closeErr, dropped, lost, late, panic, cdrFaults>>

\* The read lock is not given while Close waits for or holds the write lock.
RLock(e) ==
  LET w == emit[e].w IN
  /\ emit[e].at = "loaded" /\ close[w] # "want"
  /\ \/ /\ closed[w]
        /\ emit' = [emit EXCEPT ![e].at = "done"] /\ late' = late \cup {e}
     \/ ~closed[w] /\ emit' = [emit EXCEPT ![e].at = "locked"] /\ UNCHANGED late
  /\ UNCHANGED <<sink, cdrSeq, in, closed, close, loop, file, finals, left, closeErr, dropped, lost, panic, cdrFaults>>

NextSeq(e) ==
  LET w == emit[e].w IN
  /\ emit[e].at = "locked"
  /\ cdrSeq' = [cdrSeq EXCEPT ![w] = @ + 1]
  /\ emit' = [emit EXCEPT ![e].at = "send", ![e].seq = cdrSeq'[w]]
  /\ UNCHANGED <<sink, in, closed, close, loop, file, finals, left, closeErr, dropped, lost, late, panic, cdrFaults>>

Send(e) ==
  LET w == emit[e].w IN
  /\ emit[e].at = "send"
  /\ emit' = [emit EXCEPT ![e].at = "done"]
  /\ panic' = (panic \/ closed[w])
  /\ \/ /\ Len(in[w]) < Buffer
        /\ in' = [in EXCEPT ![w] = Append(@, [id |-> e, seq |-> emit[e].seq])]
        /\ UNCHANGED dropped
     \/ /\ OnFull[w] = "drop" /\ Len(in[w]) = Buffer
        /\ dropped' = dropped \cup {e} /\ UNCHANGED in
  /\ UNCHANGED <<sink, cdrSeq, closed, close, loop, file, finals, left, closeErr, lost, late, cdrFaults>>

-----------------------------------------------------------------------------
(* UpdateConfig makes a writer, points the sink at it and closes the old one. *)

Reload(w) ==
  /\ ~loop[w] /\ close[w] = "none"
  /\ close[sink] = "none"
  /\ loop' = [loop EXCEPT ![w] = TRUE]
  /\ sink' = w
  /\ close' = [close EXCEPT ![sink] = "start"]
  /\ UNCHANGED <<emit, cdrSeq, in, closed, file, finals, left, closeErr, dropped, lost, late, panic, cdrFaults>>

\* Dispatcher.Close
Shutdown ==
  /\ close[sink] = "none"
  /\ close' = [close EXCEPT ![sink] = "start"]
  /\ UNCHANGED <<sink, emit, cdrSeq, in, closed, loop, file, finals, left, closeErr, dropped, lost, late, panic, cdrFaults>>

WantLock(w) ==
  /\ close[w] = "start"
  /\ close' = [close EXCEPT ![w] = "want"]
  /\ UNCHANGED <<sink, emit, cdrSeq, in, closed, loop, file, finals, left, closeErr, dropped, lost, late, panic, cdrFaults>>

\* Mutant: Close does not wait for the emitters.
CloseInNow(w) ==
  /\ close[w] = "want"
  /\ close' = [close EXCEPT ![w] = "wait"]
  /\ closed' = [closed EXCEPT ![w] = TRUE]
  /\ UNCHANGED <<sink, emit, cdrSeq, in, loop, file, finals, left, closeErr, dropped, lost, late, panic, cdrFaults>>

CloseIn(w) ==
  /\ close[w] = "want" /\ Holds(w) = {}
  /\ close' = [close EXCEPT ![w] = "wait"]
  /\ closed' = [closed EXCEPT ![w] = TRUE]
  /\ UNCHANGED <<sink, emit, cdrSeq, in, loop, file, finals, left, closeErr, dropped, lost, late, panic, cdrFaults>>

AwaitDone(w) ==
  /\ close[w] = "wait" /\ ~loop[w]
  /\ close' = [close EXCEPT ![w] = "done"]
  /\ UNCHANGED <<sink, emit, cdrSeq, in, closed, loop, file, finals, left, closeErr, dropped, lost, late, panic, cdrFaults>>

-----------------------------------------------------------------------------
(* The loop.  A failed flush is remembered by the buffered writer: later writes
   and flushes of the same file fail too. *)

MayFail(n) == n = 0 \/ (n = 1 /\ cdrFaults < MaxCdrFaults)

\* cdrFile.flushSync; it fails if n = 1.
Flushed(f, n) ==
  IF f.bad \/ n = 1 THEN [f EXCEPT !.bad = TRUE] ELSE [f EXCEPT !.safe = Len(f.recs)]

FinalOf(f) == [recs |-> SubSeq(f.recs, 1, f.safe), count |-> f.count]

\* Calls of cdrFile.close that may fail.  After a flush that passed, a failing Sync
\* is like a failing Close: the error is kept and the events have been written.
FileCall == {"flush", "close", "rename"}

\* One fault of the file system may fail several calls of one cdrFile.close.
MayFailIn(F) == F = {} \/ cdrFaults < MaxCdrFaults
Faults(F) == IF F = {} THEN 0 ELSE 1

\* cdrFile.close(true): flush, close, and rename whatever these returned; a file
\* without events is removed.  The calls of F fail.
Finish(w, f, F) ==
  LET g == Flushed(f, IF "flush" \in F THEN 1 ELSE 0)
      named == IF g.count > 0 THEN {FinalOf(g)} ELSE {}
  IN
  /\ finals' = IF "rename" \in F THEN finals ELSE finals \cup named
  /\ left' = IF "rename" \in F THEN left \cup named ELSE left
  /\ lost' = lost \cup {g.recs[i].id : i \in g.safe + 1 .. Len(g.recs)}
  /\ closeErr' = [closeErr EXCEPT ![w] = @ \/ g.bad \/ F # {}]
  /\ file' = [file EXCEPT ![w] = Nil]

Full(f) == f.count >= MaxRecords

\* Mutant: the file is opened before an event is taken, and the loop ends when that
\* fails.
ReceiveOrDie(w) ==
  LET r == Head(in[w])
      f == IF file[w] = Nil THEN Empty ELSE file[w]
      g == [f EXCEPT !.recs = Append(@, r), !.count = @ + 1]
  IN
  /\ loop[w] /\ in[w] # <<>>
  /\ \/ /\ file[w] = Nil /\ cdrFaults < MaxCdrFaults
        /\ cdrFaults' = cdrFaults + 1
        /\ loop' = [loop EXCEPT ![w] = FALSE] /\ closeErr' = [closeErr EXCEPT ![w] = TRUE]
        /\ UNCHANGED <<in, file, finals, left, lost>>
     \/ /\ in' = [in EXCEPT ![w] = Tail(@)]
        /\ \/ Full(g) /\ Finish(w, g, {})
           \/ ~Full(g) /\ file' = [file EXCEPT ![w] = g] /\ UNCHANGED <<finals, left, lost, closeErr>>
        /\ UNCHANGED <<loop, cdrFaults>>
  /\ UNCHANGED <<sink, emit, cdrSeq, closed, close, dropped, late, panic>>

\* One event: open a file if there is none, write, sync every FsyncEvery events,
\* rotate when it is full.  What fails to open or to write loses the event.
Receive(w) ==
  LET r == Head(in[w]) IN
  /\ loop[w] /\ in[w] # <<>>
  /\ in' = [in EXCEPT ![w] = Tail(@)]
  /\ \/ /\ file[w] = Nil /\ cdrFaults < MaxCdrFaults            \* openCDRFile fails
        /\ cdrFaults' = cdrFaults + 1
        /\ lost' = lost \cup {r.id} /\ closeErr' = [closeErr EXCEPT ![w] = TRUE]
        /\ UNCHANGED <<file, finals, left>>
     \/ LET f == IF file[w] = Nil THEN Empty ELSE file[w]
            g == [f EXCEPT !.recs = Append(@, r), !.count = @ + 1]
        IN
        \/ /\ f.bad                                             \* write fails
           /\ lost' = lost \cup {r.id} /\ closeErr' = [closeErr EXCEPT ![w] = TRUE]
           /\ UNCHANGED <<file, finals, left, cdrFaults>>
        \/ /\ ~f.bad /\ Full(g)
           /\ \E F \in SUBSET FileCall : MayFailIn(F) /\ cdrFaults' = cdrFaults + Faults(F) /\ Finish(w, g, F)
        \/ /\ ~f.bad /\ ~Full(g)
           /\ \E n \in {0, 1}, synced \in BOOLEAN :
                /\ MayFail(n) /\ (synced \/ n = 0) /\ cdrFaults' = cdrFaults + n
                /\ file' = [file EXCEPT ![w] = IF synced THEN Flushed(g, n) ELSE g]
           /\ UNCHANGED <<finals, left, lost, closeErr>>
  /\ UNCHANGED <<sink, emit, cdrSeq, closed, close, loop, dropped, late, panic>>

\* max_age: rotate even if not full.
Age(w) ==
  /\ loop[w] /\ file[w] # Nil
  /\ \E F \in SUBSET FileCall : MayFailIn(F) /\ cdrFaults' = cdrFaults + Faults(F) /\ Finish(w, file[w], F)
  /\ UNCHANGED <<sink, emit, cdrSeq, in, closed, close, loop, dropped, late, panic>>

\* fsync_interval; the error is ignored.
SyncTick(w) ==
  /\ loop[w] /\ file[w] # Nil
  /\ \E n \in {0, 1} : /\ MayFail(n) /\ cdrFaults' = cdrFaults + n
                       /\ file' = [file EXCEPT ![w] = Flushed(file[w], n)]
  /\ UNCHANGED <<sink, emit, cdrSeq, in, closed, close, loop, finals, left, closeErr, dropped, lost, late, panic>>

\* in is closed and drained.
EndLoop(w) ==
  /\ loop[w] /\ closed[w] /\ in[w] = <<>>
  /\ loop' = [loop EXCEPT ![w] = FALSE]
  /\ \/ file[w] = Nil /\ UNCHANGED <<file, finals, left, lost, closeErr, cdrFaults>>
     \/ /\ file[w] # Nil
        /\ \E F \in SUBSET FileCall : MayFailIn(F) /\ cdrFaults' = cdrFaults + Faults(F) /\ Finish(w, file[w], F)
  /\ UNCHANGED <<sink, emit, cdrSeq, in, closed, close, dropped, late, panic>>

CdrNext ==
  \/ \E e \in Emitter : LoadSink(e) \/ RLock(e) \/ NextSeq(e) \/ Send(e)
  \/ \E w \in Writer : \/ Reload(w) \/ WantLock(w) \/ CloseIn(w) \/ AwaitDone(w)
                       \/ Receive(w) \/ Age(w) \/ SyncTick(w) \/ EndLoop(w)
  \/ Shutdown

CdrSpec == CdrInit /\ [][CdrNext]_cdrVars

\* Goroutines proceed; nobody has to emit, reload or shut down.
CdrFairSpec ==
  /\ CdrSpec
  /\ \A e \in Emitter : WF_cdrVars(RLock(e)) /\ WF_cdrVars(NextSeq(e)) /\ WF_cdrVars(Send(e))
  /\ \A w \in Writer : /\ WF_cdrVars(WantLock(w)) /\ WF_cdrVars(CloseIn(w)) /\ WF_cdrVars(AwaitDone(w))
                       /\ WF_cdrVars(Receive(w)) /\ WF_cdrVars(EndLoop(w))

-----------------------------------------------------------------------------
Ids(recs) == {recs[i].id : i \in DOMAIN recs}
In(files) == UNION {Ids(f.recs) : f \in files}
InFile(w) == IF file[w] = Nil THEN {} ELSE Ids(file[w].recs)

\* Every event that has been emitted is in exactly one place: queued, in the file
\* being written, in a finished file, in a file whose rename failed, or known to be
\* dropped, lost by a failure of the file system or refused by a closed writer.  In
\* block mode none is dropped.  No Emit meets a closed channel, and a closed writer
\* leaves nothing in its queue or in the file being written.  Unless a writer reports
\* an error no event is lost, no file keeps the name .jsonl.writing and a finished
\* file has as many events as its name says; it never has more than max_records.
Accounted ==
  /\ ~panic
  /\ \A e \in Emitter : emit[e].at = "done" =>
       Cardinality({p \in {<<"in", Ids(in[emit[e].w])>>, <<"file", InFile(emit[e].w)>>,
                           <<"finals", In(finals)>>, <<"left", In(left)>>, <<"dropped", dropped>>,
                           <<"lost", lost>>, <<"late", late>>} : e \in p[2]}) = 1
  /\ \A e \in dropped : OnFull[emit[e].w] = "drop"
  /\ \A w \in Writer : close[w] = "done" => in[w] = <<>> /\ file[w] = Nil
  /\ \A f \in finals : f.count <= MaxRecords
  /\ \/ cdrFaults > 0 /\ \E w \in Writer : closeErr[w]
     \/ lost = {} /\ left = {} /\ \A f \in finals : Len(f.recs) = f.count

\* Close returns, although emitters may be blocked on the full queue with the read
\* lock held, and although the file system fails.
CloseEnds == \A w \in Writer : (close[w] = "start") ~> (close[w] = "done")

\* Within a file the sequence numbers increase.  The code does not keep this: an
\* event is numbered in one step and queued in another.
SeqIncreases ==
  \A f \in finals : \A i, j \in DOMAIN f.recs : i < j => f.recs[i].seq < f.recs[j].seq

\* A reload loses no event: only the writer in use at the shutdown refuses events.
\* The code does not keep this: an Emit that loaded the old sink finds it closed.
ReloadLosesNothing == \A e \in late : emit[e].w = sink
=============================================================================
