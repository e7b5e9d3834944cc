------------------------------ MODULE IdAlloc ------------------------------
(***************************************************************************)
(* Gateway ids.  Every process reserves ranges of Span numbers from one    *)
(* sequence in the store (ReserveGatewayIDRange) and hands them out from   *)
(* memory (idAllocator.Next).  A number that needs more than seven base-36 *)
(* digits is refused.  Reservations fail or lose their reply, processes    *)
(* die with part of a range unused, and a start of the file store may find *)
(* no store file (FileStore shows how) and begin again at zero.            *)
(***************************************************************************)
EXTENDS Integers

CONSTANTS
  Process,    \* gateway processes that share the store
  Driver,     \* "postgres" or "file"
  Span,       \* numbers per range
  MaxId,      \* largest number of seven base-36 digits
  MaxSeq,     \* bound: the sequence is explored up to here
  MaxFailures,  \* bound: reservations that fail
  MaxResets     \* bound: starts that find no store file

ASSUME IdAssumption ==
  /\ Driver \in {"postgres", "file"}
  /\ Driver = "file" => \A p, q \in Process : p = q
  /\ Span \in Nat \ {0}
  /\ MaxId \in Nat /\ MaxSeq \in Nat /\ MaxFailures \in Nat /\ MaxResets \in Nat

VARIABLES
  seq,      \* the sequence, in the memory of the store
  disk,     \* its durable value
  next,     \* next[p]: the number to hand out, 0 before the first range
  end,      \* end[p]: the last number of the range
  failures,   \* reservations that may still fail
  resets,   \* history: how many starts found no store file
  count,    \* history: how many ids were handed out
  issued    \* history: each id, its place in the order of issue and resets at the time

idVars == <<seq, disk, next, end, failures, resets, count, issued>>

IdInit ==
  /\ seq = 0 /\ disk = 0
  /\ next = [p \in Process |-> 0]
  /\ end = [p \in Process |-> 0]
  /\ failures = MaxFailures
  /\ resets = 0 /\ count = 0 /\ issued = {}

Exhausted(p) == next[p] = 0 \/ next[p] > end[p]

\* Mutant: the file store returns the range without writing it.
ReserveUnsaved(p) ==
  /\ Exhausted(p)
  /\ seq + Span <= MaxSeq
  /\ seq' = seq + Span
  /\ disk' = IF Driver = "file" THEN disk ELSE seq'
  /\ next' = [next EXCEPT ![p] = seq + 1]
  /\ end' = [end EXCEPT ![p] = seq']
  /\ UNCHANGED <<failures, resets, count, issued>>

\* A range is reserved: one upsert in Postgres; in the file store the memory is
\* advanced and the snapshot written before the range is returned.
Reserve(p) ==
  /\ Exhausted(p)
  /\ seq + Span <= MaxSeq
  /\ seq' = seq + Span
  /\ disk' = seq'
  /\ next' = [next EXCEPT ![p] = seq + 1]
  /\ end' = [end EXCEPT ![p] = seq']
  /\ UNCHANGED <<failures, resets, count, issued>>

\* The reservation returns an error.  Postgres may have committed it; the file
\* store has advanced its memory and could not write it.
ReserveFails(p) ==
  /\ Exhausted(p)
  /\ seq + Span <= MaxSeq
  /\ failures > 0 /\ failures' = failures - 1
  /\ seq' = seq + Span
  /\ disk' = IF Driver = "postgres" THEN seq' ELSE disk
  /\ UNCHANGED <<next, end, resets, count, issued>>

\* Another call of the file store writes the snapshot.
SaveSequence ==
  /\ disk # seq
  /\ disk' = seq
  /\ UNCHANGED <<seq, next, end, failures, resets, count, issued>>

Issues(p) == issued' = issued \cup {<<next[p], count, resets>>} /\ count' = count + 1

\* Mutant: the range is one number longer than what was reserved.
NextPastEnd(p) ==
  /\ next[p] # 0 /\ next[p] <= end[p] + 1
  /\ next' = [next EXCEPT ![p] = @ + 1]
  /\ IF next[p] <= MaxId THEN Issues(p) ELSE UNCHANGED <<issued, count>>
  /\ UNCHANGED <<seq, disk, end, failures, resets>>

\* newGatewayID takes the next number of the range, and returns an error
\* instead when the number is too long.
NewGatewayID(p) ==
  /\ ~Exhausted(p)
  /\ next' = [next EXCEPT ![p] = @ + 1]
  /\ IF next[p] <= MaxId THEN Issues(p) ELSE UNCHANGED <<issued, count>>
  /\ UNCHANGED <<seq, disk, end, failures, resets>>

Forgets(p) == next' = [next EXCEPT ![p] = 0] /\ end' = [end EXCEPT ![p] = 0]

\* The process dies and is started again: its range is forgotten, and the file
\* store loads its snapshot.
Restart(p) ==
  /\ Forgets(p)
  /\ seq' = IF Driver = "file" THEN disk ELSE seq
  /\ UNCHANGED <<disk, failures, resets, issued, count>>

\* The process of a file store dies between the two renames of a write, or after the
\* second one failed: load finds no file and starts empty.
RestartEmpty(p) ==
  /\ Driver = "file"
  /\ resets < MaxResets /\ resets' = resets + 1
  /\ Forgets(p)
  /\ seq' = 0 /\ disk' = 0
  /\ UNCHANGED <<failures, issued, count>>

IdNext ==
  \/ \E p \in Process : Reserve(p) \/ ReserveFails(p) \/ NewGatewayID(p) \/ Restart(p) \/ RestartEmpty(p)
  \/ SaveSequence

IdSpec == IdInit /\ [][IdNext]_idVars

-----------------------------------------------------------------------------
\* No process holds a range beyond what is durable, and in Postgres nothing is
\* reserved that is not.
IdTypeOK ==
  /\ seq \in Nat /\ disk \in Nat /\ disk <= seq
  /\ Driver = "postgres" => disk = seq
  /\ next \in [Process -> Nat] /\ end \in [Process -> Nat]
  /\ \A p \in Process : next[p] = 0 => end[p] = 0
  /\ failures \in Nat /\ resets \in Nat /\ count \in Nat
  /\ issued \subseteq Nat \X Nat \X Nat
  /\ \A p \in Process : end[p] <= disk

\* Only a start without a store file lets a gateway id be handed out twice: ids
\* handed out with no such start between them differ, by one process or by two,
\* over any other restart, and whatever reservations fail or lose their reply.
NoIdTwice == \A x, y \in issued : x[1] = y[1] /\ x[3] = y[3] => x = y

\* What makes it so: the unused parts of the ranges are disjoint, and disjoint from
\* what was handed out since the last empty start, which the durable sequence covers.
Unused(p) == IF next[p] = 0 THEN {} ELSE next[p]..end[p]

Recent == {x \in issued : x[3] = resets}

RangesApart ==
  /\ \A p \in Process : Unused(p) \cap {x[1] : x \in Recent} = {}
  /\ \A p, q \in Process : p # q => Unused(p) \cap Unused(q) = {}
  /\ \A x \in Recent : x[1] <= disk
  /\ \A x \in issued : x[2] < count /\ x[3] <= resets

IdInv == IdTypeOK /\ NoIdTwice /\ RangesApart
=============================================================================
