----------------------------- MODULE FileStore -----------------------------
(***************************************************************************)
(* How the file store makes its memory durable.                            *)
(*                                                                         *)
(* Every writing call of FileStore changes the embedded memory store and   *)
(* then runs persist: under persistMu it copies the memory, writes the     *)
(* copy to a temporary file, moves the store file to ".bak" and the        *)
(* temporary file into its place.  The calls of several goroutines         *)
(* interleave, any file operation may fail, and the process may be killed  *)
(* between any two of them.  A call is one change, and the contents of the *)
(* memory and of a file are the set of changes they hold.                  *)
(***************************************************************************)
EXTENDS Naturals

CONSTANTS
  Call,        \* writing calls, each with the change it makes
  None,        \* nobody holds persistMu
  MaxFaults,   \* bound: failing file operations
  MaxCrashes   \* bound: kills of the process

ASSUME FileAssumption ==
  /\ None \notin Call
  /\ MaxFaults \in Nat
  /\ MaxCrashes \in Nat

VARIABLES
  mem,       \* changes the memory store holds
  lock,      \* holder of persistMu
  pc,        \* where each call is
  snap,      \* what each call copied, then its temporary file
  path,      \* the store file
  bak,       \* the store file with suffix ".bak"
  up,        \* the process runs
  faults,    \* file operations that may still fail
  crashes,   \* kills that may still happen
  acked,     \* history: calls that returned without an error
  reset      \* history: a start found no store file although one had been written

vars == <<mem, lock, pc, snap, path, bak, up, faults, crashes, acked, reset>>

\* The contents of a file that does not exist: no set of calls.
NoFile == {None}

Place == {"new", "waiting", "writing", "checking", "moving", "installing", "returned", "gone"}
InPersist == {"writing", "checking", "moving", "installing"}

Init ==
  /\ mem = {}
  /\ lock = None
  /\ pc = [c \in Call |-> "new"]
  /\ snap = [c \in Call |-> {}]
  /\ path = NoFile
  /\ bak = NoFile
  /\ up = TRUE
  /\ faults = MaxFaults
  /\ crashes = MaxCrashes
  /\ acked = {}
  /\ reset = FALSE

-----------------------------------------------------------------------------
Goes(c, place) == pc' = [pc EXCEPT ![c] = place]

\* The call of the embedded memory store.
Apply(c) ==
  /\ up
  /\ pc[c] = "new"
  /\ mem' = mem \cup {c}
  /\ Goes(c, "waiting")
  /\ UNCHANGED <<lock, snap, path, bak, up, faults, crashes, acked, reset>>

\* persist takes persistMu and copies the memory.
Copy(c) ==
  /\ pc[c] = "waiting"
  /\ lock = None
  /\ lock' = c
  /\ snap' = [snap EXCEPT ![c] = mem]
  /\ Goes(c, "writing")
  /\ UNCHANGED <<mem, path, bak, up, faults, crashes, acked, reset>>

\* A file operation fails: persist releases persistMu and returns the error.
Fail(c) ==
  /\ faults > 0
  /\ faults' = faults - 1
  /\ lock' = None
  /\ Goes(c, "returned")
  /\ UNCHANGED <<mem, snap, path, up, crashes, acked, reset>>

\* The temporary file is written, synced and closed.
WriteTemp(c) ==
  /\ pc[c] = "writing"
  /\ UNCHANGED bak
  /\ \/ /\ Goes(c, IF path = NoFile THEN "installing" ELSE "checking")
        /\ UNCHANGED <<mem, lock, snap, path, up, faults, crashes, acked, reset>>
     \/ Fail(c)

\* os.Remove of the old ".bak"; its error is ignored.
RemoveBak(c) ==
  /\ pc[c] = "checking"
  /\ bak' \in {bak, NoFile}
  /\ Goes(c, "moving")
  /\ UNCHANGED <<mem, lock, snap, path, up, faults, crashes, acked, reset>>

\* os.Rename of the store file to ".bak".
MoveOld(c) ==
  /\ pc[c] = "moving"
  /\ \/ /\ bak' = path
        /\ path' = NoFile
        /\ Goes(c, "installing")
        /\ UNCHANGED <<mem, lock, snap, up, faults, crashes, acked, reset>>
     \/ Fail(c) /\ UNCHANGED bak

\* os.Rename of the temporary file to the store file; the call returns nil.
Install(c) ==
  /\ pc[c] = "installing"
  /\ UNCHANGED bak
  /\ \/ /\ path' = snap[c]
        /\ lock' = None
        /\ acked' = acked \cup {c}
        /\ Goes(c, "returned")
        /\ UNCHANGED <<mem, snap, up, faults, crashes, reset>>
     \/ Fail(c)

\* The process is killed: its memory, its locks and its calls are gone.
Kill ==
  /\ up
  /\ crashes > 0
  /\ crashes' = crashes - 1
  /\ up' = FALSE
  /\ mem' = {}
  /\ lock' = None
  /\ pc' = [c \in Call |-> IF pc[c] \in InPersist \cup {"waiting"} THEN "gone" ELSE pc[c]]
  /\ snap' = [c \in Call |-> {}]
  /\ UNCHANGED <<path, bak, faults, acked, reset>>

\* Mutant: load reads the ".bak" file when there is one.
LoadBak ==
  /\ ~up
  /\ up' = TRUE
  /\ mem' = (IF bak = NoFile THEN path ELSE bak) \ {None}
  /\ UNCHANGED <<lock, pc, snap, path, bak, faults, crashes, acked, reset>>

\* NewFile: load reads the store file, and starts empty when there is none.
Load ==
  /\ ~up
  /\ up' = TRUE
  /\ mem' = IF path = NoFile THEN {} ELSE path
  /\ reset' = (reset \/ (path = NoFile /\ bak # NoFile))
  /\ UNCHANGED <<lock, pc, snap, path, bak, faults, crashes, acked>>

Persist(c) == Copy(c) \/ WriteTemp(c) \/ RemoveBak(c) \/ MoveOld(c) \/ Install(c)

Next ==
  \/ \E c \in Call : Apply(c) \/ Persist(c)
  \/ Kill
  \/ Load

Spec == Init /\ [][Next]_vars

\* Goroutines run to the end of persist; the calls that compete for persistMu
\* are finitely many, so that weak fairness is enough.
-----------------------------------------------------------------------------
\* What the newest complete snapshot on the disk holds.
Newest == CASE path # NoFile -> path
            [] path = NoFile /\ bak # NoFile -> bak
            [] OTHER -> {}

\* persistMu is held by exactly the call that is inside persist.
TypeOK ==
  /\ mem \subseteq Call /\ acked \subseteq Call
  /\ lock \in Call \cup {None}
  /\ pc \in [Call -> Place]
  /\ snap \in [Call -> SUBSET Call]
  /\ path \in (SUBSET Call) \cup {NoFile}
  /\ bak \in (SUBSET Call) \cup {NoFile}
  /\ up \in BOOLEAN /\ reset \in BOOLEAN
  /\ faults \in Nat /\ crashes \in Nat
  /\ \A c \in Call : lock = c <=> pc[c] \in InPersist

\* Whatever fails and whenever the process is killed, the change of every
\* call that returned nil is in the newest snapshot on the disk, until a start
\* finds only the ".bak" file, which load does not read.
AckedOnDisk == ~reset => acked \subseteq Newest

\* A running process holds the change of every call that returned nil, after
\* any number of kills, unless a start found only the ".bak" file.
RecoversUnlessReset == up /\ ~reset => acked \subseteq mem

\* What a restart is expected to bring back (REL-01): everything that was
\* acknowledged before the process was killed.
KilledStoreRecovers == up => acked \subseteq mem

=============================================================================
