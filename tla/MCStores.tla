------------------------------ MODULE MCStores ------------------------------
(***************************************************************************)
(* Instances for TLC of what is kept in stores and files: the snapshots of *)
(* the file store (FileStore), the gateway ids of two processes over       *)
(* Postgres and of one over the file store (IdAlloc), Submit in the file   *)
(* store, and the call detail records, with a reload from a writer that    *)
(* blocks when its queue is full to one that drops (Cdr).                  *)
(* They share no state, so that one of them runs in a behaviour and the    *)
(* others stay as they begin.                                              *)
(***************************************************************************)
EXTENDS FileStore, IdAlloc, Cdr

CONSTANTS c1, c2, c3, c4, c5, k1, k2, p1, p2, NoKey, v1, v2

VARIABLES
  part,   \* what runs
  db, image, at, reply, keyLock, quotaLock, refusing, reloads, losses, kills, expiries, acks, since    \* Submit

FileIds == INSTANCE IdAlloc WITH Driver <- "file", Process <- {p1}

Key == {k1, k2}
SizeOf == [c \in {c1, c2, c3, c4, c5} |-> IF c = c3 THEN 2 ELSE 1]
Limit == 2

FileSubmit ==
  INSTANCE Submit WITH
    Call <- {c1, c2, c3, c4, c5}, Driver <- "file", Process <- {p1},
    KeyOf <- [c \in {c1, c2, c3, c4, c5} |-> IF c \in {c1, c2, c5} THEN k1 ELSE IF c = c3 THEN k2 ELSE NoKey],
    Home <- [c \in {c1, c2, c3, c4, c5} |-> p1],
    Refusable <- {"tenant_tps"}, MaxReloads <- 1, MaxFaults <- 1, MaxCrashes <- 1, MaxExpiries <- 1,
    disk <- image, pc <- at, faults <- losses, crashes <- kills

BlockThenDrop == [w \in Writer |-> IF w = First THEN "block" ELSE "drop"]

submitVars == <<db, image, at, reply, keyLock, quotaLock, refusing, reloads, losses, kills, expiries, acks, since>>
all == <<part, vars, idVars, submitVars, cdrVars>>

MCInit ==
  /\ part \in {"file", "ids", "file ids", "submit", "records"}
  /\ Init /\ IdInit /\ FileSubmit!Init /\ CdrInit

MCNext ==
  \/ part = "file" /\ Next /\ UNCHANGED <<part, idVars, submitVars, cdrVars>>
  \/ /\ UNCHANGED <<part, vars, submitVars, cdrVars>>
     /\ (part = "ids" /\ IdNext) \/ (part = "file ids" /\ FileIds!IdNext)
  \/ part = "submit" /\ FileSubmit!Next /\ UNCHANGED <<part, vars, idVars, cdrVars>>
  \/ part = "records" /\ CdrNext /\ UNCHANGED <<part, vars, idVars, submitVars>>

MCSpec == MCInit /\ [][MCNext]_all

-----------------------------------------------------------------------------
\* Also in the file store at most one message is stored under a living key, and
\* the daily usage is what the stored messages cost.
SubmitExact == FileSubmit!OneMessagePerKey /\ FileSubmit!QuotaExact
=============================================================================
