--------------------------- MODULE OutboxDelivery ---------------------------
(* The outbox seen as Delivery: what its durable rows say of each message. *)
EXTENDS Outbox

\* The life of a message by the durable state of its row.
LifeOf(s) ==
  IF s = "absent" THEN "none"
  ELSE IF s \in {"pending", "claimed"} THEN "waiting"
  ELSE IF s = "sending" THEN "given"
  ELSE IF s = "uncertain" THEN "unsure"
  ELSE IF s = "done" THEN "sent"
  ELSE "failed"

Promise == INSTANCE Delivery WITH
  life  <- [i \in Item |-> LifeOf(disk.box[i].state)],
  calls <- entries,
  got   <- [i \in Item |-> taken[i] = Segments[i]]

\* The dispatcher and its store keep the promise of Delivery: through claims,
\* sweeps, crashes and failing writes a message advances, is handed to its
\* provider once and keeps its outcome.
KeepsPromise == Promise!Spec
=============================================================================
