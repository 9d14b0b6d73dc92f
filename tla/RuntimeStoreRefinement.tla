------------------------ MODULE RuntimeStoreRefinement ------------------------
(***************************************************************************)
(* RuntimeStore implements DeliveryPromise: the phase of a reply is read    *)
(* off the event and outbox tables, a permit is the first dispatch or a     *)
(* retry the operator acknowledged, and a sealed reply is an outbox row     *)
(* that outlived its content.                                              *)
(***************************************************************************)
EXTENDS RuntimeStore

Replies == Convs \X Seqs

\* A rejected send of an erased reply is settled; of any other it is reviewed.
Phase(c, s) ==
  IF kind[c][s] = "none" /\ s < nextSeq[c] THEN "gone"
  ELSE CASE outbox[c][s] = "none" -> "unsent"
         [] outbox[c][s] = "pending" -> "ready"
         [] outbox[c][s] = "dispatching" -> "sending"
         [] outbox[c][s] = "unknown" -> "doubt"
         [] outbox[c][s] = "rejected" -> IF Erased(c, s) THEN "dropped" ELSE "doubt"
         [] outbox[c][s] = "accepted" -> "delivered"
         [] outbox[c][s] = "cancelled" -> "dropped"

phaseBar   == [r \in Replies |-> Phase(r[1], r[2])]
permitsBar == [r \in Replies |-> 1 + acks[r[1]][r[2]]]
sealedBar  == {r \in Replies : Erased(r[1], r[2])}
flyingBar  == [r \in Replies |-> flying[r[1]][r[2]]]
landedBar  == [r \in Replies |-> landed[r[1]][r[2]]]

Promise == INSTANCE DeliveryPromise WITH
  phase   <- phaseBar,
  permits <- permitsBar,
  sealed  <- sealedBar,
  flying  <- flyingBar,
  landed  <- landedBar

\* Every step of the runtime is a step DeliveryPromise allows, or none that
\* concerns delivery: replies are sent on permits only (begin_dispatch,
\* recover, resolve_delivery), and erasure seals what is on its way.
KeepsPromise == Promise!Spec
=============================================================================
