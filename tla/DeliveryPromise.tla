---------------------------- MODULE DeliveryPromise ----------------------------
(***************************************************************************)
(* What the runtime promises about the delivery of each reply, with no      *)
(* database, worker or restart in sight: a reply is sent on a permit, it    *)
(* starts with one, and only a person grants another while its outcome is   *)
(* in doubt.  Erasing a conversation forgets its replies, except those that *)
(* may be on their way: these are sealed, and never sent again.             *)
(***************************************************************************)
EXTENDS Naturals

CONSTANT Replies

VARIABLES
  phase,    \* where each reply stands
  permits,  \* permits granted to each reply so far
  sealed,   \* replies whose content is erased while their outcome matters
  flying,   \* permits used on requests that may still reach the platform
  landed    \* permits used on requests the platform executed

vars == <<phase, permits, sealed, flying, landed>>

Phases == {"unsent", "ready", "sending", "doubt", "delivered", "dropped", "gone"}

Init ==
  /\ phase = [r \in Replies |-> "unsent"]
  /\ permits = [r \in Replies |-> 1]
  /\ sealed = {}
  /\ flying = [r \in Replies |-> {}]
  /\ landed = [r \in Replies |-> {}]

Move(r, from, to) == phase[r] = from /\ phase' = [phase EXCEPT ![r] = to]

Offer(r) == Move(r, "unsent", "ready") /\ UNCHANGED <<permits, sealed, flying, landed>>

\* The permit is used up before the request leaves.
Send(r) ==
  /\ r \notin sealed
  /\ Move(r, "ready", "sending")
  /\ flying' = [flying EXCEPT ![r] = @ \cup {permits[r]}]
  /\ UNCHANGED <<permits, sealed, landed>>

Land(r) ==
  \E p \in flying[r] :
    /\ flying' = [flying EXCEPT ![r] = @ \ {p}]
    /\ landed' = [landed EXCEPT ![r] = @ \cup {p}]
    /\ UNCHANGED <<phase, permits, sealed>>

\* Only a request the platform executed is reported delivered.
Deliver(r) ==
  /\ permits[r] \in landed[r]
  /\ Move(r, "sending", "delivered")
  /\ UNCHANGED <<permits, sealed, flying, landed>>

\* A known rejection: it will not land, and without content it is dropped.
Reject(r) ==
  /\ permits[r] \in flying[r]
  /\ Move(r, "sending", IF r \in sealed THEN "dropped" ELSE "doubt")
  /\ flying' = [flying EXCEPT ![r] = @ \ {permits[r]}]
  /\ UNCHANGED <<permits, sealed, landed>>

\* Outcomes that nobody learnt: one send, or all of a process that died.
LoseTrack ==
  /\ \A r \in Replies : phase'[r] # phase[r] => phase[r] = "sending" /\ phase'[r] = "doubt"
  /\ UNCHANGED <<permits, sealed, flying, landed>>

Confirm(r) == Move(r, "doubt", "delivered") /\ UNCHANGED <<permits, sealed, flying, landed>>
GiveUp(r)  == Move(r, "doubt", "dropped") /\ UNCHANGED <<permits, sealed, flying, landed>>

Grant(r) ==
  /\ r \notin sealed
  /\ Move(r, "doubt", "ready")
  /\ permits' = [permits EXCEPT ![r] = @ + 1]
  /\ UNCHANGED <<sealed, flying, landed>>

\* Replies go with their content, unless they are on their way or may have
\* arrived: those are sealed, and nothing that was sealed is opened again.
Erase ==
  /\ \A r \in Replies : phase'[r] # phase[r] => phase[r] # "sending" /\ phase'[r] = "gone"
  /\ \A r \in sealed \ sealed' : phase'[r] = "gone"
  /\ \A r \in sealed' \ sealed : phase[r] \in {"sending", "doubt"}
  /\ UNCHANGED <<permits, flying, landed>>

Next ==
  \/ \E r \in Replies : \/ Offer(r) \/ Send(r) \/ Land(r) \/ Deliver(r) \/ Reject(r)
                        \/ Confirm(r) \/ GiveUp(r) \/ Grant(r)
  \/ LoseTrack
  \/ Erase

Spec == Init /\ [][Next]_vars
=============================================================================
