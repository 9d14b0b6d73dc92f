------------------------------- MODULE Inbound -------------------------------
(* From a message event to its answer: the platform delivers copies of a      *)
(* message over the reverse WebSocket, HttpApi.handle_json_async claims each  *)
(* in the deduplicator (gateways/inbound_dedup.py), the service answers under *)
(* the chat's lock and the emitter sends the answer in parts over the same    *)
(* link.  The messages are of one chat and have ids.                          *)
(*                                                                            *)
(* A copy: "away", "queued" for the lock, "replying", "sending" its parts,    *)
(* "sent", or over: "duplicate", "quiet" (no answer wanted), "answered",      *)
(* "failed" (an Exception) or "cancelled" (asyncio.CancelledError).           *)
EXTENDS OneBotLink, Sequences, SequencesExt

CONSTANTS Copies,      \* deliveries of messages by the platform
          Messages,
          MessageOf,   \* [Copies -> Messages]
          Parts,       \* messages an answer is split into
          MaxEntries   \* size of the deduplicator's table

ASSUME SendsAreRequests ==
    /\ Requests = Copies \X (1..Parts)
    /\ MessageOf \in [Copies -> Messages]
    /\ IsFiniteSet(Copies)
    /\ Parts \in Nat \ {0} /\ MaxEntries \in Nat \ {0}

VARIABLES
    copy,        \* [Copies -> phase]
    part,        \* [Copies -> the part being sent]
    claims,      \* the deduplicator's keys, oldest first
    delivered,   \* _delivered
    turn,        \* the copy that holds the chat's lock, or None
    whole        \* ghost: [Messages -> answers the platform confirmed whole]

handlerVars == <<copy, part, claims, delivered, turn, whole>>
allVars == <<vars, handlerVars>>

Over == {"duplicate", "quiet", "answered", "failed", "cancelled"}
Handling == {"queued", "replying", "sending", "sent"}
Of(m) == {c \in Copies : MessageOf[c] = m}
Claimed == Range(claims)

TypeOK ==
    /\ LinkTypeOK
    /\ copy \in [Copies -> {"away"} \cup Handling \cup Over]
    /\ part \in [Copies -> 1..Parts]
    /\ claims \in Seq(Messages) /\ delivered \subseteq Messages
    /\ turn \in Copies \cup {None}
    /\ whole \in [Messages -> Nat]

Init ==
    /\ LinkInit
    /\ copy = [c \in Copies |-> "away"]
    /\ part = [c \in Copies |-> 1]
    /\ claims = <<>>
    /\ delivered = {}
    /\ turn = None
    /\ whole = [m \in Messages |-> 0]

Becomes(c, phaseOfCopy) == copy' = [copy EXCEPT ![c] = phaseOfCopy]
-----------------------------------------------------------------------------
(* The deduplicator.                                                          *)

\* claim, of a key it does not hold: the oldest entries make room.
Claim(m) ==
    IF Len(claims) < MaxEntries
    THEN claims' = Append(claims, m) /\ UNCHANGED delivered
    ELSE claims' = Append(Tail(claims), m) /\ delivered' = delivered \ {Head(claims)}

MarkDelivered(m) ==
    delivered' = IF m \in Claimed THEN delivered \cup {m} ELSE delivered

\* The keys without that of m.
Without(m) ==
    IF m \in Claimed THEN RemoveAt(claims, CHOOSE i \in DOMAIN claims : claims[i] = m) ELSE claims

Release(m) == claims' = IF m \in delivered THEN claims ELSE Without(m)

\* _prune_locked: a claim lasts longer than the platform goes on retrying.
Expire(m) ==
    /\ m \in Claimed
    /\ \A c \in Of(m) : copy[c] \in Over
    /\ claims' = Without(m)
    /\ delivered' = delivered \ {m}
    /\ UNCHANGED <<vars, copy, part, turn, whole>>
-----------------------------------------------------------------------------
(* One delivery.                                                              *)

Arrive(c) ==
    /\ copy[c] = "away"
    /\ Usable /\ phase[active] = "reading"
    /\ IF MessageOf[c] \in Claimed
       THEN Becomes(c, "duplicate") /\ UNCHANGED <<claims, delivered>>
       ELSE Becomes(c, "queued") /\ Claim(MessageOf[c])
    /\ UNCHANGED <<vars, part, turn, whole>>

TakeTurn(c) ==
    /\ copy[c] = "queued" /\ turn = None
    /\ turn' = c
    /\ Becomes(c, "replying")
    /\ UNCHANGED <<vars, part, claims, delivered, whole>>

\* The flow returns no message: nothing to say, or a line for somebody else.
StaysQuiet(c) ==
    /\ copy[c] = "replying"
    /\ Becomes(c, "quiet")
    /\ turn' = None
    /\ UNCHANGED <<vars, part, claims, delivered, whole>>

\* Mutant: the error is answered with a status and the claim stays.
FailKeepingClaim(c) ==
    /\ Becomes(c, "failed")
    /\ turn' = None
    /\ UNCHANGED <<part, claims, delivered, whole>>

\* An Exception leaves handle_event_async; the claim is released.
Fail(c) ==
    /\ Becomes(c, "failed")
    /\ turn' = None
    /\ Release(MessageOf[c])
    /\ UNCHANGED <<part, delivered, whole>>

ReplyFails(c) == copy[c] = "replying" /\ Fail(c) /\ UNCHANGED vars

SendFirst(c) ==
    /\ copy[c] = "replying"
    /\ Becomes(c, "sending")
    /\ Ask(<<c, 1>>)
    /\ UNCHANGED <<part, claims, delivered, turn, whole>>

\* _asend_parts: one part after the other, each confirmed before the next.
SendNext(c) ==
    /\ copy[c] = "sending" /\ req[<<c, part[c]>>] = "ok"
    /\ part[c] < Parts
    /\ part' = [part EXCEPT ![c] = @ + 1]
    /\ Ask(<<c, part[c] + 1>>)
    /\ UNCHANGED <<copy, claims, delivered, turn, whole>>

\* Mutant: the claim is to be marked after the bookkeeping.
AllSentUnmarked(c) ==
    /\ copy[c] = "sending" /\ req[<<c, part[c]>>] = "ok"
    /\ part[c] = Parts
    /\ Becomes(c, "sent")
    /\ whole' = [whole EXCEPT ![MessageOf[c]] = @ + 1]
    /\ UNCHANGED <<vars, part, claims, delivered, turn>>

\* The last part is confirmed: the claim is marked before any bookkeeping.
AllSent(c) ==
    /\ copy[c] = "sending" /\ req[<<c, part[c]>>] = "ok"
    /\ part[c] = Parts
    /\ Becomes(c, "sent")
    /\ MarkDelivered(MessageOf[c])
    /\ whole' = [whole EXCEPT ![MessageOf[c]] = @ + 1]
    /\ UNCHANGED <<vars, part, claims, turn>>

PartFails(c) ==
    /\ copy[c] = "sending"
    /\ req[<<c, part[c]>>] \in {"error", "rejected", "timeout"}
    /\ Fail(c)
    /\ UNCHANGED vars

\* Mutant: the chat's lock is given back by the error path alone.
PartCancelledLocked(c) ==
    /\ copy[c] = "sending" /\ req[<<c, part[c]>>] = "cancelled"
    /\ Becomes(c, "cancelled")
    /\ UNCHANGED <<vars, part, claims, delivered, turn, whole>>

\* CancelledError is no Exception: handle_json_async releases nothing, only the
\* lock is given back on the way out.
PartCancelled(c) ==
    /\ copy[c] = "sending" /\ req[<<c, part[c]>>] = "cancelled"
    /\ Becomes(c, "cancelled")
    /\ turn' = None
    /\ UNCHANGED <<vars, part, claims, delivered, whole>>

\* History, bonds, behaviour events and the follow-up window.
KeepsBooks(c) ==
    /\ copy[c] = "sent"
    /\ Becomes(c, "answered")
    /\ turn' = None
    /\ UNCHANGED <<vars, part, claims, delivered, whole>>

BooksFail(c) == copy[c] = "sent" /\ Fail(c) /\ UNCHANGED vars
-----------------------------------------------------------------------------
Handle(c) ==
    \/ TakeTurn(c) \/ StaysQuiet(c) \/ ReplyFails(c) \/ SendFirst(c) \/ SendNext(c)
    \/ AllSent(c) \/ PartFails(c) \/ PartCancelled(c) \/ KeepsBooks(c) \/ BooksFail(c)

Next ==
    \/ (LinkStep \/ \E r \in Requests : CallStep(r)) /\ UNCHANGED handlerVars
    \/ \E c \in Copies : Arrive(c) \/ Handle(c)
    \/ \E m \in Messages : Expire(m)

Spec == Init /\ [][Next]_allVars

\* The event loop runs every handler that can go on, the lock is passed on in
\* turn, and the link behaves as OneBotLink assumes.
FairSpec ==
    /\ Spec
    /\ \A c \in Copies : WF_allVars(Handle(c)) /\ SF_allVars(TakeTurn(c))
    /\ \A r \in Requests : WF_allVars(CallStep(r) /\ UNCHANGED handlerVars)
-----------------------------------------------------------------------------
(* However often the platform repeats a message - after a timeout, after a    *)
(* reconnect, while the first copy is being answered or after its bookkeeping *)
(* failed - at most one whole answer to it is confirmed (claim, mark_delivered*)
(* and release of the deduplicator around emitter.aemit).  Assumes the table  *)
(* holds every message that may still be repeated.                            *)
AnsweredOnce == \A m \in Messages : whole[m] <= 1

(* The table stays within its bound, remembers as delivered only what it      *)
(* holds, and while no entry had to make room every message being answered    *)
(* holds its claim: with one handler alone.                                   *)
ClaimsAgree ==
    /\ Len(claims) <= MaxEntries /\ IsInjective(claims)
    /\ delivered \subseteq Claimed
    /\ Cardinality({MessageOf[c] : c \in {d \in Copies : copy[d] # "away"}}) <= MaxEntries =>
         \A m \in Messages :
            LET busy == {c \in Of(m) : copy[c] \in Handling}
            IN  Cardinality(busy) <= 1 /\ (busy # {} => m \in Claimed)

(* A claim is released when handling fails, so the retry is answered          *)
(* (gateways/inbound_dedup.py:15-16): once a copy has failed without a whole  *)
(* answer and no other copy is being handled, the message can be claimed      *)
(* again.  A copy that was cancelled keeps its claim, see the README.         *)
FailureReleases ==
    \A m \in Messages :
        LET phases == {copy[c] : c \in Of(m)}
        IN  /\ "failed" \in phases /\ whole[m] = 0
            /\ phases \cap (Handling \cup {"quiet", "cancelled"}) = {}
            => m \notin Claimed

(* The deduplicator's table tells what is being answered, was answered, and   *)
(* may be answered again.                                                     *)
DedupAgrees == TypeOK /\ ClaimsAgree /\ FailureReleases

(* Every delivery ends and gives the chat back, whatever the link does to the *)
(* answer: a lost connection or a silent platform blocks nobody behind it.    *)
DeliveriesEnd == \A c \in Copies : copy[c] = "queued" ~> copy[c] \in Over
=============================================================================
