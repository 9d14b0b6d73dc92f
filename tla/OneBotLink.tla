----------------------------- MODULE OneBotLink -----------------------------
(* The reverse WebSocket of the OneBot gateway (gateways/onebot_ws.py): the   *)
(* platform connects, and may connect again while an older connection is      *)
(* still open; requests are written under one lock and matched to their       *)
(* answers by a fresh echo each.  One event loop owns the gateway; a caller   *)
(* on another loop sees the same outcomes.                                    *)
(*                                                                            *)
(* A connection: "away", "arriving" (accepted, not yet active), "reading",    *)
(* "gone".  A request: "idle", "waiting" for the lock, "writing" with it,     *)
(* "awaiting" its answer, or one of Outcomes.                                 *)
EXTENDS FiniteSets, Naturals

CONSTANTS Links,     \* connections the platform opens
          Requests,  \* one per call of send_action: an echo is never used again
          None       \* no connection, no lock holder

ASSUME NoneIsNothing == None \notin Links \cup Requests

VARIABLES
    phase,     \* _ws handlers: [Links -> phase]
    open,      \* links whose socket is open
    active,    \* _active_ws
    writer,    \* the request that holds _ws_lock, or None
    req,       \* [Requests -> phase of the request]
    via,       \* [Requests -> the link it was written to]
    pending,   \* _pending_echos
    future,    \* [Requests -> "unset", "set" or "cancelled"]
    wire       \* answers the platform has yet to send or we to read

linkVars == <<phase, open, active, writer>>
callVars == <<req, via, pending, future, wire>>
vars == <<linkVars, callVars>>

Outcomes == {"ok", "rejected", "error", "timeout", "cancelled"}

LinkTypeOK ==
    /\ phase \in [Links -> {"away", "arriving", "reading", "gone"}]
    /\ open \subseteq Links
    /\ active \in Links \cup {None}
    /\ writer \in Requests \cup {None}
    /\ req \in [Requests -> {"idle", "waiting", "writing", "awaiting"} \cup Outcomes]
    /\ via \in [Requests -> Links \cup {None}]
    /\ pending \subseteq Requests
    /\ future \in [Requests -> {"unset", "set", "cancelled"}]
    /\ wire \subseteq Requests

LinkInit ==
    /\ phase = [w \in Links |-> "away"]
    /\ open = {}
    /\ active = None
    /\ writer = None
    /\ req = [r \in Requests |-> "idle"]
    /\ via = [r \in Requests |-> None]
    /\ pending = {}
    /\ future = [r \in Requests |-> "unset"]
    /\ wire = {}
-----------------------------------------------------------------------------
(* Connections.  _activate, _deactivate and _close wait for the lock and do   *)
(* not give it up in between, so each is one step taken while no request is   *)
(* being written.                                                             *)

\* Mutant: the requests of the replaced connection are left waiting.
KeepPending == UNCHANGED <<pending, future>>

\* _cancel_pending: every answer still awaited is given up, at once.
CancelPending ==
    /\ pending' = {}
    /\ future' = [r \in Requests |->
                    IF r \in pending /\ future[r] = "unset" THEN "cancelled" ELSE future[r]]

Connect(w) ==
    /\ phase[w] = "away"
    /\ phase' = [phase EXCEPT ![w] = "arriving"]
    /\ open' = open \cup {w}
    /\ UNCHANGED <<active, writer, callVars>>

\* _activate: the newest connection replaces the active one, which is closed.
Activate(w) ==
    /\ phase[w] = "arriving"
    /\ writer = None
    /\ phase' = [phase EXCEPT ![w] = "reading"]
    /\ open' = open \ {active}
    /\ active' = w
    /\ CancelPending
    /\ UNCHANGED <<writer, req, via, wire>>

\* The peer or the network closes the socket.
Drop(w) ==
    /\ w \in open
    /\ open' = open \ {w}
    /\ UNCHANGED <<phase, active, writer, callVars>>

\* handle leaves its loop and _deactivate runs: only the active connection
\* takes the pending requests with it.
Deactivate(w) ==
    /\ phase[w] = "reading" /\ w \notin open
    /\ writer = None
    /\ phase' = [phase EXCEPT ![w] = "gone"]
    /\ IF active = w
       THEN active' = None /\ CancelPending
       ELSE UNCHANGED <<active, pending, future>>
    /\ UNCHANGED <<open, writer, req, via, wire>>

\* close: the server shuts down.
CloseGateway ==
    /\ active # None /\ writer = None
    /\ active' = None
    /\ open' = open \ {active}
    /\ CancelPending
    /\ UNCHANGED <<phase, writer, req, via, wire>>
-----------------------------------------------------------------------------
(* Requests: _send_action from the call to its finally clause.                *)

Usable == active # None /\ active \in open

Ask(r) ==
    /\ req[r] = "idle"
    /\ req' = [req EXCEPT ![r] = "waiting"]
    /\ UNCHANGED <<linkVars, via, pending, future, wire>>

\* The finally clause: the echo is forgotten, the future given up.
End(r, outcome) ==
    /\ req' = [req EXCEPT ![r] = outcome]
    /\ pending' = pending \ {r}
    /\ future' = [future EXCEPT ![r] = IF @ = "unset" THEN "cancelled" ELSE @]

NoConnection(r) ==
    /\ req[r] = "waiting" /\ writer = None
    /\ ~Usable
    /\ End(r, "error")
    /\ UNCHANGED <<linkVars, via, wire>>

BeginWrite(r) ==
    /\ req[r] = "waiting" /\ writer = None
    /\ Usable
    /\ req' = [req EXCEPT ![r] = "writing"]
    /\ via' = [via EXCEPT ![r] = active]
    /\ pending' = pending \cup {r}
    /\ writer' = r
    /\ UNCHANGED <<phase, open, active, future, wire>>

Written(r) ==
    /\ req[r] = "writing" /\ via[r] \in open
    /\ req' = [req EXCEPT ![r] = "awaiting"]
    /\ writer' = None
    /\ wire' = wire \cup {r}
    /\ UNCHANGED <<phase, open, active, via, pending, future>>

\* send_str raises: the socket closed while the request was being written.
WriteFails(r) ==
    /\ req[r] = "writing" /\ via[r] \notin open
    /\ End(r, "error")
    /\ writer' = None
    /\ UNCHANGED <<phase, open, active, via, wire>>

\* A frame with this echo is read by the handler of the link it came on.
Answer(r) ==
    /\ r \in wire
    /\ phase[via[r]] = "reading" /\ via[r] \in open
    /\ wire' = wire \ {r}
    /\ future' = IF r \in pending /\ future[r] = "unset"
                 THEN [future EXCEPT ![r] = "set"] ELSE future
    /\ UNCHANGED <<linkVars, req, via, pending>>

\* The answer reports success, or the platform refused the action.
Answered(r) ==
    /\ req[r] = "awaiting" /\ future[r] = "set"
    /\ \E outcome \in {"ok", "rejected"} : End(r, outcome)
    /\ UNCHANGED <<linkVars, via, wire>>

TimesOut(r) ==
    /\ req[r] = "awaiting" /\ future[r] = "unset"
    /\ End(r, "timeout")
    /\ UNCHANGED <<linkVars, via, wire>>

\* The future was cancelled: CancelledError is raised where the answer was
\* awaited, in the caller's own task.
GivenUp(r) ==
    /\ req[r] = "awaiting" /\ future[r] = "cancelled"
    /\ End(r, "cancelled")
    /\ UNCHANGED <<linkVars, via, wire>>
-----------------------------------------------------------------------------
LinkStep ==
    \/ \E w \in Links : Connect(w) \/ Activate(w) \/ Drop(w) \/ Deactivate(w)
    \/ CloseGateway

CallStep(r) ==
    \/ NoConnection(r) \/ BeginWrite(r) \/ Written(r) \/ WriteFails(r)
    \/ Answer(r) \/ Answered(r) \/ TimesOut(r) \/ GivenUp(r)

LinkNext == LinkStep \/ \E r \in Requests : Ask(r) \/ CallStep(r)

LinkSpec == LinkInit /\ [][LinkNext]_vars

\* The loop runs what is ready, a write ends with the socket's buffer or the
\* socket, and the timer of an awaited answer fires.
LinkFairness ==
    /\ \A r \in Requests : WF_vars(NoConnection(r) \/ BeginWrite(r))
    /\ \A r \in Requests : WF_vars(Written(r) \/ WriteFails(r))
    /\ \A r \in Requests : WF_vars(Answered(r) \/ TimesOut(r) \/ GivenUp(r))
    /\ \A w \in Links : WF_vars(Activate(w)) /\ WF_vars(Deactivate(w))

-----------------------------------------------------------------------------
(* No request waits for an answer that can no longer come: what is still      *)
(* awaited was written to the active connection, whichever connections opened *)
(* and closed around it (_activate, _deactivate, _cancel_pending).            *)
AwaitsTheLiveLink ==
    \A r \in Requests : req[r] = "awaiting" /\ future[r] = "unset" => via[r] = active

(* The table of echoes and the requests under way agree: however a request    *)
(* ends, and whatever replaced its connection, no echo is left behind, and    *)
(* every answer somebody still waits for finds its echo.                      *)
EchoesAgree ==
    \A r \in Requests :
        /\ r \in pending => req[r] \in {"writing", "awaiting"}
        /\ req[r] \in {"writing", "awaiting"} /\ future[r] = "unset" => r \in pending

(* A connection whose handler has ended is not the active one, so the next    *)
(* request is refused instead of written nowhere (OneBotWsOutboundPort        *)
(* .is_ready and _send_action rely on it); and while a connection is being    *)
(* read and open, either it or a newer one is active.                         *)
ActiveIsRead ==
    /\ active # None => phase[active] = "reading"
    /\ \A w \in Links : phase[w] = "reading" /\ w \in open => active = w

(* Connections, calls and echoes agree, with their types.                     *)
LinkAgrees == LinkTypeOK /\ AwaitsTheLiveLink /\ EchoesAgree /\ ActiveIsRead
=============================================================================
