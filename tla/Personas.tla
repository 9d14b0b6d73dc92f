------------------------------ MODULE Personas ------------------------------
(* One character at a time answers every chat: the leases that replies hold   *)
(* on its stores (runtime/service.py), the switch of characters from a chat   *)
(* or the console (character/service.py, character/switcher.py), and the      *)
(* shutdown of the server around them (web/http_api_async.py).                *)
(*                                                                            *)
(* A message is "away", "held" (wait_for_switch), "leased" (counted in        *)
(* _active_events), "replying" as a character, "done" or "refused".  A switch *)
(* is "unused", "ready", "trying" (its thread is in activate_character),      *)
(* "noticing" (asks for patience), "greeting", "done" or "cancelled".         *)
EXTENDS FiniteSets, Naturals

CONSTANTS Characters, First,   \* First: the character at the start
          Messages,
          Unasked,     \* those that are chime-ins or the character's own openings
          Switches,    \* switching commands obeyed
          Console,     \* whether the console may switch as well
          StoresFail,  \* whether opening the stores of a character may fail
          None

ASSUME PersonasAssumption ==
    /\ First \in Characters /\ None \notin Characters \cup Switches
    /\ Unasked \subseteq Messages
    /\ Console \in BOOLEAN /\ StoresFail \in BOOLEAN

VARIABLES
    active,     \* the active character as saved
    bound,      \* the character whose stores are open
    reply,      \* [Messages -> [phase, as]]
    work,       \* _background_tasks: [Messages -> write-backs of a reply]
    switch,     \* [Switches -> [phase, to]]
    current,    \* CharacterSwitcher._task
    threads,    \* switches with a thread that is to activate their character
    server      \* "serving", "draining", "idle", "closed", "failed"

stores == <<active, bound>>
vars == <<stores, reply, work, switch, current, threads, server>>

Someone == Characters \cup {None}

TypeOK ==
    /\ active \in Characters /\ bound \in Characters
    /\ reply \in [Messages -> [phase : {"away", "held", "leased", "replying", "done", "refused"},
                               as : Someone]]
    /\ work \in [Messages -> [phase : {"none", "pending", "done"}, as : Someone]]
    /\ switch \in [Switches -> [phase : {"unused", "ready", "trying", "noticing", "greeting",
                                         "done", "cancelled"},
                                to : Someone]]
    /\ current \in Switches \cup {None}
    /\ threads \subseteq Switches
    /\ server \in {"serving", "draining", "idle", "closed", "failed"}

Init ==
    /\ active = First /\ bound = First
    /\ reply = [m \in Messages |-> [phase |-> "away", as |-> None]]
    /\ work = [m \in Messages |-> [phase |-> "none", as |-> None]]
    /\ switch = [s \in Switches |-> [phase |-> "unused", to |-> None]]
    /\ current = None /\ threads = {}
    /\ server = "serving"

Closing == server # "serving"
ActiveEvents == {m \in Messages : reply[m].phase \in {"leased", "replying"}}
Pending == {m \in Messages : work[m].phase = "pending"}
Unfinished(s) == switch[s].phase \notin {"unused", "done", "cancelled"}

\* runtime_mutation refuses.
Busy == ActiveEvents # {} \/ Pending # {}
-----------------------------------------------------------------------------
(* Messages.                                                                  *)

Arrive(m) ==
    /\ reply[m].phase = "away" /\ server \in {"serving", "draining"}
    /\ reply' = [reply EXCEPT ![m].phase = "held"]
    /\ UNCHANGED <<stores, work, switch, current, threads, server>>

\* wait_for_switch: a message waits for the switch to end, except that a
\* greeting which takes very long is not waited for.
PastSwitch(m) ==
    ~(m \notin Unasked /\ current # None /\ switch[current].phase \in {"ready", "trying", "noticing"})

Refuse(m) ==
    /\ reply[m].phase = "held" /\ PastSwitch(m)
    /\ Closing \/ (StoresFail /\ bound # active)
    /\ reply' = [reply EXCEPT ![m].phase = "refused"]
    /\ UNCHANGED <<stores, work, switch, current, threads, server>>

\* Under the runtime guard: the stores follow the active character, the lease
\* is counted.
Lease(m) ==
    /\ reply[m].phase = "held" /\ PastSwitch(m)
    /\ ~Closing
    /\ bound' = active
    /\ reply' = [reply EXCEPT ![m].phase = "leased"]
    /\ UNCHANGED <<active, work, switch, current, threads, server>>

\* The chat's lock is acquired: current_character is read for the whole reply.
Begin(m) ==
    /\ reply[m].phase = "leased"
    /\ reply' = [reply EXCEPT ![m] = [phase |-> "replying", as |-> active]]
    /\ UNCHANGED <<stores, work, switch, current, threads, server>>

Finish(m) == reply' = [reply EXCEPT ![m].phase = "done"]

\* Mutant: the lease is given back first, and the work counted by its own task.
AnswerThenWork(m) ==
    \/ /\ reply[m].phase = "replying"
       /\ Finish(m)
       /\ UNCHANGED <<stores, work, switch, current, threads, server>>
    \/ /\ reply[m].phase = "done" /\ work[m].phase = "none"
       /\ work' = [work EXCEPT ![m] = [phase |-> "pending", as |-> reply[m].as]]
       /\ UNCHANGED <<stores, reply, switch, current, threads, server>>

\* The reply is sent and saved; what it leaves to do (a delayed send, the
\* archive, knowledge) is counted before the lease is given back.
Answer(m) ==
    /\ reply[m].phase = "replying"
    /\ Finish(m)
    /\ \/ UNCHANGED work
       \/ work' = [work EXCEPT ![m] = [phase |-> "pending", as |-> reply[m].as]]
    /\ UNCHANGED <<stores, switch, current, threads, server>>

WorkDone(m) ==
    /\ work[m].phase = "pending"
    /\ work' = [work EXCEPT ![m].phase = "done"]
    /\ UNCHANGED <<stores, reply, switch, current, threads, server>>
-----------------------------------------------------------------------------
(* Switching.                                                                 *)

\* _start: the newest command replaces the one still under way.  Its thread,
\* if it has one, cannot be cancelled.
Command(m, s, c) ==
    /\ reply[m].phase = "replying" /\ m \notin Unasked
    /\ c # active
    /\ switch[s].phase = "unused"
    /\ Finish(m)
    /\ switch' = [t \in Switches |->
         CASE t = s -> [phase |-> "ready", to |-> c]
           [] t = current /\ Unfinished(t) -> [switch[t] EXCEPT !.phase = "cancelled"]
           [] OTHER -> switch[t]]
    /\ current' = s
    /\ UNCHANGED <<stores, work, threads, server>>

Moves(s, p) == switch' = [switch EXCEPT ![s].phase = p]

Try(s) ==
    /\ switch[s].phase = "ready"
    /\ IF Closing
       THEN Moves(s, "done") /\ UNCHANGED threads
       ELSE Moves(s, "trying") /\ threads' = threads \cup {s}
    /\ UNCHANGED <<stores, reply, work, current, server>>

\* activate_character while something runs: the switch tries again, says that
\* it waits, or gives up; a cancelled one hears nothing.
StillBusy(s) ==
    /\ s \in threads /\ Busy
    /\ threads' = threads \ {s}
    /\ IF switch[s].phase # "trying" THEN UNCHANGED switch
       ELSE Moves(s, "ready") \/ Moves(s, "noticing")
    /\ UNCHANGED <<stores, reply, work, current, server>>

\* set_active_character, then _rebind_character_scoped_storage.
Activate(c, opened) ==
    /\ ~Busy
    /\ active' = c
    /\ bound' = IF opened THEN c ELSE bound

Activated(s) ==
    /\ s \in threads
    /\ Activate(switch[s].to, TRUE)
    /\ threads' = threads \ {s}
    /\ IF switch[s].phase # "trying" THEN UNCHANGED switch
       ELSE Moves(s, "greeting")
    /\ UNCHANGED <<reply, work, current, server>>

\* Mutant: the exception of the thread is swallowed and its task left waiting.
ActivationFailsHangs(s) ==
    /\ StoresFail /\ s \in threads
    /\ Activate(switch[s].to, FALSE)
    /\ threads' = threads \ {s}
    /\ UNCHANGED <<reply, work, switch, current, server>>

ActivationFails(s) ==
    /\ StoresFail /\ s \in threads
    /\ Activate(switch[s].to, FALSE)
    /\ threads' = threads \ {s}
    /\ IF switch[s].phase # "trying" THEN UNCHANGED switch ELSE Moves(s, "done")
    /\ UNCHANGED <<reply, work, current, server>>

\* _say: sent and then saved, without a lease.  After a notice the switch goes
\* on or has given up.
Said(s) ==
    /\ \/ switch[s].phase = "noticing" /\ (Moves(s, "ready") \/ Moves(s, "done"))
       \/ switch[s].phase = "greeting" /\ Moves(s, "done")
    /\ UNCHANGED <<stores, reply, work, current, threads, server>>

ConsoleSwitch(c) ==
    /\ Console /\ server \in {"serving", "draining"}
    /\ Activate(c, TRUE) \/ (StoresFail /\ Activate(c, FALSE))
    /\ UNCHANGED <<reply, work, switch, current, threads, server>>
-----------------------------------------------------------------------------
(* Shutdown.                                                                  *)

BeginShutdown ==
    /\ server = "serving" /\ server' = "draining"
    /\ UNCHANGED <<stores, reply, work, switch, current, threads>>

\* wait_idle; then the tasks that are left are cancelled.
Drained ==
    /\ server = "draining" /\ ActiveEvents = {} /\ Pending = {}
    /\ server' = "idle"
    /\ switch' = [s \in Switches |->
         IF Unfinished(s) THEN [switch[s] EXCEPT !.phase = "cancelled"] ELSE switch[s]]
    /\ reply' = [m \in Messages |->
         IF reply[m].phase = "held" THEN [reply[m] EXCEPT !.phase = "refused"] ELSE reply[m]]
    /\ UNCHANGED <<stores, work, current, threads>>

\* wait_idle times out: the stores are left open.
DrainTimesOut ==
    /\ server = "draining" /\ Busy
    /\ server' = "failed"
    /\ UNCHANGED <<stores, reply, work, switch, current, threads>>

Close ==
    /\ server = "idle" /\ ActiveEvents = {} /\ Pending = {}
    /\ server' = "closed"
    /\ UNCHANGED <<stores, reply, work, switch, current, threads>>
-----------------------------------------------------------------------------
Handle(m) == Refuse(m) \/ Lease(m) \/ Begin(m) \/ Answer(m) \/ WorkDone(m)

Thread(s) == StillBusy(s) \/ Activated(s) \/ ActivationFails(s)

Next ==
    \/ \E m \in Messages : Arrive(m) \/ Handle(m)
    \/ \E m \in Messages, s \in Switches, c \in Characters : Command(m, s, c)
    \/ \E s \in Switches : Try(s) \/ Thread(s) \/ Said(s)
    \/ \E c \in Characters : ConsoleSwitch(c)
    \/ BeginShutdown \/ Drained \/ DrainTimesOut \/ Close

Spec == Init /\ [][Next]_vars

\* Replies, write-backs, threads and sends end; the server goes on with its
\* shutdown once it began.
FairSpec ==
    /\ Spec
    /\ \A m \in Messages : WF_vars(Handle(m))
    /\ \A s \in Switches : WF_vars(Try(s) \/ Said(s)) /\ WF_vars(Thread(s))
    /\ WF_vars(Drained \/ DrainTimesOut) /\ WF_vars(Close)
-----------------------------------------------------------------------------
(* Whatever is being answered, or written back after an answer, belongs to    *)
(* the character whose stores are open, so that no switch - from a chat, the  *)
(* console, or a switch that was cancelled - redirects it into the memory of  *)
(* another (runtime_mutation, _process_event_async, _track_async_task).       *)
OneVoice ==
    /\ \A m \in Messages : reply[m].phase = "replying" => reply[m].as = bound
    /\ \A m \in Pending : work[m].as = bound

(* The stores are closed only when no reply and no write-back is left         *)
(* (AsyncCompatServer._cleanup: "Do not close the store beneath a worker that *)
(* still owns it").                                                           *)
ClosedLast == server = "closed" => ActiveEvents = {} /\ Pending = {}

(* The character in place, its stores and those who use them agree.           *)
StoresAgree == TypeOK /\ OneVoice /\ ClosedLast

(* Every message is answered or refused, whatever switches, and the shutdown  *)
(* ends: with the stores closed, or left open because it timed out.           *)
MessagesEnd == \A m \in Messages : reply[m].phase = "held" ~> reply[m].phase \in {"done", "refused"}
ShutdownEnds == Closing ~> server \in {"closed", "failed"}

(* Neither a switch nor the shutdown keeps anybody waiting for ever.          *)
NobodyWaits == MessagesEnd /\ ShutdownEnds
=============================================================================
