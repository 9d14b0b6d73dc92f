----------------------------- MODULE SessionLock ------------------------------
(***************************************************************************)
(* SessionLock: one lock, shared by tasks of several event loops and by     *)
(* threads that run outside them.  A release hands the lock to the first    *)
(* waiter in two steps: under the guard it marks the waiter granted, and    *)
(* outside it posts a callback to the waiter's loop, which completes the    *)
(* waiter's future.  A waiter may be cancelled, and a loop may close, before *)
(* or after each of them.                                                   *)
(*                                                                         *)
(* A task stands for one acquisition and its release: each acquisition has  *)
(* a waiter of its own, so a caller that comes again is another task.       *)
(***************************************************************************)
EXTENDS Naturals, FiniteSets

CONSTANTS
  Tasks,      \* acquisitions
  Threads,    \* those of threads outside any loop: hold()
  Loops,      \* event loops
  LoopOf,     \* the loop each acquisition waits on; of its own for a thread
  Transient   \* loops that close while the program runs

ASSUME LockAssumption ==
  /\ Threads \subseteq Tasks
  /\ LoopOf \in [Tasks -> Loops]
  /\ Transient \subseteq Loops
  /\ \A t \in Threads, u \in Tasks : LoopOf[t] = LoopOf[u] => t = u

VARIABLES
  held,       \* _held
  ticket,     \* _waiters: the place of each waiter, 0 if it is not in there
  arrivals,   \* tickets given out
  pc,         \* where each task is
  granted,    \* waiters with granted = True
  target,     \* the waiter a releasing task has just granted
  scheduled,  \* _complete callbacks posted to loops
  closed      \* loops that are closed

vars == <<held, ticket, arrivals, pc, granted, target, scheduled, closed>>

TypeOK ==
  /\ held \in BOOLEAN
  /\ arrivals \in Nat
  /\ ticket \in [Tasks -> 0..arrivals]
  /\ pc \in [Tasks -> {"new", "waiting", "woken", "cancelled", "holding", "releasing",
                       "scheduling", "done"}]
  /\ granted \subseteq Tasks
  /\ target \in [Tasks -> Tasks]
  /\ scheduled \subseteq Tasks
  /\ closed \subseteq Transient

Init ==
  /\ held = FALSE
  /\ ticket = [t \in Tasks |-> 0]
  /\ arrivals = 0
  /\ pc = [t \in Tasks |-> "new"]
  /\ granted = {}
  /\ target = [t \in Tasks |-> t]
  /\ scheduled = {}
  /\ closed = {}

GoTo(t, place) == pc' = [pc EXCEPT ![t] = place]
Open(t) == LoopOf[t] \notin closed

\* A task runs when no other task of its loop is within release, which does not
\* await anything.  A thread goes on after the loop it waited on has closed.
Turn(t) ==
  /\ Open(t) \/ t \in Threads
  /\ \A u \in Tasks : LoopOf[u] = LoopOf[t] /\ pc[u] \in {"releasing", "scheduling"} => u = t

-----------------------------------------------------------------------------
(* acquire *)

Acquire(t) ==
  /\ pc[t] = "new" /\ Turn(t)
  /\ ~held
  /\ held' = TRUE
  /\ GoTo(t, "holding")
  /\ UNCHANGED <<ticket, arrivals, granted, target, scheduled, closed>>

Wait(t) ==
  /\ pc[t] = "new" /\ Turn(t)
  /\ held
  /\ arrivals' = arrivals + 1
  /\ ticket' = [ticket EXCEPT ![t] = arrivals + 1]
  /\ GoTo(t, "waiting")
  /\ UNCHANGED <<held, granted, target, scheduled, closed>>

\* The future is done and its task runs again.
Resume(t) ==
  /\ pc[t] = "woken" /\ Turn(t)
  /\ GoTo(t, "holding")
  /\ UNCHANGED <<held, ticket, arrivals, granted, target, scheduled, closed>>

\* Task.cancel, before or after the future is done.  Nobody cancels the task
\* that asyncio.run runs for a thread in hold().
Cancel(t) ==
  /\ t \notin Threads
  /\ pc[t] \in {"waiting", "woken"} /\ Turn(t)
  /\ GoTo(t, "cancelled")
  /\ UNCHANGED <<held, ticket, arrivals, granted, target, scheduled, closed>>

\* (mutants) the grant is not looked at; a granted waiter just leaves
HandleCancelReleasing(t) ==
  /\ pc[t] = "cancelled" /\ Turn(t)
  /\ ticket' = [ticket EXCEPT ![t] = 0]
  /\ GoTo(t, "releasing")
  /\ UNCHANGED <<held, arrivals, granted, target, scheduled, closed>>
HandleCancelLeaving(t) ==
  /\ pc[t] = "cancelled" /\ Turn(t)
  /\ ticket' = [ticket EXCEPT ![t] = 0]
  /\ GoTo(t, "done")
  /\ UNCHANGED <<held, arrivals, granted, target, scheduled, closed>>

\* The handler of CancelledError: a waiter that was granted the lock passes it
\* on, any other leaves the queue.
HandleCancel(t) ==
  /\ pc[t] = "cancelled" /\ Turn(t)
  /\ ticket' = [ticket EXCEPT ![t] = 0]
  /\ GoTo(t, IF t \in granted THEN "releasing" ELSE "done")
  /\ UNCHANGED <<held, arrivals, granted, target, scheduled, closed>>

-----------------------------------------------------------------------------
(* release *)

Releasing(t) == pc[t] \in {"holding", "releasing"}
Queued(t)    == ticket[t] > 0
Skipped(t)   == pc[t] = "cancelled" \/ ~Open(t)

\* The first waiter that is neither cancelled nor on a closed loop.
First(w) ==
  /\ Queued(w) /\ ~Skipped(w)
  /\ \A u \in Tasks : Queued(u) /\ ticket[u] < ticket[w] => Skipped(u)

\* (mutant) the lock is free until the waiter wakes
PassFree(t, w) ==
  /\ Releasing(t) /\ Turn(t) /\ held
  /\ First(w)
  /\ held' = FALSE
  /\ ticket' = [u \in Tasks |-> IF ticket[u] <= ticket[w] THEN 0 ELSE ticket[u]]
  /\ granted' = granted \cup {w}
  /\ target' = [target EXCEPT ![t] = w]
  /\ GoTo(t, "scheduling")
  /\ UNCHANGED <<arrivals, scheduled, closed>>

\* Under the guard: the lock stays held and is the waiter's.
Pass(t, w) ==
  /\ Releasing(t) /\ Turn(t) /\ held
  /\ First(w)
  /\ ticket' = [u \in Tasks |-> IF ticket[u] <= ticket[w] THEN 0 ELSE ticket[u]]
  /\ granted' = granted \cup {w}
  /\ target' = [target EXCEPT ![t] = w]
  /\ GoTo(t, "scheduling")
  /\ UNCHANGED <<held, arrivals, scheduled, closed>>

\* (mutant) only the first waiter is looked at
FreeAtFirst(t) ==
  /\ Releasing(t) /\ Turn(t) /\ held
  /\ \A u \in Tasks : Queued(u) /\ ~Skipped(u) => \E v \in Tasks : Queued(v) /\ ticket[v] < ticket[u]
  /\ held' = FALSE
  /\ ticket' = [u \in Tasks |-> IF Skipped(u) THEN 0 ELSE ticket[u]]
  /\ GoTo(t, "done")
  /\ UNCHANGED <<arrivals, granted, target, scheduled, closed>>

Free(t) ==
  /\ Releasing(t) /\ Turn(t) /\ held
  /\ \A u \in Tasks : Queued(u) => Skipped(u)
  /\ held' = FALSE
  /\ ticket' = [u \in Tasks |-> 0]
  /\ GoTo(t, "done")
  /\ UNCHANGED <<arrivals, granted, target, scheduled, closed>>

\* RuntimeError: release of an unlocked session lock.
Refused(t) ==
  /\ Releasing(t) /\ Turn(t) /\ ~held
  /\ GoTo(t, "done")
  /\ UNCHANGED <<held, ticket, arrivals, granted, target, scheduled, closed>>

\* Outside the guard: call_soon_threadsafe.
Schedule(t) ==
  /\ pc[t] = "scheduling"
  /\ Open(target[t])
  /\ scheduled' = scheduled \cup {target[t]}
  /\ GoTo(t, "done")
  /\ UNCHANGED <<held, ticket, arrivals, granted, target, closed>>

\* Its RuntimeError: the loop has closed meanwhile, and release runs again.
ScheduleFails(t) ==
  /\ pc[t] = "scheduling"
  /\ ~Open(target[t])
  /\ GoTo(t, "releasing")
  /\ UNCHANGED <<held, ticket, arrivals, granted, target, scheduled, closed>>

\* _complete on the waiter's loop: nothing to do once the future is cancelled.
Complete(w) ==
  /\ w \in scheduled /\ Open(w) /\ Turn(w)
  /\ scheduled' = scheduled \ {w}
  /\ GoTo(w, IF pc[w] = "waiting" THEN "woken" ELSE pc[w])
  /\ UNCHANGED <<held, ticket, arrivals, granted, target, closed>>

\* A loop closes when its tasks have ended, which a shutdown waits for after it
\* has cancelled them; a thread's, when its acquire has returned.
Ended(t) == pc[t] \in IF t \in Threads THEN {"holding", "releasing", "scheduling", "done"}
                                     ELSE {"new", "done"}
Close(l) ==
  /\ l \in Transient \ closed
  /\ \A t \in Tasks : LoopOf[t] = l => Ended(t)
  /\ closed' = closed \cup {l}
  /\ UNCHANGED <<held, ticket, arrivals, pc, granted, target, scheduled>>

\* The web server gives up waiting and closes its loop over suspended tasks.
Abandon(l) ==
  /\ l \in Transient \ closed
  /\ \A t \in Tasks : LoopOf[t] = l => t \notin Threads /\ pc[t] \notin {"releasing", "scheduling"}
  /\ \E t \in Tasks : LoopOf[t] = l /\ ~Ended(t)
  /\ closed' = closed \cup {l}
  /\ UNCHANGED <<held, ticket, arrivals, pc, granted, target, scheduled>>

-----------------------------------------------------------------------------
Release(t) == (\E w \in Tasks : Pass(t, w)) \/ Free(t) \/ Refused(t)
Post(t)    == Schedule(t) \/ ScheduleFails(t)

Next ==
  \/ \E t \in Tasks :
       \/ Acquire(t) \/ Wait(t) \/ Resume(t)
       \/ Cancel(t) \/ HandleCancel(t)
       \/ Release(t) \/ Post(t) \/ Complete(t)
  \/ \E l \in Loops : Close(l) \/ Abandon(l)

Spec == Init /\ [][Next]_vars

\* Loops run their callbacks and tasks, and whoever holds the lock releases it.
Fairness ==
  \A t \in Tasks : /\ WF_vars(Resume(t)) /\ WF_vars(HandleCancel(t)) /\ WF_vars(Release(t))
                   /\ WF_vars(Post(t)) /\ WF_vars(Complete(t))

FairSpec == Spec /\ Fairness

-----------------------------------------------------------------------------
(* Properties *)

\* No loop of a task has closed; those of threads come and go.
LoopsOpen == \A t \in Tasks \ Threads : Open(t)

\* Those the lock belongs to: from the grant on, whether they know it or not.
Owner(t) == \/ pc[t] \in {"holding", "releasing"}
            \/ t \in granted /\ pc[t] \in {"waiting", "woken", "cancelled"}

\* No two tasks hold the lock, whatever is cancelled between the grant and the
\* wake-up ("Cancellation-safe locks", session_lock.py).
MutualExclusion ==
  \A t, u \in Tasks : pc[t] = "holding" /\ pc[u] = "holding" => t = u

\* So it is until the first loop of a task closes.
ExclusiveWhileOpen == LoopsOpen => MutualExclusion

\* Until then a lock that is held has an owner who will release it: a cancelled
\* waiter that was just granted the lock takes it with it to nobody.
NeverLost == LoopsOpen /\ held => \E t \in Tasks : Owner(t)

\* And a newcomer takes the lock only when nobody waits for it, not even a waiter
\* that has been granted it and sleeps.
NoOvertaking ==
  [][\A t \in Tasks : LoopsOpen /\ pc[t] = "new" /\ pc'[t] = "holding" =>
       \A u \in Tasks : pc[u] \notin {"waiting", "woken"}]_vars

\* Every waiter is served or cancelled, past others that are cancelled or on a
\* loop that closed under them; unless its own loop or the owner's has closed.
WaitersServed ==
  \A t \in Tasks : pc[t] = "waiting" ~> \/ pc[t] # "waiting"
                                       \/ \E u \in Tasks \ Threads : ~Open(u) /\ (u = t \/ Owner(u))
=============================================================================
