------------------------------- MODULE Reminders -------------------------------
(***************************************************************************)
(* One-shot reminders of one private conversation: the task table, the      *)
(* occurrences a due task puts on the conversation's queue, the commands of *)
(* the user, the requests of the operator, the contact policy, and the      *)
(* worker that prepares and sends, with crashes at every point.             *)
(*                                                                         *)
(* Every action is one store transaction, under the store's lock.  Rows of  *)
(* inbox_events, with the occurrence and outbox row each one has, are the   *)
(* elements of the sequence events; the position is the sequence number.    *)
(* Erasure is not here: module RuntimeStore has it.                         *)
(***************************************************************************)
EXTENDS ContactPolicy, Sequences, Folds

CONSTANTS
  Tasks,        \* reminder tasks
  Linked,       \* the tasks linked to the remembered episode
  Characters,   \* characters a binding event may switch to
  Commands,     \* requests the user makes as commands
  Requests,     \* requests the operator makes
  Policies,     \* the contact policies people set
  FirstPolicy,  \* the policy the conversation starts with
  Grace,        \* reminder_grace_seconds
  MaxPending,   \* capacity of the inbox
  MaxOpen,      \* open reminders per conversation
  MaxTime,      \* bound: ticks
  MaxEvents,    \* bound: rows of the queue
  MaxChanges,   \* bound: changes of policy, binding, memory and switch
  MaxRequests,  \* bound: requests of the operator
  MaxCrashes    \* bound: crashes

Request == [op : {"create", "postpone", "cancel"}, task : Tasks, due : 1..MaxTime,
            zoned : BOOLEAN, quiet : BOOLEAN]

ASSUME RemindersAssumption ==
  /\ Linked \subseteq Tasks /\ Tasks \subseteq Nat \ {0} /\ IsFiniteSet(Tasks)
  /\ Commands \subseteq Request /\ Requests \subseteq Request
  /\ FirstPolicy \in Policies /\ \A p \in Policies : Valid(p)
  /\ {Grace, MaxPending, MaxOpen, MaxTime, MaxEvents, MaxChanges, MaxRequests, MaxCrashes} \subseteq Nat

VARIABLES
  now,        \* the store's clock
  task,       \* reminder_tasks, by task
  events,     \* inbox_events of the conversation, in order
  binding,    \* conversations: character_id and generation
  memory,     \* the linked memory record: version, and whether it is open
  enabled,    \* reminders_allowed: the switch and the gate
  policy,     \* contact_policies, with its version
  attempts,   \* contact_attempts
  requests,   \* reminder_requests: outcome of each user command, by its event; number of the operator's
  worker,     \* where the conversation's worker stands, and with which row
  crashes,    \* crashes so far
  changes,    \* changes of policy, binding, memory and switch so far
  \* what the people concerned know
  granted,    \* what the last successful create or postpone authorized
  stopped,    \* the tasks whose cancellation was accepted
  sends,      \* the sends that began, in order
  retries,    \* retries of each task that an operator acknowledged
  ran,        \* how often each command changed a task
  told        \* the outcomes its answers reported

tables == <<task, events, binding, memory, policy, attempts, requests>>
people == <<granted, stopped, sends, retries, ran, told>>
vars   == <<now, tables, enabled, worker, crashes, changes, people>>

Ended     == {"completed", "failed", "cancelled"}
Active    == {"enqueued", "dispatching", "needs_review"}
TaskState == Active \cup {"absent", "scheduled", "completed", "cancelled", "expired", "paused"}
NoRequest == [op |-> "none"]
NoGrant   == [due |-> 0, gen |-> 0, mem |-> 0, quiet |-> FALSE]

TypeOK ==
  /\ now \in 0..MaxTime
  /\ task \in [Tasks -> [state : TaskState, ver : Nat, due : Nat, gen : Nat, char : Characters,
                         mem : Nat, quiet : BOOLEAN, zoned : BOOLEAN, cancel : BOOLEAN]]
  /\ \A i \in DOMAIN events :
       /\ events[i].kind \in {"reminder", "command", "binding", "memory"}
       /\ events[i].state \in Ended \cup {"queued", "generating", "outbox_ready", "needs_review"}
       /\ events[i].box \in {"none", "pending", "dispatching", "accepted", "rejected", "unknown", "cancelled"}
       /\ events[i].kind = "reminder" => events[i].task \in Tasks
  /\ binding \in [char : Characters, gen : Nat]
  /\ memory \in [ver : Nat, open : BOOLEAN]
  /\ enabled \in BOOLEAN
  /\ policy \in [is : Policies, ver : Nat]
  /\ \A a \in attempts : a.at \in 0..now
  /\ requests.user \in [1..MaxEvents -> {"none", "done", "refused"}] /\ requests.admin \in Nat
  /\ worker \in [at : {"down", "idle", "command", "answered", "prepared", "sending"}, row : 0..MaxEvents]
  /\ crashes \in 0..MaxCrashes /\ changes \in 0..MaxChanges
  /\ granted \in [Tasks -> [due : Nat, gen : Nat, mem : Nat, quiet : BOOLEAN]]
  /\ stopped \subseteq Tasks
  /\ sends \in Seq([task : Tasks, at : Nat]) /\ retries \in [Tasks -> Nat]
  /\ ran \in [1..MaxEvents -> Nat] /\ told \in [1..MaxEvents -> SUBSET {"done", "refused"}]

Absent(c) == [state |-> "absent", ver |-> 1, due |-> 0, gen |-> 0, char |-> c, mem |-> 0,
              quiet |-> FALSE, zoned |-> FALSE, cancel |-> FALSE]
Row(kind) == [kind |-> kind, task |-> 0, ver |-> 0, state |-> "queued", box |-> "none",
              at |-> now, req |-> NoRequest]

Init ==
  /\ now = 0
  /\ \E c \in Characters :
       /\ binding = [char |-> c, gen |-> 1]
       /\ task = [t \in Tasks |-> Absent(c)]
  /\ events = <<>>
  /\ memory = [ver |-> 1, open |-> TRUE]
  /\ enabled = TRUE
  /\ policy = [is |-> FirstPolicy, ver |-> 1]
  /\ attempts = {}
  /\ requests = [user |-> [i \in 1..MaxEvents |-> "none"], admin |-> 0]
  /\ worker = [at |-> "idle", row |-> 0]
  /\ crashes = 0 /\ changes = 0
  /\ granted = [t \in Tasks |-> NoGrant]
  /\ stopped = {}
  /\ sends = <<>>
  /\ retries = [t \in Tasks |-> 0]
  /\ ran = [i \in 1..MaxEvents |-> 0]
  /\ told = [i \in 1..MaxEvents |-> {}]

-----------------------------------------------------------------------------
(* Queries and updates; a db is a record of the tables task and events *)

Db == [task |-> task, events |-> events]
Open(es) == {i \in DOMAIN es : es[i].state \notin Ended}
HasRoom(es) == Cardinality(Open(es)) < MaxPending /\ Len(es) < MaxEvents
IsOccurrence(e, t, ver) == e.kind = "reminder" /\ e.task = t /\ e.ver = ver
OfRow(db, i) == db.task[db.events[i].task]

MemoryChangePending(es) == \E i \in DOMAIN es : es[i].kind = "memory" /\ es[i].state = "queued"

\* Mutant: the binding is compared by character alone.
EligibilityByCharacter(db, t) ==
  LET r == db.task[t] IN
  IF r.cancel THEN "cancelled"
  ELSE IF now > r.due + Grace THEN "expired"
  ELSE IF ~enabled \/ r.char # binding.char THEN "paused"
  ELSE IF t \notin Linked \/ memory.ver = r.mem THEN "ok" ELSE "paused"

\* eligibility: the state an ineligible task falls to, "ok" otherwise.
Eligibility(db, t) ==
  LET r == db.task[t] IN
  IF r.cancel THEN "cancelled"
  ELSE IF now > r.due + Grace THEN "expired"
  ELSE IF ~enabled \/ r.char # binding.char \/ r.gen # binding.gen THEN "paused"
  ELSE IF t \notin Linked THEN "ok"
  ELSE IF MemoryChangePending(db.events) THEN "paused"
  ELSE IF ~memory.open THEN "cancelled"
  ELSE IF memory.ver # r.mem THEN "paused" ELSE "ok"

\* invalidate: withdraws the occurrence of the current version, unless its
\* send began, and moves the task on to a new version.
Invalidate(db, t, state) ==
  [task   |-> [db.task EXCEPT ![t].state = state, ![t].ver = @ + 1],
   events |-> [i \in DOMAIN db.events |->
     IF ~IsOccurrence(db.events[i], t, db.task[t].ver) THEN db.events[i]
     ELSE [db.events[i] EXCEPT
       !.box   = IF @ = "pending" THEN "cancelled" ELSE @,
       !.state = IF @ \in {"queued", "generating", "outbox_ready"} THEN "cancelled" ELSE @]]]

Blocked(r, p, used) == ~Allowed(p, used, now, "reminder", r.quiet, r.zoned)
\* contact_blocked: a blocked task that is queued leaves the queue.
Defer(db, t) ==
  IF db.task[t].state = "enqueued" THEN Invalidate(db, t, "scheduled") ELSE db

Waiting == {t \in Tasks : task[t].state \in {"scheduled", "enqueued"}}
\* ORDER BY due_at, id
LastDue(S) == CHOOSE t \in S : \A s \in S :
  task[s].due < task[t].due \/ (task[s].due = task[t].due /\ s <= t)
\* A step for every task that waits, in the order they are due.
EachWaiting(Step(_, _)) ==
  MapThenFoldSet(LAMBDA t, db : Step(db, t), Db, LAMBDA t : t, LastDue, Waiting)
HasActive(db) == \E t \in Tasks : db.task[t].state \in Active

Enqueue(db, t) ==
  [task   |-> [db.task EXCEPT ![t].state = "enqueued"],
   events |-> Append(db.events, [Row("reminder") EXCEPT !.task = t, !.ver = db.task[t].ver])]

\* Mutant: another reminder of the conversation may be under way.
MayEnqueueBeside(db, t) == db.task[t].state = "scheduled" /\ db.task[t].due <= now /\ HasRoom(db.events)

MayEnqueue(db, t) ==
  /\ db.task[t].state = "scheduled"
  /\ db.task[t].due <= now
  /\ ~HasActive(db)
  /\ HasRoom(db.events)

\* Mutant: the contact rules are asked before the window.
TickTaskContactFirst(db, t) ==
  IF db.task[t].due <= now /\ Blocked(db.task[t], policy.is, attempts) THEN Defer(db, t)
  ELSE IF Eligibility(db, t) # "ok" THEN Invalidate(db, t, Eligibility(db, t))
  ELSE IF MayEnqueue(db, t) THEN Enqueue(db, t) ELSE db

\* One iteration of tick.
TickTask(db, t) ==
  LET verdict == Eligibility(db, t) IN
  IF verdict # "ok" THEN Invalidate(db, t, verdict)
  ELSE IF db.task[t].due <= now /\ Blocked(db.task[t], policy.is, attempts) THEN Defer(db, t)
  ELSE IF MayEnqueue(db, t) THEN Enqueue(db, t) ELSE db

\* One iteration of reconcile_contact, under the policy just stored.
ReconcileTask(db, t, p) ==
  IF now > db.task[t].due + Grace THEN Invalidate(db, t, "expired")
  ELSE IF db.task[t].due <= now /\ Blocked(db.task[t], p, attempts) THEN Defer(db, t) ELSE db

Reconciled(p) == EachWaiting(LAMBDA db, t : ReconcileTask(db, t, p))

Store(db) == task' = db.task /\ events' = db.events

-----------------------------------------------------------------------------
(* Requests: of the operator, and of the user as commands in the queue *)

CountOpen == Cardinality({t \in Tasks : task[t].state \notin {"absent", "completed", "cancelled", "expired"}})

\* A time may be asked for: in the future of the request, not past its window,
\* outside quiet hours unless excepted, for an episode that is still open.
TimeAccepted(r, base) ==
  /\ enabled
  /\ r.due > base
  /\ QuietAllows(policy.is, r.due, r.quiet, r.zoned)
  /\ r.due + Grace >= now
  /\ r.task \in Linked => memory.open

CreateAccepted(r, base) ==
  task[r.task].state = "absent" /\ CountOpen < MaxOpen /\ TimeAccepted(r, base)

PostponeAccepted(r, base) ==
  /\ task[r.task].state \in {"scheduled", "enqueued", "paused", "expired"}
  /\ task[r.task].char = binding.char
  /\ TimeAccepted(r, base)

CancelAccepted(r) == task[r.task].state \notin {"absent", "completed", "cancelled"}

Accepted(r, base) ==
  CASE r.op = "create"   -> CreateAccepted(r, base)
    [] r.op = "postpone" -> PostponeAccepted(r, base)
    [] r.op = "cancel"   -> CancelAccepted(r)

LinkedVersion(t) == IF t \in Linked THEN memory.ver ELSE 0

Reschedule(db, r) ==
  [db EXCEPT !.task[r.task] =
    [@ EXCEPT !.state = "scheduled", !.due = r.due, !.gen = binding.gen, !.char = binding.char,
              !.mem = LinkedVersion(r.task), !.quiet = r.quiet, !.zoned = r.zoned, !.cancel = FALSE]]

Cancelled(db, r) ==
  IF db.task[r.task].state \in {"dispatching", "needs_review"}
  THEN [db EXCEPT !.task[r.task] = [db.task[r.task] EXCEPT !.cancel = TRUE, !.ver = @ + 1]]
  ELSE Invalidate(db, r.task, "cancelled")

\* apply_request, once it is neither a duplicate nor refused.
ApplyRequest(db, r) ==
  /\ Store(CASE r.op = "create"   -> Reschedule(db, r)
             [] r.op = "postpone" -> Reschedule(Invalidate(db, r.task, "scheduled"), r)
             [] r.op = "cancel"   -> Cancelled(db, r))
  /\ granted' = [granted EXCEPT ![r.task] =
       IF r.op = "cancel" THEN @
       ELSE [due |-> r.due, gen |-> binding.gen, mem |-> LinkedVersion(r.task), quiet |-> r.quiet]]
  /\ stopped' = IF r.op = "cancel" THEN stopped \cup {r.task} ELSE stopped

AdminRequest(r) ==
  /\ requests.admin < MaxRequests
  /\ worker.at # "down"
  /\ Accepted(r, now)
  /\ ApplyRequest(Db, r)
  /\ requests' = [requests EXCEPT !.admin = @ + 1]
  /\ UNCHANGED <<now, binding, memory, enabled, policy, attempts, worker, crashes, changes, sends, retries, ran, told>>

\* A change of what the reminders depend on, within the bound.
Change == changes < MaxChanges /\ changes' = changes + 1

ContactRequest(p) ==
  /\ worker.at # "down"
  /\ Change
  /\ policy' = [is |-> p, ver |-> policy.ver + 1]
  /\ Store(Reconciled(p))
  /\ UNCHANGED <<now, binding, memory, enabled, attempts, requests, worker, crashes, people>>

\* A refused command is stored too, so that generating again cannot run it.
Outcome(i, r, base) ==
  IF requests.user[i] # "none" THEN requests.user[i]
  ELSE IF Accepted(r, base) THEN "done" ELSE "refused"

\* Mutant: only a command that was done is stored.
RecordedIfDone(i, r, base) ==
  IF Outcome(i, r, base) = "done" THEN [requests EXCEPT !.user[i] = "done"] ELSE requests

Recorded(i, r, base) == [requests EXCEPT !.user[i] = Outcome(i, r, base)]

\* _user_reminder_command: the command of row i runs unless its outcome is stored.
UserReminderCommand(i, db, r, base) ==
  /\ IF requests.user[i] = "none" /\ Accepted(r, base)
     THEN ApplyRequest(db, r) /\ ran' = [ran EXCEPT ![i] = @ + 1]
     ELSE Store(db) /\ UNCHANGED <<granted, stopped, ran>>
  /\ requests' = Recorded(i, r, base)

\* Admission of a binding or memory change.
Admit(row) ==
  /\ worker.at # "down"
  /\ HasRoom(events)
  /\ events' = Append(events, row)
  /\ UNCHANGED <<now, task, binding, memory, enabled, policy, attempts, requests, worker, crashes, people>>

\* Admission of a user command.  A cancellation or postponement takes effect with
\* it: it must not wait behind the reminder it is about.
UserCommand(r) ==
  LET db == [Db EXCEPT !.events = Append(@, [Row("command") EXCEPT !.req = r])] IN
  /\ worker.at # "down"
  /\ HasRoom(events)
  /\ \/ r.op = "create" /\ Store(db) /\ UNCHANGED <<requests, granted, stopped, ran>>
     \/ r.op \in {"cancel", "postpone"} /\ UserReminderCommand(Len(events) + 1, db, r, now)
  /\ UNCHANGED <<now, binding, memory, enabled, policy, attempts, worker, crashes, changes, sends, retries, told>>

RequestBinding == \E c \in Characters : Change /\ Admit([Row("binding") EXCEPT !.req = [op |-> c]])
RequestMemory ==
  \E open \in BOOLEAN : Change /\ Admit([Row("memory") EXCEPT !.req = [op |-> open], !.ver = memory.ver])

-----------------------------------------------------------------------------
(* The worker: next_work, the command's transaction, dispatch and its result *)

IsHead(i) == i \in Open(events) /\ \A j \in Open(events) : i <= j
Takes(i, kind) ==
  /\ worker.at = "idle"
  /\ IsHead(i)
  /\ events[i].state \in {"queued", "outbox_ready"}
  /\ events[i].kind = kind
At(place, i) == worker' = [at |-> place, row |-> i]
Settled(i, state) == [events EXCEPT ![i].state = state]

Current(db, i) == OfRow(db, i).ver = db.events[i].ver /\ OfRow(db, i).state = "enqueued"

Prepare(i) ==
  LET t == events[i].task
      verdict == Eligibility(Db, t) IN
  /\ Takes(i, "reminder")
  /\ \/ /\ ~Current(Db, i)
        /\ events' = Settled(i, "cancelled")
        /\ UNCHANGED <<task, worker>>
     \/ /\ Current(Db, i) /\ verdict # "ok"
        /\ Store(Invalidate(Db, t, verdict))
        /\ UNCHANGED worker
     \/ /\ Current(Db, i) /\ verdict = "ok"
        /\ Blocked(task[t], policy.is, attempts)
        /\ Store(Defer(Db, t))
        /\ UNCHANGED worker
     \/ /\ Current(Db, i) /\ verdict = "ok"
        /\ ~Blocked(task[t], policy.is, attempts)
        /\ events' = [events EXCEPT ![i].state = "outbox_ready",
                                    ![i].box = IF @ = "none" THEN "pending" ELSE @]
        /\ At("prepared", i)
        /\ UNCHANGED task
  /\ UNCHANGED <<now, binding, memory, enabled, policy, attempts, requests, crashes, changes, people>>

ApplyBinding(i) ==
  /\ Takes(i, "binding")
  /\ binding' = [char |-> events[i].req.op, gen |-> binding.gen + 1]
  /\ events' = Settled(i, "completed")
  /\ UNCHANGED <<now, task, memory, enabled, policy, attempts, requests, worker, crashes, changes, people>>

ApplyMemory(i) ==
  /\ Takes(i, "memory")
  /\ IF events[i].ver = memory.ver
     THEN /\ memory' = [ver |-> memory.ver + 1, open |-> events[i].req.op]
          /\ events' = Settled(i, "completed")
     ELSE UNCHANGED memory /\ events' = Settled(i, "failed")
  /\ UNCHANGED <<now, task, binding, enabled, policy, attempts, requests, worker, crashes, changes, people>>

BeginCommand(i) ==
  /\ Takes(i, "command")
  /\ events' = Settled(i, "generating")
  /\ At("command", i)
  /\ UNCHANGED <<now, task, binding, memory, enabled, policy, attempts, requests, crashes, changes, people>>

\* The command is run, or was when it was admitted; its stored outcome is told.
RunCommand ==
  LET i == worker.row
      e == events[i] IN
  /\ worker.at = "command"
  /\ UserReminderCommand(i, Db, e.req, e.at)
  /\ told' = [told EXCEPT ![i] = @ \cup {Outcome(i, e.req, e.at)}]
  /\ At("answered", i)
  /\ UNCHANGED <<now, binding, memory, enabled, policy, attempts, crashes, changes, sends, retries>>

\* The answer is composed and delivered; module RuntimeStore has the detail.
AnswerCommand ==
  /\ worker.at = "answered"
  /\ events' = Settled(worker.row, "completed")
  /\ At("idle", 0)
  /\ UNCHANGED <<now, task, binding, memory, enabled, policy, attempts, requests, crashes, changes, people>>

\* before_dispatch, within begin_dispatch.
Dispatchable(i) ==
  /\ events[i].box = "pending"
  /\ Current(Db, i)
  /\ Eligibility(Db, events[i].task) = "ok"
  /\ ~Blocked(task[events[i].task], policy.is, attempts)

Attempted == attempts \cup {[at |-> now, kind |-> "reminder"]}

Dispatch ==
  LET i == worker.row
      t == events[i].task IN
  /\ worker.at = "prepared"
  /\ Dispatchable(i)
  /\ task' = [task EXCEPT ![t].state = "dispatching"]
  /\ events' = [events EXCEPT ![i].box = "dispatching"]
  /\ attempts' = Attempted
  /\ sends' = Append(sends, [task |-> t, at |-> now])
  /\ At("sending", i)
  /\ UNCHANGED <<now, binding, memory, enabled, policy, requests, crashes, changes, granted, stopped, retries, ran, told>>

NotDispatched ==
  LET i == worker.row
      t == events[i].task
      verdict == Eligibility(Db, t) IN
  /\ worker.at = "prepared"
  /\ ~Dispatchable(i)
  /\ Store(IF events[i].box # "pending" \/ ~Current(Db, i) THEN Db
           ELSE IF verdict # "ok" THEN Invalidate(Db, t, verdict) ELSE Defer(Db, t))
  /\ At("idle", 0)
  /\ UNCHANGED <<now, binding, memory, enabled, policy, attempts, requests, crashes, changes, people>>

SenderNotReady ==
  /\ worker.at = "prepared"
  /\ At("idle", 0)
  /\ UNCHANGED <<now, tables, enabled, crashes, changes, people>>

\* delivery_result, by the event alone: whatever version the task has by now.
Delivered(es, i, box, state, taskState) ==
  /\ events' = [es EXCEPT ![i].box = box, ![i].state = state]
  /\ task' = [task EXCEPT ![es[i].task].state = taskState]

FinishDelivery ==
  LET i == worker.row IN
  /\ worker.at = "sending"
  /\ \/ Delivered(events, i, "accepted", "completed", "completed")
     \/ \E box \in {"rejected", "unknown"} : Delivered(events, i, box, "needs_review", "needs_review")
  /\ At("idle", 0)
  /\ UNCHANGED <<now, binding, memory, enabled, policy, attempts, requests, crashes, changes, people>>

-----------------------------------------------------------------------------
(* Review, the scheduler's tick, the clock, the switch, crash and restart *)

Reviewable(i) == worker.at # "down" /\ events[i].box \in {"unknown", "rejected"}

MayRetry(i) ==
  LET t == events[i].task IN
  /\ task[t].ver = events[i].ver
  /\ ~task[t].cancel
  /\ Eligibility(Db, t) = "ok"
  /\ ~Blocked(task[t], policy.is, attempts)

Resolve(i) ==
  /\ Reviewable(i)
  /\ \/ /\ events[i].box = "unknown"
        /\ Delivered(events, i, "accepted", "completed", "completed")
        /\ UNCHANGED retries
     \/ /\ MayRetry(i)
        /\ Delivered(events, i, "pending", "outbox_ready", "enqueued")
        /\ retries' = [retries EXCEPT ![events[i].task] = @ + 1]
     \/ /\ Delivered(events, i, "cancelled", "cancelled", "cancelled")
        /\ UNCHANGED retries
  /\ UNCHANGED <<now, binding, memory, enabled, policy, attempts, requests, worker, crashes, changes, granted, stopped, sends, ran, told>>

Tick ==
  /\ worker.at # "down"
  /\ Store(EachWaiting(TickTask))
  /\ UNCHANGED <<now, binding, memory, enabled, policy, attempts, requests, worker, crashes, changes, people>>

Pass == now < MaxTime /\ now' = now + 1 /\ UNCHANGED <<tables, enabled, worker, crashes, changes, people>>

Switch == Change /\ enabled' = ~enabled /\ UNCHANGED <<now, tables, worker, crashes, people>>

Crash ==
  /\ worker.at # "down"
  /\ crashes < MaxCrashes
  /\ crashes' = crashes + 1
  /\ At("down", 0)
  /\ UNCHANGED <<now, tables, enabled, changes, people>>

Recovered(e) ==
  IF e.box = "dispatching" THEN [e EXCEPT !.box = "unknown", !.state = "needs_review"]
  ELSE IF e.state = "generating" THEN [e EXCEPT !.state = "queued"] ELSE e

Restart ==
  /\ worker.at = "down"
  /\ events' = [i \in DOMAIN events |-> Recovered(events[i])]
  /\ task' = [t \in Tasks |->
       IF \E i \in DOMAIN events : events'[i].box = "unknown" /\ events[i].task = t
       THEN [task[t] EXCEPT !.state = "needs_review"] ELSE task[t]]
  /\ At("idle", 0)
  /\ UNCHANGED <<now, binding, memory, enabled, policy, attempts, requests, crashes, changes, people>>

NextWork == \E i \in DOMAIN events : Prepare(i) \/ ApplyBinding(i) \/ ApplyMemory(i) \/ BeginCommand(i)
Work == NextWork \/ RunCommand \/ AnswerCommand \/ Dispatch \/ NotDispatched \/ FinishDelivery
Review == \E i \in DOMAIN events : Resolve(i)
People == (\E r \in Requests : AdminRequest(r)) \/ (\E r \in Commands : UserCommand(r)) \/ (\E p \in Policies : ContactRequest(p))

Next ==
  \/ Work \/ SenderNotReady \/ Review \/ People \/ RequestBinding \/ RequestMemory
  \/ Tick \/ Pass \/ Switch \/ Crash \/ Restart

Spec == Init /\ [][Next]_vars

\* The worker is scheduled, the tick runs periodically, time passes, a crashed
\* host is started again, and an operator reviews in the end.
FairSpec == Spec /\ WF_vars(Work) /\ WF_vars(Tick) /\ WF_vars(Pass) /\ WF_vars(Restart) /\ WF_vars(Review)

-----------------------------------------------------------------------------
(* Properties *)

Dispatched(i) == i \in DOMAIN events /\ events[i].box # "dispatching" /\ events'[i].box = "dispatching"

\* Whatever happened to the task, the binding, the memory and the policy since
\* it was queued, a reminder is sent only within the window, to the binding,
\* for the version of the episode and under the quiet-hours exception that the
\* last accepted request named, and never past a pause.
SentAsAuthorized ==
  [][\A i \in 1..MaxEvents : Dispatched(i) =>
       LET t == events[i].task
           g == granted[t] IN
       /\ g.due <= now /\ now <= g.due + Grace
       /\ g.gen = binding.gen
       /\ g.mem = LinkedVersion(t)
       /\ ~policy.is.paused
       /\ now \in Quiet /\ policy.is.quiet => g.quiet]_vars

\* Once a cancellation is accepted - as "cancelled", "in flight" or "needs review",
\* the user's own with its admission - no further send of the reminder begins,
\* after any review, recovery or late result.
CancelIsFinal == [][\A i \in 1..MaxEvents : Dispatched(i) => events[i].task \notin stopped]_vars

\* Over all the versions of a task, at most one send begins that no operator
\* acknowledged: deferral, postponement and crashes never send twice.
SentOnce == \A t \in Tasks :
  Cardinality({n \in DOMAIN sends : sends[n].task = t}) <= 1 + retries[t]

\* A command is tried when it is admitted, when its answer is generated, and again
\* after a crash: it still runs at most once, never when the user was told that
\* it was refused, and the user is told one outcome of it.
CommandsRunOnce ==
  \A i \in 1..MaxEvents :
    /\ Cardinality(told[i]) <= 1 /\ ran[i] <= 1
    /\ "done" \in told[i] => ran[i] = 1
    /\ "refused" \in told[i] => ran[i] = 0

\* At most one reminder of the conversation is queued, being sent or awaiting
\* review, and the three tables tell the same story of it: its row is open
\* exactly then, and only a row of its current version can still be sent.
OneActive ==
  /\ TypeOK
  /\ Cardinality({t \in Tasks : task[t].state \in Active}) <= 1
  /\ \A t \in Tasks : task[t].state = "enqueued" =>
       \E i \in Open(events) : /\ IsOccurrence(events[i], t, task[t].ver)
                               /\ events[i].box \in {"none", "pending"}
  /\ \A i \in DOMAIN events : events[i].kind = "reminder" /\ worker.at # "down" =>
       LET state == task[events[i].task].state IN
       /\ events[i].box = "dispatching" => state = "dispatching"
       /\ events[i].box \in {"unknown", "rejected"} => state = "needs_review"
       /\ i \in Open(events) => state \in Active

\* In every rolling day at most the limit of sends begin, and none closer to
\* another than the interval, under the policy of that moment: messages that
\* were prepared while the policy still allowed them included.
WithinLimits ==
  [][\A i \in 1..MaxEvents : Dispatched(i) =>
       /\ Cardinality({n \in DOMAIN sends : sends[n].at + Day > now}) < policy.is.limit
       /\ \A n \in DOMAIN sends : sends[n].at + policy.is.gap <= now \/ sends[n].at + Day <= now]_vars

\* No reminder is sent and no command runs twice, however often a crash, a
\* deferral or a retry has its row handled again.
NothingTwice == SentOnce /\ CommandsRunOnce

\* A send that begins is one the user and the operator want at that moment.
SendsAreAuthorized == SentAsAuthorized /\ CancelIsFinal /\ WithinLimits

\* What must not last for ever: a promise to remind, and a row of the queue.
Promised(t) == task[t].state \in {"scheduled", "enqueued"}
Waits(i)    == i \in DOMAIN events /\ i \in Open(events)

=============================================================================
