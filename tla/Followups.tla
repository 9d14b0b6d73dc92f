------------------------------ MODULE Followups ------------------------------
(***************************************************************************)
(* Follow-ups on one remembered episode of a private conversation: a        *)
(* candidate for every version of the episode, the drafts a background job  *)
(* writes for it, the operator's requests, the tick that queues a due one,  *)
(* and the worker that prepares and sends it, with crashes at every point.  *)
(*                                                                         *)
(* The candidate of version v of the episode is cand[v].  Every action is   *)
(* one store transaction.  Rows of inbox_events with their outbox rows are  *)
(* the sequence events.  The times of an episode are in module Episodes,    *)
(* erasure in RuntimeStore; a message is answered in one step.              *)
(***************************************************************************)
EXTENDS ContactPolicy, Sequences, SequencesExt, FiniteSetsExt

CONSTANTS
  Jobs,          \* draft jobs, in the order they may be requested
  Incoming,      \* kinds of rows that may be admitted
  Policies,      \* the contact policies people set
  FirstPolicy,   \* the policy the conversation starts with
  Window,        \* WINDOW_SECONDS, in ticks
  Recently,      \* RECENT_SECONDS, in ticks
  SourceAge,     \* SOURCE_MAX_AGE, in ticks
  MaxUnanswered, \* follow-ups sent without an answer: two in the code
  MaxPending,    \* capacity of the inbox
  MaxTime,       \* bound: ticks
  MaxDue,        \* bound: the latest tick a follow-up is scheduled for
  MaxEvents,     \* bound: rows of the queue
  MaxVersions,   \* bound: versions of the episode
  MaxChanges,    \* bound: changes of policy and switch
  MaxRequests,   \* bound: requests of the operator
  MaxCrashes     \* bound: crashes

ASSUME FollowupsAssumption ==
  /\ Incoming \subseteq {"message", "memory", "binding"}
  /\ Jobs \subseteq Nat /\ IsFiniteSet(Jobs)
  /\ FirstPolicy \in Policies /\ \A p \in Policies : Valid(p)
  /\ {Window, Recently, SourceAge, MaxUnanswered, MaxPending, MaxTime, MaxDue, MaxEvents, MaxVersions,
      MaxChanges, MaxRequests, MaxCrashes} \subseteq Nat
  /\ MaxVersions > 0

VARIABLES
  now,       \* the store's clock
  cand,      \* followup_candidates, by version of the episode
  draft,     \* followup_drafts
  events,    \* inbox_events of the conversation, in order
  memory,    \* the episode: version, and whether it is open
  binding,   \* generation, and whether the episode's character is bound
  policy,    \* contact_policies, with its version
  attempts,  \* contact_attempts
  enabled,   \* followups_allowed
  worker,    \* where the conversation's worker stands, and with which row
  drafter,   \* where the draft task stands, and with which job
  used,      \* what the bounds count: changes, requests, crashes
  \* what the people concerned know
  approved,  \* what the operator's last accepted request scheduled
  sends,     \* the versions of the episode asked about, one per send
  settled,   \* deliveries that an operator had retried or discarded
  ignored,   \* the operator asked to ignore the episode, with success
  seen,      \* what a draft was written from
  calls      \* model calls paid for each draft

tables == <<cand, draft, events, memory, binding, policy, attempts>>
people == <<approved, sends, settled, ignored, seen, calls>>
vars == <<now, tables, enabled, worker, drafter, used, people>>

Versions == 1..MaxVersions
Ended == {"completed", "failed", "cancelled"}
InDelivery == {"dispatching", "needs_review"}
Planned == {"scheduled", "enqueued"} \cup InDelivery
Active == {"candidate"} \cup Planned
CandidateState == Active \cup {"absent", "completed", "cancelled", "dismissed", "invalidated", "expired"}
Fresh == {"queued", "generating"}
DraftState == Fresh \cup {"absent", "ready", "failed", "abstained", "invalidated", "interrupted", "used"}
Snapshot == [cand : Nat, ver : Nat, pol : Nat, gen : Nat, next : Nat]
NoSnapshot == [cand |-> 0, ver |-> 0, pol |-> 0, gen |-> 0, next |-> 0]

TypeOK ==
  /\ now \in 0..MaxTime
  /\ cand \in [Versions -> [state : CandidateState, ver : Nat, due : Nat, gen : Nat,
                            cancel : BOOLEAN, ignored : BOOLEAN]]
  /\ draft \in [Jobs -> [state : DraftState, snap : Snapshot, at : Nat, called : BOOLEAN]]
  /\ \A i \in DOMAIN events :
       /\ events[i].kind \in {"message", "memory", "binding", "followup"}
       /\ events[i].state \in Ended \cup {"queued", "outbox_ready", "needs_review"}
       /\ events[i].box \in {"none", "pending", "dispatching", "accepted", "rejected", "unknown", "cancelled"}
  /\ memory \in [ver : Versions, open : BOOLEAN]
  /\ binding \in [gen : Nat, mine : BOOLEAN]
  /\ policy \in [is : Policies, ver : Nat]
  /\ \A a \in attempts : a.at \in 0..now
  /\ enabled \in BOOLEAN
  /\ worker \in [at : {"down", "idle", "prepared", "sending"}, row : 0..MaxEvents]
  /\ drafter.at \in {"idle", "claimed", "writing"} /\ drafter.job \in Jobs \cup {0}
  /\ approved \in [Versions -> [due : Nat, gen : Nat]]
  /\ sends \in Seq(Versions) /\ settled \in Nat /\ ignored \in BOOLEAN
  /\ calls \in [Jobs -> Nat]

Init ==
  /\ now = 0
  /\ cand = [v \in Versions |-> [state |-> IF v = 1 THEN "candidate" ELSE "absent", ver |-> 1, due |-> 0,
                                 gen |-> 0, cancel |-> FALSE, ignored |-> FALSE]]
  /\ draft = [j \in Jobs |-> [state |-> "absent", snap |-> NoSnapshot, at |-> 0, called |-> FALSE]]
  /\ events = <<>>
  /\ memory = [ver |-> 1, open |-> TRUE]
  /\ binding = [gen |-> 1, mine |-> TRUE]
  /\ policy = [is |-> FirstPolicy, ver |-> 1]
  /\ attempts = {} /\ enabled = TRUE
  /\ worker = [at |-> "idle", row |-> 0] /\ drafter = [at |-> "idle", job |-> 0]
  /\ used = [changes |-> 0, requests |-> 0, crashes |-> 0]
  /\ approved = [v \in Versions |-> [due |-> 0, gen |-> 0]]
  /\ sends = <<>> /\ settled = 0 /\ ignored = FALSE
  /\ seen = [j \in Jobs |-> NoSnapshot] /\ calls = [j \in Jobs |-> 0]

Up == worker.at # "down"
-----------------------------------------------------------------------------
(* Queries and updates; a db is a record of cand, events, memory, binding    *)
(* and policy.                                                               *)

Db == [cand |-> cand, events |-> events, memory |-> memory, binding |-> binding, policy |-> policy]
Store(db) ==
  /\ cand' = db.cand /\ events' = db.events /\ memory' = db.memory
  /\ binding' = db.binding /\ policy' = db.policy

Open(es) == {i \in DOMAIN es : es[i].state \notin Ended}
HasRoom(es) == Cardinality(Open(es)) < MaxPending /\ Len(es) < MaxEvents
IsOccurrence(e, v, ver) == e.kind = "followup" /\ e.cand = v /\ e.ver = ver
NextSeq(db) == Len(db.events) + 1

WithCand(db, v, r) == [db EXCEPT !.cand = [db.cand EXCEPT ![v] = r]]
WithRow(db, i, e) == [db EXCEPT !.events = [db.events EXCEPT ![i] = e]]

Moved(r, state, byDismissal) == [r EXCEPT !.state = state, !.ver = @ + 1, !.ignored = byDismissal]
Marked(r, byDismissal) == [r EXCEPT !.cancel = TRUE, !.ver = @ + 1, !.ignored = byDismissal]
Dropped(e) == [e EXCEPT !.box = IF @ = "pending" THEN "cancelled" ELSE @,
                        !.state = IF @ \in {"queued", "outbox_ready"} THEN "cancelled" ELSE @]

\* Whatever of the follow-up is queued leaves the queue with it.
Withdrawn(db, v, state, byDismissal) ==
  [WithCand(db, v, Moved(db.cand[v], state, byDismissal)) EXCEPT
    !.events = [i \in DOMAIN db.events |->
      IF IsOccurrence(db.events[i], v, db.cand[v].ver) THEN Dropped(db.events[i]) ELSE db.events[i]]]

\* invalidate: a send that began can only be marked; what has not begun leaves
\* the queue, and the candidate moves on to a new version.
Invalidate(db, v, state, byDismissal) ==
  IF db.cand[v].state \notin InDelivery THEN Withdrawn(db, v, state, byDismissal)
  ELSE IF db.cand[v].cancel THEN db
  ELSE WithCand(db, v, Marked(db.cand[v], byDismissal))

\* intrinsic: the state a candidate in the given state falls to, "ok" otherwise.
Intrinsic(db, v, state) ==
  LET r == db.cand[v] IN
  IF r.cancel THEN "cancelled"
  ELSE IF ~db.memory.open \/ db.memory.ver # v THEN "invalidated"
  ELSE IF now > SourceAge THEN "expired"
  ELSE IF state = "candidate" THEN "ok"
  ELSE IF now > r.due + Window THEN "expired"
  ELSE IF ~enabled \/ ~db.policy.is.proactive THEN "cancelled"
  ELSE IF ~db.binding.mine \/ db.binding.gen # r.gen THEN "invalidated" ELSE "ok"

LastMessage(es) == Max({0} \cup {i \in DOMAIN es : es[i].kind = "message"})
Unanswered(es) == {i \in DOMAIN es : es[i].kind = "followup" /\ es[i].tried /\ i > LastMessage(es)}
HeldBack(es) == \E i \in Open(es) : es[i].kind # "followup"

\* task_decision.
MayContact(db) ==
  /\ ~HeldBack(db.events)
  /\ Allowed(db.policy.is, attempts, now, "followup", FALSE, FALSE)
  /\ \A a \in attempts : a.kind = "followup" => a.at + Day <= now
  /\ Cardinality(Unanswered(db.events)) < MaxUnanswered
  /\ LastMessage(db.events) > 0 => now >= db.events[LastMessage(db.events)].at + Recently

Defer(db, v) == IF db.cand[v].state = "enqueued" THEN Invalidate(db, v, "scheduled", FALSE) ELSE db

\* Mutant: whoever may not be contacted now waits, also past the window.
ReconcileContactFirst(db, v) ==
  LET r == db.cand[v]  verdict == Intrinsic(db, v, r.state) IN
  IF r.state \notin Active THEN db
  ELSE IF r.state \in {"scheduled", "enqueued"} /\ r.due <= now /\ ~MayContact(db) THEN Defer(db, v)
  ELSE IF verdict # "ok" THEN Invalidate(db, v, verdict, FALSE) ELSE db

\* One iteration of reconcile.
ReconcileCandidate(db, v) ==
  LET r == db.cand[v]  verdict == Intrinsic(db, v, r.state) IN
  IF r.state \notin Active THEN db
  ELSE IF verdict # "ok" THEN Invalidate(db, v, verdict, FALSE)
  ELSE IF r.state \in {"scheduled", "enqueued"} /\ r.due <= now /\ ~MayContact(db) THEN Defer(db, v) ELSE db

Reconcile(db) ==
  LET after[v \in 0..MaxVersions] == IF v = 0 THEN db ELSE ReconcileCandidate(after[v - 1], v)
  IN  after[MaxVersions]

\* discover: an open episode without a candidate of its version gets one,
\* unless it was dismissed, asked about, or is being asked about.
Discover(db) ==
  LET v == db.memory.ver IN
  IF /\ db.memory.open /\ now <= SourceAge
     /\ db.cand[v].state = "absent"
     /\ ~\E w \in Versions : db.cand[w].ignored \/ db.cand[w].state \in InDelivery \cup {"completed", "dismissed"}
  THEN WithCand(db, v, [db.cand[v] EXCEPT !.state = "candidate"]) ELSE db

Row(kind) == [kind |-> kind, cand |-> 0, ver |-> 0, state |-> "queued", box |-> "none", at |-> now,
              tried |-> FALSE, to |-> TRUE]
Occurrence(v, ver) == [Row("followup") EXCEPT !.cand = v, !.ver = ver]

TickCandidate(db, v) ==
  LET r == db.cand[v] IN
  IF \/ r.state # "scheduled" \/ r.due > now \/ Intrinsic(db, v, r.state) # "ok"
     \/ Cardinality(Open(db.events)) >= MaxPending
  THEN db
  ELSE IF Open(db.events) # {} \/ ~MayContact(db) \/ Len(db.events) >= MaxEvents THEN Defer(db, v)
  ELSE [WithCand(db, v, [r EXCEPT !.state = "enqueued"]) EXCEPT
         !.events = Append(db.events, Occurrence(v, r.ver))]

TickAll(db) ==
  LET after[v \in 0..MaxVersions] == IF v = 0 THEN db ELSE TickCandidate(after[v - 1], v)
  IN  after[MaxVersions]
-----------------------------------------------------------------------------
(* Drafts                                                                    *)

SnapshotOf(db, v) == [cand |-> v, ver |-> db.cand[v].ver, pol |-> db.policy.ver, gen |-> db.binding.gen,
                      next |-> NextSeq(db)]

\* Mutant: a message that came meanwhile does not matter.
StillValidDespiteTalk(db, job) ==
  LET s == job.snap IN
  /\ enabled /\ [SnapshotOf(db, s.cand) EXCEPT !.next = s.next] = s
  /\ db.policy.is.proactive /\ ~db.policy.is.paused
  /\ db.cand[s.cand].state = "candidate" /\ Intrinsic(db, s.cand, "candidate") = "ok"
  /\ now <= job.at + Day

\* invalid_reason is empty.
StillValid(db, job) ==
  LET s == job.snap IN
  /\ enabled /\ SnapshotOf(db, s.cand) = s
  /\ db.policy.is.proactive /\ ~db.policy.is.paused
  /\ db.cand[s.cand].state = "candidate" /\ Intrinsic(db, s.cand, "candidate") = "ok"
  /\ Open(db.events) = {}
  /\ now <= job.at + Day

ReconcileDrafts(db, jobs) == [j \in Jobs |->
  IF jobs[j].state \in Fresh \cup {"ready"} /\ ~StillValid(db, jobs[j])
  THEN [jobs[j] EXCEPT !.state = "invalidated"] ELSE jobs[j]]

Within(field, bound) == used[field] < bound /\ used' = [used EXCEPT ![field] = @ + 1]
Asks == Up /\ Within("requests", MaxRequests)

RequestDraft(j, v) ==
  LET jobs == ReconcileDrafts(Db, draft)
      job == [state |-> "queued", snap |-> SnapshotOf(Db, v), at |-> now, called |-> FALSE] IN
  /\ Asks
  /\ draft[j].state = "absent" /\ \A k \in Jobs : k < j => draft[k].state # "absent"
  /\ cand[v].state # "absent"
  /\ StillValid(Db, job)
  /\ \A k \in Jobs : jobs[k].state \notin Fresh
  /\ draft' = [jobs EXCEPT ![j] = job]
  /\ UNCHANGED <<now, cand, events, memory, binding, policy, attempts, enabled, worker, drafter, people>>

DraftStep(place, j) == drafter' = [at |-> place, job |-> j]

Claim(j) ==
  LET jobs == ReconcileDrafts(Db, draft) IN
  /\ Up /\ drafter.at = "idle"
  /\ jobs[j].state = "queued"
  /\ draft' = [jobs EXCEPT ![j].state = "generating"]
  /\ seen' = [seen EXCEPT ![j] = SnapshotOf(Db, draft[j].snap.cand)]
  /\ DraftStep("claimed", j)
  /\ UNCHANGED <<now, cand, events, memory, binding, policy, attempts, enabled, worker, used,
                 approved, sends, settled, ignored, calls>>

\* authorize_draft_call: the one model call of a job that is still current.
Authorize ==
  LET j == drafter.job
      jobs == ReconcileDrafts(Db, draft) IN
  /\ drafter.at = "claimed"
  /\ IF jobs[j].state = "generating" /\ ~jobs[j].called
     THEN /\ draft' = [jobs EXCEPT ![j].called = TRUE]
          /\ calls' = [calls EXCEPT ![j] = @ + 1]
          /\ DraftStep("writing", j)
     ELSE /\ draft' = jobs
          /\ DraftStep("idle", 0)
          /\ UNCHANGED calls
  /\ UNCHANGED <<now, cand, events, memory, binding, policy, attempts, enabled, worker, used,
                 approved, sends, settled, ignored, seen>>

\* finish_followup_draft: a failure may precede the call.
FinishDraft ==
  LET j == drafter.job
      jobs == ReconcileDrafts(Db, draft) IN
  /\ drafter.at # "idle"
  /\ \E state \in {"ready", "abstained", "failed"} :
       /\ drafter.at = "claimed" => state = "failed"
       /\ draft' = IF jobs[j].state = "generating" THEN [jobs EXCEPT ![j].state = state] ELSE jobs
  /\ DraftStep("idle", 0)
  /\ UNCHANGED <<now, cand, events, memory, binding, policy, attempts, enabled, worker, used, people>>
-----------------------------------------------------------------------------
(* Requests of the operator                                                  *)

TakenUp(v) == \E w \in Versions \ {v} :
  cand[w].ignored \/ cand[w].state \in Planned \cup {"completed", "dismissed"}

MaySchedule(v, due) ==
  /\ cand[v].state \in {"candidate", "scheduled", "enqueued", "expired"}
  /\ Intrinsic(Db, v, "candidate") = "ok"
  /\ enabled /\ policy.is.proactive /\ ~policy.is.paused /\ binding.mine
  /\ ~TakenUp(v)
  /\ ~\E i \in Open(events) : events[i].kind \in {"memory", "binding"}
  /\ due > now /\ QuietAllows(policy.is, due, FALSE, FALSE)

Approved(db, v, due) == WithCand(db, v, [db.cand[v] EXCEPT !.due = due, !.gen = binding.gen])

ScheduleAt(v, due) ==
  /\ Store(Approved(Invalidate(Db, v, "scheduled", FALSE), v, due))
  /\ approved' = [approved EXCEPT ![v] = [due |-> due, gen |-> binding.gen]]
  /\ UNCHANGED <<now, attempts, enabled, worker, drafter, sends, settled, ignored, seen, calls>>

\* Scheduled with the operator's own words.
Schedule(v, due) ==
  /\ Asks /\ MaySchedule(v, due)
  /\ draft' = ReconcileDrafts(Db, draft)
  /\ ScheduleAt(v, due)

\* Scheduled with a draft that is ready and still valid.
ScheduleDraft(v, due, j) ==
  LET jobs == ReconcileDrafts(Db, draft) IN
  /\ Asks /\ MaySchedule(v, due)
  /\ jobs[j].state = "ready" /\ jobs[j].snap.cand = v
  /\ draft' = [jobs EXCEPT ![j].state = "used"]
  /\ ScheduleAt(v, due)

\* cancel and dismiss.
Withdraw(v, dismissal) ==
  /\ Asks /\ cand[v].state \in Active
  /\ Store(Invalidate(Db, v, IF dismissal THEN "dismissed" ELSE "cancelled", dismissal))
  /\ draft' = ReconcileDrafts(Db, draft)
  /\ ignored' = (ignored \/ (dismissal /\ ~cand[v].cancel))
  /\ UNCHANGED <<now, attempts, enabled, worker, drafter, approved, sends, settled, seen, calls>>

\* followup_list: looking at the candidates invalidates drafts.
Look ==
  /\ Up /\ draft' = ReconcileDrafts(Db, draft)
  /\ UNCHANGED <<now, cand, events, memory, binding, policy, attempts, enabled, worker, drafter, used, people>>

ContactRequest(p) ==
  /\ Up /\ Within("changes", MaxChanges)
  /\ Store(Reconcile([Db EXCEPT !.policy = [is |-> p, ver |-> policy.ver + 1]]))
  /\ UNCHANGED <<now, draft, attempts, enabled, worker, drafter, people>>

\* Admission of a message, or of a change of the binding or the episode.
Admit(row) ==
  /\ row.kind \in Incoming /\ Up /\ HasRoom(events)
  /\ Store(Reconcile([Db EXCEPT !.events = Append(events, row)]))
  /\ UNCHANGED <<now, draft, attempts, enabled, worker, drafter, used, people>>

Enqueue(row) ==
  /\ row.kind \in Incoming /\ Up /\ HasRoom(events)
  /\ Store([Db EXCEPT !.events = Append(events, row)])
  /\ UNCHANGED <<now, draft, attempts, enabled, worker, drafter, used, people>>

Message == Admit(Row("message"))
RequestMemory == \E open \in BOOLEAN : Admit([Row("memory") EXCEPT !.ver = memory.ver, !.to = open])
RequestBinding == \E mine \in BOOLEAN : Enqueue([Row("binding") EXCEPT !.to = mine])
-----------------------------------------------------------------------------
(* The worker                                                                *)

Takes(i, kind) ==
  /\ worker.at = "idle"
  /\ i \in Open(events) /\ \A j \in Open(events) : i <= j
  /\ events[i].state \in {"queued", "outbox_ready"} /\ events[i].kind = kind
At(place, i) == worker' = [at |-> place, row |-> i]
EndRow(db, i, state) == WithRow(db, i, [db.events[i] EXCEPT !.state = state])
Revised(db, open) == Discover(Reconcile([db EXCEPT !.memory = [ver |-> memory.ver + 1, open |-> open]]))

\* A message is answered; the reply may revise the episode.
Answer(i) ==
  /\ Takes(i, "message")
  /\ \/ Store(EndRow(Db, i, "completed"))
     \/ /\ memory.ver < MaxVersions
        /\ \E open \in BOOLEAN : Store(EndRow(Revised(Db, open), i, "completed"))
  /\ UNCHANGED <<now, draft, attempts, enabled, worker, drafter, used, people>>

ApplyMemory(i) ==
  /\ Takes(i, "memory")
  /\ Store(IF events[i].ver = memory.ver /\ memory.ver < MaxVersions
           THEN Revised(EndRow(Db, i, "completed"), events[i].to)
           ELSE EndRow(Db, i, "failed"))
  /\ UNCHANGED <<now, draft, attempts, enabled, worker, drafter, used, people>>

ApplyBinding(i) ==
  /\ Takes(i, "binding")
  /\ Store([EndRow(Db, i, "completed") EXCEPT !.binding = [gen |-> binding.gen + 1, mine |-> events[i].to]])
  /\ UNCHANGED <<now, draft, attempts, enabled, worker, drafter, used, people>>

IsCurrent(i) == cand[events[i].cand].ver = events[i].ver /\ cand[events[i].cand].state = "enqueued"
Verdict(i) == Intrinsic(Db, events[i].cand, "enqueued")
Ready(i) == IsCurrent(i) /\ Verdict(i) = "ok" /\ MayContact(Db)

\* What ready does to a follow-up it turns down.
TurnDown(i) ==
  IF ~IsCurrent(i) THEN Db
  ELSE IF Verdict(i) # "ok" THEN Invalidate(Db, events[i].cand, Verdict(i), FALSE)
  ELSE Defer(Db, events[i].cand)

Prepare(i) ==
  /\ Takes(i, "followup")
  /\ IF Ready(i)
     THEN /\ Store(WithRow(Db, i, [events[i] EXCEPT !.state = "outbox_ready",
                                                    !.box = IF @ = "none" THEN "pending" ELSE @]))
          /\ At("prepared", i)
     ELSE Store(EndRow(TurnDown(i), i, "cancelled")) /\ UNCHANGED worker
  /\ UNCHANGED <<now, draft, attempts, enabled, drafter, used, people>>

Dispatchable(i) == events[i].box = "pending" /\ Ready(i)

Dispatch ==
  LET i == worker.row  v == events[i].cand IN
  /\ worker.at = "prepared" /\ Dispatchable(i)
  /\ Store(WithRow(WithCand(Db, v, [cand[v] EXCEPT !.state = "dispatching"]),
                   i, [events[i] EXCEPT !.box = "dispatching", !.tried = TRUE]))
  /\ attempts' = attempts \cup {[at |-> now, kind |-> "followup"]}
  /\ sends' = Append(sends, v)
  /\ At("sending", i)
  /\ UNCHANGED <<now, draft, enabled, drafter, used, approved, settled, ignored, seen, calls>>

NotDispatched ==
  /\ worker.at = "prepared" /\ ~Dispatchable(worker.row)
  /\ Store(IF events[worker.row].box = "pending" THEN TurnDown(worker.row) ELSE Db)
  /\ At("idle", 0)
  /\ UNCHANGED <<now, draft, attempts, enabled, drafter, used, people>>

SenderNotReady ==
  /\ worker.at = "prepared" /\ At("idle", 0)
  /\ UNCHANGED <<now, tables, enabled, drafter, used, people>>

\* Mutant: the candidate does not hear of it.
DeliveredRowOnly(db, i, box, state, candState) ==
  Store(WithRow(db, i, [db.events[i] EXCEPT !.box = box, !.state = state]))

\* _commit_delivery and delivery_result, by the event alone.
Delivered(db, i, box, state, candState) ==
  LET v == db.events[i].cand IN
  Store(WithRow(WithCand(db, v, [db.cand[v] EXCEPT !.state = candState]),
                i, [db.events[i] EXCEPT !.box = box, !.state = state]))

FinishDelivery ==
  /\ worker.at = "sending"
  /\ \/ Delivered(Db, worker.row, "accepted", "completed", "completed")
     \/ \E box \in {"rejected", "unknown"} : Delivered(Db, worker.row, box, "needs_review", "needs_review")
  /\ At("idle", 0)
  /\ UNCHANGED <<now, draft, attempts, enabled, drafter, used, people>>

MayRetry(i) ==
  LET v == events[i].cand IN
  cand[v].ver = events[i].ver /\ Intrinsic(Db, v, cand[v].state) = "ok" /\ MayContact(Db)

Resolve(i) ==
  /\ Up /\ events[i].box \in {"unknown", "rejected"}
  /\ \/ /\ events[i].box = "unknown"
        /\ Delivered(Db, i, "accepted", "completed", "completed") /\ UNCHANGED settled
     \/ /\ MayRetry(i)
        /\ Delivered(Db, i, "pending", "outbox_ready", "enqueued") /\ settled' = settled + 1
     \/ Delivered(Db, i, "cancelled", "cancelled", "cancelled") /\ settled' = settled + 1
  /\ UNCHANGED <<now, draft, attempts, enabled, worker, drafter, used, approved, sends, ignored, seen, calls>>
-----------------------------------------------------------------------------
(* The tick, the clock, the switch, crash and restart                        *)

Tick ==
  /\ Up
  /\ draft' = ReconcileDrafts(Db, draft)
  /\ \E db \in {Discover(Reconcile(Db))} : Store(TickAll(db))
  /\ UNCHANGED <<now, attempts, enabled, worker, drafter, used, people>>

Pass == now < MaxTime /\ now' = now + 1 /\ UNCHANGED <<tables, enabled, worker, drafter, used, people>>

Switch == Within("changes", MaxChanges) /\ enabled' = ~enabled /\ UNCHANGED <<now, tables, worker, drafter, people>>

Crash ==
  /\ Up /\ Within("crashes", MaxCrashes)
  /\ At("down", 0) /\ DraftStep("idle", 0)
  /\ UNCHANGED <<now, tables, enabled, people>>

\* Mutants: an interrupted draft is queued again, its call forgotten; or left.
DraftRequeued(job) == IF job.state = "generating" THEN [job EXCEPT !.state = "queued", !.called = FALSE] ELSE job
DraftKept(job) == job

\* A model call that may have been paid is not repeated.
DraftRecovered(job) == IF job.state = "generating" THEN [job EXCEPT !.state = "interrupted"] ELSE job

Restart ==
  /\ worker.at = "down"
  /\ draft' = [j \in Jobs |-> DraftRecovered(draft[j])]
  /\ events' = [i \in DOMAIN events |->
       IF events[i].box = "dispatching" THEN [events[i] EXCEPT !.box = "unknown", !.state = "needs_review"]
       ELSE events[i]]
  /\ cand' = [v \in Versions |->
       IF \E i \in DOMAIN events : events'[i].box = "unknown" /\ events[i].cand = v
       THEN [cand[v] EXCEPT !.state = "needs_review"] ELSE cand[v]]
  /\ At("idle", 0)
  /\ UNCHANGED <<now, memory, binding, policy, attempts, enabled, drafter, used, people>>

NextWork == \E i \in DOMAIN events : Answer(i) \/ ApplyMemory(i) \/ ApplyBinding(i) \/ Prepare(i)
Work == NextWork \/ Dispatch \/ NotDispatched \/ FinishDelivery
Drafting == (\E j \in Jobs : Claim(j)) \/ Authorize \/ FinishDraft
Review == \E i \in DOMAIN events : Resolve(i)
Operator == \E v \in Versions :
  \/ \E due \in 1..MaxDue : Schedule(v, due) \/ \E j \in Jobs : ScheduleDraft(v, due, j)
  \/ \E dismissal \in BOOLEAN : Withdraw(v, dismissal)
  \/ \E j \in Jobs : RequestDraft(j, v)

Next ==
  \/ Work \/ SenderNotReady \/ Drafting \/ Review \/ Operator \/ Look
  \/ Message \/ RequestMemory \/ RequestBinding
  \/ \E p \in Policies : ContactRequest(p)
  \/ Tick \/ Pass \/ Switch \/ Crash \/ Restart

Spec == Init /\ [][Next]_vars

\* The worker and the draft task are scheduled, the tick is periodic, time
\* passes, a crashed host is restarted, an operator reviews in the end.
FairSpec == /\ Spec /\ WF_vars(Work) /\ WF_vars(Drafting) /\ WF_vars(Tick) /\ WF_vars(Pass)
            /\ WF_vars(Restart) /\ WF_vars(Review)
-----------------------------------------------------------------------------
(* Properties *)

Dispatched(i) == i \in DOMAIN events /\ events[i].box # "dispatching" /\ events'[i].box = "dispatching"

\* Whatever was said, revised, switched or revoked since it was approved, a
\* follow-up is sent only about the episode as it stands, in the window and to
\* the binding the operator approved, while proactive contact is wanted, and
\* never into a conversation that waits for an answer.
SentAsApproved ==
  [][\A i \in 1..MaxEvents : Dispatched(i) =>
       LET v == events[i].cand  a == approved[v] IN
       /\ memory.open /\ memory.ver = v
       /\ a.due <= now /\ now <= a.due + Window /\ a.gen = binding.gen
       /\ policy.is.proactive /\ ~policy.is.paused /\ enabled
       /\ \A j \in Open(events) : events[j].kind = "followup"]_vars

\* Over all versions of the episode at most one send begins that no operator
\* acknowledged by a retry or a discarded delivery: "no further follow-up on
\* the same episode forms after one was sent" (docs/RUNTIME_V2_FOLLOWUPS.md).
AskedOnce == Len(sends) <= 1 + settled

\* A draft the operator schedules was written from the conversation as it is
\* at that moment: no message, revision, rule or binding came in between.
DraftIsCurrent ==
  [][\A j \in Jobs : draft[j].state = "ready" /\ draft'[j].state = "used" =>
       seen[j] = SnapshotOf(Db, draft[j].snap.cand)]_vars

\* A draft costs at most one model call, whatever crashes in between
\* (recover: "A model call may already have been billed").
CalledOnce == \A j \in Jobs : calls[j] <= 1

\* Of all the versions of the episode at most one is planned, and the queue
\* tells the same: an enqueued one has its row, and a row that is being sent
\* or reviewed its candidate.
OnePlanned ==
  /\ TypeOK
  /\ Cardinality({v \in Versions : cand[v].state \in Planned}) <= 1
  /\ \A v \in Versions : cand[v].state = "enqueued" =>
       \E i \in Open(events) : IsOccurrence(events[i], v, cand[v].ver)
  /\ \A i \in DOMAIN events : events[i].kind = "followup" /\ Up =>
       /\ events[i].box = "dispatching" => cand[events[i].cand].state = "dispatching"
       /\ events[i].box \in {"unknown", "rejected"} => cand[events[i].cand].state = "needs_review"

\* An episode the operator ignored produces no new candidate, whatever version
\* it reaches (docs/RUNTIME_V2_FOLLOWUPS.md:15), also when the follow-up was on
\* its way when it was ignored.  One that was already being cancelled then is
\* not ignored at all, see the README.
IgnoredStaysIgnored ==
  [][\A v \in Versions : ignored /\ cand[v].state = "absent" => cand'[v].state = "absent"]_vars

\* Nobody is asked twice, and no model call paid twice.
NothingTwice == AskedOnce /\ CalledOnce

\* What the operator decided is what happens: the follow-up approved, the draft
\* he saw, and none of what he ignored.
OperatorDecides == SentAsApproved /\ DraftIsCurrent /\ IgnoredStaysIgnored

\* What must not last for ever: a draft under way, and a scheduled follow-up.
Drafted(j)  == draft[j].state \in Fresh
Promised(v) == cand[v].state \in {"scheduled", "enqueued"}
==============================================================================
