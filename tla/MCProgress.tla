----------------------------- MODULE MCProgress -----------------------------
(* What must eventually happen to reminders, follow-ups and drafts, on small   *)
(* instances side by side: a behaviour belongs to one of the parts, and the    *)
(* variables that part does not have stay empty.                               *)
EXTENDS Naturals, Sequences

VARIABLES part, now, events, policy, binding, memory, attempts, enabled, worker, sends,
          task, requests, crashes, changes, granted, stopped, retries, ran, told,
          cand, draft, drafter, used, approved, settled, ignored, seen, calls

remindersOnly == <<task, requests, crashes, changes, granted, stopped, retries, ran, told>>
followupsOnly == <<cand, draft, drafter, used, approved, settled, ignored, seen, calls>>
vars == <<part, now, events, policy, binding, memory, attempts, enabled, worker, sends,
          remindersOnly, followupsOnly>>

\* Quiet hours are kept in a confirmed time zone, with one contact a day.
Guarded   == [proactive |-> FALSE, paused |-> FALSE, zoned |-> TRUE, quiet |-> TRUE, limit |-> 1, gap |-> 1]
Wanted    == [Guarded EXCEPT !.proactive = TRUE]
Paused(p) == [p EXCEPT !.paused = TRUE]
Ask(op) == [op |-> op, task |-> 1, due |-> 1, zoned |-> FALSE, quiet |-> FALSE]

\* A reminder is created by the operator and cancelled by the user, in a
\* conversation paused and resumed, with quiet hours and a crash.
R == INSTANCE Reminders WITH
  Day <- 3, Quiet <- {2}, Tasks <- {1}, Linked <- {}, Characters <- {"c1"},
  Commands <- {Ask("cancel")}, Requests <- {Ask("create")},
  Policies <- {Guarded, Paused(Guarded)}, FirstPolicy <- Guarded, Grace <- 1, MaxPending <- 2, MaxOpen <- 2,
  MaxTime <- 3, MaxEvents <- 2, MaxChanges <- 2, MaxRequests <- 1, MaxCrashes <- 1

\* A follow-up is scheduled while messages come in, in a conversation paused and
\* resumed; quiet hours fall into its window, and the daily limit delays a retry.
F == INSTANCE Followups WITH
  Day <- 2, Quiet <- {2}, Jobs <- {}, Incoming <- {"message"},
  Policies <- {Wanted, Paused(Wanted)}, FirstPolicy <- Wanted,
  Window <- 2, Recently <- 1, SourceAge <- 4, MaxUnanswered <- 2, MaxPending <- 2, MaxTime <- 4,
  MaxDue <- 1, MaxEvents <- 2, MaxVersions <- 1, MaxChanges <- 2, MaxRequests <- 1, MaxCrashes <- 1

\* A draft is asked for, and the host crashes up to twice.
D == INSTANCE Followups WITH
  Day <- 3, Quiet <- {}, Jobs <- {1}, Incoming <- {"message"}, Policies <- {Wanted}, FirstPolicy <- Wanted,
  Window <- 1, Recently <- 1, SourceAge <- 4, MaxUnanswered <- 2, MaxPending <- 2, MaxTime <- 2,
  MaxDue <- 0, MaxEvents <- 1, MaxVersions <- 1, MaxChanges <- 0, MaxRequests <- 1, MaxCrashes <- 2

NoReminders ==
  task = <<>> /\ requests = 0 /\ crashes = 0 /\ changes = 0 /\ granted = <<>> /\ stopped = {}
  /\ retries = <<>> /\ ran = <<>> /\ told = <<>>
NoFollowups ==
  cand = <<>> /\ draft = <<>> /\ drafter = 0 /\ used = 0 /\ approved = <<>> /\ settled = 0
  /\ ignored = FALSE /\ seen = <<>> /\ calls = <<>>

Init ==
  \/ part = "reminders" /\ R!Init /\ NoFollowups
  \/ part = "followups" /\ F!Init /\ NoReminders
  \/ part = "drafts"    /\ D!Init /\ NoReminders

Reminding(A)   == part = "reminders" /\ A /\ UNCHANGED <<part, followupsOnly>>
FollowingUp(A) == part = "followups" /\ A /\ UNCHANGED <<part, remindersOnly>>
Drafts(A)      == part = "drafts"    /\ A /\ UNCHANGED <<part, remindersOnly>>

Next == Reminding(R!Next) \/ FollowingUp(F!Next) \/ Drafts(D!Next)

\* The fairness of each module; only the actions of one part are ever enabled.
Work     == Reminding(R!Work) \/ FollowingUp(F!Work) \/ Drafts(D!Work)
Drafting == FollowingUp(F!Drafting) \/ Drafts(D!Drafting)
Tick     == Reminding(R!Tick) \/ FollowingUp(F!Tick) \/ Drafts(D!Tick)
Pass     == Reminding(R!Pass) \/ FollowingUp(F!Pass) \/ Drafts(D!Pass)
Restart  == Reminding(R!Restart) \/ FollowingUp(F!Restart) \/ Drafts(D!Restart)
Review   == Reminding(R!Review) \/ FollowingUp(F!Review) \/ Drafts(D!Review)

FairSpec ==
  /\ Init /\ [][Next]_vars
  /\ WF_vars(Work) /\ WF_vars(Drafting) /\ WF_vars(Tick) /\ WF_vars(Pass)
  /\ WF_vars(Restart) /\ WF_vars(Review)

\* A reminder that is due, or was promised, is not forgotten: it is dispatched,
\* expires, is cancelled or paused, whatever blocks it meanwhile (ReminderStore).
Promised == part = "reminders" /\ R!Promised(1)
RemindersSettle == Promised ~> ~Promised

\* A reminder the contact rules block never blocks the queue: commands and
\* changes behind it are handled (SenderNotReady, finish_delivery).
Waits(i) == part = "reminders" /\ R!Waits(i)
QueueMoves == \A i \in 1..2 : Waits(i) ~> ~Waits(i)

\* The queue of a conversation never stands still over a reminder.
RemindersEnd == RemindersSettle /\ QueueMoves

\* A follow-up that is due leaves the schedule: sent, expired or withdrawn,
\* whatever blocks it meanwhile (FollowupStore.tick, before_dispatch).
Scheduled == part = "followups" /\ F!Promised(1)
FollowupsSettle == Scheduled ~> ~Scheduled

\* Every draft that was asked for ends, also when the host stops in the middle
\* of the model's call (FollowupDraftService, recover_drafts).
Drafted == part = "drafts" /\ D!Drafted(1)
DraftsEnd == Drafted ~> ~Drafted

\* Neither a follow-up nor a draft of one is left half done.
FollowupsEnd == FollowupsSettle /\ DraftsEnd
=============================================================================
