------------------------------ MODULE Companion ------------------------------
(* She speaks first in one chat (reply_flow/companion.py): reminders she was  *)
(* asked for, news of what she watches, and greetings; and the background     *)
(* task of the chat, which answers long after it was asked for                *)
(* (reply_flow/tasks.py).  All of it runs on one event loop beside the        *)
(* replies, which hold the chat's lock and use the tools, and is kept in one  *)
(* file.  What she writes, and whether a search shows news, is a choice.      *)
EXTENDS Integers, Sequences, FiniteSets, FiniteSetsExt, SequencesExt

CONSTANTS
    RemindersOn, WatchesOn, GreetingsOn,   \* companion.*_enabled
    PerChat,                 \* reminders_per_chat
    Late,                    \* _LATE_LIMIT_SECONDS
    Every, Until,            \* a watch: every_seconds, and how long it is kept
    Day, Hours,              \* of the clock; greeting_hours
    Idle, PerDay, DailyLimit,    \* person_idle_hours, group_daily_limit, daily_limit
    Stop, WaitLonger,        \* unanswered_stop, unanswered_wait_hours
    MaxTime, Notes, Hears, Tasks, Games, Stops, Crashes, Fails,   \* bounds
    Watches                  \* bound, at most 1

VARIABLES
    now,
    notes, due,    \* _reminders, and [note -> when it is due]
    watch,         \* [on, known, next, until]: the watch of the chat
    chat,          \* [heard, opened, unanswered] of its ChatState
    dirty, saved,  \* _dirty; [notes, watch, chat]: the file
    clock,         \* [at, kind, item, queue, now]: the task that ticks
    lock,          \* the chat's lock: "none", "reply", "tick" or "task"
    waiting,       \* messages that wait for the lock
    task,          \* the background task of the chat
    taboo,         \* a game or a bowl runs there, or the group told her to be quiet
    closing, left,
    \* for the properties
    fate, said,    \* what became of each note, and how often it was said
    stale,         \* the last write of the file failed
    searched, told,    \* searches that were judged, and news that was told
    greeted, ignored,  \* when she greeted, and how often since somebody spoke
    slips          \* crashes, failed last saves, and greetings that were sent and not stored

file == <<dirty, saved, stale>>
ghosts == <<fate, said, searched, told, greeted, ignored, slips>>
vars == <<now, notes, due, watch, chat, file, clock, lock, waiting, task, taboo, closing, left, ghosts>>

Note == 1..Notes
NoWatch == [on |-> FALSE, known |-> FALSE, next |-> 0, until |-> 0]
NobodyYet == [heard |-> -1, opened |-> <<>>, unanswered |-> 0]
Off == [at |-> "off", kind |-> "none", item |-> 0, queue |-> <<>>, now |-> 0]

TypeOK ==
    /\ now \in 0..MaxTime /\ notes \subseteq Note /\ due \in [Note -> 0..MaxTime]
    /\ watch.on \in BOOLEAN /\ watch.known \in BOOLEAN /\ chat.unanswered \in 0..Stop
    /\ saved.notes \subseteq Note /\ {dirty, stale, taboo, closing} \subseteq BOOLEAN
    /\ clock.at \in {"off", "idle", "reminding", "watching", "searching", "greeting", "locking", "speaking", "storing"}
    /\ clock.kind \in {"none", "reminder", "watch", "greeting"}
    /\ lock \in {"none", "reply", "tick", "task"} /\ waiting \in 0..Hears
    /\ task \in {"none", "working", "waiting", "sending"}
    /\ fate \in [Note -> {"none", "promised", "said", "unsaid", "late", "cancelled", "cut"}]

Init ==
    /\ now = 0 /\ notes = {} /\ due = [i \in Note |-> 0] /\ watch = NoWatch /\ chat = NobodyYet
    /\ dirty = FALSE /\ saved = [notes |-> {}, watch |-> NoWatch, chat |-> NobodyYet] /\ stale = FALSE
    /\ clock = Off /\ lock = "none" /\ waiting = 0 /\ task = "none" /\ taboo = FALSE /\ closing = FALSE
    /\ left = [watches |-> Watches, hears |-> Hears, tasks |-> Tasks, games |-> Games,
               stops |-> Stops, crashes |-> Crashes, fails |-> Fails]
    /\ fate = [i \in Note |-> "none"] /\ said = [i \in Note |-> 0]
    /\ searched = 0 /\ told = 0 /\ greeted = <<>> /\ ignored = 0 /\ slips = 0

Spend(what) == left[what] > 0 /\ left' = [left EXCEPT ![what] = @ - 1]

\* The parts of a tick between two awaits run alone on the loop.
Yields == clock.at \notin {"reminding", "watching"}

-----------------------------------------------------------------------------
(* The file *)

\* _save, after the changes; a write may fail and is tried again with the next.
Write == dirty' = FALSE /\ stale' = FALSE /\ saved' = [notes |-> notes', watch |-> watch', chat |-> chat']
Save ==
    \/ Write /\ UNCHANGED left
    \/ Spend("fails") /\ dirty' = TRUE /\ stale' = TRUE /\ UNCHANGED saved

\* Mutant: a change waits for the tick to be written.
SaveLater == dirty' = TRUE /\ UNCHANGED <<saved, stale, left>>

\* What a tool changed is written at once.
Kept == Save

Changed == dirty' = TRUE /\ UNCHANGED <<saved, stale>>

-----------------------------------------------------------------------------
(* Messages, and the tools their replies use *)

\* Somebody speaks: note_inbound, before the message waits for the lock.
Hear ==
    /\ Yields /\ Spend("hears")
    /\ chat' = [chat EXCEPT !.heard = now, !.unanswered = 0] /\ Changed
    /\ clock' = IF clock.at = "off" THEN [clock EXCEPT !.at = "idle"] ELSE clock
    /\ waiting' = IF closing THEN waiting ELSE waiting + 1
    /\ ignored' = 0
    /\ UNCHANGED <<now, notes, due, watch, lock, task, taboo, closing, fate, said, searched, told, greeted, slips>>

rest == <<now, due, chat, clock, waiting, closing>>

Reply ==
    /\ Yields /\ waiting > 0 /\ lock = "none" /\ lock' = "reply" /\ waiting' = waiting - 1
    /\ UNCHANGED <<now, notes, due, watch, chat, file, clock, task, taboo, closing, left, ghosts>>

ReplyEnds ==
    /\ Yields /\ lock = "reply" /\ lock' = "none"
    /\ UNCHANGED <<rest, notes, watch, file, task, taboo, left, ghosts>>

Tools == Yields /\ (lock = "reply" \/ task = "working")

\* The reminder tool: add ...  (A note that repeats one on the list is refused
\* like one too many: each note here is another.)
Add(i, at) ==
    /\ RemindersOn /\ Tools /\ fate[i] = "none" /\ \A j \in 1..(i - 1) : fate[j] # "none"
    /\ at > now /\ Cardinality(notes) < PerChat
    /\ notes' = notes \cup {i} /\ due' = [due EXCEPT ![i] = at] /\ fate' = [fate EXCEPT ![i] = "promised"]
    /\ UNCHANGED <<watch, chat>> /\ Kept
    /\ UNCHANGED <<now, clock, lock, waiting, task, taboo, closing, said, searched, told, greeted, ignored, slips>>

\* ... and cancel; a note that is being said is not found.
Cancel(i) ==
    /\ RemindersOn /\ Tools /\ i \in notes
    /\ notes' = notes \ {i} /\ fate' = [fate EXCEPT ![i] = "cancelled"]
    /\ UNCHANGED <<watch, chat>> /\ Kept
    /\ UNCHANGED <<now, due, clock, lock, waiting, task, taboo, closing, said, searched, told, greeted, ignored, slips>>

\* The watch tool; the first search is soon.
Watch ==
    /\ WatchesOn /\ Tools /\ ~watch.on /\ left.watches > 0
    /\ watch' = [on |-> TRUE, known |-> FALSE, next |-> now, until |-> now + Until]
    /\ UNCHANGED <<notes, chat>>
    /\ \/ Write /\ left' = [left EXCEPT !.watches = @ - 1]
       \/ /\ left.fails > 0 /\ left' = [left EXCEPT !.watches = @ - 1, !.fails = @ - 1]
          /\ dirty' = TRUE /\ stale' = TRUE /\ UNCHANGED saved
    /\ UNCHANGED <<now, due, clock, lock, waiting, task, taboo, closing, ghosts>>

Unwatch ==
    /\ WatchesOn /\ Tools /\ watch.on /\ watch' = [watch EXCEPT !.on = FALSE]
    /\ UNCHANGED <<notes, chat>> /\ Kept
    /\ UNCHANGED <<now, due, clock, lock, waiting, task, taboo, closing, ghosts>>

\* A game begins or ends, or a group tells her to be quiet or to talk again.
Play ==
    /\ Yields /\ lock = "reply" /\ Spend("games") /\ taboo' = ~taboo
    /\ UNCHANGED <<rest, notes, watch, file, lock, task, ghosts>>

-----------------------------------------------------------------------------
(* The background task *)

taskRest == <<rest, notes, watch, file, taboo, ghosts>>

\* One at a time in a chat; a task cannot start another.
StartTask == Yields /\ lock = "reply" /\ task = "none" /\ Spend("tasks") /\ task' = "working" /\ UNCHANGED <<taskRest, lock>>

\* It is done, fails or runs out of time, and has something to say in any case,
\* but not to a service that shuts down.
TaskWorked ==
    /\ Yields /\ task = "working" /\ task' = IF closing THEN "none" ELSE "waiting"
    /\ UNCHANGED <<taskRest, lock, left>>

TaskSends ==
    /\ Yields /\ task = "waiting" /\ lock = "none" /\ lock' = "task" /\ task' = "sending"
    /\ UNCHANGED <<taskRest, left>>

TaskSent == Yields /\ task = "sending" /\ lock' = "none" /\ task' = "none" /\ UNCHANGED <<taskRest, left>>

-----------------------------------------------------------------------------
(* A tick *)

tickRest == <<now, due, waiting, task, taboo, closing>>
At(place) == clock' = [clock EXCEPT !.at = place]
Earlier(i, j) == due[i] < due[j] \/ (due[i] = due[j] /\ i < j)

\* _due: all that is due is taken off the list before the first of it is said.
Due(t) ==
    LET mine == IF RemindersOn THEN {i \in notes : due[i] <= t} ELSE {} IN
    /\ clock' = [at |-> "reminding", kind |-> "none", item |-> 0, queue |-> SetToSortSeq(mine, Earlier), now |-> t]
    /\ notes' = notes \ mine
    /\ IF mine = {} THEN UNCHANGED file ELSE Changed

Tick ==
    /\ clock.at = "idle" /\ Due(now)
    /\ UNCHANGED <<tickRest, watch, chat, lock, left, ghosts>>

\* _speak: the chat's lock is waited for, unless the service shuts down.
Say(kind, i) == clock' = [clock EXCEPT !.at = "locking", !.kind = kind, !.item = i]

\* The next note: too late to say, given up by the shutdown, or to be said.
Remind ==
    /\ clock.at = "reminding" /\ clock.queue # <<>>
    /\ LET i == Head(clock.queue)
           next == [clock EXCEPT !.queue = Tail(@)] IN
       \/ /\ clock.now - due[i] > Late
          /\ clock' = next /\ fate' = [fate EXCEPT ![i] = "late"]
       \/ /\ clock.now - due[i] <= Late /\ closing
          /\ clock' = next /\ fate' = [fate EXCEPT ![i] = "unsaid"]
       \/ /\ clock.now - due[i] <= Late /\ ~closing
          /\ clock' = [next EXCEPT !.at = "locking", !.kind = "reminder", !.item = i] /\ UNCHANGED fate
    /\ UNCHANGED <<tickRest, notes, watch, chat, file, lock, left, said, searched, told, greeted, ignored, slips>>

AllReminded ==
    /\ clock.at = "reminding" /\ clock.queue = <<>> /\ At("watching")
    /\ UNCHANGED <<tickRest, notes, watch, chat, file, lock, left, ghosts>>

GreetingHour(t) == (t % Day) \in Hours

\* _check_watches: a watch past its days ends; one that is due is searched for.
CheckWatch ==
    /\ clock.at = "watching"
    /\ LET over == watch.on /\ watch.until <= clock.now
           search == watch.on /\ ~over /\ GreetingHour(clock.now) /\ watch.next <= clock.now IN
       /\ watch' = IF over THEN [watch EXCEPT !.on = FALSE]
                   ELSE IF search THEN [watch EXCEPT !.next = clock.now + Every] ELSE watch
       /\ IF over \/ search THEN Changed ELSE UNCHANGED file
       /\ At(IF search THEN "searching" ELSE "greeting")
    /\ UNCHANGED <<tickRest, notes, chat, lock, left, ghosts>>

\* Nothing came up, or the search or the model failed.
SearchFails ==
    /\ clock.at = "searching" /\ At("greeting")
    /\ UNCHANGED <<tickRest, notes, watch, chat, file, lock, left, ghosts>>

\* Mutant: news is told whether or not something was known before.
TellsFirst(news) == news

\* The first search only learns.
Tells(news) == news /\ watch.known

Searched ==
    /\ clock.at = "searching" /\ searched' = searched + 1
    /\ \E news, learns \in BOOLEAN :
         /\ watch' = [watch EXCEPT !.known = @ \/ learns]
         /\ IF Tells(news) /\ ~closing THEN Say("watch", 0) ELSE At("greeting")
    /\ UNCHANGED <<tickRest, notes, chat, file, lock, left, fate, said, told, greeted, ignored, slips>>

LastOpened == IF chat.opened = <<>> THEN 0 - WaitLonger ELSE Last(chat.opened)

\* Mutant: she waits longer after a greeting nobody answered, and no more.
MayOpenAgainInTime(t) == chat.unanswered = 0 \/ t - LastOpened >= WaitLonger

MayOpenAgain(t) ==
    /\ chat.unanswered < Stop
    /\ chat.unanswered = 0 \/ t - LastOpened >= WaitLonger

OpenedSince(t) == Cardinality({k \in DOMAIN chat.opened : chat.opened[k] >= t})

\* The chat may be greeted as things stand.
Candidate(t) ==
    /\ GreetingsOn /\ GreetingHour(t)
    /\ OpenedSince(t - (t % Day)) < DailyLimit
    /\ chat.heard >= 0 /\ t - chat.heard >= Idle
    /\ MayOpenAgain(t) /\ ~taboo
    /\ OpenedSince(t - Day) < PerDay

\* By chance she greets a chat that may be greeted, unless the service shuts down.
Greet ==
    /\ clock.at = "greeting" /\ Candidate(clock.now) /\ ~closing /\ Say("greeting", 0)
    /\ UNCHANGED <<tickRest, notes, watch, chat, file, lock, left, ghosts>>

\* The tick ends, and what is unsaved is saved; a failure of the greetings
\* leaves it to the next tick.
TickEnds ==
    /\ clock.at = "greeting" /\ clock' = [Off EXCEPT !.at = "idle"]
    /\ UNCHANGED <<notes, watch, chat>>
    /\ \/ IF dirty THEN Save ELSE UNCHANGED <<file, left>>
       \/ GreetingsOn /\ dirty /\ Spend("fails") /\ UNCHANGED file
    /\ UNCHANGED <<tickRest, lock, ghosts>>

Lock ==
    /\ clock.at = "locking" /\ lock = "none" /\ lock' = "tick" /\ At("speaking")
    /\ UNCHANGED <<tickRest, notes, watch, chat, file, left, ghosts>>

\* What she wrote is sent ...
SayIt ==
    /\ clock.at = "speaking" /\ At("storing")
    /\ fate' = IF clock.kind = "reminder" THEN [fate EXCEPT ![clock.item] = "said"] ELSE fate
    /\ said' = IF clock.kind = "reminder" THEN [said EXCEPT ![clock.item] = @ + 1] ELSE said
    /\ told' = IF clock.kind = "watch" THEN told + 1 ELSE told
    /\ greeted' = IF clock.kind = "greeting" THEN Append(greeted, clock.now) ELSE greeted
    /\ ignored' = IF clock.kind = "greeting" THEN ignored + 1 ELSE ignored
    /\ UNCHANGED <<tickRest, notes, watch, chat, file, lock, left, searched, slips>>

\* Back in the tick; a greeting counts as an opening in any case, and as
\* unanswered if it was sent and stored.
Back(sent) ==
    /\ lock' = "none"
    /\ clock' = [clock EXCEPT !.kind = "none", !.item = 0,
                              !.at = IF clock.kind = "reminder" THEN "reminding" ELSE "greeting"]
    /\ IF clock.kind = "greeting"
       THEN /\ chat' = [chat EXCEPT !.opened = Append(@, clock.now), !.unanswered = IF sent THEN @ + 1 ELSE @]
            /\ Changed
       ELSE UNCHANGED <<chat, file>>

\* ... and stored, which may fail.
Said ==
    /\ clock.at = "storing"
    /\ \/ Back(TRUE) /\ UNCHANGED <<left, slips>>
       \/ Back(FALSE) /\ Spend("fails") /\ slips' = slips + 1
    /\ UNCHANGED <<tickRest, notes, watch, fate, said, searched, told, greeted, ignored>>

\* She chose to say nothing, or the model or the sender failed.
Unsaid ==
    /\ clock.at = "speaking" /\ Back(FALSE)
    /\ fate' = IF clock.kind = "reminder" THEN [fate EXCEPT ![clock.item] = "unsaid"] ELSE fate
    /\ UNCHANGED <<tickRest, notes, watch, left, said, searched, told, greeted, ignored, slips>>

-----------------------------------------------------------------------------
(* Time, the end and a new start *)

Pass ==
    /\ now < MaxTime /\ now' = now + 1
    /\ UNCHANGED <<notes, due, watch, chat, file, clock, lock, waiting, task, taboo, closing, left, ghosts>>

BeginShutdown ==
    /\ Yields /\ ~closing /\ Spend("stops") /\ closing' = TRUE
    /\ UNCHANGED <<now, notes, due, watch, chat, file, clock, lock, waiting, task, taboo, ghosts>>

\* What the tick has taken off the list and not said.
InHand == Range(clock.queue) \cup (IF clock.kind = "reminder" /\ clock.at # "storing" THEN {clock.item} ELSE {})

\* The next process reads the file, and its clock waits for the first message.
Reload(disk, unsure, slip) ==
    /\ notes' = disk.notes /\ watch' = disk.watch /\ chat' = disk.chat
    /\ clock' = Off /\ lock' = "none" /\ waiting' = 0 /\ task' = "none" /\ taboo' = FALSE /\ closing' = FALSE
    /\ fate' = [i \in Note |->
         IF fate[i] = "promised" /\ i \notin disk.notes /\ (unsure \/ i \in InHand) THEN "cut"
         ELSE IF i \in disk.notes /\ (unsure \/ fate[i] # "cancelled") THEN "promised" ELSE fate[i]]
    /\ slips' = slips + slip
    /\ UNCHANGED <<now, due, said, searched, told, greeted, ignored>>

Crash == Spend("crashes") /\ Reload(saved, stale, 1) /\ dirty' = FALSE /\ UNCHANGED <<saved, stale>>

\* close, when no reply and no task is under way: the tick is cancelled where it
\* waits, and what it knows is saved, if that works.
Close ==
    /\ closing /\ Yields /\ lock = "none" /\ waiting = 0 /\ task = "none" /\ clock.at # "locking"
    /\ LET disk == IF dirty THEN [notes |-> notes, watch |-> watch, chat |-> chat] ELSE saved IN
       \/ Reload(disk, FALSE, 0) /\ saved' = disk /\ stale' = FALSE /\ UNCHANGED left
       \/ dirty /\ Spend("fails") /\ Reload(saved, TRUE, 1) /\ UNCHANGED <<saved, stale>>
    /\ dirty' = FALSE

Ticking ==
    \/ Tick \/ Remind \/ AllReminded \/ CheckWatch \/ SearchFails \/ Searched \/ Greet \/ TickEnds
    \/ Lock \/ SayIt \/ Said \/ Unsaid
Doing == TaskWorked \/ TaskSends \/ TaskSent
Replying == Reply \/ ReplyEnds

Next ==
    \/ Hear \/ Replying \/ Ticking \/ Doing
    \/ \E i \in Note : (\E at \in 1..(MaxTime - 1) : Add(i, at)) \/ Cancel(i)
    \/ Watch \/ Unwatch \/ Play \/ StartTask
    \/ Pass \/ BeginShutdown \/ Crash \/ Close

Spec == Init /\ [][Next]_vars

\* Time passes, and the loop runs whatever can go on, in turn: a model and a
\* sender answer or fail.
FairSpec == Spec /\ WF_vars(Pass) /\ WF_vars(Ticking) /\ SF_vars(Doing) /\ SF_vars(ReplyEnds)

-----------------------------------------------------------------------------
(* Properties *)

\* A reminder is said once, and once more at most for each restart (_due, _save).
SaidOnce == \A i \in Note : said[i] <= 1 + slips

\* A reminder that was accepted is on the list or about to be said, whatever
\* crashes, unless the crash took it out of her hands; one that was cancelled is
\* neither (use_tool, _due).
NothingForgotten ==
    \A i \in Note :
        /\ fate[i] = "promised" => i \in notes \cup InHand
        /\ fate[i] = "cancelled" => i \notin notes \cup InHand

\* The first search of a watch tells nothing, in whichever life it was made (_check).
LearnsFirst == told > 0 => told < searched

\* Nobody is greeted again and again without an answer, or more often than the
\* limits say, but for what a restart forgets (_maybe_greet, _may_open_again).
GreetedIn(from, to) == Cardinality({k \in DOMAIN greeted : from <= greeted[k] /\ greeted[k] < to})
NoPestering ==
    /\ ignored <= Stop + slips
    /\ \A t \in 0..MaxTime : GreetedIn(t, t + Day) <= PerDay + slips
    /\ \A d \in 0..(MaxTime \div Day) : GreetedIn(d * Day, (d + 1) * Day) <= DailyLimit + slips

SpeaksFirstKept == TypeOK /\ SaidOnce /\ NothingForgotten /\ LearnsFirst /\ NoPestering

\* What must not last for ever, as long as the clock runs: a reminder that was
\* promised, and a task.
Owed(i) == fate[i] = "promised" /\ clock.at # "off"
=============================================================================
