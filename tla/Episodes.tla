-------------------------------- MODULE Episodes --------------------------------
(***************************************************************************)
(* The memory records of one private chat, the times of its episodes, and   *)
(* the dialogue in which the user reviews such a time.  A record is changed *)
(* by the model, from what a turn saw, and by the operator, through the     *)
(* queue.  A time is confirmed by the operator, or by the user: only an     *)
(* answer to a question that was delivered before the answer was admitted,  *)
(* about the versions the question was about, may confirm it.               *)
(*                                                                         *)
(* Every action is one store transaction.  A message is what it says to the *)
(* dialogue: [do, mem, date].  The thirty minutes after which a question is *)
(* void may pass at any time.                                               *)
(***************************************************************************)
EXTENDS Naturals, Sequences, FiniteSets

CONSTANTS
  Memories,     \* episodes that may be remembered
  Dates,        \* times that may be meant
  NoDate,       \* no single time is meant
  Says,         \* bound: messages the user sends
  MaxRows,      \* bound: rows of the queue
  MaxChanges,   \* bound: changes of the policy and of memories
  MaxCrashes    \* bound: crashes

Do == {"start", "clear", "pick", "date", "approve", "approve_clear", "no", "cancel", "chat"}
ASSUME EpisodesAssumption ==
  /\ NoDate \notin Dates
  /\ Says \subseteq [do : Do, mem : SUBSET Memories, date : Dates \cup {NoDate}]
  /\ {MaxRows, MaxChanges, MaxCrashes} \subseteq Nat

VARIABLES
  rows,       \* inbox_events, in order: what they ask and how far they are
  snapshot,   \* turn_memory_snapshots: the versions a turn was shown
  mem,        \* memory_records: version 0 is no record
  timing,     \* the latest row of episode_times of each memory
  dialogue,   \* episode_time_dialogues, at most one row
  handled,    \* episode_time_dialogue_turns: what a row was answered
  policy,     \* contact_policies: version, and whether a time zone is known
  worker,     \* where the worker stands, and with which row
  changes, crashes,
  told,       \* the kinds of answer a row was given, over all its runs
  shown,      \* the last question that was delivered, with its content
  asked       \* the question that was the last shown when a row was admitted

vars == <<rows, snapshot, mem, timing, dialogue, handled, policy, worker, changes, crashes, told, shown, asked>>

Open(i)    == rows[i].state \notin {"completed", "failed", "cancelled"}
IsOpen(m)  == mem[m].ver > 0 /\ mem[m].state = "open"
Current(m) == timing[m].mver = mem[m].ver

Answers == {"no", "silent", "told", "asked", "saved"}
NoTiming == [mver |-> 0, ver |-> 0, state |-> "none", zone |-> FALSE, guess |-> NoDate, date |-> NoDate, by |-> 0]
Extracted(ver, guess, zone) ==
  [NoTiming EXCEPT !.mver = ver, !.ver = 1, !.state = "proposed", !.zone = zone, !.guess = guess]
Untaken == <<>>
NoDialogue == [stage |-> "none", op |-> "none", targets |-> {}, mem |-> {}, mver |-> 0, tver |-> 0,
               scope |-> 0, date |-> NoDate, prompt |-> 0, min |-> 0, late |-> FALSE]
Nothing == [seq |-> 0, mem |-> {}, mver |-> 0, op |-> "none", date |-> NoDate]

TypeOK ==
  /\ \A i \in DOMAIN rows :
       /\ rows[i].kind \in {"message", "memory"}
       /\ rows[i].state \in {"queued", "generating", "outbox_ready", "needs_review", "completed", "failed", "cancelled"}
  /\ snapshot \in [1..MaxRows -> {Untaken} \cup [Memories -> Nat]]
  /\ mem \in [Memories -> [ver : Nat, state : {"open", "completed", "withdrawn"}, by : {"model", "admin"}]]
  /\ \A m \in Memories :
       /\ timing[m].state \in {"none", "proposed", "confirmed", "cleared", "invalidated"}
       /\ timing[m].state = "confirmed" => timing[m].date \in Dates
  /\ dialogue.stage \in {"none", "select", "time", "confirm", "clear"}
  /\ dialogue.stage \in {"confirm", "clear"} => Cardinality(dialogue.mem) = 1
  /\ handled \in [1..MaxRows -> Answers] /\ told \in [1..MaxRows -> SUBSET Answers]
  /\ worker \in [at : {"down", "idle", "turn", "reply", "ready", "sending"}, row : 0..MaxRows]

Init ==
  /\ rows = <<>>
  /\ snapshot = [i \in 1..MaxRows |-> Untaken]
  /\ \E known \in SUBSET Memories, guess \in Dates \cup {NoDate} :  \* remembered in earlier turns
       /\ mem = [m \in Memories |-> [ver |-> IF m \in known THEN 1 ELSE 0, state |-> "open", by |-> "model"]]
       /\ timing = [m \in Memories |-> IF m \in known THEN Extracted(1, guess, TRUE) ELSE NoTiming]
  /\ dialogue = NoDialogue
  /\ handled = [i \in 1..MaxRows |-> "no"]
  /\ policy = [ver |-> 1, zone |-> TRUE]
  /\ worker = [at |-> "idle", row |-> 0]
  /\ changes = 0 /\ crashes = 0
  /\ told = [i \in 1..MaxRows |-> {}]
  /\ shown = Nothing
  /\ asked = [i \in 1..MaxRows |-> Nothing]

-----------------------------------------------------------------------------
(* Memory records and their times *)

\* sync_record after a revision: the old version's time is void, and a new
\* version that is open starts from what its source says.
Resynced(record, guess) ==
  IF record.state = "open"
  THEN Extracted(record.ver, guess, policy.zone)
  ELSE [NoTiming EXCEPT !.mver = record.ver - 1, !.state = "invalidated"]

\* sync_record after the time zone changed.
Rezoned(m, zone) ==
  IF ~IsOpen(m) \/ timing[m].zone = zone THEN timing[m]
  ELSE [timing[m] EXCEPT !.ver = @ + 1, !.state = "proposed", !.zone = zone, !.date = NoDate]

\* Mutant: the version is compared for the operator's changes only.
ApplicableByModel(m, base, byModel) ==
  /\ byModel \/ mem[m].ver = base
  /\ base > 0 => mem[m].state # "withdrawn"

Applicable(m, base, byModel) ==
  /\ mem[m].ver = base
  /\ base > 0 => mem[m].state # "withdrawn" /\ ~(byModel /\ mem[m].by = "admin")

\* apply_change
ApplyChange(m, state, by, guess) ==
  LET record == [ver |-> mem[m].ver + 1, state |-> state, by |-> by] IN
  /\ mem' = [mem EXCEPT ![m] = record]
  /\ timing' = [timing EXCEPT ![m] = Resynced(record, guess)]

\* The operator queues a change of the version on his page, and confirms or
\* clears a time while no event is open.
AdminChange(m, state) ==
  /\ worker.at # "down"
  /\ Len(rows) < MaxRows /\ changes < MaxChanges
  /\ mem[m].ver > 0
  /\ rows' = Append(rows, [kind |-> "memory", state |-> "queued", mem |-> m, base |-> mem[m].ver, to |-> state])
  /\ changes' = changes + 1
  /\ UNCHANGED <<snapshot, mem, timing, dialogue, handled, policy, worker, crashes, told, shown, asked>>

SaveConfirmation(m, date, by) ==
  timing' = [timing EXCEPT ![m].ver = @ + 1, ![m].date = date, ![m].by = by,
                           ![m].state = IF date = NoDate THEN "cleared" ELSE "confirmed"]

AdminTime(m, date) ==
  /\ worker.at # "down" /\ changes < MaxChanges
  /\ IsOpen(m) /\ \A i \in DOMAIN rows : ~Open(i)
  /\ SaveConfirmation(m, date, 0)
  /\ changes' = changes + 1
  /\ UNCHANGED <<rows, snapshot, mem, dialogue, handled, policy, worker, crashes, told, shown, asked>>

\* A contact request: a new policy version, and the times brought up to date.
RequestSyncs(zone) == timing' = [m \in Memories |-> Rezoned(m, zone)]

ContactRequest(zone) ==
  /\ worker.at # "down" /\ changes < MaxChanges
  /\ policy' = [ver |-> policy.ver + 1, zone |-> zone]
  /\ RequestSyncs(zone)
  /\ changes' = changes + 1
  /\ UNCHANGED <<rows, snapshot, mem, dialogue, handled, worker, crashes, told, shown, asked>>

-----------------------------------------------------------------------------
(* The dialogue *)

ValidTarget(d, m) == IsOpen(m) /\ mem[m].ver = d.mver /\ Current(m) /\ timing[m].ver = d.tver

\* _put: a new question, which no answer may follow before it is delivered.
Put(d, i) == [d EXCEPT !.prompt = i, !.min = 0, !.late = FALSE]

\* _proposal: one reading is offered for approval, otherwise the user is asked.
Proposal(d, date) == [d EXCEPT !.stage = IF date = NoDate THEN "time" ELSE "confirm", !.date = date]

\* _select: the question about one episode.
Select(d, m) ==
  LET e == [d EXCEPT !.mem = {m}, !.mver = mem[m].ver, !.tver = timing[m].ver] IN
  IF d.op = "clear" THEN [e EXCEPT !.stage = "clear"]
  ELSE IF timing[m].state = "confirmed" THEN [e EXCEPT !.stage = "time", !.date = NoDate]
  ELSE Proposal(e, timing[m].guess)

\* _start: over the open episodes a command names.
Start(i, op, named) ==
  LET targets == {m \in named : IsOpen(m)}
      d == [NoDialogue EXCEPT !.op = op, !.scope = policy.ver, !.targets = {<<m, mem[m].ver, timing[m].ver>> : m \in targets}] IN
  IF ~policy.zone \/ targets = {} THEN NoDialogue
  ELSE IF Cardinality(targets) = 1 THEN Put(Select(d, CHOOSE m \in targets : TRUE), i)
  ELSE Put([d EXCEPT !.stage = "select"], i)

\* Mutant: the answer need not follow the question's delivery.
AcceptsAny(i) ==
  /\ ~dialogue.late /\ i > dialogue.prompt
  /\ dialogue.scope = policy.ver
  /\ \A m \in dialogue.mem : ValidTarget(dialogue, m)

\* The pending question accepts an answer at i.
Accepts(i) ==
  /\ ~dialogue.late
  /\ dialogue.min # 0 /\ i >= dialogue.min
  /\ i = dialogue.prompt + 1
  /\ dialogue.scope = policy.ver
  /\ \A m \in dialogue.mem : ValidTarget(dialogue, m)

\* _save: nothing came after the answer, and no revision is waiting.
MaySave(i) ==
  /\ \A m \in dialogue.mem : ValidTarget(dialogue, m)
  /\ Len(rows) = i

Picked(say) == \E m \in say.mem : <<m, mem[m].ver, timing[m].ver>> \in dialogue.targets /\ IsOpen(m) /\ Current(m)

Record(i, d, answer) == dialogue' = d /\ handled' = [handled EXCEPT ![i] = answer]
Answered(i, d) == Record(i, d, IF d.stage = "none" THEN "told" ELSE "asked") /\ UNCHANGED timing
Silent(i, d)   == Record(i, d, "silent") /\ UNCHANGED timing

Approve(i) ==
  IF MaySave(i)
  THEN /\ SaveConfirmation(CHOOSE m \in dialogue.mem : TRUE, IF dialogue.op = "clear" THEN NoDate ELSE dialogue.date, i)
       /\ Record(i, NoDialogue, "saved")
  ELSE Answered(i, NoDialogue)

\* handle, for a message that is not a command and finds a question pending.
Reply(i, say) ==
  LET d == dialogue IN
  IF ~Accepts(i) THEN IF say.do = "chat" THEN Silent(i, NoDialogue) ELSE Answered(i, NoDialogue)
  ELSE CASE say.do = "cancel" -> Answered(i, NoDialogue)
    [] say.do = "approve_clear" /\ d.stage = "clear" -> Approve(i)
    [] say.do = "approve" /\ d.stage = "confirm" -> Approve(i)
    [] say.do = "approve" /\ d.stage = "time" -> Answered(i, Put(d, i))
    [] say.do = "pick" /\ d.stage = "select" ->
         IF Picked(say) THEN Answered(i, Put(Select(d, CHOOSE m \in say.mem : TRUE), i)) ELSE Answered(i, NoDialogue)
    [] say.do = "date" /\ d.stage \in {"time", "confirm"} -> Answered(i, Put(Proposal(d, say.date), i))
    [] say.do = "no" /\ d.stage \in {"time", "confirm"} -> Answered(i, Put([d EXCEPT !.stage = "time", !.date = NoDate], i))
    [] OTHER -> Silent(i, NoDialogue)

Unasked(i, say) ==
  IF say.do \in {"approve", "approve_clear"} THEN Answered(i, dialogue) ELSE UNCHANGED <<dialogue, handled, timing>>


\* Mutant: only an answer that was given in words is kept.
CachedWords(i) == handled[i] = "told"

\* What a row was answered is kept, for the run after a crash.
Cached(i) == handled[i] # "no"

Handle ==
  LET i == worker.row
      say == rows[i].say IN
  /\ worker.at = "turn"
  /\ IF Cached(i) THEN UNCHANGED <<dialogue, handled, timing>>
     ELSE IF say.do \in {"start", "clear"} THEN Answered(i, Start(i, IF say.do = "clear" THEN "clear" ELSE "confirm", say.mem))
     ELSE IF dialogue.stage # "none" THEN Reply(i, say) ELSE Unasked(i, say)
  /\ told' = [told EXCEPT ![i] = @ \cup {handled'[i]}]
  /\ worker' = [worker EXCEPT !.at = "reply"]
  /\ UNCHANGED <<rows, snapshot, mem, policy, changes, crashes, shown, asked>>

-----------------------------------------------------------------------------
(* The worker *)

Admit(say) ==
  /\ worker.at # "down" /\ Len(rows) < MaxRows
  /\ rows' = Append(rows, [kind |-> "message", state |-> "queued", say |-> say])
  /\ asked' = [asked EXCEPT ![Len(rows) + 1] = shown]
  /\ UNCHANGED <<snapshot, mem, timing, dialogue, handled, policy, worker, changes, crashes, told, shown>>

IsHead(i) == Open(i) /\ \A j \in 1..(i - 1) : ~Open(j)
Settle(i, state) == rows' = [rows EXCEPT ![i].state = state]

TakeMemory(i) ==
  /\ worker.at = "idle" /\ IsHead(i) /\ rows[i].kind = "memory"
  /\ IF Applicable(rows[i].mem, rows[i].base, FALSE)
     THEN ApplyChange(rows[i].mem, rows[i].to, "admin", NoDate) /\ Settle(i, "completed")
     ELSE Settle(i, "failed") /\ UNCHANGED <<mem, timing>>
  /\ UNCHANGED <<snapshot, dialogue, handled, policy, worker, changes, crashes, told, shown, asked>>

\* The snapshot is kept with the turn: generating again shows the same one.
Snapshot(i) == [snapshot EXCEPT ![i] = IF @ = Untaken THEN [m \in Memories |-> mem[m].ver] ELSE @]

TakeMessage(i) ==
  /\ worker.at = "idle" /\ IsHead(i) /\ rows[i].kind = "message"
  /\ \/ /\ rows[i].state = "queued"
        /\ Settle(i, "generating")
        /\ snapshot' = Snapshot(i)
        /\ worker' = [at |-> "turn", row |-> i]
     \/ /\ rows[i].state = "outbox_ready"
        /\ worker' = [at |-> "ready", row |-> i]
        /\ UNCHANGED <<rows, snapshot>>
  /\ UNCHANGED <<mem, timing, dialogue, handled, policy, changes, crashes, told, shown, asked>>

\* save_proposal without a change: an answer of the dialogue, or a plain reply.
Propose ==
  /\ worker.at = "reply"
  /\ Settle(worker.row, "outbox_ready")
  /\ worker' = [worker EXCEPT !.at = "ready"]
  /\ UNCHANGED <<snapshot, mem, timing, dialogue, handled, policy, changes, crashes, told, shown, asked>>

\* save_proposal with a change the model extracted, and perhaps the question
\* that offer_after_extraction appends to the reply.
MayOffer(i, m, state, guess) == handled[i] = "no" /\ state = "open" /\ policy.zone /\ guess # NoDate

ProposeChange(m, state) ==
  LET i == worker.row
      guess == rows[i].say.date IN
  /\ worker.at = "reply" /\ handled[i] \in {"no", "silent"}
  /\ Applicable(m, snapshot[i][m], TRUE)
  /\ ApplyChange(m, state, "model", guess)
  /\ Settle(i, "outbox_ready")
  /\ worker' = [worker EXCEPT !.at = "ready"]
  /\ \/ UNCHANGED <<dialogue, handled>>
     \/ /\ MayOffer(i, m, state, guess)
        /\ Record(i, Put(Proposal([NoDialogue EXCEPT !.op = "confirm", !.scope = policy.ver, !.mem = {m},
                                     !.mver = mem[m].ver + 1, !.tver = 1], guess), i), "asked")
  /\ UNCHANGED <<snapshot, policy, changes, crashes, told, shown, asked>>

\* A change that does not fit fails the turn.
ProposalFails ==
  /\ worker.at = "reply" /\ handled[worker.row] \in {"no", "silent"}
  /\ \E m \in Memories : ~Applicable(m, snapshot[worker.row][m], TRUE)
  /\ Settle(worker.row, "failed")
  /\ worker' = [at |-> "idle", row |-> 0]
  /\ UNCHANGED <<snapshot, mem, timing, dialogue, handled, policy, changes, crashes, told, shown, asked>>

Dispatch ==
  /\ worker.at = "ready"
  /\ worker' = [worker EXCEPT !.at = "sending"]
  /\ UNCHANGED <<rows, snapshot, mem, timing, dialogue, handled, policy, changes, crashes, told, shown, asked>>

\* delivered: answers are counted from the next event on.
Delivered(i) ==
  dialogue' = IF dialogue.stage # "none" /\ dialogue.prompt = i /\ dialogue.min = 0
              THEN [dialogue EXCEPT !.min = Len(rows) + 1] ELSE dialogue

\* What the user now has before him, from the row that was sent.
Shown(i) ==
  shown' = IF dialogue.stage # "none" /\ dialogue.prompt = i
           THEN [seq |-> i, mem |-> dialogue.mem, mver |-> dialogue.mver, op |-> dialogue.op, date |-> dialogue.date]
           ELSE [Nothing EXCEPT !.seq = i]

CommitSent(i) == Settle(i, "completed") /\ Delivered(i) /\ Shown(i)

FinishDelivery ==
  LET i == worker.row IN
  /\ worker.at = "sending"
  /\ \/ CommitSent(i)
     \/ Settle(i, "needs_review") /\ UNCHANGED <<dialogue, shown>>
  /\ worker' = [at |-> "idle", row |-> 0]
  /\ UNCHANGED <<snapshot, mem, timing, handled, policy, changes, crashes, told, asked>>

\* The operator confirms a send, or discards it.
Resolve(i) ==
  /\ worker.at # "down" /\ rows[i].state = "needs_review"
  /\ \/ CommitSent(i)
     \/ Settle(i, "cancelled") /\ UNCHANGED <<dialogue, shown>>
  /\ UNCHANGED <<snapshot, mem, timing, handled, policy, worker, changes, crashes, told, asked>>

Expire ==
  /\ dialogue.stage # "none" /\ ~dialogue.late
  /\ dialogue' = [dialogue EXCEPT !.late = TRUE]
  /\ UNCHANGED <<rows, snapshot, mem, timing, handled, policy, worker, changes, crashes, told, shown, asked>>

Crash ==
  /\ worker.at # "down" /\ crashes < MaxCrashes
  /\ crashes' = crashes + 1
  /\ worker' = [at |-> "down", row |-> worker.row]
  /\ UNCHANGED <<rows, snapshot, mem, timing, dialogue, handled, policy, changes, told, shown, asked>>

\* recover: an interrupted send is unknown; whether it arrived nobody knows.
Interrupted == {i \in DOMAIN rows : rows[i].state = "outbox_ready" /\ worker.row = i}
Restart ==
  /\ worker.at = "down"
  /\ \E sent \in SUBSET Interrupted :
       rows' = [i \in DOMAIN rows |->
         IF rows[i].state = "generating" THEN [rows[i] EXCEPT !.state = "queued"]
         ELSE IF i \in sent THEN [rows[i] EXCEPT !.state = "needs_review"] ELSE rows[i]]
  /\ worker' = [at |-> "idle", row |-> 0]
  /\ UNCHANGED <<snapshot, mem, timing, dialogue, handled, policy, changes, crashes, told, shown, asked>>

Next ==
  \/ \E s \in Says : Admit(s)
  \/ \E m \in Memories, s \in {"open", "completed", "withdrawn"} : AdminChange(m, s)
  \/ \E m \in Memories, d \in Dates \cup {NoDate} : AdminTime(m, d)
  \/ \E z \in BOOLEAN : ContactRequest(z)
  \/ \E i \in DOMAIN rows : TakeMemory(i) \/ TakeMessage(i) \/ Resolve(i)
  \/ \E m \in Memories, s \in {"open", "completed"} : ProposeChange(m, s)
  \/ Handle \/ Propose \/ ProposalFails \/ Dispatch \/ FinishDelivery \/ Expire \/ Crash \/ Restart

Spec == Init /\ [][Next]_vars

-----------------------------------------------------------------------------
(* Properties *)

\* A time the user confirmed is the one that the question he was last shown,
\* before he sent his approval, restated - about that episode, at the version
\* that still stands - and not that of a question still in flight, repeated,
\* withdrawn or replaced in between.
ConfirmedAsShown == \A m \in Memories :
  LET t == timing[m] IN
  t.state = "confirmed" /\ t.by > 0 =>
    asked[t.by] = [seq |-> t.by - 1, mem |-> {m}, mver |-> t.mver, op |-> "confirm", date |-> t.date]

\* A confirmed time is always that of an open episode's current version, read
\* in the time zone that is in force now.
TimesAreCurrent == \A m \in Memories :
  timing[m].state = "confirmed" => IsOpen(m) /\ Current(m) /\ timing[m].zone = policy.zone

\* Whatever turn is generated again and however late its result comes, the
\* model never replaces a record an operator corrected, nor one that changed
\* since its turn was shown it.
CorrectionsStand ==
  [][\A m \in Memories : mem'[m].ver # mem[m].ver /\ mem'[m].by = "model" =>
       /\ mem[m].by = "model"
       /\ mem[m].ver = snapshot[worker.row][m]]_vars

\* A message whose answer is generated again after a crash is answered the
\* same: the user is never told "nothing to confirm" of what was saved.
OneAnswer == \A i \in 1..MaxRows : Cardinality(told[i]) <= 1

\* The records, the times and the answers agree, with their types.
RecordsAgree == TypeOK /\ TimesAreCurrent /\ OneAnswer
===============================================================================
