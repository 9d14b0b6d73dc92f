# Verification of openqqwaifu

TLA+ models of the program in `src/`, the TLC runs that check them on small
instances and the theorems TLAPS proves about them for every value of the
constants. Source paths below are relative to
`src/src/waifu_standalone/` unless they say otherwise.

## The system

openqqwaifu is a companion chatbot for QQ. A OneBot gateway (NapCat) delivers
messages over HTTP or a reverse WebSocket; the program answers with a language
model, in the voice of a character card, and keeps memories of the people it
talks to. Private chats listed for it run on the *durable runtime*
(`runtime_v2/`), which is where the program's promises live: messages are
stored before they are answered, replies are never sent twice by accident,
conversations can be erased for good, and all of it survives crashes. Groups
and other chats take the older path, which works under one lock per chat.

### Inventory

| Component | State it keeps | Operations | Hard behaviour | What makes it correct |
|---|---|---|---|---|
| Runtime core (`runtime_v2/store.py`, `engine.py`, `integration.py`, `contracts.py`) | SQLite tables: conversations, inbox events, turns, outbox, attempts, messages | admit, enqueue_binding, next_work, save_proposal, end_generation, begin_dispatch, finish_delivery, resolve_delivery, recover, host loop and shutdown | model calls and sends between transactions; crashes; lost answers; late landings; slots and capacity; operators who decide on old pages | no send without a permit; in-order handling; tables agree; nothing abandoned; every event settles; a decision is about what was shown |
| Erasure (`runtime_v2/privacy.py`) | deletion journal, a database of its own | record, replay, suppress_incoming, apply_erasure, resume | journal commits before the tables; stale workers; redelivered ids; old backups | what was erased stays erased and is never sent |
| Reminders (`runtime_v2/reminders.py`) | tasks, occurrences | request, tick, prepare, before_dispatch, delivery_result | cancellation racing dispatch; due times; policy changes | sent as authorized, once, and never after a cancellation that was answered |
| Contact policy (`runtime_v2/contact_policy.py`) | per-conversation policy and attempts | pause, quiet hours, limits, decision | several due messages against one limit | limits hold at dispatch |
| Follow-ups, drafts, episode times (`runtime_v2/followups.py`, `followup_drafts.py`, `episode_times.py`, `episode_time_dialogue.py`) | candidates, drafts, times, dialogue | discover, request, tick, prepare, draft claim/finish, answer | stale snapshots of memory and policy; revisions; repeated turns | sent as approved, about the episode as it stands; a time is confirmed only as shown |
| Memories (`runtime_v2/memories.py`) | versioned records | apply_change | model and operator revise at once | a revision never overwrites one it has not seen |
| Session lock (`infra/session_lock.py`) | holder, queue of waiters on several event loops | acquire, release, cancel | hand-off to a waiter that is cancelled or whose loop closes | mutual exclusion, order, no lost lock |
| Token buckets (`infra/rate_limit.py`) | tokens per key | acquire | several buckets at once, eviction | all or none; the tokens a steady bucket would have |
| Inbound deduplication (`gateways/inbound_dedup.py`) | claims with expiry | claim, mark_delivered, release | retry during and after a failed handling | at most one answer per message within its window |
| OneBot connections (`gateways/onebot_ws.py`) | current socket, pending echoes | activate, deactivate, send_action, close | reconnection while requests wait | an answer reaches its own request |
| Listening (`reply_flow/listener.py`) | newest message and check task per group, arrival times, collected pictures | await_turn, consider_chiming_in, check | a message arriving at any `await` | a question is answered by somebody; pictures go with their sender; she does not talk twice in a row |
| She speaks first (`reply_flow/companion.py`) | reminders, watches, when chats were heard and opened; a state file | tick, remind, check a watch, greet, save, close | replies, writes and crashes between the steps of a tick | a promise is kept, once; nobody is pestered |
| Background tasks (`reply_flow/tasks.py`) | one task per chat | start, cancel, close | finish racing cancel and shutdown | one task per chat, which has its say |
| Character service and switcher (`character/`, `runtime/service.py`, `web/http_api_async.py`) | active character, its stores, leases of replies, pending switch | switch, confirm, time out, shut down | replies, write-backs and threads that outlive a request | no reply changes character midway; the stores close last |
| Tavern (`tavern/`) | table, its file, archive, rounds, idle timer | menu, lines, rounds, rolls, end, resume | rounds, handlers and timers between one another; restarts | a line is answered once; the file is the table; no game is lost |
| Reply path and sessions (`reply_flow/service.py`, `emitter.py`, `memory/session_service.py`, `repositories/`, `memory_admin/service.py`) | history, summary, snapshots | record, reply, store, archive, edit, purge | every writer loads, changes and saves the whole | nothing recorded is lost, shown twice or brought back |
| Members (`members/`, `gateways/notice_dispatcher.py`) | a row per member, a row per member and character | replies, naming tool, soft question, write-back, notices, lists, console page | whole rows saved from copies that threads, notices and lists overtake | a name, fact or membership told last is what is remembered |
| Skills, configuration, web console, model clients, prompts | files, caches | request handling | mostly sequential under the session lock | - |

How they interact: the gateway calls `PrivateRuntime.accept`, which commits an
event through `RuntimeHost.mutate`; the host's loop gives ready conversations
to workers, each of which steps one conversation through `ConversationEngine`;
the engine calls the model and the sender; the sender is the OneBot
connection. Operators act through the web console, which calls the same store
through `mutate`. Reminders, follow-ups and memory changes are further kinds of
events in the same inbox, and share its order, its outbox and its recovery. A
message of another chat goes from the gateway through the deduplicator, the
listener and the chat's lock to the reply path, which loads the session,
answers, and saves it; the companion, the task runner, the archiver and the
console's pages work on the same chats beside it.

`PROJECT.json` lists every component with its status, and under `hazards` each
behaviour that is hard to test, at the line where it bites, with the properties
that would catch it.

## The modules

| Module | Role |
|---|---|
| `RuntimeStore` | the runtime: tables, journal, host, workers, platform; invariants, action properties, fairness, liveness |
| `DeliveryPromise` | what the runtime promises about deliveries, with no database or process in it |
| `RuntimeStoreRefinement` | the refinement mapping; `RuntimeStore` implements `DeliveryPromise` |
| `RuntimeStoreProofs` | theorems about `RuntimeStore`: types, permits and the journal; tables, erasure, order and the refinement |
| `ContactPolicy` | the decision whether a planned message may be sent now; extended by the next two |
| `Reminders`, `RemindersProofs` | reminders of one conversation; theorems |
| `Followups`, `FollowupsProofs` | follow-ups on one episode, and their drafts; theorems |
| `Episodes`, `EpisodesProofs` | memory records, the times of episodes and the dialogue about them; theorems |
| `Operators` | operators deciding on old pages; backups of the database and of the journal |
| `SessionLock` | the lock of a chat: tasks of several event loops, threads, loops that close |
| `OneBotLink` | connections that replace one another and requests that await echoes |
| `Inbound`, `InboundProofs` | from a message event to its answer; extends `OneBotLink`, so the two are composed; theorems about both |
| `Listening`, `ListeningProofs` | a group: who waits, who is superseded, when she joins in; theorems |
| `Companion` | what she says unasked in one chat, and its background task |
| `Personas` | switches of character among replies, write-backs and the shutdown |
| `Sessions` | the history of one chat and everybody who writes it |
| `Tavern` | a game at one chat's table |
| `Members` | what is remembered of one member of a group, and everybody who writes it |
| `RateLimit` | the token buckets |
| `MCRuntimeStore`, `MCSessionLock`, `MCReminders`, `MCFollowups`, `MCEpisodes`, `MCInbound` | model values, inputs, regions and symmetry for TLC |
| `MCProgress`, `MCListening`, `MCServices` | small instances of several modules side by side |
| `ChatProofs` | theorems about what is behind the lock of a chat: `SessionLock`, `Tavern` and `Sessions` |
| `ServicesProofs` | theorems about `Personas`, `RateLimit`, `Operators` and `Members` |

In the last three a behaviour belongs to one *part*, chosen at the start, and the
variables the part does not have stay empty. The state spaces are disjoint, so each
part is checked as it would be alone; nothing is claimed about two parts together.

What is composed: `Reminders` and `Followups` with `ContactPolicy`, `Inbound` with
`OneBotLink`, `RuntimeStore` with its platform and journal, `Companion` with the task
runner, `Sessions` with the reply path, the archiver and the console, and `Tavern` with
the riddle that shares its chat. Where a module leaves a part to another one, the text
below says which.

### How `RuntimeStore` corresponds to the code

Each method of the store runs under one lock in one `BEGIN IMMEDIATE`
transaction, so each is one atomic action. A worker's step
(`ConversationEngine.step`) is several transactions, with the model call and
the network send between them; `pc[c]` says between which two the worker of
conversation `c` stands:

    idle -Pick-> picked -BeginTurn-> generating -SaveProposal-> dispatch -BeginDispatch-> sending -FinishDelivery-> idle
                   |-TakeOutbox-------------------------------^

`work[c]` is the `TurnContext` it holds: an event and the data generation it
was read at. Everything else may happen at any of these points: admissions,
erasure and resumption, reviews, shutdown, a crash, a send landing.

- An event is its conversation and sequence number. Its turn and its outbox row
  are unique per event in the code, so all three tables are indexed alike.
  `kind`, `event`, `turn`, `outbox`, `attempts`, `source`, `card` are columns.
- `deletion[c]` is the newest record of the journal for `c`; `erasedSources` are
  its fingerprints. `RecordDeletion` is the journal's commit. `EraseConversation`
  is the usual case where the tables follow in the same call; `EraseHalfDone`
  is the case where they do not and the store refuses everything
  (`_privacy_failed`) until the next start, when `ReplayDeletion` makes up for it.
  A journal that commits and a process that dies at once is `EraseHalfDone`
  followed by `Crash`. When the journal itself cannot be written the store refuses
  everything too, with nothing deleted: `EraseUnrecorded`.
- `host` is `RuntimeHost`: *failing* is the time between the failure of the
  serve loop and the end of its last worker, when calls are still accepted but
  nothing new is picked; *fatal* is known failure; *down* is no process.
- `flying` and `landed` are the platform: requests handed to the transport, by
  attempt number, and those the platform executed. A request lands late, or
  never. `acks` and `origin` are bookkeeping for the properties: what an operator
  acknowledged and which id an event came with; no action reads them.

Abstracted: message text, prompts, model output beyond *reply / nothing /
failure*, timestamps, audit rows, attempt rows, error codes, request-id digests
of repeated operator calls (a repeated call changes nothing). `accepted` stands
for `captured` too: which of the two is fixed by the mode the database was
created with. The deletion of a conversation that is already erased is refused
and changes nothing.

### How `SessionLock` corresponds to the code

A task of the model is one acquisition with its release; the code makes a `_Waiter`
for each, so a caller that comes again is another task. `ticket` is the queue
(`_waiters`): the places are numbered in the order of arrival and 0 is outside. `pc`
is where the coroutine is suspended or, in `releasing` and `scheduling`, where `release`
has got to.

- `Acquire` and `Wait` are the two branches of `acquire`; `Resume`, `Cancel` and
  `HandleCancel` what can happen at its `await`.
- `release` is two steps, because another thread can run between them: `Pass`, `Free`
  or `Refused` under the guard, then `Schedule` or `ScheduleFails` outside it.
  `Complete` is the callback on the waiter's loop. Tasks of one loop do not interleave
  with a `release` of that loop (`Turn`).
- `Close` is a loop that ends after its tasks, as `asyncio.run` in `hold` and the orderly
  shutdown of the web server do it; `Abandon` is that server closing its loop over
  suspended tasks when it gave up waiting.

### How the other modules correspond to the code

- **`ContactPolicy`** is `decide` over the stored policy and the attempts of the last day. An
  instant is a tick; the time zone is there or not, and quiet hours are a set of ticks.
- **`Reminders`**: every action is one store transaction. A row of `inbox_events`, with its
  occurrence and its outbox row, is one element of `events`; `Work` is the worker's next
  transaction (`worker.at` says which), `Tick` the due check, `Review` an operator's decision
  about a delivery, `AdminRequest` the console's reminder operations. A user's command is a row of the
  queue; a cancellation or postponement is applied in the transaction that admits it
  (`UserCommand`, `runtime_v2/store.py:303-306`), so that it does not wait behind the reminder it revokes, and
  `RunCommand` finds its stored outcome when the answer is generated. Only a creation takes effect
  there. A user's changes of the contact rules act at their admission too and are `ContactRequest`;
  their rows are left out. `granted`, `stopped`, `sends`,
  `retries`, `ran` and `told` are what the people concerned know, and no action reads them.
  Erasure is in `RuntimeStore`.
- **`Followups`**: `cand[v]` is the candidate of version `v` of one episode. The draft task is a
  second actor (`drafter`) with its model call between two transactions. A message is answered in
  one step; the times of episodes are in `Episodes`.
- **`Episodes`**: a message is what it says to the dialogue; `snapshot` is what its turn was shown.
  `shown` is the last question that was delivered, and `asked` what had been shown when an answer
  was admitted: the two facts the confirmation has to respect.
- **`Operators`**: `page[o]` is the conversation as operator `o` loaded it; sends and rows have
  numbers that only the properties see, since the code compares counts (`expected_attempts`,
  `preview_token`). Either file may be replaced by any of its backups while the program is down.
  Pages are loaded again after a restart.
- **`OneBotLink`**: `pending` and `future` are `_pending_echos`; `_activate`, `_deactivate` and
  `_close` run under `_ws_lock` without giving it up and are one step each. An answer may be on the
  wire after its caller gave up. `Inbound` adds handlers: a copy of a message claims, waits for the
  chat's lock, and sends its answer in parts, each a request of the link. `whole` counts the complete
  answers whose last part the platform confirmed.
- **`Listening`**: messages are numbered in the order of arrival, `phase[i]` is where the handler
  of one is suspended; `check` is the one task per group that waits for quiet and weighs the
  newest message. Deadlines may pass at any time, also the hold on the next line of somebody whose
  question was superseded, while that line waits for the chat (`TalkEnds`; `lapsed` notes the questions that were
  given up for it). The delay before group replies is in `Sessions`.
- **`Companion`**: one chat, one event loop; every `await` of a tick, a reply or a task is a place
  where the others run. `notes`, `watch` and `chat` are memory, `saved` the file, `stale` that a
  failed write left it behind. At most one watch. `slips` counts the restarts, failed shutdown
  writes and greetings that were sent but not stored, after each of which the counts may be short
  by one.
- **`Personas`**: `reply` and `work` are leases of replies and write-backs on the character they
  began with; a switch tries while they last and runs in a thread that a cancellation does not
  stop; the shutdown drains and closes the stores, or times out.
- **`Sessions`**: `reply`, `late`, `picture`, `archiver` and `console` each load a copy, change it
  and save it whole, at the `await`s the code has; `lock` is the chat's lock. The newest complete
  snapshot of the log is `file.snap`, and a save that a crash cut short is `torn`. The save made when
  tools were used is folded into the step that stores the reply. `Clean` is `sanitize_session_state`
  (`members/persona_guard.py:138-173`), which strikes out lines that are by, or name, another character
  (`Foreign`) and saves the history without them before the reply is written; `Repeat` is the answer without the model
  to somebody who says the same again and again.
- **`Tavern`**: `table` is the session, `disk` its file, `saves` the archive, `runner` the task that
  writes rounds, `handler` the message at hand, `bowl` the riddle of `soup.py`. `script` is SillyTavern's
  own chat: how often it holds each line with an answer. A round may fail or be given up when SillyTavern has written it
  (`Unheard`): the answer came after the time limit, the reply went too far and could not be replaced, the game
  ended or the process died. `missed` notes the lines of such rounds.
- **`Members`**: `member` is the shared row (name, onboarding, card, membership) and `bond` that of the
  character (facts, affinity). `reply` and `writeback` hold the copies that are saved later; a write-back
  reads and saves without an `await`, so that only threads that already run get in between (`LoopHeld`,
  `ran`). `platform` is the truth about the member, `due` what each field should say, and `stale` the fields
  over which something older was saved. News and edits share one bound, `MaxNews`.
- **`RateLimit`**: tokens are counted in parts; `steady` is the reference, a bucket topped up at every
  tick. Capacities are fixed.

Ghost variables (`granted`, `told`, `fate`, `whole`, `steady` and their like) are written by the
actions and read by properties only.

## The runs

`CHECK_DEADLOCK FALSE` everywhere: when the messages, ticks and faults of an instance are used up and
everything is settled, the system really has nothing left to do.

| Run | Instance | Checks | Shows |
|---|---|---|---|
| `runtime` | one conversation, one platform id, two characters, one worker, a queue of 2, 3 events, 2 dispatches, 2 data generations | `StoreAgrees`, `SendsArePermitted`, `DeletionIsExact`, `NothingErasedReturns`, `OrderIsKept`, `ErasureHolds`, `KeepsPromise` | erasure, crashes, rejections, late landings, reviews and a change of character, at every point of a worker's step; and the refinement of `DeliveryPromise` |
| `runtime_liveness` | two conversations, one slot, a queue of 2, three messages or two and an erasure; fairness | `EventsSettle`, `ShutdownCompletes` | neither conversation starves, what stands behind a review does so for it alone; a shutdown ends even when the store refuses |
| `lock` | three tasks on two loops and a thread, whose loop closes, as the web server's does; fairness | `ExclusiveWhileOpen`, `NeverLost`, `NoOvertaking`, `WaitersServed` | the hand-off under cancellation at every point |
| `lock_race` | the same, without fairness | `MutualExclusion`, violated | a real race, below |
| `reminders` | two tasks, one about an episode, two characters, 3 ticks, a day of 3, one of them quiet | `OneActive`, `NothingTwice`, `SendsAreAuthorized` | a reminder is sent as authorized, within the limits, once, and not after its cancellation was accepted |
| `followups` | two versions of an episode, one draft, 3 ticks | `OnePlanned`, `NothingTwice`, `OperatorDecides` | a follow-up is sent as approved, of the episode as it stands, once |
| `progress` | three parts: a reminder and a follow-up, each under quiet hours, a limit of one a day, a pause that may be lifted and a crash; a draft with two crashes; fairness | `RemindersEnd`, `FollowupsEnd` | nothing planned is forgotten, and a blocked row blocks no other |
| `episodes` | two episodes, two dates, 3 rows; three regions of input | `RecordsAgree`, `ConfirmedAsShown`, `CorrectionsStand` | only what was shown is confirmed; the model never overwrites a correction |
| `inbound` | two connections, two copies of one message and one of another, answers in 2 parts, a table of 1 entry; fairness | `AnsweredOnce`, `DedupAgrees`, `LinkAgrees`, `DeliveriesEnd` | one whole answer is confirmed per message, a failure lets the repetition be answered, the chat is never blocked |
| `listening` | a group with two senders and 3 messages of four kinds; beside it reminders, a watch, greetings, a game and a task of the companion; fairness | `NothingDropped`, `ChimesAlone`, `SpeaksFirstKept`, `SpeakingEnds` | no question is dropped but those of departure 2, she does not talk twice in a row, her promises are kept and counted |
| `personas` | two characters, 3 messages, 2 switches from chat, the console, failing stores, shutdown; fairness | `StoresAgree`, `NobodyWaits` | no reply changes character midway, the stores close last |
| `services` | ten parts: two tables of the tavern, three histories, two of operators and files, the buckets, two of a group's member; fairness | `TableKept`, `HistoryKept`, `OperatorsHeeded`, `TokensExact`, `MembersKept`, `ServicesEnd` | the invariants of those modules, and that lines are answered and the archiver ends |

Most of these names stand for a conjunction of named parts, each with its own comment in the module:
`StoreAgrees`, for instance, is `TypeOK`, `TablesAgree`, `HistoryIsDelivered`, `NothingAbandoned` and
`WorkerFindsItsRow`.

### Bounds

Every bound is a constant, and a `CONSTRAINT` bounds only counters that grow. The regions are
unions, so that each keeps one kind of interaction whole:

- `runtime`: rows of one conversation interact only through their order, so three give a
  predecessor, the row at work and a successor (region `OneAttempt`); retries matter for the row at work
  and the one behind it (`TwoRows`). A stale worker needs one data generation behind it.
  Conversations interact only through the capacity and the worker slots, which is what
  `runtime_liveness` has two for.
- `runtime_liveness`: regions `Contended` (three messages, two of them in one conversation: both want the slot, the inbox
  is full, and the second of one waits behind the first, in review or not, while the other is served) and
  `Forgotten` (a message of each, and one of the conversations erased, half or whole). The specification
  `FairWithin` leaves out the steps that lead out of them, which are admissions and erasures only: nothing that is fair is
  left out. The run cannot tell how long anybody waits.
- `lock`: four tasks give a releaser, the waiter it grants, the next owner and one more; the race
  needs exactly these.
- `reminders` and `followups`: at most `Few` requests, commands, changes and crashes together. Three
  are enough for a creation, a disturbance and a second one, at any point of the worker's step; three
  ticks cover before, in and after a window. `followups` takes a day as long as the window of
  an approval: with the code's numbers no retry ever falls into it (`docs/RUNTIME_V2_FOLLOWUPS.md:41`),
  and the retry would not be checked at all.
- `progress`: two changes are a pause and its end. The window of the follow-up is two ticks and reaches over
  the quiet one, so that it is queued before, deferred in and sent after it, or expires; its day is two ticks, so that the
  retry of a failed delivery is held back by the daily limit and still possible. The limit never holds back a first
  send: that would take a second episode or the other module.
- `episodes`: regions `Doubt` (one date, doubted and approved), `Many` (the choice among two episodes)
  and `Remember` (a crash while an episode is remembered).
- `inbound`: beside the first copy either its repetition or another message is delivered (`TwoCopies`): the one
  overlaps its original, the other takes the only entry of the table.
- `listening`: three messages give a question, the newer line that supersedes it and a line of
  somebody else. `Contended = FALSE` says that the lock of the group is passed on in the order of
  arrival.
- The members of `services`: one reply at once with three news, and two delayed replies with two, which is
  enough for a save between a copy and its use, and for a notice that is overtaken by another.
- The parts of `progress`, `listening` and `services` are cut so that each brings two or three
  disturbances to one operation; their constants are in the MC modules.

Symmetry is used in `runtime` and `episodes` only, for values that are interchangeable; neither run
has a liveness property.

### The race of the lock

In `lock_race` TLC finds two holders. A releaser grants a waiter on the web server's loop; before
it posts the hand-off, that waiter is cancelled by the shutdown, sees its grant, passes the
lock on and ends, and the loop closes. `call_soon_threadsafe` now raises, and the releaser
takes that for a grant nobody received: it calls `release` again
(`session_lock.py:63-65`) and frees, or hands to a second owner, a lock that a third
task holds. The module's first line promises cancellation-safe locks for callers on
different loops. Setting the grant back under the guard, or looking at
`future.cancelled()` before releasing again, would close the gap. The loop has closed in order there, with no task
left on it. As long as no loop has closed but those of threads the branch is never taken, which is
what the theorems below say.

### Fairness

- *Pick* of the runtime is strongly fair: a slot comes free again and again, and the host's
  loop serves the least recently served conversation first and polls every
  0.1 s.
- The steps of a started worker are weakly fair (model calls and sends have
  timeouts), except the dispatch, which is strongly fair: the sender is asked
  for its readiness each time round, and a connection is assumed to come back.
- The store refuses a worker or the loop once a deletion is half done, and the
  exception ends them: weakly fair. Other faults have no fairness.
- A host that failed is closed and started again by whoever runs it: `LoopEnds`,
  `Close` and `Reopen` are weakly fair.
- Of the lock: a task that can run does (loops serve their callbacks and tasks), and a
  holder releases, which every caller does in a `finally`. A task on a loop that was
  closed over it never runs again, so `WaitersServed` makes an exception for a lock
  that belongs to one.
- `Reminders` and `Followups`: the worker, the periodic tick, the draft task, the clock and the restart
  of a crashed host are weakly fair, and so is `Review`: an operator looks in the end. Without
  that a delivery whose outcome is unknown holds the queue for ever, which is what the code intends.
- `OneBotLink`: a write ends, an awaited answer comes, times out or is given up, and the handlers of a
  connection run: weakly fair. `Inbound`: handlers run, and the lock serves its waiters in turn, so
  `TakeTurn` is strongly fair.
- `Listening`: handlers and the check run; no message need arrive. `Companion`: the clock passes and
  the tick goes on (weak); what waits for the chat's lock gets it in turn (strong).
- `Personas`: replies, switches and threads end (weak), and a shutdown that began goes on: it is
  drained or times out.
- `Tavern`: a round that is due is taken up, SillyTavern answers or fails within its time limit, a reply is sent or
  fails. `Sessions`: replies and late deliveries go on (weak); the archiver gets the lock in turn (strong).
- Nothing is assumed of users, of operators but for `Review`, and of the platform: a request may never land.

`EventsSettle` and the others assume that faults stop: a process that crashes for ever settles nothing.
The number of crashes is bounded in every instance, so they do.

## What is proved

All theorems are for any sets and bounds of their module, from its `ASSUME`s alone unless stated. Each
`...Proofs` module states its inductive invariant first, as a conjunction of named parts; TLC checked each on a small
instance before it was proved.

### The runtime

`RuntimeStoreProofs`, from `ConstantsAssumption` (the markers are not members of the sets they extend, and the bounds are
positive):

- `TypeCorrect`: `TypeOK` is inductive as it stands.
- `SendsPermitted`: `SendsArePermitted` is not inductive. It needs `PermitInv`, which ties a
  row's attempts to the acknowledged retries by the state of its outbox
  (`pending`: as many attempts as acknowledgements; sent: one more), says that an event
  that is queued or being generated has no reply yet, and that a fresh sequence number
  has no row. The step that breaks it without more is the replay of the journal: it
  overwrites the rows with the journal's snapshot. `DeletionIsExact` closes that gap,
  and itself needs `NoGhosts` (no worker outlives its process) because a worker's
  failure would otherwise bring a dead host back.
- `ReplayIsExact`: `DeletionIsExact`, a result of its own: between the journal's commit and
  the tables nothing moves, so a replay is the erasure it completes.

The second half of the module builds `StoreInv` on that. Nearly every transaction moves one row, so the invariant is cut by how
many rows a part speaks of, and each step is first reduced to one of a few shapes:

- `RowInv`, of one row: the columns tell one story and the history agrees with it (`Story`, `Told`); where nothing may
  be left, nothing is (`Blank`); and an id that is gone is among the fingerprints of the journal (`Traced`). The last two
  have a different form while a deletion is recorded and not yet followed.
- `CutoffInv`: a deletion never covers a row that is still to come.
- `OrderInv`, of two rows: behind an open row nothing has begun, two rows have the same character unless a change
  stands between them, and no id has two rows. Without the second, a turn that is interrupted and taken up again after
  a change was queued could not be shown to speak as it should.
- `WorkInv`: a worker that generates holds the row as it left it or was overtaken by an erasure, one that sends finds
  its row in flight, and every such row has its worker unless the host must restart.

From it follow `TablesAlwaysAgree` (`StoreAgrees`), `ErasedForGood` (`NothingErasedReturns`), `OrderKept`
(`OrderIsKept`), and, as an action property, `ErasureBinds` (`ErasureHolds`).

Its last part proves `PromiseKept`: `RuntimeStore` implements `DeliveryPromise`. Under `StoreInv` a step
of a worker or of the platform is the step of one reply, a restart loses track of several at once, an erasure seals those of one
conversation, and everything else is a stutter. The mapping reads one row (`Phase`); that its cases are disjoint is part of the
definition, since a prover is told nothing of the case a `CASE` with two true guards takes.

### The lock

`ChatProofs`, for any tasks, threads and loops. Its theorems are about behaviours up to the moment when a loop
other than a thread's closes, in order or not and whoever waits where (`LoopsOpen`: none has); past it `lock_race` refutes the first. A loop never opens again, so `WhileOpen`
is inductive. Mutual exclusion of holders is not: the lock belongs to a waiter from the grant on, long
before it runs. `OwnerInv` says that the lock is held exactly when it has one owner,
`GrantInv` that only granted waiters are woken and that none of them is in the queue any
more, and `HandOffInv` that a grant in flight has one carrier and an open loop to go to,
because the loop of a thread stays open until its waiter is woken. `LockExcludes` and `LockKept` follow.
`LockOrderly` (`NoOvertaking`) adds `QueueInv`: who waits has a place of his own in the queue or a grant, and the lock is
then held, so that a newcomer who finds it free finds nobody waiting.

### Messages and the link

`InboundProofs` proves `LinkCorrect` of `OneBotLink` from `NoneIsNothing` alone. `LinkAgrees` says nothing about requests that
are just being written, and a replacement gives up exactly the answers of the connection it replaces only if none is.
`LinkInv` therefore adds that the lock is held by the one request that is being written (`WriterInv`), and that whatever is
written or waited for, and not given up, went to the active connection (`LiveInv`).

`UsesTheLink` says that `Inbound` implements the specification of the link: no handler does with it what `LinkSpec` does not
allow. `LinkUnderTraffic` is `LinkAgrees` for the composition and follows from the two.

`Deduplicated` (`DedupAgrees`) and `AnswersOnce` (`AnsweredOnce`) rest on `InboundInv`: the table has one entry for
a message that arrived (`TableInv`), a handler holds its claim alone (`HandlerInv`), an answered message stays claimed as
delivered until no copy is to come (`WholeInv`), and a claim has a reason (`ReasonInv`). Two of these are only true until an
entry has to make room, that is while no more messages arrived than the table holds (`Roomy`); then `AnswersWhileRoomy` holds
without an assumption, and `AnswersOnce` where the table holds all of them: the code keeps 4096 claims, for ten minutes. Past
it the code promises nothing, and `AnsweredOnce` is false. The assumptions besides: the copies are a finite set.

### Episodes

`EpisodesProofs` proves what the `episodes` run checks: `EpisodesAgree`, `ConfirmedIsShown` and `OperatorsRecordsStand`.
`EpisodesInv` is the types, the order of the rows (`OrderInv`), the state of times (`TimeInv`), and three parts about the
dialogue. The difficult one is `QuestionInv`: that a question that was delivered is what the user was last shown when
he sent the row after it depends on how far the queue has got, since the answer is admitted long before it is handled.
`ConfirmInv` is `ConfirmedAsShown` with its rows in range, and `AnswerInv` says that a row that may be handled again would be
answered the same, which is what a crash in the middle of a turn needs.

### Listening

`ListeningProofs` has two invariants. `ChatInv` (who holds the lock, what is noted of a sender, what the check weighs) holds in
whatever order the messages reach the lock of the chat, and gives `JoinsInAlone` (`ChimesAlone`). `NothingIsDropped` assumes
`~Contended`, that the lock is passed on in the order of arrival: without it a question is dropped when its newer line overtakes it
(departure 2 below). It makes an exception for who turned away, and for a question whose hold ran out before the newer
line's turn, although the lock was joined in order: that line may wait behind a reply to somebody else for longer than
the hold lasts. `ListeningInv` adds that order (`InOrder`), that a message given up has a later one of its sender that is
answered for it (`QuestionInv`), and that pictures put by have somebody who takes them along (`PictureInv`).

### Reminders

`RemindersProofs` proves the three properties of the `reminders` run: `OneUnderWay` (`OneActive`), `RemindersOnce`
(`NothingTwice`) and `RemindersAuthorized` (`SendsAreAuthorized`), for any tasks, requests, policies and bounds, from
`RemindersAssumption` and `ClockAssumption`: the tasks are finitely many, and the policies can be stored. None of the
properties is inductive. `RemindersInv` adds:

- `RowsAgree`: how far a row, its occurrence and its task have got together; a row that waits is of the task's current version.
- `OneRow`: a task that is under way has an open row, and the conversation has one such row. With `RowsAgree` this is what
  lets a tick withdraw a row or put another task on the queue.
- `TasksAgree`: a task is what was last authorized, it was sent as often as its state and the acknowledged retries tell,
  and what was stopped is ended, or is marked and can at most be reviewed.
- `WorkerAgrees`: a row that is being sent has its worker or a host that must restart, and a command that is carried out
  is still being generated.
- `CommandsInv`: the outcome a user was told is the one that is stored, and a command ran if and only if that is "done".
- `AttemptsInv`: the attempts that the limits count are the sends, no two of one instant. Without it the limits would
  hold of the wrong set.

The parts that speak of the tables are stated of any `db`, because a tick and a change of policy go through the tasks one
after the other (`EachWaiting`, a fold over a finite set), and the state between two of them is not a state of the
behaviour. The induction this needs is in the module: `FiniteInduction` is about a set of sets instead of a predicate,
so it can be cited for any, and follows from the least element of a set of sizes (`WFMin`). `StepsDefine` shows that the
fold is the function its steps define, and `PassKeeps` that a pass preserves what each step does. Every step other than
`Dispatch` begins no send (`BeginsNone`), so the action property is about one step.

### Follow-ups

`FollowupsProofs` proves `FollowupsInv` (`FollowupsAgree`), and from it the three properties of the `followups` run:
`OneIsPlanned` (`OnePlanned`), `NobodyAskedTwice` (`NothingTwice`) and `OperatorIsHeeded` (`OperatorDecides`), for any
versions of the episode, drafts, policies and bounds, from the `ASSUME`s of `Followups` and `ContactPolicy` alone. What
`FollowupsInv` adds to the properties:

- `TablesAgree`: how far a row has got is how far its candidate has (`RowsAgree`); a candidate under way has an open row
  and there is one such row (`OneRow`); of all the versions one is planned or was asked about (`OneVersion`). The last is
  what `OnePlanned` needs: a version that was asked about blocks the scheduling of another, and without counting it a
  delivery that fails after the episode was corrected could leave two.
- `CandAgrees`: a candidate is what was approved and is not under way before it was due; one that was ignored was
  dismissed, or is marked while its delivery lasts. A mark that got lost when a delivery ends would let the next version
  be planned again.
- `SendsAgree`: the episode was asked about once for every delivery an operator settled, and once more while a delivery is
  open or after it was accepted.
- `WorkerAgrees` and `DraftsAgree`: a row that is being sent has its worker unless the process died, and a draft that is
  being written, or is ready, was written from the snapshot it carries, its call counted.

The parts that speak of the tables are stated of any `db`, as in `RemindersProofs`: a correction, a change of the rules and
the tick go through all the candidates, and a tick does so twice with the discovery in between. Each stage preserves
`TablesAgree` and *follows* the one before (`Follows`): it begins no send, plans nothing and forgets nothing that was
ignored, so what holds of the stages holds of the step. The passes are recursive functions over the versions
(`Reconcile`, `TickAll`); `StepsDefine` shows that such a function is what its steps define, and the induction is again
about a set of numbers (`UpTo`, from the least element of a set) and not about a predicate.

### Personas, rate limits, operators and members

`MCServices` takes each of its modules as a family, `LimitsOf(c)` for instance, of which the instances that TLC checks
are members. `ServicesProofs` proves about every member that satisfies the stated assumptions, and then, as a
consequence, about those: `TokensAreExact`, `OperatorsAreHeeded` and `MembersAreKept` are theorems about `MCInit` and
`MCNext`. The last needs that no reply is called like the absence of one (`MembersAssumption`).

- `PersonasCorrect`: `StoresAgree` for any messages, characters and switches. `VoiceInv` says besides the types that
  everything that runs belongs to the active character, whose stores are in place as long as anything runs (`LeaseInv`),
  and that nothing runs once the server has seen that nothing does (`StoppedInv`): a switch and the closing of the
  stores look for running work and act in the same step.
- `BucketsExact`: `TokensExact` for any keys, demands, capacities, rates and bounds (`Rules`). `BucketInv` says of
  each key that its bucket, topped up to now, holds what the reference holds, or no less once it was put out (`InStep`),
  and of the order of use that it names each key once (`BucketTypes`). A tick adds to both; between calls the
  bucket is not touched, so that the proof is about `(now - at) * rate` and the capacity that cuts it off. The
  wait is the least number of ticks that is enough (`EnoughTicks`, `WaitIs`).
- `DecisionsHeeded`: `DecidedAsSeen` and `ErasedStaysErased` for any number of operators, things and files. `DeskInv`
  needs a history that no table holds: there is a numbering of rows by the generation each was made in (`Born`, `Died`)
  that fits the database, every backup of it, the journal and every backup of that. A page is so related to what it
  shows that it stays so when the page has become old (`Past`): in the same generation its rows are among those of the
  conversation, and the same delivery with as many attempts is the same send (`Before`), in the database and in the
  deletions a restored database has yet to follow. A replay is again a recursive function, and `ReplayedTo` says what its
  first `k` deletions leave.

- `MembersCorrect`: `MembersKept` for any replies, facts and number of news (`Cast`). The property speaks of a row when
  everything has been written; `MemberInv` says what holds while something is under way. The newest news is being handled,
  or the row says what it said (`NewsAgree`): whichever notice, list or waiting reply carries the last number carries what
  is due (`Says`), so that writing it makes the row right and writing any other marks the field as `stale`. A list that
  finds a member missing changes no row that is not there, and needs that no reply and no notice of the same number is on
  its way to make one. The card that is due is in the row or in a notice (`CardsAgree`). Who asks for a name holds the
  chat and read a member that had not been asked (`AsksAgree`), and nobody has read a row before there was one
  (`KnownWhenRead`). Every copy that is saved whole is compared with the rows at that moment (`CopyWritten`): a field it
  brings back to an older value is `stale`, the others are as they were.

### The table and the history of a chat

`ChatProofs` again, about families of instances (`TavernOf(c)`, `SessionsOf(c)`) as `ServicesProofs` is, and then about
the instances that TLC checks: `TableIsKept` and `HistoryIsKept` are theorems about `MCInit` and `MCNext`.

- `TableCorrect`: `TableKept` for any number of lines, games, players and crashes and any bound on the lines put down,
  which must not be 0 (`Setting`; the code's `_PENDING_MAX` is 30). `PageInv` says what SillyTavern's chat holds: a line in it was
  answered or `missed`, and one that is there more than once was `missed`. `TavernInv` adds what a handler finds after its `await`
  (`HandlerAgrees`); that the file holds the game at the table, a menu has neither game nor lines, and a save carries the
  number of its game (`FilesAgree`, `SavesSound`); that what is on the table, in the file or in a round has not been
  answered (`LinesAgree`); and how far the archive may be behind: an older save of the game that is in the file holds
  no line that is not settled or in the file (`SavesAgree`), so that the archiving of the file over it loses none, also
  when the process died between its two steps.
- `HistoryCorrect`: `HistoryKept` for any number of lines and any limits of history and archive (`Chatting`). `HistoryInv`
  says who has the lock (`LockAgrees`) and, as long as nobody without the lock came between a load and a save (`clash`): a line that
  is kept is in the snapshot, and what is in the snapshot is neither unsaid nor purged (`HistorySound`); everybody who will
  save what he loaded has loaded what is in the file, and the archiver's summary is the file's, with the batch once it has
  been summed (`CopiesAgree`); a line that is on its way into the history is new to everybody (`LinesFresh`). So each
  saving step is a pure statement about two snapshots (`SaveKeeps`), whoever takes it. What the archiver takes out of the
  history is a recursive function of the batch (`TakenOut`); here too `StepsDefine` gives its steps, and the induction is
  about `UpTo`.

### Only model-checked

- Liveness, everywhere: fairness and `ENABLED` are out of the prover's reach.
- `Companion`: the invariant `SpeaksFirstKept` is checked and not proved.

No module of the project declares a `RECURSIVE` operator.

## Where the code departs from its words

`lock_race` shows one disagreement as a counterexample. The following came up while the models were
written. All are steps of their models, but for the store a greeting is put into (5), and a property that one of
them would violate names its exception.

1. *Inbound.* A handler that is cancelled (`asyncio.CancelledError` is no `Exception`) passes by every
   `dedup.release` of `web/http_api.py:310-328`, and the retry counts as a duplicate until the claim expires;
   `gateways/inbound_dedup.py:15` says "A claim is released when handling fails, so the retry is answered."
   `FailureReleases` is about failures that are not cancellations. With `group_response_delay` above 0 the reply is sent by a
   task of its own (`reply_flow/emitter.py:225-243`), and a send that fails there releases no claim either; `Inbound` has no delay.
2. *Listening.* A question that is superseded is lost when the newer line of its sender names somebody else, or is a
   plain line while she was told to be quiet, since that line is not for her (`reply_flow/listener.py:160`; the
   docstring at 149 says that "a newer message of theirs will be answered instead"). The pictures collected so far
   then wait for a later message. The same happens when the newer line overtakes in the lock
   (`Contended = TRUE`), and when a plain newer line waits for the chat, behind a reply to somebody else, for longer than the hold of
   `max_wait_seconds + quiet_seconds` (`listener.py:166-169`, 10 s unless configured, where a model call alone may take 24
   to 45 s, `config.py:41-43`): `addresses_bot` (280-281) then takes that line for talk among others, against the comment
   at 165, "Their next message is still meant for the character, @ or not." `TurnedAway` and `lapsed` are the exceptions.
3. `_consider` looks whether she was told to be quiet before the model weighs the talk, not after
   (`listener.py:356`), so she may join in right after "闭嘴" (docstring at 229: "no chime-ins").
4. A message that arrives while the check awaits the model finds the check's task not done
   (`listener.py:299`) and the newest message already taken (347): unless somebody speaks again it
   is never weighed (module docstring, 15-16: "Everyone else's talk is weighed").
5. *Personas.* The greeting of a new character is said outside any lease (`character/switcher.py:218`), so that a
   second switch may put it into the other character's store.
6. Confirming another switch cancels the task of the first (`switcher.py:177`), but not its thread, which still
   switches when it gets to. The module docstring says that a switch "waits until no reply or memory write-back is
   running, then the new character greets the chat."
7. *Follow-ups.* Ignoring the episode of a candidate that is already being cancelled changes nothing
   (`runtime_v2/followups.py:53-57`), so a later revision becomes a candidate again;
   `docs/RUNTIME_V2_FOLLOWUPS.md:15` says that ignoring an episode keeps its later revisions from forming candidates.
   `ignored` is set only by a request that had an effect.
8. *Tavern.* A menu that its idle timer ends while the host's choice awaits SillyTavern still opens its game, on
   disk and not at the table; and a roll whose announcement is being sent when the game ends is put into the ended
   game and writes its file again. `tavern/session.py:3-6` says that a game lives in its file while it runs and moves to
   the archive when it ends. Variable `stray` marks both.
   The same lines can go into SillyTavern's chat again and be answered there a second time: when the turn succeeded and
   `rewrite` or `replace_last` failed after it (`tavern/mode.py:671-689`), when the answer came after the time limit
   (`tavern/sillytavern.py:212-214`), or when the process died, or the game was saved and taken up again, before `mode.py:694`.
   `tavern/sillytavern_page.js:507` says of a round that is sent again "it must not stay here twice". The program counts
   one answer all the same: `AnsweredOnce` is about that count, and says of SillyTavern's chat that nothing else leads to it (`missed`).
9. A line put down while the notice of a stalled round is being sent waits for the next line (`stuck`).
10. *Sessions.* A generated picture is delivered without the chat's lock (`skills/dispatcher.py:459`), and so is the
    console's edit saved (`memory_admin/service.py:85`; the page sends the metadata it loaded, `memory.js:105`). Either can
    overwrite, or be overwritten by, a reply that saves the copy it loaded before the model call
    (`reply_flow/service.py:270-271`). `HistoryKept` holds until that happens (`clash`).
11. `_remember_ambient_event` says that a line "is merged into the persisted session exactly once"
    (`runtime/service.py:1153`); a line she joins in on that is no longer the newest is put down again (`joined`).
12. `purge_memory` leaves the group chatter that has not been saved yet, and the next reply saves it.
13. *Operators.* Deletions are compared by generation number. After an older journal is brought back together with an
    older database, sequence numbers of deleted rows are given out again (`forked`).
14. *Companion.* (a) A due reminder is off the list while it waits for the chat's lock, and another save in that
    time persists the list without it: a crash, or a shutdown, then loses it (`fate` is "cut"), where
    `companion.py:30-31` says that the state file "keeps them". (b) The conditions of a greeting are not looked at again
    after the wait for the lock. (c) Somebody who answers between the sending and `unanswered += 1` counts as not
    having answered. (d) A watch that is cancelled while its search runs is still told. (e) `watch.known` is
    updated before the telling, so a telling that fails loses the news; the docstring says "only real news is told"
    (10). (f) `_greeting_candidates` awaits while it iterates over `self._chats` (520): a new chat raises
    `RuntimeError`, and the tick's save waits for the next tick. (g) A greeting that was sent but could not be stored is not
    counted. (h) After a restart the clock starts with the first inbound message (204), and reminders wait for it.
15. *Members.* A write-back, the page of the console and the tidying of facts save the whole of the row they read
    (`members/persona_guard.py:257`), and the naming tool and the soft question the card they read: what a
    notice, a list or another reply stored since is overwritten (`stale`). A list of the group is stored after news
    that came later than it. After such a save the soft question may be asked again, where
    `members/onboarding.py:9` says "A single soft follow-up".

## What is not modelled

Not modelled as components, with the reason in `PROJECT.json`: inspection and demo, skills and
tools, configuration, the web console's request handling, model and search clients, the conversation context and composer,
the login helper, feelings, thoughts and story systems, start-up, migration and command line. Together with the
assembly of prompts, the row formats of the repositories and the wording of pages and commands, this is most of the program's text:
it computes strings, or moves bytes to services whose answers the models take as a choice. Its control
is that of the models that call it, and a model of it would repeat the text, which is why the map covers
the parts that keep state between steps and not most lines.

Inside the components:

- The runtime: audit rows, request digests and wording. SQLite is taken at its word: a transaction is atomic and
  durable, and the owner lock admits one process. A rejection is taken to mean that the platform will not execute
  the request, which is what the sender's contract says of it (`OutboundAdapter.send`).
- `AnsweredOnce` of `Inbound` counts answers whose last part was confirmed: a send whose answer got lost may have landed, and
  then the retry is a second answer. The HTTP gateway and messages without an id are left out.
- `Followups`: at most 20 candidates per look, the daily limits of drafts, and `expected_version` of an operator's page (the
  request is about what is there).
- `Episodes` and `Reminders`: reading dates and times from text is a choice of an instant.
- `Operators`: the tokens of previews only count rows, and the model has only the rows they count.
- `Sessions`: which lines another character's names strike out (any of `Foreign` may be), clipping of summaries, the knowledge graph and the diary.
- `Companion`: several chats, several watches, the diary, and the check for a reminder that repeats another.
- `Personas`: parsing of cards. `Tavern`: scenarios, dice and card import. Users in `ignore_user_ids`, who can start
  a riddle, are not told apart.
- `Members`: names the character is given, the classification of texts, and the naming router, which nothing calls. A kick is a
  member's leaving with a word of its own. Pokes and recalls are left out of the notices.
