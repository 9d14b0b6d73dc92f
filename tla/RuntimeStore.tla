----------------------------- MODULE RuntimeStore -----------------------------
(***************************************************************************)
(* The durable private-chat runtime: the SQLite tables of RuntimeStore,     *)
(* the independent deletion journal, the workers of ConversationEngine      *)
(* that RuntimeHost schedules, and the chat platform they send to.          *)
(*                                                                         *)
(* Every store method runs under one lock in one SQLite transaction, so     *)
(* each is one atomic action.  A worker's step is several transactions with *)
(* the model call and the network send between them: those are the points   *)
(* where erasure, review, shutdown and crashes interleave, and pc[c] is the *)
(* point at which the worker of conversation c stands.                      *)
(*                                                                         *)
(* An event is identified by its conversation and sequence number, which a  *)
(* running database never reuses; its turn and its outbox row share that    *)
(* identity, each being unique per event.                                   *)
(***************************************************************************)
EXTENDS Naturals, FiniteSets

CONSTANTS
  Convs,          \* private conversations
  Sources,        \* platform message ids
  Requests,       \* request ids of binding changes
  Characters,     \* character snapshots
  NoSource,       \* an event without a source id
  NoCharacter,    \* no character recorded
  Workers,        \* worker slots of the host
  MaxPending,     \* capacity of the inbox, over all conversations
  MaxSeq,         \* bound: sequence numbers per conversation
  MaxAttempts,    \* bound: dispatch attempts per outbox row
  MaxGeneration   \* bound: data generation a conversation reaches

ASSUME ConstantsAssumption ==
  /\ NoSource \notin Sources \cup Requests
  /\ Sources \cap Requests = {}
  /\ NoCharacter \notin Characters
  /\ {Workers, MaxPending, MaxSeq, MaxAttempts, MaxGeneration} \subseteq Nat \ {0}

VARIABLES
  \* the main database
  privacy,        \* conversations.privacy_state; "absent" is no row
  dataGen,        \* conversations.data_generation
  bound,          \* conversations.character_id
  nextSeq,        \* conversations.next_seq
  kind,           \* inbox_events.kind; "none" is no row
  event,          \* inbox_events.state
  source,         \* inbox_events.source_id
  card,           \* the character of a binding request or of a turn
  turn,           \* turns.state
  outbox,         \* outbox_messages.state
  attempts,       \* outbox_messages.attempts
  history,        \* messages: <<role, seq>>
  \* the deletion journal, a database of its own
  deletion,       \* the latest deletion of each conversation
  erasedSources,  \* the fingerprints of erased and suppressed source ids
  \* the process
  host,           \* RuntimeHost: running, stopping, failing, fatal, down
  privacyFailed,  \* an erasure failed from its journal entry on
  pc,             \* where the worker of a conversation is
  work,           \* the event and data generation the worker holds
  \* the platform, and what people and the platform know independently
  flying,         \* requests handed to the transport, by attempt number
  landed,         \* requests the platform executed, by attempt number
  acks,           \* retries an operator acknowledged
  origin          \* the source id each sequence number was admitted with

dbVars       == <<privacy, dataGen, bound, nextSeq, kind, event, source, card,
                  turn, outbox, attempts, history>>
journalVars  == <<deletion, erasedSources>>
processVars  == <<host, privacyFailed, pc, work>>
platformVars == <<flying, landed>>
recordVars   == <<acks, origin>>
vars == <<dbVars, journalVars, processVars, platformVars, recordVars>>

Seqs     == 1..MaxSeq
Terminal == {"completed", "ignored", "failed", "cancelled"}

EventStates   == Terminal \cup {"none", "queued", "generating", "outbox_ready", "needs_review"}
TurnStates    == {"none", "planned", "generating", "awaiting_delivery", "finished",
                  "needs_review", "cancelled", "ignored", "failed"}
OutboxStates  == {"none", "pending", "dispatching", "accepted", "rejected",
                  "unknown", "cancelled"}
HostStates    == {"running", "stopping", "failing", "fatal", "down"}
WorkerStates  == {"idle", "picked", "generating", "dispatch", "sending"}
SendStates    == {"none", "dispatching", "unknown"}
AnySource     == Sources \cup Requests \cup {NoSource}
AnyCharacter  == Characters \cup {NoCharacter}
DeletionRecord == [gen : Nat, cutoff : 0..MaxSeq, sends : [Seqs -> SendStates]]

TypeOK ==
  /\ privacy \in [Convs -> {"absent", "active", "erased"}]
  /\ dataGen \in [Convs -> Nat \ {0}]
  /\ bound \in [Convs -> AnyCharacter]
  /\ nextSeq \in [Convs -> 1..(MaxSeq + 1)]
  /\ kind \in [Convs -> [Seqs -> {"none", "message", "binding", "erased"}]]
  /\ event \in [Convs -> [Seqs -> EventStates]]
  /\ source \in [Convs -> [Seqs -> AnySource]]
  /\ card \in [Convs -> [Seqs -> AnyCharacter]]
  /\ turn \in [Convs -> [Seqs -> TurnStates]]
  /\ outbox \in [Convs -> [Seqs -> OutboxStates]]
  /\ attempts \in [Convs -> [Seqs -> Nat]]
  /\ history \in [Convs -> SUBSET ({"user", "assistant"} \X Seqs)]
  /\ deletion \in [Convs -> DeletionRecord]
  /\ erasedSources \in [Convs -> SUBSET (Sources \cup Requests)]
  /\ host \in HostStates
  /\ privacyFailed \in BOOLEAN
  /\ pc \in [Convs -> WorkerStates]
  /\ work \in [Convs -> [seq : Seqs, gen : Nat]]
  /\ flying \in [Convs -> [Seqs -> SUBSET Nat]]
  /\ landed \in [Convs -> [Seqs -> SUBSET Nat]]
  /\ acks \in [Convs -> [Seqs -> Nat]]
  /\ origin \in [Convs -> [Seqs -> AnySource]]

PerSeq(value) == [c \in Convs |-> [s \in Seqs |-> value]]

Init ==
  /\ privacy = [c \in Convs |-> "absent"]
  /\ dataGen = [c \in Convs |-> 1]
  /\ bound = [c \in Convs |-> NoCharacter]
  /\ nextSeq = [c \in Convs |-> 1]
  /\ kind = PerSeq("none")
  /\ event = PerSeq("none")
  /\ source = PerSeq(NoSource)
  /\ card = PerSeq(NoCharacter)
  /\ turn = PerSeq("none")
  /\ outbox = PerSeq("none")
  /\ attempts = PerSeq(0)
  /\ history = [c \in Convs |-> {}]
  /\ deletion = [c \in Convs |-> [gen |-> 1, cutoff |-> 0, sends |-> [s \in Seqs |-> "none"]]]
  /\ erasedSources = [c \in Convs |-> {}]
  /\ host = "running"
  /\ privacyFailed = FALSE
  /\ pc = [c \in Convs |-> "idle"]
  /\ work = [c \in Convs |-> [seq |-> 1, gen |-> 0]]
  /\ flying = PerSeq({})
  /\ landed = PerSeq({})
  /\ acks = PerSeq(0)
  /\ origin = PerSeq(NoSource)

-----------------------------------------------------------------------------
(* Queries on the tables *)

Open(c) == {s \in Seqs : event[c][s] \notin Terminal \cup {"none"}}
Pending == {e \in Convs \X Seqs : e[2] \in Open(e[1])}

HasRoom == Cardinality(Pending) < MaxPending

\* (mutant) character changes overtake waiting messages
BindingsFirst(c, s) ==
  s \in Open(c) /\ (kind[c][s] = "binding" \/ \A t \in Open(c) : s <= t)

\* The oldest unfinished event: nothing later is looked at before it.
IsHead(c, s) == s \in Open(c) /\ \A t \in Open(c) : s <= t

\* (mutant) only the tables are asked
SeenInTables(c, src) == \E s \in Seqs : source[c][s] = src

\* A source id met before, in the tables or among the erased ones.
SeenBefore(c, src) == src \in erasedSources[c] \/ \E s \in Seqs : source[c][s] = src

\* privacy.require_current for the context the worker of c holds
Current(c) == privacy[c] = "active" /\ dataGen[c] = work[c].gen

Erased(c, s) == kind[c][s] = "erased"

\* What the operator's and the gateway's calls need: RuntimeHost.mutate and
\* the privacy check that opens every transaction.
Accepting == host \in {"running", "failing"} /\ ~privacyFailed

\* (mutant) a worker's transactions skip the privacy check
StoreOpen == host # "down"

\* What a worker's transaction needs.
StoreUp == host # "down" /\ ~privacyFailed

-----------------------------------------------------------------------------
(* Admission *)

InsertEvent(c, k, src, ch, state) ==
  LET s == nextSeq[c] IN
  /\ s <= MaxSeq
  /\ nextSeq' = [nextSeq EXCEPT ![c] = s + 1]
  /\ kind' = [kind EXCEPT ![c][s] = k]
  /\ event' = [event EXCEPT ![c][s] = state]
  /\ source' = [source EXCEPT ![c][s] = src]
  /\ card' = [card EXCEPT ![c][s] = ch]
  /\ origin' = [origin EXCEPT ![c][s] = src]
  /\ UNCHANGED <<dataGen, turn, outbox, attempts, history, journalVars,
                 processVars, platformVars, acks>>

\* A fresh private message.  A full inbox refuses it unless it is the command
\* that pauses contact, which is stored without joining the backlog.
Admit(c, src, initial, pauses) ==
  /\ Accepting
  /\ privacy[c] # "erased"
  /\ src # NoSource => ~SeenBefore(c, src)
  /\ dataGen[c] > 1 => src # NoSource
  /\ HasRoom \/ pauses
  /\ InsertEvent(c, "message", src, NoCharacter, IF HasRoom THEN "queued" ELSE "ignored")
  /\ privacy' = [privacy EXCEPT ![c] = "active"]
  /\ bound' = [bound EXCEPT ![c] = IF privacy[c] = "absent" THEN initial ELSE @]

\* A message to an erased conversation is dropped; its id is remembered, so
\* that the platform's redelivery stays dropped after a restart of the chat.
SuppressIncoming(c, src) ==
  /\ Accepting
  /\ privacy[c] = "erased"
  /\ src \notin erasedSources[c]
  /\ erasedSources' = [erasedSources EXCEPT ![c] = @ \cup {src}]
  /\ UNCHANGED <<dbVars, deletion, processVars, platformVars, recordVars>>

EnqueueBinding(c, request, ch) ==
  /\ Accepting
  /\ privacy[c] = "active"
  /\ ~SeenBefore(c, request)
  /\ HasRoom
  /\ InsertEvent(c, "binding", request, ch, "queued")
  /\ UNCHANGED <<privacy, bound>>

-----------------------------------------------------------------------------
(* The worker of a conversation: ConversationEngine.step *)

GoTo(c, place) == pc' = [pc EXCEPT ![c] = place]
Hold(c, s)     == work' = [work EXCEPT ![c] = [seq |-> s, gen |-> dataGen[c]]]

Ready(c) == \E s \in Seqs : IsHead(c, s) /\ event[c][s] \in {"queued", "outbox_ready"}

\* RuntimeHost gives a ready conversation without a worker a free worker slot.
Pick(c) ==
  /\ host = "running"
  /\ ~privacyFailed
  /\ pc[c] = "idle"
  /\ Cardinality({d \in Convs : pc[d] # "idle"}) < Workers
  /\ Ready(c)
  /\ GoTo(c, "picked")
  /\ UNCHANGED <<dbVars, journalVars, host, privacyFailed, work, platformVars, recordVars>>

\* The worker looks for itself: by now the host may be stopping, or the
\* conversation erased.
Starting(c) == pc[c] = "picked" /\ StoreUp

NothingToDo(c) ==
  /\ Starting(c)
  /\ privacy[c] # "active" \/ ~Ready(c)
  /\ GoTo(c, "idle")
  /\ UNCHANGED <<dbVars, journalVars, host, privacyFailed, work, platformVars, recordVars>>

AtHead(c, s) == Starting(c) /\ privacy[c] = "active" /\ IsHead(c, s)

\* next_work on a character change: applied and completed at once.
ApplyBinding(c, s) ==
  /\ AtHead(c, s)
  /\ kind[c][s] = "binding"
  /\ event[c][s] = "queued"
  /\ bound' = [bound EXCEPT ![c] = card[c][s]]
  /\ event' = [event EXCEPT ![c][s] = "completed"]
  /\ GoTo(c, "idle")
  /\ UNCHANGED <<privacy, dataGen, nextSeq, kind, source, card, turn, outbox, attempts, history,
                 journalVars, host, privacyFailed, work, platformVars, recordVars>>

\* next_work on a message: the first time, the turn takes the character bound
\* now and the user's words enter the history; a turn interrupted earlier
\* keeps the character it has.
BeginTurn(c, s) ==
  /\ AtHead(c, s)
  /\ kind[c][s] = "message"
  /\ event[c][s] = "queued"
  /\ card' = [card EXCEPT ![c][s] = IF turn[c][s] = "none" THEN bound[c] ELSE @]
  /\ history' = [history EXCEPT ![c] = @ \cup {<<"user", s>>}]
  /\ turn' = [turn EXCEPT ![c][s] = "generating"]
  /\ event' = [event EXCEPT ![c][s] = "generating"]
  /\ GoTo(c, "generating")
  /\ Hold(c, s)
  /\ UNCHANGED <<privacy, dataGen, bound, nextSeq, kind, source, outbox, attempts,
                 journalVars, host, privacyFailed, platformVars, recordVars>>

\* next_work on a reply already saved: straight to its dispatch.
TakeOutbox(c, s) ==
  /\ AtHead(c, s)
  /\ event[c][s] = "outbox_ready"
  /\ GoTo(c, "dispatch")
  /\ Hold(c, s)
  /\ UNCHANGED <<dbVars, journalVars, host, privacyFailed, platformVars, recordVars>>

\* The generated reply, its event and its turn in one transaction.
SaveProposal(c) ==
  LET s == work[c].seq IN
  /\ pc[c] = "generating"
  /\ StoreUp
  /\ Current(c)
  /\ event[c][s] = "generating"
  /\ outbox' = [outbox EXCEPT ![c][s] = "pending"]
  /\ event' = [event EXCEPT ![c][s] = "outbox_ready"]
  /\ turn' = [turn EXCEPT ![c][s] = "awaiting_delivery"]
  /\ GoTo(c, "dispatch")
  /\ UNCHANGED <<privacy, dataGen, bound, nextSeq, kind, source, card, attempts, history,
                 journalVars, host, privacyFailed, work, platformVars, recordVars>>

\* StaleWork: the conversation was erased while the model was at work.
DropStale(c) ==
  /\ pc[c] = "generating"
  /\ StoreUp
  /\ ~Current(c)
  /\ GoTo(c, "idle")
  /\ UNCHANGED <<dbVars, journalVars, host, privacyFailed, work, platformVars, recordVars>>

\* (mutant) the state of the event is not looked at
EndGenerationBlindly(c, outcome) ==
  LET s == work[c].seq IN
  /\ pc[c] = "generating"
  /\ StoreUp
  /\ event' = [event EXCEPT ![c][s] = outcome]
  /\ turn' = [turn EXCEPT ![c][s] = outcome]
  /\ GoTo(c, "idle")
  /\ UNCHANGED <<privacy, dataGen, bound, nextSeq, kind, source, card, outbox, attempts,
                 history, journalVars, host, privacyFailed, work, platformVars, recordVars>>

\* (mutant) the worker slot is kept after the turn ended
EndGenerationKeepsSlot(c, outcome) ==
  LET s == work[c].seq IN
  /\ pc[c] = "generating"
  /\ StoreUp
  /\ event' = [event EXCEPT ![c][s] = IF @ = "generating" THEN outcome ELSE @]
  /\ turn' = [turn EXCEPT ![c][s] = IF @ = "generating" THEN outcome ELSE @]
  /\ UNCHANGED <<privacy, dataGen, bound, nextSeq, kind, source, card, outbox, attempts,
                 history, journalVars, processVars, platformVars, recordVars>>

\* The model declined or failed.  The update names the event, not the data
\* generation: it does nothing unless that event is still being generated.
EndGeneration(c, outcome) ==
  LET s == work[c].seq IN
  /\ pc[c] = "generating"
  /\ StoreUp
  /\ event' = [event EXCEPT ![c][s] = IF @ = "generating" THEN outcome ELSE @]
  /\ turn' = [turn EXCEPT ![c][s] = IF @ = "generating" THEN outcome ELSE @]
  /\ GoTo(c, "idle")
  /\ UNCHANGED <<privacy, dataGen, bound, nextSeq, kind, source, card, outbox, attempts,
                 history, journalVars, host, privacyFailed, work, platformVars, recordVars>>

\* The sender is not connected; the host tries again later.
SenderNotReady(c) ==
  /\ pc[c] = "dispatch"
  /\ GoTo(c, "idle")
  /\ UNCHANGED <<dbVars, journalVars, host, privacyFailed, work, platformVars, recordVars>>

Dispatchable(c, s) == outbox[c][s] = "pending" /\ ~Erased(c, s)

\* begin_dispatch commits the attempt before anything leaves the process; the
\* request that follows may reach the platform at any later time, or never.
BeginDispatch(c) ==
  LET s == work[c].seq IN
  /\ pc[c] = "dispatch"
  /\ StoreUp
  /\ Dispatchable(c, s)
  /\ outbox' = [outbox EXCEPT ![c][s] = "dispatching"]
  /\ attempts' = [attempts EXCEPT ![c][s] = @ + 1]
  /\ flying' = [flying EXCEPT ![c][s] = @ \cup {attempts[c][s] + 1}]
  /\ GoTo(c, "sending")
  /\ UNCHANGED <<privacy, dataGen, bound, nextSeq, kind, event, source, card, turn, history,
                 journalVars, host, privacyFailed, work, landed, recordVars>>

\* The reply was erased after it was saved.
DispatchRefused(c) ==
  /\ pc[c] = "dispatch"
  /\ StoreUp
  /\ ~Dispatchable(c, work[c].seq)
  /\ GoTo(c, "idle")
  /\ UNCHANGED <<dbVars, journalVars, host, privacyFailed, work, platformVars, recordVars>>

\* The platform executes a request: late, after the answer was given up,
\* after a crash of the process or after an erasure.
Land(c, s, a) ==
  /\ a \in flying[c][s]
  /\ flying' = [flying EXCEPT ![c][s] = @ \ {a}]
  /\ landed' = [landed EXCEPT ![c][s] = @ \cup {a}]
  /\ UNCHANGED <<dbVars, journalVars, processVars, recordVars>>

\* What the send's outcome proves: an acceptance comes after the request was
\* executed, a rejection means it never will be, anything else proves nothing.
Observed(c, s, status) ==
  CASE status = "accepted" -> attempts[c][s] \in landed[c][s]
    [] status = "rejected" -> attempts[c][s] \in flying[c][s]
    [] OTHER -> TRUE

SettledEvent(c, s, status) ==
  IF status = "accepted" THEN "completed"
  ELSE IF Erased(c, s) /\ status = "rejected" THEN "cancelled"
  ELSE "needs_review"

SettledTurn(c, s, status) ==
  IF status = "accepted" THEN "finished" ELSE SettledEvent(c, s, status)

JoinsHistory(c, s, status) == status = "accepted" /\ ~Erased(c, s)

\* (mutant) a send without an answer is tried again
CommitDeliveryRequeued(c, s, status) ==
  LET again == status = "unknown" IN
  /\ outbox' = [outbox EXCEPT ![c][s] = IF again THEN "pending" ELSE status]
  /\ event' = [event EXCEPT ![c][s] = IF again THEN "outbox_ready" ELSE SettledEvent(c, s, status)]
  /\ turn' = [turn EXCEPT ![c][s] = IF again THEN "awaiting_delivery" ELSE SettledTurn(c, s, status)]
  /\ history' = [history EXCEPT ![c] =
       IF JoinsHistory(c, s, status) THEN @ \cup {<<"assistant", s>>} ELSE @]

\* _commit_delivery.  "accepted" stands for "captured" in capture mode too.
CommitDelivery(c, s, status) ==
  /\ outbox' = [outbox EXCEPT ![c][s] = status]
  /\ event' = [event EXCEPT ![c][s] = SettledEvent(c, s, status)]
  /\ turn' = [turn EXCEPT ![c][s] = SettledTurn(c, s, status)]
  /\ history' = [history EXCEPT ![c] =
       IF JoinsHistory(c, s, status) THEN @ \cup {<<"assistant", s>>} ELSE @]

\* The send returned and its result is recorded.
FinishDelivery(c, status) ==
  LET s == work[c].seq IN
  /\ pc[c] = "sending"
  /\ StoreUp
  /\ outbox[c][s] = "dispatching"
  /\ Observed(c, s, status)
  /\ CommitDelivery(c, s, status)
  /\ flying' = [flying EXCEPT ![c][s] =
       IF status = "rejected" THEN @ \ {attempts[c][s]} ELSE @]
  /\ GoTo(c, "idle")
  /\ UNCHANGED <<privacy, dataGen, bound, nextSeq, kind, source, card, attempts,
                 journalVars, host, privacyFailed, work, landed, recordVars>>

\* (mutant) the slot of a failed worker is never released
WorkerFailsSilently(c) ==
  /\ pc[c] # "idle"
  /\ host' = "fatal"
  /\ UNCHANGED <<dbVars, journalVars, privacyFailed, pc, work, platformVars, recordVars>>

\* A transaction of the worker fails: storage, or the privacy check.  The
\* tables stay as they are and the host takes no more work.
WorkerFails(c) ==
  /\ pc[c] # "idle"
  /\ GoTo(c, "idle")
  /\ host' = "fatal"
  /\ UNCHANGED <<dbVars, journalVars, privacyFailed, work, platformVars, recordVars>>

-----------------------------------------------------------------------------
(* The operator *)

Reviewable(c, s) == outbox[c][s] \in {"unknown", "rejected"}

ConfirmSent(c, s) ==
  /\ Accepting
  /\ outbox[c][s] = "unknown"
  /\ CommitDelivery(c, s, "accepted")
  /\ UNCHANGED <<privacy, dataGen, bound, nextSeq, kind, source, card, attempts,
                 journalVars, processVars, platformVars, recordVars>>

\* (mutant) erased sends may be retried
MayRetryAny(c, s) == Reviewable(c, s)

MayRetry(c, s) == Reviewable(c, s) /\ ~Erased(c, s)

Retry(c, s) ==
  /\ Accepting
  /\ MayRetry(c, s)
  /\ attempts[c][s] < MaxAttempts
  /\ outbox' = [outbox EXCEPT ![c][s] = "pending"]
  /\ event' = [event EXCEPT ![c][s] = "outbox_ready"]
  /\ turn' = [turn EXCEPT ![c][s] = "awaiting_delivery"]
  /\ acks' = [acks EXCEPT ![c][s] = @ + 1]
  /\ UNCHANGED <<privacy, dataGen, bound, nextSeq, kind, source, card, attempts, history,
                 journalVars, processVars, platformVars, origin>>

Discard(c, s) ==
  /\ Accepting
  /\ Reviewable(c, s)
  /\ outbox' = [outbox EXCEPT ![c][s] = "cancelled"]
  /\ event' = [event EXCEPT ![c][s] = "cancelled"]
  /\ turn' = [turn EXCEPT ![c][s] = "cancelled"]
  /\ UNCHANGED <<privacy, dataGen, bound, nextSeq, kind, source, card, attempts, history,
                 journalVars, processVars, platformVars, recordVars>>

-----------------------------------------------------------------------------
(* Erasure: the journal commits first, the tables follow *)

\* Sends that may still reach the platform survive the erasure, without content.
PendingSend(c, s) == outbox[c][s] \in {"dispatching", "unknown"}

NewDeletion(c) ==
  [gen    |-> dataGen[c] + 1,
   cutoff |-> nextSeq[c] - 1,
   sends  |-> [s \in Seqs |-> IF PendingSend(c, s) THEN outbox[c][s] ELSE "none"]]

RecordDeletion(c) ==
  /\ Accepting
  /\ privacy[c] = "active"
  /\ dataGen[c] < MaxGeneration
  /\ deletion' = [deletion EXCEPT ![c] = NewDeletion(c)]
  /\ erasedSources' = [erasedSources EXCEPT ![c] =
       @ \cup {source[c][s] : s \in {t \in Seqs : source[c][t] # NoSource}}]

Owed(c) == deletion[c].gen > dataGen[c]

\* apply_erasure: only the sends that outlive their content keep a row.
Kept(del, value, none) == [s \in Seqs |-> IF del.sends[s] # "none" THEN value ELSE none]

ApplyErasure(c, del) ==
  /\ privacy' = [privacy EXCEPT ![c] = "erased"]
  /\ dataGen' = [dataGen EXCEPT ![c] = del.gen]
  /\ bound' = [bound EXCEPT ![c] = NoCharacter]
  /\ nextSeq' = [nextSeq EXCEPT ![c] = IF @ > del.cutoff THEN @ ELSE del.cutoff + 1]
  /\ kind' = [kind EXCEPT ![c] = Kept(del, "erased", "none")]
  /\ event' = [event EXCEPT ![c] = Kept(del, "needs_review", "none")]
  /\ source' = [source EXCEPT ![c] = [s \in Seqs |-> NoSource]]
  /\ card' = [card EXCEPT ![c] = [s \in Seqs |-> NoCharacter]]
  /\ turn' = [turn EXCEPT ![c] = Kept(del, "needs_review", "none")]
  /\ outbox' = [outbox EXCEPT ![c] = del.sends]
  /\ attempts' = [attempts EXCEPT ![c] =
       [s \in Seqs |-> IF del.sends[s] # "none" THEN @[s] ELSE 0]]
  /\ history' = [history EXCEPT ![c] = {}]

EraseConversation(c) ==
  /\ RecordDeletion(c)
  /\ ApplyErasure(c, NewDeletion(c))
  /\ UNCHANGED <<processVars, platformVars, recordVars>>

\* The journal has committed and the tables have not: the store refuses
\* everything from here to its next start.
EraseHalfDone(c) ==
  /\ RecordDeletion(c)
  /\ privacyFailed' = TRUE
  /\ UNCHANGED <<dbVars, host, pc, work, platformVars, recordVars>>

\* The journal could not be written: nothing is deleted, and the store refuses
\* everything all the same.
EraseUnrecorded(c) ==
  /\ Accepting
  /\ privacy[c] = "active"
  /\ privacyFailed' = TRUE
  /\ UNCHANGED <<dbVars, journalVars, host, pc, work, platformVars, recordVars>>

ResumeAllowed(c) ==
  /\ privacy[c] = "erased"
  /\ \A s \in Seqs : ~PendingSend(c, s)

ResumeConversation(c, ch) ==
  /\ Accepting
  /\ ResumeAllowed(c)
  /\ privacy' = [privacy EXCEPT ![c] = "active"]
  /\ bound' = [bound EXCEPT ![c] = ch]
  /\ UNCHANGED <<dataGen, nextSeq, kind, event, source, card, turn, outbox, attempts,
                 history, journalVars, processVars, platformVars, recordVars>>

-----------------------------------------------------------------------------
(* The life of the process *)

BeginShutdown ==
  /\ host \in {"running", "failing"}
  /\ host' = "stopping"
  /\ UNCHANGED <<dbVars, journalVars, privacyFailed, pc, work, platformVars, recordVars>>

\* The serve loop's own queries fail, as they do once the privacy check
\* refuses.  It takes no more work, but the failure is only known, and calls
\* refused, when the last worker has ended.
LoopFails ==
  /\ host = "running"
  /\ host' = "failing"
  /\ UNCHANGED <<dbVars, journalVars, privacyFailed, pc, work, platformVars, recordVars>>

LoopEnds ==
  /\ host = "failing"
  /\ \A c \in Convs : pc[c] = "idle"
  /\ host' = "fatal"
  /\ UNCHANGED <<dbVars, journalVars, privacyFailed, pc, work, platformVars, recordVars>>

\* close waits for every worker.
Close ==
  /\ host \in {"stopping", "fatal"}
  /\ \A c \in Convs : pc[c] = "idle"
  /\ host' = "down"
  /\ UNCHANGED <<dbVars, journalVars, privacyFailed, pc, work, platformVars, recordVars>>

Crash ==
  /\ host # "down"
  /\ host' = "down"
  /\ pc' = [c \in Convs |-> "idle"]
  /\ UNCHANGED <<dbVars, journalVars, privacyFailed, work, platformVars, recordVars>>

RecoveredEvent(e, box) ==
  IF box = "dispatching" THEN "needs_review"
  ELSE IF e = "generating" THEN "queued" ELSE e

\* (mutant) the turn of an interrupted send is forgotten
RecoveredTurnPlanned(t, box) == IF t = "generating" THEN "planned" ELSE t

RecoveredTurn(t, box) ==
  IF box = "dispatching" THEN "needs_review"
  ELSE IF t = "generating" THEN "planned" ELSE t

RecoveredBox(box) == IF box = "dispatching" THEN "unknown" ELSE box

\* recover: an interrupted generation runs again, an interrupted send never.
Restart ==
  /\ host = "down"
  /\ \A c \in Convs : ~Owed(c)
  /\ host' = "running"
  /\ privacyFailed' = FALSE
  /\ event' = [c \in Convs |-> [s \in Seqs |-> RecoveredEvent(event[c][s], outbox[c][s])]]
  /\ turn' = [c \in Convs |-> [s \in Seqs |-> RecoveredTurn(turn[c][s], outbox[c][s])]]
  /\ outbox' = [c \in Convs |-> [s \in Seqs |-> RecoveredBox(outbox[c][s])]]
  /\ UNCHANGED <<privacy, dataGen, bound, nextSeq, kind, source, card, attempts, history,
                 journalVars, pc, work, platformVars, recordVars>>

\* Opening the store replays the journal before anything else may use it.
ReplayDeletion(c) ==
  /\ host = "down"
  /\ Owed(c)
  /\ ApplyErasure(c, deletion[c])
  /\ UNCHANGED <<journalVars, processVars, platformVars, recordVars>>

-----------------------------------------------------------------------------
Gateway(c) ==
  \/ \E src \in Sources \cup {NoSource}, ch \in Characters, pauses \in BOOLEAN :
       Admit(c, src, ch, pauses)
  \/ \E src \in Sources : SuppressIncoming(c, src)

NextWork(c) ==
  \/ NothingToDo(c)
  \/ \E s \in Seqs : ApplyBinding(c, s) \/ BeginTurn(c, s) \/ TakeOutbox(c, s)

Generate(c) == \/ SaveProposal(c)
               \/ DropStale(c)
               \/ \E outcome \in {"ignored", "failed"} : EndGeneration(c, outcome)

Dispatch(c) == BeginDispatch(c) \/ DispatchRefused(c)

Finish(c) == \E status \in {"accepted", "rejected", "unknown"} : FinishDelivery(c, status)

Operator(c) ==
  \/ \E request \in Requests, ch \in Characters : EnqueueBinding(c, request, ch)
  \/ \E s \in Seqs : ConfirmSent(c, s) \/ Retry(c, s) \/ Discard(c, s)
  \/ EraseConversation(c)
  \/ EraseHalfDone(c)
  \/ EraseUnrecorded(c)
  \/ \E ch \in Characters : ResumeConversation(c, ch)

Platform(c) == \E s \in Seqs : \E a \in flying[c][s] : Land(c, s, a)

Fault == Crash \/ LoopFails \/ BeginShutdown \/ \E c \in Convs : WorkerFails(c)

Reopen == Restart \/ \E c \in Convs : ReplayDeletion(c)

Next ==
  \/ \E c \in Convs :
       \/ Gateway(c)
       \/ Pick(c)
       \/ NextWork(c)
       \/ Generate(c)
       \/ SenderNotReady(c)
       \/ Dispatch(c)
       \/ Finish(c)
       \/ Operator(c)
       \/ Platform(c)
  \/ Fault
  \/ LoopEnds
  \/ Close
  \/ Reopen

Spec == Init /\ [][Next]_vars
-----------------------------------------------------------------------------
(* Invariants *)

\* What an event of each kind, its turn and its reply may show together.
Stories ==
  [none    |-> {<<"none", "none", "none">>},
   binding |-> {<<"queued", "none", "none">>,
                <<"completed", "none", "none">>},
   erased  |-> {<<"needs_review", "needs_review", "dispatching">>,
                <<"needs_review", "needs_review", "unknown">>,
                <<"completed", "finished", "accepted">>,
                <<"cancelled", "cancelled", "rejected">>,
                <<"cancelled", "cancelled", "cancelled">>},
   message |-> {<<"queued", "none", "none">>,
                <<"queued", "planned", "none">>,
                <<"generating", "generating", "none">>,
                <<"outbox_ready", "awaiting_delivery", "pending">>,
                <<"outbox_ready", "awaiting_delivery", "dispatching">>,
                <<"needs_review", "needs_review", "unknown">>,
                <<"needs_review", "needs_review", "rejected">>,
                <<"completed", "finished", "accepted">>,
                <<"cancelled", "cancelled", "cancelled">>,
                <<"ignored", "none", "none">>,
                <<"ignored", "ignored", "none">>,
                <<"failed", "failed", "none">>}]

\* The three tables tell one story: what an event waits for, what its turn
\* shows and where its reply stands never drift apart, whatever interrupts the
\* transactions that move them (save_proposal, _commit_delivery, recover,
\* resolve_delivery and apply_erasure each write all three).
TablesAgree ==
  \A c \in Convs, s \in Seqs :
    <<event[c][s], turn[c][s], outbox[c][s]>> \in Stories[kind[c][s]]

\* A conversation is answered in order: while an event is unfinished, waiting
\* for a person included, nothing later in it has begun (docstring of
\* ConversationEngine: never past an unresolved delivery).
InOrder ==
  \A c \in Convs, s, t \in Seqs :
    s < t /\ s \in Open(c) =>
      turn[c][t] = "none" /\ event[c][t] \in {"none", "queued", "ignored"}

\* The platform is handed a reply once, and once more for each retry that an
\* operator acknowledged: no crash, timeout, restart or erasure sends again.
SendsArePermitted ==
  \A c \in Convs, s \in Seqs : flying[c][s] \cup landed[c][s] \subseteq 1..(1 + acks[c][s])

\* A platform message becomes at most one event, across restarts, erasure and
\* a new start of the conversation; no event carries an id already erased.
AdmittedOnce ==
  \A c \in Convs :
    /\ \A s, t \in Seqs : origin[c][s] = origin[c][t] /\ s # t => origin[c][s] = NoSource
    /\ ~Owed(c) => \A s \in Seqs : source[c][s] \notin erasedSources[c]

\* The reply history holds what was delivered, no draft and no doubtful send,
\* and the user's words from the moment their turn began.
HistoryIsDelivered ==
  \A c \in Convs, s \in Seqs :
    /\ <<"assistant", s>> \in history[c] <=> outbox[c][s] = "accepted" /\ ~Erased(c, s)
    /\ <<"user", s>> \in history[c] <=> turn[c][s] # "none" /\ ~Erased(c, s)

\* A turn speaks as the character bound by the last change queued before its
\* message, however long it waited and however often it was interrupted.
CharacterInOrder ==
  \A c \in Convs, s, t \in Seqs :
    /\ s < t
    /\ kind[c][t] = "message" /\ turn[c][t] # "none"
    /\ \/ kind[c][s] = "binding"
       \/ kind[c][s] = "message" /\ turn[c][s] # "none"
    /\ \A m \in (s + 1)..(t - 1) : kind[c][m] # "binding"
    => card[c][t] = card[c][s]

\* Once a deletion is applied, nothing at or before its cutoff has content, a
\* place in the queue or a send to come; a late send result, a review or a
\* restart brings nothing back.
ErasedStaysErased ==
  \A c \in Convs, s \in Seqs :
    ~Owed(c) /\ s <= deletion[c].cutoff =>
      /\ source[c][s] = NoSource
      /\ card[c][s] = NoCharacter
      /\ {<<"user", s>>, <<"assistant", s>>} \cap history[c] = {}
      /\ event[c][s] \in {"none", "needs_review", "completed", "cancelled"}
      /\ outbox[c][s] # "pending"

Frozen == privacyFailed \/ host = "down"

\* A deletion the journal holds and the tables have not followed is exactly
\* what an erasure of the tables as they stand would record: nothing moves them
\* in between, so the replay at the next start forgets no message and no send
\* that may be on its way (_transaction, replay).
DeletionIsExact == \A c \in Convs : Owed(c) => Frozen /\ deletion[c] = NewDeletion(c)

\* A conversation starts anew only after every send of its erased past is settled.
ResumedClean ==
  \A c \in Convs, s \in Seqs :
    privacy[c] = "active" /\ Erased(c, s) => ~PendingSend(c, s)

\* Work in progress always has its worker, or a host that must restart first:
\* no conversation is stuck behind an event that nobody will touch again.
NothingAbandoned ==
  \A c \in Convs, s \in Seqs :
    host \notin {"fatal", "down"} =>
      /\ event[c][s] = "generating" => pc[c] = "generating" /\ work[c].seq = s
      /\ outbox[c][s] = "dispatching" => pc[c] = "sending" /\ work[c].seq = s

\* A worker finds what it left: an unerased generation is still its own, and a
\* send still has its row in flight (the ValueErrors of save_proposal and
\* finish_delivery, which would stop the host, never fire).
WorkerFindsItsRow ==
  \A c \in Convs :
    /\ pc[c] = "generating" /\ Current(c) => event[c][work[c].seq] = "generating"
    /\ pc[c] = "sending" => outbox[c][work[c].seq] = "dispatching"

\* The tables, the history and the workers agree, with their types: whatever a
\* crash, a rejection, a review or an erasure interrupts.
StoreAgrees == TypeOK /\ TablesAgree /\ HistoryIsDelivered /\ NothingAbandoned /\ WorkerFindsItsRow

\* What was erased stays away for good: its content, its messages delivered
\* again by the platform, and sends that outlived it.
NothingErasedReturns == ErasedStaysErased /\ AdmittedOnce /\ ResumedClean

\* Messages and changes of character take effect in the order they came in.
OrderIsKept == InOrder /\ CharacterInOrder

(* Action properties *)

\* From the moment a deletion is in the journal, through a crash before the
\* tables follow it, no content it covers is handed to the platform.
NoSendAfterDeletion ==
  [][\A c \in Convs, s \in Seqs :
       ~(flying'[c][s] \subseteq flying[c][s]) => s > deletion[c].cutoff]_vars

\* A worker whose conversation was erased under it leaves every row alone,
\* those of the new start included.
StaleWorkerIsSilent ==
  [][\A c \in Convs :
       pc[c] = "generating" /\ ~Current(c) /\ pc'[c] # pc[c] =>
         UNCHANGED <<event[c], turn[c], outbox[c], history[c]>>]_vars

\* An erasure holds from the moment it is in the journal, against the worker
\* that was at work on what it covers and the send that was about to begin.
ErasureHolds == NoSendAfterDeletion /\ StaleWorkerIsSilent

-----------------------------------------------------------------------------
(* Liveness *)

\* The host's loop selects the least recently served conversation first and
\* polls again after 0.1s, so a ready conversation is not passed over for ever
\* while slots come free; model calls and sends have timeouts; a connection is
\* assumed to come back.  Nothing is assumed of people or of the platform.
Fairness ==
  /\ \A c \in Convs : /\ SF_vars(Pick(c))
                      /\ WF_vars(NextWork(c))
                      /\ WF_vars(Generate(c))
                      /\ SF_vars(Dispatch(c))
                      /\ WF_vars(Finish(c))
                      /\ WF_vars(privacyFailed /\ WorkerFails(c))
  /\ WF_vars(privacyFailed /\ LoopFails)
  /\ WF_vars(LoopEnds)
  /\ WF_vars(Close)
  /\ WF_vars(Reopen)

FairSpec == Spec /\ Fairness

Settled(c, s)  == event[c][s] \in Terminal \cup {"none"}
NeedsPerson(c) == \E s \in Seqs : event[c][s] = "needs_review"

\* If faults stop, every admitted event is settled or stands behind a send
\* that waits for a person.
EventsSettle ==
  (<>[][~Fault]_vars) =>
    \A c \in Convs, s \in Seqs : event[c][s] = "queued" ~> Settled(c, s) \/ NeedsPerson(c)

\* A shutdown that was begun completes: close outlasts every worker.
ShutdownCompletes == host = "stopping" ~> host = "down"
=============================================================================
