-------------------------- MODULE RuntimeStoreProofs --------------------------
(* Theorems about RuntimeStore, for every value of its constants: its types,  *)
(* that its tables agree, that events keep their order, that nothing erased   *)
(* comes back, and that all of it implements DeliveryPromise.                 *)
(*                                                                            *)
(* Nearly every transaction moves one event, and that event is the head of    *)
(* its queue (RowStep).  The others insert a row, erase a conversation, or    *)
(* restart the store.  The invariant is cut into what one row says (RowInv),  *)
(* what two rows say of one another (OrderInv) and what a worker knows of the *)
(* row it holds (WorkInv).                                                    *)
EXTENDS RuntimeStoreRefinement, TLAPS

-----------------------------------------------------------------------------
(* Type correctness *)

LEMMA BoundsAreNat == MaxSeq \in Nat \ {0} /\ MaxAttempts \in Nat /\ MaxGeneration \in Nat
  BY ConstantsAssumption

LEMMA SeqsAreNat == ASSUME NEW s \in Seqs PROVE s \in Nat \ {0} /\ s <= MaxSeq
  BY BoundsAreNat DEF Seqs

LEMMA FirstSeq == 1 \in Seqs
  BY BoundsAreNat DEF Seqs

LEMMA TypeInit == Init => TypeOK
  <1> SUFFICES ASSUME Init PROVE TypeOK
    OBVIOUS
  <1>1. deletion \in [Convs -> DeletionRecord]
    BY BoundsAreNat DEF Init, DeletionRecord, SendStates
  <1>2. work \in [Convs -> [seq : Seqs, gen : Nat]]
    BY FirstSeq DEF Init
  <1>3. /\ nextSeq \in [Convs -> 1..(MaxSeq + 1)]
        /\ dataGen \in [Convs -> Nat \ {0}]
    BY BoundsAreNat DEF Init
  <1>4. QED
    BY <1>1, <1>2, <1>3
    DEF Init, TypeOK, PerSeq, EventStates, TurnStates, OutboxStates, HostStates, WorkerStates,
        AnySource, AnyCharacter, Terminal

\* Admission and character changes write one new row.
LEMMA TypeInsert ==
  ASSUME TypeOK, NEW c \in Convs, NEW k \in {"message", "binding"}, NEW src \in AnySource,
         NEW ch \in AnyCharacter, NEW state \in {"queued", "ignored"},
         InsertEvent(c, k, src, ch, state),
         privacy' \in [Convs -> {"absent", "active", "erased"}],
         bound' \in [Convs -> AnyCharacter]
  PROVE  TypeOK'
  <1>1. nextSeq[c] \in Seqs /\ nextSeq[c] + 1 \in 1..(MaxSeq + 1)
    BY BoundsAreNat, SMTT(30) DEF TypeOK, InsertEvent, Seqs
  <1>2. QED
    BY <1>1 DEF TypeOK, InsertEvent, EventStates, Terminal, journalVars, processVars, platformVars

LEMMA TypeGateway == ASSUME TypeOK, NEW c \in Convs, Gateway(c) PROVE TypeOK'
  <1>1. ASSUME NEW src \in Sources \cup {NoSource}, NEW ch \in Characters, NEW pauses \in BOOLEAN,
               Admit(c, src, ch, pauses)
        PROVE  TypeOK'
    <2>1. privacy' \in [Convs -> {"absent", "active", "erased"}] /\ bound' \in [Convs -> AnyCharacter]
      BY <1>1 DEF Admit, TypeOK, AnyCharacter
    <2>2. /\ InsertEvent(c, "message", src, NoCharacter, IF HasRoom THEN "queued" ELSE "ignored")
          /\ src \in AnySource /\ NoCharacter \in AnyCharacter
      BY <1>1 DEF Admit, AnySource, AnyCharacter
    <2>3. QED BY <2>1, <2>2, TypeInsert
  <1>2. ASSUME NEW src \in Sources, SuppressIncoming(c, src) PROVE TypeOK'
    BY <1>2 DEF SuppressIncoming, TypeOK, dbVars, processVars, platformVars, recordVars
  <1>3. QED BY <1>1, <1>2 DEF Gateway

LEMMA TypeNextWork ==
  ASSUME TypeOK, NEW c \in Convs, Pick(c) \/ NextWork(c)
  PROVE  TypeOK'
  <1>1. ASSUME NEW s \in Seqs, ApplyBinding(c, s) PROVE TypeOK'
    BY <1>1 DEF ApplyBinding, TypeOK, EventStates, Terminal, WorkerStates, GoTo, journalVars,
                platformVars, recordVars
  <1>2. ASSUME NEW s \in Seqs, BeginTurn(c, s) PROVE TypeOK'
    BY <1>2 DEF BeginTurn, TypeOK, EventStates, TurnStates, WorkerStates, GoTo, Hold,
                journalVars, platformVars, recordVars
  <1>3. ASSUME NEW s \in Seqs, TakeOutbox(c, s) PROVE TypeOK'
    BY <1>3 DEF TakeOutbox, TypeOK, WorkerStates, GoTo, Hold, dbVars,
                journalVars, platformVars, recordVars
  <1>4. CASE NothingToDo(c) \/ Pick(c)
    BY <1>4 DEF NothingToDo, Pick, TypeOK, WorkerStates, GoTo, dbVars, journalVars, platformVars,
                recordVars
  <1>5. QED BY <1>1, <1>2, <1>3, <1>4 DEF NextWork

LEMMA TypeWorker ==
  ASSUME TypeOK, NEW c \in Convs,
         Generate(c) \/ SenderNotReady(c) \/ Dispatch(c) \/ Finish(c) \/ WorkerFails(c)
  PROVE  TypeOK'
  <1>0. work[c].seq \in Seqs
    BY DEF TypeOK
  <1>1. CASE SaveProposal(c)
    BY <1>0, <1>1 DEF SaveProposal, TypeOK, EventStates, TurnStates, OutboxStates, WorkerStates,
                GoTo, journalVars, platformVars, recordVars
  <1>2. CASE DropStale(c) \/ SenderNotReady(c) \/ DispatchRefused(c) \/ WorkerFails(c)
    BY <1>2 DEF DropStale, SenderNotReady, DispatchRefused, WorkerFails, TypeOK, WorkerStates,
                HostStates, GoTo, dbVars, journalVars, platformVars, recordVars
  <1>3. ASSUME NEW outcome \in {"ignored", "failed"}, EndGeneration(c, outcome) PROVE TypeOK'
    BY <1>0, <1>3, SMTT(30) DEF EndGeneration, TypeOK, EventStates, TurnStates, Terminal, WorkerStates,
                GoTo, journalVars, platformVars, recordVars
  <1>4. CASE BeginDispatch(c)
    BY <1>0, <1>4 DEF BeginDispatch, TypeOK, OutboxStates, WorkerStates, GoTo, journalVars,
                recordVars
  <1>5. ASSUME NEW status \in {"accepted", "rejected", "unknown"}, FinishDelivery(c, status)
        PROVE  TypeOK'
    BY <1>0, <1>5, SMTT(30) DEF FinishDelivery, CommitDelivery, SettledEvent, SettledTurn, TypeOK,
                EventStates, TurnStates, OutboxStates, Terminal, WorkerStates, GoTo,
                journalVars, recordVars
  <1>6. QED BY <1>1, <1>2, <1>3, <1>4, <1>5 DEF Generate, Dispatch, Finish

\* What an erasure writes to the journal, and what it leaves in the tables.
LEMMA NewDeletionType ==
  ASSUME TypeOK, NEW c \in Convs
  PROVE  NewDeletion(c) \in DeletionRecord
  BY BoundsAreNat
  DEF TypeOK, NewDeletion, DeletionRecord, SendStates, OutboxStates, PendingSend

LEMMA TypeRecordDeletion ==
  ASSUME TypeOK, NEW c \in Convs, RecordDeletion(c)
  PROVE  /\ deletion' \in [Convs -> DeletionRecord]
         /\ erasedSources' \in [Convs -> SUBSET (Sources \cup Requests)]
  <1>1. deletion' \in [Convs -> DeletionRecord]
    BY NewDeletionType DEF RecordDeletion, TypeOK
  <1>2. {source[c][s] : s \in {t \in Seqs : source[c][t] # NoSource}} \subseteq Sources \cup Requests
    BY DEF TypeOK, AnySource
  <1>3. QED BY <1>1, <1>2 DEF RecordDeletion, TypeOK

LEMMA TypeApplyErasure ==
  ASSUME TypeOK, NEW c \in Convs, NEW del \in DeletionRecord, ApplyErasure(c, del),
         deletion' \in [Convs -> DeletionRecord],
         erasedSources' \in [Convs -> SUBSET (Sources \cup Requests)],
         del.gen > dataGen[c],
         UNCHANGED <<processVars, platformVars, recordVars>>
  PROVE  TypeOK'
  <1>1. /\ del.gen \in Nat \ {0} /\ del.cutoff \in 0..MaxSeq
        /\ del.sends \in [Seqs -> SendStates]
    BY DEF DeletionRecord, TypeOK
  <1>2. /\ privacy' \in [Convs -> {"absent", "active", "erased"}]
        /\ dataGen' \in [Convs -> Nat \ {0}]
        /\ bound' \in [Convs -> AnyCharacter]
        /\ nextSeq' \in [Convs -> 1..(MaxSeq + 1)]
    BY <1>1, BoundsAreNat DEF ApplyErasure, TypeOK, AnyCharacter
  <1>3. /\ kind' \in [Convs -> [Seqs -> {"none", "message", "binding", "erased"}]]
        /\ event' \in [Convs -> [Seqs -> EventStates]]
        /\ turn' \in [Convs -> [Seqs -> TurnStates]]
    BY DEF ApplyErasure, Kept, TypeOK, EventStates, TurnStates
  <1>4. /\ source' \in [Convs -> [Seqs -> AnySource]]
        /\ card' \in [Convs -> [Seqs -> AnyCharacter]]
        /\ outbox' \in [Convs -> [Seqs -> OutboxStates]]
        /\ attempts' \in [Convs -> [Seqs -> Nat]]
        /\ history' \in [Convs -> SUBSET ({"user", "assistant"} \X Seqs)]
    BY <1>1 DEF ApplyErasure, TypeOK, AnySource, AnyCharacter, OutboxStates, SendStates
  <1>5. QED
    BY <1>2, <1>3, <1>4 DEF TypeOK, processVars, platformVars, recordVars

LEMMA TypeOperator == ASSUME TypeOK, NEW c \in Convs, Operator(c) PROVE TypeOK'
  <1>1. ASSUME NEW request \in Requests, NEW ch \in Characters, EnqueueBinding(c, request, ch)
        PROVE  TypeOK'
    <2>1. request \in AnySource /\ ch \in AnyCharacter
      BY DEF AnySource, AnyCharacter
    <2>2. QED BY <1>1, <2>1, TypeInsert DEF EnqueueBinding, TypeOK
  <1>2. ASSUME NEW s \in Seqs, ConfirmSent(c, s) PROVE TypeOK'
    BY <1>2, SMTT(30) DEF ConfirmSent, CommitDelivery, SettledEvent, SettledTurn, TypeOK,
                EventStates, TurnStates, OutboxStates, Terminal, journalVars, processVars,
                platformVars, recordVars
  <1>3. ASSUME NEW s \in Seqs, Retry(c, s) PROVE TypeOK'
    BY <1>3 DEF Retry, TypeOK, EventStates, TurnStates, OutboxStates,
                journalVars, processVars, platformVars
  <1>4. ASSUME NEW s \in Seqs, Discard(c, s) PROVE TypeOK'
    BY <1>4 DEF Discard, TypeOK, EventStates, TurnStates, OutboxStates, Terminal,
                journalVars, processVars, platformVars, recordVars
  <1>5. ASSUME NEW ch \in Characters, ResumeConversation(c, ch) PROVE TypeOK'
    BY <1>5 DEF ResumeConversation, TypeOK, AnyCharacter, journalVars, processVars,
                platformVars, recordVars
  <1>6. CASE EraseConversation(c)
    <2>1. NewDeletion(c) \in DeletionRecord /\ NewDeletion(c).gen > dataGen[c]
      BY NewDeletionType DEF NewDeletion, TypeOK
    <2>2. UNCHANGED <<processVars, platformVars, recordVars>> /\ RecordDeletion(c)
      BY <1>6 DEF EraseConversation
    <2>3. QED BY <1>6, <2>1, <2>2, TypeApplyErasure, TypeRecordDeletion DEF EraseConversation
  <1>7. CASE EraseHalfDone(c)
    BY <1>7, TypeRecordDeletion
    DEF EraseHalfDone, TypeOK, dbVars, platformVars, recordVars
  <1>8. CASE EraseUnrecorded(c)
    BY <1>8 DEF EraseUnrecorded, TypeOK, dbVars, journalVars, platformVars, recordVars
  <1>9. QED BY <1>1, <1>2, <1>3, <1>4, <1>5, <1>6, <1>7, <1>8 DEF Operator

LEMMA TypeProcess ==
  ASSUME TypeOK,
         Crash \/ LoopFails \/ LoopEnds \/ BeginShutdown \/ Close \/ Reopen \/ \E c \in Convs : Platform(c)
  PROVE  TypeOK'
  <1>1. CASE Crash \/ LoopFails \/ LoopEnds \/ BeginShutdown \/ Close
    BY <1>1 DEF Crash, LoopFails, LoopEnds, BeginShutdown, Close, TypeOK, HostStates, WorkerStates,
                dbVars, journalVars, platformVars, recordVars
  <1>2. CASE Restart
    <2>1. event' \in [Convs -> [Seqs -> EventStates]]
      BY <1>2 DEF Restart, RecoveredEvent, TypeOK, EventStates
    <2>2. turn' \in [Convs -> [Seqs -> TurnStates]]
      BY <1>2 DEF Restart, RecoveredTurn, TypeOK, TurnStates
    <2>3. outbox' \in [Convs -> [Seqs -> OutboxStates]]
      BY <1>2 DEF Restart, RecoveredBox, TypeOK, OutboxStates
    <2>4. QED
      BY <1>2, <2>1, <2>2, <2>3
      DEF Restart, TypeOK, HostStates, journalVars, platformVars, recordVars
  <1>3. ASSUME NEW c \in Convs, ReplayDeletion(c) PROVE TypeOK'
    <2>1. deletion[c] \in DeletionRecord /\ deletion[c].gen > dataGen[c]
      BY <1>3 DEF TypeOK, ReplayDeletion, Owed
    <2>2. /\ deletion' \in [Convs -> DeletionRecord]
          /\ erasedSources' \in [Convs -> SUBSET (Sources \cup Requests)]
      BY <1>3 DEF TypeOK, ReplayDeletion, journalVars
    <2>3. QED BY <1>3, <2>1, <2>2, TypeApplyErasure DEF ReplayDeletion
  <1>4. ASSUME NEW c \in Convs, NEW s \in Seqs, NEW a \in flying[c][s], Land(c, s, a) PROVE TypeOK'
    BY <1>4 DEF Land, TypeOK, dbVars, journalVars, processVars, recordVars
  <1>5. QED BY <1>1, <1>2, <1>3, <1>4 DEF Reopen, Platform

LEMMA TypeStep == TypeOK /\ [Next]_vars => TypeOK'
  <1> SUFFICES ASSUME TypeOK, [Next]_vars PROVE TypeOK'
    OBVIOUS
  <1>1. CASE UNCHANGED vars
    BY <1>1 DEF TypeOK, vars, dbVars, journalVars, processVars, platformVars, recordVars
  <1>2. CASE Next
    BY <1>2, TypeGateway, TypeNextWork, TypeWorker, TypeOperator, TypeProcess DEF Next, Fault
  <1>3. QED BY <1>1, <1>2

\* Every table, the journal, the workers and the platform's record keep their
\* types in every reachable state, for any number of conversations and events.
THEOREM TypeCorrect == Spec => []TypeOK
  BY TypeInit, TypeStep, PTL DEF Spec

-----------------------------------------------------------------------------
(* The journal between its commit and the tables *)

\* A process that is down runs no worker.
NoGhosts == host = "down" => \A c \in Convs : pc[c] = "idle"

LEMMA NoGhostsStep == ASSUME TypeOK, NoGhosts, [Next]_vars PROVE NoGhosts'
  <1>1. CASE UNCHANGED vars
    BY <1>1 DEF NoGhosts, vars, processVars
  <1>2. ASSUME NEW c \in Convs, Gateway(c) \/ Operator(c) PROVE UNCHANGED <<host, pc>>
    BY <1>2
    DEF Gateway, Admit, SuppressIncoming, InsertEvent, Operator, EnqueueBinding, ConfirmSent, Retry,
        Discard, EraseConversation, EraseHalfDone, EraseUnrecorded, ResumeConversation, processVars
  <1>3. ASSUME NEW c \in Convs, Pick(c) \/ NextWork(c) PROVE host # "down" /\ UNCHANGED host
    BY <1>3 DEF Pick, NextWork, NothingToDo, ApplyBinding, BeginTurn, TakeOutbox, AtHead, Starting,
                StoreUp, Accepting
  <1>4. ASSUME NEW c \in Convs,
               Generate(c) \/ SenderNotReady(c) \/ Dispatch(c) \/ Finish(c)
        PROVE  pc[c] # "idle" /\ UNCHANGED host
    BY <1>4 DEF Generate, SaveProposal, DropStale, EndGeneration, SenderNotReady, Dispatch,
                BeginDispatch, DispatchRefused, Finish, FinishDelivery
  <1>5. ASSUME NEW c \in Convs, Platform(c) \/ ReplayDeletion(c) PROVE UNCHANGED <<host, pc>>
    BY <1>5 DEF Platform, Land, ReplayDeletion, processVars
  <1>6. CASE Fault \/ LoopEnds \/ Close \/ Restart
    BY <1>6 DEF Fault, Crash, LoopFails, LoopEnds, BeginShutdown, WorkerFails, Close, Restart, NoGhosts
  <1>7. QED BY <1>1, <1>2, <1>3, <1>4, <1>5, <1>6 DEF Next, Reopen, NoGhosts

\* While a deletion is owed no transaction of the store goes through.
LEMMA FrozenTables ==
  ASSUME TypeOK, NoGhosts, Frozen, [Next]_vars, ~Restart, ~\E d \in Convs : ReplayDeletion(d)
  PROVE  /\ UNCHANGED <<dataGen, nextSeq, outbox, deletion>>
         /\ Frozen'
  <1>1. ~Accepting /\ ~StoreUp
    BY DEF Frozen, Accepting, StoreUp
  <1>2. CASE UNCHANGED vars
    BY <1>2 DEF vars, dbVars, journalVars, processVars, Frozen
  <1>3. ASSUME NEW c \in Convs, Gateway(c) \/ Generate(c) \/ Operator(c) \/ Finish(c)
        PROVE  FALSE
    BY <1>1, <1>3
    DEF Gateway, Admit, SuppressIncoming, Generate, SaveProposal, DropStale, EndGeneration, Finish,
        FinishDelivery, Operator, EnqueueBinding, ConfirmSent, Retry, Discard, EraseConversation,
        EraseHalfDone, EraseUnrecorded, RecordDeletion, ResumeConversation
  <1>4. ASSUME NEW c \in Convs, Pick(c) \/ NextWork(c) \/ Dispatch(c) PROVE FALSE
    BY <1>1, <1>4
    DEF Frozen, Pick, NextWork, NothingToDo, Starting, AtHead, ApplyBinding, BeginTurn, TakeOutbox,
        Dispatch, BeginDispatch, DispatchRefused
  <1>5. ASSUME NEW c \in Convs, SenderNotReady(c) \/ Platform(c) \/ WorkerFails(c)
        PROVE  UNCHANGED <<dataGen, nextSeq, outbox, deletion>> /\ Frozen'
    BY <1>5 DEF SenderNotReady, Platform, Land, WorkerFails, Frozen, NoGhosts, dbVars,
                journalVars, processVars
  <1>6. CASE Crash \/ LoopFails \/ LoopEnds \/ BeginShutdown \/ Close
    BY <1>6 DEF Crash, LoopFails, LoopEnds, BeginShutdown, Close, Frozen, dbVars, journalVars
  <1>7. QED BY <1>2, <1>3, <1>4, <1>5, <1>6 DEF Next, Fault, Reopen

\* An erasure that goes through owes nothing afterwards.
LEMMA PaidOff ==
  ASSUME TypeOK, NEW c \in Convs, NEW del \in DeletionRecord, ApplyErasure(c, del),
         deletion'[c] = del
  PROVE  ~Owed(c)'
  BY DEF ApplyErasure, Owed, TypeOK, DeletionRecord

\* What an erasure does to the other conversations.
LEMMA OthersKept ==
  ASSUME TypeOK, NEW c \in Convs, NEW d \in Convs, d # c, NEW del, ApplyErasure(c, del)
  PROVE  dataGen'[d] = dataGen[d] /\ nextSeq'[d] = nextSeq[d] /\ outbox'[d] = outbox[d]
  BY DEF ApplyErasure, TypeOK

LEMMA JournalStep ==
  ASSUME TypeOK, NoGhosts, DeletionIsExact, [Next]_vars
  PROVE  DeletionIsExact'
  <1> SUFFICES ASSUME NEW c \in Convs, Owed(c)'
               PROVE  Frozen' /\ deletion'[c] = NewDeletion(c)'
    BY DEF DeletionIsExact
  <1>1. CASE \E d \in Convs : ReplayDeletion(d)
    <2>1. PICK d \in Convs : ReplayDeletion(d)
      BY <1>1
    <2>2. UNCHANGED <<deletion, host, privacyFailed>> /\ ApplyErasure(d, deletion[d])
      BY <2>1 DEF ReplayDeletion, journalVars, processVars
    <2>3. c # d
      BY <2>2, PaidOff DEF TypeOK
    <2>4. Owed(c) /\ NewDeletion(c)' = NewDeletion(c)
      BY <2>2, <2>3, OthersKept DEF Owed, NewDeletion, PendingSend
    <2>5. QED BY <2>2, <2>4 DEF DeletionIsExact, Frozen
  <1>2. CASE Restart
    BY <1>2 DEF Restart, Owed, journalVars
  <1>3. CASE Frozen /\ ~Restart /\ ~\E d \in Convs : ReplayDeletion(d)
    BY <1>3, FrozenTables DEF DeletionIsExact, Owed, NewDeletion, PendingSend
  <1>4. CASE ~Frozen /\ ~Restart /\ ~\E d \in Convs : ReplayDeletion(d)
    <2>1. ~Owed(c)
      BY <1>4 DEF DeletionIsExact
    <2>2. ASSUME NEW d \in Convs, EraseConversation(d) PROVE FALSE
      <3>1. ApplyErasure(d, NewDeletion(d)) /\ deletion' = [deletion EXCEPT ![d] = NewDeletion(d)]
        BY <2>2 DEF EraseConversation, RecordDeletion
      <3>2. deletion'[d] = NewDeletion(d)
        BY <3>1 DEF TypeOK
      <3>3. c # d
        BY <3>1, <3>2, PaidOff, NewDeletionType
      <3>4. QED BY <2>1, <3>1, <3>3, OthersKept DEF Owed, TypeOK
    <2>3. ASSUME NEW d \in Convs, EraseHalfDone(d) PROVE Frozen' /\ deletion'[c] = NewDeletion(c)'
      <3>1. /\ deletion' = [deletion EXCEPT ![d] = NewDeletion(d)]
            /\ UNCHANGED <<dataGen, nextSeq, outbox>> /\ privacyFailed'
        BY <2>3 DEF EraseHalfDone, RecordDeletion, dbVars
      <3>2. c = d
        BY <2>1, <3>1 DEF Owed, TypeOK
      <3>3. QED BY <3>1, <3>2 DEF Frozen, NewDeletion, PendingSend, TypeOK
    <2>4. CASE UNCHANGED <<dataGen, deletion>>
      BY <2>1, <2>4 DEF Owed
    <2>5. ASSUME NEW d \in Convs,
                 Gateway(d) \/ Pick(d) \/ NextWork(d) \/ Generate(d) \/ SenderNotReady(d) \/ Dispatch(d)
                   \/ Finish(d) \/ Platform(d) \/ WorkerFails(d)
          PROVE  UNCHANGED <<dataGen, deletion>>
      BY <2>5
      DEF Gateway, Admit, SuppressIncoming, InsertEvent, Pick, NextWork, NothingToDo,
          ApplyBinding, BeginTurn, TakeOutbox, Generate, SaveProposal, DropStale, EndGeneration, SenderNotReady, Dispatch,
          BeginDispatch, DispatchRefused, Finish, FinishDelivery, Platform, Land, WorkerFails,
          dbVars, journalVars
    <2>6. ASSUME NEW d \in Convs, Operator(d), ~EraseConversation(d), ~EraseHalfDone(d)
          PROVE  UNCHANGED <<dataGen, deletion>>
      BY <2>6 DEF Operator, EnqueueBinding, InsertEvent, ConfirmSent, Retry, Discard,
                  ResumeConversation, EraseUnrecorded, dbVars, journalVars
    <2>7. CASE UNCHANGED vars \/ Crash \/ LoopFails \/ LoopEnds \/ BeginShutdown \/ Close
      BY <2>4, <2>7 DEF Crash, LoopFails, LoopEnds, BeginShutdown, Close, vars, dbVars, journalVars
    <2>8. QED
      BY <1>4, <2>2, <2>3, <2>4, <2>5, <2>6, <2>7 DEF Next, Fault, Reopen
  <1>5. QED BY <1>1, <1>2, <1>3, <1>4

-----------------------------------------------------------------------------
(* Sends and permits *)

\* How attempts, acknowledged retries and the two halves of a row hang together.
RowPermits(c, s) ==
  /\ s >= nextSeq[c] => event[c][s] = "none" /\ outbox[c][s] = "none" /\ acks[c][s] = 0
  /\ event[c][s] \in {"queued", "generating"} => outbox[c][s] = "none" /\ acks[c][s] = 0
  /\ outbox[c][s] = "none" => attempts[c][s] = 0
  /\ outbox[c][s] = "pending" => attempts[c][s] = acks[c][s]
  /\ outbox[c][s] \notin {"none", "pending"} => attempts[c][s] = acks[c][s] + 1
  /\ flying[c][s] \cup landed[c][s] \subseteq 1..(1 + acks[c][s])

PermitInv == \A c \in Convs, s \in Seqs : RowPermits(c, s)

\* What RowPermits reads.
RowKept(c, s) ==
  UNCHANGED <<event[c][s], outbox[c][s], attempts[c][s], acks[c][s], flying[c][s], landed[c][s],
              nextSeq[c]>>

LEMMA KeptRowPermits ==
  ASSUME NEW c, NEW s, RowPermits(c, s), RowKept(c, s)
  PROVE  RowPermits(c, s)'
  BY DEF RowPermits, RowKept

LEMMA PermitInit == Init => PermitInv
  BY SeqsAreNat DEF Init, PermitInv, RowPermits, PerSeq

\* A new row has no reply and no history of attempts.
LEMMA PermitInsert ==
  ASSUME TypeOK, PermitInv, NEW c \in Convs, NEW k, NEW src, NEW ch,
         NEW state \in {"queued", "ignored"}, InsertEvent(c, k, src, ch, state)
  PROVE  PermitInv'
  <1> SUFFICES ASSUME NEW d \in Convs, NEW t \in Seqs PROVE RowPermits(d, t)'
    BY DEF PermitInv
  <1>1. UNCHANGED <<outbox, attempts, acks, flying, landed>>
    BY DEF InsertEvent, platformVars
  <1>2. RowPermits(d, t) /\ t \in Nat /\ nextSeq[d] \in Nat /\ nextSeq[c] \in Nat
    BY SeqsAreNat DEF PermitInv, TypeOK
  <1>3. CASE d = c /\ t = nextSeq[c]
    BY <1>1, <1>2, <1>3 DEF InsertEvent, RowPermits, TypeOK
  <1>4. CASE ~(d = c /\ t = nextSeq[c])
    <2>1. event'[d][t] = event[d][t]
      BY <1>4 DEF InsertEvent, TypeOK
    <2>2. nextSeq'[d] >= nextSeq[d]
      BY <1>2 DEF InsertEvent, TypeOK
    <2>3. nextSeq'[d] \in Nat
      BY <1>2 DEF InsertEvent, TypeOK
    <2>4. QED BY <1>1, <1>2, <2>1, <2>2, <2>3 DEF RowPermits
  <1>5. QED BY <1>3, <1>4

\* Erasure keeps the rows of sends on their way, and empties the others.
LEMMA PermitErasure ==
  ASSUME TypeOK, PermitInv, NEW c \in Convs, ApplyErasure(c, NewDeletion(c)),
         UNCHANGED <<acks, flying, landed>>
  PROVE  PermitInv'
  <1> SUFFICES ASSUME NEW d \in Convs, NEW t \in Seqs PROVE RowPermits(d, t)'
    BY DEF PermitInv
  <1>1. RowPermits(d, t)
    BY DEF PermitInv
  <1>2. CASE d # c
    <2>1. RowKept(d, t)
      BY <1>2 DEF ApplyErasure, RowKept, TypeOK
    <2>2. QED BY <1>1, <2>1, KeptRowPermits
  <1>3. CASE d = c
    <2>1. nextSeq'[c] = nextSeq[c]
      BY DEF ApplyErasure, NewDeletion, TypeOK
    <2>2. CASE PendingSend(c, t)
      <3>1. /\ event'[c][t] = "needs_review" /\ outbox'[c][t] = outbox[c][t]
            /\ attempts'[c][t] = attempts[c][t]
        BY <2>2 DEF ApplyErasure, NewDeletion, Kept, PendingSend, TypeOK
      <3>2. QED BY <1>1, <1>3, <2>1, <2>2, <3>1 DEF RowPermits, PendingSend
    <2>3. CASE ~PendingSend(c, t)
      <3>1. event'[c][t] = "none" /\ outbox'[c][t] = "none" /\ attempts'[c][t] = 0
        BY <2>3 DEF ApplyErasure, NewDeletion, Kept, TypeOK
      <3>2. QED BY <1>1, <1>3, <2>1, <3>1 DEF RowPermits
    <2>4. QED BY <2>2, <2>3
  <1>4. QED BY <1>2, <1>3

\* A step that writes one row leaves the permits of the others alone.
LEMMA PermitOneRow ==
  ASSUME PermitInv, NEW c \in Convs, NEW s \in Seqs, RowPermits(c, s)',
         \A d \in Convs, t \in Seqs : (d # c \/ t # s) => RowKept(d, t)
  PROVE  PermitInv'
  <1> SUFFICES ASSUME NEW d \in Convs, NEW t \in Seqs, d # c \/ t # s PROVE RowPermits(d, t)'
    BY DEF PermitInv
  <1>1. QED BY KeptRowPermits DEF PermitInv

\* The steps of a worker move its row from one permit to its use, never back.
LEMMA PermitWorker ==
  ASSUME TypeOK, PermitInv, NEW c \in Convs, Generate(c) \/ Dispatch(c) \/ Finish(c)
  PROVE  PermitInv'
  <1>s. PICK s \in Seqs : s = work[c].seq
    BY DEF TypeOK
  <1>0. RowPermits(c, s) /\ acks[c][s] \in Nat /\ attempts[c][s] \in Nat
    BY DEF TypeOK, PermitInv
  <1>1. CASE SaveProposal(c)
    <2>1. RowPermits(c, s)'
      BY <1>s, <1>0, <1>1 DEF SaveProposal, RowPermits, TypeOK, recordVars, platformVars
    <2>2. \A d \in Convs, t \in Seqs : (d # c \/ t # s) => RowKept(d, t)
      BY <1>s, <1>0, <1>1 DEF SaveProposal, RowKept, TypeOK, recordVars, platformVars
    <2>3. QED BY <1>s, <1>0, <2>1, <2>2, PermitOneRow
  <1>2. ASSUME NEW outcome \in {"ignored", "failed"}, EndGeneration(c, outcome) PROVE PermitInv'
    <2>1. RowPermits(c, s)'
      BY <1>s, <1>0, <1>2 DEF EndGeneration, RowPermits, TypeOK, recordVars, platformVars
    <2>2. \A d \in Convs, t \in Seqs : (d # c \/ t # s) => RowKept(d, t)
      BY <1>s, <1>0, <1>2 DEF EndGeneration, RowKept, TypeOK, recordVars, platformVars
    <2>3. QED BY <1>s, <1>0, <2>1, <2>2, PermitOneRow
  <1>3. CASE BeginDispatch(c)
    <2>1. attempts[c][s] = acks[c][s] /\ attempts'[c][s] = acks[c][s] + 1
      BY <1>s, <1>0, <1>3 DEF BeginDispatch, Dispatchable, RowPermits, TypeOK
    <2>2. flying'[c][s] = flying[c][s] \cup {acks[c][s] + 1}
      BY <1>s, <1>0, <1>3, <2>1 DEF BeginDispatch, TypeOK
    <2>3. acks[c][s] + 1 \in 1..(1 + acks[c][s])
      BY <1>0
    <2>4. /\ UNCHANGED <<event, nextSeq, acks, landed>> /\ outbox[c][s] = "pending"
          /\ outbox'[c][s] = "dispatching"
      BY <1>s, <1>0, <1>3 DEF BeginDispatch, Dispatchable, TypeOK, recordVars
    <2>5. (flying[c][s] \cup landed[c][s])' \subseteq 1..(1 + acks[c][s])
      BY <1>s, <1>0, <2>2, <2>3, <2>4 DEF RowPermits
    <2>6. RowPermits(c, s)'
      BY <1>s, <1>0, <2>1, <2>4, <2>5 DEF RowPermits
    <2>7. \A d \in Convs, t \in Seqs : (d # c \/ t # s) => RowKept(d, t)
      BY <1>s, <1>0, <1>3 DEF BeginDispatch, RowKept, TypeOK, recordVars
    <2>8. QED BY <1>s, <1>0, <2>6, <2>7, PermitOneRow
  <1>4. ASSUME NEW status \in {"accepted", "rejected", "unknown"}, FinishDelivery(c, status)
        PROVE  PermitInv'
    <2>1. /\ outbox[c][s] = "dispatching" /\ outbox'[c][s] = status
          /\ event'[c][s] \in {"completed", "cancelled", "needs_review"}
          /\ flying'[c][s] \subseteq flying[c][s]
      BY <1>s, <1>0, <1>4 DEF FinishDelivery, CommitDelivery, SettledEvent, TypeOK
    <2>2. UNCHANGED <<nextSeq, attempts, acks, landed>>
      BY <1>4 DEF FinishDelivery, recordVars
    <2>3. RowPermits(c, s)'
      BY <1>s, <1>0, <2>1, <2>2 DEF RowPermits
    <2>4. \A d \in Convs, t \in Seqs : (d # c \/ t # s) => RowKept(d, t)
      BY <1>s, <1>0, <1>4, <2>2 DEF FinishDelivery, CommitDelivery, RowKept, TypeOK
    <2>5. QED BY <1>s, <1>0, <2>3, <2>4, PermitOneRow
  <1>5. CASE DropStale(c) \/ DispatchRefused(c)
    BY <1>5, KeptRowPermits
    DEF DropStale, DispatchRefused, PermitInv, RowKept, dbVars, platformVars, recordVars
  <1>6. QED BY <1>1, <1>2, <1>3, <1>4, <1>5 DEF Generate, Dispatch, Finish

\* A head of the queue that begins its turn was never sent.
LEMMA PermitNextWork ==
  ASSUME TypeOK, PermitInv, NEW c \in Convs, NextWork(c), ~NothingToDo(c)
  PROVE  PermitInv'
  <1>1. PICK s \in Seqs : ApplyBinding(c, s) \/ BeginTurn(c, s) \/ TakeOutbox(c, s)
    BY DEF NextWork
  <1>2. RowPermits(c, s)
    BY DEF PermitInv
  <1>3. \A d \in Convs, t \in Seqs : (d # c \/ t # s) => RowKept(d, t)
    BY <1>1 DEF ApplyBinding, BeginTurn, TakeOutbox, RowKept, TypeOK, dbVars, platformVars, recordVars
  <1>4. CASE ApplyBinding(c, s)
    BY <1>2, <1>3, <1>4, PermitOneRow DEF ApplyBinding, RowPermits, TypeOK, platformVars, recordVars
  <1>5. CASE BeginTurn(c, s)
    BY <1>2, <1>3, <1>5, PermitOneRow DEF BeginTurn, RowPermits, TypeOK, platformVars, recordVars
  <1>6. CASE TakeOutbox(c, s)
    BY <1>2, <1>3, <1>6, PermitOneRow DEF TakeOutbox, RowPermits, dbVars, platformVars, recordVars
  <1>7. QED BY <1>1, <1>4, <1>5, <1>6

\* A review settles a send or grants the one permit its retry uses.
LEMMA PermitReview ==
  ASSUME TypeOK, PermitInv, NEW c \in Convs, NEW s \in Seqs,
         ConfirmSent(c, s) \/ Retry(c, s) \/ Discard(c, s)
  PROVE  PermitInv'
  <1>1. RowPermits(c, s) /\ acks[c][s] \in Nat
    BY DEF PermitInv, TypeOK
  <1>2. \A d \in Convs, t \in Seqs : (d # c \/ t # s) => RowKept(d, t)
    BY DEF ConfirmSent, CommitDelivery, Retry, Discard, RowKept, TypeOK, platformVars, recordVars
  <1>3. CASE ConfirmSent(c, s)
    <2>1. /\ outbox[c][s] = "unknown" /\ outbox'[c][s] = "accepted" /\ event'[c][s] = "completed"
          /\ UNCHANGED <<nextSeq, attempts, acks, flying, landed>>
      BY <1>3 DEF ConfirmSent, CommitDelivery, SettledEvent, TypeOK, platformVars, recordVars
    <2>2. QED BY <1>1, <1>2, <2>1, PermitOneRow DEF RowPermits
  <1>4. CASE Retry(c, s)
    <2>1. /\ outbox[c][s] \in {"unknown", "rejected"} /\ outbox'[c][s] = "pending"
          /\ event'[c][s] = "outbox_ready" /\ acks'[c][s] = acks[c][s] + 1
          /\ UNCHANGED <<nextSeq, attempts, flying, landed>>
      BY <1>4 DEF Retry, MayRetry, Reviewable, TypeOK, platformVars
    <2>2. 1..(1 + acks[c][s]) \subseteq 1..(1 + acks'[c][s])
      BY <1>1, <2>1
    <2>3. RowPermits(c, s)'
      BY <1>1, <2>1, <2>2 DEF RowPermits
    <2>4. QED BY <1>2, <2>3, PermitOneRow
  <1>5. CASE Discard(c, s)
    <2>1. /\ outbox[c][s] \in {"unknown", "rejected"} /\ outbox'[c][s] = "cancelled"
          /\ event'[c][s] = "cancelled"
          /\ UNCHANGED <<nextSeq, attempts, acks, flying, landed>>
      BY <1>5 DEF Discard, Reviewable, TypeOK, platformVars, recordVars
    <2>2. QED BY <1>1, <1>2, <2>1, PermitOneRow DEF RowPermits
  <1>6. QED BY <1>3, <1>4, <1>5

\* A restart doubts every send it finds interrupted; none becomes ready again.
LEMMA PermitRestart == ASSUME TypeOK, PermitInv, Restart PROVE PermitInv'
  <1> SUFFICES ASSUME NEW d \in Convs, NEW t \in Seqs PROVE RowPermits(d, t)'
    BY DEF PermitInv
  <1>1. RowPermits(d, t)
    BY DEF PermitInv
  <1>2. /\ event'[d][t] = RecoveredEvent(event[d][t], outbox[d][t])
        /\ outbox'[d][t] = RecoveredBox(outbox[d][t])
        /\ UNCHANGED <<attempts, acks, flying, landed, nextSeq>>
    BY DEF Restart, platformVars, recordVars
  <1>3. QED BY <1>1, <1>2 DEF RowPermits, RecoveredEvent, RecoveredBox

LEMMA PermitPlatform == ASSUME TypeOK, PermitInv, NEW c \in Convs, Platform(c) PROVE PermitInv'
  <1>1. PICK s \in Seqs : \E a \in flying[c][s] : Land(c, s, a)
    BY DEF Platform
  <1>2. PICK a \in flying[c][s] : Land(c, s, a)
    BY <1>1
  <1>3. RowPermits(c, s)
    BY DEF PermitInv
  <1>4. \A d \in Convs, t \in Seqs : (d # c \/ t # s) => RowKept(d, t)
    BY <1>2 DEF Land, RowKept, TypeOK, dbVars, recordVars
  <1>5. (flying[c][s] \cup landed[c][s])' = flying[c][s] \cup landed[c][s]
    BY <1>2 DEF Land, TypeOK
  <1>6. RowPermits(c, s)'
    BY <1>2, <1>3, <1>5 DEF Land, RowPermits, dbVars, recordVars
  <1>7. QED BY <1>4, <1>6, PermitOneRow

\* Gateway calls either insert a row or touch the journal alone.
LEMMA PermitGateway == ASSUME TypeOK, PermitInv, NEW c \in Convs, Gateway(c) PROVE PermitInv'
  <1>1. ASSUME NEW src \in Sources \cup {NoSource}, NEW ch \in Characters, NEW pauses \in BOOLEAN,
               Admit(c, src, ch, pauses)
        PROVE  PermitInv'
    BY <1>1, PermitInsert DEF Admit
  <1>2. ASSUME NEW src \in Sources, SuppressIncoming(c, src) PROVE PermitInv'
    BY <1>2, KeptRowPermits
    DEF SuppressIncoming, PermitInv, RowKept, dbVars, platformVars, recordVars
  <1>3. QED BY <1>1, <1>2 DEF Gateway

LEMMA PermitOperator == ASSUME TypeOK, PermitInv, NEW c \in Convs, Operator(c) PROVE PermitInv'
  <1>1. ASSUME NEW request \in Requests, NEW ch \in Characters, EnqueueBinding(c, request, ch)
        PROVE  PermitInv'
    BY <1>1, PermitInsert DEF EnqueueBinding
  <1>2. ASSUME NEW s \in Seqs, ConfirmSent(c, s) \/ Retry(c, s) \/ Discard(c, s) PROVE PermitInv'
    BY <1>2, PermitReview
  <1>3. CASE EraseConversation(c)
    BY <1>3, PermitErasure DEF EraseConversation, platformVars, recordVars
  <1>4. CASE EraseHalfDone(c) \/ EraseUnrecorded(c) \/ \E ch \in Characters : ResumeConversation(c, ch)
    BY <1>4, KeptRowPermits
    DEF EraseHalfDone, EraseUnrecorded, ResumeConversation, PermitInv, RowKept, dbVars,
        platformVars, recordVars
  <1>5. QED BY <1>1, <1>2, <1>3, <1>4 DEF Operator

\* The replay of a deletion erases what the erasure itself would have erased.
LEMMA PermitReplay ==
  ASSUME TypeOK, DeletionIsExact, PermitInv, NEW c \in Convs, ReplayDeletion(c)
  PROVE  PermitInv'
  <1>1. deletion[c] = NewDeletion(c)
    BY DEF ReplayDeletion, DeletionIsExact
  <1>2. QED BY <1>1, PermitErasure DEF ReplayDeletion, platformVars, recordVars

LEMMA PermitStep == ASSUME TypeOK, DeletionIsExact, PermitInv, [Next]_vars PROVE PermitInv'
  <1>1. ASSUME NEW c \in Convs, Pick(c) \/ NothingToDo(c) \/ SenderNotReady(c) \/ WorkerFails(c)
        PROVE  PermitInv'
    BY <1>1, KeptRowPermits
    DEF Pick, NothingToDo, SenderNotReady, WorkerFails, PermitInv, RowKept, dbVars, platformVars, recordVars
  <1>2. CASE UNCHANGED vars \/ Crash \/ LoopFails \/ LoopEnds \/ BeginShutdown \/ Close
    BY <1>2, KeptRowPermits
    DEF Crash, LoopFails, LoopEnds, BeginShutdown, Close, PermitInv, RowKept, vars, dbVars, platformVars,
        recordVars
  <1>3. QED
    BY <1>1, <1>2, PermitGateway, PermitNextWork, PermitWorker, PermitOperator, PermitPlatform,
       PermitRestart, PermitReplay
    DEF Next, Fault, Reopen

\* The three invariants are inductive together with the types.
DeliveryInv == TypeOK /\ NoGhosts /\ DeletionIsExact /\ PermitInv

LEMMA DeliveryInvInit == Init => DeliveryInv
  BY TypeInit, PermitInit DEF Init, DeliveryInv, NoGhosts, DeletionIsExact, Owed

LEMMA DeliveryInvStep == DeliveryInv /\ [Next]_vars => DeliveryInv'
  BY TypeStep, NoGhostsStep, JournalStep, PermitStep DEF DeliveryInv

\* No reply reaches the platform more often than once plus the retries an
\* operator acknowledged, whatever crashes, erasures, replays and restarts
\* interleave with its dispatch, for any number of conversations and events.
THEOREM SendsPermitted == Spec => []SendsArePermitted
  <1>1. DeliveryInv => SendsArePermitted
    BY DEF DeliveryInv, PermitInv, RowPermits, SendsArePermitted
  <1>2. QED BY <1>1, DeliveryInvInit, DeliveryInvStep, PTL DEF Spec

\* A deletion the journal holds and the tables have not followed describes the
\* tables exactly, so its replay at the next start erases what the interrupted
\* erasure would have, and forgets no send that may be on its way.
THEOREM ReplayIsExact == Spec => []DeletionIsExact
  BY DeliveryInvInit, DeliveryInvStep, PTL DEF Spec, DeliveryInv


-----------------------------------------------------------------------------
(* The invariant *)

\* TablesAgree for one row, column by column.
Tells(k, e, t, o) ==
  \/ k = "none" /\ e = "none" /\ t = "none" /\ o = "none"
  \/ k = "binding" /\ e \in {"queued", "completed"} /\ t = "none" /\ o = "none"
  \/ /\ k = "erased"
     /\ \/ e = "needs_review" /\ t = "needs_review" /\ o \in {"dispatching", "unknown"}
        \/ e = "completed" /\ t = "finished" /\ o = "accepted"
        \/ e = "cancelled" /\ t = "cancelled" /\ o \in {"rejected", "cancelled"}
  \/ /\ k = "message"
     /\ \/ e = "queued" /\ t \in {"none", "planned"} /\ o = "none"
        \/ e = "generating" /\ t = "generating" /\ o = "none"
        \/ e = "outbox_ready" /\ t = "awaiting_delivery" /\ o \in {"pending", "dispatching"}
        \/ e = "needs_review" /\ t = "needs_review" /\ o \in {"unknown", "rejected"}
        \/ e = "completed" /\ t = "finished" /\ o = "accepted"
        \/ e = "cancelled" /\ t = "cancelled" /\ o = "cancelled"
        \/ e = "ignored" /\ t \in {"none", "ignored"} /\ o = "none"
        \/ e = "failed" /\ t = "failed" /\ o = "none"

Story(c, s) == Tells(kind[c][s], event[c][s], turn[c][s], outbox[c][s])

\* What the history says of one row.
Told(c, s) ==
  /\ <<"assistant", s>> \in history[c] <=> (outbox[c][s] = "accepted" /\ ~Erased(c, s))
  /\ <<"user", s>> \in history[c] <=> (turn[c][s] # "none" /\ ~Erased(c, s))

Empty(c, s) == kind[c][s] \in {"none", "erased"}

\* Which rows have no content: those not yet written, those of a conversation that
\* is not active, and those a deletion covers.
Blank(c, s) ==
  /\ Empty(c, s) => source[c][s] = NoSource /\ card[c][s] = NoCharacter
  /\ s >= nextSeq[c] => kind[c][s] = "none" /\ origin[c][s] = NoSource
  /\ privacy[c] # "active" => Empty(c, s)
  /\ privacy[c] = "absent" => kind[c][s] = "none"
  /\ privacy[c] = "active" /\ Erased(c, s) => ~PendingSend(c, s)
  /\ ~Owed(c) /\ s <= deletion[c].cutoff => Empty(c, s)

\* Where the id of a row has gone.
Traced(c, s) ==
  /\ source[c][s] # NoSource => origin[c][s] = source[c][s]
  /\ origin[c][s] # NoSource => source[c][s] = origin[c][s] \/ origin[c][s] \in erasedSources[c]
  /\ ~Owed(c) => source[c][s] \notin erasedSources[c]
  /\ Owed(c) /\ source[c][s] # NoSource => source[c][s] \in erasedSources[c]

RowAgrees(c, s) == Story(c, s) /\ Told(c, s) /\ Blank(c, s) /\ Traced(c, s)

RowInv == \A c \in Convs, s \in Seqs : RowAgrees(c, s)

CutoffInv == \A c \in Convs : ~Owed(c) => deletion[c].cutoff < nextSeq[c]

\* An event that has had an effect on the order: its turn has begun, or its change
\* of character is applied.
Begun(c, s) ==
  \/ kind[c][s] = "binding" /\ event[c][s] = "completed"
  \/ kind[c][s] = "message" /\ turn[c][s] # "none"

Between(c, s, t) == \E m \in Seqs : s < m /\ m < t /\ kind[c][m] = "binding"

\* The character now is that of the last event that began.
Speaks(c, s) ==
  Begun(c, s) => bound[c] = card[c][s] \/ \E m \in Seqs : s < m /\ Begun(c, m) /\ kind[c][m] = "binding"

PairInv(c, s, t) ==
  /\ s < t /\ s \in Open(c) => turn[c][t] = "none" /\ event[c][t] \in {"none", "queued", "ignored"}
  /\ /\ s < t /\ kind[c][t] = "message" /\ turn[c][t] # "none"
     /\ \/ kind[c][s] = "binding"
        \/ kind[c][s] = "message" /\ turn[c][s] # "none"
     => card[c][t] = card[c][s] \/ Between(c, s, t)
  /\ origin[c][s] = origin[c][t] /\ s # t => origin[c][s] = NoSource

OrderInv == /\ \A c \in Convs, s, t \in Seqs : PairInv(c, s, t)
            /\ \A c \in Convs, s \in Seqs : Speaks(c, s)

\* A worker that generates holds the event as it left it, or its conversation was
\* erased meanwhile; one that sends finds its row in flight; and as long as the host
\* has not failed, every such row has its worker.
Working(c) ==
  /\ pc[c] = "generating" =>
       \/ work[c].gen = dataGen[c] /\ privacy[c] = "active" /\ event[c][work[c].seq] = "generating"
       \/ work[c].gen < dataGen[c] /\ event[c][work[c].seq] # "generating"
  /\ pc[c] = "sending" => outbox[c][work[c].seq] = "dispatching"
  /\ host \notin {"fatal", "down"} =>
       \A s \in Seqs :
         /\ event[c][s] = "generating" => pc[c] = "generating" /\ work[c].seq = s
         /\ outbox[c][s] = "dispatching" => pc[c] = "sending" /\ work[c].seq = s

WorkInv == \A c \in Convs : Working(c)

StoreInv == DeliveryInv /\ RowInv /\ CutoffInv /\ OrderInv /\ WorkInv

-----------------------------------------------------------------------------
(* Steps that move one event *)

\* What the invariant reads of one row.
RowSame(c, s) ==
  /\ UNCHANGED <<event[c][s], turn[c][s], outbox[c][s], card[c][s]>>
  /\ \A role \in {"user", "assistant"} : <<role, s>> \in history'[c] <=> <<role, s>> \in history[c]

\* One row moves, and nothing else; nearly always it is the head of the queue.
OneRow(c, s) ==
  /\ UNCHANGED <<privacy, dataGen, nextSeq, kind, source, origin, deletion, erasedSources>>
  /\ \A d \in Convs, t \in Seqs : d # c \/ t # s => RowSame(d, t)

RowStep(c, s) == IsHead(c, s) /\ OneRow(c, s)

LEMMA RowSameAgrees ==
  ASSUME NEW c, NEW s, RowAgrees(c, s), RowSame(c, s),
         UNCHANGED <<privacy[c], dataGen[c], nextSeq[c], kind[c][s], source[c][s], origin[c][s],
                     deletion[c], erasedSources[c]>>
  PROVE  RowAgrees(c, s)'
  <1>1. Story(c, s)' /\ Told(c, s)'
    BY DEF RowAgrees, Story, Told, RowSame, Erased
  <1>2. Blank(c, s)' /\ Traced(c, s)'
    BY DEF RowAgrees, Blank, Traced, RowSame, Erased, Empty, Owed, PendingSend
  <1>3. QED BY <1>1, <1>2 DEF RowAgrees

LEMMA OneRowAgrees ==
  ASSUME RowInv, CutoffInv, NEW c \in Convs, NEW s \in Seqs, OneRow(c, s),
         Story(c, s)', Told(c, s)', Empty(c, s) => UNCHANGED card[c][s],
         Erased(c, s) /\ PendingSend(c, s)' => PendingSend(c, s)
  PROVE  RowInv' /\ CutoffInv'
  <1>1. CutoffInv'
    BY DEF CutoffInv, OneRow, Owed
  <1>2. RowAgrees(c, s)'
    <2>1. Blank(c, s)' /\ Traced(c, s)'
      BY DEF RowInv, RowAgrees, OneRow, Blank, Traced, Empty, Erased, Owed
    <2>2. QED BY <2>1 DEF RowAgrees
  <1>3. ASSUME NEW d \in Convs, NEW t \in Seqs, d # c \/ t # s PROVE RowAgrees(d, t)'
    BY <1>3, RowSameAgrees DEF RowInv, OneRow
  <1>4. QED BY <1>1, <1>2, <1>3 DEF RowInv

\* An open event that has begun is the head: InOrder lets nothing else begin.
LEMMA BegunIsHead ==
  ASSUME OrderInv, NEW c \in Convs, NEW s \in Seqs, s \in Open(c), turn[c][s] # "none"
  PROVE  IsHead(c, s)
  BY SeqsAreNat DEF OrderInv, PairInv, IsHead, Open

\* Nothing behind the head has begun.
LEMMA BehindHead ==
  ASSUME OrderInv, NEW c \in Convs, NEW s \in Seqs, IsHead(c, s), NEW t \in Seqs, s < t
  PROVE  turn[c][t] = "none" /\ event[c][t] \in {"none", "queued", "ignored"} /\ ~Begun(c, t)
  BY DEF OrderInv, PairInv, IsHead, Begun

LEMMA SameOrder ==
  ASSUME OrderInv, UNCHANGED <<bound, kind, card, origin>>,
         \A d \in Convs, t \in Seqs : UNCHANGED <<event[d][t], turn[d][t]>>
  PROVE  OrderInv'
  BY DEF OrderInv, PairInv, Speaks, Begun, Between, Open

\* The head moves, but nothing begins.
LEMMA RowStepOrder ==
  ASSUME RowInv, OrderInv, NEW c \in Convs, NEW s \in Seqs, RowStep(c, s),
         UNCHANGED <<bound, card[c][s]>>, Begun(c, s)' => Begun(c, s)
  PROVE  OrderInv'
  <1>1. ASSUME NEW d \in Convs, NEW t \in Seqs, d # c \/ t # s
        PROVE  RowSame(d, t) /\ (Begun(d, t)' <=> Begun(d, t))
    BY <1>1 DEF RowStep, OneRow, RowSame, Begun
  <1>2. ASSUME NEW d \in Convs, NEW t \in Seqs, Begun(d, t), kind[d][t] = "binding"
        PROVE  Begun(d, t)'
    <2>1. d # c \/ t # s
      BY <1>2 DEF RowStep, OneRow, IsHead, Open, Begun, Terminal
    <2>2. QED BY <1>1, <1>2, <2>1
  <1>3. ASSUME NEW d \in Convs, NEW t \in Seqs PROVE Speaks(d, t)'
    <2>1. Begun(d, t)' => Begun(d, t)
      BY <1>1
    <2>2. Speaks(d, t) /\ UNCHANGED <<bound, kind>>
      BY DEF OrderInv, RowStep, OneRow
    <2>3. card'[d][t] = card[d][t]
      BY <1>1 DEF RowSame
    <2>4. QED BY <1>2, <2>1, <2>2, <2>3 DEF Speaks
  <1>4. ASSUME NEW d \in Convs, NEW t \in Seqs, NEW u \in Seqs PROVE PairInv(d, t, u)'
    <2>0. PairInv(d, t, u) /\ UNCHANGED <<kind, origin>>
      BY DEF OrderInv, RowStep, OneRow
    <2>1. CASE d # c \/ (t # s /\ u # s)
      <3>1. RowSame(d, t) /\ RowSame(d, u)
        BY <1>1, <2>1
      <3>2. QED BY <2>0, <3>1 DEF PairInv, RowSame, Open, Between
    <2>2. CASE d = c /\ u = s
      <3>1. Begun(c, s)' => Begun(c, s)
        OBVIOUS
      <3>2. ASSUME t < s PROVE RowSame(c, t) /\ t \notin Open(c)
        BY <1>1, <2>2, <3>2, SeqsAreNat DEF RowStep, OneRow, IsHead
      <3>3. QED BY <2>0, <2>2, <3>1, <3>2 DEF PairInv, RowSame, Open, Between, Begun
    <2>3. CASE d = c /\ t = s /\ u # s
      <3>1. RowSame(c, u)
        BY <1>1, <2>3
      <3>2. s < u => turn[c][u] = "none" /\ event[c][u] \in {"none", "queued", "ignored"}
        BY BehindHead DEF RowStep, OneRow
      <3>3. QED BY <2>0, <2>3, <3>1, <3>2 DEF PairInv, RowSame
    <2>4. QED BY <2>1, <2>2, <2>3
  <1>5. QED BY <1>3, <1>4 DEF OrderInv

\* The head begins: its character is the one that speaks now.
LEMMA RowStepBegins ==
  ASSUME RowInv, OrderInv, NEW c \in Convs, NEW s \in Seqs, RowStep(c, s), ~Begun(c, s), Begun(c, s)',
         \A d \in Convs : d # c => UNCHANGED bound[d],
         bound'[c] = card'[c][s],
         kind[c][s] = "message" => UNCHANGED bound[c],
         kind[c][s] = "binding" => UNCHANGED card[c][s]
  PROVE  OrderInv'
  <1>1. ASSUME NEW d \in Convs, NEW t \in Seqs, d # c \/ t # s
        PROVE  RowSame(d, t) /\ (Begun(d, t)' <=> Begun(d, t))
    BY <1>1 DEF RowStep, OneRow, RowSame, Begun
  <1>2. UNCHANGED <<kind, origin>> /\ IsHead(c, s)
    BY DEF RowStep, OneRow
  <1>3. ASSUME NEW d \in Convs, NEW t \in Seqs, Begun(d, t) PROVE Begun(d, t)'
    BY <1>1, <1>3
  <1>4. ASSUME NEW d \in Convs, NEW t \in Seqs PROVE Speaks(d, t)'
    <2>0. Speaks(d, t)
      BY DEF OrderInv
    <2>1. CASE d # c
      BY <1>1, <1>2, <1>3, <2>0, <2>1 DEF Speaks, RowSame
    <2>2. CASE d = c /\ t = s
      BY <2>2 DEF Speaks
    <2>3. CASE d = c /\ s < t
      BY <1>1, <2>3, BehindHead, SeqsAreNat DEF Speaks, RowStep, OneRow
    <2>4. CASE d = c /\ t < s /\ kind[c][s] = "binding"
      BY <1>2, <2>4 DEF Speaks
    <2>5. CASE d = c /\ t < s /\ kind[c][s] = "message"
      <3>0. t # s
        BY <2>5, SeqsAreNat
      <3>1. card'[c][t] = card[c][t] /\ (Begun(c, t)' <=> Begun(c, t))
        BY <1>1, <3>0 DEF RowSame
      <3>2. bound'[c] = bound[c]
        BY <2>5
      <3>3. ASSUME Begun(c, t) PROVE bound[c] = card[c][t]
                                     \/ \E m \in Seqs : t < m /\ Begun(c, m)' /\ kind[c][m] = "binding"
        BY <1>3, <2>0, <2>5, <3>3 DEF Speaks
      <3>4. QED BY <1>2, <2>5, <3>1, <3>2, <3>3 DEF Speaks
    <2>6. kind[c][s] \in {"binding", "message"}
      BY <1>2 DEF Begun
    <2>7. QED BY <2>1, <2>2, <2>3, <2>4, <2>5, <2>6, SeqsAreNat
  <1>5. ASSUME NEW d \in Convs, NEW t \in Seqs, NEW u \in Seqs PROVE PairInv(d, t, u)'
    <2>0. PairInv(d, t, u)
      BY DEF OrderInv
    <2>1. CASE d # c \/ (t # s /\ u # s)
      <3>1. RowSame(d, t) /\ RowSame(d, u)
        BY <1>1, <2>1
      <3>2. QED BY <1>2, <2>0, <3>1 DEF PairInv, RowSame, Open, Between
    <2>2. CASE d = c /\ t = s
      <3>1. s < u => RowSame(c, u) /\ turn[c][u] = "none" /\ event[c][u] \in {"none", "queued", "ignored"}
        BY <1>1, <2>2, BehindHead, SeqsAreNat DEF RowStep, OneRow
      <3>2. QED BY <1>2, <2>0, <2>2, <3>1 DEF PairInv, RowSame
    <2>3. CASE d = c /\ u = s /\ ~(t < s)
      BY <1>2, <2>0, <2>3 DEF PairInv
    <2>4. CASE d = c /\ u = s /\ t < s
      <3>1. RowSame(c, t) /\ t \notin Open(c) /\ (Begun(c, t)' <=> Begun(c, t))
        BY <1>1, <1>2, <2>4, SeqsAreNat DEF IsHead
      <3>2. event'[c][t] \in Terminal \cup {"none"}
        BY <3>1 DEF Open, RowSame
      <3>3. ASSUME kind[c][t] = "binding" \/ (kind[c][t] = "message" /\ turn'[c][t] # "none")
            PROVE  Begun(c, t)
        <4>1. kind[c][t] = "binding" => event[c][t] = "completed"
          BY <3>1 DEF RowInv, RowAgrees, Story, Tells, Open, Terminal
        <4>2. QED BY <3>1, <3>3, <4>1 DEF Begun, RowSame
      <3>4. ASSUME Begun(c, t), kind[c][s] = "message"
            PROVE  card'[c][s] = card'[c][t] \/ Between(c, t, s)'
        <4>1. CASE bound[c] = card[c][t]
          BY <3>1, <3>4, <4>1 DEF RowSame
        <4>2. CASE \E m \in Seqs : t < m /\ Begun(c, m) /\ kind[c][m] = "binding"
          <5>1. PICK m \in Seqs : t < m /\ Begun(c, m) /\ kind[c][m] = "binding"
            BY <4>2
          <5>2. m < s
            BY <1>2, <3>4, <5>1, BehindHead, SeqsAreNat
          <5>3. QED BY <1>2, <5>1, <5>2 DEF Between
        <4>3. QED BY <3>4, <4>1, <4>2 DEF OrderInv, Speaks
      <3>5. kind'[c][s] = "message" /\ (kind'[c][t] = "binding" \/ (kind'[c][t] = "message" /\ turn'[c][t] # "none"))
              => card'[c][s] = card'[c][t] \/ Between(c, t, s)'
        BY <1>2, <3>3, <3>4
      <3>6. QED BY <1>2, <2>0, <2>4, <3>2, <3>5 DEF PairInv, Open, Between
    <2>5. QED BY <2>1, <2>2, <2>3, <2>4
  <1>6. QED BY <1>4, <1>5 DEF OrderInv

TablesInv == RowInv /\ CutoffInv /\ OrderInv

\* An event that has begun moves on.
LEMMA MoveKeeps ==
  ASSUME TablesInv, NEW c \in Convs, NEW s \in Seqs, s \in Open(c), turn[c][s] # "none",
         UNCHANGED <<privacy, dataGen, bound, nextSeq, kind, source, card, deletion, erasedSources, origin>>,
         \A d \in Convs, t \in Seqs : d # c \/ t # s => RowSame(d, t),
         Story(c, s)', Told(c, s)', Erased(c, s) /\ PendingSend(c, s)' => PendingSend(c, s)
  PROVE  TablesInv'
  <1>1. IsHead(c, s)
    BY BegunIsHead DEF TablesInv
  <1>2. RowStep(c, s)
    BY <1>1 DEF RowStep, OneRow
  <1>3. kind[c][s] # "binding"
    BY DEF TablesInv, RowInv, RowAgrees, Story, Tells
  <1>4. Begun(c, s)' => Begun(c, s)
    BY <1>3 DEF Begun
  <1>5. RowInv' /\ CutoffInv'
    BY <1>2, OneRowAgrees DEF TablesInv, RowStep
  <1>6. OrderInv'
    BY <1>2, <1>4, RowStepOrder DEF TablesInv
  <1>7. QED BY <1>5, <1>6 DEF TablesInv

\* The steps of a worker and of an operator with a row.
LEMMA SaveProposalKeeps ==
  ASSUME TypeOK, TablesInv, NEW c \in Convs, SaveProposal(c) PROVE TablesInv'
  <1>s. PICK s \in Seqs : s = work[c].seq
    BY DEF TypeOK
  <1>1. /\ event[c][s] = "generating" /\ event'[c][s] = "outbox_ready"
        /\ turn'[c][s] = "awaiting_delivery" /\ outbox'[c][s] = "pending"
        /\ UNCHANGED <<kind, history>>
    BY <1>s DEF SaveProposal, TypeOK
  <1>2. UNCHANGED <<privacy, dataGen, bound, nextSeq, kind, source, card, deletion, erasedSources, origin>>
    BY DEF SaveProposal, journalVars, recordVars
  <1>3. \A d \in Convs, t \in Seqs : d # c \/ t # s => RowSame(d, t)
    BY <1>s DEF SaveProposal, RowSame, TypeOK
  <1>4. Story(c, s) /\ Told(c, s)
    BY DEF TablesInv, RowInv, RowAgrees
  <1>5. kind[c][s] = "message" /\ turn[c][s] = "generating" /\ outbox[c][s] = "none" /\ s \in Open(c)
    BY <1>1, <1>4 DEF Story, Tells, Open, Terminal
  <1>6. Story(c, s)' /\ Told(c, s)'
    BY <1>1, <1>4, <1>5 DEF Story, Tells, Told, Erased
  <1>7. ~Erased(c, s)
    BY <1>5 DEF Erased
  <1>8. QED BY <1>2, <1>3, <1>5, <1>6, <1>7, MoveKeeps

LEMMA EndGenerationKeeps ==
  ASSUME TypeOK, TablesInv, NEW c \in Convs, NEW outcome \in {"ignored", "failed"},
         EndGeneration(c, outcome), event[c][work[c].seq] = "generating"
  PROVE TablesInv'
  <1>s. PICK s \in Seqs : s = work[c].seq
    BY DEF TypeOK
  <1>1. UNCHANGED <<privacy, dataGen, bound, nextSeq, kind, source, card, deletion, erasedSources, origin,
                    outbox, history>>
    BY DEF EndGeneration, journalVars, recordVars
  <1>2. Story(c, s) /\ Told(c, s)
    BY DEF TablesInv, RowInv, RowAgrees
  <1>3. kind[c][s] = "message" /\ turn[c][s] = "generating" /\ outbox[c][s] = "none" /\ s \in Open(c)
    BY <1>s, <1>2 DEF Story, Tells, Open, Terminal
  <1>4. event'[c][s] = outcome /\ turn'[c][s] = outcome
    BY <1>s, <1>3 DEF EndGeneration, TypeOK
  <1>5. \A d \in Convs, t \in Seqs : d # c \/ t # s => RowSame(d, t)
    BY <1>s DEF EndGeneration, RowSame, TypeOK
  <1>6. Story(c, s)' /\ Told(c, s)'
    BY <1>1, <1>2, <1>3, <1>4 DEF Story, Tells, Told, Erased
  <1>7. ~Erased(c, s)
    BY <1>3 DEF Erased
  <1>8. QED BY <1>1, <1>3, <1>5, <1>6, <1>7, MoveKeeps

LEMMA BeginDispatchKeeps ==
  ASSUME TypeOK, TablesInv, NEW c \in Convs, BeginDispatch(c) PROVE TablesInv'
  <1>s. PICK s \in Seqs : s = work[c].seq
    BY DEF TypeOK
  <1>1. UNCHANGED <<privacy, dataGen, bound, nextSeq, kind, source, card, deletion, erasedSources, origin,
                    event, turn, history>>
    BY DEF BeginDispatch, journalVars, recordVars
  <1>2. outbox[c][s] = "pending" /\ ~Erased(c, s) /\ outbox'[c][s] = "dispatching"
    BY <1>s DEF BeginDispatch, Dispatchable, TypeOK
  <1>3. Story(c, s) /\ Told(c, s)
    BY DEF TablesInv, RowInv, RowAgrees
  <1>4. turn[c][s] # "none" /\ s \in Open(c)
    BY <1>2, <1>3 DEF Story, Tells, Open, Terminal, Erased
  <1>5. \A d \in Convs, t \in Seqs : d # c \/ t # s => RowSame(d, t)
    BY <1>s DEF BeginDispatch, RowSame, TypeOK
  <1>6. Story(c, s)' /\ Told(c, s)'
    BY <1>1, <1>2, <1>3 DEF Story, Tells, Told, Erased
  <1>7. QED BY <1>1, <1>2, <1>4, <1>5, <1>6, MoveKeeps

\* A result is committed, by the worker or by an operator.
LEMMA CommitKeeps ==
  ASSUME TypeOK, TablesInv, NEW c \in Convs, NEW s \in Seqs, NEW status \in {"accepted", "rejected", "unknown"},
         PendingSend(c, s), CommitDelivery(c, s, status),
         UNCHANGED <<privacy, dataGen, bound, nextSeq, kind, source, card, deletion, erasedSources, origin>>
  PROVE TablesInv'
  <1>1. /\ outbox'[c][s] = status /\ event'[c][s] = SettledEvent(c, s, status)
        /\ turn'[c][s] = SettledTurn(c, s, status)
        /\ history'[c] = IF JoinsHistory(c, s, status) THEN history[c] \cup {<<"assistant", s>>} ELSE history[c]
    BY DEF CommitDelivery, TypeOK
  <1>2. Story(c, s) /\ Told(c, s)
    BY DEF TablesInv, RowInv, RowAgrees
  <1>3. turn[c][s] # "none" /\ s \in Open(c)
    BY <1>2 DEF Story, Tells, Open, Terminal, PendingSend
  <1>4. \A d \in Convs, t \in Seqs : d # c \/ t # s => RowSame(d, t)
    BY DEF CommitDelivery, RowSame, TypeOK
  <1>5. Story(c, s)'
    BY <1>1, <1>2 DEF Story, Tells, SettledEvent, SettledTurn, Erased, PendingSend
  <1>6. Told(c, s)'
    BY <1>1, <1>2, <1>3 DEF Told, SettledEvent, SettledTurn, JoinsHistory, Erased, PendingSend
  <1>7. QED BY <1>3, <1>4, <1>5, <1>6, MoveKeeps

LEMMA ReviewKeeps ==
  ASSUME TypeOK, TablesInv, NEW c \in Convs, NEW s \in Seqs, Retry(c, s) \/ Discard(c, s)
  PROVE  TablesInv'
  <1>1. UNCHANGED <<privacy, dataGen, bound, nextSeq, kind, source, card, deletion, erasedSources, origin, history>>
    BY DEF Retry, Discard, journalVars, recordVars
  <1>2. /\ Reviewable(c, s)
        /\ \/ /\ ~Erased(c, s) /\ outbox'[c][s] = "pending"
              /\ event'[c][s] = "outbox_ready" /\ turn'[c][s] = "awaiting_delivery"
           \/ outbox'[c][s] = "cancelled" /\ event'[c][s] = "cancelled" /\ turn'[c][s] = "cancelled"
    BY DEF Retry, MayRetry, Discard, TypeOK
  <1>3. Story(c, s) /\ Told(c, s)
    BY DEF TablesInv, RowInv, RowAgrees
  <1>4. CASE event[c][s] \in Terminal
    <2>1. kind[c][s] = "erased" /\ outbox[c][s] = "rejected" /\ event[c][s] = "cancelled" /\ turn[c][s] = "cancelled"
      BY <1>2, <1>3, <1>4 DEF Story, Tells, Terminal, Reviewable
    <2>2. /\ \A d \in Convs, t \in Seqs : d # c \/ t # s => RowSame(d, t)
          /\ event'[c][s] = "cancelled" /\ turn'[c][s] = "cancelled" /\ outbox'[c][s] = "cancelled"
      BY <1>2, <2>1 DEF Retry, Discard, RowSame, TypeOK, Erased
    <2>r. OneRow(c, s) /\ \A d \in Convs, t \in Seqs : UNCHANGED <<event[d][t], turn[d][t]>>
      BY <1>1, <2>1, <2>2 DEF OneRow, RowSame
    <2>3. Story(c, s)' /\ Told(c, s)' /\ ~PendingSend(c, s)'
      BY <1>1, <1>3, <2>1, <2>2 DEF Story, Tells, Told, Erased, PendingSend
    <2>4. RowInv' /\ CutoffInv'
      BY <1>1, <2>r, <2>3, OneRowAgrees DEF TablesInv
    <2>5. QED BY <1>1, <2>r, <2>4, SameOrder DEF TablesInv
  <1>5. CASE event[c][s] \notin Terminal
    <2>1. turn[c][s] # "none" /\ s \in Open(c)
      BY <1>2, <1>3, <1>5 DEF Story, Tells, Open, Reviewable
    <2>2. \A d \in Convs, t \in Seqs : d # c \/ t # s => RowSame(d, t)
      BY DEF Retry, Discard, RowSame, TypeOK
    <2>3. Story(c, s)' /\ Told(c, s)'
      BY <1>1, <1>2, <1>3 DEF Story, Tells, Told, Erased, Reviewable
    <2>4. ~PendingSend(c, s)'
      BY <1>2 DEF PendingSend
    <2>5. QED BY <1>1, <2>1, <2>2, <2>3, <2>4, MoveKeeps
  <1>6. QED BY <1>4, <1>5

LEMMA ResultKeeps ==
  ASSUME TypeOK, TablesInv, NEW c \in Convs,
         \/ \E status \in {"accepted", "rejected", "unknown"} : FinishDelivery(c, status)
         \/ \E s \in Seqs : ConfirmSent(c, s)
  PROVE  TablesInv'
  <1>1. ASSUME NEW status \in {"accepted", "rejected", "unknown"}, FinishDelivery(c, status)
        PROVE  TablesInv'
    <2>s. PICK s \in Seqs : s = work[c].seq
      BY DEF TypeOK
    <2>1. /\ PendingSend(c, s) /\ CommitDelivery(c, s, status)
          /\ UNCHANGED <<privacy, dataGen, bound, nextSeq, kind, source, card, deletion, erasedSources, origin>>
      BY <1>1, <2>s DEF FinishDelivery, PendingSend, journalVars, recordVars
    <2>2. QED BY <2>1, CommitKeeps
  <1>2. ASSUME NEW s \in Seqs, ConfirmSent(c, s) PROVE TablesInv'
    <2>1. /\ PendingSend(c, s) /\ CommitDelivery(c, s, "accepted")
          /\ UNCHANGED <<privacy, dataGen, bound, nextSeq, kind, source, card, deletion, erasedSources, origin>>
      BY <1>2 DEF ConfirmSent, PendingSend, journalVars, recordVars
    <2>2. QED BY <2>1, CommitKeeps
  <1>3. QED BY <1>1, <1>2

\* A turn begins with the character bound now; one interrupted begins again with its own.
LEMMA BeginTurnKeeps ==
  ASSUME TypeOK, TablesInv, NEW c \in Convs, NEW s \in Seqs, BeginTurn(c, s) PROVE TablesInv'
  <1>1. UNCHANGED <<privacy, dataGen, bound, nextSeq, kind, source, deletion, erasedSources, origin, outbox>>
    BY DEF BeginTurn, journalVars, recordVars
  <1>2. /\ IsHead(c, s) /\ kind[c][s] = "message" /\ event[c][s] = "queued"
        /\ event'[c][s] = "generating" /\ turn'[c][s] = "generating"
        /\ history'[c] = history[c] \cup {<<"user", s>>}
        /\ card'[c][s] = IF turn[c][s] = "none" THEN bound[c] ELSE card[c][s]
    BY DEF BeginTurn, AtHead, TypeOK
  <1>3. \A d \in Convs, t \in Seqs : d # c \/ t # s => RowSame(d, t)
    BY DEF BeginTurn, RowSame, TypeOK
  <1>4. RowStep(c, s)
    BY <1>1, <1>2, <1>3 DEF RowStep, OneRow
  <1>5. Story(c, s) /\ Told(c, s)
    BY DEF TablesInv, RowInv, RowAgrees
  <1>6. Story(c, s)' /\ Told(c, s)' /\ ~Empty(c, s) /\ ~Erased(c, s)
    BY <1>1, <1>2, <1>5 DEF Story, Tells, Told, Erased, Empty
  <1>7. RowInv' /\ CutoffInv'
    BY <1>4, <1>6, OneRowAgrees DEF TablesInv, RowStep
  <1>8. Begun(c, s)' /\ (Begun(c, s) <=> turn[c][s] # "none")
    BY <1>1, <1>2 DEF Begun
  <1>9. OrderInv'
    <2>1. CASE turn[c][s] = "none"
      BY <1>1, <1>2, <1>4, <1>8, <2>1, RowStepBegins DEF TablesInv
    <2>2. CASE turn[c][s] # "none"
      BY <1>1, <1>2, <1>4, <1>8, <2>2, RowStepOrder DEF TablesInv
    <2>3. QED BY <2>1, <2>2
  <1>10. QED BY <1>7, <1>9 DEF TablesInv

LEMMA ApplyBindingKeeps ==
  ASSUME TypeOK, TablesInv, NEW c \in Convs, NEW s \in Seqs, ApplyBinding(c, s) PROVE TablesInv'
  <1>1. UNCHANGED <<privacy, dataGen, nextSeq, kind, source, card, deletion, erasedSources, origin, turn, outbox,
                    history>>
    BY DEF ApplyBinding, journalVars, recordVars
  <1>2. /\ IsHead(c, s) /\ kind[c][s] = "binding" /\ event[c][s] = "queued"
        /\ event'[c][s] = "completed" /\ bound'[c] = card[c][s]
        /\ \A d \in Convs : d # c => UNCHANGED bound[d]
    BY DEF ApplyBinding, AtHead, TypeOK
  <1>3. \A d \in Convs, t \in Seqs : d # c \/ t # s => RowSame(d, t)
    BY DEF ApplyBinding, RowSame, TypeOK
  <1>4. RowStep(c, s)
    BY <1>1, <1>2, <1>3 DEF RowStep, OneRow
  <1>5. Story(c, s) /\ Told(c, s)
    BY DEF TablesInv, RowInv, RowAgrees
  <1>6. Story(c, s)' /\ Told(c, s)' /\ ~Erased(c, s)
    BY <1>1, <1>2, <1>5 DEF Story, Tells, Told, Erased
  <1>7. RowInv' /\ CutoffInv'
    BY <1>1, <1>4, <1>6, OneRowAgrees DEF TablesInv, RowStep
  <1>8. Begun(c, s)' /\ ~Begun(c, s)
    BY <1>1, <1>2 DEF Begun
  <1>9. OrderInv'
    BY <1>1, <1>2, <1>4, <1>8, RowStepBegins DEF TablesInv
  <1>10. QED BY <1>7, <1>9 DEF TablesInv

\* Admission and changes of character write the next row, which nobody has seen before.
LEMMA InsertKeeps ==
  ASSUME TypeOK, TablesInv, NEW c \in Convs, ~Owed(c),
         NEW k \in {"message", "binding"}, NEW src \in AnySource, NEW ch \in AnyCharacter,
         NEW state \in {"queued", "ignored"}, k = "binding" => state = "queued",
         InsertEvent(c, k, src, ch, state),
         privacy[c] # "erased", privacy' = [privacy EXCEPT ![c] = "active"],
         \A d \in Convs : d # c \/ privacy[c] # "absent" => UNCHANGED bound[d],
         src # NoSource => ~SeenBefore(c, src)
  PROVE  TablesInv'
  <1>n. PICK n \in Seqs : n = nextSeq[c]
    BY BoundsAreNat DEF InsertEvent, TypeOK, Seqs
  <1>1. /\ nextSeq'[c] = n + 1 /\ kind'[c][n] = k /\ event'[c][n] = state /\ source'[c][n] = src
        /\ card'[c][n] = ch /\ origin'[c][n] = src
        /\ UNCHANGED <<dataGen, turn, outbox, history, deletion, erasedSources>>
    BY <1>n DEF InsertEvent, TypeOK, journalVars
  <1>2. ASSUME NEW d \in Convs, NEW t \in Seqs, d # c \/ t # n
        PROVE  UNCHANGED <<kind[d][t], event[d][t], source[d][t], card[d][t], origin[d][t]>>
    BY <1>2, <1>n DEF InsertEvent, TypeOK
  <1>3. ASSUME NEW d \in Convs, d # c PROVE UNCHANGED <<nextSeq[d], privacy[d]>>
    BY <1>3 DEF InsertEvent, TypeOK
  <1>4. privacy'[c] = "active" /\ nextSeq'[c] \in Nat
    BY <1>1, SeqsAreNat DEF TypeOK
  <1>5. ASSUME NEW t \in Seqs, t >= n
        PROVE  kind[c][t] = "none" /\ event[c][t] = "none" /\ turn[c][t] = "none" /\ outbox[c][t] = "none"
    BY <1>n, <1>5 DEF TablesInv, RowInv, RowAgrees, Blank, Story, Tells
  <1>6. Owed(c)' <=> Owed(c)
    BY <1>1 DEF Owed
  <1>7. CutoffInv'
    <2>1. ASSUME NEW d \in Convs, ~Owed(d)' PROVE deletion'[d].cutoff < nextSeq'[d]
      <3>1. ~Owed(d) /\ deletion'[d] = deletion[d]
        BY <1>1, <2>1 DEF Owed
      <3>2. deletion[d].cutoff < nextSeq[d] /\ deletion[d].cutoff \in Nat /\ nextSeq[d] \in Nat
        BY <3>1, BoundsAreNat DEF TablesInv, CutoffInv, TypeOK, DeletionRecord
      <3>3. nextSeq'[d] = nextSeq[d] \/ nextSeq'[d] = nextSeq[d] + 1
        BY <1>1, <1>3, <1>n
      <3>4. QED BY <3>1, <3>2, <3>3
    <2>2. QED BY <2>1 DEF CutoffInv
  <1>8. ASSUME NEW d \in Convs, NEW t \in Seqs PROVE RowAgrees(d, t)'
    <2>0. RowAgrees(d, t)
      BY DEF TablesInv, RowInv
    <2>1. CASE d # c
      <3>1. RowSame(d, t)
        BY <1>1, <1>2, <2>1 DEF RowSame
      <3>2. QED BY <1>1, <1>2, <1>3, <2>0, <2>1, <3>1, RowSameAgrees
    <2>2. CASE d = c /\ t # n
      <3>1. Story(c, t)' /\ Told(c, t)'
        BY <1>1, <1>2, <2>0, <2>2 DEF RowAgrees, Story, Told, Erased
      <3>2. t >= nextSeq'[c] => t >= nextSeq[c]
        BY <1>1, <1>n, SeqsAreNat
      <3>3. Blank(c, t)'
        BY <1>1, <1>2, <1>4, <1>6, <2>0, <2>2, <3>2 DEF RowAgrees, Blank, Empty, Erased, PendingSend, TypeOK
      <3>4. Traced(c, t)'
        BY <1>1, <1>2, <1>6, <2>0, <2>2 DEF RowAgrees, Traced
      <3>5. QED BY <2>2, <3>1, <3>3, <3>4 DEF RowAgrees
    <2>3. CASE d = c /\ t = n
      <3>0. n >= n /\ ~(n >= nextSeq'[c])
        BY <1>1, SeqsAreNat
      <3>1. Story(c, n)'
        BY <1>1, <1>5, <3>0 DEF Story, Tells
      <3>2. Told(c, n)'
        BY <1>1, <1>5, <2>0, <2>3, <3>0 DEF RowAgrees, Told, Erased
      <3>3. ~(n <= deletion[c].cutoff)
        BY <1>n, BoundsAreNat, SeqsAreNat DEF TablesInv, CutoffInv, TypeOK, DeletionRecord
      <3>4. Blank(c, n)'
        BY <1>1, <1>4, <3>0, <3>3 DEF Blank, Empty, Erased
      <3>5. src \notin erasedSources[c]
        BY ConstantsAssumption DEF SeenBefore, TypeOK
      <3>6. Traced(c, n)'
        BY <1>1, <1>6, <3>5 DEF Traced
      <3>7. QED BY <2>3, <3>1, <3>2, <3>4, <3>6 DEF RowAgrees
    <2>4. QED BY <2>1, <2>2, <2>3
  <1>9. ASSUME NEW d \in Convs, NEW t \in Seqs PROVE Begun(d, t)' <=> (Begun(d, t) /\ ~(d = c /\ t = n))
    <2>1. CASE d = c /\ t = n
      BY <1>1, <1>5, <2>1, SeqsAreNat DEF Begun
    <2>2. CASE d # c \/ t # n
      BY <1>1, <1>2, <2>2 DEF Begun
    <2>3. QED BY <2>1, <2>2
  <1>10. ~Begun(c, n)
    BY <1>5, SeqsAreNat DEF Begun
  <1>11. ASSUME NEW d \in Convs, NEW t \in Seqs PROVE Speaks(d, t)'
    <2>1. SUFFICES ASSUME Begun(d, t)'
          PROVE bound'[d] = card'[d][t] \/ \E m \in Seqs : t < m /\ Begun(d, m)' /\ kind'[d][m] = "binding"
      BY DEF Speaks
    <2>2. Begun(d, t) /\ (d # c \/ t # n)
      BY <1>9, <2>1
    <2>3. d # c \/ privacy[c] # "absent"
      BY <2>2 DEF Begun, TablesInv, RowInv, RowAgrees, Blank
    <2>4. bound'[d] = bound[d] /\ card'[d][t] = card[d][t]
      BY <1>2, <2>2, <2>3
    <2>5. CASE bound[d] = card[d][t]
      BY <2>4, <2>5
    <2>6. CASE \E m \in Seqs : t < m /\ Begun(d, m) /\ kind[d][m] = "binding"
      <3>1. PICK m \in Seqs : t < m /\ Begun(d, m) /\ kind[d][m] = "binding"
        BY <2>6
      <3>2. d # c \/ m # n
        BY <1>10, <3>1
      <3>3. Begun(d, m)' /\ kind'[d][m] = "binding"
        BY <1>2, <1>9, <3>1, <3>2
      <3>4. QED BY <3>1, <3>3
    <2>7. QED BY <2>2, <2>5, <2>6 DEF TablesInv, OrderInv, Speaks
  <1>12. ASSUME NEW d \in Convs, NEW t \in Seqs, NEW u \in Seqs PROVE PairInv(d, t, u)'
    <2>0. PairInv(d, t, u)
      BY DEF TablesInv, OrderInv
    <2>b. Between(d, t, u) => Between(d, t, u)'
      <3>1. ASSUME NEW m \in Seqs, t < m, m < u, kind[d][m] = "binding" PROVE kind'[d][m] = "binding"
        BY <1>2, <1>5, <3>1, SeqsAreNat
      <3>2. QED BY <3>1 DEF Between
    <2>1. CASE d # c \/ (t # n /\ u # n)
      <3>1. /\ UNCHANGED <<kind[d][t], event[d][t], card[d][t], origin[d][t], turn>>
            /\ UNCHANGED <<kind[d][u], event[d][u], card[d][u], origin[d][u]>>
        BY <1>1, <1>2, <2>1
      <3>2. QED BY <2>0, <2>b, <3>1 DEF PairInv, Open
    <2>2. CASE d = c /\ t = n /\ u # n
      <3>1. n < u => turn'[c][u] = "none" /\ event'[c][u] = "none"
        BY <1>1, <1>2, <1>5, <2>2, SeqsAreNat
      <3>2. src # NoSource => origin[c][u] # src
        BY ConstantsAssumption DEF TablesInv, RowInv, RowAgrees, Traced, SeenBefore
      <3>3. QED BY <1>1, <1>2, <2>2, <3>1, <3>2 DEF PairInv
    <2>3. CASE d = c /\ u = n /\ t # n
      <3>1. turn'[c][n] = "none" /\ event'[c][n] \in {"queued", "ignored"}
        BY <1>1, <1>5, SeqsAreNat
      <3>2. src # NoSource => origin[c][t] # src
        BY ConstantsAssumption DEF TablesInv, RowInv, RowAgrees, Traced, SeenBefore
      <3>3. QED BY <1>1, <1>2, <2>3, <3>1, <3>2 DEF PairInv
    <2>4. CASE d = c /\ u = n /\ t = n
      BY <2>4, SeqsAreNat DEF PairInv
    <2>5. QED BY <2>1, <2>2, <2>3, <2>4
  <1>13. QED BY <1>7, <1>8, <1>11, <1>12 DEF TablesInv, RowInv, OrderInv

LEMMA NothingOwed == ASSUME DeletionIsExact, Accepting, NEW c \in Convs PROVE ~Owed(c)
  BY DEF DeletionIsExact, Frozen, Accepting

LEMMA AdmissionKeeps ==
  ASSUME TypeOK, DeletionIsExact, TablesInv, NEW c \in Convs,
         \/ \E src \in Sources \cup {NoSource}, ch \in Characters, pauses \in BOOLEAN : Admit(c, src, ch, pauses)
         \/ \E request \in Requests, ch \in Characters : EnqueueBinding(c, request, ch)
  PROVE  TablesInv'
  <1>1. ASSUME NEW src \in Sources \cup {NoSource}, NEW ch \in Characters, NEW pauses \in BOOLEAN,
               Admit(c, src, ch, pauses)
        PROVE  TablesInv'
    <2>1. /\ InsertEvent(c, "message", src, NoCharacter, IF HasRoom THEN "queued" ELSE "ignored")
          /\ src \in AnySource /\ NoCharacter \in AnyCharacter
          /\ privacy[c] # "erased" /\ privacy' = [privacy EXCEPT ![c] = "active"]
          /\ src # NoSource => ~SeenBefore(c, src)
      BY <1>1 DEF Admit, AnySource, AnyCharacter
    <2>2. \A d \in Convs : d # c \/ privacy[c] # "absent" => UNCHANGED bound[d]
      BY <1>1 DEF Admit, TypeOK
    <2>3. ~Owed(c)
      BY <1>1, NothingOwed DEF Admit
    <2>4. (IF HasRoom THEN "queued" ELSE "ignored") \in {"queued", "ignored"}
      OBVIOUS
    <2>5. QED BY <2>1, <2>2, <2>3, <2>4, InsertKeeps
  <1>2. ASSUME NEW request \in Requests, NEW ch \in Characters, EnqueueBinding(c, request, ch)
        PROVE  TablesInv'
    <2>1. /\ InsertEvent(c, "binding", request, ch, "queued")
          /\ request \in AnySource /\ ch \in AnyCharacter
          /\ privacy[c] = "active" /\ privacy' = privacy /\ bound' = bound
          /\ ~SeenBefore(c, request)
      BY <1>2 DEF EnqueueBinding, AnySource, AnyCharacter
    <2>2. privacy' = [privacy EXCEPT ![c] = "active"]
      BY <2>1 DEF TypeOK
    <2>3. ~Owed(c)
      BY <1>2, NothingOwed DEF EnqueueBinding
    <2>4. QED BY <2>1, <2>2, <2>3, InsertKeeps
  <1>3. QED BY <1>1, <1>2

LEMMA SuppressKeeps ==
  ASSUME TypeOK, DeletionIsExact, TablesInv, NEW c \in Convs, NEW src \in Sources, SuppressIncoming(c, src)
  PROVE  TablesInv'
  <1>1. /\ UNCHANGED <<dbVars, deletion, origin>> /\ privacy[c] = "erased" /\ Accepting
        /\ erasedSources'[c] = erasedSources[c] \cup {src}
        /\ \A d \in Convs : d # c => UNCHANGED erasedSources[d]
    BY DEF SuppressIncoming, recordVars, TypeOK
  <1>2. CutoffInv'
    BY <1>1 DEF TablesInv, CutoffInv, Owed, dbVars
  <1>3. OrderInv'
    BY <1>1, SameOrder DEF TablesInv, dbVars
  <1>4. ~Owed(c)
    BY <1>1, NothingOwed
  <1>5. ASSUME NEW d \in Convs, NEW t \in Seqs PROVE RowAgrees(d, t)'
    <2>0. RowAgrees(d, t)
      BY DEF TablesInv, RowInv
    <2>1. Story(d, t)' /\ Told(d, t)'
      BY <1>1, <2>0 DEF RowAgrees, Story, Told, Erased, dbVars
    <2>2. Blank(d, t)'
      BY <1>1, <2>0 DEF RowAgrees, Blank, Empty, Erased, Owed, PendingSend, dbVars
    <2>3. CASE d # c
      BY <1>1, <2>0, <2>1, <2>2, <2>3 DEF RowAgrees, Traced, Owed, dbVars
    <2>4. CASE d = c
      <3>1. source[c][t] = NoSource /\ src # NoSource
        BY <1>1, <2>0, <2>4, ConstantsAssumption DEF RowAgrees, Blank
      <3>2. Traced(c, t)'
        BY <1>1, <1>4, <2>0, <2>4, <3>1 DEF RowAgrees, Traced, Owed, dbVars
      <3>3. QED BY <2>1, <2>2, <2>4, <3>2 DEF RowAgrees
    <2>5. QED BY <2>3, <2>4
  <1>6. QED BY <1>2, <1>3, <1>5 DEF TablesInv, RowInv

\* The journal holds a deletion the tables have not followed: every id is remembered.
LEMMA HalfDoneKeeps ==
  ASSUME TypeOK, TablesInv, NEW c \in Convs, EraseHalfDone(c)
  PROVE  TablesInv'
  <1>1. /\ UNCHANGED <<dbVars, origin>>
        /\ deletion'[c] = NewDeletion(c)
        /\ erasedSources'[c] = erasedSources[c] \cup {source[c][s] : s \in {t \in Seqs : source[c][t] # NoSource}}
        /\ \A d \in Convs : d # c => UNCHANGED <<deletion[d], erasedSources[d]>>
    BY DEF EraseHalfDone, RecordDeletion, recordVars, TypeOK
  <1>2. Owed(c)'
    <2>1. deletion'[c].gen = dataGen[c] + 1 /\ dataGen'[c] = dataGen[c] /\ dataGen[c] \in Nat
      BY <1>1 DEF NewDeletion, TypeOK, dbVars
    <2>2. QED BY <2>1 DEF Owed
  <1>3. CutoffInv'
    BY <1>1, <1>2 DEF TablesInv, CutoffInv, Owed, dbVars
  <1>4. OrderInv'
    BY <1>1, SameOrder DEF TablesInv, dbVars
  <1>5. ASSUME NEW d \in Convs, NEW t \in Seqs PROVE RowAgrees(d, t)'
    <2>0. RowAgrees(d, t)
      BY DEF TablesInv, RowInv
    <2>1. CASE d # c
      <3>1. RowSame(d, t)
        BY <1>1 DEF RowSame, dbVars
      <3>2. QED BY <1>1, <2>0, <2>1, <3>1, RowSameAgrees DEF dbVars
    <2>2. CASE d = c
      <3>1. Story(c, t)' /\ Told(c, t)'
        BY <1>1, <2>0, <2>2 DEF RowAgrees, Story, Told, Erased, dbVars
      <3>2. Blank(c, t)'
        BY <1>1, <1>2, <2>0, <2>2 DEF RowAgrees, Blank, Empty, Erased, PendingSend, dbVars
      <3>3. Traced(c, t)'
        BY <1>1, <1>2, <2>0, <2>2 DEF RowAgrees, Traced, dbVars
      <3>4. QED BY <2>2, <3>1, <3>2, <3>3 DEF RowAgrees
    <2>3. QED BY <2>1, <2>2
  <1>6. QED BY <1>3, <1>4, <1>5 DEF TablesInv, RowInv

\* An erasure keeps the sends that may still be on their way, of which only the head
\* of the queue can be one, and remembers every id it takes away.
LEMMA ErasureKeeps ==
  ASSUME TypeOK, TypeOK', TablesInv, NEW c \in Convs, ApplyErasure(c, NewDeletion(c)),
         deletion'[c] = NewDeletion(c), UNCHANGED origin,
         \A d \in Convs : d # c => UNCHANGED <<deletion[d], erasedSources[d]>>,
         erasedSources[c] \subseteq erasedSources'[c],
         \A s \in Seqs : source[c][s] # NoSource => source[c][s] \in erasedSources'[c]
  PROVE  TablesInv'
  <1>1. ASSUME NEW d \in Convs, d # c, NEW t \in Seqs
        PROVE  /\ RowSame(d, t)
               /\ UNCHANGED <<privacy[d], dataGen[d], bound[d], nextSeq[d], kind[d][t], source[d][t]>>
    BY <1>1 DEF ApplyErasure, RowSame, TypeOK
  <1>2. /\ privacy'[c] = "erased" /\ history'[c] = {}
        /\ nextSeq'[c] = nextSeq[c] /\ deletion'[c].cutoff < nextSeq[c]
    BY BoundsAreNat DEF ApplyErasure, NewDeletion, TypeOK
  <1>3. ASSUME NEW t \in Seqs
        PROVE  /\ source'[c][t] = NoSource /\ card'[c][t] = NoCharacter
               /\ PendingSend(c, t) =>
                    /\ kind'[c][t] = "erased" /\ event'[c][t] = "needs_review"
                    /\ turn'[c][t] = "needs_review" /\ outbox'[c][t] = outbox[c][t]
               /\ ~PendingSend(c, t) =>
                    /\ kind'[c][t] = "none" /\ event'[c][t] = "none"
                    /\ turn'[c][t] = "none" /\ outbox'[c][t] = "none"
    BY DEF ApplyErasure, NewDeletion, Kept, PendingSend, TypeOK
  <1>4. ~Owed(c)'
    BY PaidOff, NewDeletionType
  <1>5. CutoffInv'
    <2>1. ASSUME NEW d \in Convs, d # c PROVE UNCHANGED <<dataGen[d], nextSeq[d], deletion[d]>>
      BY <1>1, <2>1, FirstSeq
    <2>2. QED BY <1>2, <2>1 DEF TablesInv, CutoffInv, Owed
  <1>6. ASSUME NEW d \in Convs, NEW t \in Seqs PROVE RowAgrees(d, t)'
    <2>0. RowAgrees(d, t)
      BY DEF TablesInv, RowInv
    <2>1. CASE d # c
      BY <1>1, <2>0, <2>1, RowSameAgrees
    <2>2. CASE d = c
      <3>1. Story(c, t)' /\ Told(c, t)'
        BY <1>2, <1>3 DEF Story, Tells, Told, Erased, PendingSend
      <3>2. t >= nextSeq[c] => ~PendingSend(c, t) /\ origin'[c][t] = NoSource
        BY <2>0, <2>2 DEF RowAgrees, Blank, Story, Tells, PendingSend
      <3>3. Blank(c, t)'
        BY <1>2, <1>3, <3>2 DEF Blank, Empty, Erased
      <3>4. NoSource \notin erasedSources'[c]
        BY ConstantsAssumption DEF TypeOK
      <3>5. Traced(c, t)'
        BY <1>3, <1>4, <2>0, <2>2, <3>4 DEF RowAgrees, Traced
      <3>6. QED BY <2>2, <3>1, <3>3, <3>5 DEF RowAgrees
    <2>3. QED BY <2>1, <2>2
  <1>7. ASSUME NEW d \in Convs, NEW t \in Seqs PROVE Speaks(d, t)'
    <2>1. CASE d # c
      <3>1. ASSUME NEW m \in Seqs PROVE (Begun(d, m)' <=> Begun(d, m)) /\ kind'[d][m] = kind[d][m]
        BY <1>1, <2>1 DEF Begun, RowSame
      <3>2. UNCHANGED <<bound[d], card[d][t]>>
        BY <1>1, <2>1 DEF RowSame
      <3>3. QED BY <3>1, <3>2 DEF TablesInv, OrderInv, Speaks
    <2>2. CASE d = c
      BY <1>3, <2>2 DEF Speaks, Begun
    <2>3. QED BY <2>1, <2>2
  <1>8. ASSUME NEW d \in Convs, NEW t \in Seqs, NEW u \in Seqs PROVE PairInv(d, t, u)'
    <2>0. PairInv(d, t, u)
      BY DEF TablesInv, OrderInv
    <2>1. CASE d # c
      <3>1. RowSame(d, t) /\ RowSame(d, u) /\ \A m \in Seqs : kind'[d][m] = kind[d][m]
        BY <1>1, <2>1
      <3>2. QED BY <2>0, <3>1 DEF PairInv, RowSame, Open, Between
    <2>2. CASE d = c
      <3>1. ASSUME t < u, t \in Open(c)' PROVE ~PendingSend(c, u)
        <4>1. PendingSend(c, t)
          BY <1>3, <3>1 DEF Open, Terminal
        <4>2. turn[c][t] # "none" /\ t \in Open(c)
          BY <4>1 DEF TablesInv, RowInv, RowAgrees, Story, Tells, Open, Terminal, PendingSend
        <4>3. turn[c][u] = "none"
          BY <3>1, <4>2 DEF TablesInv, OrderInv, PairInv
        <4>4. QED BY <4>3 DEF TablesInv, RowInv, RowAgrees, Story, Tells, PendingSend
      <3>2. kind'[c][u] # "message"
        BY <1>3
      <3>3. QED BY <1>3, <2>0, <2>2, <3>1, <3>2 DEF PairInv
    <2>3. QED BY <2>1, <2>2
  <1>9. QED BY <1>5, <1>6, <1>7, <1>8 DEF TablesInv, RowInv, OrderInv

LEMMA EraseKeeps ==
  ASSUME TypeOK, TypeOK', DeletionIsExact, TablesInv, NEW c \in Convs,
         EraseConversation(c) \/ ReplayDeletion(c)
  PROVE  TablesInv'
  <1>1. CASE EraseConversation(c)
    <2>1. /\ ApplyErasure(c, NewDeletion(c)) /\ UNCHANGED origin
          /\ deletion'[c] = NewDeletion(c)
          /\ erasedSources'[c] = erasedSources[c] \cup {source[c][s] : s \in {t \in Seqs : source[c][t] # NoSource}}
          /\ \A d \in Convs : d # c => UNCHANGED <<deletion[d], erasedSources[d]>>
      BY <1>1 DEF EraseConversation, RecordDeletion, recordVars, TypeOK
    <2>2. QED BY <2>1, ErasureKeeps
  <1>2. CASE ReplayDeletion(c)
    <2>1. Owed(c) /\ deletion[c] = NewDeletion(c) /\ UNCHANGED <<deletion, erasedSources, origin>>
      BY <1>2 DEF ReplayDeletion, DeletionIsExact, journalVars, recordVars
    <2>2. \A s \in Seqs : source[c][s] # NoSource => source[c][s] \in erasedSources'[c]
      BY <2>1 DEF TablesInv, RowInv, RowAgrees, Traced
    <2>3. QED BY <1>2, <2>1, <2>2, ErasureKeeps DEF ReplayDeletion
  <1>3. QED BY <1>1, <1>2

LEMMA ResumeKeeps ==
  ASSUME TypeOK, TablesInv, NEW c \in Convs, NEW ch \in Characters, ResumeConversation(c, ch)
  PROVE  TablesInv'
  <1>1. /\ privacy[c] = "erased" /\ privacy'[c] = "active" /\ \A s \in Seqs : ~PendingSend(c, s)
        /\ UNCHANGED <<dataGen, nextSeq, kind, event, source, card, turn, outbox, history, deletion,
                       erasedSources, origin>>
        /\ \A d \in Convs : d # c => UNCHANGED <<privacy[d], bound[d]>>
    BY DEF ResumeConversation, ResumeAllowed, TypeOK, journalVars, recordVars
  <1>2. CutoffInv'
    BY <1>1 DEF TablesInv, CutoffInv, Owed
  <1>3. ASSUME NEW d \in Convs, NEW t \in Seqs PROVE RowAgrees(d, t)'
    <2>0. RowAgrees(d, t)
      BY DEF TablesInv, RowInv
    <2>1. CASE d # c
      <3>1. RowSame(d, t)
        BY <1>1 DEF RowSame
      <3>2. QED BY <1>1, <2>0, <2>1, <3>1, RowSameAgrees
    <2>2. CASE d = c
      <3>1. Story(c, t)' /\ Told(c, t)' /\ Traced(c, t)'
        BY <1>1, <2>0, <2>2 DEF RowAgrees, Story, Told, Erased, Traced, Owed
      <3>2. Blank(c, t)'
        BY <1>1, <2>0, <2>2 DEF RowAgrees, Blank, Empty, Owed, PendingSend
      <3>3. QED BY <2>2, <3>1, <3>2 DEF RowAgrees
    <2>3. QED BY <2>1, <2>2
  <1>4. ASSUME NEW t \in Seqs PROVE ~Begun(c, t)
    BY <1>1 DEF TablesInv, RowInv, RowAgrees, Blank, Empty, Begun
  <1>5. ASSUME NEW d \in Convs, NEW t \in Seqs PROVE Speaks(d, t)'
    <2>1. \A m \in Seqs : Begun(d, m)' <=> Begun(d, m)
      BY <1>1 DEF Begun
    <2>2. CASE d # c
      BY <1>1, <2>1, <2>2 DEF TablesInv, OrderInv, Speaks
    <2>3. CASE d = c
      BY <1>4, <2>1, <2>3 DEF Speaks
    <2>4. QED BY <2>2, <2>3
  <1>6. \A d \in Convs, t, u \in Seqs : PairInv(d, t, u)'
    BY <1>1 DEF TablesInv, OrderInv, PairInv, Open, Between
  <1>7. QED BY <1>2, <1>3, <1>5, <1>6 DEF TablesInv, RowInv, OrderInv

\* A restart doubts interrupted sends and starts interrupted turns again, in their places.
LEMMA RestartKeeps == ASSUME TypeOK, TablesInv, Restart PROVE TablesInv'
  <1>1. UNCHANGED <<privacy, dataGen, bound, nextSeq, kind, source, card, history, deletion, erasedSources, origin>>
    BY DEF Restart, journalVars, recordVars
  <1>2. ASSUME NEW d \in Convs, NEW t \in Seqs
        PROVE  /\ event'[d][t] = RecoveredEvent(event[d][t], outbox[d][t])
               /\ turn'[d][t] = RecoveredTurn(turn[d][t], outbox[d][t])
               /\ outbox'[d][t] = RecoveredBox(outbox[d][t])
    BY DEF Restart
  <1>3. CutoffInv' /\ \A d \in Convs : Owed(d)' <=> Owed(d)
    BY <1>1 DEF TablesInv, CutoffInv, Owed
  <1>4. ASSUME NEW d \in Convs, NEW t \in Seqs
        PROVE  /\ RowAgrees(d, t)'
               /\ turn'[d][t] = "none" <=> turn[d][t] = "none"
               /\ turn[d][t] = "none" => event'[d][t] = event[d][t]
               /\ (t \in Open(d))' <=> t \in Open(d)
               /\ Begun(d, t)' <=> Begun(d, t)
    <2>0. Story(d, t) /\ Told(d, t) /\ Blank(d, t) /\ Traced(d, t)
      BY DEF TablesInv, RowInv, RowAgrees
    <2>1. /\ turn'[d][t] = "none" <=> turn[d][t] = "none"
          /\ turn[d][t] = "none" => event'[d][t] = event[d][t]
          /\ (t \in Open(d))' <=> t \in Open(d)
          /\ outbox'[d][t] = "accepted" <=> outbox[d][t] = "accepted"
          /\ PendingSend(d, t)' <=> PendingSend(d, t)
      BY <1>2, <2>0 DEF Story, Tells, RecoveredEvent, RecoveredTurn, RecoveredBox, Open, Terminal, PendingSend
    <2>2. Story(d, t)'
      BY <1>1, <1>2, <2>0 DEF Story, Tells, RecoveredEvent, RecoveredTurn, RecoveredBox
    <2>3. Told(d, t)' /\ Traced(d, t)'
      BY <1>1, <1>3, <2>0, <2>1 DEF Told, Traced, Erased
    <2>4. Blank(d, t)'
      BY <1>1, <1>3, <2>0, <2>1 DEF Blank, Empty, Erased
    <2>5. kind[d][t] = "binding" => turn[d][t] = "none"
      BY <2>0 DEF Story, Tells
    <2>6. Begun(d, t)' <=> Begun(d, t)
      BY <1>1, <2>1, <2>5 DEF Begun
    <2>7. QED BY <2>1, <2>2, <2>3, <2>4, <2>6 DEF RowAgrees
  <1>5. \A d \in Convs, t \in Seqs : Speaks(d, t)'
    BY <1>1, <1>4 DEF TablesInv, OrderInv, Speaks
  <1>6. ASSUME NEW d \in Convs, NEW t \in Seqs, NEW u \in Seqs PROVE PairInv(d, t, u)'
    <2>1. PairInv(d, t, u)
      BY DEF TablesInv, OrderInv
    <2>2. QED BY <1>1, <1>4, <2>1 DEF PairInv, Between
  <1>7. QED BY <1>3, <1>4, <1>5, <1>6 DEF TablesInv, RowInv, OrderInv

\* Steps of the process, the platform and a worker that touch no table.
LEMMA QuietKeeps ==
  ASSUME TablesInv, UNCHANGED <<dbVars, deletion, erasedSources, origin>> PROVE TablesInv'
  <1>1. CutoffInv'
    BY DEF TablesInv, CutoffInv, Owed, dbVars
  <1>2. OrderInv'
    BY SameOrder DEF TablesInv, dbVars
  <1>3. ASSUME NEW d \in Convs, NEW t \in Seqs PROVE RowAgrees(d, t)'
    BY RowSameAgrees DEF TablesInv, RowInv, RowSame, dbVars
  <1>4. QED BY <1>1, <1>2, <1>3 DEF TablesInv, RowInv

LEMMA StaleEndKeeps ==
  ASSUME TypeOK, TablesInv, NEW c \in Convs, NEW outcome \in {"ignored", "failed"},
         EndGeneration(c, outcome), event[c][work[c].seq] # "generating"
  PROVE  TablesInv'
  <1>1. turn[c][work[c].seq] # "generating"
    BY DEF TypeOK, TablesInv, RowInv, RowAgrees, Story, Tells
  <1>2. UNCHANGED <<event, turn>>
    BY <1>1 DEF EndGeneration, TypeOK
  <1>3. QED BY <1>2, QuietKeeps DEF EndGeneration, dbVars, journalVars, recordVars

LEMMA TablesStep ==
  ASSUME TypeOK, TypeOK', DeletionIsExact, TablesInv, [Next]_vars PROVE TablesInv'
  <1>1. ASSUME NEW c \in Convs, Gateway(c) \/ Operator(c) PROVE TablesInv'
    <2>1. ASSUME EraseUnrecorded(c) PROVE TablesInv'
      BY <2>1, QuietKeeps DEF EraseUnrecorded, journalVars, recordVars
    <2>2. QED
      BY <1>1, <2>1, AdmissionKeeps, SuppressKeeps, ResultKeeps, ReviewKeeps, EraseKeeps, HalfDoneKeeps,
         ResumeKeeps
      DEF Gateway, Operator
  <1>2. ASSUME NEW c \in Convs, NextWork(c) \/ Generate(c) PROVE TablesInv'
    <2>1. CASE NothingToDo(c) \/ DropStale(c) \/ \E s \in Seqs : TakeOutbox(c, s)
      BY <2>1, QuietKeeps DEF NothingToDo, DropStale, TakeOutbox, journalVars, recordVars
    <2>2. QED
      BY <1>2, <2>1, ApplyBindingKeeps, BeginTurnKeeps, SaveProposalKeeps, EndGenerationKeeps, StaleEndKeeps
      DEF NextWork, Generate
  <1>3. ASSUME NEW c \in Convs, Dispatch(c) \/ Finish(c) PROVE TablesInv'
    <2>1. CASE DispatchRefused(c)
      BY <2>1, QuietKeeps DEF DispatchRefused, journalVars, recordVars
    <2>2. QED BY <1>3, <2>1, BeginDispatchKeeps, ResultKeeps DEF Dispatch, Finish
  <1>4. ASSUME NEW c \in Convs, Pick(c) \/ SenderNotReady(c) \/ WorkerFails(c) \/ Platform(c) PROVE TablesInv'
    BY <1>4, QuietKeeps DEF Pick, SenderNotReady, WorkerFails, Platform, Land, journalVars, recordVars
  <1>5. CASE UNCHANGED vars \/ Crash \/ LoopFails \/ LoopEnds \/ BeginShutdown \/ Close
    BY <1>5, QuietKeeps
    DEF Crash, LoopFails, LoopEnds, BeginShutdown, Close, vars, journalVars, recordVars
  <1>6. CASE Reopen
    BY <1>6, RestartKeeps, EraseKeeps DEF Reopen
  <1>7. QED BY <1>1, <1>2, <1>3, <1>4, <1>5, <1>6 DEF Next, Fault

-----------------------------------------------------------------------------
(* The workers and their rows *)

Waiting == {"idle", "picked", "dispatch"}

Alive == host \notin {"fatal", "down"}

\* What a step may do to a conversation without disturbing its worker.
SameWork(c) ==
  /\ dataGen'[c] = dataGen[c]
  /\ privacy[c] = "active" => privacy'[c] = "active"
  /\ \A s \in Seqs : event'[c][s] = "generating" <=> event[c][s] = "generating"
  /\ \A s \in Seqs : outbox'[c][s] = "dispatching" <=> outbox[c][s] = "dispatching"
  /\ UNCHANGED <<pc[c], work[c]>> \/ (pc[c] \in Waiting /\ pc'[c] \in Waiting)

LEMMA SameWorkKeeps ==
  ASSUME TypeOK, NEW c \in Convs, Working(c), SameWork(c), Alive' => Alive
  PROVE  Working(c)'
  <1>1. work[c].seq \in Seqs
    BY DEF TypeOK
  <1>2. CASE UNCHANGED <<pc[c], work[c]>>
    BY <1>1, <1>2 DEF Working, SameWork, Alive
  <1>3. CASE pc[c] \in Waiting /\ pc'[c] \in Waiting
    BY <1>1, <1>3 DEF Working, SameWork, Alive, Waiting
  <1>4. QED BY <1>2, <1>3 DEF SameWork

\* A step of one conversation.
LEMMA OneWork ==
  ASSUME TypeOK, WorkInv, NEW c \in Convs, Working(c)', Alive' => Alive,
         \A d \in Convs : d # c => SameWork(d)
  PROVE  WorkInv'
  BY SameWorkKeeps DEF WorkInv

LEMMA WorkInsert ==
  ASSUME TypeOK, RowInv, NEW c \in Convs, NEW k, NEW src, NEW ch, NEW state \in {"queued", "ignored"},
         InsertEvent(c, k, src, ch, state), \A d \in Convs : d # c => UNCHANGED privacy[d],
         privacy[c] = "active" => privacy'[c] = "active"
  PROVE  \A d \in Convs : SameWork(d)
  <1>n. PICK n \in Seqs : n = nextSeq[c]
    BY BoundsAreNat DEF InsertEvent, TypeOK, Seqs
  <1>0. n >= nextSeq[c]
    BY <1>n, SeqsAreNat
  <1>1. event[c][n] = "none" /\ event'[c][n] = state
    <2>1. event[c][n] = "none"
      BY <1>0 DEF RowInv, RowAgrees, Blank, Story, Tells
    <2>2. QED BY <1>n, <2>1 DEF InsertEvent, TypeOK
  <1>2. \A d \in Convs, t \in Seqs : d # c \/ t # n => event'[d][t] = event[d][t]
    BY <1>n DEF InsertEvent, TypeOK
  <1>3. UNCHANGED <<dataGen, outbox, pc, work>>
    BY DEF InsertEvent, processVars
  <1>4. QED BY <1>1, <1>2, <1>3 DEF SameWork

LEMMA WorkGateway == ASSUME TypeOK, RowInv, WorkInv, NEW c \in Convs, Gateway(c) PROVE WorkInv'
  <1>1. ASSUME NEW src \in Sources \cup {NoSource}, NEW ch \in Characters, NEW pauses \in BOOLEAN,
               Admit(c, src, ch, pauses)
        PROVE  WorkInv'
    <2>1. /\ InsertEvent(c, "message", src, NoCharacter, IF HasRoom THEN "queued" ELSE "ignored")
          /\ privacy' = [privacy EXCEPT ![c] = "active"]
      BY <1>1 DEF Admit
    <2>2. /\ \A d \in Convs : d # c => UNCHANGED privacy[d]
          /\ privacy[c] = "active" => privacy'[c] = "active"
      BY <2>1 DEF TypeOK
    <2>3. (IF HasRoom THEN "queued" ELSE "ignored") \in {"queued", "ignored"}
      OBVIOUS
    <2>4. \A d \in Convs : SameWork(d)
      BY <2>1, <2>2, <2>3, WorkInsert
    <2>5. UNCHANGED host
      BY <2>1 DEF InsertEvent, processVars
    <2>6. QED BY <2>4, <2>5, SameWorkKeeps DEF WorkInv, Alive
  <1>2. ASSUME NEW src \in Sources, SuppressIncoming(c, src) PROVE WorkInv'
    BY <1>2, SameWorkKeeps DEF SuppressIncoming, WorkInv, SameWork, Alive, dbVars, processVars
  <1>3. QED BY <1>1, <1>2 DEF Gateway

LEMMA WorkReview ==
  ASSUME TypeOK, RowInv, WorkInv, NEW c \in Convs, NEW s \in Seqs,
         ConfirmSent(c, s) \/ Retry(c, s) \/ Discard(c, s)
  PROVE  WorkInv'
  <1>1. UNCHANGED <<dataGen, privacy, pc, work, host>>
    BY DEF ConfirmSent, Retry, Discard, processVars
  <1>2. /\ outbox[c][s] \in {"unknown", "rejected"} /\ event[c][s] # "generating"
        /\ outbox'[c][s] \in {"accepted", "pending", "cancelled"}
        /\ event'[c][s] \in {"completed", "outbox_ready", "cancelled"}
    <2>1. outbox[c][s] \in {"unknown", "rejected"}
      BY DEF ConfirmSent, Retry, MayRetry, Discard, Reviewable
    <2>2. event[c][s] # "generating"
      BY <2>1 DEF RowInv, RowAgrees, Story, Tells
    <2>3. /\ outbox'[c][s] \in {"accepted", "pending", "cancelled"}
          /\ event'[c][s] \in {"completed", "outbox_ready", "cancelled"}
      BY DEF ConfirmSent, CommitDelivery, SettledEvent, Retry, Discard, TypeOK
    <2>4. QED BY <2>1, <2>2, <2>3
  <1>3. \A d \in Convs, t \in Seqs : d # c \/ t # s => UNCHANGED <<event[d][t], outbox[d][t]>>
    BY DEF ConfirmSent, CommitDelivery, Retry, Discard, TypeOK
  <1>4. \A d \in Convs : SameWork(d)
    BY <1>1, <1>2, <1>3 DEF SameWork
  <1>5. QED BY <1>1, <1>4, SameWorkKeeps DEF WorkInv, Alive

LEMMA WorkOperator == ASSUME TypeOK, RowInv, WorkInv, NEW c \in Convs, Operator(c) PROVE WorkInv'
  <1>1. ASSUME NEW request \in Requests, NEW ch \in Characters, EnqueueBinding(c, request, ch)
        PROVE  WorkInv'
    <2>1. InsertEvent(c, "binding", request, ch, "queued") /\ UNCHANGED privacy
      BY <1>1 DEF EnqueueBinding
    <2>2. \A d \in Convs : SameWork(d)
      BY <2>1, WorkInsert
    <2>3. UNCHANGED host
      BY <2>1 DEF InsertEvent, processVars
    <2>4. QED BY <2>2, <2>3, SameWorkKeeps DEF WorkInv, Alive
  <1>2. CASE EraseConversation(c)
    <2>1. ApplyErasure(c, NewDeletion(c)) /\ UNCHANGED <<pc, work, host>>
      BY <1>2 DEF EraseConversation, processVars
    <2>2. \A d \in Convs : d # c => SameWork(d)
      BY <2>1 DEF ApplyErasure, SameWork, TypeOK
    <2>3. /\ dataGen'[c] = dataGen[c] + 1 /\ dataGen[c] \in Nat /\ work[c].gen \in Nat
          /\ work[c].seq \in Seqs
      BY <2>1 DEF ApplyErasure, NewDeletion, TypeOK
    <2>4. \A s \in Seqs : /\ event'[c][s] # "generating"
                          /\ outbox'[c][s] = "dispatching" <=> outbox[c][s] = "dispatching"
      BY <2>1 DEF ApplyErasure, NewDeletion, Kept, PendingSend, TypeOK
    <2>5. Working(c)
      BY DEF WorkInv
    <2>6. pc[c] = "generating" => work[c].gen < dataGen'[c]
      BY <2>3, <2>5 DEF Working
    <2>7. Working(c)'
      BY <2>1, <2>3, <2>4, <2>5, <2>6 DEF Working
    <2>8. QED BY <2>1, <2>2, <2>7, OneWork DEF Alive
  <1>3. CASE EraseHalfDone(c) \/ EraseUnrecorded(c)
    BY <1>3, SameWorkKeeps DEF EraseHalfDone, EraseUnrecorded, WorkInv, SameWork, Alive, dbVars
  <1>4. ASSUME NEW ch \in Characters, ResumeConversation(c, ch) PROVE WorkInv'
    BY <1>4, SameWorkKeeps DEF ResumeConversation, WorkInv, SameWork, Alive, TypeOK, processVars
  <1>5. QED BY <1>1, <1>2, <1>3, <1>4, WorkReview DEF Operator

LEMMA WorkNextWork ==
  ASSUME TypeOK, WorkInv, NEW c \in Convs, Pick(c) \/ NextWork(c)
  PROVE  WorkInv'
  <1>1. UNCHANGED host /\ Working(c) /\ pc[c] \in Waiting
    BY DEF WorkInv, Pick, NextWork, NothingToDo, ApplyBinding, BeginTurn, TakeOutbox, AtHead, Starting, Waiting
  <1>2. CASE Pick(c) \/ NothingToDo(c) \/ \E s \in Seqs : TakeOutbox(c, s)
    <2>1. UNCHANGED dbVars /\ pc'[c] \in Waiting
      BY <1>2 DEF Pick, NothingToDo, TakeOutbox, GoTo, Waiting, TypeOK
    <2>2. \A d \in Convs : d # c => UNCHANGED <<pc[d], work[d]>>
      BY <1>2 DEF Pick, NothingToDo, TakeOutbox, GoTo, Hold, TypeOK
    <2>3. \A d \in Convs : SameWork(d)
      BY <1>1, <2>1, <2>2 DEF SameWork, dbVars
    <2>4. QED BY <1>1, <2>3, SameWorkKeeps DEF WorkInv, Alive
  <1>3. ASSUME NEW s \in Seqs, ApplyBinding(c, s) PROVE WorkInv'
    <2>1. /\ event[c][s] = "queued" /\ event'[c][s] = "completed" /\ pc'[c] = "idle"
          /\ UNCHANGED <<dataGen, privacy, outbox>>
      BY <1>3 DEF ApplyBinding, GoTo, TypeOK
    <2>2. \A d \in Convs, t \in Seqs : d # c \/ t # s => event'[d][t] = event[d][t]
      BY <1>3 DEF ApplyBinding, TypeOK
    <2>3. \A d \in Convs : d # c => UNCHANGED <<pc[d], work[d]>>
      BY <1>3 DEF ApplyBinding, GoTo, TypeOK
    <2>4. \A d \in Convs : SameWork(d)
      BY <1>1, <2>1, <2>2, <2>3 DEF SameWork, Waiting
    <2>5. QED BY <1>1, <2>4, SameWorkKeeps DEF WorkInv, Alive
  <1>4. ASSUME NEW s \in Seqs, BeginTurn(c, s) PROVE WorkInv'
    <2>1. /\ UNCHANGED <<dataGen, privacy, outbox>> /\ privacy[c] = "active"
          /\ event'[c][s] = "generating" /\ pc'[c] = "generating"
          /\ work'[c] = [seq |-> s, gen |-> dataGen[c]]
      BY <1>4 DEF BeginTurn, AtHead, GoTo, Hold, TypeOK
    <2>2. \A d \in Convs, t \in Seqs : d # c \/ t # s => event'[d][t] = event[d][t]
      BY <1>4 DEF BeginTurn, TypeOK
    <2>3. \A d \in Convs : d # c => UNCHANGED <<pc[d], work[d]>>
      BY <1>4 DEF BeginTurn, GoTo, Hold, TypeOK
    <2>4. \A d \in Convs : d # c => SameWork(d)
      BY <2>1, <2>2, <2>3 DEF SameWork
    <2>5. Alive => \A t \in Seqs : event[c][t] # "generating" /\ outbox[c][t] # "dispatching"
      BY <1>1 DEF Working, Alive, Waiting
    <2>6. Working(c)'
      BY <1>1, <2>1, <2>2, <2>5 DEF Working, Alive
    <2>7. QED BY <1>1, <2>4, <2>6, OneWork DEF Alive
  <1>5. QED BY <1>2, <1>3, <1>4 DEF NextWork

LEMMA WorkGenerate == ASSUME TypeOK, WorkInv, NEW c \in Convs, Generate(c) PROVE WorkInv'
  <1>s. PICK s \in Seqs : s = work[c].seq
    BY DEF TypeOK
  <1>1. /\ UNCHANGED <<host, dataGen, privacy>> /\ pc[c] = "generating" /\ pc'[c] \notin {"generating", "sending"}
        /\ \A d \in Convs : d # c => UNCHANGED <<pc[d], work[d], event[d], outbox[d]>>
    BY DEF Generate, SaveProposal, DropStale, EndGeneration, GoTo, TypeOK, dbVars
  <1>2. Working(c)
    BY DEF WorkInv
  <1>3. Alive => \A t \in Seqs : (event[c][t] = "generating" => t = s) /\ outbox[c][t] # "dispatching"
    BY <1>s, <1>1, <1>2 DEF Working, Alive
  <1>4. /\ event'[c][s] # "generating"
        /\ outbox'[c][s] = "dispatching" => outbox[c][s] = "dispatching"
        /\ \A t \in Seqs : t # s => UNCHANGED <<event[c][t], outbox[c][t]>>
    <2>1. CASE SaveProposal(c)
      BY <1>s, <2>1 DEF SaveProposal, TypeOK
    <2>2. CASE DropStale(c)
      BY <1>s, <1>2, <2>2 DEF DropStale, Working, Current, dbVars
    <2>3. ASSUME NEW outcome \in {"ignored", "failed"}, EndGeneration(c, outcome)
          PROVE  /\ event'[c][s] # "generating" /\ UNCHANGED outbox
                 /\ \A t \in Seqs : t # s => UNCHANGED event[c][t]
      BY <1>s, <2>3 DEF EndGeneration, TypeOK
    <2>4. QED BY <2>1, <2>2, <2>3 DEF Generate
  <1>5. Working(c)'
    BY <1>1, <1>3, <1>4 DEF Working, Alive
  <1>6. \A d \in Convs : d # c => SameWork(d)
    BY <1>1 DEF SameWork
  <1>7. QED BY <1>1, <1>5, <1>6, OneWork DEF Alive

LEMMA WorkSending ==
  ASSUME TypeOK, WorkInv, NEW c \in Convs, SenderNotReady(c) \/ Dispatch(c) \/ Finish(c)
  PROVE  WorkInv'
  <1>s. PICK s \in Seqs : s = work[c].seq
    BY DEF TypeOK
  <1>1. /\ UNCHANGED <<host, dataGen, privacy, work>> /\ Working(c)
        /\ \A d \in Convs : d # c => UNCHANGED <<pc[d], event[d], outbox[d]>>
    BY DEF SenderNotReady, Dispatch, BeginDispatch, DispatchRefused, Finish, FinishDelivery, CommitDelivery, GoTo,
           TypeOK, WorkInv, dbVars
  <1>2. \A d \in Convs : d # c => SameWork(d)
    BY <1>1 DEF SameWork
  <1>3. CASE SenderNotReady(c) \/ DispatchRefused(c)
    <2>1. SameWork(c)
      BY <1>1, <1>3 DEF SenderNotReady, DispatchRefused, GoTo, SameWork, Waiting, TypeOK, dbVars
    <2>2. QED BY <1>1, <1>2, <2>1, SameWorkKeeps DEF WorkInv, Alive
  <1>4. CASE BeginDispatch(c)
    <2>1. /\ pc[c] = "dispatch" /\ pc'[c] = "sending" /\ UNCHANGED event
          /\ outbox'[c][s] = "dispatching" /\ \A t \in Seqs : t # s => UNCHANGED outbox[c][t]
      BY <1>s, <1>4 DEF BeginDispatch, GoTo, TypeOK
    <2>2. Working(c)'
      BY <1>s, <1>1, <2>1 DEF Working
    <2>3. QED BY <1>1, <1>2, <2>2, OneWork DEF Alive
  <1>5. ASSUME NEW status \in {"accepted", "rejected", "unknown"}, FinishDelivery(c, status)
        PROVE  WorkInv'
    <2>1. /\ pc[c] = "sending" /\ pc'[c] = "idle" /\ outbox'[c][s] # "dispatching" /\ event'[c][s] # "generating"
          /\ \A t \in Seqs : t # s => UNCHANGED <<event[c][t], outbox[c][t]>>
      BY <1>s, <1>5 DEF FinishDelivery, CommitDelivery, SettledEvent, GoTo, TypeOK
    <2>2. Working(c)'
      BY <1>s, <1>1, <2>1 DEF Working
    <2>3. QED BY <1>1, <1>2, <2>2, OneWork DEF Alive
  <1>6. QED BY <1>3, <1>4, <1>5 DEF Dispatch, Finish

LEMMA WorkProcess ==
  ASSUME TypeOK, NoGhosts, WorkInv,
         \/ Fault \/ LoopEnds \/ Close \/ Reopen
         \/ \E c \in Convs : Platform(c)
  PROVE  WorkInv'
  <1>1. CASE LoopFails \/ BeginShutdown \/ LoopEnds \/ Close \/ \E c \in Convs : Platform(c)
    <2>1. UNCHANGED <<dbVars, pc, work>> /\ (Alive' => Alive)
      BY <1>1 DEF LoopFails, BeginShutdown, LoopEnds, Close, Platform, Land, processVars, Alive
    <2>2. QED BY <2>1, SameWorkKeeps DEF WorkInv, SameWork, dbVars
  <1>2. CASE Crash
    BY <1>2 DEF Crash, WorkInv, Working
  <1>3. ASSUME NEW c \in Convs, WorkerFails(c) PROVE WorkInv'
    <2>1. ~Alive' /\ UNCHANGED <<dbVars, work>> /\ pc'[c] = "idle" /\ \A d \in Convs : d # c => UNCHANGED pc[d]
      BY <1>3 DEF WorkerFails, GoTo, Alive, TypeOK
    <2>2. Working(c)'
      BY <2>1 DEF Working, Alive
    <2>3. QED BY <2>1, <2>2, OneWork DEF SameWork, dbVars
  <1>4. CASE Restart
    <2>1. /\ pc' = [c \in Convs |-> "idle"]
          /\ \A c \in Convs, s \in Seqs : event'[c][s] # "generating" /\ outbox'[c][s] # "dispatching"
      BY <1>4 DEF Restart, RecoveredEvent, RecoveredBox, NoGhosts, TypeOK
    <2>2. QED BY <2>1 DEF WorkInv, Working
  <1>5. ASSUME NEW c \in Convs, ReplayDeletion(c) PROVE WorkInv'
    <2>1. host' = "down" /\ \A d \in Convs : pc'[d] = "idle"
      BY <1>5 DEF ReplayDeletion, NoGhosts, processVars
    <2>2. QED BY <2>1 DEF WorkInv, Working
  <1>6. QED BY <1>1, <1>2, <1>3, <1>4, <1>5 DEF Fault, Reopen

LEMMA WorkStep == ASSUME TypeOK, NoGhosts, RowInv, WorkInv, [Next]_vars PROVE WorkInv'
  <1>1. CASE UNCHANGED vars
    BY <1>1, SameWorkKeeps DEF WorkInv, SameWork, Alive, vars, dbVars, processVars
  <1>2. CASE Next
    BY <1>2, WorkGateway, WorkOperator, WorkNextWork, WorkGenerate, WorkSending, WorkProcess DEF Next
  <1>3. QED BY <1>1, <1>2

-----------------------------------------------------------------------------
(* The theorems *)

LEMMA StoreInvInit == Init => StoreInv
  <1> SUFFICES ASSUME Init PROVE StoreInv
    OBVIOUS
  <1>1. \A c \in Convs, s \in Seqs :
          /\ privacy[c] = "absent" /\ dataGen[c] = 1 /\ nextSeq[c] = 1 /\ history[c] = {}
          /\ kind[c][s] = "none" /\ event[c][s] = "none" /\ source[c][s] = NoSource /\ card[c][s] = NoCharacter
          /\ turn[c][s] = "none" /\ outbox[c][s] = "none" /\ origin[c][s] = NoSource
          /\ deletion[c].gen = 1 /\ deletion[c].cutoff = 0 /\ erasedSources[c] = {} /\ pc[c] = "idle"
    BY DEF Init, PerSeq
  <1>2. \A c \in Convs, s \in Seqs : ~Owed(c) /\ ~(s <= deletion[c].cutoff)
    BY <1>1, SeqsAreNat DEF Owed
  <1>3. RowInv /\ CutoffInv
    BY <1>1, <1>2, FirstSeq
    DEF RowInv, CutoffInv, RowAgrees, Story, Tells, Told, Blank, Traced, Empty, Erased
  <1>4. OrderInv
    BY <1>1 DEF OrderInv, PairInv, Speaks, Begun
  <1>5. WorkInv
    BY <1>1, FirstSeq DEF WorkInv, Working
  <1>6. QED BY <1>3, <1>4, <1>5, DeliveryInvInit DEF StoreInv

LEMMA StoreInvStep == StoreInv /\ [Next]_vars => StoreInv'
  <1> SUFFICES ASSUME StoreInv, [Next]_vars PROVE StoreInv'
    OBVIOUS
  <1>1. DeliveryInv' /\ TypeOK /\ TypeOK' /\ NoGhosts /\ DeletionIsExact
    BY DeliveryInvStep DEF StoreInv, DeliveryInv
  <1>2. TablesInv'
    BY <1>1, TablesStep DEF StoreInv, TablesInv
  <1>3. WorkInv'
    BY <1>1, WorkStep DEF StoreInv
  <1>4. QED BY <1>1, <1>2, <1>3 DEF StoreInv, TablesInv

LEMMA StoreInvHolds == Spec => []StoreInv
  BY StoreInvInit, StoreInvStep, PTL DEF Spec

LEMMA TablesFollow == ASSUME StoreInv PROVE TablesAgree /\ HistoryIsDelivered
  <1>1. ASSUME NEW c \in Convs, NEW s \in Seqs PROVE Story(c, s) /\ Told(c, s)
    BY DEF StoreInv, RowInv, RowAgrees
  <1>2. TablesAgree
    <2> SUFFICES ASSUME NEW c \in Convs, NEW s \in Seqs
        PROVE  <<event[c][s], turn[c][s], outbox[c][s]>> \in Stories[kind[c][s]]
      BY DEF TablesAgree
    <2>1. CASE kind[c][s] = "none"
      BY <1>1, <2>1 DEF Story, Tells, Stories
    <2>2. CASE kind[c][s] = "binding"
      BY <1>1, <2>2 DEF Story, Tells, Stories
    <2>3. CASE kind[c][s] = "erased"
      BY <1>1, <2>3 DEF Story, Tells, Stories
    <2>4. CASE kind[c][s] = "message"
      BY <1>1, <2>4 DEF Story, Tells, Stories
    <2>5. QED BY <1>1, <2>1, <2>2, <2>3, <2>4 DEF Story, Tells
  <1>3. QED BY <1>1, <1>2 DEF HistoryIsDelivered, Told

LEMMA WorkersFollow == ASSUME StoreInv PROVE NothingAbandoned /\ WorkerFindsItsRow
  <1>1. ASSUME NEW c \in Convs PROVE Working(c) /\ work[c].gen \in Nat /\ dataGen[c] \in Nat
    BY DEF StoreInv, WorkInv, DeliveryInv, TypeOK
  <1>2. NothingAbandoned
    BY <1>1 DEF NothingAbandoned, Working
  <1>3. ASSUME NEW c \in Convs, pc[c] = "generating", Current(c) PROVE event[c][work[c].seq] = "generating"
    BY <1>1, <1>3 DEF Working, Current
  <1>4. QED BY <1>1, <1>2, <1>3 DEF WorkerFindsItsRow, Working

\* In every reachable state the events, turns, replies and history tell one story,
\* every unfinished generation or send has its worker or a host that must restart,
\* and a worker finds the row it left: for any number of conversations and events,
\* whatever crashes, erasures, reviews and restarts interleave.
THEOREM TablesAlwaysAgree == Spec => []StoreAgrees
  <1>1. StoreInv => StoreAgrees
    BY TablesFollow, WorkersFollow DEF StoreAgrees, StoreInv, DeliveryInv
  <1>2. QED BY <1>1, StoreInvHolds, PTL

\* What a deletion covers stays empty for good, no source id is admitted twice, and
\* a conversation starts anew only when its erased sends are settled.
THEOREM ErasedForGood == Spec => []NothingErasedReturns
  <1>1. ASSUME StoreInv PROVE ErasedStaysErased
    <2>1. SUFFICES ASSUME NEW c \in Convs, NEW s \in Seqs, ~Owed(c), s <= deletion[c].cutoff
          PROVE /\ source[c][s] = NoSource
                /\ card[c][s] = NoCharacter
                /\ <<"user", s>> \notin history[c] /\ <<"assistant", s>> \notin history[c]
                /\ event[c][s] \in {"none", "needs_review", "completed", "cancelled"}
                /\ outbox[c][s] # "pending"
      BY DEF ErasedStaysErased
    <2>2. Story(c, s) /\ Told(c, s) /\ Blank(c, s)
      BY <1>1 DEF StoreInv, RowInv, RowAgrees
    <2>3. Empty(c, s)
      BY <2>1, <2>2 DEF Blank
    <2>4. QED BY <2>2, <2>3 DEF Story, Tells, Told, Blank, Empty, Erased
  <1>2. ASSUME StoreInv PROVE AdmittedOnce
    BY <1>2 DEF AdmittedOnce, StoreInv, OrderInv, PairInv, RowInv, RowAgrees, Traced
  <1>3. ASSUME StoreInv PROVE ResumedClean
    BY <1>3 DEF ResumedClean, StoreInv, RowInv, RowAgrees, Blank
  <1>4. StoreInv => NothingErasedReturns
    BY <1>1, <1>2, <1>3 DEF NothingErasedReturns
  <1>5. QED BY <1>4, StoreInvHolds, PTL

\* Nothing begins behind an unfinished event, and a turn speaks as the character of
\* the last change before it.
THEOREM OrderKept == Spec => []OrderIsKept
  <1>1. ASSUME StoreInv PROVE InOrder
    BY <1>1 DEF InOrder, StoreInv, OrderInv, PairInv
  <1>2. ASSUME StoreInv PROVE CharacterInOrder
    <2>1. SUFFICES ASSUME NEW c \in Convs, NEW s \in Seqs, NEW t \in Seqs, s < t,
                          kind[c][t] = "message" /\ turn[c][t] # "none",
                          \/ kind[c][s] = "binding"
                          \/ kind[c][s] = "message" /\ turn[c][s] # "none",
                          \A m \in (s + 1)..(t - 1) : kind[c][m] # "binding"
          PROVE card[c][t] = card[c][s]
      BY DEF CharacterInOrder
    <2>2. ~Between(c, s, t)
      BY <2>1, SeqsAreNat DEF Between
    <2>3. QED BY <1>2, <2>1, <2>2 DEF StoreInv, OrderInv, PairInv
  <1>3. StoreInv => OrderIsKept
    BY <1>1, <1>2 DEF OrderIsKept
  <1>4. QED BY <1>3, StoreInvHolds, PTL

\* The only step that hands anything to the platform is the start of a dispatch.
LEMMA OnlyDispatchSends ==
  ASSUME TypeOK, [Next]_vars, NEW c \in Convs, NEW s \in Seqs, ~(flying'[c][s] \subseteq flying[c][s])
  PROVE  BeginDispatch(c) /\ s = work[c].seq
  <1>1. CASE UNCHANGED flying
    BY <1>1
  <1>2. ASSUME NEW d \in Convs, BeginDispatch(d) PROVE BeginDispatch(c) /\ s = work[c].seq
    BY <1>2 DEF BeginDispatch, TypeOK
  <1>3. ASSUME NEW d \in Convs, Finish(d) \/ Platform(d) PROVE FALSE
    <2>1. PICK t \in Seqs, gone \in SUBSET Nat : flying' = [flying EXCEPT ![d][t] = @ \ gone]
      <3>1. ASSUME NEW status, FinishDelivery(d, status)
            PROVE  flying' = [flying EXCEPT ![d][work[d].seq] =
                                @ \ (IF status = "rejected" THEN {attempts[d][work[d].seq]} ELSE {})]
        BY <3>1 DEF FinishDelivery
      <3>2. ASSUME NEW t \in Seqs, NEW a \in flying[d][t], Land(d, t, a) PROVE flying' = [flying EXCEPT ![d][t] = @ \ {a}]
        BY <3>2 DEF Land
      <3>3. work[d].seq \in Seqs /\ \A t \in Seqs : attempts[d][t] \in Nat /\ flying[d][t] \subseteq Nat
        BY DEF TypeOK
      <3>4. CASE Finish(d)
        <4>1. PICK status \in {"accepted", "rejected", "unknown"} : FinishDelivery(d, status)
          BY <3>4 DEF Finish
        <4>2. (IF status = "rejected" THEN {attempts[d][work[d].seq]} ELSE {}) \in SUBSET Nat
          BY <3>3
        <4>3. QED BY <3>1, <3>3, <4>1, <4>2
      <3>5. CASE Platform(d)
        <4>1. PICK t \in Seqs : \E a \in flying[d][t] : Land(d, t, a)
          BY <3>5 DEF Platform
        <4>2. PICK a \in flying[d][t] : Land(d, t, a)
          BY <4>1
        <4>3. {a} \in SUBSET Nat
          BY <3>3
        <4>4. QED BY <3>2, <4>2, <4>3
      <3>6. QED BY <1>3, <3>4, <3>5
    <2>2. QED BY <2>1 DEF TypeOK
  <1>4. ASSUME NEW d \in Convs, Gateway(d) \/ Operator(d) PROVE UNCHANGED flying
    BY <1>4
    DEF Gateway, Admit, SuppressIncoming, InsertEvent, Operator, EnqueueBinding, ConfirmSent, Retry, Discard,
        EraseConversation, EraseHalfDone, EraseUnrecorded, ResumeConversation, platformVars
  <1>5. ASSUME NEW d \in Convs,
               Pick(d) \/ NextWork(d) \/ Generate(d) \/ SenderNotReady(d) \/ DispatchRefused(d) \/ WorkerFails(d)
        PROVE UNCHANGED flying
    BY <1>5
    DEF Pick, NextWork, NothingToDo, ApplyBinding, BeginTurn, TakeOutbox, Generate, SaveProposal, DropStale,
        EndGeneration, SenderNotReady, DispatchRefused, WorkerFails, platformVars
  <1>6. CASE UNCHANGED vars \/ Crash \/ LoopFails \/ LoopEnds \/ BeginShutdown \/ Close \/ Reopen
    BY <1>6
    DEF Crash, LoopFails, LoopEnds, BeginShutdown, Close, Reopen, Restart, ReplayDeletion, vars, platformVars
  <1>7. QED BY <1>1, <1>2, <1>3, <1>4, <1>5, <1>6 DEF Next, Fault, Dispatch

LEMMA DispatchAfterCutoff ==
  ASSUME StoreInv, NEW c \in Convs, BeginDispatch(c)
  PROVE  work[c].seq > deletion[c].cutoff
  <1>s. PICK s \in Seqs : s = work[c].seq
    BY DEF StoreInv, DeliveryInv, TypeOK
  <1>1. outbox[c][s] = "pending" /\ ~Erased(c, s) /\ StoreUp
    BY <1>s DEF BeginDispatch, Dispatchable
  <1>2. Story(c, s) /\ Blank(c, s)
    BY DEF StoreInv, RowInv, RowAgrees
  <1>3. ~Empty(c, s)
    BY <1>1, <1>2 DEF Story, Tells, Empty, Erased
  <1>4. ~Owed(c)
    BY <1>1 DEF StoreInv, DeliveryInv, DeletionIsExact, Frozen, StoreUp
  <1>5. ~(s <= deletion[c].cutoff)
    BY <1>2, <1>3, <1>4 DEF Blank
  <1>6. s \in Nat /\ deletion[c].cutoff \in Nat
    BY SeqsAreNat, BoundsAreNat DEF StoreInv, DeliveryInv, TypeOK, DeletionRecord
  <1>7. QED BY <1>s, <1>5, <1>6

\* A worker that leaves its generation after an erasure leaves the tables alone.
LEMMA StaleIsSilent ==
  ASSUME StoreInv, [Next]_vars, NEW c \in Convs, pc[c] = "generating", ~Current(c), pc'[c] # pc[c]
  PROVE  UNCHANGED <<event[c], turn[c], outbox[c], history[c]>>
  <1>0. TypeOK /\ Working(c)
    BY DEF StoreInv, DeliveryInv, WorkInv
  <1>1. CASE UNCHANGED pc
    BY <1>1
  <1>2. ASSUME NEW d \in Convs, d # c, UNCHANGED pc[c] PROVE FALSE
    BY <1>2
  <1>3. ASSUME NEW d \in Convs, Gateway(d) \/ Operator(d) PROVE UNCHANGED pc
    BY <1>3
    DEF Gateway, Admit, SuppressIncoming, InsertEvent, Operator, EnqueueBinding, ConfirmSent, Retry, Discard,
        EraseConversation, EraseHalfDone, EraseUnrecorded, ResumeConversation, processVars
  <1>4. ASSUME NEW d \in Convs,
               Pick(d) \/ NextWork(d) \/ SenderNotReady(d) \/ Dispatch(d) \/ Finish(d) \/ Platform(d)
        PROVE FALSE
    BY <1>0, <1>4
    DEF Pick, NextWork, NothingToDo, ApplyBinding, BeginTurn, TakeOutbox, AtHead, Starting, SenderNotReady,
        Dispatch, BeginDispatch, DispatchRefused, Finish, FinishDelivery, Platform, Land, GoTo, processVars, TypeOK
  <1>5. ASSUME NEW d \in Convs, SaveProposal(d) PROVE FALSE
    BY <1>0, <1>5 DEF SaveProposal, GoTo, TypeOK
  <1>6. ASSUME NEW d \in Convs, DropStale(d) \/ WorkerFails(d) PROVE UNCHANGED dbVars
    BY <1>6 DEF DropStale, WorkerFails
  <1>7. ASSUME NEW d \in Convs, NEW outcome \in {"ignored", "failed"}, EndGeneration(d, outcome)
        PROVE UNCHANGED <<event[c], turn[c], outbox[c], history[c]>>
    <2>1. d = c
      BY <1>0, <1>7 DEF EndGeneration, GoTo, TypeOK
    <2>2. event[c][work[c].seq] # "generating"
      BY <1>0 DEF Working, Current
    <2>3. turn[c][work[c].seq] # "generating"
      BY <1>0, <2>2 DEF TypeOK, StoreInv, RowInv, RowAgrees, Story, Tells
    <2>4. QED BY <1>0, <1>7, <2>1, <2>2, <2>3 DEF EndGeneration, TypeOK
  <1>8. CASE UNCHANGED vars \/ LoopFails \/ LoopEnds \/ BeginShutdown \/ Close \/ Reopen
    BY <1>8
    DEF LoopFails, LoopEnds, BeginShutdown, Close, Reopen, Restart, ReplayDeletion, vars, processVars
  <1>9. CASE Crash
    BY <1>9 DEF Crash, dbVars
  <1>10. QED
    BY <1>1, <1>3, <1>4, <1>5, <1>6, <1>7, <1>8, <1>9 DEF Next, Fault, Generate, dbVars

\* From the journal entry of an erasure on, nothing it covers is handed to the
\* platform, and a worker it overtook writes nothing.
THEOREM ErasureBinds == Spec => ErasureHolds
  <1>1. ASSUME StoreInv, [Next]_vars
        PROVE  [\A c \in Convs, s \in Seqs :
                  ~(flying'[c][s] \subseteq flying[c][s]) => s > deletion[c].cutoff]_vars
    <2>1. TypeOK
      BY <1>1 DEF StoreInv, DeliveryInv
    <2>2. QED BY <1>1, <2>1, OnlyDispatchSends, DispatchAfterCutoff
  <1>2. ASSUME StoreInv, [Next]_vars
        PROVE  [\A c \in Convs :
                  pc[c] = "generating" /\ ~Current(c) /\ pc'[c] # pc[c] =>
                    UNCHANGED <<event[c], turn[c], outbox[c], history[c]>>]_vars
    BY <1>1, <1>2, StaleIsSilent
  <1>3. Spec => NoSendAfterDeletion
    BY <1>1, StoreInvHolds, PTL DEF Spec, NoSendAfterDeletion
  <1>4. Spec => StaleWorkerIsSilent
    BY <1>2, StoreInvHolds, PTL DEF Spec, StaleWorkerIsSilent
  <1>5. QED BY <1>3, <1>4 DEF ErasureHolds

-----------------------------------------------------------------------------
(* RuntimeStore implements DeliveryPromise: each step of the tables, the workers *)
(* and the platform is a step of the promise about one reply, the loss of track  *)
(* of several at a restart, the erasure of a conversation's replies, or none     *)
(* that concerns delivery.  First the refinement mapping, reply by reply.        *)

LEMMA ReplyPairs ==
  /\ \A r \in Replies : r[1] \in Convs /\ r[2] \in Seqs /\ r = <<r[1], r[2]>>
  /\ \A c \in Convs, s \in Seqs : <<c, s>> \in Replies
  BY DEF Replies

\* What the promise reads of one reply.
PhaseSame(d, t) == Phase(d, t)' = Phase(d, t) /\ (Erased(d, t)' <=> Erased(d, t))

LEMMA SamePhase ==
  ASSUME NEW d, NEW t, UNCHANGED <<kind[d][t], outbox[d][t], nextSeq[d]>>
  PROVE  PhaseSame(d, t)
  BY DEF PhaseSame, Phase, Erased

LEMMA MapsTo ==
  ASSUME NEW c \in Convs, NEW s \in Seqs
  PROVE  /\ <<c, s>> \in Replies
         /\ phaseBar[<<c, s>>] = Phase(c, s) /\ permitsBar[<<c, s>>] = 1 + acks[c][s]
         /\ flyingBar[<<c, s>>] = flying[c][s] /\ landedBar[<<c, s>>] = landed[c][s]
         /\ <<c, s>> \in sealedBar <=> Erased(c, s)
  BY ReplyPairs DEF phaseBar, permitsBar, flyingBar, landedBar, sealedBar

LEMMA PhaseMoved ==
  ASSUME NEW c \in Convs, NEW s \in Seqs,
         \A d \in Convs, t \in Seqs : d # c \/ t # s => Phase(d, t)' = Phase(d, t)
  PROVE  phaseBar' = [phaseBar EXCEPT ![<<c, s>>] = Phase(c, s)']
  <1>1. ASSUME NEW r \in Replies, r # <<c, s>> PROVE Phase(r[1], r[2])' = Phase(r[1], r[2])
    BY <1>1, ReplyPairs
  <1>2. QED BY <1>1, ReplyPairs DEF phaseBar

LEMMA FlyingMoved ==
  ASSUME NEW c \in Convs, NEW s \in Seqs,
         \A d \in Convs, t \in Seqs : d # c \/ t # s => flying'[d][t] = flying[d][t]
  PROVE  flyingBar' = [flyingBar EXCEPT ![<<c, s>>] = flying'[c][s]]
  <1>1. ASSUME NEW r \in Replies, r # <<c, s>> PROVE flying'[r[1]][r[2]] = flying[r[1]][r[2]]
    BY <1>1, ReplyPairs
  <1>2. ASSUME NEW r \in Replies, r = <<c, s>> PROVE flying'[r[1]][r[2]] = flying'[c][s]
    BY <1>2
  <1>3. QED BY <1>1, <1>2 DEF flyingBar

LEMMA LandedMoved ==
  ASSUME NEW c \in Convs, NEW s \in Seqs,
         \A d \in Convs, t \in Seqs : d # c \/ t # s => landed'[d][t] = landed[d][t]
  PROVE  landedBar' = [landedBar EXCEPT ![<<c, s>>] = landed'[c][s]]
  <1>1. ASSUME NEW r \in Replies, r # <<c, s>> PROVE landed'[r[1]][r[2]] = landed[r[1]][r[2]]
    BY <1>1, ReplyPairs
  <1>2. ASSUME NEW r \in Replies, r = <<c, s>> PROVE landed'[r[1]][r[2]] = landed'[c][s]
    BY <1>2
  <1>3. QED BY <1>1, <1>2 DEF landedBar

LEMMA PermitsMoved ==
  ASSUME NEW c \in Convs, NEW s \in Seqs,
         \A d \in Convs, t \in Seqs : d # c \/ t # s => acks'[d][t] = acks[d][t]
  PROVE  permitsBar' = [permitsBar EXCEPT ![<<c, s>>] = 1 + acks'[c][s]]
  <1>1. ASSUME NEW r \in Replies, r # <<c, s>> PROVE acks'[r[1]][r[2]] = acks[r[1]][r[2]]
    BY <1>1, ReplyPairs
  <1>2. ASSUME NEW r \in Replies, r = <<c, s>> PROVE acks'[r[1]][r[2]] = acks'[c][s]
    BY <1>2
  <1>3. QED BY <1>1, <1>2 DEF permitsBar

LEMMA SealedSame ==
  ASSUME \A d \in Convs, t \in Seqs : Erased(d, t)' <=> Erased(d, t)
  PROVE  UNCHANGED sealedBar
  BY ReplyPairs DEF sealedBar

LEMMA PhasesSame ==
  ASSUME \A d \in Convs, t \in Seqs : PhaseSame(d, t)
  PROVE  UNCHANGED <<phaseBar, sealedBar>>
  <1>1. UNCHANGED sealedBar
    BY SealedSame DEF PhaseSame
  <1>2. QED BY <1>1, ReplyPairs DEF phaseBar, PhaseSame

LEMMA CountsSame ==
  /\ UNCHANGED acks => UNCHANGED permitsBar
  /\ UNCHANGED flying => UNCHANGED flyingBar
  /\ UNCHANGED landed => UNCHANGED landedBar
  BY DEF permitsBar, flyingBar, landedBar

\* A step that concerns no delivery.
LEMMA Unconcerned ==
  ASSUME \A d \in Convs, t \in Seqs : PhaseSame(d, t), UNCHANGED <<acks, flying, landed>>
  PROVE  UNCHANGED Promise!vars
  BY PhasesSame, CountsSame DEF Promise!vars

-----------------------------------------------------------------------------
(* The steps that move one reply *)

\* Only the outbox row of one reply moves, and no content is erased.
LEMMA OneMoves ==
  ASSUME NEW c \in Convs, NEW s \in Seqs, UNCHANGED <<kind, nextSeq>>,
         \A d \in Convs, t \in Seqs : d # c \/ t # s => outbox'[d][t] = outbox[d][t]
  PROVE  UNCHANGED sealedBar /\ phaseBar' = [phaseBar EXCEPT ![<<c, s>>] = Phase(c, s)']
  <1>1. \A d \in Convs, t \in Seqs : d # c \/ t # s => PhaseSame(d, t)
    BY SamePhase
  <1>2. UNCHANGED sealedBar
    BY SealedSame DEF Erased
  <1>3. \A d \in Convs, t \in Seqs : d # c \/ t # s => Phase(d, t)' = Phase(d, t)
    BY <1>1 DEF PhaseSame
  <1>4. QED BY <1>2, <1>3, PhaseMoved

LEMMA OfferStep == ASSUME StoreInv, NEW c \in Convs, SaveProposal(c) PROVE Promise!Next
  <1>s. PICK s \in Seqs : s = work[c].seq
    BY DEF StoreInv, DeliveryInv, TypeOK
  <1>1. kind[c][s] = "message" /\ outbox[c][s] = "none"
    BY <1>s DEF SaveProposal, StoreInv, RowInv, RowAgrees, Story, Tells
  <1>2. /\ outbox'[c][s] = "pending" /\ UNCHANGED <<kind, nextSeq, acks, flying, landed>>
        /\ \A d \in Convs, t \in Seqs : d # c \/ t # s => outbox'[d][t] = outbox[d][t]
    BY <1>s DEF SaveProposal, StoreInv, DeliveryInv, TypeOK, platformVars, recordVars
  <1>3. Phase(c, s) = "unsent" /\ Phase(c, s)' = "ready"
    BY <1>1, <1>2 DEF Phase
  <1>4. UNCHANGED sealedBar /\ phaseBar' = [phaseBar EXCEPT ![<<c, s>>] = "ready"]
    BY <1>2, <1>3, OneMoves
  <1>5. Promise!Offer(<<c, s>>)
    BY <1>2, <1>3, <1>4, MapsTo, CountsSame DEF Promise!Offer, Promise!Move
  <1>6. QED BY <1>5, ReplyPairs DEF Promise!Next

LEMMA SendStep == ASSUME StoreInv, NEW c \in Convs, BeginDispatch(c) PROVE Promise!Next
  <1>s. PICK s \in Seqs : s = work[c].seq
    BY DEF StoreInv, DeliveryInv, TypeOK
  <1>1. outbox[c][s] = "pending" /\ ~Erased(c, s)
    BY <1>s DEF BeginDispatch, Dispatchable
  <1>p. RowPermits(c, s) /\ Story(c, s) /\ acks[c][s] \in Nat
    BY DEF StoreInv, DeliveryInv, TypeOK, PermitInv, RowInv, RowAgrees
  <1>2. kind[c][s] = "message" /\ attempts[c][s] = acks[c][s]
    BY <1>1, <1>p DEF RowPermits, Story, Tells, Erased
  <1>3. /\ outbox'[c][s] = "dispatching" /\ UNCHANGED <<kind, nextSeq, acks, landed>>
        /\ \A d \in Convs, t \in Seqs : d # c \/ t # s => outbox'[d][t] = outbox[d][t]
        /\ \A d \in Convs, t \in Seqs : d # c \/ t # s => flying'[d][t] = flying[d][t]
        /\ flying'[c][s] = flying[c][s] \cup {1 + acks[c][s]}
    BY <1>s, <1>p, <1>2 DEF BeginDispatch, StoreInv, DeliveryInv, TypeOK, recordVars
  <1>4. Phase(c, s) = "ready" /\ Phase(c, s)' = "sending"
    BY <1>1, <1>2, <1>3 DEF Phase
  <1>5. flyingBar' = [flyingBar EXCEPT ![<<c, s>>] = flyingBar[<<c, s>>] \cup {permitsBar[<<c, s>>]}]
    BY <1>3, FlyingMoved, MapsTo
  <1>6. UNCHANGED sealedBar /\ phaseBar' = [phaseBar EXCEPT ![<<c, s>>] = "sending"]
    BY <1>3, <1>4, OneMoves
  <1>7. Promise!Send(<<c, s>>)
    BY <1>1, <1>3, <1>4, <1>5, <1>6, MapsTo, CountsSame DEF Promise!Send, Promise!Move
  <1>8. QED BY <1>7, ReplyPairs DEF Promise!Next

LEMMA LandStep == ASSUME StoreInv, NEW c \in Convs, Platform(c) PROVE Promise!Next
  <1>1. PICK s \in Seqs : \E a \in flying[c][s] : Land(c, s, a)
    BY DEF Platform
  <1>2. PICK a \in flying[c][s] : Land(c, s, a)
    BY <1>1
  <1>3. /\ UNCHANGED <<kind, nextSeq, acks, outbox>>
        /\ flying'[c][s] = flying[c][s] \ {a} /\ landed'[c][s] = landed[c][s] \cup {a}
        /\ \A d \in Convs, t \in Seqs : d # c \/ t # s => flying'[d][t] = flying[d][t]
        /\ \A d \in Convs, t \in Seqs : d # c \/ t # s => landed'[d][t] = landed[d][t]
    BY <1>2 DEF Land, StoreInv, DeliveryInv, TypeOK, dbVars, recordVars
  <1>f. flyingBar' = [flyingBar EXCEPT ![<<c, s>>] = flyingBar[<<c, s>>] \ {a}]
    <2>1. flyingBar' = [flyingBar EXCEPT ![<<c, s>>] = flying'[c][s]]
      BY <1>3, FlyingMoved
    <2>2. QED BY <1>3, <2>1, MapsTo
  <1>4. landedBar' = [landedBar EXCEPT ![<<c, s>>] = landedBar[<<c, s>>] \cup {a}]
    <2>1. landedBar' = [landedBar EXCEPT ![<<c, s>>] = landed'[c][s]]
      BY <1>3, LandedMoved
    <2>2. QED BY <1>3, <2>1, MapsTo
  <1>p. \A d \in Convs, t \in Seqs : PhaseSame(d, t)
    <2>1. ASSUME NEW d \in Convs, NEW t \in Seqs PROVE UNCHANGED <<kind[d][t], outbox[d][t], nextSeq[d]>>
      BY <1>3
    <2>2. QED BY <2>1, SamePhase
  <1>5. UNCHANGED <<phaseBar, sealedBar, permitsBar>>
    BY <1>3, <1>p, PhasesSame, CountsSame
  <1>6. Promise!Land(<<c, s>>)
    BY <1>f, <1>4, <1>5, MapsTo DEF Promise!Land
  <1>7. QED BY <1>6, ReplyPairs DEF Promise!Next

LEMMA FinishStep ==
  ASSUME StoreInv, NEW c \in Convs, NEW status \in {"accepted", "rejected", "unknown"},
         FinishDelivery(c, status)
  PROVE  Promise!Next
  <1>1. PICK s \in Seqs : s = work[c].seq
    BY DEF StoreInv, DeliveryInv, TypeOK
  <1>2. RowPermits(c, s) /\ Story(c, s) /\ acks[c][s] \in Nat
    BY DEF StoreInv, DeliveryInv, TypeOK, PermitInv, RowInv, RowAgrees
  <1>3. outbox[c][s] = "dispatching" /\ Observed(c, s, status)
    BY <1>1 DEF FinishDelivery
  <1>4. kind[c][s] # "none" /\ attempts[c][s] = 1 + acks[c][s]
    BY <1>2, <1>3 DEF RowPermits, Story, Tells
  <1>5. /\ outbox'[c][s] = status /\ UNCHANGED <<kind, nextSeq, acks, landed>>
        /\ \A d \in Convs, t \in Seqs : d # c \/ t # s => outbox'[d][t] = outbox[d][t]
        /\ \A d \in Convs, t \in Seqs : d # c \/ t # s => flying'[d][t] = flying[d][t]
        /\ flying'[c][s] = IF status = "rejected" THEN flying[c][s] \ {1 + acks[c][s]} ELSE flying[c][s]
    BY <1>1, <1>4 DEF FinishDelivery, CommitDelivery, StoreInv, DeliveryInv, TypeOK, recordVars
  <1>6. Phase(c, s) = "sending"
    BY <1>3, <1>4 DEF Phase
  <1>7. UNCHANGED <<sealedBar, permitsBar, landedBar>> /\ phaseBar' = [phaseBar EXCEPT ![<<c, s>>] = Phase(c, s)']
    BY <1>5, OneMoves, CountsSame
  <1>8. status # "rejected" => UNCHANGED flyingBar
    <2>1. ASSUME status # "rejected" PROVE \A d \in Convs, t \in Seqs : flying'[d][t] = flying[d][t]
      BY <1>5, <2>1
    <2>2. QED BY <2>1, ReplyPairs DEF flyingBar
  <1>9. CASE status = "accepted"
    <2>1. Phase(c, s)' = "delivered" /\ 1 + acks[c][s] \in landed[c][s]
      BY <1>3, <1>4, <1>5, <1>9 DEF Phase, Observed
    <2>2. Promise!Deliver(<<c, s>>)
      BY <1>6, <1>7, <1>8, <1>9, <2>1, MapsTo DEF Promise!Deliver, Promise!Move
    <2>3. QED BY <2>2, ReplyPairs DEF Promise!Next
  <1>10. CASE status = "rejected"
    <2>1. Phase(c, s)' = (IF Erased(c, s) THEN "dropped" ELSE "doubt") /\ 1 + acks[c][s] \in flying[c][s]
      BY <1>3, <1>4, <1>5, <1>10 DEF Phase, Observed, Erased
    <2>2. flyingBar' = [flyingBar EXCEPT ![<<c, s>>] = flyingBar[<<c, s>>] \ {permitsBar[<<c, s>>]}]
      <3>1. flyingBar' = [flyingBar EXCEPT ![<<c, s>>] = flying'[c][s]]
        BY <1>5, FlyingMoved
      <3>2. QED BY <1>5, <1>10, <3>1, MapsTo
    <2>3. Promise!Reject(<<c, s>>)
      BY <1>6, <1>7, <2>1, <2>2, MapsTo DEF Promise!Reject, Promise!Move
    <2>4. QED BY <2>3, ReplyPairs DEF Promise!Next
  <1>11. CASE status = "unknown"
    <2>1. Phase(c, s)' = "doubt"
      BY <1>4, <1>5, <1>11 DEF Phase
    <2>2. \A r \in Replies : phaseBar'[r] # phaseBar[r] => phaseBar[r] = "sending" /\ phaseBar'[r] = "doubt"
      <3>1. phaseBar = [r \in Replies |-> phaseBar[r]]
        BY DEF phaseBar
      <3>2. QED BY <1>6, <1>7, <2>1, <3>1, MapsTo
    <2>3. Promise!LoseTrack
      BY <1>7, <1>8, <1>11, <2>2 DEF Promise!LoseTrack
    <2>4. QED BY <2>3 DEF Promise!Next
  <1>12. QED BY <1>9, <1>10, <1>11

LEMMA ReviewStep ==
  ASSUME StoreInv, NEW c \in Convs, NEW s \in Seqs, ConfirmSent(c, s) \/ Retry(c, s) \/ Discard(c, s)
  PROVE  Promise!Next \/ UNCHANGED Promise!vars
  <1>1. outbox[c][s] \in {"unknown", "rejected"} /\ kind[c][s] # "none"
    <2>1. outbox[c][s] \in {"unknown", "rejected"}
      BY DEF ConfirmSent, Retry, MayRetry, Discard, Reviewable
    <2>2. Story(c, s)
      BY DEF StoreInv, RowInv, RowAgrees
    <2>3. QED BY <2>1, <2>2 DEF Story, Tells
  <1>2. /\ UNCHANGED <<kind, nextSeq, flying, landed>>
        /\ \A d \in Convs, t \in Seqs : d # c \/ t # s => outbox'[d][t] = outbox[d][t]
    BY DEF ConfirmSent, CommitDelivery, Retry, Discard, StoreInv, DeliveryInv, TypeOK, platformVars
  <1>3. UNCHANGED <<sealedBar, flyingBar, landedBar>> /\ phaseBar' = [phaseBar EXCEPT ![<<c, s>>] = Phase(c, s)']
    BY <1>2, OneMoves, CountsSame
  <1>4. CASE ConfirmSent(c, s)
    <2>1. outbox[c][s] = "unknown" /\ outbox'[c][s] = "accepted" /\ UNCHANGED acks
      BY <1>4 DEF ConfirmSent, CommitDelivery, StoreInv, DeliveryInv, TypeOK, recordVars
    <2>2. Phase(c, s) = "doubt" /\ Phase(c, s)' = "delivered"
      BY <1>1, <1>2, <2>1 DEF Phase
    <2>3. Promise!Confirm(<<c, s>>)
      BY <1>3, <2>1, <2>2, MapsTo, CountsSame DEF Promise!Confirm, Promise!Move
    <2>4. QED BY <2>3, ReplyPairs DEF Promise!Next
  <1>5. CASE Retry(c, s)
    <2>1. /\ ~Erased(c, s) /\ outbox'[c][s] = "pending" /\ acks'[c][s] = acks[c][s] + 1
          /\ acks[c][s] \in Nat
          /\ \A d \in Convs, t \in Seqs : d # c \/ t # s => acks'[d][t] = acks[d][t]
      BY <1>5 DEF Retry, MayRetry, StoreInv, DeliveryInv, TypeOK
    <2>2. Phase(c, s) = "doubt" /\ Phase(c, s)' = "ready"
      BY <1>1, <1>2, <2>1 DEF Phase
    <2>3. permitsBar' = [permitsBar EXCEPT ![<<c, s>>] = permitsBar[<<c, s>>] + 1]
      <3>1. permitsBar' = [permitsBar EXCEPT ![<<c, s>>] = 1 + acks'[c][s]]
        BY <2>1, PermitsMoved
      <3>2. 1 + acks'[c][s] = permitsBar[<<c, s>>] + 1
        BY <2>1, MapsTo
      <3>3. QED BY <3>1, <3>2
    <2>4. Promise!Grant(<<c, s>>)
      BY <1>3, <2>1, <2>2, <2>3, MapsTo DEF Promise!Grant, Promise!Move
    <2>5. QED BY <2>4, ReplyPairs DEF Promise!Next
  <1>6. CASE Discard(c, s)
    <2>1. outbox'[c][s] = "cancelled" /\ UNCHANGED acks
      BY <1>6 DEF Discard, StoreInv, DeliveryInv, TypeOK, recordVars
    <2>2. Phase(c, s)' = "dropped"
      BY <1>1, <1>2, <2>1 DEF Phase
    <2>3. CASE Phase(c, s) = "doubt"
      <3>1. Promise!GiveUp(<<c, s>>)
        BY <1>3, <2>1, <2>2, <2>3, MapsTo, CountsSame DEF Promise!GiveUp, Promise!Move
      <3>2. QED BY <3>1, ReplyPairs DEF Promise!Next
    <2>4. CASE Phase(c, s) = "dropped"
      <3>1. phaseBar' = phaseBar
        <4>1. phaseBar = [r \in Replies |-> phaseBar[r]]
          BY DEF phaseBar
        <4>2. QED BY <1>3, <2>2, <2>4, <4>1, MapsTo
      <3>2. QED BY <1>3, <2>1, <3>1, CountsSame DEF Promise!vars
    <2>5. Phase(c, s) \in {"doubt", "dropped"}
      BY <1>1 DEF Phase
    <2>6. QED BY <2>3, <2>4, <2>5
  <1>7. QED BY <1>4, <1>5, <1>6

-----------------------------------------------------------------------------
(* The steps that move several replies *)

\* A restart doubts the sends it finds interrupted.
LEMMA RestartStep == ASSUME StoreInv, Restart PROVE Promise!LoseTrack
  <1>1. UNCHANGED <<kind, nextSeq, acks, flying, landed>>
    BY DEF Restart, platformVars, recordVars
  <1>2. UNCHANGED <<sealedBar, permitsBar, flyingBar, landedBar>>
    BY <1>1, SealedSame, CountsSame DEF Erased
  <1>3. ASSUME NEW c \in Convs, NEW s \in Seqs, Phase(c, s)' # Phase(c, s)
        PROVE  Phase(c, s) = "sending" /\ Phase(c, s)' = "doubt"
    <2>1. outbox'[c][s] = RecoveredBox(outbox[c][s])
      BY DEF Restart
    <2>2. outbox[c][s] = "dispatching" /\ outbox'[c][s] = "unknown"
      <3>1. outbox'[c][s] = outbox[c][s] => PhaseSame(c, s)
        BY <1>1, SamePhase
      <3>2. QED BY <1>3, <2>1, <3>1 DEF PhaseSame, RecoveredBox
    <2>3. kind[c][s] # "none"
      BY <2>2 DEF StoreInv, RowInv, RowAgrees, Story, Tells
    <2>4. QED BY <1>1, <2>2, <2>3 DEF Phase
  <1>4. ASSUME NEW r \in Replies, phaseBar'[r] # phaseBar[r]
        PROVE  phaseBar[r] = "sending" /\ phaseBar'[r] = "doubt"
    <2>1. phaseBar[r] = Phase(r[1], r[2]) /\ phaseBar'[r] = Phase(r[1], r[2])'
      BY DEF phaseBar
    <2>2. QED BY <1>3, <1>4, <2>1, ReplyPairs
  <1>5. QED BY <1>2, <1>4 DEF Promise!LoseTrack

\* An erasure forgets the replies of a conversation, except those that may be on their way.
LEMMA EraseStep ==
  ASSUME StoreInv, NEW c \in Convs, ApplyErasure(c, NewDeletion(c)), UNCHANGED <<acks, flying, landed>>
  PROVE  Promise!Erase
  <1>1. ASSUME NEW d \in Convs, NEW t \in Seqs, d # c PROVE PhaseSame(d, t)
    <2>1. UNCHANGED <<kind[d][t], outbox[d][t], nextSeq[d]>>
      BY <1>1 DEF ApplyErasure, StoreInv, DeliveryInv, TypeOK
    <2>2. QED BY <2>1, SamePhase
  <1>2. nextSeq'[c] = nextSeq[c]
    BY BoundsAreNat DEF ApplyErasure, NewDeletion, StoreInv, DeliveryInv, TypeOK
  <1>3. ASSUME NEW t \in Seqs
        PROVE  /\ PendingSend(c, t) => kind'[c][t] = "erased" /\ outbox'[c][t] = outbox[c][t]
               /\ ~PendingSend(c, t) => kind'[c][t] = "none" /\ outbox'[c][t] = "none"
    BY DEF ApplyErasure, NewDeletion, Kept, PendingSend, StoreInv, DeliveryInv, TypeOK
  <1>4. ASSUME NEW t \in Seqs
        PROVE  /\ Phase(c, t)' # Phase(c, t) => Phase(c, t) # "sending" /\ Phase(c, t)' = "gone"
               /\ Erased(c, t) /\ ~Erased(c, t)' => Phase(c, t)' = "gone"
               /\ Erased(c, t)' => Phase(c, t) \in {"sending", "doubt"}
    <2>1. Story(c, t) /\ (t >= nextSeq[c] => kind[c][t] = "none") /\ t \in Nat /\ nextSeq[c] \in Nat
      BY SeqsAreNat DEF StoreInv, DeliveryInv, TypeOK, RowInv, RowAgrees, Blank
    <2>2. CASE PendingSend(c, t)
      <3>1. kind[c][t] # "none"
        BY <2>1, <2>2 DEF Story, Tells, PendingSend
      <3>2. QED BY <1>3, <2>2, <3>1 DEF Phase, Erased, PendingSend
    <2>3. CASE ~PendingSend(c, t) /\ t >= nextSeq[c]
      <3>1. kind[c][t] = "none" /\ outbox[c][t] = "none" /\ ~(t < nextSeq[c])
        BY <2>1, <2>3 DEF Story, Tells
      <3>2. QED BY <1>2, <1>3, <2>3, <3>1 DEF Phase, Erased
    <2>4. CASE ~PendingSend(c, t) /\ t < nextSeq[c]
      <3>1. Phase(c, t)' = "gone" /\ ~Erased(c, t)'
        BY <1>2, <1>3, <2>4 DEF Phase, Erased
      <3>2. outbox[c][t] # "dispatching"
        BY <2>4 DEF PendingSend
      <3>3. Phase(c, t) # "sending"
        BY <2>1, <3>2 DEF Phase, Story, Tells
      <3>4. QED BY <3>1, <3>3
    <2>5. QED BY <2>1, <2>2, <2>3, <2>4
  <1>5. ASSUME NEW r \in Replies
        PROVE  /\ phaseBar'[r] # phaseBar[r] => phaseBar[r] # "sending" /\ phaseBar'[r] = "gone"
               /\ r \in sealedBar \ sealedBar' => phaseBar'[r] = "gone"
               /\ r \in sealedBar' \ sealedBar => phaseBar[r] \in {"sending", "doubt"}
    <2>1. /\ phaseBar[r] = Phase(r[1], r[2]) /\ phaseBar'[r] = Phase(r[1], r[2])'
          /\ r \in sealedBar <=> Erased(r[1], r[2])
          /\ r \in sealedBar' <=> Erased(r[1], r[2])'
      BY DEF phaseBar, sealedBar
    <2>2. CASE r[1] # c
      BY <1>1, <2>1, <2>2, ReplyPairs DEF PhaseSame
    <2>3. CASE r[1] = c
      <3>1. r[2] \in Seqs
        BY ReplyPairs
      <3>2. /\ Phase(r[1], r[2]) = Phase(c, r[2]) /\ Phase(r[1], r[2])' = Phase(c, r[2])'
            /\ Erased(r[1], r[2]) = Erased(c, r[2]) /\ Erased(r[1], r[2])' = Erased(c, r[2])'
        BY <2>3 DEF Phase, Erased
      <3>3. QED BY <1>4, <2>1, <3>1, <3>2
    <2>4. QED BY <2>2, <2>3
  <1>6. sealedBar \subseteq Replies /\ sealedBar' \subseteq Replies
    BY DEF sealedBar
  <1>7. QED BY <1>5, <1>6, CountsSame DEF Promise!Erase

-----------------------------------------------------------------------------
(* The steps that concern no delivery, and the theorem *)

LEMMA RowsKept ==
  ASSUME UNCHANGED <<kind, nextSeq, outbox, acks, flying, landed>>
  PROVE  UNCHANGED Promise!vars
  <1>1. ASSUME NEW d \in Convs, NEW t \in Seqs PROVE PhaseSame(d, t)
    <2>1. UNCHANGED <<kind[d][t], outbox[d][t], nextSeq[d]>>
      OBVIOUS
    <2>2. QED BY <2>1, SamePhase
  <1>2. QED BY <1>1, Unconcerned

\* A new event has no reply yet.
LEMMA InsertStep ==
  ASSUME StoreInv, NEW c \in Convs, NEW k \in {"message", "binding"}, NEW src, NEW ch, NEW state,
         InsertEvent(c, k, src, ch, state)
  PROVE  UNCHANGED Promise!vars
  <1>1. PICK n \in Seqs : n = nextSeq[c]
    BY BoundsAreNat DEF InsertEvent, StoreInv, DeliveryInv, TypeOK, Seqs
  <1>2. /\ UNCHANGED <<outbox, acks, flying, landed>> /\ kind'[c][n] = k /\ nextSeq'[c] = n + 1
        /\ \A d \in Convs : d # c => UNCHANGED nextSeq[d]
        /\ \A d \in Convs, t \in Seqs : d # c \/ t # n => kind'[d][t] = kind[d][t]
    BY <1>1 DEF InsertEvent, StoreInv, DeliveryInv, TypeOK, platformVars
  <1>3. ASSUME NEW d \in Convs, NEW t \in Seqs PROVE PhaseSame(d, t)
    <2>1. CASE d # c
      BY <1>2, <2>1, SamePhase
    <2>2. CASE d = c /\ t = n
      <3>1. n >= nextSeq[c] /\ ~(n < nextSeq[c])
        BY <1>1, SeqsAreNat
      <3>2. kind[c][n] = "none" /\ outbox[c][n] = "none"
        BY <3>1 DEF StoreInv, RowInv, RowAgrees, Blank, Story, Tells
      <3>3. Phase(c, n) = "unsent" /\ ~Erased(c, n)
        BY <3>1, <3>2 DEF Phase, Erased
      <3>4. Phase(c, n)' = "unsent" /\ ~Erased(c, n)'
        BY <1>2, <3>2 DEF Phase, Erased
      <3>5. QED BY <2>2, <3>3, <3>4 DEF PhaseSame, Phase, Erased
    <2>3. CASE d = c /\ t # n
      <3>1. t < nextSeq'[c] <=> t < nextSeq[c]
        BY <1>1, <1>2, <2>3, SeqsAreNat
      <3>2. kind'[c][t] = kind[c][t]
        BY <1>2, <2>3
      <3>3. outbox[c][t] \in OutboxStates
        BY DEF StoreInv, DeliveryInv, TypeOK
      <3>4. QED BY <1>2, <2>3, <3>1, <3>2, <3>3 DEF PhaseSame, Phase, Erased, OutboxStates
    <2>4. QED BY <2>1, <2>2, <2>3
  <1>4. QED BY <1>2, <1>3, Unconcerned

LEMMA PromiseInit == Init => Promise!Init
  <1> SUFFICES ASSUME Init PROVE Promise!Init
    OBVIOUS
  <1>1. ASSUME NEW c \in Convs, NEW s \in Seqs
        PROVE  Phase(c, s) = "unsent" /\ ~Erased(c, s)
    BY SeqsAreNat DEF Init, PerSeq, Phase, Erased
  <1>2. phaseBar = [r \in Replies |-> "unsent"] /\ sealedBar = {}
    BY <1>1, ReplyPairs DEF phaseBar, sealedBar
  <1>3. /\ permitsBar = [r \in Replies |-> 1]
        /\ flyingBar = [r \in Replies |-> {}] /\ landedBar = [r \in Replies |-> {}]
    BY ReplyPairs DEF Init, PerSeq, permitsBar, flyingBar, landedBar
  <1>4. QED BY <1>2, <1>3 DEF Promise!Init

LEMMA PromiseStep == ASSUME StoreInv, [Next]_vars PROVE [Promise!Next]_(Promise!vars)
  <1>1. ASSUME NEW c \in Convs, Gateway(c) PROVE UNCHANGED Promise!vars
    BY <1>1, InsertStep, RowsKept DEF Gateway, Admit, SuppressIncoming, dbVars, platformVars, recordVars
  <1>2. ASSUME NEW c \in Convs, Operator(c) PROVE Promise!Next \/ UNCHANGED Promise!vars
    <2>1. CASE \E request \in Requests, ch \in Characters : EnqueueBinding(c, request, ch)
      BY <2>1, InsertStep DEF EnqueueBinding
    <2>2. CASE EraseConversation(c)
      BY <2>2, EraseStep DEF EraseConversation, Promise!Next, platformVars, recordVars
    <2>3. CASE EraseHalfDone(c) \/ EraseUnrecorded(c) \/ \E ch \in Characters : ResumeConversation(c, ch)
      BY <2>3, RowsKept DEF EraseHalfDone, EraseUnrecorded, ResumeConversation, dbVars, platformVars, recordVars
    <2>4. QED BY <1>2, <2>1, <2>2, <2>3, ReviewStep DEF Operator
  <1>3. ASSUME NEW c \in Convs,
               Pick(c) \/ NextWork(c) \/ DropStale(c) \/ SenderNotReady(c) \/ DispatchRefused(c) \/ WorkerFails(c)
        PROVE  UNCHANGED Promise!vars
    BY <1>3, RowsKept
    DEF Pick, NextWork, NothingToDo, ApplyBinding, BeginTurn, TakeOutbox, DropStale, SenderNotReady,
        DispatchRefused, WorkerFails, dbVars, platformVars, recordVars
  <1>4. ASSUME NEW c \in Convs, Generate(c) PROVE Promise!Next \/ UNCHANGED Promise!vars
    <2>1. ASSUME NEW outcome \in {"ignored", "failed"}, EndGeneration(c, outcome) PROVE UNCHANGED Promise!vars
      BY <2>1, RowsKept DEF EndGeneration, platformVars, recordVars
    <2>2. QED BY <1>3, <1>4, <2>1, OfferStep DEF Generate
  <1>5. ASSUME NEW c \in Convs, Dispatch(c) \/ Finish(c) \/ Platform(c)
        PROVE  Promise!Next \/ UNCHANGED Promise!vars
    BY <1>3, <1>5, SendStep, FinishStep, LandStep DEF Dispatch, Finish
  <1>6. CASE UNCHANGED vars \/ Crash \/ LoopFails \/ LoopEnds \/ BeginShutdown \/ Close
    BY <1>6, RowsKept
    DEF Crash, LoopFails, LoopEnds, BeginShutdown, Close, vars, dbVars, platformVars, recordVars
  <1>7. ASSUME NEW c \in Convs, ReplayDeletion(c) PROVE Promise!Next
    <2>1. deletion[c] = NewDeletion(c)
      BY <1>7 DEF ReplayDeletion, StoreInv, DeliveryInv, DeletionIsExact
    <2>2. QED BY <1>7, <2>1, EraseStep DEF ReplayDeletion, Promise!Next, platformVars, recordVars
  <1>8. QED
    BY <1>1, <1>2, <1>3, <1>4, <1>5, <1>6, <1>7, RestartStep DEF Next, Fault, Reopen, Promise!Next

\* The runtime implements the promise: replies leave on permits only, a permit is used
\* before its request leaves, and nothing that was erased is sent again.
THEOREM PromiseKept == Spec => KeepsPromise
  BY PromiseInit, PromiseStep, StoreInvHolds, PTL DEF Spec, KeepsPromise, Promise!Spec
=============================================================================
