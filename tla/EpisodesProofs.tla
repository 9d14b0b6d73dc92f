----------------------------- MODULE EpisodesProofs -----------------------------
(***************************************************************************)
(* Theorems about Episodes, for any number of memories, dates, messages,    *)
(* rows, changes and crashes.                                               *)
(***************************************************************************)
EXTENDS Episodes, SequenceTheorems, FiniteSetTheorems, TLAPS

-----------------------------------------------------------------------------
(* The inductive invariant *)

AnyDate   == Dates \cup {NoDate}
RowStates == {"queued", "generating", "outbox_ready", "needs_review", "completed", "failed", "cancelled"}
MemStates == {"open", "completed", "withdrawn"}
Ops       == {"none", "confirm", "clear"}

MessageRow == [kind : {"message"}, state : RowStates, say : Says]
MemoryRow  == [kind : {"memory"}, state : RowStates, mem : Memories, base : Nat \ {0}, to : MemStates]
Records    == [ver : Nat, state : MemStates, by : {"model", "admin"}]
Flags      == BOOLEAN
Timings    == [mver : Nat, ver : Nat, state : {"none", "proposed", "confirmed", "cleared", "invalidated"},
               zone : Flags, guess : AnyDate, date : AnyDate, by : Nat]
Dialogues  == [stage : {"none", "select", "time", "confirm", "clear"}, op : Ops,
               targets : SUBSET (Memories \X Nat \X Nat), mem : SUBSET Memories, mver : Nat, tver : Nat,
               scope : Nat, date : AnyDate, prompt : Nat, min : Nat, late : BOOLEAN]
Questions  == [seq : Nat, mem : SUBSET Memories, mver : Nat, op : Ops, date : AnyDate]

TypeInv ==
  /\ rows \in Seq(MessageRow \cup MemoryRow) /\ Len(rows) <= MaxRows
  /\ snapshot \in [1..MaxRows -> {Untaken} \cup [Memories -> Nat]]
  /\ mem \in [Memories -> Records]
  /\ timing \in [Memories -> Timings]
  /\ dialogue \in Dialogues
  /\ handled \in [1..MaxRows -> Answers]
  /\ told \in [1..MaxRows -> SUBSET Answers]
  /\ policy \in [ver : Nat, zone : Flags]
  /\ worker \in [at : {"down", "idle", "turn", "reply", "ready", "sending"}, row : 0..MaxRows]
  /\ shown \in Questions
  /\ asked \in [1..MaxRows -> Questions]

\* Rows are worked on in order: behind an open row nothing has begun, and the
\* worker's row is the first that is open.
OrderInv ==
  /\ \A i, j \in DOMAIN rows : i < j /\ Open(i) => rows[j].state = "queued"
  /\ worker.at \in {"turn", "reply"} =>
       worker.row \in DOMAIN rows /\ rows[worker.row].kind = "message" /\ rows[worker.row].state = "generating"
  /\ worker.at \in {"ready", "sending"} =>
       worker.row \in DOMAIN rows /\ rows[worker.row].state = "outbox_ready"

\* An episode that is open has a time of its version, read in the zone in force;
\* one the operator never saw is the model's.
TimeInv ==
  /\ \A m \in Memories : IsOpen(m) => Current(m) /\ timing[m].zone = policy.zone
  /\ \A m \in Memories : timing[m].state = "confirmed" => IsOpen(m) /\ timing[m].date \in Dates
  /\ \A m \in Memories : mem[m].ver = 0 => mem[m].by = "model"

\* What a question is about fits its stage.
Fits(d) ==
  /\ d.stage \in {"time", "confirm", "clear"} => \E m \in Memories : d.mem = {m}
  /\ d.stage = "select" => d.mem = {} /\ d.op # "none"
  /\ d.stage \in {"time", "confirm"} => d.op = "confirm"
  /\ d.stage = "clear" => d.op = "clear"
  /\ d.stage = "confirm" => d.date \in Dates

Content(d) == [seq |-> d.prompt, mem |-> d.mem, mver |-> d.mver, op |-> d.op, date |-> d.date]

\* A question that was delivered is what the user was last shown until the next
\* row is admitted, and what stood before him when he sent that one.
QuestionInv ==
  /\ Fits(dialogue)
  /\ dialogue.stage # "none" =>
       dialogue.prompt \in DOMAIN rows /\ \A j \in DOMAIN rows : j < dialogue.prompt => ~Open(j)
  /\ dialogue.stage # "none" /\ dialogue.min # 0 =>
       /\ ~Open(dialogue.prompt)
       /\ Len(rows) = dialogue.prompt => shown = Content(dialogue)
       /\ Len(rows) > dialogue.prompt /\ dialogue.min <= dialogue.prompt + 1
            /\ rows[dialogue.prompt + 1].kind = "message" =>
            asked[dialogue.prompt + 1] = Content(dialogue)

ConfirmInv ==
  /\ \A m \in Memories : timing[m].by \in 0..Len(rows)
  /\ ConfirmedAsShown

\* A row whose turn came has only closed ones before it; while it may be handled
\* again it would be answered the same.
RowAnswer(i) ==
  /\ told[i] # {} => i \in DOMAIN rows /\ rows[i].kind = "message" /\ \A j \in DOMAIN rows : j < i => ~Open(j)
  /\ \/ told[i] \subseteq {handled[i]}
     \/ told[i] \subseteq {"no"} /\ rows[i].state \notin {"queued", "generating"}
  /\ told[i] # {} /\ handled[i] = "no" /\ rows[i].state \in {"queued", "generating"} =>
       dialogue.stage = "none" /\ rows[i].say.do \notin {"start", "clear", "approve", "approve_clear"}

AnswerInv == \A i \in 1..MaxRows : RowAnswer(i)

EpisodesInv == TypeInv /\ OrderInv /\ TimeInv /\ QuestionInv /\ ConfirmInv /\ AnswerInv

-----------------------------------------------------------------------------
(* Rows *)

LEMMA RowDomain == ASSUME TypeInv PROVE Len(rows) \in Nat /\ DOMAIN rows = 1..Len(rows) /\ DOMAIN rows \subseteq 1..MaxRows
  <1>1. Len(rows) \in Nat /\ DOMAIN rows = 1..Len(rows)
    BY LenProperties DEF TypeInv
  <1>2. QED BY <1>1, EpisodesAssumption DEF TypeInv

LEMMA RowTyped ==
  ASSUME TypeInv, NEW i \in DOMAIN rows
  PROVE  /\ rows[i] \in MessageRow \cup MemoryRow
         /\ rows[i].kind = "message" => rows[i] \in MessageRow
         /\ rows[i].kind = "memory" => rows[i] \in MemoryRow
         /\ rows[i].state \in RowStates
  <1>1. rows[i] \in MessageRow \cup MemoryRow
    BY RowDomain, ElementOfSeq DEF TypeInv
  <1>2. QED BY <1>1 DEF MessageRow, MemoryRow

\* A row is settled: only its state changes.
LEMMA SettleRow ==
  ASSUME TypeInv, NEW i \in DOMAIN rows, NEW s \in RowStates, Settle(i, s)
  PROVE  /\ rows' \in Seq(MessageRow \cup MemoryRow)
         /\ Len(rows') = Len(rows) /\ DOMAIN rows' = DOMAIN rows
         /\ \A k \in DOMAIN rows : rows'[k].kind = rows[k].kind /\ (rows[k].kind = "message" => rows'[k].say = rows[k].say)
         /\ \A k \in DOMAIN rows : k # i => rows'[k] = rows[k]
         /\ rows'[i].state = s
  <1>1. rows' = [rows EXCEPT ![i] = [@ EXCEPT !.state = s]]
    BY DEF Settle
  <1>2. [rows[i] EXCEPT !.state = s] \in MessageRow \cup MemoryRow
    BY RowTyped DEF MessageRow, MemoryRow
  <1>3. rows' \in Seq(MessageRow \cup MemoryRow) /\ Len(rows') = Len(rows)
    BY <1>1, <1>2, ExceptSeq, RowDomain DEF TypeInv
  <1>4. DOMAIN rows' = DOMAIN rows /\ rows'[i] = [rows[i] EXCEPT !.state = s]
    BY <1>1
  <1>5. rows'[i].kind = rows[i].kind /\ (rows[i].kind = "message" => rows'[i].say = rows[i].say) /\ rows'[i].state = s
    BY <1>4, RowTyped DEF MessageRow, MemoryRow
  <1>6. \A k \in DOMAIN rows : k # i => rows'[k] = rows[k]
    BY <1>1
  <1>7. QED BY <1>3, <1>4, <1>5, <1>6

LEMMA RestartRows ==
  ASSUME TypeInv, Restart
  PROVE  /\ rows' \in Seq(MessageRow \cup MemoryRow)
         /\ Len(rows') = Len(rows) /\ DOMAIN rows' = DOMAIN rows
         /\ \A k \in DOMAIN rows : rows'[k].kind = rows[k].kind /\ (rows[k].kind = "message" => rows'[k].say = rows[k].say)
         /\ \A k \in DOMAIN rows : \/ rows'[k].state = rows[k].state
                                   \/ rows[k].state = "generating" /\ rows'[k].state = "queued"
                                   \/ rows[k].state = "outbox_ready" /\ rows'[k].state = "needs_review"
  <1>1. PICK sent \in SUBSET Interrupted :
          rows' = [i \in DOMAIN rows |->
            IF rows[i].state = "generating" THEN [rows[i] EXCEPT !.state = "queued"]
            ELSE IF i \in sent THEN [rows[i] EXCEPT !.state = "needs_review"] ELSE rows[i]]
    BY DEF Restart
  <1>2. ASSUME NEW k \in DOMAIN rows
        PROVE  /\ rows'[k] \in MessageRow \cup MemoryRow
               /\ rows'[k].kind = rows[k].kind /\ (rows[k].kind = "message" => rows'[k].say = rows[k].say)
               /\ \/ rows'[k].state = rows[k].state
                  \/ rows[k].state = "generating" /\ rows'[k].state = "queued"
                  \/ rows[k].state = "outbox_ready" /\ rows'[k].state = "needs_review"
    <2>1. \/ rows'[k] = rows[k]
          \/ rows[k].state = "generating" /\ rows'[k] = [rows[k] EXCEPT !.state = "queued"]
          \/ rows[k].state = "outbox_ready" /\ rows'[k] = [rows[k] EXCEPT !.state = "needs_review"]
      <3>1. k \in sent => rows[k].state = "outbox_ready"
        BY DEF Interrupted
      <3>2. rows'[k] = IF rows[k].state = "generating" THEN [rows[k] EXCEPT !.state = "queued"]
                       ELSE IF k \in sent THEN [rows[k] EXCEPT !.state = "needs_review"] ELSE rows[k]
        BY <1>1
      <3>3. QED BY <3>1, <3>2
    <2>2. QED BY <2>1, RowTyped DEF MessageRow, MemoryRow, RowStates
  <1>3. DOMAIN rows' = 1..Len(rows)
    BY <1>1, RowDomain
  <1>4. rows' \in Seq(MessageRow \cup MemoryRow) /\ Len(rows') = Len(rows)
    <2>1. rows' = [k \in 1..Len(rows) |-> rows'[k]]
      BY <1>1, <1>3
    <2>2. \A k \in 1..Len(rows) : rows'[k] \in MessageRow \cup MemoryRow
      BY <1>2, RowDomain
    <2>3. rows' \in [1..Len(rows) -> MessageRow \cup MemoryRow]
      BY <2>1, <2>2
    <2>4. rows' \in Seq(MessageRow \cup MemoryRow)
      BY <2>3, RowDomain, SeqDef
    <2>5. QED BY <2>4, <1>3, LenProperties, RowDomain
  <1>5. QED BY <1>2, <1>3, <1>4, RowDomain

\* A row is admitted at the end.
LEMMA AppendRow ==
  ASSUME TypeInv, NEW r \in MessageRow \cup MemoryRow, rows' = Append(rows, r)
  PROVE  /\ rows' \in Seq(MessageRow \cup MemoryRow)
         /\ Len(rows') = Len(rows) + 1
         /\ DOMAIN rows' = DOMAIN rows \cup {Len(rows) + 1} /\ DOMAIN rows' = 1..(Len(rows) + 1)
         /\ \A k \in DOMAIN rows : rows'[k] = rows[k]
         /\ rows'[Len(rows) + 1] = r
  <1>1. rows' \in Seq(MessageRow \cup MemoryRow) /\ Len(rows') = Len(rows) + 1
        /\ (\A k \in 1..Len(rows) : rows'[k] = rows[k]) /\ rows'[Len(rows) + 1] = r
    BY AppendProperties DEF TypeInv
  <1>2. QED BY <1>1, RowDomain, LenProperties

-----------------------------------------------------------------------------
(* The dialogue *)

LEMMA NoDialogueFits == NoDialogue \in Dialogues /\ Fits(NoDialogue) /\ NoDialogue.stage = "none"
  <1>1. QED BY DEF NoDialogue, Dialogues, AnyDate, Ops, Fits

LEMMA PutFits ==
  ASSUME NEW d \in Dialogues, Fits(d), NEW i \in Nat
  PROVE  /\ Put(d, i) \in Dialogues /\ Fits(Put(d, i))
         /\ Put(d, i).prompt = i /\ Put(d, i).min = 0
  <1>1. QED BY DEF Put, Dialogues, Fits

LEMMA ProposalFits ==
  ASSUME NEW d \in Dialogues, d.op = "confirm", NEW m \in Memories, d.mem = {m}, NEW date \in AnyDate
  PROVE  Proposal(d, date) \in Dialogues /\ Fits(Proposal(d, date))
  <1>1. QED BY DEF Proposal, Dialogues, Fits, AnyDate

LEMMA SelectFits ==
  ASSUME TypeInv, NEW d \in Dialogues, d.op \in {"confirm", "clear"}, NEW m \in Memories
  PROVE  Select(d, m) \in Dialogues /\ Fits(Select(d, m))
  <1> DEFINE e == [d EXCEPT !.mem = {m}, !.mver = mem[m].ver, !.tver = timing[m].ver]
  <1>1. e \in Dialogues /\ e.op = d.op /\ e.mem = {m}
    BY DEF TypeInv, Records, Timings, Dialogues
  <1>2. timing[m].guess \in AnyDate
    BY DEF TypeInv, Timings
  <1> HIDE DEF e
  <1>3. CASE d.op = "clear"
    <2>1. Select(d, m) = [e EXCEPT !.stage = "clear"]
      BY <1>3 DEF Select, e
    <2>2. QED BY <1>1, <1>3, <2>1 DEF Dialogues, Fits
  <1>4. CASE d.op = "confirm" /\ timing[m].state = "confirmed"
    <2>1. Select(d, m) = [e EXCEPT !.stage = "time", !.date = NoDate]
      BY <1>4 DEF Select, e
    <2> DEFINE q == [e EXCEPT !.stage = "time", !.date = NoDate]
    <2>2. NoDate \in AnyDate
      BY DEF AnyDate
    <2>3. q \in Dialogues /\ q.mem = {m} /\ q.op = "confirm" /\ q.stage = "time"
      BY <1>1, <1>4, <2>2 DEF Dialogues
    <2> HIDE DEF q
    <2>4. Fits(q)
      BY <2>3 DEF Fits
    <2>5. QED BY <2>1, <2>3, <2>4 DEF q
  <1>5. CASE d.op = "confirm" /\ timing[m].state # "confirmed"
    <2>1. Select(d, m) = Proposal(e, timing[m].guess)
      BY <1>5 DEF Select, e
    <2>2. QED BY <1>1, <1>2, <1>5, <2>1, ProposalFits
  <1>6. QED BY <1>3, <1>4, <1>5

LEMMA StartFits ==
  ASSUME TypeInv, NEW i \in Nat, NEW op \in {"confirm", "clear"}, NEW named \in SUBSET Memories
  PROVE  LET d == Start(i, op, named) IN
         d \in Dialogues /\ Fits(d) /\ (d.stage = "none" \/ (d.prompt = i /\ d.min = 0))
  <1> DEFINE targets == {m \in named : IsOpen(m)}
             d == [NoDialogue EXCEPT !.op = op, !.scope = policy.ver,
                                     !.targets = {<<m, mem[m].ver, timing[m].ver>> : m \in targets}]
  <1>1. {<<m, mem[m].ver, timing[m].ver>> : m \in targets} \in SUBSET (Memories \X Nat \X Nat)
    BY DEF TypeInv, Records, Timings
  <1>2. d \in Dialogues /\ d.op = op /\ d.mem = {} /\ d.stage = "none"
    <2> HIDE DEF targets
    <2>1. QED BY <1>1 DEF NoDialogue, Dialogues, TypeInv, Ops, AnyDate
  <1>3. CASE ~policy.zone \/ targets = {}
    BY <1>3, NoDialogueFits DEF Start
  <1>4. CASE policy.zone /\ targets # {} /\ Cardinality(targets) = 1
    <2> DEFINE one == CHOOSE m \in targets : TRUE
    <2>1. one \in Memories
      BY <1>4
    <2>2. Start(i, op, named) = Put(Select(d, one), i)
      BY <1>4 DEF Start
    <2> HIDE DEF d, one
    <2>3. Select(d, one) \in Dialogues /\ Fits(Select(d, one))
      BY <1>2, <2>1, SelectFits
    <2>4. QED BY <2>2, <2>3, PutFits
  <1>5. CASE policy.zone /\ targets # {} /\ Cardinality(targets) # 1
    <2>1. Start(i, op, named) = Put([d EXCEPT !.stage = "select"], i)
      BY <1>5 DEF Start
    <2> HIDE DEF d
    <2>2. [d EXCEPT !.stage = "select"] \in Dialogues /\ Fits([d EXCEPT !.stage = "select"])
      BY <1>2 DEF Dialogues, Fits
    <2>3. QED BY <2>1, <2>2, PutFits
  <1>6. QED BY <1>3, <1>4, <1>5

\* What an approval at i confirms or clears.
Confirms(i, m) ==
  /\ dialogue.mem = {m} /\ dialogue.stage # "none"
  /\ Accepts(i) /\ MaySave(i)
  /\ \/ dialogue.stage = "confirm" /\ SaveConfirmation(m, dialogue.date, i)
     \/ dialogue.stage = "clear" /\ SaveConfirmation(m, NoDate, i)

\* What the dialogue does to a row: its answer is kept, and a new question waits
\* for its delivery.
Answering(i) ==
  /\ \E a \in Answers \ {"no"} : handled' = [handled EXCEPT ![i] = a]
  /\ \/ dialogue' = dialogue
     \/ /\ dialogue' \in Dialogues /\ Fits(dialogue')
        /\ dialogue'.stage = "none" \/ (dialogue'.prompt = i /\ dialogue'.min = 0)

LEMMA AnsweredAnswers ==
  ASSUME NEW i \in Nat, NEW d \in Dialogues, Fits(d), d.stage = "none" \/ (d.prompt = i /\ d.min = 0),
         Answered(i, d) \/ Silent(i, d)
  PROVE  Answering(i) /\ timing' = timing
  <1>1. QED BY DEF Answered, Silent, Record, Answering, Answers

LEMMA PutAnswers ==
  ASSUME NEW i \in Nat, NEW d \in Dialogues, Fits(d), Answered(i, Put(d, i))
  PROVE  Answering(i) /\ timing' = timing
  <1>1. QED BY PutFits, AnsweredAnswers

LEMMA NoDialogueAnswers ==
  ASSUME NEW i \in Nat, Answered(i, NoDialogue) \/ Silent(i, NoDialogue)
  PROVE  Answering(i) /\ timing' = timing
  <1>1. QED BY NoDialogueFits, AnsweredAnswers

LEMMA ApproveAnswers ==
  ASSUME TypeInv, Fits(dialogue), NEW i \in Nat, dialogue.stage \in {"confirm", "clear"}, Accepts(i), Approve(i)
  PROVE  Answering(i) /\ (timing' = timing \/ \E m \in Memories : Confirms(i, m))
  <1>1. PICK m \in Memories : dialogue.mem = {m}
    BY DEF Fits
  <1>2. (CHOOSE n \in dialogue.mem : TRUE) = m
    BY <1>1
  <1>3. CASE MaySave(i)
    <2>1. Record(i, NoDialogue, "saved")
          /\ SaveConfirmation(m, IF dialogue.op = "clear" THEN NoDate ELSE dialogue.date, i)
      BY <1>2, <1>3 DEF Approve
    <2>2. Answering(i)
      BY <2>1, NoDialogueFits DEF Record, Answering, Answers
    <2>3. Confirms(i, m)
      BY <1>1, <1>3, <2>1 DEF Confirms, Fits
    <2>4. QED BY <2>2, <2>3
  <1>4. CASE ~MaySave(i)
    BY <1>4, NoDialogueAnswers DEF Approve
  <1>5. QED BY <1>3, <1>4

LEMMA ReplyAnswers ==
  ASSUME TypeInv, Fits(dialogue), dialogue.stage # "none", NEW i \in Nat, NEW say \in Says, Reply(i, say)
  PROVE  Answering(i) /\ (timing' = timing \/ \E m \in Memories : Confirms(i, m))
  <1> DEFINE d == dialogue
             Asks(e) == e \in Dialogues /\ Fits(e) /\ Answered(i, Put(e, i))
             Ends == Answered(i, NoDialogue) \/ Silent(i, NoDialogue)
  <1>1. d \in Dialogues /\ say.date \in AnyDate /\ say.mem \in SUBSET Memories
    BY EpisodesAssumption DEF TypeInv, AnyDate
  <1>2. CASE ~Accepts(i)
    BY <1>2, NoDialogueAnswers DEF Reply
  <1>3. CASE Accepts(i) /\ say.do \in {"approve", "approve_clear"}
    <2>1. CASE d.stage \in {"confirm", "clear"} /\ Approve(i)
      BY <1>3, <2>1, ApproveAnswers
    <2>2. CASE d.stage = "time" /\ Answered(i, Put(d, i))
      BY <1>1, <2>2, PutAnswers
    <2>3. CASE Silent(i, NoDialogue)
      BY <2>3, NoDialogueAnswers
    <2>4. QED BY <1>3, <2>1, <2>2, <2>3 DEF Reply
  <1>4. CASE Accepts(i) /\ say.do = "pick" /\ d.stage = "select" /\ Picked(say)
    <2> DEFINE m == CHOOSE m \in say.mem : TRUE
    <2>1. m \in Memories
      BY <1>1, <1>4 DEF Picked
    <2>2. Answered(i, Put(Select(d, m), i))
      BY <1>4 DEF Reply
    <2>3. d.op \in {"confirm", "clear"}
      BY <1>4 DEF Fits, TypeInv, Dialogues, Ops
    <2> HIDE DEF m
    <2>4. QED BY <1>1, <2>1, <2>2, <2>3, SelectFits, PutAnswers
  <1>5. CASE Accepts(i) /\ say.do = "date" /\ d.stage \in {"time", "confirm"}
    <2>1. PICK m \in Memories : d.mem = {m}
      BY <1>5 DEF Fits
    <2>2. d.op = "confirm"
      BY <1>5 DEF Fits
    <2>3. Answered(i, Put(Proposal(d, say.date), i))
      BY <1>5 DEF Reply
    <2>4. QED BY <1>1, <2>1, <2>2, <2>3, ProposalFits, PutAnswers
  <1>6. CASE Accepts(i) /\ say.do = "no" /\ d.stage \in {"time", "confirm"}
    <2> DEFINE e == [d EXCEPT !.stage = "time", !.date = NoDate]
    <2>1. e \in Dialogues /\ e.mem = d.mem /\ e.op = d.op /\ e.stage = "time"
      BY <1>1 DEF Dialogues, AnyDate
    <2>2. Answered(i, Put(e, i))
      BY <1>6 DEF Reply
    <2> HIDE DEF e
    <2>3. Fits(e)
      BY <1>6, <2>1 DEF Fits
    <2>4. QED BY <2>1, <2>2, <2>3, PutAnswers
  <1>7. CASE /\ Accepts(i) /\ say.do \notin {"approve", "approve_clear"}
             /\ ~(say.do = "pick" /\ d.stage = "select" /\ Picked(say))
             /\ ~(say.do \in {"date", "no"} /\ d.stage \in {"time", "confirm"})
    <2>1. Ends
      BY <1>7 DEF Reply
    <2>2. QED BY <2>1, NoDialogueAnswers
  <1>8. QED BY <1>2, <1>3, <1>4, <1>5, <1>6, <1>7

\* Handle, by what it does to the row: it repeats the answer that was kept, finds
\* nothing to say, or answers.
LEMMA HandleOutcome ==
  ASSUME TypeInv, OrderInv, Fits(dialogue), Handle, NEW i, i = worker.row
  PROVE  /\ i \in DOMAIN rows /\ rows[i] \in MessageRow /\ rows[i].state = "generating"
         /\ \/ Cached(i) /\ UNCHANGED <<dialogue, handled, timing>>
            \/ /\ ~Cached(i) /\ UNCHANGED <<dialogue, handled, timing>>
               /\ dialogue.stage = "none"
               /\ rows[i].say.do \notin {"start", "clear", "approve", "approve_clear"}
            \/ /\ ~Cached(i) /\ Answering(i)
               /\ dialogue.stage # "none" \/ rows[i].say.do \in {"start", "clear", "approve", "approve_clear"}
               /\ timing' = timing \/ \E m \in Memories : Confirms(i, m)
  <1>1. i \in DOMAIN rows /\ rows[i].state = "generating" /\ rows[i].kind = "message"
    BY DEF OrderInv, Handle
  <1>2. rows[i] \in MessageRow
    BY <1>1, RowTyped
  <1> DEFINE say == rows[i].say
  <1>3. say \in Says /\ say.mem \in SUBSET Memories /\ i \in Nat
    BY <1>1, <1>2, RowDomain, EpisodesAssumption DEF MessageRow
  <1>4. CASE Cached(i)
    BY <1>1, <1>2, <1>4 DEF Handle
  <1>5. CASE ~Cached(i) /\ say.do \in {"start", "clear"}
    <2> DEFINE op == IF say.do = "clear" THEN "clear" ELSE "confirm"
               d == Start(i, op, say.mem)
    <2>1. Answered(i, d)
      BY <1>5 DEF Handle
    <2>2. op \in {"confirm", "clear"}
      OBVIOUS
    <2> HIDE DEF op
    <2>3. d \in Dialogues /\ Fits(d) /\ (d.stage = "none" \/ (d.prompt = i /\ d.min = 0))
      BY <1>3, <2>2, StartFits
    <2> HIDE DEF d
    <2>4. Answering(i) /\ timing' = timing
      BY <1>3, <2>1, <2>3, AnsweredAnswers
    <2>5. QED BY <1>1, <1>2, <1>5, <2>4
  <1>6. CASE ~Cached(i) /\ say.do \notin {"start", "clear"} /\ dialogue.stage # "none"
    <2>1. Reply(i, say)
      BY <1>6 DEF Handle
    <2>2. QED BY <1>1, <1>2, <1>3, <1>6, <2>1, ReplyAnswers
  <1>7. CASE ~Cached(i) /\ say.do \notin {"start", "clear"} /\ dialogue.stage = "none"
    <2>1. Unasked(i, say)
      BY <1>7 DEF Handle
    <2>2. CASE say.do \in {"approve", "approve_clear"}
      <3>1. Answered(i, dialogue)
        BY <2>1, <2>2 DEF Unasked
      <3>2. Answering(i) /\ timing' = timing
        BY <1>3, <1>7, <3>1, AnsweredAnswers DEF TypeInv
      <3>3. QED BY <1>1, <1>2, <1>7, <2>2, <3>2
    <2>3. CASE say.do \notin {"approve", "approve_clear"}
      BY <1>1, <1>2, <1>7, <2>1, <2>3 DEF Unasked
    <2>4. QED BY <2>2, <2>3
  <1>8. QED BY <1>4, <1>5, <1>6, <1>7

-----------------------------------------------------------------------------
(* Type correctness *)

LEMMA FlagsTyped == FALSE \in Flags /\ TRUE \in Flags
  <1>1. QED BY DEF Flags

\* One field of a time at a time.
LEMMA TimingNumber ==
  ASSUME NEW t \in Timings, NEW n \in Nat
  PROVE  [t EXCEPT !.mver = n] \in Timings /\ [t EXCEPT !.ver = n] \in Timings /\ [t EXCEPT !.by = n] \in Timings
  <1>1. QED BY DEF Timings

LEMMA TimingDate ==
  ASSUME NEW t \in Timings, NEW d \in AnyDate
  PROVE  [t EXCEPT !.date = d] \in Timings /\ [t EXCEPT !.guess = d] \in Timings
  <1>1. QED BY DEF Timings

LEMMA TimingZone == ASSUME NEW t \in Timings, NEW z \in Flags PROVE [t EXCEPT !.zone = z] \in Timings
  <1>1. QED BY DEF Timings

LEMMA TimingState ==
  ASSUME NEW t \in Timings, NEW s \in {"none", "proposed", "confirmed", "cleared", "invalidated"}
  PROVE  [t EXCEPT !.state = s] \in Timings
  <1>1. QED BY DEF Timings

LEMMA NoTimingTyped == NoTiming \in Timings
  <1>1. QED BY FlagsTyped DEF NoTiming, Timings, AnyDate

LEMMA ExtractedTyped ==
  ASSUME NEW v \in Nat, NEW guess \in AnyDate, NEW z \in Flags
  PROVE  /\ Extracted(v, guess, z) \in Timings
         /\ Extracted(v, guess, z).mver = v /\ Extracted(v, guess, z).zone = z
         /\ Extracted(v, guess, z).state = "proposed" /\ Extracted(v, guess, z).by = 0
  <1> DEFINE a == [NoTiming EXCEPT !.mver = v]
             b == [a EXCEPT !.ver = 1]
             c == [b EXCEPT !.state = "proposed"]
             d == [c EXCEPT !.zone = z]
  <1>1. Extracted(v, guess, z) = [d EXCEPT !.guess = guess]
    BY DEF Extracted
  <1>2. a \in Timings /\ a.mver = v /\ a.by = 0
    BY NoTimingTyped, TimingNumber, TimingDate, TimingZone, TimingState, ZenonT(40) DEF Timings, NoTiming
  <1> HIDE DEF a
  <1>3. b \in Timings /\ b.mver = v /\ b.by = 0
    BY <1>2, TimingNumber, TimingDate, TimingZone, TimingState DEF Timings
  <1> HIDE DEF b
  <1>4. c \in Timings /\ c.mver = v /\ c.by = 0 /\ c.state = "proposed"
    BY <1>3, TimingNumber, TimingDate, TimingZone, TimingState DEF Timings
  <1> HIDE DEF c
  <1>5. d \in Timings /\ d.mver = v /\ d.by = 0 /\ d.state = "proposed" /\ d.zone = z
    BY <1>4, TimingNumber, TimingDate, TimingZone, TimingState DEF Timings
  <1> HIDE DEF d
  <1>6. QED BY <1>1, <1>5, TimingNumber, TimingDate, TimingZone, TimingState DEF Timings

LEMMA ChangeTyped ==
  ASSUME TypeInv, NEW m \in Memories, NEW s \in MemStates, NEW by \in {"model", "admin"}, NEW guess \in AnyDate,
         ApplyChange(m, s, by, guess)
  PROVE  /\ mem' \in [Memories -> Records] /\ timing' \in [Memories -> Timings]
         /\ mem'[m] = [ver |-> mem[m].ver + 1, state |-> s, by |-> by]
         /\ timing'[m] = IF s = "open" THEN Extracted(mem[m].ver + 1, guess, policy.zone)
                         ELSE [NoTiming EXCEPT !.mver = mem[m].ver, !.state = "invalidated"]
         /\ \A n \in Memories : n # m => mem'[n] = mem[n] /\ timing'[n] = timing[n]
  <1> DEFINE record == [ver |-> mem[m].ver + 1, state |-> s, by |-> by]
  <1>1. mem[m].ver \in Nat /\ policy.zone \in Flags
    BY DEF TypeInv, Records
  <1>2. record \in Records /\ record.ver - 1 = mem[m].ver /\ record.state = s /\ record.ver = mem[m].ver + 1
    BY <1>1 DEF Records
  <1>3. Resynced(record, guess) = IF s = "open" THEN Extracted(mem[m].ver + 1, guess, policy.zone)
                                  ELSE [NoTiming EXCEPT !.mver = mem[m].ver, !.state = "invalidated"]
    BY <1>2 DEF Resynced
  <1>4. Resynced(record, guess) \in Timings
    <2>1. CASE s = "open"
      <3>1. mem[m].ver + 1 \in Nat
        BY <1>1
      <3>2. QED BY <1>1, <1>3, <2>1, <3>1, ExtractedTyped
    <2>2. CASE s # "open"
      <3>1. [NoTiming EXCEPT !.mver = mem[m].ver] \in Timings
        BY <1>1, NoTimingTyped, TimingNumber, TimingDate, TimingZone, TimingState
      <3>2. [[NoTiming EXCEPT !.mver = mem[m].ver] EXCEPT !.state = "invalidated"] \in Timings
        BY <3>1, TimingNumber, TimingDate, TimingZone, TimingState
      <3>3. QED BY <1>3, <2>2, <3>2
    <2>3. QED BY <2>1, <2>2
  <1>5. mem' = [mem EXCEPT ![m] = record] /\ timing' = [timing EXCEPT ![m] = Resynced(record, guess)]
    BY DEF ApplyChange
  <1> HIDE DEF record
  <1>6. mem' \in [Memories -> Records] /\ timing' \in [Memories -> Timings]
    BY <1>2, <1>4, <1>5 DEF TypeInv
  <1>7. mem'[m] = record /\ timing'[m] = Resynced(record, guess)
    BY <1>5 DEF TypeInv
  <1>8. \A n \in Memories : n # m => mem'[n] = mem[n] /\ timing'[n] = timing[n]
    BY <1>5 DEF TypeInv
  <1>9. QED BY <1>3, <1>6, <1>7, <1>8 DEF record

LEMMA ConfirmationTyped ==
  ASSUME TypeInv, NEW m \in Memories, NEW date \in AnyDate, NEW by \in Nat, SaveConfirmation(m, date, by)
  PROVE  /\ timing' \in [Memories -> Timings]
         /\ timing'[m].mver = timing[m].mver /\ timing'[m].zone = timing[m].zone
         /\ timing'[m].date = date /\ timing'[m].by = by
         /\ timing'[m].state = IF date = NoDate THEN "cleared" ELSE "confirmed"
         /\ \A n \in Memories : n # m => timing'[n] = timing[n]
  <1> DEFINE a == [timing[m] EXCEPT !.ver = timing[m].ver + 1]
             b == [a EXCEPT !.date = date]
             c == [b EXCEPT !.by = by]
             t == [c EXCEPT !.state = IF date = NoDate THEN "cleared" ELSE "confirmed"]
             Same(e) == e.mver = timing[m].mver /\ e.zone = timing[m].zone
  <1>1. timing' = [timing EXCEPT ![m] = t]
    BY DEF SaveConfirmation, TypeInv
  <1>2. t \in Timings /\ Same(t) /\ t.date = date /\ t.by = by
        /\ t.state = IF date = NoDate THEN "cleared" ELSE "confirmed"
    <2>1. timing[m] \in Timings /\ timing[m].ver + 1 \in Nat
      BY DEF TypeInv, Timings
    <2>2. a \in Timings /\ Same(a)
      BY <2>1, TimingNumber DEF Timings
    <2> HIDE DEF a
    <2>3. b \in Timings /\ Same(b) /\ b.date = date
      BY <2>2, TimingDate DEF Timings
    <2> HIDE DEF b
    <2>4. c \in Timings /\ Same(c) /\ c.date = date /\ c.by = by
      BY <2>3, TimingNumber DEF Timings
    <2> HIDE DEF c
    <2>5. QED BY <2>4, TimingState DEF Timings
  <1> HIDE DEF t
  <1>3. timing' \in [Memories -> Timings] /\ timing'[m] = t /\ \A n \in Memories : n # m => timing'[n] = timing[n]
    BY <1>1, <1>2 DEF TypeInv
  <1>4. QED BY <1>2, <1>3

LEMMA RezonedTyped ==
  ASSUME TypeInv, NEW m \in Memories, NEW z \in Flags
  PROVE  /\ Rezoned(m, z) \in Timings
         /\ \/ Rezoned(m, z) = timing[m] /\ (IsOpen(m) => timing[m].zone = z)
            \/ /\ Rezoned(m, z).state = "proposed" /\ Rezoned(m, z).zone = z
               /\ Rezoned(m, z).mver = timing[m].mver /\ Rezoned(m, z).by = timing[m].by
  <1>1. timing[m] \in Timings
    BY DEF TypeInv
  <1>2. CASE ~IsOpen(m) \/ timing[m].zone = z
    BY <1>1, <1>2 DEF Rezoned
  <1>3. CASE ~(~IsOpen(m) \/ timing[m].zone = z)
    <2> DEFINE a == [timing[m] EXCEPT !.ver = timing[m].ver + 1]
               b == [a EXCEPT !.state = "proposed"]
               c == [b EXCEPT !.zone = z]
               d == [c EXCEPT !.date = NoDate]
    <2>1. Rezoned(m, z) = d
      BY <1>3 DEF Rezoned
    <2>2. timing[m].ver + 1 \in Nat /\ NoDate \in AnyDate
      BY <1>1 DEF Timings, AnyDate
    <2>3. a \in Timings /\ a.mver = timing[m].mver /\ a.by = timing[m].by
      BY <1>1, <2>2, TimingNumber, TimingDate, TimingZone, TimingState DEF Timings
    <2> HIDE DEF a
    <2>4. b \in Timings /\ b.mver = timing[m].mver /\ b.by = timing[m].by /\ b.state = "proposed"
      BY <2>3, TimingNumber, TimingDate, TimingZone, TimingState DEF Timings
    <2> HIDE DEF b
    <2>5. c \in Timings /\ c.mver = timing[m].mver /\ c.by = timing[m].by /\ c.state = "proposed" /\ c.zone = z
      BY <2>4, TimingNumber, TimingDate, TimingZone, TimingState DEF Timings
    <2> HIDE DEF c
    <2>6. d \in Timings /\ d.mver = timing[m].mver /\ d.by = timing[m].by /\ d.state = "proposed" /\ d.zone = z
      BY <2>2, <2>5, TimingNumber, TimingDate, TimingZone, TimingState DEF Timings
    <2>7. QED BY <2>1, <2>6
  <1>4. QED BY <1>2, <1>3

LEMMA CommitTyped ==
  ASSUME TypeInv, NEW i \in DOMAIN rows, CommitSent(i)
  PROVE  /\ dialogue' \in Dialogues /\ shown' \in Questions
         /\ \/ dialogue' = dialogue
            \/ /\ dialogue.stage # "none" /\ dialogue.prompt = i /\ dialogue.min = 0
               /\ dialogue' = [dialogue EXCEPT !.min = Len(rows) + 1]
         /\ shown'.seq = i
         /\ dialogue.stage # "none" /\ dialogue.prompt = i => shown' = Content(dialogue)
  <1>1. i \in Nat /\ Len(rows) + 1 \in Nat
    BY RowDomain
  <1>2. dialogue \in Dialogues
    BY DEF TypeInv
  <1>3. Delivered(i) /\ Shown(i)
    BY DEF CommitSent
  <1>4. dialogue' \in Dialogues
    BY <1>1, <1>2, <1>3 DEF Delivered, Dialogues
  <1>5. shown' \in Questions /\ shown'.seq = i
    BY <1>1, <1>2, <1>3 DEF Shown, Questions, Nothing, Dialogues, Ops, AnyDate
  <1>6. dialogue.stage # "none" /\ dialogue.prompt = i => shown' = Content(dialogue)
    BY <1>3 DEF Shown, Content
  <1>7. QED BY <1>3, <1>4, <1>5, <1>6 DEF Delivered

LEMMA TypeInvInit == ASSUME Init PROVE TypeInv
  <1>1. rows \in Seq(MessageRow \cup MemoryRow) /\ Len(rows) <= MaxRows
    BY EmptySeq, EpisodesAssumption DEF Init
  <1>2. mem \in [Memories -> Records] /\ timing \in [Memories -> Timings]
    <2>1. PICK known \in SUBSET Memories, guess \in AnyDate :
            /\ mem = [m \in Memories |-> [ver |-> IF m \in known THEN 1 ELSE 0, state |-> "open", by |-> "model"]]
            /\ timing = [m \in Memories |-> IF m \in known THEN Extracted(1, guess, TRUE) ELSE NoTiming]
      BY DEF Init, AnyDate
    <2>2. mem \in [Memories -> Records]
      BY <2>1 DEF Records, MemStates
    <2>3. Extracted(1, guess, TRUE) \in Timings
      BY ExtractedTyped, FlagsTyped
    <2>4. QED BY <2>1, <2>2, <2>3, NoTimingTyped
  <1>3. dialogue \in Dialogues /\ shown \in Questions /\ asked \in [1..MaxRows -> Questions]
    BY NoDialogueFits DEF Init, Nothing, Questions, AnyDate, Ops
  <1>4. policy \in [ver : Nat, zone : Flags]
        /\ worker \in [at : {"down", "idle", "turn", "reply", "ready", "sending"}, row : 0..MaxRows]
    <2>1. policy \in [ver : Nat, zone : Flags]
      BY FlagsTyped DEF Init
    <2>2. 0 \in 0..MaxRows
      BY EpisodesAssumption
    <2>3. QED BY <2>1, <2>2 DEF Init
  <1>5. /\ snapshot \in [1..MaxRows -> {Untaken} \cup [Memories -> Nat]]
        /\ handled \in [1..MaxRows -> Answers] /\ told \in [1..MaxRows -> SUBSET Answers]
    BY DEF Init, Answers
  <1>6. QED BY <1>1, <1>2, <1>3, <1>4, <1>5 DEF TypeInv

LEMMA PeopleTyped ==
  ASSUME TypeInv,
         \/ \E s \in Says : Admit(s)
         \/ \E m \in Memories, s \in MemStates : AdminChange(m, s)
         \/ \E m \in Memories, d \in AnyDate : AdminTime(m, d)
         \/ \E z \in Flags : ContactRequest(z)
  PROVE  TypeInv'
  <1>1. ASSUME NEW s \in Says, Admit(s) PROVE TypeInv'
    <2>1. [kind |-> "message", state |-> "queued", say |-> s] \in MessageRow \cup MemoryRow
      BY DEF MessageRow, RowStates
    <2>2. rows' = Append(rows, [kind |-> "message", state |-> "queued", say |-> s]) /\ Len(rows) < MaxRows
      BY <1>1 DEF Admit
    <2>3. rows' \in Seq(MessageRow \cup MemoryRow) /\ Len(rows') <= MaxRows
      BY <2>1, <2>2, AppendRow, RowDomain, EpisodesAssumption
    <2>4. asked' \in [1..MaxRows -> Questions]
      BY <1>1 DEF Admit, TypeInv
    <2>5. QED BY <1>1, <2>3, <2>4 DEF Admit, TypeInv
  <1>2. ASSUME NEW m \in Memories, NEW s \in MemStates, AdminChange(m, s) PROVE TypeInv'
    <2> DEFINE r == [kind |-> "memory", state |-> "queued", mem |-> m, base |-> mem[m].ver, to |-> s]
    <2>1. r \in MessageRow \cup MemoryRow
      BY <1>2 DEF AdminChange, MemoryRow, RowStates, TypeInv, Records
    <2>2. rows' = Append(rows, r) /\ Len(rows) < MaxRows
      BY <1>2 DEF AdminChange
    <2> HIDE DEF r
    <2>3. rows' \in Seq(MessageRow \cup MemoryRow) /\ Len(rows') <= MaxRows
      BY <2>1, <2>2, AppendRow, RowDomain, EpisodesAssumption
    <2>4. QED BY <1>2, <2>3 DEF AdminChange, TypeInv
  <1>3. ASSUME NEW m \in Memories, NEW d \in AnyDate, AdminTime(m, d) PROVE TypeInv'
    <2>1. timing' \in [Memories -> Timings]
      BY <1>3, ConfirmationTyped DEF AdminTime
    <2>2. QED BY <1>3, <2>1 DEF AdminTime, TypeInv
  <1>4. ASSUME NEW z \in Flags, ContactRequest(z) PROVE TypeInv'
    <2>1. timing' \in [Memories -> Timings]
      BY <1>4, RezonedTyped DEF ContactRequest, RequestSyncs
    <2>2. policy' \in [ver : Nat, zone : Flags]
      BY <1>4 DEF ContactRequest, TypeInv
    <2>3. QED BY <1>4, <2>1, <2>2 DEF ContactRequest, TypeInv
  <1>5. QED BY <1>1, <1>2, <1>3, <1>4

\* The question that is appended to a reply.
LEMMA OfferFits ==
  ASSUME TypeInv, NEW m \in Memories, NEW s \in {"open", "completed"}, ProposeChange(m, s),
         worker.row \in DOMAIN rows, rows[worker.row] \in MessageRow
  PROVE  \/ UNCHANGED <<dialogue, handled>>
         \/ /\ handled[worker.row] = "no" /\ handled' = [handled EXCEPT ![worker.row] = "asked"]
            /\ dialogue' \in Dialogues /\ Fits(dialogue')
            /\ dialogue'.prompt = worker.row /\ dialogue'.min = 0
            /\ handled' \in [1..MaxRows -> Answers]
  <1> DEFINE i == worker.row
             guess == rows[i].say.date
             d == [NoDialogue EXCEPT !.op = "confirm", !.scope = policy.ver, !.mem = {m},
                                     !.mver = mem[m].ver + 1, !.tver = 1]
  <1>1. i \in Nat /\ i \in 1..MaxRows /\ guess \in AnyDate
    BY RowDomain, EpisodesAssumption DEF MessageRow, AnyDate
  <1>2. d \in Dialogues /\ d.op = "confirm" /\ d.mem = {m}
    <2>1. policy.ver \in Nat /\ mem[m].ver + 1 \in Nat
      BY DEF TypeInv, Records
    <2>2. NoDialogue \in Dialogues /\ "confirm" \in Ops
      BY NoDialogueFits DEF Ops
    <2>3. QED BY <2>1, <2>2 DEF Dialogues
  <1>3. UNCHANGED <<dialogue, handled>>
        \/ (handled[i] = "no" /\ Record(i, Put(Proposal(d, guess), i), "asked"))
    BY DEF ProposeChange, MayOffer
  <1> HIDE DEF d, guess
  <1>4. Proposal(d, guess) \in Dialogues /\ Fits(Proposal(d, guess))
    BY <1>1, <1>2, ProposalFits
  <1>5. Put(Proposal(d, guess), i) \in Dialogues /\ Fits(Put(Proposal(d, guess), i))
        /\ Put(Proposal(d, guess), i).prompt = i /\ Put(Proposal(d, guess), i).min = 0
    BY <1>1, <1>4, PutFits
  <1>6. QED BY <1>1, <1>3, <1>5 DEF Record, TypeInv, Answers

LEMMA WorkTyped ==
  ASSUME TypeInv, OrderInv, Fits(dialogue),
         \/ \E i \in DOMAIN rows : TakeMemory(i) \/ TakeMessage(i) \/ Resolve(i)
         \/ \E m \in Memories, s \in {"open", "completed"} : ProposeChange(m, s)
         \/ Handle \/ Propose \/ ProposalFails \/ Dispatch \/ FinishDelivery \/ Expire \/ Crash \/ Restart
  PROVE  TypeInv'
  <1>1. ASSUME NEW i \in DOMAIN rows, TakeMemory(i) PROVE TypeInv'
    <2>1. PICK s \in {"completed", "failed"} : Settle(i, s)
      BY <1>1 DEF TakeMemory
    <2>2. rows' \in Seq(MessageRow \cup MemoryRow) /\ Len(rows') = Len(rows)
      BY <2>1, SettleRow DEF RowStates
    <2>3. mem' \in [Memories -> Records] /\ timing' \in [Memories -> Timings]
      <3>1. CASE UNCHANGED <<mem, timing>>
        BY <3>1 DEF TypeInv
      <3>2. CASE ApplyChange(rows[i].mem, rows[i].to, "admin", NoDate)
        <4>1. rows[i] \in MemoryRow
          BY <1>1, RowTyped DEF TakeMemory
        <4>2. rows[i].mem \in Memories /\ rows[i].to \in MemStates /\ NoDate \in AnyDate
          BY <4>1 DEF MemoryRow, AnyDate
        <4>3. QED BY <3>2, <4>2, ChangeTyped
      <3>3. QED BY <1>1, <3>1, <3>2 DEF TakeMemory
    <2>4. QED BY <1>1, <2>2, <2>3 DEF TakeMemory, TypeInv
  <1>2. ASSUME NEW i \in DOMAIN rows, TakeMessage(i) PROVE TypeInv'
    <2>1. i \in 0..MaxRows /\ i \in 1..MaxRows
      BY RowDomain, EpisodesAssumption
    <2>2. worker' \in [at : {"down", "idle", "turn", "reply", "ready", "sending"}, row : 0..MaxRows]
      BY <1>2, <2>1 DEF TakeMessage
    <2>3. CASE Settle(i, "generating") /\ snapshot' = Snapshot(i)
      <3>1. rows' \in Seq(MessageRow \cup MemoryRow) /\ Len(rows') = Len(rows)
        BY <2>3, SettleRow DEF RowStates
      <3>2. [m \in Memories |-> mem[m].ver] \in [Memories -> Nat]
        BY DEF TypeInv, Records
      <3>3. snapshot' \in [1..MaxRows -> {Untaken} \cup [Memories -> Nat]]
        BY <2>1, <2>3, <3>2 DEF Snapshot, TypeInv
      <3>4. QED BY <1>2, <2>2, <3>1, <3>3 DEF TakeMessage, TypeInv
    <2>4. CASE UNCHANGED <<rows, snapshot>>
      BY <1>2, <2>2, <2>4 DEF TakeMessage, TypeInv
    <2>5. QED BY <1>2, <2>3, <2>4 DEF TakeMessage
  <1>3. ASSUME NEW i \in DOMAIN rows, NEW s \in RowStates, Settle(i, s), CommitSent(i) \/ UNCHANGED <<dialogue, shown>>
        PROVE  /\ rows' \in Seq(MessageRow \cup MemoryRow) /\ Len(rows') = Len(rows)
               /\ dialogue' \in Dialogues /\ shown' \in Questions
    BY <1>3, SettleRow, CommitTyped DEF TypeInv
  <1>4. ASSUME NEW i \in DOMAIN rows, Resolve(i) PROVE TypeInv'
    <2>1. PICK s \in RowStates : Settle(i, s) /\ (CommitSent(i) \/ UNCHANGED <<dialogue, shown>>)
      BY <1>4 DEF Resolve, CommitSent, RowStates
    <2>2. QED BY <1>3, <1>4, <2>1 DEF Resolve, TypeInv
  <1>5. CASE FinishDelivery
    <2>1. worker.row \in DOMAIN rows /\ 0 \in 0..MaxRows
      BY <1>5, EpisodesAssumption DEF FinishDelivery, OrderInv
    <2>2. PICK s \in RowStates : Settle(worker.row, s) /\ (CommitSent(worker.row) \/ UNCHANGED <<dialogue, shown>>)
      BY <1>5 DEF FinishDelivery, CommitSent, RowStates
    <2>3. worker' \in [at : {"down", "idle", "turn", "reply", "ready", "sending"}, row : 0..MaxRows]
      BY <1>5, <2>1 DEF FinishDelivery
    <2>4. QED BY <1>3, <1>5, <2>1, <2>2, <2>3 DEF FinishDelivery, TypeInv
  <1>6. ASSUME NEW m \in Memories, NEW s \in {"open", "completed"}, ProposeChange(m, s) PROVE TypeInv'
    <2> DEFINE i == worker.row
    <2>1. i \in DOMAIN rows /\ i \in 1..MaxRows /\ rows[i] \in MessageRow /\ i \in Nat
      <3>1. i \in DOMAIN rows /\ rows[i].kind = "message"
        BY <1>6 DEF ProposeChange, OrderInv
      <3>2. QED BY <3>1, RowDomain, RowTyped
    <2>2. rows' \in Seq(MessageRow \cup MemoryRow) /\ Len(rows') = Len(rows)
      BY <1>6, <2>1, SettleRow DEF ProposeChange, RowStates
    <2>3. rows[i].say.date \in AnyDate
      BY <2>1, EpisodesAssumption DEF MessageRow, AnyDate
    <2>4. mem' \in [Memories -> Records] /\ timing' \in [Memories -> Timings]
      BY <1>6, <2>3, ChangeTyped DEF ProposeChange, MemStates
    <2>5. worker' \in [at : {"down", "idle", "turn", "reply", "ready", "sending"}, row : 0..MaxRows]
      BY <1>6 DEF ProposeChange, TypeInv
    <2>6. dialogue' \in Dialogues /\ handled' \in [1..MaxRows -> Answers]
      BY <1>6, <2>1, OfferFits DEF ProposeChange, TypeInv
    <2>7. QED BY <1>6, <2>2, <2>4, <2>5, <2>6 DEF ProposeChange, TypeInv
  <1>7. CASE Handle
    <2> DEFINE i == worker.row
    <2>1. i \in 1..MaxRows /\ i \in Nat
      BY <1>7, RowDomain DEF Handle, OrderInv
    <2>2. dialogue' \in Dialogues
      BY <1>7, HandleOutcome DEF Answering, TypeInv
    <2>3. handled' \in [1..MaxRows -> Answers]
      <3>1. handled' = handled \/ \E a \in Answers : handled' = [handled EXCEPT ![i] = a]
        BY <1>7, HandleOutcome DEF Answering
      <3>2. QED BY <3>1 DEF TypeInv
    <2>4. timing' \in [Memories -> Timings]
      <3>1. timing' = timing \/ \E m \in Memories : Confirms(i, m)
        BY <1>7, HandleOutcome
      <3>2. ASSUME NEW m \in Memories, Confirms(i, m) PROVE timing' \in [Memories -> Timings]
        <4>1. PICK d \in AnyDate : SaveConfirmation(m, d, i)
          BY <3>2 DEF Confirms, TypeInv, Dialogues, AnyDate
        <4>2. QED BY <2>1, <4>1, ConfirmationTyped
      <3>3. QED BY <3>1, <3>2 DEF TypeInv
    <2>5. told' \in [1..MaxRows -> SUBSET Answers]
      BY <1>7, <2>1, <2>3 DEF Handle, TypeInv
    <2>6. worker' \in [at : {"down", "idle", "turn", "reply", "ready", "sending"}, row : 0..MaxRows]
      BY <1>7 DEF Handle, TypeInv
    <2>7. QED BY <1>7, <2>2, <2>3, <2>4, <2>5, <2>6 DEF Handle, TypeInv
  <1>8. CASE Propose \/ ProposalFails
    <2>1. worker.row \in DOMAIN rows /\ 0 \in 0..MaxRows
      <3>1. 0 \in 0..MaxRows
        BY EpisodesAssumption
      <3>2. QED BY <1>8, <3>1 DEF Propose, ProposalFails, OrderInv
    <2>2. PICK s \in RowStates : Settle(worker.row, s)
      BY <1>8 DEF Propose, ProposalFails, RowStates
    <2>3. rows' \in Seq(MessageRow \cup MemoryRow) /\ Len(rows') = Len(rows)
      BY <2>1, <2>2, SettleRow
    <2>4. worker' \in [at : {"down", "idle", "turn", "reply", "ready", "sending"}, row : 0..MaxRows]
      <3>1. worker' = [worker EXCEPT !.at = "ready"] \/ worker' = [at |-> "idle", row |-> 0]
        BY <1>8 DEF Propose, ProposalFails
      <3>2. QED BY <2>1, <3>1 DEF TypeInv
    <2>5. QED BY <1>8, <2>3, <2>4 DEF Propose, ProposalFails, TypeInv
  <1>9. CASE Dispatch \/ Crash
    BY <1>9 DEF Dispatch, Crash, TypeInv
  <1>10. CASE Expire
    <2>1. dialogue' \in Dialogues
      BY <1>10 DEF Expire, TypeInv, Dialogues
    <2>2. QED BY <1>10, <2>1 DEF Expire, TypeInv
  <1>11. CASE Restart
    <2>1. rows' \in Seq(MessageRow \cup MemoryRow) /\ Len(rows') = Len(rows)
      BY <1>11, RestartRows
    <2>2. 0 \in 0..MaxRows
      BY EpisodesAssumption
    <2>3. QED BY <1>11, <2>1, <2>2 DEF Restart, TypeInv
  <1>12. QED BY <1>1, <1>2, <1>4, <1>5, <1>6, <1>7, <1>8, <1>9, <1>10, <1>11

LEMMA EpisodesTypeStep == ASSUME TypeInv, OrderInv, Fits(dialogue), [Next]_vars PROVE TypeInv'
  <1>1. CASE UNCHANGED vars
    BY <1>1 DEF TypeInv, vars
  <1>2. CASE Next
    BY <1>2, PeopleTyped, WorkTyped DEF Next, MemStates, AnyDate, Flags
  <1>3. QED BY <1>1, <1>2

-----------------------------------------------------------------------------
(* The order of the rows *)

\* A row that was begun is the first that is open.
LEMMA BegunIsHead ==
  ASSUME TypeInv, OrderInv, NEW i \in DOMAIN rows, rows[i].state \in {"generating", "outbox_ready", "needs_review"}
  PROVE  Open(i) /\ \A j \in DOMAIN rows : j < i => ~Open(j)
  <1>1. QED BY DEF OrderInv, Open

LEMMA SettleKeepsOrder ==
  ASSUME TypeInv, OrderInv, NEW i \in DOMAIN rows, NEW s \in RowStates, Settle(i, s),
         Open(i), \A j \in DOMAIN rows : j < i => ~Open(j)
  PROVE  \A j, k \in DOMAIN rows' : j < k /\ Open(j)' => rows'[k].state = "queued"
  <1>1. DOMAIN rows' = DOMAIN rows /\ \A k \in DOMAIN rows : k # i => rows'[k] = rows[k]
    BY SettleRow
  <1>2. ASSUME NEW j \in DOMAIN rows, NEW k \in DOMAIN rows, j < k, Open(j)' PROVE rows'[k].state = "queued"
    <2>1. j = i \/ Open(j)
      BY <1>1, <1>2 DEF Open
    <2>2. k # i
      BY <1>1, <1>2, RowDomain DEF Open
    <2>3. QED BY <1>1, <1>2, <2>1, <2>2 DEF OrderInv
  <1>3. QED BY <1>1, <1>2

LEMMA AdmitKeepsOrder ==
  ASSUME TypeInv, OrderInv, NEW r \in MessageRow \cup MemoryRow, r.state = "queued",
         rows' = Append(rows, r), UNCHANGED worker
  PROVE  OrderInv'
  <1>1. /\ DOMAIN rows' = DOMAIN rows \cup {Len(rows) + 1}
        /\ \A k \in DOMAIN rows : rows'[k] = rows[k]
        /\ rows'[Len(rows) + 1] = r
        /\ DOMAIN rows = 1..Len(rows) /\ Len(rows) \in Nat
    BY AppendRow, RowDomain
  <1>2. QED BY <1>1 DEF OrderInv, Open

LEMMA OrderStep == ASSUME TypeInv, OrderInv, Fits(dialogue), [Next]_vars PROVE OrderInv'
  <1>1. ASSUME NEW s \in Says, Admit(s) PROVE OrderInv'
    <2>1. [kind |-> "message", state |-> "queued", say |-> s] \in MessageRow \cup MemoryRow
      BY DEF MessageRow, RowStates
    <2>2. QED BY <1>1, <2>1, AdmitKeepsOrder DEF Admit
  <1>2. ASSUME NEW m \in Memories, NEW s \in MemStates, AdminChange(m, s) PROVE OrderInv'
    <2> DEFINE r == [kind |-> "memory", state |-> "queued", mem |-> m, base |-> mem[m].ver, to |-> s]
    <2>1. r \in MessageRow \cup MemoryRow /\ r.state = "queued"
      BY <1>2 DEF AdminChange, MemoryRow, RowStates, TypeInv, Records
    <2>2. rows' = Append(rows, r) /\ UNCHANGED worker
      BY <1>2 DEF AdminChange
    <2> HIDE DEF r
    <2>3. QED BY <2>1, <2>2, AdmitKeepsOrder
  <1>3. ASSUME NEW i \in DOMAIN rows, TakeMemory(i) PROVE OrderInv'
    <2>1. PICK s \in {"completed", "failed"} : Settle(i, s)
      BY <1>3 DEF TakeMemory
    <2>2. Open(i) /\ \A j \in DOMAIN rows : j < i => ~Open(j)
      BY <1>3, RowDomain DEF TakeMemory, IsHead
    <2>3. worker' = worker /\ worker.at = "idle"
      BY <1>3 DEF TakeMemory
    <2>4. QED BY <2>1, <2>2, <2>3, SettleKeepsOrder DEF OrderInv, RowStates
  <1>4. ASSUME NEW i \in DOMAIN rows, TakeMessage(i) PROVE OrderInv'
    <2>1. Open(i) /\ \A j \in DOMAIN rows : j < i => ~Open(j)
      BY <1>4, RowDomain DEF TakeMessage, IsHead
    <2>2. CASE Settle(i, "generating") /\ worker' = [at |-> "turn", row |-> i]
      <3>1. rows'[i].state = "generating" /\ rows'[i].kind = "message" /\ i \in DOMAIN rows'
        BY <1>4, <2>2, SettleRow DEF TakeMessage, RowStates
      <3>2. \A j, k \in DOMAIN rows' : j < k /\ Open(j)' => rows'[k].state = "queued"
        BY <2>1, <2>2, SettleKeepsOrder DEF RowStates
      <3>3. QED BY <2>2, <3>1, <3>2 DEF OrderInv
    <2>3. CASE rows[i].state = "outbox_ready" /\ worker' = [at |-> "ready", row |-> i] /\ UNCHANGED rows
      BY <1>4, <2>3 DEF OrderInv, Open
    <2>4. QED BY <1>4, <2>2, <2>3 DEF TakeMessage
  <1>5. ASSUME NEW i \in DOMAIN rows, Resolve(i) PROVE OrderInv'
    <2>1. PICK s \in {"completed", "cancelled"} : Settle(i, s)
      BY <1>5 DEF Resolve, CommitSent
    <2>2. \A j, k \in DOMAIN rows' : j < k /\ Open(j)' => rows'[k].state = "queued"
      BY <1>5, <2>1, SettleKeepsOrder, BegunIsHead DEF Resolve, RowStates
    <2>3. \A k \in DOMAIN rows : k \in DOMAIN rows' /\ (k # i => rows'[k] = rows[k])
      BY <2>1, SettleRow DEF RowStates
    <2>4. worker' = worker /\ rows[i].state = "needs_review"
      BY <1>5 DEF Resolve
    <2>5. QED BY <2>2, <2>3, <2>4 DEF OrderInv
  <1>6. CASE FinishDelivery \/ ProposalFails
    <2>1. worker.row \in DOMAIN rows /\ rows[worker.row].state \in {"generating", "outbox_ready"}
      BY <1>6 DEF FinishDelivery, ProposalFails, OrderInv
    <2>2. PICK s \in RowStates : Settle(worker.row, s)
      BY <1>6 DEF FinishDelivery, ProposalFails, CommitSent, RowStates
    <2>3. \A j, k \in DOMAIN rows' : j < k /\ Open(j)' => rows'[k].state = "queued"
      BY <2>1, <2>2, SettleKeepsOrder, BegunIsHead
    <2>4. worker' = [at |-> "idle", row |-> 0]
      BY <1>6 DEF FinishDelivery, ProposalFails
    <2>5. QED BY <2>3, <2>4 DEF OrderInv
  <1>7. CASE Propose \/ \E m \in Memories, s \in {"open", "completed"} : ProposeChange(m, s)
    <2>1. worker.row \in DOMAIN rows /\ rows[worker.row].state = "generating" /\ Settle(worker.row, "outbox_ready")
      BY <1>7 DEF Propose, ProposeChange, OrderInv
    <2>2. \A j, k \in DOMAIN rows' : j < k /\ Open(j)' => rows'[k].state = "queued"
      BY <2>1, SettleKeepsOrder, BegunIsHead DEF RowStates
    <2>3. rows'[worker.row].state = "outbox_ready" /\ worker.row \in DOMAIN rows'
      BY <2>1, SettleRow DEF RowStates
    <2>4. worker'.at = "ready" /\ worker'.row = worker.row
      BY <1>7 DEF Propose, ProposeChange, TypeInv
    <2>5. QED BY <2>2, <2>3, <2>4 DEF OrderInv
  <1>8. CASE Handle \/ Dispatch
    <2>1. /\ worker'.row = worker.row /\ rows' = rows
          /\ \/ worker.at = "turn" /\ worker'.at = "reply"
             \/ worker.at = "ready" /\ worker'.at = "sending"
      BY <1>8 DEF Handle, Dispatch, TypeInv
    <2>2. QED BY <2>1 DEF OrderInv, Open
  <1>9. CASE Restart
    <2>1. worker'.at = "idle"
      BY <1>9 DEF Restart
    <2>2. ASSUME NEW j \in DOMAIN rows, NEW k \in DOMAIN rows, j < k, Open(j)' PROVE rows'[k].state = "queued"
      <3>1. Open(j)
        BY <1>9, <2>2, RestartRows DEF Open
      <3>2. rows[k].state = "queued"
        BY <2>2, <3>1 DEF OrderInv
      <3>3. QED BY <1>9, <3>2, RestartRows
    <2>3. DOMAIN rows' = DOMAIN rows
      BY <1>9, RestartRows
    <2>4. QED BY <2>1, <2>2, <2>3 DEF OrderInv
  <1>10. CASE Crash
    BY <1>10 DEF Crash, OrderInv, Open
  <1>11. CASE /\ UNCHANGED <<rows, worker>>
              /\ \/ UNCHANGED vars \/ Expire
                 \/ \E m \in Memories, d \in AnyDate : AdminTime(m, d)
                 \/ \E z \in BOOLEAN : ContactRequest(z)
    BY <1>11 DEF OrderInv, Open
  <1>12. QED
    BY <1>1, <1>2, <1>3, <1>4, <1>5, <1>6, <1>7, <1>8, <1>9, <1>10, <1>11
    DEF Next, vars, MemStates, AnyDate, Expire, AdminTime, ContactRequest

-----------------------------------------------------------------------------
(* Records and times *)

LEMMA ChangeKeepsTimes ==
  ASSUME TypeInv, TimeInv, NEW m \in Memories, NEW s \in MemStates, NEW by \in {"model", "admin"}, NEW guess \in AnyDate,
         ApplyChange(m, s, by, guess), UNCHANGED policy
  PROVE  TimeInv'
  <1>1. mem[m].ver \in Nat /\ policy.zone \in Flags /\ mem[m].ver + 1 \in Nat
    BY DEF TypeInv, Records
  <1>2. mem'[m] = [ver |-> mem[m].ver + 1, state |-> s, by |-> by]
    BY ChangeTyped
  <1> DEFINE gone == [NoTiming EXCEPT !.mver = mem[m].ver, !.state = "invalidated"]
  <1>2a. timing'[m] = IF s = "open" THEN Extracted(mem[m].ver + 1, guess, policy.zone) ELSE gone
    BY ChangeTyped, ZenonT(40)
  <1>3. timing'[m].state # "confirmed"
        /\ (s = "open" => timing'[m].mver = mem[m].ver + 1 /\ timing'[m].zone = policy.zone)
    <2>1. CASE s = "open"
      <3>1. timing'[m] = Extracted(mem[m].ver + 1, guess, policy.zone)
        BY <1>2a, <2>1
      <3>2. QED BY <1>1, <3>1, ExtractedTyped
    <2>2. CASE s # "open"
      <3>1. timing'[m] = gone /\ gone.state = "invalidated"
        BY <1>2a, <2>2 DEF NoTiming
      <3>2. QED BY <2>2, <3>1
    <2>3. QED BY <2>1, <2>2
  <1>4. \A n \in Memories : n # m => mem'[n] = mem[n] /\ timing'[n] = timing[n]
    BY ChangeTyped
  <1>5. ASSUME NEW n \in Memories
        PROVE  /\ IsOpen(n)' => Current(n)' /\ timing'[n].zone = policy'.zone
               /\ timing'[n].state = "confirmed" => IsOpen(n)' /\ timing'[n].date \in Dates
               /\ mem'[n].ver = 0 => mem'[n].by = "model"
    <2>1. CASE n = m
      BY <1>1, <1>2, <1>3, <2>1 DEF IsOpen, Current
    <2>2. CASE n # m
      BY <1>4, <2>2 DEF TimeInv, IsOpen, Current
    <2>3. QED BY <2>1, <2>2
  <1>6. QED BY <1>5 DEF TimeInv

LEMMA ConfirmKeepsTimes ==
  ASSUME TypeInv, TimeInv, NEW m \in Memories, NEW date \in AnyDate, NEW by \in Nat, SaveConfirmation(m, date, by),
         IsOpen(m), UNCHANGED <<mem, policy>>
  PROVE  TimeInv'
  <1>1. /\ timing'[m].zone = timing[m].zone /\ timing'[m].mver = timing[m].mver
        /\ timing'[m].date = date /\ (timing'[m].state = "confirmed" => date # NoDate)
    BY ConfirmationTyped
  <1>2. \A n \in Memories : n # m => timing'[n] = timing[n]
    BY ConfirmationTyped
  <1>3. ASSUME NEW n \in Memories
        PROVE  /\ IsOpen(n)' => Current(n)' /\ timing'[n].zone = policy'.zone
               /\ timing'[n].state = "confirmed" => IsOpen(n)' /\ timing'[n].date \in Dates
               /\ mem'[n].ver = 0 => mem'[n].by = "model"
    BY <1>1, <1>2 DEF TimeInv, IsOpen, Current, AnyDate
  <1>4. QED BY <1>3 DEF TimeInv

LEMMA TimeStep == ASSUME TypeInv, OrderInv, TimeInv, Fits(dialogue), [Next]_vars PROVE TimeInv'
  <1>1. ASSUME NEW i \in DOMAIN rows, TakeMemory(i) PROVE TimeInv'
    <2>1. rows[i].mem \in Memories /\ rows[i].to \in MemStates /\ NoDate \in AnyDate
      <3>1. rows[i] \in MemoryRow
        BY <1>1, RowTyped DEF TakeMemory
      <3>2. QED BY <3>1 DEF MemoryRow, AnyDate
    <2>2. CASE ApplyChange(rows[i].mem, rows[i].to, "admin", NoDate)
      BY <1>1, <2>1, <2>2, ChangeKeepsTimes DEF TakeMemory
    <2>3. CASE UNCHANGED <<mem, timing>>
      BY <1>1, <2>3 DEF TakeMemory, TimeInv, IsOpen, Current
    <2>4. QED BY <1>1, <2>2, <2>3 DEF TakeMemory
  <1>2. ASSUME NEW m \in Memories, NEW s \in {"open", "completed"}, ProposeChange(m, s) PROVE TimeInv'
    <2> DEFINE guess == rows[worker.row].say.date
    <2>1. guess \in AnyDate
      <3>1. rows[worker.row] \in MessageRow
        BY <1>2, RowTyped DEF ProposeChange, OrderInv
      <3>2. QED BY <3>1, EpisodesAssumption DEF MessageRow, AnyDate
    <2>2. ApplyChange(m, s, "model", guess) /\ UNCHANGED policy
      BY <1>2 DEF ProposeChange
    <2> HIDE DEF guess
    <2>3. QED BY <2>1, <2>2, ChangeKeepsTimes DEF MemStates
  <1>3. ASSUME NEW m \in Memories, NEW d \in AnyDate, AdminTime(m, d) PROVE TimeInv'
    BY <1>3, ConfirmKeepsTimes DEF AdminTime
  <1>4. ASSUME NEW z \in Flags, ContactRequest(z) PROVE TimeInv'
    <2>1. policy'.zone = z /\ UNCHANGED mem
      BY <1>4 DEF ContactRequest
    <2>2. ASSUME NEW n \in Memories
          PROVE  /\ IsOpen(n)' => Current(n)' /\ timing'[n].zone = policy'.zone
                 /\ timing'[n].state = "confirmed" => IsOpen(n)' /\ timing'[n].date \in Dates
                 /\ mem'[n].ver = 0 => mem'[n].by = "model"
      <3>1. timing'[n] = Rezoned(n, z)
        BY <1>4 DEF ContactRequest, RequestSyncs
      <3>2. \/ timing'[n] = timing[n] /\ (IsOpen(n) => timing[n].zone = z)
            \/ timing'[n].state = "proposed" /\ timing'[n].zone = z /\ timing'[n].mver = timing[n].mver
        BY <3>1, RezonedTyped
      <3>3. QED BY <2>1, <3>2 DEF TimeInv, IsOpen, Current
    <2>3. QED BY <2>2 DEF TimeInv
  <1>5. CASE Handle
    <2>1. UNCHANGED <<mem, policy>>
      BY <1>5 DEF Handle
    <2>2. CASE timing' = timing
      BY <2>1, <2>2 DEF TimeInv, IsOpen, Current
    <2>3. ASSUME NEW m \in Memories, Confirms(worker.row, m) PROVE TimeInv'
      <3>1. PICK d \in AnyDate : SaveConfirmation(m, d, worker.row)
        BY <2>3 DEF Confirms, TypeInv, Dialogues, AnyDate
      <3>2. IsOpen(m) /\ worker.row \in Nat
        BY <2>3, EpisodesAssumption DEF Confirms, MaySave, ValidTarget, TypeInv
      <3>3. QED BY <2>1, <3>1, <3>2, ConfirmKeepsTimes
    <2>4. QED BY <1>5, <2>2, <2>3, HandleOutcome
  <1>6. CASE UNCHANGED <<mem, timing, policy>>
    BY <1>6 DEF TimeInv, IsOpen, Current
  <1>7. QED
    BY <1>1, <1>2, <1>3, <1>4, <1>5, <1>6
    DEF Next, vars, AnyDate, Flags, Admit, AdminChange, TakeMessage, Resolve, Propose, ProposalFails, Dispatch,
        FinishDelivery, Expire, Crash, Restart

-----------------------------------------------------------------------------
(* Questions *)

LEMMA AdmitKeepsQuestion ==
  ASSUME TypeInv, QuestionInv, NEW r \in MessageRow \cup MemoryRow, rows' = Append(rows, r), UNCHANGED <<dialogue, shown>>,
         \/ r.kind = "memory" /\ UNCHANGED asked
         \/ asked' = [asked EXCEPT ![Len(rows) + 1] = shown] /\ Len(rows) < MaxRows
  PROVE  QuestionInv'
  <1>1. /\ Len(rows') = Len(rows) + 1
        /\ DOMAIN rows' = DOMAIN rows \cup {Len(rows) + 1}
        /\ \A k \in DOMAIN rows : rows'[k] = rows[k]
        /\ rows'[Len(rows) + 1] = r
        /\ DOMAIN rows = 1..Len(rows) /\ Len(rows) \in Nat
    BY AppendRow, RowDomain
  <1> DEFINE p == dialogue.prompt
  <1>2. ASSUME dialogue.stage # "none"
        PROVE  p \in DOMAIN rows' /\ \A j \in DOMAIN rows' : j < p => ~Open(j)'
    BY <1>1, <1>2 DEF QuestionInv, Open
  <1>3. ASSUME dialogue.stage # "none", dialogue.min # 0
        PROVE  /\ ~Open(p)' /\ Len(rows') # p
               /\ dialogue.min <= p + 1 /\ rows'[p + 1].kind = "message" => asked'[p + 1] = Content(dialogue)
    <2>1. p \in 1..Len(rows) /\ ~Open(p)
      BY <1>1, <1>3 DEF QuestionInv
    <2>2. CASE p = Len(rows)
      <3>1. shown = Content(dialogue) /\ rows'[p + 1] = r
        BY <1>1, <1>3, <2>2 DEF QuestionInv
      <3>2. r.kind = "message" => asked'[p + 1] = shown
        BY <2>1, <2>2, EpisodesAssumption DEF TypeInv
      <3>3. QED BY <1>1, <2>1, <3>1, <3>2 DEF Open
    <2>3. CASE p < Len(rows)
      <3>1. p + 1 \in DOMAIN rows /\ rows'[p + 1] = rows[p + 1]
        BY <1>1, <2>1, <2>3
      <3>2. asked'[p + 1] = asked[p + 1]
        BY <1>1, <2>1, <2>3, EpisodesAssumption, SMTT(30) DEF TypeInv
      <3>3. QED BY <1>1, <1>3, <2>1, <2>3, <3>1, <3>2 DEF QuestionInv, Open
    <2>4. QED BY <1>1, <2>1, <2>2, <2>3
  <1>4. QED BY <1>2, <1>3 DEF QuestionInv, Fits, Content

\* A row that is open is settled, or sent.
LEMMA SettleKeepsQuestion ==
  ASSUME TypeInv, QuestionInv, NEW i \in DOMAIN rows, NEW s \in RowStates, Settle(i, s), Open(i),
         \A j \in DOMAIN rows : j < i => ~Open(j), UNCHANGED asked,
         UNCHANGED <<dialogue, shown>> \/ (s = "completed" /\ CommitSent(i))
  PROVE  QuestionInv'
  <1> DEFINE p == dialogue.prompt
  <1>1. /\ Len(rows') = Len(rows) /\ DOMAIN rows' = DOMAIN rows
        /\ \A k \in DOMAIN rows : rows'[k].kind = rows[k].kind
        /\ \A k \in DOMAIN rows : k # i => rows'[k] = rows[k]
        /\ rows'[i].state = s
        /\ DOMAIN rows = 1..Len(rows) /\ Len(rows) \in Nat
    BY SettleRow, RowDomain
  <1>2. \A k \in DOMAIN rows : ~Open(k) => ~Open(k)'
    BY <1>1 DEF Open
  <1>3. CASE UNCHANGED <<dialogue, shown>>
    <2>1. ASSUME dialogue.stage # "none", dialogue.min # 0, Len(rows) > p
          PROVE  p + 1 \in DOMAIN rows
      BY <1>1, <2>1 DEF QuestionInv
    <2>2. QED BY <1>1, <1>2, <1>3, <2>1 DEF QuestionInv, Fits, Content
  <1>4. CASE s = "completed" /\ CommitSent(i) /\ dialogue.stage # "none" /\ p = i
    <2>1. dialogue.min = 0
      BY <1>4 DEF QuestionInv
    <2>2. dialogue' = [dialogue EXCEPT !.min = Len(rows) + 1] /\ shown' = Content(dialogue)
      BY <1>4, <2>1 DEF CommitSent, Delivered, Shown, Content
    <2>3. Content(dialogue') = Content(dialogue) /\ Fits(dialogue') /\ dialogue'.prompt = i /\ dialogue'.min = Len(rows) + 1
      BY <1>4, <2>2 DEF QuestionInv, Fits, Content, TypeInv, Dialogues
    <2>4. ~Open(i)'
      BY <1>1, <1>4 DEF Open
    <2>5. Len(rows') > i => ~(dialogue'.min <= i + 1)
      BY <1>1, <2>3
    <2>6. QED BY <1>1, <1>2, <2>2, <2>3, <2>4, <2>5 DEF QuestionInv
  <1>5. CASE s = "completed" /\ CommitSent(i) /\ ~(dialogue.stage # "none" /\ p = i)
    <2>1. dialogue' = dialogue
      BY <1>5 DEF CommitSent, Delivered
    <2>2. dialogue.stage # "none" => Len(rows) # p
      <3>1. ASSUME dialogue.stage # "none", Len(rows) = p PROVE FALSE
        <4>1. i < p
          BY <1>1, <1>5, <3>1
        <4>2. QED BY <3>1, <4>1 DEF QuestionInv
      <3>2. QED BY <3>1
    <2>3. ASSUME dialogue.stage # "none", Len(rows) > p PROVE p + 1 \in DOMAIN rows
      BY <1>1, <2>3 DEF QuestionInv
    <2>4. QED BY <1>1, <1>2, <2>1, <2>2, <2>3 DEF QuestionInv, Fits, Content
  <1>6. QED BY <1>3, <1>4, <1>5

LEMMA NewQuestion ==
  ASSUME TypeInv, Fits(dialogue'), NEW i \in DOMAIN rows, \A j \in DOMAIN rows : j < i => ~Open(j)',
         DOMAIN rows' = DOMAIN rows, dialogue'.stage = "none" \/ (dialogue'.prompt = i /\ dialogue'.min = 0)
  PROVE  QuestionInv'
  <1>1. QED BY DEF QuestionInv

LEMMA QuestionStep == ASSUME TypeInv, OrderInv, QuestionInv, [Next]_vars PROVE QuestionInv'
  <1>a. Fits(dialogue)
    BY DEF QuestionInv
  <1>1. ASSUME NEW s \in Says, Admit(s) PROVE QuestionInv'
    <2> DEFINE r == [kind |-> "message", state |-> "queued", say |-> s]
    <2>1. r \in MessageRow \cup MemoryRow
      BY DEF MessageRow, RowStates
    <2>2. rows' = Append(rows, r) /\ UNCHANGED <<dialogue, shown>> /\ Len(rows) < MaxRows
          /\ asked' = [asked EXCEPT ![Len(rows) + 1] = shown]
      BY <1>1 DEF Admit
    <2> HIDE DEF r
    <2>3. QED BY <2>1, <2>2, AdmitKeepsQuestion
  <1>2. ASSUME NEW m \in Memories, NEW s \in MemStates, AdminChange(m, s) PROVE QuestionInv'
    <2> DEFINE r == [kind |-> "memory", state |-> "queued", mem |-> m, base |-> mem[m].ver, to |-> s]
    <2>1. r \in MessageRow \cup MemoryRow /\ r.kind = "memory"
      BY <1>2 DEF AdminChange, MemoryRow, RowStates, TypeInv, Records
    <2>2. rows' = Append(rows, r) /\ UNCHANGED <<dialogue, shown, asked>>
      BY <1>2 DEF AdminChange
    <2> HIDE DEF r
    <2>3. QED BY <2>1, <2>2, AdmitKeepsQuestion
  <1>3. ASSUME NEW i \in DOMAIN rows, TakeMemory(i) \/ TakeMessage(i) PROVE QuestionInv'
    <2>1. Open(i) /\ (\A j \in DOMAIN rows : j < i => ~Open(j)) /\ UNCHANGED <<dialogue, shown, asked>>
      <3>1. IsHead(i) /\ UNCHANGED <<dialogue, shown, asked>>
        BY <1>3 DEF TakeMemory, TakeMessage
      <3>2. QED BY <3>1, RowDomain DEF IsHead
    <2>2. UNCHANGED rows \/ \E s \in RowStates : Settle(i, s)
      BY <1>3 DEF TakeMemory, TakeMessage, RowStates
    <2>3. CASE UNCHANGED rows
      BY <2>1, <2>3 DEF QuestionInv, Open, Fits, Content
    <2>4. QED BY <2>1, <2>2, <2>3, SettleKeepsQuestion
  <1>4. ASSUME NEW i \in DOMAIN rows, Resolve(i) PROVE QuestionInv'
    <2>1. Open(i) /\ (\A j \in DOMAIN rows : j < i => ~Open(j)) /\ UNCHANGED asked
      BY <1>4, BegunIsHead DEF Resolve
    <2>2. CASE CommitSent(i)
      BY <2>1, <2>2, SettleKeepsQuestion DEF CommitSent, RowStates
    <2>3. CASE Settle(i, "cancelled") /\ UNCHANGED <<dialogue, shown>>
      BY <2>1, <2>3, SettleKeepsQuestion DEF RowStates
    <2>4. QED BY <1>4, <2>2, <2>3 DEF Resolve
  <1>5. CASE FinishDelivery
    <2> DEFINE i == worker.row
    <2>1. i \in DOMAIN rows /\ Open(i) /\ (\A j \in DOMAIN rows : j < i => ~Open(j)) /\ UNCHANGED asked
      BY <1>5, BegunIsHead DEF FinishDelivery, OrderInv
    <2>2. CASE CommitSent(i)
      BY <2>1, <2>2, SettleKeepsQuestion DEF CommitSent, RowStates
    <2>3. CASE Settle(i, "needs_review") /\ UNCHANGED <<dialogue, shown>>
      BY <2>1, <2>3, SettleKeepsQuestion DEF RowStates
    <2>4. QED BY <1>5, <2>2, <2>3 DEF FinishDelivery
  <1>6. CASE Propose \/ ProposalFails
    <2>1. worker.row \in DOMAIN rows /\ rows[worker.row].state = "generating" /\ UNCHANGED <<dialogue, shown, asked>>
      BY <1>6 DEF Propose, ProposalFails, OrderInv
    <2>2. PICK s \in RowStates : Settle(worker.row, s)
      BY <1>6 DEF Propose, ProposalFails, RowStates
    <2>3. QED BY <2>1, <2>2, BegunIsHead, SettleKeepsQuestion
  <1>7. ASSUME NEW m \in Memories, NEW s \in {"open", "completed"}, ProposeChange(m, s) PROVE QuestionInv'
    <2> DEFINE i == worker.row
    <2>1. i \in DOMAIN rows /\ rows[i].state = "generating" /\ rows[i] \in MessageRow /\ Settle(i, "outbox_ready")
          /\ UNCHANGED <<shown, asked>>
      BY <1>7, RowTyped DEF ProposeChange, OrderInv
    <2>2. \A j \in DOMAIN rows : j < i => ~Open(j)
      BY <2>1, BegunIsHead
    <2>3. CASE UNCHANGED <<dialogue, handled>>
      BY <2>1, <2>2, <2>3, BegunIsHead, SettleKeepsQuestion DEF RowStates
    <2>4. CASE Fits(dialogue') /\ dialogue'.prompt = i /\ dialogue'.min = 0
      <3>1. DOMAIN rows' = DOMAIN rows /\ \A j \in DOMAIN rows : j < i => ~Open(j)'
        BY <2>1, <2>2, SettleRow, RowDomain DEF RowStates, Open
      <3>2. QED BY <2>1, <2>4, <3>1, NewQuestion
    <2>5. QED BY <1>7, <2>1, <2>3, <2>4, OfferFits
  <1>8. CASE Handle
    <2> DEFINE i == worker.row
    <2>1. i \in DOMAIN rows /\ (\A j \in DOMAIN rows : j < i => ~Open(j)) /\ UNCHANGED <<rows, shown, asked>>
      BY <1>8, BegunIsHead DEF Handle, OrderInv
    <2>2. \/ dialogue' = dialogue
          \/ Fits(dialogue') /\ (dialogue'.stage = "none" \/ (dialogue'.prompt = i /\ dialogue'.min = 0))
      BY <1>a, <1>8, HandleOutcome DEF Answering
    <2>3. CASE dialogue' = dialogue
      BY <2>1, <2>3 DEF QuestionInv, Open, Fits, Content
    <2>4. \A j \in DOMAIN rows : j < i => ~Open(j)'
      BY <2>1 DEF Open
    <2>5. QED BY <2>1, <2>2, <2>3, <2>4, NewQuestion
  <1>9. CASE Restart
    <2>1. /\ Len(rows') = Len(rows) /\ DOMAIN rows' = DOMAIN rows
          /\ \A k \in DOMAIN rows : rows'[k].kind = rows[k].kind /\ (~Open(k) => ~Open(k)')
          /\ UNCHANGED <<dialogue, shown, asked>>
      BY <1>9, RestartRows DEF Restart, Open
    <2>2. ASSUME dialogue.stage # "none", Len(rows) > dialogue.prompt PROVE dialogue.prompt + 1 \in DOMAIN rows
      BY <2>2, RowDomain DEF QuestionInv
    <2>3. QED BY <2>1, <2>2 DEF QuestionInv, Fits, Content
  <1>10. CASE Expire
    <2>1. dialogue' = [dialogue EXCEPT !.late = TRUE] /\ UNCHANGED <<rows, shown, asked>>
      BY <1>10 DEF Expire
    <2>2. /\ Content(dialogue') = Content(dialogue) /\ Fits(dialogue')
          /\ dialogue'.stage = dialogue.stage /\ dialogue'.prompt = dialogue.prompt /\ dialogue'.min = dialogue.min
      BY <1>a, <2>1 DEF Fits, Content, TypeInv, Dialogues
    <2>3. QED BY <2>1, <2>2 DEF QuestionInv, Open
  <1>11. CASE UNCHANGED <<rows, dialogue, shown, asked>>
    BY <1>11 DEF QuestionInv, Open, Fits, Content
  <1>12. QED
    BY <1>1, <1>2, <1>3, <1>4, <1>5, <1>6, <1>7, <1>8, <1>9, <1>10, <1>11
    DEF Next, vars, MemStates, AdminTime, ContactRequest, Dispatch, Crash

-----------------------------------------------------------------------------
(* Confirmations *)

\* A time that is not of a user's confirmation, or that stays as it was.
LEMMA OthersKeepConfirmed ==
  ASSUME TypeInv, ConfirmInv, Len(rows') \in Nat, Len(rows) <= Len(rows'),
         \A i \in 1..Len(rows) : asked'[i] = asked[i],
         \A m \in Memories : \/ timing'[m] = timing[m]
                             \/ timing'[m].by = 0
                             \/ timing'[m].state # "confirmed" /\ timing'[m].by = timing[m].by
  PROVE  ConfirmInv'
  <1>1. Len(rows) \in Nat
    BY RowDomain
  <1>2. ASSUME NEW m \in Memories
        PROVE  /\ timing'[m].by \in 0..Len(rows')
               /\ timing'[m].state = "confirmed" /\ timing'[m].by > 0 =>
                    timing'[m] = timing[m] /\ asked'[timing[m].by] = asked[timing[m].by]
    <2>1. timing[m].by \in 0..Len(rows)
      BY DEF ConfirmInv
    <2>2. CASE timing'[m] = timing[m]
      BY <1>1, <2>1, <2>2
    <2>3. CASE timing'[m].by = 0
      BY <2>3
    <2>4. CASE timing'[m].state # "confirmed" /\ timing'[m].by = timing[m].by
      BY <1>1, <2>1, <2>4
    <2>5. QED BY <2>2, <2>3, <2>4
  <1>3. \A m \in Memories : timing'[m].by \in 0..Len(rows')
    BY <1>2
  <1>4. ConfirmedAsShown'
    <2>1. ASSUME NEW m \in Memories, timing'[m].state = "confirmed", timing'[m].by > 0
          PROVE  asked'[timing'[m].by] =
                   [seq |-> timing'[m].by - 1, mem |-> {m}, mver |-> timing'[m].mver, op |-> "confirm", date |-> timing'[m].date]
      BY <1>2, <2>1 DEF ConfirmInv, ConfirmedAsShown
    <2>2. QED BY <2>1 DEF ConfirmedAsShown
  <1>5. QED BY <1>3, <1>4 DEF ConfirmInv

LEMMA ChangeUnconfirms ==
  ASSUME TypeInv, NEW m \in Memories, NEW s \in MemStates, NEW by \in {"model", "admin"}, NEW guess \in AnyDate,
         ApplyChange(m, s, by, guess)
  PROVE  \A n \in Memories : timing'[n] = timing[n] \/ timing'[n].by = 0
  <1> DEFINE gone == [NoTiming EXCEPT !.mver = mem[m].ver, !.state = "invalidated"]
  <1>1. timing'[m] = IF s = "open" THEN Extracted(mem[m].ver + 1, guess, policy.zone) ELSE gone
    BY ChangeTyped, ZenonT(40)
  <1>2. gone.by = 0
    BY DEF NoTiming
  <1>3. mem[m].ver + 1 \in Nat /\ policy.zone \in Flags
    BY DEF TypeInv, Records
  <1> HIDE DEF gone
  <1>4. timing'[m].by = 0
    BY <1>1, <1>2, <1>3, ExtractedTyped
  <1>5. \A n \in Memories : n # m => timing'[n] = timing[n]
    BY ChangeTyped
  <1>6. QED BY <1>4, <1>5

\* An approval that is accepted answers the question that was last shown.
LEMMA ApprovalConfirms ==
  ASSUME TypeInv, QuestionInv, ConfirmInv, NEW i \in DOMAIN rows, rows[i].kind = "message",
         NEW m \in Memories, Confirms(i, m), UNCHANGED <<rows, asked>>
  PROVE  ConfirmInv'
  <1>1. i \in 1..Len(rows) /\ Len(rows) \in Nat
    BY RowDomain
  <1>2. asked[i] = Content(dialogue) /\ dialogue.prompt = i - 1
    <2>1. dialogue.stage # "none" /\ dialogue.min # 0 /\ dialogue.min <= i /\ i = dialogue.prompt + 1
      BY DEF Confirms, Accepts, TypeInv, Dialogues
    <2>2. dialogue.prompt \in Nat
      BY DEF TypeInv, Dialogues
    <2>3. QED BY <1>1, <2>1, <2>2 DEF QuestionInv
  <1>3. timing[m].mver = dialogue.mver /\ dialogue.mem = {m}
    BY DEF Confirms, MaySave, ValidTarget, Current
  <1>4. PICK d \in AnyDate : /\ SaveConfirmation(m, d, i)
                             /\ d # NoDate => dialogue.op = "confirm" /\ d = dialogue.date
    BY DEF Confirms, QuestionInv, Fits, TypeInv, Dialogues, AnyDate
  <1>5. /\ timing'[m].mver = timing[m].mver /\ timing'[m].date = d /\ timing'[m].by = i
        /\ timing'[m].state = "confirmed" => d # NoDate
        /\ \A n \in Memories : n # m => timing'[n] = timing[n]
    BY <1>1, <1>4, ConfirmationTyped
  <1>6. \A n \in Memories : timing'[n].by \in 0..Len(rows')
    BY <1>1, <1>5 DEF ConfirmInv
  <1>7. ASSUME NEW n \in Memories, timing'[n].state = "confirmed", timing'[n].by > 0
        PROVE  asked'[timing'[n].by] =
                 [seq |-> timing'[n].by - 1, mem |-> {n}, mver |-> timing'[n].mver, op |-> "confirm", date |-> timing'[n].date]
    <2>1. CASE n = m
      BY <1>2, <1>3, <1>4, <1>5, <1>7, <2>1 DEF Content
    <2>2. CASE n # m
      BY <1>5, <1>7, <2>2 DEF ConfirmInv, ConfirmedAsShown
    <2>3. QED BY <2>1, <2>2
  <1>8. ConfirmedAsShown'
    BY <1>7 DEF ConfirmedAsShown
  <1>9. QED BY <1>6, <1>8 DEF ConfirmInv

LEMMA ConfirmStep == ASSUME TypeInv, OrderInv, QuestionInv, ConfirmInv, TypeInv', [Next]_vars PROVE ConfirmInv'
  <1>a. Fits(dialogue) /\ Len(rows) \in Nat /\ Len(rows') \in Nat
    BY LenProperties DEF QuestionInv, TypeInv
  <1>1. ASSUME NEW s \in Says, Admit(s) PROVE ConfirmInv'
    <2>1. Len(rows') = Len(rows) + 1
      <3>1. [kind |-> "message", state |-> "queued", say |-> s] \in MessageRow \cup MemoryRow
        BY DEF MessageRow, RowStates
      <3>2. QED BY <1>1, <3>1, AppendRow DEF Admit
    <2>2. \A i \in 1..Len(rows) : asked'[i] = asked[i]
      BY <1>a, <1>1 DEF Admit, TypeInv
    <2>3. timing' = timing
      BY <1>1 DEF Admit
    <2>4. QED BY <1>a, <2>1, <2>2, <2>3, OthersKeepConfirmed
  <1>2. ASSUME NEW m \in Memories, NEW s \in MemStates, AdminChange(m, s) PROVE ConfirmInv'
    <2> DEFINE r == [kind |-> "memory", state |-> "queued", mem |-> m, base |-> mem[m].ver, to |-> s]
    <2>1. r \in MessageRow \cup MemoryRow
      BY <1>2 DEF AdminChange, MemoryRow, RowStates, TypeInv, Records
    <2>2. rows' = Append(rows, r) /\ UNCHANGED <<timing, asked>>
      BY <1>2 DEF AdminChange
    <2> HIDE DEF r
    <2>3. Len(rows') = Len(rows) + 1
      BY <2>1, <2>2, AppendRow
    <2>4. QED BY <1>a, <2>2, <2>3, OthersKeepConfirmed
  <1>3. ASSUME NEW m \in Memories, NEW d \in AnyDate, AdminTime(m, d) PROVE ConfirmInv'
    <2>1. \A n \in Memories : timing'[n] = timing[n] \/ timing'[n].by = 0
      BY <1>3, ConfirmationTyped DEF AdminTime
    <2>2. UNCHANGED <<rows, asked>>
      BY <1>3 DEF AdminTime
    <2>3. QED BY <1>a, <2>1, <2>2, OthersKeepConfirmed
  <1>4. ASSUME NEW z \in Flags, ContactRequest(z) PROVE ConfirmInv'
    <2>1. \A n \in Memories : timing'[n] = timing[n] \/ (timing'[n].state # "confirmed" /\ timing'[n].by = timing[n].by)
      BY <1>4, RezonedTyped DEF ContactRequest, RequestSyncs
    <2>2. UNCHANGED <<rows, asked>>
      BY <1>4 DEF ContactRequest
    <2>3. QED BY <1>a, <2>1, <2>2, OthersKeepConfirmed
  <1>5. ASSUME NEW i \in DOMAIN rows, TakeMemory(i) PROVE ConfirmInv'
    <2>1. rows[i].mem \in Memories /\ rows[i].to \in MemStates /\ NoDate \in AnyDate
      <3>1. rows[i] \in MemoryRow
        BY <1>5, RowTyped DEF TakeMemory
      <3>2. QED BY <3>1 DEF MemoryRow, AnyDate
    <2>2. \A n \in Memories : timing'[n] = timing[n] \/ timing'[n].by = 0
      BY <1>5, <2>1, ChangeUnconfirms DEF TakeMemory
    <2>3. Len(rows') = Len(rows) /\ UNCHANGED asked
      BY <1>5, SettleRow DEF TakeMemory, RowStates
    <2>4. QED BY <1>a, <2>2, <2>3, OthersKeepConfirmed
  <1>6. ASSUME NEW m \in Memories, NEW s \in {"open", "completed"}, ProposeChange(m, s) PROVE ConfirmInv'
    <2> DEFINE guess == rows[worker.row].say.date
    <2>1. guess \in AnyDate /\ worker.row \in DOMAIN rows
      <3>1. rows[worker.row] \in MessageRow /\ worker.row \in DOMAIN rows
        BY <1>6, RowTyped DEF ProposeChange, OrderInv
      <3>2. QED BY <3>1, EpisodesAssumption DEF MessageRow, AnyDate
    <2>2. Len(rows') = Len(rows) /\ UNCHANGED asked
      BY <1>6, <2>1, SettleRow DEF ProposeChange, RowStates
    <2>3. ApplyChange(m, s, "model", guess)
      BY <1>6 DEF ProposeChange
    <2> HIDE DEF guess
    <2>4. \A n \in Memories : timing'[n] = timing[n] \/ timing'[n].by = 0
      BY <2>1, <2>3, ChangeUnconfirms DEF MemStates
    <2>5. QED BY <1>a, <2>2, <2>4, OthersKeepConfirmed
  <1>7. CASE Handle
    <2>1. UNCHANGED <<rows, asked>>
      BY <1>7 DEF Handle
    <2>2. CASE timing' = timing
      BY <1>a, <2>1, <2>2, OthersKeepConfirmed
    <2>3. ASSUME NEW m \in Memories, Confirms(worker.row, m) PROVE ConfirmInv'
      <3>1. worker.row \in DOMAIN rows /\ rows[worker.row].kind = "message"
        BY <1>7 DEF Handle, OrderInv
      <3>2. QED BY <2>1, <2>3, <3>1, ApprovalConfirms
    <2>4. QED BY <1>a, <1>7, <2>2, <2>3, HandleOutcome
  <1>8. CASE Len(rows') = Len(rows) /\ UNCHANGED <<timing, asked>>
    BY <1>a, <1>8, OthersKeepConfirmed
  <1>9. ASSUME \/ \E i \in DOMAIN rows : TakeMessage(i) \/ Resolve(i)
               \/ Propose \/ ProposalFails \/ FinishDelivery \/ Restart
        PROVE  Len(rows') = Len(rows) /\ UNCHANGED <<timing, asked>>
    <2>1. UNCHANGED <<timing, asked>>
      BY <1>9 DEF TakeMessage, Resolve, Propose, ProposalFails, FinishDelivery, Restart
    <2>2. CASE Restart
      BY <2>2, RestartRows, <2>1
    <2>3. ASSUME NEW i \in DOMAIN rows, TakeMessage(i) \/ Resolve(i) PROVE Len(rows') = Len(rows)
      <3>1. UNCHANGED rows \/ \E s \in RowStates : Settle(i, s)
        BY <2>3 DEF TakeMessage, Resolve, CommitSent, RowStates
      <3>2. QED BY <3>1, SettleRow
    <2>4. CASE Propose \/ ProposalFails \/ FinishDelivery
      <3>1. worker.row \in DOMAIN rows
        BY <2>4 DEF Propose, ProposalFails, FinishDelivery, OrderInv
      <3>2. PICK s \in RowStates : Settle(worker.row, s)
        BY <2>4 DEF Propose, ProposalFails, FinishDelivery, CommitSent, RowStates
      <3>3. QED BY <2>1, <3>1, <3>2, SettleRow
    <2>5. QED BY <1>9, <2>1, <2>2, <2>3, <2>4
  <1>10. QED
    BY <1>1, <1>2, <1>3, <1>4, <1>5, <1>6, <1>7, <1>8, <1>9
    DEF Next, vars, MemStates, AnyDate, Flags, Dispatch, Expire, Crash

-----------------------------------------------------------------------------
(* Answers *)

\* Rows go on, none returns to the queue that had left it, and what was told and
\* the dialogue's stage stay.
LEMMA RowsGoOn ==
  ASSUME TypeInv, AnswerInv, UNCHANGED <<told, handled>>, dialogue'.stage = dialogue.stage,
         \A k \in DOMAIN rows :
           /\ k \in DOMAIN rows' /\ rows'[k].kind = rows[k].kind
           /\ rows[k].kind = "message" => rows'[k].say = rows[k].say
           /\ ~Open(k) => ~Open(k)'
           /\ rows'[k].state \in {"queued", "generating"} => rows[k].state \in {"queued", "generating"},
         Len(rows') \in Nat, DOMAIN rows' = 1..Len(rows')
  PROVE  AnswerInv'
  <1>1. ASSUME NEW i \in 1..MaxRows PROVE RowAnswer(i)'
    <2>1. RowAnswer(i)
      BY DEF AnswerInv
    <2>2. CASE told[i] = {}
      BY <2>2 DEF RowAnswer
    <2>3. CASE told[i] # {}
      <3>1. i \in DOMAIN rows /\ rows[i].kind = "message" /\ \A j \in DOMAIN rows : j < i => ~Open(j)
        BY <2>1, <2>3 DEF RowAnswer
      <3>2. i \in DOMAIN rows' /\ rows'[i].kind = "message" /\ rows'[i].say = rows[i].say
            /\ (rows'[i].state \in {"queued", "generating"} => rows[i].state \in {"queued", "generating"})
        BY <3>1
      <3>3. \A j \in DOMAIN rows' : j < i => ~Open(j)'
        <4>1. i \in 1..Len(rows) /\ Len(rows) \in Nat /\ DOMAIN rows = 1..Len(rows)
          BY <3>1, RowDomain
        <4>2. \A j \in DOMAIN rows' : j < i => j \in DOMAIN rows
          BY <4>1
        <4>3. QED BY <3>1, <4>2
      <3>4. QED BY <2>1, <3>1, <3>2, <3>3 DEF RowAnswer
    <2>4. QED BY <2>2, <2>3
  <1>2. QED BY <1>1 DEF AnswerInv

LEMMA SettleKeepsAnswers ==
  ASSUME TypeInv, OrderInv, AnswerInv, NEW i \in DOMAIN rows, NEW s \in RowStates, Settle(i, s), Open(i),
         s \in {"queued", "generating"} => rows[i].state \in {"queued", "generating"},
         UNCHANGED <<told, handled>>, dialogue'.stage = dialogue.stage
  PROVE  AnswerInv'
  <1>1. Len(rows') \in Nat /\ DOMAIN rows' = 1..Len(rows')
    BY SettleRow, RowDomain
  <1>2. ASSUME NEW k \in DOMAIN rows
        PROVE  /\ k \in DOMAIN rows' /\ rows'[k].kind = rows[k].kind
               /\ rows[k].kind = "message" => rows'[k].say = rows[k].say
               /\ ~Open(k) => ~Open(k)'
               /\ rows'[k].state \in {"queued", "generating"} => rows[k].state \in {"queued", "generating"}
    BY SettleRow DEF Open
  <1>3. QED BY <1>1, <1>2, RowsGoOn

\* While a row is worked on, none that was begun waits to be handled again.
LEMMA OnlyOneHandled ==
  ASSUME TypeInv, AnswerInv, NEW i \in DOMAIN rows, Open(i), \A j \in DOMAIN rows : j < i => ~Open(j),
         NEW k \in 1..MaxRows, k # i, told[k] # {}
  PROVE  rows[k].state \notin {"queued", "generating"}
  <1>1. RowAnswer(k)
    BY DEF AnswerInv
  <1>2. k \in DOMAIN rows /\ \A j \in DOMAIN rows : j < k => ~Open(j)
    BY <1>1 DEF RowAnswer
  <1>3. i \in Nat /\ k \in Nat
    BY <1>2, RowDomain
  <1>4. ~Open(k)
    BY <1>2, <1>3
  <1>5. QED BY <1>4 DEF Open

LEMMA HandleKeepsAnswers == ASSUME TypeInv, OrderInv, AnswerInv, Fits(dialogue), Handle PROVE AnswerInv'
  <1> DEFINE i == worker.row
  <1>1. /\ i \in DOMAIN rows /\ i \in 1..MaxRows /\ rows[i].state = "generating" /\ rows[i].kind = "message"
        /\ rows' = rows /\ told' = [told EXCEPT ![i] = @ \cup {handled'[i]}]
    BY RowDomain DEF Handle, OrderInv
  <1>2. Open(i) /\ \A j \in DOMAIN rows : j < i => ~Open(j)
    BY <1>1, BegunIsHead
  <1>3. RowAnswer(i)
    BY <1>1 DEF AnswerInv
  <1>4. told'[i] = told[i] \cup {handled'[i]}
    BY <1>1 DEF TypeInv
  <1>5. told'[i] \subseteq {handled'[i]}
        /\ (handled'[i] = "no" => /\ dialogue'.stage = "none"
                                  /\ rows[i].say.do \notin {"start", "clear", "approve", "approve_clear"})
    <2>1. CASE Cached(i) /\ UNCHANGED <<dialogue, handled, timing>>
      BY <1>1, <1>3, <1>4, <2>1 DEF RowAnswer, Cached
    <2>2. CASE /\ ~Cached(i) /\ UNCHANGED <<dialogue, handled, timing>>
               /\ dialogue.stage = "none"
               /\ rows[i].say.do \notin {"start", "clear", "approve", "approve_clear"}
      BY <1>1, <1>3, <1>4, <2>2 DEF RowAnswer, Cached
    <2>3. CASE /\ ~Cached(i) /\ Answering(i)
               /\ dialogue.stage # "none" \/ rows[i].say.do \in {"start", "clear", "approve", "approve_clear"}
      <3>1. told[i] = {}
        BY <1>1, <1>3, <2>3 DEF RowAnswer, Cached
      <3>2. handled'[i] # "no"
        BY <1>1, <2>3 DEF Answering, TypeInv
      <3>3. QED BY <1>4, <3>1, <3>2
    <2>4. QED BY <2>1, <2>2, <2>3, HandleOutcome
  <1>6. ASSUME NEW k \in 1..MaxRows PROVE RowAnswer(k)'
    <2>1. CASE k = i
      BY <1>1, <1>2, <1>5, <2>1 DEF RowAnswer, Open
    <2>2. CASE k # i
      <3>1. told'[k] = told[k] /\ RowAnswer(k)
        BY <1>1, <2>2 DEF TypeInv, AnswerInv
      <3>2. handled'[k] = handled[k]
        <4>1. handled' = handled \/ \E a \in Answers : handled' = [handled EXCEPT ![i] = a]
          BY HandleOutcome DEF Answering
        <4>2. QED BY <2>2, <4>1 DEF TypeInv
      <3>3. told[k] # {} => rows[k].state \notin {"queued", "generating"}
        BY <1>1, <1>2, <2>2, OnlyOneHandled
      <3>4. QED BY <1>1, <3>1, <3>2, <3>3 DEF RowAnswer, Open
    <2>3. QED BY <2>1, <2>2
  <1>7. QED BY <1>6 DEF AnswerInv

LEMMA ChangeKeepsAnswers ==
  ASSUME TypeInv, OrderInv, AnswerInv, NEW m \in Memories, NEW s \in {"open", "completed"}, ProposeChange(m, s)
  PROVE  AnswerInv'
  <1> DEFINE i == worker.row
  <1>1. /\ i \in DOMAIN rows /\ i \in 1..MaxRows /\ rows[i].state = "generating" /\ rows[i] \in MessageRow
        /\ Settle(i, "outbox_ready") /\ told' = told
    BY RowDomain, RowTyped DEF ProposeChange, OrderInv
  <1>2. Open(i) /\ \A j \in DOMAIN rows : j < i => ~Open(j)
    BY <1>1, BegunIsHead
  <1>3. CASE UNCHANGED <<dialogue, handled>>
    BY <1>1, <1>2, <1>3, SettleKeepsAnswers DEF RowStates
  <1>4. CASE handled[i] = "no" /\ handled' = [handled EXCEPT ![i] = "asked"]
    <2>1. /\ DOMAIN rows' = DOMAIN rows /\ rows'[i].state = "outbox_ready" /\ rows'[i].kind = rows[i].kind
          /\ \A k \in DOMAIN rows : k # i => rows'[k] = rows[k]
      BY <1>1, SettleRow DEF RowStates
    <2>2. \A k \in DOMAIN rows : ~Open(k) => ~Open(k)'
      BY <1>2, <2>1 DEF Open
    <2>3. ASSUME NEW k \in 1..MaxRows PROVE RowAnswer(k)'
      <3>1. RowAnswer(k)
        BY DEF AnswerInv
      <3>2. CASE k = i
        BY <1>1, <1>4, <2>1, <2>2, <3>1, <3>2 DEF RowAnswer, TypeInv
      <3>3. CASE k # i
        <4>1. told[k] # {} => rows[k].state \notin {"queued", "generating"}
          BY <1>1, <1>2, <3>3, OnlyOneHandled
        <4>2. handled'[k] = handled[k]
          BY <1>4, <3>3 DEF TypeInv
        <4>3. told[k] # {} => k \in DOMAIN rows /\ rows'[k] = rows[k]
          BY <2>1, <3>1, <3>3 DEF RowAnswer
        <4>4. QED BY <1>1, <2>1, <2>2, <3>1, <4>1, <4>2, <4>3 DEF RowAnswer
      <3>4. QED BY <3>2, <3>3
    <2>4. QED BY <2>3 DEF AnswerInv
  <1>5. QED BY <1>1, <1>3, <1>4, OfferFits

LEMMA AnswerStep == ASSUME TypeInv, OrderInv, AnswerInv, Fits(dialogue), TypeInv', [Next]_vars PROVE AnswerInv'
  <1>a. Len(rows) \in Nat /\ DOMAIN rows = 1..Len(rows) /\ Len(rows') \in Nat /\ DOMAIN rows' = 1..Len(rows')
    BY LenProperties DEF TypeInv
  <1>1. ASSUME NEW r \in MessageRow \cup MemoryRow, rows' = Append(rows, r), UNCHANGED <<told, handled, dialogue>>
        PROVE  AnswerInv'
    <2>1. \A k \in DOMAIN rows : k \in DOMAIN rows' /\ rows'[k] = rows[k]
      BY <1>1, AppendRow
    <2>2. QED BY <1>a, <1>1, <2>1, RowsGoOn DEF Open
  <1>2. ASSUME NEW s \in Says, Admit(s) PROVE AnswerInv'
    <2>1. [kind |-> "message", state |-> "queued", say |-> s] \in MessageRow \cup MemoryRow
      BY DEF MessageRow, RowStates
    <2>2. QED BY <1>1, <1>2, <2>1 DEF Admit
  <1>3. ASSUME NEW m \in Memories, NEW s \in MemStates, AdminChange(m, s) PROVE AnswerInv'
    <2> DEFINE r == [kind |-> "memory", state |-> "queued", mem |-> m, base |-> mem[m].ver, to |-> s]
    <2>1. r \in MessageRow \cup MemoryRow
      BY <1>3 DEF AdminChange, MemoryRow, RowStates, TypeInv, Records
    <2>2. rows' = Append(rows, r) /\ UNCHANGED <<told, handled, dialogue>>
      BY <1>3 DEF AdminChange
    <2> HIDE DEF r
    <2>3. QED BY <1>1, <2>1, <2>2
  <1>4. ASSUME NEW i \in DOMAIN rows, TakeMemory(i) PROVE AnswerInv'
    <2>1. PICK s \in {"completed", "failed"} : Settle(i, s)
      BY <1>4 DEF TakeMemory
    <2>2. Open(i) /\ UNCHANGED <<told, handled, dialogue>>
      BY <1>4 DEF TakeMemory, IsHead
    <2>3. QED BY <2>1, <2>2, SettleKeepsAnswers DEF RowStates
  <1>5. ASSUME NEW i \in DOMAIN rows, TakeMessage(i) PROVE AnswerInv'
    <2>1. Open(i) /\ UNCHANGED <<told, handled, dialogue>>
      BY <1>5 DEF TakeMessage, IsHead
    <2>2. CASE rows[i].state = "queued" /\ Settle(i, "generating")
      BY <2>1, <2>2, SettleKeepsAnswers DEF RowStates
    <2>3. CASE UNCHANGED rows
      BY <1>a, <2>1, <2>3, RowsGoOn DEF Open
    <2>4. QED BY <1>5, <2>2, <2>3 DEF TakeMessage
  <1>6. ASSUME NEW i \in DOMAIN rows, Resolve(i) PROVE AnswerInv'
    <2>1. PICK s \in {"completed", "cancelled"} : Settle(i, s)
      BY <1>6 DEF Resolve, CommitSent
    <2>2. Open(i) /\ UNCHANGED <<told, handled>> /\ dialogue'.stage = dialogue.stage
      BY <1>6 DEF Resolve, CommitSent, Delivered, Open, TypeInv, Dialogues
    <2>3. QED BY <2>1, <2>2, SettleKeepsAnswers DEF RowStates
  <1>7. CASE FinishDelivery \/ Propose \/ ProposalFails
    <2>1. worker.row \in DOMAIN rows /\ Open(worker.row)
      BY <1>7, BegunIsHead DEF FinishDelivery, Propose, ProposalFails, OrderInv
    <2>2. PICK s \in {"completed", "needs_review", "outbox_ready", "failed"} : Settle(worker.row, s)
      BY <1>7 DEF FinishDelivery, Propose, ProposalFails, CommitSent
    <2>3. UNCHANGED <<told, handled>> /\ dialogue'.stage = dialogue.stage
      BY <1>7 DEF FinishDelivery, Propose, ProposalFails, CommitSent, Delivered, TypeInv, Dialogues
    <2>4. QED BY <2>1, <2>2, <2>3, SettleKeepsAnswers DEF RowStates
  <1>8. CASE Restart
    <2>1. UNCHANGED <<told, handled, dialogue>>
      BY <1>8 DEF Restart
    <2>2. ASSUME NEW k \in DOMAIN rows
          PROVE  /\ k \in DOMAIN rows' /\ rows'[k].kind = rows[k].kind
                 /\ rows[k].kind = "message" => rows'[k].say = rows[k].say
                 /\ ~Open(k) => ~Open(k)'
                 /\ rows'[k].state \in {"queued", "generating"} => rows[k].state \in {"queued", "generating"}
      BY <1>8, RestartRows DEF Open
    <2>3. QED BY <1>a, <2>1, <2>2, RowsGoOn
  <1>9. CASE Expire
    <2>1. UNCHANGED <<told, handled, rows>> /\ dialogue'.stage = dialogue.stage
      BY <1>9 DEF Expire, TypeInv, Dialogues
    <2>2. QED BY <1>a, <2>1, RowsGoOn DEF Open
  <1>10. CASE UNCHANGED <<told, handled, rows, dialogue>>
    BY <1>a, <1>10, RowsGoOn DEF Open
  <1>11. QED
    BY <1>2, <1>3, <1>4, <1>5, <1>6, <1>7, <1>8, <1>9, <1>10, HandleKeepsAnswers, ChangeKeepsAnswers
    DEF Next, vars, MemStates, AdminTime, ContactRequest, Dispatch, Crash

-----------------------------------------------------------------------------
(* The theorems *)

LEMMA EpisodesInvInit == ASSUME Init PROVE EpisodesInv
  <1>1. TypeInv
    BY TypeInvInit
  <1>2. rows = <<>> /\ DOMAIN rows = {} /\ Len(rows) = 0
    BY DEF Init
  <1>3. OrderInv
    BY <1>2 DEF Init, OrderInv
  <1>4. PICK known \in SUBSET Memories, guess \in AnyDate :
          /\ mem = [m \in Memories |-> [ver |-> IF m \in known THEN 1 ELSE 0, state |-> "open", by |-> "model"]]
          /\ timing = [m \in Memories |-> IF m \in known THEN Extracted(1, guess, TRUE) ELSE NoTiming]
    BY DEF Init, AnyDate
  <1>5. ASSUME NEW m \in Memories
        PROVE  /\ timing[m].state # "confirmed" /\ timing[m].by = 0 /\ mem[m].by = "model"
               /\ IsOpen(m) => Current(m) /\ timing[m].zone = policy.zone
    <2>1. CASE m \in known
      <3>1. timing[m] = Extracted(1, guess, TRUE) /\ mem[m].ver = 1 /\ mem[m].by = "model" /\ policy.zone = TRUE
        BY <1>4, <2>1 DEF Init
      <3>2. timing[m].mver = 1 /\ timing[m].state = "proposed" /\ timing[m].zone = TRUE /\ timing[m].by = 0
        BY <3>1 DEF Extracted, NoTiming
      <3>3. QED BY <3>1, <3>2 DEF Current
    <2>2. CASE m \notin known
      BY <1>4, <2>2 DEF NoTiming, IsOpen
    <2>3. QED BY <2>1, <2>2
  <1>6. TimeInv
    BY <1>5 DEF TimeInv
  <1>7. QuestionInv
    BY NoDialogueFits DEF Init, QuestionInv
  <1>8. ConfirmInv
    BY <1>2, <1>5 DEF ConfirmInv, ConfirmedAsShown
  <1>9. AnswerInv
    BY DEF Init, AnswerInv, RowAnswer
  <1>10. QED BY <1>1, <1>3, <1>6, <1>7, <1>8, <1>9 DEF EpisodesInv

LEMMA EpisodesInvStep == ASSUME EpisodesInv, [Next]_vars PROVE EpisodesInv'
  <1>1. Fits(dialogue)
    BY DEF EpisodesInv, QuestionInv
  <1>2. TypeInv'
    BY <1>1, EpisodesTypeStep DEF EpisodesInv
  <1>3. OrderInv'
    BY <1>1, OrderStep DEF EpisodesInv
  <1>4. TimeInv'
    BY <1>1, TimeStep DEF EpisodesInv
  <1>5. QuestionInv'
    BY QuestionStep DEF EpisodesInv
  <1>6. ConfirmInv'
    BY <1>2, ConfirmStep DEF EpisodesInv
  <1>7. AnswerInv'
    BY <1>1, <1>2, AnswerStep DEF EpisodesInv
  <1>8. QED BY <1>2, <1>3, <1>4, <1>5, <1>6, <1>7 DEF EpisodesInv

LEMMA EpisodesInvHolds == Spec => []EpisodesInv
  <1>1. QED BY EpisodesInvInit, EpisodesInvStep, PTL DEF Spec

LEMMA EpisodesTyped == ASSUME EpisodesInv PROVE TypeOK
  <1>1. \A i \in DOMAIN rows : rows[i].kind \in {"message", "memory"} /\ rows[i].state \in RowStates
    BY RowTyped DEF EpisodesInv, MessageRow, MemoryRow
  <1>2. mem \in [Memories -> Records] /\ timing \in [Memories -> Timings] /\ dialogue \in Dialogues
    BY DEF EpisodesInv, TypeInv
  <1>3. \A m \in Memories : /\ timing[m].state \in {"none", "proposed", "confirmed", "cleared", "invalidated"}
                            /\ timing[m].state = "confirmed" => timing[m].date \in Dates
    BY <1>2 DEF EpisodesInv, TimeInv, Timings
  <1>4. dialogue.stage \in {"confirm", "clear"} => Cardinality(dialogue.mem) = 1
    BY FS_Singleton DEF EpisodesInv, QuestionInv, Fits
  <1>5. dialogue.stage \in {"none", "select", "time", "confirm", "clear"}
    BY <1>2 DEF Dialogues
  <1>6. QED BY <1>1, <1>2, <1>3, <1>4, <1>5 DEF TypeOK, RowStates, Records, MemStates, EpisodesInv, TypeInv

\* A row is answered the same however often it is handled: at most one kind of
\* answer was told.
LEMMA OneKind == ASSUME EpisodesInv PROVE OneAnswer
  <1>1. ASSUME NEW i \in 1..MaxRows PROVE Cardinality(told[i]) <= 1
    <2>1. PICK a : told[i] \subseteq {a}
      BY DEF EpisodesInv, AnswerInv, RowAnswer
    <2>2. told[i] = {} \/ told[i] = {a}
      BY <2>1
    <2>3. Cardinality({a}) = 1 /\ Cardinality({}) = 0
      BY FS_EmptySet, FS_Singleton
    <2>4. CASE told[i] = {}
      BY <2>3, <2>4
    <2>5. CASE told[i] = {a}
      BY <2>3, <2>5
    <2>6. QED BY <2>2, <2>4, <2>5
  <1>2. QED BY <1>1 DEF OneAnswer

\* The tables of the episodes agree (runtime_v2/memories.py, episode_times.py): a
\* confirmed time is of an open episode's current version and the zone in force,
\* and a row that is handled again after a crash is answered as before.
THEOREM EpisodesAgree == Spec => []RecordsAgree
  <1>1. EpisodesInv => RecordsAgree
    <2> SUFFICES ASSUME EpisodesInv PROVE RecordsAgree
      OBVIOUS
    <2>1. TimesAreCurrent
      BY DEF EpisodesInv, TimeInv, TimesAreCurrent
    <2>2. QED BY <2>1, EpisodesTyped, OneKind DEF RecordsAgree
  <1>2. QED BY <1>1, EpisodesInvHolds, PTL

\* What the user confirmed is what he was last shown before he sent his answer
\* (_accepts and _save of the dialogue), however many rows were admitted, sent
\* late, repeated or settled by the operator in between.
THEOREM ConfirmedIsShown == Spec => []ConfirmedAsShown
  <1>1. EpisodesInv => ConfirmedAsShown
    BY DEF EpisodesInv, ConfirmInv
  <1>2. QED BY <1>1, EpisodesInvHolds, PTL

\* The model replaces no record of the operator's and none that changed since the
\* turn was shown it (apply_change with the turn's snapshot).
THEOREM OperatorsRecordsStand == Spec => CorrectionsStand
  <1> DEFINE Stands == \A m \in Memories : mem'[m].ver # mem[m].ver /\ mem'[m].by = "model" =>
                         /\ mem[m].by = "model"
                         /\ mem[m].ver = snapshot[worker.row][m]
  <1>1. EpisodesInv /\ [Next]_vars => [Stands]_vars
    <2> SUFFICES ASSUME EpisodesInv, Next, NEW m \in Memories, mem'[m].ver # mem[m].ver, mem'[m].by = "model"
                 PROVE  mem[m].by = "model" /\ mem[m].ver = snapshot[worker.row][m]
      OBVIOUS
    <2>0. TypeInv /\ OrderInv /\ TimeInv
      BY DEF EpisodesInv
    <2>1. ASSUME NEW i \in DOMAIN rows, TakeMemory(i) PROVE FALSE
      <3>1. ApplyChange(rows[i].mem, rows[i].to, "admin", NoDate)
        BY <2>1 DEF TakeMemory
      <3>2. rows[i].mem \in Memories /\ rows[i].to \in MemStates /\ NoDate \in AnyDate
        <4>1. rows[i] \in MemoryRow
          BY <2>0, <2>1, RowTyped DEF TakeMemory
        <4>2. QED BY <4>1 DEF MemoryRow, AnyDate
      <3>3. mem' = [mem EXCEPT ![rows[i].mem] = [ver |-> mem[rows[i].mem].ver + 1, state |-> rows[i].to, by |-> "admin"]]
        BY <3>1 DEF ApplyChange
      <3>4. QED BY <2>0, <3>2, <3>3 DEF TypeInv
    <2>2. ASSUME NEW n \in Memories, NEW s \in {"open", "completed"}, ProposeChange(n, s)
          PROVE  mem[m].by = "model" /\ mem[m].ver = snapshot[worker.row][m]
      <3>1. mem' = [mem EXCEPT ![n] = [ver |-> mem[n].ver + 1, state |-> s, by |-> "model"]]
            /\ Applicable(n, snapshot[worker.row][n], TRUE)
        BY <2>2 DEF ProposeChange, ApplyChange
      <3>2. n = m
        BY <2>0, <3>1 DEF TypeInv
      <3>3. mem[m].ver \in Nat /\ mem[m].by \in {"model", "admin"}
        BY <2>0 DEF TypeInv, Records
      <3>4. QED BY <2>0, <3>1, <3>2, <3>3 DEF Applicable, TimeInv
    <2>3. CASE mem' = mem
      BY <2>3
    <2>4. QED
      BY <2>1, <2>2, <2>3
      DEF Next, Admit, AdminChange, AdminTime, ContactRequest, TakeMessage, Resolve, Handle, Propose, ProposalFails,
          Dispatch, FinishDelivery, Expire, Crash, Restart
  <1>2. QED BY <1>1, EpisodesInvHolds, PTL DEF Spec, CorrectionsStand
=============================================================================
