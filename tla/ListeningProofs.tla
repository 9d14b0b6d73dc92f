---------------------------- MODULE ListeningProofs ----------------------------
(***************************************************************************)
(* Theorems about Listening, for any number of senders and messages.  That  *)
(* no question is dropped holds as long as the chat's lock is joined in the *)
(* order of arrival, that is ~Contended.                                    *)
(***************************************************************************)
EXTENDS Listening, SequenceTheorems, TLAPS

-----------------------------------------------------------------------------
(* The inductive invariants *)

Begun == {"waiting", "replying"}
InQueue == {"queued"} \cup Begun

\* The lock of the chat is held by the message that is worked on, or by the check
\* that speaks; what is queued waits in line for it.
LockInv ==
    /\ \A i \in Messages : phase[i] = "away" <=> i > Len(log)
    /\ \A i \in Messages : phase[i] \in InQueue => \E p \in 1..Len(queue) : queue[p] = i
    /\ \A i \in Messages : phase[i] \in Begun => Holds(i)
    /\ \A p \in 1..Len(queue) : queue[p] # Nobody => phase[queue[p]] \notin {"away", "arrived"}
    /\ check = "speaking" => Holds(Nobody)

\* Messages enter in order, wait in order, and are done with in order.
InOrder ==
    /\ \A i, j \in Messages : i < j /\ phase[j] \notin {"away", "arrived"} => phase[i] # "arrived"
    /\ \A p, q \in 1..Len(queue) : p < q /\ queue[p] # Nobody /\ queue[q] # Nobody => queue[p] < queue[q]
    /\ \A i, j \in Messages : i < j /\ phase[j] \in Over \cup Begun => phase[i] \in Over

\* What is noted of a sender is the last message.
NotedInv ==
    /\ \A i \in 1..Len(log) : noted[From(i)].msg >= i
    /\ \A s \in Senders : noted[s].msg # Nobody => noted[s].msg \in 1..Len(log) /\ From(noted[s].msg) = s

\* The check weighs a message of the group's talk.
WeighedInv ==
    /\ newest \in {Nobody} \cup 1..Len(log)
    /\ check \in {"scoring", "joining", "speaking"} => weighed \in 1..Len(log)

\* A message that was not ignored, or will not be.
Taken(j) == phase[j] # "ignored" /\ (phase[j] \in Over \/ SureOfTurn(j))

\* A message given up has a later one that was answered for it, or that will be:
\* for certain, or because its sender is still talking with her.
Followed(i) ==
    \/ i \in lapsed \/ TurnedAway(From(i))
    \/ \E j \in Later(i) : Taken(j)
    \/ /\ From(i) \in talking /\ i \in stash[From(i)]
       /\ \E j \in Later(i) : phase[j] \notin Over

CarriedOn(s) ==
    \/ TurnedAway(s)
    \/ \E j \in InFlight(s) : SureOfTurn(j)
    \/ s \in talking /\ InFlight(s) # {}

QuestionInv ==
    /\ quiet => \E j \in Messages : phase[j] = "hushed"
    /\ \A i \in Messages : phase[i] = "superseded" => Followed(i)

PictureInv ==
    /\ \A s \in Senders : stash[s] \ lapsed # {} => CarriedOn(s)
    /\ \A i \in Messages : phase[i] = "replying" => stash[From(i)] = {}

\* What holds in whatever order the messages reach the lock, and what needs them
\* to reach it in the order of their arrival.
ChatInv      == TypeOK /\ LockInv /\ NotedInv /\ WeighedInv /\ ChimesAlone
ListeningInv == ChatInv /\ InOrder /\ QuestionInv /\ PictureInv

-----------------------------------------------------------------------------
(* The queue of the lock *)

LEMMA PhasesKnown ==
  /\ Over \cap (InQueue \cup {"away", "arrived"}) = {}
  /\ Begun \subseteq InQueue /\ InQueue \cap {"away", "arrived"} = {}
  /\ Nobody \notin Messages /\ Messages \subseteq Nat
  <1>1. Nobody \notin Messages /\ Messages \subseteq Nat
    BY KindsKnown DEF Nobody, Messages
  <1>2. QED BY <1>1 DEF Over, InQueue, Begun

LEMMA QueueTyped ==
  ASSUME TypeOK
  PROVE  /\ Len(queue) \in Nat /\ \A p \in 1..Len(queue) : queue[p] \in Messages \cup {Nobody}
         /\ queue # <<>> => Len(queue) > 0 /\ Head(queue) = queue[1]
  <1>1. Len(queue) \in Nat /\ \A p \in 1..Len(queue) : queue[p] \in Messages \cup {Nobody}
    BY LenProperties, ElementOfSeq DEF TypeOK
  <1>2. ASSUME queue # <<>> PROVE Len(queue) > 0 /\ Head(queue) = queue[1]
    <2>1. Len(queue) \in Nat \ {0}
      BY <1>2, EmptySeq DEF TypeOK
    <2>2. QED BY <2>1
  <1>3. QED BY <1>1, <1>2

LEMMA Joining ==
  ASSUME TypeOK, NEW x \in Messages \cup {Nobody}, queue' = Append(queue, x)
  PROVE  /\ queue' \in Seq(Messages \cup {Nobody})
         /\ Len(queue') = Len(queue) + 1 /\ queue'[Len(queue) + 1] = x
         /\ \A p \in 1..Len(queue) : queue'[p] = queue[p]
         /\ \A i : Holds(i) => Holds(i)'
  <1>1. /\ queue' \in Seq(Messages \cup {Nobody}) /\ queue' # <<>>
        /\ Len(queue') = Len(queue) + 1 /\ queue'[Len(queue) + 1] = x
        /\ \A p \in 1..Len(queue) : queue'[p] = queue[p]
    BY AppendProperties DEF TypeOK
  <1>2. Head(queue') = queue'[1]
    BY <1>1
  <1>3. ASSUME NEW i, Holds(i) PROVE Holds(i)'
    <2>1. queue[1] = i /\ 1 \in 1..Len(queue)
      BY <1>3, QueueTyped DEF Holds
    <2>2. QED BY <1>1, <1>2, <2>1 DEF Holds
  <1>4. QED BY <1>1, <1>3

LEMMA Leaving ==
  ASSUME TypeOK, NEW h, Holds(h), queue' = Tail(queue)
  PROVE  /\ queue' \in Seq(Messages \cup {Nobody})
         /\ Len(queue) \in Nat \ {0} /\ queue[1] = h /\ Len(queue') = Len(queue) - 1
         /\ \A p \in 1..Len(queue') : queue'[p] = queue[p + 1]
         /\ \A p \in 1..Len(queue) : p # 1 => p - 1 \in 1..Len(queue') /\ queue'[p - 1] = queue[p]
  <1>1. Len(queue) \in Nat \ {0} /\ queue[1] = h
    BY QueueTyped DEF Holds
  <1>2. /\ queue' \in Seq(Messages \cup {Nobody}) /\ Len(queue') = Len(queue) - 1
        /\ \A p \in 1..Len(queue') : queue'[p] = queue[p + 1]
    BY HeadTailProperties DEF TypeOK, Holds
  <1>3. ASSUME NEW p \in 1..Len(queue), p # 1 PROVE p - 1 \in 1..Len(queue') /\ queue'[p - 1] = queue[p]
    <2>1. p - 1 \in 1..Len(queue') /\ (p - 1) + 1 = p
      BY <1>1, <1>2, <1>3
    <2>2. queue'[p - 1] = queue[(p - 1) + 1]
      BY <1>2, <2>1
    <2>3. QED BY <2>1, <2>2
  <1>4. QED BY <1>1, <1>2, <1>3

LEMMA LogTyped ==
  ASSUME TypeOK
  PROVE  /\ Len(log) \in Nat /\ Len(log) <= Bound /\ 1..Len(log) \subseteq Messages
         /\ \A i \in 1..Len(log) : From(i) \in Senders /\ log[i].kind \in Kinds
  <1>1. Len(log) \in Nat /\ Len(log) <= Bound
    BY LenProperties DEF TypeOK
  <1>2. \A i \in 1..Len(log) : log[i] \in [from : Senders, kind : Kinds]
    BY ElementOfSeq DEF TypeOK
  <1>3. QED BY <1>1, <1>2, KindsKnown DEF Messages, From

-----------------------------------------------------------------------------
(* What a step does to the messages and the queue *)

PassesOn(i, p) == phase' = [phase EXCEPT ![i] = p]

Arrives == \E s \in Senders, k \in Kinds :
    /\ Len(log) < Bound /\ log' = Append(log, [from |-> s, kind |-> k])
    /\ PassesOn(Len(log) + 1, "arrived") /\ UNCHANGED <<queue, check>>

Enters(i) ==
    /\ phase[i] = "arrived" /\ (Contended \/ \A j \in 1..(i - 1) : phase[j] # "arrived")
    /\ PassesOn(i, "queued") /\ queue' = Append(queue, i) /\ UNCHANGED <<log, check>>

Advances(i, p) ==
    /\ Holds(i) /\ phase[i] \in InQueue /\ PassesOn(i, p) /\ UNCHANGED <<log, queue, check>>

Finishes(i, p) ==
    /\ Holds(i) /\ phase[i] \in InQueue /\ PassesOn(i, p) /\ queue' = Tail(queue) /\ UNCHANGED log
    /\ check' = "speaking" => check = "speaking"

Checks ==
    /\ UNCHANGED <<log, phase>>
    /\ \/ queue' = Append(queue, Nobody) /\ check' = "joining"
       \/ Holds(Nobody) /\ queue' = Tail(queue) /\ check' = "none"
       \/ UNCHANGED queue /\ (check' = "speaking" => check = "speaking" \/ Holds(Nobody))

Kind ==
    \/ Arrives
    \/ \E i \in Messages : Enters(i)
    \/ \E i \in Messages, p \in Begun : Advances(i, p)
    \/ \E i \in Messages, p \in Over : Finishes(i, p)
    \/ Checks

LEMMA KindOfStep == ASSUME TypeOK, [Next]_vars PROVE Kind
  <1>1. ASSUME NEW s \in Senders, NEW k \in Kinds, Arrive(s, k) PROVE Arrives
    BY <1>1 DEF Arrive, Arrives, PassesOn, Becomes, checkVars
  <1>2. ASSUME NEW i \in Messages, Enter(i) PROVE Enters(i)
    BY <1>2 DEF Enter, Enters, PassesOn, Becomes, checkVars
  <1>3. ASSUME NEW i \in Messages, Handle(i)
        PROVE  (\E p \in Begun : Advances(i, p)) \/ (\E p \in Over : Finishes(i, p))
    <2>1. CASE Overhear(i)
      <3>1. Finishes(i, "ignored")
        BY <2>1 DEF Overhear, Finishes, PassesOn, Ends, Becomes, InQueue
      <3>2. QED BY <3>1 DEF Over
    <2>2. CASE Hush(i)
      <3>1. Finishes(i, "hushed")
        BY <2>2 DEF Hush, Finishes, PassesOn, Ends, Becomes, InQueue, checkVars
      <3>2. QED BY <3>1 DEF Over
    <2>3. CASE TakeUp(i)
      <3>1. Advances(i, "waiting")
        BY <2>3 DEF TakeUp, Advances, PassesOn, Becomes, InQueue, checkVars
      <3>2. QED BY <3>1 DEF Begun
    <2>4. CASE Superseded(i)
      <3>1. Finishes(i, "superseded")
        BY <2>4 DEF Superseded, Finishes, PassesOn, Ends, Becomes, InQueue, Begun, checkVars
      <3>2. QED BY <3>1 DEF Over
    <2>5. CASE Turn(i)
      <3>1. Advances(i, "replying") \/ Finishes(i, "limited")
        BY <2>5 DEF Turn, MayAnswer, Advances, Finishes, PassesOn, Ends, Becomes, InQueue, Begun, checkVars
      <3>2. QED BY <3>1 DEF Over, Begun
    <2>6. CASE Answer(i)
      <3>1. Finishes(i, "answered")
        BY <2>6 DEF Answer, Finishes, PassesOn, Ends, Becomes, InQueue, Begun, checkVars
      <3>2. QED BY <3>1 DEF Over
    <2>7. CASE Silent(i)
      <3>1. Finishes(i, "silent")
        BY <2>7 DEF Silent, Finishes, PassesOn, Ends, Becomes, InQueue, Begun, checkVars
      <3>2. QED BY <3>1 DEF Over
    <2>8. QED BY <1>3, <2>1, <2>2, <2>3, <2>4, <2>5, <2>6, <2>7 DEF Handle
  <1>4. ASSUME Check PROVE Checks
    BY <1>4 DEF Check, Checks, Consider, NotHerBusiness, JoinIn, BeginChimeIn, ChimeIn, KeepOut, CheckEnds, msgVars
  <1>5. ASSUME QuietEnds \/ GapEnds \/ (\E s \in Senders : TalkEnds(s)) \/ UNCHANGED vars PROVE Checks
    BY <1>5 DEF Checks, QuietEnds, GapEnds, TalkEnds, vars, msgVars, checkVars
  <1>6. QED BY <1>1, <1>2, <1>3, <1>4, <1>5 DEF Next, Kind

LEMMA Passing ==
  ASSUME TypeOK, NEW i \in Messages, NEW p, PassesOn(i, p)
  PROVE  phase'[i] = p /\ \A k \in Messages : k # i => phase'[k] = phase[k]
  <1>1. QED BY DEF TypeOK, PassesOn

LEMMA Arriving ==
  ASSUME TypeOK, Arrives
  PROVE  /\ Len(log) + 1 \in Messages /\ Len(log') = Len(log) + 1
         /\ log' \in Seq([from : Senders, kind : Kinds])
         /\ \A k \in 1..Len(log) : log'[k] = log[k]
         /\ phase'[Len(log) + 1] = "arrived"
         /\ \A k \in Messages : k # Len(log) + 1 => phase'[k] = phase[k]
  <1>1. PICK s \in Senders, k \in Kinds :
           Len(log) < Bound /\ log' = Append(log, [from |-> s, kind |-> k]) /\ PassesOn(Len(log) + 1, "arrived")
    BY DEF Arrives
  <1>2. [from |-> s, kind |-> k] \in [from : Senders, kind : Kinds]
    OBVIOUS
  <1>3. Len(log) + 1 \in Messages
    BY <1>1, LogTyped, KindsKnown DEF Messages
  <1>4. /\ Len(log') = Len(log) + 1 /\ log' \in Seq([from : Senders, kind : Kinds])
        /\ \A n \in 1..Len(log) : log'[n] = log[n]
    BY <1>1, <1>2, AppendProperties DEF TypeOK
  <1>5. QED BY <1>1, <1>3, <1>4, Passing

LEMMA LockStep == ASSUME TypeOK, LockInv, Kind PROVE LockInv'
  <1> DEFINE Away(i) == phase[i] = "away" <=> i > Len(log)
             Waits(i) == phase[i] \in InQueue => \E p \in 1..Len(queue) : queue[p] = i
             Works(i) == phase[i] \in Begun => Holds(i)
             Listed(p) == queue[p] # Nobody => phase[queue[p]] \notin {"away", "arrived"}
  <1> SUFFICES /\ \A i \in Messages : Away(i)' /\ Waits(i)' /\ Works(i)'
               /\ \A p \in 1..Len(queue') : Listed(p)'
               /\ check' = "speaking" => Holds(Nobody)'
    BY DEF LockInv
  <1>0. /\ \A i \in Messages : Away(i) /\ Waits(i) /\ Works(i)
        /\ \A p \in 1..Len(queue) : Listed(p)
        /\ check = "speaking" => Holds(Nobody)
    BY DEF LockInv
  <1>1. CASE Arrives
    <2>1. UNCHANGED <<queue, check>>
      BY <1>1 DEF Arrives
    <2>2. \A k \in Messages : phase'[k] = phase[k] \/ (phase'[k] = "arrived" /\ k = Len(log) + 1)
      BY <1>1, Arriving
    <2>3. \A i \in Messages : Waits(i)' /\ Works(i)'
      BY <1>0, <2>1, <2>2, PhasesKnown DEF Holds, InQueue, Begun
    <2>4. phase[Len(log) + 1] = "away"
      BY <1>0, <1>1, Arriving, LogTyped
    <2>5. ASSUME NEW p \in 1..Len(queue') PROVE Listed(p)'
      <3>1. queue'[p] = queue[p] /\ queue[p] \in Messages \cup {Nobody} /\ Listed(p)
        BY <1>0, <2>1, QueueTyped
      <3>2. QED BY <2>2, <2>4, <3>1
    <2>6. ASSUME NEW k \in Messages PROVE Away(k)'
      <3>1. Len(log) \in Nat /\ k \in Nat /\ Len(log') = Len(log) + 1
        BY <1>1, Arriving, LogTyped, PhasesKnown
      <3>2. CASE k = Len(log) + 1
        BY <1>1, <3>1, <3>2, Arriving
      <3>3. CASE k # Len(log) + 1
        <4>1. phase'[k] = phase[k]
          BY <1>1, <3>3, Arriving
        <4>2. QED BY <1>0, <3>1, <3>3, <4>1
      <3>4. QED BY <3>2, <3>3
    <2>7. QED BY <1>0, <2>1, <2>3, <2>5, <2>6 DEF Holds
  <1>2. ASSUME NEW i \in Messages, Enters(i)
        PROVE  /\ \A k \in Messages : Away(k)' /\ Waits(k)' /\ Works(k)'
               /\ \A p \in 1..Len(queue') : Listed(p)'
               /\ check' = "speaking" => Holds(Nobody)'
    <2>1. phase[i] = "arrived" /\ phase'[i] = "queued" /\ \A k \in Messages : k # i => phase'[k] = phase[k]
      BY <1>2, Passing DEF Enters
    <2>2. /\ Len(queue') = Len(queue) + 1 /\ queue'[Len(queue) + 1] = i
          /\ \A p \in 1..Len(queue) : queue'[p] = queue[p]
          /\ \A k : Holds(k) => Holds(k)'
      BY <1>2, Joining DEF Enters
    <2>3. Len(queue) \in Nat /\ \A p \in 1..Len(queue) : queue[p] \in Messages \cup {Nobody}
      BY QueueTyped
    <2>4. ASSUME NEW k \in Messages PROVE Waits(k)' /\ Works(k)'
      <3>1. CASE k = i
        BY <2>1, <2>2, <2>3, <3>1 DEF Begun
      <3>2. CASE k # i
        <4>1. phase'[k] = phase[k]
          BY <2>1, <3>2
        <4>2. Works(k)'
          BY <1>0, <2>2, <4>1
        <4>3. Waits(k)'
          BY <1>0, <2>2, <2>3, <4>1
        <4>4. QED BY <4>2, <4>3
      <3>3. QED BY <3>1, <3>2
    <2>5. ASSUME NEW p \in 1..Len(queue') PROVE Listed(p)'
      <3>1. CASE p = Len(queue) + 1
        BY <2>1, <2>2, <3>1
      <3>2. CASE p \in 1..Len(queue)
        BY <1>0, <2>1, <2>2, <2>3, <3>2
      <3>3. QED BY <2>2, <2>3, <3>1, <3>2
    <2>6. check' = "speaking" => Holds(Nobody)'
      BY <1>0, <1>2, <2>2 DEF Enters
    <2>7. \A k \in Messages : Away(k)'
      BY <1>0, <1>2, <2>1 DEF Enters
    <2>8. QED BY <2>4, <2>5, <2>6, <2>7
  <1>3. ASSUME NEW i \in Messages, NEW p \in Begun, Advances(i, p)
        PROVE  /\ \A k \in Messages : Away(k)' /\ Waits(k)' /\ Works(k)'
               /\ \A q \in 1..Len(queue') : Listed(q)'
               /\ check' = "speaking" => Holds(Nobody)'
    <2>1. phase[i] \in InQueue /\ phase'[i] \in Begun /\ \A k \in Messages : k # i => phase'[k] = phase[k]
      BY <1>3, Passing DEF Advances
    <2>2. queue' = queue /\ check' = check /\ Holds(i)
      BY <1>3 DEF Advances
    <2>3. \A q \in 1..Len(queue) : queue[q] \in Messages \cup {Nobody}
      BY QueueTyped
    <2>4. \A k \in Messages : Waits(k)' /\ Works(k)'
      BY <1>0, <2>1, <2>2 DEF Holds
    <2>5. \A q \in 1..Len(queue') : Listed(q)'
      BY <1>0, <2>1, <2>2, <2>3 DEF Begun
    <2>6. \A k \in Messages : Away(k)'
      BY <1>0, <1>3, <2>1, PhasesKnown DEF Advances
    <2>7. QED BY <1>0, <2>2, <2>4, <2>5, <2>6 DEF Holds
  <1>4. ASSUME NEW i \in Messages, NEW p \in Over, Finishes(i, p)
        PROVE  /\ \A k \in Messages : Away(k)' /\ Waits(k)' /\ Works(k)'
               /\ \A q \in 1..Len(queue') : Listed(q)'
               /\ check' = "speaking" => Holds(Nobody)'
    <2>1. phase'[i] \in Over /\ \A k \in Messages : k # i => phase'[k] = phase[k]
      BY <1>4, Passing DEF Finishes
    <2>2. /\ Len(queue) \in Nat \ {0} /\ queue[1] = i /\ Len(queue') = Len(queue) - 1
          /\ \A q \in 1..Len(queue') : queue'[q] = queue[q + 1]
          /\ \A q \in 1..Len(queue) : q # 1 => q - 1 \in 1..Len(queue') /\ queue'[q - 1] = queue[q]
      BY <1>4, Leaving DEF Finishes
    <2>3. \A q \in 1..Len(queue) : queue[q] \in Messages \cup {Nobody}
      BY QueueTyped
    <2>4. ASSUME NEW k \in Messages PROVE Waits(k)' /\ Works(k)'
      <3>1. CASE k = i
        BY <2>1, <3>1, PhasesKnown
      <3>2. CASE k # i
        <4>1. phase'[k] = phase[k]
          BY <2>1, <3>2
        <4>2. phase[k] \notin Begun
          BY <1>0, <1>4, <3>2 DEF Finishes, Holds
        <4>3. ASSUME phase[k] \in InQueue PROVE \E q \in 1..Len(queue') : queue'[q] = k
          <5>1. PICK q \in 1..Len(queue) : queue[q] = k
            BY <1>0, <4>3
          <5>2. QED BY <2>2, <3>2, <5>1
        <4>4. QED BY <4>1, <4>2, <4>3
      <3>3. QED BY <3>1, <3>2
    <2>5. ASSUME NEW q \in 1..Len(queue') PROVE Listed(q)'
      <3>1. q + 1 \in 1..Len(queue) /\ queue'[q] = queue[q + 1]
        BY <2>2
      <3>2. QED BY <1>0, <2>1, <2>3, <3>1, PhasesKnown
    <2>6. check' # "speaking"
      BY <1>0, <1>4, PhasesKnown DEF Finishes, Holds
    <2>7. \A k \in Messages : Away(k)'
      BY <1>0, <1>4, <2>1, PhasesKnown DEF Finishes
    <2>8. QED BY <2>4, <2>5, <2>6, <2>7
  <1>5. CASE Checks
    <2>1. phase' = phase
      BY <1>5 DEF Checks
    <2>0. \A k \in Messages : Away(k)'
      BY <1>0, <1>5 DEF Checks
    <2>2. CASE queue' = Append(queue, Nobody) /\ check' = "joining"
      <3>1. /\ Len(queue') = Len(queue) + 1 /\ queue'[Len(queue) + 1] = Nobody
            /\ \A p \in 1..Len(queue) : queue'[p] = queue[p]
            /\ \A k : Holds(k) => Holds(k)'
        BY <2>2, Joining
      <3>2. Len(queue) \in Nat
        BY QueueTyped
      <3>3. \A k \in Messages : Waits(k)' /\ Works(k)'
        BY <1>0, <2>1, <3>1, <3>2
      <3>4. ASSUME NEW p \in 1..Len(queue') PROVE Listed(p)'
        <4>1. p = Len(queue) + 1 \/ p \in 1..Len(queue)
          BY <3>1, <3>2
        <4>2. QED BY <1>0, <2>1, <3>1, <4>1
      <3>5. QED BY <2>0, <2>2, <3>3, <3>4
    <2>3. CASE Holds(Nobody) /\ queue' = Tail(queue) /\ check' = "none"
      <3>1. /\ Len(queue) \in Nat \ {0} /\ queue[1] = Nobody /\ Len(queue') = Len(queue) - 1
            /\ \A q \in 1..Len(queue') : queue'[q] = queue[q + 1]
            /\ \A q \in 1..Len(queue) : q # 1 => q - 1 \in 1..Len(queue') /\ queue'[q - 1] = queue[q]
        BY <2>3, Leaving
      <3>2. ASSUME NEW k \in Messages PROVE Waits(k)' /\ Works(k)'
        <4>1. phase[k] \notin Begun
          BY <1>0, <2>3, PhasesKnown DEF Holds
        <4>2. ASSUME phase[k] \in InQueue PROVE \E q \in 1..Len(queue') : queue'[q] = k
          <5>1. PICK q \in 1..Len(queue) : queue[q] = k
            BY <1>0, <4>2
          <5>2. QED BY <3>1, <5>1, PhasesKnown
        <4>3. QED BY <2>1, <4>1, <4>2
      <3>3. ASSUME NEW q \in 1..Len(queue') PROVE Listed(q)'
        <4>1. q + 1 \in 1..Len(queue) /\ queue'[q] = queue[q + 1]
          BY <3>1
        <4>2. QED BY <1>0, <2>1, <4>1
      <3>4. QED BY <2>0, <2>3, <3>2, <3>3
    <2>4. CASE UNCHANGED queue /\ (check' = "speaking" => check = "speaking" \/ Holds(Nobody))
      BY <1>0, <2>0, <2>1, <2>4 DEF Holds
    <2>5. QED BY <1>5, <2>0, <2>2, <2>3, <2>4 DEF Checks
  <1>6. QED BY <1>1, <1>2, <1>3, <1>4, <1>5 DEF Kind

\* Whoever holds the lock comes after everybody before him is done with.
LEMMA FirstInLine ==
  ASSUME TypeOK, LockInv, InOrder, NEW i \in Messages, Holds(i), NEW k \in Messages, k < i
  PROVE  phase[k] \in Over
  <1>1. queue[1] = i /\ Len(queue) \in Nat /\ Len(queue) > 0
    BY QueueTyped DEF Holds
  <1>2. phase[i] \notin {"away", "arrived"}
    BY <1>1, PhasesKnown DEF LockInv
  <1>3. phase[k] # "arrived"
    BY <1>2 DEF InOrder
  <1>4. phase[k] # "away"
    BY <1>2, LogTyped, PhasesKnown DEF LockInv
  <1>5. phase[k] \notin InQueue
    <2>1. SUFFICES ASSUME phase[k] \in InQueue PROVE FALSE
      OBVIOUS
    <2>2. PICK p \in 1..Len(queue) : queue[p] = k
      BY <2>1 DEF LockInv
    <2>3. p # 1 /\ 1 \in 1..Len(queue) /\ 1 < p
      BY <1>1, <2>2, PhasesKnown
    <2>4. queue[1] < queue[p]
      BY <1>1, <2>2, <2>3, PhasesKnown DEF InOrder
    <2>5. QED BY <1>1, <2>2, <2>4, PhasesKnown
  <1>6. QED BY <1>3, <1>4, <1>5 DEF TypeOK, InQueue, Begun

LEMMA OrderStep == ASSUME ~Contended, TypeOK, LockInv, InOrder, Kind PROVE InOrder'
  <1> DEFINE Entered(i, j) == i < j /\ phase[j] \notin {"away", "arrived"} => phase[i] # "arrived"
             Lined(p, q) == p < q /\ queue[p] # Nobody /\ queue[q] # Nobody => queue[p] < queue[q]
             Done(i, j) == i < j /\ phase[j] \in Over \cup Begun => phase[i] \in Over
  <1> SUFFICES /\ \A i, j \in Messages : Entered(i, j)' /\ Done(i, j)'
               /\ \A p, q \in 1..Len(queue') : Lined(p, q)'
    BY DEF InOrder
  <1>0. /\ \A i, j \in Messages : Entered(i, j) /\ Done(i, j)
        /\ \A p, q \in 1..Len(queue) : Lined(p, q)
    BY DEF InOrder
  <1>1. CASE Arrives
    <2>1. UNCHANGED queue
      BY <1>1 DEF Arrives
    <2>2. Len(log) \in Nat /\ Len(log) + 1 \in Messages /\ phase[Len(log) + 1] = "away" /\ phase'[Len(log) + 1] = "arrived"
      BY <1>1, Arriving, LogTyped DEF LockInv
    <2>3. \A k \in Messages : k # Len(log) + 1 => phase'[k] = phase[k]
      BY <1>1, Arriving
    <2>4. ASSUME NEW i \in Messages, NEW j \in Messages PROVE Entered(i, j)' /\ Done(i, j)'
      <3>1. CASE i = Len(log) + 1
        <4>1. i < j => phase[j] = "away" /\ phase'[j] = "away"
          BY <2>2, <2>3, <3>1, PhasesKnown DEF LockInv
        <4>2. QED BY <4>1, PhasesKnown
      <3>2. CASE i # Len(log) + 1 /\ j = Len(log) + 1
        BY <2>2, <3>2, PhasesKnown
      <3>3. CASE i # Len(log) + 1 /\ j # Len(log) + 1
        BY <1>0, <2>3, <3>3
      <3>4. QED BY <3>1, <3>2, <3>3
    <2>5. QED BY <1>0, <2>1, <2>4
  <1>2. ASSUME NEW i \in Messages, Enters(i)
        PROVE  /\ \A j, k \in Messages : Entered(j, k)' /\ Done(j, k)'
               /\ \A p, q \in 1..Len(queue') : Lined(p, q)'
    <2>1. /\ phase[i] = "arrived" /\ phase'[i] = "queued" /\ \A k \in Messages : k # i => phase'[k] = phase[k]
          /\ \A j \in 1..(i - 1) : phase[j] # "arrived"
      BY <1>2, Passing DEF Enters
    <2>2. /\ Len(queue') = Len(queue) + 1 /\ queue'[Len(queue) + 1] = i
          /\ \A p \in 1..Len(queue) : queue'[p] = queue[p]
      BY <1>2, Joining DEF Enters
    <2>3. Len(queue) \in Nat /\ \A p \in 1..Len(queue) : queue[p] \in Messages \cup {Nobody}
      BY QueueTyped
    <2>4. ASSUME NEW j \in Messages, NEW k \in Messages PROVE Entered(j, k)' /\ Done(j, k)'
      <3>1. j < i => j \in 1..(i - 1)
        BY KindsKnown DEF Messages
      <3>2. CASE k = i
        <4>1. phase'[k] = "queued" /\ "queued" \notin Over \cup Begun
          BY <2>1, <3>2 DEF Over, Begun
        <4>2. j < i => phase'[j] # "arrived"
          BY <2>1, <3>1
        <4>3. QED BY <3>2, <4>1, <4>2
      <3>3. CASE k # i /\ j = i
        <4>1. ~(j < k /\ phase[k] \in Over \cup Begun)
          BY <1>0, <2>1, <3>3, PhasesKnown
        <4>2. QED BY <2>1, <3>3, <4>1
      <3>4. CASE k # i /\ j # i
        BY <1>0, <2>1, <3>4
      <3>5. QED BY <3>2, <3>3, <3>4
    <2>5. ASSUME NEW p \in 1..Len(queue) PROVE queue[p] # Nobody => queue[p] < i
      <3>1. SUFFICES ASSUME queue[p] # Nobody PROVE queue[p] < i
        OBVIOUS
      <3>2. queue[p] \in Messages /\ phase[queue[p]] \notin {"away", "arrived"}
        BY <2>3, <3>1 DEF LockInv
      <3>3. queue[p] # i /\ ~(i < queue[p])
        BY <1>0, <2>1, <3>2
      <3>4. queue[p] \in Nat /\ i \in Nat
        BY <3>2, PhasesKnown
      <3>5. QED BY <3>3, <3>4
    <2>6. ASSUME NEW p \in 1..Len(queue'), NEW q \in 1..Len(queue') PROVE Lined(p, q)'
      <3>1. SUFFICES ASSUME p < q PROVE Lined(p, q)'
        OBVIOUS
      <3>2. p \in 1..Len(queue) /\ queue'[p] = queue[p]
        BY <2>2, <2>3, <3>1
      <3>3. CASE q = Len(queue) + 1
        BY <2>2, <2>5, <3>2, <3>3
      <3>4. CASE q \in 1..Len(queue)
        BY <1>0, <2>2, <3>2, <3>4
      <3>5. QED BY <2>2, <2>3, <3>3, <3>4
    <2>7. QED BY <2>4, <2>6
  <1>3. ASSUME NEW i \in Messages, NEW p \in Over \cup Begun, PassesOn(i, p), Holds(i), phase[i] \in InQueue
        PROVE  \A j, k \in Messages : Entered(j, k)' /\ Done(j, k)'
    <2>1. phase'[i] = p /\ \A k \in Messages : k # i => phase'[k] = phase[k]
      BY <1>3, Passing
    <2>2. \A j \in Messages : j < i => phase[j] \in Over
      BY <1>3, FirstInLine
    <2>3. ASSUME NEW j \in Messages, NEW k \in Messages PROVE Entered(j, k)' /\ Done(j, k)'
      <3>1. CASE k = i
        BY <2>1, <2>2, <3>1, PhasesKnown
      <3>2. CASE k # i /\ j = i
        <4>1. ~(j < k /\ phase[k] \in Over \cup Begun)
          BY <1>0, <1>3, <3>2, PhasesKnown
        <4>2. QED BY <2>1, <3>2, <4>1, PhasesKnown
      <3>3. CASE k # i /\ j # i
        BY <1>0, <2>1, <3>3
      <3>4. QED BY <3>1, <3>2, <3>3
    <2>4. QED BY <2>3
  <1>4. ASSUME NEW h, Holds(h), queue' = Tail(queue)
        PROVE  \A p, q \in 1..Len(queue') : Lined(p, q)'
    <2>1. /\ Len(queue) \in Nat \ {0} /\ Len(queue') = Len(queue) - 1
          /\ \A q \in 1..Len(queue') : queue'[q] = queue[q + 1]
      BY <1>4, Leaving
    <2>2. ASSUME NEW p \in 1..Len(queue'), NEW q \in 1..Len(queue') PROVE Lined(p, q)'
      <3>1. p + 1 \in 1..Len(queue) /\ q + 1 \in 1..Len(queue) /\ (p < q => p + 1 < q + 1)
        BY <2>1
      <3>2. QED BY <1>0, <2>1, <3>1
    <2>3. QED BY <2>2
  <1>5. ASSUME NEW i \in Messages, NEW p \in Begun, Advances(i, p)
        PROVE  /\ \A j, k \in Messages : Entered(j, k)' /\ Done(j, k)'
               /\ \A q, r \in 1..Len(queue') : Lined(q, r)'
    BY <1>0, <1>3, <1>5 DEF Advances
  <1>6. ASSUME NEW i \in Messages, NEW p \in Over, Finishes(i, p)
        PROVE  /\ \A j, k \in Messages : Entered(j, k)' /\ Done(j, k)'
               /\ \A q, r \in 1..Len(queue') : Lined(q, r)'
    BY <1>3, <1>4, <1>6 DEF Finishes
  <1>7. CASE Checks
    <2>1. phase' = phase
      BY <1>7 DEF Checks
    <2>2. CASE queue' = Append(queue, Nobody)
      <3>1. /\ Len(queue') = Len(queue) + 1 /\ queue'[Len(queue) + 1] = Nobody
            /\ \A p \in 1..Len(queue) : queue'[p] = queue[p]
        BY <2>2, Joining
      <3>2. Len(queue) \in Nat
        BY QueueTyped
      <3>3. ASSUME NEW p \in 1..Len(queue'), NEW q \in 1..Len(queue') PROVE Lined(p, q)'
        <4>1. (p = Len(queue) + 1 \/ p \in 1..Len(queue)) /\ (q = Len(queue) + 1 \/ q \in 1..Len(queue))
          BY <3>1, <3>2
        <4>2. QED BY <1>0, <3>1, <4>1
      <3>4. QED BY <1>0, <2>1, <3>3
    <2>3. CASE Holds(Nobody) /\ queue' = Tail(queue)
      BY <1>0, <1>4, <2>1, <2>3
    <2>4. CASE UNCHANGED queue
      BY <1>0, <2>1, <2>4
    <2>5. QED BY <1>7, <2>2, <2>3, <2>4 DEF Checks
  <1>8. QED BY <1>1, <1>2, <1>5, <1>6, <1>7 DEF Kind

-----------------------------------------------------------------------------
(* Types *)

LEMMA Handled == ASSUME TypeOK, LockInv, NEW i \in Messages, phase[i] # "away" PROVE i \in 1..Len(log) /\ From(i) \in Senders
  <1>1. ~(i > Len(log)) /\ Len(log) \in Nat /\ i \in Nat /\ i >= 1
    BY LogTyped, KindsKnown DEF LockInv, Messages
  <1>2. i \in 1..Len(log)
    BY <1>1
  <1>3. QED BY <1>2, LogTyped

LEMMA LogGrows ==
  ASSUME TypeOK, Kind
  PROVE  /\ log' \in Seq([from : Senders, kind : Kinds]) /\ Len(log') <= Bound
         /\ Len(log') \in Nat /\ Len(log) \in Nat /\ Len(log) <= Len(log')
         /\ \A k \in 1..Len(log) : log'[k] = log[k] /\ k \in 1..Len(log')
  <1>1. Len(log) \in Nat /\ Len(log) <= Bound
    BY LogTyped
  <1>2. CASE Arrives
    <2>1. Len(log) < Bound
      BY <1>2 DEF Arrives
    <2>2. QED BY <1>1, <1>2, <2>1, Arriving, KindsKnown
  <1>3. CASE UNCHANGED log
    BY <1>1, <1>3 DEF TypeOK
  <1>4. QED BY <1>2, <1>3 DEF Kind, Enters, Advances, Finishes, Checks

LEMMA PhaseTyped ==
  ASSUME TypeOK, Kind
  PROVE  /\ phase' \in [Messages -> {"away", "arrived", "queued", "waiting", "replying"} \cup Over]
         /\ queue' \in Seq(Messages \cup {Nobody})
  <1>1. CASE Arrives
    <2>1. UNCHANGED queue /\ \E n \in Messages : PassesOn(n, "arrived")
      BY <1>1, Arriving DEF Arrives
    <2>2. QED BY <2>1 DEF TypeOK, PassesOn
  <1>2. ASSUME NEW i \in Messages, Enters(i)
        PROVE  /\ phase' \in [Messages -> {"away", "arrived", "queued", "waiting", "replying"} \cup Over]
               /\ queue' \in Seq(Messages \cup {Nobody})
    <2>1. queue' \in Seq(Messages \cup {Nobody})
      BY <1>2, Joining DEF Enters
    <2>2. QED BY <1>2, <2>1 DEF TypeOK, Enters, PassesOn
  <1>3. ASSUME NEW i \in Messages, NEW p \in Begun, Advances(i, p)
        PROVE  /\ phase' \in [Messages -> {"away", "arrived", "queued", "waiting", "replying"} \cup Over]
               /\ queue' \in Seq(Messages \cup {Nobody})
    BY <1>3 DEF TypeOK, Advances, PassesOn, Begun
  <1>4. ASSUME NEW i \in Messages, NEW p \in Over, Finishes(i, p)
        PROVE  /\ phase' \in [Messages -> {"away", "arrived", "queued", "waiting", "replying"} \cup Over]
               /\ queue' \in Seq(Messages \cup {Nobody})
    <2>1. queue' \in Seq(Messages \cup {Nobody})
      BY <1>4, Leaving DEF Finishes
    <2>2. QED BY <1>4, <2>1 DEF TypeOK, Finishes, PassesOn
  <1>5. CASE Checks
    <2>1. phase' = phase
      BY <1>5 DEF Checks
    <2>2. queue' \in Seq(Messages \cup {Nobody})
      BY <1>5, Joining, Leaving DEF Checks, TypeOK
    <2>3. QED BY <2>1, <2>2 DEF TypeOK
  <1>6. QED BY <1>1, <1>2, <1>3, <1>4, <1>5 DEF Kind

NotedType == [Senders -> [msg : Messages \cup {Nobody}, answered : BOOLEAN]]

\* What a step does to what is noted.
LEMMA MarkTyped ==
  ASSUME TypeOK, NEW i \in 1..Len(log), NEW b \in BOOLEAN, MarkAnswered(i, b)
  PROVE  /\ noted' \in NotedType /\ spoke'
         /\ talking' \in {talking, talking \cup {From(i)}} /\ talking' \subseteq Senders
         /\ \A s \in Senders : noted'[s].msg = noted[s].msg
  <1>1. From(i) \in Senders
    BY LogTyped
  <1>2. noted \in NotedType
    BY DEF TypeOK, NotedType
  <1>3. noted' \in {noted, [noted EXCEPT ![From(i)] = [@ EXCEPT !.answered = TRUE]]}
    BY DEF MarkAnswered
  <1>4. noted' \in NotedType /\ \A s \in Senders : noted'[s].msg = noted[s].msg
    <2>1. CASE noted' = noted
      BY <1>2, <2>1
    <2>2. CASE noted' = [noted EXCEPT ![From(i)] = [@ EXCEPT !.answered = TRUE]]
      <3>1. noted[From(i)] \in [msg : Messages \cup {Nobody}, answered : BOOLEAN]
        BY <1>1, <1>2 DEF NotedType
      <3>2. [noted[From(i)] EXCEPT !.answered = TRUE] \in [msg : Messages \cup {Nobody}, answered : BOOLEAN]
            /\ [noted[From(i)] EXCEPT !.answered = TRUE].msg = noted[From(i)].msg
        BY <3>1
      <3>3. noted' = [noted EXCEPT ![From(i)] = [noted[From(i)] EXCEPT !.answered = TRUE]]
        BY <2>2
      <3>4. noted' \in NotedType
        BY <1>2, <3>2, <3>3 DEF NotedType
      <3>5. \A s \in Senders : noted'[s].msg = noted[s].msg
        BY <1>2, <3>2, <3>3 DEF NotedType
      <3>6. QED BY <3>4, <3>5
    <2>3. QED BY <1>3, <2>1, <2>2
  <1>5. QED BY <1>1, <1>4 DEF MarkAnswered, TypeOK

LEMMA OthersTyped ==
  ASSUME TypeOK, LockInv, WeighedInv, [Next]_vars
  PROVE  /\ noted' \in NotedType /\ talking' \subseteq Senders /\ stash' \in [Senders -> SUBSET Messages] /\ lapsed' \subseteq Messages
         /\ quiet' \in BOOLEAN /\ spoke' \in BOOLEAN
         /\ newest' \in Messages \cup {Nobody}
         /\ check' \in {"none", "waiting", "scoring", "joining", "speaking"}
         /\ weighed' \in Messages \cup {Nobody}
  <1> DEFINE Rest == /\ noted' \in NotedType /\ talking' \subseteq Senders /\ stash' \in [Senders -> SUBSET Messages] /\ lapsed' \subseteq Messages
                     /\ quiet' \in BOOLEAN /\ spoke' \in BOOLEAN
                     /\ newest' \in Messages \cup {Nobody}
                     /\ check' \in {"none", "waiting", "scoring", "joining", "speaking"}
                     /\ weighed' \in Messages \cup {Nobody}
  <1>0. /\ noted \in NotedType /\ talking \subseteq Senders /\ stash \in [Senders -> SUBSET Messages] /\ lapsed \subseteq Messages
        /\ quiet \in BOOLEAN /\ spoke \in BOOLEAN
        /\ newest \in Messages \cup {Nobody}
        /\ check \in {"none", "waiting", "scoring", "joining", "speaking"}
        /\ weighed \in Messages \cup {Nobody}
    BY DEF TypeOK, NotedType
  <1>1. ASSUME NEW s \in Senders, NEW k \in Kinds, Arrive(s, k) PROVE Rest
    <2>1. Len(log) + 1 \in Messages
      BY <1>1, LogTyped, KindsKnown DEF Arrive, Messages
    <2>2. noted' = [noted EXCEPT ![s] = [msg |-> Len(log) + 1, answered |-> FALSE]]
      BY <1>1 DEF Arrive
    <2>3. noted' \in NotedType
      BY <1>0, <2>1, <2>2 DEF NotedType
    <2>4. QED BY <1>0, <1>1, <2>3 DEF Arrive, checkVars
  <1>2. ASSUME NEW i \in Messages, Enter(i) PROVE Rest
    BY <1>0, <1>2 DEF Enter, checkVars
  <1>3. ASSUME NEW i \in Messages, Handle(i) PROVE Rest
    <2>1. i \in 1..Len(log) /\ From(i) \in Senders
      BY <1>3, Handled
         DEF Handle, Overhear, Hush, TakeUp, Superseded, Turn, MayAnswer, Answer, Silent
    <2>2. CASE Overhear(i)
      BY <1>0, <2>2 DEF Overhear
    <2>3. CASE Hush(i) \/ TakeUp(i) \/ Silent(i)
      BY <1>0, <2>3 DEF Hush, TakeUp, Silent, checkVars
    <2>4. CASE Superseded(i)
      BY <1>0, <2>1, <2>4 DEF Superseded, checkVars
    <2>5. CASE Turn(i)
      BY <1>0, <2>1, <2>5 DEF Turn, checkVars
    <2>6. CASE Answer(i)
      <3>1. noted' \in NotedType /\ spoke' /\ talking' \subseteq Senders
        BY <2>1, <2>6, MarkTyped DEF Answer
      <3>2. spoke' \in BOOLEAN
        BY <2>6 DEF Answer, MarkAnswered
      <3>3. QED BY <1>0, <2>6, <3>1, <3>2 DEF Answer, checkVars
    <2>7. QED BY <1>3, <2>2, <2>3, <2>4, <2>5, <2>6 DEF Handle
  <1>4. ASSUME Check PROVE Rest
    <2>1. CASE ChimeIn
      <3>1. noted' \in NotedType /\ talking' \subseteq Senders /\ spoke' = TRUE
        BY <2>1, MarkTyped DEF ChimeIn, WeighedInv, MarkAnswered
      <3>2. QED BY <1>0, <2>1, <3>1 DEF ChimeIn, CheckEnds
    <2>2. CASE Consider \/ NotHerBusiness \/ JoinIn \/ BeginChimeIn \/ KeepOut
      BY <1>0, <2>2 DEF Consider, NotHerBusiness, JoinIn, BeginChimeIn, KeepOut, CheckEnds, msgVars
    <2>3. QED BY <1>4, <2>1, <2>2 DEF Check
  <1>5. CASE QuietEnds \/ GapEnds \/ (\E s \in Senders : TalkEnds(s)) \/ UNCHANGED vars
    BY <1>0, <1>5 DEF QuietEnds, GapEnds, TalkEnds, vars, msgVars, checkVars
  <1>6. QED BY <1>1, <1>2, <1>3, <1>4, <1>5 DEF Next

LEMMA TypeStep == ASSUME TypeOK, LockInv, WeighedInv, [Next]_vars PROVE TypeOK'
  <1>1. QED BY KindOfStep, LogGrows, PhaseTyped, OthersTyped DEF TypeOK, NotedType

-----------------------------------------------------------------------------
(* What is noted, what is weighed, and when she joins in *)

\* Past messages stay what they are.
LEMMA PastStays ==
  ASSUME TypeOK, Kind, NEW i \in 1..Len(log)
  PROVE  i \in 1..Len(log') /\ log'[i] = log[i] /\ From(i)' = From(i)
  <1>1. QED BY LogGrows DEF From

\* Only what arrives changes the message noted.
LEMMA NotedKept ==
  ASSUME TypeOK, LockInv, WeighedInv, [Next]_vars, \A s \in Senders, k \in Kinds : ~Arrive(s, k)
  PROVE  log' = log /\ \A s \in Senders : noted'[s].msg = noted[s].msg
  <1>1. CASE \E i \in Messages : Answer(i)
    <2>1. PICK i \in Messages : Answer(i)
      BY <1>1
    <2>2. i \in 1..Len(log)
      BY <2>1, Handled DEF Answer
    <2>3. QED BY <2>1, <2>2, MarkTyped DEF Answer
  <1>2. CASE ChimeIn
    <2>1. weighed \in 1..Len(log)
      BY <1>2 DEF ChimeIn, WeighedInv
    <2>2. QED BY <1>2, <2>1, MarkTyped DEF ChimeIn
  <1>3. CASE UNCHANGED <<log, noted>>
    BY <1>3
  <1>4. ASSUME NEW i \in Messages, Enter(i) PROVE UNCHANGED <<log, noted>>
    BY <1>4 DEF Enter
  <1>5. ASSUME NEW i \in Messages, Handle(i) PROVE UNCHANGED <<log, noted>> \/ Answer(i)
    BY <1>5 DEF Handle, Overhear, Hush, TakeUp, Superseded, Turn, Silent
  <1>6. ASSUME Check PROVE UNCHANGED <<log, noted>> \/ ChimeIn
    BY <1>6 DEF Check, Consider, NotHerBusiness, JoinIn, BeginChimeIn, KeepOut, msgVars
  <1>7. ASSUME QuietEnds \/ GapEnds \/ (\E s \in Senders : TalkEnds(s)) \/ UNCHANGED vars PROVE UNCHANGED <<log, noted>>
    BY <1>7 DEF QuietEnds, GapEnds, TalkEnds, vars, msgVars
  <1>8. QED BY <1>1, <1>2, <1>3, <1>4, <1>5, <1>6, <1>7 DEF Next

LEMMA NotedStep == ASSUME TypeOK, LockInv, NotedInv, WeighedInv, [Next]_vars PROVE NotedInv'
  <1>0. Kind /\ Len(log) \in Nat /\ \A i \in 1..Len(log) : From(i) \in Senders
    BY KindOfStep, LogTyped
  <1>1. ASSUME NEW s \in Senders, NEW k \in Kinds, Arrive(s, k) PROVE NotedInv'
    <2> DEFINE n == Len(log) + 1
    <2>1. /\ log' = Append(log, [from |-> s, kind |-> k]) /\ noted' = [noted EXCEPT ![s] = [msg |-> n, answered |-> FALSE]]
      BY <1>1 DEF Arrive
    <2>2. Len(log') = n /\ log'[n] = [from |-> s, kind |-> k] /\ \A i \in 1..Len(log) : log'[i] = log[i]
      <3>1. [from |-> s, kind |-> k] \in [from : Senders, kind : Kinds]
        OBVIOUS
      <3>2. QED BY <2>1, <3>1, AppendProperties DEF TypeOK
    <2>3. noted'[s].msg = n /\ \A r \in Senders : r # s => noted'[r] = noted[r]
      BY <2>1 DEF TypeOK
    <2>4. log'[n].from = s /\ \A i \in 1..Len(log) : log'[i].from = log[i].from
      BY <2>2
    <2>5. /\ \A i \in 1..Len(log) : noted[log[i].from].msg >= i /\ log[i].from \in Senders
          /\ \A r \in Senders : noted[r].msg # Nobody => noted[r].msg \in 1..Len(log) /\ log[noted[r].msg].from = r
      BY <1>0 DEF NotedInv, From
    <2>6. ASSUME NEW i \in 1..n PROVE noted'[log'[i].from].msg >= i
      <3>1. CASE i = n
        BY <1>0, <2>3, <2>4, <3>1
      <3>2. CASE i # n
        <4>1. i \in 1..Len(log) /\ i <= n
          BY <1>0, <3>2
        <4>2. CASE log[i].from = s
          BY <2>3, <2>4, <4>1, <4>2, <1>0
        <4>3. CASE log[i].from # s
          BY <2>3, <2>4, <2>5, <4>1, <4>3
        <4>4. QED BY <4>2, <4>3
      <3>3. QED BY <3>1, <3>2
    <2>7. ASSUME NEW r \in Senders, noted'[r].msg # Nobody
          PROVE  noted'[r].msg \in 1..n /\ log'[noted'[r].msg].from = r
      <3>1. CASE r = s
        BY <1>0, <2>3, <2>4, <3>1
      <3>2. CASE r # s
        <4>1. noted[r].msg \in 1..Len(log) /\ log[noted[r].msg].from = r /\ noted'[r] = noted[r]
          BY <2>3, <2>5, <2>7, <3>2
        <4>2. QED BY <1>0, <2>4, <4>1
      <3>3. QED BY <3>1, <3>2
    <2>8. QED BY <2>2, <2>6, <2>7 DEF NotedInv, From
  <1>2. ASSUME \A s \in Senders, k \in Kinds : ~Arrive(s, k) PROVE NotedInv'
    <2>1. log' = log /\ \A s \in Senders : noted'[s].msg = noted[s].msg
      BY <1>2, NotedKept
    <2>2. QED BY <1>0, <2>1 DEF NotedInv, From
  <1>3. QED BY <1>1, <1>2

LEMMA WeighedStep == ASSUME TypeOK, LockInv, WeighedInv, [Next]_vars PROVE WeighedInv'
  <1>0. Kind /\ \A i \in 1..Len(log) : i \in 1..Len(log')
    BY KindOfStep, LogGrows
  <1>1. ASSUME NEW i \in Messages, Overhear(i) PROVE WeighedInv'
    <2>1. i \in 1..Len(log)
      BY <1>1, Handled DEF Overhear
    <2>2. QED BY <1>0, <1>1, <2>1 DEF Overhear, WeighedInv
  <1>2. ASSUME NEW i \in Messages, Hush(i) PROVE WeighedInv'
    BY <1>0, <1>2 DEF Hush, WeighedInv, checkVars
  <1>3. CASE UNCHANGED <<newest, check, weighed>>
    BY <1>0, <1>3 DEF WeighedInv
  <1>4. CASE Check
    BY <1>0, <1>4 DEF Check, Consider, NotHerBusiness, JoinIn, BeginChimeIn, ChimeIn, KeepOut, CheckEnds, WeighedInv
  <1>5. ASSUME NEW s \in Senders, NEW k \in Kinds, Arrive(s, k) PROVE UNCHANGED <<newest, check, weighed>>
    BY <1>5 DEF Arrive, checkVars
  <1>6. ASSUME NEW i \in Messages, Enter(i) \/ Handle(i)
        PROVE  UNCHANGED <<newest, check, weighed>> \/ Overhear(i) \/ Hush(i)
    BY <1>6 DEF Enter, Handle, TakeUp, Superseded, Turn, Answer, Silent, checkVars
  <1>7. ASSUME QuietEnds \/ GapEnds \/ (\E s \in Senders : TalkEnds(s)) \/ UNCHANGED vars
        PROVE  UNCHANGED <<newest, check, weighed>>
    BY <1>7 DEF QuietEnds, GapEnds, TalkEnds, vars, checkVars
  <1>8. QED BY <1>1, <1>2, <1>3, <1>4, <1>5, <1>6, <1>7 DEF Next

\* She speaks in the group only through the lock: while the check holds it, nobody
\* is answered.
LEMMA AloneStep == ASSUME TypeOK, LockInv, ChimesAlone, [Next]_vars PROVE ChimesAlone'
  <1>1. CASE check' = "speaking" /\ check # "speaking"
    <2>1. BeginChimeIn
      BY <1>1 DEF Next, Arrive, Enter, Handle, Overhear, Hush, TakeUp, Superseded, Turn, Answer, Silent,
                  Check, Consider, NotHerBusiness, JoinIn, ChimeIn, KeepOut, CheckEnds,
                  QuietEnds, GapEnds, TalkEnds, vars, checkVars
    <2>2. QED BY <1>1, <2>1 DEF BeginChimeIn, MayStillJoin, CheckEnds, ChimesAlone
  <1>2. CASE check = "speaking" /\ check' = "speaking"
    <2>1. \A i \in Messages : ~Holds(i)
      BY <1>2, PhasesKnown DEF LockInv, Holds
    <2>2. ~ChimeIn
      BY <1>2 DEF ChimeIn, CheckEnds
    <2>3. ~spoke
      BY <1>2 DEF ChimesAlone
    <2>4. \A i \in Messages : ~Answer(i)
      BY <2>1 DEF Answer
    <2>5. ~spoke'
      BY <2>2, <2>3, <2>4
         DEF Next, Arrive, Enter, Handle, Overhear, Hush, TakeUp, Superseded, Turn, Silent,
             Check, Consider, NotHerBusiness, JoinIn, BeginChimeIn, KeepOut,
             QuietEnds, GapEnds, TalkEnds, vars, checkVars
    <2>6. QED BY <2>5 DEF ChimesAlone
  <1>3. CASE check' # "speaking"
    BY <1>3 DEF ChimesAlone
  <1>4. QED BY <1>1, <1>2, <1>3

LEMMA ChatInit == ASSUME Init PROVE ChatInv
  <1>1. Len(log) = 0 /\ Len(queue) = 0
    BY DEF Init
  <1>2. TypeOK
    <2>1. <<>> \in Seq([from : Senders, kind : Kinds]) /\ <<>> \in Seq(Messages \cup {Nobody})
      BY EmptySeq
    <2>2. log = <<>> /\ queue = <<>> /\ 0 <= Bound
      BY KindsKnown DEF Init
    <2>3. /\ phase \in [Messages -> {"away", "arrived", "queued", "waiting", "replying"} \cup Over]
          /\ noted \in [Senders -> [msg : Messages \cup {Nobody}, answered : BOOLEAN]]
      BY DEF Init
    <2>4. QED BY <1>1, <2>1, <2>2, <2>3 DEF Init, TypeOK
  <1>3. LockInv
    BY <1>1, PhasesKnown, KindsKnown DEF Init, LockInv, Messages, InQueue, Begun
  <1>4. NotedInv /\ WeighedInv /\ ChimesAlone
    BY <1>1 DEF Init, NotedInv, WeighedInv, ChimesAlone
  <1>5. QED BY <1>2, <1>3, <1>4 DEF ChatInv

LEMMA ChatStep == ASSUME ChatInv, [Next]_vars PROVE ChatInv'
  <1>1. QED BY KindOfStep, TypeStep, LockStep, NotedStep, WeighedStep, AloneStep DEF ChatInv

\* She joins in only where she has not just spoken (_check_when_quiet and
\* _process_chime_in), in whatever order the messages reach the chat's lock.
THEOREM JoinsInAlone == Spec => []ChimesAlone
  <1>1. ChatInv => ChimesAlone
    BY DEF ChatInv
  <1>2. QED BY <1>1, ChatInit, ChatStep, PTL DEF Spec

-----------------------------------------------------------------------------
(* Who was turned away, and who is still talking *)

\* The same, of the phases and the log before or after a step.
Gone(ph, lg, s) ==
    \/ \E j \in Messages : ph[j] = "hushed"
    \/ \E j \in 1..Len(lg) : lg[j].from = s /\ lg[j].kind = "elsewhere"

Sure(ph, lg, j) == ph[j] \in {"waiting", "replying"} \/ lg[j].kind = "mention"

Took(ph, lg, j) == ph[j] # "ignored" /\ (ph[j] \in Over \/ Sure(ph, lg, j))

HasLater(ph, lg, tk, st, lp, i) ==
    \/ i \in lp \/ Gone(ph, lg, lg[i].from)
    \/ \E j \in 1..Len(lg) : j > i /\ lg[j].from = lg[i].from /\ Took(ph, lg, j)
    \/ /\ lg[i].from \in tk /\ i \in st[lg[i].from]
       /\ \E j \in 1..Len(lg) : j > i /\ lg[j].from = lg[i].from /\ ph[j] \notin Over

GoesOn(ph, lg, tk, s) ==
    \/ Gone(ph, lg, s)
    \/ \E j \in 1..Len(lg) : lg[j].from = s /\ ph[j] \notin Over /\ Sure(ph, lg, j)
    \/ s \in tk /\ \E j \in 1..Len(lg) : lg[j].from = s /\ ph[j] \notin Over

LEMMA Spelled ==
  /\ \A i \in Messages : Followed(i) <=> HasLater(phase, log, talking, stash, lapsed, i)
  /\ \A i \in Messages : Followed(i)' <=> HasLater(phase', log', talking', stash', lapsed', i)
  /\ \A s \in Senders : CarriedOn(s) <=> GoesOn(phase, log, talking, s)
  /\ \A s \in Senders : CarriedOn(s)' <=> GoesOn(phase', log', talking', s)
  <1>1. /\ \A i \in Messages : Followed(i) <=> HasLater(phase, log, talking, stash, lapsed, i)
        /\ \A i \in Messages : Followed(i)' <=> HasLater(phase', log', talking', stash', lapsed', i)
    BY DEF Followed, HasLater, Taken, Took, SureOfTurn, Sure, TurnedAway, Gone, Later, From
  <1>2. /\ \A s \in Senders : CarriedOn(s) <=> GoesOn(phase, log, talking, s)
        /\ \A s \in Senders : CarriedOn(s)' <=> GoesOn(phase', log', talking', s)
    BY DEF CarriedOn, GoesOn, InFlight, SureOfTurn, Sure, TurnedAway, Gone, From
  <1>3. QED BY <1>1, <1>2

LEMMA OverStays ==
  ASSUME TypeOK, LockInv, Kind, NEW i \in Messages, phase[i] \in Over
  PROVE  phase'[i] = phase[i]
  <1>1. CASE Arrives
    <2>1. phase[Len(log) + 1] = "away"
      BY <1>1, Arriving, LogTyped DEF LockInv
    <2>2. QED BY <1>1, <2>1, Arriving, PhasesKnown
  <1>2. ASSUME NEW k \in Messages, Enters(k) PROVE phase'[i] = phase[i]
    BY <1>2, Passing, PhasesKnown DEF Enters
  <1>3. ASSUME NEW k \in Messages, NEW p, Advances(k, p) \/ Finishes(k, p) PROVE phase'[i] = phase[i]
    BY <1>3, Passing, PhasesKnown DEF Advances, Finishes
  <1>4. CASE Checks
    BY <1>4 DEF Checks
  <1>5. QED BY <1>1, <1>2, <1>3, <1>4 DEF Kind

LEMMA GoneStays ==
  ASSUME TypeOK, LockInv, Kind, NEW s, Gone(phase, log, s)
  PROVE  Gone(phase', log', s)
  <1>1. ASSUME NEW j \in Messages, phase[j] = "hushed" PROVE phase'[j] = "hushed"
    BY <1>1, OverStays DEF Over
  <1>2. \A j \in 1..Len(log) : j \in 1..Len(log') /\ log'[j] = log[j]
    BY LogGrows
  <1>3. QED BY <1>1, <1>2 DEF Gone

\* Every message that moves is moved by its own handling.
LEMMA Moved ==
  ASSUME TypeOK, [Next]_vars, NEW i \in Messages, phase'[i] # phase[i]
  PROVE  phase'[i] \in {"arrived", "queued"} \/ Handle(i)
  <1>1. ASSUME NEW s \in Senders, NEW k \in Kinds, Arrive(s, k) PROVE phase'[i] = "arrived"
    BY <1>1 DEF Arrive, Becomes, TypeOK
  <1>2. ASSUME NEW k \in Messages, Enter(k) PROVE phase'[i] = "queued"
    BY <1>2 DEF Enter, Becomes, TypeOK
  <1>3. ASSUME NEW k \in Messages, Handle(k) PROVE k = i
    BY <1>3 DEF Handle, Overhear, Hush, TakeUp, Superseded, Turn, Answer, Silent, Ends, Becomes, TypeOK
  <1>4. ~Check /\ ~QuietEnds /\ ~GapEnds /\ (\A s \in Senders : ~TalkEnds(s)) /\ ~UNCHANGED vars
    BY DEF Check, Consider, NotHerBusiness, JoinIn, BeginChimeIn, ChimeIn, KeepOut,
           QuietEnds, GapEnds, TalkEnds, vars, msgVars
  <1>5. QED BY <1>1, <1>2, <1>3, <1>4 DEF Next

\* Someone she talks with is taken for her, unless turned away.
LEMMA OnlyTurnedAway ==
  ASSUME ChatInv, quiet => \E j \in Messages : phase[j] = "hushed",
         NEW i \in Messages, Overhear(i), From(i) \in talking
  PROVE  Gone(phase, log, log[i].from)
  <1>1. i \in 1..Len(log) /\ log[i].kind \in AllKinds
    BY Handled, LogTyped, KindsKnown DEF Overhear, ChatInv
  <1>2. log[i].kind \notin {"mention", "hush"} /\ (log[i].kind = "plain" => quiet)
    BY DEF Overhear, ForHer
  <1>3. log[i].kind = "elsewhere" \/ quiet
    BY <1>1, <1>2 DEF AllKinds
  <1>4. QED BY <1>1, <1>3 DEF Gone

\* What is taken for her stays so.
LEMMA TookStays ==
  ASSUME TypeOK, LockInv, [Next]_vars, NEW j \in 1..Len(log), Took(phase, log, j)
  PROVE  Took(phase', log', j)
  <1>0. Kind /\ log'[j] = log[j] /\ j \in Messages
    BY KindOfStep, PastStays, LogTyped
  <1>1. CASE phase[j] \in Over
    BY <1>0, <1>1, OverStays DEF Took
  <1>2. CASE phase[j] \notin Over /\ phase'[j] = phase[j]
    BY <1>0, <1>2 DEF Took, Sure
  <1>3. CASE phase[j] \notin Over /\ phase'[j] # phase[j]
    <2>1. CASE Handle(j)
      <3>1. ~Overhear(j)
        BY <1>3 DEF Overhear, ForHer, Took, Sure
      <3>2. phase'[j] \in {"waiting", "replying", "hushed", "superseded", "limited", "answered", "silent"}
        BY <1>0, <2>1, <3>1 DEF Handle, Hush, TakeUp, Superseded, Turn, Answer, Silent, Ends, Becomes, TypeOK
      <3>3. QED BY <3>2 DEF Took, Sure, Over
    <2>2. CASE ~Handle(j)
      <3>1. phase'[j] \in {"arrived", "queued"}
        BY <1>0, <1>3, <2>2, Moved
      <3>2. CASE log[j].kind = "mention"
        BY <1>0, <3>1, <3>2 DEF Took, Sure
      <3>3. CASE phase[j] \in {"waiting", "replying"}
        <4>1. ASSUME NEW s \in Senders, NEW k \in Kinds, Arrive(s, k) PROVE phase'[j] = phase[j]
          <5>1. Len(log) \in Nat /\ j # Len(log) + 1 /\ phase' = [phase EXCEPT ![Len(log) + 1] = "arrived"]
            BY <4>1, LogTyped DEF Arrive, Becomes
          <5>2. QED BY <1>0, <5>1 DEF TypeOK
        <4>2. ASSUME NEW k \in Messages, Enter(k) PROVE phase'[j] = phase[j]
          BY <1>0, <3>3, <4>2 DEF Enter, Becomes, TypeOK
        <4>3. ASSUME NEW k \in Messages, Handle(k) PROVE phase'[j] = phase[j]
          BY <1>0, <2>2, <4>3 DEF Handle, Overhear, Hush, TakeUp, Superseded, Turn, Answer, Silent, Ends, Becomes, TypeOK
        <4>4. QED BY <1>3, <4>1, <4>2, <4>3
                  DEF Next, Check, Consider, NotHerBusiness, JoinIn, BeginChimeIn, ChimeIn, KeepOut,
                      QuietEnds, GapEnds, TalkEnds, vars, msgVars
      <3>4. QED BY <1>3, <3>2, <3>3 DEF Took, Sure
    <2>3. QED BY <2>1, <2>2
  <1>4. QED BY <1>1, <1>2, <1>3

\* The end of a talk is what lets questions lapse.
LEMMA LapsedStep ==
  ASSUME [Next]_vars
  PROVE  /\ \A i \in lapsed : i \in lapsed'
         /\ (\A s \in Senders : ~TalkEnds(s)) => lapsed' = lapsed
  <1>1. (\A s \in Senders : ~TalkEnds(s)) => lapsed' = lapsed
    BY DEF Next, Arrive, Enter, Handle, Overhear, Hush, TakeUp, Superseded, Turn, Answer, Silent,
           Check, Consider, NotHerBusiness, JoinIn, BeginChimeIn, ChimeIn, KeepOut,
           QuietEnds, GapEnds, vars, msgVars
  <1>2. ASSUME NEW s \in Senders, TalkEnds(s) PROVE \A i \in lapsed : i \in lapsed'
    BY <1>2 DEF TalkEnds
  <1>3. QED BY <1>1, <1>2

LEMMA TalkEnding ==
  ASSUME ChatInv, NEW s \in Senders, TalkEnds(s)
  PROVE  /\ UNCHANGED <<log, phase, stash>>
         /\ \/ stash[s] \subseteq lapsed'
            \/ \E j \in 1..Len(log) : log[j].from = s /\ phase[j] \notin Over /\ Sure(phase, log, j)
         /\ \A r \in Senders : r # s /\ r \in talking => r \in talking'
  <1>1. QED BY DEF TalkEnds, InFlight, SureOfTurn, Sure, From

LEMMA TalkKept ==
  ASSUME ChatInv, [Next]_vars, NEW s \in talking
  PROVE  s \in talking' \/ TalkEnds(s) \/ \E j \in Messages : phase'[j] = "hushed"
  <1>1. ASSUME NEW k \in Messages, Hush(k) PROVE phase'[k] = "hushed"
    BY <1>1 DEF Hush, Ends, Becomes, ChatInv, TypeOK
  <1>2. ASSUME NEW k \in Messages, Handle(k) PROVE Hush(k) \/ s \in talking'
    BY <1>2 DEF Handle, Overhear, TakeUp, Superseded, Turn, Answer, Silent, MarkAnswered
  <1>3. ASSUME Check PROVE s \in talking'
    BY <1>3 DEF Check, Consider, NotHerBusiness, JoinIn, BeginChimeIn, ChimeIn, KeepOut, MarkAnswered, msgVars
  <1>4. ASSUME NEW r \in Senders, TalkEnds(r) PROVE s \in talking' \/ r = s
    BY <1>4 DEF TalkEnds
  <1>5. QED BY <1>1, <1>2, <1>3, <1>4
            DEF Next, Arrive, Enter, QuietEnds, GapEnds, vars, msgVars

\* The messages before one that is given up or worked on are done with.
LEMMA AfterOver ==
  ASSUME ChatInv, InOrder, NEW i \in Messages, phase[i] \in Over, NEW j \in Messages, phase[j] \notin Over
  PROVE  j > i
  <1>1. i \in Nat /\ j \in Nat
    BY PhasesKnown
  <1>2. QED BY <1>1 DEF InOrder

\* A message is given up only for one that is still to be taken up.
LEMMA NewerWaits ==
  ASSUME ChatInv, InOrder, NEW i \in Messages, Superseded(i)
  PROVE  \E j \in 1..Len(log) : j > i /\ log[j].from = log[i].from /\ phase[j] \notin Over
  <1>1. phase[i] = "waiting" /\ noted[From(i)].msg # i
    BY DEF Superseded
  <1>2. i \in 1..Len(log) /\ From(i) \in Senders
    BY <1>1, Handled DEF ChatInv
  <1>3. PICK j : j = noted[From(i)].msg
    OBVIOUS
  <1>4. j >= i /\ j # i /\ j # Nobody
    <2>1. j >= i /\ j # i
      BY <1>1, <1>2, <1>3 DEF ChatInv, NotedInv
    <2>2. j \in Messages \cup {Nobody} /\ i \in Nat /\ i > 0
      BY <1>2, <1>3, KindsKnown DEF ChatInv, TypeOK, Messages
    <2>3. QED BY <2>1, <2>2 DEF Nobody
  <1>5. j \in 1..Len(log) /\ From(j) = From(i)
    BY <1>2, <1>3, <1>4 DEF ChatInv, NotedInv
  <1>6. j > i /\ j \in Messages
    BY <1>2, <1>4, <1>5, LogTyped DEF ChatInv
  <1>7. phase[j] \notin Over
    BY <1>1, <1>6, PhasesKnown DEF InOrder, Over
  <1>8. QED BY <1>5, <1>6, <1>7 DEF From

-----------------------------------------------------------------------------
(* Questions and pictures *)

LEMMA QuestionStep == ASSUME ChatInv, InOrder, QuestionInv, [Next]_vars PROVE QuestionInv'
  <1>0. Kind /\ (\A k \in 1..Len(log) : k \in 1..Len(log') /\ log'[k] = log[k])
    BY KindOfStep, LogGrows DEF ChatInv
  <1>1. TypeOK /\ LockInv /\ (quiet => \E j \in Messages : phase[j] = "hushed")
    BY DEF ChatInv, QuestionInv
  <1>2. quiet' => \E j \in Messages : phase'[j] = "hushed"
    <2>1. CASE quiet' /\ quiet
      <3>1. PICK j \in Messages : phase[j] = "hushed"
        BY <1>1, <2>1
      <3>2. phase'[j] = "hushed"
        BY <1>0, <1>1, <3>1, OverStays DEF Over
      <3>3. QED BY <3>2
    <2>2. CASE quiet' /\ ~quiet
      <3>1. \E j \in Messages : Hush(j)
        BY <2>2 DEF Next, Arrive, Enter, Handle, Overhear, TakeUp, Superseded, Turn, Answer, Silent,
                    Check, Consider, NotHerBusiness, JoinIn, BeginChimeIn, ChimeIn, KeepOut,
                    QuietEnds, GapEnds, TalkEnds, vars
      <3>2. QED BY <1>1, <3>1 DEF Hush, Ends, Becomes, TypeOK
    <2>3. QED BY <2>1, <2>2
  <1> DEFINE Stands(i) == HasLater(phase', log', talking', stash', lapsed', i)
  <1>3. ASSUME NEW i \in Messages, phase'[i] = "superseded", phase[i] # "superseded"
        PROVE  Stands(i)
    <2>1. Superseded(i)
      <3>1. Handle(i)
        BY <1>1, <1>3, Moved
      <3>2. QED BY <1>1, <1>3, <3>1
                DEF Handle, Overhear, Hush, TakeUp, Turn, Answer, Silent, Ends, Becomes, TypeOK
    <2>2. PICK j \in 1..Len(log) : j > i /\ log[j].from = log[i].from /\ phase[j] \notin Over
      BY <2>1, NewerWaits
    <2>3. i \in 1..Len(log) /\ log[i].from \in Senders /\ i \in Nat /\ j \in Messages
      BY <1>1, <2>1, <2>2, Handled, LogTyped, PhasesKnown DEF Superseded, From
    <2>4. phase'[j] = phase[j]
      BY <1>1, <2>1, <2>2, <2>3 DEF Superseded, Ends, Becomes, TypeOK
    <2>5. log[i].from \in talking' /\ i \in stash'[log[i].from]
      BY <1>1, <2>1, <2>3 DEF Superseded, From, TypeOK
    <2>6. QED BY <1>0, <2>2, <2>3, <2>4, <2>5 DEF HasLater
  <1>4. ASSUME NEW i \in Messages, phase[i] = "superseded" PROVE Stands(i)
    <2>1. HasLater(phase, log, talking, stash, lapsed, i) /\ i \in 1..Len(log) /\ log[i].from \in Senders
      BY <1>1, <1>4, Spelled, Handled DEF QuestionInv, From
    <2>2. CASE i \in lapsed
      BY <2>2, LapsedStep DEF HasLater
    <2>3. CASE Gone(phase, log, log[i].from)
      BY <1>0, <1>1, <2>1, <2>3, GoneStays DEF HasLater
    <2>4. ASSUME NEW j \in 1..Len(log), j > i, log[j].from = log[i].from, Took(phase, log, j)
          PROVE  Stands(i)
      BY <1>0, <1>1, <2>1, <2>4, TookStays DEF HasLater
    <2>5. ASSUME NEW j \in 1..Len(log), j > i, log[j].from = log[i].from, phase[j] \notin Over,
                 log[i].from \in talking, i \in stash[log[i].from]
          PROVE  Stands(i)
      <3>0. j \in Messages
        BY <1>1, LogTyped
      <3>1. CASE TalkEnds(log[i].from)
        <4>1. CASE stash[log[i].from] \subseteq lapsed'
          BY <2>5, <4>1 DEF HasLater
        <4>2. ASSUME NEW k \in 1..Len(log), log[k].from = log[i].from, phase[k] \notin Over, Sure(phase, log, k)
              PROVE  Stands(i)
          <5>1. k \in Messages /\ k > i
            BY <1>1, <1>4, <4>2, AfterOver, LogTyped DEF Over
          <5>2. Took(phase, log, k)
            BY <4>2 DEF Took, Over
          <5>3. QED BY <2>4, <4>2, <5>1, <5>2
        <4>3. QED BY <2>1, <3>1, <4>1, <4>2, TalkEnding
      <3>2. CASE \E k \in Messages : phase'[k] = "hushed"
        BY <3>2 DEF HasLater, Gone
      <3>3. CASE ~TalkEnds(log[i].from) /\ (\A k \in Messages : phase'[k] # "hushed")
        <4>1. log[i].from \in talking'
          BY <2>5, <3>3, TalkKept
        <4>2. CASE \E k \in Messages : Turn(k) /\ log[k].from = log[i].from
          <5>1. PICK k \in Messages : Turn(k) /\ log[k].from = log[i].from
            BY <4>2
          <5>2. phase[k] = "waiting" /\ phase'[k] \in {"replying", "limited"} /\ k \in 1..Len(log)
            BY <1>1, <5>1, Handled DEF Turn, MayAnswer, Ends, Becomes, TypeOK
          <5>3. k > i
            BY <1>4, <5>2, AfterOver DEF Over
          <5>4. Took(phase', log', k)
            BY <5>2 DEF Took, Sure, Over
          <5>5. QED BY <1>0, <2>1, <5>1, <5>2, <5>3, <5>4 DEF HasLater
        <4>3. CASE \A k \in Messages : Turn(k) => log[k].from # log[i].from
          <5>1. i \in stash'[log[i].from]
            <6>1. ASSUME NEW k \in Messages, Turn(k) PROVE i \in stash'[log[i].from]
              BY <1>1, <2>1, <2>5, <4>3, <6>1 DEF Turn, From, TypeOK
            <6>2. ASSUME NEW k \in Messages, Superseded(k) PROVE i \in stash'[log[i].from]
              BY <1>1, <2>1, <2>5, <6>2 DEF Superseded, From, TypeOK
            <6>3. ASSUME \A k \in Messages : ~Turn(k) /\ ~Superseded(k) PROVE stash' = stash
              BY <6>3 DEF Next, Arrive, Enter, Handle, Overhear, Hush, TakeUp, Answer, Silent,
                          Check, Consider, NotHerBusiness, JoinIn, BeginChimeIn, ChimeIn, KeepOut,
                          QuietEnds, GapEnds, TalkEnds, vars, msgVars
            <6>4. QED BY <2>5, <6>1, <6>2, <6>3
          <5>2. CASE phase'[j] \notin Over
            BY <1>0, <2>1, <2>5, <4>1, <5>1, <5>2 DEF HasLater
          <5>3. CASE phase'[j] = "ignored"
            <6>1. Overhear(j)
              <7>1. Handle(j)
                BY <1>1, <2>5, <3>0, <5>3, Moved DEF Over
              <7>2. QED BY <1>1, <3>0, <5>3, <7>1
                        DEF Handle, Superseded, Hush, TakeUp, Turn, Answer, Silent, Ends, Becomes, TypeOK
            <6>2. Gone(phase, log, log[j].from)
              BY <1>1, <2>5, <3>0, <6>1, OnlyTurnedAway DEF From
            <6>3. QED BY <1>0, <1>1, <2>1, <2>5, <6>2, GoneStays DEF HasLater
          <5>4. CASE phase'[j] \in Over /\ phase'[j] # "ignored"
            BY <1>0, <2>1, <2>5, <5>4 DEF HasLater, Took
          <5>5. QED BY <5>2, <5>3, <5>4
        <4>4. QED BY <4>2, <4>3
      <3>4. QED BY <3>1, <3>2, <3>3
    <2>6. QED BY <2>1, <2>2, <2>3, <2>4, <2>5 DEF HasLater
  <1>5. QED BY <1>2, <1>3, <1>4, Spelled DEF QuestionInv

LEMMA PictureStep == ASSUME ChatInv, InOrder, QuestionInv, PictureInv, [Next]_vars PROVE PictureInv'
  <1>0. Kind /\ (\A k \in 1..Len(log) : k \in 1..Len(log') /\ log'[k] = log[k])
    BY KindOfStep, LogGrows DEF ChatInv
  <1>1. TypeOK /\ LockInv /\ (quiet => \E j \in Messages : phase[j] = "hushed")
    BY DEF ChatInv, QuestionInv
  <1>2. ASSUME NEW i \in Messages, Superseded(i)
        PROVE  GoesOn(phase', log', talking', log[i].from) /\ stash' = [stash EXCEPT ![log[i].from] = @ \cup {i}]
    <2>1. PICK j \in 1..Len(log) : j > i /\ log[j].from = log[i].from /\ phase[j] \notin Over
      BY <1>2, NewerWaits
    <2>2. i \in Nat /\ j \in Messages
      BY <1>1, <2>1, LogTyped, PhasesKnown
    <2>3. phase'[j] = phase[j]
      BY <1>1, <1>2, <2>1, <2>2 DEF Superseded, Ends, Becomes, TypeOK
    <2>4. log[i].from \in talking' /\ stash' = [stash EXCEPT ![log[i].from] = @ \cup {i}]
      BY <1>2 DEF Superseded, From
    <2>5. QED BY <1>0, <2>1, <2>3, <2>4 DEF GoesOn
  <1>3. ASSUME NEW i \in Messages, Turn(i) PROVE stash' = [stash EXCEPT ![log[i].from] = {}]
    BY <1>3 DEF Turn, From
  <1>4. ASSUME \A i \in Messages : ~Superseded(i) /\ ~Turn(i) PROVE stash' = stash
    BY <1>4 DEF Next, Arrive, Enter, Handle, Overhear, Hush, TakeUp, Answer, Silent,
                Check, Consider, NotHerBusiness, JoinIn, BeginChimeIn, ChimeIn, KeepOut,
                QuietEnds, GapEnds, TalkEnds, vars, msgVars
  <1>5. ASSUME NEW s \in Senders, stash'[s] \ lapsed' # {} PROVE GoesOn(phase', log', talking', s)
    <2>1. CASE \E i \in Messages : Superseded(i) /\ log[i].from = s
      BY <1>2, <2>1
    <2>2. CASE \A i \in Messages : Superseded(i) => log[i].from # s
      <3>1. stash[s] \ lapsed # {} /\ (\A i \in Messages : Turn(i) => log[i].from # s)
        <4>1. \A i \in Messages : Turn(i) => log[i].from # s
          BY <1>1, <1>3, <1>5 DEF TypeOK
        <4>2. stash'[s] = stash[s]
          BY <1>1, <1>2, <1>3, <1>4, <2>2, <4>1 DEF TypeOK
        <4>3. QED BY <1>5, <4>1, <4>2, LapsedStep
      <3>2. GoesOn(phase, log, talking, s)
        BY <3>1, Spelled DEF PictureInv
      <3>3. CASE Gone(phase, log, s)
        BY <1>0, <1>1, <3>3, GoneStays DEF GoesOn
      <3>6. ASSUME NEW j \in 1..Len(log), log[j].from = s, phase[j] \notin Over, phase'[j] \in Over
            PROVE  GoesOn(phase', log', talking', s) \/ Overhear(j)
        <4>1. j \in Messages
          BY <1>1, LogTyped
        <4>2. Handle(j)
          BY <1>1, <3>6, <4>1, Moved DEF Over
        <4>3. ~Superseded(j) /\ ~Turn(j)
          BY <2>2, <3>1, <3>6, <4>1
        <4>4. ~Answer(j) /\ ~Silent(j)
          BY <3>1, <3>6, <4>1 DEF Answer, Silent, PictureInv, From
        <4>5. ~TakeUp(j)
          BY <1>1, <3>6, <4>1 DEF TakeUp, Becomes, TypeOK, Over
        <4>6. CASE Hush(j)
          BY <1>1, <4>1, <4>6 DEF Hush, Ends, Becomes, TypeOK, GoesOn, Gone
        <4>7. QED BY <4>2, <4>3, <4>4, <4>5, <4>6 DEF Handle
      <3>7. ASSUME NEW j \in 1..Len(log), log[j].from = s, phase[j] \notin Over, Sure(phase, log, j)
            PROVE  GoesOn(phase', log', talking', s)
        <4>1. Took(phase', log', j)
          <5>1. Took(phase, log, j)
            BY <3>7 DEF Took, Over
          <5>2. QED BY <1>1, <5>1, TookStays
        <4>2. CASE phase'[j] \notin Over
          BY <1>0, <3>7, <4>1, <4>2 DEF Took, GoesOn
        <4>3. CASE phase'[j] \in Over
          <5>1. ~Overhear(j)
            BY <3>7 DEF Overhear, ForHer, Sure
          <5>2. QED BY <3>6, <3>7, <4>3, <5>1
        <4>4. QED BY <4>2, <4>3
      <3>4. ASSUME NEW j \in 1..Len(log), s \in talking, log[j].from = s, phase[j] \notin Over
            PROVE  GoesOn(phase', log', talking', s)
        <4>1. CASE TalkEnds(s)
          <5>1. CASE stash[s] \subseteq lapsed'
            BY <1>5, <4>1, <5>1, TalkEnding
          <5>2. QED BY <3>7, <4>1, <5>1, TalkEnding
        <4>2. CASE \E k \in Messages : phase'[k] = "hushed"
          BY <4>2 DEF GoesOn, Gone
        <4>3. CASE s \in talking' /\ phase'[j] \notin Over
          BY <1>0, <3>4, <4>3 DEF GoesOn
        <4>4. CASE phase'[j] \in Over
          <5>1. CASE Overhear(j)
            <6>1. j \in Messages
              BY <1>1, LogTyped
            <6>2. Gone(phase, log, s)
              BY <1>1, <3>4, <5>1, <6>1, OnlyTurnedAway DEF From
            <6>3. QED BY <1>0, <1>1, <6>2, GoneStays DEF GoesOn
          <5>2. QED BY <3>4, <3>6, <4>4, <5>1
        <4>5. QED BY <3>4, <4>1, <4>2, <4>3, <4>4, TalkKept
      <3>5. QED BY <3>2, <3>3, <3>4, <3>7 DEF GoesOn
    <2>3. QED BY <2>1, <2>2
  <1>6. ASSUME NEW i \in Messages, phase'[i] = "replying" PROVE stash'[log'[i].from] = {}
    <2>1. phase[i] # "away"
      <3>1. CASE phase'[i] = phase[i]
        BY <1>6, <3>1
      <3>2. CASE phase'[i] # phase[i]
        <4>1. Handle(i)
          BY <1>1, <1>6, <3>2, Moved
        <4>2. QED BY <4>1 DEF Handle, Overhear, Hush, TakeUp, Superseded, Turn, MayAnswer, Answer, Silent
      <3>3. QED BY <3>1, <3>2
    <2>2. i \in 1..Len(log) /\ log[i].from \in Senders /\ log'[i] = log[i]
      BY <1>0, <1>1, <2>1, Handled DEF From
    <2>3. CASE Turn(i)
      BY <1>1, <1>3, <2>2, <2>3 DEF TypeOK
    <2>4. CASE ~Turn(i)
      <3>1. phase[i] = "replying"
        <4>1. SUFFICES ASSUME phase'[i] # phase[i] PROVE FALSE
          BY <1>6
        <4>2. Handle(i)
          BY <1>1, <1>6, <4>1, Moved
        <4>3. QED BY <1>1, <1>6, <2>4, <4>2
                  DEF Handle, Overhear, Hush, TakeUp, Superseded, Answer, Silent, Ends, Becomes, TypeOK
      <3>2. stash[log[i].from] = {} /\ Holds(i)
        BY <1>1, <3>1 DEF PictureInv, LockInv, Begun, From
      <3>3. \A k \in Messages : ~Superseded(k) /\ ~Turn(k)
        BY <3>1, <3>2 DEF Superseded, Turn, MayAnswer, Holds
      <3>4. QED BY <1>4, <2>2, <3>2, <3>3
    <2>5. QED BY <2>3, <2>4
  <1>7. QED BY <1>5, <1>6, Spelled DEF PictureInv, From

LEMMA ListeningInit == ASSUME Init PROVE ListeningInv
  <1>1. ChatInv
    BY ChatInit
  <1>2. Len(queue) = 0 /\ InOrder
    BY PhasesKnown DEF Init, InOrder, Over, Begun
  <1>3. QuestionInv /\ PictureInv
    BY DEF Init, QuestionInv, PictureInv
  <1>4. QED BY <1>1, <1>2, <1>3 DEF ListeningInv

LEMMA ListeningStep == ASSUME ~Contended, ListeningInv, [Next]_vars PROVE ListeningInv'
  <1>1. Kind
    BY KindOfStep DEF ListeningInv, ChatInv
  <1>2. ChatInv' /\ InOrder'
    BY <1>1, ChatStep, OrderStep DEF ListeningInv, ChatInv
  <1>3. QED BY <1>2, QuestionStep, PictureStep DEF ListeningInv

\* As long as the lock of the chat is joined in the order of arrival, nothing that
\* was said to her is dropped on the way to its turn (await_turn, with_earlier_images
\* of listener.py): a message given up is answered with a later one of its sender,
\* and its pictures go with that one, unless the sender turned away or the hold on
\* the later one ran out while it waited for the chat.
THEOREM NothingIsDropped == ASSUME ~Contended PROVE Spec => []NothingDropped
  <1>1. ListeningInv => NothingDropped
    <2> SUFFICES ASSUME ListeningInv PROVE NothingDropped
      OBVIOUS
    <2>1. TypeOK /\ QuestionInv /\ PictureInv
      BY DEF ListeningInv, ChatInv
    <2>2. QuestionsStand
      <3>1. SUFFICES ASSUME NEW i \in Messages, phase[i] = "superseded", ~TurnedAway(From(i)), i \notin lapsed
                     PROVE  \E j \in Later(i) : phase[j] # "ignored"
        BY DEF QuestionsStand
      <3>2. CASE \E j \in Later(i) : Taken(j)
        BY <3>2 DEF Taken
      <3>3. CASE \E j \in Later(i) : phase[j] \notin Over
        BY <3>3 DEF Over
      <3>4. QED BY <2>1, <3>1, <3>2, <3>3 DEF QuestionInv, Followed
    <2>3. PicturesFollow
      BY <2>1 DEF PictureInv, CarriedOn, PicturesFollow
    <2>4. QED BY <2>1, <2>2, <2>3 DEF NothingDropped
  <1>2. QED BY <1>1, ListeningInit, ListeningStep, PTL DEF Spec
=============================================================================
