---------------------------- MODULE InboundProofs ----------------------------
(* Theorems about OneBotLink, for any number of connections and requests, and *)
(* about Inbound on top of it, for any number of messages, of copies of them, *)
(* of parts of an answer and of entries of the deduplicator's table.          *)
EXTENDS Inbound, SequenceTheorems, FiniteSetTheorems, TLAPS

-----------------------------------------------------------------------------
(* Type correctness *)

LEMMA LinkTypeInit == ASSUME LinkInit PROVE LinkTypeOK
  BY DEF LinkInit, LinkTypeOK, Outcomes

LEMMA LinkTypeStep == ASSUME LinkTypeOK, [LinkNext]_vars PROVE LinkTypeOK'
  <1>1. ASSUME NEW w \in Links, Connect(w) \/ Activate(w) \/ Drop(w) \/ Deactivate(w)
        PROVE LinkTypeOK'
    BY <1>1 DEF LinkTypeOK, Connect, Activate, Drop, Deactivate, CancelPending, callVars
  <1>2. CASE CloseGateway
    BY <1>2 DEF LinkTypeOK, CloseGateway, CancelPending
  <1>3. ASSUME NEW r \in Requests, Ask(r) \/ BeginWrite(r) \/ Written(r) \/ Answer(r)
        PROVE LinkTypeOK'
    BY <1>3 DEF LinkTypeOK, Ask, BeginWrite, Usable, Written, Answer, linkVars, Outcomes
  <1>4. ASSUME NEW r \in Requests, NoConnection(r) \/ WriteFails(r)
        PROVE LinkTypeOK'
    BY <1>4 DEF LinkTypeOK, NoConnection, WriteFails, End, linkVars, Outcomes
  <1>5. ASSUME NEW r \in Requests, Answered(r) \/ TimesOut(r) \/ GivenUp(r)
        PROVE LinkTypeOK'
    BY <1>5 DEF LinkTypeOK, Answered, TimesOut, GivenUp, End, linkVars, Outcomes
  <1>6. CASE UNCHANGED vars
    BY <1>6 DEF LinkTypeOK, vars, linkVars, callVars
  <1>7. QED BY <1>1, <1>2, <1>3, <1>4, <1>5, <1>6 DEF LinkNext, LinkStep, CallStep

\* The connections, the requests and the table of echoes keep their types
\* (OneBotReverseWsGateway.__init__).
THEOREM LinkTypeCorrect == LinkSpec => []LinkTypeOK
  <1>1. QED BY LinkTypeInit, LinkTypeStep, PTL DEF LinkSpec

-----------------------------------------------------------------------------
(* The inductive invariant *)

\* The lock is held by the request that is being written, and by no other.
WriterInv ==
  /\ writer # None => req[writer] = "writing"
  /\ \A r \in Requests : req[r] = "writing" => writer = r

\* What somebody waits for, or is about to, was written to the active link.
LiveInv ==
  \A r \in Requests :
    req[r] \in {"writing", "awaiting"} /\ future[r] = "unset" => via[r] = active

LinkInv == LinkTypeOK /\ WriterInv /\ LiveInv /\ EchoesAgree /\ ActiveIsRead

LEMMA LinkInvInit == ASSUME LinkInit PROVE LinkInv
  <1>1. LinkTypeOK
    BY LinkTypeInit
  <1>2. QED BY <1>1 DEF LinkInit, LinkInv, WriterInv, LiveInv, EchoesAgree, ActiveIsRead

\* Activate: the lock is free, so nothing is being written, and whatever was
\* awaited is given up with the connection it went to.
LEMMA ActivateKeepsInv ==
    ASSUME LinkInv, LinkTypeOK', NEW w \in Links, Activate(w) PROVE LinkInv'
  <1> USE NoneIsNothing DEF Activate
  <1>1. \A r \in Requests : req[r] # "writing"
    BY DEF LinkInv, LinkTypeOK, WriterInv
  <1>2. \A r \in Requests : req[r] = "awaiting" => future'[r] # "unset"
    BY DEF LinkInv, LinkTypeOK, EchoesAgree, CancelPending
  <1>3. WriterInv'
    BY <1>1 DEF LinkInv, LinkTypeOK, WriterInv
  <1>4. LiveInv' /\ EchoesAgree'
    BY <1>1, <1>2 DEF LiveInv, EchoesAgree, CancelPending
  <1>5. ActiveIsRead'
    BY DEF LinkInv, LinkTypeOK, ActiveIsRead
  <1>6. QED BY <1>3, <1>4, <1>5 DEF LinkInv

\* Deactivate and CloseGateway: the same of the connection that goes away.
LEMMA ClosingKeepsInv ==
    ASSUME LinkInv, LinkTypeOK', CloseGateway \/ \E w \in Links : Deactivate(w)
    PROVE  LinkInv'
  <1> USE NoneIsNothing
  <1>1. \A r \in Requests : req[r] # "writing"
    BY DEF LinkInv, LinkTypeOK, WriterInv, CloseGateway, Deactivate
  <1>2. writer' = writer /\ writer = None /\ req' = req /\ via' = via
    BY DEF CloseGateway, Deactivate
  <1>3. WriterInv'
    BY <1>1, <1>2 DEF WriterInv
  <1>4. CASE CancelPending /\ active' = None
    <2>1. \A r \in Requests : req[r] = "awaiting" => future'[r] # "unset"
      BY <1>4 DEF LinkInv, LinkTypeOK, EchoesAgree, CancelPending
    <2>2. LiveInv' /\ EchoesAgree'
      BY <1>1, <1>2, <1>4, <2>1 DEF LiveInv, EchoesAgree, CancelPending
    <2>3. ActiveIsRead'
      BY <1>4 DEF LinkInv, LinkTypeOK, ActiveIsRead, CloseGateway, Deactivate
    <2>4. QED BY <1>3, <2>2, <2>3 DEF LinkInv
  <1>5. CASE UNCHANGED <<active, pending, future>> /\ \E w \in Links : Deactivate(w) /\ active # w
    <2>1. LiveInv' /\ EchoesAgree'
      BY <1>2, <1>5 DEF LinkInv, LiveInv, EchoesAgree
    <2>2. ActiveIsRead'
      BY <1>5 DEF LinkInv, LinkTypeOK, ActiveIsRead, Deactivate
    <2>3. QED BY <1>3, <2>1, <2>2 DEF LinkInv
  <1>6. QED BY <1>4, <1>5 DEF CloseGateway, Deactivate

\* A request ends: its echo goes with it.
LEMMA EndKeepsInv ==
    ASSUME LinkInv, LinkTypeOK', NEW r \in Requests, NEW outcome \in Outcomes, End(r, outcome),
           UNCHANGED <<phase, open, active, via>>,
           \/ req[r] # "writing" /\ writer' = writer
           \/ req[r] = "writing" /\ writer' = None
    PROVE  LinkInv'
  <1> USE NoneIsNothing
  <1>1. req'[r] \notin {"writing", "awaiting"}
    BY DEF LinkInv, LinkTypeOK, End, Outcomes
  <1>2. \A s \in Requests \ {r} : req'[s] = req[s] /\ future'[s] = future[s]
    BY DEF LinkInv, LinkTypeOK, End
  <1>3. \A s \in Requests \ {r} : s \in pending' <=> s \in pending
    BY DEF End
  <1>4. r \notin pending'
    BY DEF End
  <1>5. WriterInv'
    BY <1>1, <1>2 DEF LinkInv, LinkTypeOK, WriterInv
  <1>6. LiveInv'
    BY <1>1, <1>2 DEF LinkInv, LiveInv
  <1>7. EchoesAgree'
    BY <1>1, <1>2, <1>3, <1>4 DEF LinkInv, EchoesAgree
  <1>8. ActiveIsRead'
    BY DEF LinkInv, ActiveIsRead
  <1>9. QED BY <1>5, <1>6, <1>7, <1>8 DEF LinkInv

LEMMA LinkInvStep == ASSUME LinkInv, [LinkNext]_vars PROVE LinkInv'
  <1> USE NoneIsNothing
  <1>0. LinkTypeOK'
    BY LinkTypeStep DEF LinkInv
  <1>1. ASSUME NEW w \in Links, Connect(w) \/ Drop(w) PROVE LinkInv'
    <2>1. WriterInv' /\ LiveInv' /\ EchoesAgree'
      BY <1>1 DEF LinkInv, Connect, Drop, callVars, WriterInv, LiveInv, EchoesAgree
    <2>2. ActiveIsRead'
      BY <1>1 DEF LinkInv, LinkTypeOK, Connect, Drop, callVars, ActiveIsRead
    <2>3. QED BY <1>0, <2>1, <2>2 DEF LinkInv
  <1>2. ASSUME NEW w \in Links, Activate(w) PROVE LinkInv'
    BY <1>0, <1>2, ActivateKeepsInv
  <1>3. ASSUME CloseGateway \/ \E w \in Links : Deactivate(w) PROVE LinkInv'
    BY <1>0, <1>3, ClosingKeepsInv
  <1>4. ASSUME NEW r \in Requests, Ask(r) \/ BeginWrite(r) \/ Written(r) \/ Answer(r)
        PROVE LinkInv'
    <2>1. ActiveIsRead'
      BY <1>4 DEF LinkInv, Ask, BeginWrite, Written, Answer, linkVars, ActiveIsRead
    <2>2. WriterInv'
      BY <1>4 DEF LinkInv, LinkTypeOK, Ask, BeginWrite, Written, Answer, linkVars, WriterInv
    <2>3. LiveInv'
      BY <1>4 DEF LinkInv, LinkTypeOK, Ask, BeginWrite, Written, Answer, linkVars, LiveInv
    <2>4. EchoesAgree'
      BY <1>4 DEF LinkInv, LinkTypeOK, Ask, BeginWrite, Written, Answer, linkVars, EchoesAgree
    <2>5. QED BY <1>0, <2>1, <2>2, <2>3, <2>4 DEF LinkInv
  <1>5. ASSUME NEW r \in Requests, NoConnection(r) PROVE LinkInv'
    BY <1>0, <1>5, EndKeepsInv DEF NoConnection, linkVars, Outcomes
  <1>6. ASSUME NEW r \in Requests, WriteFails(r) PROVE LinkInv'
    BY <1>0, <1>6, EndKeepsInv DEF WriteFails, Outcomes
  <1>7. ASSUME NEW r \in Requests, Answered(r) \/ TimesOut(r) \/ GivenUp(r)
        PROVE LinkInv'
    <2>1. PICK outcome \in Outcomes : End(r, outcome)
      BY <1>7 DEF Answered, TimesOut, GivenUp, Outcomes
    <2>2. UNCHANGED <<phase, open, active, via, writer>> /\ req[r] # "writing"
      BY <1>7 DEF Answered, TimesOut, GivenUp, linkVars
    <2>3. QED BY <1>0, <2>1, <2>2, EndKeepsInv
  <1>8. CASE UNCHANGED vars
    BY <1>8, <1>0 DEF LinkInv, vars, linkVars, callVars, WriterInv, LiveInv, EchoesAgree, ActiveIsRead
  <1>9. QED BY <1>1, <1>2, <1>3, <1>4, <1>5, <1>6, <1>7, <1>8 DEF LinkNext, LinkStep, CallStep

LEMMA LinkInvCorrect == LinkSpec => []LinkInv
  <1>1. QED BY LinkInvInit, LinkInvStep, PTL DEF LinkSpec

-----------------------------------------------------------------------------
\* Nobody waits for an answer that can no longer come, for any number of
\* connections (_activate, _deactivate, _cancel_pending).
THEOREM AnswersCanCome == LinkSpec => []AwaitsTheLiveLink
  <1>1. LinkInv => AwaitsTheLiveLink
    BY DEF LinkInv, LiveInv, AwaitsTheLiveLink
  <1>2. QED BY <1>1, LinkInvCorrect, PTL

\* The table of echoes and the requests agree (_send_action, _cancel_pending).
THEOREM NoEchoLeft == LinkSpec => []EchoesAgree
  <1>1. LinkInv => EchoesAgree
    BY DEF LinkInv
  <1>2. QED BY <1>1, LinkInvCorrect, PTL

\* The active connection is one that is being read, and the only one that is
\* still open (_activate, _deactivate).
THEOREM OneLiveLink == LinkSpec => []ActiveIsRead
  <1>1. LinkInv => ActiveIsRead
    BY DEF LinkInv
  <1>2. QED BY <1>1, LinkInvCorrect, PTL

\* Together, with their types.
THEOREM LinkCorrect == LinkSpec => []LinkAgrees
  <1>1. QED BY LinkTypeCorrect, AnswersCanCome, NoEchoLeft, OneLiveLink, PTL DEF LinkAgrees

-----------------------------------------------------------------------------
(* The inductive invariant of the deduplicator *)

Arrived == {MessageOf[c] : c \in {d \in Copies : copy[d] # "away"}}

\* Nothing had to make room yet.
Roomy == Cardinality(Arrived) <= MaxEntries

\* The table has one entry for a message, of those that arrived.
TableInv ==
    /\ Len(claims) <= MaxEntries /\ IsInjective(claims)
    /\ delivered \subseteq Claimed /\ Claimed \subseteq Arrived

\* Who is handling a message holds its claim, alone.
HandlerInv ==
    Roomy => \A c \in Copies :
        copy[c] \in Handling =>
            /\ MessageOf[c] \in Claimed
            /\ \A d \in Copies : copy[d] \in Handling /\ MessageOf[d] = MessageOf[c] => d = c

\* A message that was answered stays claimed as delivered, or none of its copies
\* is still to come, and no copy is on the way to another answer.
WholeInv ==
    /\ \A c \in Copies : copy[c] = "sent" => whole[MessageOf[c]] > 0
    /\ \A m \in delivered : whole[m] > 0
    /\ Roomy => \A m \in Messages :
         whole[m] > 0 =>
            /\ whole[m] = 1
            /\ m \in delivered \/ \A c \in Of(m) : copy[c] \in Over
            /\ \A c \in Of(m) : copy[c] \notin {"queued", "replying", "sending"}

\* What holds a claim is being handled, was answered, or ended without an error.
ReasonInv ==
    \A m \in Claimed : whole[m] > 0 \/ \E c \in Of(m) : copy[c] \in Handling \cup {"quiet", "cancelled"}

InboundInv == TypeOK /\ TableInv /\ HandlerInv /\ WholeInv /\ ReasonInv

-----------------------------------------------------------------------------
(* Tables without a repetition *)

LEMMA AppendKey ==
    ASSUME NEW s \in Seq(Messages), IsInjective(s), NEW m \in Messages, m \notin Range(s)
    PROVE  /\ Append(s, m) \in Seq(Messages) /\ Len(Append(s, m)) = Len(s) + 1
           /\ IsInjective(Append(s, m)) /\ Range(Append(s, m)) = Range(s) \cup {m}
  <1> DEFINE t == Append(s, m)
  <1>1. Len(s) \in Nat /\ DOMAIN s = 1..Len(s)
    BY LenProperties
  <1>2. /\ t \in Seq(Messages) /\ Len(t) = Len(s) + 1 /\ DOMAIN t = 1..(Len(s) + 1)
        /\ \A i \in 1..Len(s) : t[i] = s[i]
        /\ t[Len(s) + 1] = m
    BY AppendProperties, LenProperties
  <1>3. IsInjective(t)
    <2>1. SUFFICES ASSUME NEW i \in 1..(Len(s) + 1), NEW j \in 1..(Len(s) + 1), t[i] = t[j] PROVE i = j
      BY <1>2 DEF IsInjective
    <2>2. (i \in 1..Len(s) \/ i = Len(s) + 1) /\ (j \in 1..Len(s) \/ j = Len(s) + 1)
      BY <1>1
    <2>3. \A k \in 1..Len(s) : t[k] = s[k] /\ s[k] # m
      BY <1>1, <1>2 DEF Range
    <2>4. QED BY <1>1, <1>2, <2>1, <2>2, <2>3 DEF IsInjective
  <1>4. Range(t) = Range(s) \cup {m}
    <2>1. \A i \in 1..(Len(s) + 1) : t[i] \in Range(s) \cup {m}
      <3>1. \A i \in 1..(Len(s) + 1) : i \in 1..Len(s) \/ i = Len(s) + 1
        BY <1>1
      <3>2. QED BY <1>1, <1>2, <3>1 DEF Range
    <2>2. \A i \in 1..Len(s) : s[i] \in Range(t)
      <3>1. \A i \in 1..Len(s) : i \in 1..(Len(s) + 1)
        BY <1>1
      <3>2. QED BY <1>2, <3>1 DEF Range
    <2>3. m \in Range(t)
      <3>1. Len(s) + 1 \in 1..(Len(s) + 1)
        BY <1>1
      <3>2. QED BY <1>2, <3>1 DEF Range
    <2>4. QED BY <1>1, <1>2, <2>1, <2>2, <2>3 DEF Range
  <1>5. QED BY <1>2, <1>3, <1>4

LEMMA TailKeys ==
    ASSUME NEW s \in Seq(Messages), IsInjective(s), s # <<>>
    PROVE  /\ Tail(s) \in Seq(Messages) /\ Len(Tail(s)) = Len(s) - 1 /\ Len(s) \in Nat \ {0}
           /\ IsInjective(Tail(s)) /\ Range(Tail(s)) = Range(s) \ {Head(s)} /\ Head(s) \in Range(s)
  <1> DEFINE t == Tail(s)
  <1>1. Len(s) \in Nat \ {0} /\ DOMAIN s = 1..Len(s) /\ Head(s) = s[1]
    BY LenProperties, EmptySeq
  <1>2. /\ t \in Seq(Messages) /\ Len(t) = Len(s) - 1 /\ DOMAIN t = 1..(Len(s) - 1)
        /\ \A i \in 1..(Len(s) - 1) : t[i] = s[i + 1]
    BY <1>1, HeadTailProperties, LenProperties
  <1>3. IsInjective(t)
    <2>1. SUFFICES ASSUME NEW i \in 1..(Len(s) - 1), NEW j \in 1..(Len(s) - 1), t[i] = t[j] PROVE i = j
      BY <1>2 DEF IsInjective
    <2>2. i + 1 \in 1..Len(s) /\ j + 1 \in 1..Len(s) /\ s[i + 1] = s[j + 1]
      BY <1>1, <1>2, <2>1
    <2>3. i + 1 = j + 1
      BY <1>1, <2>2 DEF IsInjective
    <2>4. QED BY <1>1, <2>3
  <1>4. Range(t) = Range(s) \ {Head(s)}
    <2>1. ASSUME NEW i \in 1..(Len(s) - 1) PROVE t[i] \in Range(s) /\ t[i] # s[1]
      <3>1. i + 1 \in 1..Len(s) /\ 1 \in 1..Len(s) /\ i + 1 # 1
        BY <1>1
      <3>2. s[i + 1] # s[1]
        BY <1>1, <3>1 DEF IsInjective
      <3>3. QED BY <1>1, <1>2, <3>1, <3>2 DEF Range
    <2>2. ASSUME NEW i \in 1..Len(s), s[i] # s[1] PROVE s[i] \in Range(t)
      <3>1. i - 1 \in 1..(Len(s) - 1) /\ (i - 1) + 1 = i
        BY <1>1, <2>2
      <3>2. t[i - 1] = s[(i - 1) + 1]
        BY <1>2, <3>1
      <3>3. QED BY <1>2, <3>1, <3>2 DEF Range
    <2>3. QED BY <1>1, <1>2, <2>1, <2>2 DEF Range
  <1>5. Head(s) \in Range(s)
    <2>1. 1 \in 1..Len(s)
      BY <1>1
    <2>2. QED BY <1>1, <2>1 DEF Range
  <1>6. QED BY <1>1, <1>2, <1>3, <1>4, <1>5

LEMMA RemoveKey ==
    ASSUME NEW s \in Seq(Messages), IsInjective(s), NEW n \in 1..Len(s)
    PROVE  /\ RemoveAt(s, n) \in Seq(Messages) /\ Len(RemoveAt(s, n)) <= Len(s)
           /\ IsInjective(RemoveAt(s, n)) /\ Range(RemoveAt(s, n)) = Range(s) \ {s[n]}
  <1> DEFINE a == SubSeq(s, 1, n - 1)
             b == SubSeq(s, n + 1, Len(s))
             t == a \o b
             At(i) == IF i < n THEN i ELSE i + 1
  <1>1. Len(s) \in Nat /\ DOMAIN s = 1..Len(s) /\ n \in Int /\ n - 1 \in Int /\ n + 1 \in Int /\ Len(s) \in Int /\ 1 \in Int
    BY LenProperties
  <1>2. \A i \in 1..Len(s) : s[i] \in Messages
    BY ElementOfSeq
  <1>3. a \in Seq(Messages) /\ Len(a) = n - 1 /\ \A i \in 1..(n - 1) : a[i] = s[i]
    <2>1. \A i \in 1..(n - 1) : s[i] \in Messages
      BY <1>1, <1>2
    <2>2. a \in Seq(Messages) /\ Len(a) = (IF 1 <= n - 1 THEN (n - 1) - 1 + 1 ELSE 0)
          /\ \A i \in 1..((n - 1) - 1 + 1) : a[i] = s[1 + i - 1]
      BY <1>1, <2>1, SubSeqProperties
    <2>3. \A i \in 1..(n - 1) : i \in 1..((n - 1) - 1 + 1) /\ 1 + i - 1 = i
      BY <1>1
    <2>4. QED BY <1>1, <2>2, <2>3
  <1>4. b \in Seq(Messages) /\ Len(b) = Len(s) - n /\ \A i \in 1..(Len(s) - n) : b[i] = s[n + i]
    <2>1. \A i \in (n + 1)..Len(s) : s[i] \in Messages
      BY <1>1, <1>2
    <2>2. b \in Seq(Messages) /\ Len(b) = (IF n + 1 <= Len(s) THEN Len(s) - (n + 1) + 1 ELSE 0)
          /\ \A i \in 1..(Len(s) - (n + 1) + 1) : b[i] = s[(n + 1) + i - 1]
      BY <1>1, <2>1, SubSeqProperties
    <2>3. \A i \in 1..(Len(s) - n) : i \in 1..(Len(s) - (n + 1) + 1) /\ (n + 1) + i - 1 = n + i
      BY <1>1
    <2>4. QED BY <1>1, <2>2, <2>3
  <1>5. RemoveAt(s, n) = t
    BY DEF RemoveAt
  <1> HIDE DEF a, b
  <1>6. t \in Seq(Messages) /\ Len(t) = Len(a) + Len(b)
        /\ \A i \in 1..(Len(a) + Len(b)) : t[i] = IF i <= Len(a) THEN a[i] ELSE b[i - Len(a)]
    BY <1>3, <1>4, ConcatProperties
  <1> HIDE DEF t
  <1>7. /\ t \in Seq(Messages) /\ Len(t) = Len(s) - 1 /\ DOMAIN t = 1..(Len(s) - 1)
        /\ \A i \in 1..(Len(s) - 1) : t[i] = s[At(i)] /\ At(i) \in 1..Len(s) /\ At(i) # n
    <2>1. Len(t) = Len(s) - 1
      BY <1>1, <1>3, <1>4, <1>6
    <2>2. DOMAIN t = 1..(Len(s) - 1)
      BY <1>6, <2>1, LenProperties
    <2>3. ASSUME NEW i \in 1..(Len(s) - 1) PROVE t[i] = s[At(i)] /\ At(i) \in 1..Len(s) /\ At(i) # n
      <3>1. t[i] = IF i <= n - 1 THEN a[i] ELSE b[i - (n - 1)]
        <4>1. i \in 1..(Len(a) + Len(b)) /\ Len(a) = n - 1
          BY <1>1, <1>3, <1>4
        <4>2. QED BY <1>6, <4>1
      <3>2. CASE i < n
        <4>1. i <= n - 1 /\ i \in 1..(n - 1)
          BY <1>1, <3>2
        <4>2. QED BY <1>1, <1>3, <3>1, <3>2, <4>1
      <3>3. CASE ~(i < n)
        <4>1. ~(i <= n - 1) /\ i - (n - 1) \in 1..(Len(s) - n) /\ n + (i - (n - 1)) = i + 1
          BY <1>1, <3>3
        <4>2. b[i - (n - 1)] = s[n + (i - (n - 1))]
          BY <1>4, <4>1
        <4>3. QED BY <1>1, <3>1, <3>3, <4>1, <4>2
      <3>4. QED BY <3>2, <3>3
    <2>4. QED BY <1>6, <2>1, <2>2, <2>3
  <1>8. IsInjective(t)
    <2>1. SUFFICES ASSUME NEW i \in 1..(Len(s) - 1), NEW j \in 1..(Len(s) - 1), t[i] = t[j] PROVE i = j
      BY <1>7 DEF IsInjective
    <2>2. At(i) = At(j)
      BY <1>1, <1>7, <2>1, ZenonT(40) DEF IsInjective
    <2>3. QED BY <1>1, <2>2
  <1>9. Range(t) = Range(s) \ {s[n]}
    <2>1. ASSUME NEW i \in 1..(Len(s) - 1) PROVE t[i] \in Range(s) /\ t[i] # s[n]
      <3>1. t[i] = s[At(i)] /\ At(i) \in 1..Len(s) /\ At(i) # n
        BY <1>7
      <3>2. QED BY <1>1, <3>1 DEF Range, IsInjective
    <2>2. ASSUME NEW i \in 1..Len(s), s[i] # s[n] PROVE s[i] \in Range(t)
      <3>1. \E k \in 1..(Len(s) - 1) : At(k) = i
        <4>1. CASE i < n
          <5>1. i \in 1..(Len(s) - 1) /\ At(i) = i
            BY <1>1, <4>1
          <5>2. QED BY <5>1
        <4>2. CASE ~(i < n)
          <5>1. i # n
            BY <2>2
          <5>2. i - 1 \in 1..(Len(s) - 1) /\ At(i - 1) = i
            BY <1>1, <4>2, <5>1
          <5>3. QED BY <5>2
        <4>3. QED BY <4>1, <4>2
      <3>2. PICK k \in 1..(Len(s) - 1) : At(k) = i
        BY <3>1
      <3>3. t[k] = s[i] /\ k \in DOMAIN t
        BY <1>7, <3>2
      <3>4. QED BY <3>3 DEF Range
    <2>3. QED BY <1>1, <1>7, <2>1, <2>2 DEF Range
  <1>10. QED BY <1>1, <1>5, <1>7, <1>8, <1>9

-----------------------------------------------------------------------------
(* The link below *)

\* Whatever the handlers do, the link goes on as it does alone.
LEMMA LinkBelow == ASSUME TypeOK, [Next]_allVars PROVE [LinkNext]_vars
  <1>1. ASSUME NEW c \in Copies, Handle(c) PROVE UNCHANGED vars \/ \E r \in Requests : Ask(r)
    <2>1. CASE SendFirst(c)
      <3>1. <<c, 1>> \in Requests
        BY SendsAreRequests
      <3>2. QED BY <2>1, <3>1 DEF SendFirst
    <2>2. CASE SendNext(c)
      <3>1. part[c] \in 1..Parts /\ part[c] < Parts /\ Parts \in Nat
        BY <2>2, SendsAreRequests DEF SendNext, TypeOK
      <3>2. part[c] + 1 \in 1..Parts
        BY <3>1
      <3>3. <<c, part[c] + 1>> \in Requests
        BY <3>2, SendsAreRequests
      <3>4. QED BY <2>2, <3>3 DEF SendNext
    <2>3. CASE ~SendFirst(c) /\ ~SendNext(c)
      BY <1>1, <2>3 DEF Handle, TakeTurn, StaysQuiet, ReplyFails, AllSent, PartFails, PartCancelled, KeepsBooks, BooksFail
    <2>4. QED BY <2>1, <2>2, <2>3
  <1>2. ASSUME NEW c \in Copies, Arrive(c) PROVE UNCHANGED vars
    BY <1>2 DEF Arrive
  <1>3. ASSUME NEW m \in Messages, Expire(m) PROVE UNCHANGED vars
    BY <1>3 DEF Expire
  <1>4. CASE UNCHANGED allVars
    BY <1>4 DEF allVars
  <1>5. QED BY <1>1, <1>2, <1>3, <1>4 DEF Next, LinkNext

-----------------------------------------------------------------------------
(* What a step does to a copy, its claim and the answers *)

\* The moves of a copy that leave the table alone.
Moves == {<<"queued", "replying">>, <<"replying", "quiet">>, <<"replying", "sending">>,
          <<"sending", "cancelled">>, <<"sent", "answered">>}

Repeats(c) ==
    /\ copy[c] = "away" /\ MessageOf[c] \in Claimed
    /\ Becomes(c, "duplicate") /\ UNCHANGED <<claims, delivered, whole>>

Enters(c) ==
    /\ copy[c] = "away" /\ MessageOf[c] \notin Claimed
    /\ Becomes(c, "queued") /\ Claim(MessageOf[c]) /\ UNCHANGED whole

Goes(c, p) == <<copy[c], p>> \in Moves /\ Becomes(c, p) /\ UNCHANGED <<claims, delivered, whole>>

Fails(c) ==
    /\ copy[c] \in {"replying", "sending", "sent"}
    /\ Becomes(c, "failed") /\ Release(MessageOf[c]) /\ UNCHANGED <<delivered, whole>>

Completes(c) ==
    /\ copy[c] = "sending" /\ Becomes(c, "sent")
    /\ MarkDelivered(MessageOf[c]) /\ whole' = [whole EXCEPT ![MessageOf[c]] = @ + 1] /\ UNCHANGED claims

Lapses(m) ==
    /\ \A c \in Of(m) : copy[c] \in Over
    /\ m \in Claimed /\ claims' = Without(m) /\ delivered' = delivered \ {m} /\ UNCHANGED <<copy, whole>>

Kind ==
    \/ \E c \in Copies : Repeats(c) \/ Enters(c) \/ Fails(c) \/ Completes(c) \/ \E p \in Handling \cup Over : Goes(c, p)
    \/ \E m \in Messages : Lapses(m)
    \/ UNCHANGED <<copy, claims, delivered, whole>>

LEMMA KindOfStep == ASSUME [Next]_allVars PROVE Kind
  <1>1. ASSUME NEW c \in Copies, Arrive(c) PROVE Repeats(c) \/ Enters(c)
    BY <1>1 DEF Arrive, Repeats, Enters
  <1>2. ASSUME NEW c \in Copies, Handle(c)
        PROVE  \/ Fails(c) \/ Completes(c) \/ \E p \in Handling \cup Over : Goes(c, p)
               \/ UNCHANGED <<copy, claims, delivered, whole>>
    <2>1. CASE TakeTurn(c)
      <3>1. Goes(c, "replying")
        BY <2>1 DEF TakeTurn, Goes, Moves
      <3>2. QED BY <3>1 DEF Handling
    <2>2. CASE StaysQuiet(c)
      <3>1. Goes(c, "quiet")
        BY <2>2 DEF StaysQuiet, Goes, Moves
      <3>2. QED BY <3>1 DEF Over
    <2>3. CASE SendFirst(c)
      <3>1. Goes(c, "sending")
        BY <2>3 DEF SendFirst, Goes, Moves
      <3>2. QED BY <3>1 DEF Handling
    <2>4. CASE PartCancelled(c)
      <3>1. Goes(c, "cancelled")
        BY <2>4 DEF PartCancelled, Goes, Moves
      <3>2. QED BY <3>1 DEF Over
    <2>5. CASE KeepsBooks(c)
      <3>1. Goes(c, "answered")
        BY <2>5 DEF KeepsBooks, Goes, Moves
      <3>2. QED BY <3>1 DEF Over
    <2>6. CASE ReplyFails(c) \/ PartFails(c) \/ BooksFail(c)
      BY <2>6 DEF ReplyFails, PartFails, BooksFail, Fail, Fails
    <2>7. CASE AllSent(c)
      BY <2>7 DEF AllSent, Completes
    <2>8. CASE SendNext(c)
      BY <2>8 DEF SendNext
    <2>9. QED BY <1>2, <2>1, <2>2, <2>3, <2>4, <2>5, <2>6, <2>7, <2>8 DEF Handle
  <1>3. ASSUME NEW m \in Messages, Expire(m) PROVE Lapses(m)
    BY <1>3 DEF Expire, Lapses
  <1>4. CASE UNCHANGED allVars \/ UNCHANGED handlerVars
    BY <1>4 DEF allVars, handlerVars, Kind
  <1>5. QED BY <1>1, <1>2, <1>3, <1>4 DEF Next, Kind

LEMMA CopyBecomes ==
    ASSUME TypeOK, NEW c \in Copies, NEW p, Becomes(c, p)
    PROVE  copy'[c] = p /\ \A d \in Copies : d # c => copy'[d] = copy[d]
  <1>1. QED BY DEF TypeOK, Becomes

LEMMA MessageOfTyped == \A c \in Copies : MessageOf[c] \in Messages /\ c \in Of(MessageOf[c])
  <1>1. QED BY SendsAreRequests DEF Of

\* Once arrived, a message has arrived.
LEMMA ArrivedGrows == ASSUME TypeOK, Kind PROVE Arrived \subseteq Arrived'
  <1>1. ASSUME NEW c \in Copies, copy[c] # "away" PROVE copy'[c] # "away"
    <2>1. ASSUME NEW d \in Copies, NEW p \in Handling \cup Over, Becomes(d, p) PROVE copy'[c] # "away"
      BY <1>1, <2>1, CopyBecomes DEF Handling, Over
    <2>2. ASSUME NEW d \in Copies, Repeats(d) \/ Enters(d) \/ Fails(d) \/ Completes(d)
          PROVE  \E p \in Handling \cup Over : Becomes(d, p)
      BY <2>2 DEF Repeats, Enters, Fails, Completes, Handling, Over
    <2>3. QED BY <1>1, <2>1, <2>2 DEF Kind, Goes, Lapses
  <1>2. QED BY <1>1 DEF Arrived

LEMMA ArrivedFinite ==
  /\ IsFiniteSet(Arrived) /\ Cardinality(Arrived) \in Nat
  /\ IsFiniteSet(Arrived') /\ Cardinality(Arrived') \in Nat
  <1> DEFINE All == {MessageOf[c] : c \in Copies}
  <1>1. MessageOf \in Surjection(Copies, All)
    BY SendsAreRequests DEF Surjection
  <1>2. IsFiniteSet(All)
    BY <1>1, FS_Surjection, SendsAreRequests
  <1>3. Arrived \in SUBSET All /\ Arrived' \in SUBSET All
    BY DEF Arrived
  <1>4. IsFiniteSet(Arrived) /\ IsFiniteSet(Arrived')
    BY <1>2, <1>3, FS_Subset
  <1>5. QED BY <1>4, FS_CardinalityType

LEMMA RoomyBefore == ASSUME TypeOK, Kind, Roomy' PROVE Roomy
  <1>1. Arrived \in SUBSET Arrived'
    BY ArrivedGrows
  <1>2. Cardinality(Arrived) <= Cardinality(Arrived')
    BY <1>1, ArrivedFinite, FS_Subset
  <1>3. QED BY <1>2, ArrivedFinite, SendsAreRequests DEF Roomy

-----------------------------------------------------------------------------
(* The table *)

LEMMA WithoutKey ==
    ASSUME TypeOK, TableInv, NEW m \in Messages
    PROVE  /\ Without(m) \in Seq(Messages) /\ Len(Without(m)) <= MaxEntries
           /\ IsInjective(Without(m)) /\ Range(Without(m)) = Claimed \ {m}
  <1>1. claims \in Seq(Messages) /\ Len(claims) <= MaxEntries /\ IsInjective(claims) /\ MaxEntries \in Nat
    BY SendsAreRequests DEF TypeOK, TableInv
  <1>2. DOMAIN claims = 1..Len(claims) /\ Len(claims) \in Nat
    BY <1>1, LenProperties
  <1>3. CASE m \in Claimed
    <2> DEFINE n == CHOOSE i \in DOMAIN claims : claims[i] = m
    <2>1. \E i \in DOMAIN claims : claims[i] = m
      BY <1>3 DEF Claimed, Range
    <2>2. n \in 1..Len(claims) /\ claims[n] = m
      BY <1>2, <2>1
    <2>3. Without(m) = RemoveAt(claims, n)
      BY <1>3 DEF Without
    <2> HIDE DEF n
    <2>4. /\ RemoveAt(claims, n) \in Seq(Messages) /\ Len(RemoveAt(claims, n)) <= Len(claims)
          /\ IsInjective(RemoveAt(claims, n)) /\ Range(RemoveAt(claims, n)) = Range(claims) \ {claims[n]}
      BY <1>1, <2>2, RemoveKey
    <2>5. Len(RemoveAt(claims, n)) \in Nat
      BY <2>4, LenProperties
    <2>6. QED BY <1>1, <1>2, <2>2, <2>3, <2>4, <2>5 DEF Claimed
  <1>4. CASE m \notin Claimed
    BY <1>1, <1>4 DEF Without, Claimed
  <1>5. QED BY <1>3, <1>4

\* While there is room, a new claim fits.
LEMMA RoomForClaim ==
    ASSUME TypeOK, TableInv, Kind, NEW c \in Copies, Enters(c), Roomy' PROVE Len(claims) < MaxEntries
  <1> DEFINE m == MessageOf[c]
             others == Arrived' \ {m}
  <1>1. copy'[c] = "queued" /\ m \notin Claimed
    BY CopyBecomes DEF Enters
  <1>2. m \in Arrived'
    BY <1>1 DEF Arrived
  <1>3. Claimed \subseteq others
    BY <1>1, ArrivedGrows DEF TableInv
  <1>4. IsFiniteSet(others) /\ Cardinality(others) = Cardinality(Arrived') - 1
    BY <1>2, ArrivedFinite, FS_RemoveElement
  <1>5. Len(claims) \in Nat /\ claims \in [1..Len(claims) -> Messages] /\ DOMAIN claims = 1..Len(claims)
    BY LenProperties DEF TypeOK
  <1>6. claims \in Injection(1..Len(claims), others)
    <2>1. \A i \in 1..Len(claims) : claims[i] \in Claimed
      BY <1>5 DEF Claimed, Range
    <2>2. claims \in [1..Len(claims) -> others]
      BY <1>3, <1>5, <2>1
    <2>3. QED BY <2>2 DEF Injection, TableInv
  <1> HIDE DEF others
  <1>7. Cardinality(1..Len(claims)) <= Cardinality(others)
    BY <1>4, <1>6, FS_Injection
  <1>8. Cardinality(1..Len(claims)) = Len(claims)
    <2>1. 1 \in Int /\ Len(claims) \in Int
      BY <1>5
    <2>2. Cardinality(1..Len(claims)) = IF 1 > Len(claims) THEN 0 ELSE Len(claims) - 1 + 1
      BY <2>1, FS_Interval
    <2>3. QED BY <1>5, <2>2
  <1>9. Cardinality(Arrived') <= MaxEntries
    BY DEF Roomy
  <1>10. QED BY <1>4, <1>5, <1>7, <1>8, <1>9, ArrivedFinite, SendsAreRequests

LEMMA ClaimKey ==
    ASSUME TypeOK, TableInv, NEW m \in Messages, m \notin Claimed, Claim(m)
    PROVE  /\ claims' \in Seq(Messages) /\ Len(claims') <= MaxEntries /\ IsInjective(claims')
           /\ m \in Claimed' /\ Claimed' \subseteq Claimed \cup {m}
           /\ delivered' \subseteq Claimed' /\ delivered' \subseteq delivered
           /\ Len(claims) < MaxEntries => Claimed' = Claimed \cup {m} /\ delivered' = delivered
  <1>1. claims \in Seq(Messages) /\ Len(claims) <= MaxEntries /\ IsInjective(claims) /\ MaxEntries \in Nat \ {0}
        /\ Len(claims) \in Nat
    BY SendsAreRequests, LenProperties DEF TypeOK, TableInv
  <1>2. m \notin Range(claims) /\ delivered \subseteq Range(claims)
    BY DEF Claimed, TableInv
  <1>3. CASE Len(claims) < MaxEntries
    <2>1. claims' = Append(claims, m) /\ delivered' = delivered
      BY <1>3 DEF Claim
    <2>2. /\ Append(claims, m) \in Seq(Messages) /\ Len(Append(claims, m)) = Len(claims) + 1
          /\ IsInjective(Append(claims, m)) /\ Range(Append(claims, m)) = Range(claims) \cup {m}
      BY <1>1, <1>2, AppendKey
    <2>3. QED BY <1>1, <1>2, <1>3, <2>1, <2>2 DEF Claimed
  <1>4. CASE ~(Len(claims) < MaxEntries)
    <2> DEFINE t == Tail(claims)
    <2>1. claims' = Append(t, m) /\ delivered' = delivered \ {Head(claims)}
      BY <1>4 DEF Claim
    <2>2. claims # <<>>
      <3>1. Len(<<>>) = 0
        OBVIOUS
      <3>2. QED BY <1>1, <1>4, <3>1
    <2>3. /\ t \in Seq(Messages) /\ Len(t) = Len(claims) - 1
          /\ IsInjective(t) /\ Range(t) = Range(claims) \ {Head(claims)}
      BY <1>1, <2>2, TailKeys
    <2> HIDE DEF t
    <2>4. /\ Append(t, m) \in Seq(Messages) /\ Len(Append(t, m)) = Len(t) + 1
          /\ IsInjective(Append(t, m)) /\ Range(Append(t, m)) = Range(t) \cup {m}
      BY <1>2, <2>3, AppendKey
    <2>5. Len(claims') <= MaxEntries
      BY <1>1, <2>1, <2>3, <2>4
    <2>6. QED BY <1>2, <1>4, <2>1, <2>3, <2>4, <2>5 DEF Claimed
  <1>5. QED BY <1>3, <1>4

LEMMA TableStep ==
    ASSUME TypeOK, TableInv, Kind
    PROVE  TableInv' /\ claims' \in Seq(Messages) /\ delivered' \subseteq Messages
  <1>0. claims \in Seq(Messages) /\ delivered \subseteq Messages /\ Arrived \subseteq Arrived'
    BY ArrivedGrows DEF TypeOK
  <1>1. ASSUME NEW c \in Copies, Repeats(c) \/ (\E p \in Handling \cup Over : Goes(c, p))
        PROVE  UNCHANGED <<claims, delivered>>
    BY <1>1 DEF Repeats, Goes
  <1>2. CASE UNCHANGED <<claims, delivered>>
    BY <1>0, <1>2 DEF TableInv, Claimed
  <1>3. ASSUME NEW c \in Copies, Enters(c)
        PROVE  TableInv' /\ claims' \in Seq(Messages) /\ delivered' \subseteq Messages
    <2>1. MessageOf[c] \in Messages /\ MessageOf[c] \notin Claimed /\ Claim(MessageOf[c])
      BY <1>3, MessageOfTyped DEF Enters
    <2>2. /\ claims' \in Seq(Messages) /\ Len(claims') <= MaxEntries /\ IsInjective(claims')
          /\ Claimed' \subseteq Claimed \cup {MessageOf[c]}
          /\ delivered' \subseteq Claimed' /\ delivered' \subseteq delivered
      BY <2>1, ClaimKey
    <2>3. MessageOf[c] \in Arrived'
      <3>1. copy'[c] = "queued"
        BY <1>3, CopyBecomes DEF Enters
      <3>2. QED BY <3>1 DEF Arrived
    <2>4. QED BY <1>0, <2>2, <2>3 DEF TableInv
  <1>4. ASSUME NEW c \in Copies, Fails(c)
        PROVE  TableInv' /\ claims' \in Seq(Messages) /\ delivered' \subseteq Messages
    <2>1. delivered' = delivered /\ (claims' = claims \/ (claims' = Without(MessageOf[c]) /\ MessageOf[c] \notin delivered))
      BY <1>4 DEF Fails, Release
    <2>2. CASE claims' = Without(MessageOf[c]) /\ MessageOf[c] \notin delivered
      <3>1. /\ claims' \in Seq(Messages) /\ Len(claims') <= MaxEntries
            /\ IsInjective(claims') /\ Range(claims') = Claimed \ {MessageOf[c]}
        BY <2>2, MessageOfTyped, WithoutKey
      <3>2. QED BY <1>0, <2>1, <2>2, <3>1 DEF TableInv, Claimed
    <2>3. QED BY <1>2, <2>1, <2>2
  <1>5. ASSUME NEW c \in Copies, Completes(c)
        PROVE  TableInv' /\ claims' \in Seq(Messages) /\ delivered' \subseteq Messages
    <2>1. claims' = claims /\ delivered' \subseteq delivered \cup {MessageOf[c]} /\ (MessageOf[c] \notin Claimed => delivered' = delivered)
      BY <1>5 DEF Completes, MarkDelivered
    <2>2. QED BY <1>0, <2>1, MessageOfTyped DEF TableInv, Claimed
  <1>6. ASSUME NEW m \in Messages, Lapses(m)
        PROVE  TableInv' /\ claims' \in Seq(Messages) /\ delivered' \subseteq Messages
    <2>1. /\ claims' \in Seq(Messages) /\ Len(claims') <= MaxEntries
          /\ IsInjective(claims') /\ Range(claims') = Claimed \ {m} /\ delivered' = delivered \ {m}
      BY <1>6, WithoutKey DEF Lapses
    <2>2. QED BY <1>0, <2>1 DEF TableInv, Claimed
  <1>7. QED BY <1>1, <1>2, <1>3, <1>4, <1>5, <1>6 DEF Kind

LEMMA TypeStep == ASSUME TypeOK, TableInv, [Next]_allVars PROVE TypeOK'
  <1>1. Kind /\ LinkTypeOK'
    BY KindOfStep, LinkBelow, LinkTypeStep DEF TypeOK
  <1>2. copy' \in [Copies -> {"away"} \cup Handling \cup Over]
    BY <1>1 DEF Kind, Repeats, Enters, Goes, Fails, Completes, Lapses, Becomes, TypeOK, Handling, Over
  <1>3. whole' \in [Messages -> Nat]
    <2>1. whole' = whole \/ \E c \in Copies : whole' = [whole EXCEPT ![MessageOf[c]] = @ + 1]
      BY <1>1 DEF Kind, Repeats, Enters, Goes, Fails, Completes, Lapses
    <2>2. QED BY <2>1, MessageOfTyped, SMTT(30) DEF TypeOK
  <1>4. claims' \in Seq(Messages) /\ delivered' \subseteq Messages
    BY <1>1, TableStep
  <1>5. part' \in [Copies -> 1..Parts] /\ turn' \in Copies \cup {None}
    <2>1. ASSUME NEW c \in Copies, SendNext(c) PROVE part' \in [Copies -> 1..Parts] /\ turn' \in Copies \cup {None}
      <3>1. part[c] \in 1..Parts /\ part[c] < Parts /\ Parts \in Nat
        BY <2>1, SendsAreRequests DEF SendNext, TypeOK
      <3>2. part[c] + 1 \in 1..Parts
        BY <3>1
      <3>3. QED BY <2>1, <3>2 DEF SendNext, TypeOK
    <2>2. ASSUME NEW c \in Copies, Handle(c), ~SendNext(c) PROVE part' = part /\ turn' \in {turn, c, None}
      BY <2>2 DEF Handle, TakeTurn, StaysQuiet, ReplyFails, SendFirst, AllSent, PartFails, PartCancelled,
                  KeepsBooks, BooksFail, Fail
    <2>3. ASSUME NEW c \in Copies, Arrive(c) PROVE part' = part /\ turn' = turn
      BY <2>3 DEF Arrive
    <2>4. ASSUME NEW m \in Messages, Expire(m) PROVE part' = part /\ turn' = turn
      BY <2>4 DEF Expire
    <2>5. CASE UNCHANGED allVars \/ UNCHANGED handlerVars
      BY <2>5 DEF allVars, handlerVars, TypeOK
    <2>6. QED BY <2>1, <2>2, <2>3, <2>4, <2>5 DEF Next, TypeOK
  <1>6. QED BY <1>1, <1>2, <1>3, <1>4, <1>5 DEF TypeOK

-----------------------------------------------------------------------------
(* Claims and answers *)

LEMMA HandlerStep == ASSUME TypeOK, TableInv, HandlerInv, Kind PROVE HandlerInv'
  <1> DEFINE Alone(c) == /\ MessageOf[c] \in Claimed
                         /\ \A d \in Copies : copy[d] \in Handling /\ MessageOf[d] = MessageOf[c] => d = c
  <1> SUFFICES ASSUME Roomy', NEW c \in Copies, copy'[c] \in Handling PROVE Alone(c)'
    BY DEF HandlerInv
  <1>1. \A e \in Copies : copy[e] \in Handling => Alone(e)
    BY RoomyBefore DEF HandlerInv
  <1>2. ASSUME NEW e \in Copies, Enters(e) PROVE Alone(c)'
    <2>1. Claimed' = Claimed \cup {MessageOf[e]} /\ MessageOf[e] \notin Claimed
      BY <1>2, ClaimKey, RoomForClaim, MessageOfTyped DEF Enters
    <2>2. copy'[e] = "queued" /\ \A d \in Copies : d # e => copy'[d] = copy[d]
      BY <1>2, CopyBecomes DEF Enters
    <2>3. \A d \in Copies : copy[d] \in Handling => MessageOf[d] # MessageOf[e]
      BY <1>1, <2>1
    <2>4. QED BY <1>1, <2>1, <2>2, <2>3
  <1>3. ASSUME NEW e \in Copies, copy[e] \in Handling, NEW p, Becomes(e, p),
               Claimed' = Claimed \/ (p \notin Handling /\ Claimed \ {MessageOf[e]} \subseteq Claimed')
        PROVE  Alone(c)'
    <2>1. copy'[e] = p /\ \A d \in Copies : d # e => copy'[d] = copy[d]
      BY <1>3, CopyBecomes
    <2>2. CASE c = e
      BY <1>1, <1>3, <2>1, <2>2
    <2>3. CASE c # e
      <3>1. Alone(c) /\ MessageOf[c] # MessageOf[e]
        BY <1>1, <1>3, <2>1, <2>3
      <3>2. QED BY <1>3, <2>1, <2>3, <3>1
    <2>4. QED BY <2>2, <2>3
  <1>4. ASSUME NEW e \in Copies, Repeats(e) PROVE Alone(c)'
    <2>1. copy'[e] = "duplicate" /\ (\A d \in Copies : d # e => copy'[d] = copy[d]) /\ claims' = claims
      BY <1>4, CopyBecomes DEF Repeats
    <2>2. "duplicate" \notin Handling
      BY DEF Handling
    <2>3. QED BY <1>1, <2>1, <2>2 DEF Claimed
  <1>5. ASSUME NEW e \in Copies, NEW p, Goes(e, p) PROVE Alone(c)'
    <2>1. copy[e] \in Handling /\ Becomes(e, p) /\ Claimed' = Claimed
      BY <1>5 DEF Goes, Moves, Handling, Claimed
    <2>2. QED BY <1>3, <2>1
  <1>6. ASSUME NEW e \in Copies, Completes(e) PROVE Alone(c)'
    <2>1. copy[e] \in Handling /\ Becomes(e, "sent") /\ Claimed' = Claimed
      BY <1>6 DEF Completes, Handling, Claimed
    <2>2. QED BY <1>3, <2>1
  <1>7. ASSUME NEW e \in Copies, Fails(e) PROVE Alone(c)'
    <2>1. copy[e] \in Handling /\ Becomes(e, "failed") /\ "failed" \notin Handling
      BY <1>7 DEF Fails, Handling
    <2>2. claims' = claims \/ claims' = Without(MessageOf[e])
      BY <1>7 DEF Fails, Release
    <2>3. Claimed' = Claimed \/ Claimed \ {MessageOf[e]} \subseteq Claimed'
      BY <2>2, WithoutKey, MessageOfTyped DEF Claimed
    <2>4. QED BY <1>3, <2>1, <2>3
  <1>8. ASSUME NEW m \in Messages, Lapses(m) PROVE Alone(c)'
    <2>1. copy' = copy /\ Claimed' = Claimed \ {m}
      BY <1>8, WithoutKey DEF Lapses, Claimed
    <2>2. MessageOf[c] # m
      BY <1>8, <2>1 DEF Lapses, Of, Over, Handling
    <2>3. QED BY <1>1, <2>1, <2>2
  <1>9. CASE UNCHANGED <<copy, claims, delivered, whole>>
    BY <1>1, <1>9 DEF Claimed
  <1>10. QED BY <1>2, <1>4, <1>5, <1>6, <1>7, <1>8, <1>9 DEF Kind

LEMMA WholeStep == ASSUME TypeOK, TableInv, HandlerInv, WholeInv, Kind PROVE WholeInv'
  <1> DEFINE Open == {"queued", "replying", "sending"}
             Settled(m) == whole[m] > 0 =>
                             /\ whole[m] = 1
                             /\ m \in delivered \/ \A c \in Of(m) : copy[c] \in Over
                             /\ \A c \in Of(m) : copy[c] \notin Open
  <1>0. /\ \A c \in Copies : copy[c] = "sent" => whole[MessageOf[c]] > 0
        /\ \A m \in delivered : whole[m] > 0 /\ m \in Messages
        /\ Roomy' => \A m \in Messages : Settled(m)
        /\ whole \in [Messages -> Nat]
    BY RoomyBefore DEF WholeInv, TypeOK
  <1> SUFFICES /\ \A c \in Copies : copy'[c] = "sent" => whole'[MessageOf[c]] > 0
               /\ \A m \in delivered' : whole'[m] > 0
               /\ Roomy' => \A m \in Messages : Settled(m)'
    BY DEF WholeInv
  <1> DEFINE Goal == /\ \A c \in Copies : copy'[c] = "sent" => whole'[MessageOf[c]] > 0
                     /\ \A m \in delivered' : whole'[m] > 0
                     /\ Roomy' => \A m \in Messages : Settled(m)'
  <1>1. ASSUME NEW c \in Copies, NEW p, p # "sent", Becomes(c, p), whole' = whole, delivered' \subseteq delivered,
               Roomy' => /\ delivered' = delivered
                         /\ whole[MessageOf[c]] > 0 => MessageOf[c] \in delivered /\ p \notin Open
        PROVE  Goal
    <2>1. copy'[c] = p /\ \A d \in Copies : d # c => copy'[d] = copy[d]
      BY <1>1, CopyBecomes
    <2>2. ASSUME Roomy', NEW m \in Messages PROVE Settled(m)'
      <3>1. CASE m = MessageOf[c]
        BY <1>0, <1>1, <2>1, <2>2, <3>1 DEF Of
      <3>2. CASE m # MessageOf[c]
        <4>1. \A d \in Of(m) : copy'[d] = copy[d]
          BY <2>1, <3>2 DEF Of
        <4>2. QED BY <1>0, <1>1, <2>2, <4>1
      <3>3. QED BY <3>1, <3>2
    <2>3. QED BY <1>0, <1>1, <2>1, <2>2
  <1>2. ASSUME NEW c \in Copies, Repeats(c) PROVE Goal
    <2>1. Becomes(c, "duplicate") /\ whole' = whole /\ delivered' = delivered /\ copy[c] = "away" /\ c \in Of(MessageOf[c])
      BY <1>2, MessageOfTyped DEF Repeats
    <2>2. Roomy' /\ whole[MessageOf[c]] > 0 => MessageOf[c] \in delivered
      BY <1>0, <2>1, MessageOfTyped DEF Over
    <2>3. QED BY <1>1, <2>1, <2>2
  <1>3. ASSUME NEW c \in Copies, Enters(c) PROVE Goal
    <2>1. /\ Becomes(c, "queued") /\ whole' = whole /\ copy[c] = "away" /\ c \in Of(MessageOf[c])
          /\ MessageOf[c] \notin Claimed
      BY <1>3, MessageOfTyped DEF Enters
    <2>2. delivered' \subseteq delivered /\ (Roomy' => delivered' = delivered)
      BY <1>3, ClaimKey, RoomForClaim, MessageOfTyped DEF Enters
    <2>3. Roomy' => ~(whole[MessageOf[c]] > 0)
      BY <1>0, <2>1, MessageOfTyped DEF Over, TableInv
    <2>4. QED BY <1>1, <2>1, <2>2, <2>3
  <1>4. ASSUME NEW c \in Copies, NEW p,
               Goes(c, p) \/ (Fails(c) /\ p = "failed")
        PROVE  Goal
    <2>1. /\ Becomes(c, p) /\ whole' = whole /\ delivered' = delivered /\ p # "sent"
          /\ copy[c] \in Open \/ (copy[c] = "sent" /\ p \notin Open)
      BY <1>4 DEF Goes, Fails, Moves
    <2>2. c \in Of(MessageOf[c]) /\ MessageOf[c] \in Messages /\ "sent" \notin Over
      BY MessageOfTyped DEF Over
    <2>3. Roomy' /\ whole[MessageOf[c]] > 0 => MessageOf[c] \in delivered /\ p \notin Open
      BY <1>0, <2>1, <2>2
    <2>4. QED BY <1>1, <2>1, <2>3
  <1>5. ASSUME NEW c \in Copies, Completes(c) PROVE Goal
    <2> DEFINE m == MessageOf[c]
    <2>1. copy[c] = "sending" /\ m \in Messages /\ c \in Of(m)
      BY <1>5, MessageOfTyped DEF Completes
    <2>2. copy'[c] = "sent" /\ \A d \in Copies : d # c => copy'[d] = copy[d]
      BY <1>5, CopyBecomes DEF Completes
    <2>3. whole'[m] = whole[m] + 1 /\ \A n \in Messages : n # m => whole'[n] = whole[n]
      BY <1>0, <1>5, <2>1 DEF Completes
    <2>4. delivered' = IF m \in Claimed THEN delivered \cup {m} ELSE delivered
      BY <1>5 DEF Completes, MarkDelivered
    <2>5. \A n \in Messages : whole'[n] >= whole[n]
      BY <1>0, <2>3
    <2>6. \A d \in Copies : copy'[d] = "sent" => whole'[MessageOf[d]] > 0
      BY <1>0, <2>1, <2>2, <2>3, MessageOfTyped
    <2>7. \A n \in delivered' : whole'[n] > 0
      BY <1>0, <2>1, <2>3, <2>4
    <2>8. ASSUME Roomy', NEW n \in Messages PROVE Settled(n)'
      <3>1. CASE n = m
        <4>1. whole[m] = 0
          BY <1>0, <2>1, <2>8
        <4>2. m \in Claimed /\ \A d \in Copies : copy[d] \in Handling /\ MessageOf[d] = m => d = c
          BY <2>1, <2>8, RoomyBefore DEF HandlerInv, Handling
        <4>3. \A d \in Of(m) : copy'[d] \notin Open
          BY <2>2, <4>2 DEF Of, Handling
        <4>4. QED BY <2>3, <2>4, <3>1, <4>1, <4>2, <4>3
      <3>2. CASE n # m
        <4>1. whole'[n] = whole[n] /\ (n \in delivered' <=> n \in delivered)
          BY <2>3, <2>4, <3>2
        <4>2. \A d \in Of(n) : copy'[d] = copy[d]
          BY <2>2, <3>2 DEF Of
        <4>3. QED BY <1>0, <2>8, <4>1, <4>2
      <3>3. QED BY <3>1, <3>2
    <2>9. QED BY <2>6, <2>7, <2>8
  <1>6. ASSUME NEW m \in Messages, Lapses(m) PROVE Goal
    <2>1. copy' = copy /\ whole' = whole /\ delivered' = delivered \ {m} /\ \A c \in Of(m) : copy[c] \in Over
      BY <1>6 DEF Lapses
    <2>2. QED BY <1>0, <2>1
  <1>7. CASE UNCHANGED <<copy, claims, delivered, whole>>
    BY <1>0, <1>7
  <1>8. QED BY <1>2, <1>3, <1>4, <1>5, <1>6, <1>7 DEF Kind

LEMMA ReasonStep == ASSUME TypeOK, TableInv, WholeInv, ReasonInv, Kind PROVE ReasonInv'
  <1> DEFINE Reasons == Handling \cup {"quiet", "cancelled"}
             Reason(m) == whole[m] > 0 \/ \E c \in Of(m) : copy[c] \in Reasons
  <1>0. /\ \A m \in Claimed : Reason(m)
        /\ Claimed \subseteq Messages /\ whole \in [Messages -> Nat]
    BY ElementOfSeq, LenProperties DEF ReasonInv, TypeOK, Claimed, Range
  <1> SUFFICES ASSUME NEW m \in Claimed' PROVE Reason(m)'
    BY DEF ReasonInv
  <1>1. ASSUME NEW c \in Copies, NEW p, Becomes(c, p), whole' = whole, m \in Claimed,
               (m = MessageOf[c] /\ copy[c] \in Reasons) => p \in Reasons \/ whole[m] > 0
        PROVE  Reason(m)'
    <2>1. copy'[c] = p /\ \A d \in Copies : d # c => copy'[d] = copy[d]
      BY <1>1, CopyBecomes
    <2>2. CASE whole[m] > 0
      BY <1>1, <2>2
    <2>3. ASSUME NEW d \in Of(m), copy[d] \in Reasons PROVE Reason(m)'
      <3>1. CASE d # c
        BY <2>1, <2>3, <3>1 DEF Of
      <3>2. CASE d = c
        BY <1>1, <2>1, <2>3, <3>2 DEF Of
      <3>3. QED BY <3>1, <3>2
    <2>4. QED BY <1>0, <1>1, <2>2, <2>3
  <1>2. ASSUME NEW c \in Copies, Repeats(c) PROVE Reason(m)'
    <2>1. Becomes(c, "duplicate") /\ whole' = whole /\ m \in Claimed /\ copy[c] = "away"
      BY <1>2 DEF Repeats, Claimed
    <2>2. QED BY <1>1, <2>1 DEF Handling
  <1>3. ASSUME NEW c \in Copies, Enters(c) PROVE Reason(m)'
    <2>1. Becomes(c, "queued") /\ whole' = whole /\ copy[c] = "away" /\ c \in Of(MessageOf[c]) /\ copy'[c] = "queued"
      BY <1>3, CopyBecomes, MessageOfTyped DEF Enters
    <2>2. m \in Claimed \/ m = MessageOf[c]
      BY <1>3, ClaimKey, MessageOfTyped DEF Enters
    <2>3. CASE m = MessageOf[c]
      BY <2>1, <2>3 DEF Handling
    <2>4. CASE m \in Claimed
      BY <1>1, <2>1, <2>4 DEF Handling
    <2>5. QED BY <2>2, <2>3, <2>4
  <1>4. ASSUME NEW c \in Copies, NEW p, Goes(c, p) PROVE Reason(m)'
    <2>1. Becomes(c, p) /\ whole' = whole /\ m \in Claimed /\ (p \in Reasons \/ copy[c] = "sent")
      BY <1>4 DEF Goes, Moves, Claimed, Handling
    <2>2. QED BY <1>1, <2>1 DEF WholeInv
  <1>5. ASSUME NEW c \in Copies, Fails(c) PROVE Reason(m)'
    <2>1. Becomes(c, "failed") /\ whole' = whole
      BY <1>5 DEF Fails
    <2>2. CASE MessageOf[c] \in delivered
      <3>1. claims' = claims /\ whole[MessageOf[c]] > 0
        BY <1>5, <2>2 DEF Fails, Release, WholeInv
      <3>2. QED BY <1>1, <2>1, <3>1 DEF Claimed
    <2>3. CASE MessageOf[c] \notin delivered
      <3>1. claims' = Without(MessageOf[c])
        BY <1>5, <2>3 DEF Fails, Release
      <3>2. Claimed' = Claimed \ {MessageOf[c]}
        BY <3>1, WithoutKey, MessageOfTyped DEF Claimed
      <3>3. QED BY <1>1, <2>1, <3>2
    <2>4. QED BY <2>2, <2>3
  <1>6. ASSUME NEW c \in Copies, Completes(c) PROVE Reason(m)'
    <2>1. claims' = claims /\ whole' = [whole EXCEPT ![MessageOf[c]] = @ + 1] /\ copy[c] = "sending"
      BY <1>6 DEF Completes
    <2>2. copy'[c] = "sent" /\ \A d \in Copies : d # c => copy'[d] = copy[d]
      BY <1>6, CopyBecomes DEF Completes
    <2>3. m \in Claimed /\ m \in Messages
      BY <1>0, <2>1 DEF Claimed
    <2>4. CASE m = MessageOf[c]
      BY <1>0, <2>1, <2>3, <2>4
    <2>5. CASE m # MessageOf[c]
      <3>1. whole'[m] = whole[m] /\ \A d \in Of(m) : copy'[d] = copy[d]
        BY <1>0, <2>1, <2>2, <2>3, <2>5 DEF Of
      <3>2. QED BY <1>0, <2>3, <3>1
    <2>6. QED BY <2>4, <2>5
  <1>7. ASSUME NEW n \in Messages, Lapses(n) PROVE Reason(m)'
    <2>1. Claimed' = Claimed \ {n} /\ copy' = copy /\ whole' = whole
      BY <1>7, WithoutKey DEF Lapses, Claimed
    <2>2. QED BY <1>0, <2>1
  <1>8. CASE UNCHANGED <<copy, claims, delivered, whole>>
    BY <1>0, <1>8 DEF Claimed
  <1>9. QED BY <1>2, <1>3, <1>4, <1>5, <1>6, <1>7, <1>8 DEF Kind

LEMMA InboundInvInit == ASSUME Init PROVE InboundInv
  <1>1. LinkTypeOK
    BY LinkTypeInit DEF Init
  <1>2. Len(claims) = 0 /\ claims = <<>> /\ DOMAIN claims = {} /\ Claimed = {}
    BY DEF Init, Claimed, Range
  <1>3. TypeOK
    <2>1. <<>> \in Seq(Messages) /\ 1 \in 1..Parts
      BY EmptySeq, SendsAreRequests
    <2>2. QED BY <1>1, <1>2, <2>1 DEF Init, TypeOK
  <1>4. TableInv
    BY <1>2, SendsAreRequests DEF Init, TableInv, IsInjective
  <1>5. HandlerInv /\ ReasonInv
    BY <1>2 DEF Init, HandlerInv, ReasonInv, Handling
  <1>6. WholeInv
    BY DEF Init, WholeInv
  <1>7. QED BY <1>3, <1>4, <1>5, <1>6 DEF InboundInv

LEMMA InboundInvStep == ASSUME InboundInv, [Next]_allVars PROVE InboundInv'
  <1>1. Kind
    BY KindOfStep
  <1>2. QED BY <1>1, TypeStep, TableStep, HandlerStep, WholeStep, ReasonStep DEF InboundInv

LEMMA InboundInvCorrect == Spec => []InboundInv
  <1>1. QED BY InboundInvInit, InboundInvStep, PTL DEF Spec

-----------------------------------------------------------------------------
\* The handlers use the link as its own specification lets anybody use it
\* (emitter.aemit over _send_action) ...
THEOREM UsesTheLink == Spec => LinkSpec
  <1>1. Init => LinkInit
    BY DEF Init
  <1>2. InboundInv /\ [Next]_allVars => [LinkNext]_vars
    BY LinkBelow DEF InboundInv
  <1>3. QED BY <1>1, <1>2, InboundInvCorrect, PTL DEF Spec, LinkSpec

\* ... so connections, calls and echoes agree under the traffic of the handlers.
THEOREM LinkUnderTraffic == Spec => []LinkAgrees
  <1>1. QED BY UsesTheLink, LinkCorrect, PTL

\* The deduplicator's table tells what is being answered, was answered, and may be
\* answered again (claim, mark_delivered, release and _prune_locked around
\* handle_json_async), for a table of any size.
THEOREM Deduplicated == Spec => []DedupAgrees
  <1>1. InboundInv => DedupAgrees
    <2> SUFFICES ASSUME InboundInv PROVE DedupAgrees
      OBVIOUS
    <2>1. TypeOK /\ TableInv /\ HandlerInv /\ ReasonInv
      BY DEF InboundInv
    <2>2. ClaimsAgree
      <3>1. ASSUME Roomy, NEW m \in Messages
            PROVE  LET busy == {c \in Of(m) : copy[c] \in Handling}
                   IN  Cardinality(busy) <= 1 /\ (busy # {} => m \in Claimed)
        <4> DEFINE busy == {c \in Of(m) : copy[c] \in Handling}
        <4>1. CASE busy = {}
          BY <4>1, FS_EmptySet
        <4>2. ASSUME NEW c \in busy PROVE Cardinality(busy) = 1 /\ m \in Claimed
          <5>1. c \in Copies /\ MessageOf[c] = m /\ copy[c] \in Handling
            BY <4>2 DEF Of
          <5>2. m \in Claimed /\ \A d \in busy : d = c
            BY <2>1, <3>1, <5>1 DEF HandlerInv, Of
          <5>3. busy = {c}
            BY <4>2, <5>2
          <5>4. QED BY <5>2, <5>3, FS_Singleton
        <4>3. QED BY <4>1, <4>2
      <3>2. QED BY <2>1, <3>1 DEF ClaimsAgree, TableInv, Roomy, Arrived
    <2>3. FailureReleases
      <3>1. SUFFICES ASSUME NEW m \in Messages, m \in Claimed, whole[m] = 0
                     PROVE  {copy[c] : c \in Of(m)} \cap (Handling \cup {"quiet", "cancelled"}) # {}
        BY DEF FailureReleases
      <3>2. PICK c \in Of(m) : copy[c] \in Handling \cup {"quiet", "cancelled"}
        BY <2>1, <3>1 DEF ReasonInv
      <3>3. QED BY <3>2
    <2>4. QED BY <2>1, <2>2, <2>3 DEF DedupAgrees
  <1>2. QED BY <1>1, InboundInvCorrect, PTL

\* As long as no entry had to make room, however often the platform repeats a
\* message, at most one whole answer to it is confirmed.
THEOREM AnswersWhileRoomy == Spec => [](Roomy => AnsweredOnce)
  <1>1. InboundInv => (Roomy => AnsweredOnce)
    <2> SUFFICES ASSUME InboundInv, Roomy PROVE AnsweredOnce
      OBVIOUS
    <2>1. \A m \in Messages : whole[m] \in Nat /\ (whole[m] > 0 => whole[m] = 1)
      BY DEF InboundInv, WholeInv, TypeOK
    <2>2. QED BY <2>1 DEF AnsweredOnce
  <1>2. QED BY <1>1, InboundInvCorrect, PTL

\* And none ever has to, where the table holds every message that may be repeated.
THEOREM AnswersOnce ==
    ASSUME Cardinality({MessageOf[c] : c \in Copies}) <= MaxEntries PROVE Spec => []AnsweredOnce
  <1> DEFINE All == {MessageOf[c] : c \in Copies}
  <1>1. Roomy
    <2>1. MessageOf \in Surjection(Copies, All)
      BY SendsAreRequests DEF Surjection
    <2>2. IsFiniteSet(All) /\ Cardinality(All) \in Nat
      BY <2>1, FS_Surjection, FS_CardinalityType, SendsAreRequests
    <2>3. Arrived \in SUBSET All
      BY DEF Arrived
    <2>4. Cardinality(Arrived) <= Cardinality(All)
      BY <2>2, <2>3, FS_Subset
    <2>5. QED BY <2>2, <2>4, ArrivedFinite, SendsAreRequests DEF Roomy
  <1>2. QED BY <1>1, AnswersWhileRoomy, PTL
=============================================================================
