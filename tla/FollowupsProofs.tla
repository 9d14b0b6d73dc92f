---------------------------- MODULE FollowupsProofs ----------------------------
(***************************************************************************)
(* Theorems about Followups, for any versions, drafts, policies and bounds. *)
(*                                                                         *)
(* What the invariant says of the tables it says of any db, for they change *)
(* in stages: a change of the episode or of the rules goes through all the  *)
(* candidates, and so does the tick, twice.  Each stage keeps the tables in *)
(* agreement and follows the one before (Follows).                          *)
(***************************************************************************)
EXTENDS Followups, SequenceTheorems, FiniteSetTheorems, WellFoundedInduction, TLAPS

-----------------------------------------------------------------------------
(* The inductive invariant *)

CandRow == [state : CandidateState, ver : Nat, due : Nat, gen : Nat, cancel : BOOLEAN, ignored : BOOLEAN]
EventRow == [kind : {"message", "memory", "binding", "followup"}, cand : Versions \cup {0}, ver : Nat,
             state : Ended \cup {"queued", "outbox_ready", "needs_review"},
             box : {"none", "pending", "dispatching", "accepted", "rejected", "unknown", "cancelled"},
             at : Nat, tried : BOOLEAN, to : BOOLEAN]
Tables == [cand : [Versions -> CandRow], events : Seq(EventRow), memory : [ver : Versions, open : BOOLEAN],
           binding : [gen : Nat, mine : BOOLEAN], policy : [is : Policies, ver : Nat]]

\* What a row says of its candidate, as far as it has got.
OccurrenceAgrees(e, r) ==
  \/ e.state = "queued" /\ e.box = "none" /\ r.state = "enqueued" /\ e.ver = r.ver
  \/ e.state = "outbox_ready" /\ e.box = "pending" /\ r.state = "enqueued" /\ e.ver = r.ver
  \/ e.state = "outbox_ready" /\ e.box = "dispatching" /\ r.state = "dispatching"
  \/ e.state = "needs_review" /\ e.box \in {"unknown", "rejected"} /\ r.state = "needs_review"
  \/ e.state = "completed" /\ e.box = "accepted"
  \/ e.state = "cancelled" /\ e.box \in {"none", "cancelled"}

RowAgrees(db, e) ==
  IF e.kind = "followup" THEN e.cand \in Versions /\ OccurrenceAgrees(e, db.cand[e.cand])
  ELSE e.box = "none" /\ e.state \in {"queued", "completed", "failed"}

RowsAgree(db) == \A i \in DOMAIN db.events : RowAgrees(db, db.events[i])

Asking(db, i, v) == i \in Open(db.events) /\ db.events[i].kind = "followup" /\ db.events[i].cand = v

\* A follow-up that is under way has an open row, and there is one such row.
UnderWay == {"enqueued"} \cup InDelivery
OneRow(db) ==
  /\ \A v \in Versions : db.cand[v].state \in UnderWay => \E i \in DOMAIN db.events : Asking(db, i, v)
  /\ \A i, j \in Open(db.events) :
       db.events[i].kind = "followup" /\ db.events[j].kind = "followup" => i = j

\* Of all the versions one is planned or was asked about.
OneVersion(db) == \A v, w \in Versions :
  db.cand[v].state \in Planned \cup {"completed"} /\ db.cand[w].state \in Planned \cup {"completed"} => v = w

\* A candidate is what was approved, not before it was due; and what was ignored
\* was dismissed, or will be when its delivery ends.
CandAgrees(v, r) ==
  /\ approved[v] = [due |-> r.due, gen |-> r.gen]
  /\ r.state \in UnderWay => r.due <= now
  /\ r.ignored => r.state = "dismissed" \/ (r.cancel /\ r.state \in InDelivery \cup {"completed", "cancelled"})

TablesAgree(db) ==
  /\ db \in Tables /\ Len(db.events) <= MaxEvents
  /\ RowsAgree(db) /\ OneRow(db) /\ OneVersion(db)
  /\ \A v \in Versions : CandAgrees(v, db.cand[v])

WorkerAgrees ==
  /\ worker.at \in {"prepared", "sending"} => worker.row \in DOMAIN events
  /\ worker.at = "prepared" => events[worker.row].kind = "followup"
  /\ worker.at = "sending" => events[worker.row].box = "dispatching"
  /\ \A i \in DOMAIN events : events[i].box = "dispatching" =>
       worker.at = "down" \/ (worker.at = "sending" /\ worker.row = i)

\* An episode was asked about once for every delivery that was settled, and once
\* more if a delivery is not; what was ignored is remembered.
Asked(db) == \E v \in Versions : db.cand[v].state \in InDelivery \cup {"completed"}
SendsAgree(db) == Len(sends) <= settled + IF Asked(db) THEN 1 ELSE 0
IgnoredKept(db) == ignored => \E v \in Versions : db.cand[v].ignored

DraftAgrees(j) ==
  /\ draft[j].state = "absent" => ~draft[j].called
  /\ calls[j] = IF draft[j].called THEN 1 ELSE 0
  /\ draft[j].state \in {"generating", "ready"} => seen[j] = draft[j].snap
DraftsAgree ==
  /\ \A j \in Jobs : DraftAgrees(j)
  /\ drafter.at # "idle" => drafter.job \in Jobs

RestTyped ==
  /\ now \in 0..MaxTime
  /\ draft \in [Jobs -> [state : DraftState, snap : Snapshot, at : Nat, called : BOOLEAN]]
  /\ \A a \in attempts : a.at \in 0..now
  /\ enabled \in BOOLEAN
  /\ worker \in [at : {"down", "idle", "prepared", "sending"}, row : 0..MaxEvents]
  /\ drafter.at \in {"idle", "claimed", "writing"} /\ drafter.job \in Jobs \cup {0}
  /\ approved \in [Versions -> [due : Nat, gen : Nat]]
  /\ sends \in Seq(Versions) /\ settled \in Nat /\ ignored \in BOOLEAN
  /\ seen \in [Jobs -> Snapshot] /\ calls \in [Jobs -> Nat]

FollowupsInv ==
  /\ RestTyped /\ TablesAgree(Db) /\ WorkerAgrees /\ DraftsAgree
  /\ SendsAgree(Db) /\ IgnoredKept(Db)

-----------------------------------------------------------------------------
(* Induction over the versions *)

LEMMA Bounds == /\ MaxVersions \in Nat /\ MaxVersions > 0 /\ MaxEvents \in Nat /\ MaxTime \in Nat
                /\ Window \in Nat /\ SourceAge \in Nat /\ MaxPending \in Nat /\ MaxDue \in Nat
                /\ Recently \in Nat /\ MaxUnanswered \in Nat
  BY FollowupsAssumption

LEMMA LeastOf == ASSUME NEW S \in SUBSET Nat, S # {} PROVE \E n \in S : \A m \in S : n <= m
  <1>1. PICK n \in S : \A m \in S : ~(<<m, n>> \in OpToRel(<, Nat))
    BY NatLessThanWellFounded, WFMin
  <1>2. \A m \in S : ~(m < n)
    BY <1>1 DEF OpToRel
  <1>3. \A m \in S : m \in Nat
    OBVIOUS
  <1>4. QED BY <1>2, <1>3

LEMMA UpTo ==
  ASSUME NEW N \in Nat, NEW H, 0 \in H, \A n \in 1..N : n - 1 \in H => n \in H
  PROVE  \A n \in 0..N : n \in H
  <1> DEFINE Bad == {n \in 0..N : n \notin H}
  <1>1. SUFFICES ASSUME Bad # {} PROVE FALSE
    OBVIOUS
  <1>2. PICK n \in Bad : \A m \in Bad : n <= m
    <2>1. Bad \in SUBSET Nat
      OBVIOUS
    <2> HIDE DEF Bad
    <2>2. QED BY <1>1, <2>1, LeastOf
  <1>3. n \in 1..N /\ n - 1 \in 0..N
    BY <1>2
  <1>4. n - 1 \notin Bad
    BY <1>2, <1>3
  <1>5. QED BY <1>2, <1>3, <1>4

\* From base, one of F for each of 1..N.
After(f, N, base, F) == f = [n \in 0..N |-> IF n = 0 THEN base ELSE F[n][f[n - 1]]]

\* There is a function that is defined step by step.
LEMMA StepsDefine ==
  ASSUME NEW G, NEW N \in Nat, NEW base \in G, NEW F \in [1..N -> [G -> G]]
  PROVE  \E f \in [0..N -> G] : After(f, N, base, F)
  <1> DEFINE H == {k \in 0..N : \E f \in [0..k -> G] :
                     f[0] = base /\ \A n \in 1..k : f[n] = F[n][f[n - 1]]}
  <1>1. 0 \in H
    <2> DEFINE f == [n \in 0..0 |-> base]
    <2>1. f \in [0..0 -> G] /\ f[0] = base /\ \A n \in 1..0 : f[n] = F[n][f[n - 1]]
      OBVIOUS
    <2> HIDE DEF f
    <2>2. QED BY <2>1
  <1>2. ASSUME NEW k \in 1..N, k - 1 \in H PROVE k \in H
    <2>1. PICK f \in [0..(k - 1) -> G] : f[0] = base /\ \A n \in 1..(k - 1) : f[n] = F[n][f[n - 1]]
      BY <1>2
    <2> DEFINE g == [n \in 0..k |-> IF n = k THEN F[k][f[k - 1]] ELSE f[n]]
    <2>2. f[k - 1] \in G /\ F[k] \in [G -> G]
      BY <1>2
    <2>3. F[k][f[k - 1]] \in G
      BY <2>2
    <2>4. g \in [0..k -> G]
      BY <2>3
    <2>5. g[0] = base /\ \A n \in 1..k : g[n] = F[n][g[n - 1]]
      BY <2>1
    <2>6. k \in 0..N
      OBVIOUS
    <2> HIDE DEF g
    <2>7. QED BY <2>4, <2>5, <2>6
  <1>3. N \in H
    <2> HIDE DEF H
    <2>1. \A n \in 0..N : n \in H
      BY <1>1, <1>2, UpTo
    <2>2. QED BY <2>1
  <1>4. PICK f \in [0..N -> G] : f[0] = base /\ \A n \in 1..N : f[n] = F[n][f[n - 1]]
    BY <1>3
  <1>5. \A n \in 0..N : f[n] = IF n = 0 THEN base ELSE F[n][f[n - 1]]
    BY <1>4
  <1>6. QED BY <1>4, <1>5 DEF After

\* One stage of the tables follows another: no row begins or ceases to be sent,
\* no delivery is forgotten, and nothing that was ignored.
Follows(db, n) ==
  /\ DOMAIN db.events \subseteq DOMAIN n.events
  /\ \A i \in DOMAIN db.events :
       /\ n.events[i].kind = db.events[i].kind
       /\ db.events[i].box = "dispatching" => n.events[i].box = "dispatching"
  /\ \A i \in DOMAIN n.events : n.events[i].box = "dispatching" =>
       i \in DOMAIN db.events /\ db.events[i].box = "dispatching"
  /\ \A v \in Versions :
       /\ db.cand[v].state \in InDelivery \cup {"completed"} => n.cand[v].state \in InDelivery \cup {"completed"}
       /\ db.cand[v].ignored => n.cand[v].ignored

NoneFormed(db, n) == \A v \in Versions : db.cand[v].state = "absent" => n.cand[v].state = "absent"

LEMMA FollowsSame == ASSUME NEW db PROVE Follows(db, db) /\ NoneFormed(db, db)
  BY DEF Follows, NoneFormed

LEMMA FollowsOn ==
  ASSUME NEW a, NEW b, NEW c, Follows(a, b), Follows(b, c) PROVE Follows(a, c)
  BY DEF Follows

Keeps(db, n) == TablesAgree(n) /\ Follows(db, n) /\ NoneFormed(db, n)

\* What each step keeps a pass over the versions keeps.
LEMMA PassKeeps ==
  ASSUME NEW base, TablesAgree(base), NEW h, h[0] = base,
         \A v \in Versions : TablesAgree(h[v - 1]) => Keeps(h[v - 1], h[v])
  PROVE  Keeps(base, h[MaxVersions])
  <1> DEFINE H == {n \in 0..MaxVersions : Keeps(base, h[n])}
  <1>1. 0 \in H
    BY Bounds, FollowsSame DEF Keeps
  <1>2. ASSUME NEW n \in 1..MaxVersions, n - 1 \in H PROVE n \in H
    <2>1. Keeps(base, h[n - 1]) /\ n \in 0..MaxVersions
      BY <1>2, Bounds
    <2>2. Keeps(h[n - 1], h[n])
      BY <2>1 DEF Keeps, Versions
    <2>3. Keeps(base, h[n])
      <3>1. Follows(base, h[n])
        BY <2>1, <2>2, FollowsOn DEF Keeps
      <3>2. NoneFormed(base, h[n])
        BY <2>1, <2>2 DEF Keeps, NoneFormed
      <3>3. QED BY <2>2, <3>1, <3>2 DEF Keeps
    <2>4. QED BY <2>1, <2>3
  <1> HIDE DEF H
  <1>3. \A n \in 0..MaxVersions : n \in H
    BY <1>1, <1>2, UpTo, Bounds
  <1>4. QED BY <1>3, Bounds DEF H

-----------------------------------------------------------------------------
(* The updates of the tables *)

LEMMA CandIs ==
  ASSUME NEW db \in Tables, NEW v \in Versions, NEW r \in CandRow
  PROVE  /\ WithCand(db, v, r) \in Tables
         /\ WithCand(db, v, r).events = db.events /\ WithCand(db, v, r).cand[v] = r
         /\ \A w \in Versions \ {v} : WithCand(db, v, r).cand[w] = db.cand[w]
  BY DEF WithCand, Tables

LEMMA RowIs ==
  ASSUME NEW db \in Tables, NEW i \in DOMAIN db.events, NEW e \in EventRow
  PROVE  /\ WithRow(db, i, e) \in Tables
         /\ WithRow(db, i, e).cand = db.cand
         /\ DOMAIN WithRow(db, i, e).events = DOMAIN db.events
         /\ Len(WithRow(db, i, e).events) = Len(db.events)
         /\ WithRow(db, i, e).events[i] = e
         /\ \A j \in DOMAIN db.events \ {i} : WithRow(db, i, e).events[j] = db.events[j]
  <1> DEFINE es == [db.events EXCEPT ![i] = e]
  <1>1. db.events \in Seq(EventRow)
    BY DEF Tables
  <1>2. es \in Seq(EventRow) /\ Len(es) = Len(db.events) /\ DOMAIN es = DOMAIN db.events /\ es[i] = e
        /\ \A j \in DOMAIN db.events \ {i} : es[j] = db.events[j]
    BY <1>1
  <1> HIDE DEF es
  <1>3. WithRow(db, i, e) = [db EXCEPT !.events = es]
    BY DEF WithRow, es
  <1>4. QED BY <1>2, <1>3 DEF Tables

LEMMA VersionsAre == Versions \subseteq Nat \ {0} /\ IsFiniteSet(Versions)
  BY Bounds, FS_Interval DEF Versions

LEMMA TablesHave ==
  ASSUME NEW db \in Tables
  PROVE  /\ \A v \in Versions : db.cand[v] \in CandRow
         /\ db.events \in Seq(EventRow) /\ DOMAIN db.events = 1..Len(db.events) /\ Len(db.events) \in Nat
         /\ \A i \in DOMAIN db.events : db.events[i] \in EventRow
  BY DEF Tables

LEMMA MovedIs ==
  ASSUME NEW r \in CandRow, NEW state \in CandidateState, NEW b \in BOOLEAN
  PROVE  /\ Moved(r, state, b) \in CandRow
         /\ Moved(r, state, b).state = state /\ Moved(r, state, b).ver = r.ver + 1
         /\ Moved(r, state, b).ignored = b /\ Moved(r, state, b).due = r.due /\ Moved(r, state, b).gen = r.gen
         /\ Moved(r, state, b).cancel = r.cancel
  <1>1. r.ver + 1 \in Nat
    BY DEF CandRow
  <1>2. \A v \in Nat : [r EXCEPT !.state = state, !.ver = v, !.ignored = b] \in CandRow
    BY DEF CandRow
  <1>3. Moved(r, state, b) = [r EXCEPT !.state = state, !.ver = r.ver + 1, !.ignored = b]
    BY DEF Moved, CandRow
  <1>4. QED BY <1>1, <1>2, <1>3 DEF CandRow

LEMMA MarkedIs ==
  ASSUME NEW r \in CandRow, NEW b \in BOOLEAN
  PROVE  /\ Marked(r, b) \in CandRow /\ Marked(r, b).state = r.state /\ Marked(r, b).cancel = TRUE
         /\ Marked(r, b).ignored = b /\ Marked(r, b).due = r.due /\ Marked(r, b).gen = r.gen
  <1>1. r.ver + 1 \in Nat
    BY DEF CandRow
  <1>2. \A v \in Nat : [r EXCEPT !.cancel = TRUE, !.ver = v, !.ignored = b] \in CandRow
    BY DEF CandRow
  <1>3. Marked(r, b) = [r EXCEPT !.cancel = TRUE, !.ver = r.ver + 1, !.ignored = b]
    BY DEF Marked, CandRow
  <1>4. QED BY <1>1, <1>2, <1>3 DEF CandRow

LEMMA DroppedIs ==
  ASSUME NEW e \in EventRow
  PROVE  /\ Dropped(e) \in EventRow
         /\ Dropped(e).kind = e.kind /\ Dropped(e).cand = e.cand /\ Dropped(e).ver = e.ver
         /\ Dropped(e).box = IF e.box = "pending" THEN "cancelled" ELSE e.box
         /\ Dropped(e).state = IF e.state \in {"queued", "outbox_ready"} THEN "cancelled" ELSE e.state
  BY DEF Dropped, EventRow, Ended

LEMMA WithdrawnIs ==
  ASSUME NEW db \in Tables, NEW v \in Versions, NEW state \in CandidateState, NEW b \in BOOLEAN,
         NEW n, n = Withdrawn(db, v, state, b)
  PROVE  /\ n \in Tables /\ Len(n.events) = Len(db.events) /\ DOMAIN n.events = DOMAIN db.events
         /\ n.cand[v] = Moved(db.cand[v], state, b)
         /\ \A w \in Versions \ {v} : n.cand[w] = db.cand[w]
         /\ \A i \in DOMAIN db.events :
              n.events[i] = IF IsOccurrence(db.events[i], v, db.cand[v].ver) THEN Dropped(db.events[i])
                            ELSE db.events[i]
  <1> DEFINE es == [i \in DOMAIN db.events |->
                      IF IsOccurrence(db.events[i], v, db.cand[v].ver) THEN Dropped(db.events[i]) ELSE db.events[i]]
             m == WithCand(db, v, Moved(db.cand[v], state, b))
  <1>1. /\ db.events \in Seq(EventRow) /\ DOMAIN db.events = 1..Len(db.events) /\ Len(db.events) \in Nat
        /\ db.cand[v] \in CandRow /\ \A i \in DOMAIN db.events : db.events[i] \in EventRow
    BY TablesHave
  <1>2. \A i \in DOMAIN db.events :
          es[i] = IF IsOccurrence(db.events[i], v, db.cand[v].ver) THEN Dropped(db.events[i]) ELSE db.events[i]
    OBVIOUS
  <1>3. es \in Seq(EventRow) /\ Len(es) = Len(db.events) /\ DOMAIN es = DOMAIN db.events
    <2>1. es \in [1..Len(db.events) -> EventRow]
      BY <1>1, DroppedIs
    <2> HIDE DEF es
    <2>2. es \in Seq(EventRow)
      BY <2>1, <1>1, SeqDef
    <2>3. QED BY <1>1, <2>1, <2>2, LenProperties
  <1>4. m \in Tables /\ m.cand[v] = Moved(db.cand[v], state, b) /\ \A w \in Versions \ {v} : m.cand[w] = db.cand[w]
    BY <1>1, MovedIs, CandIs
  <1>5. n = [m EXCEPT !.events = es]
    BY DEF Withdrawn
  <1> HIDE DEF es, m
  <1>6. QED BY <1>2, <1>3, <1>4, <1>5 DEF Tables

LEMMA OpenIs ==
  ASSUME NEW db \in Tables, NEW i \in DOMAIN db.events, RowAgrees(db, db.events[i]),
         db.events[i].kind = "followup", i \in Open(db.events)
  PROVE  LET e == db.events[i]
             r == db.cand[e.cand] IN
         /\ e.cand \in Versions /\ r.state \in UnderWay
         /\ e.state \in {"queued", "outbox_ready", "needs_review"}
         /\ r.state = "enqueued" => e.ver = r.ver /\ e.state # "needs_review" /\ e.box \in {"none", "pending"}
  BY DEF RowAgrees, OccurrenceAgrees, Open, Ended, UnderWay, InDelivery

-----------------------------------------------------------------------------
(* Withdrawing a candidate *)

\* A new row of the candidate v in which everything agrees.
MayBecome(db, v, r) ==
  /\ r \in CandRow /\ CandAgrees(v, r)
  /\ db.cand[v].ignored => r.ignored
  /\ db.cand[v].state \in InDelivery \cup {"completed"} => r.state \in InDelivery \cup {"completed"}
  /\ r.state \in Planned \cup {"completed"} =>
       \A w \in Versions \ {v} : db.cand[w].state \notin Planned \cup {"completed"}

LEMMA WithdrawKeeps ==
  ASSUME NEW db, TablesAgree(db), NEW v \in Versions, NEW state \in CandidateState, NEW b \in BOOLEAN,
         db.cand[v].state \notin InDelivery \cup {"absent", "completed"}, state \notin UnderWay,
         MayBecome(db, v, Moved(db.cand[v], state, b))
  PROVE  Keeps(db, Withdrawn(db, v, state, b))
  <1> DEFINE r == Moved(db.cand[v], state, b)
  <1>1. PICK n : n = Withdrawn(db, v, state, b)
    OBVIOUS
  <1>2. db \in Tables /\ db.cand[v] \in CandRow /\ r.state = state
    BY TablesHave, MovedIs DEF TablesAgree
  <1>3. /\ n \in Tables /\ Len(n.events) = Len(db.events) /\ DOMAIN n.events = DOMAIN db.events
        /\ n.cand[v] = r
        /\ \A w \in Versions \ {v} : n.cand[w] = db.cand[w]
        /\ \A i \in DOMAIN db.events :
              n.events[i] = IF IsOccurrence(db.events[i], v, db.cand[v].ver) THEN Dropped(db.events[i])
                            ELSE db.events[i]
    BY <1>1, <1>2, WithdrawnIs
  <1> HIDE DEF r
  <1>4. \A i \in DOMAIN db.events : db.events[i] \in EventRow
    BY <1>2, TablesHave
  <1>5. ASSUME NEW i \in DOMAIN db.events PROVE RowAgrees(n, n.events[i]) /\ n.events[i].kind = db.events[i].kind
           /\ (i \in Open(n.events) => n.events[i] = db.events[i])
           /\ (n.events[i].box = "dispatching" <=> db.events[i].box = "dispatching")
    <2>1. RowAgrees(db, db.events[i]) /\ db.events[i] \in EventRow
      BY <1>4 DEF TablesAgree, RowsAgree
    <2>2. CASE db.events[i].kind # "followup"
      <3>1. n.events[i] = db.events[i]
        BY <1>3, <2>2 DEF IsOccurrence
      <3>2. QED BY <2>1, <2>2, <3>1 DEF RowAgrees
    <2>3. CASE db.events[i].kind = "followup" /\ db.events[i].cand # v
      <3>1. n.events[i] = db.events[i] /\ db.events[i].cand \in Versions \ {v}
        BY <1>3, <2>1, <2>3 DEF IsOccurrence, RowAgrees
      <3>2. n.cand[db.events[i].cand] = db.cand[db.events[i].cand]
        BY <1>3, <3>1
      <3>3. QED BY <2>1, <2>3, <3>1, <3>2 DEF RowAgrees
    <2>4. CASE db.events[i].kind = "followup" /\ db.events[i].cand = v
      <3>1. CASE db.events[i].state \in Ended
        <4>1. db.events[i].state \in {"completed", "cancelled"} /\ db.events[i].box \in {"accepted", "none", "cancelled"}
              /\ OccurrenceAgrees(db.events[i], db.cand[v])
          BY <2>1, <2>4, <3>1 DEF RowAgrees, OccurrenceAgrees, Ended
        <4>2. n.events[i].kind = "followup" /\ n.events[i].cand = v /\ n.events[i].state = db.events[i].state
              /\ n.events[i].box = db.events[i].box
          BY <1>3, <2>1, <2>4, <4>1, DroppedIs
        <4>3. OccurrenceAgrees(n.events[i], n.cand[v])
          BY <4>1, <4>2 DEF OccurrenceAgrees
        <4>4. i \notin Open(n.events)
          BY <3>1, <4>2 DEF Open
        <4>5. QED BY <2>4, <4>1, <4>2, <4>3, <4>4 DEF RowAgrees
      <3>2. CASE db.events[i].state \notin Ended
        <4>1. i \in Open(db.events)
          BY <3>2 DEF Open
        <4>2. db.cand[v].state \in UnderWay /\ db.cand[v].state = "enqueued"
          BY <1>2, <2>1, <2>4, <4>1, OpenIs DEF UnderWay
        <4>3. db.events[i].ver = db.cand[v].ver /\ db.events[i].state \in {"queued", "outbox_ready"}
              /\ db.events[i].box \in {"none", "pending"}
          BY <1>2, <2>1, <2>4, <4>1, <4>2, OpenIs
        <4>4. n.events[i] = Dropped(db.events[i])
          BY <1>3, <2>4, <4>3 DEF IsOccurrence
        <4>5. n.events[i].kind = "followup" /\ n.events[i].cand = v /\ n.events[i].state = "cancelled"
              /\ n.events[i].box \in {"none", "cancelled"}
          BY <2>1, <2>4, <4>3, <4>4, DroppedIs
        <4>6. OccurrenceAgrees(n.events[i], n.cand[v])
          BY <4>5 DEF OccurrenceAgrees
        <4>7. i \notin Open(n.events)
          BY <4>5 DEF Open, Ended
        <4>8. QED BY <2>4, <4>3, <4>5, <4>6, <4>7 DEF RowAgrees
      <3>3. QED BY <3>1, <3>2
    <2>5. QED BY <2>2, <2>3, <2>4
  <1>6. RowsAgree(n)
    BY <1>3, <1>5 DEF RowsAgree
  <1>7. \A i \in Open(n.events) : i \in Open(db.events) /\ n.events[i] = db.events[i]
    BY <1>3, <1>5 DEF Open
  <1>8. OneRow(n)
    <2>1. ASSUME NEW w \in Versions, n.cand[w].state \in UnderWay PROVE \E i \in DOMAIN n.events : Asking(n, i, w)
      <3>1. w # v /\ db.cand[w].state \in UnderWay
        BY <1>2, <1>3, <2>1 DEF r
      <3>2. PICK i \in DOMAIN db.events : Asking(db, i, w)
        BY <3>1 DEF TablesAgree, OneRow
      <3>3. n.events[i] = db.events[i]
        BY <1>3, <3>1, <3>2 DEF Asking, IsOccurrence
      <3>4. QED BY <1>3, <3>2, <3>3 DEF Asking, Open
    <2>2. QED BY <1>7, <2>1 DEF TablesAgree, OneRow
  <1>9. OneVersion(n)
    BY <1>3 DEF TablesAgree, OneVersion, MayBecome, r
  <1>10. \A w \in Versions : CandAgrees(w, n.cand[w])
    BY <1>3 DEF TablesAgree, MayBecome, r
  <1>11. Follows(db, n)
    BY <1>3, <1>5 DEF Follows, MayBecome, r
  <1>12. NoneFormed(db, n)
    BY <1>3 DEF NoneFormed
  <1>13. QED BY <1>1, <1>3, <1>6, <1>8, <1>9, <1>10, <1>11, <1>12 DEF Keeps, TablesAgree

\* A change of the candidate alone.
LEMMA CandKeeps ==
  ASSUME NEW db, TablesAgree(db), NEW v \in Versions, NEW r, MayBecome(db, v, r),
         r.state = db.cand[v].state \/ {db.cand[v].state, r.state} \cap UnderWay = {},
         r.state = "enqueued" => r.ver = db.cand[v].ver
  PROVE  /\ TablesAgree(WithCand(db, v, r)) /\ Follows(db, WithCand(db, v, r))
         /\ db.cand[v].state # "absent" => NoneFormed(db, WithCand(db, v, r))
  <1>1. PICK n : n = WithCand(db, v, r)
    OBVIOUS
  <1>2. db \in Tables /\ db.cand[v] \in CandRow /\ r \in CandRow
    BY TablesHave DEF TablesAgree, MayBecome
  <1>3. n \in Tables /\ n.events = db.events /\ n.cand[v] = r /\ \A w \in Versions \ {v} : n.cand[w] = db.cand[w]
    BY <1>1, <1>2, CandIs
  <1>4. ASSUME NEW i \in DOMAIN db.events PROVE RowAgrees(n, db.events[i])
    <2>1. RowAgrees(db, db.events[i])
      BY DEF TablesAgree, RowsAgree
    <2>2. CASE db.events[i].kind # "followup" \/ db.events[i].cand # v
      BY <1>3, <2>1, <2>2 DEF RowAgrees
    <2>3. CASE db.events[i].kind = "followup" /\ db.events[i].cand = v
      <3>1. OccurrenceAgrees(db.events[i], db.cand[v])
        BY <2>1, <2>3 DEF RowAgrees
      <3>2. OccurrenceAgrees(db.events[i], r)
        BY <3>1 DEF OccurrenceAgrees, UnderWay, InDelivery
      <3>3. QED BY <1>3, <2>3, <3>2 DEF RowAgrees
    <2>4. QED BY <2>2, <2>3
  <1>5. RowsAgree(n)
    BY <1>3, <1>4 DEF RowsAgree
  <1>6. OneRow(n)
    BY <1>3 DEF TablesAgree, OneRow, Asking
  <1>7. OneVersion(n)
    BY <1>3 DEF TablesAgree, OneVersion, MayBecome
  <1>8. \A w \in Versions : CandAgrees(w, n.cand[w])
    BY <1>3 DEF TablesAgree, MayBecome
  <1>9. Follows(db, n)
    BY <1>3 DEF Follows, MayBecome
  <1>10. db.cand[v].state # "absent" => NoneFormed(db, n)
    BY <1>3 DEF NoneFormed
  <1>11. QED BY <1>1, <1>3, <1>5, <1>6, <1>7, <1>8, <1>9, <1>10 DEF TablesAgree

\* The candidate leaves the queue for a state in which it is not under way.
LEMMA InvalidateKeeps ==
  ASSUME NEW db, TablesAgree(db), NEW v \in Versions, NEW b \in BOOLEAN,
         db.cand[v].state \in Active \cup {"expired"},
         NEW state \in {"scheduled", "cancelled", "dismissed", "invalidated", "expired"},
         b => state = "dismissed",
         state = "scheduled" => \A w \in Versions \ {v} : db.cand[w].state \notin Planned \cup {"completed"}
  PROVE  Keeps(db, Invalidate(db, v, state, b))
  <1>1. db \in Tables /\ db.cand[v] \in CandRow /\ CandAgrees(v, db.cand[v])
    BY TablesHave DEF TablesAgree
  <1>2. CASE db.cand[v].state \notin InDelivery
    <2>1. db.cand[v].state \notin InDelivery \cup {"absent", "completed"}
      BY <1>2 DEF Active, Planned, InDelivery
    <2>2. ~db.cand[v].ignored
      BY <1>1, <1>2, <2>1 DEF CandAgrees, CandRow, Active, Planned, InDelivery
    <2>3. state \in CandidateState /\ state \notin UnderWay /\ state # "completed"
      BY DEF CandidateState, Active, Planned, UnderWay, InDelivery
    <2> DEFINE r == Moved(db.cand[v], state, b)
    <2>4. /\ r \in CandRow /\ r.state = state /\ r.due = db.cand[v].due /\ r.gen = db.cand[v].gen
          /\ r.ignored = b
      BY <1>1, <2>3, MovedIs
    <2> HIDE DEF r
    <2>5. CandAgrees(v, r)
      BY <1>1, <2>3, <2>4 DEF CandAgrees
    <2>6. MayBecome(db, v, r)
      <3>1. r.state \in Planned => r.state = "scheduled"
        BY <2>3, <2>4 DEF Planned, UnderWay, InDelivery
      <3>2. QED BY <2>1, <2>2, <2>3, <2>4, <2>5, <3>1 DEF MayBecome
    <2>7. Keeps(db, Withdrawn(db, v, state, b))
      BY <2>1, <2>3, <2>6, WithdrawKeeps DEF r
    <2>8. QED BY <1>2, <2>7 DEF Invalidate
  <1>3. CASE db.cand[v].state \in InDelivery /\ db.cand[v].cancel
    BY <1>3, FollowsSame DEF Invalidate, Keeps
  <1>4. CASE db.cand[v].state \in InDelivery /\ ~db.cand[v].cancel
    <2> DEFINE r == Marked(db.cand[v], b)
    <2>1. /\ r \in CandRow /\ r.state = db.cand[v].state /\ r.due = db.cand[v].due /\ r.gen = db.cand[v].gen
          /\ r.ignored = b /\ r.cancel
      BY <1>1, MarkedIs
    <2> HIDE DEF r
    <2>2. ~db.cand[v].ignored
      BY <1>1, <1>4 DEF CandAgrees, CandRow, InDelivery
    <2>3. CandAgrees(v, r)
      BY <1>1, <1>4, <2>1 DEF CandAgrees
    <2>4. MayBecome(db, v, r)
      <3>1. db.cand[v].state \in Planned
        BY <1>4 DEF Planned
      <3>2. \A w \in Versions \ {v} : db.cand[w].state \notin Planned \cup {"completed"}
        BY <3>1 DEF TablesAgree, OneVersion
      <3>3. QED BY <1>4, <2>1, <2>2, <2>3, <3>2 DEF MayBecome
    <2>5. r.state # "enqueued" /\ db.cand[v].state # "absent"
      BY <1>4, <2>1 DEF InDelivery
    <2>6. Keeps(db, WithCand(db, v, r))
      BY <2>1, <2>4, <2>5, CandKeeps DEF Keeps
    <2>7. QED BY <1>4, <2>6 DEF Invalidate, r
  <1>5. QED BY <1>2, <1>3, <1>4

LEMMA PlannedAlone ==
  ASSUME NEW db, TablesAgree(db), NEW v \in Versions, db.cand[v].state \in Planned
  PROVE  \A w \in Versions \ {v} : db.cand[w].state \notin Planned \cup {"completed"}
  BY DEF TablesAgree, OneVersion

LEMMA DeferKeeps ==
  ASSUME NEW db, TablesAgree(db), NEW v \in Versions PROVE Keeps(db, Defer(db, v))
  <1>1. CASE db.cand[v].state = "enqueued"
    <2>1. db.cand[v].state \in Planned /\ db.cand[v].state \in Active
      BY <1>1 DEF Active, Planned
    <2>2. \A w \in Versions \ {v} : db.cand[w].state \notin Planned \cup {"completed"}
      BY <2>1, PlannedAlone
    <2>3. QED BY <1>1, <2>1, <2>2, InvalidateKeeps DEF Defer
  <1>2. CASE db.cand[v].state # "enqueued"
    BY <1>2, FollowsSame DEF Defer, Keeps
  <1>3. QED BY <1>1, <1>2

LEMMA VerdictIs ==
  ASSUME NEW db, NEW v, NEW state
  PROVE  Intrinsic(db, v, state) \in {"ok", "cancelled", "invalidated", "expired"}
  BY DEF Intrinsic

LEMMA ReconcileCandidateKeeps ==
  ASSUME NEW db, TablesAgree(db), NEW v \in Versions PROVE Keeps(db, ReconcileCandidate(db, v))
  <1> DEFINE verdict == Intrinsic(db, v, db.cand[v].state)
  <1>1. Keeps(db, db)
    BY FollowsSame DEF Keeps
  <1>2. ASSUME db.cand[v].state \in Active, verdict # "ok" PROVE Keeps(db, Invalidate(db, v, verdict, FALSE))
    <2>1. verdict \in {"scheduled", "cancelled", "dismissed", "invalidated", "expired"} /\ verdict # "scheduled"
      BY <1>2, VerdictIs
    <2> HIDE DEF verdict
    <2>2. QED BY <1>2, <2>1, InvalidateKeeps
  <1>3. QED BY <1>1, <1>2, DeferKeeps DEF ReconcileCandidate

LEMMA ReconcileKeeps ==
  ASSUME NEW db, TablesAgree(db) PROVE Keeps(db, Reconcile(db))
  <1> DEFINE Is(h) == h = [v \in 0..MaxVersions |-> IF v = 0 THEN db ELSE ReconcileCandidate(h[v - 1], v)]
             after == CHOOSE h : Is(h)
             Good == {n \in Tables : TablesAgree(n)}
             F == [v \in Versions |-> [n \in Good |-> ReconcileCandidate(n, v)]]
  <1>1. \A n : TablesAgree(n) => n \in Good
    BY DEF TablesAgree
  <1>2. F \in [1..MaxVersions -> [Good -> Good]]
    BY <1>1, ReconcileCandidateKeeps DEF Keeps, Versions
  <1>3. db \in Good /\ MaxVersions \in Nat
    BY <1>1, Bounds
  <1>4. PICK f \in [0..MaxVersions -> Good] : After(f, MaxVersions, db, F)
    <2> HIDE DEF F, Good
    <2>1. QED BY <1>2, <1>3, StepsDefine
  <1>5. Is(f)
    <2>1. ASSUME NEW v \in 1..MaxVersions PROVE F[v][f[v - 1]] = ReconcileCandidate(f[v - 1], v)
      <3>1. f[v - 1] \in Good
        BY <1>3, <1>4
      <3> HIDE DEF Good
      <3>2. QED BY <3>1 DEF Versions
    <2> HIDE DEF F, Good
    <2>2. \A v \in 0..MaxVersions : v # 0 => v \in 1..MaxVersions
      BY <1>3
    <2>3. [v \in 0..MaxVersions |-> IF v = 0 THEN db ELSE F[v][f[v - 1]]]
          = [v \in 0..MaxVersions |-> IF v = 0 THEN db ELSE ReconcileCandidate(f[v - 1], v)]
      BY <2>1, <2>2
    <2>4. QED BY <1>4, <2>3 DEF After
  <1>6. Is(after)
    <2> HIDE DEF Is
    <2>1. QED BY <1>5
  <1>7. Reconcile(db) = after[MaxVersions]
    BY Zenon DEF Reconcile
  <1> HIDE DEF after
  <1>8. after[0] = db /\ \A v \in Versions : after[v] = ReconcileCandidate(after[v - 1], v)
    BY <1>3, <1>6 DEF Versions
  <1>9. \A v \in Versions : TablesAgree(after[v - 1]) => Keeps(after[v - 1], after[v])
    BY <1>8, ReconcileCandidateKeeps
  <1>10. QED BY <1>7, <1>8, <1>9, PassKeeps

-----------------------------------------------------------------------------
(* New candidates and new rows *)

LEMMA StateIs ==
  ASSUME NEW r \in CandRow, NEW state \in CandidateState
  PROVE  LET n == [r EXCEPT !.state = state] IN
         /\ n \in CandRow /\ n.state = state /\ n.ver = r.ver /\ n.due = r.due /\ n.gen = r.gen
         /\ n.cancel = r.cancel /\ n.ignored = r.ignored
  BY DEF CandRow

LEMMA DiscoverKeeps ==
  ASSUME NEW db, TablesAgree(db)
  PROVE  /\ TablesAgree(Discover(db)) /\ Follows(db, Discover(db))
         /\ (\E w \in Versions : db.cand[w].ignored) => NoneFormed(db, Discover(db))
  <1> DEFINE v == db.memory.ver
             r == [db.cand[v] EXCEPT !.state = "candidate"]
  <1>1. CASE Discover(db) = db
    BY <1>1, FollowsSame
  <1>2. CASE /\ db.cand[v].state = "absent" /\ Discover(db) = WithCand(db, v, r)
             /\ ~\E w \in Versions : db.cand[w].ignored
    <2>1. v \in Versions /\ db.cand[v] \in CandRow /\ CandAgrees(v, db.cand[v])
      BY DEF TablesAgree, Tables
    <2>2. r \in CandRow /\ r.state = "candidate" /\ r.due = db.cand[v].due /\ r.gen = db.cand[v].gen
          /\ r.ignored = db.cand[v].ignored /\ r.cancel = db.cand[v].cancel
      BY <2>1, StateIs DEF CandidateState, Active
    <2> HIDE DEF r, v
    <2>3. "candidate" \notin UnderWay \cup Planned \cup InDelivery \cup {"completed"} /\ "absent" \notin UnderWay \cup InDelivery \cup {"completed"}
      BY DEF UnderWay, InDelivery, Planned
    <2>4. ~db.cand[v].ignored
      BY <1>2, <2>1
    <2>5. MayBecome(db, v, r)
      BY <1>2, <2>1, <2>2, <2>3, <2>4 DEF MayBecome, CandAgrees
    <2>6. {db.cand[v].state, r.state} \cap UnderWay = {} /\ r.state # "enqueued"
      BY <1>2, <2>2, <2>3
    <2>7. QED BY <1>2, <2>1, <2>5, <2>6, CandKeeps
  <1>3. QED
    <2> HIDE DEF r
    <2>1. Discover(db) = db \/ (db.cand[v].state = "absent" /\ Discover(db) = WithCand(db, v, r)
                                /\ ~\E w \in Versions : db.cand[w].ignored)
      BY DEF Discover, r
    <2>2. QED BY <1>1, <1>2, <2>1 DEF r

LEMMA AppendIs ==
  ASSUME NEW db \in Tables, NEW e \in EventRow
  PROVE  LET n == [db EXCEPT !.events = Append(db.events, e)] IN
         /\ n \in Tables /\ n.cand = db.cand /\ Len(n.events) = Len(db.events) + 1
         /\ DOMAIN n.events = DOMAIN db.events \cup {Len(db.events) + 1}
         /\ Len(db.events) + 1 \notin DOMAIN db.events
         /\ n.events[Len(db.events) + 1] = e /\ \A i \in DOMAIN db.events : n.events[i] = db.events[i]
  <1> DEFINE es == Append(db.events, e)
  <1>1. db.events \in Seq(EventRow) /\ DOMAIN db.events = 1..Len(db.events) /\ Len(db.events) \in Nat
    BY TablesHave
  <1>2. es \in Seq(EventRow) /\ Len(es) = Len(db.events) + 1
        /\ (\A i \in 1..Len(db.events) : es[i] = db.events[i]) /\ es[Len(db.events) + 1] = e
    BY <1>1, AppendProperties
  <1>3. DOMAIN es = 1..(Len(db.events) + 1)
    BY <1>1, <1>2
  <1> HIDE DEF es
  <1>4. [db EXCEPT !.events = es] \in Tables
    BY <1>2 DEF Tables
  <1>5. [db EXCEPT !.events = es].events = es /\ [db EXCEPT !.events = es].cand = db.cand
    BY DEF Tables
  <1>6. DOMAIN es = DOMAIN db.events \cup {Len(db.events) + 1} /\ Len(db.events) + 1 \notin DOMAIN db.events
    BY <1>1, <1>3
  <1>7. QED BY <1>1, <1>2, <1>4, <1>5, <1>6 DEF es

LEMMA AppendKeeps ==
  ASSUME NEW db, TablesAgree(db), Len(db.events) < MaxEvents,
         NEW e \in EventRow, e.kind # "followup", e.state = "queued", e.box = "none"
  PROVE  Keeps(db, [db EXCEPT !.events = Append(db.events, e)])
  <1>1. PICK n : n = [db EXCEPT !.events = Append(db.events, e)]
    OBVIOUS
  <1>2. PICK k : k = Len(db.events) + 1
    OBVIOUS
  <1>3. /\ n \in Tables /\ n.cand = db.cand /\ Len(n.events) = k
        /\ DOMAIN n.events = DOMAIN db.events \cup {k} /\ k \notin DOMAIN db.events
        /\ n.events[k] = e /\ \A i \in DOMAIN db.events : n.events[i] = db.events[i]
    BY <1>1, <1>2, AppendIs DEF TablesAgree
  <1>4. Len(n.events) <= MaxEvents
    BY <1>2, <1>3, TablesHave, Bounds DEF TablesAgree
  <1>5. RowsAgree(n)
    BY <1>3 DEF TablesAgree, RowsAgree, RowAgrees
  <1>6. OneRow(n)
    <2>1. \A v \in Versions : n.cand[v].state \in UnderWay => \E i \in DOMAIN n.events : Asking(n, i, v)
      BY <1>3 DEF TablesAgree, OneRow, Asking, Open
    <2>2. \A i \in Open(n.events) : n.events[i].kind = "followup" => i \in Open(db.events) /\ db.events[i].kind = "followup"
      BY <1>3 DEF Open
    <2>3. QED BY <2>1, <2>2 DEF TablesAgree, OneRow
  <1>7. OneVersion(n) /\ \A v \in Versions : CandAgrees(v, n.cand[v])
    BY <1>3 DEF TablesAgree, OneVersion
  <1>8. Follows(db, n) /\ NoneFormed(db, n)
    BY <1>3 DEF Follows, NoneFormed
  <1>9. QED BY <1>1, <1>3, <1>4, <1>5, <1>6, <1>7, <1>8 DEF Keeps, TablesAgree

LEMMA RowTyped ==
  ASSUME now \in Nat, NEW kind \in {"message", "memory", "binding", "followup"}
  PROVE  LET e == Row(kind) IN
         e \in EventRow /\ e.kind = kind /\ e.state = "queued" /\ e.box = "none"
  BY DEF Row, EventRow

LEMMA OccurrenceIs ==
  ASSUME now \in Nat, NEW v \in Versions, NEW ver \in Nat
  PROVE  LET e == Occurrence(v, ver) IN
         e \in EventRow /\ e.kind = "followup" /\ e.cand = v /\ e.ver = ver /\ e.state = "queued" /\ e.box = "none"
  BY DEF Row, Occurrence, EventRow

\* A candidate whose turn has come gets a row in a queue that is empty.
LEMMA EnqueueKeeps ==
  ASSUME now \in Nat, NEW db, TablesAgree(db), NEW v \in Versions, db.cand[v].state = "scheduled",
         db.cand[v].due <= now, Open(db.events) = {}, Len(db.events) < MaxEvents
  PROVE  Keeps(db, [WithCand(db, v, [db.cand[v] EXCEPT !.state = "enqueued"]) EXCEPT
                     !.events = Append(db.events, Occurrence(v, db.cand[v].ver))])
  <1>1. PICK e : e = Occurrence(v, db.cand[v].ver)
    OBVIOUS
  <1>2. PICK r : r = [db.cand[v] EXCEPT !.state = "enqueued"]
    OBVIOUS
  <1>3. PICK m : m = WithCand(db, v, r)
    OBVIOUS
  <1>4. PICK n : n = [m EXCEPT !.events = Append(db.events, e)]
    OBVIOUS
  <1>5. PICK k : k = Len(db.events) + 1
    OBVIOUS
  <1>6. db \in Tables /\ db.cand[v] \in CandRow /\ CandAgrees(v, db.cand[v]) /\ db.cand[v].ver \in Nat
    BY TablesHave DEF TablesAgree, CandRow
  <1>7. /\ r \in CandRow /\ r.state = "enqueued" /\ r.ver = db.cand[v].ver /\ r.due = db.cand[v].due
        /\ r.gen = db.cand[v].gen /\ r.ignored = db.cand[v].ignored /\ r.cancel = db.cand[v].cancel
    BY <1>2, <1>6, StateIs DEF CandidateState, Active, Planned
  <1>8. m \in Tables /\ m.events = db.events /\ m.cand[v] = r /\ \A w \in Versions \ {v} : m.cand[w] = db.cand[w]
    BY <1>3, <1>6, <1>7, CandIs
  <1>9. e \in EventRow /\ e.kind = "followup" /\ e.cand = v /\ e.ver = r.ver /\ e.state = "queued" /\ e.box = "none"
    BY <1>1, <1>6, <1>7, OccurrenceIs
  <1>10. /\ n \in Tables /\ n.cand = m.cand /\ Len(n.events) = k
        /\ DOMAIN n.events = DOMAIN db.events \cup {k} /\ k \notin DOMAIN db.events
        /\ n.events[k] = e /\ \A i \in DOMAIN db.events : n.events[i] = db.events[i]
    BY <1>4, <1>5, <1>8, <1>9, AppendIs
  <1>11. Len(n.events) <= MaxEvents
    BY <1>5, <1>6, <1>10, TablesHave, Bounds
  <1>12. \A i \in DOMAIN db.events : db.events[i].state \in Ended
    BY DEF Open
  <1>13. RowsAgree(n)
    <2>1. RowAgrees(n, n.events[k])
      BY <1>7, <1>8, <1>9, <1>10 DEF RowAgrees, OccurrenceAgrees
    <2>2. ASSUME NEW i \in DOMAIN db.events PROVE RowAgrees(n, n.events[i])
      <3>1. RowAgrees(db, db.events[i])
        BY DEF TablesAgree, RowsAgree
      <3>2. QED BY <1>10, <1>12, <3>1 DEF RowAgrees, OccurrenceAgrees, Ended
    <2>3. QED BY <1>10, <2>1, <2>2 DEF RowsAgree
  <1>14. Open(n.events) = {k}
    BY <1>9, <1>10, <1>12 DEF Open, Ended
  <1>15. OneRow(n)
    <2>1. ASSUME NEW w \in Versions, n.cand[w].state \in UnderWay PROVE \E i \in DOMAIN n.events : Asking(n, i, w)
      <3>1. CASE w = v
        BY <1>9, <1>10, <1>14, <3>1 DEF Asking
      <3>2. CASE w # v
        <4>1. \E i \in DOMAIN db.events : Asking(db, i, w)
          BY <1>8, <1>10, <2>1, <3>2 DEF TablesAgree, OneRow
        <4>2. QED BY <4>1 DEF Asking
      <3>3. QED BY <3>1, <3>2
    <2>2. QED BY <1>14, <2>1 DEF OneRow
  <1>16. \A w \in Versions \ {v} : db.cand[w].state \notin Planned \cup {"completed"}
    BY PlannedAlone DEF Planned
  <1>17. OneVersion(n)
    BY <1>8, <1>10, <1>16 DEF OneVersion
  <1>18. CandAgrees(v, r)
    BY <1>6, <1>7 DEF CandAgrees, InDelivery
  <1>19. \A w \in Versions : CandAgrees(w, n.cand[w])
    BY <1>8, <1>10, <1>18 DEF TablesAgree
  <1>20. Follows(db, n) /\ NoneFormed(db, n)
    BY <1>7, <1>8, <1>9, <1>10 DEF Follows, NoneFormed, InDelivery
  <1>21. Keeps(db, n)
    BY <1>10, <1>11, <1>13, <1>15, <1>17, <1>19, <1>20 DEF Keeps, TablesAgree
  <1>22. QED BY <1>1, <1>2, <1>3, <1>4, <1>21

LEMMA TickCandidateKeeps ==
  ASSUME now \in Nat, NEW db, TablesAgree(db), NEW v \in Versions PROVE Keeps(db, TickCandidate(db, v))
  <1>1. Keeps(db, db)
    BY FollowsSame DEF Keeps
  <1>2. ASSUME db.cand[v].state = "scheduled", ~(db.cand[v].due > now), Open(db.events) = {},
               ~(Len(db.events) >= MaxEvents)
        PROVE  Keeps(db, [WithCand(db, v, [db.cand[v] EXCEPT !.state = "enqueued"]) EXCEPT
                     !.events = Append(db.events, Occurrence(v, db.cand[v].ver))])
    <2>1. db.cand[v].due \in Nat /\ Len(db.events) \in Nat
      BY TablesHave DEF TablesAgree, CandRow
    <2>2. db.cand[v].due <= now /\ Len(db.events) < MaxEvents
      BY <1>2, <2>1, Bounds
    <2>3. QED BY <1>2, <2>2, EnqueueKeeps
  <1>3. QED BY <1>1, <1>2, DeferKeeps DEF TickCandidate

LEMMA TickAllKeeps ==
  ASSUME now \in Nat, NEW db, TablesAgree(db) PROVE Keeps(db, TickAll(db))
  <1> DEFINE Is(h) == h = [v \in 0..MaxVersions |-> IF v = 0 THEN db ELSE TickCandidate(h[v - 1], v)]
             after == CHOOSE h : Is(h)
             Good == {n \in Tables : TablesAgree(n)}
             F == [v \in Versions |-> [n \in Good |-> TickCandidate(n, v)]]
  <1>1. \A n : TablesAgree(n) => n \in Good
    BY DEF TablesAgree
  <1>2. F \in [1..MaxVersions -> [Good -> Good]]
    BY <1>1, TickCandidateKeeps DEF Keeps, Versions
  <1>3. db \in Good /\ MaxVersions \in Nat
    BY <1>1, Bounds
  <1>4. PICK f \in [0..MaxVersions -> Good] : After(f, MaxVersions, db, F)
    <2> HIDE DEF F, Good
    <2>1. QED BY <1>2, <1>3, StepsDefine
  <1>5. Is(f)
    <2>1. ASSUME NEW v \in 1..MaxVersions PROVE F[v][f[v - 1]] = TickCandidate(f[v - 1], v)
      <3>1. f[v - 1] \in Good
        BY <1>3, <1>4
      <3> HIDE DEF Good
      <3>2. QED BY <3>1 DEF Versions
    <2> HIDE DEF F, Good
    <2>2. \A v \in 0..MaxVersions : v # 0 => v \in 1..MaxVersions
      BY <1>3
    <2>3. [v \in 0..MaxVersions |-> IF v = 0 THEN db ELSE F[v][f[v - 1]]]
          = [v \in 0..MaxVersions |-> IF v = 0 THEN db ELSE TickCandidate(f[v - 1], v)]
      BY <2>1, <2>2
    <2>4. QED BY <1>4, <2>3 DEF After
  <1>6. Is(after)
    <2> HIDE DEF Is
    <2>1. QED BY <1>5
  <1>7. TickAll(db) = after[MaxVersions]
    BY Zenon DEF TickAll
  <1> HIDE DEF after
  <1>8. after[0] = db /\ \A v \in Versions : after[v] = TickCandidate(after[v - 1], v)
    BY <1>3, <1>6 DEF Versions
  <1>9. \A v \in Versions : TablesAgree(after[v - 1]) => Keeps(after[v - 1], after[v])
    BY <1>8, TickCandidateKeeps
  <1>10. QED BY <1>7, <1>8, <1>9, PassKeeps

-----------------------------------------------------------------------------
(* Changes of one row, and of the rest *)

LEMMA OtherKeeps ==
  ASSUME NEW db, TablesAgree(db), NEW n \in Tables, n.cand = db.cand, n.events = db.events
  PROVE  Keeps(db, n)
  <1>1. RowsAgree(n) /\ OneRow(n) /\ OneVersion(n) /\ \A v \in Versions : CandAgrees(v, n.cand[v])
    BY DEF TablesAgree, RowsAgree, RowAgrees, OneRow, OneVersion, Asking
  <1>2. Follows(db, n) /\ NoneFormed(db, n)
    BY DEF Follows, NoneFormed
  <1>3. QED BY <1>1, <1>2 DEF Keeps, TablesAgree

\* A row changes, and its candidate does not.
LEMMA RowKeeps ==
  ASSUME NEW db, TablesAgree(db), NEW i \in DOMAIN db.events, NEW e \in EventRow, RowAgrees(db, e),
         e.kind = db.events[i].kind, e.cand = db.events[i].cand,
         e.kind = "followup" => (e.state \in Ended <=> db.events[i].state \in Ended),
         e.box = "dispatching" <=> db.events[i].box = "dispatching"
  PROVE  Keeps(db, WithRow(db, i, e))
  <1>1. PICK n : n = WithRow(db, i, e)
    OBVIOUS
  <1>2. /\ n \in Tables /\ n.cand = db.cand /\ DOMAIN n.events = DOMAIN db.events
        /\ Len(n.events) = Len(db.events) /\ n.events[i] = e
        /\ \A j \in DOMAIN db.events \ {i} : n.events[j] = db.events[j]
    BY <1>1, RowIs DEF TablesAgree
  <1>3. RowsAgree(n)
    BY <1>2 DEF TablesAgree, RowsAgree, RowAgrees
  <1>4. \A j \in DOMAIN db.events :
          /\ n.events[j].kind = db.events[j].kind /\ n.events[j].cand = db.events[j].cand
          /\ n.events[j].kind = "followup" => (j \in Open(n.events) <=> j \in Open(db.events))
          /\ n.events[j].box = "dispatching" <=> db.events[j].box = "dispatching"
    BY <1>2 DEF Open
  <1>5. OneRow(n)
    <2>1. ASSUME NEW v \in Versions, n.cand[v].state \in UnderWay PROVE \E j \in DOMAIN n.events : Asking(n, j, v)
      <3>1. PICK j \in DOMAIN db.events : Asking(db, j, v)
        BY <1>2, <2>1 DEF TablesAgree, OneRow
      <3>2. Asking(n, j, v)
        BY <1>4, <3>1 DEF Asking
      <3>3. QED BY <1>2, <3>2
    <2>2. \A j \in Open(n.events) : j \in DOMAIN db.events
      BY <1>2 DEF Open
    <2>3. QED BY <1>4, <2>1, <2>2 DEF TablesAgree, OneRow
  <1>6. OneVersion(n) /\ \A v \in Versions : CandAgrees(v, n.cand[v])
    BY <1>2 DEF TablesAgree, OneVersion
  <1>7. Follows(db, n) /\ NoneFormed(db, n)
    BY <1>2, <1>4 DEF Follows, NoneFormed
  <1>8. QED BY <1>1, <1>2, <1>3, <1>5, <1>6, <1>7 DEF Keeps, TablesAgree

\* A row of another kind ends.
LEMMA EndRowKeeps ==
  ASSUME NEW db, TablesAgree(db), NEW i \in DOMAIN db.events, db.events[i].kind # "followup",
         NEW state \in {"completed", "failed"}
  PROVE  Keeps(db, EndRow(db, i, state))
  <1>1. PICK e : e = [db.events[i] EXCEPT !.state = state]
    OBVIOUS
  <1>2. db.events[i] \in EventRow /\ RowAgrees(db, db.events[i])
    BY TablesHave DEF TablesAgree, RowsAgree
  <1>3. e \in EventRow /\ e.state = state /\ e.kind = db.events[i].kind /\ e.cand = db.events[i].cand
        /\ e.box = db.events[i].box
    BY <1>1, <1>2 DEF EventRow, Ended
  <1>4. RowAgrees(db, e)
    BY <1>2, <1>3 DEF RowAgrees
  <1>5. Keeps(db, WithRow(db, i, e))
    BY <1>3, <1>4, RowKeeps
  <1>6. QED BY <1>1, <1>5 DEF EndRow

LEMMA KeepsOn ==
  ASSUME NEW a, NEW b, NEW c, Keeps(a, b), Keeps(b, c) PROVE Keeps(a, c)
  BY FollowsOn DEF Keeps, NoneFormed

\* No new candidate where one was ignored.
FormsLawfully(db, n) == (\E v \in Versions : db.cand[v].ignored) => NoneFormed(db, n)
KeepsOrForms(db, n) == TablesAgree(n) /\ Follows(db, n) /\ FormsLawfully(db, n)

LEMMA KeepsIs == ASSUME NEW db, NEW n, Keeps(db, n) PROVE KeepsOrForms(db, n)
  BY DEF Keeps, KeepsOrForms, FormsLawfully

LEMMA FormsOn ==
  ASSUME NEW a, NEW b, NEW c, KeepsOrForms(a, b), KeepsOrForms(b, c) PROVE KeepsOrForms(a, c)
  <1>1. Follows(a, c)
    BY FollowsOn DEF KeepsOrForms
  <1>2. FormsLawfully(a, c)
    <2>1. (\E v \in Versions : a.cand[v].ignored) => \E v \in Versions : b.cand[v].ignored
      BY DEF KeepsOrForms, Follows
    <2>2. QED BY <2>1 DEF KeepsOrForms, FormsLawfully, NoneFormed
  <1>3. QED BY <1>1, <1>2 DEF KeepsOrForms

LEMMA DiscoverForms == ASSUME NEW db, TablesAgree(db) PROVE KeepsOrForms(db, Discover(db))
  BY DiscoverKeeps DEF KeepsOrForms, FormsLawfully

LEMMA RevisedKeeps ==
  ASSUME NEW db, TablesAgree(db), NEW open \in BOOLEAN, memory.ver \in Versions, memory.ver < MaxVersions
  PROVE  KeepsOrForms(db, Revised(db, open))
  <1>1. PICK n : n = [db EXCEPT !.memory = [ver |-> memory.ver + 1, open |-> open]]
    OBVIOUS
  <1>2. memory.ver + 1 \in Versions
    BY Bounds DEF Versions
  <1>3. n \in Tables /\ n.cand = db.cand /\ n.events = db.events
    BY <1>1, <1>2 DEF TablesAgree, Tables
  <1>4. Keeps(db, n)
    BY <1>3, OtherKeeps
  <1>5. Keeps(n, Reconcile(n))
    BY <1>4, ReconcileKeeps DEF Keeps
  <1>6. KeepsOrForms(Reconcile(n), Discover(Reconcile(n)))
    BY <1>5, DiscoverForms DEF Keeps
  <1>7. KeepsOrForms(db, Reconcile(n))
    BY <1>4, <1>5, KeepsOn, KeepsIs
  <1>8. QED BY <1>1, <1>6, <1>7, FormsOn DEF Revised

-----------------------------------------------------------------------------
(* What the actions have in common *)

NoSend == \A i \in 1..MaxEvents : ~Dispatched(i)
NoneUsed == \A j \in Jobs : draft[j].state = "ready" => draft'[j].state # "used"
IgnoredStands == \A v \in Versions : ignored /\ cand[v].state = "absent" => cand'[v].state = "absent"
Calm == NoSend /\ NoneUsed /\ IgnoredStands

LEMMA SameTables ==
  ASSUME NEW n, (Db)' = n, TablesAgree(n), now' \in Nat, now \in Nat, now <= now', n \in Tables,
         \A v \in Versions : approved'[v] = approved[v]
  PROVE  TablesAgree(Db)'
  <1>1. RowsAgree(Db)'
    BY DEF TablesAgree, RowsAgree, RowAgrees, OccurrenceAgrees
  <1>2. OneRow(Db)'
    BY DEF TablesAgree, OneRow, Open, Asking
  <1>3. OneVersion(Db)'
    BY DEF TablesAgree, OneVersion
  <1>4. (\A v \in Versions : CandAgrees(v, (Db).cand[v]))'
    <2>1. ASSUME NEW v \in Versions PROVE CandAgrees(v, (Db).cand[v])'
      <3>1. CandAgrees(v, n.cand[v]) /\ n.cand[v].due \in Nat
        BY TablesHave DEF TablesAgree, CandRow
      <3>2. QED BY <3>1 DEF CandAgrees
    <2>2. QED BY <2>1
  <1>5. QED BY <1>1, <1>2, <1>3, <1>4 DEF TablesAgree

LEMMA StoreIs ==
  ASSUME NEW n \in Tables, Store(n)
  PROVE  (Db)' = n /\ events' = n.events /\ cand' = n.cand
  BY DEF Store, Db, Tables

LEMMA NowIs == ASSUME FollowupsInv PROVE now \in Nat /\ TablesAgree(Db) /\ Db \in Tables
                                         /\ (Db).events = events /\ (Db).cand = cand /\ (Db).memory = memory
  BY Bounds DEF FollowupsInv, RestTyped, TablesAgree, Db

LEMMA FollowedKeeps ==
  ASSUME FollowupsInv, NEW n \in Tables, Follows(Db, n), FormsLawfully(Db, n), Store(n), UNCHANGED <<sends, settled>>
  PROVE  /\ SendsAgree(Db)'
         /\ ignored' = ignored => IgnoredKept(Db)'
         /\ worker' = worker => WorkerAgrees'
         /\ worker.at \notin {"sending", "down"} /\ worker'.at = "idle" => WorkerAgrees'
         /\ NoSend /\ IgnoredStands
  <1>1. (Db).events = events /\ (Db).cand = cand
    BY NowIs
  <1>2. (Db)' = n /\ events' = n.events /\ cand' = n.cand
    BY StoreIs
  <1>3. SendsAgree(Db)'
    <2>1. Asked(Db) => Asked(Db)'
      BY <1>1, <1>2 DEF Asked, Follows
    <2>2. Len(sends) <= settled + IF Asked(Db) THEN 1 ELSE 0
      BY DEF FollowupsInv, SendsAgree
    <2>3. Len(sends) \in Nat /\ settled \in Nat
      BY DEF FollowupsInv, RestTyped
    <2>4. QED BY <2>1, <2>2, <2>3 DEF SendsAgree
  <1>4. ignored' = ignored => IgnoredKept(Db)'
    BY <1>1, <1>2 DEF FollowupsInv, IgnoredKept, Follows
  <1>5. /\ DOMAIN events \subseteq DOMAIN events'
        /\ \A i \in DOMAIN events : events'[i].kind = events[i].kind
                                    /\ (events[i].box = "dispatching" => events'[i].box = "dispatching")
        /\ \A i \in DOMAIN events' : events'[i].box = "dispatching" => i \in DOMAIN events /\ events[i].box = "dispatching"
    BY <1>1, <1>2 DEF Follows
  <1>6. worker' = worker => WorkerAgrees'
    BY <1>5 DEF FollowupsInv, WorkerAgrees
  <1>7. worker.at \notin {"sending", "down"} /\ worker'.at = "idle" => WorkerAgrees'
    BY <1>5 DEF FollowupsInv, WorkerAgrees
  <1>8. NoSend
    BY <1>5 DEF NoSend, Dispatched
  <1>9. IgnoredStands
    <2>1. ignored => \E v \in Versions : (Db).cand[v].ignored
      BY DEF FollowupsInv, IgnoredKept
    <2>2. QED BY <1>1, <1>2, <2>1 DEF IgnoredStands, FormsLawfully, NoneFormed
  <1>10. QED BY <1>3, <1>4, <1>6, <1>7, <1>8, <1>9

LEMMA StoreKeeps ==
  ASSUME FollowupsInv, NEW n, KeepsOrForms(Db, n), Store(n), UNCHANGED <<now, approved, sends, settled>>
  PROVE  /\ TablesAgree(Db)' /\ SendsAgree(Db)'
         /\ ignored' = ignored => IgnoredKept(Db)'
         /\ worker' = worker => WorkerAgrees'
         /\ worker.at \notin {"sending", "down"} /\ worker'.at = "idle" => WorkerAgrees'
         /\ NoSend /\ IgnoredStands
  <1>1. now \in Nat /\ n \in Tables /\ TablesAgree(n) /\ Follows(Db, n) /\ FormsLawfully(Db, n)
    BY NowIs DEF KeepsOrForms, TablesAgree
  <1>2. (Db)' = n
    BY <1>1, StoreIs
  <1>3. TablesAgree(Db)'
    BY <1>1, <1>2, SameTables
  <1>4. QED BY <1>1, <1>3, FollowedKeeps

\* The drafts do not change.
LEMMA DraftsStand ==
  ASSUME DraftsAgree, UNCHANGED <<draft, drafter, seen, calls>> PROVE DraftsAgree' /\ NoneUsed
  <1>1. DraftsAgree'
    BY DEF DraftsAgree, DraftAgrees
  <1>2. NoneUsed
    BY DEF NoneUsed
  <1>3. QED BY <1>1, <1>2

\* What is left alone by the actions that change the tables only.
LEMMA RestStands ==
  ASSUME FollowupsInv, UNCHANGED <<now, draft, attempts, enabled, drafter, people>>
  PROVE  /\ worker' \in [at : {"down", "idle", "prepared", "sending"}, row : 0..MaxEvents] => RestTyped'
         /\ worker' = worker => RestTyped'
         /\ DraftsAgree' /\ NoneUsed
  <1>1. DraftsAgree' /\ NoneUsed
    BY DraftsStand DEF FollowupsInv, people
  <1>2. worker' \in [at : {"down", "idle", "prepared", "sending"}, row : 0..MaxEvents] => RestTyped'
    BY DEF FollowupsInv, RestTyped, people
  <1>3. worker \in [at : {"down", "idle", "prepared", "sending"}, row : 0..MaxEvents]
    BY DEF FollowupsInv, RestTyped
  <1>4. QED BY <1>1, <1>2, <1>3

\* A transaction of the tables that leaves everything else alone.
LEMMA TransactionKeeps ==
  ASSUME FollowupsInv, NEW n, KeepsOrForms(Db, n), Store(n),
         UNCHANGED <<now, draft, attempts, enabled, worker, drafter, people>>
  PROVE  FollowupsInv' /\ Calm
  <1>1. UNCHANGED <<now, approved, sends, settled>> /\ ignored' = ignored
    BY DEF people
  <1>2. RestTyped' /\ DraftsAgree' /\ NoneUsed
    BY RestStands
  <1>3. QED BY <1>1, <1>2, StoreKeeps DEF FollowupsInv, Calm

-----------------------------------------------------------------------------
(* The queue *)

LEMMA RowHas ==
  ASSUME FollowupsInv, NEW i \in DOMAIN events
  PROVE  events[i] \in EventRow /\ RowAgrees(Db, events[i]) /\ i \in DOMAIN (Db).events /\ (Db).events[i] = events[i]
  BY NowIs, TablesHave DEF TablesAgree, RowsAgree

LEMMA MemoryIs == ASSUME FollowupsInv PROVE memory \in [ver : Versions, open : BOOLEAN] /\ binding \in [gen : Nat, mine : BOOLEAN]
                                            /\ policy \in [is : Policies, ver : Nat]
  <1>1. Db \in Tables
    BY NowIs
  <1>2. (Db).memory \in [ver : Versions, open : BOOLEAN] /\ (Db).binding \in [gen : Nat, mine : BOOLEAN]
        /\ (Db).policy \in [is : Policies, ver : Nat]
    BY <1>1 DEF Tables
  <1>3. (Db).memory = memory /\ (Db).binding = binding /\ (Db).policy = policy
    BY DEF Db
  <1>4. QED BY <1>2, <1>3

LEMMA AnswerKeeps == ASSUME FollowupsInv, NEW i \in DOMAIN events, Answer(i) PROVE FollowupsInv' /\ Calm
  <1>1. events[i].kind = "message" /\ i \in DOMAIN (Db).events /\ (Db).events[i].kind # "followup" /\ TablesAgree(Db)
    BY RowHas, NowIs DEF Answer, Takes
  <1>2. UNCHANGED <<now, draft, attempts, enabled, worker, drafter, people>>
    BY DEF Answer, people
  <1>3. CASE Store(EndRow(Db, i, "completed"))
    <2>1. KeepsOrForms(Db, EndRow(Db, i, "completed"))
      BY <1>1, EndRowKeeps, KeepsIs
    <2>2. QED BY <1>2, <1>3, <2>1, TransactionKeeps
  <1>4. ASSUME memory.ver < MaxVersions, NEW open \in BOOLEAN, Store(EndRow(Revised(Db, open), i, "completed"))
        PROVE  FollowupsInv' /\ Calm
    <2>1. KeepsOrForms(Db, Revised(Db, open))
      BY <1>1, <1>4, MemoryIs, RevisedKeeps
    <2>2. i \in DOMAIN Revised(Db, open).events /\ Revised(Db, open).events[i].kind # "followup"
          /\ TablesAgree(Revised(Db, open))
      BY <1>1, <2>1 DEF KeepsOrForms, Follows
    <2>3. KeepsOrForms(Revised(Db, open), EndRow(Revised(Db, open), i, "completed"))
      BY <2>2, EndRowKeeps, KeepsIs
    <2>4. KeepsOrForms(Db, EndRow(Revised(Db, open), i, "completed"))
      BY <2>1, <2>3, FormsOn
    <2>5. QED BY <1>2, <1>4, <2>4, TransactionKeeps
  <1>5. QED BY <1>3, <1>4 DEF Answer

LEMMA ApplyMemoryKeeps == ASSUME FollowupsInv, NEW i \in DOMAIN events, ApplyMemory(i) PROVE FollowupsInv' /\ Calm
  <1>1. i \in DOMAIN (Db).events /\ (Db).events[i].kind # "followup" /\ TablesAgree(Db) /\ events[i].to \in BOOLEAN
    BY RowHas, NowIs DEF ApplyMemory, Takes, EventRow
  <1>2. UNCHANGED <<now, draft, attempts, enabled, worker, drafter, people>>
    BY DEF ApplyMemory, people
  <1>3. CASE Store(EndRow(Db, i, "failed"))
    <2>1. KeepsOrForms(Db, EndRow(Db, i, "failed"))
      BY <1>1, EndRowKeeps, KeepsIs
    <2>2. QED BY <1>2, <1>3, <2>1, TransactionKeeps
  <1>4. ASSUME memory.ver < MaxVersions, Store(Revised(EndRow(Db, i, "completed"), events[i].to))
        PROVE  FollowupsInv' /\ Calm
    <2>1. Keeps(Db, EndRow(Db, i, "completed"))
      BY <1>1, EndRowKeeps
    <2>2. KeepsOrForms(EndRow(Db, i, "completed"), Revised(EndRow(Db, i, "completed"), events[i].to))
      <3>1. TablesAgree(EndRow(Db, i, "completed")) /\ memory.ver \in Versions /\ memory.ver < MaxVersions
        BY <1>4, <2>1, MemoryIs DEF Keeps
      <3>2. QED BY <1>1, <3>1, RevisedKeeps
    <2>3. KeepsOrForms(Db, Revised(EndRow(Db, i, "completed"), events[i].to))
      BY <2>1, <2>2, KeepsIs, FormsOn
    <2>4. QED BY <1>2, <1>4, <2>3, TransactionKeeps
  <1>5. QED BY <1>3, <1>4 DEF ApplyMemory

LEMMA ApplyBindingKeeps == ASSUME FollowupsInv, NEW i \in DOMAIN events, ApplyBinding(i) PROVE FollowupsInv' /\ Calm
  <1>1. i \in DOMAIN (Db).events /\ (Db).events[i].kind # "followup" /\ TablesAgree(Db) /\ events[i].to \in BOOLEAN
    BY RowHas, NowIs DEF ApplyBinding, Takes, EventRow
  <1>2. UNCHANGED <<now, draft, attempts, enabled, worker, drafter, people>>
    BY DEF ApplyBinding, people
  <1>3. PICK m : m = EndRow(Db, i, "completed")
    OBVIOUS
  <1>4. PICK n : n = [m EXCEPT !.binding = [gen |-> binding.gen + 1, mine |-> events[i].to]]
    OBVIOUS
  <1>5. Keeps(Db, m)
    BY <1>1, <1>3, EndRowKeeps
  <1>6. binding.gen + 1 \in Nat
    BY MemoryIs
  <1>7. n \in Tables /\ n.cand = m.cand /\ n.events = m.events
    BY <1>1, <1>4, <1>5, <1>6 DEF Keeps, TablesAgree, Tables
  <1>8. KeepsOrForms(Db, n)
    BY <1>5, <1>7, OtherKeeps, KeepsOn, KeepsIs DEF Keeps
  <1>9. Store(n)
    BY <1>3, <1>4 DEF ApplyBinding
  <1>10. QED BY <1>2, <1>8, <1>9, TransactionKeeps

\* A follow-up that is open and has not begun to be sent is what its candidate says.
LEMMA WaitsIs ==
  ASSUME FollowupsInv, NEW i \in DOMAIN events, events[i].kind = "followup",
         events[i].box = "pending" \/ (events[i].state = "queued" /\ events[i].box # "dispatching")
           \/ (events[i].state = "outbox_ready" /\ events[i].box # "dispatching")
  PROVE  /\ events[i].cand \in Versions /\ IsCurrent(i) /\ events[i].box \in {"none", "pending"}
         /\ events[i].state \in {"queued", "outbox_ready"}
  <1>1. RowAgrees(Db, events[i]) /\ (Db).cand = cand
    BY RowHas, NowIs
  <1>2. QED BY <1>1 DEF RowAgrees, OccurrenceAgrees, IsCurrent

LEMMA TurnDownKeeps ==
  ASSUME FollowupsInv, NEW i \in DOMAIN events, events[i].kind = "followup", events[i].cand \in Versions,
         IsCurrent(i), NEW state \in {"scheduled", "cancelled", "invalidated", "expired"},
         events[i].state \in {"queued", "outbox_ready"}
  PROVE  LET n == Invalidate(Db, events[i].cand, state, FALSE) IN
         Keeps(Db, n) /\ i \in DOMAIN n.events /\ n.events[i].state = "cancelled"
  <1>1. PICK v \in Versions : v = events[i].cand
    OBVIOUS
  <1>2. TablesAgree(Db) /\ Db \in Tables /\ (Db).cand = cand /\ i \in DOMAIN (Db).events /\ (Db).events[i] = events[i]
        /\ events[i] \in EventRow
    BY NowIs, RowHas
  <1>3. cand[v].state = "enqueued" /\ cand[v].ver = events[i].ver
    BY <1>1 DEF IsCurrent
  <1>4. (Db).cand[v].state \in Planned /\ (Db).cand[v].state \in Active \cup {"expired"} /\ (Db).cand[v].state \notin InDelivery
    BY <1>2, <1>3 DEF Planned, Active, InDelivery
  <1>5. \A w \in Versions \ {v} : (Db).cand[w].state \notin Planned \cup {"completed"}
    BY <1>2, <1>4, PlannedAlone
  <1>6. state \in {"scheduled", "cancelled", "dismissed", "invalidated", "expired"} /\ state \in CandidateState
    BY DEF CandidateState, Active, Planned
  <1>7. Keeps(Db, Invalidate(Db, v, state, FALSE))
    BY <1>2, <1>4, <1>5, <1>6, InvalidateKeeps
  <1>8. PICK n : n = Withdrawn(Db, v, state, FALSE)
    OBVIOUS
  <1>9. Invalidate(Db, v, state, FALSE) = n
    BY <1>4, <1>8 DEF Invalidate
  <1>10. DOMAIN n.events = DOMAIN (Db).events /\ (IsOccurrence((Db).events[i], v, (Db).cand[v].ver) => n.events[i] = Dropped((Db).events[i]))
    <2>1. PICK db : db = Db
      OBVIOUS
    <2>2. db \in Tables /\ state \in CandidateState
      BY <1>2, <1>6, <2>1
    <2>3. ASSUME NEW b \in BOOLEAN, n = Withdrawn(db, v, state, b)
          PROVE  DOMAIN n.events = DOMAIN db.events /\ \A k \in DOMAIN db.events :
             n.events[k] = IF IsOccurrence(db.events[k], v, db.cand[v].ver) THEN Dropped(db.events[k]) ELSE db.events[k]
      BY <2>2, <2>3, WithdrawnIs
    <2>4. DOMAIN n.events = DOMAIN db.events /\ \A k \in DOMAIN db.events :
             n.events[k] = IF IsOccurrence(db.events[k], v, db.cand[v].ver) THEN Dropped(db.events[k]) ELSE db.events[k]
      BY <1>8, <2>1, <2>3, Zenon
    <2>5. QED BY <1>2, <2>1, <2>4
  <1>11. n.events[i] = Dropped(events[i])
    BY <1>1, <1>2, <1>3, <1>10 DEF IsOccurrence
  <1>12. n.events[i].state = "cancelled"
    BY <1>2, <1>11, DroppedIs
  <1>13. QED BY <1>1, <1>2, <1>7, <1>9, <1>10, <1>12

\* What is turned down leaves the queue.
LEMMA TurnedDown ==
  ASSUME FollowupsInv, NEW i \in DOMAIN events, events[i].kind = "followup", events[i].cand \in Versions,
         IsCurrent(i), events[i].state \in {"queued", "outbox_ready"}
  PROVE  Keeps(Db, TurnDown(i)) /\ i \in DOMAIN TurnDown(i).events /\ TurnDown(i).events[i].state = "cancelled"
  <1>1. CASE Verdict(i) # "ok"
    <2>1. Verdict(i) \in {"scheduled", "cancelled", "invalidated", "expired"}
      BY <1>1, VerdictIs DEF Verdict
    <2>2. TurnDown(i) = Invalidate(Db, events[i].cand, Verdict(i), FALSE)
      BY <1>1 DEF TurnDown
    <2>3. QED BY <2>1, <2>2, TurnDownKeeps
  <1>2. CASE Verdict(i) = "ok"
    <2>1. TurnDown(i) = Invalidate(Db, events[i].cand, "scheduled", FALSE)
      BY <1>2, NowIs DEF TurnDown, Defer, IsCurrent
    <2>2. QED BY <2>1, TurnDownKeeps
  <1>3. QED BY <1>1, <1>2

\* What the queue of the next stage has of this one's.
LEMMA EventsFollow ==
  ASSUME FollowupsInv, NEW n, KeepsOrForms(Db, n), Store(n)
  PROVE  /\ DOMAIN events \subseteq DOMAIN events'
         /\ \A i \in DOMAIN events : events'[i].kind = events[i].kind
         /\ \A i \in DOMAIN events' : events'[i].box = "dispatching" => i \in DOMAIN events /\ events[i].box = "dispatching"
  <1>1. events' = n.events /\ (Db).events = events
    BY NowIs DEF Store
  <1>2. Follows(Db, n)
    BY DEF KeepsOrForms
  <1>3. QED BY <1>1, <1>2 DEF Follows

LEMMA RowInBounds == ASSUME FollowupsInv, NEW i \in DOMAIN events PROVE i \in 1..MaxEvents
  <1>1. DOMAIN events = 1..Len(events) /\ Len(events) <= MaxEvents /\ Len(events) \in Nat
    BY NowIs, TablesHave DEF TablesAgree
  <1>2. QED BY <1>1, Bounds

LEMMA PrepareKeeps == ASSUME FollowupsInv, NEW i \in DOMAIN events, Prepare(i) PROVE FollowupsInv' /\ Calm
  <1>1. /\ worker.at = "idle" /\ events[i].kind = "followup" /\ events[i].state \in {"queued", "outbox_ready"}
        /\ UNCHANGED <<now, draft, attempts, enabled, drafter, people>>
        /\ UNCHANGED <<now, approved, sends, settled>> /\ ignored' = ignored
    BY DEF Prepare, Takes, people
  <1>2. \A j \in DOMAIN events : events[j].box # "dispatching"
    BY <1>1 DEF FollowupsInv, WorkerAgrees
  <1>3. /\ events[i].cand \in Versions /\ IsCurrent(i) /\ events[i].box \in {"none", "pending"}
    BY <1>1, <1>2, WaitsIs
  <1>4. TablesAgree(Db) /\ i \in DOMAIN (Db).events /\ (Db).events[i] = events[i] /\ events[i] \in EventRow /\ (Db).cand = cand
    BY NowIs, RowHas
  <1>5. ASSUME Store(WithRow(Db, i, [events[i] EXCEPT !.state = "outbox_ready",
                                                     !.box = IF @ = "none" THEN "pending" ELSE @])),
               At("prepared", i)
        PROVE  FollowupsInv' /\ Calm
    <2>1. PICK e : e = [events[i] EXCEPT !.state = "outbox_ready", !.box = IF @ = "none" THEN "pending" ELSE @]
      OBVIOUS
    <2>2. e \in EventRow /\ e.kind = events[i].kind /\ e.cand = events[i].cand /\ e.ver = events[i].ver
          /\ e.state = "outbox_ready" /\ e.box = "pending"
      BY <1>3, <1>4, <2>1 DEF EventRow
    <2>3. RowAgrees(Db, e)
      BY <1>1, <1>3, <1>4, <2>2 DEF RowAgrees, OccurrenceAgrees, IsCurrent
    <2>4. KeepsOrForms(Db, WithRow(Db, i, e))
      <3>1. (e.state \in Ended <=> (Db).events[i].state \in Ended) /\ (e.box = "dispatching" <=> (Db).events[i].box = "dispatching")
        BY <1>1, <1>3, <1>4, <2>2 DEF Ended
      <3>2. Keeps(Db, WithRow(Db, i, e))
        BY <1>4, <2>2, <2>3, <3>1, RowKeeps
      <3>3. QED BY <3>2, KeepsIs
    <2>5. PICK n : n = WithRow(Db, i, e)
      OBVIOUS
    <2>6. Store(n) /\ KeepsOrForms(Db, n)
      BY <1>5, <2>1, <2>4, <2>5
    <2>7. TablesAgree(Db)' /\ SendsAgree(Db)' /\ IgnoredKept(Db)' /\ NoSend /\ IgnoredStands
      BY <1>1, <2>6, StoreKeeps
    <2>8. WorkerAgrees'
      BY <1>1, <1>2, <1>5, <2>6, EventsFollow DEF At, WorkerAgrees
    <2>9. RestTyped' /\ DraftsAgree' /\ NoneUsed
      <3>1. worker' \in [at : {"down", "idle", "prepared", "sending"}, row : 0..MaxEvents]
        BY <1>5, RowInBounds DEF At
      <3>2. QED BY <1>1, <3>1, RestStands
    <2>10. QED BY <2>7, <2>8, <2>9 DEF FollowupsInv, Calm
  <1>6. ASSUME Store(EndRow(TurnDown(i), i, "cancelled")), UNCHANGED worker PROVE FollowupsInv' /\ Calm
    <2>1. Keeps(Db, TurnDown(i)) /\ i \in DOMAIN TurnDown(i).events /\ TurnDown(i).events[i].state = "cancelled"
      BY <1>1, <1>3, TurnedDown
    <2>2. PICK m : m = TurnDown(i)
      OBVIOUS
    <2>3. EndRow(m, i, "cancelled") = m
      <3>1. m \in Tables /\ i \in DOMAIN m.events /\ m.events[i].state = "cancelled" /\ m.events[i] \in EventRow
            /\ m.events \in Seq(EventRow)
        BY <2>1, <2>2, TablesHave DEF Keeps, TablesAgree
      <3>2. [m.events[i] EXCEPT !.state = "cancelled"] = m.events[i]
        BY <3>1 DEF EventRow
      <3>3. [m.events EXCEPT ![i] = m.events[i]] = m.events
        BY <3>1
      <3>4. [m EXCEPT !.events = m.events] = m
        BY <3>1 DEF Tables
      <3>5. QED BY <3>2, <3>3, <3>4 DEF EndRow, WithRow
    <2>4. KeepsOrForms(Db, m) /\ Store(m)
      BY <1>6, <2>1, <2>2, <2>3, KeepsIs
    <2>5. UNCHANGED <<now, draft, attempts, enabled, worker, drafter, people>>
      BY <1>1, <1>6
    <2>6. QED BY <2>4, <2>5, TransactionKeeps
  <1>7. QED BY <1>5, <1>6 DEF Prepare

LEMMA NotDispatchedKeeps == ASSUME FollowupsInv, NotDispatched PROVE FollowupsInv' /\ Calm
  <1> DEFINE i == worker.row
  <1>1. /\ worker.at = "prepared" /\ At("idle", 0) /\ UNCHANGED <<now, draft, attempts, enabled, drafter, people>>
        /\ UNCHANGED <<now, approved, sends, settled>> /\ ignored' = ignored
    BY DEF NotDispatched, people
  <1>2. i \in DOMAIN events /\ events[i].kind = "followup"
    BY <1>1 DEF FollowupsInv, WorkerAgrees
  <1>3. PICK n : n = IF events[i].box = "pending" THEN TurnDown(i) ELSE Db
    OBVIOUS
  <1>4. Store(n)
    BY <1>3 DEF NotDispatched
  <1>5. KeepsOrForms(Db, n)
    <2>1. CASE events[i].box = "pending"
      <3>1. events[i].cand \in Versions /\ IsCurrent(i) /\ events[i].state \in {"queued", "outbox_ready"}
        BY <1>2, <2>1, WaitsIs
      <3>2. Keeps(Db, TurnDown(i))
        BY <1>2, <3>1, TurnedDown
      <3>3. QED BY <1>3, <2>1, <3>2, KeepsIs
    <2>2. CASE events[i].box # "pending"
      <3>1. Keeps(Db, Db)
        BY NowIs, FollowsSame DEF Keeps
      <3>2. QED BY <1>3, <2>2, <3>1, KeepsIs
    <2>3. QED BY <2>1, <2>2
  <1>6. worker'.at = "idle" /\ worker' \in [at : {"down", "idle", "prepared", "sending"}, row : 0..MaxEvents]
    BY <1>1, Bounds DEF At
  <1>7. RestTyped' /\ DraftsAgree' /\ NoneUsed
    BY <1>1, <1>6, RestStands
  <1>8. /\ TablesAgree(Db)' /\ SendsAgree(Db)' /\ IgnoredKept(Db)' /\ WorkerAgrees' /\ NoSend /\ IgnoredStands
    BY <1>1, <1>4, <1>5, <1>6, StoreKeeps
  <1>9. QED BY <1>7, <1>8 DEF FollowupsInv, Calm

-----------------------------------------------------------------------------
(* Sending, and what becomes of it *)

\* A follow-up under way and its row change together.
LEMMA OccurrenceKeeps ==
  ASSUME NEW db, TablesAgree(db), NEW i \in DOMAIN db.events, db.events[i].kind = "followup", i \in Open(db.events),
         NEW v, v = db.events[i].cand, NEW r \in CandRow, NEW e \in EventRow,
         CandAgrees(v, r), e.kind = "followup", e.cand = v, OccurrenceAgrees(e, r),
         r.state \in UnderWay <=> e.state \notin Ended
  PROVE  LET n == WithRow(WithCand(db, v, r), i, e) IN
         /\ TablesAgree(n) /\ n \in Tables
         /\ n.cand[v] = r /\ \A w \in Versions \ {v} : n.cand[w] = db.cand[w]
         /\ DOMAIN n.events = DOMAIN db.events /\ n.events[i] = e
         /\ \A j \in DOMAIN db.events \ {i} : n.events[j] = db.events[j]
  <1>1. PICK m : m = WithCand(db, v, r)
    OBVIOUS
  <1>2. PICK n : n = WithRow(m, i, e)
    OBVIOUS
  <1>3. db \in Tables /\ RowAgrees(db, db.events[i]) /\ RowsAgree(db) /\ OneRow(db)
    BY DEF TablesAgree, RowsAgree
  <1>4. v \in Versions /\ db.cand[v].state \in UnderWay
    BY <1>3, OpenIs
  <1>5. m \in Tables /\ m.events = db.events /\ m.cand[v] = r /\ \A w \in Versions \ {v} : m.cand[w] = db.cand[w]
    BY <1>1, <1>3, <1>4, CandIs
  <1>6. /\ n \in Tables /\ n.cand = m.cand /\ DOMAIN n.events = DOMAIN db.events
        /\ Len(n.events) = Len(db.events) /\ n.events[i] = e
        /\ \A j \in DOMAIN db.events \ {i} : n.events[j] = db.events[j]
    BY <1>2, <1>5, RowIs
  <1>7. \A j \in DOMAIN db.events \ {i} : db.events[j].kind = "followup" => db.events[j].state \in Ended
    BY <1>3 DEF OneRow, Open
  <1>8. RowsAgree(n)
    <2>1. RowAgrees(n, n.events[i])
      BY <1>4, <1>5, <1>6 DEF RowAgrees
    <2>2. ASSUME NEW j \in DOMAIN db.events \ {i} PROVE RowAgrees(n, n.events[j])
      <3>1. RowAgrees(db, db.events[j])
        BY <1>3 DEF RowsAgree
      <3>2. QED BY <1>6, <1>7, <3>1 DEF RowAgrees, OccurrenceAgrees, Ended
    <2>3. QED BY <1>6, <2>1, <2>2 DEF RowsAgree
  <1>9. \A w \in Versions \ {v} : db.cand[w].state \notin Planned \cup {"completed"}
    <2>1. db.cand[v].state \in Planned
      BY <1>4 DEF Planned, UnderWay
    <2>2. QED BY <1>4, <2>1, PlannedAlone
  <1>10. OneRow(n)
    <2>1. ASSUME NEW w \in Versions, n.cand[w].state \in UnderWay PROVE \E j \in DOMAIN n.events : Asking(n, j, w)
      <3>1. w = v
        BY <1>5, <1>6, <1>9, <2>1 DEF Planned, UnderWay
      <3>2. Asking(n, i, v)
        BY <1>5, <1>6, <2>1, <3>1 DEF Asking, Open
      <3>3. QED BY <1>6, <3>1, <3>2
    <2>2. \A j \in Open(n.events) : n.events[j].kind = "followup" => j = i
      BY <1>6, <1>7 DEF Open
    <2>3. QED BY <2>1, <2>2 DEF OneRow
  <1>11. OneVersion(n)
    BY <1>5, <1>6, <1>9 DEF OneVersion
  <1>12. \A w \in Versions : CandAgrees(w, n.cand[w])
    BY <1>5, <1>6 DEF TablesAgree
  <1>13. TablesAgree(n)
    BY <1>6, <1>8, <1>10, <1>11, <1>12 DEF TablesAgree
  <1>14. QED BY <1>1, <1>2, <1>5, <1>6, <1>13

LEMMA PairKeeps ==
  ASSUME FollowupsInv, NEW i \in DOMAIN events, events[i].kind = "followup", events[i].state \notin Ended,
         NEW v, v = events[i].cand, NEW r \in CandRow, NEW e \in EventRow,
         CandAgrees(v, r), e.kind = "followup", e.cand = v, OccurrenceAgrees(e, r),
         r.state \in UnderWay <=> e.state \notin Ended, r.ignored = cand[v].ignored,
         Store(WithRow(WithCand(Db, v, r), i, e)), UNCHANGED <<now, approved>>
  PROVE  /\ TablesAgree(Db)' /\ IgnoredStands /\ (ignored' = ignored => IgnoredKept(Db)')
         /\ cand'[v] = r /\ \A w \in Versions \ {v} : cand'[w] = cand[w]
         /\ DOMAIN events' = DOMAIN events /\ events'[i] = e
         /\ \A j \in DOMAIN events \ {i} : events'[j] = events[j]
  <1>1. now \in Nat /\ TablesAgree(Db) /\ Db \in Tables /\ (Db).events = events /\ (Db).cand = cand
    BY NowIs
  <1>2. PICK db : db = Db
    OBVIOUS
  <1>3. i \in DOMAIN db.events /\ db.events[i] = events[i] /\ i \in Open(db.events) /\ TablesAgree(db)
        /\ db.cand = cand /\ db.events = events
    BY <1>1, <1>2 DEF Open
  <1>4. PICK n : n = WithRow(WithCand(db, v, r), i, e)
    OBVIOUS
  <1>5. /\ TablesAgree(n) /\ n \in Tables
        /\ n.cand[v] = r /\ \A w \in Versions \ {v} : n.cand[w] = db.cand[w]
        /\ DOMAIN n.events = DOMAIN db.events /\ n.events[i] = e
        /\ \A j \in DOMAIN db.events \ {i} : n.events[j] = db.events[j]
    BY <1>3, <1>4, OccurrenceKeeps
  <1>6. Store(n)
    BY <1>2, <1>4
  <1>7. (Db)' = n /\ events' = n.events /\ cand' = n.cand
    BY <1>5, <1>6, StoreIs
  <1>8. TablesAgree(Db)'
    BY <1>1, <1>5, <1>7, SameTables
  <1>9. v \in Versions /\ cand[v].state \in UnderWay
    <2>1. RowAgrees(db, db.events[i]) /\ db \in Tables
      BY <1>3 DEF TablesAgree, RowsAgree
    <2>2. QED BY <1>3, <2>1, OpenIs
  <1>10. IgnoredStands
    BY <1>3, <1>5, <1>7, <1>9 DEF IgnoredStands, UnderWay, InDelivery
  <1>11. ignored' = ignored => IgnoredKept(Db)'
    BY <1>1, <1>3, <1>5, <1>7, <1>9 DEF FollowupsInv, IgnoredKept
  <1>12. QED BY <1>3, <1>5, <1>7, <1>8, <1>10, <1>11

LEMMA RestIs ==
  ASSUME FollowupsInv, UNCHANGED <<now, draft, attempts, enabled, drafter, approved, ignored, seen, calls>>,
         worker' \in [at : {"down", "idle", "prepared", "sending"}, row : 0..MaxEvents],
         sends' \in Seq(Versions), settled' \in Nat
  PROVE  RestTyped' /\ DraftsAgree' /\ NoneUsed
  <1>1. DraftsAgree' /\ NoneUsed
    BY DraftsStand DEF FollowupsInv
  <1>2. RestTyped'
    BY DEF FollowupsInv, RestTyped
  <1>3. QED BY <1>1, <1>2

RecordedBox == {"pending", "accepted", "rejected", "unknown", "cancelled"}
RecordedState == Ended \cup {"outbox_ready", "needs_review"}
Recorded(e, box, state) == [e EXCEPT !.box = box, !.state = state]

LEMMA RecordedIs ==
  ASSUME NEW e \in EventRow, NEW box \in RecordedBox, NEW state \in RecordedState
  PROVE  LET n == Recorded(e, box, state) IN
         n \in EventRow /\ n.box = box /\ n.state = state /\ n.kind = e.kind /\ n.cand = e.cand /\ n.ver = e.ver
  BY DEF EventRow, Recorded, RecordedBox, RecordedState

\* What may be recorded of a delivery.
Outcome(i, box, state, candState) ==
  \/ box = "accepted" /\ state = "completed" /\ candState = "completed"
  \/ box \in {"rejected", "unknown"} /\ state = "needs_review" /\ candState = "needs_review"
  \/ box = "cancelled" /\ state = "cancelled" /\ candState = "cancelled"
  \/ /\ box = "pending" /\ state = "outbox_ready" /\ candState = "enqueued"
     /\ cand[events[i].cand].ver = events[i].ver /\ ~cand[events[i].cand].cancel

LEMMA DeliveredKeeps ==
  ASSUME FollowupsInv, NEW i \in DOMAIN events, events[i].box \in {"dispatching", "unknown", "rejected"},
         NEW box, NEW state, NEW candState, Outcome(i, box, state, candState), Delivered(Db, i, box, state, candState),
         UNCHANGED <<now, draft, attempts, enabled, drafter, approved, sends, ignored, seen, calls>>,
         settled' = IF candState \in {"enqueued", "cancelled"} THEN settled + 1 ELSE settled,
         \/ worker' = worker /\ events[i].box # "dispatching"
         \/ worker.at = "sending" /\ worker.row = i /\ At("idle", 0)
  PROVE  FollowupsInv' /\ Calm
  <1>1. now \in Nat /\ TablesAgree(Db) /\ (Db).events = events /\ (Db).cand = cand
        /\ events[i] \in EventRow /\ RowAgrees(Db, events[i])
    BY NowIs, RowHas
  <1>2. PICK v : v = events[i].cand
    OBVIOUS
  <1>3. /\ events[i].kind = "followup" /\ v \in Versions /\ events[i].state \notin Ended /\ cand[v].state \in InDelivery
    BY <1>1, <1>2 DEF RowAgrees, OccurrenceAgrees, Ended, InDelivery
  <1>4. cand[v] \in CandRow /\ CandAgrees(v, cand[v])
    BY <1>1, <1>3, TablesHave DEF TablesAgree
  <1>5. PICK r : r = [cand[v] EXCEPT !.state = candState]
    OBVIOUS
  <1>6. PICK e : e = Recorded(events[i], box, state)
    OBVIOUS
  <1>7. /\ candState \in CandidateState /\ state \in Ended \cup {"outbox_ready", "needs_review"}
        /\ box \in {"pending", "accepted", "rejected", "unknown", "cancelled"}
        /\ candState \in UnderWay <=> state \notin Ended
    BY DEF Outcome, CandidateState, Active, Planned, InDelivery, Ended, UnderWay
  <1>8. /\ r \in CandRow /\ r.state = candState /\ r.ver = cand[v].ver /\ r.due = cand[v].due /\ r.gen = cand[v].gen
        /\ r.cancel = cand[v].cancel /\ r.ignored = cand[v].ignored
    BY <1>4, <1>5, <1>7, StateIs
  <1>9. e \in EventRow /\ e.box = box /\ e.state = state /\ e.kind = "followup" /\ e.cand = v /\ e.ver = events[i].ver
    <2>1. events[i] \in EventRow /\ box \in RecordedBox /\ state \in RecordedState
      BY <1>1, <1>7 DEF RecordedBox, RecordedState
    <2>2. QED BY <1>2, <1>3, <1>6, <2>1, RecordedIs
  <1>10. CandAgrees(v, r)
    <2>1. r.due <= now
      BY <1>3, <1>4, <1>8 DEF CandAgrees, UnderWay
    <2>2. r.ignored => r.cancel /\ r.state \in InDelivery \cup {"completed", "cancelled"}
      BY <1>2, <1>3, <1>4, <1>8 DEF CandAgrees, Outcome, InDelivery
    <2>3. QED BY <1>4, <1>8, <2>1, <2>2 DEF CandAgrees
  <1>11. OccurrenceAgrees(e, r)
    BY <1>2, <1>8, <1>9 DEF OccurrenceAgrees, Outcome
  <1>12. Store(WithRow(WithCand(Db, v, r), i, e))
    BY <1>1, <1>2, <1>5, <1>6 DEF Delivered, Recorded
  <1>13. /\ TablesAgree(Db)' /\ IgnoredStands /\ IgnoredKept(Db)'
         /\ cand'[v] = r /\ \A w \in Versions \ {v} : cand'[w] = cand[w]
         /\ DOMAIN events' = DOMAIN events /\ events'[i] = e
         /\ \A j \in DOMAIN events \ {i} : events'[j] = events[j]
    <2>1. r.state \in UnderWay <=> e.state \notin Ended
      BY <1>7, <1>8, <1>9
    <2>2. QED BY <1>2, <1>3, <1>8, <1>9, <1>10, <1>11, <1>12, <2>1, PairKeeps
  <1>14. worker' \in [at : {"down", "idle", "prepared", "sending"}, row : 0..MaxEvents]
    BY Bounds DEF FollowupsInv, RestTyped, At
  <1>15. Len(sends) \in Nat /\ settled \in Nat /\ settled' \in Nat /\ sends' \in Seq(Versions)
    BY DEF FollowupsInv, RestTyped
  <1>16. RestTyped' /\ DraftsAgree' /\ NoneUsed
    BY <1>14, <1>15, RestIs
  <1>17. WorkerAgrees'
    BY <1>3, <1>9, <1>13 DEF FollowupsInv, WorkerAgrees, At, Outcome
  <1>18. SendsAgree(Db)'
    <2>1. Len(sends) <= settled + 1
      BY <1>15 DEF FollowupsInv, SendsAgree
    <2>2. CASE candState \in {"enqueued", "cancelled"}
      BY <1>15, <2>1, <2>2 DEF SendsAgree
    <2>3. CASE candState \notin {"enqueued", "cancelled"}
      <3>1. (Db).cand' = cand'
        BY DEF Db
      <3>2. candState \in InDelivery \cup {"completed"}
        BY <2>3 DEF Outcome, InDelivery
      <3>3. Asked(Db)'
        BY <1>3, <1>8, <1>13, <3>1, <3>2 DEF Asked
      <3>4. QED BY <1>15, <2>1, <2>3, <3>3 DEF SendsAgree
    <2>4. QED BY <2>2, <2>3
  <1>19. NoSend
    BY <1>9, <1>13 DEF NoSend, Dispatched, Outcome
  <1>20. QED BY <1>13, <1>16, <1>17, <1>18, <1>19 DEF FollowupsInv, Calm

LEMMA FinishDeliveryKeeps == ASSUME FollowupsInv, FinishDelivery PROVE FollowupsInv' /\ Calm
  <1> DEFINE i == worker.row
  <1>1. /\ worker.at = "sending" /\ At("idle", 0)
        /\ UNCHANGED <<now, draft, attempts, enabled, drafter, approved, sends, settled, ignored, seen, calls>>
    BY DEF FinishDelivery, people
  <1>2. i \in DOMAIN events /\ events[i].box = "dispatching"
    BY <1>1 DEF FollowupsInv, WorkerAgrees
  <1>3. CASE Delivered(Db, i, "accepted", "completed", "completed")
    <2>1. Outcome(i, "accepted", "completed", "completed")
      BY DEF Outcome
    <2>2. QED BY <1>1, <1>2, <1>3, <2>1, DeliveredKeeps
  <1>4. ASSUME NEW box \in {"rejected", "unknown"}, Delivered(Db, i, box, "needs_review", "needs_review")
        PROVE  FollowupsInv' /\ Calm
    <2>1. Outcome(i, box, "needs_review", "needs_review")
      BY DEF Outcome
    <2>2. QED BY <1>1, <1>2, <1>4, <2>1, DeliveredKeeps
  <1>5. QED BY <1>3, <1>4 DEF FinishDelivery

LEMMA ResolveKeeps == ASSUME FollowupsInv, NEW i \in DOMAIN events, Resolve(i) PROVE FollowupsInv' /\ Calm
  <1>1. /\ events[i].box \in {"dispatching", "unknown", "rejected"} /\ events[i].box # "dispatching" /\ worker' = worker
        /\ UNCHANGED <<now, draft, attempts, enabled, drafter, approved, sends, ignored, seen, calls>>
    BY DEF Resolve
  <1>2. CASE Delivered(Db, i, "accepted", "completed", "completed") /\ settled' = settled
    <2>1. Outcome(i, "accepted", "completed", "completed")
      BY DEF Outcome
    <2>2. QED BY <1>1, <1>2, <2>1, DeliveredKeeps
  <1>3. CASE MayRetry(i) /\ Delivered(Db, i, "pending", "outbox_ready", "enqueued") /\ settled' = settled + 1
    <2>1. cand[events[i].cand].ver = events[i].ver /\ ~cand[events[i].cand].cancel
      BY <1>3, NowIs DEF MayRetry, Intrinsic
    <2>2. Outcome(i, "pending", "outbox_ready", "enqueued")
      BY <2>1 DEF Outcome
    <2>3. QED BY <1>1, <1>3, <2>2, DeliveredKeeps
  <1>4. CASE Delivered(Db, i, "cancelled", "cancelled", "cancelled") /\ settled' = settled + 1
    <2>1. Outcome(i, "cancelled", "cancelled", "cancelled")
      BY DEF Outcome
    <2>2. QED BY <1>1, <1>4, <2>1, DeliveredKeeps
  <1>5. QED BY <1>2, <1>3, <1>4 DEF Resolve

\* A send begins as it was approved.
SentLawfully == \A i \in 1..MaxEvents : Dispatched(i) =>
  LET v == events[i].cand  a == approved[v] IN
  /\ memory.open /\ memory.ver = v
  /\ a.due <= now /\ now <= a.due + Window /\ a.gen = binding.gen
  /\ policy.is.proactive /\ ~policy.is.paused /\ enabled
  /\ \A j \in Open(events) : events[j].kind = "followup"

LEMMA BegunIs ==
  ASSUME NEW e \in EventRow
  PROVE  LET n == [e EXCEPT !.box = "dispatching", !.tried = TRUE] IN
         /\ n \in EventRow /\ n.box = "dispatching" /\ n.state = e.state
         /\ n.kind = e.kind /\ n.cand = e.cand /\ n.ver = e.ver
  BY DEF EventRow

LEMMA ReadyIs ==
  ASSUME FollowupsInv, NEW i \in DOMAIN events, Ready(i), events[i].cand \in Versions
  PROVE  LET v == events[i].cand IN
         /\ ~cand[v].cancel /\ memory.open /\ memory.ver = v
         /\ now <= cand[v].due + Window /\ cand[v].gen = binding.gen
         /\ policy.is.proactive /\ ~policy.is.paused /\ enabled
         /\ \A j \in Open(events) : events[j].kind = "followup"
  <1>1. PICK v \in Versions : v = events[i].cand
    OBVIOUS
  <1>2. cand[v].due \in Nat /\ now \in Nat /\ Window \in Nat
    BY NowIs, TablesHave, Bounds DEF CandRow
  <1>3. Intrinsic(Db, v, "enqueued") = "ok" /\ MayContact(Db)
    BY <1>1 DEF Ready, Verdict
  <1>4. /\ ~cand[v].cancel /\ memory.open /\ memory.ver = v /\ ~(now > cand[v].due + Window)
        /\ cand[v].gen = binding.gen /\ policy.is.proactive /\ enabled
    BY <1>3 DEF Intrinsic, Db
  <1>5. ~policy.is.paused /\ \A j \in Open(events) : events[j].kind = "followup"
    BY <1>3 DEF MayContact, Allowed, HeldBack, Db
  <1>6. QED BY <1>1, <1>2, <1>4, <1>5

LEMMA DispatchKeeps ==
  ASSUME FollowupsInv, Dispatch
  PROVE  FollowupsInv' /\ SentLawfully /\ NoneUsed /\ IgnoredStands
  <1>1. PICK i : i = worker.row
    OBVIOUS
  <1>2. PICK v : v = events[i].cand
    OBVIOUS
  <1>3. PICK r : r = [cand[v] EXCEPT !.state = "dispatching"]
    OBVIOUS
  <1>4. PICK e : e = [events[i] EXCEPT !.box = "dispatching", !.tried = TRUE]
    OBVIOUS
  <1>5. /\ worker.at = "prepared" /\ events[i].box = "pending" /\ Ready(i)
        /\ Store(WithRow(WithCand(Db, v, r), i, e))
        /\ attempts' = attempts \cup {[at |-> now, kind |-> "followup"]}
        /\ sends' = Append(sends, v) /\ At("sending", i)
        /\ UNCHANGED <<now, draft, enabled, drafter, approved, settled, ignored, seen, calls>>
    BY <1>1, <1>2, <1>3, <1>4 DEF Dispatch, Dispatchable
  <1>6. i \in DOMAIN events /\ events[i].kind = "followup"
    BY <1>1, <1>5 DEF FollowupsInv, WorkerAgrees
  <1>7. /\ v \in Versions /\ cand[v].state = "enqueued" /\ events[i].state \in {"queued", "outbox_ready"}
        /\ RowAgrees(Db, events[i]) /\ events[i].state = "outbox_ready"
    <2>1. v \in Versions /\ cand[v].state = "enqueued" /\ RowAgrees(Db, events[i])
      BY <1>2, <1>5, <1>6, WaitsIs, RowHas DEF IsCurrent
    <2>2. events[i].state = "outbox_ready"
      BY <1>5, <1>6, <2>1 DEF RowAgrees, OccurrenceAgrees
    <2>3. QED BY <2>1, <2>2
  <1>8. /\ now \in Nat /\ TablesAgree(Db) /\ (Db).events = events /\ (Db).cand = cand /\ events[i] \in EventRow
        /\ cand[v] \in CandRow /\ CandAgrees(v, cand[v])
    BY <1>6, <1>7, NowIs, RowHas, TablesHave DEF TablesAgree
  <1>9. /\ ~cand[v].cancel /\ memory.open /\ memory.ver = v
         /\ now <= cand[v].due + Window /\ cand[v].gen = binding.gen
         /\ policy.is.proactive /\ ~policy.is.paused /\ enabled
         /\ \A j \in Open(events) : events[j].kind = "followup"
    BY <1>2, <1>5, <1>6, <1>7, ReadyIs
  <1>10. /\ r \in CandRow /\ r.state = "dispatching" /\ r.ver = cand[v].ver /\ r.due = cand[v].due /\ r.gen = cand[v].gen
         /\ r.cancel = cand[v].cancel /\ r.ignored = cand[v].ignored
    BY <1>3, <1>8, StateIs DEF CandidateState, Active, Planned, InDelivery
  <1>11. e \in EventRow /\ e.box = "dispatching" /\ e.state = "outbox_ready" /\ e.kind = "followup" /\ e.cand = v
    BY <1>2, <1>4, <1>6, <1>7, <1>8, BegunIs
  <1>12. CandAgrees(v, r) /\ OccurrenceAgrees(e, r) /\ (r.state \in UnderWay <=> e.state \notin Ended)
    BY <1>7, <1>8, <1>9, <1>10, <1>11 DEF CandAgrees, OccurrenceAgrees, UnderWay, InDelivery, Ended
  <1>13. /\ TablesAgree(Db)' /\ IgnoredStands /\ IgnoredKept(Db)'
         /\ cand'[v] = r /\ \A w \in Versions \ {v} : cand'[w] = cand[w]
         /\ DOMAIN events' = DOMAIN events /\ events'[i] = e
         /\ \A j \in DOMAIN events \ {i} : events'[j] = events[j]
    BY <1>2, <1>5, <1>6, <1>7, <1>10, <1>11, <1>12, PairKeeps DEF Ended
  <1>14. worker' \in [at : {"down", "idle", "prepared", "sending"}, row : 0..MaxEvents]
    BY <1>5, <1>6, RowInBounds, Bounds DEF At
  <1>15. /\ sends \in Seq(Versions) /\ Len(sends) \in Nat /\ settled \in Nat /\ sends' \in Seq(Versions)
         /\ Len(sends') = Len(sends) + 1
    <2>1. sends \in Seq(Versions) /\ settled \in Nat
      BY DEF FollowupsInv, RestTyped
    <2>2. QED BY <1>5, <1>7, <2>1
  <1>16. DraftsAgree' /\ NoneUsed
    BY <1>5, DraftsStand DEF FollowupsInv
  <1>17. RestTyped'
    BY <1>5, <1>8, <1>14, <1>15 DEF FollowupsInv, RestTyped
  <1>18. WorkerAgrees'
    BY <1>5, <1>6, <1>11, <1>13 DEF FollowupsInv, WorkerAgrees, At
  <1>19. SendsAgree(Db)'
    <2>1. ~Asked(Db)
      <3>1. (Db).cand[v].state \in Planned /\ cand[v].state \notin InDelivery \cup {"completed"}
        BY <1>7, <1>8 DEF Planned, InDelivery
      <3>2. QED BY <1>7, <1>8, <3>1, PlannedAlone DEF Asked, Planned
    <2>2. Asked(Db)'
      BY <1>7, <1>10, <1>13 DEF Asked, Db, InDelivery
    <2>3. Len(sends) <= settled
      BY <1>15, <2>1 DEF FollowupsInv, SendsAgree
    <2>4. QED BY <1>5, <1>15, <2>2, <2>3 DEF SendsAgree
  <1>20. SentLawfully
    <2>1. \A j \in 1..MaxEvents : Dispatched(j) => j = i
      BY <1>13 DEF Dispatched
    <2>2. approved[v].due = cand[v].due /\ approved[v].gen = cand[v].gen /\ cand[v].due <= now
      BY <1>7, <1>8 DEF CandAgrees, UnderWay
    <2>3. QED BY <1>2, <1>9, <2>1, <2>2 DEF SentLawfully
  <1>21. QED BY <1>13, <1>16, <1>17, <1>18, <1>19, <1>20 DEF FollowupsInv

LEMMA SenderNotReadyKeeps == ASSUME FollowupsInv, SenderNotReady PROVE FollowupsInv' /\ Calm
  <1>1. /\ worker.at = "prepared" /\ At("idle", 0) /\ UNCHANGED <<now, draft, attempts, enabled, drafter, people>>
        /\ UNCHANGED <<now, approved, sends, settled>> /\ ignored' = ignored /\ Store(Db)
    BY DEF SenderNotReady, people, tables, Store, Db
  <1>2. PICK n : n = Db
    OBVIOUS
  <1>3. KeepsOrForms(Db, n)
    <2>1. Keeps(Db, Db)
      BY NowIs, FollowsSame DEF Keeps
    <2>2. QED BY <1>2, <2>1, KeepsIs
  <1>4. worker'.at = "idle" /\ worker' \in [at : {"down", "idle", "prepared", "sending"}, row : 0..MaxEvents]
    BY <1>1, Bounds DEF At
  <1>5. RestTyped' /\ DraftsAgree' /\ NoneUsed
    BY <1>1, <1>4, RestStands
  <1>6. /\ TablesAgree(Db)' /\ SendsAgree(Db)' /\ IgnoredKept(Db)' /\ WorkerAgrees' /\ NoSend /\ IgnoredStands
    BY <1>1, <1>2, <1>3, <1>4, StoreKeeps
  <1>7. QED BY <1>5, <1>6 DEF FollowupsInv, Calm

-----------------------------------------------------------------------------
(* The clock, the switch, crash and restart *)

LEMMA TablesStand ==
  ASSUME FollowupsInv, UNCHANGED <<cand, events, memory, binding, policy, approved, sends, settled, ignored>>,
         now' \in Nat, now <= now'
  PROVE  TablesAgree(Db)' /\ SendsAgree(Db)' /\ IgnoredKept(Db)' /\ NoSend /\ IgnoredStands
  <1>1. now \in Nat /\ Db \in Tables /\ TablesAgree(Db)
    BY NowIs
  <1>2. PICK n : n = Db
    OBVIOUS
  <1>3. (Db)' = n
    BY <1>2 DEF Db
  <1>4. TablesAgree(Db)'
    BY <1>1, <1>2, <1>3, SameTables
  <1>5. SendsAgree(Db)' /\ IgnoredKept(Db)'
    BY <1>2, <1>3 DEF FollowupsInv, SendsAgree, Asked, IgnoredKept
  <1>6. NoSend /\ IgnoredStands
    BY DEF NoSend, Dispatched, IgnoredStands
  <1>7. QED BY <1>4, <1>5, <1>6

LEMMA PassKeepsAll == ASSUME FollowupsInv, Pass PROVE FollowupsInv' /\ Calm
  <1>1. now < MaxTime /\ now' = now + 1 /\ UNCHANGED <<tables, enabled, worker, drafter, people>>
    BY DEF Pass
  <1>2. now \in 0..MaxTime /\ now' \in 0..MaxTime /\ now <= now' /\ now' \in Nat
    BY <1>1, Bounds DEF FollowupsInv, RestTyped
  <1>3. TablesAgree(Db)' /\ SendsAgree(Db)' /\ IgnoredKept(Db)' /\ NoSend /\ IgnoredStands
    BY <1>1, <1>2, TablesStand DEF tables, people
  <1>4. DraftsAgree' /\ NoneUsed
    BY <1>1, DraftsStand DEF FollowupsInv, tables, people
  <1>5. \A a \in attempts' : a.at \in 0..now'
    <2>1. attempts' = attempts /\ \A a \in attempts : a.at \in 0..now
      BY <1>1 DEF tables, FollowupsInv, RestTyped
    <2>2. QED BY <1>1, <1>2, <2>1
  <1>6. RestTyped'
    BY <1>1, <1>2, <1>5 DEF FollowupsInv, RestTyped, tables, people
  <1>7. WorkerAgrees'
    BY <1>1 DEF FollowupsInv, WorkerAgrees, tables
  <1>8. QED BY <1>3, <1>4, <1>6, <1>7 DEF FollowupsInv, Calm

LEMMA SwitchKeeps == ASSUME FollowupsInv, Switch PROVE FollowupsInv' /\ Calm
  <1>1. enabled' = ~enabled /\ UNCHANGED <<now, tables, worker, drafter, people>>
    BY DEF Switch
  <1>2. now' \in Nat /\ now <= now'
    BY <1>1, NowIs
  <1>3. TablesAgree(Db)' /\ SendsAgree(Db)' /\ IgnoredKept(Db)' /\ NoSend /\ IgnoredStands
    BY <1>1, <1>2, TablesStand DEF tables, people
  <1>4. DraftsAgree' /\ NoneUsed
    BY <1>1, DraftsStand DEF FollowupsInv, tables, people
  <1>5. RestTyped'
    BY <1>1 DEF FollowupsInv, RestTyped, tables, people
  <1>6. WorkerAgrees'
    BY <1>1 DEF FollowupsInv, WorkerAgrees, tables
  <1>7. QED BY <1>3, <1>4, <1>5, <1>6 DEF FollowupsInv, Calm

LEMMA CrashKeeps == ASSUME FollowupsInv, Crash PROVE FollowupsInv' /\ Calm
  <1>1. At("down", 0) /\ DraftStep("idle", 0) /\ UNCHANGED <<now, tables, enabled, people>>
    BY DEF Crash
  <1>2. now' \in Nat /\ now <= now'
    BY <1>1, NowIs
  <1>3. TablesAgree(Db)' /\ SendsAgree(Db)' /\ IgnoredKept(Db)' /\ NoSend /\ IgnoredStands
    BY <1>1, <1>2, TablesStand DEF tables, people
  <1>4. DraftsAgree' /\ NoneUsed
    BY <1>1 DEF FollowupsInv, DraftsAgree, DraftAgrees, NoneUsed, DraftStep, tables, people
  <1>5. RestTyped'
    <2>1. worker' \in [at : {"down", "idle", "prepared", "sending"}, row : 0..MaxEvents]
      BY <1>1, Bounds DEF At
    <2>2. QED BY <1>1, <2>1 DEF FollowupsInv, RestTyped, tables, people, DraftStep
  <1>6. WorkerAgrees'
    BY <1>1 DEF WorkerAgrees, At
  <1>7. QED BY <1>3, <1>4, <1>5, <1>6 DEF FollowupsInv, Calm

LEMMA RestartKeeps == ASSUME FollowupsInv, Restart PROVE FollowupsInv' /\ Calm
  <1> DEFINE Row2(e) == IF e.box = "dispatching" THEN [e EXCEPT !.box = "unknown", !.state = "needs_review"] ELSE e
             Found(v) == \E i \in DOMAIN events : events[i].box \in {"dispatching", "unknown"} /\ events[i].cand = v
             Cand2(v) == IF Found(v) THEN [cand[v] EXCEPT !.state = "needs_review"] ELSE cand[v]
  <1>1. /\ worker.at = "down" /\ At("idle", 0) /\ draft' = [j \in Jobs |-> DraftRecovered(draft[j])]
        /\ UNCHANGED <<now, memory, binding, policy, attempts, enabled, drafter>>
        /\ UNCHANGED <<approved, sends, settled, ignored, seen, calls>>
    BY DEF Restart, people
  <1>2. now \in Nat /\ TablesAgree(Db) /\ Db \in Tables /\ (Db).events = events /\ (Db).cand = cand
    BY NowIs
  <1>3. PICK db : db = Db
    OBVIOUS
  <1>4. PICK es : es = [i \in DOMAIN events |-> Row2(events[i])]
    OBVIOUS
  <1>5. PICK cs : cs = [v \in Versions |-> Cand2(v)]
    OBVIOUS
  <1>6. events \in Seq(EventRow) /\ DOMAIN events = 1..Len(events) /\ Len(events) \in Nat
        /\ \A i \in DOMAIN events : events[i] \in EventRow /\ RowAgrees(db, events[i])
    BY <1>2, <1>3, TablesHave DEF TablesAgree, RowsAgree
  <1>7. ASSUME NEW e \in EventRow
        PROVE  /\ Row2(e) \in EventRow /\ Row2(e).kind = e.kind /\ Row2(e).cand = e.cand /\ Row2(e).ver = e.ver
               /\ e.box = "dispatching" => Row2(e).box = "unknown" /\ Row2(e).state = "needs_review"
               /\ e.box # "dispatching" => Row2(e) = e
    BY ZenonT(40) DEF EventRow
  <1>8. es \in Seq(EventRow) /\ Len(es) = Len(events) /\ DOMAIN es = DOMAIN events
        /\ \A i \in DOMAIN events : es[i] = Row2(events[i])
    <2>1. es \in [1..Len(events) -> EventRow]
      BY <1>4, <1>6, <1>7
    <2>2. es \in Seq(EventRow)
      BY <2>1, <1>6, SeqDef
    <2> HIDE DEF Row2
    <2>3. QED BY <1>4, <1>6, <2>1, <2>2, LenProperties
  <1> HIDE DEF Row2
  <1>9. events' = es
    BY <1>4 DEF Restart, Row2
  <1>10. \A i \in DOMAIN events : es[i].box = "unknown" <=> events[i].box \in {"dispatching", "unknown"}
    BY <1>6, <1>7, <1>8
  <1>11. cand' = cs
    <2>1. \A v \in Versions : (\E i \in DOMAIN events : es[i].box = "unknown" /\ events[i].cand = v) <=> Found(v)
      BY <1>10
    <2> HIDE DEF Found
    <2>2. cand' = [v \in Versions |->
            IF \E i \in DOMAIN events : es[i].box = "unknown" /\ events[i].cand = v
            THEN [cand[v] EXCEPT !.state = "needs_review"] ELSE cand[v]]
      BY <1>9 DEF Restart
    <2>3. QED BY <1>5, <2>1, <2>2
  <1>12. ASSUME NEW v \in Versions, Found(v) PROVE cand[v].state \in InDelivery
    <2>1. PICK i \in DOMAIN events : events[i].box \in {"dispatching", "unknown"} /\ events[i].cand = v
      BY <1>12
    <2>2. QED BY <1>2, <1>3, <1>6, <2>1 DEF RowAgrees, OccurrenceAgrees, InDelivery
  <1>13. ASSUME NEW v \in Versions, cand[v].state = "dispatching" PROVE Found(v)
    <2>1. PICK i \in DOMAIN events : Asking(db, i, v)
      BY <1>2, <1>3, <1>13 DEF TablesAgree, OneRow, UnderWay, InDelivery
    <2>2. RowAgrees(db, events[i]) /\ events[i].kind = "followup" /\ events[i].cand = v /\ events[i].state \notin Ended
      BY <1>2, <1>3, <1>6, <2>1 DEF Asking, Open
    <2>3. events[i].box = "dispatching"
      BY <1>2, <1>3, <1>13, <2>2 DEF RowAgrees, OccurrenceAgrees, Ended
    <2>4. QED BY <2>2, <2>3
  <1> HIDE DEF Found
  <1>14. ASSUME NEW v \in Versions
         PROVE  /\ cs[v] \in CandRow /\ cs[v].ver = cand[v].ver /\ cs[v].due = cand[v].due /\ cs[v].gen = cand[v].gen
                /\ cs[v].cancel = cand[v].cancel /\ cs[v].ignored = cand[v].ignored
                /\ cand[v].state = "dispatching" => cs[v].state = "needs_review"
                /\ cand[v].state # "dispatching" => cs[v].state = cand[v].state
    <2>1. cand[v] \in CandRow /\ "needs_review" \in CandidateState
      BY <1>2, TablesHave DEF CandidateState, Active, Planned, InDelivery
    <2>2. CASE Found(v)
      <3>1. cs[v] = [cand[v] EXCEPT !.state = "needs_review"] /\ cand[v].state \in {"dispatching", "needs_review"}
        BY <1>5, <1>12, <2>2 DEF InDelivery
      <3>2. QED BY <2>1, <3>1, StateIs
    <2>3. CASE ~Found(v)
      <3>1. cs[v] = cand[v] /\ cand[v].state # "dispatching"
        BY <1>5, <1>13, <2>3
      <3>2. QED BY <2>1, <3>1
    <2>4. QED BY <2>2, <2>3
  <1>15. PICK n : n = [db EXCEPT !.cand = cs, !.events = es]
    OBVIOUS
  <1>16. n \in Tables /\ n.cand = cs /\ n.events = es
    <2>1. cs \in [Versions -> CandRow]
      BY <1>5, <1>14
    <2>2. QED BY <1>2, <1>3, <1>8, <1>15, <2>1 DEF Tables
  <1>17. RowsAgree(n)
    <2>1. ASSUME NEW i \in DOMAIN events PROVE RowAgrees(n, es[i])
      <3>1. RowAgrees(db, events[i]) /\ events[i] \in EventRow /\ db.cand = cand
        BY <1>2, <1>3, <1>6
      <3>2. es[i].kind = events[i].kind /\ es[i].cand = events[i].cand /\ es[i].ver = events[i].ver
        BY <1>7, <1>8, <3>1
      <3>3. CASE events[i].box = "dispatching"
        <4>1. es[i].box = "unknown" /\ es[i].state = "needs_review"
          BY <1>7, <1>8, <3>1, <3>3
        <4>2. events[i].kind = "followup" /\ events[i].cand \in Versions /\ cand[events[i].cand].state = "dispatching"
          BY <3>1, <3>3 DEF RowAgrees, OccurrenceAgrees
        <4>3. QED BY <1>14, <1>16, <3>2, <4>1, <4>2 DEF RowAgrees, OccurrenceAgrees
      <3>4. CASE events[i].box # "dispatching"
        <4>1. es[i] = events[i]
          BY <1>7, <1>8, <3>1, <3>4
        <4>2. CASE events[i].kind # "followup"
          BY <3>1, <4>1, <4>2 DEF RowAgrees
        <4>3. CASE events[i].kind = "followup"
          <5>1. events[i].cand \in Versions /\ OccurrenceAgrees(events[i], cand[events[i].cand])
            BY <3>1, <4>3 DEF RowAgrees
          <5>2. OccurrenceAgrees(events[i], cs[events[i].cand])
            BY <1>14, <3>4, <5>1 DEF OccurrenceAgrees
          <5>3. QED BY <1>16, <4>1, <4>3, <5>1, <5>2 DEF RowAgrees
        <4>4. QED BY <4>2, <4>3
      <3>5. QED BY <3>3, <3>4
    <2>2. QED BY <1>8, <1>16, <2>1 DEF RowsAgree
  <1>18. \A i \in DOMAIN events : /\ es[i].kind = events[i].kind /\ es[i].cand = events[i].cand
                                  /\ es[i].kind = "followup" => (i \in Open(es) <=> i \in Open(events))
    <2>1. ASSUME NEW i \in DOMAIN events
          PROVE  /\ es[i].kind = events[i].kind /\ es[i].cand = events[i].cand
                 /\ es[i].kind = "followup" => (i \in Open(es) <=> i \in Open(events))
      <3>1. RowAgrees(db, events[i]) /\ events[i] \in EventRow
        BY <1>6
      <3>2. events[i].box = "dispatching" => events[i].state = "outbox_ready" /\ es[i].state = "needs_review"
        BY <1>7, <1>8, <3>1 DEF RowAgrees, OccurrenceAgrees
      <3>3. events[i].box # "dispatching" => es[i] = events[i]
        BY <1>7, <1>8, <3>1
      <3>4. QED BY <1>7, <1>8, <3>1, <3>2, <3>3 DEF Open, Ended
    <2>2. QED BY <2>1
  <1>19. OneRow(n)
    <2>1. ASSUME NEW v \in Versions, n.cand[v].state \in UnderWay PROVE \E i \in DOMAIN n.events : Asking(n, i, v)
      <3>1. cand[v].state \in UnderWay
        BY <1>14, <1>16, <2>1 DEF UnderWay, InDelivery
      <3>2. PICK i \in DOMAIN events : Asking(db, i, v)
        BY <1>2, <1>3, <3>1 DEF TablesAgree, OneRow
      <3>3. Asking(n, i, v)
        BY <1>2, <1>3, <1>16, <1>18, <3>2 DEF Asking
      <3>4. QED BY <1>8, <1>16, <3>3
    <2>2. \A i \in Open(es) : i \in DOMAIN events
      BY <1>8 DEF Open
    <2>3. \A i, j \in Open(events) : events[i].kind = "followup" /\ events[j].kind = "followup" => i = j
      BY <1>2 DEF TablesAgree, OneRow
    <2>4. QED BY <1>16, <1>18, <2>1, <2>2, <2>3 DEF OneRow
  <1>20. OneVersion(n)
    <2>1. \A v \in Versions : cs[v].state \in Planned \cup {"completed"} => cand[v].state \in Planned \cup {"completed"}
      BY <1>14 DEF Planned, InDelivery
    <2>2. QED BY <1>2, <1>16, <2>1 DEF TablesAgree, OneVersion
  <1>21. \A v \in Versions : CandAgrees(v, n.cand[v])
    <2>1. ASSUME NEW v \in Versions PROVE CandAgrees(v, cs[v])
      <3>1. CandAgrees(v, cand[v])
        BY <1>2 DEF TablesAgree
      <3>2. QED BY <1>14, <3>1 DEF CandAgrees, UnderWay, InDelivery
    <2>2. QED BY <1>16, <2>1
  <1>22. TablesAgree(n)
    BY <1>2, <1>8, <1>16, <1>17, <1>19, <1>20, <1>21 DEF TablesAgree
  <1>23. (Db)' = n
    BY <1>1, <1>3, <1>9, <1>11, <1>15 DEF Db
  <1>24. TablesAgree(Db)'
    BY <1>1, <1>2, <1>16, <1>22, <1>23, SameTables
  <1>25. SendsAgree(Db)'
    <2>1. Asked(Db) => Asked(Db)'
      BY <1>2, <1>14, <1>16, <1>23 DEF Asked, InDelivery
    <2>2. QED BY <1>1, <2>1 DEF FollowupsInv, SendsAgree, RestTyped
  <1>26. IgnoredKept(Db)'
    BY <1>1, <1>2, <1>14, <1>16, <1>23 DEF FollowupsInv, IgnoredKept
  <1>27. WorkerAgrees'
    <2>1. worker'.at = "idle"
      BY <1>1 DEF At
    <2>2. \A i \in DOMAIN events' : events'[i].box # "dispatching"
      BY <1>6, <1>7, <1>8, <1>9
    <2>3. QED BY <2>1, <2>2 DEF WorkerAgrees
  <1>28. NoSend
    BY <1>6, <1>7, <1>8, <1>9 DEF NoSend, Dispatched
  <1>29. IgnoredStands
    BY <1>11, <1>14 DEF IgnoredStands
  <1>30. RestTyped' /\ DraftsAgree' /\ NoneUsed
    <2>1. ASSUME NEW j \in Jobs
          PROVE  /\ draft'[j] \in [state : DraftState, snap : Snapshot, at : Nat, called : BOOLEAN]
                 /\ draft'[j].snap = draft[j].snap /\ draft'[j].called = draft[j].called
                 /\ draft'[j].state = draft[j].state \/ (draft[j].state = "generating" /\ draft'[j].state = "interrupted")
      <3>1. draft[j] \in [state : DraftState, snap : Snapshot, at : Nat, called : BOOLEAN]
        BY DEF FollowupsInv, RestTyped
      <3>2. draft'[j] = DraftRecovered(draft[j])
        BY <1>1
      <3>3. QED BY <3>1, <3>2 DEF DraftRecovered, DraftState
    <2>2. draft' \in [Jobs -> [state : DraftState, snap : Snapshot, at : Nat, called : BOOLEAN]]
      BY <1>1, <2>1
    <2>3. RestTyped'
      <3>1. worker' \in [at : {"down", "idle", "prepared", "sending"}, row : 0..MaxEvents]
        BY <1>1, Bounds DEF At
      <3>2. QED BY <1>1, <2>2, <3>1 DEF FollowupsInv, RestTyped
    <2>4. DraftsAgree'
      BY <1>1, <2>1 DEF FollowupsInv, DraftsAgree, DraftAgrees
    <2>5. NoneUsed
      BY <2>1 DEF NoneUsed
    <2>6. QED BY <2>3, <2>4, <2>5
  <1>31. QED BY <1>24, <1>25, <1>26, <1>27, <1>28, <1>29, <1>30 DEF FollowupsInv, Calm

-----------------------------------------------------------------------------
(* The drafts *)

JobRow == [state : DraftState, snap : Snapshot, at : Nat, called : BOOLEAN]

LEMMA JobsAre ==
  ASSUME FollowupsInv
  PROVE  /\ draft \in [Jobs -> JobRow] /\ \A j \in Jobs : draft[j] \in JobRow
         /\ seen \in [Jobs -> Snapshot] /\ calls \in [Jobs -> Nat] /\ \A j \in Jobs : DraftAgrees(j)
         /\ drafter.at \in {"idle", "claimed", "writing"} /\ drafter.job \in Jobs \cup {0}
         /\ drafter.at # "idle" => drafter.job \in Jobs
  BY DEF FollowupsInv, RestTyped, DraftsAgree, JobRow

\* Whatever is under way or ready after the drafts were reconciled was written
\* from the conversation as it is.
LEMMA ReconciledIs ==
  ASSUME FollowupsInv, NEW jobs, jobs = ReconcileDrafts(Db, draft)
  PROVE  /\ jobs \in [Jobs -> JobRow]
         /\ \A j \in Jobs :
              /\ jobs[j] \in JobRow /\ jobs[j].snap = draft[j].snap /\ jobs[j].called = draft[j].called
              /\ jobs[j].state = draft[j].state
                 \/ (draft[j].state \in Fresh \cup {"ready"} /\ jobs[j].state = "invalidated")
              /\ jobs[j].state \in Fresh \cup {"ready"} => SnapshotOf(Db, draft[j].snap.cand) = draft[j].snap
  <1>1. PICK db : db = Db
    OBVIOUS
  <1>2. jobs = [j \in Jobs |-> IF draft[j].state \in Fresh \cup {"ready"} /\ ~StillValid(db, draft[j])
                               THEN [draft[j] EXCEPT !.state = "invalidated"] ELSE draft[j]]
    BY <1>1 DEF ReconcileDrafts
  <1>3. ASSUME NEW j \in Jobs
        PROVE  /\ jobs[j] \in JobRow /\ jobs[j].snap = draft[j].snap /\ jobs[j].called = draft[j].called
               /\ jobs[j].state = draft[j].state
                  \/ (draft[j].state \in Fresh \cup {"ready"} /\ jobs[j].state = "invalidated")
               /\ jobs[j].state \in Fresh \cup {"ready"} => StillValid(db, draft[j])
    <2>1. draft[j] \in JobRow
      BY JobsAre
    <2>2. CASE draft[j].state \in Fresh \cup {"ready"} /\ ~StillValid(db, draft[j])
      <3>1. jobs[j] = [draft[j] EXCEPT !.state = "invalidated"]
        BY <1>2, <2>2
      <3>2. QED BY <2>1, <2>2, <3>1 DEF JobRow, DraftState, Fresh
    <2>3. CASE ~(draft[j].state \in Fresh \cup {"ready"} /\ ~StillValid(db, draft[j]))
      <3>1. jobs[j] = draft[j]
        BY <1>2, <2>3
      <3>2. QED BY <2>1, <2>3, <3>1
    <2>4. QED BY <2>2, <2>3
  <1>4. jobs \in [Jobs -> JobRow]
    BY <1>2, <1>3
  <1>5. \A j \in Jobs : jobs[j].state \in Fresh \cup {"ready"} => SnapshotOf(db, draft[j].snap.cand) = draft[j].snap
    BY <1>3 DEF StillValid
  <1>6. QED BY <1>1, <1>3, <1>4, <1>5

LEMMA ReconciledKeeps ==
  ASSUME FollowupsInv, draft' = ReconcileDrafts(Db, draft), UNCHANGED <<drafter, seen, calls>>
  PROVE  draft' \in [Jobs -> JobRow] /\ DraftsAgree' /\ NoneUsed
  <1>1. PICK jobs : jobs = ReconcileDrafts(Db, draft)
    OBVIOUS
  <1>2. /\ jobs \in [Jobs -> JobRow]
        /\ \A j \in Jobs : /\ jobs[j].snap = draft[j].snap /\ jobs[j].called = draft[j].called
                           /\ jobs[j].state = draft[j].state \/ (draft[j].state \in Fresh \cup {"ready"} /\ jobs[j].state = "invalidated")
    BY <1>1, ReconciledIs
  <1>3. draft' = jobs
    BY <1>1
  <1>4. DraftsAgree'
    BY <1>2, <1>3 DEF FollowupsInv, DraftsAgree, DraftAgrees
  <1>5. NoneUsed
    BY <1>2, <1>3 DEF NoneUsed
  <1>6. QED BY <1>2, <1>3, <1>4, <1>5

\* A transaction that reconciles the drafts as well.
LEMMA BothKeep ==
  ASSUME FollowupsInv, NEW n, KeepsOrForms(Db, n), Store(n), draft' = ReconcileDrafts(Db, draft),
         UNCHANGED <<now, attempts, enabled, worker, drafter, people>>
  PROVE  FollowupsInv' /\ Calm
  <1>1. UNCHANGED <<now, approved, sends, settled>> /\ ignored' = ignored /\ UNCHANGED <<drafter, seen, calls>> /\ worker' = worker
    BY DEF people
  <1>2. draft' \in [Jobs -> JobRow] /\ DraftsAgree' /\ NoneUsed
    BY <1>1, ReconciledKeeps
  <1>3. RestTyped'
    BY <1>2 DEF FollowupsInv, RestTyped, JobRow, people
  <1>4. /\ TablesAgree(Db)' /\ SendsAgree(Db)' /\ IgnoredKept(Db)' /\ WorkerAgrees' /\ NoSend /\ IgnoredStands
    BY <1>1, StoreKeeps
  <1>5. QED BY <1>2, <1>3, <1>4 DEF FollowupsInv, Calm

LEMMA TickKeeps == ASSUME FollowupsInv, Tick PROVE FollowupsInv' /\ Calm
  <1>1. now \in Nat /\ TablesAgree(Db)
    BY NowIs
  <1>2. PICK a : a = Reconcile(Db)
    OBVIOUS
  <1>3. PICK b : b = Discover(a)
    OBVIOUS
  <1>4. PICK c : c = TickAll(b)
    OBVIOUS
  <1>5. KeepsOrForms(Db, a) /\ TablesAgree(a)
    BY <1>1, <1>2, ReconcileKeeps, KeepsIs DEF Keeps
  <1>6. KeepsOrForms(a, b) /\ TablesAgree(b)
    BY <1>3, <1>5, DiscoverForms DEF KeepsOrForms
  <1>7. KeepsOrForms(b, c)
    BY <1>1, <1>4, <1>6, TickAllKeeps, KeepsIs
  <1>8. KeepsOrForms(Db, c)
    BY <1>5, <1>6, <1>7, FormsOn
  <1>9. Store(c) /\ draft' = ReconcileDrafts(Db, draft) /\ UNCHANGED <<now, attempts, enabled, worker, drafter, people>>
    BY <1>2, <1>3, <1>4 DEF Tick
  <1>10. QED BY <1>8, <1>9, BothKeep

LEMMA ContactRequestKeeps ==
  ASSUME FollowupsInv, NEW p \in Policies, ContactRequest(p) PROVE FollowupsInv' /\ Calm
  <1>1. PICK db : db = Db
    OBVIOUS
  <1>2. PICK a : a = [db EXCEPT !.policy = [is |-> p, ver |-> policy.ver + 1]]
    OBVIOUS
  <1>3. PICK b : b = Reconcile(a)
    OBVIOUS
  <1>4. TablesAgree(db) /\ db \in Tables /\ policy.ver + 1 \in Nat
    BY <1>1, NowIs, MemoryIs
  <1>5. a \in Tables /\ a.cand = db.cand /\ a.events = db.events
    BY <1>2, <1>4 DEF Tables
  <1>6. Keeps(db, a)
    BY <1>4, <1>5, OtherKeeps
  <1>7. Keeps(a, b)
    BY <1>3, <1>6, ReconcileKeeps DEF Keeps
  <1>8. KeepsOrForms(Db, b)
    BY <1>1, <1>6, <1>7, KeepsOn, KeepsIs
  <1>9. Store(b) /\ UNCHANGED <<now, draft, attempts, enabled, worker, drafter, people>>
    BY <1>1, <1>2, <1>3 DEF ContactRequest
  <1>10. QED BY <1>8, <1>9, TransactionKeeps

\* A new row of another kind.
LEMMA NewRowKeeps ==
  ASSUME FollowupsInv, NEW row \in EventRow, row.kind # "followup", row.state = "queued", row.box = "none",
         Admit(row) \/ Enqueue(row)
  PROVE  FollowupsInv' /\ Calm
  <1>1. PICK db : db = Db
    OBVIOUS
  <1>2. PICK a : a = [db EXCEPT !.events = Append(db.events, row)]
    OBVIOUS
  <1>3. TablesAgree(db) /\ db.events = events
    BY <1>1, NowIs
  <1>4. Len(db.events) < MaxEvents /\ UNCHANGED <<now, draft, attempts, enabled, worker, drafter, people>>
    BY <1>3 DEF Admit, Enqueue, HasRoom
  <1>5. Keeps(db, a)
    BY <1>2, <1>3, <1>4, AppendKeeps
  <1>6. CASE Enqueue(row)
    <2>1. Store(a)
      BY <1>1, <1>2, <1>3, <1>6 DEF Enqueue
    <2>2. QED BY <1>1, <1>4, <1>5, <2>1, KeepsIs, TransactionKeeps
  <1>7. CASE Admit(row)
    <2>1. PICK b : b = Reconcile(a)
      OBVIOUS
    <2>2. Store(b)
      BY <1>1, <1>2, <1>3, <1>7, <2>1 DEF Admit
    <2>3. Keeps(a, b)
      BY <1>5, <2>1, ReconcileKeeps DEF Keeps
    <2>4. KeepsOrForms(Db, b)
      BY <1>1, <1>5, <2>3, KeepsOn, KeepsIs
    <2>5. QED BY <1>4, <2>2, <2>4, TransactionKeeps
  <1>8. QED BY <1>6, <1>7

LEMMA MessageKeeps == ASSUME FollowupsInv, Message PROVE FollowupsInv' /\ Calm
  BY RowTyped, NowIs, NewRowKeeps DEF Message

LEMMA RequestMemoryKeeps == ASSUME FollowupsInv, RequestMemory PROVE FollowupsInv' /\ Calm
  <1>1. PICK open \in BOOLEAN : Admit([Row("memory") EXCEPT !.ver = memory.ver, !.to = open])
    BY DEF RequestMemory
  <1>2. PICK row : row = [Row("memory") EXCEPT !.ver = memory.ver, !.to = open]
    OBVIOUS
  <1>3. now \in Nat /\ memory.ver \in Nat
    BY NowIs, MemoryIs, VersionsAre
  <1>4. row \in EventRow /\ row.kind = "memory" /\ row.state = "queued" /\ row.box = "none"
    BY <1>2, <1>3 DEF Row, EventRow
  <1>5. QED BY <1>1, <1>2, <1>4, NewRowKeeps

LEMMA RequestBindingKeeps == ASSUME FollowupsInv, RequestBinding PROVE FollowupsInv' /\ Calm
  <1>1. PICK mine \in BOOLEAN : Enqueue([Row("binding") EXCEPT !.to = mine])
    BY DEF RequestBinding
  <1>2. PICK row : row = [Row("binding") EXCEPT !.to = mine]
    OBVIOUS
  <1>3. row \in EventRow /\ row.kind = "binding" /\ row.state = "queued" /\ row.box = "none"
    BY <1>2, NowIs DEF Row, EventRow
  <1>4. QED BY <1>1, <1>2, <1>3, NewRowKeeps

LEMMA DraftsKeep ==
  ASSUME FollowupsInv, UNCHANGED <<now, cand, events, memory, binding, policy, attempts, enabled, worker>>,
         UNCHANGED <<approved, sends, settled, ignored>>,
         draft' \in [Jobs -> JobRow], seen' \in [Jobs -> Snapshot], calls' \in [Jobs -> Nat],
         drafter'.at \in {"idle", "claimed", "writing"}, drafter'.job \in Jobs \cup {0},
         DraftsAgree', NoneUsed
  PROVE  FollowupsInv' /\ Calm
  <1>1. now' \in Nat /\ now <= now'
    BY NowIs
  <1>2. TablesAgree(Db)' /\ SendsAgree(Db)' /\ IgnoredKept(Db)' /\ NoSend /\ IgnoredStands
    BY <1>1, TablesStand
  <1>3. RestTyped'
    BY DEF FollowupsInv, RestTyped, JobRow
  <1>4. WorkerAgrees'
    BY DEF FollowupsInv, WorkerAgrees
  <1>5. QED BY <1>2, <1>3, <1>4 DEF FollowupsInv, Calm

LEMMA LookKeeps == ASSUME FollowupsInv, Look PROVE FollowupsInv' /\ Calm
  <1>1. draft' = ReconcileDrafts(Db, draft) /\ UNCHANGED <<drafter, seen, calls>>
    BY DEF Look, people
  <1>2. draft' \in [Jobs -> JobRow] /\ DraftsAgree' /\ NoneUsed
    BY <1>1, ReconciledKeeps
  <1>3. QED BY <1>1, <1>2, JobsAre, DraftsKeep DEF Look, people

LEMMA SnapshotTyped ==
  ASSUME FollowupsInv, NEW v \in Versions PROVE SnapshotOf(Db, v) \in Snapshot
  <1>1. PICK db : db = Db
    OBVIOUS
  <1>2. db \in Tables
    BY <1>1, NowIs
  <1>3. db.cand[v].ver \in Nat /\ db.policy.ver \in Nat /\ db.binding.gen \in Nat /\ Len(db.events) + 1 \in Nat /\ v \in Nat
    BY <1>2, TablesHave, VersionsAre DEF Tables, CandRow
  <1>4. SnapshotOf(db, v) \in Snapshot
    BY <1>3 DEF SnapshotOf, NextSeq, Snapshot
  <1>5. QED BY <1>1, <1>4

LEMMA RequestDraftKeeps ==
  ASSUME FollowupsInv, NEW j \in Jobs, NEW v \in Versions, RequestDraft(j, v) PROVE FollowupsInv' /\ Calm
  <1>1. PICK jobs : jobs = ReconcileDrafts(Db, draft)
    OBVIOUS
  <1>2. PICK snap \in Snapshot : snap = SnapshotOf(Db, v)
    BY SnapshotTyped
  <1>3. PICK job : job = [state |-> "queued", snap |-> snap, at |-> now, called |-> FALSE]
    OBVIOUS
  <1>4. /\ draft[j].state = "absent" /\ draft' = [jobs EXCEPT ![j] = job]
        /\ UNCHANGED <<now, cand, events, memory, binding, policy, attempts, enabled, worker, drafter>>
        /\ UNCHANGED <<approved, sends, settled, ignored, seen, calls>>
    BY <1>1, <1>2, <1>3 DEF RequestDraft, people
  <1>5. job \in JobRow /\ job.state = "queued" /\ ~job.called
    BY <1>3, NowIs DEF JobRow, DraftState, Fresh
  <1>6. /\ jobs \in [Jobs -> JobRow]
        /\ \A k \in Jobs : /\ jobs[k].snap = draft[k].snap /\ jobs[k].called = draft[k].called
                           /\ jobs[k].state = draft[k].state \/ (draft[k].state \in Fresh \cup {"ready"} /\ jobs[k].state = "invalidated")
    BY <1>1, ReconciledIs
  <1>7. draft' \in [Jobs -> JobRow] /\ draft'[j] = job /\ \A k \in Jobs \ {j} : draft'[k] = jobs[k]
    BY <1>4, <1>5, <1>6
  <1>8. DraftsAgree'
    <2>1. DraftAgrees(j)'
      BY <1>4, <1>5, <1>7, JobsAre DEF DraftAgrees
    <2>2. ASSUME NEW k \in Jobs \ {j} PROVE DraftAgrees(k)'
      BY <1>4, <1>6, <1>7, JobsAre DEF DraftAgrees
    <2>3. QED BY <1>4, <2>1, <2>2 DEF DraftsAgree, FollowupsInv
  <1>9. NoneUsed
    BY <1>4, <1>6, <1>7 DEF NoneUsed
  <1>10. QED BY <1>4, <1>7, <1>8, <1>9, JobsAre, DraftsKeep

\* One draft takes a step of its own after all were reconciled.
LEMMA ClaimKeeps == ASSUME FollowupsInv, NEW j \in Jobs, Claim(j) PROVE FollowupsInv' /\ Calm
  <1>1. PICK jobs : jobs = ReconcileDrafts(Db, draft)
    OBVIOUS
  <1>2. /\ jobs \in [Jobs -> JobRow]
        /\ \A k \in Jobs : /\ jobs[k] \in JobRow /\ jobs[k].snap = draft[k].snap /\ jobs[k].called = draft[k].called
                           /\ jobs[k].state = draft[k].state \/ (draft[k].state \in Fresh \cup {"ready"} /\ jobs[k].state = "invalidated")
                           /\ jobs[k].state \in Fresh \cup {"ready"} => SnapshotOf(Db, draft[k].snap.cand) = draft[k].snap
    BY <1>1, ReconciledIs
  <1>3. /\ jobs[j].state = "queued" /\ draft' = [jobs EXCEPT ![j].state = "generating"]
        /\ seen' = [seen EXCEPT ![j] = SnapshotOf(Db, draft[j].snap.cand)]
        /\ DraftStep("claimed", j)
        /\ UNCHANGED <<now, cand, events, memory, binding, policy, attempts, enabled, worker>>
        /\ UNCHANGED <<approved, sends, settled, ignored, calls>>
    BY <1>1 DEF Claim
  <1>4. seen' = [seen EXCEPT ![j] = draft[j].snap] /\ draft[j] \in JobRow
    BY <1>2, <1>3, JobsAre DEF Fresh
  <1>5. seen' \in [Jobs -> Snapshot] /\ seen'[j] = draft[j].snap /\ \A k \in Jobs \ {j} : seen'[k] = seen[k]
    BY <1>4, JobsAre DEF JobRow
  <1>6. /\ draft' \in [Jobs -> JobRow] /\ draft'[j].state = "generating" /\ draft'[j].snap = draft[j].snap
        /\ draft'[j].called = draft[j].called /\ \A k \in Jobs \ {j} : draft'[k] = jobs[k]
    <2>1. draft'[j] = [jobs[j] EXCEPT !.state = "generating"] /\ \A k \in Jobs \ {j} : draft'[k] = jobs[k]
      BY <1>2, <1>3
    <2>2. draft'[j] \in JobRow /\ draft'[j].state = "generating" /\ draft'[j].snap = jobs[j].snap /\ draft'[j].called = jobs[j].called
      BY <1>2, <2>1 DEF JobRow, DraftState, Fresh
    <2>3. draft' \in [Jobs -> JobRow]
      BY <1>2, <1>3, <2>1, <2>2
    <2>4. QED BY <1>2, <2>1, <2>2, <2>3
  <1>7. drafter' = [at |-> "claimed", job |-> j]
    BY <1>3 DEF DraftStep
  <1>8. DraftsAgree'
    <2>1. DraftAgrees(j)'
      BY <1>3, <1>5, <1>6, JobsAre DEF DraftAgrees
    <2>2. ASSUME NEW k \in Jobs \ {j} PROVE DraftAgrees(k)'
      BY <1>2, <1>3, <1>5, <1>6, JobsAre DEF DraftAgrees
    <2>3. QED BY <1>7, <2>1, <2>2 DEF DraftsAgree
  <1>9. NoneUsed
    BY <1>2, <1>6 DEF NoneUsed
  <1>10. QED BY <1>3, <1>5, <1>6, <1>7, <1>8, <1>9, JobsAre, DraftsKeep

LEMMA AuthorizeKeeps == ASSUME FollowupsInv, Authorize PROVE FollowupsInv' /\ Calm
  <1>1. PICK jobs : jobs = ReconcileDrafts(Db, draft)
    OBVIOUS
  <1>2. /\ jobs \in [Jobs -> JobRow]
        /\ \A k \in Jobs : /\ jobs[k] \in JobRow /\ jobs[k].snap = draft[k].snap /\ jobs[k].called = draft[k].called
                           /\ jobs[k].state = draft[k].state \/ (draft[k].state \in Fresh \cup {"ready"} /\ jobs[k].state = "invalidated")
    BY <1>1, ReconciledIs
  <1>3. PICK j \in Jobs : j = drafter.job
    BY JobsAre DEF Authorize
  <1>4. /\ UNCHANGED <<now, cand, events, memory, binding, policy, attempts, enabled, worker>>
        /\ UNCHANGED <<approved, sends, settled, ignored, seen>>
    BY DEF Authorize
  <1>5. CASE jobs[j].state = "generating" /\ ~jobs[j].called
    <2>1. /\ draft' = [jobs EXCEPT ![j].called = TRUE] /\ calls' = [calls EXCEPT ![j] = @ + 1]
          /\ DraftStep("writing", j)
      BY <1>1, <1>3, <1>5 DEF Authorize
    <2>2. calls[j] = 0 /\ ~draft[j].called
      BY <1>2, <1>5, JobsAre DEF DraftAgrees
    <2>3. calls' \in [Jobs -> Nat] /\ calls'[j] = 1 /\ \A k \in Jobs \ {j} : calls'[k] = calls[k]
      BY <2>1, <2>2, JobsAre
    <2>4. /\ draft' \in [Jobs -> JobRow] /\ draft'[j].state = "generating" /\ draft'[j].snap = draft[j].snap
          /\ draft'[j].called = TRUE /\ \A k \in Jobs \ {j} : draft'[k] = jobs[k]
      <3>1. draft'[j] = [jobs[j] EXCEPT !.called = TRUE] /\ \A k \in Jobs \ {j} : draft'[k] = jobs[k]
        BY <1>2, <2>1
      <3>2. draft'[j] \in JobRow /\ draft'[j].state = "generating" /\ draft'[j].snap = jobs[j].snap /\ draft'[j].called = TRUE
        BY <1>2, <1>5, <3>1 DEF JobRow
      <3>3. draft' \in [Jobs -> JobRow]
        BY <1>2, <2>1, <3>1, <3>2
      <3>4. QED BY <1>2, <3>1, <3>2, <3>3
    <2>5. drafter' = [at |-> "writing", job |-> j]
      BY <2>1 DEF DraftStep
    <2>6. DraftsAgree'
      <3>1. draft[j].state = "generating"
        BY <1>2, <1>5 DEF Fresh
      <3>2. DraftAgrees(j)'
        BY <1>4, <2>3, <2>4, <3>1, JobsAre DEF DraftAgrees
      <3>3. ASSUME NEW k \in Jobs \ {j} PROVE DraftAgrees(k)'
        BY <1>2, <1>4, <2>3, <2>4, JobsAre DEF DraftAgrees
      <3>4. QED BY <2>5, <3>2, <3>3 DEF DraftsAgree
    <2>7. NoneUsed
      BY <1>2, <2>4 DEF NoneUsed
    <2>8. QED BY <1>4, <2>3, <2>4, <2>5, <2>6, <2>7, JobsAre, DraftsKeep
  <1>6. CASE ~(jobs[j].state = "generating" /\ ~jobs[j].called)
    <2>1. draft' = ReconcileDrafts(Db, draft) /\ calls' = calls /\ DraftStep("idle", 0)
      BY <1>1, <1>3, <1>6 DEF Authorize
    <2>2. drafter' = [at |-> "idle", job |-> 0] /\ draft' = jobs
      BY <1>1, <2>1 DEF DraftStep
    <2>3. DraftsAgree'
      BY <1>2, <1>4, <2>1, <2>2, JobsAre DEF DraftsAgree, DraftAgrees
    <2>4. NoneUsed
      BY <1>2, <2>2 DEF NoneUsed
    <2>5. QED BY <1>2, <1>4, <2>1, <2>2, <2>3, <2>4, JobsAre, DraftsKeep
  <1>7. QED BY <1>5, <1>6

LEMMA FinishDraftKeeps == ASSUME FollowupsInv, FinishDraft PROVE FollowupsInv' /\ Calm
  <1>1. PICK jobs : jobs = ReconcileDrafts(Db, draft)
    OBVIOUS
  <1>2. /\ jobs \in [Jobs -> JobRow]
        /\ \A k \in Jobs : /\ jobs[k] \in JobRow /\ jobs[k].snap = draft[k].snap /\ jobs[k].called = draft[k].called
                           /\ jobs[k].state = draft[k].state \/ (draft[k].state \in Fresh \cup {"ready"} /\ jobs[k].state = "invalidated")
    BY <1>1, ReconciledIs
  <1>3. PICK j \in Jobs : j = drafter.job
    BY JobsAre DEF FinishDraft
  <1>4. PICK state \in {"ready", "abstained", "failed"} :
          draft' = IF jobs[j].state = "generating" THEN [jobs EXCEPT ![j].state = state] ELSE jobs
    BY <1>1, <1>3 DEF FinishDraft
  <1>5. /\ UNCHANGED <<now, cand, events, memory, binding, policy, attempts, enabled, worker>>
        /\ UNCHANGED <<approved, sends, settled, ignored, seen, calls>>
        /\ drafter' = [at |-> "idle", job |-> 0]
    BY DEF FinishDraft, DraftStep, people
  <1>6. CASE jobs[j].state = "generating"
    <2>1. /\ draft' \in [Jobs -> JobRow] /\ draft'[j].state = state /\ draft'[j].snap = draft[j].snap
          /\ draft'[j].called = draft[j].called /\ \A k \in Jobs \ {j} : draft'[k] = jobs[k]
      <3>1. draft' = [jobs EXCEPT ![j].state = state]
        BY <1>4, <1>6
      <3>2. draft'[j] = [jobs[j] EXCEPT !.state = state] /\ \A k \in Jobs \ {j} : draft'[k] = jobs[k]
        BY <1>2, <3>1
      <3>3. draft'[j] \in JobRow /\ draft'[j].state = state /\ draft'[j].snap = jobs[j].snap /\ draft'[j].called = jobs[j].called
        BY <1>2, <3>2 DEF JobRow, DraftState
      <3>4. draft' \in [Jobs -> JobRow]
        BY <1>2, <3>1, <3>2, <3>3
      <3>5. QED BY <1>2, <3>2, <3>3, <3>4
    <2>2. draft[j].state = "generating"
      BY <1>2, <1>6 DEF Fresh
    <2>3. DraftsAgree'
      <3>1. DraftAgrees(j)'
        BY <1>5, <2>1, <2>2, JobsAre DEF DraftAgrees
      <3>2. ASSUME NEW k \in Jobs \ {j} PROVE DraftAgrees(k)'
        BY <1>2, <1>5, <2>1, JobsAre DEF DraftAgrees
      <3>3. QED BY <1>5, <3>1, <3>2 DEF DraftsAgree
    <2>4. NoneUsed
      BY <1>2, <2>1 DEF NoneUsed
    <2>5. QED BY <1>5, <2>1, <2>3, <2>4, JobsAre, DraftsKeep
  <1>7. CASE jobs[j].state # "generating"
    <2>1. draft' = jobs
      BY <1>4, <1>7
    <2>2. DraftsAgree'
      BY <1>2, <1>5, <2>1, JobsAre DEF DraftsAgree, DraftAgrees
    <2>3. NoneUsed
      BY <1>2, <2>1 DEF NoneUsed
    <2>4. QED BY <1>2, <1>5, <2>1, <2>2, <2>3, JobsAre, DraftsKeep
  <1>8. QED BY <1>6, <1>7

-----------------------------------------------------------------------------
(* The requests of the operator *)

Planning(r, due, gen) == [r EXCEPT !.due = due, !.gen = gen]

LEMMA PlanningIs ==
  ASSUME NEW r \in CandRow, NEW due, due \in Nat, NEW gen, gen \in Nat
  PROVE  LET n == Planning(r, due, gen) IN
         /\ n \in CandRow /\ n.state = r.state /\ n.ver = r.ver /\ n.due = due /\ n.gen = gen
         /\ n.cancel = r.cancel /\ n.ignored = r.ignored
  BY DEF CandRow, Planning

LEMMA WithdrawnCand ==
  ASSUME NEW db \in Tables, NEW v \in Versions, NEW state \in CandidateState, NEW b \in BOOLEAN,
         db.cand[v].state \notin InDelivery
  PROVE  LET n == Invalidate(db, v, state, b) IN
         n.cand[v] \in CandRow /\ n.cand[v].state = state /\ n.cand[v].ignored = b
  <1>1. PICK n : n = Withdrawn(db, v, state, b)
    OBVIOUS
  <1>2. Invalidate(db, v, state, b) = n
    BY <1>1 DEF Invalidate
  <1>3. n.cand[v] = Moved(db.cand[v], state, b)
    BY <1>1, WithdrawnIs
  <1>4. db.cand[v] \in CandRow
    BY TablesHave
  <1>5. QED BY <1>2, <1>3, <1>4, MovedIs

LEMMA ScheduleAtKeeps ==
  ASSUME FollowupsInv, NEW v \in Versions, NEW due, due \in Nat, MaySchedule(v, due), ScheduleAt(v, due), worker' = worker
  PROVE  /\ TablesAgree(Db)' /\ SendsAgree(Db)' /\ IgnoredKept(Db)' /\ WorkerAgrees' /\ NoSend /\ IgnoredStands
         /\ approved' \in [Versions -> [due : Nat, gen : Nat]]
  <1>1. PICK db : db = Db
    OBVIOUS
  <1>2. now \in Nat /\ TablesAgree(db) /\ db \in Tables /\ db.cand = cand /\ binding.gen \in Nat
        /\ approved \in [Versions -> [due : Nat, gen : Nat]]
    BY <1>1, NowIs, MemoryIs DEF FollowupsInv, RestTyped
  <1>3. /\ cand[v].state \in {"candidate", "scheduled", "enqueued", "expired"}
        /\ \A w \in Versions \ {v} : cand[w].state \notin Planned \cup {"completed"}
    BY DEF MaySchedule, TakenUp
  <1>4. db.cand[v].state \in Active \cup {"expired"} /\ db.cand[v].state \notin InDelivery
    BY <1>2, <1>3 DEF Active, Planned, InDelivery
  <1>5. PICK m : m = Invalidate(db, v, "scheduled", FALSE)
    OBVIOUS
  <1>6. Keeps(db, m)
    BY <1>2, <1>3, <1>4, <1>5, InvalidateKeeps
  <1>7. m.cand[v] \in CandRow /\ m.cand[v].state = "scheduled" /\ m.cand[v].ignored = FALSE
    <2>1. "scheduled" \in CandidateState
      BY DEF CandidateState, Active, Planned
    <2>2. ASSUME NEW b \in BOOLEAN, m = Invalidate(db, v, "scheduled", b)
          PROVE  m.cand[v] \in CandRow /\ m.cand[v].state = "scheduled" /\ m.cand[v].ignored = b
      BY <1>2, <1>4, <2>1, <2>2, WithdrawnCand
    <2>3. QED BY <1>5, <2>2, Zenon
  <1>8. PICK r : r = Planning(m.cand[v], due, binding.gen)
    OBVIOUS
  <1>9. /\ r \in CandRow /\ r.state = "scheduled" /\ r.ver = m.cand[v].ver /\ r.due = due /\ r.gen = binding.gen
        /\ r.ignored = FALSE
    <2>1. PICK o \in CandRow : o = m.cand[v]
      BY <1>7
    <2>2. r = Planning(o, due, binding.gen) /\ binding.gen \in Nat
      BY <1>2, <1>8, <2>1
    <2>3. PICK gen \in Nat : gen = binding.gen
      BY <2>2
    <2>4. r \in CandRow /\ r.state = o.state /\ r.ver = o.ver /\ r.due = due /\ r.gen = gen /\ r.ignored = o.ignored
      BY <2>2, <2>3, PlanningIs
    <2>5. QED BY <1>7, <2>1, <2>3, <2>4
  <1>10. PICK n : n = WithCand(m, v, r)
    OBVIOUS
  <1>11. TablesAgree(m) /\ m \in Tables /\ Follows(db, m) /\ NoneFormed(db, m)
    BY <1>6 DEF Keeps, TablesAgree
  <1>12. n \in Tables /\ n.events = m.events /\ n.cand[v] = r /\ \A w \in Versions \ {v} : n.cand[w] = m.cand[w]
    BY <1>9, <1>10, <1>11, CandIs
  <1>13. Store(n) /\ approved' = [approved EXCEPT ![v] = [due |-> due, gen |-> binding.gen]]
         /\ UNCHANGED <<now, sends, settled, ignored>>
    BY <1>1, <1>5, <1>8, <1>10 DEF ScheduleAt, Approved, Planning
  <1>14. approved' \in [Versions -> [due : Nat, gen : Nat]]
    BY <1>2, <1>13
  <1>15. (Db)' = n
    BY <1>12, <1>13, StoreIs
  <1>16. \A w \in Versions : n.cand[w].state = m.cand[w].state /\ n.cand[w].ver = m.cand[w].ver
                             /\ n.cand[w].ignored = m.cand[w].ignored
    BY <1>7, <1>9, <1>12
  <1>17. TablesAgree(Db)'
    <2>1. RowsAgree(Db)'
      <3>1. ASSUME NEW i \in DOMAIN m.events PROVE RowAgrees(n, m.events[i])
        <4>1. RowAgrees(m, m.events[i])
          BY <1>11 DEF TablesAgree, RowsAgree
        <4>2. QED BY <1>16, <4>1 DEF RowAgrees, OccurrenceAgrees
      <3>2. QED BY <1>12, <1>15, <3>1, SMTT(30) DEF RowsAgree, RowAgrees, OccurrenceAgrees
    <2>2. OneRow(Db)'
      <3>1. OneRow(m)
        BY <1>11 DEF TablesAgree
      <3>2. \A w \in Versions : n.cand[w].state = m.cand[w].state
        BY <1>16
      <3>3. OneRow(n)
        BY <1>12, <3>1, <3>2 DEF OneRow, Asking
      <3>4. QED BY <1>15, <3>3 DEF OneRow, Asking, Open
    <2>3. OneVersion(Db)'
      BY <1>11, <1>15, <1>16 DEF TablesAgree, OneVersion
    <2>4. ASSUME NEW w \in Versions PROVE CandAgrees(w, (Db).cand[w])'
      <3>1. CASE w = v
        <4>1. approved'[v] = [due |-> due, gen |-> binding.gen] /\ r.state \notin UnderWay
          BY <1>2, <1>9, <1>13 DEF UnderWay, InDelivery
        <4>2. QED BY <1>9, <1>12, <1>15, <3>1, <4>1 DEF CandAgrees
      <3>2. CASE w # v
        <4>1. approved'[w] = approved[w] /\ n.cand[w] = m.cand[w] /\ CandAgrees(w, m.cand[w])
          BY <1>2, <1>11, <1>12, <1>13, <3>2 DEF TablesAgree
        <4>2. QED BY <1>13, <1>15, <4>1 DEF CandAgrees
      <3>3. QED BY <3>1, <3>2
    <2>5. n \in Tables /\ Len(n.events) <= MaxEvents
      BY <1>11, <1>12 DEF TablesAgree
    <2>6. QED BY <1>15, <2>1, <2>2, <2>3, <2>4, <2>5 DEF TablesAgree
  <1>18. Follows(Db, n) /\ FormsLawfully(Db, n)
    BY <1>1, <1>11, <1>12, <1>16 DEF Follows, FormsLawfully, NoneFormed
  <1>19. SendsAgree(Db)' /\ IgnoredKept(Db)' /\ WorkerAgrees' /\ NoSend /\ IgnoredStands
    BY <1>12, <1>13, <1>18, FollowedKeeps
  <1>20. QED BY <1>14, <1>17, <1>19

LEMMA ScheduleKeeps ==
  ASSUME FollowupsInv, NEW v \in Versions, NEW due \in Nat, Schedule(v, due) PROVE FollowupsInv' /\ Calm
  <1>1. /\ MaySchedule(v, due) /\ ScheduleAt(v, due) /\ draft' = ReconcileDrafts(Db, draft)
        /\ UNCHANGED <<now, attempts, enabled, worker, drafter, sends, settled, ignored, seen, calls>>
    BY DEF Schedule, ScheduleAt
  <1>2. /\ TablesAgree(Db)' /\ SendsAgree(Db)' /\ IgnoredKept(Db)' /\ WorkerAgrees' /\ NoSend /\ IgnoredStands
        /\ approved' \in [Versions -> [due : Nat, gen : Nat]]
    BY <1>1, ScheduleAtKeeps
  <1>3. draft' \in [Jobs -> JobRow] /\ DraftsAgree' /\ NoneUsed
    BY <1>1, ReconciledKeeps
  <1>4. RestTyped'
    BY <1>1, <1>2, <1>3 DEF FollowupsInv, RestTyped, JobRow
  <1>5. QED BY <1>2, <1>3, <1>4 DEF FollowupsInv, Calm

\* A draft is used as it was written.
UsedLawfully == \A j \in Jobs : draft[j].state = "ready" /\ draft'[j].state = "used" =>
  seen[j] = SnapshotOf(Db, draft[j].snap.cand)

LEMMA ScheduleDraftKeeps ==
  ASSUME FollowupsInv, NEW v \in Versions, NEW due \in Nat, NEW j \in Jobs, ScheduleDraft(v, due, j)
  PROVE  FollowupsInv' /\ NoSend /\ UsedLawfully /\ IgnoredStands
  <1>1. PICK jobs : jobs = ReconcileDrafts(Db, draft)
    OBVIOUS
  <1>2. /\ jobs \in [Jobs -> JobRow]
        /\ \A k \in Jobs : /\ jobs[k] \in JobRow /\ jobs[k].snap = draft[k].snap /\ jobs[k].called = draft[k].called
                           /\ jobs[k].state = draft[k].state \/ (draft[k].state \in Fresh \cup {"ready"} /\ jobs[k].state = "invalidated")
                           /\ jobs[k].state \in Fresh \cup {"ready"} => SnapshotOf(Db, draft[k].snap.cand) = draft[k].snap
    BY <1>1, ReconciledIs
  <1>3. /\ MaySchedule(v, due) /\ ScheduleAt(v, due) /\ jobs[j].state = "ready" /\ draft' = [jobs EXCEPT ![j].state = "used"]
        /\ UNCHANGED <<now, attempts, enabled, worker, drafter, sends, settled, ignored, seen, calls>>
    BY <1>1 DEF ScheduleDraft, ScheduleAt
  <1>4. /\ TablesAgree(Db)' /\ SendsAgree(Db)' /\ IgnoredKept(Db)' /\ WorkerAgrees' /\ NoSend /\ IgnoredStands
        /\ approved' \in [Versions -> [due : Nat, gen : Nat]]
    BY <1>3, ScheduleAtKeeps
  <1>5. /\ draft' \in [Jobs -> JobRow] /\ draft'[j].state = "used" /\ draft'[j].snap = draft[j].snap
        /\ draft'[j].called = draft[j].called /\ \A k \in Jobs \ {j} : draft'[k] = jobs[k]
    <2>1. draft'[j] = [jobs[j] EXCEPT !.state = "used"] /\ \A k \in Jobs \ {j} : draft'[k] = jobs[k]
      BY <1>2, <1>3
    <2>2. draft'[j] \in JobRow /\ draft'[j].state = "used" /\ draft'[j].snap = jobs[j].snap /\ draft'[j].called = jobs[j].called
      BY <1>2, <2>1 DEF JobRow, DraftState
    <2>3. draft' \in [Jobs -> JobRow]
      BY <1>2, <1>3, <2>1, <2>2
    <2>4. QED BY <1>2, <2>1, <2>2, <2>3
  <1>6. RestTyped'
    BY <1>3, <1>4, <1>5 DEF FollowupsInv, RestTyped, JobRow
  <1>7. DraftsAgree'
    <2>1. DraftAgrees(j)'
      BY <1>3, <1>5, JobsAre DEF DraftAgrees
    <2>2. ASSUME NEW k \in Jobs \ {j} PROVE DraftAgrees(k)'
      BY <1>2, <1>3, <1>5, JobsAre DEF DraftAgrees
    <2>3. QED BY <1>3, <2>1, <2>2 DEF DraftsAgree, FollowupsInv
  <1>8. UsedLawfully
    <2>1. \A k \in Jobs : draft[k].state = "ready" /\ draft'[k].state = "used" => k = j
      BY <1>2, <1>5
    <2>2. seen[j] = draft[j].snap
      BY <1>2, <1>3, JobsAre DEF DraftAgrees
    <2>3. SnapshotOf(Db, draft[j].snap.cand) = draft[j].snap
      BY <1>2, <1>3
    <2>4. QED BY <2>1, <2>2, <2>3 DEF UsedLawfully
  <1>9. QED BY <1>4, <1>6, <1>7, <1>8 DEF FollowupsInv

LEMMA WithdrawKeepsAll ==
  ASSUME FollowupsInv, NEW v \in Versions, NEW dismissal \in BOOLEAN, Withdraw(v, dismissal)
  PROVE  FollowupsInv' /\ Calm
  <1>1. PICK db : db = Db
    OBVIOUS
  <1>2. PICK state \in {"dismissed", "cancelled"} : state = IF dismissal THEN "dismissed" ELSE "cancelled"
    OBVIOUS
  <1>3. PICK n : n = Invalidate(db, v, state, dismissal)
    OBVIOUS
  <1>4. /\ cand[v].state \in Active /\ Store(n) /\ draft' = ReconcileDrafts(Db, draft)
        /\ ignored' = (ignored \/ (dismissal /\ ~cand[v].cancel))
        /\ UNCHANGED <<now, attempts, enabled, worker, drafter, approved, sends, settled, seen, calls>>
    BY <1>1, <1>2, <1>3 DEF Withdraw
  <1>5. TablesAgree(db) /\ db \in Tables /\ db.cand = cand /\ db.cand[v] \in CandRow /\ ignored \in BOOLEAN
    BY <1>1, NowIs, TablesHave DEF FollowupsInv, RestTyped
  <1>6. Keeps(db, n)
    <2>1. state \in {"scheduled", "cancelled", "dismissed", "invalidated", "expired"} /\ state # "scheduled"
          /\ (dismissal => state = "dismissed")
      BY <1>2
    <2>2. QED BY <1>3, <1>4, <1>5, <2>1, InvalidateKeeps
  <1>7. KeepsOrForms(Db, n)
    BY <1>1, <1>6, KeepsIs
  <1>8. draft' \in [Jobs -> JobRow] /\ DraftsAgree' /\ NoneUsed
    BY <1>4, ReconciledKeeps
  <1>9. /\ TablesAgree(Db)' /\ SendsAgree(Db)' /\ WorkerAgrees' /\ NoSend /\ IgnoredStands
        /\ ignored' = ignored => IgnoredKept(Db)'
    BY <1>4, <1>7, StoreKeeps
  <1>10. ignored' \in BOOLEAN
    BY <1>4
  <1>11. RestTyped'
    BY <1>4, <1>8, <1>10 DEF FollowupsInv, RestTyped, JobRow
  <1>12. dismissal /\ ~cand[v].cancel => n.cand[v].ignored
    <2>1. SUFFICES ASSUME dismissal, ~cand[v].cancel PROVE n.cand[v].ignored
      OBVIOUS
    <2>2. CASE cand[v].state \notin InDelivery
      <3>1. "dismissed" \in CandidateState /\ "cancelled" \in CandidateState
        BY DEF CandidateState
      <3>2. n.cand[v].ignored = dismissal
        BY <1>3, <1>5, <2>2, <3>1, WithdrawnCand
      <3>3. QED BY <2>1, <3>2
    <2>3. CASE cand[v].state \in InDelivery
      <3>1. n = WithCand(db, v, Marked(db.cand[v], dismissal))
        BY <1>3, <1>5, <2>1, <2>3 DEF Invalidate
      <3>2. Marked(db.cand[v], dismissal) \in CandRow /\ Marked(db.cand[v], dismissal).ignored = dismissal
        BY <1>5, MarkedIs
      <3>3. n.cand[v] = Marked(db.cand[v], dismissal)
        BY <1>5, <3>1, <3>2, CandIs
      <3>4. QED BY <2>1, <3>2, <3>3
    <2>4. QED BY <2>2, <2>3
  <1>13. IgnoredKept(Db)'
    <2>1. (Db)' = n
      BY <1>4, <1>6, StoreIs DEF Keeps, TablesAgree
    <2>2. CASE dismissal /\ ~cand[v].cancel
      BY <1>12, <2>1, <2>2 DEF IgnoredKept
    <2>3. CASE ~(dismissal /\ ~cand[v].cancel)
      <3>1. ignored' = ignored
        BY <1>4, <1>5, <2>3
      <3>2. QED BY <1>9, <3>1
    <2>4. QED BY <2>2, <2>3
  <1>14. QED BY <1>8, <1>9, <1>11, <1>13 DEF FollowupsInv, Calm

-----------------------------------------------------------------------------
(* The specification *)

LEMMA FollowupsInit == Init => FollowupsInv
  <1>1. SUFFICES ASSUME Init PROVE FollowupsInv
    OBVIOUS
  <1>2. PICK r : r = [v \in Versions |-> [state |-> IF v = 1 THEN "candidate" ELSE "absent", ver |-> 1, due |-> 0,
                                          gen |-> 0, cancel |-> FALSE, ignored |-> FALSE]]
    OBVIOUS
  <1>3. /\ cand = r /\ events = <<>> /\ memory = [ver |-> 1, open |-> TRUE] /\ binding = [gen |-> 1, mine |-> TRUE]
        /\ policy = [is |-> FirstPolicy, ver |-> 1] /\ 1 \in Versions /\ FirstPolicy \in Policies
    BY <1>1, <1>2, Bounds, FollowupsAssumption DEF Init, Versions
  <1>4. ASSUME NEW v \in Versions
        PROVE  /\ r[v] \in CandRow /\ r[v].state \in {"candidate", "absent"} /\ r[v].due = 0 /\ r[v].gen = 0
               /\ ~r[v].ignored
    BY <1>2 DEF CandRow, CandidateState, Active
  <1>5. Db \in Tables
    <2>1. r \in [Versions -> CandRow]
      BY <1>2, <1>4
    <2>2. events \in Seq(EventRow)
      BY <1>3
    <2>3. QED BY <1>3, <2>1, <2>2 DEF Db, Tables
  <1>6. (Db).cand = r /\ (Db).events = <<>>
    BY <1>3 DEF Db
  <1>7. approved = [v \in Versions |-> [due |-> 0, gen |-> 0]] /\ now = 0
    BY <1>1 DEF Init
  <1>8. TablesAgree(Db)
    <2>1. RowsAgree(Db) /\ Len((Db).events) <= MaxEvents
      BY <1>6, Bounds DEF RowsAgree
    <2>2. \A v \in Versions : r[v].state \notin Planned \cup {"completed"} /\ r[v].state \notin UnderWay
      BY <1>4 DEF Planned, UnderWay, InDelivery
    <2>3. OneRow(Db)
      BY <1>6, <2>2 DEF OneRow, Open
    <2>4. OneVersion(Db)
      BY <1>6, <2>2 DEF OneVersion
    <2>5. \A v \in Versions : CandAgrees(v, (Db).cand[v])
      BY <1>4, <1>6, <1>7, <2>2 DEF CandAgrees
    <2>6. QED BY <1>5, <2>1, <2>3, <2>4, <2>5 DEF TablesAgree
  <1>9. RestTyped
    <2>1. draft \in [Jobs -> [state : DraftState, snap : Snapshot, at : Nat, called : BOOLEAN]] /\ seen \in [Jobs -> Snapshot]
      BY <1>1 DEF Init, DraftState, Snapshot, NoSnapshot
    <2>2. worker \in [at : {"down", "idle", "prepared", "sending"}, row : 0..MaxEvents]
      BY <1>1, Bounds DEF Init
    <2>3. approved \in [Versions -> [due : Nat, gen : Nat]] /\ calls \in [Jobs -> Nat]
      BY <1>1, <1>7 DEF Init
    <2>4. now \in 0..MaxTime /\ (\A a \in attempts : a.at \in 0..now) /\ enabled \in BOOLEAN
      BY <1>1, Bounds DEF Init
    <2>5. drafter.at \in {"idle", "claimed", "writing"} /\ drafter.job \in Jobs \cup {0}
      BY <1>1 DEF Init
    <2>6. sends \in Seq(Versions) /\ settled \in Nat /\ ignored \in BOOLEAN
      <3>1. sends = <<>> /\ settled = 0
        BY <1>1 DEF Init
      <3>2. ignored = FALSE
        BY <1>1 DEF Init
      <3>3. QED BY <3>1, <3>2, EmptySeq
    <2>7. QED BY <2>1, <2>2, <2>3, <2>4, <2>5, <2>6 DEF RestTyped
  <1>10. WorkerAgrees
    BY <1>1, <1>3 DEF Init, WorkerAgrees
  <1>11. DraftsAgree
    BY <1>1 DEF Init, DraftsAgree, DraftAgrees
  <1>12. SendsAgree(Db) /\ IgnoredKept(Db)
    BY <1>1 DEF Init, SendsAgree, IgnoredKept
  <1>13. QED BY <1>8, <1>9, <1>10, <1>11, <1>12 DEF FollowupsInv

\* What no step may do.
Lawful == SentLawfully /\ UsedLawfully /\ IgnoredStands

LEMMA CalmIsLawful == ASSUME Calm PROVE Lawful
  BY DEF Calm, Lawful, NoSend, NoneUsed, SentLawfully, UsedLawfully

LEMMA WorkKeeps == ASSUME FollowupsInv, Work \/ SenderNotReady PROVE FollowupsInv' /\ Lawful
  <1>1. ASSUME NEW i \in DOMAIN events, Answer(i) \/ ApplyMemory(i) \/ ApplyBinding(i) \/ Prepare(i)
        PROVE  FollowupsInv' /\ Lawful
    BY <1>1, AnswerKeeps, ApplyMemoryKeeps, ApplyBindingKeeps, PrepareKeeps, CalmIsLawful
  <1>2. CASE Dispatch
    BY <1>2, DispatchKeeps DEF Lawful, NoneUsed, UsedLawfully
  <1>3. CASE NotDispatched \/ FinishDelivery \/ SenderNotReady
    BY <1>3, NotDispatchedKeeps, FinishDeliveryKeeps, SenderNotReadyKeeps, CalmIsLawful
  <1>4. QED BY <1>1, <1>2, <1>3 DEF Work, NextWork

LEMMA OperatorKeeps == ASSUME FollowupsInv, Operator \/ Review \/ Look PROVE FollowupsInv' /\ Lawful
  <1>1. ASSUME NEW v \in Versions, NEW due \in 1..MaxDue, Schedule(v, due) PROVE FollowupsInv' /\ Lawful
    BY <1>1, Bounds, ScheduleKeeps, CalmIsLawful
  <1>2. ASSUME NEW v \in Versions, NEW due \in 1..MaxDue, NEW j \in Jobs, ScheduleDraft(v, due, j)
        PROVE  FollowupsInv' /\ Lawful
    <2>1. FollowupsInv' /\ NoSend /\ UsedLawfully /\ IgnoredStands
      BY <1>2, Bounds, ScheduleDraftKeeps
    <2>2. QED BY <2>1 DEF Lawful, NoSend, SentLawfully
  <1>3. ASSUME NEW v \in Versions, NEW dismissal \in BOOLEAN, Withdraw(v, dismissal) PROVE FollowupsInv' /\ Lawful
    BY <1>3, WithdrawKeepsAll, CalmIsLawful
  <1>4. ASSUME NEW v \in Versions, NEW j \in Jobs, RequestDraft(j, v) PROVE FollowupsInv' /\ Lawful
    BY <1>4, RequestDraftKeeps, CalmIsLawful
  <1>5. ASSUME NEW i \in DOMAIN events, Resolve(i) PROVE FollowupsInv' /\ Lawful
    BY <1>5, ResolveKeeps, CalmIsLawful
  <1>6. CASE Look
    BY <1>6, LookKeeps, CalmIsLawful
  <1>7. QED BY <1>1, <1>2, <1>3, <1>4, <1>5, <1>6 DEF Operator, Review

LEMMA FollowupsNext == ASSUME FollowupsInv, Next PROVE FollowupsInv' /\ Lawful
  <1>1. CASE Work \/ SenderNotReady
    BY <1>1, WorkKeeps
  <1>2. CASE Drafting
    BY <1>2, ClaimKeeps, AuthorizeKeeps, FinishDraftKeeps, CalmIsLawful DEF Drafting
  <1>3. CASE Operator \/ Review \/ Look
    BY <1>3, OperatorKeeps
  <1>4. CASE Message \/ RequestMemory \/ RequestBinding
    BY <1>4, MessageKeeps, RequestMemoryKeeps, RequestBindingKeeps, CalmIsLawful
  <1>5. ASSUME NEW p \in Policies, ContactRequest(p) PROVE FollowupsInv' /\ Lawful
    BY <1>5, ContactRequestKeeps, CalmIsLawful
  <1>6. CASE Tick \/ Pass \/ Switch \/ Crash \/ Restart
    BY <1>6, TickKeeps, PassKeepsAll, SwitchKeeps, CrashKeeps, RestartKeeps, CalmIsLawful
  <1>7. QED BY <1>1, <1>2, <1>3, <1>4, <1>5, <1>6 DEF Next

LEMMA FollowupsStutter == ASSUME FollowupsInv, UNCHANGED vars PROVE FollowupsInv'
  <1>1. now' \in Nat /\ now <= now'
    BY NowIs DEF vars
  <1>2. TablesAgree(Db)' /\ SendsAgree(Db)' /\ IgnoredKept(Db)'
    BY <1>1, TablesStand DEF vars, tables, people
  <1>3. RestTyped' /\ WorkerAgrees' /\ DraftsAgree'
    BY DEF FollowupsInv, RestTyped, WorkerAgrees, DraftsAgree, DraftAgrees, vars, tables, people
  <1>4. QED BY <1>2, <1>3 DEF FollowupsInv

\* The tables of the follow-ups, the worker, the drafts and what the people know
\* agree in every state: a row tells its candidate's state, one version is planned
\* or was asked about, and a send is paid for by a delivery under review.
THEOREM FollowupsAgree == Spec => []FollowupsInv
  <1>1. FollowupsInv /\ [Next]_vars => FollowupsInv'
    BY FollowupsNext, FollowupsStutter
  <1>2. QED BY <1>1, FollowupsInit, PTL DEF Spec

\* Of all the versions of the episode at most one is planned, an enqueued one has
\* its row and a row being sent or reviewed its candidate (invalidate, tick,
\* _commit_delivery and recovery of runtime_v2/followups.py and the store).
THEOREM OneIsPlanned == Spec => []OnePlanned
  <1>1. FollowupsInv => OnePlanned
    <2>1. SUFFICES ASSUME FollowupsInv PROVE OnePlanned
      OBVIOUS
    <2>2. TablesAgree(Db) /\ Db \in Tables /\ (Db).events = events /\ (Db).cand = cand
      BY <2>1, NowIs
    <2>3. \A i \in DOMAIN events : events[i] \in EventRow /\ RowAgrees(Db, events[i])
      BY <2>1, RowHas
    <2>4. TypeOK
      <3>1. cand \in [Versions -> CandRow]
        BY <2>2 DEF Tables
      <3>2. /\ \A i \in DOMAIN events :
                 /\ events[i].kind \in {"message", "memory", "binding", "followup"}
                 /\ events[i].state \in Ended \cup {"queued", "outbox_ready", "needs_review"}
                 /\ events[i].box \in {"none", "pending", "dispatching", "accepted", "rejected", "unknown", "cancelled"}
        BY <2>3 DEF EventRow
      <3>3. QED BY <2>1, <3>1, <3>2, MemoryIs DEF FollowupsInv, RestTyped, TypeOK, CandRow
    <2>5. Cardinality({v \in Versions : cand[v].state \in Planned}) <= 1
      <3> DEFINE S == {v \in Versions : cand[v].state \in Planned}
      <3>1. \A v, w \in S : v = w
        BY <2>2 DEF TablesAgree, OneVersion
      <3>2. CASE S = {}
        BY <3>2, FS_EmptySet
      <3>3. CASE S # {}
        <4>1. PICK v \in S : S = {v}
          BY <3>1, <3>3
        <4> HIDE DEF S
        <4>2. Cardinality(S) = 1
          BY <4>1, FS_Singleton
        <4>3. QED BY <4>2 DEF S
      <3>4. QED BY <3>2, <3>3
    <2>6. ASSUME NEW v \in Versions, cand[v].state = "enqueued"
          PROVE  \E i \in Open(events) : IsOccurrence(events[i], v, cand[v].ver)
      <3>1. PICK i \in DOMAIN events : Asking(Db, i, v)
        BY <2>2, <2>6 DEF TablesAgree, OneRow, UnderWay
      <3>2. i \in Open(events) /\ events[i].kind = "followup" /\ events[i].cand = v /\ RowAgrees(Db, events[i])
        BY <2>2, <2>3, <3>1 DEF Asking
      <3>3. events[i].ver = cand[v].ver
        BY <2>2, <2>6, <3>2 DEF RowAgrees, OccurrenceAgrees, Open, Ended
      <3>4. QED BY <3>2, <3>3 DEF IsOccurrence
    <2>7. ASSUME NEW i \in DOMAIN events, events[i].kind = "followup"
          PROVE  /\ events[i].box = "dispatching" => cand[events[i].cand].state = "dispatching"
                 /\ events[i].box \in {"unknown", "rejected"} => cand[events[i].cand].state = "needs_review"
      BY <2>2, <2>3, <2>7 DEF RowAgrees, OccurrenceAgrees
    <2>8. QED BY <2>4, <2>5, <2>6, <2>7 DEF OnePlanned
  <1>2. QED BY <1>1, FollowupsAgree, PTL

\* At most one send of an episode begins that no operator acknowledged, and no
\* draft's model call is paid twice, whatever crashes in between (recover and
\* resolve of the store, authorize_draft_call).
THEOREM NobodyAskedTwice == Spec => []NothingTwice
  <1>1. FollowupsInv => NothingTwice
    <2>1. SUFFICES ASSUME FollowupsInv PROVE NothingTwice
      OBVIOUS
    <2>2. AskedOnce
      <3>1. Len(sends) \in Nat /\ settled \in Nat
        BY <2>1 DEF FollowupsInv, RestTyped
      <3>2. QED BY <2>1, <3>1 DEF FollowupsInv, SendsAgree, AskedOnce
    <2>3. CalledOnce
      BY <2>1, JobsAre DEF DraftAgrees, CalledOnce
    <2>4. QED BY <2>2, <2>3 DEF NothingTwice
  <1>2. QED BY <1>1, FollowupsAgree, PTL

\* What the operator decided is what happens: a follow-up is sent as approved and
\* into a conversation that waits for no answer (ready and dispatch), a draft is
\* used as it was written (invalid_reason), and no candidate forms of an episode
\* that was ignored (discover).
THEOREM OperatorIsHeeded == Spec => OperatorDecides
  <1>1. FollowupsInv /\ [Next]_vars => [SentLawfully]_vars /\ [UsedLawfully]_vars /\ [IgnoredStands]_vars
    BY FollowupsNext DEF Lawful
  <1>2. QED BY <1>1, FollowupsAgree, PTL
        DEF Spec, OperatorDecides, SentAsApproved, DraftIsCurrent, IgnoredStaysIgnored,
            SentLawfully, UsedLawfully, IgnoredStands
================================================================================
