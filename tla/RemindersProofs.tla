---------------------------- MODULE RemindersProofs ----------------------------
(***************************************************************************)
(* Theorems about Reminders, for any tasks, requests, policies and bounds.  *)
(*                                                                         *)
(* The check of what is due, and a change of policy, go through the tasks   *)
(* in order.  What such a pass preserves is shown by induction over the     *)
(* tasks it has been through, for which the first part of this module has   *)
(* the means.                                                               *)
(***************************************************************************)
EXTENDS Reminders, SequenceTheorems, FiniteSetTheorems, WellFoundedInduction, TLAPS

-----------------------------------------------------------------------------
(* The inductive invariant.  What it says of the tables it says of any db, so *)
(* that it can be followed through a pass.                                    *)

TaskRow == [state : TaskState, ver : Nat, due : Nat, gen : Nat, char : Characters,
            mem : Nat, quiet : BOOLEAN, zoned : BOOLEAN, cancel : BOOLEAN]
Asked == Commands \cup {NoRequest} \cup [op : Characters] \cup [op : BOOLEAN]
EventRow == [kind : {"reminder", "command", "binding", "memory"}, task : Tasks \cup {0}, ver : Nat,
             state : Ended \cup {"queued", "generating", "outbox_ready", "needs_review"},
             box : {"none", "pending", "dispatching", "accepted", "rejected", "unknown", "cancelled"},
             at : Nat, req : Asked]
Tables == [task : [Tasks -> TaskRow], events : Seq(EventRow)]

Reminds(db, i, t) == i \in DOMAIN db.events /\ db.events[i].kind = "reminder" /\ db.events[i].task = t

\* What a row says of its task, as far as it has got.
OccurrenceAgrees(db, i) ==
  LET e == db.events[i]
      r == db.task[e.task] IN
  /\ e.task \in Tasks
  /\ \/ e.state = "queued" /\ e.box = "none" /\ r.state = "enqueued" /\ e.ver = r.ver
     \/ e.state = "outbox_ready" /\ e.box = "pending" /\ r.state = "enqueued" /\ e.ver = r.ver
     \/ e.state = "outbox_ready" /\ e.box = "dispatching" /\ r.state = "dispatching"
     \/ e.state = "needs_review" /\ e.box \in {"unknown", "rejected"} /\ r.state = "needs_review"
     \/ e.state = "completed" /\ e.box = "accepted"
     \/ e.state = "cancelled" /\ e.box \in {"none", "cancelled"}

OtherRowAgrees(e) ==
  /\ e.box = "none"
  /\ \/ e.kind = "command" /\ e.req \in Commands /\ e.state \in {"queued", "generating", "completed"}
     \/ e.kind = "binding" /\ e.req.op \in Characters /\ e.state \in {"queued", "completed"}
     \/ e.kind = "memory" /\ e.req.op \in BOOLEAN /\ e.state \in {"queued", "completed", "failed"}

RowsAgree(db) ==
  \A i \in DOMAIN db.events :
    /\ db.events[i].kind = "reminder" => OccurrenceAgrees(db, i)
    /\ db.events[i].kind # "reminder" => OtherRowAgrees(db.events[i])

\* A task that is under way has an open row, and there is one such row.
OneRow(db) ==
  /\ \A t \in Tasks : db.task[t].state \in Active => \E i \in Open(db.events) : Reminds(db, i, t)
  /\ \A i, j \in Open(db.events) :
       db.events[i].kind = "reminder" /\ db.events[j].kind = "reminder" => i = j

Unsent  == {"absent", "scheduled", "enqueued", "paused", "expired"}
Told(r) == [due |-> r.due, gen |-> r.gen, mem |-> r.mem, quiet |-> r.quiet]
Sent(t) == Cardinality({n \in DOMAIN sends : sends[n].task = t})

\* A task is what was authorized; it was sent as often as its state tells; and
\* what was stopped will not be sent.
TaskAgrees(t, r) ==
  /\ granted[t] = Told(r)
  /\ t \notin Linked => r.mem = 0
  /\ r.state \in Active => r.due <= now
  /\ r.state \in Unsent => Sent(t) = retries[t]
  /\ r.state \in {"dispatching", "needs_review"} => Sent(t) = 1 + retries[t]
  /\ Sent(t) \in 0..(1 + retries[t])
  /\ t \in stopped => r.state \in {"cancelled", "completed"} \/ (r.cancel /\ r.state \in {"dispatching", "needs_review"})

TasksAgree(db) == \A t \in Tasks : TaskAgrees(t, db.task[t])

WorkerAgrees(db) ==
  /\ worker.at \in {"command", "answered", "prepared", "sending"} => worker.row \in DOMAIN db.events
  /\ worker.at = "prepared" => db.events[worker.row].kind = "reminder"
  /\ worker.at = "sending" => db.events[worker.row].box = "dispatching"
  /\ \A i \in DOMAIN db.events : db.events[i].box = "dispatching" =>
       worker.at = "down" \/ (worker.at = "sending" /\ worker.row = i)
  /\ worker.at \in {"command", "answered"} =>
       db.events[worker.row].kind = "command" /\ db.events[worker.row].state = "generating"

TablesAgree(db) ==
  /\ db \in Tables /\ Len(db.events) <= MaxEvents
  /\ RowsAgree(db) /\ OneRow(db) /\ TasksAgree(db) /\ WorkerAgrees(db)

\* The answer that was given to a command is the one that is stored.
CommandsInv ==
  \A i \in 1..MaxEvents :
    /\ told[i] \subseteq {requests.user[i]}
    /\ requests.user[i] = "none" => told[i] = {}
    /\ ran[i] = IF requests.user[i] = "done" THEN 1 ELSE 0

\* The attempts are the sends; no two of them are of the same instant.
AttemptsInv ==
  /\ attempts = {[at |-> sends[n].at, kind |-> "reminder"] : n \in DOMAIN sends}
  /\ \A m, n \in DOMAIN sends : sends[m].at = sends[n].at => m = n
  /\ \A n \in DOMAIN sends : sends[n].at <= now

RestTyped ==
  /\ now \in 0..MaxTime
  /\ binding \in [char : Characters, gen : Nat]
  /\ memory \in [ver : Nat, open : BOOLEAN]
  /\ enabled \in BOOLEAN
  /\ policy \in [is : Policies, ver : Nat]
  /\ requests \in [user : [1..MaxEvents -> {"none", "done", "refused"}], admin : Nat]
  /\ worker \in [at : {"down", "idle", "command", "answered", "prepared", "sending"}, row : 0..MaxEvents]
  /\ crashes \in 0..MaxCrashes /\ changes \in 0..MaxChanges
  /\ granted \in [Tasks -> [due : Nat, gen : Nat, mem : Nat, quiet : BOOLEAN]]
  /\ stopped \subseteq Tasks
  /\ sends \in Seq([task : Tasks, at : Nat]) /\ retries \in [Tasks -> Nat]
  /\ ran \in [1..MaxEvents -> Nat] /\ told \in [1..MaxEvents -> SUBSET {"done", "refused"}]

RemindersInv == RestTyped /\ TablesAgree(Db) /\ CommandsInv /\ AttemptsInv

-----------------------------------------------------------------------------
(* Induction over a finite set, and the functions it defines *)

LEMMA LeastOf == ASSUME NEW S \in SUBSET Nat, S # {} PROVE \E n \in S : \A m \in S : n <= m
  <1>1. PICK n \in S : \A m \in S : ~(<<m, n>> \in OpToRel(<, Nat))
    BY NatLessThanWellFounded, WFMin
  <1>2. \A m \in S : ~(m < n)
    BY <1>1 DEF OpToRel
  <1>3. \A m \in S : m \in Nat
    OBVIOUS
  <1>4. QED BY <1>2, <1>3

\* C takes an element of every subset of S that has one.
Picks(C, S) == \A s \in SUBSET S : s # {} => C[s] \in s

\* What holds of the empty set, and of a set if it holds without the element that
\* is chosen from it, holds of all.
LEMMA FiniteInduction ==
  ASSUME NEW S, IsFiniteSet(S), NEW C, Picks(C, S),
         NEW H, {} \in H, \A s \in SUBSET S : s # {} /\ s \ {C[s]} \in H => s \in H
  PROVE  \A s \in SUBSET S : s \in H
  <1> DEFINE Bad == {s \in SUBSET S : s \notin H}
             Sizes == {Cardinality(s) : s \in Bad}
  <1>1. SUFFICES ASSUME Bad # {} PROVE FALSE
    OBVIOUS
  <1>2. \A s \in SUBSET S : IsFiniteSet(s) /\ Cardinality(s) \in Nat
    BY FS_Subset, FS_CardinalityType
  <1>3. PICK n \in Sizes : \A m \in Sizes : n <= m
    <2>1. Sizes \in SUBSET Nat /\ Sizes # {}
      BY <1>1, <1>2
    <2> HIDE DEF Sizes
    <2>2. QED BY <2>1, LeastOf
  <1>4. PICK s \in Bad : n = Cardinality(s)
    BY <1>3
  <1>5. s # {} /\ C[s] \in s /\ s \ {C[s]} \in SUBSET S
    BY <1>4 DEF Picks
  <1>6. Cardinality(s \ {C[s]}) = n - 1 /\ n \in Nat
    BY <1>2, <1>4, <1>5, FS_RemoveElement
  <1>7. s \ {C[s]} \notin Bad
    BY <1>3, <1>6
  <1>8. QED BY <1>4, <1>5, <1>7

Goes(f, s, C, base, F) == IF s = {} THEN base ELSE F[C[s]][f[s \ {C[s]}]]

\* From base, one of F for each element of S, in the order of C.
Passes(G, S, C, base, F) == \E f \in [SUBSET S -> G] : \A s \in SUBSET S : f[s] = Goes(f, s, C, base, F)

\* There is a function that is defined step by step.
LEMMA StepsDefine ==
  ASSUME NEW G, NEW S, IsFiniteSet(S), NEW C, Picks(C, S), NEW base \in G, NEW F \in [S -> [G -> G]]
  PROVE  Passes(G, S, C, base, F)
  <1> DEFINE Small(k) == {s \in SUBSET S : Cardinality(s) <= k}
             Good(k) == \E f \in [Small(k) -> G] : \A s \in Small(k) : f[s] = Goes(f, s, C, base, F)
             Ks == {k \in Nat : ~Good(k)}
  <1>1. \A s \in SUBSET S : IsFiniteSet(s) /\ Cardinality(s) \in Nat
    BY FS_Subset, FS_CardinalityType
  <1>2. \A k \in Nat, s \in SUBSET S : s \in Small(k + 1) /\ s # {} =>
          C[s] \in S /\ s \ {C[s]} \in Small(k)
    <2>1. SUFFICES ASSUME NEW k \in Nat, NEW s \in SUBSET S, Cardinality(s) <= k + 1, s # {}
                   PROVE  C[s] \in S /\ s \ {C[s]} \in SUBSET S /\ Cardinality(s \ {C[s]}) <= k
      OBVIOUS
    <2>2. C[s] \in s
      BY <2>1 DEF Picks
    <2>3. Cardinality(s \ {C[s]}) = Cardinality(s) - 1
      BY <1>1, <2>2, FS_RemoveElement
    <2>4. QED BY <1>1, <2>1, <2>2, <2>3
  <1>3. Good(0)
    <2> DEFINE f == [s \in Small(0) |-> base]
    <2>1. \A s \in Small(0) : s = {}
      BY <1>1, FS_EmptySet
    <2>2. f \in [Small(0) -> G] /\ \A s \in Small(0) : f[s] = Goes(f, s, C, base, F)
      BY <2>1 DEF Goes
    <2> HIDE DEF f
    <2>3. QED BY <2>2, Zenon
  <1>4. ASSUME NEW k \in Nat, Good(k) PROVE Good(k + 1)
    <2>1. PICK f \in [Small(k) -> G] : \A s \in Small(k) : f[s] = Goes(f, s, C, base, F)
      BY <1>4
    <2> DEFINE g == [s \in Small(k + 1) |-> Goes(f, s, C, base, F)]
    <2>2. ASSUME NEW s \in Small(k + 1) PROVE g[s] \in G
      <3>1. CASE s = {}
        BY <3>1 DEF Goes
      <3>2. CASE s # {}
        <4>1. f[s \ {C[s]}] \in G /\ C[s] \in S
          BY <1>2, <2>1, <3>2
        <4>2. F[C[s]] \in [G -> G]
          BY <4>1
        <4>3. F[C[s]][f[s \ {C[s]}]] \in G
          BY <4>1, <4>2
        <4>4. QED BY <3>2, <4>3 DEF Goes
      <3>3. QED BY <3>1, <3>2
    <2>3. ASSUME NEW s \in Small(k + 1) PROVE g[s] = Goes(g, s, C, base, F)
      <3>1. CASE s = {}
        BY <3>1 DEF Goes
      <3>2. CASE s # {}
        <4>1. s \ {C[s]} \in Small(k) /\ s \ {C[s]} \in SUBSET S
          BY <1>2, <3>2
        <4>2. s \ {C[s]} \in Small(k + 1)
          BY <1>1, <4>1
        <4>3. g[s \ {C[s]}] = f[s \ {C[s]}]
          BY <2>1, <4>1, <4>2
        <4>4. QED BY <3>2, <4>3 DEF Goes
      <3>3. QED BY <3>1, <3>2
    <2>4. g \in [Small(k + 1) -> G] /\ \A s \in Small(k + 1) : g[s] = Goes(g, s, C, base, F)
      BY <2>2, <2>3
    <2> HIDE DEF g, Small
    <2>5. QED BY <2>4, Zenon
  <1>5. \A k \in Nat : Good(k)
    <2>1. SUFFICES ASSUME Ks # {} PROVE FALSE
      <3> HIDE DEF Good
      <3>1. QED OBVIOUS
    <2> HIDE DEF Good
    <2>2. PICK k \in Ks : \A m \in Ks : k <= m
      BY <2>1, LeastOf
    <2>3. k # 0 /\ k - 1 \in Nat /\ k - 1 \notin Ks /\ k - 1 + 1 = k
      BY <1>3, <2>2
    <2>4. Good(k - 1)
      BY <2>3
    <2>5. Good(k - 1 + 1)
      BY <1>4, <2>3, <2>4
    <2>6. QED BY <2>2, <2>3, <2>5
  <1>6. Cardinality(S) \in Nat /\ Small(Cardinality(S)) = SUBSET S
    BY <1>1, FS_Subset, FS_CardinalityType
  <1>7. Good(Cardinality(S))
    <2> HIDE DEF Good
    <2>1. QED BY <1>5, <1>6
  <1>8. QED BY <1>6, <1>7 DEF Passes

-----------------------------------------------------------------------------
(* A pass over the tasks that wait *)

\* Of tasks that wait there is one that is due last.
LEMMA OneIsLast ==
  ASSUME Db \in Tables, NEW S \in SUBSET Tasks, S # {}
  PROVE  LastDue(S) \in S
  <1> DEFINE Before(s, t) == task[s].due < task[t].due \/ (task[s].due = task[t].due /\ s <= t)
             C == [s \in SUBSET S |-> CHOOSE t \in s : TRUE]
             H == {s \in SUBSET S : s = {} \/ \E t \in s : \A u \in s : Before(u, t)}
  <1>1. \A t \in Tasks : task[t].due \in Nat /\ t \in Nat
    BY RemindersAssumption DEF Tables, TaskRow, Db
  <1>2. IsFiniteSet(S)
    BY FS_Subset, RemindersAssumption
  <1>3. Picks(C, S)
    BY DEF Picks
  <1>4. ASSUME NEW s \in SUBSET S, s # {}, s \ {C[s]} \in H PROVE s \in H
    <2> DEFINE c == C[s]
    <2>1. c \in s
      BY <1>3, <1>4 DEF Picks
    <2> HIDE DEF c, C
    <2>2. CASE s \ {c} = {}
      <3>1. \A u \in s : u = c
        BY <2>2
      <3>2. Before(c, c)
        BY <1>1, <2>1
      <3>3. QED BY <2>1, <3>1, <3>2
    <2>3. CASE s \ {c} # {}
      <3>1. PICK t \in s \ {c} : \A u \in s \ {c} : Before(u, t)
        BY <1>4, <2>3 DEF c
      <3>2. c \in Tasks /\ t \in Tasks
        BY <2>1, <3>1
      <3>3. CASE Before(c, t)
        BY <3>1, <3>3
      <3>4. CASE ~Before(c, t)
        <4>1. \A u \in s : u # c => Before(u, t) /\ u \in Tasks
          BY <3>1
        <4>2. \A u \in s : Before(u, c)
          BY <1>1, <3>2, <3>4, <4>1
        <4>3. QED BY <2>1, <4>2
      <3>5. QED BY <3>3, <3>4
    <2>4. QED BY <2>2, <2>3
  <1> HIDE DEF C
  <1>5. S \in H
    <2> HIDE DEF H
    <2>1. {} \in H
      BY DEF H
    <2>2. QED BY <1>2, <1>3, <1>4, <2>1, FiniteInduction
  <1>6. QED BY <1>5 DEF LastDue

LEMMA WaitingTasks == Waiting \in SUBSET Tasks /\ IsFiniteSet(Waiting)
  BY FS_Subset, RemindersAssumption DEF Waiting

\* No row that is there begins to be sent.
NoneBegins(db, n) ==
  /\ DOMAIN db.events \subseteq DOMAIN n.events
  /\ \A i \in DOMAIN db.events : n.events[i].box = "dispatching" => db.events[i].box = "dispatching"

\* The step that brings h to the tasks of s keeps what agrees, and the other tasks.
EachKeeps(h) ==
  \A s \in SUBSET Waiting :
    s # {} /\ TablesAgree(h[s \ {LastDue(s)}])
      /\ h[s \ {LastDue(s)}].task[LastDue(s)].state \in {"scheduled", "enqueued"}
    => /\ TablesAgree(h[s]) /\ NoneBegins(h[s \ {LastDue(s)}], h[s])
       /\ \A u \in Tasks \ {LastDue(s)} : h[s].task[u] = h[s \ {LastDue(s)}].task[u]

\* A step for one waiting task that leaves the others alone, and the agreement of
\* the tables intact, leaves it intact when it is taken for all.
LEMMA PassKeeps ==
  ASSUME TablesAgree(Db), NEW h, h[{}] = Db, EachKeeps(h)
  PROVE  TablesAgree(h[Waiting]) /\ NoneBegins(Db, h[Waiting])
  <1> DEFINE H == {s \in SUBSET Waiting : TablesAgree(h[s]) /\ NoneBegins(Db, h[s])
                                          /\ \A u \in Waiting \ s : h[s].task[u] = task[u]}
             C == [s \in SUBSET Waiting |-> LastDue(s)]
  <1>1. \A s \in SUBSET Waiting : s # {} => C[s] \in s /\ C[s] = LastDue(s)
    BY OneIsLast, WaitingTasks DEF TablesAgree
  <1>2. {} \in H
    <2>1. h[{}].task = task
      BY DEF Db
    <2>2. TablesAgree(h[{}])
      OBVIOUS
    <2>3. NoneBegins(Db, h[{}])
      BY DEF NoneBegins
    <2>4. QED BY <2>1, <2>2, <2>3
  <1>3. ASSUME NEW s \in SUBSET Waiting, s # {}, s \ {C[s]} \in H PROVE s \in H
    <2> DEFINE t == LastDue(s)
    <2>1. t \in s /\ C[s] = t /\ t \in Tasks /\ t \in Waiting
      <3>1. C[s] \in s /\ C[s] = LastDue(s)
        BY <1>1, <1>3
      <3> HIDE DEF C
      <3>2. QED BY <3>1, <1>3, WaitingTasks
    <2> HIDE DEF C
    <2>2. TablesAgree(h[s \ {t}]) /\ NoneBegins(Db, h[s \ {t}]) /\ \A u \in Waiting \ (s \ {t}) : h[s \ {t}].task[u] = task[u]
      BY <1>3, <2>1
    <2>3. h[s \ {t}].task[t].state \in {"scheduled", "enqueued"}
      BY <2>1, <2>2 DEF Waiting
    <2>4. TablesAgree(h[s]) /\ NoneBegins(h[s \ {t}], h[s]) /\ \A u \in Tasks \ {t} : h[s].task[u] = h[s \ {t}].task[u]
      BY <1>3, <2>2, <2>3 DEF EachKeeps
    <2>5. \A u \in Waiting \ s : h[s].task[u] = task[u]
      BY <2>1, <2>2, <2>4, WaitingTasks
    <2>6. NoneBegins(Db, h[s])
      BY <2>2, <2>4 DEF NoneBegins
    <2>7. QED BY <2>4, <2>5, <2>6
  <1> HIDE DEF C
  <1>4. Waiting \in H
    <2>1. Picks(C, Waiting)
      BY <1>1 DEF Picks
    <2>2. \A s \in SUBSET Waiting : s # {} /\ s \ {C[s]} \in H => s \in H
      BY <1>3
    <2> HIDE DEF H
    <2>3. \A s \in SUBSET Waiting : s \in H
      BY <1>2, <2>1, <2>2, FiniteInduction, WaitingTasks
    <2>4. QED BY <2>3
  <1>5. QED BY <1>4

LEMMA PassDefined ==
  ASSUME Db \in Tables, NEW F \in [Tasks -> [Tables -> Tables]]
  PROVE  \E f \in [SUBSET Waiting -> Tables] : \A s \in SUBSET Waiting :
           f[s] = IF s = {} THEN Db ELSE F[LastDue(s)][f[s \ {LastDue(s)}]]
  <1> DEFINE C == [s \in SUBSET Waiting |-> LastDue(s)]
             E == [t \in Waiting |-> F[t]]
  <1>1. Picks(C, Waiting)
    BY OneIsLast, WaitingTasks DEF Picks
  <1>2. E \in [Waiting -> [Tables -> Tables]]
    BY WaitingTasks
  <1> HIDE DEF C, E
  <1>3. PICK f \in [SUBSET Waiting -> Tables] : \A s \in SUBSET Waiting : f[s] = Goes(f, s, C, Db, E)
    <2>1. Passes(Tables, Waiting, C, Db, E)
      BY <1>1, <1>2, StepsDefine, WaitingTasks
    <2>2. QED BY <2>1 DEF Passes
  <1>4. ASSUME NEW s \in SUBSET Waiting
        PROVE f[s] = IF s = {} THEN Db ELSE F[LastDue(s)][f[s \ {LastDue(s)}]]
    <2>1. CASE s = {}
      BY <1>3, <2>1 DEF Goes
    <2>2. CASE s # {}
      <3>1. C[s] = LastDue(s) /\ LastDue(s) \in Waiting
        BY <1>1, <2>2 DEF C, Picks
      <3>2. f[s \ {LastDue(s)}] \in Tables
        BY <1>3
      <3>3. E[LastDue(s)][f[s \ {LastDue(s)}]] = F[LastDue(s)][f[s \ {LastDue(s)}]]
        BY <3>1, <3>2 DEF E
      <3>4. QED BY <1>3, <2>2, <3>1, <3>3 DEF Goes
    <2>3. QED BY <2>1, <2>2
  <1>5. QED BY <1>4

-----------------------------------------------------------------------------
(* The updates of the tables *)

Moved(r, state) == [r EXCEPT !.state = state, !.ver = @ + 1]
Withdrawn(e) ==
  [e EXCEPT !.box   = IF @ = "pending" THEN "cancelled" ELSE @,
            !.state = IF @ \in {"queued", "generating", "outbox_ready"} THEN "cancelled" ELSE @]

LEMMA TablesHave ==
  ASSUME NEW db \in Tables
  PROVE  /\ db.task \in [Tasks -> TaskRow] /\ db.events \in Seq(EventRow)
         /\ DOMAIN db.events = 1..Len(db.events) /\ Len(db.events) \in Nat
         /\ \A i \in DOMAIN db.events : db.events[i] \in EventRow
         /\ db = [task |-> db.task, events |-> db.events]
  BY ElementOfSeq, LenProperties DEF Tables

LEMMA InvalidateIs ==
  ASSUME NEW db \in Tables, NEW t \in Tasks, NEW state \in TaskState
  PROVE  LET n == Invalidate(db, t, state) IN
         /\ n \in Tables /\ DOMAIN n.events = DOMAIN db.events /\ Len(n.events) = Len(db.events)
         /\ n.task = [db.task EXCEPT ![t] = Moved(db.task[t], state)]
         /\ \A i \in DOMAIN db.events :
              n.events[i] = IF IsOccurrence(db.events[i], t, db.task[t].ver)
                            THEN Withdrawn(db.events[i]) ELSE db.events[i]
  <1> DEFINE n == Invalidate(db, t, state)
             es == [i \in DOMAIN db.events |-> IF ~IsOccurrence(db.events[i], t, db.task[t].ver)
                                               THEN db.events[i] ELSE Withdrawn(db.events[i])]
             ts == [db.task EXCEPT ![t] = Moved(db.task[t], state)]
  <1>1. n = [task |-> ts, events |-> es]
    BY DEF Invalidate, Withdrawn, Moved
  <1>2. Moved(db.task[t], state) \in TaskRow
    <2>1. db.task[t] \in TaskRow
      BY TablesHave
    <2>2. db.task[t].ver \in Nat
      BY <2>1 DEF TaskRow
    <2>3. \A r \in TaskRow, v \in Nat : [r EXCEPT !.state = state, !.ver = v] \in TaskRow
      BY DEF TaskRow
    <2>4. \A r \in TaskRow : Moved(r, state) = [r EXCEPT !.state = state, !.ver = r.ver + 1]
      BY DEF Moved, TaskRow
    <2>5. db.task[t].ver + 1 \in Nat
      BY <2>2
    <2>6. QED BY <2>1, <2>3, <2>4, <2>5
  <1>3. ts \in [Tasks -> TaskRow]
    BY <1>2, TablesHave
  <1>4. \A e \in EventRow : Withdrawn(e) \in EventRow
    <2>1. SUFFICES ASSUME NEW e \in EventRow PROVE Withdrawn(e) \in EventRow
      OBVIOUS
    <2> DEFINE box == IF e.box = "pending" THEN "cancelled" ELSE e.box
               st  == IF e.state \in {"queued", "generating", "outbox_ready"} THEN "cancelled" ELSE e.state
    <2>2. box \in {"none", "pending", "dispatching", "accepted", "rejected", "unknown", "cancelled"}
          /\ st \in Ended \cup {"queued", "generating", "outbox_ready", "needs_review"}
      BY DEF EventRow, Ended
    <2>3. Withdrawn(e) = [e EXCEPT !.box = box, !.state = st]
      BY DEF Withdrawn
    <2> HIDE DEF box, st
    <2>4. QED BY <2>2, <2>3 DEF EventRow
  <1>5. es \in Seq(EventRow) /\ Len(es) = Len(db.events) /\ DOMAIN es = DOMAIN db.events
    <2>1. es \in [1..Len(db.events) -> EventRow]
      BY <1>4, TablesHave
    <2> HIDE DEF es
    <2>2. es \in Seq(EventRow)
      BY <2>1, TablesHave, SeqDef
    <2>3. QED BY <2>1, <2>2, TablesHave, LenProperties
  <1>6. \A i \in DOMAIN db.events :
          es[i] = IF IsOccurrence(db.events[i], t, db.task[t].ver) THEN Withdrawn(db.events[i]) ELSE db.events[i]
    OBVIOUS
  <1> HIDE DEF es, ts, n
  <1>7. n \in Tables /\ n.task = ts /\ n.events = es
    BY <1>1, <1>3, <1>5 DEF Tables
  <1>8. QED BY <1>5, <1>6, <1>7 DEF n, ts

LEMMA EnqueueIs ==
  ASSUME NEW db \in Tables, NEW t \in Tasks, now \in Nat
  PROVE  LET n == Enqueue(db, t)
             e == [Row("reminder") EXCEPT !.task = t, !.ver = db.task[t].ver] IN
         /\ n \in Tables /\ n.events = Append(db.events, e) /\ Len(n.events) = Len(db.events) + 1
         /\ DOMAIN n.events = DOMAIN db.events \cup {Len(db.events) + 1}
         /\ e \in EventRow /\ n.events[Len(db.events) + 1] = e
         /\ \A i \in DOMAIN db.events : n.events[i] = db.events[i]
         /\ n.task = [db.task EXCEPT ![t] = [db.task[t] EXCEPT !.state = "enqueued"]]
  <1> DEFINE n == Enqueue(db, t)
             e == [Row("reminder") EXCEPT !.task = t, !.ver = db.task[t].ver]
             ts == [db.task EXCEPT ![t] = [db.task[t] EXCEPT !.state = "enqueued"]]
  <1>1. n = [task |-> ts, events |-> Append(db.events, e)]
    BY DEF Enqueue
  <1>2. db.task[t] \in TaskRow /\ [db.task[t] EXCEPT !.state = "enqueued"] \in TaskRow
    BY TablesHave DEF TaskRow, TaskState, Active
  <1>3. ts \in [Tasks -> TaskRow]
    BY <1>2, TablesHave
  <1>4. e \in EventRow
    <2>1. db.task[t].ver \in Nat
      BY <1>2 DEF TaskRow
    <2>2. Row("reminder") \in EventRow
      BY DEF Row, EventRow, Asked
    <2>3. \A r \in EventRow, v \in Nat : [r EXCEPT !.task = t, !.ver = v] \in EventRow
      BY DEF EventRow
    <2>4. QED BY <2>1, <2>2, <2>3
  <1> HIDE DEF ts, e, n
  <1>5. Append(db.events, e) \in Seq(EventRow) /\ Len(Append(db.events, e)) = Len(db.events) + 1
        /\ (\A i \in 1..Len(db.events) : Append(db.events, e)[i] = db.events[i])
        /\ Append(db.events, e)[Len(db.events) + 1] = e
    BY <1>4, TablesHave, AppendProperties
  <1>6. n \in Tables /\ n.task = ts /\ n.events = Append(db.events, e)
    BY <1>1, <1>3, <1>5 DEF Tables
  <1>7. DOMAIN n.events = 1..(Len(db.events) + 1)
    BY <1>5, <1>6, TablesHave
  <1>8. QED BY <1>4, <1>5, <1>6, <1>7, TablesHave DEF n, e, ts

-----------------------------------------------------------------------------
(* What a withdrawal and an occurrence leave of the tables *)

LEMMA WithdrawnIs ==
  ASSUME NEW e \in EventRow
  PROVE  LET w == Withdrawn(e) IN
         /\ w.kind = e.kind /\ w.task = e.task /\ w.ver = e.ver /\ w.req = e.req
         /\ w.box = IF e.box = "pending" THEN "cancelled" ELSE e.box
         /\ w.state = IF e.state \in {"queued", "generating", "outbox_ready"} THEN "cancelled" ELSE e.state
  BY DEF Withdrawn, EventRow

LEMMA MovedIs ==
  ASSUME NEW r \in TaskRow, NEW state \in TaskState
  PROVE  LET m == Moved(r, state) IN
         /\ m.state = state /\ m.ver = r.ver + 1 /\ m.char = r.char /\ m.zoned = r.zoned
         /\ m.due = r.due /\ m.gen = r.gen /\ m.mem = r.mem /\ m.quiet = r.quiet /\ m.cancel = r.cancel
  BY DEF Moved, TaskRow

\* A task that is not being sent can be withdrawn from the queue.
LEMMA InvalidateKeeps ==
  ASSUME NEW db, TablesAgree(db), NEW t \in Tasks,
         db.task[t].state \in {"scheduled", "enqueued", "paused", "expired"},
         NEW state \in {"scheduled", "paused", "expired", "cancelled"}
  PROVE  TablesAgree(Invalidate(db, t, state))
  <1> DEFINE n == Invalidate(db, t, state)
             r == db.task[t]
  <1>1. db \in Tables /\ r \in TaskRow /\ state \in TaskState
    BY TablesHave DEF TablesAgree, TaskState
  <1>2. /\ n \in Tables /\ DOMAIN n.events = DOMAIN db.events /\ Len(n.events) = Len(db.events)
        /\ n.task = [db.task EXCEPT ![t] = Moved(r, state)]
        /\ \A i \in DOMAIN db.events :
             n.events[i] = IF IsOccurrence(db.events[i], t, r.ver) THEN Withdrawn(db.events[i]) ELSE db.events[i]
    BY <1>1, InvalidateIs
  <1> HIDE DEF n
  <1>3. n.task[t] = Moved(r, state) /\ \A u \in Tasks \ {t} : n.task[u] = db.task[u]
    BY <1>1, <1>2, TablesHave
  <1>4. /\ n.task[t].state = state /\ n.task[t].cancel = r.cancel /\ n.task[t].due = r.due
        /\ n.task[t].mem = r.mem /\ Told(n.task[t]) = Told(r)
    BY <1>1, <1>3, MovedIs DEF Told
  <1>5. ASSUME NEW i \in DOMAIN db.events
        PROVE  /\ n.events[i].kind = db.events[i].kind /\ n.events[i].task = db.events[i].task
               /\ n.events[i].box = db.events[i].box
                  \/ (n.events[i].box = "cancelled" /\ db.events[i].kind = "reminder" /\ db.events[i].box = "pending")
               /\ n.events[i].state = db.events[i].state
                  \/ (n.events[i].state = "cancelled" /\ db.events[i].kind = "reminder" /\ i \in Open(db.events))
    <2>1. db.events[i] \in EventRow
      BY <1>1, TablesHave
    <2>2. QED BY <1>2, <2>1, WithdrawnIs DEF IsOccurrence, Open, Ended
  <1>6. Open(n.events) \subseteq Open(db.events)
    BY <1>2, <1>5 DEF Open, Ended
  <1>7. ASSUME NEW i \in DOMAIN n.events, n.events[i].kind = "reminder" PROVE OccurrenceAgrees(n, i)
    <2>1. OccurrenceAgrees(db, i) /\ db.events[i].kind = "reminder" /\ i \in DOMAIN db.events
          /\ db.events[i] \in EventRow
      BY <1>1, <1>2, <1>5, <1>7, TablesHave DEF TablesAgree, RowsAgree
    <2>2. CASE db.events[i].task = t
      <3>1. CASE db.events[i].ver = r.ver
        <4>1. n.events[i] = Withdrawn(db.events[i])
          BY <1>2, <2>1, <2>2, <3>1 DEF IsOccurrence
        <4>2. QED BY <2>1, <2>2, <4>1, WithdrawnIs DEF OccurrenceAgrees
      <3>2. CASE db.events[i].ver # r.ver
        <4>1. n.events[i] = db.events[i]
          BY <1>2, <2>1, <3>2 DEF IsOccurrence
        <4>2. QED BY <2>1, <2>2, <3>2, <4>1 DEF OccurrenceAgrees
      <3>3. QED BY <3>1, <3>2
    <2>3. CASE db.events[i].task # t
      <3>1. n.events[i] = db.events[i]
        BY <1>2, <2>1, <2>3 DEF IsOccurrence
      <3>2. QED BY <1>3, <2>1, <2>3, <3>1 DEF OccurrenceAgrees
    <2>4. QED BY <2>2, <2>3
  <1>8. ASSUME NEW i \in DOMAIN n.events, n.events[i].kind # "reminder" PROVE OtherRowAgrees(n.events[i])
    <2>1. db.events[i].kind # "reminder" /\ i \in DOMAIN db.events
      BY <1>2, <1>5, <1>8
    <2>2. n.events[i] = db.events[i]
      BY <1>2, <2>1 DEF IsOccurrence
    <2>3. QED BY <2>1, <2>2 DEF TablesAgree, RowsAgree
  <1>9. OneRow(n)
    <2>1. ASSUME NEW u \in Tasks, n.task[u].state \in Active PROVE \E i \in Open(n.events) : Reminds(n, i, u)
      <3>1. u # t
        BY <1>4, <2>1 DEF Active
      <3>2. PICK i \in Open(db.events) : Reminds(db, i, u)
        BY <1>3, <2>1, <3>1 DEF TablesAgree, OneRow
      <3>3. n.events[i] = db.events[i]
        BY <1>2, <3>1, <3>2 DEF Reminds, IsOccurrence
      <3>4. QED BY <1>2, <3>2, <3>3 DEF Reminds, Open
    <2>2. \A i, j \in Open(n.events) : n.events[i].kind = "reminder" /\ n.events[j].kind = "reminder" => i = j
      BY <1>5, <1>6 DEF TablesAgree, OneRow, Open
    <2>3. QED BY <2>1, <2>2 DEF OneRow
  <1>10. TasksAgree(n)
    <2>1. TaskAgrees(t, r)
      BY DEF TablesAgree, TasksAgree
    <2>2. TaskAgrees(t, n.task[t])
      BY <1>4, <2>1 DEF TaskAgrees, Active, Unsent
    <2>3. QED BY <1>3, <2>2 DEF TablesAgree, TasksAgree
  <1>11. WorkerAgrees(n)
    BY <1>2, <1>5 DEF TablesAgree, WorkerAgrees, Open
  <1>12. QED BY <1>2, <1>7, <1>8, <1>9, <1>10, <1>11 DEF TablesAgree, RowsAgree, n

\* When nothing is under way, a task that is due can be put on the queue.
LEMMA EnqueueKeeps ==
  ASSUME now \in Nat, NEW db, TablesAgree(db), NEW t \in Tasks, MayEnqueue(db, t)
  PROVE  TablesAgree(Enqueue(db, t))
  <1> DEFINE n == Enqueue(db, t)
             r == db.task[t]
             e == [Row("reminder") EXCEPT !.task = t, !.ver = r.ver]
             last == Len(db.events) + 1
  <1>1. db \in Tables /\ r \in TaskRow /\ Len(db.events) \in Nat /\ DOMAIN db.events = 1..Len(db.events)
    BY TablesHave DEF TablesAgree
  <1>2. /\ n \in Tables /\ Len(n.events) = last /\ DOMAIN n.events = DOMAIN db.events \cup {last}
        /\ n.events[last] = e /\ \A i \in DOMAIN db.events : n.events[i] = db.events[i]
        /\ n.task = [db.task EXCEPT ![t] = [r EXCEPT !.state = "enqueued"]]
    BY <1>1, EnqueueIs
  <1>3. e.kind = "reminder" /\ e.task = t /\ e.ver = r.ver /\ e.state = "queued" /\ e.box = "none"
    BY DEF Row
  <1> HIDE DEF n, e
  <1>4. n.task[t] = [r EXCEPT !.state = "enqueued"] /\ \A u \in Tasks \ {t} : n.task[u] = db.task[u]
    BY <1>1, <1>2, TablesHave
  <1>5. /\ n.task[t].state = "enqueued" /\ n.task[t].cancel = r.cancel /\ n.task[t].due = r.due
        /\ n.task[t].mem = r.mem /\ n.task[t].ver = r.ver /\ Told(n.task[t]) = Told(r)
    BY <1>1, <1>4 DEF Told, TaskRow
  <1>6. r.state = "scheduled" /\ r.due <= now /\ Len(db.events) < MaxEvents
        /\ \A u \in Tasks : db.task[u].state \notin Active
    BY DEF MayEnqueue, HasActive, HasRoom
  <1>7. \A i \in Open(db.events) : db.events[i].kind # "reminder"
    <2>1. \A i \in DOMAIN db.events : db.events[i].kind = "reminder" => OccurrenceAgrees(db, i)
      BY DEF TablesAgree, RowsAgree
    <2>2. QED BY <1>6, <2>1 DEF OccurrenceAgrees, Open, Ended, Active
  <1>8. Open(n.events) = Open(db.events) \cup {last}
    BY <1>1, <1>2, <1>3 DEF Open, Ended
  <1>9. ASSUME NEW i \in DOMAIN n.events, n.events[i].kind = "reminder" PROVE OccurrenceAgrees(n, i)
    <2>1. CASE i = last
      BY <1>2, <1>3, <1>5, <2>1 DEF OccurrenceAgrees
    <2>2. CASE i # last
      <3>1. i \in DOMAIN db.events /\ n.events[i] = db.events[i] /\ OccurrenceAgrees(db, i) /\ i \notin Open(db.events)
        BY <1>2, <1>7, <1>9, <2>2 DEF TablesAgree, RowsAgree
      <3>2. QED BY <3>1 DEF OccurrenceAgrees, Open, Ended
    <2>3. QED BY <2>1, <2>2
  <1>10. ASSUME NEW i \in DOMAIN n.events, n.events[i].kind # "reminder" PROVE OtherRowAgrees(n.events[i])
    BY <1>2, <1>3, <1>10 DEF TablesAgree, RowsAgree
  <1>11. OneRow(n)
    <2>1. ASSUME NEW u \in Tasks, n.task[u].state \in Active PROVE \E i \in Open(n.events) : Reminds(n, i, u)
      <3>1. u = t
        BY <1>4, <1>6, <2>1
      <3>2. last \in Open(n.events) /\ Reminds(n, last, u)
        BY <1>2, <1>3, <1>8, <3>1 DEF Reminds
      <3>3. QED BY <3>2
    <2>2. \A i, j \in Open(n.events) : n.events[i].kind = "reminder" /\ n.events[j].kind = "reminder" => i = j
      <3>1. \A i \in Open(db.events) : n.events[i].kind # "reminder"
        BY <1>2, <1>7 DEF Open
      <3>2. QED BY <1>8, <3>1
    <2>3. QED BY <2>1, <2>2 DEF OneRow
  <1>12. TasksAgree(n)
    <2>1. TaskAgrees(t, r)
      BY DEF TablesAgree, TasksAgree
    <2>2. TaskAgrees(t, n.task[t])
      BY <1>5, <1>6, <2>1 DEF TaskAgrees, Active, Unsent
    <2>3. QED BY <1>4, <2>2 DEF TablesAgree, TasksAgree
  <1>13. WorkerAgrees(n)
    BY <1>2, <1>3 DEF TablesAgree, WorkerAgrees
  <1>14. Len(n.events) <= MaxEvents
    BY <1>1, <1>2, <1>6, RemindersAssumption
  <1>15. QED BY <1>2, <1>9, <1>10, <1>11, <1>12, <1>13, <1>14 DEF TablesAgree, RowsAgree, n

\* A row that is not an occurrence can be admitted.
Admitted(db, row) == [task |-> db.task, events |-> Append(db.events, row)]

LEMMA AdmitKeeps ==
  ASSUME NEW db, TablesAgree(db), NEW row \in EventRow, HasRoom(db.events),
         row.kind # "reminder", OtherRowAgrees(row)
  PROVE  TablesAgree(Admitted(db, row)) /\ \A i \in DOMAIN db.events : Admitted(db, row).events[i] = db.events[i]
  <1> DEFINE n == Admitted(db, row)
             last == Len(db.events) + 1
  <1>1. /\ db \in Tables /\ Len(db.events) \in Nat /\ DOMAIN db.events = 1..Len(db.events)
        /\ db.task \in [Tasks -> TaskRow] /\ db.events \in Seq(EventRow)
    BY TablesHave DEF TablesAgree
  <1>2. /\ Append(db.events, row) \in Seq(EventRow) /\ Len(Append(db.events, row)) = last
        /\ (\A i \in 1..Len(db.events) : Append(db.events, row)[i] = db.events[i])
        /\ Append(db.events, row)[last] = row
    BY <1>1, AppendProperties
  <1>3. n.task = db.task /\ n.events = Append(db.events, row) /\ n \in Tables
    BY <1>1, <1>2 DEF Admitted, Tables
  <1> HIDE DEF n
  <1>4. DOMAIN n.events = DOMAIN db.events \cup {last} /\ \A i \in DOMAIN db.events : n.events[i] = db.events[i]
    <2>1. DOMAIN n.events = 1..last
      BY <1>2, <1>3, LenProperties
    <2>2. QED BY <1>1, <1>2, <1>3, <2>1
  <1>5. n.events[last] = row
    BY <1>2, <1>3
  <1>6. RowsAgree(n)
    <2>1. ASSUME NEW i \in DOMAIN n.events, n.events[i].kind = "reminder" PROVE OccurrenceAgrees(n, i)
      <3>1. i \in DOMAIN db.events /\ n.events[i] = db.events[i]
        BY <1>4, <1>5, <2>1
      <3>2. QED BY <1>3, <2>1, <3>1 DEF TablesAgree, RowsAgree, OccurrenceAgrees
    <2>2. ASSUME NEW i \in DOMAIN n.events, n.events[i].kind # "reminder" PROVE OtherRowAgrees(n.events[i])
      BY <1>4, <1>5, <2>2 DEF TablesAgree, RowsAgree
    <2>3. QED BY <2>1, <2>2 DEF RowsAgree
  <1>7. OneRow(n)
    <2>1. ASSUME NEW i \in Open(n.events), n.events[i].kind = "reminder"
          PROVE  i \in Open(db.events) /\ db.events[i].kind = "reminder"
      BY <1>4, <1>5, <2>1 DEF Open
    <2>2. \A i \in Open(db.events) : i \in Open(n.events) /\ n.events[i] = db.events[i]
      BY <1>4 DEF Open
    <2>3. QED BY <1>3, <1>4, <2>1, <2>2 DEF TablesAgree, OneRow, Reminds, Open
  <1>8. TasksAgree(n) /\ WorkerAgrees(n)
    BY <1>3, <1>4, <1>5 DEF TablesAgree, TasksAgree, WorkerAgrees, OtherRowAgrees
  <1>9. Len(n.events) <= MaxEvents
    BY <1>1, <1>2, <1>3, RemindersAssumption DEF HasRoom
  <1>10. QED BY <1>3, <1>4, <1>6, <1>7, <1>8, <1>9 DEF TablesAgree, n

-----------------------------------------------------------------------------
(* The two passes *)

LEMMA EligibilityIs ==
  ASSUME NEW db, NEW t PROVE Eligibility(db, t) \in {"cancelled", "expired", "paused", "ok"}
  BY DEF Eligibility

LEMMA InvalidateBeginsNone ==
  ASSUME NEW db \in Tables, NEW t \in Tasks, NEW state \in TaskState
  PROVE  /\ NoneBegins(db, Invalidate(db, t, state))
         /\ \A u \in Tasks \ {t} : Invalidate(db, t, state).task[u] = db.task[u]
  <1> DEFINE n == Invalidate(db, t, state)
  <1>1. /\ n \in Tables /\ DOMAIN n.events = DOMAIN db.events
        /\ n.task = [db.task EXCEPT ![t] = Moved(db.task[t], state)]
        /\ \A i \in DOMAIN db.events :
             n.events[i] = IF IsOccurrence(db.events[i], t, db.task[t].ver)
                           THEN Withdrawn(db.events[i]) ELSE db.events[i]
    BY InvalidateIs
  <1> HIDE DEF n
  <1>2. \A i \in DOMAIN db.events : n.events[i].box = "dispatching" => db.events[i].box = "dispatching"
    <2>1. SUFFICES ASSUME NEW i \in DOMAIN db.events, n.events[i].box = "dispatching"
                   PROVE  db.events[i].box = "dispatching"
      OBVIOUS
    <2>2. db.events[i] \in EventRow
      BY TablesHave
    <2>3. QED BY <1>1, <2>1, <2>2, WithdrawnIs
  <1>3. \A u \in Tasks \ {t} : n.task[u] = db.task[u]
    BY <1>1, TablesHave
  <1>4. QED BY <1>1, <1>2, <1>3 DEF NoneBegins, n

LEMMA TickTaskTyped ==
  ASSUME now \in Nat, NEW db \in Tables, NEW t \in Tasks PROVE TickTask(db, t) \in Tables
  <1>1. \A state \in TaskState : Invalidate(db, t, state) \in Tables
    BY InvalidateIs
  <1>2. Enqueue(db, t) \in Tables
    BY EnqueueIs
  <1>3. Eligibility(db, t) # "ok" => Eligibility(db, t) \in TaskState
    BY EligibilityIs DEF TaskState
  <1>4. Defer(db, t) \in Tables
    BY <1>1 DEF Defer, TaskState
  <1>5. QED BY <1>1, <1>2, <1>3, <1>4 DEF TickTask

LEMMA TickTaskKeeps ==
  ASSUME now \in Nat, NEW db, TablesAgree(db), NEW t \in Tasks, db.task[t].state \in {"scheduled", "enqueued"}
  PROVE  /\ TablesAgree(TickTask(db, t)) /\ NoneBegins(db, TickTask(db, t))
         /\ \A u \in Tasks \ {t} : TickTask(db, t).task[u] = db.task[u]
  <1> DEFINE Fine(n) == TablesAgree(n) /\ NoneBegins(db, n) /\ \A u \in Tasks \ {t} : n.task[u] = db.task[u]
  <1>1. db \in Tables
    BY DEF TablesAgree
  <1>2. \A state \in {"scheduled", "paused", "expired", "cancelled"} : Fine(Invalidate(db, t, state))
    BY <1>1, InvalidateKeeps, InvalidateBeginsNone DEF TaskState
  <1>3. MayEnqueue(db, t) => Fine(Enqueue(db, t))
    <2>1. SUFFICES ASSUME MayEnqueue(db, t) PROVE Fine(Enqueue(db, t))
      OBVIOUS
    <2>2. TablesAgree(Enqueue(db, t))
      BY <2>1, EnqueueKeeps
    <2>3. NoneBegins(db, Enqueue(db, t))
      <3>1. DOMAIN Enqueue(db, t).events = DOMAIN db.events \cup {Len(db.events) + 1}
        BY <1>1, EnqueueIs
      <3>2. \A i \in DOMAIN db.events : Enqueue(db, t).events[i] = db.events[i]
        BY <1>1, EnqueueIs
      <3>3. QED BY <3>1, <3>2 DEF NoneBegins
    <2>4. \A u \in Tasks \ {t} : Enqueue(db, t).task[u] = db.task[u]
      <3>1. Enqueue(db, t).task = [db.task EXCEPT ![t] = [db.task[t] EXCEPT !.state = "enqueued"]]
        BY <1>1, EnqueueIs
      <3>2. QED BY <1>1, <3>1, TablesHave
    <2>5. QED BY <2>2, <2>3, <2>4
  <1>4. Fine(db)
    BY DEF NoneBegins
  <1>5. Fine(Defer(db, t))
    BY <1>2, <1>4 DEF Defer
  <1>6. Eligibility(db, t) # "ok" => Fine(Invalidate(db, t, Eligibility(db, t)))
    BY <1>2, EligibilityIs
  <1> HIDE DEF Fine
  <1>7. Fine(TickTask(db, t))
    BY <1>3, <1>4, <1>5, <1>6 DEF TickTask
  <1>8. QED BY <1>7 DEF Fine

LEMMA ReconcileTaskTyped ==
  ASSUME NEW db \in Tables, NEW t \in Tasks, NEW p PROVE ReconcileTask(db, t, p) \in Tables
  <1>1. Invalidate(db, t, "expired") \in Tables /\ Invalidate(db, t, "scheduled") \in Tables
    BY InvalidateIs DEF TaskState
  <1>2. QED BY <1>1 DEF ReconcileTask, Defer

LEMMA ReconcileTaskKeeps ==
  ASSUME NEW db, TablesAgree(db), NEW t \in Tasks, db.task[t].state \in {"scheduled", "enqueued"}, NEW p
  PROVE  /\ TablesAgree(ReconcileTask(db, t, p)) /\ NoneBegins(db, ReconcileTask(db, t, p))
         /\ \A u \in Tasks \ {t} : ReconcileTask(db, t, p).task[u] = db.task[u]
  <1> DEFINE Fine(n) == TablesAgree(n) /\ NoneBegins(db, n) /\ \A u \in Tasks \ {t} : n.task[u] = db.task[u]
  <1>1. db \in Tables
    BY DEF TablesAgree
  <1>2. \A state \in {"scheduled", "paused", "expired", "cancelled"} : Fine(Invalidate(db, t, state))
    BY <1>1, InvalidateKeeps, InvalidateBeginsNone DEF TaskState
  <1>3. Fine(db)
    BY DEF NoneBegins
  <1> HIDE DEF Fine
  <1>4. Fine(ReconcileTask(db, t, p))
    BY <1>2, <1>3 DEF ReconcileTask, Defer
  <1>5. QED BY <1>4 DEF Fine

LEMMA TickPass ==
  ASSUME now \in Nat, TablesAgree(Db)
  PROVE  TablesAgree(EachWaiting(TickTask)) /\ NoneBegins(Db, EachWaiting(TickTask))
  <1> DEFINE F == [t \in Tasks |-> [db \in Tables |-> TickTask(db, t)]]
             Is(h) == h = [s \in SUBSET Waiting |-> IF s = {} THEN Db
                                                    ELSE TickTask(h[s \ {LastDue(s)}], LastDue(s))]
             iter == CHOOSE h : Is(h)
  <1>1. Db \in Tables
    BY DEF TablesAgree
  <1>2. F \in [Tasks -> [Tables -> Tables]]
    BY TickTaskTyped
  <1>3. PICK f \in [SUBSET Waiting -> Tables] : \A s \in SUBSET Waiting :
          f[s] = IF s = {} THEN Db ELSE F[LastDue(s)][f[s \ {LastDue(s)}]]
    <2> HIDE DEF F
    <2>1. QED BY <1>1, <1>2, PassDefined
  <1>4. ASSUME NEW s \in SUBSET Waiting
        PROVE f[s] = IF s = {} THEN Db ELSE TickTask(f[s \ {LastDue(s)}], LastDue(s))
    <2>1. CASE s = {}
      BY <1>3, <2>1
    <2>2. CASE s # {}
      <3>1. LastDue(s) \in Tasks /\ f[s \ {LastDue(s)}] \in Tables
        BY <1>1, <1>3, <2>2, OneIsLast, WaitingTasks
      <3>2. F[LastDue(s)][f[s \ {LastDue(s)}]] = TickTask(f[s \ {LastDue(s)}], LastDue(s))
        BY <3>1
      <3> HIDE DEF F
      <3>3. QED BY <1>3, <2>2, <3>2
    <2>3. QED BY <2>1, <2>2
  <1>5. Is(f)
    BY <1>3, <1>4
  <1>6. Is(iter)
    <2> HIDE DEF Is
    <2>1. QED BY <1>5
  <1>7. EachWaiting(TickTask) = iter[Waiting]
    BY DEF EachWaiting, MapThenFoldSet
  <1> HIDE DEF iter
  <1>8. iter[{}] = Db
    BY <1>6
  <1>9. ASSUME NEW s \in SUBSET Waiting, s # {}, TablesAgree(iter[s \ {LastDue(s)}]),
               iter[s \ {LastDue(s)}].task[LastDue(s)].state \in {"scheduled", "enqueued"}
        PROVE  /\ TablesAgree(iter[s]) /\ NoneBegins(iter[s \ {LastDue(s)}], iter[s])
               /\ \A u \in Tasks \ {LastDue(s)} : iter[s].task[u] = iter[s \ {LastDue(s)}].task[u]
    <2>1. iter[s] = TickTask(iter[s \ {LastDue(s)}], LastDue(s))
      BY <1>6, <1>9
    <2>2. LastDue(s) \in Tasks
      BY <1>1, <1>9, OneIsLast, WaitingTasks
    <2> DEFINE t == LastDue(s)
               db == iter[s \ {t}]
    <2>3. TablesAgree(db) /\ t \in Tasks /\ db.task[t].state \in {"scheduled", "enqueued"} /\ iter[s] = TickTask(db, t)
      BY <1>9, <2>1, <2>2
    <2> HIDE DEF t, db
    <2>4. TablesAgree(iter[s]) /\ NoneBegins(db, iter[s]) /\ \A u \in Tasks \ {t} : iter[s].task[u] = db.task[u]
      BY <2>3, TickTaskKeeps
    <2>5. QED BY <2>4 DEF t, db
  <1>10. EachKeeps(iter)
    BY <1>9 DEF EachKeeps
  <1>11. TablesAgree(iter[Waiting]) /\ NoneBegins(Db, iter[Waiting])
    BY <1>8, <1>10, PassKeeps
  <1>12. QED BY <1>7, <1>11

LEMMA ReconcilePass ==
  ASSUME NEW p, TablesAgree(Db)
  PROVE  TablesAgree(Reconciled(p)) /\ NoneBegins(Db, Reconciled(p))
  <1> DEFINE F == [t \in Tasks |-> [db \in Tables |-> ReconcileTask(db, t, p)]]
             Is(h) == h = [s \in SUBSET Waiting |-> IF s = {} THEN Db
                                                    ELSE ReconcileTask(h[s \ {LastDue(s)}], LastDue(s), p)]
             iter == CHOOSE h : Is(h)
  <1>1. Db \in Tables
    BY DEF TablesAgree
  <1>2. F \in [Tasks -> [Tables -> Tables]]
    BY ReconcileTaskTyped
  <1>3. PICK f \in [SUBSET Waiting -> Tables] : \A s \in SUBSET Waiting :
          f[s] = IF s = {} THEN Db ELSE F[LastDue(s)][f[s \ {LastDue(s)}]]
    <2> HIDE DEF F
    <2>1. QED BY <1>1, <1>2, PassDefined
  <1>4. ASSUME NEW s \in SUBSET Waiting
        PROVE f[s] = IF s = {} THEN Db ELSE ReconcileTask(f[s \ {LastDue(s)}], LastDue(s), p)
    <2>1. CASE s = {}
      BY <1>3, <2>1
    <2>2. CASE s # {}
      <3>1. LastDue(s) \in Tasks /\ f[s \ {LastDue(s)}] \in Tables
        BY <1>1, <1>3, <2>2, OneIsLast, WaitingTasks
      <3>2. F[LastDue(s)][f[s \ {LastDue(s)}]] = ReconcileTask(f[s \ {LastDue(s)}], LastDue(s), p)
        BY <3>1
      <3> HIDE DEF F
      <3>3. QED BY <1>3, <2>2, <3>2
    <2>3. QED BY <2>1, <2>2
  <1>5. Is(f)
    BY <1>3, <1>4
  <1>6. Is(iter)
    <2> HIDE DEF Is
    <2>1. QED BY <1>5
  <1>7. Reconciled(p) = iter[Waiting]
    BY DEF Reconciled, EachWaiting, MapThenFoldSet
  <1> HIDE DEF iter
  <1>8. iter[{}] = Db
    BY <1>6
  <1>9. ASSUME NEW s \in SUBSET Waiting, s # {}, TablesAgree(iter[s \ {LastDue(s)}]),
               iter[s \ {LastDue(s)}].task[LastDue(s)].state \in {"scheduled", "enqueued"}
        PROVE  /\ TablesAgree(iter[s]) /\ NoneBegins(iter[s \ {LastDue(s)}], iter[s])
               /\ \A u \in Tasks \ {LastDue(s)} : iter[s].task[u] = iter[s \ {LastDue(s)}].task[u]
    <2>1. iter[s] = ReconcileTask(iter[s \ {LastDue(s)}], LastDue(s), p)
      BY <1>6, <1>9
    <2>2. LastDue(s) \in Tasks
      BY <1>1, <1>9, OneIsLast, WaitingTasks
    <2> DEFINE t == LastDue(s)
               db == iter[s \ {t}]
    <2>3. TablesAgree(db) /\ t \in Tasks /\ db.task[t].state \in {"scheduled", "enqueued"} /\ iter[s] = ReconcileTask(db, t, p)
      BY <1>9, <2>1, <2>2
    <2> HIDE DEF t, db
    <2>4. TablesAgree(iter[s]) /\ NoneBegins(db, iter[s]) /\ \A u \in Tasks \ {t} : iter[s].task[u] = db.task[u]
      BY <2>3, ReconcileTaskKeeps
    <2>5. QED BY <2>4 DEF t, db
  <1>10. EachKeeps(iter)
    BY <1>9 DEF EachKeeps
  <1>11. TablesAgree(iter[Waiting]) /\ NoneBegins(Db, iter[Waiting])
    BY <1>8, <1>10, PassKeeps
  <1>12. QED BY <1>7, <1>11

-----------------------------------------------------------------------------
(* The actions *)

LEMMA SameTables ==
  ASSUME NEW n, (Db)' = n, RowsAgree(n), OneRow(n) PROVE RowsAgree(Db)' /\ OneRow(Db)'
  <1>1. RowsAgree(Db)'
    BY DEF RowsAgree, OccurrenceAgrees
  <1>2. OneRow(Db)'
    BY DEF OneRow, Open, Reminds
  <1>3. QED BY <1>1, <1>2

LEMMA StoreKeeps ==
  ASSUME NEW db, TablesAgree(db), Store(db), UNCHANGED <<now, worker, granted, stopped, sends, retries>>
  PROVE  TablesAgree(Db)'
  <1>1. (Db)' = db
    BY TablesHave DEF TablesAgree, Store, Db
  <1>2. RowsAgree(Db)' /\ OneRow(Db)'
    BY <1>1, SameTables DEF TablesAgree
  <1>3. TasksAgree(Db)' /\ WorkerAgrees(Db)'
    BY <1>1, ZenonT(40) DEF TablesAgree, TasksAgree, TaskAgrees, Sent, WorkerAgrees
  <1>4. QED BY <1>1, <1>2, <1>3 DEF TablesAgree

\* What the tables say without the worker.
DataAgree(db) ==
  /\ db \in Tables /\ Len(db.events) <= MaxEvents
  /\ RowsAgree(db) /\ OneRow(db) /\ TasksAgree(db)

\* Of each row that is being sent, and of every row that is no occurrence.
RowsStand(es, fs) ==
  /\ DOMAIN fs = DOMAIN es
  /\ \A i \in DOMAIN es : /\ fs[i].kind = es[i].kind /\ (fs[i].box = "dispatching" <=> es[i].box = "dispatching")
                          /\ es[i].kind # "reminder" => fs[i] = es[i]

LEMMA WorkerStands ==
  ASSUME NEW db, WorkerAgrees(db), RowsStand(db.events, events'), worker' = worker PROVE WorkerAgrees(Db)'
  <1>1. (Db)'.events = events'
    BY DEF Db
  <1>2. QED BY <1>1 DEF WorkerAgrees, RowsStand

LEMMA InvalidateStands ==
  ASSUME NEW db \in Tables, NEW t \in Tasks, NEW state \in TaskState
  PROVE  RowsStand(db.events, Invalidate(db, t, state).events)
  <1> DEFINE n == Invalidate(db, t, state)
  <1>1. /\ DOMAIN n.events = DOMAIN db.events
        /\ \A i \in DOMAIN db.events :
             n.events[i] = IF IsOccurrence(db.events[i], t, db.task[t].ver)
                           THEN Withdrawn(db.events[i]) ELSE db.events[i]
    BY InvalidateIs
  <1> HIDE DEF n
  <1>2. ASSUME NEW i \in DOMAIN db.events
        PROVE  /\ n.events[i].kind = db.events[i].kind
               /\ n.events[i].box = "dispatching" <=> db.events[i].box = "dispatching"
               /\ db.events[i].kind # "reminder" => n.events[i] = db.events[i]
    <2>1. db.events[i] \in EventRow
      BY TablesHave
    <2>2. QED BY <1>1, <2>1, WithdrawnIs DEF IsOccurrence
  <1>3. QED BY <1>1, <1>2 DEF RowsStand, n

Renewed(old, r) ==
  [old EXCEPT !.state = "scheduled", !.due = r.due, !.gen = binding.gen, !.char = binding.char,
              !.mem = LinkedVersion(r.task), !.quiet = r.quiet, !.zoned = r.zoned, !.cancel = FALSE]

LEMMA RescheduleIs ==
  ASSUME RestTyped, NEW db \in Tables, NEW r \in Request
  PROVE  LET new == Renewed(db.task[r.task], r) IN
         /\ Reschedule(db, r) = [task |-> [db.task EXCEPT ![r.task] = new], events |-> db.events]
         /\ new \in TaskRow /\ Reschedule(db, r) \in Tables
         /\ new.state = "scheduled" /\ new.cancel = FALSE
         /\ Told(new) = [due |-> r.due, gen |-> binding.gen, mem |-> LinkedVersion(r.task), quiet |-> r.quiet]
         /\ new.mem = LinkedVersion(r.task)
  <1> DEFINE old == db.task[r.task]
             new == Renewed(old, r)
             ts == [db.task EXCEPT ![r.task] = new]
  <1>1. /\ r.task \in Tasks /\ r.due \in Nat /\ r.quiet \in BOOLEAN /\ r.zoned \in BOOLEAN
        /\ binding.gen \in Nat /\ binding.char \in Characters /\ LinkedVersion(r.task) \in Nat
    BY RemindersAssumption, SMTT(30) DEF Request, RestTyped, LinkedVersion
  <1>2. old \in TaskRow
    BY <1>1, TablesHave
  <1> HIDE DEF old
  <1>3. new \in TaskRow
    <2> DEFINE a == [old EXCEPT !.state = "scheduled", !.due = r.due, !.gen = binding.gen, !.char = binding.char]
    <2>1. a \in TaskRow
      BY <1>1, <1>2 DEF TaskRow, TaskState
    <2>2. new = [a EXCEPT !.mem = LinkedVersion(r.task), !.quiet = r.quiet, !.zoned = r.zoned, !.cancel = FALSE]
      BY DEF Renewed
    <2> HIDE DEF a, new
    <2>3. QED BY <1>1, <2>1, <2>2 DEF TaskRow
  <1>4. /\ new.state = "scheduled" /\ new.cancel = FALSE /\ new.due = r.due /\ new.gen = binding.gen
        /\ new.mem = LinkedVersion(r.task) /\ new.quiet = r.quiet
    BY <1>2 DEF Renewed, TaskRow
  <1>5. Reschedule(db, r) = [db EXCEPT !.task = [db.task EXCEPT ![r.task] = new]]
    BY <1>1, TablesHave DEF Reschedule, Renewed, old
  <1> HIDE DEF new
  <1>6. Reschedule(db, r) = [task |-> ts, events |-> db.events]
    BY <1>5, TablesHave
  <1>7. ts \in [Tasks -> TaskRow] /\ db.events \in Seq(EventRow)
    BY <1>1, <1>3, TablesHave
  <1>8. Reschedule(db, r) \in Tables
    BY <1>6, <1>7 DEF Tables
  <1>9. QED BY <1>3, <1>4, <1>6, <1>8 DEF Told, old, new

\* A task that is not under way gets the time that was asked for.
LEMMA RescheduleKeeps ==
  ASSUME RestTyped, NEW db, DataAgree(db), NEW r \in Request, db.task[r.task].state \in {"absent", "scheduled"},
         Store(Reschedule(db, r)), UNCHANGED <<now, stopped, sends, retries>>,
         granted' = [granted EXCEPT ![r.task] =
           [due |-> r.due, gen |-> binding.gen, mem |-> LinkedVersion(r.task), quiet |-> r.quiet]]
  PROVE  DataAgree(Db)' /\ events' = db.events
  <1> DEFINE t == r.task
             old == db.task[t]
             new == Renewed(old, r)
  <1>1. db \in Tables /\ t \in Tasks /\ granted \in [Tasks -> [due : Nat, gen : Nat, mem : Nat, quiet : BOOLEAN]]
    BY DEF DataAgree, Request, RestTyped
  <1>2. /\ Reschedule(db, r) = [task |-> [db.task EXCEPT ![t] = new], events |-> db.events]
        /\ Reschedule(db, r) \in Tables
        /\ new.state = "scheduled" /\ new.mem = LinkedVersion(t)
        /\ Told(new) = [due |-> r.due, gen |-> binding.gen, mem |-> LinkedVersion(t), quiet |-> r.quiet]
    BY <1>1, RescheduleIs
  <1>3. task' = [db.task EXCEPT ![t] = new] /\ events' = db.events
    BY <1>2 DEF Store
  <1> HIDE DEF new, old, t
  <1>4. task'[t] = new /\ \A u \in Tasks \ {t} : task'[u] = db.task[u]
    BY <1>1, <1>3, TablesHave
  <1>5. (Db)' \in Tables /\ Len(events') <= MaxEvents
    <2>1. (Db)' = Reschedule(db, r)
      BY <1>2, <1>3 DEF Db
    <2>2. QED BY <1>2, <1>3, <2>1 DEF DataAgree
  <1>6. old.state \notin Active /\ \A i \in Open(db.events) : db.events[i].kind = "reminder" => db.events[i].task # t
    <2>1. old.state \notin Active
      BY DEF old, t, Active
    <2>2. \A i \in DOMAIN db.events : db.events[i].kind = "reminder" => OccurrenceAgrees(db, i)
      BY DEF DataAgree, RowsAgree
    <2>3. QED BY <2>1, <2>2 DEF OccurrenceAgrees, Open, Ended, old, Active
  <1>7. RowsAgree(Db)'
    <2>1. ASSUME NEW i \in DOMAIN events', events'[i].kind = "reminder" PROVE OccurrenceAgrees(Db, i)'
      <3>1. OccurrenceAgrees(db, i) /\ i \in DOMAIN db.events /\ db.events[i].kind = "reminder"
        BY <1>3, <2>1 DEF DataAgree, RowsAgree
      <3>2. CASE i \in Open(db.events)
        <4>1. db.events[i].task \in Tasks \ {t}
          BY <1>6, <3>1, <3>2 DEF OccurrenceAgrees
        <4>2. QED BY <1>3, <1>4, <3>1, <4>1 DEF OccurrenceAgrees, Db
      <3>3. CASE i \notin Open(db.events)
        BY <1>3, <3>1, <3>3 DEF OccurrenceAgrees, Open, Ended, Db
      <3>4. QED BY <3>2, <3>3
    <2>2. ASSUME NEW i \in DOMAIN events', events'[i].kind # "reminder" PROVE OtherRowAgrees(events'[i])
      BY <1>3, <2>2 DEF DataAgree, RowsAgree
    <2>3. (Db)'.events = events'
      BY DEF Db
    <2>4. QED BY <2>1, <2>2, <2>3 DEF RowsAgree
  <1>8. OneRow(Db)'
    <2>1. ASSUME NEW u \in Tasks, task'[u].state \in Active PROVE \E i \in Open(events') : Reminds(Db, i, u)'
      <3>1. u # t
        BY <1>2, <1>4, <2>1 DEF Active
      <3>2. QED BY <1>3, <1>4, <2>1, <3>1 DEF DataAgree, OneRow, Reminds, Db
    <2>2. QED BY <1>3, <2>1 DEF DataAgree, OneRow, Db, Open
  <1>9. TasksAgree(Db)'
    <2>1. ASSUME NEW u \in Tasks PROVE TaskAgrees(u, task[u])'
      <3>1. TaskAgrees(u, db.task[u])
        BY DEF DataAgree, TasksAgree
      <3>2. CASE u = t
        <4>1. granted'[t] = Told(new)
          BY <1>1, <1>2 DEF t
        <4>2. db.task[t].state \in {"absent", "scheduled"}
          BY DEF t
        <4>3. t \notin Linked => new.mem = 0
          BY <1>2 DEF LinkedVersion
        <4>4. new.state = "scheduled"
          BY <1>2
        <4>5. QED BY <1>4, <3>1, <3>2, <4>1, <4>2, <4>3, <4>4 DEF TaskAgrees, Active, Unsent, Sent
      <3>3. CASE u # t
        <4>1. granted'[u] = granted[u] /\ task'[u] = db.task[u]
          BY <1>1, <1>4, <3>3 DEF t
        <4>2. QED BY <3>1, <4>1 DEF TaskAgrees, Sent
      <3>4. QED BY <3>2, <3>3
    <2>2. QED BY <2>1 DEF TasksAgree, Db
  <1>10. (Db)'.events = events'
    BY DEF Db
  <1>11. QED BY <1>3, <1>5, <1>7, <1>8, <1>9, <1>10 DEF DataAgree

Flagged(r) == [r EXCEPT !.cancel = TRUE, !.ver = @ + 1]

LEMMA FlaggedIs ==
  ASSUME NEW r \in TaskRow
  PROVE  LET f == Flagged(r) IN
         /\ f \in TaskRow /\ f.state = r.state /\ f.cancel = TRUE /\ f.mem = r.mem /\ f.due = r.due
         /\ Told(f) = Told(r)
  <1>1. r.ver \in Nat /\ Flagged(r) = [r EXCEPT !.cancel = TRUE, !.ver = r.ver + 1]
    BY DEF Flagged, TaskRow
  <1>2. r.ver + 1 \in Nat
    BY <1>1
  <1>3. \A v \in Nat : [r EXCEPT !.cancel = TRUE, !.ver = v] \in TaskRow
    BY DEF TaskRow
  <1>4. Flagged(r) \in TaskRow
    BY <1>1, <1>2, <1>3
  <1>5. QED BY <1>1, <1>4 DEF Told, TaskRow

\* A cancellation takes the task off the queue, or marks what is being sent.
LEMMA CancelKeeps ==
  ASSUME RestTyped, NEW db, TablesAgree(db), db.task = task,
         NEW r \in Request, CancelAccepted(r), Store(Cancelled(db, r)),
         stopped' = stopped \cup {r.task}, UNCHANGED <<now, granted, sends, retries>>
  PROVE  DataAgree(Db)' /\ RowsStand(db.events, events')
  <1> DEFINE t == r.task
             old == task[t]
  <1>1. t \in Tasks /\ db \in Tables /\ db.task = task
    BY DEF TablesAgree, Request
  <1>2. old \in TaskRow /\ task \in [Tasks -> TaskRow] /\ db.events \in Seq(EventRow)
    BY <1>1, TablesHave
  <1> HIDE DEF t
  <1>3. CASE old.state \in {"dispatching", "needs_review"}
    <2> DEFINE new == Flagged(old)
    <2>1. task' = [task EXCEPT ![t] = new] /\ events' = db.events
      <3>1. Cancelled(db, r) = [db EXCEPT !.task = [task EXCEPT ![t] = new]]
        <4>1. Cancelled(db, r) = [db EXCEPT !.task = [task EXCEPT ![t] = [task[t] EXCEPT !.cancel = TRUE, !.ver = @ + 1]]]
          BY <1>1, <1>2, <1>3, TablesHave DEF Cancelled, t
        <4>2. QED BY <4>1 DEF Flagged
      <3>2. QED BY <1>1, <3>1, TablesHave DEF Store
    <2>2. new \in TaskRow /\ new.state = old.state /\ new.cancel = TRUE /\ Told(new) = Told(old)
          /\ new.mem = old.mem /\ new.due = old.due
      BY <1>2, FlaggedIs
    <2> HIDE DEF new, old
    <2>3. task'[t] = new /\ \A u \in Tasks \ {t} : task'[u] = task[u]
      BY <1>1, <1>2, <2>1
    <2>4. \A u \in Tasks : task'[u].state = task[u].state
      BY <2>2, <2>3 DEF old
    <2>5. (Db)' \in Tables
      <3>1. task' \in [Tasks -> TaskRow]
        BY <1>2, <2>1, <2>2
      <3>2. QED BY <1>2, <2>1, <3>1 DEF Tables, Db
    <2>6. RowsAgree(Db)'
      <3>1. ASSUME NEW i \in DOMAIN db.events, db.events[i].kind = "reminder" PROVE OccurrenceAgrees(Db, i)'
        <4>1. OccurrenceAgrees(db, i)
          BY <1>1, <3>1 DEF TablesAgree, RowsAgree
        <4>2. CASE db.events[i].task = t
          BY <1>1, <1>3, <2>1, <2>4, <4>1, <4>2 DEF OccurrenceAgrees, Db, old
        <4>3. CASE db.events[i].task # t
          BY <1>1, <2>1, <2>3, <4>1, <4>3 DEF OccurrenceAgrees, Db
        <4>4. QED BY <4>2, <4>3
      <3>2. QED BY <1>1, <2>1, <3>1 DEF TablesAgree, RowsAgree, Db
    <2>7. OneRow(Db)'
      BY <1>1, <2>1, <2>4 DEF TablesAgree, OneRow, Reminds, Db, Open
    <2>8. TasksAgree(Db)'
      <3>1. ASSUME NEW u \in Tasks PROVE TaskAgrees(u, task[u])'
        <4>1. TaskAgrees(u, task[u])
          BY <1>1 DEF TablesAgree, TasksAgree
        <4>2. CASE u = t
          BY <1>3, <2>2, <2>3, <4>1, <4>2 DEF TaskAgrees, Sent, old, Unsent
        <4>3. CASE u # t
          BY <2>3, <4>1, <4>3 DEF TaskAgrees, Sent, t
        <4>4. QED BY <4>2, <4>3
      <3>2. QED BY <3>1 DEF TasksAgree, Db
    <2>9. RowsStand(db.events, events')
      BY <2>1 DEF RowsStand
    <2>10. (Db)'.events = events'
      BY DEF Db
    <2>11. QED BY <1>1, <2>1, <2>5, <2>6, <2>7, <2>8, <2>9, <2>10 DEF TablesAgree, DataAgree
  <1>4. CASE old.state \notin {"dispatching", "needs_review"}
    <2> PICK n : n = Invalidate(db, t, "cancelled")
      OBVIOUS
    <2>1. task[t].state \in {"scheduled", "enqueued", "paused", "expired"}
      BY <1>2, <1>4 DEF CancelAccepted, TaskRow, TaskState, Active, t
    <2>2. TablesAgree(n) /\ RowsStand(db.events, n.events)
      BY <1>1, <2>1, InvalidateKeeps, InvalidateStands DEF TaskState
    <2>3. n.task = [task EXCEPT ![t] = Moved(task[t], "cancelled")]
      BY <1>1, InvalidateIs DEF TaskState
    <2>4. task' = n.task /\ events' = n.events
      BY <1>4 DEF Store, Cancelled, t
    <2>5. (Db)' = n
      BY <2>2, <2>4, TablesHave DEF TablesAgree, Db
    <2>6. n.task[t].state = "cancelled" /\ \A u \in Tasks \ {t} : n.task[u] = task[u]
      <3>1. Moved(task[t], "cancelled").state = "cancelled"
        BY <1>2, MovedIs DEF TaskState
      <3>2. QED BY <1>1, <1>2, <2>3, <3>1
    <2>7. RowsAgree(Db)' /\ OneRow(Db)'
      BY <2>2, <2>5, SameTables DEF TablesAgree
    <2>8. TasksAgree(Db)'
      <3>1. ASSUME NEW u \in Tasks PROVE TaskAgrees(u, n.task[u])'
        <4>1. TaskAgrees(u, n.task[u])
          BY <2>2, <2>5 DEF TablesAgree, TasksAgree
        <4>2. QED BY <2>6, <4>1 DEF TaskAgrees, Sent, t
      <3>2. QED BY <2>5, <3>1 DEF TasksAgree
    <2>9. QED BY <2>2, <2>4, <2>5, <2>7, <2>8 DEF TablesAgree, DataAgree
  <1>5. QED BY <1>3, <1>4

LEMMA ApplyKeeps ==
  ASSUME RestTyped, NEW db, TablesAgree(db), db.task = task,
         NEW r \in Request, NEW base, Accepted(r, base), ApplyRequest(db, r),
         UNCHANGED <<now, sends, retries>>
  PROVE  /\ DataAgree(Db)' /\ RowsStand(db.events, events')
         /\ granted' \in [Tasks -> [due : Nat, gen : Nat, mem : Nat, quiet : BOOLEAN]] /\ stopped' \subseteq Tasks
  <1> DEFINE g == [due |-> r.due, gen |-> binding.gen, mem |-> LinkedVersion(r.task), quiet |-> r.quiet]
  <1>1. /\ r.task \in Tasks /\ r.op \in {"create", "postpone", "cancel"}
        /\ db \in Tables /\ db.task = task /\ DataAgree(db)
    BY DEF TablesAgree, DataAgree, Request
  <1>2. g \in [due : Nat, gen : Nat, mem : Nat, quiet : BOOLEAN]
    BY RemindersAssumption, SMTT(30) DEF Request, RestTyped, LinkedVersion
  <1>3. granted' \in [Tasks -> [due : Nat, gen : Nat, mem : Nat, quiet : BOOLEAN]] /\ stopped' \subseteq Tasks
    <2>1. granted \in [Tasks -> [due : Nat, gen : Nat, mem : Nat, quiet : BOOLEAN]] /\ stopped \subseteq Tasks
      BY DEF RestTyped
    <2>2. granted' = [granted EXCEPT ![r.task] = IF r.op = "cancel" THEN granted[r.task] ELSE g]
      BY DEF ApplyRequest
    <2> HIDE DEF g
    <2>3. QED BY <1>1, <1>2, <2>1, <2>2 DEF ApplyRequest
  <1>4. CASE r.op = "create"
    <2>1. task[r.task].state = "absent"
      BY <1>4 DEF Accepted, CreateAccepted
    <2>2. Store(Reschedule(db, r)) /\ granted' = [granted EXCEPT ![r.task] = g] /\ stopped' = stopped
      BY <1>4 DEF ApplyRequest
    <2>3. DataAgree(Db)' /\ events' = db.events
      BY <1>1, <2>1, <2>2, RescheduleKeeps
    <2>4. QED BY <1>3, <2>3 DEF RowsStand
  <1>5. CASE r.op = "postpone"
    <2>1. task[r.task].state \in {"scheduled", "enqueued", "paused", "expired"}
      BY <1>5 DEF Accepted, PostponeAccepted
    <2> PICK n : n = Invalidate(db, r.task, "scheduled")
      OBVIOUS
    <2>2. Store(Reschedule(n, r)) /\ granted' = [granted EXCEPT ![r.task] = g] /\ stopped' = stopped
      BY <1>5 DEF ApplyRequest
    <2>3. TablesAgree(n) /\ RowsStand(db.events, n.events)
      BY <1>1, <2>1, InvalidateKeeps, InvalidateStands DEF TaskState
    <2>4. n.task[r.task].state = "scheduled"
      <3>1. n.task = [task EXCEPT ![r.task] = Moved(task[r.task], "scheduled")]
        <4>1. "scheduled" \in TaskState
          BY DEF TaskState
        <4>2. Invalidate(db, r.task, "scheduled").task
                = [db.task EXCEPT ![r.task] = Moved(db.task[r.task], "scheduled")]
          BY <1>1, <4>1, InvalidateIs
        <4>3. QED BY <1>1, <4>2
      <3>2. task \in [Tasks -> TaskRow]
        BY <1>1, TablesHave
      <3>3. Moved(task[r.task], "scheduled").state = "scheduled"
        BY <1>1, <3>2, MovedIs DEF TaskState
      <3>4. QED BY <1>1, <3>1, <3>2, <3>3
    <2>5. DataAgree(n)
      BY <2>3 DEF TablesAgree, DataAgree
    <2>6. DataAgree(Db)' /\ events' = n.events
      BY <2>2, <2>4, <2>5, RescheduleKeeps
    <2>7. QED BY <1>3, <2>3, <2>6
  <1>6. CASE r.op = "cancel"
    <2>1. CancelAccepted(r) /\ Store(Cancelled(db, r)) /\ stopped' = stopped \cup {r.task}
      BY <1>6 DEF Accepted, ApplyRequest
    <2>2. granted' = granted
      <3>1. granted \in [Tasks -> [due : Nat, gen : Nat, mem : Nat, quiet : BOOLEAN]]
        BY DEF RestTyped
      <3>2. granted' = [granted EXCEPT ![r.task] = granted[r.task]]
        BY <1>6 DEF ApplyRequest
      <3>3. QED BY <3>1, <3>2
    <2>3. QED BY <1>3, <2>1, <2>2, CancelKeeps
  <1>7. QED BY <1>1, <1>4, <1>5, <1>6

\* One open row changes, and the task it is an occurrence of.
LEMMA RowKeeps ==
  ASSUME TablesAgree(Db), NEW i \in Open(events), NEW e \in EventRow, events' = [events EXCEPT ![i] = e],
         e.kind = events[i].kind, e.task = events[i].task, task' \in [Tasks -> TaskRow],
         \A u \in Tasks : task'[u] = task[u] \/ (e.kind = "reminder" /\ u = e.task),
         e.kind = "reminder" => OccurrenceAgrees(Db, i)' /\ (task'[e.task].state \in Active => e.state \notin Ended),
         e.kind # "reminder" => OtherRowAgrees(e)
  PROVE  /\ (Db)' \in Tables /\ Len(events') <= MaxEvents /\ RowsAgree(Db)' /\ OneRow(Db)'
         /\ DOMAIN events' = DOMAIN events /\ events'[i] = e /\ \A j \in DOMAIN events \ {i} : events'[j] = events[j]
  <1>1. /\ Db \in Tables /\ Db.task = task /\ Db.events = events /\ events \in Seq(EventRow)
        /\ i \in DOMAIN events /\ DOMAIN events = 1..Len(events) /\ Len(events) <= MaxEvents
        /\ (Db)'.task = task' /\ (Db)'.events = events'
    <2>1. Db \in Tables /\ Db.task = task /\ Db.events = events
      BY DEF TablesAgree, Db
    <2>2. QED BY <2>1, TablesHave DEF TablesAgree, Db, Open
  <1>2. events' \in Seq(EventRow) /\ Len(events') = Len(events) /\ DOMAIN events' = DOMAIN events
        /\ events'[i] = e /\ \A j \in DOMAIN events \ {i} : events'[j] = events[j]
    <2>1. events' \in Seq(EventRow) /\ Len(events') = Len(events) /\ DOMAIN events' = DOMAIN events
      BY <1>1, ExceptSeq, LenProperties
    <2>2. QED BY <1>1, <2>1
  <1>3. (Db)' \in Tables
    BY <1>2 DEF Tables, Db
  <1>4. \A j \in DOMAIN events : events[j].kind = "reminder" => OccurrenceAgrees(Db, j)
    BY <1>1 DEF TablesAgree, RowsAgree
  <1>5. \A j \in Open(events) \ {i} : e.kind = "reminder" => events[j].kind # "reminder"
    BY <1>1 DEF TablesAgree, OneRow
  <1>6. RowsAgree(Db)'
    <2>1. ASSUME NEW j \in DOMAIN events, events'[j].kind = "reminder" PROVE OccurrenceAgrees(Db, j)'
      <3>1. CASE j = i
        BY <1>2, <2>1, <3>1
      <3>2. CASE j # i
        <4>1. events'[j] = events[j] /\ OccurrenceAgrees(Db, j)
          BY <1>2, <1>4, <2>1, <3>2
        <4>2. CASE j \in Open(events)
          <5>1. e.kind # "reminder"
            BY <1>2, <1>5, <2>1, <3>2, <4>1, <4>2
          <5>2. task'[events[j].task] = task[events[j].task]
            BY <1>1, <4>1, <5>1 DEF OccurrenceAgrees
          <5>3. QED BY <1>1, <4>1, <5>2 DEF OccurrenceAgrees
        <4>3. CASE j \notin Open(events)
          BY <1>1, <4>1, <4>3 DEF OccurrenceAgrees, Open, Ended
        <4>4. QED BY <4>2, <4>3
      <3>3. QED BY <3>1, <3>2
    <2>2. ASSUME NEW j \in DOMAIN events, events'[j].kind # "reminder" PROVE OtherRowAgrees(events'[j])
      BY <1>1, <1>2, <2>2 DEF TablesAgree, RowsAgree
    <2>3. QED BY <1>1, <1>2, <2>1, <2>2 DEF RowsAgree
  <1>7. Open(events') \subseteq Open(events) /\ \A j \in Open(events) \ {i} : j \in Open(events')
    BY <1>2 DEF Open
  <1>8. OneRow(Db)'
    <2>1. ASSUME NEW u \in Tasks, task'[u].state \in Active PROVE \E j \in Open(events') : Reminds(Db, j, u)'
      <3>1. CASE e.kind = "reminder" /\ u = e.task
        <4>1. i \in Open(events') /\ Reminds(Db, i, u)'
          BY <1>1, <1>2, <2>1, <3>1 DEF Open, Reminds
        <4>2. QED BY <4>1
      <3>2. CASE ~(e.kind = "reminder" /\ u = e.task)
        <4>1. task[u].state \in Active
          BY <2>1, <3>2
        <4>2. PICK j \in Open(events) : Reminds(Db, j, u)
          BY <1>1, <4>1 DEF TablesAgree, OneRow
        <4>3. j # i
          BY <1>1, <3>2, <4>2 DEF Reminds
        <4>4. j \in Open(events') /\ Reminds(Db, j, u)'
          BY <1>1, <1>2, <1>7, <4>2, <4>3 DEF Reminds
        <4>5. QED BY <4>4
      <3>3. QED BY <3>1, <3>2
    <2>2. \A j, k \in Open(events') : events'[j].kind = "reminder" /\ events'[k].kind = "reminder" => j = k
      BY <1>1, <1>2, <1>7 DEF TablesAgree, OneRow, Open
    <2>3. QED BY <1>1, <2>1, <2>2 DEF OneRow
  <1>9. QED BY <1>1, <1>2, <1>3, <1>6, <1>8

LEMMA TasksStand ==
  ASSUME TablesAgree(Db), UNCHANGED <<task, now, granted, stopped, sends, retries>> PROVE TasksAgree(Db)'
  BY DEF TablesAgree, TasksAgree, TaskAgrees, Sent, Db

\* Only a row that was being sent, or is sent by the step, is being sent.
BeginsNone == \A i \in 1..MaxEvents : ~Dispatched(i)

LEMMA Shown ==
  ASSUME RemindersInv
  PROVE  /\ Db \in Tables /\ Db.task = task /\ Db.events = events
         /\ task \in [Tasks -> TaskRow] /\ events \in Seq(EventRow)
         /\ DOMAIN events = 1..Len(events) /\ DOMAIN events \subseteq 1..MaxEvents
         /\ \A i \in DOMAIN events : events[i] \in EventRow
         /\ \A i \in DOMAIN events : events[i].kind = "reminder" => OccurrenceAgrees(Db, i)
         /\ \A i \in DOMAIN events : events[i].kind # "reminder" => OtherRowAgrees(events[i])
         /\ \A t \in Tasks : TaskAgrees(t, task[t])
         /\ WorkerAgrees(Db) /\ TablesAgree(Db) /\ RestTyped
  <1>1. Db \in Tables /\ Db.task = task /\ Db.events = events /\ Len(events) <= MaxEvents
    BY DEF RemindersInv, TablesAgree, Db
  <1>2. DOMAIN events = 1..Len(events) /\ DOMAIN events \subseteq 1..MaxEvents
    BY <1>1, TablesHave, RemindersAssumption
  <1>3. QED BY <1>1, <1>2, TablesHave DEF RemindersInv, TablesAgree, RowsAgree, TasksAgree

\* The queue is taken row by row; a row that waits is of the current version.
LEMMA PrepareKeeps ==
  ASSUME RemindersInv, NEW i \in DOMAIN events, Prepare(i)
  PROVE  RemindersInv' /\ BeginsNone
  <1> DEFINE t == events[i].task
             verdict == Eligibility(Db, t)
  <1>1. /\ i \in Open(events) /\ events[i].kind = "reminder" /\ events[i].state \in {"queued", "outbox_ready"}
        /\ worker.at = "idle"
    BY DEF Prepare, Takes, IsHead
  <1>2. /\ UNCHANGED <<now, binding, memory, enabled, policy, attempts, requests, crashes, changes>>
        /\ UNCHANGED <<granted, stopped, sends, retries, ran, told>>
    BY DEF Prepare, people
  <1>3. events[i].box # "dispatching" /\ OccurrenceAgrees(Db, i) /\ events[i] \in EventRow
        /\ events \in Seq(EventRow) /\ task \in [Tasks -> TaskRow] /\ t \in Tasks
    BY <1>1, Shown DEF WorkerAgrees, OccurrenceAgrees
  <1>4. /\ Current(Db, i) /\ task[t].state = "enqueued" /\ task[t].ver = events[i].ver
        /\ events[i].box = IF events[i].state = "queued" THEN "none" ELSE "pending"
    BY <1>1, <1>3, Shown DEF Current, OfRow, OccurrenceAgrees
  <1>5. CASE UNCHANGED worker /\ \E state \in {"scheduled", "paused", "expired", "cancelled"} : Store(Invalidate(Db, t, state))
    <2> PICK state \in {"scheduled", "paused", "expired", "cancelled"} : Store(Invalidate(Db, t, state))
      BY <1>5
    <2> PICK n : n = Invalidate(Db, t, state)
      OBVIOUS
    <2>1. TablesAgree(n) /\ RowsStand(events, n.events)
      BY <1>3, <1>4, Shown, InvalidateKeeps, InvalidateStands DEF TaskState
    <2>2. TablesAgree(Db)'
      BY <1>2, <1>5, <2>1, StoreKeeps
    <2>3. BeginsNone
      BY <2>1 DEF Store, BeginsNone, Dispatched, RowsStand
    <2>4. QED BY <1>2, <1>5, <2>2, <2>3 DEF RemindersInv, RestTyped, CommandsInv, AttemptsInv
  <1>6. CASE /\ events' = [events EXCEPT ![i].state = "outbox_ready", ![i].box = IF @ = "none" THEN "pending" ELSE @]
             /\ At("prepared", i) /\ UNCHANGED task
    <2> PICK e : e = [events[i] EXCEPT !.state = "outbox_ready", !.box = "pending"]
      OBVIOUS
    <2>1. e \in EventRow /\ e.state = "outbox_ready" /\ e.box = "pending" /\ e.kind = "reminder" /\ e.task = t
          /\ e.ver = events[i].ver
      BY <1>1, <1>3 DEF EventRow
    <2>2. events' = [events EXCEPT ![i] = e]
      BY <1>3, <1>4, <1>6 DEF EventRow
    <2>3. OccurrenceAgrees(Db, i)'
      <3>1. events'[i] = e
        BY <2>2, Shown
      <3>2. e.task \in Tasks /\ task'[e.task].state = "enqueued" /\ task'[e.task].ver = e.ver
        BY <1>3, <1>4, <1>6, <2>1
      <3>3. (Db)'.task = task' /\ (Db)'.events = events'
        BY DEF Db
      <3>4. QED BY <2>1, <3>1, <3>2, <3>3 DEF OccurrenceAgrees
    <2>4. /\ (Db)' \in Tables /\ Len(events') <= MaxEvents /\ RowsAgree(Db)' /\ OneRow(Db)'
          /\ DOMAIN events' = DOMAIN events /\ events'[i] = e /\ \A j \in DOMAIN events \ {i} : events'[j] = events[j]
      <3>1. /\ e.kind = events[i].kind /\ e.task = events[i].task /\ task' \in [Tasks -> TaskRow]
            /\ \A u \in Tasks : task'[u] = task[u]
            /\ e.state \notin Ended
        BY <1>1, <1>3, <1>6, <2>1 DEF Ended
      <3>2. QED BY <1>1, <2>1, <2>2, <2>3, <3>1, RowKeeps, Shown
    <2>5. TasksAgree(Db)'
      BY <1>2, <1>6, Shown, TasksStand
    <2>6. worker' = [at |-> "prepared", row |-> i]
      BY <1>6 DEF At
    <2>7. WorkerAgrees(Db)' /\ BeginsNone
      <3>1. \A j \in DOMAIN events : events[j].box # "dispatching"
        BY <1>1, Shown DEF WorkerAgrees
      <3>2. \A j \in DOMAIN events : events'[j].box # "dispatching"
        BY <2>1, <2>4, <3>1
      <3>3. BeginsNone
        BY <3>2 DEF BeginsNone, Dispatched
      <3>4. i \in DOMAIN events' /\ events'[i].kind = "reminder" /\ (Db)'.events = events'
        BY <1>1, <2>1, <2>4 DEF Db
      <3>5. WorkerAgrees(Db)'
        BY <2>4, <2>6, <3>2, <3>4 DEF WorkerAgrees
      <3>6. QED BY <3>3, <3>5
    <2>8. worker' \in [at : {"down", "idle", "command", "answered", "prepared", "sending"}, row : 0..MaxEvents]
      BY <2>6, Shown
    <2>9. (Db)'.events = events'
      BY DEF Db
    <2>10. TablesAgree(Db)'
      BY <2>4, <2>5, <2>7, <2>9 DEF TablesAgree
    <2>11. QED BY <1>2, <2>7, <2>8, <2>10 DEF RemindersInv, RestTyped, CommandsInv, AttemptsInv
  <1>7. QED
    <2>1. verdict # "ok" => verdict \in {"scheduled", "paused", "expired", "cancelled"}
      BY EligibilityIs
    <2>2. Defer(Db, t) = Invalidate(Db, t, "scheduled")
      BY <1>4, Shown DEF Defer
    <2>3. QED BY <1>4, <1>5, <1>6, <2>1, <2>2 DEF Prepare

LEMMA SettledKeeps ==
  ASSUME RemindersInv, NEW i \in Open(events), events[i].kind # "reminder",
         NEW state \in {"queued", "generating", "completed", "failed"},
         OtherRowAgrees([events[i] EXCEPT !.state = state]),
         events' = Settled(i, state), UNCHANGED <<task, now, granted, stopped, sends, retries>>
  PROVE  /\ DataAgree(Db)' /\ BeginsNone /\ (Db)'.events = events'
         /\ DOMAIN events' = DOMAIN events
         /\ \A j \in DOMAIN events : events'[j].kind = events[j].kind /\ events'[j].box = events[j].box
         /\ \A j \in DOMAIN events \ {i} : events'[j] = events[j]
         /\ events'[i].state = state
  <1> PICK e : e = [events[i] EXCEPT !.state = state]
    OBVIOUS
  <1>1. i \in DOMAIN events /\ events[i] \in EventRow
    BY Shown DEF Open
  <1>2. e \in EventRow /\ e.kind = events[i].kind /\ e.task = events[i].task /\ e.box = events[i].box /\ e.state = state
    BY <1>1 DEF EventRow, Ended
  <1>3. events' = [events EXCEPT ![i] = e]
    BY <1>1, Shown DEF Settled
  <1>4. task' \in [Tasks -> TaskRow] /\ \A u \in Tasks : task'[u] = task[u]
    BY Shown
  <1>5. /\ (Db)' \in Tables /\ Len(events') <= MaxEvents /\ RowsAgree(Db)' /\ OneRow(Db)'
        /\ DOMAIN events' = DOMAIN events /\ events'[i] = e /\ \A j \in DOMAIN events \ {i} : events'[j] = events[j]
    BY <1>2, <1>3, <1>4, RowKeeps, Shown
  <1>6. TasksAgree(Db)'
    BY Shown, TasksStand
  <1>7. (Db)'.events = events'
    BY DEF Db
  <1>8. \A j \in DOMAIN events : events'[j].kind = events[j].kind /\ events'[j].box = events[j].box
    BY <1>2, <1>5
  <1>9. BeginsNone
    BY <1>8 DEF BeginsNone, Dispatched
  <1>10. QED BY <1>2, <1>5, <1>6, <1>7, <1>8, <1>9 DEF DataAgree

LEMMA ApplyBindingKeeps ==
  ASSUME RemindersInv, NEW i \in DOMAIN events, ApplyBinding(i) PROVE RemindersInv' /\ BeginsNone
  <1>1. /\ i \in Open(events) /\ events[i].kind = "binding" /\ events[i] \in EventRow /\ OtherRowAgrees(events[i])
    BY Shown DEF ApplyBinding, Takes, IsHead
  <1>2. OtherRowAgrees([events[i] EXCEPT !.state = "completed"]) /\ events[i].req.op \in Characters
    BY <1>1 DEF OtherRowAgrees, EventRow
  <1>3. /\ DataAgree(Db)' /\ BeginsNone /\ (Db)'.events = events' /\ DOMAIN events' = DOMAIN events
        /\ \A j \in DOMAIN events : events'[j].kind = events[j].kind /\ events'[j].box = events[j].box
        /\ \A j \in DOMAIN events \ {i} : events'[j] = events[j]
    BY <1>1, <1>2, SettledKeeps DEF ApplyBinding, people
  <1>4. worker.at = "idle" /\ worker' = worker /\ UNCHANGED <<now, memory, enabled, policy, attempts, requests, crashes, changes>>
        /\ UNCHANGED <<granted, stopped, sends, retries, ran, told>> /\ binding' = [char |-> events[i].req.op, gen |-> binding.gen + 1]
    BY DEF ApplyBinding, Takes, people
  <1>5. WorkerAgrees(Db)'
    BY <1>3, <1>4, Shown DEF WorkerAgrees
  <1>6. TablesAgree(Db)'
    BY <1>3, <1>5 DEF TablesAgree, DataAgree
  <1>7. binding' \in [char : Characters, gen : Nat]
    BY <1>2, <1>4, Shown DEF RestTyped
  <1>8. QED BY <1>3, <1>4, <1>6, <1>7 DEF RemindersInv, RestTyped, CommandsInv, AttemptsInv

LEMMA ApplyMemoryKeeps ==
  ASSUME RemindersInv, NEW i \in DOMAIN events, ApplyMemory(i) PROVE RemindersInv' /\ BeginsNone
  <1>1. /\ i \in Open(events) /\ events[i].kind = "memory" /\ events[i] \in EventRow /\ OtherRowAgrees(events[i])
    BY Shown DEF ApplyMemory, Takes, IsHead
  <1>2. /\ \A state \in {"completed", "failed"} : OtherRowAgrees([events[i] EXCEPT !.state = state])
        /\ events[i].req.op \in BOOLEAN
    BY <1>1 DEF OtherRowAgrees, EventRow
  <1>3. worker.at = "idle" /\ worker' = worker
        /\ UNCHANGED <<now, task, binding, enabled, policy, attempts, requests, crashes, changes>>
        /\ UNCHANGED <<granted, stopped, sends, retries, ran, told>>
        /\ memory' \in {memory, [ver |-> memory.ver + 1, open |-> events[i].req.op]}
    BY DEF ApplyMemory, Takes, people
  <1>4. PICK state \in {"completed", "failed"} : events' = Settled(i, state)
    BY DEF ApplyMemory
  <1>5. /\ DataAgree(Db)' /\ BeginsNone /\ (Db)'.events = events' /\ DOMAIN events' = DOMAIN events
        /\ \A j \in DOMAIN events : events'[j].kind = events[j].kind /\ events'[j].box = events[j].box
    BY <1>1, <1>2, <1>3, <1>4, SettledKeeps
  <1>6. WorkerAgrees(Db)'
    BY <1>3, <1>5, Shown DEF WorkerAgrees
  <1>7. TablesAgree(Db)'
    BY <1>5, <1>6 DEF TablesAgree, DataAgree
  <1>8. memory' \in [ver : Nat, open : BOOLEAN]
    BY <1>2, <1>3, Shown DEF RestTyped
  <1>9. QED BY <1>3, <1>5, <1>7, <1>8 DEF RemindersInv, RestTyped, CommandsInv, AttemptsInv

LEMMA BeginCommandKeeps ==
  ASSUME RemindersInv, NEW i \in DOMAIN events, BeginCommand(i) PROVE RemindersInv' /\ BeginsNone
  <1>1. /\ i \in Open(events) /\ events[i].kind = "command" /\ events[i] \in EventRow /\ OtherRowAgrees(events[i])
    BY Shown DEF BeginCommand, Takes, IsHead
  <1>2. OtherRowAgrees([events[i] EXCEPT !.state = "generating"])
    BY <1>1 DEF OtherRowAgrees, EventRow
  <1>3. worker.at = "idle" /\ worker' = [at |-> "command", row |-> i] /\ events' = Settled(i, "generating")
        /\ UNCHANGED <<now, task, binding, memory, enabled, policy, attempts, requests, crashes, changes>>
        /\ UNCHANGED <<granted, stopped, sends, retries, ran, told>>
    BY DEF BeginCommand, Takes, At, people
  <1>4. /\ DataAgree(Db)' /\ BeginsNone /\ (Db)'.events = events' /\ DOMAIN events' = DOMAIN events
        /\ \A j \in DOMAIN events : events'[j].kind = events[j].kind /\ events'[j].box = events[j].box
        /\ events'[i].state = "generating"
    BY <1>1, <1>2, <1>3, SettledKeeps
  <1>5. WorkerAgrees(Db)'
    BY <1>1, <1>3, <1>4, Shown DEF WorkerAgrees
  <1>6. TablesAgree(Db)'
    BY <1>4, <1>5 DEF TablesAgree, DataAgree
  <1>7. worker' \in [at : {"down", "idle", "command", "answered", "prepared", "sending"}, row : 0..MaxEvents]
    BY <1>3, Shown
  <1>8. QED BY <1>3, <1>4, <1>6, <1>7 DEF RemindersInv, RestTyped, CommandsInv, AttemptsInv

LEMMA AnswerCommandKeeps ==
  ASSUME RemindersInv, AnswerCommand PROVE RemindersInv' /\ BeginsNone
  <1> PICK i : i = worker.row
    OBVIOUS
  <1>1. /\ i \in Open(events) /\ events[i].kind = "command" /\ events[i].state = "generating"
        /\ events[i] \in EventRow /\ OtherRowAgrees(events[i])
    BY Shown DEF AnswerCommand, WorkerAgrees, Open, Ended
  <1>2. OtherRowAgrees([events[i] EXCEPT !.state = "completed"])
    BY <1>1 DEF OtherRowAgrees, EventRow
  <1>3. worker.at = "answered" /\ worker' = [at |-> "idle", row |-> 0] /\ events' = Settled(i, "completed")
        /\ UNCHANGED <<now, task, binding, memory, enabled, policy, attempts, requests, crashes, changes>>
        /\ UNCHANGED <<granted, stopped, sends, retries, ran, told>>
    BY DEF AnswerCommand, At, people
  <1>4. /\ DataAgree(Db)' /\ BeginsNone /\ (Db)'.events = events' /\ DOMAIN events' = DOMAIN events
        /\ \A j \in DOMAIN events : events'[j].kind = events[j].kind /\ events'[j].box = events[j].box
    BY <1>1, <1>2, <1>3, SettledKeeps
  <1>5. WorkerAgrees(Db)'
    BY <1>3, <1>4, Shown DEF WorkerAgrees
  <1>6. TablesAgree(Db)'
    BY <1>4, <1>5 DEF TablesAgree, DataAgree
  <1>7. worker' \in [at : {"down", "idle", "command", "answered", "prepared", "sending"}, row : 0..MaxEvents]
    BY <1>3, RemindersAssumption
  <1>8. QED BY <1>3, <1>4, <1>6, <1>7 DEF RemindersInv, RestTyped, CommandsInv, AttemptsInv

LEMMA AdminRequestKeeps ==
  ASSUME RemindersInv, NEW r \in Requests, AdminRequest(r) PROVE RemindersInv' /\ BeginsNone
  <1>1. r \in Request /\ Accepted(r, now) /\ ApplyRequest(Db, r) /\ worker' = worker
        /\ UNCHANGED <<now, binding, memory, enabled, policy, attempts, crashes, changes>>
        /\ UNCHANGED <<sends, retries, ran, told>> /\ requests' = [requests EXCEPT !.admin = @ + 1]
    BY RemindersAssumption DEF AdminRequest
  <1>2. /\ DataAgree(Db)' /\ RowsStand(events, events')
        /\ granted' \in [Tasks -> [due : Nat, gen : Nat, mem : Nat, quiet : BOOLEAN]] /\ stopped' \subseteq Tasks
    BY <1>1, ApplyKeeps, Shown
  <1>3. WorkerAgrees(Db)'
    BY <1>1, <1>2, WorkerStands, Shown
  <1>4. TablesAgree(Db)' /\ BeginsNone
    BY <1>2, <1>3 DEF TablesAgree, DataAgree, BeginsNone, Dispatched, RowsStand
  <1>5. requests' \in [user : [1..MaxEvents -> {"none", "done", "refused"}], admin : Nat] /\ requests'.user = requests.user
    <2>1. requests \in [user : [1..MaxEvents -> {"none", "done", "refused"}], admin : Nat]
      BY Shown DEF RestTyped
    <2>2. QED BY <1>1, <2>1
  <1>6. RestTyped'
    BY <1>1, <1>2, <1>5, Shown DEF RestTyped
  <1>7. CommandsInv' /\ AttemptsInv'
    BY <1>1, <1>5 DEF RemindersInv, CommandsInv, AttemptsInv
  <1>8. QED BY <1>4, <1>6, <1>7 DEF RemindersInv

\* A command runs when no outcome of it is stored; its outcome is stored.
LEMMA CommandKeeps ==
  ASSUME RemindersInv, NEW db, TablesAgree(db), db.task = task, NEW r \in Request, NEW base,
         NEW i \in 1..MaxEvents, UserReminderCommand(i, db, r, base), UNCHANGED <<now, sends, retries>>,
         told' = told \/ told' = [told EXCEPT ![i] = @ \cup {Outcome(i, r, base)}]
  PROVE  /\ DataAgree(Db)' /\ RowsStand(db.events, events')
         /\ granted' \in [Tasks -> [due : Nat, gen : Nat, mem : Nat, quiet : BOOLEAN]] /\ stopped' \subseteq Tasks
         /\ requests' \in [user : [1..MaxEvents -> {"none", "done", "refused"}], admin : Nat]
         /\ ran' \in [1..MaxEvents -> Nat] /\ told' \in [1..MaxEvents -> SUBSET {"done", "refused"}]
         /\ CommandsInv'
  <1> PICK o : o = Outcome(i, r, base)
    OBVIOUS
  <1>0. /\ requests \in [user : [1..MaxEvents -> {"none", "done", "refused"}], admin : Nat]
        /\ ran \in [1..MaxEvents -> Nat] /\ told \in [1..MaxEvents -> SUBSET {"done", "refused"}]
    BY Shown DEF RestTyped
  <1>1. requests' = [requests EXCEPT !.user[i] = o] /\ (told' = told \/ told' = [told EXCEPT ![i] = @ \cup {o}])
    BY DEF UserReminderCommand, Recorded
  <1>3. /\ requests.user[i] \in {"none", "done", "refused"} /\ ran[i] \in Nat /\ told[i] \subseteq {requests.user[i]}
        /\ (requests.user[i] = "none" => told[i] = {}) /\ ran[i] = IF requests.user[i] = "done" THEN 1 ELSE 0
    BY <1>0 DEF RemindersInv, CommandsInv
  <1>4. o \in {"done", "refused"} /\ (requests.user[i] # "none" => o = requests.user[i])
    BY <1>3 DEF Outcome
  <1>5. /\ DataAgree(Db)' /\ RowsStand(db.events, events')
        /\ granted' \in [Tasks -> [due : Nat, gen : Nat, mem : Nat, quiet : BOOLEAN]] /\ stopped' \subseteq Tasks
        /\ ran' = IF requests.user[i] = "none" /\ o = "done" THEN [ran EXCEPT ![i] = @ + 1] ELSE ran
    <2>1. CASE requests.user[i] = "none" /\ Accepted(r, base)
      <3>1. ApplyRequest(db, r) /\ ran' = [ran EXCEPT ![i] = @ + 1]
        BY <2>1 DEF UserReminderCommand
      <3>2. o = "done"
        BY <2>1 DEF Outcome
      <3>3. QED BY <2>1, <3>1, <3>2, ApplyKeeps, Shown
    <2>2. CASE ~(requests.user[i] = "none" /\ Accepted(r, base))
      <3>1. Store(db) /\ UNCHANGED <<granted, stopped, ran>>
        BY <2>2 DEF UserReminderCommand
      <3>2. (Db)' = db
        BY <3>1, TablesHave DEF Store, Db, TablesAgree
      <3>3. DataAgree(db)
        BY DEF TablesAgree, DataAgree
      <3>4. task' = task /\ events' = db.events
        BY <3>1 DEF Store
      <3>5. TasksAgree(Db)'
        BY <3>1, <3>4, Shown, TasksStand
      <3>6. DataAgree(Db)'
        BY <3>2, <3>3, <3>5, SameTables DEF DataAgree
      <3>7. ~(requests.user[i] = "none" /\ o = "done")
        BY <2>2 DEF Outcome
      <3>8. QED BY <3>1, <3>4, <3>6, <3>7, Shown DEF RowsStand, RestTyped
    <2>3. QED BY <2>1, <2>2
  <1>8. requests' \in [user : [1..MaxEvents -> {"none", "done", "refused"}], admin : Nat]
        /\ requests'.user = [requests.user EXCEPT ![i] = o]
    BY <1>0, <1>1, <1>4
  <1>9. ran' \in [1..MaxEvents -> Nat] /\ told' \in [1..MaxEvents -> SUBSET {"done", "refused"}]
    BY <1>0, <1>1, <1>4, <1>5
  <1>10. CommandsInv'
    <2>1. ASSUME NEW j \in 1..MaxEvents
          PROVE  /\ told'[j] \subseteq {requests'.user[j]}
                 /\ requests'.user[j] = "none" => told'[j] = {}
                 /\ ran'[j] = IF requests'.user[j] = "done" THEN 1 ELSE 0
      <3>1. CASE j = i
        <4>1. (told'[i] = told[i] \/ told'[i] = told[i] \cup {o}) /\ requests'.user[i] = o
          BY <1>0, <1>1, <1>8
        <4>2. ran'[i] = IF requests.user[i] = "none" /\ o = "done" THEN ran[i] + 1 ELSE ran[i]
          BY <1>0, <1>5
        <4>3. QED BY <1>3, <1>4, <3>1, <4>1, <4>2
      <3>2. CASE j # i
        <4>1. told'[j] = told[j]
          BY <1>0, <1>1, <3>2
        <4>2. ran'[j] = ran[j]
          BY <1>0, <1>5, <3>2
        <4>3. requests'.user[j] = requests.user[j]
          BY <1>0, <1>8, <3>2
        <4>4. QED BY <4>1, <4>2, <4>3 DEF RemindersInv, CommandsInv
      <3>3. QED BY <3>1, <3>2
    <2>2. QED BY <2>1 DEF CommandsInv
  <1>11. QED BY <1>5, <1>8, <1>9, <1>10

LEMMA RunCommandKeeps ==
  ASSUME RemindersInv, RunCommand PROVE RemindersInv' /\ BeginsNone
  <1> PICK i : i = worker.row
    OBVIOUS
  <1>1. /\ worker.at = "command" /\ worker' = [at |-> "answered", row |-> i]
        /\ UNCHANGED <<now, binding, memory, enabled, policy, attempts, crashes, changes, sends, retries>>
        /\ UserReminderCommand(i, Db, events[i].req, events[i].at)
        /\ told' = [told EXCEPT ![i] = @ \cup {Outcome(i, events[i].req, events[i].at)}]
    BY DEF RunCommand, At
  <1>2. /\ i \in DOMAIN events /\ i \in 1..MaxEvents /\ events[i].kind = "command" /\ events[i].state = "generating"
        /\ events[i].req \in Request
    <2>1. i \in DOMAIN events /\ events[i].kind = "command" /\ events[i].state = "generating"
      BY <1>1, Shown DEF WorkerAgrees
    <2>2. OtherRowAgrees(events[i]) /\ i \in 1..MaxEvents
      BY <2>1, Shown
    <2>3. QED BY <2>1, <2>2, RemindersAssumption DEF OtherRowAgrees
  <1>5. /\ DataAgree(Db)' /\ RowsStand(events, events')
        /\ granted' \in [Tasks -> [due : Nat, gen : Nat, mem : Nat, quiet : BOOLEAN]] /\ stopped' \subseteq Tasks
        /\ requests' \in [user : [1..MaxEvents -> {"none", "done", "refused"}], admin : Nat]
        /\ ran' \in [1..MaxEvents -> Nat] /\ told' \in [1..MaxEvents -> SUBSET {"done", "refused"}]
        /\ CommandsInv'
    <2>1. Db.task = task /\ Db.events = events /\ TablesAgree(Db)
      BY Shown
    <2>2. UNCHANGED <<now, sends, retries>>
      BY <1>1
    <2>3. QED BY <1>1, <1>2, <2>1, <2>2, CommandKeeps
  <1>6. WorkerAgrees(Db)'
    <2>1. /\ DOMAIN events' = DOMAIN events /\ events'[i] = events[i]
          /\ \A j \in DOMAIN events : events'[j].box = "dispatching" <=> events[j].box = "dispatching"
      BY <1>2, <1>5 DEF RowsStand
    <2>2. (Db)'.events = events'
      BY DEF Db
    <2>3. QED BY <1>1, <1>2, <2>1, <2>2, Shown DEF WorkerAgrees
  <1>7. TablesAgree(Db)' /\ BeginsNone
    BY <1>5, <1>6 DEF TablesAgree, DataAgree, BeginsNone, Dispatched, RowsStand
  <1>11. worker' \in [at : {"down", "idle", "command", "answered", "prepared", "sending"}, row : 0..MaxEvents]
    BY <1>1, <1>2
  <1>12. RestTyped'
    BY <1>1, <1>5, <1>11, Shown DEF RestTyped
  <1>13. AttemptsInv'
    BY <1>1 DEF RemindersInv, AttemptsInv
  <1>14. QED BY <1>5, <1>7, <1>12, <1>13 DEF RemindersInv

LEMMA Bounds ==
  MaxTime \in Nat /\ MaxEvents \in Nat /\ MaxChanges \in Nat /\ MaxCrashes \in Nat
  BY RemindersAssumption

LEMMA RestIs ==
  ASSUME RestTyped
  PROVE  /\ now \in Nat /\ memory.ver \in Nat /\ policy \in [is : Policies, ver : Nat]
         /\ changes \in 0..MaxChanges /\ (Change => changes' \in 0..MaxChanges)
  <1>1. now \in 0..MaxTime /\ memory \in [ver : Nat, open : BOOLEAN] /\ policy \in [is : Policies, ver : Nat]
        /\ changes \in 0..MaxChanges
    BY DEF RestTyped
  <1>2. now \in Nat /\ memory.ver \in Nat
    BY <1>1, Bounds
  <1>3. Change => changes' \in 0..MaxChanges
    BY <1>1, Bounds DEF Change
  <1>4. QED BY <1>1, <1>2, <1>3

\* What a change of the binding and a change of the memory have in common.
LEMMA AdmissionKeeps ==
  ASSUME RemindersInv, NEW row \in EventRow, row.kind # "reminder", OtherRowAgrees(row), Admit(row),
         changes' \in 0..MaxChanges
  PROVE  RemindersInv' /\ BeginsNone
  <1> PICK n : n = Admitted(Db, row)
    OBVIOUS
  <1>1. HasRoom(events) /\ events' = Append(events, row) /\ worker' = worker /\ task' = task
        /\ UNCHANGED <<now, binding, memory, enabled, policy, attempts, requests, crashes>>
        /\ UNCHANGED <<granted, stopped, sends, retries, ran, told>>
    BY DEF Admit, people
  <1>2. TablesAgree(n) /\ \A i \in DOMAIN events : n.events[i] = events[i]
    BY <1>1, Shown, AdmitKeeps
  <1>3. Store(n)
    BY <1>1, Shown DEF Store, Admitted
  <1>4. TablesAgree(Db)'
    BY <1>1, <1>2, <1>3, StoreKeeps
  <1>5. BeginsNone
    BY <1>2, <1>3 DEF BeginsNone, Dispatched, Store
  <1>6. RestTyped'
    BY <1>1, Shown DEF RestTyped
  <1>7. CommandsInv' /\ AttemptsInv'
    BY <1>1 DEF RemindersInv, CommandsInv, AttemptsInv
  <1>8. QED BY <1>4, <1>5, <1>6, <1>7 DEF RemindersInv

LEMMA AdmitsKeep ==
  ASSUME RemindersInv, (\E r \in Commands : UserCommand(r)) \/ RequestBinding \/ RequestMemory
  PROVE  RemindersInv' /\ BeginsNone
  <1>1. /\ now \in Nat /\ memory.ver \in Nat /\ changes \in 0..MaxChanges
        /\ (Change => changes' \in 0..MaxChanges)
    BY Shown, RestIs
  <1>2. \A kind \in {"command", "binding", "memory"} : Row(kind) \in EventRow
    BY <1>1 DEF Row, EventRow, Asked
  <1>3. \A kind \in {"command", "binding", "memory"} :
          Row(kind).kind = kind /\ Row(kind).state = "queued" /\ Row(kind).box = "none"
    BY DEF Row
  <1>4. ASSUME NEW r \in Commands, UserCommand(r) PROVE RemindersInv' /\ BeginsNone
    <2> PICK e : e = [Row("command") EXCEPT !.req = r]
      OBVIOUS
    <2>1. e \in EventRow /\ e.kind = "command" /\ e.state = "queued" /\ e.box = "none" /\ e.req = r
      BY <1>2, <1>3 DEF EventRow, Asked
    <2>2. OtherRowAgrees(e) /\ e.kind # "reminder"
      BY <2>1 DEF OtherRowAgrees
    <2> PICK db : db = Admitted(Db, e)
      OBVIOUS
    <2>3. /\ HasRoom(events) /\ UNCHANGED <<now, binding, memory, enabled, policy, attempts, crashes>>
          /\ worker' = worker /\ changes' = changes /\ UNCHANGED <<sends, retries, told>>
          /\ \/ Store(db) /\ UNCHANGED <<requests, granted, stopped, ran>>
             \/ UserReminderCommand(Len(events) + 1, db, r, now)
      <3>1. [Db EXCEPT !.events = Append(@, [Row("command") EXCEPT !.req = r])] = db
        BY DEF Admitted, Db
      <3>2. /\ HasRoom(events) /\ UNCHANGED <<now, binding, memory, enabled, policy, attempts, crashes>>
            /\ worker' = worker /\ changes' = changes /\ UNCHANGED <<sends, retries, told>>
        BY <1>4 DEF UserCommand
      <3>3. \/ Store([Db EXCEPT !.events = Append(@, [Row("command") EXCEPT !.req = r])])
               /\ UNCHANGED <<requests, granted, stopped, ran>>
            \/ UserReminderCommand(Len(events) + 1,
                 [Db EXCEPT !.events = Append(@, [Row("command") EXCEPT !.req = r])], r, now)
        BY <1>4, Zenon DEF UserCommand
      <3>4. QED BY <3>1, <3>2, <3>3
    <2>4. TablesAgree(db) /\ (\A i \in DOMAIN events : i \in DOMAIN db.events /\ db.events[i] = events[i]) /\ db.task = task
      <3>1. TablesAgree(db) /\ \A i \in DOMAIN events : db.events[i] = events[i]
        <4>1. TablesAgree(Db) /\ Db.events = events /\ HasRoom(events)
          BY <2>3, Shown
        <4>2. HasRoom(Db.events)
          BY <4>1
        <4>3. e \in EventRow /\ e.kind # "reminder" /\ OtherRowAgrees(e)
          BY <2>1, <2>2
        <4>4. TablesAgree(Admitted(Db, e)) /\ \A i \in DOMAIN Db.events : Admitted(Db, e).events[i] = Db.events[i]
          BY <4>1, <4>2, <4>3, AdmitKeeps
        <4>5. QED BY <4>1, <4>4
      <3>2. db.task = task /\ db.events = Append(events, e)
        BY DEF Admitted, Db
      <3>3. DOMAIN events \subseteq DOMAIN db.events
        BY <2>1, <3>2, Shown, AppendProperties
      <3>4. QED BY <3>1, <3>2, <3>3
    <2>5. CASE Store(db) /\ UNCHANGED <<requests, granted, stopped, ran>>
      <3>1. TablesAgree(Db)'
        BY <2>3, <2>4, <2>5, StoreKeeps
      <3>2. BeginsNone
        BY <2>4, <2>5 DEF BeginsNone, Dispatched, Store
      <3>3. RestTyped'
        BY <1>1, <2>3, <2>5, Shown DEF RestTyped
      <3>4. CommandsInv' /\ AttemptsInv'
        BY <2>3, <2>5 DEF RemindersInv, CommandsInv, AttemptsInv
      <3>5. QED BY <3>1, <3>2, <3>3, <3>4 DEF RemindersInv
    <2>6. CASE UserReminderCommand(Len(events) + 1, db, r, now)
      <3> PICK i : i = Len(events) + 1
        OBVIOUS
      <3>1. i \in 1..MaxEvents /\ r \in Request
        <4>1. Len(events) \in Nat /\ Len(events) < MaxEvents
          BY <2>3, Shown, LenProperties DEF HasRoom
        <4>2. QED BY <4>1, RemindersAssumption, Bounds
      <3>2. UNCHANGED <<now, sends, retries>> /\ told' = told
        BY <2>3
      <3>3. /\ DataAgree(Db)' /\ RowsStand(db.events, events')
            /\ granted' \in [Tasks -> [due : Nat, gen : Nat, mem : Nat, quiet : BOOLEAN]] /\ stopped' \subseteq Tasks
            /\ requests' \in [user : [1..MaxEvents -> {"none", "done", "refused"}], admin : Nat]
            /\ ran' \in [1..MaxEvents -> Nat] /\ told' \in [1..MaxEvents -> SUBSET {"done", "refused"}]
            /\ CommandsInv'
        BY <2>4, <2>6, <3>1, <3>2, CommandKeeps
      <3>4. TablesAgree(Db)'
        <4>1. WorkerAgrees(Db)'
          BY <2>3, <2>4, <3>3, WorkerStands DEF TablesAgree
        <4>2. QED BY <3>3, <4>1 DEF TablesAgree, DataAgree
      <3>5. BeginsNone
        BY <2>4, <3>3 DEF BeginsNone, Dispatched, RowsStand
      <3>6. RestTyped'
        BY <1>1, <2>3, <3>3, Shown DEF RestTyped
      <3>7. AttemptsInv'
        BY <2>3 DEF RemindersInv, AttemptsInv
      <3>8. QED BY <3>3, <3>4, <3>5, <3>6, <3>7 DEF RemindersInv
    <2>7. QED BY <2>3, <2>5, <2>6
  <1>5. ASSUME RequestBinding PROVE RemindersInv' /\ BeginsNone
    <2>1. PICK c \in Characters : Change /\ Admit([Row("binding") EXCEPT !.req = [op |-> c]])
      BY <1>5 DEF RequestBinding
    <2> PICK e : e = [Row("binding") EXCEPT !.req = [op |-> c]]
      OBVIOUS
    <2>2. [op |-> c] \in [op : Characters]
      OBVIOUS
    <2>3. e \in EventRow /\ e.kind = "binding" /\ e.state = "queued" /\ e.box = "none" /\ e.req = [op |-> c]
      BY <1>2, <1>3, <2>2 DEF EventRow, Asked
    <2>4. OtherRowAgrees(e) /\ e.kind # "reminder"
      BY <2>3 DEF OtherRowAgrees
    <2>5. QED BY <1>1, <2>1, <2>3, <2>4, AdmissionKeeps
  <1>6. ASSUME RequestMemory PROVE RemindersInv' /\ BeginsNone
    <2>1. PICK open \in BOOLEAN : Change /\ Admit([Row("memory") EXCEPT !.req = [op |-> open], !.ver = memory.ver])
      BY <1>6 DEF RequestMemory
    <2> PICK e : e = [Row("memory") EXCEPT !.req = [op |-> open], !.ver = memory.ver]
      OBVIOUS
    <2>2. [op |-> open] \in [op : BOOLEAN]
      OBVIOUS
    <2>3. e \in EventRow /\ e.kind = "memory" /\ e.state = "queued" /\ e.box = "none" /\ e.req = [op |-> open]
      BY <1>1, <1>2, <1>3, <2>2 DEF EventRow, Asked
    <2>4. OtherRowAgrees(e) /\ e.kind # "reminder"
      BY <2>3 DEF OtherRowAgrees
    <2>5. QED BY <1>1, <2>1, <2>3, <2>4, AdmissionKeeps
  <1>7. QED BY <1>4, <1>5, <1>6

LEMMA PassesKeep ==
  ASSUME RemindersInv, Tick \/ (\E p \in Policies : ContactRequest(p)) PROVE RemindersInv' /\ BeginsNone
  <1>1. ASSUME NEW n, TablesAgree(n), NoneBegins(Db, n), Store(n), policy' \in [is : Policies, ver : Nat],
               changes' \in 0..MaxChanges, worker' = worker,
               UNCHANGED <<now, binding, memory, enabled, attempts, requests, crashes>>,
               UNCHANGED <<granted, stopped, sends, retries, ran, told>>
        PROVE  RemindersInv' /\ BeginsNone
    <2>1. TablesAgree(Db)'
      BY <1>1, StoreKeeps
    <2>2. BeginsNone
      BY <1>1, Shown DEF BeginsNone, Dispatched, Store, NoneBegins
    <2>3. RestTyped'
      BY <1>1, Shown DEF RestTyped
    <2>4. CommandsInv' /\ AttemptsInv'
      BY <1>1 DEF RemindersInv, CommandsInv, AttemptsInv
    <2>5. QED BY <2>1, <2>2, <2>3, <2>4 DEF RemindersInv
  <1>2. /\ now \in Nat /\ policy \in [is : Policies, ver : Nat] /\ changes \in 0..MaxChanges
        /\ (Change => changes' \in 0..MaxChanges)
    BY Shown, RestIs
  <1>3. ASSUME Tick PROVE RemindersInv' /\ BeginsNone
    <2> PICK n : n = EachWaiting(TickTask)
      OBVIOUS
    <2>1. TablesAgree(n) /\ NoneBegins(Db, n)
      BY <1>2, TickPass, Shown
    <2>2. QED BY <1>1, <1>2, <1>3, <2>1 DEF Tick, people
  <1>4. ASSUME NEW p \in Policies, ContactRequest(p) PROVE RemindersInv' /\ BeginsNone
    <2>1. TablesAgree(Reconciled(p)) /\ NoneBegins(Db, Reconciled(p))
      BY ReconcilePass, Shown
    <2>2. /\ Change /\ Store(Reconciled(p)) /\ policy' = [is |-> p, ver |-> policy.ver + 1] /\ worker' = worker
          /\ UNCHANGED <<now, binding, memory, enabled, attempts, requests, crashes>>
          /\ UNCHANGED <<granted, stopped, sends, retries, ran, told>>
      BY <1>4 DEF ContactRequest, people
    <2>3. policy' \in [is : Policies, ver : Nat]
      BY <1>2, <1>4, <2>2
    <2>4. PICK n : n = Reconciled(p)
      OBVIOUS
    <2>5. TablesAgree(n) /\ NoneBegins(Db, n) /\ Store(n)
      BY <2>1, <2>2, <2>4
    <2>6. QED BY <1>1, <1>2, <2>2, <2>3, <2>5
  <1>5. QED BY <1>3, <1>4

\* Steps that leave the tables alone.
LEMMA QuietKeeps ==
  ASSUME RemindersInv, Pass \/ Switch \/ Crash \/ SenderNotReady \/ UNCHANGED vars
  PROVE  RemindersInv' /\ BeginsNone
  <1>1. UNCHANGED <<task, events, binding, memory, policy, attempts, requests>>
        /\ UNCHANGED <<granted, stopped, sends, retries, ran, told>> /\ (Db)' = Db
    BY DEF Pass, Switch, Crash, SenderNotReady, vars, tables, people, Db
  <1>2. now \in 0..MaxTime /\ enabled \in BOOLEAN /\ crashes \in 0..MaxCrashes /\ changes \in 0..MaxChanges
        /\ now \in Nat
    <2>1. now \in 0..MaxTime /\ enabled \in BOOLEAN /\ crashes \in 0..MaxCrashes /\ changes \in 0..MaxChanges
      BY Shown DEF RestTyped
    <2>2. QED BY <2>1, Bounds
  <1>3. now' \in 0..MaxTime /\ now <= now' /\ enabled' \in BOOLEAN
    <2>1. now' = now \/ (now < MaxTime /\ now' = now + 1)
      BY DEF Pass, Switch, Crash, SenderNotReady, vars
    <2>2. enabled' = enabled \/ enabled' = ~enabled
      BY DEF Pass, Switch, Crash, SenderNotReady, vars
    <2>3. enabled' \in BOOLEAN
      BY <1>2, <2>2, Zenon
    <2>4. now' \in 0..MaxTime /\ now <= now'
      BY <1>2, <2>1, Bounds
    <2>5. QED BY <2>3, <2>4
  <1>4. crashes' \in 0..MaxCrashes /\ changes' \in 0..MaxChanges
    BY <1>2, Bounds DEF Pass, Switch, Change, Crash, SenderNotReady, vars
  <1>5. worker' = worker \/ worker' = [at |-> "down", row |-> 0]
        \/ (worker.at = "prepared" /\ worker' = [at |-> "idle", row |-> 0])
    BY DEF Pass, Switch, Crash, SenderNotReady, vars, At
  <1>6. worker' \in [at : {"down", "idle", "command", "answered", "prepared", "sending"}, row : 0..MaxEvents]
    <2>1. worker \in [at : {"down", "idle", "command", "answered", "prepared", "sending"}, row : 0..MaxEvents]
      BY Shown DEF RestTyped
    <2>2. QED BY <1>5, <2>1, Bounds
  <1>7. RestTyped'
    BY <1>1, <1>3, <1>4, <1>6, Shown DEF RestTyped
  <1>8. TasksAgree(Db)'
    <2>1. ASSUME NEW t \in Tasks PROVE TaskAgrees(t, task[t])'
      <3>1. TaskAgrees(t, task[t]) /\ task[t].due \in Nat
        BY Shown DEF TaskRow
      <3>2. task[t].due <= now => task[t].due <= now'
        BY <1>2, <1>3, <3>1
      <3>3. QED BY <1>1, <3>1, <3>2 DEF TaskAgrees, Sent
    <2>2. QED BY <2>1 DEF TasksAgree, Db
  <1>9. WorkerAgrees(Db)'
    BY <1>1, <1>5, Shown DEF WorkerAgrees
  <1>10. TablesAgree(Db)'
    <2> PICK n : n = Db
      OBVIOUS
    <2>1. n \in Tables /\ Len(n.events) <= MaxEvents /\ RowsAgree(n) /\ OneRow(n) /\ (Db)' = n
      BY <1>1, Shown DEF TablesAgree
    <2>2. (Db)' \in Tables /\ Len((Db)'.events) <= MaxEvents /\ RowsAgree(Db)' /\ OneRow(Db)'
      BY <2>1, SameTables
    <2>3. QED BY <1>8, <1>9, <2>2 DEF TablesAgree
  <1>11. AttemptsInv' /\ CommandsInv'
    <2>1. sends \in Seq([task : Tasks, at : Nat]) /\ \A n \in DOMAIN sends : sends[n].at <= now /\ sends[n].at \in Nat
      <3>1. sends \in Seq([task : Tasks, at : Nat])
        BY Shown DEF RestTyped
      <3>2. \A n \in DOMAIN sends : sends[n] \in [task : Tasks, at : Nat]
        BY <3>1, ElementOfSeq, LenProperties
      <3>3. QED BY <3>1, <3>2 DEF RemindersInv, AttemptsInv
    <2>2. \A n \in DOMAIN sends : sends[n].at <= now'
      BY <1>2, <1>3, <2>1
    <2>3. QED BY <1>1, <2>2 DEF RemindersInv, AttemptsInv, CommandsInv
  <1>12. BeginsNone
    BY <1>1 DEF BeginsNone, Dispatched
  <1>13. QED BY <1>7, <1>10, <1>11, <1>12 DEF RemindersInv

\* What cannot be dispatched any more is withdrawn, and the worker is free.
LEMMA NotDispatchedKeeps ==
  ASSUME RemindersInv, NotDispatched PROVE RemindersInv' /\ BeginsNone
  <1> PICK i : i = worker.row
    OBVIOUS
  <1> DEFINE t == events[i].task
             verdict == Eligibility(Db, t)
  <1>1. /\ worker.at = "prepared" /\ worker' = [at |-> "idle", row |-> 0]
        /\ UNCHANGED <<now, binding, memory, enabled, policy, attempts, requests, crashes, changes>>
        /\ UNCHANGED <<granted, stopped, sends, retries, ran, told>>
    BY DEF NotDispatched, At, people
  <1>2. i \in DOMAIN events /\ t \in Tasks /\ \A j \in DOMAIN events : events[j].box # "dispatching"
    BY <1>1, Shown DEF WorkerAgrees, OccurrenceAgrees
  <1>3. Db \in Tables /\ TablesAgree(Db) /\ Db.events = events /\ Db.task = task
    BY Shown
  <1>4. PICK n : Store(n) /\ TablesAgree(n) /\ RowsStand(events, n.events)
    <2> DEFINE Fine(n) == TablesAgree(n) /\ RowsStand(events, n.events)
    <2>1. Fine(Db)
      BY <1>3 DEF RowsStand
    <2>2. Current(Db, i) => \A state \in {"scheduled", "paused", "expired", "cancelled"} : Fine(Invalidate(Db, t, state))
      <3>1. SUFFICES ASSUME Current(Db, i), NEW state \in {"scheduled", "paused", "expired", "cancelled"}
                     PROVE  Fine(Invalidate(Db, t, state))
        OBVIOUS
      <3>2. Db.task[t].state = "enqueued" /\ state \in TaskState
        BY <1>3, <3>1 DEF Current, OfRow, TaskState
      <3>3. TablesAgree(Invalidate(Db, t, state))
        BY <1>2, <1>3, <3>2, InvalidateKeeps
      <3>4. RowsStand(Db.events, Invalidate(Db, t, state).events)
        BY <1>2, <1>3, <3>2, InvalidateStands
      <3>5. QED BY <1>3, <3>3, <3>4
    <2>3. verdict \in {"cancelled", "expired", "paused", "ok"}
      BY EligibilityIs
    <2>4. \E n : Store(n) /\ n \in {Db, Invalidate(Db, t, verdict), Defer(Db, t)}
                 /\ (n = Db \/ Current(Db, i)) /\ (n = Invalidate(Db, t, verdict) => n = Db \/ verdict # "ok" \/ n = Defer(Db, t))
      BY DEF NotDispatched
    <2> HIDE DEF Fine, t, verdict
    <2>5. Current(Db, i) => Fine(Defer(Db, t))
      BY <2>1, <2>2 DEF Defer
    <2>6. \E n : Store(n) /\ Fine(n)
      BY <2>1, <2>2, <2>3, <2>4, <2>5
    <2>7. QED BY <2>6 DEF Fine
  <1>5. (Db)' = n
    BY <1>4, TablesHave DEF TablesAgree, Store, Db
  <1>6. DataAgree(Db)'
    <2>1. RowsAgree(Db)' /\ OneRow(Db)'
      BY <1>4, <1>5, SameTables DEF TablesAgree
    <2>2. TasksAgree(Db)'
      BY <1>1, <1>4, <1>5 DEF TablesAgree, TasksAgree, TaskAgrees, Sent
    <2>3. QED BY <1>4, <1>5, <2>1, <2>2 DEF TablesAgree, DataAgree
  <1>7. RowsStand(events, events') /\ (Db)'.events = events'
    BY <1>4 DEF Store, Db
  <1>8. BeginsNone /\ WorkerAgrees(Db)'
    BY <1>1, <1>2, <1>7 DEF BeginsNone, Dispatched, RowsStand, WorkerAgrees
  <1>9. TablesAgree(Db)'
    BY <1>6, <1>8 DEF TablesAgree, DataAgree
  <1>10. RestTyped'
    <2>1. worker' \in [at : {"down", "idle", "command", "answered", "prepared", "sending"}, row : 0..MaxEvents]
      BY <1>1, Bounds
    <2>2. QED BY <1>1, <2>1, Shown DEF RestTyped
  <1>11. CommandsInv' /\ AttemptsInv'
    BY <1>1 DEF RemindersInv, CommandsInv, AttemptsInv
  <1>12. QED BY <1>8, <1>9, <1>10, <1>11 DEF RemindersInv

\* What a task may become together with its row.
Outcomes == {<<"dispatching", "outbox_ready", "dispatching">>, <<"accepted", "completed", "completed">>,
             <<"rejected", "needs_review", "needs_review">>, <<"unknown", "needs_review", "needs_review">>,
             <<"pending", "outbox_ready", "enqueued">>, <<"cancelled", "cancelled", "cancelled">>}

\* The open occurrence of a task changes, and the task's state with it.
LEMMA DeliveredKeeps ==
  ASSUME RemindersInv, NEW i \in Open(events), events[i].kind = "reminder",
         NEW box, NEW state, NEW to, <<box, state, to>> \in Outcomes, Delivered(events, i, box, state, to),
         to = "enqueued" => task[events[i].task].ver = events[i].ver
  PROVE  LET t == events[i].task IN
         /\ (Db)' \in Tables /\ Len(events') <= MaxEvents /\ RowsAgree(Db)' /\ OneRow(Db)'
         /\ (Db)'.events = events' /\ DOMAIN events' = DOMAIN events
         /\ \A j \in DOMAIN events : events'[j].kind = events[j].kind
         /\ events'[i].box = box /\ \A j \in DOMAIN events \ {i} : events'[j] = events[j]
         /\ \A u \in Tasks \ {t} : task'[u] = task[u]
         /\ t \in Tasks /\ task'[t].state = to /\ Told(task'[t]) = Told(task[t])
         /\ task'[t].mem = task[t].mem /\ task'[t].due = task[t].due /\ task'[t].cancel = task[t].cancel
  <1> PICK t : t = events[i].task
    OBVIOUS
  <1>1. /\ i \in DOMAIN events /\ events[i] \in EventRow /\ t \in Tasks /\ task[t] \in TaskRow
        /\ task \in [Tasks -> TaskRow] /\ OccurrenceAgrees(Db, i)
    BY Shown DEF Open, OccurrenceAgrees
  <1>2. /\ box \in {"dispatching", "accepted", "rejected", "unknown", "pending", "cancelled"}
        /\ state \in {"outbox_ready", "completed", "needs_review", "cancelled"}
        /\ to \in {"dispatching", "completed", "needs_review", "enqueued", "cancelled"}
        /\ (to \in Active => state \notin Ended)
    BY DEF Outcomes, Active, Ended
  <1> PICK e : e = [events[i] EXCEPT !.box = box, !.state = state]
    OBVIOUS
  <1> PICK r : r = [task[t] EXCEPT !.state = to]
    OBVIOUS
  <1>3. e \in EventRow /\ e.kind = "reminder" /\ e.task = t /\ e.ver = events[i].ver /\ e.box = box /\ e.state = state
    BY <1>1, <1>2 DEF EventRow, Ended
  <1>4. /\ r \in TaskRow /\ r.state = to /\ r.ver = task[t].ver /\ r.mem = task[t].mem /\ r.due = task[t].due
        /\ r.cancel = task[t].cancel /\ Told(r) = Told(task[t])
    BY <1>1, <1>2 DEF TaskRow, TaskState, Active, Told
  <1>5. events' = [events EXCEPT ![i] = e] /\ task' = [task EXCEPT ![t] = r]
    BY <1>1, Shown DEF Delivered
  <1>6. task'[t] = r /\ \A u \in Tasks \ {t} : task'[u] = task[u]
    BY <1>1, <1>5
  <1>7. task' \in [Tasks -> TaskRow]
    BY <1>1, <1>4, <1>5
  <1>8. OccurrenceAgrees(Db, i)'
    <2>1. events'[i] = e /\ (Db)'.events = events' /\ (Db)'.task = task'
      BY <1>1, <1>5, Shown DEF Db
    <2>2. \/ box = "dispatching" /\ state = "outbox_ready" /\ to = "dispatching"
          \/ box = "accepted" /\ state = "completed" /\ to = "completed"
          \/ box \in {"rejected", "unknown"} /\ state = "needs_review" /\ to = "needs_review"
          \/ box = "pending" /\ state = "outbox_ready" /\ to = "enqueued"
          \/ box = "cancelled" /\ state = "cancelled" /\ to = "cancelled"
      BY DEF Outcomes
    <2>3. task'[e.task] = r /\ e.task \in Tasks /\ (to = "enqueued" => e.ver = r.ver)
      BY <1>1, <1>3, <1>4, <1>6
    <2>4. QED BY <1>3, <1>4, <2>1, <2>2, <2>3, ZenonT(40) DEF OccurrenceAgrees
  <1>9. /\ (Db)' \in Tables /\ Len(events') <= MaxEvents /\ RowsAgree(Db)' /\ OneRow(Db)'
        /\ DOMAIN events' = DOMAIN events /\ events'[i] = e /\ \A j \in DOMAIN events \ {i} : events'[j] = events[j]
    <2>1. \A u \in Tasks : task'[u] = task[u] \/ (e.kind = "reminder" /\ u = e.task)
      BY <1>3, <1>6
    <2>2. e.kind = events[i].kind /\ e.task = events[i].task
      BY <1>3
    <2>3. task'[e.task].state \in Active => e.state \notin Ended
      <3>1. task'[e.task].state = to
        BY <1>3, <1>4, <1>6
      <3>2. QED BY <1>2, <1>3, <3>1
    <2>4. QED BY <1>3, <1>5, <1>7, <1>8, <2>1, <2>2, <2>3, RowKeeps, Shown
  <1>10. (Db)'.events = events'
    BY DEF Db
  <1>11. QED BY <1>1, <1>3, <1>4, <1>6, <1>9, <1>10

\* The result of a send: the task it was for is done, or is put before an operator.
LEMMA FinishDeliveryKeeps ==
  ASSUME RemindersInv, FinishDelivery PROVE RemindersInv' /\ BeginsNone
  <1> PICK i : i = worker.row
    OBVIOUS
  <1> PICK t : t = events[i].task
    OBVIOUS
  <1>1. /\ worker.at = "sending" /\ worker' = [at |-> "idle", row |-> 0]
        /\ UNCHANGED <<now, binding, memory, enabled, policy, attempts, requests, crashes, changes>>
        /\ UNCHANGED <<granted, stopped, sends, retries, ran, told>>
    BY DEF FinishDelivery, At, people
  <1>2. /\ i \in DOMAIN events /\ events[i].box = "dispatching" /\ events[i].kind = "reminder" /\ i \in Open(events)
        /\ task[t].state = "dispatching" /\ \A j \in DOMAIN events \ {i} : events[j].box # "dispatching"
    BY <1>1, Shown, SMTT(30) DEF WorkerAgrees, OtherRowAgrees, OccurrenceAgrees, Open, Ended
  <1>3. PICK box, state, to : /\ <<box, state, to>> \in Outcomes /\ to \in {"completed", "needs_review"}
                              /\ box # "dispatching" /\ Delivered(events, i, box, state, to)
    BY DEF FinishDelivery, Outcomes
  <1>4. /\ (Db)' \in Tables /\ Len(events') <= MaxEvents /\ RowsAgree(Db)' /\ OneRow(Db)'
        /\ (Db)'.events = events' /\ DOMAIN events' = DOMAIN events
        /\ events'[i].box = box /\ \A j \in DOMAIN events \ {i} : events'[j] = events[j]
        /\ \A u \in Tasks \ {t} : task'[u] = task[u]
        /\ t \in Tasks /\ task'[t].state = to /\ Told(task'[t]) = Told(task[t])
        /\ task'[t].mem = task[t].mem /\ task'[t].due = task[t].due /\ task'[t].cancel = task[t].cancel
    BY <1>2, <1>3, DeliveredKeeps
  <1>5. TasksAgree(Db)'
    <2>1. ASSUME NEW u \in Tasks PROVE TaskAgrees(u, task[u])'
      <3>1. TaskAgrees(u, task[u])
        BY Shown
      <3>2. CASE u = t
        BY <1>1, <1>2, <1>3, <1>4, <3>1, <3>2 DEF TaskAgrees, Sent, Active, Unsent
      <3>3. CASE u # t
        BY <1>1, <1>4, <3>1, <3>3 DEF TaskAgrees, Sent
      <3>4. QED BY <3>2, <3>3
    <2>2. QED BY <2>1 DEF TasksAgree, Db
  <1>6. WorkerAgrees(Db)' /\ BeginsNone
    BY <1>1, <1>2, <1>3, <1>4, SMTT(30) DEF WorkerAgrees, BeginsNone, Dispatched
  <1>7. TablesAgree(Db)'
    BY <1>4, <1>5, <1>6 DEF TablesAgree
  <1>8. RestTyped'
    <2>1. worker' \in [at : {"down", "idle", "command", "answered", "prepared", "sending"}, row : 0..MaxEvents]
      BY <1>1, Bounds
    <2>2. QED BY <1>1, <2>1, Shown DEF RestTyped
  <1>9. CommandsInv' /\ AttemptsInv'
    BY <1>1 DEF RemindersInv, CommandsInv, AttemptsInv
  <1>10. QED BY <1>6, <1>7, <1>8, <1>9 DEF RemindersInv

SendSet(t) == {n \in DOMAIN sends : sends[n].task = t}

LEMMA SendsAre ==
  ASSUME RemindersInv
  PROVE  /\ sends \in Seq([task : Tasks, at : Nat]) /\ DOMAIN sends = 1..Len(sends) /\ Len(sends) \in Nat
         /\ \A n \in DOMAIN sends : sends[n].task \in Tasks /\ sends[n].at \in Nat /\ sends[n].at <= now
         /\ \A t \in Tasks : IsFiniteSet(SendSet(t)) /\ Sent(t) = Cardinality(SendSet(t)) /\ Sent(t) \in Nat
         /\ now \in Nat
  <1>1. sends \in Seq([task : Tasks, at : Nat]) /\ now \in Nat
    BY Shown, RestIs DEF RestTyped
  <1>2. DOMAIN sends = 1..Len(sends) /\ Len(sends) \in Nat /\ IsFiniteSet(DOMAIN sends)
    BY <1>1, LenProperties, FS_Interval
  <1>3. \A n \in DOMAIN sends : sends[n] \in [task : Tasks, at : Nat]
    BY <1>1, <1>2, ElementOfSeq
  <1>4. \A t \in Tasks : IsFiniteSet(SendSet(t)) /\ Cardinality(SendSet(t)) \in Nat
    BY <1>2, FS_Subset, FS_CardinalityType DEF SendSet
  <1>5. QED BY <1>1, <1>2, <1>3, <1>4 DEF RemindersInv, AttemptsInv, Sent, SendSet

\* A send that the rules allow is the only one of its instant.
LEMMA SendIsCounted ==
  ASSUME RemindersInv, NEW t \in Tasks, ~Blocked(task[t], policy.is, attempts),
         attempts' = Attempted, sends' = Append(sends, [task |-> t, at |-> now]), now' = now
  PROVE  /\ AttemptsInv' /\ sends' \in Seq([task : Tasks, at : Nat])
         /\ Sent(t)' = Sent(t) + 1 /\ \A u \in Tasks \ {t} : Sent(u)' = Sent(u)
  <1> PICK s : s = [task |-> t, at |-> now]
    OBVIOUS
  <1> PICK last : last = Len(sends) + 1
    OBVIOUS
  <1>1. s \in [task : Tasks, at : Nat] /\ s.at = now /\ s.task = t /\ now \in Nat
    BY SendsAre
  <1>2. /\ sends' \in Seq([task : Tasks, at : Nat]) /\ DOMAIN sends' = DOMAIN sends \cup {last}
        /\ last \notin DOMAIN sends /\ sends'[last] = s /\ \A n \in DOMAIN sends : sends'[n] = sends[n]
    <2>1. /\ sends' \in Seq([task : Tasks, at : Nat]) /\ Len(sends') = last /\ sends'[last] = s
          /\ \A n \in 1..Len(sends) : sends'[n] = sends[n]
      BY <1>1, SendsAre, AppendProperties
    <2>2. DOMAIN sends' = 1..last
      BY <2>1, LenProperties
    <2>3. QED BY <2>1, <2>2, SendsAre
  <1>3. attempts' = {[at |-> sends'[n].at, kind |-> "reminder"] : n \in DOMAIN sends'}
    <2>1. attempts = {[at |-> sends[n].at, kind |-> "reminder"] : n \in DOMAIN sends}
      BY DEF RemindersInv, AttemptsInv
    <2>2. {[at |-> sends'[n].at, kind |-> "reminder"] : n \in DOMAIN sends'}
            = {[at |-> sends[n].at, kind |-> "reminder"] : n \in DOMAIN sends} \cup {[at |-> now, kind |-> "reminder"]}
      BY <1>1, <1>2
    <2>3. QED BY <2>1, <2>2 DEF Attempted
  <1>4. \A n \in DOMAIN sends : sends[n].at # now
    <2>1. ASSUME NEW n \in DOMAIN sends, sends[n].at = now PROVE FALSE
      <3>1. [at |-> now, kind |-> "reminder"] \in attempts
        BY <2>1 DEF RemindersInv, AttemptsInv
      <3>2. policy.is.gap \in Nat \ {0} /\ Day \in Nat \ {0}
        <4>1. policy.is \in Policies
          BY Shown, RestIs
        <4>2. QED BY <4>1, RemindersAssumption, ClockAssumption DEF Valid, Policy
      <3>3. Close(attempts, now, policy.is.gap) = {}
        BY DEF Blocked, Allowed
      <3>4. [at |-> now, kind |-> "reminder"] \in Close(attempts, now, policy.is.gap)
        BY <1>1, <3>1, <3>2 DEF Close, Recent
      <3>5. QED BY <3>3, <3>4
    <2>2. QED BY <2>1
  <1>5. /\ \A m, n \in DOMAIN sends' : sends'[m].at = sends'[n].at => m = n
        /\ \A n \in DOMAIN sends' : sends'[n].at <= now
    <2>1. \A m, n \in DOMAIN sends : sends[m].at = sends[n].at => m = n
      BY DEF RemindersInv, AttemptsInv
    <2>2. QED BY <1>1, <1>2, <1>4, <2>1, SendsAre, SMTT(30)
  <1>6. AttemptsInv'
    BY <1>3, <1>5 DEF AttemptsInv
  <1>7. Sent(t)' = Sent(t) + 1
    <2>1. SendSet(t)' = SendSet(t) \cup {last} /\ last \notin SendSet(t)
      BY <1>1, <1>2 DEF SendSet
    <2>2. IsFiniteSet(SendSet(t)) /\ Sent(t) = Cardinality(SendSet(t))
      BY SendsAre
    <2>3. Cardinality(SendSet(t) \cup {last}) = Cardinality(SendSet(t)) + 1
      BY <2>1, <2>2, FS_AddElement
    <2>4. Sent(t)' = Cardinality(SendSet(t)')
      BY DEF Sent, SendSet
    <2>5. QED BY <2>1, <2>2, <2>3, <2>4
  <1>8. ASSUME NEW u \in Tasks \ {t} PROVE Sent(u)' = Sent(u)
    <2>1. {n \in DOMAIN sends' : sends'[n].task = u} = {n \in DOMAIN sends : sends[n].task = u}
      BY <1>1, <1>2
    <2>2. QED BY <2>1 DEF Sent
  <1>9. QED BY <1>2, <1>6, <1>7, <1>8

\* A send begins; no other row begins to be sent in this step.
LEMMA DispatchKeeps ==
  ASSUME RemindersInv, Dispatch
  PROVE  /\ RemindersInv' /\ \A i \in 1..MaxEvents : Dispatched(i) => i = worker.row
         /\ worker.row \in DOMAIN events /\ events[worker.row].kind = "reminder"
         /\ Dispatchable(worker.row) /\ events[worker.row].task \in Tasks
  <1> PICK i : i = worker.row
    OBVIOUS
  <1> PICK t : t = events[i].task
    OBVIOUS
  <1>1. /\ worker.at = "prepared" /\ worker' = [at |-> "sending", row |-> i] /\ Dispatchable(i)
        /\ attempts' = Attempted /\ sends' = Append(sends, [task |-> t, at |-> now])
        /\ UNCHANGED <<now, binding, memory, enabled, policy, requests, crashes, changes>>
        /\ UNCHANGED <<granted, stopped, retries, ran, told>>
    BY DEF Dispatch, At
  <1>2. /\ i \in DOMAIN events /\ events[i].kind = "reminder" /\ events[i].box = "pending"
        /\ task[t].state = "enqueued" /\ events[i].state = "outbox_ready" /\ i \in Open(events) /\ t \in Tasks
        /\ \A j \in DOMAIN events : events[j].box # "dispatching"
    BY <1>1, Shown DEF WorkerAgrees, OccurrenceAgrees, Dispatchable, Open, Ended
  <1>3. Delivered(events, i, "dispatching", "outbox_ready", "dispatching")
    <2>1. events' = [events EXCEPT ![i].box = "dispatching"] /\ task' = [task EXCEPT ![t].state = "dispatching"]
      BY DEF Dispatch
    <2>2. events[i] \in EventRow
      BY <1>2, Shown
    <2>3. [events[i] EXCEPT !.box = "dispatching"] = [events[i] EXCEPT !.box = "dispatching", !.state = "outbox_ready"]
      BY <1>2, <2>2 DEF EventRow
    <2>4. QED BY <1>2, <2>1, <2>3 DEF Delivered
  <1>4. /\ (Db)' \in Tables /\ Len(events') <= MaxEvents /\ RowsAgree(Db)' /\ OneRow(Db)'
        /\ (Db)'.events = events' /\ DOMAIN events' = DOMAIN events
        /\ events'[i].box = "dispatching" /\ \A j \in DOMAIN events \ {i} : events'[j] = events[j]
        /\ \A u \in Tasks \ {t} : task'[u] = task[u]
        /\ task'[t].state = "dispatching" /\ Told(task'[t]) = Told(task[t])
        /\ task'[t].mem = task[t].mem /\ task'[t].due = task[t].due /\ task'[t].cancel = task[t].cancel
    <2>1. <<"dispatching", "outbox_ready", "dispatching">> \in Outcomes
      BY DEF Outcomes
    <2>2. QED BY <1>2, <1>3, <2>1, DeliveredKeeps
  <1>5. /\ AttemptsInv' /\ sends' \in Seq([task : Tasks, at : Nat])
        /\ Sent(t)' = Sent(t) + 1 /\ \A u \in Tasks \ {t} : Sent(u)' = Sent(u)
    <2>1. ~Blocked(task[t], policy.is, attempts)
      BY <1>1 DEF Dispatchable
    <2>2. QED BY <1>1, <1>2, <2>1, SendIsCounted
  <1>6. TasksAgree(Db)'
    <2>1. ASSUME NEW u \in Tasks PROVE TaskAgrees(u, task[u])'
      <3>1. TaskAgrees(u, task[u])
        BY Shown
      <3>2. CASE u = t
        <4>1. Sent(t)' = 1 + retries'[t] /\ Sent(t)' \in 0..(1 + retries'[t])
          <5>1. retries[t] \in Nat
            BY <1>2, Shown DEF RestTyped
          <5>2. Sent(t) = retries[t]
            BY <1>2, <3>1, <3>2 DEF TaskAgrees, Unsent
          <5>3. QED BY <1>1, <1>5, <5>1, <5>2
        <4>2. t \notin stopped /\ task[t].due <= now /\ granted[t] = Told(task[t]) /\ (t \notin Linked => task[t].mem = 0)
          BY <1>2, <3>1, <3>2 DEF TaskAgrees, Active
        <4>3. QED BY <1>1, <1>4, <3>2, <4>1, <4>2 DEF TaskAgrees, Active, Unsent
      <3>3. CASE u # t
        <4>1. Sent(u)' = Sent(u) /\ task'[u] = task[u]
          BY <1>4, <1>5, <3>3
        <4>2. QED BY <1>1, <3>1, <4>1 DEF TaskAgrees
      <3>4. QED BY <3>2, <3>3
    <2>2. QED BY <2>1 DEF TasksAgree, Db
  <1>7. WorkerAgrees(Db)'
    BY <1>1, <1>2, <1>4 DEF WorkerAgrees
  <1>8. \A j \in 1..MaxEvents : Dispatched(j) => j = i
    BY <1>2, <1>4 DEF Dispatched
  <1>9. TablesAgree(Db)'
    BY <1>4, <1>6, <1>7 DEF TablesAgree
  <1>10. RestTyped'
    <2>1. worker' \in [at : {"down", "idle", "command", "answered", "prepared", "sending"}, row : 0..MaxEvents]
      BY <1>1, <1>2, Shown
    <2>2. QED BY <1>1, <1>5, <2>1, Shown DEF RestTyped
  <1>11. CommandsInv'
    BY <1>1 DEF RemindersInv, CommandsInv
  <1>12. QED BY <1>1, <1>2, <1>5, <1>8, <1>9, <1>10, <1>11 DEF RemindersInv

\* An operator decides what became of a send whose result is not known.
LEMMA ResolveKeeps ==
  ASSUME RemindersInv, NEW i \in DOMAIN events, Resolve(i) PROVE RemindersInv' /\ BeginsNone
  <1> PICK t : t = events[i].task
    OBVIOUS
  <1>1. /\ worker' = worker
        /\ UNCHANGED <<now, binding, memory, enabled, policy, attempts, requests, crashes, changes>>
        /\ UNCHANGED <<granted, stopped, sends, ran, told>>
    BY DEF Resolve
  <1>2. /\ events[i].box \in {"unknown", "rejected"} /\ events[i].kind = "reminder" /\ i \in Open(events)
        /\ t \in Tasks /\ task[t].state = "needs_review"
    BY Shown DEF Resolve, Reviewable, OtherRowAgrees, OccurrenceAgrees, Open, Ended
  <1>3. PICK box, state, to :
          /\ <<box, state, to>> \in Outcomes /\ Delivered(events, i, box, state, to) /\ box # "dispatching"
          /\ to \in {"completed", "enqueued", "cancelled"}
          /\ to = "enqueued" => task[t].ver = events[i].ver /\ ~task[t].cancel /\ retries' = [retries EXCEPT ![t] = @ + 1]
          /\ to # "enqueued" => retries' = retries
    BY DEF Resolve, Outcomes, MayRetry
  <1>4. /\ (Db)' \in Tables /\ Len(events') <= MaxEvents /\ RowsAgree(Db)' /\ OneRow(Db)'
        /\ (Db)'.events = events' /\ DOMAIN events' = DOMAIN events
        /\ \A j \in DOMAIN events : events'[j].kind = events[j].kind
        /\ events'[i].box = box /\ \A j \in DOMAIN events \ {i} : events'[j] = events[j]
        /\ \A u \in Tasks \ {t} : task'[u] = task[u]
        /\ task'[t].state = to /\ Told(task'[t]) = Told(task[t])
        /\ task'[t].mem = task[t].mem /\ task'[t].due = task[t].due /\ task'[t].cancel = task[t].cancel
    BY <1>2, <1>3, DeliveredKeeps
  <1>5. retries \in [Tasks -> Nat] /\ retries' \in [Tasks -> Nat] /\ (\A u \in Tasks \ {t} : retries'[u] = retries[u])
        /\ retries'[t] = IF to = "enqueued" THEN retries[t] + 1 ELSE retries[t]
    <2>1. retries \in [Tasks -> Nat]
      BY Shown DEF RestTyped
    <2>2. QED BY <1>2, <1>3, <2>1
  <1>6. TasksAgree(Db)'
    <2>1. ASSUME NEW u \in Tasks PROVE TaskAgrees(u, task[u])'
      <3>1. TaskAgrees(u, task[u])
        BY Shown
      <3>2. CASE u = t
        <4>1. /\ to = "enqueued" => Sent(t)' = retries'[t]
              /\ Sent(t)' \in 0..(1 + retries'[t])
          <5>1. Sent(t) = 1 + retries[t] /\ Sent(t)' = Sent(t)
            BY <1>1, <1>2, <3>1, <3>2 DEF TaskAgrees, Sent
          <5>2. retries[t] \in Nat
            BY <1>2, <1>5
          <5>3. QED BY <1>5, <5>1, <5>2
        <4>2. /\ task[t].due <= now /\ granted[t] = Told(task[t]) /\ (t \notin Linked => task[t].mem = 0)
              /\ (t \in stopped => task[t].cancel)
          BY <1>2, <3>1, <3>2 DEF TaskAgrees, Active
        <4>3. QED BY <1>1, <1>3, <1>4, <3>2, <4>1, <4>2 DEF TaskAgrees, Active, Unsent
      <3>3. CASE u # t
        <4>1. Sent(u)' = Sent(u) /\ task'[u] = task[u] /\ retries'[u] = retries[u]
          BY <1>1, <1>4, <1>5, <3>3 DEF Sent
        <4>2. QED BY <1>1, <3>1, <4>1 DEF TaskAgrees
      <3>4. QED BY <3>2, <3>3
    <2>2. QED BY <2>1 DEF TasksAgree, Db
  <1>7. WorkerAgrees(Db)' /\ BeginsNone
    <2>1. \A j \in DOMAIN events : events'[j].box = "dispatching" => events[j].box = "dispatching"
      BY <1>3, <1>4
    <2>2. BeginsNone
      BY <2>1 DEF BeginsNone, Dispatched
    <2>3. worker.row # i \/ worker.at \notin {"command", "answered", "sending"}
      BY <1>2, Shown DEF WorkerAgrees
    <2>4. WorkerAgrees(Db)'
      BY <1>1, <1>4, <2>1, <2>3, Shown, SMTT(30) DEF WorkerAgrees
    <2>5. QED BY <2>2, <2>4
  <1>8. TablesAgree(Db)'
    BY <1>4, <1>6, <1>7 DEF TablesAgree
  <1>9. RestTyped'
    BY <1>1, <1>5, Shown DEF RestTyped
  <1>10. CommandsInv' /\ AttemptsInv'
    BY <1>1 DEF RemindersInv, CommandsInv, AttemptsInv
  <1>11. QED BY <1>7, <1>8, <1>9, <1>10 DEF RemindersInv

\* A restart: a row that was being sent is put before an operator, with its task; an
\* answer that was being composed is composed again.
LEMMA RestartIs ==
  ASSUME RemindersInv, Restart
  PROVE  /\ events' \in Seq(EventRow) /\ DOMAIN events' = DOMAIN events /\ Len(events') = Len(events)
         /\ \A i \in DOMAIN events : events'[i] = Recovered(events[i]) /\ events'[i].box # "dispatching"
         /\ task' \in [Tasks -> TaskRow]
         /\ \A t \in Tasks : task'[t] = IF task[t].state = "dispatching"
                                        THEN [task[t] EXCEPT !.state = "needs_review"] ELSE task[t]
  <1>1. /\ DOMAIN events = 1..Len(events) /\ Len(events) \in Nat
        /\ \A i \in DOMAIN events : events[i] \in EventRow
    BY Shown, LenProperties
  <1>2. ASSUME NEW i \in DOMAIN events
        PROVE  Recovered(events[i]) \in EventRow /\ Recovered(events[i]).box # "dispatching"
    <2>1. events[i] \in EventRow
      BY <1>1
    <2>2. QED BY <2>1 DEF Recovered, EventRow
  <1>3. events' = [i \in DOMAIN events |-> Recovered(events[i])]
    BY DEF Restart
  <1>4. /\ events' \in Seq(EventRow) /\ DOMAIN events' = DOMAIN events /\ Len(events') = Len(events)
        /\ \A i \in DOMAIN events : events'[i] = Recovered(events[i])
    <2>1. events' \in [1..Len(events) -> EventRow]
      BY <1>1, <1>2, <1>3
    <2>2. events' \in Seq(EventRow)
      BY <1>1, <2>1, SeqDef
    <2>3. QED BY <1>1, <1>3, <2>1, <2>2, LenProperties
  <1>5. ASSUME NEW t \in Tasks
        PROVE  task'[t] = IF task[t].state = "dispatching" THEN [task[t] EXCEPT !.state = "needs_review"] ELSE task[t]
    <2>1. task'[t] = IF \E i \in DOMAIN events : events'[i].box = "unknown" /\ events[i].task = t
                     THEN [task[t] EXCEPT !.state = "needs_review"] ELSE task[t]
      BY DEF Restart
    <2>2. task[t] \in TaskRow
      BY Shown
    <2>3. CASE task[t].state = "dispatching"
      <3>1. PICK i \in Open(events) : Reminds(Db, i, t)
        BY <2>3, Shown DEF TablesAgree, OneRow, Active
      <3>2. i \in DOMAIN events /\ events[i].task = t /\ events[i].kind = "reminder" /\ events[i].state \notin Ended
        BY <3>1, Shown DEF Reminds, Open
      <3>3. events[i].box = "dispatching"
        BY <2>3, <3>2, Shown DEF OccurrenceAgrees, Ended
      <3>4. events'[i].box = "unknown"
        BY <1>1, <1>4, <3>2, <3>3 DEF Recovered, EventRow
      <3>5. QED BY <2>1, <2>3, <3>2, <3>4
    <2>4. CASE task[t].state # "dispatching"
      <3>1. ASSUME NEW i \in DOMAIN events, events'[i].box = "unknown", events[i].task = t
            PROVE  task[t].state = "needs_review"
        <4>1. events[i].box \in {"unknown", "dispatching"}
          BY <1>1, <1>4, <3>1 DEF Recovered, EventRow
        <4>2. events[i].kind = "reminder" /\ OccurrenceAgrees(Db, i)
          BY <4>1, Shown DEF OtherRowAgrees
        <4>3. QED BY <2>4, <3>1, <4>1, <4>2, Shown DEF OccurrenceAgrees
      <3>2. task[t].state = "needs_review" => [task[t] EXCEPT !.state = "needs_review"] = task[t]
        BY <2>2 DEF TaskRow
      <3>3. QED BY <2>1, <2>4, <3>1, <3>2
    <2>5. QED BY <2>3, <2>4
  <1>6. task' \in [Tasks -> TaskRow]
    <2>1. \A t \in Tasks : task[t] \in TaskRow
      BY Shown
    <2>2. \A t \in Tasks : task'[t] \in TaskRow
      BY <1>5, <2>1, ZenonT(40) DEF TaskRow, TaskState, Active
    <2>3. task' = [t \in Tasks |-> task'[t]]
      BY DEF Restart
    <2>4. QED BY <2>2, <2>3
  <1>7. QED BY <1>2, <1>4, <1>5, <1>6

LEMMA RestartKeeps ==
  ASSUME RemindersInv, Restart PROVE RemindersInv' /\ BeginsNone
  <1>1. /\ events' \in Seq(EventRow) /\ DOMAIN events' = DOMAIN events /\ Len(events') = Len(events)
        /\ \A i \in DOMAIN events : events'[i] = Recovered(events[i]) /\ events'[i].box # "dispatching"
        /\ task' \in [Tasks -> TaskRow]
        /\ \A t \in Tasks : task'[t] = IF task[t].state = "dispatching"
                                       THEN [task[t] EXCEPT !.state = "needs_review"] ELSE task[t]
    BY RestartIs
  <1>2. /\ worker' = [at |-> "idle", row |-> 0]
        /\ UNCHANGED <<now, binding, memory, enabled, policy, attempts, requests, crashes, changes>>
        /\ UNCHANGED <<granted, stopped, sends, retries, ran, told>>
    BY DEF Restart, At, people
  <1>3. (Db)'.task = task' /\ (Db)'.events = events' /\ (Db)' \in Tables
    BY <1>1 DEF Db, Tables
  <1>4. ASSUME NEW i \in DOMAIN events
        PROVE  /\ events'[i].kind = events[i].kind /\ events'[i].task = events[i].task /\ events'[i].ver = events[i].ver
               /\ events'[i].state \in Ended <=> events[i].state \in Ended
               /\ events[i].kind = "reminder" => OccurrenceAgrees(Db, i)'
               /\ events[i].kind # "reminder" => OtherRowAgrees(events'[i])
    <2> PICK e : e = events[i]
      OBVIOUS
    <2> PICK f : f = events'[i]
      OBVIOUS
    <2>1. e \in EventRow /\ f = Recovered(e)
      BY <1>1, Shown
    <2>2. f.kind = e.kind /\ f.task = e.task /\ f.ver = e.ver /\ f.req = e.req
      BY <2>1 DEF Recovered, EventRow
    <2>3. CASE e.kind = "reminder"
      <3>1. OccurrenceAgrees(Db, i) /\ e.task \in Tasks
        BY <2>3, Shown DEF OccurrenceAgrees
      <3>2. /\ e.box = "dispatching" => f.box = "unknown" /\ f.state = "needs_review" /\ e.state = "outbox_ready"
            /\ e.box # "dispatching" => f = e
        BY <2>1, <3>1, Shown, ZenonT(40) DEF Recovered, EventRow, OccurrenceAgrees
      <3>3. PICK r : r = task[e.task]
        OBVIOUS
      <3>4. r \in TaskRow /\ task'[f.task] = IF r.state = "dispatching" THEN [r EXCEPT !.state = "needs_review"] ELSE r
        <4>1. task[e.task] \in TaskRow
          BY <3>1, Shown
        <4>2. task'[e.task] = IF task[e.task].state = "dispatching"
                              THEN [task[e.task] EXCEPT !.state = "needs_review"] ELSE task[e.task]
          BY <1>1, <3>1
        <4>3. QED BY <2>2, <3>3, <4>1, <4>2
      <3>5. r.state = "dispatching" => task'[f.task].state = "needs_review"
        BY <3>4 DEF TaskRow
      <3>6. f.state \in Ended <=> e.state \in Ended
        BY <3>2 DEF Ended
      <3>7. OccurrenceAgrees(Db, i)'
        <4>1. f.task \in Tasks /\ (e.box = "dispatching" => r.state = "dispatching")
          BY <2>2, <3>1, <3>3, Shown DEF OccurrenceAgrees
        <4>2. CASE e.box = "dispatching"
          BY <1>3, <3>2, <3>5, <4>1, <4>2 DEF OccurrenceAgrees
        <4>3. CASE e.box # "dispatching"
          BY <1>3, <3>1, <3>2, <3>3, <3>4, <4>1, <4>3, Shown DEF OccurrenceAgrees
        <4>4. QED BY <4>2, <4>3
      <3>8. QED BY <2>2, <2>3, <3>6, <3>7
    <2>4. CASE e.kind # "reminder"
      <3>1. OtherRowAgrees(e) /\ e.box = "none"
        BY <2>4, Shown DEF OtherRowAgrees
      <3>2. f.box = "none" /\ f.state = (IF e.state = "generating" THEN "queued" ELSE e.state)
        BY <2>1, <3>1 DEF Recovered, EventRow
      <3>3. OtherRowAgrees(f) /\ (f.state \in Ended <=> e.state \in Ended)
        BY <2>2, <3>1, <3>2 DEF OtherRowAgrees, Ended
      <3>4. QED BY <2>2, <2>4, <3>3
    <2>5. QED BY <2>3, <2>4
  <1>5. RowsAgree(Db)'
    BY <1>1, <1>3, <1>4 DEF RowsAgree
  <1>6. Open(events') = Open(events)
    BY <1>1, <1>4 DEF Open
  <1>7. OneRow(Db)'
    <2>1. ASSUME NEW t \in Tasks, task'[t].state \in Active PROVE \E i \in Open(events') : Reminds(Db, i, t)'
      <3>1. task[t].state \in Active
        BY <1>1, <2>1 DEF Active
      <3>2. PICK i \in Open(events) : Reminds(Db, i, t)
        BY <3>1, Shown DEF TablesAgree, OneRow
      <3>3. i \in DOMAIN events /\ events[i].kind = "reminder" /\ events[i].task = t
        BY <3>2, Shown DEF Reminds
      <3>4. QED BY <1>1, <1>3, <1>4, <1>6, <3>2, <3>3 DEF Reminds
    <2>2. \A i, j \in Open(events') : events'[i].kind = "reminder" /\ events'[j].kind = "reminder" => i = j
      <3>1. Open(events) \subseteq DOMAIN events
        BY DEF Open
      <3>2. \A i, j \in Open(events) : events[i].kind = "reminder" /\ events[j].kind = "reminder" => i = j
        BY Shown DEF TablesAgree, OneRow
      <3>3. QED BY <1>4, <1>6, <3>1, <3>2
    <2>3. QED BY <1>3, <2>1, <2>2 DEF OneRow
  <1>8. TasksAgree(Db)'
    <2>1. ASSUME NEW u \in Tasks PROVE TaskAgrees(u, task[u])'
      <3>1. TaskAgrees(u, task[u]) /\ task[u] \in TaskRow
        BY Shown
      <3>2. CASE task[u].state = "dispatching"
        <4>1. /\ task'[u].state = "needs_review" /\ Told(task'[u]) = Told(task[u])
              /\ task'[u].mem = task[u].mem /\ task'[u].due = task[u].due /\ task'[u].cancel = task[u].cancel
          BY <1>1, <3>1, <3>2 DEF TaskRow, Told
        <4>2. QED BY <1>2, <3>1, <3>2, <4>1 DEF TaskAgrees, Sent, Active, Unsent
      <3>3. CASE task[u].state # "dispatching"
        BY <1>1, <1>2, <3>1, <3>3 DEF TaskAgrees, Sent
      <3>4. QED BY <3>2, <3>3
    <2>2. QED BY <2>1 DEF TasksAgree, Db
  <1>9. WorkerAgrees(Db)' /\ BeginsNone
    BY <1>1, <1>2, <1>3 DEF WorkerAgrees, BeginsNone, Dispatched
  <1>10. TablesAgree(Db)'
    <2>1. Len(events) <= MaxEvents
      BY Shown DEF TablesAgree
    <2>2. QED BY <1>1, <1>3, <1>5, <1>7, <1>8, <1>9, <2>1 DEF TablesAgree
  <1>11. RestTyped'
    <2>1. worker' \in [at : {"down", "idle", "command", "answered", "prepared", "sending"}, row : 0..MaxEvents]
      BY <1>2, Bounds
    <2>2. QED BY <1>2, <2>1, Shown DEF RestTyped
  <1>12. CommandsInv' /\ AttemptsInv'
    BY <1>2 DEF RemindersInv, CommandsInv, AttemptsInv
  <1>13. QED BY <1>9, <1>10, <1>11, <1>12 DEF RemindersInv

LEMMA InitKeeps == ASSUME Init PROVE RemindersInv
  <1>1. PICK c \in Characters : binding = [char |-> c, gen |-> 1] /\ task = [t \in Tasks |-> Absent(c)]
    BY DEF Init
  <1>2. Absent(c) \in TaskRow
    BY DEF Absent, TaskRow, TaskState
  <1>3. task \in [Tasks -> TaskRow] /\ \A t \in Tasks : task[t] = Absent(c)
    BY <1>1, <1>2
  <1>4. events = <<>> /\ DOMAIN events = {} /\ Len(events) = 0 /\ events \in Seq(EventRow)
    BY EmptySeq, LenProperties DEF Init
  <1>5. DOMAIN sends = {} /\ sends \in Seq([task : Tasks, at : Nat])
    BY EmptySeq, LenProperties DEF Init
  <1>6. RestTyped
    <2>1. now \in 0..MaxTime /\ worker \in [at : {"down", "idle", "command", "answered", "prepared", "sending"}, row : 0..MaxEvents]
          /\ crashes \in 0..MaxCrashes /\ changes \in 0..MaxChanges
      BY Bounds DEF Init
    <2>2. binding \in [char : Characters, gen : Nat] /\ policy \in [is : Policies, ver : Nat]
          /\ memory \in [ver : Nat, open : BOOLEAN] /\ enabled \in BOOLEAN
      BY <1>1, RemindersAssumption DEF Init
    <2>3. requests \in [user : [1..MaxEvents -> {"none", "done", "refused"}], admin : Nat]
      BY DEF Init
    <2>4. granted \in [Tasks -> [due : Nat, gen : Nat, mem : Nat, quiet : BOOLEAN]] /\ retries \in [Tasks -> Nat]
          /\ stopped \subseteq Tasks
      BY DEF Init, NoGrant
    <2>5. ran \in [1..MaxEvents -> Nat] /\ told \in [1..MaxEvents -> SUBSET {"done", "refused"}]
      BY DEF Init
    <2>6. QED BY <1>5, <2>1, <2>2, <2>3, <2>4, <2>5 DEF RestTyped
  <1>7. Db.task = task /\ Db.events = events /\ Db \in Tables
    BY <1>3, <1>4 DEF Db, Tables
  <1>8. RowsAgree(Db) /\ OneRow(Db)
    <2>1. Open(events) = {}
      BY <1>4 DEF Open
    <2>2. \A t \in Tasks : task[t].state \notin Active
      BY <1>3 DEF Absent, Active
    <2>3. QED BY <1>4, <1>7, <2>1, <2>2 DEF RowsAgree, OneRow
  <1>9. TasksAgree(Db)
    <2>1. ASSUME NEW t \in Tasks PROVE TaskAgrees(t, task[t])
      <3>1. Sent(t) = 0
        <4>1. {n \in DOMAIN sends : sends[n].task = t} = {}
          BY <1>5
        <4>2. QED BY <4>1, FS_EmptySet DEF Sent
      <3>2. granted[t] = Told(task[t]) /\ retries[t] = 0 /\ t \notin stopped
        <4>1. granted = [u \in Tasks |-> NoGrant] /\ retries = [u \in Tasks |-> 0] /\ stopped = {}
          BY DEF Init
        <4>2. Told(Absent(c)) = NoGrant
          BY DEF Told, NoGrant, Absent
        <4>3. QED BY <1>3, <4>1, <4>2
      <3>3. task[t].state = "absent" /\ task[t].mem = 0
        BY <1>3 DEF Absent
      <3>4. QED BY <3>1, <3>2, <3>3 DEF TaskAgrees, Active, Unsent
    <2>2. QED BY <1>7, <2>1 DEF TasksAgree
  <1>10. WorkerAgrees(Db)
    BY <1>4, <1>7 DEF WorkerAgrees, Init
  <1>11. TablesAgree(Db)
    BY <1>4, <1>7, <1>8, <1>9, <1>10, Bounds DEF TablesAgree
  <1>12. CommandsInv
    BY DEF Init, CommandsInv
  <1>13. AttemptsInv
    BY <1>5 DEF Init, AttemptsInv
  <1>14. QED BY <1>6, <1>11, <1>12, <1>13 DEF RemindersInv

\* Nothing but Dispatch begins a send.
LEMMA NextKeeps ==
  ASSUME RemindersInv, [Next]_vars PROVE RemindersInv' /\ (BeginsNone \/ Dispatch)
  <1>1. CASE NextWork
    BY <1>1, PrepareKeeps, ApplyBindingKeeps, ApplyMemoryKeeps, BeginCommandKeeps DEF NextWork
  <1>2. CASE RunCommand \/ AnswerCommand
    BY <1>2, RunCommandKeeps, AnswerCommandKeeps
  <1>3. CASE Dispatch
    BY <1>3, DispatchKeeps
  <1>4. CASE NotDispatched \/ FinishDelivery
    BY <1>4, NotDispatchedKeeps, FinishDeliveryKeeps
  <1>5. CASE Review
    BY <1>5, ResolveKeeps DEF Review
  <1>6. CASE (\E r \in Requests : AdminRequest(r)) \/ (\E r \in Commands : UserCommand(r))
    BY <1>6, AdminRequestKeeps, AdmitsKeep
  <1>7. CASE RequestBinding \/ RequestMemory
    BY <1>7, AdmitsKeep
  <1>8. CASE Tick \/ (\E p \in Policies : ContactRequest(p))
    BY <1>8, PassesKeep
  <1>9. CASE Restart
    BY <1>9, RestartKeeps
  <1>10. CASE Pass \/ Switch \/ Crash \/ SenderNotReady \/ UNCHANGED vars
    BY <1>10, QuietKeeps
  <1>11. QED BY <1>1, <1>2, <1>3, <1>4, <1>5, <1>6, <1>7, <1>8, <1>9, <1>10 DEF Next, Work, People

LEMMA RemindersAlways == Spec => []RemindersInv
  <1>1. Init => RemindersInv
    BY InitKeeps
  <1>2. RemindersInv /\ [Next]_vars => RemindersInv'
    BY NextKeeps
  <1>3. QED BY <1>1, <1>2, PTL DEF Spec

-----------------------------------------------------------------------------
(* What follows from the invariant *)

LEMMA RemindersTyped == ASSUME RemindersInv PROVE TypeOK
  <1>1. task \in [Tasks -> [state : TaskState, ver : Nat, due : Nat, gen : Nat, char : Characters,
                            mem : Nat, quiet : BOOLEAN, zoned : BOOLEAN, cancel : BOOLEAN]]
    BY Shown DEF TaskRow
  <1>2. ASSUME NEW i \in DOMAIN events
        PROVE  /\ events[i].kind \in {"reminder", "command", "binding", "memory"}
               /\ events[i].state \in Ended \cup {"queued", "generating", "outbox_ready", "needs_review"}
               /\ events[i].box \in {"none", "pending", "dispatching", "accepted", "rejected", "unknown", "cancelled"}
               /\ events[i].kind = "reminder" => events[i].task \in Tasks
    BY Shown DEF EventRow, OccurrenceAgrees
  <1>3. \A a \in attempts : a.at \in 0..now
    <2>1. attempts = {[at |-> sends[n].at, kind |-> "reminder"] : n \in DOMAIN sends}
      BY DEF RemindersInv, AttemptsInv
    <2>2. \A n \in DOMAIN sends : sends[n].at \in 0..now
      BY SendsAre
    <2>3. QED BY <2>1, <2>2
  <1>4. RestTyped
    BY DEF RemindersInv
  <1>5. requests.user \in [1..MaxEvents -> {"none", "done", "refused"}] /\ requests.admin \in Nat
    BY <1>4 DEF RestTyped
  <1>6. QED BY <1>1, <1>2, <1>3, <1>4, <1>5 DEF TypeOK, RestTyped

\* The send that a step begins is one that is authorized, of a reminder that was not
\* stopped, within the limits of the policy.
LEMMA DispatchIsAuthorized ==
  ASSUME RemindersInv, NEW i \in DOMAIN events, events[i].kind = "reminder", events[i].task \in Tasks, Dispatchable(i)
  PROVE  /\ LET t == events[i].task
                g == granted[t] IN
            /\ g.due <= now /\ now <= g.due + Grace
            /\ g.gen = binding.gen
            /\ g.mem = LinkedVersion(t)
            /\ ~policy.is.paused
            /\ now \in Quiet /\ policy.is.quiet => g.quiet
         /\ events[i].task \notin stopped
         /\ Cardinality({n \in DOMAIN sends : sends[n].at + Day > now}) < policy.is.limit
         /\ \A n \in DOMAIN sends : sends[n].at + policy.is.gap <= now \/ sends[n].at + Day <= now
  <1> PICK t \in Tasks : t = events[i].task
    OBVIOUS
  <1>1. task[t].state = "enqueued" /\ Eligibility(Db, t) = "ok" /\ ~Blocked(task[t], policy.is, attempts)
    BY Shown DEF Dispatchable, Current, OfRow
  <1>2. /\ granted[t] = Told(task[t]) /\ (t \notin Linked => task[t].mem = 0) /\ task[t].due <= now /\ t \notin stopped
        /\ task[t] \in TaskRow /\ now \in Nat /\ Grace \in Nat
    BY <1>1, Shown, SendsAre, RemindersAssumption DEF TaskAgrees, Active
  <1>3. /\ ~(now > task[t].due + Grace) /\ task[t].gen = binding.gen
        /\ (t \in Linked => memory.ver = task[t].mem)
    BY <1>1, Shown DEF Eligibility
  <1>4. now <= task[t].due + Grace
    BY <1>2, <1>3 DEF TaskRow
  <1>5. /\ ~policy.is.paused /\ QuietAllows(policy.is, now, task[t].quiet, task[t].zoned)
        /\ Cardinality(Recent(attempts, now)) < policy.is.limit /\ Close(attempts, now, policy.is.gap) = {}
    BY <1>1 DEF Blocked, Allowed
  <1>6. now \in Quiet /\ policy.is.quiet => task[t].quiet
    BY <1>5 DEF QuietAllows
  <1>7. /\ granted[t].due = task[t].due /\ granted[t].gen = task[t].gen /\ granted[t].mem = task[t].mem
        /\ granted[t].quiet = task[t].quiet
    BY <1>2 DEF Told
  <1>8. Day \in Nat /\ policy.is.gap \in Nat /\ policy.is.limit \in Nat
    <2>1. policy.is \in Policies
      BY Shown, RestIs
    <2>2. policy.is \in Policy
      BY <2>1, RemindersAssumption DEF Valid
    <2>3. QED BY <2>2, ClockAssumption DEF Policy
  <1>9. /\ attempts = {[at |-> sends[n].at, kind |-> "reminder"] : n \in DOMAIN sends}
        /\ \A m, n \in DOMAIN sends : sends[m].at = sends[n].at => m = n
    BY DEF RemindersInv, AttemptsInv
  <1>10. IsFiniteSet(Recent(attempts, now))
    <2> DEFINE f == [n \in DOMAIN sends |-> [at |-> sends[n].at, kind |-> "reminder"]]
    <2>1. f \in Surjection(DOMAIN sends, attempts)
      BY <1>9 DEF Surjection
    <2>2. IsFiniteSet(DOMAIN sends)
      BY SendsAre, FS_Interval
    <2> HIDE DEF f
    <2>3. IsFiniteSet(attempts)
      BY <2>1, <2>2, FS_Surjection
    <2>4. QED BY <2>3, FS_Subset DEF Recent
  <1>11. PICK Late : Late = {n \in DOMAIN sends : sends[n].at + Day > now}
    OBVIOUS
  <1>12. Cardinality(Late) <= Cardinality(Recent(attempts, now)) /\ IsFiniteSet(Late)
    <2> DEFINE f == [n \in Late |-> [at |-> sends[n].at, kind |-> "reminder"]]
    <2>1. \A n \in Late : f[n] \in Recent(attempts, now)
      BY <1>9, <1>11 DEF Recent
    <2>2. f \in [Late -> Recent(attempts, now)]
      BY <2>1
    <2>3. \A m, n \in Late : f[m] = f[n] => m = n
      <3>1. \A n \in Late : f[n].at = sends[n].at
        OBVIOUS
      <3> HIDE DEF f
      <3>2. QED BY <1>9, <1>11, <3>1
    <2> HIDE DEF f
    <2>4. f \in Injection(Late, Recent(attempts, now))
      BY <2>2, <2>3 DEF Injection, IsInjective
    <2>5. QED BY <1>10, <2>4, FS_Injection
  <1>13. Cardinality(Late) < policy.is.limit
    <2>1. Cardinality(Late) \in Nat /\ Cardinality(Recent(attempts, now)) \in Nat
      BY <1>10, <1>12, FS_CardinalityType
    <2>2. QED BY <1>5, <1>8, <1>12, <2>1
  <1>14. ASSUME NEW n \in DOMAIN sends PROVE sends[n].at + policy.is.gap <= now \/ sends[n].at + Day <= now
    <2>1. [at |-> sends[n].at, kind |-> "reminder"] \in attempts
      BY <1>9
    <2>2. [at |-> sends[n].at, kind |-> "reminder"] \notin Close(attempts, now, policy.is.gap)
      BY <1>5
    <2>3. ~(sends[n].at + Day > now) \/ ~(sends[n].at + policy.is.gap > now)
      BY <2>1, <2>2 DEF Close, Recent
    <2>4. sends[n].at \in Nat /\ now \in Nat
      BY SendsAre
    <2>5. QED BY <1>8, <2>3, <2>4
  <1>15. granted[t].mem = LinkedVersion(t)
    BY <1>2, <1>3, <1>7 DEF LinkedVersion
  <1>16. QED BY <1>2, <1>3, <1>4, <1>5, <1>6, <1>7, <1>11, <1>13, <1>14, <1>15

\* tick and reconcile_contact, the commands, the reviews and the worker leave at most
\* one reminder of the conversation under way, and the task, the occurrence and the
\* queue tell the same story of it (reminders.py).
THEOREM OneUnderWay == Spec => []OneActive
  <1>1. ASSUME RemindersInv PROVE OneActive
    <2>1. TypeOK
      BY <1>1, RemindersTyped
    <2>2. Cardinality({t \in Tasks : task[t].state \in Active}) <= 1
      <3> PICK A : A = {t \in Tasks : task[t].state \in Active}
        OBVIOUS
      <3>1. ASSUME NEW t \in A, NEW u \in A PROVE t = u
        <4>1. PICK i \in Open(events) : Reminds(Db, i, t)
          BY <1>1, Shown DEF TablesAgree, OneRow
        <4>2. PICK j \in Open(events) : Reminds(Db, j, u)
          BY <1>1, Shown DEF TablesAgree, OneRow
        <4>3. events[i].kind = "reminder" /\ events[j].kind = "reminder" /\ events[i].task = t /\ events[j].task = u
          BY <1>1, <4>1, <4>2, Shown DEF Reminds
        <4>4. i = j
          BY <1>1, <4>3, Shown DEF TablesAgree, OneRow
        <4>5. QED BY <4>3, <4>4
      <3>2. CASE A = {}
        BY <3>2, FS_EmptySet
      <3>3. CASE A # {}
        <4>1. PICK t \in A : TRUE
          BY <3>3
        <4>2. A = {t}
          BY <3>1, <4>1
        <4>3. QED BY <4>2, FS_Singleton
      <3>4. QED BY <3>2, <3>3
    <2>3. ASSUME NEW t \in Tasks, task[t].state = "enqueued"
          PROVE  \E i \in Open(events) : IsOccurrence(events[i], t, task[t].ver) /\ events[i].box \in {"none", "pending"}
      <3>1. PICK i \in Open(events) : Reminds(Db, i, t)
        BY <1>1, <2>3, Shown DEF TablesAgree, OneRow, Active
      <3>2. i \in DOMAIN events /\ events[i].kind = "reminder" /\ events[i].task = t /\ events[i].state \notin Ended
        BY <1>1, <3>1, Shown DEF Reminds, Open
      <3>3. events[i].ver = task[t].ver /\ events[i].box \in {"none", "pending"}
        BY <1>1, <2>3, <3>2, Shown DEF OccurrenceAgrees, Ended
      <3>4. QED BY <3>2, <3>3 DEF IsOccurrence
    <2>4. ASSUME NEW i \in DOMAIN events, events[i].kind = "reminder"
          PROVE  LET state == task[events[i].task].state IN
                 /\ events[i].box = "dispatching" => state = "dispatching"
                 /\ events[i].box \in {"unknown", "rejected"} => state = "needs_review"
                 /\ i \in Open(events) => state \in Active
      BY <1>1, <2>4, Shown DEF OccurrenceAgrees, Open, Ended, Active
    <2>5. QED BY <2>1, <2>2, <2>3, <2>4 DEF OneActive
  <1>2. QED BY <1>1, RemindersAlways, PTL

\* A reminder is sent at most once for every retry an operator acknowledged, and a
\* command, whether it takes effect with its admission or when its answer is
\* generated, runs once with one answer, through any crashes, deferrals and versions
\* (_prepare, begin_dispatch, delivery_result, admit, _user_reminder_command).
THEOREM RemindersOnce == Spec => []NothingTwice
  <1>1. ASSUME RemindersInv PROVE NothingTwice
    <2>1. ASSUME NEW t \in Tasks PROVE Cardinality({n \in DOMAIN sends : sends[n].task = t}) <= 1 + retries[t]
      <3>1. Sent(t) \in 0..(1 + retries[t])
        BY <1>1, Shown DEF TaskAgrees
      <3>2. QED BY <3>1 DEF Sent
    <2>2. ASSUME NEW i \in 1..MaxEvents
          PROVE  /\ Cardinality(told[i]) <= 1 /\ ran[i] <= 1
                 /\ "done" \in told[i] => ran[i] = 1
                 /\ "refused" \in told[i] => ran[i] = 0
      <3>1. told[i] \subseteq {requests.user[i]} /\ ran[i] = IF requests.user[i] = "done" THEN 1 ELSE 0
        BY <1>1 DEF RemindersInv, CommandsInv
      <3>2. told[i] = {} \/ told[i] = {requests.user[i]}
        BY <3>1
      <3>3. Cardinality({requests.user[i]}) = 1 /\ Cardinality({}) = 0
        BY FS_EmptySet, FS_Singleton
      <3>4. Cardinality(told[i]) <= 1
        <4>1. Cardinality(told[i]) = 0 \/ Cardinality(told[i]) = 1
          BY <3>2, <3>3, Zenon
        <4>2. QED BY <4>1
      <3>5. QED BY <3>1, <3>4
    <2>3. QED BY <2>1, <2>2 DEF NothingTwice, SentOnce, CommandsRunOnce
  <1>2. QED BY <1>1, RemindersAlways, PTL

\* A send begins only as before_dispatch allows, in the state of that moment: within
\* the window, to the binding and for the version of the episode that the last
\* accepted request named, never once its cancellation was answered, and within the
\* limits of the policy.
THEOREM RemindersAuthorized == Spec => SendsAreAuthorized
  <1> DEFINE As(i) == LET t == events[i].task
                          g == granted[t] IN
                      /\ g.due <= now /\ now <= g.due + Grace
                      /\ g.gen = binding.gen
                      /\ g.mem = LinkedVersion(t)
                      /\ ~policy.is.paused
                      /\ now \in Quiet /\ policy.is.quiet => g.quiet
             Within == /\ Cardinality({n \in DOMAIN sends : sends[n].at + Day > now}) < policy.is.limit
                       /\ \A n \in DOMAIN sends : sends[n].at + policy.is.gap <= now \/ sends[n].at + Day <= now
             SoSent == \A i \in 1..MaxEvents : Dispatched(i) => As(i)
             SoStopped == \A i \in 1..MaxEvents : Dispatched(i) => events[i].task \notin stopped
             SoLimited == \A i \in 1..MaxEvents : Dispatched(i) => Within
  <1>1. RemindersInv /\ [Next]_vars => [SoSent]_vars /\ [SoStopped]_vars /\ [SoLimited]_vars
    <2> SUFFICES ASSUME RemindersInv, [Next]_vars PROVE SoSent /\ SoStopped /\ SoLimited
      OBVIOUS
    <2>1. CASE BeginsNone
      BY <2>1 DEF BeginsNone
    <2>2. CASE Dispatch
      <3>1. /\ \A i \in 1..MaxEvents : Dispatched(i) => i = worker.row
            /\ worker.row \in DOMAIN events /\ events[worker.row].kind = "reminder"
            /\ Dispatchable(worker.row) /\ events[worker.row].task \in Tasks
        BY <2>2, DispatchKeeps
      <3>2. PICK i \in DOMAIN events : i = worker.row
        BY <3>1
      <3>3. As(i) /\ events[i].task \notin stopped /\ Within
        BY <3>1, <3>2, DispatchIsAuthorized
      <3> HIDE DEF As, Within
      <3>4. QED BY <3>1, <3>2, <3>3
    <2>3. QED BY <2>1, <2>2, NextKeeps
  <1>2. QED BY <1>1, RemindersAlways, PTL DEF Spec, SendsAreAuthorized, SentAsAuthorized, CancelIsFinal, WithinLimits
=============================================================================
