------------------------------ MODULE ChatProofs ------------------------------
(* Theorems about one chat: its lock, for any number of tasks, threads and    *)
(* loops (SessionLock), its games (Tavern) and its history (Sessions), for    *)
(* any bounds, and what follows for the instances of MCServices.              *)
EXTENDS SessionLock, MCServices, SequenceTheorems, WellFoundedInduction, TLAPS

-----------------------------------------------------------------------------
(* Type correctness *)

LEMMA LockTypeInit == ASSUME Init PROVE TypeOK
  <1>1. arrivals \in Nat /\ 0 \in 0..arrivals
    BY DEF Init
  <1>2. QED BY <1>1 DEF Init, TypeOK

LEMMA LockTypeStep == ASSUME TypeOK, [Next]_vars PROVE TypeOK'
  <1>1. ASSUME NEW t \in Tasks, Acquire(t) \/ Wait(t) \/ Resume(t) PROVE TypeOK'
    <2>1. CASE Wait(t)
      <3>1. arrivals' \in Nat /\ arrivals + 1 \in 0..arrivals' /\ 0..arrivals \subseteq 0..arrivals'
        BY <2>1 DEF TypeOK, Wait
      <3>2. QED BY <2>1, <3>1 DEF TypeOK, Wait, GoTo
    <2>2. QED BY <1>1, <2>1 DEF TypeOK, Acquire, Resume, GoTo
  <1>2. ASSUME NEW t \in Tasks, Cancel(t) \/ HandleCancel(t) PROVE TypeOK'
    BY <1>2 DEF TypeOK, Cancel, HandleCancel, GoTo
  <1>3. ASSUME NEW t \in Tasks, Release(t) PROVE TypeOK'
    <2>1. 0 \in 0..arrivals
      BY DEF TypeOK
    <2>2. ASSUME NEW w \in Tasks, Pass(t, w) PROVE TypeOK'
      <3>1. ticket' \in [Tasks -> 0..arrivals]
        <4>1. \A u \in Tasks : ticket[u] \in 0..arrivals
          BY DEF TypeOK
        <4> DEFINE Places == 0..arrivals
        <4>2. 0 \in Places /\ \A u \in Tasks : ticket[u] \in Places
          BY <2>1, <4>1
        <4> HIDE DEF Places
        <4>3. ticket' \in [Tasks -> Places]
          BY <2>2, <4>2 DEF Pass
        <4>4. QED BY <4>3 DEF Places
      <3>2. QED BY <2>2, <3>1 DEF TypeOK, Pass, GoTo
    <2>3. CASE Free(t)
      <3>1. [u \in Tasks |-> 0] \in [Tasks -> 0..arrivals]
        BY <2>1
      <3>2. QED BY <2>3, <3>1 DEF TypeOK, Free, GoTo
    <2>4. CASE Refused(t)
      BY <2>4 DEF TypeOK, Refused, GoTo
    <2>5. QED BY <1>3, <2>2, <2>3, <2>4 DEF Release
  <1>4. ASSUME NEW t \in Tasks, Post(t) \/ Complete(t) PROVE TypeOK'
    BY <1>4 DEF TypeOK, Post, Schedule, ScheduleFails, Complete, GoTo
  <1>5. ASSUME NEW l \in Loops, Close(l) \/ Abandon(l) PROVE TypeOK'
    BY <1>5 DEF TypeOK, Close, Abandon
  <1>6. CASE UNCHANGED vars
    BY <1>6 DEF TypeOK, vars
  <1>7. QED BY <1>1, <1>2, <1>3, <1>4, <1>5, <1>6 DEF Next

\* The lock, its queue and its tasks keep their types (SessionLock.__init__).
THEOREM LockTypeCorrect == Spec => []TypeOK
  <1>1. QED BY LockTypeInit, LockTypeStep, PTL DEF Spec

-----------------------------------------------------------------------------
(* Mutual exclusion *)

\* The lock is held exactly when it has an owner, who is the only one.
OwnerInv ==
  /\ \A t, u \in Tasks : Owner(t) /\ Owner(u) => t = u
  /\ held <=> \E t \in Tasks : Owner(t)

\* A waiter in the queue has not been granted the lock, one that wakes has, and
\* one that has not come yet was not.
GrantInv ==
  /\ \A t \in Tasks : pc[t] = "new" => t \notin granted
  /\ \A t \in Tasks : Queued(t) => t \notin granted /\ pc[t] \in {"waiting", "cancelled"}
  /\ \A t \in Tasks : pc[t] = "woken" => t \in granted
  /\ scheduled \subseteq granted

\* A grant is on its way to its waiter once, and reaches an open loop: a thread
\* keeps its own open until it is woken.
HandOffInv ==
  /\ \A t \in Tasks : pc[t] = "scheduling" =>
       /\ target[t] \in granted \ scheduled
       /\ Open(target[t])
       /\ target[t] \in Threads => pc[target[t]] = "waiting"
  /\ \A t, u \in Tasks : pc[t] = "scheduling" /\ pc[u] = "scheduling" /\ target[t] = target[u] => t = u

LockInv == TypeOK /\ OwnerInv /\ GrantInv /\ HandOffInv

LEMMA LockInvInit == ASSUME Init PROVE LockInv
  <1>1. TypeOK
    BY LockTypeInit
  <1>2. OwnerInv /\ GrantInv /\ HandOffInv
    BY DEF Init, OwnerInv, GrantInv, HandOffInv, Owner, Queued
  <1>3. QED BY <1>1, <1>2 DEF LockInv

LEMMA AcquireKeeps == ASSUME LockInv, TypeOK', NEW t \in Tasks, Acquire(t) PROVE LockInv'
  <1> USE DEF LockInv, TypeOK, Acquire, GoTo
  <1>1. OwnerInv'
    BY DEF OwnerInv, Owner
  <1>2. GrantInv'
    BY DEF GrantInv, Queued
  <1>3. HandOffInv'
    BY DEF HandOffInv, Open
  <1>4. QED BY <1>1, <1>2, <1>3

LEMMA WaitKeeps == ASSUME LockInv, TypeOK', NEW t \in Tasks, Wait(t) PROVE LockInv'
  <1> USE DEF LockInv, TypeOK, Wait, GoTo
  <1>1. t \notin granted
    BY DEF GrantInv
  <1>2. OwnerInv'
    BY <1>1 DEF OwnerInv, Owner
  <1>3. GrantInv'
    BY <1>1 DEF GrantInv, Queued
  <1>4. HandOffInv'
    BY DEF HandOffInv, Open
  <1>5. QED BY <1>2, <1>3, <1>4

LEMMA ResumeKeeps == ASSUME LockInv, TypeOK', NEW t \in Tasks, Resume(t) \/ Cancel(t) PROVE LockInv'
  <1> USE DEF LockInv, TypeOK, Resume, Cancel, GoTo
  <1>1. OwnerInv'
    BY DEF OwnerInv, GrantInv, Owner
  <1>2. GrantInv'
    BY DEF GrantInv, Queued
  <1>3. HandOffInv'
    BY DEF HandOffInv, Open
  <1>4. QED BY <1>1, <1>2, <1>3

LEMMA HandleCancelKeeps == ASSUME LockInv, TypeOK', NEW t \in Tasks, HandleCancel(t) PROVE LockInv'
  <1> USE DEF LockInv, TypeOK, HandleCancel, GoTo
  <1>1. OwnerInv'
    BY DEF OwnerInv, Owner
  <1>2. GrantInv'
    BY DEF GrantInv, Queued
  <1>3. HandOffInv'
    BY DEF HandOffInv, Open
  <1>4. QED BY <1>1, <1>2, <1>3

LEMMA PassKeeps ==
  ASSUME LockInv, TypeOK', NEW t \in Tasks, NEW w \in Tasks, Pass(t, w) PROVE LockInv'
  <1> USE DEF LockInv, TypeOK, Pass, GoTo
  <1>1. w \notin granted /\ pc[w] = "waiting" /\ Open(w) /\ w # t
    BY DEF GrantInv, First, Skipped, Releasing
  <1>2. OwnerInv'
    BY <1>1 DEF OwnerInv, Owner, Releasing
  <1>3. GrantInv'
    BY <1>1 DEF GrantInv, Queued, Releasing
  <1>4. HandOffInv'
    <2>1. \A u \in Tasks : pc'[u] = "scheduling" =>
            \/ u = t /\ target'[u] = w
            \/ u # t /\ pc[u] = "scheduling" /\ target'[u] = target[u] /\ target[u] # w
      BY <1>1 DEF HandOffInv
    <2>2. pc'[w] = "waiting" /\ w \in granted' \ scheduled' /\ Open(w)'
      BY <1>1 DEF GrantInv, Open
    <2>3. \A u \in Tasks : pc[u] = "waiting" => pc'[u] = "waiting"
      BY DEF Releasing
    <2>4. QED BY <2>1, <2>2, <2>3 DEF HandOffInv, Open
  <1>5. QED BY <1>2, <1>3, <1>4

LEMMA FreeKeeps == ASSUME LockInv, TypeOK', NEW t \in Tasks, Free(t) \/ Refused(t) PROVE LockInv'
  <1> USE DEF LockInv, TypeOK, Free, Refused, GoTo
  <1>1. Owner(t)
    BY DEF Owner, Releasing
  <1>2. OwnerInv'
    BY <1>1 DEF OwnerInv, Owner
  <1>3. GrantInv'
    BY <1>1 DEF GrantInv, Queued, Releasing
  <1>4. HandOffInv'
    BY <1>1 DEF HandOffInv, Open, Releasing
  <1>5. QED BY <1>2, <1>3, <1>4

LEMMA ScheduleKeeps == ASSUME LockInv, TypeOK', NEW t \in Tasks, Post(t) PROVE LockInv'
  <1>1. Schedule(t)
    BY DEF Post, ScheduleFails, LockInv, HandOffInv
  <1> USE <1>1 DEF LockInv, TypeOK, Schedule, GoTo
  <1>2. OwnerInv'
    BY DEF OwnerInv, Owner
  <1>3. GrantInv'
    BY DEF GrantInv, HandOffInv, Queued
  <1>4. HandOffInv'
    BY DEF HandOffInv, Open
  <1>5. QED BY <1>2, <1>3, <1>4

LEMMA CompleteKeeps == ASSUME LockInv, TypeOK', NEW w \in Tasks, Complete(w) PROVE LockInv'
  <1> USE DEF LockInv, TypeOK, Complete, GoTo
  <1>1. OwnerInv'
    BY DEF OwnerInv, Owner, GrantInv
  <1>2. GrantInv'
    BY DEF GrantInv, Queued
  <1>3. HandOffInv'
    BY DEF HandOffInv, Open
  <1>4. QED BY <1>1, <1>2, <1>3

\* Only the loop of a thread that has been woken closes.
LEMMA CloseKeeps ==
  ASSUME LoopsOpen', LockInv, TypeOK', NEW l \in Loops, Close(l) \/ Abandon(l) PROVE LockInv'
  <1>1. l \in closed' /\ \A t \in Tasks : LoopOf[t] = l => t \in Threads
    BY DEF LoopsOpen, Open, Close, Abandon, LockInv, TypeOK
  <1>2. Close(l)
    BY <1>1 DEF Abandon
  <1> USE <1>1, <1>2 DEF LockInv, TypeOK, Close
  <1>3. OwnerInv' /\ GrantInv'
    BY DEF OwnerInv, GrantInv, Owner, Queued
  <1>4. HandOffInv'
    BY DEF HandOffInv, Open, Ended
  <1>5. QED BY <1>3, <1>4

LEMMA LockInvStep == ASSUME LockInv, LoopsOpen', [Next]_vars PROVE LockInv'
  <1>1. TypeOK'
    BY LockTypeStep DEF LockInv
  <1>2. ASSUME NEW t \in Tasks,
               \/ Acquire(t) \/ Wait(t) \/ Resume(t)
               \/ Cancel(t) \/ HandleCancel(t)
               \/ Release(t) \/ Post(t) \/ Complete(t)
        PROVE  LockInv'
    BY <1>1, <1>2, AcquireKeeps, WaitKeeps, ResumeKeeps, HandleCancelKeeps, PassKeeps, FreeKeeps, ScheduleKeeps,
       CompleteKeeps DEF Release
  <1>3. ASSUME NEW l \in Loops, Close(l) \/ Abandon(l) PROVE LockInv'
    BY <1>1, <1>3, CloseKeeps
  <1>4. CASE UNCHANGED vars
    BY <1>1, <1>4 DEF LockInv, OwnerInv, GrantInv, HandOffInv, Owner, Queued, Open, vars
  <1>5. QED BY <1>2, <1>3, <1>4 DEF Next

\* A loop that has closed stays closed.
LEMMA ClosedForGood == ASSUME TypeOK, [Next]_vars, LoopsOpen' PROVE LoopsOpen
  <1>1. closed \subseteq closed'
    BY DEF Next, vars, Acquire, Wait, Resume, Cancel, HandleCancel, Release, Pass, Free, Refused,
           Post, Schedule, ScheduleFails, Complete, Close, Abandon
  <1>2. QED BY <1>1 DEF LoopsOpen, Open

\* The invariant holds until the first loop of a task closes.
WhileOpen == TypeOK /\ (LoopsOpen => LockInv)

LEMMA WhileOpenStep == ASSUME WhileOpen, [Next]_vars PROVE WhileOpen'
  <1>1. TypeOK'
    BY LockTypeStep DEF WhileOpen
  <1>2. ASSUME LoopsOpen' PROVE LockInv'
    BY <1>2, ClosedForGood, LockInvStep DEF WhileOpen
  <1>3. QED BY <1>1, <1>2 DEF WhileOpen

LEMMA WhileOpenInit == ASSUME Init PROVE WhileOpen
  <1>1. QED BY LockInvInit DEF WhileOpen, LockInv

\* As long as the only loops that have closed are those of threads, no two tasks
\* hold the lock (SessionLock.acquire, release): no hand-off fails before.
THEOREM LockExcludes == Spec => []ExclusiveWhileOpen
  <1>1. WhileOpen => ExclusiveWhileOpen
    BY DEF WhileOpen, LockInv, OwnerInv, Owner, ExclusiveWhileOpen, MutualExclusion
  <1>2. WhileOpen /\ [Next]_vars => WhileOpen'
    BY WhileOpenStep
  <1>3. QED BY <1>1, <1>2, WhileOpenInit, PTL DEF Spec

\* And a lock that is held has an owner: cancellation loses no grant.
THEOREM LockKept == Spec => []NeverLost
  <1>1. WhileOpen => NeverLost
    BY DEF WhileOpen, LockInv, OwnerInv, NeverLost
  <1>2. WhileOpen /\ [Next]_vars => WhileOpen'
    BY WhileOpenStep
  <1>3. QED BY <1>1, <1>2, WhileOpenInit, PTL DEF Spec

-----------------------------------------------------------------------------
(* Nobody overtakes *)

\* Who waits is in the queue, at a place of his own, or was taken out of it by a
\* grant; the lock is then held; and a thread's loop is open until it is woken.
QueueInv ==
  /\ \A t, u \in Tasks : Queued(t) /\ Queued(u) /\ ticket[t] = ticket[u] => t = u
  /\ \A t \in Tasks : pc[t] = "waiting" => held /\ (Queued(t) \/ t \in granted)
  /\ \A t \in Threads : pc[t] \in {"new", "waiting", "woken"} => Open(t)

LEMMA QueueInvInit == ASSUME Init PROVE QueueInv
  <1>1. QED BY LockAssumption DEF Init, QueueInv, Queued, Open

\* As long as its loop is open, a waiter is past over only if it was cancelled.
LEMMA WaiterOpen == ASSUME LoopsOpen, QueueInv, NEW u \in Tasks, pc[u] = "waiting" PROVE Open(u) /\ ~Skipped(u)
  <1>1. Open(u)
    BY DEF LoopsOpen, QueueInv
  <1>2. QED BY <1>1 DEF Skipped

LEMMA WaitQueues == ASSUME LockInv, QueueInv, NEW t \in Tasks, Wait(t) PROVE QueueInv'
  <1> USE DEF LockInv, TypeOK, Wait, GoTo
  <1>1. \A u \in Tasks : ticket[u] # arrivals + 1
    <2>1. \A u \in Tasks : ticket[u] <= arrivals
      BY DEF LockInv, TypeOK
    <2>2. QED BY <2>1
  <1>2. \A u, v \in Tasks : Queued(u)' /\ Queued(v)' /\ ticket'[u] = ticket'[v] => u = v
    BY <1>1 DEF QueueInv, Queued
  <1>3. \A u \in Tasks : pc'[u] = "waiting" => held' /\ (Queued(u)' \/ u \in granted')
    <2>1. ticket'[t] = arrivals + 1 /\ arrivals + 1 > 0
      BY DEF LockInv, TypeOK
    <2>2. QED BY <2>1 DEF QueueInv, Queued
  <1>4. \A u \in Threads : pc'[u] \in {"new", "waiting", "woken"} => Open(u)'
    BY LockAssumption DEF QueueInv, Open
  <1>5. QED BY <1>2, <1>3, <1>4 DEF QueueInv

LEMMA PassQueues ==
  ASSUME LockInv, QueueInv, LoopsOpen, NEW t \in Tasks, NEW w \in Tasks, Pass(t, w) PROVE QueueInv'
  <1> USE DEF LockInv, TypeOK, Pass, GoTo
  <1>1. \A u \in Tasks : ticket[u] \in Nat /\ (ticket'[u] = 0 \/ ticket'[u] = ticket[u])
    BY DEF LockInv, TypeOK
  <1>2. \A u, v \in Tasks : Queued(u)' /\ Queued(v)' /\ ticket'[u] = ticket'[v] => u = v
    BY <1>1 DEF QueueInv, Queued
  <1>3. ASSUME NEW u \in Tasks, pc'[u] = "waiting" PROVE held' /\ (Queued(u)' \/ u \in granted')
    <2>1. pc[u] = "waiting" /\ ~Skipped(u)
      BY <1>3, WaiterOpen
    <2>2. CASE Queued(u) /\ ticket[u] <= ticket[w]
      <3>1. ~(ticket[u] < ticket[w])
        BY <2>1, <2>2 DEF First
      <3>2. u = w
        BY <1>1, <2>2, <3>1 DEF First, QueueInv
      <3>3. QED BY <3>2
    <2>3. CASE ~(ticket[u] <= ticket[w])
      BY <1>1, <2>1, <2>3 DEF QueueInv, Queued
    <2>4. QED BY <2>1, <2>2, <2>3 DEF QueueInv
  <1>4. \A u \in Threads : pc'[u] \in {"new", "waiting", "woken"} => Open(u)'
    BY LockAssumption DEF QueueInv, Open
  <1>5. QED BY <1>2, <1>3, <1>4 DEF QueueInv

LEMMA FreeQueues == ASSUME LockInv, QueueInv, LoopsOpen, NEW t \in Tasks, Free(t) PROVE QueueInv'
  <1> USE DEF LockInv, TypeOK, Free, GoTo
  <1>1. ASSUME NEW u \in Tasks, pc[u] = "waiting" PROVE FALSE
    <2>1. ~Queued(u)
      BY <1>1, WaiterOpen
    <2>2. Owner(u) /\ Owner(t)
      BY <1>1, <2>1 DEF QueueInv, Owner, Releasing
    <2>3. u = t
      BY <2>2 DEF OwnerInv
    <2>4. QED BY <1>1, <2>3 DEF Releasing
  <1>2. \A u \in Tasks : pc'[u] # "waiting"
    BY <1>1
  <1>3. \A u \in Threads : pc'[u] \in {"new", "waiting", "woken"} => Open(u)'
    BY LockAssumption DEF QueueInv, Open
  <1>4. QED BY <1>2, <1>3 DEF QueueInv, Queued

\* The steps that neither join the queue nor pass the lock on.
LEMMA OthersQueue ==
  ASSUME LockInv, QueueInv, NEW t \in Tasks,
         \/ Acquire(t) \/ Resume(t) \/ Cancel(t) \/ HandleCancel(t) \/ Refused(t) \/ Post(t) \/ Complete(t)
  PROVE  QueueInv'
  <1> USE LockAssumption DEF LockInv, TypeOK, GoTo, QueueInv, Queued, Open
  <1>1. CASE Acquire(t)
    BY <1>1 DEF Acquire
  <1>2. CASE Resume(t) \/ Cancel(t)
    BY <1>2 DEF Resume, Cancel
  <1>3. CASE HandleCancel(t)
    BY <1>3 DEF HandleCancel
  <1>4. CASE Refused(t)
    <2>1. held
      BY <1>4 DEF Refused, Releasing, Owner, OwnerInv
    <2>2. QED BY <1>4, <2>1 DEF Refused
  <1>5. CASE Post(t)
    BY <1>5 DEF Post, Schedule, ScheduleFails
  <1>6. CASE Complete(t)
    BY <1>6 DEF Complete
  <1>7. QED BY <1>1, <1>2, <1>3, <1>4, <1>5, <1>6

LEMMA CloseQueues ==
  ASSUME LoopsOpen', LockInv, QueueInv, NEW l \in Loops, Close(l) \/ Abandon(l) PROVE QueueInv'
  <1>1. l \in closed' /\ \A t \in Tasks : LoopOf[t] = l => t \in Threads
    BY DEF LoopsOpen, Open, Close, Abandon, LockInv, TypeOK
  <1>2. Close(l)
    BY <1>1 DEF Abandon
  <1>3. QED BY <1>2, LockAssumption DEF Close, QueueInv, Queued, Open, Ended

\* What holds until the first loop of a task closes, the queue included.
OrderlyInv == WhileOpen /\ (LoopsOpen => QueueInv)

LEMMA OrderlyStep == ASSUME OrderlyInv, [Next]_vars PROVE OrderlyInv'
  <1>1. WhileOpen'
    BY WhileOpenStep DEF OrderlyInv
  <1>2. ASSUME LoopsOpen' PROVE QueueInv'
    <2>1. LoopsOpen /\ LockInv /\ QueueInv
      BY <1>2, ClosedForGood DEF OrderlyInv, WhileOpen
    <2>2. ASSUME NEW t \in Tasks,
                 \/ Acquire(t) \/ Wait(t) \/ Resume(t)
                 \/ Cancel(t) \/ HandleCancel(t)
                 \/ Release(t) \/ Post(t) \/ Complete(t)
          PROVE  QueueInv'
      BY <2>1, <2>2, WaitQueues, PassQueues, FreeQueues, OthersQueue DEF Release
    <2>3. ASSUME NEW l \in Loops, Close(l) \/ Abandon(l) PROVE QueueInv'
      BY <1>2, <2>1, <2>3, CloseQueues
    <2>4. CASE UNCHANGED vars
      BY <2>1, <2>4 DEF QueueInv, Queued, Open, vars
    <2>5. QED BY <2>2, <2>3, <2>4 DEF Next
  <1>3. QED BY <1>1, <1>2 DEF OrderlyInv

\* A newcomer takes the lock only when nobody waits for it or sleeps with it
\* granted (SessionLock.acquire): for as long as no loop of a task has closed.
THEOREM LockOrderly == Spec => NoOvertaking
  <1>1. Init => OrderlyInv
    BY WhileOpenInit, QueueInvInit DEF OrderlyInv
  <1>2. OrderlyInv /\ [Next]_vars => OrderlyInv'
    BY OrderlyStep
  <1> DEFINE Step == \A t \in Tasks : LoopsOpen /\ pc[t] = "new" /\ pc'[t] = "holding" =>
                       \A u \in Tasks : pc[u] \notin {"waiting", "woken"}
  <1>3. OrderlyInv /\ [Next]_vars => [Step]_vars
    <2> SUFFICES ASSUME OrderlyInv, Next, LoopsOpen,
                        NEW t \in Tasks, pc[t] = "new", pc'[t] = "holding",
                        NEW u \in Tasks, pc[u] \in {"waiting", "woken"}
                 PROVE  FALSE
      BY DEF vars
    <2>1. LockInv /\ QueueInv
      BY DEF OrderlyInv, WhileOpen
    <2>2. ~held
      <3>1. PICK v \in Tasks : \/ Acquire(v) \/ Wait(v) \/ Resume(v)
                               \/ Cancel(v) \/ HandleCancel(v)
                               \/ Release(v) \/ Post(v) \/ Complete(v)
        BY DEF Next, Close, Abandon
      <3>2. v = t /\ Acquire(t)
        BY <2>1, <3>1 DEF LockInv, TypeOK, GoTo, Acquire, Wait, Resume, Cancel, HandleCancel, Release, Pass, Free,
                          Refused, Releasing, Post, Schedule, ScheduleFails, Complete
      <3>3. QED BY <3>2 DEF Acquire
    <2>3. Owner(u)
      BY <2>1, <2>2 DEF QueueInv, LockInv, GrantInv, Owner
    <2>4. QED BY <2>1, <2>2, <2>3 DEF LockInv, OwnerInv
  <1>4. QED BY <1>1, <1>2, <1>3, PTL DEF Spec, NoOvertaking

-----------------------------------------------------------------------------
(* Steps, one after the other *)

LEMMA LeastOf == ASSUME NEW N \in SUBSET Nat, N # {} PROVE \E n \in N : \A m \in N : n <= m
  <1>1. PICK n \in N : \A m \in N : ~(<<m, n>> \in OpToRel(<, Nat))
    BY NatLessThanWellFounded, WFMin
  <1>2. \A m \in N : ~(m < n)
    BY <1>1 DEF OpToRel
  <1>3. \A m \in N : m \in Nat
    OBVIOUS
  <1>4. QED BY <1>2, <1>3

LEMMA UpTo ==
  ASSUME NEW N \in Nat, NEW H, 0 \in H, \A n \in 1..N : n - 1 \in H => n \in H
  PROVE  \A n \in 0..N : n \in H
  <1> DEFINE Bad == {n \in 0..N : n \notin H}
  <1>1. SUFFICES ASSUME Bad # {} PROVE FALSE
    OBVIOUS
  <1>2. PICK n \in Bad : \A m \in Bad : n <= m
    <2>1. Bad \in SUBSET Nat
      OBVIOUS
    <2> HIDE DEF Bad
    <2>2. QED BY <1>1, <2>1, LeastOf
  <1>3. n \in 1..N /\ n - 1 \in 0..N
    BY <1>2
  <1>4. n - 1 \notin Bad
    BY <1>2, <1>3
  <1>5. QED BY <1>2, <1>3, <1>4

\* From base, one of F for each of 1..N.
After(f, N, base, F) == f = [n \in 0..N |-> IF n = 0 THEN base ELSE F[n][f[n - 1]]]

\* There is a function that is defined step by step.
LEMMA StepsDefine ==
  ASSUME NEW G, NEW N \in Nat, NEW base \in G, NEW F \in [1..N -> [G -> G]]
  PROVE  \E f \in [0..N -> G] : After(f, N, base, F)
  <1> DEFINE H == {k \in 0..N : \E f \in [0..k -> G] :
                     f[0] = base /\ \A n \in 1..k : f[n] = F[n][f[n - 1]]}
  <1>1. 0 \in H
    <2> DEFINE f == [n \in 0..0 |-> base]
    <2>1. f \in [0..0 -> G] /\ f[0] = base /\ \A n \in 1..0 : f[n] = F[n][f[n - 1]]
      OBVIOUS
    <2> HIDE DEF f
    <2>2. QED BY <2>1
  <1>2. ASSUME NEW k \in 1..N, k - 1 \in H PROVE k \in H
    <2>1. PICK f \in [0..(k - 1) -> G] : f[0] = base /\ \A n \in 1..(k - 1) : f[n] = F[n][f[n - 1]]
      BY <1>2
    <2> DEFINE g == [n \in 0..k |-> IF n = k THEN F[k][f[k - 1]] ELSE f[n]]
    <2>2. f[k - 1] \in G /\ F[k] \in [G -> G]
      BY <1>2
    <2>3. F[k][f[k - 1]] \in G
      BY <2>2
    <2>4. g \in [0..k -> G]
      BY <2>3
    <2>5. g[0] = base /\ \A n \in 1..k : g[n] = F[n][g[n - 1]]
      BY <2>1
    <2>6. k \in 0..N
      OBVIOUS
    <2> HIDE DEF g
    <2>7. QED BY <2>4, <2>5, <2>6
  <1>3. N \in H
    <2> HIDE DEF H
    <2>1. \A n \in 0..N : n \in H
      BY <1>1, <1>2, UpTo
    <2>2. QED BY <2>1
  <1>4. PICK f \in [0..N -> G] : f[0] = base /\ \A n \in 1..N : f[n] = F[n][f[n - 1]]
    BY <1>3
  <1>5. \A n \in 0..N : f[n] = IF n = 0 THEN base ELSE F[n][f[n - 1]]
    BY <1>4
  <1>6. QED BY <1>4, <1>5 DEF After

-----------------------------------------------------------------------------
(* What is in a queue *)

In(queue) == {queue[i] : i \in DOMAIN queue}

-----------------------------------------------------------------------------
(* The games of a chat *)

NoGame == [stage |-> "none"]
GamesOf(c) == 1..c.Games
LinesOf(c) == 1..c.Lines
TavernPlaces == {"none", "picking", "opening", "loading", "rolling"}
Sittings(c) == TavernOf(c)!Session

\* What the tavern of a chat may be (_PENDING_MAX is 30).
Setting(c) == c.Lines \in Nat /\ c.Games \in Nat /\ c.PendingMax \in Nat \ {0} /\ c.Crashes \in Nat

\* A menu holds no game and no lines; a game that is played has been begun.
Sound(t) ==
  /\ t.stage \in {"menu", "saves"} => t.game = 0 /\ t.pending = <<>>
  /\ t.stage = "playing" => t.game \in 1..begun

TavernTypes(c) ==
  /\ table \in Sittings(c) \cup {NoGame} /\ disk \in Sittings(c) \cup {NoGame}
  /\ saves \in [GamesOf(c) -> Sittings(c) \cup {NoGame}]
  /\ runner \in {"none", "gathering", "writing", "telling", "stalling"}
  /\ batch \in SUBSET LinesOf(c) /\ dropped \in SUBSET LinesOf(c)
  /\ handler \in [at : TavernPlaces, save : Sittings(c) \cup {NoGame}]
  /\ seated \in BOOLEAN /\ checked \in BOOLEAN /\ stalled \in BOOLEAN /\ idle \in BOOLEAN
  /\ bowl \in BOOLEAN /\ stuck \in BOOLEAN /\ stray \in BOOLEAN
  /\ said \in 0..c.Lines /\ begun \in 0..c.Games /\ crashes \in 0..c.Crashes
  /\ answered \in [LinesOf(c) -> Nat]

\* Who may be where.
PlacesAgree ==
  /\ seated => table # NoGame /\ checked
  /\ runner # "none" => seated /\ table.stage = "playing" /\ handler.at \in {"none", "rolling"}
  /\ bowl => checked /\ ~seated /\ handler.at = "none"
  /\ handler.at # "none" => checked

\* The message at hand finds the table as it needs it.
HandlerAgrees(c) ==
  /\ handler.at # "none" => table # NoGame
  /\ handler.at = "picking" => table.stage = "menu" /\ Sound(table)
  /\ handler.at = "opening" => table.stage = "playing" /\ table.game = 0 /\ table.pending = <<>> /\ begun < c.Games
  /\ handler.at = "loading" =>
       /\ table.stage = "saves"
       /\ handler.save # NoGame /\ handler.save.game \in 1..begun
       /\ saves[handler.save.game] = handler.save
  /\ handler.at = "rolling" => table.stage = "playing" /\ Sound(table)

\* The file is the game at the table, or there is none.
FilesAgree(c) ==
  /\ disk # NoGame => Sound(disk)
  /\ seated /\ handler.at # "opening" => disk = table
  /\ seated /\ handler.at = "opening" => disk # NoGame /\ disk.game = 0
  /\ checked /\ ~seated => disk = NoGame \/ stray
SavesSound(c) ==
  \A g \in GamesOf(c) : saves[g] # NoGame => saves[g].game = g /\ saves[g].stage = "playing" /\ g <= begun

\* Lines that were put down and not answered.
Unanswered(t) == \A i \in In(t.pending) : i <= said /\ answered[i] = 0

LinesAgree(c) ==
  /\ table # NoGame => Unanswered(table)
  /\ disk # NoGame => Unanswered(disk)
  /\ \A i \in LinesOf(c) : answered[i] <= 1 /\ (i > said => answered[i] = 0)
  /\ runner = "writing" => \A i \in batch : i <= said /\ answered[i] = 0

\* What a line has come to.
Settled(i) == answered[i] > 0 \/ i \in dropped \/ stray
Holds(t, i) == t # NoGame /\ i \in In(t.pending)

LinesStay(c) == \A i \in 1..said : Settled(i) \/ Holds(disk, i) \/ \E g \in GamesOf(c) : Holds(saves[g], i)

\* An older save of the game that is in the file holds nothing that is not in the file.
SavesAgree(c) ==
  disk # NoGame /\ disk.game # 0 =>
    \A i \in LinesOf(c) : Holds(saves[disk.game], i) => Settled(i) \/ Holds(disk, i)

GamesAgree == \A g \in 1..begun : (disk # NoGame /\ disk.game = g) \/ saves[g] # NoGame \/ stray

TavernInv(c) ==
  /\ TavernTypes(c) /\ PlacesAgree /\ HandlerAgrees(c) /\ FilesAgree(c) /\ SavesSound(c)
  /\ LinesAgree(c) /\ LinesStay(c) /\ SavesAgree(c) /\ GamesAgree

LEMMA SittingIs ==
  ASSUME NEW c
  PROVE  /\ Sittings(c) = [stage : {"menu", "saves", "playing"}, game : 0..c.Games, host : c.Players,
                           players : SUBSET c.Players, pending : Seq(LinesOf(c)), over : BOOLEAN]
         /\ \A t \in Sittings(c) :
              /\ t # NoGame /\ t.stage \in {"menu", "saves", "playing"} /\ t.game \in 0..c.Games
              /\ t.pending \in Seq(LinesOf(c)) /\ t.host \in c.Players /\ t.players \in SUBSET c.Players /\ t.over \in BOOLEAN
  <1>1. Sittings(c) = [stage : {"menu", "saves", "playing"}, game : 0..c.Games, host : c.Players,
                       players : SUBSET c.Players, pending : Seq(LinesOf(c)), over : BOOLEAN]
    BY DEF Sittings, TavernOf!Session, TavernOf!Line, LinesOf
  <1>2. ASSUME NEW t \in Sittings(c)
        PROVE  /\ t.stage # "none" /\ t.stage \in {"menu", "saves", "playing"} /\ t.game \in 0..c.Games
               /\ t.pending \in Seq(LinesOf(c)) /\ t.host \in c.Players /\ t.players \in SUBSET c.Players /\ t.over \in BOOLEAN
    <2>1. t \in [stage : {"menu", "saves", "playing"}, game : 0..c.Games, host : c.Players,
                 players : SUBSET c.Players, pending : Seq(LinesOf(c)), over : BOOLEAN]
      BY <1>1
    <2>2. QED BY <2>1
  <1>3. NoGame.stage = "none"
    BY DEF NoGame
  <1>4. QED BY <1>1, <1>2, <1>3

LEMMA PendingRangeIs == ASSUME NEW c, NEW s PROVE TavernOf(c)!Range(s) = In(s)
  BY DEF TavernOf!Range, In

\* A line that is put down is among those that wait; a line above the cap is not.
LEMMA CappedIs ==
  ASSUME NEW c, Setting(c), NEW s \in Seq(LinesOf(c)), NEW i \in LinesOf(c)
  PROVE  /\ TavernOf(c)!Capped(s, i) \in Seq(LinesOf(c))
         /\ i \in In(TavernOf(c)!Capped(s, i)) /\ In(TavernOf(c)!Capped(s, i)) \subseteq In(s) \cup {i}
  <1> DEFINE K == LinesOf(c)
  <1>1. ASSUME NEW q \in Seq(K)
        PROVE Append(q, i) \in Seq(K) /\ In(Append(q, i)) = In(q) \cup {i}
    <2>1. /\ Append(q, i) \in Seq(K) /\ Append(q, i)[Len(q) + 1] = i /\ DOMAIN Append(q, i) = 1..(Len(q) + 1)
          /\ DOMAIN q = 1..Len(q) /\ Len(q) \in Nat /\ \A j \in 1..Len(q) : Append(q, i)[j] = q[j]
      OBVIOUS
    <2>2. QED BY <2>1 DEF In
  <1>2. CASE Len(s) = c.PendingMax
    <2>1. s # <<>>
      BY <1>2 DEF Setting
    <2>2. Tail(s) \in Seq(K) /\ In(Tail(s)) \subseteq In(s)
      <3>1. /\ Tail(s) \in Seq(K) /\ Len(Tail(s)) = Len(s) - 1 /\ \A j \in 1..Len(Tail(s)) : Tail(s)[j] = s[j + 1]
            /\ DOMAIN Tail(s) = 1..Len(Tail(s)) /\ DOMAIN s = 1..Len(s) /\ Len(s) \in Nat
        BY <2>1
      <3>2. \A j \in 1..Len(Tail(s)) : j + 1 \in 1..Len(s)
        BY <3>1
      <3>3. QED BY <3>1, <3>2 DEF In
    <2>3. TavernOf(c)!Capped(s, i) = Append(Tail(s), i)
      BY <1>2 DEF TavernOf!Capped
    <2>4. QED BY <1>1, <2>2, <2>3
  <1>3. CASE Len(s) # c.PendingMax
    <2>1. TavernOf(c)!Capped(s, i) = Append(s, i)
      BY <1>3 DEF TavernOf!Capped
    <2>2. QED BY <1>1, <2>1
  <1>4. QED BY <1>2, <1>3

\* What is left after a round is what was not in it.
LEMMA LeftIs ==
  ASSUME NEW c, NEW s \in Seq(LinesOf(c))
  PROVE  TavernOf(c)!Left(s) \in Seq(LinesOf(c)) /\ In(TavernOf(c)!Left(s)) = In(s) \ batch
  <1> DEFINE K == LinesOf(c)
             G == Seq(K)
  <1>1. PICK b : b = batch
    OBVIOUS
  <1> DEFINE Put(n, q) == IF s[n] \in b THEN q ELSE Append(q, s[n])
             F == [n \in 1..Len(s) |-> [q \in G |-> Put(n, q)]]
             f == CHOOSE f : f = [n \in 0..Len(s) |-> IF n = 0 THEN <<>> ELSE Put(n, f[n - 1])]
  <1>2. Len(s) \in Nat /\ DOMAIN s = 1..Len(s) /\ \A n \in 1..Len(s) : s[n] \in K
    BY LenProperties, ElementOfSeq
  <1>3. TavernOf(c)!Left(s) = f[Len(s)]
    BY <1>1 DEF TavernOf!Left
  <1>4. ASSUME NEW n \in 1..Len(s), NEW q \in G
        PROVE Put(n, q) \in G /\ In(Put(n, q)) = In(q) \cup ({s[n]} \ b)
    <2>1. CASE s[n] \in b
      BY <2>1
    <2>2. CASE s[n] \notin b
      <3>1. PICK x \in K : x = s[n]
        BY <1>2
      <3>2. /\ Append(q, x) \in G /\ Append(q, x)[Len(q) + 1] = x /\ DOMAIN Append(q, x) = 1..(Len(q) + 1)
            /\ DOMAIN q = 1..Len(q) /\ Len(q) \in Nat /\ \A j \in 1..Len(q) : Append(q, x)[j] = q[j]
        OBVIOUS
      <3>3. In(Append(q, x)) = In(q) \cup {x}
        BY <3>2 DEF In
      <3>4. QED BY <2>2, <3>1, <3>2, <3>3
    <2>3. QED BY <2>1, <2>2
  <1>5. F \in [1..Len(s) -> [G -> G]] /\ <<>> \in G
    BY <1>4
  <1>6. \A n \in 1..Len(s), q \in G : F[n][q] = Put(n, q)
    OBVIOUS
  <1> HIDE DEF F, G, Put
  <1>7. PICK g \in [0..Len(s) -> G] : After(g, Len(s), <<>>, F)
    BY <1>2, <1>5, StepsDefine
  <1>8. g = [n \in 0..Len(s) |-> IF n = 0 THEN <<>> ELSE Put(n, g[n - 1])]
    <2>1. \A n \in 1..Len(s) : g[n - 1] \in G
      BY <1>2, <1>7
    <2>2. \A n \in 0..Len(s) : (IF n = 0 THEN <<>> ELSE F[n][g[n - 1]]) = (IF n = 0 THEN <<>> ELSE Put(n, g[n - 1]))
      BY <1>2, <1>6, <2>1
    <2>3. QED BY <1>7, <2>2 DEF After
  <1>9. f = [n \in 0..Len(s) |-> IF n = 0 THEN <<>> ELSE Put(n, f[n - 1])]
    BY <1>8
  <1> HIDE DEF f
  <1> DEFINE H == {n \in 0..Len(s) : f[n] \in G /\ In(f[n]) = {s[i] : i \in 1..n} \ b}
  <1>10. 0 \in H
    <2>1. f[0] = <<>>
      BY <1>2, <1>9
    <2>2. In(<<>>) = {}
      BY DEF In
    <2>3. QED BY <1>2, <1>5, <2>1, <2>2
  <1>11. ASSUME NEW n \in 1..Len(s), n - 1 \in H PROVE n \in H
    <2>1. f[n] = Put(n, f[n - 1])
      BY <1>2, <1>9
    <2>2. f[n - 1] \in G /\ In(f[n - 1]) = {s[i] : i \in 1..(n - 1)} \ b
      BY <1>11
    <2>3. f[n] \in G /\ In(f[n]) = In(f[n - 1]) \cup ({s[n]} \ b)
      BY <1>4, <2>1, <2>2
    <2>4. {s[i] : i \in 1..n} = {s[i] : i \in 1..(n - 1)} \cup {s[n]}
      <3>1. 1..n = 1..(n - 1) \cup {n}
        BY <1>2
      <3>2. QED BY <3>1
    <2>5. n \in 0..Len(s)
      BY <1>2
    <2>6. QED BY <2>2, <2>3, <2>4, <2>5
  <1>12. Len(s) \in H
    <2> HIDE DEF H
    <2>1. \A n \in 0..Len(s) : n \in H
      BY <1>2, <1>10, <1>11, UpTo
    <2>2. QED BY <1>2, <2>1
  <1>13. {s[i] : i \in 1..Len(s)} = In(s)
    BY <1>2 DEF In
  <1>14. QED BY <1>1, <1>3, <1>12, <1>13 DEF G

-----------------------------------------------------------------------------
(* What becomes of the lines and of the games *)

\* The games that stay, when the game in the file is put away or nothing is.
PutBy ==
  \/ /\ disk # NoGame /\ disk.game # 0
     /\ saves' = [saves EXCEPT ![disk.game] = disk] /\ disk' \in {disk, NoGame}
  \/ saves' = saves /\ (disk' = disk \/ (disk' = NoGame /\ (disk = NoGame \/ stray \/ disk.game = 0)))

LEMMA PutByKeeps ==
  ASSUME NEW c, Setting(c), TavernInv(c), PutBy, UNCHANGED <<said, begun, answered, dropped, stray>>
  PROVE  /\ saves' \in [GamesOf(c) -> Sittings(c) \cup {NoGame}] /\ disk' \in {disk, NoGame}
         /\ disk' # NoGame => Sound(disk)' /\ Unanswered(disk)'
         /\ SavesSound(c)' /\ LinesStay(c)' /\ SavesAgree(c)' /\ GamesAgree'
  <1>1. /\ TavernTypes(c) /\ FilesAgree(c) /\ SavesSound(c) /\ LinesAgree(c) /\ LinesStay(c) /\ SavesAgree(c) /\ GamesAgree
    BY DEF TavernInv
  <1>2. disk' \in {disk, NoGame}
    BY DEF PutBy
  <1>3. disk' # NoGame => Sound(disk)' /\ Unanswered(disk)'
    BY <1>1, <1>2 DEF FilesAgree, LinesAgree, Sound, Unanswered
  <1>4. disk # NoGame => disk \in Sittings(c) /\ Sound(disk) /\ disk.game \in 0..c.Games /\ disk.stage \in {"menu", "saves", "playing"}
    <2>1. \A t \in Sittings(c) : t.game \in 0..c.Games /\ t.stage \in {"menu", "saves", "playing"}
      BY SittingIs
    <2>2. disk # NoGame => disk \in Sittings(c) /\ Sound(disk)
      BY <1>1 DEF TavernTypes, FilesAgree
    <2>3. QED BY <2>1, <2>2
  <1>5. disk # NoGame /\ disk.game # 0 => disk.stage = "playing" /\ disk.game \in GamesOf(c) /\ disk.game <= begun
    BY <1>4 DEF Sound, GamesOf, Setting
  <1>6. disk # NoGame /\ disk.game = 0 => \A i : i \notin In(disk.pending)
    <2>1. begun \in Nat
      BY <1>1 DEF TavernTypes
    <2>2. disk # NoGame /\ disk.game = 0 => disk.pending = <<>>
      BY <1>4, <2>1 DEF Sound
    <2>3. QED BY <2>2 DEF In
  <1>7. saves \in [GamesOf(c) -> Sittings(c) \cup {NoGame}] /\ \A i : Settled(i)' <=> Settled(i)
    BY <1>1 DEF TavernTypes, Settled
  <1>8. CASE disk # NoGame /\ disk.game # 0 /\ saves' = [saves EXCEPT ![disk.game] = disk]
    <2>1. /\ saves' \in [GamesOf(c) -> Sittings(c) \cup {NoGame}] /\ saves'[disk.game] = disk
          /\ \A g \in GamesOf(c) : g # disk.game => saves'[g] = saves[g]
      BY <1>4, <1>5, <1>7, <1>8
    <2>2. SavesSound(c)'
      BY <1>1, <1>5, <1>8, <2>1 DEF SavesSound
    <2>3. LinesStay(c)'
      <3>1. SUFFICES ASSUME NEW i \in 1..said, ~Settled(i)
                     PROVE  \E g \in GamesOf(c) : Holds(saves'[g], i)
        BY <1>7 DEF LinesStay, Holds
      <3>2. CASE Holds(disk, i)
        BY <1>5, <1>8, <2>1, <3>2
      <3>3. CASE \E g \in GamesOf(c) : Holds(saves[g], i)
        <4>1. PICK g \in GamesOf(c) : Holds(saves[g], i)
          BY <3>3
        <4>2. CASE g # disk.game
          BY <2>1, <4>1, <4>2
        <4>3. CASE g = disk.game
          <5>1. i \in LinesOf(c)
            BY <1>1 DEF TavernTypes, LinesOf, Setting
          <5>2. Holds(disk, i)
            BY <1>1, <1>8, <3>1, <4>1, <4>3, <5>1 DEF SavesAgree
          <5>3. QED BY <1>5, <1>8, <2>1, <5>2
        <4>4. QED BY <4>2, <4>3
      <3>4. QED BY <1>1, <3>1, <3>2, <3>3 DEF LinesStay
    <2>4. SavesAgree(c)'
      BY <1>2, <2>1 DEF SavesAgree, Holds
    <2>5. GamesAgree'
      <3>1. begun <= c.Games /\ begun \in Nat
        BY <1>1 DEF TavernTypes, Setting
      <3>2. \A g \in 1..begun : g \in GamesOf(c)
        BY <3>1 DEF GamesOf, Setting
      <3>3. QED BY <1>1, <1>5, <1>8, <2>1, <3>2 DEF GamesAgree
    <2>6. QED BY <1>2, <1>3, <2>1, <2>2, <2>3, <2>4, <2>5
  <1>9. CASE saves' = saves /\ (disk' = disk \/ (disk' = NoGame /\ (disk = NoGame \/ stray \/ disk.game = 0)))
    <2>1. SavesSound(c)'
      BY <1>1, <1>9 DEF SavesSound
    <2>2. LinesStay(c)'
      BY <1>1, <1>6, <1>7, <1>9 DEF LinesStay, Holds, Settled
    <2>3. SavesAgree(c)'
      BY <1>1, <1>7, <1>9 DEF SavesAgree, Holds
    <2>4. GamesAgree'
      BY <1>1, <1>9 DEF GamesAgree
    <2>5. QED BY <1>2, <1>3, <1>7, <1>9, <2>1, <2>2, <2>3, <2>4
  <1>10. QED BY <1>8, <1>9 DEF PutBy

\* The game that is sat at is written down, with what was in the file before.
SatDown(c) ==
  /\ saves' = saves /\ disk' # NoGame /\ (stray => stray')
  /\ \A i \in LinesOf(c) : /\ Settled(i) => Settled(i)'
                           /\ Holds(disk, i) => Settled(i)' \/ Holds(disk', i)
                           /\ i <= said' /\ i > said => Holds(disk', i)
  /\ disk'.game # 0 =>
       \/ disk # NoGame /\ disk.game = disk'.game
       \/ \A i \in LinesOf(c) : Holds(saves[disk'.game], i) => Settled(i)'
  /\ disk # NoGame /\ disk.game \in GamesOf(c) => stray' \/ disk'.game = disk.game
  /\ \A g \in GamesOf(c) : g <= begun' /\ g > begun => disk'.game = g

LEMMA SatDownKeeps ==
  ASSUME NEW c, Setting(c), TavernInv(c), SatDown(c), said' \in 0..c.Lines, begun' \in 0..c.Games
  PROVE  LinesStay(c)' /\ SavesAgree(c)' /\ GamesAgree'
  <1>1. /\ TavernTypes(c) /\ LinesStay(c) /\ SavesAgree(c) /\ GamesAgree
    BY DEF TavernInv
  <1>2. said \in Nat /\ said' \in Nat /\ begun \in Nat /\ begun' \in Nat
    BY <1>1 DEF TavernTypes
  <1>3. LinesStay(c)'
    <2>1. SUFFICES ASSUME NEW i \in 1..said'
                   PROVE  Settled(i)' \/ Holds(disk', i) \/ \E g \in GamesOf(c) : Holds(saves[g], i)
      BY DEF LinesStay, Holds, SatDown
    <2>2. i \in LinesOf(c)
      BY DEF LinesOf, Setting
    <2>3. CASE i <= said
      <3>1. i \in 1..said
        BY <1>2, <2>3
      <3>2. QED BY <1>1, <2>2, <3>1 DEF LinesStay, SatDown
    <2>4. CASE ~(i <= said)
      <3>1. i > said /\ i <= said'
        BY <1>2, <2>4
      <3>2. QED BY <2>2, <3>1 DEF SatDown
    <2>5. QED BY <2>3, <2>4
  <1>4. SavesAgree(c)'
    <2>1. SUFFICES ASSUME disk'.game # 0, NEW i \in LinesOf(c), Holds(saves[disk'.game], i)
                   PROVE  Settled(i)' \/ Holds(disk', i)
      BY DEF SavesAgree, SatDown, Holds
    <2>2. CASE disk # NoGame /\ disk.game = disk'.game
      BY <1>1, <2>1, <2>2 DEF SavesAgree, SatDown
    <2>3. CASE \A j \in LinesOf(c) : Holds(saves[disk'.game], j) => Settled(j)'
      BY <2>1, <2>3
    <2>4. QED BY <2>1, <2>2, <2>3 DEF SatDown
  <1>5. GamesAgree'
    <2>1. SUFFICES ASSUME NEW g \in 1..begun' PROVE disk'.game = g \/ saves[g] # NoGame \/ stray'
      BY DEF GamesAgree, SatDown
    <2>2. g \in GamesOf(c)
      BY DEF GamesOf, Setting
    <2>3. CASE g <= begun
      <3>1. g \in 1..begun
        BY <1>2, <2>3
      <3>2. QED BY <1>1, <2>2, <3>1 DEF GamesAgree, SatDown
    <2>4. CASE ~(g <= begun)
      <3>1. g > begun /\ g <= begun'
        BY <1>2, <2>4
      <3>2. QED BY <2>2, <3>1 DEF SatDown
    <2>5. QED BY <2>3, <2>4
  <1>6. QED BY <1>3, <1>4, <1>5

-----------------------------------------------------------------------------
(* The steps that leave the game and its file alone *)

LEMMA QuietKeeps ==
  ASSUME NEW c, Setting(c), TavernInv(c), UNCHANGED <<table, seated, disk, saves, said, begun, answered, dropped, stray>>,
         TavernTypes(c)', PlacesAgree', HandlerAgrees(c)', handler.at # "opening", handler'.at # "opening",
         checked' /\ ~checked => disk = NoGame,
         runner' = "writing" => (batch' = batch /\ runner = "writing") \/ (table # NoGame /\ batch' \subseteq In(table.pending))
  PROVE  TavernInv(c)'
  <1>1. /\ TavernTypes(c) /\ FilesAgree(c) /\ SavesSound(c) /\ LinesAgree(c) /\ LinesStay(c) /\ SavesAgree(c) /\ GamesAgree
    BY DEF TavernInv
  <1>2. \A i : (Settled(i)' <=> Settled(i))
    BY DEF Settled
  <1>3. FilesAgree(c)'
    BY <1>1 DEF FilesAgree, Sound
  <1>4. SavesSound(c)' /\ GamesAgree'
    BY <1>1 DEF SavesSound, GamesAgree
  <1>5. LinesStay(c)' /\ SavesAgree(c)'
    BY <1>1, <1>2 DEF LinesStay, SavesAgree, Holds
  <1>6. LinesAgree(c)'
    BY <1>1 DEF LinesAgree, Unanswered
  <1>7. QED BY <1>3, <1>4, <1>5, <1>6 DEF TavernInv

\* What these steps change of the message at hand.
LEMMA AskedKeeps ==
  ASSUME NEW c, Setting(c), TavernInv(c)
  PROVE  /\ TavernOf(c)!Pick => TavernInv(c)'
         /\ TavernOf(c)!PickSave => TavernInv(c)'
         /\ TavernOf(c)!LoadFails => TavernInv(c)'
         /\ (\E p \in c.Players : TavernOf(c)!Roll(p)) => TavernInv(c)'
  <1>0. /\ TavernTypes(c) /\ PlacesAgree /\ HandlerAgrees(c) /\ FilesAgree(c) /\ SavesSound(c)
    BY DEF TavernInv
  <1> DEFINE rest == UNCHANGED <<table, seated, disk, saves, idle, runner, batch, stalled, stuck, answered,
                                 checked, bowl, said, begun, crashes, dropped, stray>>
  <1>1. ASSUME rest, handler' \in [at : TavernPlaces, save : Sittings(c) \cup {NoGame}],
               handler.at # "opening", handler'.at # "opening",
               HandlerAgrees(c)', handler'.at # "none" => checked /\ ~bowl /\ handler.at = "none",
               runner # "none" => handler'.at \in {"none", "rolling"}
        PROVE TavernInv(c)'
    <2>1. TavernTypes(c)'
      BY <1>0, <1>1 DEF TavernTypes
    <2>2. PlacesAgree'
      BY <1>0, <1>1 DEF PlacesAgree
    <2>3. QED BY <1>1, <2>1, <2>2, QuietKeeps
  <1>2. NoGame = TavernOf(c)!Nothing
    BY DEF NoGame, TavernOf!Nothing
  <1>3. begun \in Nat /\ begun <= c.Games
    BY <1>0 DEF TavernTypes, Setting
  <1>4. ASSUME TavernOf(c)!Pick PROVE TavernInv(c)'
    <2>1. /\ handler.at = "none" /\ checked /\ seated /\ table.stage = "menu" /\ rest
          /\ handler' = [at |-> "picking", save |-> NoGame]
      BY <1>2, <1>4 DEF TavernOf!Pick, TavernOf!May, TavernOf!Free, TavernOf!NoHandler, TavernOf!Handling,
           TavernOf!tableVars, TavernOf!roundVars
    <2>2. disk = table /\ table # NoGame /\ Sound(table)
      BY <1>0, <2>1 DEF FilesAgree, PlacesAgree
    <2>3. handler' \in [at : TavernPlaces, save : Sittings(c) \cup {NoGame}] /\ handler'.at = "picking"
      BY <2>1 DEF TavernPlaces
    <2>4. HandlerAgrees(c)'
      BY <2>1, <2>2, <2>3 DEF HandlerAgrees, Sound
    <2>5. runner = "none" /\ ~bowl
      BY <1>0, <2>1 DEF PlacesAgree
    <2>6. QED BY <1>1, <2>1, <2>3, <2>4, <2>5
  <1>5. ASSUME TavernOf(c)!PickSave PROVE TavernInv(c)'
    <2>1. PICK g \in GamesOf(c) : /\ handler.at = "none" /\ checked /\ seated /\ table.stage = "saves" /\ rest
             /\ saves[g] # NoGame /\ handler' = [at |-> "loading", save |-> saves[g]]
      BY <1>2, <1>5 DEF TavernOf!PickSave, TavernOf!May, TavernOf!Free, TavernOf!NoHandler, TavernOf!Handling,
           TavernOf!tableVars, TavernOf!roundVars, TavernOf!Game, GamesOf
    <2>2. table # NoGame
      BY <1>0, <2>1 DEF PlacesAgree
    <2>3. saves[g] \in Sittings(c) /\ saves[g].game = g /\ g \in 1..begun
      BY <1>0, <1>3, <2>1 DEF TavernTypes, SavesSound, GamesOf, Setting
    <2>4. handler' \in [at : TavernPlaces, save : Sittings(c) \cup {NoGame}] /\ handler'.at = "loading" /\ handler'.save = saves[g]
      BY <2>1, <2>3 DEF TavernPlaces
    <2>5. HandlerAgrees(c)'
      BY <2>1, <2>2, <2>3, <2>4 DEF HandlerAgrees
    <2>6. runner = "none" /\ ~bowl
      BY <1>0, <2>1 DEF PlacesAgree
    <2>7. QED BY <1>1, <2>1, <2>4, <2>5, <2>6
  <1>6. ASSUME TavernOf(c)!LoadFails PROVE TavernInv(c)'
    <2>1. /\ handler.at = "loading" /\ rest /\ handler' = [at |-> "none", save |-> NoGame]
      BY <1>2, <1>6 DEF TavernOf!LoadFails, TavernOf!NoHandler, TavernOf!tableVars, TavernOf!roundVars
    <2>2. handler' \in [at : TavernPlaces, save : Sittings(c) \cup {NoGame}] /\ handler'.at = "none"
      BY <2>1 DEF TavernPlaces
    <2>3. HandlerAgrees(c)'
      BY <2>2 DEF HandlerAgrees
    <2>4. QED BY <1>1, <2>1, <2>2, <2>3
  <1>7. ASSUME \E p \in c.Players : TavernOf(c)!Roll(p) PROVE TavernInv(c)'
    <2>1. /\ handler.at = "none" /\ checked /\ seated /\ table.stage = "playing" /\ rest
          /\ handler' = [at |-> "rolling", save |-> NoGame]
      BY <1>2, <1>7 DEF TavernOf!Roll, TavernOf!May, TavernOf!Free, TavernOf!NoHandler, TavernOf!Handling,
           TavernOf!tableVars, TavernOf!roundVars
    <2>2. disk = table /\ table # NoGame /\ Sound(table)
      BY <1>0, <2>1 DEF FilesAgree, PlacesAgree
    <2>3. handler' \in [at : TavernPlaces, save : Sittings(c) \cup {NoGame}] /\ handler'.at = "rolling"
      BY <2>1 DEF TavernPlaces
    <2>4. HandlerAgrees(c)'
      BY <2>1, <2>2, <2>3 DEF HandlerAgrees, Sound
    <2>5. ~bowl
      BY <1>0, <2>1 DEF PlacesAgree
    <2>6. QED BY <1>1, <2>1, <2>3, <2>4, <2>5
  <1>8. QED BY <1>4, <1>5, <1>6, <1>7

\* What these steps change of a round, of the limits that pass, and of a riddle.
LEMMA RoundKeeps ==
  ASSUME NEW c, Setting(c), TavernInv(c)
  PROVE  /\ TavernOf(c)!Due => TavernInv(c)'
         /\ TavernOf(c)!WriteFails => TavernInv(c)'
         /\ TavernOf(c)!Stalled => TavernInv(c)'
         /\ TavernOf(c)!TellFails => TavernInv(c)'
         /\ TavernOf(c)!LimitPasses => TavernInv(c)'
         /\ TavernOf(c)!ServeBowl => TavernInv(c)'
         /\ TavernOf(c)!PutAway => TavernInv(c)'
  <1>0. /\ TavernTypes(c) /\ PlacesAgree /\ HandlerAgrees(c) /\ FilesAgree(c) /\ SavesSound(c)
    BY DEF TavernInv
  <1> DEFINE rest == UNCHANGED <<table, seated, disk, saves, answered, checked, handler, said, begun, crashes, dropped, stray>>
  <1>1. ASSUME rest, handler.at # "opening",
               runner' # runner => runner # "none" /\ runner' \in {"none", "writing", "stalling"},
               stuck' \in BOOLEAN /\ stalled' \in BOOLEAN /\ idle' \in BOOLEAN /\ bowl' \in BOOLEAN,
               bowl' /\ ~bowl => checked /\ ~seated /\ handler.at = "none",
               batch' \in SUBSET LinesOf(c),
               runner' = "writing" => (batch' = batch /\ runner = "writing") \/ (table # NoGame /\ batch' \subseteq In(table.pending))
        PROVE TavernInv(c)'
    <2>1. TavernTypes(c)'
      BY <1>0, <1>1 DEF TavernTypes
    <2>2. PlacesAgree'
      BY <1>0, <1>1 DEF PlacesAgree
    <2>3. HandlerAgrees(c)'
      BY <1>0, <1>1 DEF HandlerAgrees, Sound
    <2>4. QED BY <1>1, <2>1, <2>2, <2>3, QuietKeeps
  <1>2. /\ stuck \in BOOLEAN /\ stalled \in BOOLEAN /\ idle \in BOOLEAN /\ bowl \in BOOLEAN /\ batch \in SUBSET LinesOf(c)
        /\ {} \in SUBSET LinesOf(c)
    BY <1>0 DEF TavernTypes
  <1>3. runner # "none" => seated /\ table # NoGame /\ handler.at # "opening"
    BY <1>0 DEF PlacesAgree
  <1>4. ASSUME TavernOf(c)!Due PROVE TavernInv(c)'
    <2>1. /\ runner = "gathering" /\ rest /\ UNCHANGED <<stuck, stalled, idle, bowl>>
          /\ \/ runner' = "none" /\ batch' = {}
             \/ runner' = "writing" /\ batch' = In(table.pending)
      BY <1>4, PendingRangeIs DEF TavernOf!Due, TavernOf!tableVars, TavernOf!roundRest
    <2>2. In(table.pending) \in SUBSET LinesOf(c)
      <3>1. PICK t \in Sittings(c) : t = table
        BY <1>0, <1>3, <2>1 DEF TavernTypes
      <3>2. t.pending \in Seq(LinesOf(c))
        BY SittingIs
      <3>3. PICK q \in Seq(LinesOf(c)) : q = t.pending
        BY <3>2
      <3>4. \A i \in DOMAIN q : q[i] \in LinesOf(c)
        BY LenProperties, ElementOfSeq
      <3>5. In(q) \in SUBSET LinesOf(c)
        BY <3>4 DEF In
      <3>6. QED BY <3>1, <3>3, <3>5
    <2>3. QED BY <1>1, <1>2, <1>3, <2>1, <2>2
  <1>5. ASSUME TavernOf(c)!WriteFails PROVE TavernInv(c)'
    <2>1. /\ runner = "writing" /\ rest /\ UNCHANGED <<idle, bowl>> /\ runner' \in {"none", "stalling"}
          /\ batch' = {} /\ stalled' \in BOOLEAN /\ stuck' \in BOOLEAN
      BY <1>5 DEF TavernOf!WriteFails, TavernOf!tableVars, TavernOf!roundRest
    <2>2. QED BY <1>1, <1>2, <1>3, <2>1
  <1>6. ASSUME TavernOf(c)!Stalled PROVE TavernInv(c)'
    <2>1. /\ runner = "stalling" /\ rest /\ UNCHANGED <<idle, bowl, batch, stalled, stuck>> /\ runner' = "none"
      BY <1>6 DEF TavernOf!Stalled, TavernOf!tableVars, TavernOf!roundRest
    <2>2. QED BY <1>1, <1>2, <1>3, <2>1
  <1>7. ASSUME TavernOf(c)!TellFails PROVE TavernInv(c)'
    <2>1. /\ runner = "telling" /\ rest /\ UNCHANGED <<idle, bowl, stalled>> /\ runner' = "none" /\ batch' = {} /\ stuck' \in BOOLEAN
      BY <1>7 DEF TavernOf!TellFails, TavernOf!tableVars, TavernOf!roundRest
    <2>2. QED BY <1>1, <1>2, <1>3, <2>1
  <1>8. ASSUME TavernOf(c)!LimitPasses PROVE TavernInv(c)'
    <2>1. /\ handler.at # "opening" /\ rest /\ UNCHANGED <<runner, bowl, batch, stalled, stuck>> /\ idle' \in BOOLEAN
      BY <1>8 DEF TavernOf!LimitPasses, TavernOf!roundVars, TavernOf!roundRest
    <2>2. QED BY <1>1, <1>2, <2>1
  <1>9. ASSUME TavernOf(c)!ServeBowl PROVE TavernInv(c)'
    <2>1. /\ handler.at = "none" /\ checked /\ ~seated /\ rest /\ UNCHANGED <<runner, idle, batch, stalled, stuck>> /\ bowl' \in BOOLEAN
      BY <1>9 DEF TavernOf!ServeBowl, TavernOf!Free, TavernOf!MayServe, TavernOf!NoHandler, TavernOf!tableVars, TavernOf!roundVars
    <2>2. QED BY <1>1, <1>2, <2>1
  <1>10. ASSUME TavernOf(c)!PutAway PROVE TavernInv(c)'
    <2>1. /\ bowl /\ rest /\ UNCHANGED <<runner, idle, batch, stalled, stuck>> /\ bowl' \in BOOLEAN
      BY <1>10 DEF TavernOf!PutAway, TavernOf!tableVars, TavernOf!roundVars
    <2>2. handler.at # "opening"
      BY <1>0, <2>1 DEF PlacesAgree
    <2>3. QED BY <1>1, <1>2, <2>1, <2>2
  <1>11. QED BY <1>4, <1>5, <1>6, <1>7, <1>8, <1>9, <1>10

-----------------------------------------------------------------------------
(* The steps that write the game down *)

LEMMA SittingRow ==
  ASSUME NEW c
  PROVE  \E S, G, L : /\ "playing" \in S /\ G = 0..c.Games /\ L = Seq(LinesOf(c))
                      /\ Sittings(c) = [stage : S, game : G, host : c.Players, players : SUBSET c.Players,
                                        pending : L, over : BOOLEAN]
  <1>1. "playing" \in {"menu", "saves", "playing"}
    OBVIOUS
  <1>2. QED BY <1>1, SittingIs

LEMMA WithPending ==
  ASSUME NEW c, NEW t \in Sittings(c), NEW q \in Seq(LinesOf(c))
  PROVE  /\ [t EXCEPT !.pending = q] \in Sittings(c)
         /\ [t EXCEPT !.pending = q].pending = q
         /\ [t EXCEPT !.pending = q].game = t.game
         /\ [t EXCEPT !.pending = q].stage = t.stage
  <1>1. PICK S, G, L : /\ "playing" \in S /\ G = 0..c.Games /\ L = Seq(LinesOf(c))
                       /\ Sittings(c) = [stage : S, game : G, host : c.Players, players : SUBSET c.Players,
                                         pending : L, over : BOOLEAN]
    BY SittingRow
  <1> DEFINE R == [stage : S, game : G, host : c.Players, players : SUBSET c.Players, pending : L, over : BOOLEAN]
  <1>2. t \in R /\ q \in L
    BY <1>1
  <1>3. /\ [t EXCEPT !.pending = q] \in R
        /\ [t EXCEPT !.pending = q].pending = q
        /\ [t EXCEPT !.pending = q].game = t.game
        /\ [t EXCEPT !.pending = q].stage = t.stage
    BY <1>2
  <1> HIDE DEF R
  <1>4. QED BY <1>1, <1>3 DEF R

LEMMA WithPlayers ==
  ASSUME NEW c, NEW t \in Sittings(c), NEW P \in SUBSET c.Players
  PROVE  /\ [t EXCEPT !.players = P] \in Sittings(c)
         /\ [t EXCEPT !.players = P].pending = t.pending
         /\ [t EXCEPT !.players = P].game = t.game
         /\ [t EXCEPT !.players = P].stage = t.stage
  <1>1. PICK S, G, L : /\ "playing" \in S /\ G = 0..c.Games /\ L = Seq(LinesOf(c))
                       /\ Sittings(c) = [stage : S, game : G, host : c.Players, players : SUBSET c.Players,
                                         pending : L, over : BOOLEAN]
    BY SittingRow
  <1> DEFINE R == [stage : S, game : G, host : c.Players, players : SUBSET c.Players, pending : L, over : BOOLEAN]
  <1>2. t \in R
    BY <1>1
  <1>3. /\ [t EXCEPT !.players = P] \in R
        /\ [t EXCEPT !.players = P].pending = t.pending
        /\ [t EXCEPT !.players = P].game = t.game
        /\ [t EXCEPT !.players = P].stage = t.stage
    BY <1>2
  <1> HIDE DEF R
  <1>4. QED BY <1>1, <1>3 DEF R

LEMMA WithGame ==
  ASSUME NEW c, NEW t \in Sittings(c), NEW n \in 0..c.Games
  PROVE  /\ [t EXCEPT !.game = n] \in Sittings(c)
         /\ [t EXCEPT !.game = n].pending = t.pending
         /\ [t EXCEPT !.game = n].game = n
         /\ [t EXCEPT !.game = n].stage = t.stage
  <1>1. PICK S, G, L : /\ "playing" \in S /\ G = 0..c.Games /\ L = Seq(LinesOf(c))
                       /\ Sittings(c) = [stage : S, game : G, host : c.Players, players : SUBSET c.Players,
                                         pending : L, over : BOOLEAN]
    BY SittingRow
  <1> DEFINE R == [stage : S, game : G, host : c.Players, players : SUBSET c.Players, pending : L, over : BOOLEAN]
  <1>2. t \in R /\ n \in G
    BY <1>1
  <1>3. /\ [t EXCEPT !.game = n] \in R
        /\ [t EXCEPT !.game = n].pending = t.pending
        /\ [t EXCEPT !.game = n].game = n
        /\ [t EXCEPT !.game = n].stage = t.stage
    BY <1>2
  <1> HIDE DEF R
  <1>4. QED BY <1>1, <1>3 DEF R

Opening(t, n, q) == [t EXCEPT !.game = n, !.pending = q]

LEMMA WithOpening ==
  ASSUME NEW c, NEW t \in Sittings(c), NEW n \in 0..c.Games, NEW q \in Seq(LinesOf(c))
  PROVE  /\ Opening(t, n, q) \in Sittings(c)
         /\ Opening(t, n, q).pending = q
         /\ Opening(t, n, q).game = n
         /\ Opening(t, n, q).stage = t.stage
  <1>1. PICK S, G, L : /\ "playing" \in S /\ G = 0..c.Games /\ L = Seq(LinesOf(c))
                       /\ Sittings(c) = [stage : S, game : G, host : c.Players, players : SUBSET c.Players,
                                         pending : L, over : BOOLEAN]
    BY SittingRow
  <1> DEFINE R == [stage : S, game : G, host : c.Players, players : SUBSET c.Players, pending : L, over : BOOLEAN]
  <1>2. t \in R /\ n \in G /\ q \in L
    BY <1>1
  <1>3. /\ [t EXCEPT !.game = n, !.pending = q] \in R
        /\ [t EXCEPT !.game = n, !.pending = q].pending = q
        /\ [t EXCEPT !.game = n, !.pending = q].game = n
        /\ [t EXCEPT !.game = n, !.pending = q].stage = t.stage
    BY <1>2
  <1> HIDE DEF R
  <1>4. QED BY <1>1, <1>3 DEF R, Opening

Played(t, P) == [t EXCEPT !.stage = "playing", !.players = P]

LEMMA AsPlayed ==
  ASSUME NEW c, NEW t \in Sittings(c), NEW P \in SUBSET c.Players
  PROVE  /\ Played(t, P) \in Sittings(c)
         /\ Played(t, P).pending = t.pending
         /\ Played(t, P).game = t.game
         /\ Played(t, P).stage = "playing"
  <1>1. PICK S, G, L : /\ "playing" \in S /\ G = 0..c.Games /\ L = Seq(LinesOf(c))
                       /\ Sittings(c) = [stage : S, game : G, host : c.Players, players : SUBSET c.Players,
                                         pending : L, over : BOOLEAN]
    BY SittingRow
  <1> DEFINE R == [stage : S, game : G, host : c.Players, players : SUBSET c.Players, pending : L, over : BOOLEAN]
  <1>2. t \in R /\ "playing" \in S
    BY <1>1
  <1>3. /\ [t EXCEPT !.stage = "playing", !.players = P] \in R
        /\ [t EXCEPT !.stage = "playing", !.players = P].pending = t.pending
        /\ [t EXCEPT !.stage = "playing", !.players = P].game = t.game
        /\ [t EXCEPT !.stage = "playing", !.players = P].stage = "playing"
    BY <1>2
  <1> HIDE DEF R
  <1>4. QED BY <1>1, <1>3 DEF R, Played

ResumedBy(t, h, P, q) == [t EXCEPT !.host = h, !.players = P, !.pending = q]

LEMMA AsResumed ==
  ASSUME NEW c, NEW t \in Sittings(c), NEW h \in c.Players, NEW P \in SUBSET c.Players, NEW q \in Seq(LinesOf(c))
  PROVE  /\ ResumedBy(t, h, P, q) \in Sittings(c)
         /\ ResumedBy(t, h, P, q).pending = q
         /\ ResumedBy(t, h, P, q).game = t.game
         /\ ResumedBy(t, h, P, q).stage = t.stage
  <1>1. PICK S, G, L : /\ "playing" \in S /\ G = 0..c.Games /\ L = Seq(LinesOf(c))
                       /\ Sittings(c) = [stage : S, game : G, host : c.Players, players : SUBSET c.Players,
                                         pending : L, over : BOOLEAN]
    BY SittingRow
  <1> DEFINE R == [stage : S, game : G, host : c.Players, players : SUBSET c.Players, pending : L, over : BOOLEAN]
  <1>2. t \in R /\ q \in L
    BY <1>1
  <1>3. /\ [t EXCEPT !.host = h, !.players = P, !.pending = q] \in R
        /\ [t EXCEPT !.host = h, !.players = P, !.pending = q].pending = q
        /\ [t EXCEPT !.host = h, !.players = P, !.pending = q].game = t.game
        /\ [t EXCEPT !.host = h, !.players = P, !.pending = q].stage = t.stage
    BY <1>2
  <1> HIDE DEF R
  <1>4. QED BY <1>1, <1>3 DEF R, ResumedBy

WrittenTo(t, q, b) == [t EXCEPT !.pending = q, !.over = b]

LEMMA AsWritten ==
  ASSUME NEW c, NEW t \in Sittings(c), NEW q \in Seq(LinesOf(c)), NEW b \in BOOLEAN
  PROVE  /\ WrittenTo(t, q, b) \in Sittings(c)
         /\ WrittenTo(t, q, b).pending = q
         /\ WrittenTo(t, q, b).game = t.game
         /\ WrittenTo(t, q, b).stage = t.stage
  <1>1. PICK S, G, L : /\ "playing" \in S /\ G = 0..c.Games /\ L = Seq(LinesOf(c))
                       /\ Sittings(c) = [stage : S, game : G, host : c.Players, players : SUBSET c.Players,
                                         pending : L, over : BOOLEAN]
    BY SittingRow
  <1> DEFINE R == [stage : S, game : G, host : c.Players, players : SUBSET c.Players, pending : L, over : BOOLEAN]
  <1>2. t \in R /\ q \in L
    BY <1>1
  <1>3. /\ [t EXCEPT !.pending = q, !.over = b] \in R
        /\ [t EXCEPT !.pending = q, !.over = b].pending = q
        /\ [t EXCEPT !.pending = q, !.over = b].game = t.game
        /\ [t EXCEPT !.pending = q, !.over = b].stage = t.stage
    BY <1>2
  <1> HIDE DEF R
  <1>4. QED BY <1>1, <1>3 DEF R, WrittenTo

LEMMA SitKeeps ==
  ASSUME NEW c, Setting(c), TavernInv(c), SatDown(c), disk' = table', table' \in Sittings(c), Sound(table)', Unanswered(table)',
         TavernTypes(c)', PlacesAgree', HandlerAgrees(c)', handler'.at # "opening", seated' \/ stray', begun <= begun',
         \A i \in LinesOf(c) : answered'[i] <= 1 /\ (i > said' => answered'[i] = 0),
         runner' = "writing" => \A i \in batch' : i <= said' /\ answered'[i] = 0
  PROVE  TavernInv(c)'
  <1>1. TavernTypes(c) /\ SavesSound(c)
    BY DEF TavernInv
  <1>2. said' \in 0..c.Lines /\ begun' \in 0..c.Games /\ begun \in 0..c.Games
    BY <1>1 DEF TavernTypes
  <1>3. LinesStay(c)' /\ SavesAgree(c)' /\ GamesAgree'
    BY <1>2, SatDownKeeps
  <1>4. FilesAgree(c)'
    BY DEF FilesAgree, Sound
  <1>5. SavesSound(c)'
    BY <1>1, <1>2 DEF SavesSound, SatDown, GamesOf
  <1>6. LinesAgree(c)'
    BY DEF LinesAgree, Unanswered
  <1>7. QED BY <1>3, <1>4, <1>5, <1>6 DEF TavernInv

\* A file without a game holds no lines.
LEMMA NoGameNoLines ==
  ASSUME NEW c, Setting(c), TavernInv(c), disk # NoGame, disk.game = 0
  PROVE  \A i : ~Holds(disk, i)
  <1>1. TavernTypes(c) /\ FilesAgree(c)
    BY DEF TavernInv
  <1>2. PICK t \in Sittings(c) : t = disk
    BY <1>1 DEF TavernTypes
  <1>3. t.stage \in {"menu", "saves", "playing"}
    BY SittingIs
  <1>4. begun \in Nat
    BY <1>1 DEF TavernTypes
  <1>5. disk.pending = <<>>
    BY <1>1, <1>2, <1>3, <1>4 DEF FilesAgree, Sound
  <1>6. QED BY <1>5 DEF Holds, In

LEMMA NothingIn == In(<<>>) = {}
  BY DEF In

LEMMA OpenMenuKeeps ==
  ASSUME NEW c, Setting(c), TavernInv(c), NEW p \in c.Players, TavernOf(c)!OpenMenu(p)
  PROVE  TavernInv(c)'
  <1>0. /\ TavernTypes(c) /\ PlacesAgree /\ HandlerAgrees(c) /\ FilesAgree(c) /\ LinesAgree(c)
    BY DEF TavernInv
  <1>1. PICK stage \in {"menu", "saves"} :
          /\ handler.at = "none" /\ checked /\ ~seated /\ ~bowl /\ seated' = TRUE /\ idle' = FALSE
          /\ table' = [stage |-> stage, game |-> 0, host |-> p, players |-> {}, pending |-> <<>>, over |-> FALSE]
          /\ disk' = table'
          /\ UNCHANGED <<saves, runner, batch, stalled, stuck, answered, checked, handler, bowl, said, begun, crashes, dropped, stray>>
    BY DEF TavernOf!OpenMenu, TavernOf!Free, TavernOf!Sit, TavernOf!NoHandler, TavernOf!roundVars
  <1>2. table' \in Sittings(c) /\ table'.pending = <<>> /\ table'.game = 0 /\ table'.stage \in {"menu", "saves"}
    <2>1. <<>> \in Seq(LinesOf(c)) /\ 0 \in 0..c.Games /\ {} \in SUBSET c.Players
      BY DEF Setting
    <2>2. QED BY <1>1, <2>1, SittingIs
  <1>3. table' # NoGame
    BY <1>2, SittingIs
  <1>4. runner = "none" /\ (disk = NoGame \/ stray)
    BY <1>0, <1>1 DEF PlacesAgree, FilesAgree
  <1>5. SatDown(c)
    <2>1. begun \in Nat /\ said \in Nat /\ begun' = begun /\ said' = said
      BY <1>0, <1>1 DEF TavernTypes
    <2>2. /\ \A i \in LinesOf(c) : ~(i <= said' /\ i > said)
          /\ \A g \in GamesOf(c) : ~(g <= begun' /\ g > begun)
      BY <2>1 DEF LinesOf, GamesOf, Setting
    <2>3. \A i : (Settled(i)' <=> Settled(i)) /\ (stray => Settled(i))
      BY <1>1 DEF Settled
    <2>4. QED BY <1>1, <1>2, <1>3, <1>4, <2>2, <2>3 DEF SatDown, Holds
  <1>6. Sound(table)' /\ Unanswered(table)'
    BY <1>2, NothingIn DEF Sound, Unanswered
  <1>7. TavernTypes(c)'
    BY <1>0, <1>1, <1>2 DEF TavernTypes
  <1>8. PlacesAgree' /\ HandlerAgrees(c)'
    BY <1>0, <1>1, <1>3, <1>4 DEF PlacesAgree, HandlerAgrees
  <1>9. begun <= begun' /\ handler'.at # "opening" /\ runner' # "writing" /\ seated'
    BY <1>0, <1>1, <1>4 DEF TavernTypes
  <1>10. \A i \in LinesOf(c) : answered'[i] <= 1 /\ (i > said' => answered'[i] = 0)
    BY <1>0, <1>1 DEF LinesAgree
  <1>11. QED BY <1>1, <1>2, <1>5, <1>6, <1>7, <1>8, <1>9, <1>10, SitKeeps

LEMMA PickedKeeps ==
  ASSUME NEW c, Setting(c), TavernInv(c), TavernOf(c)!Picked
  PROVE  TavernInv(c)'
  <1>0. /\ TavernTypes(c) /\ PlacesAgree /\ HandlerAgrees(c) /\ FilesAgree(c) /\ SavesSound(c) /\ LinesAgree(c)
    BY DEF TavernInv
  <1>1. NoGame = TavernOf(c)!Nothing
    BY DEF NoGame, TavernOf!Nothing
  <1>2. /\ handler.at = "picking" /\ UNCHANGED <<runner, batch, stalled, stuck, answered, checked, bowl, said, begun, crashes, dropped, stray>>
        /\ UNCHANGED <<seated, disk, saves>>
        /\ \/ handler' = [at |-> "none", save |-> NoGame] /\ UNCHANGED <<table, idle>>
           \/ /\ handler' = [at |-> "opening", save |-> NoGame] /\ begun < c.Games /\ idle' = FALSE
              /\ table' = [table EXCEPT !.stage = "playing", !.players = {table.host}]
    BY <1>1 DEF TavernOf!Picked, TavernOf!NoHandler, TavernOf!Handling, TavernOf!tableVars, TavernOf!roundVars
  <1>3. table # NoGame /\ table.stage = "menu" /\ Sound(table) /\ runner = "none" /\ checked /\ ~bowl
    BY <1>0, <1>2 DEF HandlerAgrees, PlacesAgree
  <1>4. handler' \in [at : TavernPlaces, save : Sittings(c) \cup {NoGame}]
    BY <1>2 DEF TavernPlaces
  <1>5. CASE handler' = [at |-> "none", save |-> NoGame] /\ UNCHANGED <<table, idle>>
    <2>1. handler'.at = "none"
      BY <1>5
    <2>2. TavernTypes(c)' /\ PlacesAgree' /\ HandlerAgrees(c)'
      BY <1>0, <1>2, <1>3, <1>4, <1>5, <2>1 DEF TavernTypes, PlacesAgree, HandlerAgrees
    <2>3. QED BY <1>2, <1>3, <1>5, <2>1, <2>2, QuietKeeps
  <1>6. CASE /\ handler' = [at |-> "opening", save |-> NoGame] /\ begun < c.Games /\ idle' = FALSE
             /\ table' = [table EXCEPT !.stage = "playing", !.players = {table.host}]
    <2>1. PICK t \in Sittings(c) : t = table
      BY <1>0, <1>3 DEF TavernTypes
    <2>2. {t.host} \in SUBSET c.Players
      BY SittingIs
    <2>3. PICK P \in SUBSET c.Players : P = {t.host}
      BY <2>2
    <2>4. table' = Played(t, P)
      BY <1>6, <2>1, <2>3 DEF Played
    <2>5. /\ Played(t, P) \in Sittings(c) /\ Played(t, P).pending = t.pending
          /\ Played(t, P).game = t.game /\ Played(t, P).stage = "playing"
      BY AsPlayed
    <2>6. table' \in Sittings(c) /\ table'.pending = <<>> /\ table'.game = 0 /\ table'.stage = "playing"
      BY <1>3, <2>1, <2>4, <2>5 DEF Sound
    <2>7. table' # NoGame /\ handler'.at = "opening"
      BY <1>6, <2>6, SittingIs
    <2>8. PutBy
      BY <1>2 DEF PutBy
    <2>9. /\ disk' # NoGame => Sound(disk)' /\ Unanswered(disk)'
          /\ SavesSound(c)' /\ LinesStay(c)' /\ SavesAgree(c)' /\ GamesAgree'
      BY <1>2, <2>8, PutByKeeps
    <2>10. TavernTypes(c)'
      BY <1>0, <1>2, <1>4, <1>6, <2>6 DEF TavernTypes
    <2>11. PlacesAgree' /\ HandlerAgrees(c)'
      BY <1>0, <1>2, <1>3, <1>6, <2>6, <2>7 DEF PlacesAgree, HandlerAgrees
    <2>12. FilesAgree(c)'
      BY <1>0, <1>2, <1>3, <2>7, <2>9 DEF FilesAgree, Sound
    <2>13. LinesAgree(c)'
      BY <1>0, <1>2, <1>3, <2>6, <2>9, NothingIn DEF LinesAgree, Unanswered
    <2>14. QED BY <2>9, <2>10, <2>11, <2>12, <2>13 DEF TavernInv
  <1>7. QED BY <1>2, <1>5, <1>6

LEMMA OpenedKeeps ==
  ASSUME NEW c, Setting(c), TavernInv(c), TavernOf(c)!Opened
  PROVE  TavernInv(c)'
  <1>0. /\ TavernTypes(c) /\ PlacesAgree /\ HandlerAgrees(c) /\ FilesAgree(c) /\ SavesSound(c) /\ LinesAgree(c)
    BY DEF TavernInv
  <1>1. NoGame = TavernOf(c)!Nothing
    BY DEF NoGame, TavernOf!Nothing
  <1> DEFINE rest == UNCHANGED <<seated, saves, idle, batch, stalled, answered, dropped, checked, bowl, crashes>>
  <1>2. /\ handler.at = "opening" /\ handler' = [at |-> "none", save |-> NoGame] /\ begun' = begun + 1 /\ rest
        /\ disk' = table' /\ stray' = (stray \/ ~seated)
        /\ \/ said' = said /\ table' = [table EXCEPT !.game = begun + 1] /\ UNCHANGED <<runner, stuck>>
           \/ /\ said < c.Lines /\ said' = said + 1
              /\ table' = [table EXCEPT !.game = begun + 1, !.pending = <<said + 1>>]
              /\ runner' \in {runner, "gathering"} /\ (runner' = "gathering" => runner = "gathering" \/ seated) /\ stuck' = FALSE
    BY <1>1 DEF TavernOf!Opened, TavernOf!NoHandler, TavernOf!Sit, TavernOf!Woken, TavernOf!roundVars
  <1>3. /\ table # NoGame /\ table.stage = "playing" /\ table.game = 0 /\ table.pending = <<>> /\ begun < c.Games
        /\ runner = "none" /\ checked /\ ~bowl
    BY <1>0, <1>2 DEF HandlerAgrees, PlacesAgree
  <1>4. PICK b \in Nat, s \in Nat : b = begun /\ s = said /\ b + 1 \in GamesOf(c) /\ s <= c.Lines
    BY <1>0, <1>3 DEF TavernTypes, GamesOf, Setting
  <1>5. PICK t \in Sittings(c) : t = table
    BY <1>0, <1>3 DEF TavernTypes
  <1>6. b + 1 \in 0..c.Games
    BY <1>4 DEF GamesOf, Setting
  <1>7. /\ table' \in Sittings(c) /\ table'.game = b + 1 /\ table'.stage = "playing"
        /\ \A i \in LinesOf(c) : i \in In(table'.pending) <=> i = s + 1 /\ said' = s + 1
        /\ In(table'.pending) \subseteq LinesOf(c)
    <2>1. CASE said' = said /\ table' = [table EXCEPT !.game = begun + 1]
      <3>2. /\ [t EXCEPT !.game = b + 1] \in Sittings(c) /\ [t EXCEPT !.game = b + 1].pending = t.pending
            /\ [t EXCEPT !.game = b + 1].game = b + 1 /\ [t EXCEPT !.game = b + 1].stage = t.stage
        BY <1>6, WithGame
      <3>3. QED BY <1>3, <1>4, <1>5, <2>1, <3>2, NothingIn
    <2>2. CASE said < c.Lines /\ said' = said + 1 /\ table' = [table EXCEPT !.game = begun + 1, !.pending = <<said + 1>>]
      <3>1. s + 1 \in LinesOf(c)
        BY <1>4, <2>2 DEF LinesOf, Setting
      <3>2. <<s + 1>> \in Seq(LinesOf(c)) /\ In(<<s + 1>>) = {s + 1}
        BY <3>1 DEF In
      <3>3. PICK q \in Seq(LinesOf(c)) : q = <<s + 1>>
        BY <3>2
      <3>4. table' = Opening(t, b + 1, q)
        BY <1>4, <1>5, <2>2, <3>3 DEF Opening
      <3>5. /\ Opening(t, b + 1, q) \in Sittings(c) /\ Opening(t, b + 1, q).pending = q
            /\ Opening(t, b + 1, q).game = b + 1 /\ Opening(t, b + 1, q).stage = t.stage
        BY <1>6, WithOpening
      <3>6. QED BY <1>3, <1>4, <1>5, <2>2, <3>1, <3>2, <3>3, <3>4, <3>5
    <2>3. QED BY <1>2, <2>1, <2>2
  <1>8. table' # NoGame /\ handler' \in [at : TavernPlaces, save : Sittings(c) \cup {NoGame}] /\ handler'.at = "none"
    BY <1>2, <1>7, SittingIs DEF TavernPlaces
  <1>9. said' \in 0..c.Lines /\ s <= said' /\ said' <= s + 1
    BY <1>2, <1>4 DEF Setting
  <1>10. saves[b + 1] = NoGame
    BY <1>0, <1>4 DEF SavesSound
  <1>11. stray' \/ (seated /\ disk # NoGame /\ disk.game = 0 /\ \A i : ~Holds(disk, i))
    BY <1>0, <1>2, NoGameNoLines DEF FilesAgree
  <1>12. SatDown(c)
    <2>1. \A i : Settled(i) => Settled(i)'
      BY <1>2 DEF Settled
    <2>2. stray' => \A i : Settled(i)'
      BY DEF Settled
    <2>3. \A i \in LinesOf(c) : i <= said' /\ i > said => Holds(disk', i)
      BY <1>2, <1>4, <1>7, <1>8, <1>9 DEF Holds, LinesOf, Setting
    <2>4. ~(0 \in GamesOf(c)) /\ (disk # NoGame /\ disk.game \in GamesOf(c) => stray')
      BY <1>11 DEF GamesOf, Setting
    <2>5. \A g \in GamesOf(c) : g <= begun' /\ g > begun => disk'.game = g
      BY <1>2, <1>4, <1>7 DEF GamesOf, Setting
    <2>6. \A i : ~Holds(saves[disk'.game], i)
      BY <1>2, <1>7, <1>10 DEF Holds
    <2>7. \A i \in LinesOf(c) : Holds(disk, i) => Settled(i)'
      BY <1>11, <2>2
    <2>8. QED BY <1>2, <1>8, <2>1, <2>3, <2>4, <2>5, <2>6, <2>7 DEF SatDown
  <1>13. Sound(table)' /\ Unanswered(table)'
    <2>1. Sound(table)'
      BY <1>2, <1>4, <1>7 DEF Sound
    <2>2. Unanswered(table)'
      BY <1>0, <1>2, <1>4, <1>7 DEF Unanswered, LinesAgree
    <2>3. QED BY <2>1, <2>2
  <1>14. TavernTypes(c)'
    BY <1>0, <1>2, <1>4, <1>6, <1>7, <1>8, <1>9 DEF TavernTypes
  <1>15. PlacesAgree' /\ HandlerAgrees(c)'
    BY <1>0, <1>2, <1>3, <1>7, <1>8 DEF PlacesAgree, HandlerAgrees
  <1>16. \A i \in LinesOf(c) : answered'[i] <= 1 /\ (i > said' => answered'[i] = 0)
    BY <1>0, <1>2, <1>4, <1>9 DEF LinesAgree, LinesOf, Setting
  <1>17. runner' # "writing" /\ (seated' \/ stray') /\ begun <= begun' /\ handler'.at # "opening"
    <2>1. runner' # "writing"
      BY <1>2, <1>3
    <2>2. begun <= begun'
      BY <1>2, <1>4
    <2>3. QED BY <1>2, <1>8, <2>1, <2>2
  <1>18. QED BY <1>2, <1>7, <1>12, <1>13, <1>14, <1>15, <1>16, <1>17, SitKeeps

LEMMA LoadedKeeps ==
  ASSUME NEW c, Setting(c), TavernInv(c), TavernOf(c)!Loaded
  PROVE  TavernInv(c)'
  <1>0. /\ TavernTypes(c) /\ PlacesAgree /\ HandlerAgrees(c) /\ FilesAgree(c) /\ SavesSound(c) /\ LinesAgree(c)
    BY DEF TavernInv
  <1>1. NoGame = TavernOf(c)!Nothing
    BY DEF NoGame, TavernOf!Nothing
  <1>2. /\ handler.at = "loading" /\ handler' = [at |-> "none", save |-> NoGame]
        /\ table' = TavernOf(c)!Resumed(handler.save) /\ disk' = table'
        /\ seated' = TRUE /\ stalled' = FALSE /\ stuck' = FALSE /\ idle' = FALSE
        /\ dropped' = dropped \cup In(handler.save.pending)
        /\ UNCHANGED <<saves, runner, batch, answered, checked, bowl, said, begun, crashes, stray>>
    BY <1>1, PendingRangeIs DEF TavernOf!Loaded, TavernOf!NoHandler, TavernOf!Sit
  <1>3. /\ table # NoGame /\ table.stage = "saves" /\ handler.save # NoGame /\ handler.save.game \in 1..begun
        /\ saves[handler.save.game] = handler.save /\ runner = "none" /\ checked /\ ~bowl
    BY <1>0, <1>2 DEF HandlerAgrees, PlacesAgree
  <1>4. PICK s \in Sittings(c), t \in Sittings(c) : s = handler.save /\ t = table
    BY <1>0, <1>3 DEF TavernTypes
  <1>5. begun \in Nat /\ begun <= c.Games /\ said \in Nat /\ said <= c.Lines
    BY <1>0 DEF TavernTypes, Setting
  <1>6. s.game \in GamesOf(c) /\ saves[s.game] = s /\ s.stage = "playing" /\ s.game <= begun /\ s # NoGame
    <2>1. s.game \in GamesOf(c) /\ saves[s.game] = s /\ s # NoGame
      BY <1>3, <1>4, <1>5 DEF GamesOf, Setting
    <2>2. QED BY <1>0, <2>1 DEF SavesSound
  <1>7. table' \in Sittings(c) /\ table'.pending = <<>> /\ table'.game = s.game /\ table'.stage = "playing"
    <2>1. t.host \in c.Players /\ s.players \cup {t.host} \in SUBSET c.Players /\ <<>> \in Seq(LinesOf(c))
      <3>1. t.host \in c.Players /\ s.players \in SUBSET c.Players
        BY SittingIs
      <3>2. QED BY <3>1
    <2>2. PICK h \in c.Players, P \in SUBSET c.Players, q \in Seq(LinesOf(c)) : h = t.host /\ P = s.players \cup {t.host} /\ q = <<>>
      BY <2>1
    <2>3. TavernOf(c)!Resumed(s) = ResumedBy(s, h, P, q)
      <3>1. s \in [stage : {"menu", "saves", "playing"}, game : 0..c.Games, host : c.Players,
                   players : SUBSET c.Players, pending : Seq(LinesOf(c)), over : BOOLEAN]
        BY SittingIs
      <3>2. QED BY <1>4, <2>2, <3>1 DEF TavernOf!Resumed, ResumedBy
    <2>4. /\ ResumedBy(s, h, P, q) \in Sittings(c) /\ ResumedBy(s, h, P, q).pending = q
          /\ ResumedBy(s, h, P, q).game = s.game /\ ResumedBy(s, h, P, q).stage = s.stage
      BY AsResumed
    <2>5. table' = ResumedBy(s, h, P, q)
      BY <1>2, <1>4, <2>3
    <2>6. QED BY <1>6, <2>2, <2>4, <2>5
  <1>8. table' # NoGame /\ handler' \in [at : TavernPlaces, save : Sittings(c) \cup {NoGame}] /\ handler'.at = "none"
    BY <1>2, <1>7, SittingIs DEF TavernPlaces
  <1>9. In(s.pending) \in SUBSET LinesOf(c)
    <2>1. PICK q \in Seq(LinesOf(c)) : q = s.pending
      BY SittingIs
    <2>2. \A i \in DOMAIN q : q[i] \in LinesOf(c)
      BY LenProperties, ElementOfSeq
    <2>3. QED BY <2>1, <2>2 DEF In
  <1>10. stray \/ disk = NoGame \/ (disk.game = 0 /\ \A i : ~Holds(disk, i))
    <2>1. CASE seated
      <3>1. disk = table /\ Sound(table)
        BY <1>0, <1>2, <1>3, <2>1 DEF FilesAgree
      <3>2. disk # NoGame /\ disk.game = 0
        BY <1>3, <3>1 DEF Sound
      <3>3. QED BY <3>2, NoGameNoLines
    <2>2. CASE ~seated
      BY <1>0, <1>3, <2>2 DEF FilesAgree
    <2>3. QED BY <2>1, <2>2
  <1>11. SatDown(c)
    <2>1. \A i : (Settled(i) => Settled(i)') /\ (stray => Settled(i)') /\ ~(Holds(disk, i) /\ ~stray)
      BY <1>2, <1>10 DEF Settled, Holds
    <2>2. ~(0 \in GamesOf(c)) /\ (disk # NoGame /\ disk.game \in GamesOf(c) => stray')
      BY <1>2, <1>10 DEF GamesOf, Setting
    <2>3. \A i \in LinesOf(c) : Holds(saves[disk'.game], i) => Settled(i)'
      BY <1>2, <1>4, <1>6, <1>7 DEF Holds, Settled
    <2>4. /\ \A i \in LinesOf(c) : ~(i <= said' /\ i > said)
          /\ \A g \in GamesOf(c) : ~(g <= begun' /\ g > begun)
      BY <1>2, <1>5 DEF LinesOf, GamesOf, Setting
    <2>5. QED BY <1>2, <1>8, <2>1, <2>2, <2>3, <2>4 DEF SatDown
  <1>12. Sound(table)' /\ Unanswered(table)'
    BY <1>2, <1>3, <1>4, <1>7, NothingIn DEF Sound, Unanswered
  <1>13. TavernTypes(c)'
    BY <1>0, <1>2, <1>4, <1>7, <1>8, <1>9 DEF TavernTypes
  <1>14. PlacesAgree' /\ HandlerAgrees(c)'
    BY <1>2, <1>3, <1>8 DEF PlacesAgree, HandlerAgrees
  <1>15. \A i \in LinesOf(c) : answered'[i] <= 1 /\ (i > said' => answered'[i] = 0)
    BY <1>0, <1>2 DEF LinesAgree
  <1>16. begun <= begun' /\ handler'.at # "opening" /\ runner' # "writing" /\ seated'
    BY <1>2, <1>3, <1>5, <1>8
  <1>17. QED BY <1>2, <1>7, <1>11, <1>12, <1>13, <1>14, <1>15, <1>16, SitKeeps

\* A line of the game t, which is the one at the table but for who plays it.
PutDown(c, t) ==
  /\ said < c.Lines /\ said' = said + 1
  /\ table' = [t EXCEPT !.pending = TavernOf(c)!Capped(t.pending, said + 1)] /\ disk' = table'
  /\ dropped' = dropped \cup (In(t.pending) \ In(table'.pending))
  /\ runner' \in {runner, "gathering"} /\ (runner' = "gathering" => runner = "gathering" \/ seated)
  /\ stuck' \in BOOLEAN /\ stray' = (stray \/ ~seated) /\ idle' = FALSE
  /\ UNCHANGED <<seated, saves, batch, stalled, answered, checked, bowl, begun, crashes>>

LEMMA PutDownKeeps ==
  ASSUME NEW c, Setting(c), TavernInv(c), NEW t \in Sittings(c), PutDown(c, t),
         table # NoGame, t.game = table.game, t.pending = table.pending, t.stage = "playing", table.stage = "playing", Sound(table),
         handler.at # "opening", checked, ~bowl, handler' = [at |-> "none", save |-> NoGame]
  PROVE  TavernInv(c)'
  <1>0. /\ TavernTypes(c) /\ PlacesAgree /\ FilesAgree(c) /\ SavesSound(c) /\ LinesAgree(c)
    BY DEF TavernInv
  <1>1. PICK s \in Nat, q \in Seq(LinesOf(c)) : s = said /\ q = t.pending /\ s + 1 \in LinesOf(c) /\ s < c.Lines
    <2>1. said \in Nat /\ said + 1 \in LinesOf(c)
      BY <1>0 DEF TavernTypes, PutDown, LinesOf, Setting
    <2>2. t.pending \in Seq(LinesOf(c))
      BY SittingIs
    <2>3. QED BY <2>1, <2>2 DEF PutDown
  <1>2. PICK r \in Seq(LinesOf(c)) : r = TavernOf(c)!Capped(q, s + 1) /\ s + 1 \in In(r) /\ In(r) \subseteq In(q) \cup {s + 1}
    BY <1>1, CappedIs
  <1>3. table' \in Sittings(c) /\ table'.pending = r /\ table'.game = t.game /\ table'.stage = "playing" /\ table' # NoGame
    <2>1. table' = [t EXCEPT !.pending = r]
      BY <1>1, <1>2 DEF PutDown
    <2>2. /\ [t EXCEPT !.pending = r] \in Sittings(c) /\ [t EXCEPT !.pending = r].pending = r
          /\ [t EXCEPT !.pending = r].game = t.game /\ [t EXCEPT !.pending = r].stage = t.stage
      BY WithPending
    <2>3. QED BY <2>1, <2>2, SittingIs
  <1>4. handler' \in [at : TavernPlaces, save : Sittings(c) \cup {NoGame}] /\ handler'.at = "none"
    BY DEF TavernPlaces
  <1>5. In(q) \in SUBSET LinesOf(c)
    <2>1. \A i \in DOMAIN q : q[i] \in LinesOf(c)
      BY LenProperties, ElementOfSeq
    <2>2. QED BY <2>1 DEF In
  <1>6. dropped' = dropped \cup (In(q) \ In(r))
    BY <1>1, <1>3 DEF PutDown
  <1>7. begun \in Nat /\ begun' = begun /\ said' = s + 1
    BY <1>0, <1>1 DEF TavernTypes, PutDown
  <1>8. stray' \/ disk = table
    BY <1>0 DEF FilesAgree, PutDown
  <1>9. SatDown(c)
    <2>1. \A i : (Settled(i) => Settled(i)') /\ (stray' => Settled(i)')
      BY <1>6 DEF Settled, PutDown
    <2>2. \A i \in LinesOf(c) : Holds(disk, i) => Settled(i)' \/ Holds(disk', i)
      <3>1. \A i : i \in In(q) => i \in dropped' \/ i \in In(r)
        BY <1>6
      <3>2. \A i : disk = table /\ Holds(disk, i) => Settled(i)' \/ Holds(disk', i)
        BY <1>1, <1>3, <3>1 DEF PutDown, Settled, Holds
      <3>3. QED BY <1>8, <2>1, <3>2
    <2>3. \A i \in LinesOf(c) : i <= said' /\ i > said => Holds(disk', i)
      <3>1. \A i \in LinesOf(c) : i <= said' /\ i > said => i = s + 1
        BY <1>1, <1>7 DEF LinesOf, Setting
      <3>2. QED BY <1>2, <1>3, <3>1 DEF Holds, PutDown
    <2>4. \A g \in GamesOf(c) : ~(g <= begun' /\ g > begun)
      BY <1>7 DEF GamesOf, Setting
    <2>5. disk'.game = table.game /\ (~stray' => disk # NoGame /\ disk.game = disk'.game)
      BY <1>3, <1>8 DEF PutDown
    <2>6. QED BY <1>3, <2>1, <2>2, <2>3, <2>4, <2>5 DEF PutDown, SatDown
  <1>10. Sound(table)' /\ Unanswered(table)'
    <2>1. Sound(table)'
      BY <1>3, <1>7 DEF Sound
    <2>2. \A i \in In(q) : i <= s /\ answered[i] = 0
      BY <1>0, <1>1 DEF LinesAgree, Unanswered
    <2>3. answered[s + 1] = 0
      BY <1>0, <1>1 DEF LinesAgree
    <2>4. Unanswered(table)'
      BY <1>1, <1>2, <1>3, <1>5, <1>7, <2>2, <2>3 DEF Unanswered, PutDown, LinesOf
    <2>5. QED BY <2>1, <2>4
  <1>11. TavernTypes(c)'
    <2>1. /\ table' \in Sittings(c) \cup {NoGame} /\ disk' \in Sittings(c) \cup {NoGame} /\ idle' \in BOOLEAN
          /\ runner' \in {"none", "gathering", "writing", "telling", "stalling"}
      BY <1>0, <1>3 DEF TavernTypes, PutDown
    <2>2. dropped' \in SUBSET LinesOf(c)
      BY <1>0, <1>5, <1>6 DEF TavernTypes
    <2>3. said' \in 0..c.Lines
      BY <1>1, <1>7 DEF Setting
    <2>4. stray' \in BOOLEAN
      BY <1>0 DEF TavernTypes, PutDown
    <2>5. QED BY <1>0, <1>4, <2>1, <2>2, <2>3, <2>4 DEF TavernTypes, PutDown
  <1>12. PlacesAgree' /\ HandlerAgrees(c)'
    BY <1>0, <1>3, <1>4 DEF PlacesAgree, HandlerAgrees, PutDown
  <1>13. \A i \in LinesOf(c) : answered'[i] <= 1 /\ (i > said' => answered'[i] = 0)
    BY <1>0, <1>1, <1>7 DEF LinesAgree, PutDown, LinesOf, Setting
  <1>14. runner' = "writing" => \A i \in batch' : i <= said' /\ answered'[i] = 0
    <2>1. ASSUME runner' = "writing", NEW i \in batch' PROVE i <= said' /\ answered'[i] = 0
      <3>1. i \in batch /\ runner = "writing" /\ answered' = answered
        BY <2>1 DEF PutDown
      <3>2. i \in LinesOf(c) /\ i <= s /\ answered[i] = 0
        BY <1>0, <1>1, <3>1 DEF TavernTypes, LinesAgree
      <3>3. QED BY <1>1, <1>7, <3>1, <3>2 DEF LinesOf, Setting
    <2>2. QED BY <2>1
  <1>15. begun <= begun' /\ handler'.at # "opening" /\ (seated' \/ stray') /\ disk' = table'
    <2>1. begun <= begun' /\ handler'.at # "opening"
      BY <1>4, <1>7
    <2>2. seated' \/ stray'
      BY DEF PutDown
    <2>3. QED BY <2>1, <2>2 DEF PutDown
  <1>16. QED BY <1>3, <1>9, <1>10, <1>11, <1>12, <1>13, <1>14, <1>15, SitKeeps

LEMMA SpokenKeeps ==
  ASSUME NEW c, Setting(c), TavernInv(c)
  PROVE  /\ \A p \in c.Players : TavernOf(c)!Say(p) \/ TavernOf(c)!Join(p) \/ TavernOf(c)!Leave(p) => TavernInv(c)'
         /\ TavernOf(c)!Rolled => TavernInv(c)'
  <1>0. /\ TavernTypes(c) /\ PlacesAgree /\ HandlerAgrees(c) /\ FilesAgree(c)
    BY DEF TavernInv
  <1>1. NoGame = TavernOf(c)!Nothing
    BY DEF NoGame, TavernOf!Nothing
  <1>2. ASSUME NEW t, TavernOf(c)!Queue(t) PROVE PutDown(c, t)
    <2>1. stuck' \in BOOLEAN
      BY <1>2 DEF TavernOf!Queue
    <2>2. runner' \in {runner, "gathering"} /\ (runner' = "gathering" => runner = "gathering" \/ seated)
      BY <1>2 DEF TavernOf!Queue, TavernOf!Woken
    <2>3. QED BY <1>2, <2>1, <2>2, PendingRangeIs DEF TavernOf!Queue, TavernOf!Sit, PutDown
  <1>3. ASSUME handler = [at |-> "none", save |-> NoGame], handler' = handler, checked, seated, table.stage = "playing",
               NEW P \in SUBSET c.Players, NEW t \in Sittings(c), t = table,
               TavernOf(c)!Queue(t) \/ TavernOf(c)!Queue([t EXCEPT !.players = P])
        PROVE TavernInv(c)'
    <2>1. table # NoGame /\ disk = table /\ Sound(table) /\ ~bowl /\ handler.at # "opening"
      BY <1>0, <1>3, SittingIs DEF FilesAgree, PlacesAgree
    <2>2. CASE TavernOf(c)!Queue(t)
      BY <1>2, <1>3, <2>1, <2>2, PutDownKeeps
    <2>3. CASE TavernOf(c)!Queue([t EXCEPT !.players = P])
      <3>1. PICK u \in Sittings(c) : u = [t EXCEPT !.players = P]
        BY WithPlayers
      <3>2. u.pending = t.pending /\ u.game = t.game /\ u.stage = t.stage
        BY <3>1, WithPlayers
      <3>3. PutDown(c, u)
        BY <1>2, <2>3, <3>1
      <3>4. QED BY <1>3, <2>1, <3>2, <3>3, PutDownKeeps
    <2>4. QED BY <1>3, <2>2, <2>3
  <1>4. ASSUME NEW p \in c.Players, TavernOf(c)!Say(p) \/ TavernOf(c)!Join(p) \/ TavernOf(c)!Leave(p)
        PROVE TavernInv(c)'
    <2>1. handler = [at |-> "none", save |-> NoGame] /\ handler' = handler /\ checked /\ seated /\ table.stage = "playing"
      BY <1>1, <1>4 DEF TavernOf!Say, TavernOf!Join, TavernOf!Leave, TavernOf!May, TavernOf!Free, TavernOf!NoHandler
    <2>2. PICK t \in Sittings(c) : t = table
      BY <1>0, <2>1 DEF TavernTypes, PlacesAgree
    <2>3. t.players \in SUBSET c.Players
      BY SittingIs
    <2>4. CASE TavernOf(c)!Say(p)
      <3>1. TavernOf(c)!Queue(t)
        BY <2>2, <2>4 DEF TavernOf!Say
      <3>2. QED BY <1>3, <2>1, <2>2, <2>3, <3>1
    <2>5. CASE TavernOf(c)!Join(p)
      <3>1. PICK P \in SUBSET c.Players : P = t.players \cup {p}
        BY <2>3
      <3>2. TavernOf(c)!Queue([t EXCEPT !.players = P])
        BY <2>2, <2>5, <3>1 DEF TavernOf!Join
      <3>3. QED BY <1>3, <2>1, <2>2, <3>2
    <2>6. CASE TavernOf(c)!Leave(p)
      <3>1. PICK P \in SUBSET c.Players : P = t.players \ {p}
        BY <2>3
      <3>2. TavernOf(c)!Queue([t EXCEPT !.players = P])
        BY <2>2, <2>6, <3>1 DEF TavernOf!Leave
      <3>3. QED BY <1>3, <2>1, <2>2, <3>2
    <2>7. QED BY <1>4, <2>4, <2>5, <2>6
  <1>5. ASSUME TavernOf(c)!Rolled PROVE TavernInv(c)'
    <2>1. handler.at = "rolling" /\ handler' = [at |-> "none", save |-> NoGame] /\ TavernOf(c)!Queue(table)
      BY <1>1, <1>5 DEF TavernOf!Rolled, TavernOf!NoHandler
    <2>2. table # NoGame /\ table.stage = "playing" /\ Sound(table) /\ checked /\ ~bowl
      BY <1>0, <2>1 DEF HandlerAgrees, PlacesAgree
    <2>3. PICK t \in Sittings(c) : t = table
      BY <1>0, <2>2 DEF TavernTypes
    <2>4. PutDown(c, t)
      BY <1>2, <2>1, <2>3
    <2>5. QED BY <2>1, <2>2, <2>3, <2>4, PutDownKeeps
  <1>6. QED BY <1>4, <1>5

LEMMA WrittenKeeps ==
  ASSUME NEW c, Setting(c), TavernInv(c), TavernOf(c)!Written
  PROVE  TavernInv(c)'
  <1>0. /\ TavernTypes(c) /\ PlacesAgree /\ HandlerAgrees(c) /\ FilesAgree(c) /\ SavesSound(c) /\ LinesAgree(c)
    BY DEF TavernInv
  <1>1. PICK over \in BOOLEAN :
          /\ runner = "writing" /\ runner' = "telling"
          /\ table' = [table EXCEPT !.pending = TavernOf(c)!Left(table.pending), !.over = over] /\ disk' = table'
          /\ answered' = [i \in LinesOf(c) |-> answered[i] + (IF i \in batch THEN 1 ELSE 0)]
          /\ stalled' = FALSE /\ idle' = FALSE
          /\ UNCHANGED <<seated, saves, batch, stuck, checked, handler, bowl, said, begun, crashes, dropped, stray>>
    BY DEF TavernOf!Written, TavernOf!Sit, TavernOf!roundRest, TavernOf!Line, LinesOf
  <1>2. seated /\ checked /\ table # NoGame /\ table.stage = "playing" /\ handler.at \in {"none", "rolling"} /\ ~bowl
        /\ disk = table /\ Sound(table)
    BY <1>0, <1>1 DEF PlacesAgree, FilesAgree
  <1>3. PICK t \in Sittings(c) : t = table
    BY <1>0, <1>2 DEF TavernTypes
  <1>4. PICK q \in Seq(LinesOf(c)) : q = t.pending
    BY SittingIs
  <1>5. PICK r \in Seq(LinesOf(c)) : r = TavernOf(c)!Left(q) /\ In(r) = In(q) \ batch
    BY LeftIs
  <1>6. table' \in Sittings(c) /\ table'.pending = r /\ table'.game = t.game /\ table'.stage = "playing" /\ table' # NoGame
    <2>1. table' = WrittenTo(t, r, over)
      BY <1>1, <1>3, <1>4, <1>5 DEF WrittenTo
    <2>2. /\ WrittenTo(t, r, over) \in Sittings(c) /\ WrittenTo(t, r, over).pending = r
          /\ WrittenTo(t, r, over).game = t.game /\ WrittenTo(t, r, over).stage = t.stage
      BY AsWritten
    <2>3. QED BY <1>2, <1>3, <2>1, <2>2, SittingIs
  <1>7. /\ answered \in [LinesOf(c) -> Nat] /\ answered' \in [LinesOf(c) -> Nat]
        /\ \A i \in LinesOf(c) : /\ i \in batch => answered[i] = 0 /\ i <= said /\ answered'[i] = 1
                                 /\ i \notin batch => answered'[i] = answered[i]
    <2>1. answered \in [LinesOf(c) -> Nat] /\ \A i \in batch : answered[i] = 0 /\ i <= said
      BY <1>0, <1>1 DEF TavernTypes, LinesAgree
    <2>2. \A i \in LinesOf(c) : answered'[i] = answered[i] + (IF i \in batch THEN 1 ELSE 0)
      BY <1>1
    <2>3. QED BY <1>1, <2>1, <2>2
  <1>8. begun \in Nat /\ said \in Nat
    BY <1>0 DEF TavernTypes
  <1>9. SatDown(c)
    <2>1. \A i \in LinesOf(c) : Settled(i) => Settled(i)'
      BY <1>1, <1>7 DEF Settled
    <2>2. \A i \in LinesOf(c) : Holds(disk, i) => Settled(i)' \/ Holds(disk', i)
      BY <1>1, <1>2, <1>3, <1>4, <1>5, <1>6, <1>7 DEF Settled, Holds
    <2>3. /\ \A i \in LinesOf(c) : ~(i <= said' /\ i > said)
          /\ \A g \in GamesOf(c) : ~(g <= begun' /\ g > begun)
      BY <1>1, <1>8 DEF LinesOf, GamesOf, Setting
    <2>4. disk'.game = disk.game /\ disk # NoGame /\ disk' # NoGame
      BY <1>1, <1>2, <1>3, <1>6
    <2>5. QED BY <1>1, <2>1, <2>2, <2>3, <2>4 DEF SatDown
  <1>10. Sound(table)' /\ Unanswered(table)'
    <2>1. Sound(table)'
      BY <1>1, <1>2, <1>3, <1>6 DEF Sound
    <2>2. \A i \in In(q) : i <= said /\ answered[i] = 0
      BY <1>0, <1>2, <1>3, <1>4 DEF LinesAgree, Unanswered
    <2>3. In(r) \subseteq LinesOf(c)
      <3>1. \A i \in DOMAIN r : r[i] \in LinesOf(c)
        BY LenProperties, ElementOfSeq
      <3>2. QED BY <3>1 DEF In
    <2>4. Unanswered(table)'
      BY <1>1, <1>5, <1>6, <1>7, <2>2, <2>3 DEF Unanswered
    <2>5. QED BY <2>1, <2>4
  <1>11. TavernTypes(c)'
    BY <1>0, <1>1, <1>6, <1>7 DEF TavernTypes
  <1>12. PlacesAgree' /\ HandlerAgrees(c)'
    BY <1>1, <1>2, <1>6, <1>10 DEF PlacesAgree, HandlerAgrees
  <1>13. \A i \in LinesOf(c) : answered'[i] <= 1 /\ (i > said' => answered'[i] = 0)
    <2>1. ASSUME NEW i \in LinesOf(c) PROVE answered'[i] <= 1 /\ (i > said' => answered'[i] = 0)
      <3>1. answered[i] <= 1 /\ (i > said => answered[i] = 0) /\ answered[i] \in Nat /\ i \in Nat
        BY <1>0, <1>7 DEF LinesAgree, LinesOf
      <3>2. QED BY <1>1, <1>7, <1>8, <3>1
    <2>2. QED BY <2>1
  <1>14. begun <= begun' /\ handler'.at # "opening" /\ runner' # "writing" /\ seated'
    BY <1>1, <1>2, <1>8
  <1>15. QED BY <1>1, <1>6, <1>9, <1>10, <1>11, <1>12, <1>13, <1>14, SitKeeps

-----------------------------------------------------------------------------
(* The steps that end a game, and those of a start *)

LEMMA EndKeeps ==
  ASSUME NEW c, Setting(c), TavernInv(c), TavernOf(c)!End, UNCHANGED <<checked, bowl, said, begun, crashes, dropped, stray>>,
         seated \/ handler.at = "opening", handler' = handler \/ handler' = [at |-> "none", save |-> NoGame]
  PROVE  TavernInv(c)'
  <1>0. /\ TavernTypes(c) /\ PlacesAgree /\ HandlerAgrees(c) /\ FilesAgree(c) /\ SavesSound(c) /\ LinesAgree(c)
    BY DEF TavernInv
  <1>1. NoGame = TavernOf(c)!Nothing
    BY DEF NoGame, TavernOf!Nothing
  <1>2. /\ seated' = FALSE /\ disk' = NoGame /\ runner' = "none" /\ batch' = {} /\ stalled' = FALSE /\ stuck' = FALSE
        /\ saves' = IF table.game = 0 THEN saves ELSE [saves EXCEPT ![table.game] = table]
        /\ UNCHANGED <<table, idle, answered>>
    BY <1>1 DEF TavernOf!End, TavernOf!Archived
  <1>3. table # NoGame
    BY <1>0 DEF PlacesAgree, HandlerAgrees
  <1>4. PutBy
    <2>1. CASE handler.at = "opening"
      <3>1. table.game = 0 /\ (disk = NoGame \/ stray \/ disk.game = 0)
        BY <1>0, <2>1 DEF HandlerAgrees, FilesAgree, PlacesAgree
      <3>2. QED BY <1>2, <3>1 DEF PutBy
    <2>2. CASE handler.at # "opening"
      <3>1. disk = table
        BY <1>0, <2>2 DEF FilesAgree
      <3>2. QED BY <1>2, <1>3, <3>1 DEF PutBy
    <2>3. QED BY <2>1, <2>2
  <1>5. /\ saves' \in [GamesOf(c) -> Sittings(c) \cup {NoGame}]
        /\ SavesSound(c)' /\ LinesStay(c)' /\ SavesAgree(c)' /\ GamesAgree'
    BY <1>2, <1>4, PutByKeeps
  <1>6. handler' \in [at : TavernPlaces, save : Sittings(c) \cup {NoGame}] /\ (handler' = handler \/ handler'.at = "none")
    BY <1>0 DEF TavernTypes, TavernPlaces
  <1>7. TavernTypes(c)'
    <2>1. batch' \in SUBSET LinesOf(c)
      BY <1>2
    <2>2. QED BY <1>0, <1>1, <1>2, <1>5, <1>6, <2>1 DEF TavernTypes
  <1>8. handler.at = "loading" => saves' = saves
    <2>1. handler.at = "loading" => table.stage = "saves" /\ Sound(table)
      BY <1>0, <1>3 DEF HandlerAgrees, FilesAgree
    <2>2. QED BY <1>2, <2>1 DEF Sound
  <1>9. PlacesAgree' /\ HandlerAgrees(c)'
    <2>1. PlacesAgree'
      BY <1>0, <1>2, <1>6 DEF PlacesAgree
    <2>2. HandlerAgrees(c)'
      BY <1>0, <1>2, <1>6, <1>8 DEF HandlerAgrees, Sound
    <2>3. QED BY <2>1, <2>2
  <1>10. FilesAgree(c)'
    BY <1>2 DEF FilesAgree
  <1>11. LinesAgree(c)'
    BY <1>0, <1>2 DEF LinesAgree, Unanswered
  <1>12. QED BY <1>5, <1>7, <1>9, <1>10, <1>11 DEF TavernInv

LEMMA EndingsKeep ==
  ASSUME NEW c, Setting(c), TavernInv(c)
  PROVE  /\ TavernOf(c)!OpenFails => TavernInv(c)'
         /\ TavernOf(c)!EndByHost => TavernInv(c)'
         /\ TavernOf(c)!CardGone => TavernInv(c)'
         /\ TavernOf(c)!Told => TavernInv(c)'
         /\ TavernOf(c)!WatchIdle => TavernInv(c)'
  <1>0. /\ TavernTypes(c) /\ PlacesAgree /\ HandlerAgrees(c)
    BY DEF TavernInv
  <1>1. NoGame = TavernOf(c)!Nothing
    BY DEF NoGame, TavernOf!Nothing
  <1>2. runner # "none" => seated /\ handler.at # "opening"
    BY <1>0 DEF PlacesAgree
  <1>3. TavernOf(c)!OpenFails => TavernInv(c)'
    BY <1>1, EndKeeps DEF TavernOf!OpenFails, TavernOf!NoHandler
  <1>4. TavernOf(c)!EndByHost => TavernInv(c)'
    BY EndKeeps DEF TavernOf!EndByHost
  <1>5. TavernOf(c)!CardGone => TavernInv(c)'
    BY <1>2, EndKeeps DEF TavernOf!CardGone, TavernOf!roundRest
  <1>6. ASSUME TavernOf(c)!Told PROVE TavernInv(c)'
    <2>1. CASE table.over
      BY <1>2, <1>6, <2>1, EndKeeps DEF TavernOf!Told, TavernOf!roundRest
    <2>2. CASE ~table.over
      <3>1. /\ runner = "telling" /\ runner' = "gathering" /\ batch' = {}
            /\ UNCHANGED <<table, seated, disk, saves, idle, stalled, stuck, answered, checked, handler, bowl, said, begun, crashes, dropped, stray>>
        BY <1>6, <2>2 DEF TavernOf!Told, TavernOf!roundRest, TavernOf!tableVars
      <3>2. TavernTypes(c)'
        <4>1. batch' \in SUBSET LinesOf(c)
          BY <3>1
        <4>2. QED BY <1>0, <3>1, <4>1 DEF TavernTypes
      <3>3. PlacesAgree' /\ HandlerAgrees(c)'
        BY <1>0, <3>1 DEF PlacesAgree, HandlerAgrees, Sound
      <3>4. QED BY <1>2, <3>1, <3>2, <3>3, QuietKeeps
    <2>3. QED BY <2>1, <2>2
  <1>7. TavernOf(c)!WatchIdle => TavernInv(c)'
    BY EndKeeps DEF TavernOf!WatchIdle, TavernOf!roundRest
  <1>8. QED BY <1>3, <1>4, <1>5, <1>6, <1>7

LEMMA PickUpKeeps ==
  ASSUME NEW c, Setting(c), TavernInv(c), TavernOf(c)!PickUp
  PROVE  TavernInv(c)'
  <1>0. /\ TavernTypes(c) /\ PlacesAgree /\ HandlerAgrees(c) /\ FilesAgree(c) /\ SavesSound(c) /\ LinesAgree(c)
    BY DEF TavernInv
  <1>1. NoGame = TavernOf(c)!Nothing
    BY DEF NoGame, TavernOf!Nothing
  <1>2. /\ handler.at = "none" /\ ~checked /\ checked' = TRUE /\ UNCHANGED <<handler, bowl, said, begun, crashes, dropped, stray>>
        /\ \/ disk = NoGame /\ UNCHANGED <<table, seated, disk, saves, idle, runner, batch, stalled, stuck, answered>>
           \/ /\ disk # NoGame /\ saves' = (IF disk.game = 0 THEN saves ELSE [saves EXCEPT ![disk.game] = disk]) /\ disk' = NoGame
              /\ UNCHANGED <<table, seated, idle, runner, batch, stalled, stuck, answered>>
           \/ /\ disk # NoGame /\ table' = disk /\ seated' = TRUE
              /\ runner' = (IF disk.stage = "playing" /\ disk.pending # <<>> THEN "gathering" ELSE "none")
              /\ UNCHANGED <<disk, saves, idle, batch, stalled, stuck, answered>>
    BY <1>1 DEF TavernOf!PickUp, TavernOf!NoHandler, TavernOf!Archived, TavernOf!tableVars, TavernOf!roundVars
  <1>3. ~seated /\ ~bowl /\ runner = "none"
    BY <1>0, <1>2 DEF PlacesAgree
  <1>4. CASE disk = NoGame /\ UNCHANGED <<table, seated, disk, saves, idle, runner, batch, stalled, stuck, answered>>
    <2>1. TavernTypes(c)'
      BY <1>0, <1>2, <1>4 DEF TavernTypes
    <2>2. PlacesAgree' /\ HandlerAgrees(c)'
      BY <1>2, <1>3, <1>4 DEF PlacesAgree, HandlerAgrees
    <2>3. QED BY <1>2, <1>3, <1>4, <2>1, <2>2, QuietKeeps
  <1>5. CASE /\ disk # NoGame /\ saves' = (IF disk.game = 0 THEN saves ELSE [saves EXCEPT ![disk.game] = disk]) /\ disk' = NoGame
             /\ UNCHANGED <<table, seated, idle, runner, batch, stalled, stuck, answered>>
    <2>1. PutBy
      BY <1>5 DEF PutBy
    <2>2. /\ saves' \in [GamesOf(c) -> Sittings(c) \cup {NoGame}]
          /\ SavesSound(c)' /\ LinesStay(c)' /\ SavesAgree(c)' /\ GamesAgree'
      BY <1>2, <1>5, <2>1, PutByKeeps
    <2>3. TavernTypes(c)'
      BY <1>0, <1>2, <1>5, <2>2 DEF TavernTypes
    <2>4. PlacesAgree' /\ HandlerAgrees(c)'
      BY <1>2, <1>3, <1>5 DEF PlacesAgree, HandlerAgrees
    <2>5. FilesAgree(c)'
      BY <1>3, <1>5 DEF FilesAgree
    <2>6. LinesAgree(c)'
      BY <1>0, <1>2, <1>3, <1>5 DEF LinesAgree, Unanswered
    <2>7. QED BY <2>2, <2>3, <2>4, <2>5, <2>6 DEF TavernInv
  <1>6. CASE /\ disk # NoGame /\ table' = disk /\ seated' = TRUE
             /\ runner' = (IF disk.stage = "playing" /\ disk.pending # <<>> THEN "gathering" ELSE "none")
             /\ UNCHANGED <<disk, saves, idle, batch, stalled, stuck, answered>>
    <2>1. PutBy
      BY <1>6 DEF PutBy
    <2>2. /\ disk' # NoGame => Sound(disk)' /\ Unanswered(disk)'
          /\ SavesSound(c)' /\ LinesStay(c)' /\ SavesAgree(c)' /\ GamesAgree'
      BY <1>2, <1>6, <2>1, PutByKeeps
    <2>3. TavernTypes(c)'
      BY <1>0, <1>2, <1>6 DEF TavernTypes
    <2>4. PlacesAgree' /\ HandlerAgrees(c)'
      BY <1>2, <1>3, <1>6 DEF PlacesAgree, HandlerAgrees
    <2>5. FilesAgree(c)'
      BY <1>2, <1>6, <2>2 DEF FilesAgree
    <2>6. LinesAgree(c)'
      BY <1>0, <1>2, <1>6, <2>2 DEF LinesAgree, Unanswered
    <2>7. QED BY <2>2, <2>3, <2>4, <2>5, <2>6 DEF TavernInv
  <1>7. QED BY <1>2, <1>4, <1>5, <1>6

LEMMA RestartKeeps ==
  ASSUME NEW c, Setting(c), TavernInv(c), TavernOf(c)!Restart
  PROVE  TavernInv(c)'
  <1>0. /\ TavernTypes(c) /\ PlacesAgree /\ HandlerAgrees(c) /\ FilesAgree(c) /\ SavesSound(c) /\ LinesAgree(c)
    BY DEF TavernInv
  <1>1. NoGame = TavernOf(c)!Nothing
    BY DEF NoGame, TavernOf!Nothing
  <1>2. /\ crashes < c.Crashes /\ crashes' = crashes + 1 /\ table' = NoGame /\ seated' = FALSE /\ checked' = FALSE
        /\ runner' = "none" /\ batch' = {} /\ stalled' = FALSE /\ stuck' = FALSE
        /\ handler' = [at |-> "none", save |-> NoGame] /\ bowl' = FALSE
        /\ UNCHANGED <<disk, idle, said, begun, answered, dropped, stray>>
    BY <1>1 DEF TavernOf!Restart, TavernOf!NoHandler
  <1>3. saves' = saves \/ (seated /\ saves' = IF table.game = 0 THEN saves ELSE [saves EXCEPT ![table.game] = table])
    BY DEF TavernOf!Restart, TavernOf!Archived
  <1>4. PutBy
    <2>1. CASE saves' = saves
      BY <1>2, <2>1 DEF PutBy
    <2>2. CASE seated /\ saves' # saves
      <3>1. table.game # 0 /\ table # NoGame /\ saves' = [saves EXCEPT ![table.game] = table]
        BY <1>0, <1>3, <2>2 DEF PlacesAgree
      <3>2. disk = table
        BY <1>0, <2>2, <3>1 DEF HandlerAgrees, FilesAgree
      <3>3. QED BY <1>2, <3>1, <3>2 DEF PutBy
    <2>3. QED BY <1>3, <2>1, <2>2
  <1>5. /\ saves' \in [GamesOf(c) -> Sittings(c) \cup {NoGame}] /\ (disk' # NoGame => Sound(disk)' /\ Unanswered(disk)')
        /\ SavesSound(c)' /\ LinesStay(c)' /\ SavesAgree(c)' /\ GamesAgree'
    BY <1>2, <1>4, PutByKeeps
  <1>6. handler' \in [at : TavernPlaces, save : Sittings(c) \cup {NoGame}] /\ handler'.at = "none"
    BY <1>2 DEF TavernPlaces
  <1>7. TavernTypes(c)'
    <2>1. batch' \in SUBSET LinesOf(c)
      BY <1>2
    <2>2. crashes' \in 0..c.Crashes
      BY <1>0, <1>2 DEF TavernTypes, Setting
    <2>3. QED BY <1>0, <1>2, <1>5, <1>6, <2>1, <2>2 DEF TavernTypes
  <1>8. PlacesAgree' /\ HandlerAgrees(c)'
    BY <1>2, <1>6 DEF PlacesAgree, HandlerAgrees
  <1>9. FilesAgree(c)'
    BY <1>2, <1>5 DEF FilesAgree
  <1>10. LinesAgree(c)'
    BY <1>0, <1>2, <1>5 DEF LinesAgree
  <1>11. QED BY <1>5, <1>7, <1>8, <1>9, <1>10 DEF TavernInv

-----------------------------------------------------------------------------
(* What the table keeps *)

LEMMA TavernBegins ==
  ASSUME NEW c, Setting(c)
  PROVE  TavernOf(c)!Init => TavernInv(c)
  <1> SUFFICES ASSUME TavernOf(c)!Init PROVE TavernInv(c)
    OBVIOUS
  <1>1. /\ table = NoGame /\ seated = FALSE /\ checked = FALSE /\ disk = NoGame /\ saves = [g \in GamesOf(c) |-> NoGame]
        /\ runner = "none" /\ batch = {} /\ stalled = FALSE /\ stuck = FALSE
        /\ handler = [at |-> "none", save |-> NoGame] /\ idle = FALSE /\ bowl = FALSE
        /\ said = 0 /\ begun = 0 /\ crashes = 0
        /\ answered = [i \in LinesOf(c) |-> 0] /\ dropped = {} /\ stray = FALSE
    BY DEF TavernOf!Init, TavernOf!Nothing, TavernOf!NoHandler, TavernOf!Game, TavernOf!Line, NoGame, GamesOf, LinesOf
  <1>2. handler \in [at : TavernPlaces, save : Sittings(c) \cup {NoGame}] /\ handler.at = "none"
    BY <1>1 DEF TavernPlaces
  <1>3. answered \in [LinesOf(c) -> Nat] /\ saves \in [GamesOf(c) -> Sittings(c) \cup {NoGame}]
    BY <1>1
  <1>4. said \in 0..c.Lines /\ begun \in 0..c.Games /\ crashes \in 0..c.Crashes
    BY <1>1 DEF Setting
  <1>5. TavernTypes(c)
    BY <1>1, <1>2, <1>3, <1>4 DEF TavernTypes
  <1>6. PlacesAgree /\ HandlerAgrees(c) /\ FilesAgree(c)
    BY <1>1, <1>2 DEF PlacesAgree, HandlerAgrees, FilesAgree
  <1>7. SavesSound(c) /\ LinesAgree(c) /\ SavesAgree(c)
    BY <1>1 DEF SavesSound, LinesAgree, SavesAgree
  <1>8. LinesStay(c) /\ GamesAgree
    BY <1>1 DEF LinesStay, GamesAgree
  <1>9. QED BY <1>5, <1>6, <1>7, <1>8 DEF TavernInv

LEMMA TavernStep ==
  ASSUME NEW c, Setting(c)
  PROVE  TavernInv(c) /\ [TavernOf(c)!Next]_(TavernOf(c)!vars) => TavernInv(c)'
  <1> SUFFICES ASSUME TavernInv(c), [TavernOf(c)!Next]_(TavernOf(c)!vars) PROVE TavernInv(c)'
    OBVIOUS
  <1>1. CASE UNCHANGED TavernOf(c)!vars
    BY <1>1 DEF TavernOf!vars, TavernOf!tableVars, TavernOf!roundVars, TavernInv, TavernTypes, PlacesAgree, HandlerAgrees,
         FilesAgree, SavesSound, LinesAgree, LinesStay, SavesAgree, GamesAgree, Sound, Unanswered, Settled, Holds
  <1>2. CASE TavernOf(c)!Next
    BY <1>2, PickUpKeeps, OpenMenuKeeps, AskedKeeps, PickedKeeps, OpenedKeeps, LoadedKeeps, SpokenKeeps, WrittenKeeps,
       RoundKeeps, EndingsKeep, RestartKeeps DEF TavernOf!Next
  <1>3. QED BY <1>1, <1>2

\* A line that is in SillyTavern's chat was answered or missed by the program, and
\* one that is there more than once was missed.
PageInv(c) ==
  /\ script \in [LinesOf(c) -> 0..2] /\ missed \in SUBSET LinesOf(c)
  /\ \A i \in LinesOf(c) : (script[i] > 0 => answered[i] > 0 \/ i \in missed) /\ (script[i] > 1 => i \in missed)

LEMMA PageBegins == ASSUME NEW c, Setting(c), TavernOf(c)!Init PROVE PageInv(c)
  <1>1. script = [i \in LinesOf(c) |-> 0] /\ missed = {}
    BY DEF TavernOf!Init, TavernOf!Line, LinesOf
  <1>2. QED BY <1>1 DEF PageInv

\* What SillyTavern writes.
LEMMA WroteIs ==
  ASSUME NEW c, PageInv(c), TavernOf(c)!Wrote
  PROVE  /\ script' \in [LinesOf(c) -> 0..2]
         /\ \A i \in LinesOf(c) : script'[i] = IF i \notin batch THEN script[i] ELSE IF script[i] = 0 THEN 1 ELSE 2
  <1>1. script' = [i \in LinesOf(c) |-> IF i \notin batch THEN script[i] ELSE IF script[i] = 0 THEN 1 ELSE 2]
    BY DEF TavernOf!Wrote, TavernOf!Line, LinesOf
  <1>2. \A i \in LinesOf(c) : script[i] \in 0..2
    BY DEF PageInv
  <1>3. QED BY <1>1, <1>2

LEMMA UnheardKeeps ==
  ASSUME NEW c, TavernInv(c), PageInv(c), TavernOf(c)!Unheard, answered' = answered PROVE PageInv(c)'
  <1>1. CASE script' = script /\ missed' = missed
    BY <1>1 DEF PageInv
  <1>2. CASE TavernOf(c)!Wrote /\ missed' = missed \cup batch
    <2>1. batch \in SUBSET LinesOf(c)
      BY DEF TavernInv, TavernTypes
    <2>2. /\ script' \in [LinesOf(c) -> 0..2]
          /\ \A i \in LinesOf(c) : script'[i] = IF i \notin batch THEN script[i] ELSE IF script[i] = 0 THEN 1 ELSE 2
      BY <1>2, WroteIs
    <2>3. QED BY <1>2, <2>1, <2>2 DEF PageInv
  <1>3. QED BY <1>1, <1>2 DEF TavernOf!Unheard, TavernOf!pageVars

LEMMA WrittenOnPage ==
  ASSUME NEW c, TavernInv(c), PageInv(c), TavernOf(c)!Written PROVE PageInv(c)'
  <1>1. /\ runner = "writing" /\ TavernOf(c)!Wrote /\ missed' = missed
        /\ answered' = [i \in LinesOf(c) |-> answered[i] + (IF i \in batch THEN 1 ELSE 0)]
    BY DEF TavernOf!Written, TavernOf!Line, LinesOf
  <1>2. answered \in [LinesOf(c) -> Nat] /\ \A i \in batch : answered[i] = 0
    BY <1>1 DEF TavernInv, TavernTypes, LinesAgree
  <1>3. /\ script' \in [LinesOf(c) -> 0..2]
        /\ \A i \in LinesOf(c) : script'[i] = IF i \notin batch THEN script[i] ELSE IF script[i] = 0 THEN 1 ELSE 2
    BY <1>1, WroteIs
  <1>4. ASSUME NEW i \in LinesOf(c)
        PROVE (script'[i] > 0 => answered'[i] > 0 \/ i \in missed) /\ (script'[i] > 1 => i \in missed)
    <2>1. /\ script[i] \in 0..2 /\ (script[i] > 0 => answered[i] > 0 \/ i \in missed) /\ (script[i] > 1 => i \in missed)
      BY DEF PageInv
    <2>2. answered[i] \in Nat /\ answered'[i] = answered[i] + (IF i \in batch THEN 1 ELSE 0)
      BY <1>1, <1>2
    <2>3. CASE i \in batch
      BY <1>2, <1>3, <2>1, <2>2, <2>3
    <2>4. CASE i \notin batch
      BY <1>3, <2>1, <2>2, <2>4
    <2>5. QED BY <2>3, <2>4
  <1>5. QED BY <1>1, <1>3, <1>4 DEF PageInv

\* SillyTavern's chat changes with a round, or with what becomes of one.
LEMMA PageMoves ==
  ASSUME NEW c, TavernOf(c)!Next
  PROVE  TavernOf(c)!Written \/ (TavernOf(c)!Unheard /\ answered' = answered)
  <1> DEFINE still == script' = script /\ missed' = missed /\ answered' = answered
             goal == TavernOf(c)!Written \/ (TavernOf(c)!Unheard /\ answered' = answered)
  <1>1. still => goal
    BY DEF TavernOf!Unheard, TavernOf!pageVars
  <1>2. CASE TavernOf(c)!PickUp \/ (\E p \in c.Players : TavernOf(c)!OpenMenu(p)) \/ TavernOf(c)!Pick \/ TavernOf(c)!Picked
    <2>1. still
      BY <1>2 DEF TavernOf!PickUp, TavernOf!OpenMenu, TavernOf!Pick, TavernOf!Picked, TavernOf!roundVars, TavernOf!pageVars
    <2>2. QED BY <1>1, <2>1
  <1>3. CASE TavernOf(c)!Opened \/ TavernOf(c)!PickSave \/ TavernOf(c)!Loaded \/ TavernOf(c)!LoadFails
    <2>1. still
      BY <1>3 DEF TavernOf!Opened, TavernOf!PickSave, TavernOf!Loaded, TavernOf!LoadFails, TavernOf!roundVars, TavernOf!pageVars
    <2>2. QED BY <1>1, <2>1
  <1>4. CASE \E p \in c.Players : TavernOf(c)!Say(p) \/ TavernOf(c)!Join(p) \/ TavernOf(c)!Leave(p) \/ TavernOf(c)!Roll(p)
    <2>1. still
      BY <1>4 DEF TavernOf!Say, TavernOf!Join, TavernOf!Leave, TavernOf!Roll, TavernOf!Queue, TavernOf!roundVars, TavernOf!pageVars
    <2>2. QED BY <1>1, <2>1
  <1>5. CASE TavernOf(c)!Rolled \/ TavernOf(c)!Due \/ TavernOf(c)!Stalled \/ TavernOf(c)!TellFails
    <2>1. still
      BY <1>5 DEF TavernOf!Rolled, TavernOf!Queue, TavernOf!Due, TavernOf!Stalled, TavernOf!TellFails, TavernOf!pageVars
    <2>2. QED BY <1>1, <2>1
  <1>6. CASE TavernOf(c)!LimitPasses \/ TavernOf(c)!ServeBowl \/ TavernOf(c)!PutAway
    <2>1. still
      BY <1>6 DEF TavernOf!LimitPasses, TavernOf!ServeBowl, TavernOf!PutAway, TavernOf!roundVars, TavernOf!pageVars
    <2>2. QED BY <1>1, <2>1
  <1>7. CASE TavernOf(c)!OpenFails \/ TavernOf(c)!EndByHost \/ TavernOf(c)!CardGone \/ TavernOf(c)!WatchIdle
    BY <1>7 DEF TavernOf!OpenFails, TavernOf!EndByHost, TavernOf!CardGone, TavernOf!WatchIdle, TavernOf!End
  <1>8. CASE TavernOf(c)!Told
    <2>1. CASE table.over
      BY <1>8, <2>1 DEF TavernOf!Told, TavernOf!End
    <2>2. CASE ~table.over
      <3>1. still
        BY <1>8, <2>2 DEF TavernOf!Told, TavernOf!pageVars
      <3>2. QED BY <1>1, <3>1
    <2>3. QED BY <2>1, <2>2
  <1>9. CASE TavernOf(c)!WriteFails \/ TavernOf(c)!Restart
    BY <1>9 DEF TavernOf!WriteFails, TavernOf!Restart
  <1>10. QED BY <1>2, <1>3, <1>4, <1>5, <1>6, <1>7, <1>8, <1>9 DEF TavernOf!Next

GameInv(c) == TavernInv(c) /\ PageInv(c)

LEMMA GameBegins == ASSUME NEW c, Setting(c) PROVE TavernOf(c)!Init => GameInv(c)
  BY TavernBegins, PageBegins DEF GameInv

LEMMA GameStep ==
  ASSUME NEW c, Setting(c)
  PROVE  GameInv(c) /\ [TavernOf(c)!Next]_(TavernOf(c)!vars) => GameInv(c)'
  <1> SUFFICES ASSUME TavernInv(c), PageInv(c), [TavernOf(c)!Next]_(TavernOf(c)!vars) PROVE TavernInv(c)' /\ PageInv(c)'
    BY DEF GameInv
  <1>1. TavernInv(c)'
    BY TavernStep
  <1>2. CASE TavernOf(c)!Next
    BY <1>1, <1>2, PageMoves, WrittenOnPage, UnheardKeeps
  <1>3. CASE UNCHANGED TavernOf(c)!vars
    <2>1. UNCHANGED <<script, missed, answered>>
      BY <1>3 DEF TavernOf!vars, TavernOf!roundVars, TavernOf!pageVars
    <2>2. PageInv(c)'
      BY <2>1 DEF PageInv
    <2>3. QED BY <1>1, <2>2
  <1>4. QED BY <1>2, <1>3

LEMMA TavernHolds ==
  ASSUME NEW c, Setting(c)
  PROVE  GameInv(c) => TavernOf(c)!TableKept
  <1> SUFFICES ASSUME TavernInv(c), PageInv(c) PROVE TavernOf(c)!TableKept
    BY DEF GameInv
  <1>0. /\ TavernTypes(c) /\ PlacesAgree /\ FilesAgree(c) /\ SavesSound(c) /\ LinesAgree(c) /\ LinesStay(c) /\ GamesAgree
    BY DEF TavernInv
  <1>1. /\ NoGame = TavernOf(c)!Nothing /\ TavernOf(c)!Line = LinesOf(c) /\ TavernOf(c)!Game = GamesOf(c)
        /\ TavernOf(c)!Session = Sittings(c)
    BY DEF NoGame, TavernOf!Nothing, TavernOf!Line, LinesOf, TavernOf!Game, GamesOf, Sittings
  <1>2. TavernOf(c)!TypeOK
    <2>1. handler.at \in {"none", "picking", "opening", "loading", "rolling"}
      BY <1>0 DEF TavernTypes, TavernPlaces
    <2>2. {seated, checked, stalled, idle, bowl, stuck, stray} \subseteq BOOLEAN
      BY <1>0 DEF TavernTypes
    <2>3. script \in [LinesOf(c) -> 0..2] /\ missed \in SUBSET LinesOf(c)
      BY DEF PageInv
    <2>4. QED BY <1>0, <1>1, <2>1, <2>2, <2>3 DEF TavernTypes, TavernOf!TypeOK
  <1>3. TavernOf(c)!AnsweredOnce
    BY <1>0, <1>1 DEF LinesAgree, PageInv, TavernOf!AnsweredOnce
  <1>4. TavernOf(c)!LinesKept
    <2>1. SUFFICES ASSUME NEW i \in 1..said PROVE answered[i] > 0 \/ i \in dropped \cup TavernOf(c)!OnDisk \/ stray
      BY DEF TavernOf!LinesKept
    <2>2. TavernOf(c)!OnDisk = UNION {In(t.pending) : t \in ({disk} \cup TavernOf(c)!Range(saves)) \ {NoGame}}
      BY <1>1, PendingRangeIs DEF TavernOf!OnDisk
    <2>3. \A t : t \in {disk} \cup In(saves) /\ Holds(t, i) => i \in TavernOf(c)!OnDisk
      BY <2>2, PendingRangeIs DEF Holds
    <2>4. \A g \in GamesOf(c) : saves[g] \in In(saves)
      BY <1>0 DEF TavernTypes, In
    <2>5. QED BY <1>0, <2>3, <2>4 DEF LinesStay, Settled
  <1>5. TavernOf(c)!FileAgrees /\ TavernOf(c)!OneGame
    BY <1>0 DEF FilesAgree, PlacesAgree, TavernOf!FileAgrees, TavernOf!OneGame
  <1>6. TavernOf(c)!GamesKept
    BY <1>0, <1>1 DEF GamesAgree, TavernOf!GamesKept
  <1>7. QED BY <1>2, <1>3, <1>4, <1>5, <1>6 DEF TavernOf!TableKept

\* Across failures, endings, crashes and games that are taken up again, no line
\* is taken for answered by two rounds, SillyTavern's chat answers a line again only
\* after a round of it went unheard, and no line is lost unless it is put aside; the
\* file is the game at the table; a game that was begun can be played on or taken up;
\* and a game and a riddle are not out together (tavern/mode.py, tavern/soup.py).
THEOREM TableCorrect ==
  ASSUME NEW c, Setting(c)
  PROVE  TavernOf(c)!Spec => []TavernOf(c)!TableKept
  <1>1. QED BY GameBegins, GameStep, TavernHolds, PTL DEF TavernOf!Spec

LEMMA StoriesAreSettings == Setting(Story) /\ Setting(Stories)
  BY DEF Setting, Story, Stories

\* On the instances that are checked.
THEOREM TableIsKept == MCInit /\ [][MCNext]_MCvars => []TableKept
  <1> DEFINE Inv == (part = "game" => GameInv(Story)) /\ (part = "games" => GameInv(Stories))
  <1>1. MCInit => Inv
    BY StoriesAreSettings, GameBegins DEF MCInit
  <1>2. Inv /\ [MCNext]_MCvars => Inv'
    <2> SUFFICES ASSUME Inv, [MCNext]_MCvars PROVE Inv'
      OBVIOUS
    <2>1. ASSUME part' = "game" PROVE GameInv(Story)'
      <3>1. part = "game" /\ (TavernOf(Story)!Next \/ UNCHANGED TavernOf(Story)!vars)
        BY <2>1 DEF MCNext, MCvars, Of, Tavern, tavernOnly, TavernOf!vars, TavernOf!tableVars, TavernOf!roundVars,
             TavernOf!pageVars
      <3>2. QED BY <3>1, StoriesAreSettings, GameStep
    <2>2. ASSUME part' = "games" PROVE GameInv(Stories)'
      <3>1. part = "games" /\ (TavernOf(Stories)!Next \/ UNCHANGED TavernOf(Stories)!vars)
        BY <2>2 DEF MCNext, MCvars, Of, Tavern, tavernOnly, TavernOf!vars, TavernOf!tableVars, TavernOf!roundVars,
             TavernOf!pageVars
      <3>2. QED BY <3>1, StoriesAreSettings, GameStep
    <2>3. QED BY <2>1, <2>2
  <1>3. Inv => TableKept
    BY StoriesAreSettings, TavernHolds DEF TableKept
  <1>4. QED BY <1>1, <1>2, <1>3, PTL

-----------------------------------------------------------------------------
(* The history of a chat *)

\* Nothing is twice in a queue but what is in J.
OnceBut(queue, J) == \A i, j \in DOMAIN queue : i # j => queue[i] # queue[j] \/ queue[i] \in J

SnapsOf(c) == SessionsOf(c)!Snapshot
\* A job with a line to store has one.
JobsOf(A, c) == {x \in [at : A, copy : SnapsOf(c), line : 0..c.Lines] : x.at = "storing" => x.line # 0}
AnswerPhases == {"idle", "recording", "cleaning", "noting", "writing", "sending", "storing"}
Sendings == {"idle", "waiting", "storing"}
FoldPhases == {"idle", "scheduled", "reading", "summing", "ready", "committing"}
FoldsOf(c) == [at : FoldPhases, copy : SnapsOf(c), batch : Seq(LinesOf(c)), summary : SUBSET LinesOf(c)]

HistoryTypes(c) ==
  /\ file \in [snap : SnapsOf(c), torn : BOOLEAN] /\ ambient \in Seq(LinesOf(c)) /\ chosen \in 0..c.Lines
  /\ lock \in {"none", "reply", "late", "archive"}
  /\ answer \in JobsOf(AnswerPhases, c) /\ late \in JobsOf(Sendings, c) /\ picture \in JobsOf(Sendings, c)
  /\ archiver \in FoldsOf(c) /\ console \in JobsOf({"idle", "editing"}, c)
  /\ said \in 0..c.Lines /\ fate \in [LinesOf(c) -> {"new", "kept", "gone", "purged"}] /\ joined \in SUBSET LinesOf(c)

\* Who has the lock.
LockAgrees ==
  /\ answer.at # "idle" => lock = "reply"
  /\ late.at = "storing" => lock = "late"
  /\ archiver.at = "committing" => lock = "archive"

\* What a snapshot holds.
Told(snap) == In(snap.history) \cup snap.summary

HistorySound(c) ==
  /\ \A i \in LinesOf(c) : fate[i] = "kept" => i \in Told(file.snap)
  /\ \A i \in Told(file.snap) : fate[i] \notin {"new", "purged"}
  /\ In(file.snap.history) \cap file.snap.summary \subseteq joined /\ OnceBut(file.snap.history, joined)
  /\ Len(file.snap.history) <= c.HistoryLimit

\* Whoever will save what was loaded has loaded what is in the file.
CopiesAgree ==
  /\ answer.at \in {"recording", "cleaning", "noting", "writing", "storing"} => answer.copy = file.snap
  /\ late.at = "storing" => late.copy = file.snap
  /\ picture.at = "storing" => picture.copy = file.snap
  /\ console.at = "editing" => console.copy = file.snap
  /\ archiver.at = "committing" => archiver.copy = file.snap
  /\ archiver.at \in {"reading", "summing"} => archiver.summary = file.snap.summary
  /\ archiver.at \in {"ready", "committing"} => archiver.summary = file.snap.summary \cup In(archiver.batch)

\* A line that is on its way into the history is new to everybody.
Fresh(x) == x.at = "storing" => x.line \in 1..said /\ fate[x.line] = "new" /\ x.line \notin In(ambient) /\ x.line # chosen

LinesFresh(c) ==
  /\ \A i \in LinesOf(c) : i > said => fate[i] = "new"
  /\ \A i \in In(ambient) : i <= said /\ (fate[i] = "new" \/ i \in joined)
  /\ OnceBut(ambient, joined) /\ chosen <= said
  /\ Fresh(answer) /\ Fresh(late) /\ Fresh(picture)
  /\ answer.at = "storing" /\ picture.at = "storing" => answer.line # picture.line
  /\ late.at = "storing" /\ picture.at = "storing" => late.line # picture.line

HistoryInv(c) ==
  /\ HistoryTypes(c) /\ LockAgrees
  /\ ~clash => HistorySound(c) /\ CopiesAgree /\ LinesFresh(c)

\* What the history of a chat may be (HISTORY_LIMIT and the settings of the memory).
Chatting(c) == c.HistoryLimit \in Nat /\ c.Keep \in Nat /\ c.Batch \in Nat /\ c.Lines \in Nat

LEMMA HistoryRangeIs == ASSUME NEW c, NEW s PROVE SessionsOf(c)!Range(s) = In(s)
  BY DEF SessionsOf!Range, In

LEMMA SnapIs ==
  ASSUME NEW c
  PROVE  /\ SnapsOf(c) = [history : Seq(LinesOf(c)), summary : SUBSET LinesOf(c), tools : BOOLEAN]
         /\ \A s \in SnapsOf(c) : s.history \in Seq(LinesOf(c)) /\ s.summary \in SUBSET LinesOf(c) /\ s.tools \in BOOLEAN
  <1>1. SnapsOf(c) = [history : Seq(LinesOf(c)), summary : SUBSET LinesOf(c), tools : BOOLEAN]
    BY DEF SnapsOf, SessionsOf!Snapshot, SessionsOf!Line, LinesOf
  <1>2. QED BY <1>1

LEMMA InOf == ASSUME NEW K, NEW s \in Seq(K) PROVE In(s) \in SUBSET K
  <1>1. \A i \in DOMAIN s : s[i] \in K
    BY LenProperties, ElementOfSeq
  <1>2. QED BY <1>1 DEF In

\* One queue after another.
LEMMA JoinedQueues ==
  ASSUME NEW K, NEW a \in Seq(K), NEW b \in Seq(K)
  PROVE  /\ a \o b \in Seq(K) /\ In(a \o b) = In(a) \cup In(b)
         /\ \A J : OnceBut(a, J) /\ OnceBut(b, J) /\ In(a) \cap In(b) \subseteq J => OnceBut(a \o b, J)
  <1> DEFINE t == a \o b
             n == Len(a)
             m == Len(b)
  <1>1. /\ t \in Seq(K) /\ Len(t) = n + m /\ DOMAIN t = 1..(n + m) /\ DOMAIN a = 1..n /\ DOMAIN b = 1..m /\ n \in Nat /\ m \in Nat
        /\ \A i \in 1..(n + m) : t[i] = IF i <= n THEN a[i] ELSE b[i - n]
    BY LenProperties, ConcatProperties
  <1> HIDE DEF t, n, m
  <1>2. \A i \in 1..n : i \in 1..(n + m) /\ t[i] = a[i]
    BY <1>1
  <1>3. \A i \in 1..m : n + i \in 1..(n + m) /\ t[n + i] = b[i]
    <2>1. \A i \in 1..m : n + i \in 1..(n + m) /\ ~(n + i <= n) /\ (n + i) - n = i
      BY <1>1
    <2>2. QED BY <1>1, <2>1
  <1>4. \A i \in 1..(n + m) : (i \in 1..n /\ t[i] = a[i]) \/ (i - n \in 1..m /\ t[i] = b[i - n])
    BY <1>1
  <1>5. In(t) = In(a) \cup In(b)
    <2>1. ASSUME NEW x \in In(t) PROVE x \in In(a) \cup In(b)
      <3>1. PICK i \in 1..(n + m) : t[i] = x
        BY <1>1 DEF In
      <3>2. QED BY <1>1, <1>4, <3>1 DEF In
    <2>2. ASSUME NEW x \in In(a) PROVE x \in In(t)
      <3>1. PICK i \in 1..n : a[i] = x
        BY <1>1 DEF In
      <3>2. i \in DOMAIN t /\ t[i] = x
        BY <1>1, <1>2, <3>1
      <3>3. QED BY <3>2 DEF In
    <2>3. ASSUME NEW x \in In(b) PROVE x \in In(t)
      <3>1. PICK i \in 1..m : b[i] = x
        BY <1>1 DEF In
      <3>2. n + i \in DOMAIN t /\ t[n + i] = x
        BY <1>1, <1>3, <3>1
      <3>3. QED BY <3>2 DEF In
    <2>4. QED BY <2>1, <2>2, <2>3
  <1>6. ASSUME NEW J, OnceBut(a, J), OnceBut(b, J), In(a) \cap In(b) \subseteq J PROVE OnceBut(t, J)
    <2>1. SUFFICES ASSUME NEW i \in 1..(n + m), NEW j \in 1..(n + m), i # j, t[i] = t[j] PROVE t[i] \in J
      BY <1>1 DEF OnceBut
    <2>2. CASE i \in 1..n /\ t[i] = a[i] /\ j \in 1..n /\ t[j] = a[j]
      BY <1>1, <1>6, <2>1, <2>2 DEF OnceBut
    <2>3. CASE i - n \in 1..m /\ t[i] = b[i - n] /\ j - n \in 1..m /\ t[j] = b[j - n]
      <3>1. i - n # j - n
        BY <1>1, <2>1
      <3>2. QED BY <1>1, <1>6, <2>1, <2>3, <3>1 DEF OnceBut
    <2>4. CASE i \in 1..n /\ t[i] = a[i] /\ j - n \in 1..m /\ t[j] = b[j - n]
      BY <1>1, <1>6, <2>1, <2>4 DEF In
    <2>5. CASE j \in 1..n /\ t[j] = a[j] /\ i - n \in 1..m /\ t[i] = b[i - n]
      BY <1>1, <1>6, <2>1, <2>5 DEF In
    <2>6. QED BY <1>4, <2>2, <2>3, <2>4, <2>5
  <1>7. QED BY <1>1, <1>5, <1>6 DEF t

\* What is left of a queue without its first m.
LEMMA RestIs ==
  ASSUME NEW K, NEW s \in Seq(K), NEW m \in 0..Len(s)
  PROVE  /\ SubSeq(s, m + 1, Len(s)) \in Seq(K) /\ Len(SubSeq(s, m + 1, Len(s))) = Len(s) - m
         /\ In(SubSeq(s, m + 1, Len(s))) \subseteq In(s)
         /\ In(s) = In(SubSeq(s, 1, m)) \cup In(SubSeq(s, m + 1, Len(s)))
         /\ SubSeq(s, 1, m) \in Seq(K)
         /\ \A J : OnceBut(s, J) => /\ OnceBut(SubSeq(s, m + 1, Len(s)), J)
                                    /\ In(SubSeq(s, 1, m)) \cap In(SubSeq(s, m + 1, Len(s))) \subseteq J
  <1> DEFINE t == SubSeq(s, m + 1, Len(s))
             a == SubSeq(s, 1, m)
             l == Len(s)
  <1>1. l \in Nat /\ DOMAIN s = 1..l /\ m + 1 \in Int /\ l \in Int /\ m \in 0..l /\ 1 \in Int /\ m \in Int
    BY LenProperties
  <1>2. \A i \in 1..l : s[i] \in K
    BY <1>1, ElementOfSeq
  <1>3. t \in Seq(K) /\ Len(t) = l - m /\ DOMAIN t = 1..(l - m) /\ \A i \in 1..(l - m) : t[i] = s[m + i]
    <2>1. \A i \in (m + 1)..l : s[i] \in K
      BY <1>1, <1>2
    <2>2. t \in Seq(K) /\ Len(t) = (IF m + 1 <= l THEN l - (m + 1) + 1 ELSE 0)
          /\ \A i \in 1..(l - (m + 1) + 1) : t[i] = s[m + 1 + i - 1]
      BY <1>1, <2>1, SubSeqProperties
    <2> HIDE DEF t, l
    <2>3. \A i \in 1..(l - m) : i \in 1..(l - (m + 1) + 1) /\ m + 1 + i - 1 = m + i
      BY <1>1
    <2>4. Len(t) = l - m
      BY <1>1, <2>2
    <2>5. DOMAIN t = 1..(l - m)
      BY <2>2, <2>4, LenProperties
    <2>6. QED BY <2>2, <2>3, <2>4, <2>5
  <1>4. a \in Seq(K) /\ Len(a) = m /\ DOMAIN a = 1..m /\ \A i \in 1..m : a[i] = s[i]
    <2>1. \A i \in 1..m : s[i] \in K
      BY <1>1, <1>2
    <2>2. a \in Seq(K) /\ Len(a) = (IF 1 <= m THEN m - 1 + 1 ELSE 0)
          /\ \A i \in 1..(m - 1 + 1) : a[i] = s[1 + i - 1]
      BY <1>1, <2>1, SubSeqProperties
    <2> HIDE DEF a, l
    <2>3. \A i \in 1..m : i \in 1..(m - 1 + 1) /\ 1 + i - 1 = i
      BY <1>1
    <2>4. Len(a) = m
      BY <1>1, <2>2
    <2>5. DOMAIN a = 1..m
      BY <2>2, <2>4, LenProperties
    <2>6. QED BY <2>2, <2>3, <2>4, <2>5
  <1> HIDE DEF t, a, l
  <1>5. \A i \in 1..(l - m) : m + i \in 1..l
    BY <1>1
  <1>6. \A i \in 1..l : i \in 1..m \/ (i - m \in 1..(l - m) /\ m + (i - m) = i)
    BY <1>1
  <1>7. In(t) \subseteq In(s)
    BY <1>1, <1>3, <1>5 DEF In
  <1>8. In(s) = In(a) \cup In(t)
    <2>1. In(a) \subseteq In(s)
      <3>1. \A i \in 1..m : i \in 1..l
        BY <1>1
      <3>2. QED BY <1>1, <1>4, <3>1 DEF In
    <2>2. ASSUME NEW x \in In(s) PROVE x \in In(a) \cup In(t)
      <3>1. PICK i \in 1..l : s[i] = x
        BY <1>1 DEF In
      <3>2. CASE i \in 1..m
        BY <1>4, <3>1, <3>2 DEF In
      <3>3. CASE i - m \in 1..(l - m) /\ m + (i - m) = i
        <4>1. t[i - m] = x
          BY <1>3, <3>1, <3>3
        <4>2. QED BY <1>3, <3>3, <4>1 DEF In
      <3>4. QED BY <1>6, <3>2, <3>3
    <2>3. QED BY <1>7, <2>1, <2>2
  <1>9. ASSUME NEW J, OnceBut(s, J) PROVE OnceBut(t, J) /\ In(a) \cap In(t) \subseteq J
    <2>1. OnceBut(t, J)
      <3>1. \A i, j \in 1..(l - m) : i # j => m + i # m + j
        BY <1>1
      <3>2. QED BY <1>1, <1>3, <1>5, <1>9, <3>1 DEF OnceBut
    <2>2. ASSUME NEW x \in In(a), x \in In(t) PROVE x \in J
      <3>1. PICK i \in 1..m : s[i] = x
        BY <1>4 DEF In
      <3>2. PICK j \in 1..(l - m) : s[m + j] = x
        BY <1>3, <2>2 DEF In
      <3>3. i \in 1..l /\ m + j \in 1..l /\ i # m + j
        BY <1>1
      <3>4. QED BY <1>1, <1>9, <3>1, <3>2, <3>3 DEF OnceBut
    <2>3. QED BY <2>1, <2>2
  <1>10. QED BY <1>3, <1>4, <1>7, <1>8, <1>9 DEF t, a, l

\* What is kept of a history that has grown too long.
LEMMA KeptEnd ==
  ASSUME NEW c, Chatting(c), NEW h \in Seq(LinesOf(c))
  PROVE  /\ SessionsOf(c)!Capped(h) \in Seq(LinesOf(c)) /\ In(SessionsOf(c)!Capped(h)) \subseteq In(h)
         /\ Len(SessionsOf(c)!Capped(h)) <= c.HistoryLimit
         /\ Len(h) <= c.HistoryLimit => SessionsOf(c)!Capped(h) = h
         /\ \A J : OnceBut(h, J) => OnceBut(SessionsOf(c)!Capped(h), J)
  <1>1. CASE Len(h) <= c.HistoryLimit
    BY <1>1 DEF SessionsOf!Capped
  <1>2. CASE ~(Len(h) <= c.HistoryLimit)
    <2>1. PICK m \in 0..Len(h) : m = Len(h) - c.HistoryLimit
      <3>1. Len(h) \in Nat /\ c.HistoryLimit \in Nat
        BY LenProperties DEF Chatting
      <3>2. QED BY <1>2, <3>1
    <2>2. Len(h) - m <= c.HistoryLimit
      BY <2>1, LenProperties DEF Chatting
    <2>3. SessionsOf(c)!Capped(h) = SubSeq(h, m + 1, Len(h))
      BY <1>2, <2>1 DEF SessionsOf!Capped
    <2>4. /\ SubSeq(h, m + 1, Len(h)) \in Seq(LinesOf(c)) /\ Len(SubSeq(h, m + 1, Len(h))) = Len(h) - m
          /\ In(SubSeq(h, m + 1, Len(h))) \subseteq In(h)
          /\ \A J : OnceBut(h, J) => OnceBut(SubSeq(h, m + 1, Len(h)), J)
      BY RestIs
    <2>5. QED BY <1>2, <2>2, <2>3, <2>4
  <1>3. QED BY <1>1, <1>2

\* A history without some of its lines.
LEMMA TakenOutIs ==
  ASSUME NEW c, NEW h \in Seq(LinesOf(c)), NEW X
  PROVE  /\ SessionsOf(c)!TakenOut(h, X) \in Seq(LinesOf(c)) /\ In(SessionsOf(c)!TakenOut(h, X)) \subseteq In(h)
         /\ \A J : OnceBut(h, J) => OnceBut(SessionsOf(c)!TakenOut(h, X), J)
  <1> DEFINE K == LinesOf(c)
             G == Seq(K)
             Put(n, q) == IF h[n] \in X THEN q ELSE Append(q, h[n])
             F == [n \in 1..Len(h) |-> [q \in G |-> Put(n, q)]]
             f == CHOOSE f : f = [n \in 0..Len(h) |-> IF n = 0 THEN <<>> ELSE Put(n, f[n - 1])]
  <1>1. Len(h) \in Nat /\ DOMAIN h = 1..Len(h) /\ \A n \in 1..Len(h) : h[n] \in K
    BY LenProperties, ElementOfSeq
  <1>2. SessionsOf(c)!TakenOut(h, X) = f[Len(h)]
    BY DEF SessionsOf!TakenOut
  <1>3. ASSUME NEW n \in 1..Len(h), NEW q \in G
        PROVE /\ Put(n, q) \in G /\ In(Put(n, q)) \subseteq In(q) \cup {h[n]}
              /\ \A J : OnceBut(q, J) /\ (h[n] \in In(q) => h[n] \in J) => OnceBut(Put(n, q), J)
    <2>1. CASE h[n] \in X
      BY <2>1
    <2>2. CASE h[n] \notin X
      <3>1. PICK y \in K : y = h[n]
        BY <1>1
      <3>2. /\ Append(q, y) \in G /\ Append(q, y)[Len(q) + 1] = y /\ DOMAIN Append(q, y) = 1..(Len(q) + 1)
            /\ DOMAIN q = 1..Len(q) /\ Len(q) \in Nat /\ \A j \in 1..Len(q) : Append(q, y)[j] = q[j]
        OBVIOUS
      <3>3. In(Append(q, y)) = In(q) \cup {y}
        BY <3>2 DEF In
      <3>4. ASSUME NEW J, OnceBut(q, J), y \in In(q) => y \in J PROVE OnceBut(Append(q, y), J)
        BY <3>2, <3>4 DEF OnceBut, In
      <3>5. QED BY <2>2, <3>1, <3>2, <3>3, <3>4
    <2>3. QED BY <2>1, <2>2
  <1>4. F \in [1..Len(h) -> [G -> G]] /\ <<>> \in G
    BY <1>3
  <1>5. \A n \in 1..Len(h), q \in G : F[n][q] = Put(n, q)
    OBVIOUS
  <1> HIDE DEF F, G, Put
  <1>6. PICK g \in [0..Len(h) -> G] : After(g, Len(h), <<>>, F)
    BY <1>1, <1>4, StepsDefine
  <1>7. g = [n \in 0..Len(h) |-> IF n = 0 THEN <<>> ELSE Put(n, g[n - 1])]
    <2>1. \A n \in 1..Len(h) : g[n - 1] \in G
      BY <1>1, <1>6
    <2>2. \A n \in 0..Len(h) : (IF n = 0 THEN <<>> ELSE F[n][g[n - 1]]) = (IF n = 0 THEN <<>> ELSE Put(n, g[n - 1]))
      BY <1>1, <1>5, <2>1
    <2>3. QED BY <1>6, <2>2 DEF After
  <1>8. f = [n \in 0..Len(h) |-> IF n = 0 THEN <<>> ELSE Put(n, f[n - 1])]
    BY <1>7
  <1> HIDE DEF f
  <1> DEFINE H == {n \in 0..Len(h) : /\ f[n] \in G /\ In(f[n]) \subseteq {h[i] : i \in 1..n}
                                     /\ \A J : OnceBut(h, J) => OnceBut(f[n], J)}
  <1>9. 0 \in H
    <2>1. f[0] = <<>>
      BY <1>1, <1>8
    <2>3. \A J : OnceBut(<<>>, J)
      BY DEF OnceBut
    <2>4. QED BY <1>1, <1>4, <2>1, <2>3, NothingIn
  <1>10. ASSUME NEW n \in 1..Len(h), n - 1 \in H PROVE n \in H
    <2>1. f[n] = Put(n, f[n - 1])
      BY <1>1, <1>8
    <2>2. /\ f[n - 1] \in G /\ In(f[n - 1]) \subseteq {h[i] : i \in 1..(n - 1)}
          /\ \A J : OnceBut(h, J) => OnceBut(f[n - 1], J)
      BY <1>10
    <2>3. /\ f[n] \in G /\ In(f[n]) \subseteq In(f[n - 1]) \cup {h[n]}
          /\ \A J : OnceBut(f[n - 1], J) /\ (h[n] \in In(f[n - 1]) => h[n] \in J) => OnceBut(f[n], J)
      BY <1>3, <2>1, <2>2
    <2>4. In(f[n]) \subseteq {h[i] : i \in 1..n}
      <3>1. \A i \in 1..(n - 1) : i \in 1..n
        BY <1>1
      <3>2. n \in 1..n
        BY <1>1
      <3>3. QED BY <2>2, <2>3, <3>1, <3>2
    <2>5. ASSUME NEW J, OnceBut(h, J) PROVE OnceBut(f[n], J)
      <3>1. ASSUME h[n] \in In(f[n - 1]) PROVE h[n] \in J
        <4>1. PICK i \in 1..(n - 1) : h[i] = h[n]
          BY <2>2, <3>1
        <4>2. i \in 1..Len(h) /\ i # n
          BY <1>1
        <4>3. QED BY <1>1, <2>5, <4>1, <4>2 DEF OnceBut
      <3>2. QED BY <2>2, <2>3, <2>5, <3>1
    <2>6. n \in 0..Len(h)
      BY <1>1
    <2>7. QED BY <2>3, <2>4, <2>5, <2>6
  <1>11. Len(h) \in H
    <2> HIDE DEF H
    <2>1. \A n \in 0..Len(h) : n \in H
      BY <1>1, <1>9, <1>10, UpTo
    <2>2. QED BY <1>1, <2>1
  <1>12. {h[i] : i \in 1..Len(h)} = In(h)
    BY <1>1 DEF In
  <1>13. QED BY <1>2, <1>11, <1>12 DEF G

-----------------------------------------------------------------------------
(* What a save does *)

\* The lines of which w may have taken some out.
ShownTo(w) ==
  IF w = "console" THEN In(console.copy.history) ELSE IF w = "cleaning" THEN In(answer.copy.history) ELSE {}

\* The snapshot snap is saved with lines; those in G are gone.
Saved(c, w, snap, lines, G) ==
  /\ file' \in [snap : SnapsOf(c), torn : BOOLEAN] /\ file'.snap.summary = snap.summary
  /\ In(file'.snap.history) \subseteq In(snap.history) \cup In(lines) /\ Len(file'.snap.history) <= c.HistoryLimit
  /\ \A J : OnceBut(snap.history \o lines, J) => OnceBut(file'.snap.history, J)
  /\ \A i \in In(snap.history) \cup In(lines) : i \in In(file'.snap.history) \/ i \in G
  /\ \A i \in G : i \in In(snap.history) \/ i \in In(lines) \/ i \in ShownTo(w)
  /\ \A i \in ShownTo(w) : i \in In(snap.history) \/ i \in G
  /\ fate' \in [LinesOf(c) -> {"new", "kept", "gone", "purged"}]
  /\ \A i \in LinesOf(c) : fate'[i] = IF i \in G THEN "gone" ELSE IF i \in In(lines) THEN "kept" ELSE fate[i]

LEMMA SaveIs ==
  ASSUME NEW c, Chatting(c), HistoryTypes(c), NEW w, NEW snap \in SnapsOf(c), NEW lines \in Seq(LinesOf(c)),
         SessionsOf(c)!Save(w, snap, lines)
  PROVE  /\ \E G : Saved(c, w, snap, lines, G)
         /\ lines = <<>> /\ Len(snap.history) <= c.HistoryLimit => file'.snap = snap
  <1> DEFINE new == SessionsOf(c)!With(snap, lines)
  <1>1. snap.history \in Seq(LinesOf(c)) /\ snap.summary \in SUBSET LinesOf(c)
    BY SnapIs
  <1>2. PICK h \in Seq(LinesOf(c)) : h = snap.history
    BY <1>1
  <1>3. h \o lines \in Seq(LinesOf(c)) /\ In(h \o lines) = In(h) \cup In(lines)
    BY JoinedQueues
  <1>4. PICK k \in Seq(LinesOf(c)) : k = SessionsOf(c)!Capped(h \o lines)
    BY <1>3, KeptEnd
  <1>5. /\ In(k) \subseteq In(h) \cup In(lines) /\ Len(k) <= c.HistoryLimit
        /\ Len(h \o lines) <= c.HistoryLimit => k = h \o lines
        /\ \A J : OnceBut(h \o lines, J) => OnceBut(k, J)
    BY <1>3, <1>4, KeptEnd
  <1>6. new = [snap EXCEPT !.history = k]
    BY <1>2, <1>4, SnapIs DEF SessionsOf!With
  <1>7. new \in SnapsOf(c) /\ new.history = k /\ new.summary = snap.summary
    <2> HIDE DEF new
    <2>1. PICK L : L = Seq(LinesOf(c))
      OBVIOUS
    <2>2. snap \in [history : L, summary : SUBSET LinesOf(c), tools : BOOLEAN] /\ k \in L
      BY <2>1, SnapIs
    <2>3. new \in [history : L, summary : SUBSET LinesOf(c), tools : BOOLEAN] /\ new.history = k /\ new.summary = snap.summary
      BY <1>6, <2>2
    <2>4. QED BY <2>1, <2>3, SnapIs
  <1>8. file' = [snap |-> new, torn |-> FALSE]
    BY DEF SessionsOf!Save, SessionsOf!Saved
  <1> DEFINE G == SessionsOf(c)!Gone(w, snap, lines)
  <1>9. fate' = [i \in LinesOf(c) |-> IF i \in G THEN "gone" ELSE IF i \in In(lines) THEN "kept" ELSE fate[i]]
    BY HistoryRangeIs DEF SessionsOf!Save, SessionsOf!Line, LinesOf
  <1>10. G = (ShownTo(w) \ In(h)) \cup ((In(h) \cup In(lines)) \ In(k))
    <2>1. SessionsOf(c)!Shown(w) = ShownTo(w)
      BY HistoryRangeIs DEF SessionsOf!Shown, ShownTo
    <2>2. QED BY <1>2, <1>3, <1>7, <2>1, HistoryRangeIs DEF SessionsOf!Gone
  <1> HIDE DEF new, G
  <1>11. file' \in [snap : SnapsOf(c), torn : BOOLEAN] /\ file'.snap = new
    BY <1>7, <1>8
  <1>12. /\ fate' \in [LinesOf(c) -> {"new", "kept", "gone", "purged"}]
         /\ \A i \in LinesOf(c) : fate'[i] = IF i \in G THEN "gone" ELSE IF i \in In(lines) THEN "kept" ELSE fate[i]
    BY <1>9 DEF HistoryTypes
  <1>13. Saved(c, w, snap, lines, G)
    <2>1. \A i \in In(snap.history) \cup In(lines) : i \in In(file'.snap.history) \/ i \in G
      BY <1>2, <1>7, <1>10, <1>11
    <2>2. \A i \in G : i \in In(snap.history) \/ i \in In(lines) \/ i \in ShownTo(w)
      BY <1>2, <1>10
    <2>3. \A i \in ShownTo(w) : i \in In(snap.history) \/ i \in G
      BY <1>2, <1>10
    <2>4. QED BY <1>2, <1>5, <1>7, <1>11, <1>12, <2>1, <2>2, <2>3 DEF Saved
  <1>14. ASSUME lines = <<>>, Len(snap.history) <= c.HistoryLimit PROVE file'.snap = snap
    <2>1. h \o lines = h
      BY <1>14
    <2>2. k = snap.history
      BY <1>2, <1>5, <1>14, <2>1
    <2>3. PICK L : L = Seq(LinesOf(c))
      OBVIOUS
    <2>4. snap \in [history : L, summary : SUBSET LinesOf(c), tools : BOOLEAN]
      BY <2>3, SnapIs
    <2>5. QED BY <1>6, <1>11, <2>2, <2>4
  <1>15. QED BY <1>13, <1>14

\* A snapshot that holds what is in the file, or what is taken out of it.
StillHolds(w, snap) ==
  /\ Told(snap) \subseteq Told(file.snap)
  /\ \A i \in Told(file.snap) : i \in Told(snap) \/ i \in ShownTo(w)
  /\ In(snap.history) \cap snap.summary \subseteq joined /\ OnceBut(snap.history, joined)
  /\ ShownTo(w) \subseteq Told(file.snap)

LEMMA SavedKeeps ==
  ASSUME NEW c, Chatting(c), HistoryTypes(c), HistorySound(c), NEW w, NEW snap \in SnapsOf(c), NEW lines \in Seq(LinesOf(c)),
         NEW G, Saved(c, w, snap, lines, G), StillHolds(w, snap), OnceBut(lines, joined),
         \A i \in In(lines) : fate[i] = "new" \/ i \in joined, joined' = joined
  PROVE  /\ HistorySound(c)'
         /\ \A i \in LinesOf(c) : fate[i] = "new" /\ i \notin In(lines) => fate'[i] = "new"
  <1>1. /\ \A i \in LinesOf(c) : fate[i] = "kept" => i \in Told(file.snap)
        /\ \A i \in Told(file.snap) : fate[i] \notin {"new", "purged"}
        /\ In(file.snap.history) \cap file.snap.summary \subseteq joined /\ OnceBut(file.snap.history, joined)
    BY DEF HistorySound
  <1>2. file.snap \in SnapsOf(c) /\ file'.snap \in SnapsOf(c)
    BY DEF HistoryTypes, Saved
  <1>3. Told(snap) \subseteq LinesOf(c) /\ Told(file.snap) \subseteq LinesOf(c) /\ Told(file'.snap) \subseteq LinesOf(c)
    <2>1. ASSUME NEW s \in SnapsOf(c) PROVE Told(s) \subseteq LinesOf(c)
      <3>1. PICK q \in Seq(LinesOf(c)) : q = s.history
        BY SnapIs
      <3>2. In(q) \in SUBSET LinesOf(c) /\ s.summary \in SUBSET LinesOf(c)
        BY InOf, SnapIs
      <3>3. QED BY <3>1, <3>2 DEF Told
    <2>2. QED BY <1>2, <2>1
  <1>4. In(lines) \subseteq LinesOf(c)
    BY InOf
  <1>5. \A i \in In(lines) : i \in Told(snap) => i \in joined
    BY <1>1 DEF StillHolds
  <1>6. OnceBut(file'.snap.history, joined)
    <2>1. PICK h \in Seq(LinesOf(c)) : h = snap.history
      BY SnapIs
    <2>2. In(h) \cap In(lines) \subseteq joined
      BY <1>5, <2>1 DEF Told
    <2>3. OnceBut(h \o lines, joined)
      BY <2>1, <2>2, JoinedQueues DEF StillHolds
    <2>4. QED BY <2>1, <2>3 DEF Saved
  <1>7. In(file'.snap.history) \cap file'.snap.summary \subseteq joined
    <2>1. SUFFICES ASSUME NEW i \in In(file'.snap.history), i \in file'.snap.summary PROVE i \in joined
      OBVIOUS
    <2>2. i \in snap.summary /\ (i \in In(snap.history) \/ i \in In(lines))
      BY <2>1 DEF Saved
    <2>3. QED BY <1>5, <2>2 DEF StillHolds, Told
  <1>8. ASSUME NEW i \in LinesOf(c), fate'[i] = "kept" PROVE i \in Told(file'.snap)
    <2>1. i \notin G /\ (i \in In(lines) \/ fate[i] = "kept")
      BY <1>8 DEF Saved
    <2>2. i \in In(snap.history) \cup In(lines) => i \in In(file'.snap.history)
      BY <2>1 DEF Saved
    <2>3. CASE i \in In(lines)
      BY <2>2, <2>3 DEF Told
    <2>4. CASE fate[i] = "kept"
      <3>1. i \in Told(snap) \/ i \in ShownTo(w)
        BY <1>1, <2>4 DEF StillHolds
      <3>2. i \in ShownTo(w) => i \in In(snap.history)
        BY <2>1 DEF Saved
      <3>3. snap.summary = file'.snap.summary
        BY DEF Saved
      <3>4. QED BY <2>2, <3>1, <3>2, <3>3 DEF Told
    <2>5. QED BY <2>1, <2>3, <2>4
  <1>9. ASSUME NEW i \in Told(file'.snap) PROVE fate'[i] \notin {"new", "purged"}
    <2>1. i \in LinesOf(c) /\ (i \in Told(snap) \/ i \in In(lines))
      BY <1>3, <1>9 DEF Saved, Told
    <2>2. fate'[i] = IF i \in G THEN "gone" ELSE IF i \in In(lines) THEN "kept" ELSE fate[i]
      BY <2>1 DEF Saved
    <2>3. i \in Told(snap) => fate[i] \notin {"new", "purged"}
      BY <1>1 DEF StillHolds
    <2>4. QED BY <2>1, <2>2, <2>3
  <1>10. HistorySound(c)'
    BY <1>6, <1>7, <1>8, <1>9 DEF HistorySound, Saved, Told
  <1>11. ASSUME NEW i \in LinesOf(c), fate[i] = "new", i \notin In(lines) PROVE fate'[i] = "new"
    <2>1. i \notin Told(file.snap)
      BY <1>1, <1>11
    <2>2. i \notin In(snap.history) /\ i \notin ShownTo(w)
      BY <2>1 DEF StillHolds, Told
    <2>3. i \notin G
      BY <1>11, <2>2 DEF Saved
    <2>4. QED BY <1>11, <2>3 DEF Saved
  <1>12. QED BY <1>10, <1>11

-----------------------------------------------------------------------------
(* Steps that save nothing *)

LEMMA OneMore ==
  ASSUME NEW K, NEW s \in Seq(K), NEW y \in K
  PROVE  /\ Append(s, y) \in Seq(K) /\ In(Append(s, y)) = In(s) \cup {y}
         /\ \A J : OnceBut(s, J) /\ (y \in In(s) => y \in J) => OnceBut(Append(s, y), J)
  <1>1. /\ Append(s, y) \in Seq(K) /\ Append(s, y)[Len(s) + 1] = y /\ DOMAIN Append(s, y) = 1..(Len(s) + 1)
        /\ DOMAIN s = 1..Len(s) /\ Len(s) \in Nat /\ \A j \in 1..Len(s) : Append(s, y)[j] = s[j]
    OBVIOUS
  <1>2. In(Append(s, y)) = In(s) \cup {y}
    BY <1>1 DEF In
  <1>3. ASSUME NEW J, OnceBut(s, J), y \in In(s) => y \in J PROVE OnceBut(Append(s, y), J)
    BY <1>1, <1>3 DEF OnceBut, In
  <1>4. QED BY <1>1, <1>2, <1>3

\* The newest of a queue is in it.
LEMMA NewestIn ==
  ASSUME NEW c, NEW s \in Seq(LinesOf(c)), s # <<>>
  PROVE  SessionsOf(c)!Newest(s) \in In(s)
  <1>1. Len(s) \in DOMAIN s
    BY LenProperties, EmptySeq
  <1>2. QED BY <1>1 DEF SessionsOf!Newest, In

LEMMA EmptyIs ==
  ASSUME NEW c, Chatting(c)
  PROVE  /\ SessionsOf(c)!Empty \in SnapsOf(c) /\ SessionsOf(c)!Empty.history = <<>> /\ SessionsOf(c)!Empty.summary = {}
         /\ \A A : "idle" \in A => SessionsOf(c)!Idle \in JobsOf(A, c)
         /\ SessionsOf(c)!Idle.at = "idle"
         /\ SessionsOf(c)!IdleArchiver \in FoldsOf(c) /\ SessionsOf(c)!IdleArchiver.at = "idle"
  <1>1. /\ SessionsOf(c)!Empty \in SnapsOf(c) /\ SessionsOf(c)!Empty.history = <<>> /\ SessionsOf(c)!Empty.summary = {}
    <2>1. <<>> \in Seq(LinesOf(c)) /\ {} \in SUBSET LinesOf(c)
      OBVIOUS
    <2>2. QED BY <2>1, SnapIs DEF SessionsOf!Empty
  <1>2. 0 \in 0..c.Lines
    BY DEF Chatting
  <1>3. SessionsOf(c)!Idle.at = "idle" /\ \A A : "idle" \in A => SessionsOf(c)!Idle \in JobsOf(A, c)
    BY <1>1, <1>2 DEF SessionsOf!Idle, JobsOf
  <1>4. SessionsOf(c)!IdleArchiver \in FoldsOf(c) /\ SessionsOf(c)!IdleArchiver.at = "idle"
    <2>1. <<>> \in Seq(LinesOf(c)) /\ {} \in SUBSET LinesOf(c)
      OBVIOUS
    <2>2. QED BY <1>1, <2>1 DEF SessionsOf!IdleArchiver, FoldPhases, FoldsOf
  <1>5. QED BY <1>1, <1>3, <1>4

\* A job that goes on, as it is or with another copy.
LEMMA JobMoves ==
  ASSUME NEW c, NEW A, NEW x \in JobsOf(A, c), NEW a \in A, a # "storing"
  PROVE  /\ [x EXCEPT !.at = a] \in JobsOf(A, c) /\ [x EXCEPT !.at = a].at = a /\ [x EXCEPT !.at = a].copy = x.copy
         /\ [x EXCEPT !.at = a].line = x.line
  BY DEF JobsOf

\* The archiver goes on.
Summing(x, a, u) == [x EXCEPT !.at = a, !.summary = u]
Reading(x, a, b) == [x EXCEPT !.at = a, !.batch = b]
Taking(x, a, s) == [x EXCEPT !.at = a, !.copy = s]

LEMMA JobTakes ==
  ASSUME NEW c, NEW A, NEW x \in JobsOf(A, c), NEW a \in A, a # "storing", NEW s \in SnapsOf(c)
  PROVE  /\ Taking(x, a, s) \in JobsOf(A, c) /\ Taking(x, a, s).at = a
         /\ Taking(x, a, s).copy = s
  BY DEF JobsOf, Taking

LEMMA FoldSums ==
  ASSUME NEW c, NEW x \in FoldsOf(c), NEW a \in FoldPhases, NEW u \in SUBSET LinesOf(c)
  PROVE  /\ Summing(x, a, u) \in FoldsOf(c) /\ Summing(x, a, u).at = a
         /\ Summing(x, a, u).summary = u /\ Summing(x, a, u).batch = x.batch
  <1>1. PICK Q : Q = Seq(LinesOf(c))
    OBVIOUS
  <1>2. PICK U : U = SUBSET LinesOf(c)
    OBVIOUS
  <1>3. PICK S : S = SnapsOf(c)
    OBVIOUS
  <1>4. x \in [at : FoldPhases, copy : S, batch : Q, summary : U] /\ u \in U
    BY <1>1, <1>2, <1>3 DEF FoldsOf
  <1>5. FoldsOf(c) = [at : FoldPhases, copy : S, batch : Q, summary : U]
    BY <1>1, <1>2, <1>3 DEF FoldsOf
  <1>6. QED BY <1>4, <1>5 DEF Summing

LEMMA FoldReads ==
  ASSUME NEW c, NEW x \in FoldsOf(c), NEW a \in FoldPhases, NEW b \in Seq(LinesOf(c))
  PROVE  /\ Reading(x, a, b) \in FoldsOf(c) /\ Reading(x, a, b).at = a
         /\ Reading(x, a, b).summary = x.summary
  <1>1. PICK Q : Q = Seq(LinesOf(c))
    OBVIOUS
  <1>2. PICK U : U = SUBSET LinesOf(c)
    OBVIOUS
  <1>3. PICK S : S = SnapsOf(c)
    OBVIOUS
  <1>4. x \in [at : FoldPhases, copy : S, batch : Q, summary : U] /\ b \in Q
    BY <1>1, <1>2, <1>3 DEF FoldsOf
  <1>5. FoldsOf(c) = [at : FoldPhases, copy : S, batch : Q, summary : U]
    BY <1>1, <1>2, <1>3 DEF FoldsOf
  <1>6. QED BY <1>4, <1>5 DEF Reading

LEMMA FoldTakes ==
  ASSUME NEW c, NEW x \in FoldsOf(c), NEW a \in FoldPhases, NEW s \in SnapsOf(c)
  PROVE  /\ Taking(x, a, s) \in FoldsOf(c) /\ Taking(x, a, s).at = a
         /\ Taking(x, a, s).copy = s /\ Taking(x, a, s).summary = x.summary
         /\ Taking(x, a, s).batch = x.batch
  <1>1. PICK Q : Q = Seq(LinesOf(c))
    OBVIOUS
  <1>2. PICK U : U = SUBSET LinesOf(c)
    OBVIOUS
  <1>3. PICK S : S = SnapsOf(c)
    OBVIOUS
  <1>4. x \in [at : FoldPhases, copy : S, batch : Q, summary : U] /\ s \in S
    BY <1>1, <1>2, <1>3 DEF FoldsOf
  <1>5. FoldsOf(c) = [at : FoldPhases, copy : S, batch : Q, summary : U]
    BY <1>1, <1>2, <1>3 DEF FoldsOf
  <1>6. QED BY <1>4, <1>5 DEF Taking

\* The types, a part at a time.
Typed(c, f, m, h, l, a, t, p, r, o, n, e, j) ==
  /\ f \in [snap : SnapsOf(c), torn : BOOLEAN] /\ m \in Seq(LinesOf(c)) /\ h \in 0..c.Lines
  /\ l \in {"none", "reply", "late", "archive"} /\ a \in JobsOf(AnswerPhases, c)
  /\ t \in JobsOf(Sendings, c) /\ p \in JobsOf(Sendings, c)
  /\ r \in FoldsOf(c) /\ o \in JobsOf({"idle", "editing"}, c)
  /\ n \in 0..c.Lines /\ e \in [LinesOf(c) -> {"new", "kept", "gone", "purged"}] /\ j \in SUBSET LinesOf(c)

LEMMA TypedIs ==
  ASSUME NEW c
  PROVE  /\ HistoryTypes(c) <=> Typed(c, file, ambient, chosen, lock, answer, late, picture, archiver, console, said, fate, joined)
         /\ HistoryTypes(c)' <=> Typed(c, file', ambient', chosen', lock', answer', late', picture', archiver', console', said', fate', joined')
  BY DEF HistoryTypes, Typed

LEMMA OnceButMore ==
  ASSUME NEW s, NEW J, NEW JJ, OnceBut(s, J), J \subseteq JJ PROVE OnceBut(s, JJ)
  BY DEF OnceBut

\* Nothing is saved.
LEMMA NothingSaved ==
  ASSUME NEW c, HistoryInv(c), SessionsOf(c)!NoSave, joined \subseteq joined', HistoryTypes(c)', LockAgrees',
         ~clash => CopiesAgree' /\ LinesFresh(c)'
  PROVE  HistoryInv(c)'
  <1>1. file' = file /\ fate' = fate /\ clash' = clash
    BY DEF SessionsOf!NoSave
  <1>2. ASSUME ~clash PROVE HistorySound(c)'
    <2>1. HistorySound(c)
      BY <1>2 DEF HistoryInv
    <2>2. OnceBut(file.snap.history, joined')
      BY <2>1, OnceButMore DEF HistorySound
    <2>3. QED BY <1>1, <2>1, <2>2 DEF HistorySound
  <1>3. QED BY <1>1, <1>2 DEF HistoryInv

\* A job that does not load a line anew.
Stays(x, y) == y = x \/ y.at # "storing"

\* Nothing new is heard or loaded.
LEMMA LinesStayFresh ==
  ASSUME NEW c, LinesFresh(c), fate' = fate, said' = said, ambient' = ambient, chosen' = chosen, joined' = joined,
         Stays(answer, answer'), Stays(late, late'), Stays(picture, picture')
  PROVE  LinesFresh(c)'
  <1>1. Fresh(answer)' /\ Fresh(late)' /\ Fresh(picture)'
    BY DEF LinesFresh, Fresh, Stays
  <1>2. QED BY <1>1 DEF LinesFresh, Stays

\* The next line is new to everybody.
LEMMA NextLine ==
  ASSUME NEW c, Chatting(c), HistoryTypes(c), LinesFresh(c), said < c.Lines
  PROVE  /\ said \in Nat /\ chosen \in Nat /\ said + 1 \in LinesOf(c) /\ fate[said + 1] = "new" /\ said + 1 \notin In(ambient)
         /\ chosen <= said /\ \A i \in In(ambient) : i \in Nat /\ i <= said
  <1>1. said \in Nat /\ chosen \in Nat /\ c.Lines \in Nat
    BY DEF HistoryTypes, Chatting
  <1>2. PICK y \in LinesOf(c) : y = said + 1
    BY <1>1 DEF LinesOf
  <1>3. \A i \in In(ambient) : i \in Nat /\ i <= said
    <2>1. In(ambient) \in SUBSET LinesOf(c)
      BY InOf DEF HistoryTypes
    <2>2. \A i \in In(ambient) : i \in Nat
      BY <2>1 DEF LinesOf
    <2>3. QED BY <2>2 DEF LinesFresh
  <1>4. y > said
    BY <1>1, <1>2
  <1>5. fate[y] = "new" /\ y \notin In(ambient)
    BY <1>1, <1>2, <1>3, <1>4 DEF LinesFresh
  <1>6. QED BY <1>1, <1>2, <1>3, <1>5 DEF LinesFresh

\* A line is heard.
LEMMA LineHeard ==
  ASSUME NEW c, Chatting(c), HistoryTypes(c), LinesFresh(c), fate' = fate, said < c.Lines, said' = said + 1,
         ambient' = Append(ambient, said + 1), chosen' = chosen, joined' = joined,
         Stays(answer, answer'), Stays(late, late'), Stays(picture, picture')
  PROVE  LinesFresh(c)'
  <1>1. PICK y : y = said + 1
    OBVIOUS
  <1>2. /\ said \in Nat /\ chosen \in Nat /\ y \in LinesOf(c) /\ fate[y] = "new" /\ y \notin In(ambient) /\ chosen <= said
        /\ \A i \in In(ambient) : i \in Nat /\ i <= said
    BY <1>1, NextLine
  <1>3. /\ In(ambient') = In(ambient) \cup {y}
        /\ \A J : OnceBut(ambient, J) /\ (y \in In(ambient) => y \in J) => OnceBut(ambient', J)
    BY <1>1, <1>2, OneMore DEF HistoryTypes
  <1>4. \A i \in LinesOf(c) : i > said' => fate'[i] = "new"
    BY <1>2 DEF LinesFresh, LinesOf
  <1>5. \A i \in In(ambient') : i <= said' /\ (fate'[i] = "new" \/ i \in joined')
    BY <1>1, <1>2, <1>3 DEF LinesFresh
  <1>6. OnceBut(ambient', joined') /\ chosen' <= said'
    BY <1>2, <1>3 DEF LinesFresh
  <1>7. Fresh(answer)' /\ Fresh(late)' /\ Fresh(picture)'
    <2>1. \A i \in 1..said : i \in 1..(said + 1) /\ i # y
      BY <1>1, <1>2
    <2>2. QED BY <1>3, <2>1 DEF LinesFresh, Fresh, Stays
  <1>8. QED BY <1>4, <1>5, <1>6, <1>7 DEF LinesFresh, Stays

\* A line is loaded with the session by one of the three.
Loaded(y, snap, n) == y = [at |-> "storing", copy |-> snap, line |-> n]

LEMMA LineLoaded ==
  ASSUME NEW c, Chatting(c), HistoryTypes(c), LinesFresh(c), fate' = fate, said < c.Lines, said' = said + 1,
         ambient' = ambient, chosen' = chosen, joined' = joined,
         \/ Loaded(answer', file.snap, said + 1) /\ late' = late /\ picture' = picture
         \/ answer' = answer /\ Loaded(late', file.snap, said + 1) /\ picture' = picture
         \/ answer' = answer /\ late' = late /\ Loaded(picture', file.snap, said + 1)
  PROVE  LinesFresh(c)'
  <1>1. PICK y : y = said + 1
    OBVIOUS
  <1>2. /\ said \in Nat /\ chosen \in Nat /\ y \in LinesOf(c) /\ fate[y] = "new" /\ y \notin In(ambient) /\ chosen <= said
        /\ \A i \in In(ambient) : i \in Nat /\ i <= said
    BY <1>1, NextLine
  <1>3. y \in 1..said' /\ y # chosen /\ \A i \in 1..said : i \in 1..said' /\ i # y
    BY <1>1, <1>2
  <1>4. \A i \in LinesOf(c) : i > said' => fate'[i] = "new"
    BY <1>2 DEF LinesFresh, LinesOf
  <1>5. \A i \in In(ambient') : i <= said' /\ (fate'[i] = "new" \/ i \in joined')
    BY <1>2 DEF LinesFresh
  <1>6. OnceBut(ambient', joined') /\ chosen' <= said'
    BY <1>2 DEF LinesFresh
  <1>7. ASSUME NEW x, Fresh(x)
        PROVE /\ x.at = "storing" => x.line \in 1..said' /\ fate'[x.line] = "new" /\ x.line \notin In(ambient') /\ x.line # chosen'
              /\ x.at = "storing" => x.line # y
    BY <1>3, <1>7 DEF Fresh
  <1>8. Fresh(answer) /\ Fresh(late) /\ Fresh(picture)
    BY DEF LinesFresh
  <1>9. CASE Loaded(answer', file.snap, said + 1) /\ late' = late /\ picture' = picture
    <2>1. answer'.line = y
      BY <1>1, <1>9 DEF Loaded
    <2>2. Fresh(answer)' /\ Fresh(late)' /\ Fresh(picture)'
      BY <1>2, <1>3, <1>7, <1>8, <1>9, <2>1 DEF Fresh
    <2>3. picture'.at = "storing" => answer'.line # picture'.line
      BY <1>7, <1>8, <1>9, <2>1
    <2>4. QED BY <1>4, <1>5, <1>6, <1>9, <2>2, <2>3 DEF LinesFresh
  <1>10. CASE answer' = answer /\ Loaded(late', file.snap, said + 1) /\ picture' = picture
    <2>1. late'.line = y
      BY <1>1, <1>10 DEF Loaded
    <2>2. Fresh(answer)' /\ Fresh(late)' /\ Fresh(picture)'
      BY <1>2, <1>3, <1>7, <1>8, <1>10, <2>1 DEF Fresh
    <2>3. picture'.at = "storing" => late'.line # picture'.line
      BY <1>7, <1>8, <1>10, <2>1
    <2>4. QED BY <1>4, <1>5, <1>6, <1>10, <2>2, <2>3 DEF LinesFresh
  <1>11. CASE answer' = answer /\ late' = late /\ Loaded(picture', file.snap, said + 1)
    <2>1. picture'.line = y
      BY <1>1, <1>11 DEF Loaded
    <2>2. Fresh(answer)' /\ Fresh(late)' /\ Fresh(picture)'
      BY <1>2, <1>3, <1>7, <1>8, <1>11, <2>1 DEF Fresh
    <2>3. /\ answer'.at = "storing" => answer'.line # picture'.line
          /\ late'.at = "storing" => late'.line # picture'.line
      BY <1>7, <1>8, <1>11, <2>1
    <2>4. QED BY <1>4, <1>5, <1>6, <2>2, <2>3 DEF LinesFresh
  <1>12. QED BY <1>9, <1>10, <1>11

LEMMA HearKeeps ==
  ASSUME NEW c, Chatting(c), HistoryInv(c), SessionsOf(c)!Hear PROVE HistoryInv(c)'
  <1>1. HistoryTypes(c) /\ LockAgrees /\ Typed(c, file, ambient, chosen, lock, answer, late, picture, archiver, console, said, fate, joined)
    BY TypedIs DEF HistoryInv
  <1>2. /\ SessionsOf(c)!NoSave /\ file' = file /\ fate' = fate /\ clash' = clash /\ chosen' = chosen /\ lock' = lock /\ answer' = answer
        /\ late' = late /\ picture' = picture /\ archiver' = archiver /\ console' = console /\ joined' = joined
        /\ said < c.Lines /\ said' = said + 1 /\ ambient' = Append(ambient, said + 1)
    BY DEF SessionsOf!Hear, SessionsOf!NoSave, SessionsOf!work
  <1>3. said' \in 0..c.Lines /\ ambient' \in Seq(LinesOf(c))
    <2>1. said + 1 \in LinesOf(c) /\ said + 1 \in 0..c.Lines
      BY <1>1, <1>2 DEF Typed, LinesOf, Chatting
    <2>2. QED BY <1>1, <1>2, <2>1, OneMore DEF Typed
  <1>4. HistoryTypes(c)'
    BY <1>1, <1>2, <1>3, TypedIs DEF Typed
  <1>5. LockAgrees'
    BY <1>1, <1>2 DEF LockAgrees
  <1>6. ~clash => CopiesAgree' /\ LinesFresh(c)'
    BY <1>1, <1>2, LineHeard DEF HistoryInv, CopiesAgree, Stays
  <1>7. joined \subseteq joined'
    BY <1>2
  <1>8. QED BY <1>2, <1>4, <1>5, <1>6, <1>7, NothingSaved

\* A step that says nothing.
LEMMA AsideKeeps ==
  ASSUME NEW c, HistoryInv(c), SessionsOf(c)!NoSave, said' = said, ambient' = ambient, chosen' = chosen, joined' = joined,
         lock' \in {"none", "reply", "late", "archive"}, answer' \in JobsOf(AnswerPhases, c),
         late' \in JobsOf(Sendings, c), picture' \in JobsOf(Sendings, c),
         archiver' \in FoldsOf(c), console' \in JobsOf({"idle", "editing"}, c),
         Stays(answer, answer'), Stays(late, late'), Stays(picture, picture'), LockAgrees', ~clash => CopiesAgree'
  PROVE  HistoryInv(c)'
  <1>1. fate' = fate /\ file' = file
    BY DEF SessionsOf!NoSave
  <1>2. HistoryTypes(c)'
    <2>1. Typed(c, file, ambient, chosen, lock, answer, late, picture, archiver, console, said, fate, joined)
      BY TypedIs DEF HistoryInv
    <2>2. Typed(c, file', ambient', chosen', lock', answer', late', picture', archiver', console', said', fate', joined')
      BY <1>1, <2>1 DEF Typed
    <2>3. QED BY <2>2, TypedIs
  <1>3. ~clash => LinesFresh(c)'
    BY <1>1, LinesStayFresh DEF HistoryInv
  <1>4. joined \subseteq joined'
    OBVIOUS
  <1>5. QED BY <1>2, <1>3, <1>4, NothingSaved

LEMMA TheJobs ==
  ASSUME NEW c, HistoryInv(c)
  PROVE  /\ file.snap \in SnapsOf(c) /\ lock \in {"none", "reply", "late", "archive"} /\ answer \in JobsOf(AnswerPhases, c)
         /\ late \in JobsOf(Sendings, c) /\ picture \in JobsOf(Sendings, c)
         /\ archiver \in FoldsOf(c) /\ console \in JobsOf({"idle", "editing"}, c) /\ LockAgrees /\ (~clash => CopiesAgree)
  BY TypedIs DEF HistoryInv, Typed

\* A reply moves on without a save.
LEMMA SilentKeeps ==
  ASSUME NEW c, Chatting(c), HistoryInv(c), SessionsOf(c)!Silent PROVE HistoryInv(c)'
  <1>1. /\ SessionsOf(c)!NoSave /\ file' = file /\ fate' = fate /\ clash' = clash /\ chosen' = chosen /\ said' = said /\ ambient' = ambient
        /\ late' = late /\ picture' = picture /\ archiver' = archiver /\ console' = console /\ joined' = joined
        /\ answer.at # "idle" /\ answer' = SessionsOf(c)!Idle /\ lock' = "none"
    BY DEF SessionsOf!Silent, SessionsOf!NoSave, SessionsOf!EndReply
  <1>2. answer' \in JobsOf(AnswerPhases, c) /\ answer'.at = "idle"
    BY <1>1, EmptyIs DEF AnswerPhases
  <1>3. LockAgrees' /\ (~clash => CopiesAgree')
    BY <1>1, <1>2, TheJobs DEF LockAgrees, CopiesAgree
  <1>4. Stays(answer, answer') /\ Stays(late, late') /\ Stays(picture, picture')
    BY <1>1, <1>2 DEF Stays
  <1>5. QED BY <1>1, <1>2, <1>3, <1>4, TheJobs, AsideKeeps

\* A reply is about to be sent.
LEMMA SendingIs ==
  ASSUME NEW c, Chatting(c)
  PROVE  [SessionsOf(c)!Idle EXCEPT !.at = "sending"] \in JobsOf(AnswerPhases, c) /\ [SessionsOf(c)!Idle EXCEPT !.at = "sending"].at = "sending"
  <1>1. SessionsOf(c)!Idle \in JobsOf(AnswerPhases, c) /\ "sending" \in AnswerPhases
    BY EmptyIs DEF AnswerPhases
  <1>2. QED BY <1>1, JobMoves

LEMMA WaitingIs ==
  ASSUME NEW c, Chatting(c)
  PROVE  /\ [SessionsOf(c)!Idle EXCEPT !.at = "waiting"] \in JobsOf(Sendings, c)
         /\ [SessionsOf(c)!Idle EXCEPT !.at = "waiting"].at = "waiting"
  <1>1. SessionsOf(c)!Idle \in JobsOf(Sendings, c) /\ "waiting" \in Sendings
    BY EmptyIs DEF Sendings
  <1>2. QED BY <1>1, JobMoves

LEMMA QuietlyWritten ==
  ASSUME NEW c, Chatting(c), HistoryInv(c), SessionsOf(c)!Written, SessionsOf(c)!NoSave PROVE HistoryInv(c)'
  <1>1. /\ chosen' = chosen /\ said' = said /\ ambient' = ambient /\ file' = file /\ fate' = fate /\ clash' = clash
        /\ late' = late /\ picture' = picture /\ archiver' = archiver /\ console' = console /\ joined' = joined
        /\ answer.at = "writing" /\ answer' = [SessionsOf(c)!Idle EXCEPT !.at = "sending"] /\ lock' = lock
    BY DEF SessionsOf!Written, SessionsOf!NoSave
  <1>2. answer' \in JobsOf(AnswerPhases, c) /\ answer'.at = "sending"
    BY <1>1, SendingIs
  <1>3. LockAgrees' /\ (~clash => CopiesAgree')
    BY <1>1, <1>2, TheJobs DEF LockAgrees, CopiesAgree
  <1>4. Stays(answer, answer') /\ Stays(late, late') /\ Stays(picture, picture')
    BY <1>1, <1>2 DEF Stays
  <1>5. QED BY <1>1, <1>2, <1>3, <1>4, TheJobs, AsideKeeps

LEMMA AskPictureKeeps ==
  ASSUME NEW c, Chatting(c), HistoryInv(c), SessionsOf(c)!AskPicture PROVE HistoryInv(c)'
  <1>1. /\ SessionsOf(c)!NoSave /\ file' = file /\ fate' = fate /\ clash' = clash
        /\ chosen' = chosen /\ said' = said /\ ambient' = ambient
        /\ late' = late /\ picture' = [SessionsOf(c)!Idle EXCEPT !.at = "waiting"] /\ archiver' = archiver
        /\ console' = console /\ joined' = joined
        /\ answer.at = "writing" /\ answer' = [SessionsOf(c)!Idle EXCEPT !.at = "sending"] /\ lock' = lock
    BY DEF SessionsOf!AskPicture, SessionsOf!NoSave
  <1>2. answer' \in JobsOf(AnswerPhases, c) /\ answer'.at = "sending"
    BY <1>1, SendingIs
  <1>3. picture' \in JobsOf(Sendings, c) /\ picture'.at = "waiting"
    BY <1>1, WaitingIs
  <1>4. LockAgrees' /\ (~clash => CopiesAgree')
    BY <1>1, <1>2, <1>3, TheJobs DEF LockAgrees, CopiesAgree
  <1>5. Stays(answer, answer') /\ Stays(late, late') /\ Stays(picture, picture')
    BY <1>1, <1>2, <1>3 DEF Stays
  <1>6. QED BY <1>1, <1>2, <1>3, <1>4, <1>5, TheJobs, AsideKeeps

LEMMA DeferKeeps ==
  ASSUME NEW c, Chatting(c), HistoryInv(c), SessionsOf(c)!Defer PROVE HistoryInv(c)'
  <1>1. /\ SessionsOf(c)!NoSave /\ file' = file /\ fate' = fate /\ clash' = clash
        /\ chosen' = chosen /\ said' = said /\ ambient' = ambient
        /\ late' = [SessionsOf(c)!Idle EXCEPT !.at = "waiting"] /\ picture' = picture /\ archiver' = archiver
        /\ console' = console /\ joined' = joined
        /\ answer.at = "sending" /\ answer' = SessionsOf(c)!Idle /\ lock' = "none"
    BY DEF SessionsOf!Defer, SessionsOf!NoSave, SessionsOf!EndReply
  <1>2. answer' \in JobsOf(AnswerPhases, c) /\ answer'.at = "idle"
    BY <1>1, EmptyIs DEF AnswerPhases
  <1>3. late' \in JobsOf(Sendings, c) /\ late'.at = "waiting"
    BY <1>1, WaitingIs
  <1>4. LockAgrees' /\ (~clash => CopiesAgree')
    BY <1>1, <1>2, <1>3, TheJobs DEF LockAgrees, CopiesAgree
  <1>5. Stays(answer, answer') /\ Stays(late, late') /\ Stays(picture, picture')
    BY <1>1, <1>2, <1>3 DEF Stays
  <1>6. QED BY <1>1, <1>2, <1>3, <1>4, <1>5, TheJobs, AsideKeeps

LEMMA LateFailsKeeps ==
  ASSUME NEW c, Chatting(c), HistoryInv(c), SessionsOf(c)!LateFails PROVE HistoryInv(c)'
  <1>1. /\ SessionsOf(c)!NoSave /\ file' = file /\ fate' = fate /\ clash' = clash
        /\ chosen' = chosen /\ said' = said /\ ambient' = ambient
        /\ late' = SessionsOf(c)!Idle /\ picture' = picture /\ archiver' = archiver
        /\ console' = console /\ joined' = joined /\ answer' = answer /\ lock' = lock
    BY DEF SessionsOf!LateFails, SessionsOf!NoSave
  <1>2. late' \in JobsOf(Sendings, c) /\ late'.at = "idle"
    BY <1>1, EmptyIs DEF Sendings
  <1>3. LockAgrees' /\ (~clash => CopiesAgree')
    BY <1>1, <1>2, TheJobs DEF LockAgrees, CopiesAgree
  <1>4. Stays(answer, answer') /\ Stays(late, late') /\ Stays(picture, picture')
    BY <1>1, <1>2 DEF Stays
  <1>5. QED BY <1>1, <1>2, <1>3, <1>4, TheJobs, AsideKeeps

LEMMA PictureFailsKeeps ==
  ASSUME NEW c, Chatting(c), HistoryInv(c), SessionsOf(c)!PictureFails PROVE HistoryInv(c)'
  <1>1. /\ SessionsOf(c)!NoSave /\ file' = file /\ fate' = fate /\ clash' = clash
        /\ chosen' = chosen /\ said' = said /\ ambient' = ambient
        /\ picture' = SessionsOf(c)!Idle /\ late' = late /\ archiver' = archiver
        /\ console' = console /\ joined' = joined /\ answer' = answer /\ lock' = lock
    BY DEF SessionsOf!PictureFails, SessionsOf!NoSave
  <1>2. picture' \in JobsOf(Sendings, c) /\ picture'.at = "idle"
    BY <1>1, EmptyIs DEF Sendings
  <1>3. LockAgrees' /\ (~clash => CopiesAgree')
    BY <1>1, <1>2, TheJobs DEF LockAgrees, CopiesAgree
  <1>4. Stays(answer, answer') /\ Stays(late, late') /\ Stays(picture, picture')
    BY <1>1, <1>2 DEF Stays
  <1>5. QED BY <1>1, <1>2, <1>3, <1>4, TheJobs, AsideKeeps

LEMMA OpenPageKeeps ==
  ASSUME NEW c, Chatting(c), HistoryInv(c), SessionsOf(c)!Open PROVE HistoryInv(c)'
  <1>1. /\ SessionsOf(c)!NoSave /\ file' = file /\ fate' = fate /\ clash' = clash
        /\ chosen' = chosen /\ said' = said /\ ambient' = ambient
        /\ picture' = picture /\ late' = late /\ archiver' = archiver
        /\ console' = [at |-> "editing", copy |-> file.snap, line |-> 0] /\ joined' = joined /\ answer' = answer /\ lock' = lock
    BY DEF SessionsOf!Open, SessionsOf!NoSave, SessionsOf!consoleRest
  <1>2. console' \in JobsOf({"idle", "editing"}, c) /\ console'.at = "editing" /\ console'.copy = file.snap
    <2>1. 0 \in 0..c.Lines
      BY DEF Chatting
    <2>2. QED BY <1>1, <2>1, TheJobs DEF JobsOf
  <1>3. LockAgrees' /\ (~clash => CopiesAgree')
    BY <1>1, <1>2, TheJobs DEF LockAgrees, CopiesAgree
  <1>4. Stays(answer, answer') /\ Stays(late, late') /\ Stays(picture, picture')
    BY <1>1 DEF Stays
  <1>5. QED BY <1>1, <1>2, <1>3, <1>4, TheJobs, AsideKeeps

\* The archiver moves on without a save.
LEMMA ArchiverMovesKeeps ==
  ASSUME NEW c, HistoryInv(c), SessionsOf(c)!NoSave, said' = said, ambient' = ambient, chosen' = chosen, joined' = joined,
         lock' \in {"none", "reply", "late", "archive"}, answer' = answer, late' = late, picture' = picture, console' = console,
         archiver' \in FoldsOf(c), lock' = lock \/ (answer.at = "idle" /\ late.at # "storing"),
         archiver'.at = "committing" => lock' = "archive" /\ archiver'.copy = file.snap,
         archiver'.at \in {"reading", "summing"} /\ ~clash => archiver'.summary = file.snap.summary,
         archiver'.at \in {"ready", "committing"} /\ ~clash => archiver'.summary = file.snap.summary \cup In(archiver'.batch)
  PROVE  HistoryInv(c)'
  <1>1. file' = file /\ fate' = fate /\ clash' = clash
    BY DEF SessionsOf!NoSave
  <1>2. LockAgrees'
    BY TheJobs DEF LockAgrees
  <1>3. ~clash => CopiesAgree'
    BY <1>1, TheJobs DEF CopiesAgree
  <1>4. Stays(answer, answer') /\ Stays(late, late') /\ Stays(picture, picture')
    BY DEF Stays
  <1>5. QED BY <1>2, <1>3, <1>4, TheJobs, AsideKeeps

LEMMA ReadSummaryKeeps ==
  ASSUME NEW c, Chatting(c), HistoryInv(c), SessionsOf(c)!ReadSummary PROVE HistoryInv(c)'
  <1>1. /\ SessionsOf(c)!NoSave /\ chosen' = chosen /\ said' = said /\ ambient' = ambient /\ picture' = picture /\ late' = late
        /\ console' = console /\ joined' = joined /\ answer' = answer /\ lock' = lock
        /\ \/ archiver' = Summing(archiver, "reading", file.snap.summary)
           \/ archiver' = SessionsOf(c)!IdleArchiver
    BY DEF SessionsOf!ReadSummary, SessionsOf!archiverRest, Summing
  <1>2. CASE archiver' = Summing(archiver, "reading", file.snap.summary)
    <2>1. file.snap.summary \in SUBSET LinesOf(c) /\ "reading" \in FoldPhases
      BY TheJobs, SnapIs DEF FoldPhases
    <2>3. archiver' \in FoldsOf(c) /\ archiver'.at = "reading" /\ archiver'.summary = file.snap.summary
      BY <1>2, <2>1, TheJobs, FoldSums
    <2>4. QED BY <1>1, <2>3, TheJobs, ArchiverMovesKeeps
  <1>3. CASE archiver' = SessionsOf(c)!IdleArchiver
    <2>1. archiver' \in FoldsOf(c) /\ archiver'.at = "idle"
      BY <1>3, EmptyIs
    <2>2. QED BY <1>1, <2>1, TheJobs, ArchiverMovesKeeps
  <1>4. QED BY <1>1, <1>2, <1>3

LEMMA ReadLinesKeeps ==
  ASSUME NEW c, Chatting(c), HistoryInv(c), SessionsOf(c)!ReadLines PROVE HistoryInv(c)'
  <1> DEFINE b == SubSeq(file.snap.history, 1, Len(file.snap.history) - c.Keep)
  <1>1. /\ SessionsOf(c)!NoSave /\ chosen' = chosen /\ said' = said /\ ambient' = ambient /\ picture' = picture /\ late' = late
        /\ console' = console /\ joined' = joined /\ answer' = answer /\ lock' = lock /\ archiver.at = "reading"
        /\ \/ Len(file.snap.history) - c.Keep >= c.Batch /\ archiver' = Reading(archiver, "summing", b)
           \/ archiver' = SessionsOf(c)!IdleArchiver
    BY DEF SessionsOf!ReadLines, SessionsOf!archiverRest, SessionsOf!Worthwhile, SessionsOf!Overflow, Reading
  <1>2. CASE Len(file.snap.history) - c.Keep >= c.Batch /\ archiver' = Reading(archiver, "summing", b)
    <2>1. PICK h \in Seq(LinesOf(c)) : h = file.snap.history
      BY TheJobs, SnapIs
    <2>2. Len(h) - c.Keep \in 0..Len(h)
      BY <1>2, <2>1, LenProperties DEF Chatting
    <2>3. b \in Seq(LinesOf(c))
      BY <2>1, <2>2, RestIs
    <2> HIDE DEF b
    <2>4. "summing" \in FoldPhases
      BY DEF FoldPhases
    <2>5. archiver' \in FoldsOf(c) /\ archiver'.at = "summing" /\ archiver'.summary = archiver.summary
      BY <1>2, <2>3, <2>4, TheJobs, FoldReads
    <2>6. ~clash => archiver'.summary = file.snap.summary
      BY <1>1, <2>5, TheJobs DEF CopiesAgree
    <2>7. QED BY <1>1, <2>5, <2>6, TheJobs, ArchiverMovesKeeps
  <1>3. CASE archiver' = SessionsOf(c)!IdleArchiver
    <2>1. archiver' \in FoldsOf(c) /\ archiver'.at = "idle"
      BY <1>3, EmptyIs
    <2>2. QED BY <1>1, <2>1, TheJobs, ArchiverMovesKeeps
  <1>4. QED BY <1>1, <1>2, <1>3

LEMMA SummedKeeps ==
  ASSUME NEW c, Chatting(c), HistoryInv(c), SessionsOf(c)!Summed PROVE HistoryInv(c)'
  <1> DEFINE u == archiver.summary \cup In(archiver.batch)
  <1>1. /\ SessionsOf(c)!NoSave /\ chosen' = chosen /\ said' = said /\ ambient' = ambient /\ picture' = picture /\ late' = late
        /\ console' = console /\ joined' = joined /\ answer' = answer /\ lock' = lock /\ archiver.at = "summing"
        /\ \/ archiver' = Summing(archiver, "ready", u)
           \/ archiver' = SessionsOf(c)!IdleArchiver
    BY HistoryRangeIs DEF SessionsOf!Summed, SessionsOf!archiverRest, Summing
  <1>2. CASE archiver' = Summing(archiver, "ready", u)
    <2>1. archiver.batch \in Seq(LinesOf(c)) /\ archiver.summary \in SUBSET LinesOf(c)
      BY TheJobs DEF FoldsOf
    <2>2. u \in SUBSET LinesOf(c) /\ "ready" \in FoldPhases
      <3>1. In(archiver.batch) \in SUBSET LinesOf(c)
        BY <2>1, InOf
      <3>2. QED BY <2>1, <3>1 DEF FoldPhases
    <2> HIDE DEF u
    <2>3. archiver' \in FoldsOf(c) /\ archiver'.at = "ready" /\ archiver'.summary = u /\ archiver'.batch = archiver.batch
      BY <1>2, <2>2, TheJobs, FoldSums
    <2>4. ~clash => archiver'.summary = file.snap.summary \cup In(archiver'.batch)
      BY <1>1, <2>3, TheJobs DEF CopiesAgree, u
    <2>5. QED BY <1>1, <2>3, <2>4, TheJobs, ArchiverMovesKeeps
  <1>3. CASE archiver' = SessionsOf(c)!IdleArchiver
    <2>1. archiver' \in FoldsOf(c) /\ archiver'.at = "idle"
      BY <1>3, EmptyIs
    <2>2. QED BY <1>1, <2>1, TheJobs, ArchiverMovesKeeps
  <1>4. QED BY <1>1, <1>2, <1>3

LEMMA RelockKeeps ==
  ASSUME NEW c, Chatting(c), HistoryInv(c), SessionsOf(c)!Relock PROVE HistoryInv(c)'
  <1>1. /\ SessionsOf(c)!NoSave /\ chosen' = chosen /\ said' = said /\ ambient' = ambient /\ picture' = picture /\ late' = late
        /\ console' = console /\ joined' = joined /\ answer' = answer /\ lock = "none" /\ lock' = "archive" /\ archiver.at = "ready"
        /\ archiver' = Taking(archiver, "committing", file.snap)
    BY DEF SessionsOf!Relock, SessionsOf!archiverRest, Taking
  <1>2. "committing" \in FoldPhases
    BY DEF FoldPhases
  <1>3. /\ archiver' \in FoldsOf(c) /\ archiver'.at = "committing" /\ archiver'.copy = file.snap
        /\ archiver'.summary = archiver.summary /\ archiver'.batch = archiver.batch
    BY <1>1, <1>2, TheJobs, FoldTakes
  <1>4. ~clash => archiver'.summary = file.snap.summary \cup In(archiver'.batch)
    BY <1>1, <1>3, TheJobs DEF CopiesAgree
  <1>5. answer.at = "idle" /\ late.at # "storing"
    BY <1>1, TheJobs DEF LockAgrees
  <1>6. QED BY <1>1, <1>3, <1>4, <1>5, TheJobs, ArchiverMovesKeeps

LEMMA QuietCommit ==
  ASSUME NEW c, Chatting(c), HistoryInv(c), SessionsOf(c)!Commit, SessionsOf(c)!NoSave PROVE HistoryInv(c)'
  <1>1. /\ chosen' = chosen /\ said' = said /\ ambient' = ambient /\ picture' = picture /\ late' = late
        /\ console' = console /\ joined' = joined /\ answer' = answer /\ lock' = "none" /\ archiver.at = "committing"
        /\ archiver' = SessionsOf(c)!IdleArchiver
    BY DEF SessionsOf!Commit, SessionsOf!archiverRest
  <1>2. archiver' \in FoldsOf(c) /\ archiver'.at = "idle"
    BY <1>1, EmptyIs
  <1>3. answer.at = "idle" /\ late.at # "storing"
    BY <1>1, TheJobs DEF LockAgrees
  <1>4. QED BY <1>1, <1>2, <1>3, TheJobs, ArchiverMovesKeeps

\* A job that has loaded the session.
LEMMA JobLoads ==
  ASSUME NEW c, HistoryInv(c), NEW A, NEW a \in A, NEW n \in 0..c.Lines, a = "storing" => n # 0
  PROVE  LET x == [at |-> a, copy |-> file.snap, line |-> n] IN x \in JobsOf(A, c) /\ x.at = a /\ x.copy = file.snap
  BY TheJobs DEF JobsOf

\* A step that says a line.
LEMMA LineKeeps ==
  ASSUME NEW c, HistoryInv(c), SessionsOf(c)!NoSave, said' \in 0..c.Lines, ambient' \in Seq(LinesOf(c)), chosen' \in 0..c.Lines,
         joined' \in SUBSET LinesOf(c), joined \subseteq joined',
         lock' \in {"none", "reply", "late", "archive"}, answer' \in JobsOf(AnswerPhases, c),
         late' \in JobsOf(Sendings, c), picture' \in JobsOf(Sendings, c),
         archiver' = archiver, console' = console, LockAgrees', ~clash => CopiesAgree' /\ LinesFresh(c)'
  PROVE  HistoryInv(c)'
  <1>1. fate' = fate /\ file' = file
    BY DEF SessionsOf!NoSave
  <1>2. HistoryTypes(c)'
    <2>1. Typed(c, file, ambient, chosen, lock, answer, late, picture, archiver, console, said, fate, joined)
      BY TypedIs DEF HistoryInv
    <2>2. Typed(c, file', ambient', chosen', lock', answer', late', picture', archiver', console', said', fate', joined')
      BY <1>1, <2>1 DEF Typed
    <2>3. QED BY <2>2, TypedIs
  <1>3. QED BY <1>2, NothingSaved

LEMMA TheTalk ==
  ASSUME NEW c, HistoryInv(c)
  PROVE  /\ HistoryTypes(c) /\ ambient \in Seq(LinesOf(c)) /\ chosen \in 0..c.Lines /\ said \in 0..c.Lines /\ joined \in SUBSET LinesOf(c)
         /\ fate \in [LinesOf(c) -> {"new", "kept", "gone", "purged"}] /\ (~clash => LinesFresh(c) /\ HistorySound(c))
  BY DEF HistoryInv, HistoryTypes

LEMMA SaidMore ==
  ASSUME NEW c, Chatting(c), HistoryInv(c), said < c.Lines
  PROVE  said + 1 \in LinesOf(c) /\ said + 1 \in 0..c.Lines /\ said + 1 # 0
  BY TheTalk DEF LinesOf, Chatting

LEMMA BeginKeepsHistory ==
  ASSUME NEW c, Chatting(c), HistoryInv(c), SessionsOf(c)!Begin PROVE HistoryInv(c)'
  <1>1. /\ SessionsOf(c)!NoSave /\ file' = file /\ fate' = fate /\ chosen' = chosen /\ joined' = joined
        /\ late' = late /\ picture' = picture /\ archiver' = archiver /\ console' = console
        /\ lock = "none" /\ lock' = "reply" /\ answer' = [at |-> "recording", copy |-> file.snap, line |-> 0]
        /\ said < c.Lines /\ said' = said + 1 /\ ambient' = Append(ambient, said + 1)
    BY DEF SessionsOf!Begin, SessionsOf!NoSave
  <1>2. answer' \in JobsOf(AnswerPhases, c) /\ answer'.at = "recording" /\ answer'.copy = file.snap
    <2>1. "recording" \in AnswerPhases /\ 0 \in 0..c.Lines
      BY DEF AnswerPhases, Chatting
    <2>2. QED BY <1>1, <2>1, JobLoads
  <1>3. said' \in 0..c.Lines /\ ambient' \in Seq(LinesOf(c))
    BY <1>1, SaidMore, OneMore, TheTalk
  <1>4. LockAgrees' /\ (~clash => CopiesAgree')
    BY <1>1, <1>2, TheJobs DEF LockAgrees, CopiesAgree
  <1>5. ~clash => LinesFresh(c)'
    <2>1. Stays(answer, answer') /\ Stays(late, late') /\ Stays(picture, picture')
      BY <1>1, <1>2 DEF Stays
    <2>2. QED BY <1>1, <2>1, TheTalk, LineHeard
  <1>6. QED BY <1>1, <1>2, <1>3, <1>4, <1>5, TheJobs, TheTalk, LineKeeps

LEMMA SentKeeps ==
  ASSUME NEW c, Chatting(c), HistoryInv(c), SessionsOf(c)!Sent PROVE HistoryInv(c)'
  <1>1. /\ SessionsOf(c)!NoSave /\ file' = file /\ fate' = fate /\ chosen' = chosen /\ joined' = joined /\ ambient' = ambient
        /\ late' = late /\ picture' = picture /\ archiver' = archiver /\ console' = console /\ lock' = lock
        /\ answer.at = "sending" /\ answer' = [at |-> "storing", copy |-> file.snap, line |-> said + 1]
        /\ said < c.Lines /\ said' = said + 1
    BY DEF SessionsOf!Sent, SessionsOf!NoSave, SessionsOf!Loads, SessionsOf!Storing
  <1>2. answer' \in JobsOf(AnswerPhases, c) /\ answer'.at = "storing" /\ answer'.copy = file.snap
    <2>1. "storing" \in AnswerPhases
      BY DEF AnswerPhases
    <2>2. QED BY <1>1, <2>1, SaidMore, JobLoads
  <1>3. said' \in 0..c.Lines
    BY <1>1, SaidMore
  <1>4. LockAgrees' /\ (~clash => CopiesAgree')
    BY <1>1, <1>2, TheJobs DEF LockAgrees, CopiesAgree
  <1>5. ~clash => LinesFresh(c)'
    BY <1>1, TheTalk, LineLoaded DEF Loaded
  <1>6. QED BY <1>1, <1>2, <1>3, <1>4, <1>5, TheJobs, TheTalk, LineKeeps

LEMMA LateSentKeeps ==
  ASSUME NEW c, Chatting(c), HistoryInv(c), SessionsOf(c)!LateSent PROVE HistoryInv(c)'
  <1>1. /\ SessionsOf(c)!NoSave /\ file' = file /\ fate' = fate /\ chosen' = chosen /\ joined' = joined /\ ambient' = ambient
        /\ answer' = answer /\ picture' = picture /\ archiver' = archiver /\ console' = console /\ lock = "none" /\ lock' = "late"
        /\ late' = [at |-> "storing", copy |-> file.snap, line |-> said + 1]
        /\ said < c.Lines /\ said' = said + 1
    BY DEF SessionsOf!LateSent, SessionsOf!NoSave, SessionsOf!Loads, SessionsOf!Storing
  <1>2. late' \in JobsOf(Sendings, c) /\ late'.at = "storing" /\ late'.copy = file.snap
    <2>1. "storing" \in Sendings
      BY DEF Sendings
    <2>2. QED BY <1>1, <2>1, SaidMore, JobLoads
  <1>3. said' \in 0..c.Lines
    BY <1>1, SaidMore
  <1>4. LockAgrees' /\ (~clash => CopiesAgree')
    BY <1>1, <1>2, TheJobs DEF LockAgrees, CopiesAgree
  <1>5. ~clash => LinesFresh(c)'
    BY <1>1, TheTalk, LineLoaded DEF Loaded
  <1>6. QED BY <1>1, <1>2, <1>3, <1>4, <1>5, TheJobs, TheTalk, LineKeeps

LEMMA PictureSentKeeps ==
  ASSUME NEW c, Chatting(c), HistoryInv(c), SessionsOf(c)!PictureSent PROVE HistoryInv(c)'
  <1>1. /\ SessionsOf(c)!NoSave /\ file' = file /\ fate' = fate /\ chosen' = chosen /\ joined' = joined /\ ambient' = ambient
        /\ answer' = answer /\ late' = late /\ archiver' = archiver /\ console' = console /\ lock' = lock
        /\ picture' = [at |-> "storing", copy |-> file.snap, line |-> said + 1]
        /\ said < c.Lines /\ said' = said + 1
    BY DEF SessionsOf!PictureSent, SessionsOf!NoSave, SessionsOf!Loads, SessionsOf!Storing
  <1>2. picture' \in JobsOf(Sendings, c) /\ picture'.at = "storing" /\ picture'.copy = file.snap
    <2>1. "storing" \in Sendings
      BY DEF Sendings
    <2>2. QED BY <1>1, <2>1, SaidMore, JobLoads
  <1>3. said' \in 0..c.Lines
    BY <1>1, SaidMore
  <1>4. LockAgrees' /\ (~clash => CopiesAgree')
    BY <1>1, <1>2, TheJobs DEF LockAgrees, CopiesAgree
  <1>5. ~clash => LinesFresh(c)'
    BY <1>1, TheTalk, LineLoaded DEF Loaded
  <1>6. QED BY <1>1, <1>2, <1>3, <1>4, <1>5, TheJobs, TheTalk, LineKeeps

LEMMA ChooseKeeps ==
  ASSUME NEW c, Chatting(c), HistoryInv(c), SessionsOf(c)!Choose PROVE HistoryInv(c)'
  <1>1. /\ SessionsOf(c)!NoSave /\ file' = file /\ fate' = fate /\ joined' = joined /\ ambient' = ambient /\ said' = said
        /\ answer' = answer /\ late' = late /\ picture' = picture /\ archiver' = archiver /\ console' = console /\ lock' = lock
        /\ chosen' = SessionsOf(c)!Newest(ambient) /\ ambient # <<>>
    BY DEF SessionsOf!Choose, SessionsOf!NoSave, SessionsOf!work
  <1>2. PICK y : y = SessionsOf(c)!Newest(ambient)
    OBVIOUS
  <1>3. y \in In(ambient) /\ In(ambient) \in SUBSET LinesOf(c)
    <2>1. ambient \in Seq(LinesOf(c))
      BY TheTalk
    <2>2. QED BY <1>1, <1>2, <2>1, NewestIn, InOf
  <1>4. chosen' \in 0..c.Lines
    BY <1>1, <1>2, <1>3 DEF LinesOf, Chatting
  <1>5. LockAgrees' /\ (~clash => CopiesAgree')
    BY <1>1, TheJobs DEF LockAgrees, CopiesAgree
  <1>6. ASSUME ~clash PROVE LinesFresh(c)'
    <2>1. LinesFresh(c)
      BY <1>6, TheTalk
    <2>2. chosen' \in In(ambient) /\ chosen' <= said
      BY <1>1, <1>2, <1>3, <2>1 DEF LinesFresh
    <2>3. Fresh(answer)' /\ Fresh(late)' /\ Fresh(picture)'
      BY <1>1, <2>1, <2>2 DEF LinesFresh, Fresh
    <2>4. QED BY <1>1, <2>1, <2>2, <2>3 DEF LinesFresh
  <1>7. QED BY <1>1, <1>4, <1>5, <1>6, TheJobs, TheTalk, LineKeeps

LEMMA JoinInKeeps ==
  ASSUME NEW c, Chatting(c), HistoryInv(c), SessionsOf(c)!JoinIn PROVE HistoryInv(c)'
  <1>1. /\ SessionsOf(c)!NoSave /\ file' = file /\ fate' = fate /\ joined' = joined \cup {chosen} /\ said' = said
        /\ late' = late /\ picture' = picture /\ archiver' = archiver /\ console' = console
        /\ lock = "none" /\ lock' = "reply" /\ answer' = [at |-> "recording", copy |-> file.snap, line |-> 0]
        /\ chosen # 0 /\ chosen' = 0 /\ (ambient' = ambient \/ ambient' = Append(ambient, chosen))
    BY DEF SessionsOf!JoinIn, SessionsOf!NoSave
  <1>2. answer' \in JobsOf(AnswerPhases, c) /\ answer'.at = "recording" /\ answer'.copy = file.snap /\ 0 \in 0..c.Lines
    <2>1. "recording" \in AnswerPhases /\ 0 \in 0..c.Lines
      BY DEF AnswerPhases, Chatting
    <2>2. QED BY <1>1, <2>1, JobLoads
  <1>3. chosen \in LinesOf(c)
    BY <1>1, TheTalk DEF LinesOf, Chatting
  <1>4. /\ ambient' \in Seq(LinesOf(c)) /\ In(ambient') \subseteq In(ambient) \cup {chosen}
        /\ \A J : OnceBut(ambient, J) /\ chosen \in J => OnceBut(ambient', J)
    <2>1. ambient \in Seq(LinesOf(c))
      BY TheTalk
    <2>2. PICK t : t = Append(ambient, chosen)
      OBVIOUS
    <2>3. /\ t \in Seq(LinesOf(c)) /\ In(t) = In(ambient) \cup {chosen}
          /\ \A J : OnceBut(ambient, J) /\ chosen \in J => OnceBut(t, J)
      BY <1>3, <2>1, <2>2, OneMore
    <2>4. CASE ambient' = ambient
      BY <2>1, <2>4
    <2>5. CASE ambient' = t
      BY <2>3, <2>5
    <2>6. QED BY <1>1, <2>2, <2>4, <2>5
  <1>5. joined' \in SUBSET LinesOf(c) /\ joined \subseteq joined'
    BY <1>1, <1>3, TheTalk
  <1>6. LockAgrees' /\ (~clash => CopiesAgree')
    BY <1>1, <1>2, TheJobs DEF LockAgrees, CopiesAgree
  <1>7. ASSUME ~clash PROVE LinesFresh(c)'
    <2>1. LinesFresh(c)
      BY <1>7, TheTalk
    <2>2. OnceBut(ambient', joined')
      <3>1. OnceBut(ambient, joined')
        BY <1>5, <2>1, OnceButMore DEF LinesFresh
      <3>2. QED BY <1>1, <1>4, <3>1
    <2>3. \A i \in In(ambient') : i <= said' /\ (fate'[i] = "new" \/ i \in joined')
      BY <1>1, <1>4, <2>1 DEF LinesFresh
    <2>4. \A i \in 1..said : i # 0
      OBVIOUS
    <2>5. Fresh(answer)' /\ Fresh(late)' /\ Fresh(picture)'
      BY <1>1, <1>2, <1>4, <2>1, <2>4 DEF LinesFresh, Fresh
    <2>6. chosen' <= said'
      BY <1>1, TheTalk
    <2>7. QED BY <1>1, <1>2, <2>1, <2>2, <2>3, <2>5, <2>6 DEF LinesFresh
  <1>8. QED BY <1>1, <1>2, <1>4, <1>5, <1>6, <1>7, TheJobs, TheTalk, LineKeeps

-----------------------------------------------------------------------------
(* Steps that save *)

\* Snap, saved with lines by w, is what is in the file; nobody else has loaded it.
Settles(w, snap, lines) ==
  /\ StillHolds(w, snap) /\ OnceBut(lines, joined)
  /\ \A i \in In(lines) : i <= said /\ (fate[i] = "new" \/ i \in joined)
  /\ \A i \in In(ambient') : i \notin In(lines)
  /\ answer'.at \notin {"recording", "storing"} /\ (answer'.at \in {"cleaning", "noting", "writing"} => answer'.copy = file'.snap)
  /\ late'.at # "storing" /\ picture'.at # "storing" /\ console'.at # "editing" /\ archiver'.at # "committing"
  /\ archiver'.at \in {"reading", "summing", "ready"} => archiver' = archiver /\ snap.summary = file.snap.summary

LEMMA SaveKeeps ==
  ASSUME NEW c, Chatting(c), HistoryInv(c), NEW w, NEW snap \in SnapsOf(c), NEW lines \in Seq(LinesOf(c)),
         SessionsOf(c)!Save(w, snap, lines), ambient' \in {ambient, <<>>}, chosen' = chosen, said' = said, joined' = joined,
         lock' \in {"none", "reply", "late", "archive"}, answer' \in JobsOf(AnswerPhases, c), late' \in JobsOf(Sendings, c),
         picture' \in JobsOf(Sendings, c), archiver' \in FoldsOf(c), console' \in JobsOf({"idle", "editing"}, c),
         LockAgrees', ~clash' => Settles(w, snap, lines)
  PROVE  HistoryInv(c)'
  <1>1. PICK G : Saved(c, w, snap, lines, G)
    BY TheTalk, SaveIs
  <1>2. HistoryTypes(c)'
    <2>1. Typed(c, file, ambient, chosen, lock, answer, late, picture, archiver, console, said, fate, joined)
      BY TypedIs DEF HistoryInv
    <2>2. ambient' \in Seq(LinesOf(c)) /\ <<>> \in Seq(LinesOf(c))
      <3>1. <<>> \in Seq(LinesOf(c))
        OBVIOUS
      <3>2. ambient \in Seq(LinesOf(c))
        BY TheTalk
      <3>3. QED BY <3>1, <3>2
    <2>3. Typed(c, file', ambient', chosen', lock', answer', late', picture', archiver', console', said', fate', joined')
      BY <1>1, <2>1, <2>2 DEF Typed, Saved
    <2>4. QED BY <2>3, TypedIs
  <1>3. ASSUME ~clash' PROVE HistorySound(c)' /\ CopiesAgree' /\ LinesFresh(c)'
    <2>1. ~clash
      BY <1>3 DEF SessionsOf!Save
    <2>2. HistoryTypes(c) /\ HistorySound(c) /\ CopiesAgree /\ LinesFresh(c) /\ Settles(w, snap, lines)
      BY <1>3, <2>1 DEF HistoryInv
    <2>3. \A i \in In(lines) : fate[i] = "new" \/ i \in joined
      BY <2>2 DEF Settles
    <2>4. HistorySound(c)' /\ \A i \in LinesOf(c) : fate[i] = "new" /\ i \notin In(lines) => fate'[i] = "new"
      BY <1>1, <2>2, <2>3, SavedKeeps DEF Settles
    <2>5. CopiesAgree'
      <3>1. file'.snap.summary = snap.summary
        BY <1>1 DEF Saved
      <3>2. QED BY <2>2, <3>1 DEF Settles, CopiesAgree
    <2>6. said \in Nat
      BY TheTalk DEF Chatting
    <2>7. \A i \in LinesOf(c) : i > said' => fate'[i] = "new"
      <3>1. ASSUME NEW i \in LinesOf(c), i > said PROVE i \notin In(lines)
        <4>1. i \in Nat /\ ~(i <= said)
          BY <2>6, <3>1 DEF LinesOf
        <4>2. QED BY <2>2, <4>1 DEF Settles
      <3>2. QED BY <2>2, <2>4, <3>1 DEF LinesFresh
    <2>8. \A i \in In(ambient') : i <= said' /\ (fate'[i] = "new" \/ i \in joined')
      <3>1. \A i \in In(ambient') : i \in In(ambient) /\ i \notin In(lines)
        BY <2>2, NothingIn DEF Settles
      <3>2. \A i \in In(ambient) : i \in LinesOf(c)
        BY TheTalk, InOf
      <3>3. QED BY <2>2, <2>4, <3>1, <3>2 DEF LinesFresh
    <2>9. OnceBut(ambient', joined') /\ chosen' <= said'
      <3>1. OnceBut(<<>>, joined)
        BY DEF OnceBut
      <3>2. QED BY <2>2, <3>1 DEF LinesFresh
    <2>10. LinesFresh(c)'
      BY <2>2, <2>7, <2>8, <2>9 DEF Settles, LinesFresh, Fresh
    <2>11. QED BY <2>4, <2>5, <2>10
  <1>4. QED BY <1>2, <1>3 DEF HistoryInv

\* The saver has loaded what is in the file.
LEMMA SameHolds ==
  ASSUME NEW c, HistorySound(c), NEW w, w \notin {"console", "cleaning"}, NEW snap, snap.history = file.snap.history, snap.summary = file.snap.summary
  PROVE  StillHolds(w, snap)
  <1>1. ShownTo(w) = {}
    BY DEF ShownTo
  <1>2. QED BY <1>1 DEF HistorySound, StillHolds, Told

\* Nobody without the lock has loaded the session when a saver with it leaves no clash.
LEMMA NobodyLoose ==
  ASSUME NEW c, NEW w, NEW snap, NEW lines, SessionsOf(c)!Save(w, snap, lines), ~clash'
  PROVE  /\ ~clash
         /\ w \notin {"picture", "console"} => picture.at # "storing" /\ console.at # "editing"
         /\ w \in {"picture", "console"} => answer.at \notin {"recording", "cleaning", "noting", "writing", "storing"} /\ late.at # "storing"
                                            /\ archiver.at # "committing"
         /\ w = "picture" => console.at # "editing"
         /\ w = "console" => picture.at # "storing"
  BY DEF SessionsOf!Save, SessionsOf!Held, SessionsOf!HeldLoose

LEMMA RecordKeeps ==
  ASSUME NEW c, Chatting(c), HistoryInv(c), SessionsOf(c)!Record PROVE HistoryInv(c)'
  <1>1. /\ SessionsOf(c)!Save("reply", answer.copy, ambient) /\ ambient' = <<>> /\ chosen' = chosen /\ said' = said /\ joined' = joined
        /\ answer.at = "recording" /\ answer' = Taking(answer, "cleaning", file'.snap)
        /\ late' = late /\ picture' = picture /\ archiver' = archiver /\ console' = console /\ lock' = lock
    BY DEF SessionsOf!Record, Taking
  <1>2. answer.copy \in SnapsOf(c)
    BY TheJobs DEF JobsOf
  <1>3. file'.snap \in SnapsOf(c)
    BY <1>1, <1>2, TheTalk, SaveIs DEF Saved
  <1>4. answer' \in JobsOf(AnswerPhases, c) /\ answer'.at = "cleaning" /\ answer'.copy = file'.snap
    <2>1. "cleaning" \in AnswerPhases
      BY DEF AnswerPhases
    <2>2. QED BY <1>1, <1>3, <2>1, TheJobs, JobTakes
  <1>5. LockAgrees'
    BY <1>1, <1>4, TheJobs DEF LockAgrees
  <1>6. ASSUME ~clash' PROVE Settles("reply", answer.copy, ambient)
    <2>1. ~clash /\ picture.at # "storing" /\ console.at # "editing"
      BY <1>1, <1>6, NobodyLoose
    <2>2. HistorySound(c) /\ CopiesAgree /\ LinesFresh(c) /\ LockAgrees
      BY <2>1, TheTalk, TheJobs
    <2>3. late.at # "storing" /\ archiver.at # "committing"
      BY <1>1, <2>2 DEF LockAgrees
    <2>4. answer.copy = file.snap
      BY <1>1, <2>2 DEF CopiesAgree
    <2>5. StillHolds("reply", answer.copy)
      BY <2>2, <2>4, SameHolds
    <2>6. In(ambient') = {}
      BY <1>1, NothingIn
    <2>7. QED BY <1>1, <1>4, <2>1, <2>2, <2>3, <2>4, <2>5, <2>6 DEF Settles, LinesFresh
  <1>7. QED BY <1>1, <1>2, <1>4, <1>5, <1>6, TheJobs, TheTalk, SaveKeeps

\* A history with lines taken out.
Shortened(c, s, X) == [s EXCEPT !.history = SessionsOf(c)!TakenOut(@, X)]

LEMMA EditHolds ==
  ASSUME NEW c, NEW s \in SnapsOf(c), NEW X, NEW new, new = Shortened(c, s, X)
  PROVE  /\ new \in SnapsOf(c) /\ new.summary = s.summary /\ In(new.history) \subseteq In(s.history)
         /\ \A J : OnceBut(s.history, J) => OnceBut(new.history, J)
  <1>1. PICK h \in Seq(LinesOf(c)) : h = s.history
    BY SnapIs
  <1>2. PICK t \in Seq(LinesOf(c)) : t = SessionsOf(c)!TakenOut(h, X)
    BY TakenOutIs
  <1>3. In(t) \subseteq In(h) /\ \A J : OnceBut(h, J) => OnceBut(t, J)
    BY <1>2, TakenOutIs
  <1>4. PICK L : L = Seq(LinesOf(c))
    OBVIOUS
  <1>5. s \in [history : L, summary : SUBSET LinesOf(c), tools : BOOLEAN] /\ t \in L
    BY <1>2, <1>4, SnapIs
  <1>6. new = [s EXCEPT !.history = t]
    BY <1>1, <1>2 DEF Shortened
  <1>7. new \in [history : L, summary : SUBSET LinesOf(c), tools : BOOLEAN] /\ new.history = t /\ new.summary = s.summary
    BY <1>5, <1>6
  <1>8. QED BY <1>1, <1>3, <1>4, <1>7, SnapIs

LEMMA CleanKeeps ==
  ASSUME NEW c, Chatting(c), HistoryInv(c), SessionsOf(c)!Clean PROVE HistoryInv(c)'
  <1>1. PICK X \in SUBSET (c.Foreign \cap SessionsOf(c)!Range(answer.copy.history)) :
          IF X = {}
          THEN SessionsOf(c)!NoSave /\ answer' = [answer EXCEPT !.at = "noting"]
          ELSE /\ SessionsOf(c)!Save("cleaning", Shortened(c, answer.copy, X), <<>>)
               /\ answer' = Taking(answer, "noting", file'.snap)
    BY DEF SessionsOf!Clean, Shortened, Taking
  <1>2. /\ ambient' = ambient /\ chosen' = chosen /\ said' = said /\ joined' = joined /\ answer.at = "cleaning"
        /\ late' = late /\ picture' = picture /\ archiver' = archiver /\ console' = console /\ lock' = lock
    BY DEF SessionsOf!Clean
  <1>3. answer.copy \in SnapsOf(c) /\ "noting" \in AnswerPhases
    BY TheJobs DEF JobsOf, AnswerPhases
  <1>4. CASE X = {}
    <2>1. SessionsOf(c)!NoSave /\ answer' = [answer EXCEPT !.at = "noting"]
      BY <1>1, <1>4
    <2>2. file' = file /\ fate' = fate /\ clash' = clash
      BY <2>1 DEF SessionsOf!NoSave
    <2>3. answer' \in JobsOf(AnswerPhases, c) /\ answer'.at = "noting" /\ answer'.copy = answer.copy
      BY <1>2, <1>3, <2>1, TheJobs, JobMoves
    <2>4. LockAgrees' /\ (~clash => CopiesAgree')
      BY <1>2, <2>2, <2>3, TheJobs DEF LockAgrees, CopiesAgree
    <2>5. Stays(answer, answer') /\ Stays(late, late') /\ Stays(picture, picture')
      BY <1>2, <2>3 DEF Stays
    <2>6. QED BY <1>2, <2>1, <2>2, <2>3, <2>4, <2>5, TheJobs, AsideKeeps
  <1>5. CASE X # {}
    <2>1. PICK n : n = Shortened(c, answer.copy, X)
      OBVIOUS
    <2>2. SessionsOf(c)!Save("cleaning", n, <<>>) /\ answer' = Taking(answer, "noting", file'.snap)
      BY <1>1, <1>5, <2>1
    <2>3. /\ n \in SnapsOf(c) /\ n.summary = answer.copy.summary /\ In(n.history) \subseteq In(answer.copy.history)
          /\ \A J : OnceBut(answer.copy.history, J) => OnceBut(n.history, J)
      <3>1. PICK s \in SnapsOf(c) : s = answer.copy
        BY <1>3
      <3>2. n = Shortened(c, s, X)
        BY <2>1, <3>1
      <3>3. /\ n \in SnapsOf(c) /\ n.summary = s.summary /\ In(n.history) \subseteq In(s.history)
            /\ \A J : OnceBut(s.history, J) => OnceBut(n.history, J)
        BY <3>2, EditHolds
      <3>4. QED BY <3>1, <3>3
    <2>4. <<>> \in Seq(LinesOf(c))
      OBVIOUS
    <2>5. file'.snap \in SnapsOf(c)
      BY <2>2, <2>3, <2>4, TheTalk, SaveIs DEF Saved
    <2>6. answer' \in JobsOf(AnswerPhases, c) /\ answer'.at = "noting" /\ answer'.copy = file'.snap
      BY <1>3, <2>2, <2>5, TheJobs, JobTakes
    <2>7. LockAgrees'
      BY <1>2, <2>6, TheJobs DEF LockAgrees
    <2>8. ASSUME ~clash' PROVE Settles("cleaning", n, <<>>)
      <3>1. ~clash /\ picture.at # "storing" /\ console.at # "editing"
        BY <2>2, <2>8, NobodyLoose
      <3>2. HistorySound(c) /\ CopiesAgree /\ LockAgrees
        BY <3>1, TheTalk, TheJobs
      <3>3. late.at # "storing" /\ archiver.at # "committing"
        BY <1>2, <3>2 DEF LockAgrees
      <3>4. answer.copy = file.snap
        BY <1>2, <3>2 DEF CopiesAgree
      <3>5. ShownTo("cleaning") = In(file.snap.history)
        BY <3>4 DEF ShownTo
      <3>6. In(file.snap.history) \cap file.snap.summary \subseteq joined /\ OnceBut(file.snap.history, joined)
        BY <3>2 DEF HistorySound
      <3>7. StillHolds("cleaning", n)
        BY <2>3, <3>4, <3>5, <3>6 DEF StillHolds, Told
      <3>8. In(<<>>) = {} /\ OnceBut(<<>>, joined)
        BY NothingIn DEF OnceBut
      <3>9. QED BY <1>2, <2>3, <2>6, <3>1, <3>3, <3>4, <3>7, <3>8 DEF Settles
    <2>9. QED BY <1>2, <2>2, <2>3, <2>4, <2>6, <2>7, <2>8, TheJobs, TheTalk, SaveKeeps
  <1>6. QED BY <1>4, <1>5

LEMMA RepeatKeeps ==
  ASSUME NEW c, Chatting(c), HistoryInv(c), SessionsOf(c)!Repeat PROVE HistoryInv(c)'
  <1>1. /\ chosen' = chosen /\ said' = said /\ ambient' = ambient /\ file' = file /\ fate' = fate /\ clash' = clash
        /\ late' = late /\ picture' = picture /\ archiver' = archiver /\ console' = console /\ joined' = joined
        /\ answer.at = "noting" /\ answer' = [SessionsOf(c)!Idle EXCEPT !.at = "sending"] /\ lock' = lock
        /\ SessionsOf(c)!NoSave
    BY DEF SessionsOf!Repeat, SessionsOf!NoSave
  <1>2. answer' \in JobsOf(AnswerPhases, c) /\ answer'.at = "sending"
    BY <1>1, SendingIs
  <1>3. LockAgrees' /\ (~clash => CopiesAgree')
    BY <1>1, <1>2, TheJobs DEF LockAgrees, CopiesAgree
  <1>4. Stays(answer, answer') /\ Stays(late, late') /\ Stays(picture, picture')
    BY <1>1, <1>2 DEF Stays
  <1>5. QED BY <1>1, <1>2, <1>3, <1>4, TheJobs, AsideKeeps

LEMMA NoteKeeps ==
  ASSUME NEW c, Chatting(c), HistoryInv(c), SessionsOf(c)!Note PROVE HistoryInv(c)'
  <1>1. /\ SessionsOf(c)!Save("reply", answer.copy, <<>>) /\ ambient' = ambient /\ chosen' = chosen /\ said' = said /\ joined' = joined
        /\ answer.at = "noting" /\ answer' = [answer EXCEPT !.at = "writing"]
        /\ late' = late /\ picture' = picture /\ archiver' = archiver /\ console' = console /\ lock' = lock
    BY DEF SessionsOf!Note
  <1>2. answer.copy \in SnapsOf(c) /\ <<>> \in Seq(LinesOf(c))
    BY TheJobs DEF JobsOf
  <1>3. answer' \in JobsOf(AnswerPhases, c) /\ answer'.at = "writing" /\ answer'.copy = answer.copy
    <2>1. "writing" \in AnswerPhases
      BY DEF AnswerPhases
    <2>2. QED BY <1>1, <2>1, TheJobs, JobMoves
  <1>4. LockAgrees'
    BY <1>1, <1>3, TheJobs DEF LockAgrees
  <1>5. ASSUME ~clash' PROVE Settles("reply", answer.copy, <<>>)
    <2>1. ~clash /\ picture.at # "storing" /\ console.at # "editing"
      BY <1>1, <1>5, NobodyLoose
    <2>2. HistorySound(c) /\ CopiesAgree /\ LinesFresh(c) /\ LockAgrees
      BY <2>1, TheTalk, TheJobs
    <2>3. late.at # "storing" /\ archiver.at # "committing"
      BY <1>1, <2>2 DEF LockAgrees
    <2>4. answer.copy = file.snap
      BY <1>1, <2>2 DEF CopiesAgree
    <2>5. StillHolds("reply", answer.copy)
      BY <2>2, <2>4, SameHolds
    <2>6. file'.snap = answer.copy
      BY <1>1, <1>2, <2>2, <2>4, TheTalk, SaveIs DEF HistorySound
    <2>7. In(<<>>) = {} /\ OnceBut(<<>>, joined)
      BY NothingIn DEF OnceBut
    <2>8. QED BY <1>1, <1>3, <2>1, <2>3, <2>4, <2>5, <2>6, <2>7 DEF Settles
  <1>6. QED BY <1>1, <1>2, <1>3, <1>4, <1>5, TheJobs, TheTalk, SaveKeeps

\* A snapshot with tool calls.
LEMMA WithTools ==
  ASSUME NEW c, NEW s \in SnapsOf(c)
  PROVE  /\ [s EXCEPT !.tools = TRUE] \in SnapsOf(c) /\ [s EXCEPT !.tools = TRUE].history = s.history
         /\ [s EXCEPT !.tools = TRUE].summary = s.summary
  <1>1. PICK L : L = Seq(LinesOf(c))
    OBVIOUS
  <1>2. s \in [history : L, summary : SUBSET LinesOf(c), tools : BOOLEAN]
    BY <1>1, SnapIs
  <1>3. /\ [s EXCEPT !.tools = TRUE] \in [history : L, summary : SUBSET LinesOf(c), tools : BOOLEAN]
        /\ [s EXCEPT !.tools = TRUE].history = s.history /\ [s EXCEPT !.tools = TRUE].summary = s.summary
    BY <1>2
  <1>4. QED BY <1>1, <1>3, SnapIs

LEMMA ReplyWritten ==
  ASSUME NEW c, Chatting(c), HistoryInv(c), SessionsOf(c)!Written PROVE HistoryInv(c)'
  <1> DEFINE new == [answer.copy EXCEPT !.tools = TRUE]
  <1>1. /\ (SessionsOf(c)!Save("reply", new, <<>>) \/ SessionsOf(c)!NoSave)
        /\ ambient' = ambient /\ chosen' = chosen /\ said' = said /\ joined' = joined
        /\ answer.at = "writing" /\ answer' = [SessionsOf(c)!Idle EXCEPT !.at = "sending"]
        /\ late' = late /\ picture' = picture /\ archiver' = archiver /\ console' = console /\ lock' = lock
    BY DEF SessionsOf!Written
  <1>2. CASE SessionsOf(c)!NoSave
    BY <1>2, QuietlyWritten
  <1>3. CASE SessionsOf(c)!Save("reply", new, <<>>)
    <2>1. new \in SnapsOf(c) /\ new.history = answer.copy.history /\ new.summary = answer.copy.summary
      <3>1. answer.copy \in SnapsOf(c)
        BY TheJobs DEF JobsOf
      <3>2. QED BY <3>1, WithTools
    <2> HIDE DEF new
    <2>2. answer' \in JobsOf(AnswerPhases, c) /\ answer'.at = "sending"
      BY <1>1, SendingIs
    <2>3. LockAgrees'
      BY <1>1, <2>2, TheJobs DEF LockAgrees
    <2>4. ASSUME ~clash' PROVE Settles("reply", new, <<>>)
      <3>1. ~clash /\ picture.at # "storing" /\ console.at # "editing"
        BY <1>3, <2>4, NobodyLoose
      <3>2. HistorySound(c) /\ CopiesAgree /\ LinesFresh(c) /\ LockAgrees
        BY <3>1, TheTalk, TheJobs
      <3>3. late.at # "storing" /\ archiver.at # "committing"
        BY <1>1, <3>2 DEF LockAgrees
      <3>4. answer.copy = file.snap
        BY <1>1, <3>2 DEF CopiesAgree
      <3>5. StillHolds("reply", new)
        BY <2>1, <3>2, <3>4, SameHolds
      <3>6. In(<<>>) = {} /\ OnceBut(<<>>, joined)
        BY NothingIn DEF OnceBut
      <3>7. QED BY <1>1, <2>1, <2>2, <3>1, <3>3, <3>4, <3>5, <3>6 DEF Settles
    <2>5. <<>> \in Seq(LinesOf(c))
      OBVIOUS
    <2>6. QED BY <1>1, <1>3, <2>1, <2>2, <2>3, <2>4, <2>5, TheJobs, TheTalk, SaveKeeps
  <1>4. QED BY <1>1, <1>2, <1>3

\* The archiver is scheduled unless it is under way.
LEMMA FoldStarts ==
  ASSUME NEW c, NEW x \in FoldsOf(c), NEW a \in FoldPhases
  PROVE  [x EXCEPT !.at = a] \in FoldsOf(c) /\ [x EXCEPT !.at = a].at = a
  <1>1. PICK Q : Q = Seq(LinesOf(c))
    OBVIOUS
  <1>2. PICK U : U = SUBSET LinesOf(c)
    OBVIOUS
  <1>3. x \in [at : FoldPhases, copy : SnapsOf(c), batch : Q, summary : U]
    BY <1>1, <1>2 DEF FoldsOf
  <1>4. FoldsOf(c) = [at : FoldPhases, copy : SnapsOf(c), batch : Q, summary : U]
    BY <1>1, <1>2 DEF FoldsOf
  <1>5. QED BY <1>3, <1>4

LEMMA ScheduledIs ==
  ASSUME NEW c, Chatting(c), HistoryInv(c)
  PROVE  /\ SessionsOf(c)!Scheduled \in FoldsOf(c)
         /\ SessionsOf(c)!Scheduled = archiver \/ (archiver.at = "idle" /\ SessionsOf(c)!Scheduled.at = "scheduled")
  <1>1. archiver \in FoldsOf(c) /\ SessionsOf(c)!IdleArchiver \in FoldsOf(c) /\ "scheduled" \in FoldPhases
    BY TheJobs, EmptyIs DEF FoldPhases
  <1>2. CASE archiver.at # "idle"
    BY <1>1, <1>2 DEF SessionsOf!Scheduled
  <1>3. CASE archiver.at = "idle"
    <2>1. SessionsOf(c)!Scheduled = [SessionsOf(c)!IdleArchiver EXCEPT !.at = "scheduled"]
      BY <1>3 DEF SessionsOf!Scheduled
    <2>2. QED BY <1>1, <1>3, <2>1, FoldStarts
  <1>4. QED BY <1>2, <1>3

\* A line to store is one.
LEMMA OneLine ==
  ASSUME NEW c, NEW A, NEW x \in JobsOf(A, c), x.at = "storing", Chatting(c)
  PROVE  x.copy \in SnapsOf(c) /\ x.line \in LinesOf(c) /\ <<x.line>> \in Seq(LinesOf(c)) /\ In(<<x.line>>) = {x.line}
         /\ \A J : OnceBut(<<x.line>>, J)
  <1>1. x.copy \in SnapsOf(c) /\ x.line \in LinesOf(c)
    BY DEF JobsOf, LinesOf, Chatting
  <1>2. PICK y \in LinesOf(c) : y = x.line
    BY <1>1
  <1>3. <<y>> \in Seq(LinesOf(c)) /\ DOMAIN <<y>> = {1} /\ <<y>>[1] = y
    OBVIOUS
  <1>4. In(<<y>>) = {y} /\ \A J : OnceBut(<<y>>, J)
    BY <1>3 DEF In, OnceBut
  <1>5. QED BY <1>1, <1>2, <1>3, <1>4

\* What has been sent is in the history.
LEMMA SettlesLine ==
  ASSUME NEW c, Chatting(c), HistoryInv(c), ~clash, NEW A, NEW x \in JobsOf(A, c), x.at = "storing", Fresh(x), x.copy = file.snap,
         NEW w, w \notin {"console", "cleaning"}, ambient' = ambient, answer'.at \in {"idle", "sending"},
         late'.at # "storing", picture'.at # "storing", console'.at # "editing", archiver'.at # "committing",
         archiver' = archiver \/ archiver'.at = "scheduled"
  PROVE  Settles(w, x.copy, <<x.line>>)
  <1>1. In(<<x.line>>) = {x.line} /\ OnceBut(<<x.line>>, joined)
    BY OneLine
  <1>2. said \in Nat
    BY TheTalk DEF Chatting
  <1>3. x.line <= said /\ fate[x.line] = "new" /\ x.line \notin In(ambient)
    BY <1>2 DEF Fresh
  <1>4. StillHolds(w, x.copy)
    BY TheTalk, SameHolds
  <1>5. QED BY <1>1, <1>3, <1>4 DEF Settles

LEMMA StoreKeeps ==
  ASSUME NEW c, Chatting(c), HistoryInv(c), SessionsOf(c)!Store PROVE HistoryInv(c)'
  <1>1. /\ SessionsOf(c)!Save("reply", answer.copy, <<answer.line>>)
        /\ ambient' = ambient /\ chosen' = chosen /\ said' = said /\ joined' = joined
        /\ answer.at = "storing" /\ answer' = SessionsOf(c)!Idle /\ lock' = "none" /\ archiver' = SessionsOf(c)!Scheduled
        /\ late' = late /\ picture' = picture /\ console' = console
    BY DEF SessionsOf!Store, SessionsOf!EndReply
  <1>2. answer.copy \in SnapsOf(c) /\ <<answer.line>> \in Seq(LinesOf(c)) /\ answer \in JobsOf(AnswerPhases, c)
    BY <1>1, TheJobs, OneLine
  <1>3. answer' \in JobsOf(AnswerPhases, c) /\ answer'.at = "idle"
    BY <1>1, EmptyIs DEF AnswerPhases
  <1>4. archiver' \in FoldsOf(c) /\ (archiver' = archiver \/ (archiver.at = "idle" /\ archiver'.at = "scheduled"))
    BY <1>1, ScheduledIs
  <1>5. late.at # "storing" /\ archiver.at # "committing"
    BY <1>1, TheJobs DEF LockAgrees
  <1>6. LockAgrees'
    BY <1>1, <1>3, <1>4, <1>5 DEF LockAgrees
  <1>7. ASSUME ~clash' PROVE Settles("reply", answer.copy, <<answer.line>>)
    <2>1. ~clash /\ picture.at # "storing" /\ console.at # "editing"
      BY <1>1, <1>7, NobodyLoose
    <2>2. answer.copy = file.snap /\ Fresh(answer)
      BY <1>1, <2>1, TheTalk, TheJobs DEF CopiesAgree, LinesFresh
    <2>3. QED BY <1>1, <1>2, <1>3, <1>4, <1>5, <2>1, <2>2, SettlesLine
  <1>8. QED BY <1>1, <1>2, <1>3, <1>4, <1>6, <1>7, TheJobs, SaveKeeps

LEMMA LateStoredKeeps ==
  ASSUME NEW c, Chatting(c), HistoryInv(c), SessionsOf(c)!LateStored PROVE HistoryInv(c)'
  <1>1. /\ SessionsOf(c)!Save("late", late.copy, <<late.line>>)
        /\ ambient' = ambient /\ chosen' = chosen /\ said' = said /\ joined' = joined
        /\ late.at = "storing" /\ late' = SessionsOf(c)!Idle /\ lock' = "none" /\ archiver' = SessionsOf(c)!Scheduled
        /\ answer' = answer /\ picture' = picture /\ console' = console
    BY DEF SessionsOf!LateStored
  <1>2. late.copy \in SnapsOf(c) /\ <<late.line>> \in Seq(LinesOf(c)) /\ late \in JobsOf(Sendings, c)
    BY <1>1, TheJobs, OneLine
  <1>3. late' \in JobsOf(Sendings, c) /\ late'.at = "idle"
    BY <1>1, EmptyIs DEF Sendings
  <1>4. archiver' \in FoldsOf(c) /\ (archiver' = archiver \/ (archiver.at = "idle" /\ archiver'.at = "scheduled"))
    BY <1>1, ScheduledIs
  <1>5. answer.at = "idle" /\ archiver.at # "committing"
    BY <1>1, TheJobs DEF LockAgrees
  <1>6. LockAgrees'
    BY <1>1, <1>3, <1>4, <1>5 DEF LockAgrees
  <1>7. ASSUME ~clash' PROVE Settles("late", late.copy, <<late.line>>)
    <2>1. ~clash /\ picture.at # "storing" /\ console.at # "editing"
      BY <1>1, <1>7, NobodyLoose
    <2>2. late.copy = file.snap /\ Fresh(late)
      BY <1>1, <2>1, TheTalk, TheJobs DEF CopiesAgree, LinesFresh
    <2>3. QED BY <1>1, <1>2, <1>3, <1>4, <1>5, <2>1, <2>2, SettlesLine
  <1>8. QED BY <1>1, <1>2, <1>3, <1>4, <1>6, <1>7, TheJobs, SaveKeeps

LEMMA PictureStoredKeeps ==
  ASSUME NEW c, Chatting(c), HistoryInv(c), SessionsOf(c)!PictureStored PROVE HistoryInv(c)'
  <1>1. /\ SessionsOf(c)!Save("picture", picture.copy, <<picture.line>>)
        /\ ambient' = ambient /\ chosen' = chosen /\ said' = said /\ joined' = joined
        /\ picture.at = "storing" /\ picture' = SessionsOf(c)!Idle /\ lock' = lock /\ archiver' = SessionsOf(c)!Scheduled
        /\ answer' = answer /\ late' = late /\ console' = console
    BY DEF SessionsOf!PictureStored
  <1>2. picture.copy \in SnapsOf(c) /\ <<picture.line>> \in Seq(LinesOf(c)) /\ picture \in JobsOf(Sendings, c)
    BY <1>1, TheJobs, OneLine
  <1>3. picture' \in JobsOf(Sendings, c) /\ picture'.at = "idle"
    BY <1>1, EmptyIs DEF Sendings
  <1>4. archiver' \in FoldsOf(c) /\ (archiver' = archiver \/ (archiver.at = "idle" /\ archiver'.at = "scheduled"))
    BY <1>1, ScheduledIs
  <1>5. LockAgrees'
    BY <1>1, <1>4, TheJobs DEF LockAgrees
  <1>6. ASSUME ~clash' PROVE Settles("picture", picture.copy, <<picture.line>>)
    <2>1. ~clash /\ answer.at \notin {"recording", "cleaning", "noting", "writing", "storing"} /\ late.at # "storing" /\ archiver.at # "committing"
          /\ console.at # "editing"
      BY <1>1, <1>6, NobodyLoose
    <2>2. picture.copy = file.snap /\ Fresh(picture)
      BY <1>1, <2>1, TheTalk, TheJobs DEF CopiesAgree, LinesFresh
    <2>3. answer.at \in {"idle", "sending"}
      BY <2>1, TheJobs DEF JobsOf, AnswerPhases
    <2>4. QED BY <1>1, <1>2, <1>3, <1>4, <2>1, <2>2, <2>3, SettlesLine
  <1>7. QED BY <1>1, <1>2, <1>3, <1>4, <1>5, <1>6, TheJobs, SaveKeeps

\* The summary stands for the lines that are trimmed.
Folded(c, s, b, u) == [s EXCEPT !.history = SessionsOf(c)!Trimmed(s, b), !.summary = u]

LEMMA TrimmedHolds ==
  ASSUME NEW c, Chatting(c), NEW s \in SnapsOf(c), NEW b \in Seq(LinesOf(c)), NEW u \in SUBSET LinesOf(c), NEW new,
         new = Folded(c, s, b, u), SessionsOf(c)!Untouched(s, b)
  PROVE  /\ new \in SnapsOf(c) /\ new.summary = u /\ In(s.history) = In(b) \cup In(new.history)
         /\ \A J : OnceBut(s.history, J) => OnceBut(new.history, J) /\ In(b) \cap In(new.history) \subseteq J
  <1>1. PICK h \in Seq(LinesOf(c)) : h = s.history
    BY SnapIs
  <1>2. PICK m : m = Len(b)
    OBVIOUS
  <1>3. m \in 0..Len(h) /\ SubSeq(h, 1, m) = b
    <2>1. Len(h) \in Nat /\ Len(b) \in Nat
      BY LenProperties
    <2>2. Len(h) >= Len(b) /\ SubSeq(h, 1, Len(b)) = b
      BY <1>1 DEF SessionsOf!Untouched
    <2>3. QED BY <1>2, <2>1, <2>2
  <1>4. PICK t \in Seq(LinesOf(c)) : t = SubSeq(h, m + 1, Len(h))
    BY <1>3, RestIs
  <1>5. In(h) = In(b) \cup In(t) /\ \A J : OnceBut(h, J) => OnceBut(t, J) /\ In(b) \cap In(t) \subseteq J
    BY <1>3, <1>4, RestIs
  <1>6. new = [s EXCEPT !.history = t, !.summary = u]
    BY <1>1, <1>2, <1>4 DEF SessionsOf!Trimmed, Folded
  <1>7. PICK L : L = Seq(LinesOf(c))
    OBVIOUS
  <1>8. s \in [history : L, summary : SUBSET LinesOf(c), tools : BOOLEAN] /\ t \in L
    BY <1>4, <1>7, SnapIs
  <1>9. new \in [history : L, summary : SUBSET LinesOf(c), tools : BOOLEAN] /\ new.history = t /\ new.summary = u
    BY <1>6, <1>8
  <1>10. QED BY <1>1, <1>5, <1>7, <1>9, SnapIs

LEMMA CommitKeeps ==
  ASSUME NEW c, Chatting(c), HistoryInv(c), SessionsOf(c)!Commit PROVE HistoryInv(c)'
  <1> DEFINE new == Folded(c, archiver.copy, archiver.batch, archiver.summary)
  <1>1. /\ ambient' = ambient /\ chosen' = chosen /\ said' = said /\ joined' = joined
        /\ archiver.at = "committing" /\ archiver' = SessionsOf(c)!IdleArchiver /\ lock' = "none"
        /\ late' = late /\ picture' = picture /\ answer' = answer /\ console' = console
    BY DEF SessionsOf!Commit, SessionsOf!archiverRest
  <1>2. CASE SessionsOf(c)!NoSave
    BY <1>2, QuietCommit
  <1>3. CASE SessionsOf(c)!Untouched(archiver.copy, archiver.batch) /\ SessionsOf(c)!Save("archive", new, <<>>)
    <2>1. archiver.copy \in SnapsOf(c) /\ archiver.batch \in Seq(LinesOf(c)) /\ archiver.summary \in SUBSET LinesOf(c)
      BY TheJobs DEF FoldsOf
    <2>2. PICK n : n = new
      OBVIOUS
    <2>3. /\ n \in SnapsOf(c) /\ n.summary = archiver.summary /\ In(archiver.copy.history) = In(archiver.batch) \cup In(n.history)
          /\ \A J : OnceBut(archiver.copy.history, J) => OnceBut(n.history, J) /\ In(archiver.batch) \cap In(n.history) \subseteq J
      <3>1. PICK s \in SnapsOf(c), b \in Seq(LinesOf(c)), u \in SUBSET LinesOf(c) :
              s = archiver.copy /\ b = archiver.batch /\ u = archiver.summary
        BY <2>1
      <3>2. n = Folded(c, s, b, u) /\ SessionsOf(c)!Untouched(s, b)
        BY <1>3, <2>2, <3>1
      <3>3. /\ n \in SnapsOf(c) /\ n.summary = u /\ In(s.history) = In(b) \cup In(n.history)
            /\ \A J : OnceBut(s.history, J) => OnceBut(n.history, J) /\ In(b) \cap In(n.history) \subseteq J
        BY <3>2, TrimmedHolds
      <3>4. QED BY <3>1, <3>3
    <2>4. SessionsOf(c)!Save("archive", n, <<>>)
      BY <1>3, <2>2
    <2> HIDE DEF new
    <2>5. archiver' \in FoldsOf(c) /\ archiver'.at = "idle"
      BY <1>1, EmptyIs
    <2>6. answer.at = "idle" /\ late.at # "storing"
      BY <1>1, TheJobs DEF LockAgrees
    <2>7. LockAgrees'
      BY <1>1, <2>5, <2>6 DEF LockAgrees
    <2>8. ASSUME ~clash' PROVE Settles("archive", n, <<>>)
      <3>1. ~clash /\ picture.at # "storing" /\ console.at # "editing"
        BY <2>4, <2>8, NobodyLoose
      <3>2. archiver.copy = file.snap /\ archiver.summary = file.snap.summary \cup In(archiver.batch)
        BY <1>1, <3>1, TheJobs DEF CopiesAgree
      <3>3. In(file.snap.history) \cap file.snap.summary \subseteq joined /\ OnceBut(file.snap.history, joined)
        BY <3>1, TheTalk DEF HistorySound
      <3>4. StillHolds("archive", n)
        <4>1. OnceBut(n.history, joined) /\ In(archiver.batch) \cap In(n.history) \subseteq joined
          BY <2>3, <3>2, <3>3
        <4>2. Told(n) = Told(file.snap)
          BY <2>3, <3>2 DEF Told
        <4>3. In(n.history) \cap n.summary \subseteq joined
          BY <2>3, <3>2, <3>3, <4>1
        <4>4. QED BY <4>1, <4>2, <4>3 DEF StillHolds, ShownTo
      <3>5. In(<<>>) = {} /\ OnceBut(<<>>, joined)
        BY NothingIn DEF OnceBut
      <3>6. QED BY <1>1, <2>5, <2>6, <3>1, <3>4, <3>5 DEF Settles
    <2>9. <<>> \in Seq(LinesOf(c))
      OBVIOUS
    <2>10. QED BY <1>1, <2>3, <2>4, <2>5, <2>7, <2>8, <2>9, TheJobs, SaveKeeps
  <1>4. QED BY <1>2, <1>3 DEF SessionsOf!Commit, Folded

LEMMA EditKeeps ==
  ASSUME NEW c, Chatting(c), HistoryInv(c), SessionsOf(c)!Edit PROVE HistoryInv(c)'
  <1>1. /\ ambient' = ambient /\ chosen' = chosen /\ said' = said /\ joined' = joined
        /\ console.at = "editing" /\ console' = SessionsOf(c)!Idle /\ lock' = lock
        /\ late' = late /\ picture' = picture /\ answer' = answer /\ archiver' = archiver
        /\ \E k \in SessionsOf(c)!Range(console.copy.history) :
             SessionsOf(c)!Save("console", Shortened(c, console.copy, {k}), <<>>)
    BY DEF SessionsOf!Edit, SessionsOf!consoleRest, Shortened
  <1>2. PICK k : SessionsOf(c)!Save("console", Shortened(c, console.copy, {k}), <<>>)
    BY <1>1
  <1>3. PICK n : n = Shortened(c, console.copy, {k})
    OBVIOUS
  <1>4. console.copy \in SnapsOf(c)
    BY TheJobs DEF JobsOf
  <1>5. /\ n \in SnapsOf(c) /\ n.summary = console.copy.summary /\ In(n.history) \subseteq In(console.copy.history)
        /\ \A J : OnceBut(console.copy.history, J) => OnceBut(n.history, J)
    <2>1. PICK s \in SnapsOf(c) : s = console.copy
      BY <1>4
    <2>2. n = Shortened(c, s, {k})
      BY <1>3, <2>1
    <2>3. /\ n \in SnapsOf(c) /\ n.summary = s.summary /\ In(n.history) \subseteq In(s.history)
          /\ \A J : OnceBut(s.history, J) => OnceBut(n.history, J)
      BY <2>2, EditHolds
    <2>4. QED BY <2>1, <2>3
  <1>6. SessionsOf(c)!Save("console", n, <<>>)
    BY <1>2, <1>3
  <1>7. console' \in JobsOf({"idle", "editing"}, c) /\ console'.at = "idle"
    BY <1>1, EmptyIs
  <1>8. LockAgrees'
    BY <1>1, TheJobs DEF LockAgrees
  <1>9. ASSUME ~clash' PROVE Settles("console", n, <<>>)
    <2>1. /\ ~clash /\ answer.at \notin {"recording", "cleaning", "noting", "writing", "storing"} /\ late.at # "storing"
          /\ archiver.at # "committing" /\ picture.at # "storing"
      BY <1>6, <1>9, NobodyLoose
    <2>2. console.copy = file.snap
      BY <1>1, <2>1, TheJobs DEF CopiesAgree
    <2>3. In(file.snap.history) \cap file.snap.summary \subseteq joined /\ OnceBut(file.snap.history, joined)
      BY <2>1, TheTalk DEF HistorySound
    <2>4. StillHolds("console", n)
      BY <1>5, <2>2, <2>3 DEF StillHolds, Told, ShownTo
    <2>5. In(<<>>) = {} /\ OnceBut(<<>>, joined)
      BY NothingIn DEF OnceBut
    <2>6. QED BY <1>1, <1>5, <1>7, <2>1, <2>2, <2>4, <2>5 DEF Settles
  <1>10. <<>> \in Seq(LinesOf(c))
    OBVIOUS
  <1>11. QED BY <1>1, <1>5, <1>6, <1>7, <1>8, <1>9, <1>10, TheJobs, SaveKeeps

-----------------------------------------------------------------------------
(* Purges, crashes, and all steps *)

LEMMA PurgeKeeps ==
  ASSUME NEW c, Chatting(c), HistoryInv(c), SessionsOf(c)!Purge PROVE HistoryInv(c)'
  <1>1. /\ answer.at = "idle" /\ late.at = "idle" /\ picture.at = "idle" /\ archiver.at = "idle"
        /\ file' = [snap |-> SessionsOf(c)!Empty, torn |-> FALSE]
        /\ fate' = [i \in LinesOf(c) |-> IF fate[i] = "new" THEN "new" ELSE "purged"]
        /\ ambient' \in {ambient, <<>>} /\ clash' = (clash \/ picture.at = "storing" \/ console.at = "editing")
        /\ chosen' = chosen /\ said' = said /\ joined' = joined /\ lock' = lock /\ console' = console
        /\ late' = late /\ picture' = picture /\ answer' = answer /\ archiver' = archiver
    BY DEF SessionsOf!Purge, SessionsOf!MayPurge, SessionsOf!HeldLoose, SessionsOf!consoleRest, SessionsOf!Line, LinesOf
  <1>2. /\ file' \in [snap : SnapsOf(c), torn : BOOLEAN] /\ file'.snap.history = <<>> /\ file'.snap.summary = {}
    BY <1>1, EmptyIs
  <1>3. /\ fate' \in [LinesOf(c) -> {"new", "kept", "gone", "purged"}]
        /\ \A i \in LinesOf(c) : fate'[i] = IF fate[i] = "new" THEN "new" ELSE "purged"
    BY <1>1
  <1>4. HistoryTypes(c)'
    <2>1. Typed(c, file, ambient, chosen, lock, answer, late, picture, archiver, console, said, fate, joined)
      BY TypedIs DEF HistoryInv
    <2>2. <<>> \in Seq(LinesOf(c))
      OBVIOUS
    <2>3. Typed(c, file', ambient', chosen', lock', answer', late', picture', archiver', console', said', fate', joined')
      BY <1>1, <1>2, <1>3, <2>1, <2>2 DEF Typed
    <2>4. QED BY <2>3, TypedIs
  <1>5. LockAgrees'
    BY <1>1, TheJobs DEF LockAgrees
  <1>6. ASSUME ~clash' PROVE HistorySound(c)' /\ CopiesAgree' /\ LinesFresh(c)'
    <2>1. ~clash /\ console.at # "editing" /\ LinesFresh(c)
      BY <1>1, <1>6, TheTalk
    <2>2. In(<<>>) = {} /\ \A J : OnceBut(<<>>, J)
      BY NothingIn DEF OnceBut
    <2>3. HistorySound(c)'
      <3>1. Told(file.snap)' = {} /\ In(file.snap.history)' = {} /\ OnceBut(file.snap.history, joined)'
        BY <1>2, <2>2 DEF Told
      <3>2. (Len(file.snap.history) <= c.HistoryLimit)'
        BY <1>2, EmptySeq DEF Chatting
      <3>3. \A i \in LinesOf(c) : fate'[i] # "kept"
        BY <1>3
      <3>4. QED BY <3>1, <3>2, <3>3 DEF HistorySound
    <2>4. CopiesAgree'
      BY <1>1, <2>1 DEF CopiesAgree
    <2>5. LinesFresh(c)'
      <3>1. \A i \in In(ambient) : i \in LinesOf(c)
        BY TheTalk, InOf
      <3>2. \A i \in In(ambient') : i <= said' /\ (fate'[i] = "new" \/ i \in joined')
        BY <1>1, <1>3, <2>1, <2>2, <3>1 DEF LinesFresh
      <3>3. \A i \in LinesOf(c) : i > said' => fate'[i] = "new"
        BY <1>1, <1>3, <2>1 DEF LinesFresh
      <3>4. OnceBut(ambient', joined') /\ chosen' <= said'
        BY <1>1, <2>1, <2>2 DEF LinesFresh
      <3>5. QED BY <1>1, <3>2, <3>3, <3>4 DEF LinesFresh, Fresh
    <2>6. QED BY <2>3, <2>4, <2>5
  <1>7. QED BY <1>4, <1>5, <1>6 DEF HistoryInv

\* Everybody is idle.
LEMMA RestingIs ==
  ASSUME NEW c, Chatting(c), answer' = SessionsOf(c)!Idle, late' = SessionsOf(c)!Idle, picture' = SessionsOf(c)!Idle,
         archiver' = SessionsOf(c)!IdleArchiver, console' = SessionsOf(c)!Idle
  PROVE  /\ answer' \in JobsOf(AnswerPhases, c) /\ late' \in JobsOf(Sendings, c) /\ picture' \in JobsOf(Sendings, c)
         /\ archiver' \in FoldsOf(c) /\ console' \in JobsOf({"idle", "editing"}, c)
         /\ answer'.at = "idle" /\ late'.at = "idle" /\ picture'.at = "idle" /\ archiver'.at = "idle" /\ console'.at = "idle"
  BY EmptyIs DEF AnswerPhases, Sendings

LEMMA CrashKeeps ==
  ASSUME NEW c, Chatting(c), HistoryInv(c), SessionsOf(c)!Crash PROVE HistoryInv(c)'
  <1>1. /\ file' = file \/ file' = [file EXCEPT !.torn = TRUE]
        /\ fate' = fate /\ ambient' = <<>> /\ clash' = clash /\ chosen' = 0 /\ said' = said /\ joined' = joined /\ lock' = "none"
        /\ answer' = SessionsOf(c)!Idle /\ late' = SessionsOf(c)!Idle /\ picture' = SessionsOf(c)!Idle
        /\ archiver' = SessionsOf(c)!IdleArchiver /\ console' = SessionsOf(c)!Idle
    BY DEF SessionsOf!Crash
  <1>2. file' \in [snap : SnapsOf(c), torn : BOOLEAN] /\ file'.snap = file.snap
    BY <1>1, TypedIs DEF HistoryInv, Typed
  <1>3. /\ answer' \in JobsOf(AnswerPhases, c) /\ late' \in JobsOf(Sendings, c) /\ picture' \in JobsOf(Sendings, c)
        /\ archiver' \in FoldsOf(c) /\ console' \in JobsOf({"idle", "editing"}, c)
        /\ answer'.at = "idle" /\ late'.at = "idle" /\ picture'.at = "idle" /\ archiver'.at = "idle" /\ console'.at = "idle"
    BY <1>1, RestingIs
  <1>4. HistoryTypes(c)'
    <2>1. Typed(c, file, ambient, chosen, lock, answer, late, picture, archiver, console, said, fate, joined)
      BY TypedIs DEF HistoryInv
    <2>2. <<>> \in Seq(LinesOf(c)) /\ 0 \in 0..c.Lines
      BY DEF Chatting
    <2>3. Typed(c, file', ambient', chosen', lock', answer', late', picture', archiver', console', said', fate', joined')
      BY <1>1, <1>2, <1>3, <2>1, <2>2 DEF Typed
    <2>4. QED BY <2>3, TypedIs
  <1>5. LockAgrees'
    BY <1>3 DEF LockAgrees
  <1>6. ASSUME ~clash' PROVE HistorySound(c)' /\ CopiesAgree' /\ LinesFresh(c)'
    <2>1. HistorySound(c) /\ LinesFresh(c)
      BY <1>1, <1>6, TheTalk
    <2>2. HistorySound(c)'
      BY <1>1, <1>2, <2>1 DEF HistorySound
    <2>3. CopiesAgree'
      BY <1>3 DEF CopiesAgree
    <2>4. In(ambient') = {} /\ OnceBut(ambient', joined')
      BY <1>1, NothingIn DEF OnceBut
    <2>5. chosen' <= said'
      BY <1>1, TheTalk
    <2>6. QED BY <1>1, <1>3, <2>1, <2>2, <2>3, <2>4, <2>5 DEF LinesFresh, Fresh
  <1>7. QED BY <1>4, <1>5, <1>6 DEF HistoryInv

LEMMA HistoryBegins ==
  ASSUME NEW c, Chatting(c), SessionsOf(c)!Init PROVE HistoryInv(c)
  <1>1. /\ file = [snap |-> SessionsOf(c)!Empty, torn |-> FALSE] /\ ambient = <<>> /\ chosen = 0 /\ lock = "none"
        /\ answer = SessionsOf(c)!Idle /\ late = SessionsOf(c)!Idle /\ picture = SessionsOf(c)!Idle
        /\ archiver = SessionsOf(c)!IdleArchiver /\ console = SessionsOf(c)!Idle
        /\ said = 0 /\ fate = [i \in LinesOf(c) |-> "new"] /\ joined = {} /\ clash = FALSE
    BY DEF SessionsOf!Init, SessionsOf!Line, LinesOf
  <1>2. file \in [snap : SnapsOf(c), torn : BOOLEAN] /\ file.snap.history = <<>> /\ file.snap.summary = {}
    BY <1>1, EmptyIs
  <1>3. /\ answer \in JobsOf(AnswerPhases, c) /\ late \in JobsOf(Sendings, c) /\ picture \in JobsOf(Sendings, c)
        /\ archiver \in FoldsOf(c) /\ console \in JobsOf({"idle", "editing"}, c)
        /\ answer.at = "idle" /\ late.at = "idle" /\ picture.at = "idle" /\ archiver.at = "idle" /\ console.at = "idle"
    BY <1>1, EmptyIs DEF AnswerPhases, Sendings
  <1>4. HistoryTypes(c)
    <2>1. <<>> \in Seq(LinesOf(c)) /\ 0 \in 0..c.Lines
      BY DEF Chatting
    <2>2. fate \in [LinesOf(c) -> {"new", "kept", "gone", "purged"}]
      BY <1>1
    <2>3. Typed(c, file, ambient, chosen, lock, answer, late, picture, archiver, console, said, fate, joined)
      BY <1>1, <1>2, <1>3, <2>1, <2>2 DEF Typed
    <2>4. QED BY <2>3, TypedIs
  <1>5. LockAgrees /\ CopiesAgree
    BY <1>3 DEF LockAgrees, CopiesAgree
  <1>6. In(<<>>) = {} /\ \A J : OnceBut(<<>>, J)
    BY NothingIn DEF OnceBut
  <1>7. HistorySound(c)
    <2>1. Told(file.snap) = {} /\ In(file.snap.history) = {} /\ OnceBut(file.snap.history, joined)
      BY <1>2, <1>6 DEF Told
    <2>2. Len(file.snap.history) <= c.HistoryLimit
      BY <1>2, EmptySeq DEF Chatting
    <2>3. QED BY <1>1, <2>1, <2>2 DEF HistorySound
  <1>8. LinesFresh(c)
    BY <1>1, <1>3, <1>6 DEF LinesFresh, Fresh
  <1>9. QED BY <1>4, <1>5, <1>7, <1>8 DEF HistoryInv

LEMMA HistoryStep ==
  ASSUME NEW c, Chatting(c), HistoryInv(c), [SessionsOf(c)!Next]_(SessionsOf(c)!vars) PROVE HistoryInv(c)'
  <1>1. CASE SessionsOf(c)!Hear \/ SessionsOf(c)!Choose \/ SessionsOf(c)!Begin \/ SessionsOf(c)!JoinIn
    BY <1>1, HearKeeps, ChooseKeeps, BeginKeepsHistory, JoinInKeeps
  <1>2. CASE SessionsOf(c)!Replying
    BY <1>2, RecordKeeps, SilentKeeps, CleanKeeps, RepeatKeeps, NoteKeeps, ReplyWritten, AskPictureKeeps, SentKeeps, StoreKeeps, DeferKeeps DEF SessionsOf!Replying
  <1>3. CASE SessionsOf(c)!Delivering
    BY <1>3, LateSentKeeps, LateStoredKeeps, LateFailsKeeps DEF SessionsOf!Delivering
  <1>4. CASE SessionsOf(c)!PictureSent \/ SessionsOf(c)!PictureStored \/ SessionsOf(c)!PictureFails
    BY <1>4, PictureSentKeeps, PictureStoredKeeps, PictureFailsKeeps
  <1>5. CASE SessionsOf(c)!Archiving
    BY <1>5, ReadSummaryKeeps, ReadLinesKeeps, SummedKeeps, RelockKeeps, CommitKeeps DEF SessionsOf!Archiving
  <1>6. CASE SessionsOf(c)!Open \/ SessionsOf(c)!Edit \/ SessionsOf(c)!Purge \/ SessionsOf(c)!Crash
    BY <1>6, OpenPageKeeps, EditKeeps, PurgeKeeps, CrashKeeps
  <1>7. CASE UNCHANGED SessionsOf(c)!vars
    <2>1. UNCHANGED <<file, ambient, chosen, lock, answer, late, picture, archiver, console, said, fate, joined, clash>>
      BY <1>7 DEF SessionsOf!vars, SessionsOf!work
    <2>2. HistoryTypes(c)' /\ LockAgrees' /\ (~clash' => HistorySound(c)' /\ CopiesAgree' /\ LinesFresh(c)')
      <3>1. HistoryTypes(c)'
        BY <2>1, TheTalk, TypedIs
      <3>2. LockAgrees' /\ (~clash' => CopiesAgree')
        BY <2>1, TheJobs DEF LockAgrees, CopiesAgree
      <3>3. ~clash' => HistorySound(c)' /\ LinesFresh(c)'
        BY <2>1, TheTalk DEF HistorySound, LinesFresh, Fresh
      <3>4. QED BY <3>1, <3>2, <3>3
    <2>3. QED BY <2>2 DEF HistoryInv
  <1>8. QED BY <1>1, <1>2, <1>3, <1>4, <1>5, <1>6, <1>7 DEF SessionsOf!Next

LEMMA HistoryHolds ==
  ASSUME NEW c, HistoryInv(c) PROVE SessionsOf(c)!HistoryKept
  <1>1. SessionsOf(c)!TypeOK
    <2>1. Typed(c, file, ambient, chosen, lock, answer, late, picture, archiver, console, said, fate, joined)
      BY TypedIs DEF HistoryInv
    <2>2. /\ answer.at \in AnswerPhases /\ late.at \in Sendings /\ picture.at \in Sendings /\ console.at \in {"idle", "editing"}
          /\ archiver.at \in FoldPhases
      BY <2>1 DEF Typed, JobsOf, FoldsOf
    <2>3. /\ file \in [snap : SessionsOf(c)!Snapshot, torn : BOOLEAN]
          /\ ambient \in Seq(SessionsOf(c)!Line) /\ fate \in [SessionsOf(c)!Line -> {"new", "kept", "gone", "purged"}]
          /\ joined \subseteq SessionsOf(c)!Line
      BY <2>1 DEF Typed, SnapsOf, SessionsOf!Line, LinesOf
    <2>4. QED BY <2>1, <2>2, <2>3 DEF SessionsOf!TypeOK, Typed, AnswerPhases, Sendings, FoldPhases
  <1>2. ASSUME ~clash PROVE SessionsOf(c)!NothingLost /\ SessionsOf(c)!ShownOnce /\ SessionsOf(c)!PurgedStaysPurged
    <2>1. HistorySound(c)
      BY <1>2 DEF HistoryInv
    <2>2. SessionsOf(c)!History = In(file.snap.history) /\ SessionsOf(c)!Summary = file.snap.summary /\ SessionsOf(c)!Line = LinesOf(c)
      BY HistoryRangeIs DEF SessionsOf!History, SessionsOf!Summary, SessionsOf!Line, LinesOf
    <2>3. QED BY <2>1, <2>2 DEF HistorySound, OnceBut, Told, SessionsOf!NothingLost, SessionsOf!ShownOnce, SessionsOf!PurgedStaysPurged
  <1>3. QED BY <1>1, <1>2 DEF SessionsOf!HistoryKept

\* However replies, deliveries, the archiver, pages, purges and crashes fall, as
\* long as nobody without the lock came between a load and a save, no line that
\* was recorded is lost, none is shown twice but one she joined in on, and what was
\* purged does not come back (memory/session_service.py, runtime/service.py).
THEOREM HistoryCorrect ==
  ASSUME NEW c, Chatting(c)
  PROVE  SessionsOf(c)!Spec => []SessionsOf(c)!HistoryKept
  <1>1. QED BY HistoryBegins, HistoryStep, HistoryHolds, PTL DEF SessionsOf!Spec

LEMMA ChatsAreChatting == Chatting(Chat) /\ Chatting(Page) /\ Chatting(Broken)
  BY DEF Chatting, Chat, Page, Broken

\* On the instances that are checked.
THEOREM HistoryIsKept == MCInit /\ [][MCNext]_MCvars => []HistoryKept
  <1> DEFINE Inv == /\ part = "chat" => HistoryInv(Chat)
                    /\ part = "console" => HistoryInv(Page)
                    /\ part = "crash" => HistoryInv(Broken)
  <1>1. MCInit => Inv
    BY ChatsAreChatting, HistoryBegins DEF MCInit
  <1>2. Inv /\ [MCNext]_MCvars => Inv'
    <2> SUFFICES ASSUME Inv, [MCNext]_MCvars PROVE Inv'
      OBVIOUS
    <2>1. ASSUME part' = "chat" PROVE HistoryInv(Chat)'
      <3>1. part = "chat" /\ (SessionsOf(Chat)!Next \/ UNCHANGED SessionsOf(Chat)!vars)
        BY <2>1 DEF MCNext, MCvars, Of, Sessions, sessionsOnly, SessionsOf!vars, SessionsOf!work
      <3>2. QED BY <3>1, ChatsAreChatting, HistoryStep
    <2>2. ASSUME part' = "console" PROVE HistoryInv(Page)'
      <3>1. part = "console" /\ (SessionsOf(Page)!Next \/ UNCHANGED SessionsOf(Page)!vars)
        BY <2>2 DEF MCNext, MCvars, Of, Sessions, sessionsOnly, SessionsOf!vars, SessionsOf!work
      <3>2. QED BY <3>1, ChatsAreChatting, HistoryStep
    <2>3. ASSUME part' = "crash" PROVE HistoryInv(Broken)'
      <3>1. part = "crash" /\ (SessionsOf(Broken)!Next \/ UNCHANGED SessionsOf(Broken)!vars)
        BY <2>3 DEF MCNext, MCvars, Of, Sessions, sessionsOnly, SessionsOf!vars, SessionsOf!work
      <3>2. QED BY <3>1, ChatsAreChatting, HistoryStep
    <2>4. QED BY <2>1, <2>2, <2>3
  <1>3. Inv => HistoryKept
    BY HistoryHolds DEF HistoryKept
  <1>4. QED BY <1>1, <1>2, <1>3, PTL
=============================================================================
