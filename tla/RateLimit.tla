------------------------------ MODULE RateLimit ------------------------------
(* The token buckets of infra/rate_limit.py, which ration the group's replies *)
(* (reply_flow/reply_gate.py) and the tools that cost money                   *)
(* (skills/dispatcher.py).  A bucket is topped up only when it is asked, and  *)
(* the one that was asked longest ago makes room for a new one.  Tokens are   *)
(* counted in parts, Whole of them to a token, so that a bucket may gain less *)
(* than one at a tick.                                                        *)
EXTENDS Integers, Sequences, FiniteSets, Functions

CONSTANTS Key,        \* the buckets
          Capacity,   \* [Key -> tokens]
          Refill,     \* [Key -> parts gained at a tick]
          Whole,      \* parts of a token
          Demands,    \* the sets of buckets one call asks together
          MaxBuckets, \* max_buckets
          MaxTime     \* bound

VARIABLES
    now,
    bucket,   \* _buckets: [Key -> [parts, at]]
    order,    \* _buckets' order: the buckets kept, longest ago first
    \* for the properties
    steady,   \* [Key -> parts of a bucket that is topped up at every tick]
    evicted   \* buckets that ever made room

vars == <<now, bucket, order, steady, evicted>>

Full(k) == Capacity[k] * Whole
Least(a, b) == IF a <= b THEN a ELSE b
Kept == Range(order)

TypeOK ==
    /\ now \in 0..MaxTime /\ bucket \in [Key -> [parts : Nat, at : 0..MaxTime]]
    /\ order \in Seq(Key) /\ Cardinality(Kept) = Len(order) /\ Len(order) <= MaxBuckets

Init ==
    /\ now = 0 /\ bucket = [k \in Key |-> [parts |-> 0, at |-> 0]] /\ order = <<>>
    /\ steady = [k \in Key |-> Full(k)] /\ evicted = {}

\* Time passes; only the reference sees it.
Tick ==
    /\ now < MaxTime /\ now' = now + 1
    /\ steady' = [k \in Key |-> Least(Full(k), steady[k] + Refill[k])]
    /\ UNCHANGED <<bucket, order, evicted>>

\* A bucket that is not kept starts full.
Refreshed(k) ==
    IF k \in Kept THEN Least(Full(k), bucket[k].parts + (now - bucket[k].at) * Refill[k]) ELSE Full(k)

Granted(demand) == \A k \in demand : Refreshed(k) >= Whole

\* Mutant: a bucket that has a token gives it, whatever the others have.
SpendApart(demand, k) == IF Refreshed(k) >= Whole THEN Whole ELSE 0

\* All of them give one, or none.
Spend(demand, k) == IF Granted(demand) THEN Whole ELSE 0

\* move_to_end: one bucket after another becomes the newest ...
Without(queue, k) ==
    IF k \notin Range(queue) THEN queue
    ELSE LET i == CHOOSE i \in DOMAIN queue : queue[i] = k
         IN  SubSeq(queue, 1, i - 1) \o SubSeq(queue, i + 1, Len(queue))
Newest(queue, k) == IF Capacity[k] = 0 THEN queue ELSE Append(Without(queue, k), k)
Queue(asked) ==
    LET after[n \in 0..Len(asked)] == IF n = 0 THEN order ELSE Newest(after[n - 1], asked[n])
    IN  after[Len(asked)]

\* ... and those too many go, the oldest first.
Trim(queue) == IF Len(queue) <= MaxBuckets THEN queue
               ELSE SubSeq(queue, Len(queue) - MaxBuckets + 1, Len(queue))

\* The reference gives what it has, also when the bucket had been forgotten.
Taken(parts) == IF parts >= Whole THEN parts - Whole ELSE 0

Acquire(asked) ==
    LET demand == {k \in Range(asked) : Capacity[k] > 0}
        queue == Queue(asked) IN
    /\ bucket' = [k \in Key |-> IF k \in demand THEN [parts |-> Refreshed(k) - Spend(demand, k), at |-> now]
                                ELSE bucket[k]]
    /\ order' = Trim(queue)
    /\ evicted' = evicted \cup (Range(queue) \ Range(Trim(queue)))
    /\ steady' = IF Granted(demand) THEN [k \in Key |-> IF k \in demand THEN Taken(steady[k]) ELSE steady[k]]
                 ELSE steady
    /\ UNCHANGED now

\* What a refused call is told to wait, in ticks; buckets that never refill are
\* not waited for.
Ceil(a, b) == (a + b - 1) \div b
Wait(k) == IF Refreshed(k) >= Whole THEN 0 ELSE Ceil(Whole - Refreshed(k), Refill[k])

Next == Tick \/ \E asked \in Demands : Acquire(asked)
Spec == Init /\ [][Next]_vars

-----------------------------------------------------------------------------
(* Properties *)

\* What a bucket gives is what one that is topped up all the time would give,
\* whoever asked which buckets together and however often in vain; after it made
\* room it may give more, never less (the module's docstring).  A caller that
\* waits as long as it was told, and not a tick less, finds a token.
TokensExact ==
    TypeOK /\ \A k \in Key :
      /\ Refreshed(k) >= steady[k]
      /\ k \notin evicted => Refreshed(k) = steady[k]
      /\ k \in Kept /\ Refill[k] > 0 /\ Wait(k) > 0 =>
           /\ bucket[k].parts + (now + Wait(k) - bucket[k].at) * Refill[k] >= Whole
           /\ bucket[k].parts + (now + Wait(k) - 1 - bucket[k].at) * Refill[k] < Whole
=============================================================================
