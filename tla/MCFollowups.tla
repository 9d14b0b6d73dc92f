----------------------------- MODULE MCFollowups -----------------------------
(* Instances of Followups: the policies people set, and how much happens. *)
EXTENDS Followups

Wanted == [proactive |-> TRUE, paused |-> FALSE, zoned |-> TRUE, quiet |-> FALSE, limit |-> 3, gap |-> 1]
Unwanted == [Wanted EXCEPT !.proactive = FALSE]
OnAndOff == {Wanted, Unwanted}

\* Any Few of the requests, changes, crashes and rows that come in, in any order.
CONSTANT Few
FewThings ==
  used.changes + used.requests + used.crashes
    + Cardinality({i \in DOMAIN events : events[i].kind # "followup"}) <= Few
==============================================================================
