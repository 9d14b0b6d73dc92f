----------------------------- MODULE MCReminders -----------------------------
(* Instances of Reminders: what people ask, and how much happens in a run. *)
EXTENDS Reminders

Free    == [proactive |-> FALSE, paused |-> FALSE, zoned |-> FALSE, quiet |-> FALSE, limit |-> 3, gap |-> 1]
Paused  == [Free EXCEPT !.paused = TRUE]
Nightly == [Free EXCEPT !.quiet = TRUE, !.zoned = TRUE]
Rare    == [Free EXCEPT !.limit = 1, !.gap = 2]
AllRules   == {Free, Paused, Nightly, Rare}

Ask(op, t, due) == [op |-> op, task |-> t, due |-> due, zoned |-> FALSE, quiet |-> FALSE]
Exceptional(r)  == [r EXCEPT !.zoned = TRUE, !.quiet = TRUE]
CreateAll == {Ask("create", t, 1) : t \in Tasks}
Manage    == CreateAll \cup {Ask("cancel", 1, 1), Ask("postpone", 1, 2), Exceptional(Ask("create", 1, 2))}
Recall    == {Ask("create", 1, 1), Ask("cancel", 1, 1), Ask("postpone", 1, 2)}

\* Any Few of the requests, commands, changes and crashes, in any order.
CONSTANT Few
FewThings ==
  requests.admin + changes + crashes + Cardinality({i \in DOMAIN events : events[i].kind = "command"}) <= Few
==============================================================================
