---------------------------- MODULE ContactPolicy ----------------------------
(***************************************************************************)
(* The contact rules of one private conversation: whether a planned message *)
(* may be sent at an instant, from the stored policy and the attempts that  *)
(* were made.  Reminders and follow-ups both ask it, when they are queued,  *)
(* prepared, dispatched and retried.                                        *)
(*                                                                         *)
(* Time is counted in ticks.  A policy is a record of the fields below; a   *)
(* start of a send is a record [at, kind].                                  *)
(***************************************************************************)
EXTENDS Naturals, FiniteSets

CONSTANTS
  Day,      \* the rolling window of the daily limit, in ticks
  Quiet     \* the ticks inside the configured quiet hours

ASSUME ClockAssumption == Day \in Nat \ {0} /\ Quiet \subseteq Nat

Policy == [proactive : BOOLEAN, paused : BOOLEAN, zoned : BOOLEAN, quiet : BOOLEAN,
           limit : Nat \ {0}, gap : Nat \ {0}]
Attempt == [at : Nat, kind : {"reminder", "followup"}]

\* The attempts of the last day, and those a minimum interval has not cleared.
Recent(used, now) == {a \in used : a.at + Day > now}
Close(used, now, gap) == {a \in Recent(used, now) : a.at + gap > now}

\* Quiet hours need a time zone, the policy's or one the task was given.
QuietAllows(p, now, allowQuiet, zoned) ==
  p.quiet /\ ~allowQuiet => (p.zoned \/ zoned) /\ now \notin Quiet

Allowed(p, used, now, kind, allowQuiet, zoned) ==
  /\ ~p.paused
  /\ kind = "reminder" \/ p.proactive
  /\ QuietAllows(p, now, allowQuiet, zoned)
  /\ Cardinality(Recent(used, now)) < p.limit
  /\ Close(used, now, p.gap) = {}

\* A policy that may be stored: proactive contact needs a confirmed time zone.
Valid(p) == p \in Policy /\ (p.proactive => p.zoned)
===============================================================================
