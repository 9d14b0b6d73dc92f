----------------------------- MODULE MCListening -----------------------------
(* When she speaks: the listening of a group, and what she says unasked, side *)
(* by side on small instances: a behaviour belongs to one of the parts, and   *)
(* the variables that part does not have stay empty.                          *)
EXTENDS Listening

VARIABLES part,
          now, notes, due, watch, chat, dirty, saved, stale, clock, lock, waiting, task, taboo, closing,
          left, fate, said, searched, told, greeted, ignored, slips

companion == <<now, notes, due, watch, chat, dirty, saved, stale, clock, lock, waiting, task, taboo, closing,
               left, fate, said, searched, told, greeted, ignored, slips>>
listening == vars

\* Two reminders and a crash ...
R1 == INSTANCE Companion WITH
  RemindersOn <- TRUE, WatchesOn <- FALSE, GreetingsOn <- FALSE, PerChat <- 2, Late <- 0, Every <- 1,
  Until <- 1, Day <- 3, Hours <- {}, Idle <- 1, PerDay <- 1, DailyLimit <- 1, Stop <- 1,
  WaitLonger <- 1, MaxTime <- 2, Notes <- 2, Watches <- 0, Hears <- 2, Tasks <- 0, Games <- 0,
  Stops <- 0, Crashes <- 1, Fails <- 0

\* ... one, with writes that fail and a crash, or a task and a shutdown ...
R2 == INSTANCE Companion WITH
  RemindersOn <- TRUE, WatchesOn <- FALSE, GreetingsOn <- FALSE, PerChat <- 1, Late <- 1, Every <- 1,
  Until <- 1, Day <- 3, Hours <- {}, Idle <- 1, PerDay <- 1, DailyLimit <- 1, Stop <- 1,
  WaitLonger <- 1, MaxTime <- 3, Notes <- 1, Watches <- 0, Hears <- 1, Tasks <- 0, Games <- 0,
  Stops <- 0, Crashes <- 1, Fails <- 1
R3 == INSTANCE Companion WITH
  RemindersOn <- TRUE, WatchesOn <- FALSE, GreetingsOn <- FALSE, PerChat <- 1, Late <- 1, Every <- 1,
  Until <- 1, Day <- 3, Hours <- {}, Idle <- 1, PerDay <- 1, DailyLimit <- 1, Stop <- 1,
  WaitLonger <- 1, MaxTime <- 3, Notes <- 1, Watches <- 0, Hears <- 1, Tasks <- 1, Games <- 0,
  Stops <- 1, Crashes <- 0, Fails <- 1

\* ... greetings with a crash, or with a game and a failure ...
G1 == INSTANCE Companion WITH
  RemindersOn <- FALSE, WatchesOn <- FALSE, GreetingsOn <- TRUE, PerChat <- 1, Late <- 1, Every <- 1,
  Until <- 1, Day <- 3, Hours <- {1, 2}, Idle <- 1, PerDay <- 2, DailyLimit <- 1, Stop <- 2,
  WaitLonger <- 1, MaxTime <- 4, Notes <- 0, Watches <- 0, Hears <- 2, Tasks <- 0, Games <- 0,
  Stops <- 0, Crashes <- 1, Fails <- 0
G2 == INSTANCE Companion WITH
  RemindersOn <- FALSE, WatchesOn <- FALSE, GreetingsOn <- TRUE, PerChat <- 1, Late <- 1, Every <- 1,
  Until <- 1, Day <- 3, Hours <- {1, 2}, Idle <- 1, PerDay <- 2, DailyLimit <- 2, Stop <- 1,
  WaitLonger <- 1, MaxTime <- 4, Notes <- 0, Watches <- 0, Hears <- 1, Tasks <- 0, Games <- 1,
  Stops <- 0, Crashes <- 0, Fails <- 1

\* ... and a watch with a crash.
W == INSTANCE Companion WITH
  RemindersOn <- FALSE, WatchesOn <- TRUE, GreetingsOn <- FALSE, PerChat <- 1, Late <- 1, Every <- 1,
  Until <- 2, Day <- 3, Hours <- {0, 1, 2}, Idle <- 1, PerDay <- 1, DailyLimit <- 1, Stop <- 1,
  WaitLonger <- 1, MaxTime <- 2, Notes <- 0, Watches <- 1, Hears <- 2, Tasks <- 0, Games <- 0,
  Stops <- 0, Crashes <- 1, Fails <- 0

NoCompanion ==
  /\ now = 0 /\ notes = 0 /\ due = 0 /\ watch = 0 /\ chat = 0 /\ dirty = 0 /\ saved = 0 /\ stale = 0
  /\ clock = 0 /\ lock = 0 /\ waiting = 0 /\ task = 0 /\ taboo = 0 /\ closing = 0 /\ left = 0
  /\ fate = 0 /\ said = 0 /\ searched = 0 /\ told = 0 /\ greeted = 0 /\ ignored = 0 /\ slips = 0

MCInit ==
  /\ Init
  /\ \/ part = "group" /\ NoCompanion
     \/ part = "reminders" /\ R1!Init
     \/ part = "reminder" /\ R2!Init
     \/ part = "task" /\ R3!Init
     \/ part = "greetings" /\ G1!Init
     \/ part = "game" /\ G2!Init
     \/ part = "watch" /\ W!Init

Of(p, A) == part = p /\ A /\ UNCHANGED part
Group(A) == Of("group", A /\ UNCHANGED companion)
Alone(p, A) == Of(p, A /\ UNCHANGED listening)
Promises(A, B, C) == Alone("reminders", A) \/ Alone("reminder", B) \/ Alone("task", C)

MCNext ==
  \/ Group(Next) \/ Promises(R1!Next, R2!Next, R3!Next)
  \/ Alone("greetings", G1!Next) \/ Alone("game", G2!Next) \/ Alone("watch", W!Next)

MCvars == <<part, listening, companion>>

\* The fairness of both modules, for the parts about which something is said that
\* happens in the end; only the actions of one part are ever enabled.
MCFairSpec ==
  /\ MCInit /\ [][MCNext]_MCvars
  /\ \A i \in Messages : WF_MCvars(Group(Enter(i))) /\ WF_MCvars(Group(Handle(i)))
  /\ WF_MCvars(Group(Check))
  /\ WF_MCvars(Promises(R1!Pass, R2!Pass, R3!Pass))
  /\ WF_MCvars(Promises(R1!Ticking, R2!Ticking, R3!Ticking))
  /\ SF_MCvars(Promises(R1!Doing, R2!Doing, R3!Doing))
  /\ SF_MCvars(Promises(R1!ReplyEnds, R2!ReplyEnds, R3!ReplyEnds))

\* What she was asked to remember is said, once, news is told as news, and nobody
\* is pestered, whatever crashes (reply_flow/companion.py).
SpeaksFirstKept ==
  /\ (part = "reminders" => R1!SpeaksFirstKept) /\ (part = "reminder" => R2!SpeaksFirstKept)
  /\ (part = "task" => R3!SpeaksFirstKept)
  /\ (part = "greetings" => G1!SpeaksFirstKept) /\ (part = "game" => G2!SpeaksFirstKept)
  /\ (part = "watch" => W!SpeaksFirstKept)

\* A message in a group is dealt with, a reminder is said or given up as long as
\* the clock runs, and a task has its say.
Pending(i) ==
  \/ part = "group" /\ UnderWay(i)
  \/ part = "reminders" /\ i <= 2 /\ R1!Owed(i)
  \/ part = "reminder" /\ i = 1 /\ R2!Owed(i)
  \/ part = "task" /\ ((i = 1 /\ R3!Owed(i)) \/ (i = 2 /\ task # "none"))
SpeakingEnds == \A i \in 1..3 : Pending(i) ~> ~Pending(i)
=============================================================================
