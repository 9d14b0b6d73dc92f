----------------------------- MODULE MCServices -----------------------------
(* The tavern, the history of a chat, the decisions of operators, the rate    *)
(* limits and the members of a group, on small instances side by side: a      *)
(* behaviour belongs to one of the parts, and the variables that part does    *)
(* not have stay empty.                                                       *)
EXTENDS Naturals, Sequences

CONSTANTS Early, Later, Nobody   \* replies to a member of a group

ASSUME MembersAssumption == Nobody \notin {Early, Later}

VARIABLES part,
          table, seated, checked, disk, saves, runner, batch, stalled, handler, idle, bowl,
          begun, crashes, answered, script, missed, dropped, stuck, stray,
          file, ambient, chosen, lock, answer, late, picture, archiver, console, fate, joined, clash,
          main, journal, copies, up, failed, page, things, forked,
          now, bucket, order, steady, evicted,
          member, bond, holder, talk, writeback, ran, sheet, notices, listing, platform, told, due,
          stale, asked, edits,
          said, left

tavernOnly == <<table, seated, checked, disk, saves, runner, batch, stalled, handler, idle, bowl,
                begun, crashes, answered, script, missed, dropped, stuck, stray>>
sessionsOnly == <<file, ambient, chosen, lock, answer, late, picture, archiver, console, fate, joined, clash>>
operatorsOnly == <<main, journal, copies, up, failed, page, things, forked>>
limitsOnly == <<now, bucket, order, steady, evicted>>
membersOnly == <<member, bond, holder, talk, writeback, ran, sheet, notices, listing, platform,
                 told, due, stale, asked, edits>>
MCvars == <<part, tavernOnly, sessionsOnly, operatorsOnly, limitsOnly, membersOnly, said, left>>

\* Two people play one story ...
Story == [Players |-> {"p1", "p2"}, MaxPlayers |-> 2, PendingMax |-> 2, Lines |-> 3, Games |-> 1, Crashes |-> 0]

\* ... and one person plays two, taken up again in turn, with a crash.
Stories == [Players |-> {"p1"}, MaxPlayers |-> 2, PendingMax |-> 1, Lines |-> 2, Games |-> 2, Crashes |-> 1]

TavernOf(c) == INSTANCE Tavern WITH
  Players <- c.Players, MaxPlayers <- c.MaxPlayers, PendingMax <- c.PendingMax, Lines <- c.Lines,
  Games <- c.Games, Crashes <- c.Crashes

\* Replies, one of them late, a picture, and an archiver whose lines fall off the end ...
Chat == [HistoryLimit |-> 2, Keep |-> 1, Batch |-> 1, Foreign |-> {2}, Lines |-> 3, Pictures |-> 1, Edits |-> 0, Purges |-> 0, Crashes |-> 0]

\* ... the console and a purge ...
Page == [Chat EXCEPT !.Lines = 2, !.Pictures = 0, !.Edits = 1, !.Purges = 1]

\* ... and a picture, a purge and a crash.
Broken == [Chat EXCEPT !.Lines = 2, !.Purges = 1, !.Crashes = 1]

SessionsOf(c) == INSTANCE Sessions WITH
  HistoryLimit <- c.HistoryLimit, Keep <- c.Keep, Batch <- c.Batch, Foreign <- c.Foreign, Lines <- c.Lines, Pictures <- c.Pictures,
  Edits <- c.Edits, Purges <- c.Purges, Crashes <- c.Crashes, reply <- answer

\* Two operators decide about one send and one erasure ...
Desk == [Operator |-> {"o1", "o2"}, MaxThings |-> 3, Erasures |-> 1, Backups |-> 0, Restores |-> 0, Stops |-> 0]

\* ... and one erases twice and brings two backups back.
Files == [Operator |-> {"o1"}, MaxThings |-> 1, Erasures |-> 2, Backups |-> 2, Restores |-> 2, Stops |-> 2]

OperatorsOf(c) == INSTANCE Operators WITH
  Operator <- c.Operator, MaxThings <- c.MaxThings, Erasures <- c.Erasures, Backups <- c.Backups,
  Restores <- c.Restores, Stops <- c.Stops

\* Two users, one of whom gets no tokens back, share a group, and there is room
\* for two buckets.
Buckets == [Key |-> {"u1", "u2", "g", "off"},
  Capacity |-> [u1 |-> 1, u2 |-> 2, g |-> 2, off |-> 0], Refill |-> [u1 |-> 2, u2 |-> 0, g |-> 1, off |-> 1],
  Whole |-> 3, Demands |-> {<<"u1", "g">>, <<"u2", "g">>, <<"u1", "off">>}, MaxBuckets |-> 2, MaxTime |-> 5]

LimitsOf(c) == INSTANCE RateLimit WITH
  Key <- c.Key, Capacity <- c.Capacity, Refill <- c.Refill, Whole <- c.Whole, Demands <- c.Demands,
  MaxBuckets <- c.MaxBuckets, MaxTime <- c.MaxTime

\* A reply at once, the write-back it leaves behind, notices, a list and the console ...
Alone == [Replies |-> {Early}, Unprompted |-> {}, Delayed |-> FALSE, Fragments |-> 1, MaxNews |-> 3, None |-> Nobody]

\* ... and two delayed replies, one of which nobody asked for.
Group == [Alone EXCEPT !.Replies = {Early, Later}, !.Unprompted = {Early}, !.Delayed = TRUE, !.MaxNews = 2]

MembersOf(c) == INSTANCE Members WITH
  Replies <- c.Replies, Unprompted <- c.Unprompted, Delayed <- c.Delayed, Fragments <- c.Fragments,
  MaxNews <- c.MaxNews, None <- c.None, lock <- holder, reply <- talk, page <- sheet

NoTavern ==
  table = 0 /\ seated = 0 /\ checked = 0 /\ disk = 0 /\ saves = 0 /\ runner = 0 /\ batch = 0
  /\ stalled = 0 /\ handler = 0 /\ idle = 0 /\ bowl = 0 /\ begun = 0 /\ crashes = 0 /\ answered = 0
  /\ script = 0 /\ missed = 0 /\ dropped = 0 /\ stuck = 0 /\ stray = 0
NoSessions ==
  file = 0 /\ ambient = 0 /\ chosen = 0 /\ lock = 0 /\ answer = 0 /\ late = 0 /\ picture = 0
  /\ archiver = 0 /\ console = 0 /\ fate = 0 /\ joined = 0 /\ clash = 0
NoOperators ==
  main = 0 /\ journal = 0 /\ copies = 0 /\ up = 0 /\ failed = 0 /\ page = 0 /\ things = 0 /\ forked = 0
NoLimits == now = 0 /\ bucket = 0 /\ order = 0 /\ steady = 0 /\ evicted = 0
NoMembers ==
  member = 0 /\ bond = 0 /\ holder = 0 /\ talk = 0 /\ writeback = 0 /\ ran = 0 /\ sheet = 0
  /\ notices = 0 /\ listing = 0 /\ platform = 0 /\ told = 0 /\ due = 0 /\ stale = 0 /\ asked = 0
  /\ edits = 0

MCInit ==
  \/ /\ NoSessions /\ NoOperators /\ NoLimits /\ NoMembers /\ left = 0
     /\ \/ part = "game" /\ TavernOf(Story)!Init
        \/ part = "games" /\ TavernOf(Stories)!Init
  \/ /\ NoTavern /\ NoOperators /\ NoLimits /\ NoMembers
     /\ \/ part = "chat" /\ SessionsOf(Chat)!Init
        \/ part = "console" /\ SessionsOf(Page)!Init
        \/ part = "crash" /\ SessionsOf(Broken)!Init
  \/ /\ NoTavern /\ NoSessions /\ NoLimits /\ NoMembers /\ said = 0
     /\ \/ part = "decisions" /\ OperatorsOf(Desk)!Init
        \/ part = "files" /\ OperatorsOf(Files)!Init
  \/ /\ NoTavern /\ NoSessions /\ NoOperators /\ NoMembers /\ said = 0 /\ left = 0
     /\ part = "limits" /\ LimitsOf(Buckets)!Init
  \/ /\ NoTavern /\ NoSessions /\ NoOperators /\ NoLimits /\ said = 0 /\ left = 0
     /\ \/ part = "member" /\ MembersOf(Alone)!Init
        \/ part = "group" /\ MembersOf(Group)!Init

Of(p, A) == part = p /\ A /\ UNCHANGED part
Tavern(A) == A /\ UNCHANGED <<sessionsOnly, operatorsOnly, limitsOnly, membersOnly, left>>
Sessions(A) == A /\ UNCHANGED <<tavernOnly, operatorsOnly, limitsOnly, membersOnly>>
Operators(A) == A /\ UNCHANGED <<tavernOnly, sessionsOnly, limitsOnly, membersOnly, said>>
Limits(A) == A /\ UNCHANGED <<tavernOnly, sessionsOnly, operatorsOnly, membersOnly, said, left>>
Members(A) == A /\ UNCHANGED <<tavernOnly, sessionsOnly, operatorsOnly, limitsOnly, said, left>>

MCNext ==
  \/ Of("game", Tavern(TavernOf(Story)!Next)) \/ Of("games", Tavern(TavernOf(Stories)!Next))
  \/ Of("chat", Sessions(SessionsOf(Chat)!Next)) \/ Of("console", Sessions(SessionsOf(Page)!Next))
  \/ Of("crash", Sessions(SessionsOf(Broken)!Next))
  \/ Of("decisions", Operators(OperatorsOf(Desk)!Next)) \/ Of("files", Operators(OperatorsOf(Files)!Next))
  \/ Of("limits", Limits(LimitsOf(Buckets)!Next))
  \/ Of("member", Members(MembersOf(Alone)!Next)) \/ Of("group", Members(MembersOf(Group)!Next))

\* The fairness of each module; only the actions of one part are ever enabled.
Rounds     == Of("game", Tavern(TavernOf(Story)!Rounds)) \/ Of("games", Tavern(TavernOf(Stories)!Rounds))
Replying   == Of("chat", Sessions(SessionsOf(Chat)!Replying)) \/ Of("console", Sessions(SessionsOf(Page)!Replying))
              \/ Of("crash", Sessions(SessionsOf(Broken)!Replying))
LateStored == Of("chat", Sessions(SessionsOf(Chat)!LateStored)) \/ Of("console", Sessions(SessionsOf(Page)!LateStored))
              \/ Of("crash", Sessions(SessionsOf(Broken)!LateStored))
Archiving  == Of("chat", Sessions(SessionsOf(Chat)!Archiving)) \/ Of("console", Sessions(SessionsOf(Page)!Archiving))
              \/ Of("crash", Sessions(SessionsOf(Broken)!Archiving))

MCFairSpec ==
  /\ MCInit /\ [][MCNext]_MCvars
  /\ WF_MCvars(Rounds) /\ WF_MCvars(Replying) /\ WF_MCvars(LateStored) /\ SF_MCvars(Archiving)

\* What a game holds is on disk: no line is answered twice, lost or taken for
\* answered when it was not, no game that was begun is lost (tavern/mode.py).
TableKept == (part = "game" => TavernOf(Story)!TableKept) /\ (part = "games" => TavernOf(Stories)!TableKept)

\* The history loses nothing, shows nothing twice and brings nothing back that was
\* purged, whatever replies, late deliveries, the archiver and crashes come
\* between one another
\* (memory/session_service.py, runtime/service.py).
HistoryKept ==
  (part = "chat" => SessionsOf(Chat)!HistoryKept) /\ (part = "console" => SessionsOf(Page)!HistoryKept) /\ (part = "crash" => SessionsOf(Broken)!HistoryKept)

\* Operators decide about what their pages showed, and no backup brings back what
\* the journal says is deleted (resolve_delivery, erase_conversation, replay,
\* check_inspection).
OperatorsHeeded ==
  /\ part = "decisions" => OperatorsOf(Desk)!DecidedAsSeen /\ OperatorsOf(Desk)!ErasedStaysErased
  /\ part = "files" => OperatorsOf(Files)!DecidedAsSeen /\ OperatorsOf(Files)!ErasedStaysErased

\* A bucket that is topped up when asked gives what one topped up all the time
\* would, and refusals say how long to wait (infra/rate_limit.py).
TokensExact == part = "limits" => LimitsOf(Buckets)!TokensExact

\* What is remembered of a member is what was said last, unless an older copy of the
\* whole row was saved over it (repositories/runtime_state.py, persona_guard.py).
MembersKept == (part = "member" => MembersOf(Alone)!MembersKept) /\ (part = "group" => MembersOf(Group)!MembersKept)

\* A line of a game is answered by a later round, and the archiver of a chat ends.
Unsettled(i) ==
  \/ (part = "game" /\ TavernOf(Story)!Waits(i)) \/ (part = "games" /\ i <= 2 /\ TavernOf(Stories)!Waits(i))
  \/ i = 1 /\ part \in {"chat", "console", "crash"} /\ archiver.at # "idle"
ServicesEnd == \A i \in 1..3 : Unsettled(i) ~> ~Unsettled(i)
=============================================================================
