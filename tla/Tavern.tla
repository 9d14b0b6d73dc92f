-------------------------------- MODULE Tavern --------------------------------
(* The tavern of one chat (tavern/mode.py, tavern/session.py): a story game    *)
(* played by SillyTavern, from its menu to its end or to the next time it is   *)
(* taken up, and the riddles (tavern/soup.py) that take turns with it.         *)
(* The messages of a chat are handled one at a time, under its lock; beside    *)
(* them run the rounds, the timer of an idle game, and crashes.  Lines and     *)
(* the program's own notes are numbered as they are put down.                  *)
(* A limit that passes is a choice, but for one: a game that has just been     *)
(* touched outlasts the call that opens it.                                    *)
EXTENDS Integers, Sequences, FiniteSets, Functions

CONSTANTS Players,      \* who may host, join and leave
          MaxPlayers,   \* tavern.max_players
          PendingMax,   \* _PENDING_MAX
          Lines,        \* bound: lines and notes put down
          Games,        \* bound: games begun
          Crashes       \* bound

VARIABLES
    table,     \* the TavernSession in use, or the last one
    seated,    \* whether it is in _sessions
    checked,   \* whether the chat's file has been looked at since the start
    disk,      \* sessions/<chat>.json
    saves,     \* archive/: [game -> TavernSession]
    runner,    \* _run_rounds: "none", "gathering", "writing", "telling", "stalling"
    batch,     \* the lines of the round
    stalled,   \* _stalled
    handler,   \* of the message at hand: [at, save]
    idle,      \* no activity for longer than the limit
    bowl,      \* a riddle is out
    said, begun, crashes,
    \* for the properties
    answered,  \* [line -> rounds that answered it, as the program counts them]
    script,      \* SillyTavern's chat: [line -> 0, 1, or 2 for "more than once"]
    missed,    \* lines of rounds that SillyTavern wrote and whose reply did not come to the table
    dropped,   \* lines above the cap, and those a game left open when it ended
    stuck,     \* rounds have stopped over a failure until somebody speaks
    stray      \* a game was written to disk that is not at the table

tableVars == <<table, seated, disk, saves, idle>>
pageVars == <<script, missed>>
roundVars == <<runner, batch, stalled, stuck, answered, pageVars>>
vars == <<tableVars, roundVars, checked, handler, bowl, said, begun, crashes, dropped, stray>>

Line == 1..Lines
Game == 1..Games
Nothing == [stage |-> "none"]
Session == [stage : {"menu", "saves", "playing"}, game : 0..Games, host : Players,
            players : SUBSET Players, pending : Seq(Line), over : BOOLEAN]

TypeOK ==
    /\ table \in Session \cup {Nothing} /\ disk \in Session \cup {Nothing}
    /\ saves \in [Game -> Session \cup {Nothing}]
    /\ runner \in {"none", "gathering", "writing", "telling", "stalling"}
    /\ batch \subseteq Line /\ dropped \subseteq Line
    /\ handler.at \in {"none", "picking", "opening", "loading", "rolling"}
    /\ {seated, checked, stalled, idle, bowl, stuck, stray} \subseteq BOOLEAN
    /\ said \in 0..Lines /\ begun \in 0..Games /\ crashes \in 0..Crashes
    /\ answered \in [Line -> Nat]
    /\ script \in [Line -> 0..2] /\ missed \subseteq Line

NoHandler == [at |-> "none", save |-> Nothing]
Handling(w) == [at |-> w, save |-> Nothing]

Init ==
    /\ table = Nothing /\ seated = FALSE /\ checked = FALSE
    /\ disk = Nothing /\ saves = [g \in Game |-> Nothing]
    /\ runner = "none" /\ batch = {} /\ stalled = FALSE /\ stuck = FALSE
    /\ handler = NoHandler /\ idle = FALSE /\ bowl = FALSE
    /\ said = 0 /\ begun = 0 /\ crashes = 0
    /\ answered = [i \in Line |-> 0] /\ dropped = {} /\ stray = FALSE
    /\ script = [i \in Line |-> 0] /\ missed = {}

-----------------------------------------------------------------------------
(* Sessions and files *)

Sit(t) == table' = t /\ disk' = t

\* SillyTavern puts the round and its reply into its chat.
Wrote == script' = [i \in Line |-> IF i \notin batch THEN script[i] ELSE IF script[i] = 0 THEN 1 ELSE 2]

\* What becomes of a round that the program does not wait for: SillyTavern has not
\* written it, or has and goes unheard.
Unheard ==
    \/ UNCHANGED pageVars
    \/ runner = "writing" /\ Wrote /\ missed' = missed \cup batch

\* A finished game is kept under archive/ and its file goes; a menu just goes.
Archived(t) == IF t.game = 0 THEN saves ELSE [saves EXCEPT ![t.game] = t]

End ==
    /\ seated' = FALSE /\ disk' = Nothing /\ saves' = Archived(table)
    /\ runner' = "none" /\ batch' = {} /\ stalled' = FALSE /\ stuck' = FALSE
    /\ Unheard
    /\ UNCHANGED <<table, idle, answered>>

Capped(pending, i) ==
    IF Len(pending) = PendingMax THEN Append(Tail(pending), i) ELSE Append(pending, i)

\* Mutant: only the first line that waits starts the rounds.
WokenByFirst == IF runner = "none" /\ seated /\ table.pending = <<>> THEN "gathering" ELSE runner

\* The rounds are started unless they run; they find no game that was ended.
Woken == IF runner = "none" /\ seated THEN "gathering" ELSE runner

\* _queue: the line is put down and saved, also when the game has ended meanwhile.
Queue(t) ==
    /\ said < Lines /\ said' = said + 1
    /\ Sit([t EXCEPT !.pending = Capped(t.pending, said + 1)])
    /\ dropped' = dropped \cup (Range(t.pending) \ Range(table'.pending))
    /\ runner' = Woken
    /\ stuck' = (stuck /\ runner # "none")
    /\ stray' = (stray \/ ~seated)
    /\ idle' = FALSE
    /\ UNCHANGED <<seated, saves, batch, stalled, answered, pageVars, checked, bowl, begun, crashes>>

\* The first message after a start has the chat's file looked up: its game goes
\* on unless it went stale.  What else the message does is a further message.
PickUp ==
    /\ handler = NoHandler /\ ~checked /\ checked' = TRUE
    /\ \/ /\ disk = Nothing
          /\ UNCHANGED <<tableVars, roundVars>>
       \/ /\ disk # Nothing                        \* stale
          /\ saves' = Archived(disk) /\ disk' = Nothing
          /\ UNCHANGED <<table, seated, idle, roundVars>>
       \/ /\ disk # Nothing /\ ~idle
          /\ table' = disk /\ seated' = TRUE
          /\ runner' = IF disk.stage = "playing" /\ disk.pending # <<>> THEN "gathering" ELSE "none"
          /\ UNCHANGED <<disk, saves, idle, batch, stalled, stuck, answered, pageVars>>
    /\ UNCHANGED <<handler, bowl, said, begun, crashes, dropped, stray>>

-----------------------------------------------------------------------------
(* The menu *)

Free == checked /\ handler = NoHandler
May(stage) == Free /\ seated /\ table.stage = stage

\* A menu of cards, or of this chat's unfinished games.
OpenMenu(p) ==
    /\ Free /\ ~seated /\ ~bowl
    /\ \E stage \in {"menu", "saves"} :
         /\ stage = "saves" => \E g \in Game : saves[g] # Nothing /\ ~saves[g].over
         /\ Sit([stage |-> stage, game |-> 0, host |-> p, players |-> {}, pending |-> <<>>, over |-> FALSE])
    /\ seated' = TRUE /\ idle' = FALSE
    /\ UNCHANGED <<saves, roundVars, checked, handler, bowl, said, begun, crashes, dropped, stray>>

Pick ==
    /\ May("menu")
    /\ handler' = Handling("picking")
    /\ UNCHANGED <<tableVars, roundVars, checked, bowl, said, begun, crashes, dropped, stray>>

\* SillyTavern has listed its cards; the pick may name none of them.
Picked ==
    /\ handler.at = "picking"
    /\ \/ /\ handler' = NoHandler
          /\ UNCHANGED tableVars
       \/ /\ handler' = Handling("opening") /\ begun < Games
          /\ table' = [table EXCEPT !.stage = "playing", !.players = {table.host}]
          /\ idle' = FALSE
          /\ UNCHANGED <<seated, disk, saves>>
    /\ UNCHANGED <<roundVars, checked, bowl, said, begun, crashes, dropped, stray>>

\* The game has its chat in SillyTavern, and is written down, whether or not the
\* menu it was picked from has been closed meanwhile.  A card without an opening
\* is asked for one.
Opened ==
    /\ handler.at = "opening" /\ handler' = NoHandler
    /\ begun' = begun + 1
    /\ \/ /\ Sit([table EXCEPT !.game = begun + 1])
          /\ stray' = (stray \/ ~seated)
          /\ UNCHANGED <<seated, saves, idle, roundVars, said, dropped, checked, bowl, crashes>>
       \/ /\ said < Lines /\ said' = said + 1
          /\ Sit([table EXCEPT !.game = begun + 1, !.pending = <<said + 1>>])
          /\ runner' = Woken /\ stuck' = FALSE
          /\ stray' = (stray \/ ~seated)
          /\ UNCHANGED <<seated, saves, idle, batch, stalled, answered, pageVars, dropped, checked, bowl, crashes>>

OpenFails ==
    /\ handler.at = "opening" /\ handler' = NoHandler
    /\ End
    /\ UNCHANGED <<checked, bowl, said, begun, crashes, dropped, stray>>

PickSave ==
    /\ May("saves")
    /\ \E g \in Game : /\ saves[g] # Nothing /\ ~saves[g].over
                       /\ handler' = [at |-> "loading", save |-> saves[g]]
    /\ UNCHANGED <<tableVars, roundVars, checked, bowl, said, begun, crashes, dropped, stray>>

\* The game plays on for whoever picked it; lines it was left with are put aside.
Resumed(t) == [t EXCEPT !.host = table.host, !.players = @ \cup {table.host}, !.pending = <<>>]

Loaded ==
    /\ handler.at = "loading" /\ handler' = NoHandler
    /\ Sit(Resumed(handler.save))
    /\ seated' = TRUE /\ stalled' = FALSE /\ stuck' = FALSE /\ idle' = FALSE
    /\ dropped' = dropped \cup Range(handler.save.pending)
    /\ UNCHANGED <<saves, runner, batch, answered, pageVars, checked, bowl, said, begun, crashes, stray>>

LoadFails ==
    /\ handler.at = "loading" /\ handler' = NoHandler
    /\ UNCHANGED <<tableVars, roundVars, checked, bowl, said, begun, crashes, dropped, stray>>

-----------------------------------------------------------------------------
(* Lines of a game *)

Say(p) ==
    /\ May("playing") /\ p \in table.players
    /\ Queue(table)
    /\ UNCHANGED handler

Join(p) ==
    /\ May("playing") /\ p \notin table.players
    /\ Cardinality(table.players) < MaxPlayers
    /\ Queue([table EXCEPT !.players = @ \cup {p}])
    /\ UNCHANGED handler

Leave(p) ==
    /\ May("playing") /\ p \in table.players \ {table.host}
    /\ Queue([table EXCEPT !.players = @ \ {p}])
    /\ UNCHANGED handler

\* A roll is announced first and put down when the announcement has been sent.
Roll(p) ==
    /\ May("playing") /\ p \in table.players
    /\ handler' = Handling("rolling")
    /\ UNCHANGED <<tableVars, roundVars, checked, bowl, said, begun, crashes, dropped, stray>>

Rolled ==
    /\ handler.at = "rolling" /\ handler' = NoHandler
    /\ Queue(table)

\* The host, or an administrator, closes the menu or ends the game.
EndByHost ==
    /\ Free /\ seated
    /\ End
    /\ UNCHANGED <<checked, handler, bowl, said, begun, crashes, dropped, stray>>

-----------------------------------------------------------------------------
(* Rounds *)

roundRest == <<checked, handler, bowl, said, begun, crashes, dropped, stray>>

Due ==
    /\ runner = "gathering"
    /\ IF table.pending = <<>> THEN runner' = "none" /\ batch' = {}
                               ELSE runner' = "writing" /\ batch' = Range(table.pending)
    /\ UNCHANGED <<tableVars, stalled, stuck, answered, pageVars, roundRest>>

\* Mutant: everything that waits is taken for answered.
LeftAll(pending) == <<>>

\* What was put down while SillyTavern wrote stays for the next round.
Left(pending) ==
    LET left[n \in 0..Len(pending)] ==
          IF n = 0 THEN <<>> ELSE IF pending[n] \in batch THEN left[n - 1] ELSE Append(left[n - 1], pending[n])
    IN  left[Len(pending)]

\* SillyTavern's reply, which may be the finale, is saved before it is sent.
Written ==
    /\ runner = "writing" /\ runner' = "telling"
    /\ \E over \in BOOLEAN : Sit([table EXCEPT !.pending = Left(@), !.over = over])
    /\ answered' = [i \in Line |-> answered[i] + (IF i \in batch THEN 1 ELSE 0)]
    /\ Wrote
    /\ stalled' = FALSE /\ idle' = FALSE
    /\ UNCHANGED <<seated, saves, batch, stuck, missed, roundRest>>

\* The actions stay pending and the chat is told once, whether SillyTavern did
\* nothing, or wrote the round and what came after failed: the answer came too late
\* or the connection broke, or a reply that went too far could not be replaced.
WriteFails ==
    /\ runner = "writing" /\ runner' = IF stalled THEN "none" ELSE "stalling"
    /\ batch' = {} /\ stalled' = TRUE /\ stuck' = TRUE
    /\ Unheard
    /\ UNCHANGED <<tableVars, answered, roundRest>>

Stalled ==
    /\ runner = "stalling" /\ runner' = "none"
    /\ UNCHANGED <<tableVars, batch, stalled, stuck, answered, pageVars, roundRest>>

\* The card is gone from SillyTavern, which is not asked then.
CardGone ==
    /\ runner = "writing"
    /\ End /\ UNCHANGED <<pageVars, roundRest>>

\* The reply has been sent: a finale ends the game, else the next round gathers.
Told ==
    /\ runner = "telling"
    /\ IF table.over THEN End
       ELSE /\ runner' = "gathering" /\ batch' = {}
            /\ UNCHANGED <<tableVars, stalled, stuck, answered, pageVars>>
    /\ UNCHANGED roundRest

TellFails ==
    /\ runner = "telling" /\ runner' = "none" /\ batch' = {}
    /\ stuck' = TRUE
    /\ UNCHANGED <<tableVars, stalled, answered, pageVars, roundRest>>

-----------------------------------------------------------------------------
(* The timer, riddles, crashes *)

LimitPasses ==
    /\ disk # Nothing /\ ~idle /\ handler.at # "opening"
    /\ idle' = TRUE
    /\ UNCHANGED <<table, seated, disk, saves, roundVars, roundRest>>

\* The timer waits for a round that is being written.
WatchIdle ==
    /\ seated /\ idle /\ runner = "none"
    /\ End /\ UNCHANGED roundRest

MayServe == ~seated /\ ~bowl

ServeBowl ==
    /\ Free /\ MayServe
    /\ bowl' = TRUE
    /\ UNCHANGED <<tableVars, roundVars, checked, handler, said, begun, crashes, dropped, stray>>

\* Revealed, solved, or left alone for too long.
PutAway ==
    /\ bowl /\ bowl' = FALSE
    /\ UNCHANGED <<tableVars, roundVars, checked, handler, said, begun, crashes, dropped, stray>>

\* The process dies, perhaps between the two steps of archiving, and starts again.
Restart ==
    /\ crashes < Crashes /\ crashes' = crashes + 1
    /\ saves' \in {saves} \cup (IF seated THEN {Archived(table)} ELSE {})
    /\ table' = Nothing /\ seated' = FALSE /\ checked' = FALSE
    /\ runner' = "none" /\ batch' = {} /\ stalled' = FALSE /\ stuck' = FALSE
    /\ handler' = NoHandler /\ bowl' = FALSE
    /\ Unheard
    /\ UNCHANGED <<disk, idle, said, begun, answered, dropped, stray>>

Next ==
    \/ PickUp \/ (\E p \in Players : OpenMenu(p)) \/ Pick \/ Picked \/ Opened \/ OpenFails
    \/ PickSave \/ Loaded \/ LoadFails
    \/ (\E p \in Players : Say(p) \/ Join(p) \/ Leave(p) \/ Roll(p)) \/ Rolled \/ EndByHost
    \/ Due \/ Written \/ WriteFails \/ Stalled \/ CardGone \/ Told \/ TellFails
    \/ LimitPasses \/ WatchIdle \/ ServeBowl \/ PutAway \/ Restart

\* A round that is due is taken up, SillyTavern answers or fails in time, and a
\* reply is sent or fails to be.
Rounds == Due \/ Written \/ WriteFails \/ Stalled \/ CardGone \/ Told \/ TellFails
Spec == Init /\ [][Next]_vars
FairSpec == Spec /\ WF_vars(Rounds)

-----------------------------------------------------------------------------
(* Properties *)

\* No line is taken for answered by two rounds, and in SillyTavern's own chat a line
\* is answered again only after a round of it went unheard, across failures,
\* endings, crashes and games taken up again (_narrate, _resume).
AnsweredOnce == \A i \in Line : answered[i] <= 1 /\ (script[i] > 1 => i \in missed)

\* Every line is answered, above the cap, put aside, or still on disk.
OnDisk == UNION {Range(t.pending) : t \in ({disk} \cup Range(saves)) \ {Nothing}}
LinesKept == \A i \in 1..said : answered[i] > 0 \/ i \in dropped \cup OnDisk \/ stray

\* The file is the game at the table, unless that is just being opened.
FileAgrees == seated /\ handler.at # "opening" => disk = table

\* A game that was begun can be played on or taken up.
GamesKept == \A g \in 1..begun : \/ disk # Nothing /\ disk.game = g
                                 \/ saves[g] # Nothing \/ stray

\* A chat plays one game at a time (TurtleSoup.ahandle, TavernMode.ahandle).
OneGame == ~(bowl /\ seated)

\* What the table holds is on disk, and no line counts twice.
TableKept == TypeOK /\ AnsweredOnce /\ LinesKept /\ FileAgrees /\ GamesKept /\ OneGame

\* A line put down during a round is answered by a later one, unless the game
\* ends or a failure has stopped the rounds (_run_rounds).
Waits(i) == seated /\ i \in Range(table.pending) /\ ~stuck
=============================================================================
