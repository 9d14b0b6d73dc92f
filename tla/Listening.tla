------------------------------ MODULE Listening ------------------------------
(* Listening before answering in one group (reply_flow/listener.py, with the  *)
(* decisions of reply_flow/service.py around it): who is answered, when a     *)
(* person has finished typing, and when the character joins in unasked.       *)
(* Messages are numbered as they arrive.  Deadlines pass at any moment.       *)
(* Replies are sent at once: no delay is configured for groups.               *)
(*                                                                            *)
(* A message is "away", "arrived" (noted), "queued" for the chat's lock,      *)
(* "waiting" for its sender to finish, "replying", or over.  The check of the *)
(* group is "none", "waiting" for quiet, "scoring" the talk, "joining" the    *)
(* queue for the lock or "speaking".                                          *)
EXTENDS Integers, Sequences

CONSTANTS Senders,
          Kinds,       \* of the messages that may arrive, see AllKinds
          Bound,       \* messages that arrive
          Contended    \* whether administration may hold the runtime guard

\* "mention": an @, her name or a quote of her; "hush": such a message that
\* tells her to be quiet; "elsewhere": an @ of somebody else; "plain": the rest.
AllKinds == {"mention", "hush", "elsewhere", "plain"}
ASSUME KindsKnown == Kinds \subseteq AllKinds /\ Bound \in Nat /\ Contended \in BOOLEAN

Messages == 1..Bound
Nobody == 0   \* no message; in the queue of the lock: the check of the group

VARIABLES
    log,       \* the messages so far: [from, kind]
    phase,     \* [Messages -> phase]
    queue,     \* the chat's lock: its holder first, then who waits for it
    noted,     \* _arrivals: [Senders -> [msg, answered]]
    talking,   \* _continuation
    stash,     \* _stashed_images: [Senders -> superseded messages]
    lapsed,    \* history: superseded messages whose talk ran out before the newer one's turn
    quiet,     \* keeping_quiet
    spoke,     \* spoke_recently
    newest,    \* _newest
    check,     \* _checks: phase of the task of the group
    weighed    \* the message the check took up

msgVars == <<log, phase, noted, talking, stash, lapsed>>
checkVars == <<check, weighed>>
vars == <<msgVars, queue, quiet, spoke, newest, checkVars>>

Over == {"ignored", "hushed", "superseded", "limited", "silent", "answered"}

TypeOK ==
    /\ log \in Seq([from : Senders, kind : Kinds]) /\ Len(log) <= Bound
    /\ phase \in [Messages -> {"away", "arrived", "queued", "waiting", "replying"} \cup Over]
    /\ queue \in Seq(Messages \cup {Nobody})
    /\ noted \in [Senders -> [msg : Messages \cup {Nobody}, answered : BOOLEAN]]
    /\ talking \subseteq Senders
    /\ stash \in [Senders -> SUBSET Messages] /\ lapsed \subseteq Messages
    /\ quiet \in BOOLEAN /\ spoke \in BOOLEAN
    /\ newest \in Messages \cup {Nobody}
    /\ check \in {"none", "waiting", "scoring", "joining", "speaking"}
    /\ weighed \in Messages \cup {Nobody}

Init ==
    /\ log = <<>>
    /\ phase = [i \in Messages |-> "away"]
    /\ queue = <<>>
    /\ noted = [s \in Senders |-> [msg |-> Nobody, answered |-> FALSE]]
    /\ talking = {}
    /\ stash = [s \in Senders |-> {}] /\ lapsed = {}
    /\ quiet = FALSE /\ spoke = FALSE
    /\ newest = Nobody
    /\ check = "none" /\ weighed = Nobody

From(i) == log[i].from
InFlight(s) == {i \in 1..Len(log) : From(i) = s /\ phase[i] \notin Over}
Holds(i) == queue # <<>> /\ Head(queue) = i
Becomes(i, p) == phase' = [phase EXCEPT ![i] = p]
Ends(i, p) == Becomes(i, p) /\ queue' = Tail(queue)
-----------------------------------------------------------------------------
(* A message, from its arrival to its answer.                                 *)

\* note_inbound, before the message waits for anything.
Arrive(s, k) ==
    /\ Len(log) < Bound
    /\ LET i == Len(log) + 1
       IN  /\ log' = Append(log, [from |-> s, kind |-> k])
           /\ Becomes(i, "arrived")
           /\ noted' = [noted EXCEPT ![s] = [msg |-> i, answered |-> FALSE]]
    /\ UNCHANGED <<queue, talking, stash, lapsed, quiet, spoke, newest, checkVars>>

\* _process_event_async polls the runtime guard, then joins the chat's lock:
\* in the order of arrival unless somebody held the guard.
Enter(i) ==
    /\ phase[i] = "arrived"
    /\ Contended \/ \A j \in 1..(i - 1) : phase[j] # "arrived"
    /\ Becomes(i, "queued")
    /\ queue' = Append(queue, i)
    /\ UNCHANGED <<log, noted, talking, stash, lapsed, quiet, spoke, newest, checkVars>>

\* should_reply with listen on: explicitly_addressed and addresses_bot.
ForHer(i) ==
    \/ log[i].kind \in {"mention", "hush"}
    \/ log[i].kind = "plain" /\ From(i) \in talking /\ ~quiet

\* consider_chiming_in: one check per group, which is to find the newest message.
Overhear(i) ==
    /\ phase[i] = "queued" /\ Holds(i) /\ ~ForHer(i)
    /\ Ends(i, "ignored")
    /\ newest' = i
    /\ check' = IF check = "none" THEN "waiting" ELSE check
    /\ UNCHANGED <<log, noted, talking, stash, lapsed, quiet, spoke, weighed>>

\* asks_for_quiet.
Hush(i) ==
    /\ phase[i] = "queued" /\ Holds(i) /\ log[i].kind = "hush"
    /\ Ends(i, "hushed")
    /\ quiet' = TRUE /\ talking' = {} /\ newest' = Nobody
    /\ UNCHANGED <<log, noted, stash, lapsed, spoke, checkVars>>

TakeUp(i) ==
    /\ phase[i] = "queued" /\ Holds(i) /\ ForHer(i) /\ log[i].kind # "hush"
    /\ Becomes(i, "waiting")
    /\ UNCHANGED <<log, queue, noted, talking, stash, lapsed, quiet, spoke, newest, checkVars>>

\* await_turn: the sender has said more; the newer message is to be answered.
Superseded(i) ==
    /\ phase[i] = "waiting" /\ Holds(i)
    /\ noted[From(i)].msg # i /\ ~noted[From(i)].answered
    /\ Ends(i, "superseded")
    /\ stash' = [stash EXCEPT ![From(i)] = @ \cup {i}]
    /\ talking' = talking \cup {From(i)}
    /\ UNCHANGED <<log, noted, lapsed, quiet, spoke, newest, checkVars>>

\* await_turn: nothing newer when the deadline passes, or it was answered.
MayAnswer(i) ==
    /\ phase[i] = "waiting" /\ Holds(i)
    /\ noted[From(i)].msg = i \/ noted[From(i)].answered

\* Mutant: the pictures stay for the next answer too.
TurnKeepsPictures(i) ==
    /\ MayAnswer(i)
    /\ \/ Becomes(i, "replying") /\ UNCHANGED queue
       \/ Ends(i, "limited")
    /\ UNCHANGED <<log, noted, talking, stash, lapsed, quiet, spoke, newest, checkVars>>

\* with_earlier_images, then the reply budget of the group or the person.
Turn(i) ==
    /\ MayAnswer(i)
    /\ stash' = [stash EXCEPT ![From(i)] = {}]
    /\ \/ Becomes(i, "replying") /\ UNCHANGED queue
       \/ Ends(i, "limited")
    /\ UNCHANGED <<log, noted, talking, lapsed, quiet, spoke, newest, checkVars>>

\* mark_answered, with the person she goes on talking to.
MarkAnswered(i, keepsTalking) ==
    /\ noted' = IF noted[From(i)].msg = i
                THEN [noted EXCEPT ![From(i)].answered = TRUE] ELSE noted
    /\ talking' = IF keepsTalking THEN talking \cup {From(i)} ELSE talking
    /\ spoke' = TRUE

Answer(i) ==
    /\ phase[i] = "replying" /\ Holds(i)
    /\ Ends(i, "answered")
    /\ MarkAnswered(i, log[i].kind = "mention")
    /\ UNCHANGED <<log, stash, lapsed, quiet, newest, checkVars>>

\* Mutant: a reply that comes to nothing keeps the chat.
StuckSilent(i) ==
    /\ phase[i] = "replying" /\ Holds(i)
    /\ Becomes(i, "silent")
    /\ UNCHANGED <<log, queue, noted, talking, stash, lapsed, quiet, spoke, newest, checkVars>>

\* She has nothing to add, or the reply fails.
Silent(i) ==
    /\ phase[i] = "replying" /\ Holds(i)
    /\ Ends(i, "silent")
    /\ UNCHANGED <<log, noted, talking, stash, lapsed, quiet, spoke, newest, checkVars>>
-----------------------------------------------------------------------------
(* Joining in unasked: _check_when_quiet, _consider and _process_chime_in.    *)

CheckEnds == check' = "none" /\ weighed' = Nobody

\* The group has been quiet: the newest message is taken up, unless there is
\* nothing to say to it (too little talk, a game is on).
Consider ==
    /\ check = "waiting"
    /\ newest' = Nobody
    /\ \/ newest # Nobody /\ ~quiet /\ ~spoke /\ queue = <<>>
          /\ check' = "scoring" /\ weighed' = newest
       \/ CheckEnds
    /\ UNCHANGED <<msgVars, queue, quiet, spoke>>

\* Below the threshold, out of budget, or a game has started.
NotHerBusiness ==
    /\ check = "scoring"
    /\ CheckEnds
    /\ UNCHANGED <<msgVars, queue, quiet, spoke, newest>>

\* _process_chime_in waits for the chat as a message does.
JoinIn ==
    /\ check = "scoring"
    /\ check' = "joining"
    /\ queue' = Append(queue, Nobody)
    /\ UNCHANGED <<msgVars, quiet, spoke, newest, weighed>>

\* Mutant: what was said while the check waited for the lock is not looked at.
MayJoinIn == TRUE

\* handle_event_async_locked, spontaneous: not if she spoke while it waited.
MayStillJoin == ~spoke

BeginChimeIn ==
    /\ check = "joining" /\ Holds(Nobody)
    /\ IF MayStillJoin
       THEN check' = "speaking" /\ UNCHANGED <<queue, weighed>>
       ELSE CheckEnds /\ queue' = Tail(queue)
    /\ UNCHANGED <<msgVars, quiet, spoke, newest>>

ChimeIn ==
    /\ check = "speaking" /\ Holds(Nobody)
    /\ MarkAnswered(weighed, TRUE)
    /\ CheckEnds /\ queue' = Tail(queue)
    /\ UNCHANGED <<log, phase, stash, lapsed, quiet, newest>>

KeepOut ==
    /\ check = "speaking" /\ Holds(Nobody)
    /\ CheckEnds /\ queue' = Tail(queue)
    /\ UNCHANGED <<msgVars, quiet, spoke, newest>>
-----------------------------------------------------------------------------
(* Deadlines.                                                                 *)

QuietEnds == quiet /\ quiet' = FALSE /\ UNCHANGED <<msgVars, queue, spoke, newest, checkVars>>

GapEnds == spoke /\ spoke' = FALSE /\ UNCHANGED <<msgVars, queue, quiet, newest, checkVars>>

\* A message that gets its turn whether its sender is still in a talk or not.
SureOfTurn(i) == phase[i] \in {"waiting", "replying"} \/ log[i].kind = "mention"

\* The hold on the sender's next message counts from the moment the older one is
\* given up, also while the next one waits for the chat behind a reply to others.
TalkEnds(s) ==
    /\ s \in talking
    /\ talking' = talking \ {s}
    /\ lapsed' = IF \E i \in InFlight(s) : SureOfTurn(i) THEN lapsed ELSE lapsed \cup stash[s]
    /\ UNCHANGED <<log, phase, noted, stash, queue, quiet, spoke, newest, checkVars>>

Handle(i) ==
    \/ Overhear(i) \/ Hush(i) \/ TakeUp(i) \/ Superseded(i)
    \/ Turn(i) \/ Answer(i) \/ Silent(i)

Check == Consider \/ NotHerBusiness \/ JoinIn \/ BeginChimeIn \/ ChimeIn \/ KeepOut

Next ==
    \/ \E s \in Senders, k \in Kinds : Arrive(s, k)
    \/ \E i \in Messages : Enter(i) \/ Handle(i)
    \/ Check
    \/ QuietEnds \/ GapEnds
    \/ \E s \in Senders : TalkEnds(s)

Spec == Init /\ [][Next]_vars

\* The event loop runs whatever can go on: the lock is passed on in turn, a
\* model's answer comes or its time limit does.  No message need arrive.
FairSpec ==
    /\ Spec
    /\ \A i \in Messages : WF_vars(Enter(i)) /\ WF_vars(Handle(i))
    /\ WF_vars(Check)
-----------------------------------------------------------------------------
Later(i) == {j \in 1..Len(log) : j > i /\ From(j) = From(i)}

\* A sender who names somebody else, or a group that told her to be quiet, may
\* leave a question behind: README, "Where the code departs from its words".
TurnedAway(s) ==
    \/ \E j \in Messages : phase[j] = "hushed"
    \/ \E j \in 1..Len(log) : From(j) = s /\ log[j].kind = "elsewhere"

(* A message that is given up for a newer one of its sender is answered with  *)
(* it (await_turn): the newer one is still to be taken up, or was taken for   *)
(* her, unless the sender turned away or the talk ran out before its turn.    *)
QuestionsStand ==
    \A i \in Messages :
        phase[i] = "superseded" =>
            (\E j \in Later(i) : phase[j] # "ignored") \/ TurnedAway(From(i)) \/ i \in lapsed

(* The pictures of superseded messages go with the newer one: whoever has     *)
(* some in store has a message under way that takes them, turned away, or let *)
(* the talk run out.                                                          *)
PicturesFollow ==
    \A s \in Senders : stash[s] \ lapsed # {} => InFlight(s) # {} \/ TurnedAway(s)

(* Nothing that was said to her is dropped on the way to its turn, except     *)
(* where the listener's own deadline for the newer message passes first.      *)
NothingDropped == TypeOK /\ QuestionsStand /\ PicturesFollow

(* She joins in only where she has not just spoken, whatever was answered     *)
(* while the talk was weighed and while the check waited for the chat.        *)
ChimesAlone == check = "speaking" => ~spoke

\* What must not last for ever: a message somebody is working on.
UnderWay(i) == phase[i] \notin {"away"} \cup Over
=============================================================================
