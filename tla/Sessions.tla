------------------------------- MODULE Sessions -------------------------------
(* The history of one chat (memory/session_service.py) and everybody who      *)
(* writes it: replies, which hold the chat's lock (reply_flow/service.py,     *)
(* emitter.py), deliveries that come later, with the lock or, for generated   *)
(* pictures, without it, the archiver that folds old lines into the rolling   *)
(* summary (runtime/service.py), and the console (memory_admin/service.py).   *)
(* Every one of them loads the session, changes its copy and saves it whole.  *)
(* Lines are numbered; a summary is the set of lines it stands for.           *)
EXTENDS Integers, Sequences, FiniteSets, Functions

CONSTANTS HistoryLimit,   \* HISTORY_LIMIT
          Keep,           \* short_term_memory_limit
          Batch,          \* memory_summary_batch_size
          Foreign,        \* lines of hers that name, or are by, another character
          Lines,          \* bound: lines said
          Pictures, Edits, Purges, Crashes   \* bounds

VARIABLES
    file,      \* [snap, torn]: the newest complete snapshot, and whether a torn one follows it
    ambient,   \* _ambient_history: group lines not yet in the history
    chosen,    \* the line the quiet check means to answer, or 0
    lock,      \* the chat's lock: "none", "reply", "late" or "archive"
    reply,     \* [at, copy] of the reply that holds the lock
    late,      \* [at, copy] of a reply that waits for group_response_delay_seconds
    picture,   \* [at, copy] of a picture that is being generated
    archiver,  \* [at, copy, batch, summary] of _archive_history; _archive_inflight while it is not idle
    console,   \* [at, copy] of the page an operator edits
    said, left,
    \* for the properties
    fate,      \* [line -> "new", "kept", "gone" off the end, by an edit or struck out, "purged"]
    joined,    \* lines she joined in on
    clash      \* somebody without the lock saved over, or was saved over by, somebody else

work == <<reply, late, picture, archiver, console>>
vars == <<file, ambient, chosen, lock, work, said, left, fate, joined, clash>>

Line == 1..Lines
Empty == [history |-> <<>>, summary |-> {}, tools |-> FALSE]
Snapshot == [history : Seq(Line), summary : SUBSET Line, tools : BOOLEAN]
Idle == [at |-> "idle", copy |-> Empty, line |-> 0]
IdleArchiver == [at |-> "idle", copy |-> Empty, batch |-> <<>>, summary |-> {}]

TypeOK ==
    /\ file \in [snap : Snapshot, torn : BOOLEAN]
    /\ ambient \in Seq(Line) /\ chosen \in 0..Lines
    /\ lock \in {"none", "reply", "late", "archive"}
    /\ reply.at \in {"idle", "recording", "cleaning", "noting", "writing", "sending", "storing"}
    /\ {late.at, picture.at} \subseteq {"idle", "waiting", "storing"}
    /\ archiver.at \in {"idle", "scheduled", "reading", "summing", "ready", "committing"}
    /\ console.at \in {"idle", "editing"}
    /\ said \in 0..Lines /\ fate \in [Line -> {"new", "kept", "gone", "purged"}] /\ joined \subseteq Line

Init ==
    /\ file = [snap |-> Empty, torn |-> FALSE] /\ ambient = <<>> /\ chosen = 0 /\ lock = "none"
    /\ reply = Idle /\ late = Idle /\ picture = Idle /\ archiver = IdleArchiver /\ console = Idle
    /\ said = 0 /\ left = [pictures |-> Pictures, edits |-> Edits, purges |-> Purges, crashes |-> Crashes]
    /\ fate = [i \in Line |-> "new"] /\ joined = {} /\ clash = FALSE

-----------------------------------------------------------------------------
(* The file *)

Newest(heard) == heard[Len(heard)]

\* A torn tail is closed by a line break before the next snapshot is appended.
Saved(copy) == [snap |-> copy, torn |-> FALSE]

Capped(h) == IF Len(h) <= HistoryLimit THEN h ELSE SubSeq(h, Len(h) - HistoryLimit + 1, Len(h))
With(copy, lines) == [copy EXCEPT !.history = Capped(@ \o lines)]
Held == {reply.at, late.at, archiver.at} \cap {"recording", "cleaning", "noting", "writing", "storing", "committing"} # {}
HeldLoose == picture.at = "storing" \/ console.at = "editing"

\* The lines that w has taken out of what it loaded are among these.
Shown(w) ==
    IF w = "console" THEN Range(console.copy.history)
    ELSE IF w = "cleaning" THEN Range(reply.copy.history) ELSE {}

Gone(w, copy, lines) ==
    (Shown(w) \ Range(copy.history)) \cup (Range(copy.history \o lines) \ Range(With(copy, lines).history))

\* What w saves; lines are its additions to copy.
Save(w, copy, lines) ==
    /\ file' = Saved(With(copy, lines))
    /\ fate' = [i \in Line |-> IF i \in Gone(w, copy, lines) THEN "gone"
                               ELSE IF i \in Range(lines) THEN "kept" ELSE fate[i]]
    /\ clash' = (clash \/ IF w \in {"picture", "console"}
                          THEN Held \/ (w = "picture" /\ console.at = "editing") \/ (w = "console" /\ picture.at = "storing")
                          ELSE HeldLoose)
NoSave == UNCHANGED <<file, fate, clash>>

\* A message she answered schedules the archiver unless it is under way.
Scheduled == IF archiver.at = "idle" THEN [IdleArchiver EXCEPT !.at = "scheduled"] ELSE archiver

-----------------------------------------------------------------------------
(* Messages *)

\* Talk in the group that is not for her waits for the next reply.
Hear ==
    /\ lock = "none" /\ said < Lines
    /\ said' = said + 1 /\ ambient' = Append(ambient, said + 1)
    /\ NoSave /\ UNCHANGED <<chosen, lock, work, left, joined>>

\* The quiet check means to join in on the newest of it.
Choose ==
    /\ ambient # <<>> /\ chosen = 0
    /\ chosen' = Newest(ambient)
    /\ NoSave /\ UNCHANGED <<ambient, lock, work, said, left, joined>>

\* A message for her: the history is loaded ...
Begin ==
    /\ lock = "none" /\ said < Lines
    /\ said' = said + 1 /\ ambient' = Append(ambient, said + 1)
    /\ lock' = "reply" /\ reply' = [at |-> "recording", copy |-> file.snap, line |-> 0]
    /\ NoSave /\ UNCHANGED <<chosen, late, picture, archiver, console, left, joined>>

\* ... or she joins in.  A line that is no longer the newest is put down again.
JoinIn ==
    /\ lock = "none" /\ chosen # 0 /\ chosen' = 0
    /\ lock' = "reply" /\ reply' = [at |-> "recording", copy |-> file.snap, line |-> 0]
    /\ ambient' = IF ambient # <<>> /\ Newest(ambient) = chosen THEN ambient ELSE Append(ambient, chosen)
    /\ joined' = joined \cup {chosen}
    /\ NoSave /\ UNCHANGED <<late, picture, archiver, console, said, left>>

\* ... and saved with the message and what was heard before it.
Record ==
    /\ reply.at = "recording"
    /\ Save("reply", reply.copy, ambient) /\ ambient' = <<>>
    /\ reply' = [reply EXCEPT !.at = "cleaning", !.copy = file'.snap]
    /\ UNCHANGED <<chosen, lock, late, picture, archiver, console, said, left, joined>>

EndReply == reply' = Idle /\ lock' = "none"

\* She leaves it to a newer message, has no reply left for the group, or stays silent.
Silent ==
    /\ reply.at \in {"cleaning", "noting", "writing", "sending"}
    /\ EndReply
    /\ NoSave /\ UNCHANGED <<ambient, chosen, late, picture, archiver, console, said, left, joined>>

\* The history h without the lines of K.
TakenOut(h, K) ==
    LET rest[n \in 0..Len(h)] ==
          IF n = 0 THEN <<>> ELSE IF h[n] \in K THEN rest[n - 1] ELSE Append(rest[n - 1], h[n])
    IN  rest[Len(h)]

\* Lines from another character are struck out, when there are any, and the
\* history is saved without them.
Clean ==
    /\ reply.at = "cleaning"
    /\ \E struck \in SUBSET (Foreign \cap Range(reply.copy.history)) :
         IF struck = {}
         THEN NoSave /\ reply' = [reply EXCEPT !.at = "noting"]
         ELSE /\ Save("cleaning", [reply.copy EXCEPT !.history = TakenOut(@, struck)], <<>>)
              /\ reply' = [reply EXCEPT !.at = "noting", !.copy = file'.snap]
    /\ UNCHANGED <<ambient, chosen, lock, late, picture, archiver, console, said, left, joined>>

\* Somebody in a group who says the same again and again is told so, without the model.
Repeat ==
    /\ reply.at = "noting" /\ reply' = [Idle EXCEPT !.at = "sending"]
    /\ NoSave /\ UNCHANGED <<ambient, chosen, lock, late, picture, archiver, console, said, left, joined>>

\* The skills and the search of the message go into the session.
Note ==
    /\ reply.at = "noting" /\ reply' = [reply EXCEPT !.at = "writing"]
    /\ Save("reply", reply.copy, <<>>)
    /\ UNCHANGED <<ambient, chosen, lock, late, picture, archiver, console, said, left, joined>>

\* The model has answered; a session that holds tool calls, new or old, is saved once more.
Written ==
    /\ reply.at = "writing"
    /\ \E tools \in {reply.copy.tools, TRUE} :
         /\ IF tools THEN Save("reply", [reply.copy EXCEPT !.tools = TRUE], <<>>) ELSE NoSave
         /\ reply' = [Idle EXCEPT !.at = "sending"]
    /\ UNCHANGED <<ambient, chosen, lock, late, picture, archiver, console, said, left, joined>>

\* A picture is asked for and generated in the background; the reply says so.
AskPicture ==
    /\ reply.at = "writing" /\ picture.at = "idle" /\ left.pictures > 0
    /\ left' = [left EXCEPT !.pictures = @ - 1]
    /\ picture' = [Idle EXCEPT !.at = "waiting"]
    /\ reply' = [Idle EXCEPT !.at = "sending"]
    /\ NoSave /\ UNCHANGED <<ambient, chosen, lock, late, archiver, console, said, joined>>

-----------------------------------------------------------------------------
(* What she says *)

\* What has been sent is stored in two steps, by a thread that loads the session
\* anew ...
Loads == said < Lines /\ said' = said + 1
Storing == [at |-> "storing", copy |-> file.snap, line |-> said + 1]

Sent ==
    /\ reply.at = "sending" /\ Loads /\ reply' = Storing
    /\ NoSave /\ UNCHANGED <<ambient, chosen, lock, late, picture, archiver, console, left, joined>>

\* ... and saves it with the line.
Store ==
    /\ reply.at = "storing"
    /\ Save("reply", reply.copy, <<reply.line>>)
    /\ EndReply /\ archiver' = Scheduled
    /\ UNCHANGED <<ambient, chosen, late, picture, console, said, left, joined>>

\* In a group with a delay the reply is sent and stored later, under the lock.
Defer ==
    /\ reply.at = "sending" /\ late.at = "idle"
    /\ late' = [Idle EXCEPT !.at = "waiting"] /\ EndReply
    /\ NoSave /\ UNCHANGED <<ambient, chosen, picture, archiver, console, said, left, joined>>

LateSent ==
    /\ late.at = "waiting" /\ lock = "none" /\ lock' = "late"
    /\ Loads /\ late' = Storing
    /\ NoSave /\ UNCHANGED <<ambient, chosen, reply, picture, archiver, console, left, joined>>

LateStored ==
    /\ late.at = "storing" /\ lock' = "none"
    /\ Save("late", late.copy, <<late.line>>)
    /\ late' = Idle /\ archiver' = Scheduled
    /\ UNCHANGED <<ambient, chosen, reply, picture, console, said, left, joined>>

LateFails ==
    /\ late.at = "waiting" /\ lock = "none" /\ late' = Idle
    /\ NoSave /\ UNCHANGED <<ambient, chosen, lock, reply, picture, archiver, console, said, left, joined>>

\* A picture is sent when it is ready, whoever holds the lock.
PictureSent ==
    /\ picture.at = "waiting" /\ Loads /\ picture' = Storing
    /\ NoSave /\ UNCHANGED <<ambient, chosen, lock, reply, late, archiver, console, left, joined>>

PictureStored ==
    /\ picture.at = "storing"
    /\ Save("picture", picture.copy, <<picture.line>>)
    /\ picture' = Idle /\ archiver' = Scheduled
    /\ UNCHANGED <<ambient, chosen, lock, reply, late, console, said, left, joined>>

PictureFails ==
    /\ picture.at = "waiting" /\ picture' = Idle
    /\ NoSave /\ UNCHANGED <<ambient, chosen, lock, reply, late, archiver, console, said, left, joined>>

-----------------------------------------------------------------------------
(* The archiver *)

archiverRest == <<ambient, chosen, reply, late, picture, console, said, left, joined>>
Overflow(snap) == Len(snap.history) - Keep
Worthwhile(snap) == Overflow(snap) >= Batch

\* The summary so far is read first, the lines to fold after it.
ReadSummary ==
    /\ archiver.at = "scheduled"
    /\ archiver' = IF Worthwhile(file.snap)
                   THEN [archiver EXCEPT !.at = "reading", !.summary = file.snap.summary] ELSE IdleArchiver
    /\ NoSave /\ UNCHANGED <<lock, archiverRest>>

ReadLines ==
    /\ archiver.at = "reading"
    /\ archiver' = IF Worthwhile(file.snap)
                   THEN [archiver EXCEPT !.at = "summing", !.batch = SubSeq(file.snap.history, 1, Overflow(file.snap))]
                   ELSE IdleArchiver
    /\ NoSave /\ UNCHANGED <<lock, archiverRest>>

\* The model has summed up, or failed, with nobody waiting for it.
Summed ==
    /\ archiver.at = "summing"
    /\ archiver' \in {[archiver EXCEPT !.at = "ready", !.summary = @ \cup Range(archiver.batch)], IdleArchiver}
    /\ NoSave /\ UNCHANGED <<lock, archiverRest>>

Relock ==
    /\ archiver.at = "ready" /\ lock = "none" /\ lock' = "archive"
    /\ archiver' = [archiver EXCEPT !.at = "committing", !.copy = file.snap]
    /\ NoSave /\ UNCHANGED archiverRest

\* Mutant: the lines are not compared.
StillThere(copy, batch) == Len(copy.history) >= Len(batch)

Untouched(copy, batch) ==
    Len(copy.history) >= Len(batch) /\ SubSeq(copy.history, 1, Len(batch)) = batch

Trimmed(copy, batch) == SubSeq(copy.history, Len(batch) + 1, Len(copy.history))

\* The lines are trimmed and the summary stored in one save, if they are still
\* where they were.
Commit ==
    /\ archiver.at = "committing" /\ lock' = "none" /\ archiver' = IdleArchiver
    /\ IF Untouched(archiver.copy, archiver.batch)
       THEN Save("archive", [archiver.copy EXCEPT !.history = Trimmed(archiver.copy, archiver.batch),
                                                  !.summary = archiver.summary], <<>>)
       ELSE NoSave
    /\ UNCHANGED archiverRest

-----------------------------------------------------------------------------
(* The console, crashes *)

consoleRest == <<chosen, lock, reply, late, picture, archiver, said, joined>>

\* An operator opens the page of the session ...
Open ==
    /\ console.at = "idle" /\ left.edits > 0 /\ file.snap.history # <<>>
    /\ left' = [left EXCEPT !.edits = @ - 1]
    /\ console' = [at |-> "editing", copy |-> file.snap, line |-> 0]
    /\ NoSave /\ UNCHANGED <<ambient, consoleRest>>

\* ... and saves it with a line taken out.
Edit ==
    /\ console.at = "editing" /\ console' = Idle
    /\ \E k \in Range(console.copy.history) :
         Save("console", [console.copy EXCEPT !.history = TakenOut(@, {k})], <<>>)
    /\ UNCHANGED <<ambient, left, consoleRest>>

\* Mutant: a delivery that waits for the lock does not count.
MayPurgeIdle == reply.at = "idle"

\* runtime_mutation: no reply is active and no background work under way.
MayPurge == reply.at = "idle" /\ late.at = "idle" /\ picture.at = "idle" /\ archiver.at = "idle"

\* The memory is purged, which leaves the unsaved talk of the group, or the
\* character's sessions are deleted with it.
Purge ==
    /\ left.purges > 0 /\ left' = [left EXCEPT !.purges = @ - 1]
    /\ MayPurge
    /\ file' = [snap |-> Empty, torn |-> FALSE]
    /\ fate' = [i \in Line |-> IF fate[i] = "new" THEN "new" ELSE "purged"]
    /\ ambient' \in {ambient, <<>>}
    /\ clash' = (clash \/ HeldLoose)
    /\ UNCHANGED <<console, consoleRest>>

\* The process dies, perhaps in the middle of a save, and starts again.
Crash ==
    /\ left.crashes > 0 /\ left' = [left EXCEPT !.crashes = @ - 1]
    /\ file' \in {file} \cup (IF Held \/ HeldLoose THEN {[file EXCEPT !.torn = TRUE]} ELSE {})
    /\ ambient' = <<>> /\ chosen' = 0 /\ lock' = "none"
    /\ reply' = Idle /\ late' = Idle /\ picture' = Idle /\ archiver' = IdleArchiver /\ console' = Idle
    /\ UNCHANGED <<said, fate, joined, clash>>

Archiving == ReadSummary \/ ReadLines \/ Summed \/ Relock \/ Commit
Replying == Record \/ Silent \/ Clean \/ Repeat \/ Note \/ Written \/ AskPicture \/ Sent \/ Store \/ Defer
Delivering == LateSent \/ LateStored \/ LateFails
Next ==
    \/ Hear \/ Choose \/ Begin \/ JoinIn \/ Replying \/ Delivering
    \/ PictureSent \/ PictureStored \/ PictureFails
    \/ Archiving \/ Open \/ Edit \/ Purge \/ Crash

Spec == Init /\ [][Next]_vars

\* Replies and deliveries that hold the lock go on; the lock serves its waiters in
\* turn (SessionLock), so the archiver gets it in the end.
FairSpec == Spec /\ WF_vars(Replying) /\ WF_vars(LateStored) /\ SF_vars(Archiving)

-----------------------------------------------------------------------------
(* Properties *)

History == Range(file.snap.history)
Summary == file.snap.summary

\* A line that was recorded is in the history or in the summary, unless it fell
\* off the end, was edited away, struck out for another character's name in it, or
\* purged (Memory, _archive_history, sanitize_session_state).
NothingLost == \A i \in Line : fate[i] = "kept" => i \in History \cup Summary

\* A line is shown once: in the history or in the summary, and at one place of
\* it, but for one she joined in on (_remember_ambient_event).
ShownOnce ==
    /\ History \cap Summary \subseteq joined
    /\ \A i, j \in DOMAIN file.snap.history :
         i # j => file.snap.history[i] # file.snap.history[j] \/ file.snap.history[i] \in joined

\* What was purged does not come back (purge_memory, reset_character_sessions).
PurgedStaysPurged == \A i \in Line : fate[i] = "purged" => i \notin History \cup Summary

\* All of it as long as nobody without the lock comes between a load and a save.
HistoryKept == TypeOK /\ (~clash => NothingLost /\ ShownOnce /\ PurgedStaysPurged)
=============================================================================
