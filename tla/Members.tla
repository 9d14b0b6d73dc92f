------------------------------ MODULE Members ------------------------------
(* What is remembered of one member of a group: the row everybody shares      *)
(* (name, onboarding, card, membership) and the row of one character (facts,  *)
(* affinity), in repositories/runtime_state.py.  They are written by replies  *)
(* under the lock of the chat (reply_flow/, members/onboarding.py), by the    *)
(* write-back a reply leaves behind (members/persona_guard.py), by notices    *)
(* and lists of the platform (gateways/notice_dispatcher.py), and by the page *)
(* of the console (members/service.py).                                       *)
(*                                                                            *)
(* Each method of the store is one transaction.  A coroutine runs it in a     *)
(* thread and waits; a write-back reads and saves without waiting, and in     *)
(* between only what already runs in a thread gets anywhere.                  *)
EXTENDS FiniteSets, Naturals

CONSTANTS Replies,
          Unprompted, \* those that nobody asked for
          Delayed,    \* whether group replies are sent after a delay
          Fragments,  \* facts that fit into a summary
          MaxNews,    \* messages, notices, lists and edits, altogether
          None

VARIABLES
    member,     \* the shared row
    bond,       \* the row of the character
    lock,       \* who holds the chat
    reply,      \* [Replies -> [at, copy, nr]]
    writeback,  \* [Replies -> [at, copy]]
    ran,        \* whose thread went on while a write-back held the loop
    page,       \* what the console shows, or nothing
    notices,    \* of the platform, being handled
    listing,    \* lists of the group, being stored
    \* what only the properties see:
    platform,   \* whether the member is in the group, and the card
    told,       \* the number of the last news
    due,        \* what each field should say
    stale,      \* fields over which an older value was saved
    asked,      \* how often she asked for a name
    edits

rows == <<member, bond>>
chat == <<lock, reply, writeback>>
outside == <<page, notices, listing, platform, told, edits>>
ghosts == <<due, stale, asked>>
vars == <<rows, chat, ran, outside, ghosts>>

Names == Replies \cup {"console", None}
Facts == Replies \cup {"other"}      \* "other" is about another character
Fields == {"name", "status", "card", "membership", "facts", "affinity"}
Row == [known : BOOLEAN, name : Names, status : {"new", "asked_once", "ready"},
        card : Nat, membership : {"active", "left", "removed"}]
Bond == [facts : SUBSET Facts, affinity : Nat]
Copy == [row : Row, bond : Bond]
Told == [kind : {"join", "joined", "bare", "leave", "unknown", "group", "card", "listed", "missing"},
         nr : Nat, card : Nat]

NoRow == [known |-> FALSE, name |-> None, status |-> "new", card |-> 0, membership |-> "active"]
NoBond == [facts |-> {}, affinity |-> 0]
Nothing == [row |-> NoRow, bond |-> NoBond]

TypeOK ==
    /\ member \in Row /\ bond \in Bond
    /\ lock \in Replies \cup {None}
    /\ reply \in [Replies -> [at : {"away", "waiting", "cleaning", "tidying", "generating", "naming",
                                    "answered", "asking", "noting", "sending", "sleeping", "bonding",
                                    "addressing", "done"},
                              copy : Copy, nr : Nat]]
    /\ writeback \in [Replies -> [at : {"none", "extracting", "tidying", "saving", "done"}, copy : Copy]]
    /\ ran \subseteq Replies \cup Nat
    /\ page \in Copy \cup {None}
    /\ notices \subseteq Told /\ listing \subseteq Told
    /\ platform \in [inside : BOOLEAN, card : Nat]
    /\ told \in Nat /\ edits \in Nat /\ told + edits <= MaxNews
    /\ due \in [name : Names, facts : SUBSET Facts, affinity : Nat, card : Nat,
                membership : {"active", "left", "removed"}]
    /\ stale \subseteq Fields /\ asked \in Nat

Init ==
    /\ member = NoRow /\ bond = NoBond
    /\ lock = None /\ ran = {}
    /\ reply = [r \in Replies |-> [at |-> "away", copy |-> Nothing, nr |-> 0]]
    /\ writeback = [r \in Replies |-> [at |-> "none", copy |-> Nothing]]
    /\ page = None /\ notices = {} /\ listing = {}
    /\ platform = [inside |-> TRUE, card |-> 0] /\ told = 0
    /\ due = [name |-> None, facts |-> {}, affinity |-> 0, card |-> 0, membership |-> "active"]
    /\ stale = {} /\ asked = 0 /\ edits = 0
-----------------------------------------------------------------------------
(* The methods of the store.                                                  *)

\* record_member_seen
Seen == member' = [member EXCEPT !.known = TRUE, !.membership = "active"]

\* save_member: what is not named in the payload stays as it is.
Save(row) == member' = [row EXCEPT !.known = TRUE]

\* mark_member_membership, mark_group_members_missing: change a row there is.
Mark(status) == member' = IF member.known THEN [member EXCEPT !.membership = status] ELSE member

\* sanitize_profile_summary, merge_profile_summary: the first facts stay.
Clean(facts) == facts \ {"other"}
Merged(facts, new) ==
    IF Cardinality(Clean(facts)) < Fragments THEN Clean(facts) \cup {new} ELSE Clean(facts)

Everything == [row |-> member, bond |-> bond]

\* Where a copy no longer says what the rows say.
Differing(copy) ==
    {f \in DOMAIN member \cap Fields : copy.row[f] # member[f]} \cup {f \in DOMAIN bond : copy.bond[f] # bond[f]}

\* A copy is saved whole, with these facts.
SaveCopy(copy, facts) ==
    /\ Save(copy.row)
    /\ bond' = [copy.bond EXCEPT !.facts = facts]
    /\ stale' = stale \cup Differing(copy)

-----------------------------------------------------------------------------
(* The event loop, and news.                                                  *)

LoopHeld == \E r \in Replies : writeback[r].at \in {"tidying", "saving"}
OnLoop == ~LoopHeld /\ UNCHANGED ran
InThread(x) ==
    /\ LoopHeld => x \notin ran
    /\ ran' = IF LoopHeld THEN ran \cup {x} ELSE {}

Goes(r, p) == reply' = [reply EXCEPT ![r] = [at |-> p, copy |-> Nothing, nr |-> 0]]
Copies(r, p) == reply' = [reply EXCEPT ![r].at = p, ![r].copy = Everything]

\* The next news is about where the member is now.
News(status, card) ==
    /\ told + edits < MaxNews
    /\ told' = told + 1
    /\ due' = [due EXCEPT !.membership = status, !.card = card]

\* News of number nr are written after later ones.
Overtaken(nr) == IF nr < told THEN {"membership"} ELSE {}
OldCard(card) == IF card # due.card THEN {"card"} ELSE {}
-----------------------------------------------------------------------------
(* A reply.                                                                   *)

Arrive(r) ==
    /\ OnLoop /\ reply[r].at = "away" /\ platform.inside
    /\ News("active", due.card)
    /\ reply' = [reply EXCEPT ![r].at = "waiting", ![r].nr = told + 1]
    /\ UNCHANGED <<rows, lock, writeback, page, notices, listing, platform, edits, stale, asked>>

\* Under the lock: remember_directory_member.
Begin(r) ==
    /\ InThread(r) /\ reply[r].at = "waiting" /\ lock = None
    /\ lock' = r /\ Goes(r, "cleaning")
    /\ Seen
    /\ stale' = stale \cup Overtaken(reply[r].nr)
    /\ UNCHANGED <<bond, writeback, outside, due, asked>>

\* sanitize_member_state, which saves all it read, in one thread.
Sanitize(r) ==
    /\ InThread(r) /\ reply[r].at = "cleaning"
    /\ IF bond.facts = Clean(bond.facts) THEN Goes(r, "generating") ELSE Copies(r, "tidying")
    /\ UNCHANGED <<rows, lock, writeback, outside, ghosts>>

Tidy(r) ==
    /\ reply[r].at = "tidying" /\ UNCHANGED ran
    /\ Goes(r, "generating")
    /\ SaveCopy(reply[r].copy, Clean(reply[r].copy.bond.facts))
    /\ due' = [due EXCEPT !.facts = Clean(@)]
    /\ UNCHANGED <<lock, writeback, outside, asked>>

\* The model answers, calls the tool, or has nothing to say.
Generated(r) ==
    /\ OnLoop /\ reply[r].at = "generating"
    /\ \/ Goes(r, "answered") /\ UNCHANGED lock
       \/ r \in Unprompted /\ Goes(r, "done") /\ lock' = None
    /\ UNCHANGED <<rows, writeback, outside, ghosts>>

\* use_set_preferred_name_tool: reads and saves in one thread.
Tool(r) ==
    /\ InThread(r) /\ reply[r].at = "generating"
    /\ Copies(r, "naming")
    /\ UNCHANGED <<rows, lock, writeback, outside, ghosts>>

\* Mutant: the whole row as it was read is sent with it.
PayloadWhole(r) == reply[r].copy.row

\* _member_payload: the card comes from what was read.
Payload(r) == [member EXCEPT !.card = reply[r].copy.row.card]

Name(r) ==
    /\ reply[r].at = "naming" /\ UNCHANGED ran
    /\ Goes(r, "answered")
    /\ Save([Payload(r) EXCEPT !.name = r, !.status = "ready"])
    /\ stale' = (stale \ {"name"}) \cup OldCard(reply[r].copy.row.card)
    /\ due' = [due EXCEPT !.name = r]
    /\ UNCHANGED <<bond, lock, writeback, outside, asked>>

\* amaybe_append_soft_ask: the member as read decides.
SoftAsk(r) ==
    /\ reply[r].at = "answered"
    /\ \/ r \in Unprompted /\ OnLoop /\ Goes(r, "sending")
       \/ r \notin Unprompted /\ InThread(r)
          /\ IF member.name = None /\ member.status = "new" THEN Copies(r, "asking") ELSE Goes(r, "sending")
    /\ UNCHANGED <<rows, lock, writeback, outside, ghosts>>

AskWritten(r) ==
    /\ OnLoop /\ reply[r].at = "asking"
    /\ reply' = [reply EXCEPT ![r].at = "noting"] \/ Goes(r, "sending")
    /\ UNCHANGED <<rows, lock, writeback, outside, ghosts>>

AskNoted(r) ==
    /\ InThread(r) /\ reply[r].at = "noting"
    /\ Goes(r, "sending")
    /\ Save([Payload(r) EXCEPT !.status = "asked_once"])
    /\ stale' = stale \cup OldCard(reply[r].copy.row.card)
    /\ asked' = asked + 1
    /\ UNCHANGED <<bond, lock, writeback, outside, due>>

\* What the reply is to learn is left to a task of its own.
Learning(r) ==
    writeback' = [writeback EXCEPT ![r].at = IF @ = "none" THEN "extracting" ELSE @]

\* aemit: with a delay the rest is another task.
Send(r) ==
    /\ OnLoop /\ reply[r].at = "sending"
    /\ IF Delayed THEN Goes(r, "sleeping") /\ lock' = None /\ Learning(r)
                  ELSE Goes(r, "bonding") /\ UNCHANGED <<lock, writeback>>
    /\ UNCHANGED <<rows, outside, ghosts>>

\* _deliver_after_delay
Deliver(r) ==
    /\ OnLoop /\ reply[r].at = "sleeping" /\ lock = None
    /\ lock' = r /\ Goes(r, "bonding")
    /\ UNCHANGED <<rows, writeback, outside, ghosts>>

\* ValueGameEngine.apply: adjust_member_affinity adds.
Warm(r) ==
    /\ InThread(r) /\ reply[r].at = "bonding"
    /\ Goes(r, "addressing")
    /\ bond' = [bond EXCEPT !.affinity = @ + 1]
    /\ due' = [due EXCEPT !.affinity = @ + 1]
    /\ UNCHANGED <<member, lock, writeback, outside, stale, asked>>

\* mark_member_addressed, the last of the reply.
Addressed(r) ==
    /\ InThread(r) /\ reply[r].at = "addressing"
    /\ Goes(r, "done") /\ lock' = None
    /\ Learning(r)
    /\ UNCHANGED <<rows, outside, ghosts>>

Answering(r) ==
    \/ Begin(r) \/ Sanitize(r) \/ Tidy(r) \/ Generated(r) \/ Tool(r) \/ Name(r) \/ SoftAsk(r)
    \/ AskWritten(r) \/ AskNoted(r) \/ Send(r) \/ Deliver(r) \/ Warm(r) \/ Addressed(r)
-----------------------------------------------------------------------------
(* update_member_profile_summary, which holds the loop from its first read.   *)

LearnedAll(r) == writeback' = [writeback EXCEPT ![r] = [at |-> "done", copy |-> Nothing]]

Extracted(r) ==
    /\ ~LoopHeld /\ writeback[r].at = "extracting"
    /\ \/ LearnedAll(r)
       \/ writeback' = [writeback EXCEPT ![r].copy = Everything,
              ![r].at = IF bond.facts = Clean(bond.facts) THEN "saving" ELSE "tidying"]
    /\ ran' = {}
    /\ UNCHANGED <<rows, lock, reply, outside, ghosts>>

ProfileTidied(r) ==
    /\ writeback[r].at = "tidying"
    /\ SaveCopy(writeback[r].copy, Clean(writeback[r].copy.bond.facts))
    /\ writeback' = [writeback EXCEPT ![r].at = "saving", ![r].copy = [row |-> member', bond |-> bond']]
    /\ due' = [due EXCEPT !.facts = Clean(@)]
    /\ UNCHANGED <<lock, reply, ran, outside, asked>>

ProfileSaved(r) ==
    /\ writeback[r].at = "saving"
    /\ SaveCopy(writeback[r].copy, Merged(writeback[r].copy.bond.facts, r))
    /\ LearnedAll(r)
    /\ due' = [due EXCEPT !.facts = Merged(@, r)]
    /\ UNCHANGED <<lock, reply, ran, outside, asked>>

Profile(r) == Extracted(r) \/ ProfileTidied(r) \/ ProfileSaved(r)
-----------------------------------------------------------------------------
(* The platform.                                                              *)

Notice(kind, card) == [kind |-> kind, nr |-> told + 1, card |-> card]

Joins ==
    /\ OnLoop /\ ~platform.inside
    /\ News("active", due.card)
    /\ platform' = [platform EXCEPT !.inside = TRUE]
    /\ notices' = notices \cup {Notice("join", 0)}
    /\ UNCHANGED <<rows, chat, page, listing, edits, stale, asked>>

\* The member leaves, or the character has to ("group").
Leaves(kind, status) ==
    /\ OnLoop /\ platform.inside
    /\ News(status, due.card)
    /\ platform' = [platform EXCEPT !.inside = FALSE]
    /\ notices' = notices \cup {Notice(kind, 0)}
    /\ UNCHANGED <<rows, chat, page, listing, edits, stale, asked>>

TakesCard ==
    /\ OnLoop /\ platform.inside
    /\ News("active", told + 1)
    /\ platform' = [platform EXCEPT !.card = told + 1]
    /\ notices' = notices \cup {Notice("card", told + 1)}
    /\ UNCHANGED <<rows, chat, page, listing, edits, stale, asked>>

\* _ahandle_group_increase_notice asks the platform for the card, or fails to.
JoinAsked(n) ==
    /\ OnLoop /\ n \in notices /\ n.kind = "join"
    /\ \E answer \in {[n EXCEPT !.kind = "joined", !.card = platform.card], [n EXCEPT !.kind = "bare"]} :
           notices' = (notices \ {n}) \cup {answer}
    /\ UNCHANGED <<rows, chat, page, listing, platform, told, edits, ghosts>>

Handled(n, cards) ==
    /\ InThread(n.nr) /\ n \in notices
    /\ notices' = notices \ {n}
    /\ stale' = stale \cup Overtaken(n.nr) \cup cards
    /\ UNCHANGED <<bond, chat, page, listing, platform, told, edits, due, asked>>

SaveCard(n) == Save([member EXCEPT !.card = n.card, !.membership = "active"])

JoinStored(n) ==
    \/ n.kind = "joined" /\ Handled(n, OldCard(n.card)) /\ SaveCard(n)
    \/ n.kind = "bare" /\ Handled(n, {}) /\ Save([member EXCEPT !.membership = "active"])

\* _ahandle_group_decrease_notice: a member nobody knows gets a row.
LeaveMarked(n) ==
    /\ n.kind = "leave"
    /\ \/ member.known /\ Handled(n, {}) /\ Mark("left")
       \/ /\ ~member.known /\ n \in notices /\ InThread(n.nr)
          /\ notices' = (notices \ {n}) \cup {[n EXCEPT !.kind = "unknown"]}
          /\ UNCHANGED <<rows, chat, page, listing, platform, told, edits, ghosts>>

LeaveStored(n) == n.kind = "unknown" /\ Handled(n, {}) /\ Save([member EXCEPT !.membership = "left"])

GroupLeft(n) == n.kind = "group" /\ Handled(n, {}) /\ Mark("removed")

\* _ahandle_group_card_notice
CardStored(n) ==
    /\ n.kind = "card"
    /\ Handled(n, OldCard(n.card)) /\ SaveCard(n)

Noticed(n) == JoinAsked(n) \/ JoinStored(n) \/ LeaveMarked(n) \/ LeaveStored(n) \/ GroupLeft(n) \/ CardStored(n)

\* sync_group_members: the list as it was when the platform sent it ...
Listed ==
    /\ listing = {}
    /\ News(IF platform.inside THEN "active" ELSE IF member.known THEN "left" ELSE due.membership,
            IF platform.inside THEN platform.card ELSE due.card)
    /\ listing' = {Notice(IF platform.inside THEN "listed" ELSE "missing", platform.card)}
    /\ UNCHANGED <<rows, chat, ran, page, notices, platform, edits, stale, asked>>

\* ... and the rows it changes, later.
ListStored(n) ==
    /\ n \in listing /\ listing' = {}
    /\ IF n.kind = "listed" THEN SaveCard(n) ELSE Mark("left")
    /\ stale' = stale \cup Overtaken(n.nr) \cup (IF n.kind = "listed" THEN OldCard(n.card) ELSE {})
    /\ UNCHANGED <<bond, chat, ran, page, notices, platform, told, edits, due, asked>>
-----------------------------------------------------------------------------
(* The console.                                                               *)

Edit == told + edits < MaxNews /\ edits' = edits + 1

Load ==
    /\ member.known /\ page = None /\ told + edits < MaxNews
    /\ page' = Everything
    /\ UNCHANGED <<rows, chat, ran, notices, listing, platform, told, edits, ghosts>>

\* save_directory_member: the page sends all it shows, with a name or a fact.
SaveName ==
    /\ page # None /\ Edit
    /\ Save([page.row EXCEPT !.name = "console"]) /\ bond' = page.bond
    /\ stale' = (stale \cup Differing(page)) \ {"name"}
    /\ due' = [due EXCEPT !.name = "console"]
    /\ page' = None
    /\ UNCHANGED <<chat, ran, notices, listing, platform, told, asked>>

SaveFact ==
    /\ page # None /\ Edit
    /\ SaveCopy(page, page.bond.facts \cup {"other"})
    /\ due' = [due EXCEPT !.facts = @ \cup {"other"}]
    /\ page' = None
    /\ UNCHANGED <<chat, ran, notices, listing, platform, told, asked>>

\* reset_member_persona
Reset ==
    /\ page # None /\ Edit
    /\ bond' = NoBond
    /\ due' = [due EXCEPT !.facts = {}, !.affinity = 0]
    /\ stale' = stale \ {"facts", "affinity"}
    /\ page' = None
    /\ UNCHANGED <<member, chat, ran, notices, listing, platform, told, asked>>

Console == Load \/ SaveName \/ SaveFact \/ Reset
-----------------------------------------------------------------------------
Next ==
    \/ \E r \in Replies : Arrive(r) \/ Answering(r) \/ Profile(r)
    \/ Joins \/ Leaves("leave", "left") \/ Leaves("group", "removed") \/ TakesCard \/ Listed
    \/ \E n \in notices \cup listing : Noticed(n) \/ ListStored(n)
    \/ Console

Spec == Init /\ [][Next]_vars
-----------------------------------------------------------------------------
(* Everything that was told has been written.                                 *)
UpToDate == notices = {} /\ listing = {} /\ \A r \in Replies : reply[r].at # "waiting"

(* A name that was given is the name she uses, until another is given, unless *)
(* an older copy of the whole row was saved over it                           *)
(* (use_set_preferred_name_tool, save_directory_member).                      *)
NameKept == member.name = due.name \/ "name" \in stale

(* What a character learned, and how close it came, is kept until a reset,    *)
(* and a reset takes everything away, with the same exception                 *)
(* (update_member_profile_summary, reset_member_persona).                     *)
BondKept ==
    /\ bond.facts = due.facts \/ "facts" \in stale
    /\ bond.affinity = due.affinity \/ "affinity" \in stale

(* The row says what the platform told last, unless something older was       *)
(* written later (handle_notice_payload, sync_group_members).                 *)
PlatformFollowed ==
    UpToDate =>
        /\ member.card = due.card \/ "card" \in stale
        /\ member.known => member.membership = due.membership \/ "membership" \in stale

(* "A single soft follow-up after the first normal reply"                     *)
(* (members/onboarding.py:9).                                                 *)
AskedOnce == asked <= 1

(* It is single unless an older copy of the whole row was saved.              *)
SeldomAsked == AskedOnce \/ "status" \in stale

(* What is remembered of a member.                                            *)
MembersKept == TypeOK /\ NameKept /\ BondKept /\ PlatformFollowed /\ SeldomAsked
=============================================================================
