------------------------------ MODULE Operators ------------------------------
(* What the operators of the console decide about one conversation of the     *)
(* runtime (runtime_v2/store.py, web/http_api.py), each on a page that may be *)
(* old, while the conversation goes on, and the files they bring back from    *)
(* backups: the database, and the journal of deletions that stands guard over *)
(* it (privacy.py).  The interleavings of workers, sends and one erasure are  *)
(* in RuntimeStore.                                                           *)
EXTENDS Integers, Sequences, FiniteSets, Functions

CONSTANTS Operator,   \* the operators
          MaxThings,  \* bound: rows and sends
          Erasures, Backups, Restores, Stops   \* bounds

VARIABLES
    main,     \* the conversation in the database
    journal,  \* the deletions, oldest first
    copies,   \* [main, journal]: the backups of each file
    up, failed,   \* the store is open; _privacy_failed
    page,     \* [Operator -> the conversation as the operator's page shows it]
    things, left,
    forked    \* for the properties: an older journal was brought back

vars == <<main, journal, copies, up, failed, page, things, left, forked>>

\* Rows and sends are numbered in the order they come into being; the tables
\* know neither the numbers of sends nor which rows they count.
NoBox == [id |-> 0, state |-> "none", attempts |-> 0, erased |-> FALSE, send |-> 0]
New == [gen |-> 1, active |-> TRUE, next |-> 1, rows |-> {}, box |-> NoBox]
NoPage == [New EXCEPT !.gen = 0]

BoxStates == {"none", "pending", "dispatching", "unknown", "rejected", "accepted", "cancelled"}

TypeOK ==
    /\ main.gen \in Nat /\ main.active \in BOOLEAN /\ main.next \in Nat
    /\ main.rows \subseteq 1..MaxThings /\ main.box.state \in BoxStates
    /\ up \in BOOLEAN /\ failed \in BOOLEAN /\ things \in 0..MaxThings /\ forked \in BOOLEAN

Init ==
    /\ main = New /\ journal = <<>> /\ copies = [main |-> {}, journal |-> {}]
    /\ up = TRUE /\ failed = FALSE /\ page = [o \in Operator |-> NoPage]
    /\ things = 0 /\ forked = FALSE
    /\ left = [erasures |-> Erasures, backups |-> Backups, restores |-> Restores, stops |-> Stops]

Serves == up /\ ~failed
files == <<journal, copies, up, failed>>

-----------------------------------------------------------------------------
(* The conversation goes on *)

Fresh == things + 1
Make == things < MaxThings /\ things' = Fresh

\* A message comes in, or a memory, a reminder or a rule is stored.
Grow ==
    /\ Serves /\ main.active /\ Make
    /\ \E next \in {main.next, main.next + 1} :
         main' = [main EXCEPT !.rows = @ \cup {Fresh}, !.next = next]
    /\ UNCHANGED <<files, page, left, forked>>

Pending(box) == box.state \in {"dispatching", "unknown"}

\* A reply is planned.
Plan ==
    /\ Serves /\ main.active /\ Make
    /\ main.box.state \in {"none", "accepted", "cancelled"}
    /\ main' = [main EXCEPT !.rows = @ \cup {Fresh},
                            !.box = [id |-> Fresh, state |-> "pending", attempts |-> 0, erased |-> FALSE, send |-> 0]]
    /\ UNCHANGED <<files, page, left, forked>>

Dispatch ==
    /\ Serves /\ main.box.state = "pending" /\ Make
    /\ main' = [main EXCEPT !.box.state = "dispatching", !.box.attempts = @ + 1, !.box.send = Fresh]
    /\ UNCHANGED <<files, page, left, forked>>

\* A delivery is settled; what was said joins the history, if it is not erased.
Settled(state) ==
    [main EXCEPT !.box.state = state,
                 !.rows = IF state = "accepted" /\ ~main.box.erased THEN @ \cup {main.box.send} ELSE @]

Result ==
    /\ Serves /\ main.box.state = "dispatching"
    /\ \E status \in {"accepted", "rejected", "unknown"} : main' = Settled(status)
    /\ UNCHANGED <<files, page, things, left, forked>>

-----------------------------------------------------------------------------
(* Decisions *)

\* An operator loads the page: the row, the preview and the generation.
Load(o) ==
    /\ Serves /\ page[o] # main
    /\ page' = [page EXCEPT ![o] = main]
    /\ UNCHANGED <<main, files, things, left, forked>>

\* Mutant: only the state is compared.
ShownByState(seen) == seen.id = main.box.id /\ seen.state = main.box.state

\* expected_attempts and expected_state.
Shown(seen) == seen.id = main.box.id /\ seen.attempts = main.box.attempts /\ seen.state = main.box.state

\* resolve_delivery: confirm_sent, retry or discard.
MayResolve(o) == Serves /\ main.box.state \in {"unknown", "rejected"} /\ Shown(page[o].box)

Resolve(o) ==
    /\ MayResolve(o)
    /\ \E state \in {"accepted", "pending", "cancelled"} :
         /\ state = "pending" => ~main.box.erased
         /\ state = "accepted" => main.box.state = "unknown"
         /\ main' = Settled(state)
    /\ UNCHANGED <<files, page, things, left, forked>>

\* The token of a preview knows how many rows there are, not which.
Token(seen) == <<seen.gen, seen.next, seen.active, Cardinality(seen.rows), [seen.box EXCEPT !.send = 0]>>

\* What the journal keeps of a deletion (the rows for the properties).
Record == [gen |-> main.gen + 1, cutoff |-> main.next - 1, rows |-> main.rows,
           box |-> IF Pending(main.box) THEN main.box ELSE NoBox]

Greater(a, b) == IF a >= b THEN a ELSE b
Apply(seen, record) ==
    IF seen.gen >= record.gen THEN seen
    ELSE [gen |-> record.gen, active |-> FALSE, next |-> Greater(seen.next, record.cutoff + 1), rows |-> {},
          box |-> IF record.box = NoBox THEN NoBox ELSE [record.box EXCEPT !.erased = TRUE]]

MayErase(o) ==
    Serves /\ left.erasures > 0 /\ main.active /\ Token(page[o]) = Token(main)

\* erase_conversation: the journal is written first; if it or the database fails,
\* everything is refused until the store is opened again.
Erase(o) ==
    /\ MayErase(o)
    /\ left' = [left EXCEPT !.erasures = @ - 1]
    /\ \/ journal' = Append(journal, Record) /\ main' = Apply(main, Record) /\ failed' = FALSE
       \/ journal' \in {journal, Append(journal, Record)} /\ main' = main /\ failed' = TRUE
    /\ UNCHANGED <<copies, up, page, things, forked>>

Resume(o) ==
    /\ Serves /\ page[o].gen = main.gen /\ main.gen > 1
    /\ ~main.active /\ ~Pending(main.box)
    /\ main' = [main EXCEPT !.active = TRUE]
    /\ UNCHANGED <<files, page, things, left, forked>>

-----------------------------------------------------------------------------
(* The files *)

\* The store is closed, or the process dies.
Stop ==
    /\ up /\ left.stops > 0 /\ left' = [left EXCEPT !.stops = @ - 1]
    /\ up' = FALSE /\ failed' = FALSE
    /\ UNCHANGED <<main, journal, copies, page, things, forked>>

\* Each file is copied when it suits the operator ...
BackUp ==
    /\ left.backups > 0 /\ left' = [left EXCEPT !.backups = @ - 1]
    /\ \/ main \notin copies.main /\ copies' = [copies EXCEPT !.main = @ \cup {main}]
       \/ journal \notin copies.journal /\ copies' = [copies EXCEPT !.journal = @ \cup {journal}]
    /\ UNCHANGED <<main, journal, up, failed, page, things, forked>>

\* ... and brought back while the store is closed; then the pages are loaded anew.
Restore ==
    /\ ~up /\ left.restores > 0 /\ left' = [left EXCEPT !.restores = @ - 1]
    /\ \/ main' \in copies.main \ {main} /\ UNCHANGED <<journal, forked>>
       \/ journal' \in copies.journal \ {journal} /\ forked' = TRUE /\ main' = main
    /\ page' = [o \in Operator |-> NoPage]
    /\ UNCHANGED <<copies, up, failed, things>>

Highest(deletions) == IF deletions = <<>> THEN 1 ELSE deletions[Len(deletions)].gen
Replayed(seen) ==
    LET after[n \in 0..Len(journal)] == IF n = 0 THEN seen ELSE Apply(after[n - 1], journal[n])
    IN  after[Len(journal)]

\* The store opens: the deletions are replayed, and a journal that lags behind
\* the database is refused; sends that were under way are unclear.
Open ==
    /\ ~up
    /\ LET now == Replayed(main) IN
         /\ now.gen = Highest(journal)
         /\ main' = IF now.box.state = "dispatching" THEN [now EXCEPT !.box.state = "unknown"] ELSE now
    /\ up' = TRUE
    /\ UNCHANGED <<journal, copies, failed, page, things, left, forked>>

\* Mutant: only a journal that lags behind is looked for.
InspectableIfKept == main.gen > 1 => main.gen = Highest(journal)

\* check_inspection: the command line may read the database, open or not.
Inspectable == main.gen = Highest(journal)

Decision(o) == Load(o) \/ Resolve(o) \/ Erase(o) \/ Resume(o)
Next ==
    \/ Grow \/ Plan \/ Dispatch \/ Result
    \/ \E o \in Operator : Decision(o)
    \/ Stop \/ BackUp \/ Restore \/ Open

Spec == Init /\ [][Next]_vars

-----------------------------------------------------------------------------
(* Properties *)

\* What an operator decides is decided about what the page showed: the very send
\* a review is about, and the very rows an erasure deletes, which the token only
\* counts (expected_attempts, preview_token).
DecidedAsSeen ==
    TypeOK /\ \A o \in Operator :
      /\ MayResolve(o) => page[o].box.send = main.box.send
      /\ MayErase(o) => page[o].rows = main.rows

Readable == Serves \/ Inspectable

\* As long as the journal remembers a deletion, whatever backup the database comes
\* from, nobody reads what was deleted; and no event takes the number of a deleted
\* one, unless an older journal was brought back (generations are compared by number).
ErasedStaysErased ==
    Readable => \A k \in DOMAIN journal :
                  /\ journal[k].rows \cap main.rows = {}
                  /\ journal[k].cutoff < main.next \/ forked
=============================================================================
