---------------------------- MODULE MCRuntimeStore ----------------------------
(* Instances of RuntimeStore, and of what it promises, for TLC. *)
EXTENDS RuntimeStoreRefinement, TLC

\* Conversations, characters and platform ids are interchangeable; sequence numbers
\* and attempts are not.
Symmetry == Permutations(Characters) \cup Permutations(Sources) \cup Permutations(Convs)

\* The safety run looks at two regions: a longer queue, and retries of a shorter
\* one.  Both bound counters that only grow.
OneAttempt == \A c \in Convs, s \in Seqs : attempts[c][s] <= 1
TwoRows    == \A c \in Convs : nextSeq[c] <= 3
Within     == OneAttempt \/ TwoRows

\* The liveness run looks at two regions as well: three messages of two
\* conversations, two of them in one; and a message of each with one of the
\* conversations erased.  Only messages and requests of people lead out of them,
\* which no fairness asks for, so a step that leads out is left out soundly.
Contended == /\ \A c \in Convs : deletion[c].gen = 1
             /\ \E c \in Convs : nextSeq[c] <= 2
Forgotten == /\ \A c \in Convs : nextSeq[c] <= 2
             /\ \E c \in Convs : deletion[c].gen = 1
Admitting == Contended \/ Forgotten

FairWithin == Init /\ [][Next /\ Admitting']_vars /\ Fairness
=============================================================================
