------------------------------ MODULE MCEpisodes ------------------------------
(* Instances of Episodes: what the user says, and which of it together. *)
EXTENDS Episodes, TLC

Say(do, named, date) == [do |-> do, mem |-> named, date |-> date]
Remember == {Say("chat", {}, NoDate), Say("no", {}, NoDate), Say("start", Memories, NoDate), Say("approve", {}, NoDate)} \cup {Say("chat", {}, d) : d \in Dates}
Many   == {Say("start", Memories, NoDate), Say("clear", Memories, NoDate), Say("approve", {}, NoDate),
           Say("approve_clear", {}, NoDate)} \cup {Say("pick", {m}, NoDate) : m \in Memories}
Doubt  == {Say("start", Memories, NoDate), Say("cancel", {}, NoDate), Say("approve", {}, NoDate)}
            \cup {Say("date", {}, d) : d \in Dates}
Everything == Remember \cup Many \cup Doubt

\* The run looks at three regions: doubts about one date, the choice among
\* several episodes, and a crash while an episode is remembered.
Said(says) == \A i \in DOMAIN rows : rows[i].kind = "message" => rows[i].say \in says
Existing == {m \in Memories : mem[m].ver > 0}
Within ==
  \/ Said(Doubt) /\ Cardinality(Existing) <= 1 /\ crashes = 0
  \/ Said(Many) /\ changes = 0 /\ crashes = 0
  \/ Said(Remember) /\ Cardinality(Existing) <= 1 /\ Len(rows) <= 2

\* Episodes are alike, and so are dates.
Alike == Permutations(Memories) \cup Permutations(Dates)
===============================================================================
