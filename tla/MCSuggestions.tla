--------------------------- MODULE MCSuggestions ---------------------------
(***************************************************************************)
(* Suggestions for TLC: one person, two workers, and an excerpt of the     *)
(* export and of the tables of matching.go that has an event for each      *)
(* reason to be turned away or preferred.                                  *)
(***************************************************************************)
EXTENDS Suggestions

MCUsers == {"u1"}
MCWorkers == {"w1", "w2"}

MCWords == {"hackathon", "conference", "summit", "women", "women in",
            "ai", "machine_learning", "dubai", "london", "online"}
MCInside == {<<w, w>> : w \in MCWords}
              \cup {<<"women", "women in">>, <<"ai", "dubai">>}
MCTags == [w \in MCWords |->
    CASE w = "hackathon" -> {"hackathon"}
      [] w = "conference" -> {"conference", "summit"}
      [] w = "ai" -> {"ai", "machine_learning"}
      [] OTHER -> {}]
MCAudiences == {[markers |-> {"women in"}, optIn |-> {"women"}]}

MCDetails ==
    [jam      |-> [starts |-> 3, city |-> "london", words |-> {"hackathon", "ai", "london"}],
     hacknite |-> [starts |-> 5, city |-> "london", words |-> {"hackathon", "london"}],
     summit   |-> [starts |-> 8, city |-> "online",
                   words |-> {"summit", "machine_learning", "online"}],
     women    |-> [starts |-> 1, city |-> "london",
                   words |-> {"hackathon", "women", "women in", "london"}],
     expo     |-> [starts |-> 4, city |-> "dubai", words |-> {"ai", "dubai"}]]
MCExports == {{"jam", "hacknite", "women"}, {"jam", "summit", "expo"}, {"jam"}}

Wants(w) == [word |-> w, no |-> FALSE]
Avoids(w) == [word |-> w, no |-> TRUE]
MCProfiles == {{}, {Wants("ai"), Avoids("conference")}, {Wants("hackathon"), Wants("women")}}
=============================================================================
