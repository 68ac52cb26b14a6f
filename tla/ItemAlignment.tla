---------------------------- MODULE ItemAlignment ----------------------------
(***************************************************************************)
(* How node_item_name_confirm decides on the items a question is about,    *)
(* from what the catalogue of item names has for each extracted name: a    *)
(* list of matches with scores in hundredths, the best first.              *)
(***************************************************************************)
EXTENDS Integers, Sequences, FiniteSets, SequencesExt

CONSTANTS
    High,         \* a match above it is confirmed
    Mid,          \* a match from it on is an option
    MaxOptions    \* options taken from the matches of one name

ASSUME AlignmentAssumption ==
    High \in Int /\ Mid \in Int /\ Mid <= High /\ MaxOptions \in Nat \ {0}

(* Matches by their place in the list. *)
Highs(matches) == {i \in DOMAIN matches : matches[i].score > High}
Mids(matches) == {i \in DOMAIN matches : matches[i].score >= Mid}
FirstIn(places) == CHOOSE i \in places : \A j \in places : i <= j

\* mutant: the best match is taken, whatever the name
PickedBest(r) == r.matches[FirstIn(Highs(r.matches))].item

(* One match is taken; of several the one of that very name, or the best.  *)
Picked(r) ==
    LET high == Highs(r.matches)
        same == {i \in high : r.matches[i].item = r.name}
        several == \E i, j \in high : i # j
    IN  r.matches[FirstIn(IF several /\ same # {} THEN same ELSE high)].item

Offered(r) ==
    {r.matches[i].item : i \in {k \in Mids(r.matches) :
        Cardinality({j \in Mids(r.matches) : j <= k}) <= MaxOptions}}

(* _step_6_align_item_names: duplicates go, and so does the order. *)
Align(results) ==
    LET set == ToSet(results)
    IN  [confirmed |-> {Picked(r) : r \in {s \in set : Highs(s.matches) # {}}},
         options   |-> UNION {Offered(r) : r \in {s \in set : Highs(s.matches) = {}}}]

(* _step_7_check_confirmation: confirmed names are searched for, else the  *)
(* options are asked about, else nothing was found.                        *)
Confirm(results) ==
    LET aligned == Align(results)
    IN  CASE aligned.confirmed # {} -> [to |-> "search", items |-> aligned.confirmed]
          [] aligned.confirmed = {} /\ aligned.options # {} ->
                [to |-> "ask", items |-> aligned.options]
          [] OTHER -> [to |-> "not_found", items |-> {}]

----------------------------------------------------------------------------
(* Only what matches well is searched for; a name the catalogue has, and   *)
(* that matches well, is never passed over for a similar one; a question   *)
(* is not asked back while one of its names is certain, and is asked back, *)
(* with near names only, whenever some name is near.                       *)
AlignmentSound(results) ==
    LET decision == Confirm(results)
        set == ToSet(results)
        Certain(r, item) == \E m \in ToSet(r.matches) : m.item = item /\ m.score > High
        Near(r, item) ==
            \E m \in ToSet(r.matches) : m.item = item /\ m.score >= Mid /\ m.score <= High
    IN  /\ decision.to = "search" =>
            /\ \A item \in decision.items : \E r \in set : Certain(r, item)
            /\ \A r \in set : Certain(r, r.name) => r.name \in decision.items
        /\ decision.to = "ask" => \A item \in decision.items : \E r \in set : Near(r, item)
        /\ decision.to = "search" <=> \E r \in set : \E m \in ToSet(r.matches) : m.score > High
        /\ decision.to = "not_found" <=> \A r \in set : \A m \in ToSet(r.matches) : m.score < Mid
============================================================================
