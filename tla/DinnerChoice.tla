---------------------------- MODULE DinnerChoice ----------------------------
(***************************************************************************)
(* How the dorm dinner plugin chooses a restaurant                         *)
(* (modules/scenes/plugins/dorm_dinner: algorithm.py, capsule.py): the     *)
(* coordinator generates candidates from the capsules of the members, has  *)
(* each capsule evaluate each candidate, and ranks the aggregates.         *)
(*                                                                         *)
(* The hard constraints are modelled; what the soft preferences add up to  *)
(* is any score.  Restaurants are named by numbers, the order of their     *)
(* keys.                                                                   *)
(***************************************************************************)
EXTENDS Integers, Sequences, FiniteSets, FiniteSetsExt

CONSTANTS Members,        \* whose capsules there are
          Restaurants,    \* the data set, by number
          Budgets,        \* pairs of the least and the most a member spends
          Slots,          \* time slots
          Scores,         \* aggregate scores
          MinCandidates

MembersAssumption == Members # {} /\ IsFiniteSet(Members)
Restaurant == [low : Int, high : Int, minutes : Int,
               diets : SUBSET {"none", "vegetarian"}, slots : SUBSET Slots]
RestaurantsAssumption ==
    /\ Restaurants \in Seq(Restaurant) /\ Budgets \subseteq Int \X Int /\ Scores \subseteq Nat
    /\ \A r \in DOMAIN Restaurants : "none" \in Restaurants[r].diets

VARIABLES capsule,        \* what each member has handed in
          stage,          \* the next phase of the generation
          candidates,     \* generated restaurants
          passing,        \* those that pass the hard gate
          ranked          \* all of them, best first

vars == <<capsule, stage, candidates, passing, ranked>>

(* A capsule of validated preferences (schema.py): "none" is what no       *)
(* dietary restriction is called, and it does not stand beside others.     *)
Capsule == [budget : Budgets, diets : {{"none"}, {"vegetarian"}},
            slots : SUBSET Slots, minutes : {10, 20, 30}]

Init ==
    /\ capsule \in [Members -> Capsule]
    /\ stage = "generate"
    /\ candidates = {} /\ passing = {} /\ ranked = <<>>

(***************************************************************************)
(* Candidates: filter, and relax distance, budget and time in turn         *)
(***************************************************************************)

Overlap(r, budget) == Restaurants[r].low <= budget[2] /\ Restaurants[r].high >= budget[1]

Serves(r, diets) == diets = {"none"} \/ diets \subseteq Restaurants[r].diets

Filter(budget, diets, slots, minutes) ==
    {r \in DOMAIN Restaurants :
        /\ Overlap(r, budget)
        /\ Serves(r, diets)
        /\ slots = {} \/ Restaurants[r].slots \cap slots # {}
        /\ Restaurants[r].minutes <= minutes}

Lows == {capsule[m].budget[1] : m \in Members}
Highs == {capsule[m].budget[2] : m \in Members}
Widest == <<Min(Lows), Max(Highs)>>
GroupBudget ==
    IF Max(Lows) <= Min(Highs) THEN <<Max(Lows), Min(Highs)>> ELSE Widest
GroupDiets == UNION {capsule[m].diets : m \in Members}

GroupSlots == UNION {capsule[m].slots : m \in Members}

GroupMinutes == Min({capsule[m].minutes : m \in Members})

Attempts ==
    << Filter(GroupBudget, GroupDiets, GroupSlots, GroupMinutes),
       Filter(GroupBudget, GroupDiets, GroupSlots, 30),
       Filter(Widest, GroupDiets, GroupSlots, 30),
       Filter(GroupBudget, GroupDiets, {}, 30) >>

(* The first attempt with enough candidates, or else the last.             *)
GenerateCandidates ==
    LET enough == {i \in DOMAIN Attempts : Cardinality(Attempts[i]) >= MinCandidates}
    IN  Attempts[Min(enough \cup {Len(Attempts)})]

Generate ==
    /\ stage = "generate"
    /\ candidates' = GenerateCandidates
    /\ stage' = "evaluate"
    /\ UNCHANGED <<capsule, passing, ranked>>

(***************************************************************************)
(* Evaluation by every capsule, and the ranking                            *)
(***************************************************************************)

(* Mutant: the budget of the filter, which may be relaxed, is relied on. *)
HardPassDiets(r, c) == Serves(r, c.diets)

HardPass(r, c) == Overlap(r, c.budget) /\ Serves(r, c.diets)

Evaluate ==
    /\ stage = "evaluate"
    /\ passing' = {r \in candidates : \A m \in Members : HardPass(r, capsule[m])}
    /\ stage' = "rank"
    /\ UNCHANGED <<capsule, candidates, ranked>>

(* What fails the hard gate has score 0 and comes last; equal scores are   *)
(* in the order of the keys.                                               *)
Before(a, b) ==
    IF a.pass # b.pass THEN a.pass
    ELSE a.score > b.score \/ (a.score = b.score /\ a.key < b.key)

Aggregate(r, score) ==
    [key |-> r, pass |-> r \in passing, score |-> IF r \in passing THEN score ELSE 0]

(* Each comes after as many as are before it. *)
InOrder(set) ==
    [i \in 1 .. Cardinality(set) |->
        CHOOSE a \in set : Cardinality({b \in set : Before(b, a)}) = i - 1]

Rank ==
    /\ stage = "rank"
    /\ \E score \in [candidates -> Scores] :
          ranked' = InOrder({Aggregate(r, score[r]) : r \in candidates})
    /\ stage' = "done"
    /\ UNCHANGED <<capsule, candidates, passing>>

Next == Generate \/ Evaluate \/ Rank

Spec == Init /\ [][Next]_vars

Selected == IF ranked # <<>> /\ ranked[1].pass THEN {ranked[1].key} ELSE {}

(***************************************************************************)
(* Properties                                                              *)
(***************************************************************************)

(* Capsules, restaurants and scores are well typed. *)
TypeOK ==
    /\ capsule \in [Members -> Capsule]
    /\ stage \in {"generate", "evaluate", "rank", "done"}
    /\ candidates \subseteq DOMAIN Restaurants /\ passing \subseteq candidates
    /\ \A i \in DOMAIN ranked : ranked[i].key \in candidates /\ ranked[i].score \in Scores \cup {0}

(* Although the search for candidates is relaxed until there are enough,   *)
(* the restaurant that is selected can be paid and eaten by everyone, and  *)
(* none is selected only if no candidate suits everyone.                   *)
SelectedSuitsAll ==
    LET Suits(r) == \A m \in Members :
            /\ Restaurants[r].low <= capsule[m].budget[2]
            /\ Restaurants[r].high >= capsule[m].budget[1]
            /\ capsule[m].diets \subseteq Restaurants[r].diets
    IN  stage = "done" =>
            /\ \A r \in Selected : Suits(r)
            /\ Selected = {} => \A r \in candidates : ~ Suits(r)

(* A restaurant that suits everyone's budget and diet, is near enough for  *)
(* all and opens when somebody has time is always among the candidates,    *)
(* whichever relaxation they come from: relaxing for more candidates never *)
(* loses a good one.                                                       *)
SuitableOffered ==
    stage = "done" =>
        \A r \in DOMAIN Restaurants :
            (\A m \in Members : /\ HardPass(r, capsule[m])
                                /\ Restaurants[r].minutes <= capsule[m].minutes
                                /\ \E n \in Members :
                                      Restaurants[r].slots \cap capsule[n].slots # {})
            => r \in candidates
=============================================================================
