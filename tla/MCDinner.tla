------------------------------ MODULE MCDinner ------------------------------
(* The scenes of a chat, and three parts of the dorm dinner that share no  *)
(* state with them, on small instances: the choice of the plugin, the      *)
(* search for evidence and the demo data.  A behaviour is one of the part  *)
(* that the variable of that name says, and the others rest.               *)
(* The scenes of a chat are either one scene whose creator always takes    *)
(* part and may negotiate again, or two scenes in a row that only their    *)
(* creators take part in, that negotiate once and take no votes.           *)
EXTENDS ChatDinner, Sequences

CONSTANTS Restaurants, Budgets, Slots, Scores, MinCandidates,
          Pages, Answers, Queries, PerQuery, MaxTotal, MaxAnswers,
          Demo, Creator, Activities, Seeders, MaxActivities

VARIABLES part,
          capsule, stage, candidates, passing, ranked,
          evidence, query, final,
          db, seeder, progress, abandoned, reset, activity

FiveRestaurants ==
    << [low |-> 1, high |-> 2, minutes |-> 5, diets |-> {"none"}, slots |-> {"lunch"}],
       [low |-> 2, high |-> 3, minutes |-> 10, diets |-> {"none", "vegetarian"},
        slots |-> {"lunch", "dinner"}],
       [low |-> 2, high |-> 2, minutes |-> 15, diets |-> {"none", "vegetarian"},
        slots |-> {"dinner"}],
       [low |-> 3, high |-> 4, minutes |-> 20, diets |-> {"none"}, slots |-> {"dinner"}],
       [low |-> 1, high |-> 4, minutes |-> 25, diets |-> {"none", "vegetarian"},
        slots |-> {"lunch"}] >>

ThreeBudgets == {<<1, 2>>, <<2, 3>>, <<3, 4>>}

Page(u, t, f) == [url |-> u, title |-> t, food |-> f]
FourPages == {Page("u1", "t1", TRUE), Page("u2", "t1", TRUE), Page("u2", "t2", TRUE),
          Page("u3", "t3", FALSE)}
Answer(k, urls, v) == [key |-> k, urls |-> urls, valid |-> v]
FiveAnswers == {Answer("a", {"u1"}, TRUE), Answer("a", {"u2", "u3"}, TRUE),
                Answer("b", {"u2"}, TRUE), Answer("c", {"u3"}, TRUE),
                Answer("d", {"u1", "u2"}, FALSE)}

(* What users do beside the demo data: eve talks with alice and holds a    *)
(* dinner of her own there, or talks alone and dines there; alice uses her *)
(* agent and her session; rows that no reset deletes.                      *)
Stored(t, name, n, refs) == [table |-> t, name |-> name, number |-> n, refs |-> refs]
User(u) == <<"user", u, 0>>
Talk(n) == <<"conversation", "eve", n>>
Conversation(n, with) ==
    {Stored("conversation", "eve", n, {User("eve")})} \cup
    {Stored("participant", u, n, {Talk(n), User(u)}) : u \in with}
Dinner(n) ==
    LET instance == <<"scene", "eve", n>>  best == <<"candidate", "eve", n>> IN
    {Stored("scene", "eve", n, {User("eve"), Talk(n)}), Stored("candidate", "eve", n, {instance}),
     Stored("seat", "eve", n, {instance, User("eve")}),
     Stored("vote", "eve", n, {instance, best, User("eve")}),
     Stored("result", "eve", n, {instance, best})}
AgentUse ==
    LET agent == <<"agent", "a", 0>>  session == <<"session", "a", 0>> IN
    {Stored("agent", "a", 0, {User("alice")}), Stored("run", "a", 0, {User("alice"), agent}),
     Stored("audit", "a", 0, {User("alice")}), Stored("contact", "a", 0, {User("alice"), User("eve")}),
     Stored("session", "a", 0, {User("alice")}), Stored("token", "a", 0, {User("alice"), session})}
DemoActivities ==
    {Conversation(8, {"eve", "alice"}), Dinner(8), Conversation(9, {"eve"}), Dinner(9),
     AgentUse, {Stored("thread", "t", 0, {User("alice")})},
     {Stored("conversation", "eve", 7, {User("eve"), <<"organization", "demo", 0>>})}}

E == INSTANCE DemoData
D == INSTANCE DinnerChoice
S == INSTANCE DinnerSearch

DinnerParameters == BoundsAssumption /\ ServersAssumption
ProposalParameters == D!MembersAssumption /\ D!RestaurantsAssumption /\ S!SearchAssumption
DemoParameters == E!DemoAssumption /\ E!SchemaAssumption

cvars == <<scene, role, submitted, candidate, vote, job>>
dvars == <<capsule, stage, candidates, passing, ranked>>
svars == <<evidence, query, final>>
evars == <<db, seeder, progress, abandoned, reset, activity>>
dinnerVars == <<part, cvars, dvars, svars, evars>>

DinnerInit ==
    /\ part \in {"again", "twice", "choice", "search", "demo"}
    /\ ChatInit /\ D!Init /\ S!Init /\ E!Init
    /\ part # "choice" => \A m \in Members :
          capsule[m] = [budget |-> <<1, 2>>, diets |-> {"none"}, slots |-> {}, minutes |-> 10]

Alone(now) ==
    /\ now.at \notin {"vote", "next"}
    /\ now.at \in {"participate", "join", "submit"} => now.user = scene[now.scene].creator
    /\ now.at = "negotiate" => now.read.context.history = 0

InPart ==
    \/ /\ part = "again"
       /\ scene[2]' = Absent /\ scene[1].creator' = Absent.creator
       /\ job["loop"].at' = "participate" => job["loop"].user' # Absent.creator
    \/ /\ part = "twice"
       /\ \A s \in Servers : Alone(job[s]')
       /\ \A i \in Scenes : Cardinality(candidate[i].keys') <= 1

(* Users do something only where the first scene was completed, and more   *)
(* than one seeding runs only where they do not and there is no reset.     *)
AlwaysSeeds == CHOOSE s \in Seeders : TRUE
OneAtEase ==
    /\ activity' > 0 => progress'[2] = 0 /\ E!Complete(1) /\ abandoned' = {}
    /\ activity' > 0 \/ reset'.next > 0 =>
          \A s \in Seeders \ {AlwaysSeeds} : seeder'[s] = E!Rest

DinnerNext ==
    \/ ChatNext /\ InPart /\ UNCHANGED <<part, dvars, svars, evars>>
    \/ part = "choice" /\ D!Next /\ UNCHANGED <<part, cvars, svars, evars>>
    \/ part = "search" /\ S!Next /\ UNCHANGED <<part, cvars, dvars, evars>>
    \/ part = "demo" /\ E!Next /\ OneAtEase /\ UNCHANGED <<part, cvars, dvars, svars>>

DinnerSpec == DinnerInit /\ [][DinnerNext]_dinnerVars
DemoSpec == DinnerInit /\ part = "demo" /\ [][DinnerNext]_dinnerVars

(* What people get to vote on or are told to eat is sound: whatever        *)
(* relaxation the plugin applies, the restaurant it selects suits          *)
(* everyone's budget and diet, and one that suits all is among the         *)
(* candidates; and every candidate of a chat rests on a source that was    *)
(* really found, none of them counted twice (dorm_dinner_algorithm.py,     *)
(* web search of chat_dorm_dinner.py).  Every column of the scenes has a   *)
(* value that the code stores.                                             *)
ProposalsSound ==
    /\ ChatTypeOK /\ D!TypeOK /\ D!SelectedSuitsAll /\ D!SuitableOffered
    /\ S!TypeOK /\ S!EverySourceFound /\ S!EvidenceDistinct

(* The demo data: however often it is seeded there is one demo scene, a    *)
(* reset that runs alone goes through unless a row beyond its statements   *)
(* refers to what it deletes, and it deletes only what leads to the demo   *)
(* users: their own rows, and the conversations and scenes of others in    *)
(* which one of them takes part (seed.py, reset.py).                       *)
DemoDataSound ==
    /\ [](E!TypeOK /\ E!OneDemoScene)
    /\ E!ResetGoesThrough /\ E!OnlyRelatedDeleted

(* seed.py: repeated runs produce the same end state. *)
SameEndState == E!SameEndState

(* reset.py: non-demo rows are preserved. *)
NonDemoKept == E!NonDemoKept
=============================================================================
