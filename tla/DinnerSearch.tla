---------------------------- MODULE DinnerSearch ----------------------------
(***************************************************************************)
(* Which candidates the agents of a chat dinner end up with                *)
(* (modules/scenes: dinner_search.py, chat_dorm_dinner.py): the evidence   *)
(* of several searches is merged, the model answers with candidates and    *)
(* proposals that cite addresses, and only what the evidence supports is   *)
(* kept.                                                                   *)
(***************************************************************************)
EXTENDS Integers, Sequences, FiniteSets, SequencesExt

CONSTANTS Pages,          \* search results: [url, title, food]
          Answers,        \* candidates of the model: [key, urls, valid]
          Queries,        \* number of searches
          PerQuery,       \* results a search returns at most
          MaxTotal,       \* evidence at most
          MaxAnswers      \* candidates and proposals of the model at most

SearchAssumption ==
    Queries \in Nat /\ PerQuery \in Nat /\ MaxTotal \in Nat /\ MaxAnswers \in Nat

VARIABLES evidence,       \* sequence of pages
          query,          \* searches that have been made
          final           \* the candidates of the negotiation

vars == <<evidence, query, final>>

Pending == <<>>
Fails == <<[key |-> "DinnerSearchError", urls |-> {}]>>
UpTo(n, S) == UNION {[1 .. k -> S] : k \in 0 .. n}

Init == evidence = <<>> /\ query = 0 /\ final = Pending

(* A page is added when it looks like a restaurant and neither its address *)
(* nor its title is known, until there is enough evidence.                 *)
Add(found, page) ==
    IF \/ Len(found) >= MaxTotal \/ ~ page.food
       \/ \E i \in DOMAIN found : found[i].url = page.url \/ found[i].title = page.title
    THEN found ELSE Append(found, page)

Search ==
    /\ query < Queries /\ final = Pending
    /\ \E results \in UpTo(PerQuery, Pages) : evidence' = FoldLeft(Add, evidence, results)
    /\ query' = IF Len(evidence') >= MaxTotal THEN Queries ELSE query + 1
    /\ UNCHANGED final

(* One search that fails is the end of the negotiation.                    *)
SearchRefused ==
    /\ query < Queries /\ final = Pending
    /\ final' = Fails
    /\ UNCHANGED <<evidence, query>>

(* An answer that is valid and cites something of the evidence is kept     *)
(* with these addresses.                                                   *)
Urls == {evidence[i].url : i \in DOMAIN evidence}

Kept(list, a) ==
    LET cited == a.urls \cap Urls IN
    IF cited # {} /\ a.valid THEN Append(list, [key |-> a.key, urls |-> cited]) ELSE list

Grounded(answers) == FoldLeft(Kept, <<>>, answers)

(* With fewer than two candidates, proposals of the agents with new keys   *)
(* are added up to four.                                                   *)
AddNew(list, c) ==
    IF Len(list) >= 4 \/ \E i \in DOMAIN list : list[i].key = c.key
    THEN list ELSE Append(list, c)

FinalCandidates(candidates, proposals) ==
    IF Len(candidates) < 2 THEN FoldLeft(AddNew, candidates, proposals)
    ELSE SubSeq(candidates, 1, IF Len(candidates) < 4 THEN Len(candidates) ELSE 4)

(* The call of the model may fail, and its answer may not be usable.       *)
Negotiate ==
    /\ query = Queries /\ final = Pending
    /\ \/ final' = Fails
       \/ \E answers, proposals \in UpTo(MaxAnswers, Answers) :
             LET grounded == Grounded(answers)
             IN  /\ evidence # <<>> /\ grounded # <<>>
                 /\ final' = FinalCandidates(grounded, Grounded(proposals))
    /\ UNCHANGED <<evidence, query>>

Next == Search \/ SearchRefused \/ Negotiate

Spec == Init /\ [][Next]_vars

(***************************************************************************)
(* Properties                                                              *)
(***************************************************************************)

(* Pages and searches are well typed, and every candidate cites something. *)
TypeOK ==
    /\ \A i \in DOMAIN evidence : evidence[i] \in Pages
    /\ query \in 0 .. Queries
    /\ final # Fails => \A i \in DOMAIN final : final[i].urls # {}

(* No candidate reaches the vote without a source that was really found,   *)
(* wherever it comes from, and the vote has one to four candidates.        *)
EverySourceFound ==
    final \notin {Pending, Fails} =>
        /\ \A i \in DOMAIN final :
              final[i].urls # {} /\ \A u \in final[i].urls :
                                        \E j \in DOMAIN evidence : evidence[j].url = u
        /\ Len(final) \in 1 .. 4

(* No page is counted twice as evidence, under its address or its title.   *)
EvidenceDistinct ==
    \A i, j \in DOMAIN evidence :
        evidence[i].url = evidence[j].url \/ evidence[i].title = evidence[j].title => i = j
=============================================================================
