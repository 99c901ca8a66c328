------------------------------- MODULE MCOrg -------------------------------
(* OrgMembership on a small instance.  Requests are served in turn, except *)
(* that the deletion may overlap a change of the organization.             *)
EXTENDS OrgMembership

InTurn ==
    LET busy == {w \in Workers : worker'[w] # Idle} IN
    \/ Cardinality(busy) <= 1
    \/ /\ Cardinality(busy) = 2
       /\ \E w, v \in busy : worker'[w].op = "update" /\ worker'[v].op = "delete"

MCSpec == Init /\ [][Next /\ InTurn]_vars
=============================================================================
