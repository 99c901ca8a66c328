----------------------------- MODULE MCServices -----------------------------
(* The services under the application (the model gateway, the health of a  *)
(* node, the realtime server) and the dinners in a chat with their demo    *)
(* data, which share no state with them.  A behaviour is one of the half   *)
(* that the variable of that name says, and the other half rests.          *)
EXTENDS MCPlatform, MCDinner

VARIABLE half

ASSUME DinnersParameters == DinnerParameters /\ ProposalParameters /\ DemoParameters

servicesVars == <<half, platformVars, dinnerVars>>

ServicesInit ==
    /\ half \in {"platform", "dinner"}
    /\ PlatformInit /\ DinnerInit
    /\ half # "platform" =>
          component = "realtime" /\ turn /\ node_up /\ member = {}
    /\ half # "dinner" => part = "demo"

ServicesNext ==
    /\ UNCHANGED half
    /\ \/ half = "platform" /\ PlatformNext /\ UNCHANGED dinnerVars
       \/ half = "dinner" /\ DinnerNext /\ UNCHANGED platformVars

ServicesSpec == ServicesInit /\ [][ServicesNext]_servicesVars /\ PlatformFairness

=============================================================================
