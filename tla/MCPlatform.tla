----------------------------- MODULE MCPlatform -----------------------------
(* The model gateway, and the health of a node and the realtime server,    *)
(* which share no state with it, each on a small instance: a behaviour is  *)
(* one of the component that the variable of that name says, and the       *)
(* others rest.  With turn, only the first process checks the node.        *)
EXTENDS ModelGateway, TLC

CONSTANTS Processes, Connections, Events, Threshold, Recovery, CacheSize, MaxFrames

VARIABLES component, turn,
          row, node_up, breaker, streak, check,
          conn, member, sequence, subscribed, handlers, cache, frames

N == INSTANCE NodeHealth WITH up <- node_up
R == INSTANCE Realtime

ASSUME GatewayParameters == MaxRetriesAssumption
ASSUME NodeParameters == N!LimitsAssumption
ASSUME RealtimeParameters ==
    R!CacheSizeAssumption /\ R!MaxFramesAssumption /\ R!EventsAssumption

gvars == <<configured, allow_fallback, up, seen, call>>
nvars == <<row, node_up, breaker, streak, check>>
rvars == <<conn, member, sequence, subscribed, handlers, cache, frames>>
platformVars == <<component, turn, gvars, nvars, rvars>>

PlatformInit ==
    /\ component \in {"gateway", "nodes", "realtime"}
    /\ turn \in BOOLEAN
    /\ Init /\ N!Init /\ R!Init
    /\ component # "gateway" => configured = {} /\ ~ allow_fallback
    /\ component # "nodes" => node_up /\ turn
    /\ component # "realtime" => member = {}

(* With turn, only the first process checks, and nobody else changes the   *)
(* row while it does.                                                      *)
InTurn ==
    turn => /\ \A p \in Processes : p # "first" => check'[p] = "idle"
            /\ check["first"] = "idle" \/ check'["first"] = "idle" \/ row' = row

GatewayStep(A) == component = "gateway" /\ A /\ UNCHANGED <<component, turn, nvars, rvars>>
NodeStep(A) ==
    component = "nodes" /\ A /\ InTurn /\ UNCHANGED <<component, turn, gvars, rvars>>
RealtimeStep(A) == component = "realtime" /\ A /\ UNCHANGED <<component, turn, gvars, nvars>>

PlatformNext == GatewayStep(Next) \/ NodeStep(N!Next) \/ RealtimeStep(R!Next)

PlatformFairness ==
    /\ \A c \in Callers : WF_platformVars(GatewayStep(Step(c)))
    /\ WF_platformVars(NodeStep(N!Tick))
    /\ \A p \in Processes :
          /\ WF_platformVars(NodeStep(N!Probe(p)))
          /\ WF_platformVars(NodeStep(N!SaveCheck(p)))

PlatformSpec == PlatformInit /\ [][PlatformNext]_platformVars /\ PlatformFairness

(* A process leaves a failing node alone for the recovery timeout (with    *)
(* any number of processes), and what administrators read of a node agrees *)
(* with the breaker of the process that checks it; and no check that is    *)
(* under way brings a deleted node back (modules/nodes/service.py).        *)
NodeSound ==
    /\ [](N!TypeOK /\ N!NoProbeWhileCooling /\ (turn => N!RowTruthful))
    /\ N!DeletedForGood

(* Nothing hangs: a call of the gateway comes to an end, since every HTTP  *)
(* request does, and a node that answers again and keeps being checked is  *)
(* seen online again, whatever its breaker has been through.               *)
NothingHangs == CallEnds /\ N!BreakerRecovers

(* Frames of a connection are numbered 1, 2, 3, ... whatever mixture of    *)
(* answers, errors and pushes it is, and an event comes twice only with a  *)
(* whole cache of others in between (connection_manager.py).               *)
FramesInOrder == R!TypeOK /\ R!NumberedFromOne /\ R!DeliveredOnce
=============================================================================
