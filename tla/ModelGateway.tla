---------------------------- MODULE ModelGateway ----------------------------
(***************************************************************************)
(* Calls through the model gateway of one process (modules/model_gateway:  *)
(* service.py, router.py, openai_compatible.py, schemas.py).               *)
(*                                                                         *)
(* A call selects a provider, may leave it for another one when it fails,  *)
(* and again when the answer does not fit the schema of the request.  A    *)
(* provider behind HTTP has its own retries.  The first health probe of a  *)
(* candidate is remembered as long as the process lives.                   *)
(***************************************************************************)
EXTENDS Integers, FiniteSets

CONSTANTS Callers,          \* the threads that serve requests
          MaxRetries        \* HTTP retries of a provider

MaxRetriesAssumption == MaxRetries \in Nat

VARIABLES configured,       \* the HTTP providers that the service was built with
          allow_fallback,
          up,               \* the HTTP providers that answer at present
          seen,             \* ProviderCandidate._healthy
          call

vars == <<configured, allow_fallback, up, seen, call>>

Http == {"local", "external"}
Provider == Http \cup {"rule", "mock"}
IsExternal(p) == p = "external"

(* build_default_candidates: the lower, the earlier *)
Priority == [local |-> 10, external |-> 50, rule |-> 80, mock |-> 90]
Candidates == configured \cup {"rule", "mock"}
Earliest(S) == {p \in S : \A q \in S : Priority[p] <= Priority[q]}

MaxValidationRetries == 2

(***************************************************************************)
(* The privacy context                                                     *)
(***************************************************************************)
Context == [classification : {"P2", "P3", "P4"}, allow_external : BOOLEAN,
            requires_local : BOOLEAN]

(* _enforce_sensitive_defaults *)
Enforced(ctx) ==
    [ctx EXCEPT !.requires_local = @ \/ ctx.classification = "P4",
                !.allow_external = @ /\ ctx.classification \notin {"P3", "P4"}]

ExternalBlocked(ctx) ==
    ctx.classification \in {"P3", "P4"} \/ ~ ctx.allow_external \/ ctx.requires_local

(* Mutant: what the client allows counts more than the classification. *)
PrivacyAllowsDeclared(p, ctx) == ~ (IsExternal(p) /\ ~ ctx.allow_external)

PrivacyAllows(p, ctx) ==
    ~ (IsExternal(p) /\ (ExternalBlocked(Enforced(ctx)) \/ Enforced(ctx).requires_local))

(***************************************************************************)
(* Calls                                                                   *)
(***************************************************************************)
(* "ask" calls the provider, "judge" looks at its answer; an "error" is one *)
(* of the gateway, what is "raised" another exception, which the gateway    *)
(* does not catch.  The stage says why this provider was asked.             *)
Request == [kind : {"chat", "embedding"}, ctx : Context, schema : BOOLEAN,
            rule_fits : BOOLEAN]
Call == [phase : {"idle", "ask", "error", "raised", "judge", "answered", "failed"},
         stage : {"first", "fallback", "retry"}, request : Request,
         selected : Provider, provider : Provider, excluded : SUBSET Provider,
         retries : 0..MaxValidationRetries, attempt : 0..MaxRetries,
         json_only : BOOLEAN, valid : BOOLEAN, posts : Nat]

NoRequest == [kind |-> "chat", schema |-> FALSE, rule_fits |-> TRUE,
              ctx |-> [classification |-> "P2", allow_external |-> FALSE,
                       requires_local |-> FALSE]]
Idle == [phase |-> "idle", stage |-> "first", request |-> NoRequest,
         selected |-> "mock", provider |-> "mock", excluded |-> {}, retries |-> 0,
         attempt |-> 0, json_only |-> FALSE, valid |-> FALSE, posts |-> 0]

Alive(p) == p \in up \cup {"rule", "mock"}

Init ==
    /\ configured \in SUBSET Http
    /\ allow_fallback \in BOOLEAN
    /\ up \in SUBSET configured
    /\ seen = [p \in Provider |-> "unknown"]
    /\ call = [c \in Callers |-> Idle]

SetCall(c, new) ==
    /\ call' = [call EXCEPT ![c] = new]
    /\ UNCHANGED <<configured, allow_fallback, up>>

(* The candidate's cached health. *)
Healthy(p) == seen[p] = "healthy" \/ (seen[p] = "unknown" /\ Alive(p))

(* select: the first of the eligible that is healthy; those before it have *)
(* been probed as well.                                                    *)
Select(c, request) ==
    LET eligible == {p \in Candidates : PrivacyAllows(p, request.ctx)} IN
    \E p \in Earliest({q \in eligible : Healthy(q)}) :
        /\ seen' = [q \in Provider |->
                       IF q \in eligible /\ Priority[q] <= Priority[p] /\ seen[q] = "unknown"
                       THEN IF Alive(q) THEN "healthy" ELSE "unhealthy" ELSE seen[q]]
        /\ SetCall(c, [Idle EXCEPT !.phase = "ask", !.request = request, !.selected = p,
                                   !.provider = p, !.excluded = {p}])

Start(c) ==
    /\ call[c] = Idle
    /\ \E request \in Request :
          /\ request.kind = "embedding" => ~ request.schema
          /\ Select(c, request)

(* select_for_fallback: at most one, with a probe of its own *)
FallbackFor(ctx, exclude) ==
    Earliest({p \in Candidates \ exclude :
                 ~ IsExternal(p) /\ PrivacyAllows(p, ctx) /\ Alive(p)})

Ask(c, p, stage) ==
    [call[c] EXCEPT !.phase = "ask", !.stage = stage, !.provider = p, !.attempt = 0,
                    !.json_only = FALSE]

(***************************************************************************)
(* Providers                                                               *)
(***************************************************************************)
(* The rule engine and the mock answer at once; the mock's answer is made  *)
(* from the schema.                                                        *)
Compute(c) ==
    /\ call[c].phase = "ask" /\ call[c].provider \notin Http
    /\ SetCall(c, [call[c] EXCEPT !.phase = "judge",
                      !.valid = call[c].provider = "mock" \/ call[c].request.rule_fits])
    /\ UNCHANGED seen

Posted(c) == [call[c] EXCEPT !.posts = @ + 1]

Posting(c) == call[c].phase = "ask" /\ call[c].provider \in Http

(* A 5xx status, a time-out or a broken connection. *)
PostTransient(c) ==
    /\ Posting(c)
    /\ IF call[c].attempt < MaxRetries
       THEN SetCall(c, [Posted(c) EXCEPT !.attempt = @ + 1])
       ELSE SetCall(c, [Posted(c) EXCEPT !.phase = "error"])
    /\ UNCHANGED seen

(* 400 or 422: a request with a schema is sent once more, without the      *)
(* response_format and with retries of its own.                            *)
PostRejected(c) ==
    /\ Posting(c) /\ call[c].provider \in up
    /\ IF call[c].request.schema /\ ~ call[c].json_only
       THEN SetCall(c, [Posted(c) EXCEPT !.json_only = TRUE, !.attempt = 0])
       ELSE SetCall(c, [Posted(c) EXCEPT !.phase = "error"])
    /\ UNCHANGED seen

(* Any other status than 200, a body that is not JSON, or a structured     *)
(* output that is not.                                                     *)
PostRefused(c) ==
    /\ Posting(c) /\ call[c].provider \in up
    /\ SetCall(c, [Posted(c) EXCEPT !.phase = "error"])
    /\ UNCHANGED seen

(* A 200 whose JSON is of another shape than expected (no object, a choice *)
(* or a usage that is none, a field of another type): reading it raises an *)
(* AttributeError, a TypeError or a ValidationError.                       *)
PostMisshapen(c) ==
    /\ Posting(c) /\ call[c].provider \in up
    /\ SetCall(c, [Posted(c) EXCEPT !.phase = "raised"])
    /\ UNCHANGED seen

PostAnswered(c, valid) ==
    /\ Posting(c) /\ call[c].provider \in up
    /\ SetCall(c, [Posted(c) EXCEPT !.phase = "judge", !.valid = valid])
    /\ UNCHANGED seen

Post(c) ==
    \/ PostTransient(c) \/ PostRejected(c) \/ PostRefused(c) \/ PostMisshapen(c)
    \/ \E valid \in BOOLEAN : PostAnswered(c, valid)

(***************************************************************************)
(* The gateway's reactions                                                 *)
(***************************************************************************)
(* Mutant: only what the fallback was allowed for, and not embeddings. *)
LeaveOnlyLocal(c) ==
    LET k == call[c] IN
    /\ k.phase = "error"
    /\ IF k.selected = "local" /\ k.stage = "first"
       THEN \E p \in FallbackFor(k.request.ctx, {k.selected}) :
               SetCall(c, Ask(c, p, "fallback"))
       ELSE SetCall(c, [k EXCEPT !.phase = "failed"])
    /\ UNCHANGED seen

(* _call_with_fallback, embedding: one other provider, whose own failure   *)
(* is the caller's.                                                        *)
Leave(c) ==
    LET k == call[c]
        allowed == k.stage = "first" /\ (allow_fallback \/ k.request.kind = "embedding")
        next == IF allowed THEN FallbackFor(k.request.ctx, {k.selected}) ELSE {}
    IN
    /\ k.phase = "error"
    /\ \/ \E p \in next : SetCall(c, Ask(c, p, "fallback"))
       \/ next = {} /\ SetCall(c, [k EXCEPT !.phase = "failed"])
    /\ UNCHANGED seen

Answered(c) ==
    /\ call[c].phase = "judge"
    /\ call[c].request.schema => call[c].valid
    /\ SetCall(c, [call[c] EXCEPT !.phase = "answered"])
    /\ UNCHANGED seen

(* _validate_with_retry: another local provider, or the selected one again *)
RetryValidation(c) ==
    LET k == call[c]
        next == FallbackFor(k.request.ctx, k.excluded)
    IN
    /\ k.phase = "judge" /\ k.request.schema /\ ~ k.valid
    /\ IF k.retries = MaxValidationRetries THEN SetCall(c, [k EXCEPT !.phase = "failed"])
       ELSE \E p \in IF next = {} THEN {k.selected} ELSE next :
               SetCall(c, [Ask(c, p, "retry") EXCEPT !.retries = @ + 1,
                                                     !.excluded = @ \cup {p}])
    /\ UNCHANGED seen

Return(c) ==
    /\ call[c].phase \in {"answered", "raised", "failed"}
    /\ SetCall(c, Idle)
    /\ UNCHANGED seen

Step(c) ==
    \/ Compute(c) \/ Post(c)
    \/ Leave(c) \/ Answered(c) \/ RetryValidation(c) \/ Return(c)

(***************************************************************************)
(* The environment                                                         *)
(***************************************************************************)
ChangeUp ==
    /\ \E p \in configured : up' = IF p \in up THEN up \ {p} ELSE up \cup {p}
    /\ UNCHANGED <<configured, allow_fallback, seen, call>>

(* The process restarts: get_model_gateway_service builds a new service.   *)
Restart ==
    /\ seen' = [p \in Provider |-> "unknown"]
    /\ call' = [c \in Callers |-> Idle]
    /\ UNCHANGED <<configured, allow_fallback, up>>

Next ==
    \/ \E c \in Callers : Start(c) \/ Step(c)
    \/ ChangeUp \/ Restart

Fairness == \A c \in Callers : WF_vars(Step(c))
Spec == Init /\ [][Next]_vars /\ Fairness

(***************************************************************************)
(* Properties                                                              *)
(***************************************************************************)
(* The gateway's memory and its calls are well typed. *)
TypeOK ==
    /\ configured \subseteq Http /\ up \subseteq Http /\ allow_fallback \in BOOLEAN
    /\ seen \in [Provider -> {"unknown", "healthy", "unhealthy"}]
    /\ call \in [Callers -> Call]

(* Whatever fails and however often a call moves on, what must stay local  *)
(* is never with an external provider (router.py; schemas.py).             *)
SensitiveStaysLocal ==
    \A c \in Callers :
        LET ctx == call[c].request.ctx IN
        call[c].phase # "idle" /\ IsExternal(call[c].provider) =>
            /\ ctx.classification = "P2"
            /\ ctx.allow_external /\ ~ ctx.requires_local

(* A step.  A call that leaves a provider never turns to an external one:  *)
(* "never degrades to external" (select_for_fallback).                     *)
DegradesToLocal ==
    \A c \in Callers :
        /\ call[c].phase # "idle" /\ call'[c].phase # "idle"
        /\ call'[c].provider # call[c].provider
        => ~ IsExternal(call'[c].provider)

(* Without a local node, no gateway error and no answer that fails its     *)
(* schema ends a call of a service that may fall back: rule and mock take  *)
(* it over (build_default_candidates: "guaranteeing a privacy-safe         *)
(* fallback").  Only what the provider that was asked first answers in     *)
(* another shape ends it, since that exception is not caught.  And however *)
(* the failures combine, a call costs no more HTTP requests than three     *)
(* providers' retries, each doubled by the request without a schema.       *)
FailuresFallBack ==
    \A c \in Callers :
        /\ allow_fallback /\ "local" \notin configured =>
              /\ call[c].phase # "failed"
              /\ call[c].phase = "raised" => call[c].stage = "first"
        /\ call[c].posts <= 3 * 2 * (MaxRetries + 1)

(* Every call comes to an end, since every HTTP request does (time-outs).  *)
CallEnds == \A c \in Callers : call[c].phase # "idle" ~> call[c].phase = "idle"
=============================================================================
