-------------------------- MODULE Platform_proofs --------------------------
(***************************************************************************)
(* Proofs about the model gateway, for any number of callers and retries,  *)
(* about the connections of the realtime server, for any events and cache  *)
(* size, and about the health of nodes, for any processes and limits.      *)
(*                                                                         *)
(* What a call may do next depends on the provider it selected first,      *)
(* which a validation retry may go back to: SensitiveStaysLocal is not     *)
(* inductive until it is said of both, in the router's own terms.          *)
(***************************************************************************)
EXTENDS MCPlatform, FiniteSetTheorems, SequenceTheorems, TLAPS

(* Every provider a call has to do with is one its privacy context allows. *)
OnlyAllowed ==
    \A c \in Callers : call[c].phase # "idle" =>
        /\ PrivacyAllows(call[c].selected, call[c].request.ctx)
        /\ PrivacyAllows(call[c].provider, call[c].request.ctx)

(* A validation retry leaves out the selected provider and those of the    *)
(* retries before it.                                                      *)
FewIn(k) ==
    /\ k.retries = 0 => k.excluded = {k.selected}
    /\ k.retries = 1 => \E p : k.excluded = {k.selected, p}

FewExcluded == \A c \in Callers : call[c].phase # "idle" => FewIn(call[c])

IInv == TypeOK /\ OnlyAllowed /\ FewExcluded

(* What the router allows to an external provider need not stay local. *)
LEMMA AllowedIsPublic ==
    ASSUME NEW p, NEW ctx \in Context, PrivacyAllows(p, ctx), IsExternal(p)
    PROVE  ctx.classification = "P2" /\ ctx.allow_external /\ ~ ctx.requires_local
<1>1. ~ ExternalBlocked(Enforced(ctx)) /\ ~ Enforced(ctx).requires_local
      BY DEF PrivacyAllows
<1>2. ctx = [classification |-> ctx.classification, allow_external |-> ctx.allow_external,
             requires_local |-> ctx.requires_local]
      BY DEF Context
<1>3. Enforced(ctx).requires_local = (ctx.requires_local \/ ctx.classification = "P4")
      BY <1>2 DEF Enforced
<1>4. Enforced(ctx).allow_external
         = (ctx.allow_external /\ ctx.classification \notin {"P3", "P4"})
      BY <1>2 DEF Enforced
<1>5. ctx.classification \in {"P2", "P3", "P4"}
      BY DEF Context
<1>6. Enforced(ctx).allow_external
      BY <1>1 DEF ExternalBlocked
<1> QED BY <1>1, <1>3, <1>4, <1>5, <1>6

LEMMA NoAttempts == ASSUME MaxRetriesAssumption PROVE 0 \in 0..MaxRetries
BY DEF MaxRetriesAssumption

LEMMA IdleType == ASSUME MaxRetriesAssumption PROVE Idle \in Call
<1>1. NoRequest \in Request
      BY DEF NoRequest, Request, Context
<1>2. 0 \in 0..MaxValidationRetries /\ "mock" \in Provider
      BY DEF MaxValidationRetries, Provider
<1> QED BY <1>1, <1>2, NoAttempts DEF Idle, Call

(* Changing one call to a well-typed one keeps the types. *)
LEMMA SetCallType ==
    ASSUME TypeOK, NEW c \in Callers, NEW new \in Call, SetCall(c, new)
    PROVE  /\ configured' \subseteq Http /\ up' \subseteq Http
           /\ allow_fallback' \in BOOLEAN
           /\ call' \in [Callers -> Call]
           /\ call'[c] = new
           /\ \A d \in Callers : d # c => call'[d] = call[d]
BY DEF TypeOK, SetCall

LEMMA EarliestIn == ASSUME NEW S, NEW p \in Earliest(S) PROVE p \in S
BY DEF Earliest

(* A provider to fall back to is local and allowed. *)
LEMMA FallbackSound ==
    ASSUME NEW ctx, NEW exclude, NEW p \in FallbackFor(ctx, exclude), TypeOK
    PROVE  p \in Provider /\ ~ IsExternal(p) /\ PrivacyAllows(p, ctx)
BY EarliestIn DEF FallbackFor, Candidates, TypeOK, Provider, Http

(* What a step of a call makes of it: unless the call returns, its request *)
(* and selection stay, and another provider is one to fall back to, or the *)
(* selected one once nothing is left to fall back to.                      *)
Continues(c, new) ==
    /\ new \in Call
    /\ new = Idle \/
       /\ new.phase # "idle"
       /\ new.request = call[c].request /\ new.selected = call[c].selected
       /\ \/ new.provider = call[c].provider
          \/ \E exclude : new.provider \in FallbackFor(call[c].request.ctx, exclude)
          \/ /\ new.provider = call[c].selected
             /\ call[c].retries # MaxValidationRetries
             /\ FallbackFor(call[c].request.ctx, call[c].excluded) = {}
       /\ \/ new.retries = call[c].retries /\ new.excluded = call[c].excluded
          \/ /\ new.retries = call[c].retries + 1
             /\ \E p : new.excluded = call[c].excluded \cup {p}

LEMMA PostContinues ==
    ASSUME TypeOK, MaxRetriesAssumption, NEW c \in Callers, Post(c)
    PROVE  UNCHANGED seen /\ \E new : SetCall(c, new) /\ Continues(c, new)
<1> DEFINE k == call[c]
<1>1. k \in Call
      BY DEF TypeOK
<1>2. Posted(c) = [k EXCEPT !.posts = k.posts + 1]
      BY DEF Posted
<1>3. k.posts + 1 \in Nat
      BY <1>1 DEF Call
<1>4. CASE PostTransient(c)
  <2>1. CASE k.attempt < MaxRetries
    <3>1. k.attempt + 1 \in 0..MaxRetries
          BY <1>1, <2>1 DEF Call, MaxRetriesAssumption
    <3>2. Continues(c, [Posted(c) EXCEPT !.attempt = @ + 1])
          BY <1>1, <1>2, <1>3, <1>4, <3>1 DEF PostTransient, Posting, Continues, Call
    <3> QED BY <1>4, <2>1, <3>2 DEF PostTransient
  <2>2. CASE ~ (k.attempt < MaxRetries)
    <3>1. Continues(c, [Posted(c) EXCEPT !.phase = "error"])
          BY <1>1, <1>2, <1>3 DEF Continues, Call
    <3> QED BY <1>4, <2>2, <3>1 DEF PostTransient
  <2> QED BY <2>1, <2>2
<1>5. CASE PostRejected(c)
  <2>1. k.phase = "ask"
        BY <1>5 DEF PostRejected, Posting
  <2>2. Continues(c, [Posted(c) EXCEPT !.json_only = TRUE, !.attempt = 0])
        BY <1>1, <1>2, <1>3, <2>1, NoAttempts DEF Continues, Call
  <2>3. Continues(c, [Posted(c) EXCEPT !.phase = "error"])
        BY <1>1, <1>2, <1>3 DEF Continues, Call
  <2> QED BY <1>5, <2>2, <2>3 DEF PostRejected
<1>6. CASE PostRefused(c)
  <2>1. Continues(c, [Posted(c) EXCEPT !.phase = "error"])
        BY <1>1, <1>2, <1>3 DEF Continues, Call
  <2> QED BY <1>6, <2>1 DEF PostRefused
<1>7. ASSUME NEW valid \in BOOLEAN, PostAnswered(c, valid)
      PROVE  UNCHANGED seen /\ \E new : SetCall(c, new) /\ Continues(c, new)
  <2>1. Continues(c, [Posted(c) EXCEPT !.phase = "judge", !.valid = valid])
        BY <1>1, <1>2, <1>3 DEF Continues, Call
  <2> QED BY <1>7, <2>1 DEF PostAnswered
<1>8. CASE PostMisshapen(c)
  <2>1. Continues(c, [Posted(c) EXCEPT !.phase = "raised"])
        BY <1>1, <1>2, <1>3 DEF Continues, Call
  <2> QED BY <1>8, <2>1 DEF PostMisshapen
<1> QED BY <1>4, <1>5, <1>6, <1>7, <1>8 DEF Post

(* Turning to another provider, within a well-typed call. *)
LEMMA AskType ==
    ASSUME TypeOK, MaxRetriesAssumption, NEW c \in Callers, NEW p \in Provider,
           NEW stage \in {"first", "fallback", "retry"}
    PROVE  /\ Ask(c, p, stage) \in Call
           /\ Ask(c, p, stage).phase = "ask"
           /\ Ask(c, p, stage).request = call[c].request
           /\ Ask(c, p, stage).selected = call[c].selected
           /\ Ask(c, p, stage).provider = p
           /\ Ask(c, p, stage).retries = call[c].retries
           /\ Ask(c, p, stage).excluded = call[c].excluded
<1>1. call[c] \in Call
      BY DEF TypeOK
<1> QED BY <1>1, NoAttempts DEF Ask, Call

LEMMA StepContinues ==
    ASSUME TypeOK, MaxRetriesAssumption, NEW c \in Callers, Step(c)
    PROVE  UNCHANGED seen /\ \E new : SetCall(c, new) /\ Continues(c, new)
<1> DEFINE k == call[c]
<1>1. k \in Call
      BY DEF TypeOK
<1>2. CASE Compute(c)
  <2>1. (k.provider = "mock" \/ k.request.rule_fits) \in BOOLEAN
        BY <1>1 DEF Call, Request
  <2>2. Continues(c, [k EXCEPT !.phase = "judge",
                               !.valid = k.provider = "mock" \/ k.request.rule_fits])
        BY <1>1, <2>1 DEF Continues, Call
  <2> QED BY <1>2, <2>2 DEF Compute
<1>3. CASE Leave(c)
  <2>1. ASSUME NEW p \in FallbackFor(k.request.ctx, {k.selected}),
               SetCall(c, Ask(c, p, "fallback"))
        PROVE  \E new : SetCall(c, new) /\ Continues(c, new)
    <3>1. p \in Provider
          BY FallbackSound
    <3>2. Continues(c, Ask(c, p, "fallback"))
          BY <3>1, AskType DEF Continues
    <3> QED BY <2>1, <3>2
  <2>2. ASSUME SetCall(c, [k EXCEPT !.phase = "failed"])
        PROVE  \E new : SetCall(c, new) /\ Continues(c, new)
        BY <1>1, <2>2 DEF Continues, Call
  <2> QED BY <1>3, <2>1, <2>2 DEF Leave
<1>4. CASE Answered(c)
  <2>1. Continues(c, [k EXCEPT !.phase = "answered"])
        BY <1>1 DEF Continues, Call
  <2> QED BY <1>4, <2>1 DEF Answered
<1>5. CASE RetryValidation(c)
  <2> DEFINE next == FallbackFor(k.request.ctx, k.excluded)
  <2>1. ASSUME SetCall(c, [k EXCEPT !.phase = "failed"])
        PROVE  \E new : SetCall(c, new) /\ Continues(c, new)
        BY <1>1, <2>1 DEF Continues, Call
  <2>2. ASSUME k.retries # MaxValidationRetries,
               NEW p \in IF next = {} THEN {k.selected} ELSE next,
               SetCall(c, [Ask(c, p, "retry") EXCEPT !.retries = @ + 1,
                                                     !.excluded = @ \cup {p}])
        PROVE  \E new : SetCall(c, new) /\ Continues(c, new)
    <3>1. p \in Provider /\ (p = k.selected \/ p \in next)
          BY <1>1, FallbackSound DEF Call
    <3> DEFINE asked == Ask(c, p, "retry")
               new == [asked EXCEPT !.retries = @ + 1, !.excluded = @ \cup {p}]
    <3>2. /\ asked \in Call /\ asked.phase = "ask" /\ asked.request = k.request
          /\ asked.selected = k.selected /\ asked.provider = p
          /\ asked.excluded = k.excluded
          BY <3>1, AskType
    <3>3. asked.retries = k.retries
          BY <3>1, AskType
    <3>4. asked.retries + 1 \in 0..MaxValidationRetries
          BY <1>1, <2>2, <3>3 DEF Call, MaxValidationRetries
    <3>5. /\ new \in Call /\ new.phase = "ask" /\ new.request = k.request
          /\ new.selected = k.selected /\ new.provider = p
          /\ new.retries = k.retries + 1 /\ new.excluded = k.excluded \cup {p}
          BY <3>1, <3>2, <3>3, <3>4 DEF Call
    <3>6. (p = k.selected /\ next = {}) \/ p \in next
          BY <3>1
    <3>7. Continues(c, new)
          BY <2>2, <3>5, <3>6 DEF Continues
    <3> QED BY <2>2, <3>7
  <2> QED BY <1>5, <2>1, <2>2 DEF RetryValidation
<1>6. CASE Return(c)
      BY <1>6, IdleType DEF Return, Continues
<1> QED BY <1>2, <1>3, <1>4, <1>5, <1>6, PostContinues
        DEF Step, Compute, Leave, Answered, RetryValidation, Return

(* A call begins with an allowed provider. *)
LEMMA StartSound ==
    ASSUME TypeOK, MaxRetriesAssumption, NEW c \in Callers, Start(c)
    PROVE  \E new \in Call :
              /\ SetCall(c, new) /\ seen' \in [Provider -> {"unknown", "healthy", "unhealthy"}]
              /\ PrivacyAllows(new.selected, new.request.ctx)
              /\ new.provider = new.selected
              /\ new.retries = 0 /\ new.excluded = {new.selected}
<1>1. PICK request \in Request : Select(c, request)
      BY DEF Start
<1> DEFINE eligible == {p \in Candidates : PrivacyAllows(p, request.ctx)}
<1>2. PICK p \in Earliest({q \in eligible : Healthy(q)}) :
        /\ seen' = [q \in Provider |->
                       IF q \in eligible /\ Priority[q] <= Priority[p] /\ seen[q] = "unknown"
                       THEN IF Alive(q) THEN "healthy" ELSE "unhealthy" ELSE seen[q]]
        /\ SetCall(c, [Idle EXCEPT !.phase = "ask", !.request = request, !.selected = p,
                                   !.provider = p, !.excluded = {p}])
      BY <1>1 DEF Select
<1>3. p \in eligible
      BY <1>2, EarliestIn
<1>4. p \in Provider
      BY <1>3 DEF Candidates, TypeOK, Provider, Http
<1> DEFINE new == [Idle EXCEPT !.phase = "ask", !.request = request, !.selected = p,
                               !.provider = p, !.excluded = {p}]
<1>5. /\ new \in Call /\ new.selected = p /\ new.provider = p /\ new.request = request
      /\ new.retries = 0 /\ new.excluded = {p}
      BY <1>4, IdleType DEF Idle, Call
<1>6. seen' \in [Provider -> {"unknown", "healthy", "unhealthy"}]
      BY <1>2 DEF TypeOK
<1> QED BY <1>2, <1>3, <1>5, <1>6

(* A call that goes on stays with what its context allows. *)
LEMMA ContinuesAllowed ==
    ASSUME IInv, NEW c \in Callers, call[c].phase # "idle", NEW new,
           Continues(c, new), new.phase # "idle"
    PROVE  PrivacyAllows(new.selected, new.request.ctx)
           /\ PrivacyAllows(new.provider, new.request.ctx)
<1>1. PrivacyAllows(call[c].selected, call[c].request.ctx)
      /\ PrivacyAllows(call[c].provider, call[c].request.ctx)
      BY DEF IInv, OnlyAllowed
<1>2. new # Idle
      BY DEF Idle
<1> QED BY <1>1, <1>2, FallbackSound DEF Continues, IInv

LEMMA ContinuesFew ==
    ASSUME IInv, NEW c \in Callers, call[c].phase # "idle", NEW new,
           Continues(c, new), new.phase # "idle"
    PROVE  FewIn(new)
<1>1. new # Idle
      BY DEF Idle
<1>2. call[c].retries \in Nat
      BY DEF IInv, TypeOK, Call, MaxValidationRetries
<1>3. /\ call[c].retries = 0 => call[c].excluded = {call[c].selected}
      /\ call[c].retries = 1 => \E p : call[c].excluded = {call[c].selected, p}
      BY DEF IInv, FewExcluded, FewIn
<1>4. new.selected = call[c].selected
      BY <1>1 DEF Continues
<1>5. CASE new.retries = call[c].retries /\ new.excluded = call[c].excluded
      BY <1>3, <1>4, <1>5 DEF FewIn
<1>6. ASSUME new.retries = call[c].retries + 1,
             NEW p, new.excluded = call[c].excluded \cup {p}
      PROVE  FewIn(new)
  <2>1. new.retries # 0 /\ (new.retries = 1 => call[c].retries = 0)
        BY <1>2, <1>6
  <2>2. call[c].retries = 0 => new.excluded = {new.selected, p}
        BY <1>3, <1>4, <1>6
  <2> QED BY <2>1, <2>2 DEF FewIn
<1> QED BY <1>1, <1>5, <1>6 DEF Continues

(* The rule engine and the mock are always there to fall back to. *)
LEMMA RuleAndMock ==
    ASSUME TypeOK, NEW ctx, NEW exclude, FallbackFor(ctx, exclude) = {}
    PROVE  "rule" \in exclude /\ "mock" \in exclude
<1> DEFINE able == {p \in Candidates \ exclude :
                       ~ IsExternal(p) /\ PrivacyAllows(p, ctx) /\ Alive(p)}
<1>1. able \subseteq {"local", "rule", "mock"}
      BY DEF Candidates, TypeOK, Http, IsExternal
<1>2. "local" \notin able
      BY <1>1 DEF FallbackFor, Earliest, Priority
<1>3. "rule" \notin able
      BY <1>1, <1>2 DEF FallbackFor, Earliest, Priority
<1>4. "mock" \notin able
      BY <1>1, <1>2, <1>3 DEF FallbackFor, Earliest, Priority
<1> QED BY <1>3, <1>4 DEF Candidates, IsExternal, PrivacyAllows, Alive

(* Nothing is left to fall back to only after the rule engine and the mock *)
(* were both asked: an external selection is not asked again by then.      *)
LEMMA NoWayBack ==
    ASSUME IInv, NEW c \in Callers, call[c].phase # "idle", NEW new,
           Continues(c, new), new.phase # "idle", new.provider # call[c].provider
    PROVE  ~ IsExternal(new.provider)
<1>1. new # Idle
      BY DEF Idle
<1>2. ASSUME NEW exclude, new.provider \in FallbackFor(call[c].request.ctx, exclude)
      PROVE  ~ IsExternal(new.provider)
      BY <1>2, FallbackSound DEF IInv
<1>3. ASSUME new.provider = call[c].selected, call[c].retries # MaxValidationRetries,
             FallbackFor(call[c].request.ctx, call[c].excluded) = {}
      PROVE  ~ IsExternal(new.provider)
  <2>1. "rule" \in call[c].excluded /\ "mock" \in call[c].excluded
        BY <1>3, RuleAndMock DEF IInv
  <2>2. call[c].retries = 0 \/ call[c].retries = 1
        BY <1>3 DEF IInv, TypeOK, Call, MaxValidationRetries
  <2>3. \E p : call[c].excluded \subseteq {call[c].selected, p}
        BY <2>2 DEF IInv, FewExcluded, FewIn
  <2>4. call[c].selected \in {"rule", "mock"}
        BY <2>1, <2>3
  <2> QED BY <1>3, <2>4 DEF IsExternal
<1> QED BY <1>1, <1>2, <1>3 DEF Continues

(* The conjunction is inductive. *)
LEMMA Inductive == ASSUME MaxRetriesAssumption, IInv, [Next]_vars PROVE IInv'
<1> USE DEF IInv
<1>1. ASSUME NEW c \in Callers, Start(c) PROVE IInv'
  <2>1. PICK new \in Call :
           /\ SetCall(c, new) /\ seen' \in [Provider -> {"unknown", "healthy", "unhealthy"}]
           /\ PrivacyAllows(new.selected, new.request.ctx)
           /\ new.provider = new.selected
           /\ new.retries = 0 /\ new.excluded = {new.selected}
        BY <1>1, StartSound
  <2>3. FewIn(new)
        BY <2>1 DEF FewIn
  <2>2. TypeOK' /\ call'[c] = new /\ \A d \in Callers : d # c => call'[d] = call[d]
        BY <2>1, SetCallType DEF TypeOK
  <2> QED BY <2>1, <2>2, <2>3 DEF OnlyAllowed, FewExcluded
<1>2. ASSUME NEW c \in Callers, Step(c) PROVE IInv'
  <2>1. PICK new : SetCall(c, new) /\ Continues(c, new)
        BY <1>2, StepContinues
  <2>2. new \in Call
        BY <2>1 DEF Continues
  <2>3. UNCHANGED seen
        BY <1>2, StepContinues
  <2>4. TypeOK' /\ call'[c] = new /\ \A d \in Callers : d # c => call'[d] = call[d]
        BY <2>1, <2>2, <2>3, SetCallType DEF TypeOK
  <2>5. call[c].phase # "idle"
        BY <1>2 DEF Step, Compute, Post, PostTransient, PostRejected, PostRefused,
               PostMisshapen, PostAnswered, Posting, Leave, Answered, RetryValidation, Return
  <2>6. new.phase # "idle" => PrivacyAllows(new.selected, new.request.ctx)
                               /\ PrivacyAllows(new.provider, new.request.ctx)
        BY <2>1, <2>5, ContinuesAllowed
  <2>7. OnlyAllowed'
        BY <2>4, <2>6 DEF OnlyAllowed
  <2>8. new.phase # "idle" => FewIn(new)
        BY <2>1, <2>5, ContinuesFew
  <2>9. FewExcluded'
        BY <2>4, <2>8 DEF FewExcluded
  <2> QED BY <2>4, <2>7, <2>9
<1>3. CASE ChangeUp
      BY <1>3 DEF ChangeUp, TypeOK, OnlyAllowed, FewExcluded
<1>4. CASE Restart
  <2>1. TypeOK'
        BY <1>4, IdleType DEF Restart, TypeOK
  <2>2. \A c \in Callers : call'[c].phase = "idle"
        BY <1>4 DEF Restart, Idle
  <2> QED BY <2>1, <2>2 DEF OnlyAllowed, FewExcluded
<1>5. CASE UNCHANGED vars
      BY <1>5 DEF vars, TypeOK, OnlyAllowed, FewExcluded
<1> QED BY <1>1, <1>2, <1>3, <1>4, <1>5 DEF Next

LEMMA Initial == ASSUME MaxRetriesAssumption PROVE Init => IInv
<1> SUFFICES ASSUME Init PROVE IInv
    OBVIOUS
<1>1. TypeOK
      BY IdleType DEF Init, TypeOK
<1>2. \A c \in Callers : call[c].phase = "idle"
      BY DEF Init, Idle
<1> QED BY <1>1, <1>2 DEF IInv, OnlyAllowed, FewExcluded

(* The gateway's memory and its calls are always well typed (service.py,   *)
(* router.py).                                                             *)
THEOREM GatewayTypeCorrect == ASSUME MaxRetriesAssumption PROVE Spec => []TypeOK
<1>1. IInv /\ [Next]_vars => IInv'
      BY Inductive
<1>2. IInv => TypeOK
      BY DEF IInv
<1> QED BY <1>1, <1>2, Initial, PTL DEF Spec

(* However many calls run, fail, fall back and retry, what must stay local *)
(* is never with an external provider (router.py, schemas.py).             *)
THEOREM SensitiveDataStays == ASSUME MaxRetriesAssumption PROVE Spec => []SensitiveStaysLocal
<1>1. IInv => SensitiveStaysLocal
  <2> SUFFICES ASSUME IInv, NEW c \in Callers, call[c].phase # "idle",
                      IsExternal(call[c].provider)
               PROVE  LET ctx == call[c].request.ctx IN
                      /\ ctx.classification = "P2"
                      /\ ctx.allow_external /\ ~ ctx.requires_local
      BY DEF SensitiveStaysLocal
  <2>1. call[c].request.ctx \in Context
        BY DEF IInv, TypeOK, Call, Request
  <2>2. PrivacyAllows(call[c].provider, call[c].request.ctx)
        BY DEF IInv, OnlyAllowed
  <2> QED BY <2>1, <2>2, AllowedIsPublic
<1>2. IInv /\ [Next]_vars => IInv'
      BY Inductive
<1> QED BY <1>1, <1>2, Initial, PTL DEF Spec

(* A step.  However its retries go, a call that leaves a provider never    *)
(* turns to an external one (select_for_fallback, _validate_with_retry).   *)
THEOREM NeverDegradesToExternal ==
    ASSUME MaxRetriesAssumption PROVE Spec => [][DegradesToLocal]_vars
<1>1. IInv /\ [Next]_vars => [DegradesToLocal]_vars
  <2> SUFFICES ASSUME IInv, Next, NEW d \in Callers,
                      call[d].phase # "idle", call'[d].phase # "idle",
                      call'[d].provider # call[d].provider
               PROVE  ~ IsExternal(call'[d].provider)
      BY DEF DegradesToLocal
  <2>1. ASSUME NEW c \in Callers, Start(c) PROVE FALSE
    <3>1. call[c].phase = "idle"
          BY <2>1 DEF Start, Idle
    <3>2. PICK new : SetCall(c, new)
          BY <2>1, StartSound DEF IInv
    <3>3. call'[d] = call[d]
          BY <3>1, <3>2 DEF SetCall, IInv, TypeOK
    <3> QED BY <3>3
  <2>2. ASSUME NEW c \in Callers, Step(c) PROVE ~ IsExternal(call'[d].provider)
    <3>1. PICK new : SetCall(c, new) /\ Continues(c, new)
          BY <2>2, StepContinues DEF IInv
    <3>2. c = d /\ call'[d] = new
          BY <3>1 DEF SetCall, IInv, TypeOK
    <3> QED BY <3>1, <3>2, NoWayBack
  <2>3. CASE ChangeUp
        BY <2>3 DEF ChangeUp
  <2>4. CASE Restart
        BY <2>4 DEF Restart, Idle
  <2> QED BY <2>1, <2>2, <2>3, <2>4 DEF Next
<1>2. IInv /\ [Next]_vars => IInv'
      BY Inductive
<1> QED BY <1>1, <1>2, Initial, PTL DEF Spec

(***************************************************************************)
(* Answers and their cost                                                  *)
(*                                                                         *)
(* FailuresFallBack is not inductive: which provider a retry turns to is   *)
(* said by the set of those already left out, and what a call has cost by  *)
(* the reason for which its provider was asked.                            *)
(***************************************************************************)
(* The HTTP requests of one provider: its retries, twice. *)
Cost == 2 * (MaxRetries + 1)

(* The requests of the providers that the call has left; it may ask a      *)
(* third one behind HTTP in its last retry only if the one before was not. *)
Earlier(k) ==
    CASE k.stage = "first" -> 0
      [] k.stage = "fallback" -> Cost
      [] k.stage = "retry" ->
            IF k.retries = 2 /\ k.provider \notin Http THEN Cost + Cost + Cost ELSE Cost + Cost

(* The requests of the provider that is asked now. *)
Spent(k) ==
    IF k.provider \notin Http THEN 0
    ELSE IF k.phase # "ask" THEN Cost
    ELSE IF k.json_only THEN MaxRetries + 1 + k.attempt ELSE k.attempt

(* What led to the provider of the call. *)
Led(k) ==
    /\ k.provider \in Candidates /\ k.selected \in Candidates
    /\ k.stage = "first" => k.provider = k.selected
    /\ k.stage # "first" => ~ IsExternal(k.provider)
    /\ k.stage \in {"first", "fallback"} => k.retries = 0 /\ k.excluded = {k.selected}
    /\ k.stage = "retry" =>
          \/ k.retries = 1 /\ k.excluded = {k.selected, k.provider}
          \/ k.retries = 2

(* Without a local node, the way leads to the mock. *)
LedToMock(k) ==
    /\ k.retries = 0 => k.selected = "external" \/ k.provider = k.selected
    /\ k.retries = 1 => k.provider = "mock" \/ (k.selected = "external" /\ k.provider = "rule")
    /\ k.retries = 2 => k.provider = "mock"

Answering(k) ==
    /\ k.phase # "idle" /\ Led(k)
    /\ k.phase \in {"error", "raised"} => k.provider \in Http
    /\ k.phase = "judge" /\ k.provider = "mock" => k.valid
    /\ "local" \notin configured => LedToMock(k)
    /\ allow_fallback /\ "local" \notin configured => k.phase # "failed"
    /\ k.posts <= Earlier(k) + Spent(k)

AnswerInv == \A c \in Callers : call[c] = Idle \/ Answering(call[c])

LEMMA CostIsPositive == ASSUME MaxRetriesAssumption PROVE Cost \in Nat /\ Cost >= MaxRetries + 1
BY DEF Cost, MaxRetriesAssumption

(* A provider to fall back to was not left out; the mock only is turned to *)
(* when the rule engine is left out and no local node can be asked.        *)
LEMMA FallbackOrder ==
    ASSUME TypeOK, NEW ctx, NEW exclude, NEW p \in FallbackFor(ctx, exclude)
    PROVE  /\ p \in Candidates /\ p \notin exclude /\ p \in {"local", "rule", "mock"}
           /\ p = "mock" => "rule" \in exclude
           /\ "local" \notin configured => p # "local"
<1> DEFINE able == {q \in Candidates \ exclude :
                       ~ IsExternal(q) /\ PrivacyAllows(q, ctx) /\ Alive(q)}
<1>1. p \in able /\ \A q \in able : Priority[p] <= Priority[q]
      BY DEF FallbackFor, Earliest
<1>2. p \in {"local", "rule", "mock"}
      BY <1>1 DEF Candidates, TypeOK, Http, IsExternal
<1>3. "rule" \notin exclude => "rule" \in able
      BY DEF Candidates, IsExternal, PrivacyAllows, Alive
<1>4. p = "mock" => "rule" \in exclude
      BY <1>1, <1>3 DEF Priority
<1>5. "local" \notin configured => p # "local"
      BY <1>1 DEF Candidates
<1> QED BY <1>1, <1>2, <1>4, <1>5

(* What an HTTP request changes: only where it stands and what it has cost. *)
LEMMA PostAnswering ==
    ASSUME TypeOK, MaxRetriesAssumption, NEW c \in Callers, Answering(call[c]),
           Posting(c), NEW new \in Call,
           new.stage = call[c].stage, new.provider = call[c].provider,
           new.selected = call[c].selected, new.excluded = call[c].excluded,
           new.retries = call[c].retries, new.phase \in {"ask", "error", "raised", "judge"},
           new.phase = "raised" => new.provider \in Http,
           Spent(new) >= Spent(call[c]) + 1, new.posts = call[c].posts + 1
    PROVE  Answering(new)
<1> DEFINE k == call[c]
<1>1. k \in Call /\ k.phase = "ask" /\ k.provider \in Http
      BY DEF TypeOK, Posting
<1>2. Led(new)
      BY DEF Led, Answering
<1>3. Earlier(new) = Earlier(k)
      BY DEF Earlier
<1>4. k.posts <= Earlier(k) + Spent(k)
      BY DEF Answering
<1>5. Earlier(k) \in Nat /\ Spent(k) \in Nat /\ Spent(new) \in Nat /\ k.posts \in Nat
      BY <1>1, CostIsPositive DEF Earlier, Spent, Call, MaxRetriesAssumption
<1>6. new.posts <= Earlier(new) + Spent(new)
  <2> HIDE DEF k
  <2> QED BY <1>3, <1>4, <1>5 DEF k
<1>7. "local" \notin configured => LedToMock(new)
      BY DEF LedToMock, Answering
<1>8. new.provider # "mock" /\ new.phase \notin {"idle", "failed"}
      BY <1>1 DEF Http
<1> QED BY <1>1, <1>2, <1>6, <1>7, <1>8 DEF Answering

LEMMA PostsAnswer ==
    ASSUME TypeOK, MaxRetriesAssumption, NEW c \in Callers, Answering(call[c]), Post(c)
    PROVE  \E new : SetCall(c, new) /\ Answering(new)
<1> DEFINE k == call[c]
<1>1. k \in Call
      BY DEF TypeOK
<1>2. Posted(c) = [k EXCEPT !.posts = k.posts + 1] /\ k.posts + 1 \in Nat
      BY <1>1 DEF Posted, Call
<1>3. Posting(c) /\ k.phase = "ask" /\ k.provider \in Http
      BY DEF Post, PostTransient, PostRejected, PostRefused, PostMisshapen, PostAnswered,
             Posting
<1>4. /\ k.attempt \in 0..MaxRetries /\ MaxRetries \in Nat /\ Cost = 2 * (MaxRetries + 1)
      /\ k.json_only \in BOOLEAN
      BY <1>1 DEF Call, MaxRetriesAssumption, Cost
<1>5. Spent(k) = IF k.json_only THEN MaxRetries + 1 + k.attempt ELSE k.attempt
      BY <1>3 DEF Spent
<1>6. ASSUME NEW phase \in {"error", "raised", "judge"}, NEW valid \in BOOLEAN
      PROVE  Answering([Posted(c) EXCEPT !.phase = phase, !.valid = valid])
  <2> DEFINE new == [Posted(c) EXCEPT !.phase = phase, !.valid = valid]
  <2>1. /\ new \in Call /\ new.stage = k.stage /\ new.provider = k.provider
        /\ new.selected = k.selected /\ new.excluded = k.excluded
        /\ new.retries = k.retries /\ new.phase = phase /\ new.posts = k.posts + 1
        BY <1>1, <1>2 DEF Call
  <2>2. Spent(new) = Cost
        BY <1>3, <2>1 DEF Spent
  <2>3. Spent(new) >= Spent(k) + 1
        BY <1>4, <1>5, <2>2
  <2> HIDE DEF new
  <2>4. Answering(new)
        BY <1>3, <2>1, <2>3, PostAnswering
  <2> QED BY <2>4 DEF new
<1>7. ASSUME NEW phase \in {"error", "raised"}
      PROVE  Answering([Posted(c) EXCEPT !.phase = phase])
  <2>1. [Posted(c) EXCEPT !.phase = phase]
           = [Posted(c) EXCEPT !.phase = phase, !.valid = k.valid]
        BY <1>1, <1>2 DEF Call
  <2>2. k.valid \in BOOLEAN
        BY <1>1 DEF Call
  <2> QED BY <1>6, <2>1, <2>2
<1>8. CASE PostTransient(c)
  <2>1. CASE k.attempt < MaxRetries
    <3> DEFINE new == [Posted(c) EXCEPT !.attempt = @ + 1]
    <3>1. k.attempt + 1 \in 0..MaxRetries
          BY <1>4, <2>1
    <3>2. /\ new \in Call /\ new.stage = k.stage /\ new.provider = k.provider
          /\ new.selected = k.selected /\ new.excluded = k.excluded
          /\ new.retries = k.retries /\ new.phase = k.phase /\ new.posts = k.posts + 1
          /\ new.attempt = k.attempt + 1 /\ new.json_only = k.json_only
          BY <1>1, <1>2, <3>1 DEF Call
    <3> HIDE DEF new
    <3>3. Spent(new) = IF k.json_only THEN MaxRetries + 1 + (k.attempt + 1) ELSE k.attempt + 1
          BY <1>3, <3>2 DEF Spent
    <3>4. Spent(new) >= Spent(k) + 1
          BY <1>4, <1>5, <3>3
    <3>5. Answering(new)
          BY <1>3, <3>2, <3>4, PostAnswering
    <3> QED BY <1>8, <2>1, <3>5 DEF PostTransient, new
  <2>2. CASE ~ (k.attempt < MaxRetries)
        BY <1>7, <1>8, <2>2 DEF PostTransient
  <2> QED BY <2>1, <2>2
<1>9. CASE PostRejected(c)
  <2>1. CASE k.request.schema /\ ~ k.json_only
    <3> DEFINE new == [Posted(c) EXCEPT !.json_only = TRUE, !.attempt = 0]
    <3>1. /\ new \in Call /\ new.stage = k.stage /\ new.provider = k.provider
          /\ new.selected = k.selected /\ new.excluded = k.excluded
          /\ new.retries = k.retries /\ new.phase = k.phase /\ new.posts = k.posts + 1
          /\ new.attempt = 0 /\ new.json_only = TRUE
          BY <1>1, <1>2, NoAttempts DEF Call
    <3> HIDE DEF new
    <3>2. Spent(new) = MaxRetries + 1
          BY <1>3, <1>4, <3>1 DEF Spent
    <3>3. Spent(new) >= Spent(k) + 1
          BY <1>4, <1>5, <2>1, <3>2
    <3>4. Answering(new)
          BY <1>3, <3>1, <3>3, PostAnswering
    <3> QED BY <1>9, <2>1, <3>4 DEF PostRejected, new
  <2>2. CASE ~ (k.request.schema /\ ~ k.json_only)
        BY <1>7, <1>9, <2>2 DEF PostRejected
  <2> QED BY <2>1, <2>2
<1>10. CASE PostRefused(c)
      BY <1>7, <1>10 DEF PostRefused
<1>12. CASE PostMisshapen(c)
      BY <1>7, <1>12 DEF PostMisshapen
<1>11. ASSUME NEW valid \in BOOLEAN, PostAnswered(c, valid)
      PROVE  \E new : SetCall(c, new) /\ Answering(new)
      BY <1>6, <1>11 DEF PostAnswered
<1> QED BY <1>8, <1>9, <1>10, <1>11, <1>12 DEF Post

(* A call that is not passed on keeps what led to its provider.            *)
LEMMA SettledAnswering ==
    ASSUME TypeOK, MaxRetriesAssumption, NEW c \in Callers, Answering(call[c]),
           NEW new \in Call,
           new.stage = call[c].stage, new.provider = call[c].provider,
           new.selected = call[c].selected, new.excluded = call[c].excluded,
           new.retries = call[c].retries, new.posts = call[c].posts,
           call[c].provider \in Http => call[c].phase # "ask",
           new.phase \in {"judge", "answered", "failed"},
           new.phase = "judge" /\ new.provider = "mock" => new.valid,
           allow_fallback /\ "local" \notin configured => new.phase # "failed"
    PROVE  Answering(new)
<1>1. Led(new)
      BY DEF Led, Answering
<1>2. Earlier(new) = Earlier(call[c]) /\ Spent(new) = Spent(call[c])
      BY DEF Earlier, Spent
<1>3. "local" \notin configured => LedToMock(new)
      BY DEF LedToMock, Answering
<1> QED BY <1>1, <1>2, <1>3 DEF Answering

LEMMA ComputeAnswers ==
    ASSUME TypeOK, MaxRetriesAssumption, NEW c \in Callers, Answering(call[c]), Compute(c)
    PROVE  \E new : SetCall(c, new) /\ Answering(new)
<1> DEFINE k == call[c]
           new == [k EXCEPT !.phase = "judge",
                            !.valid = k.provider = "mock" \/ k.request.rule_fits]
<1>1. k \in Call /\ k.provider \notin Http
      BY DEF TypeOK, Compute
<1>2. (k.provider = "mock" \/ k.request.rule_fits) \in BOOLEAN
      BY <1>1 DEF Call, Request
<1>3. /\ new \in Call /\ new.stage = k.stage /\ new.provider = k.provider
      /\ new.selected = k.selected /\ new.excluded = k.excluded
      /\ new.retries = k.retries /\ new.posts = k.posts /\ new.phase = "judge"
      /\ k.provider = "mock" => new.valid
      BY <1>1, <1>2 DEF Call
<1> HIDE DEF new
<1>4. Answering(new)
      BY <1>1, <1>3, SettledAnswering
<1> QED BY <1>4 DEF new, Compute

LEMMA AnsweredAnswers ==
    ASSUME TypeOK, MaxRetriesAssumption, NEW c \in Callers, Answering(call[c]), Answered(c)
    PROVE  \E new : SetCall(c, new) /\ Answering(new)
<1> DEFINE k == call[c]
           new == [k EXCEPT !.phase = "answered"]
<1>1. k \in Call /\ k.phase = "judge"
      BY DEF TypeOK, Answered
<1>2. /\ new \in Call /\ new.stage = k.stage /\ new.provider = k.provider
      /\ new.selected = k.selected /\ new.excluded = k.excluded
      /\ new.retries = k.retries /\ new.posts = k.posts /\ new.phase = "answered"
      BY <1>1 DEF Call
<1> HIDE DEF new
<1>3. Answering(new)
      BY <1>1, <1>2, SettledAnswering
<1> QED BY <1>3 DEF new, Answered

(* What a call has cost when it leaves its provider. *)
LEMMA CostSoFar ==
    ASSUME TypeOK, MaxRetriesAssumption, NEW c \in Callers, Answering(call[c]),
           call[c].phase # "ask" \/ call[c].provider \notin Http
    PROVE  /\ call[c].posts \in Nat /\ Cost \in Nat
           /\ call[c].stage = "first" => call[c].posts <= Cost
           /\ call[c].stage = "fallback" => call[c].posts <= Cost + Cost
           /\ call[c].stage = "retry" /\ call[c].provider \in Http
                => call[c].posts <= Cost + Cost + Cost
           /\ call[c].stage = "retry" /\ call[c].provider \notin Http /\ call[c].retries # 2
                => call[c].posts <= Cost + Cost
           /\ call[c].posts <= Cost + Cost + Cost
<1> DEFINE k == call[c]
<1>1. k.posts \in Nat /\ Cost \in Nat
      BY CostIsPositive DEF TypeOK, Call
<1>2. k.posts <= Earlier(k) + Spent(k)
      BY DEF Answering
<1>3. Spent(k) = IF k.provider \in Http THEN Cost ELSE 0
      BY DEF Spent
<1>4. k.stage \in {"first", "fallback", "retry"}
      BY DEF TypeOK, Call
<1>5. CASE k.stage = "first"
      BY <1>1, <1>2, <1>3, <1>5 DEF Earlier
<1>6. CASE k.stage = "fallback"
      BY <1>1, <1>2, <1>3, <1>6 DEF Earlier
<1>7. CASE k.stage = "retry"
      BY <1>1, <1>2, <1>3, <1>7 DEF Earlier
<1> QED BY <1>1, <1>4, <1>5, <1>6, <1>7

LEMMA LeaveAnswers ==
    ASSUME TypeOK, MaxRetriesAssumption, NEW c \in Callers, Answering(call[c]), Leave(c)
    PROVE  \E new : SetCall(c, new) /\ Answering(new)
<1> DEFINE k == call[c]
           allowed == k.stage = "first" /\ (allow_fallback \/ k.request.kind = "embedding")
           next == IF allowed THEN FallbackFor(k.request.ctx, {k.selected}) ELSE {}
<1>1. k \in Call /\ k.phase = "error" /\ k.provider \in Http
      BY DEF TypeOK, Leave, Answering
<1>2. ASSUME NEW p \in next, SetCall(c, Ask(c, p, "fallback"))
      PROVE  \E new : SetCall(c, new) /\ Answering(new)
  <2> DEFINE new == Ask(c, p, "fallback")
  <2>1. k.stage = "first" /\ p \in FallbackFor(k.request.ctx, {k.selected})
        BY <1>2
  <2>2. p \in Provider /\ ~ IsExternal(p) /\ p \in Candidates
        BY <2>1, FallbackSound, FallbackOrder
  <2>3. /\ new \in Call /\ new.phase = "ask" /\ new.selected = k.selected
        /\ new.provider = p /\ new.retries = k.retries /\ new.excluded = k.excluded
        BY <2>2, AskType
  <2>4. /\ new.stage = "fallback" /\ new.posts = k.posts
        /\ new.attempt = 0 /\ new.json_only = FALSE
        BY <1>1 DEF Ask, Call
  <2> HIDE DEF new
  <2>5. Led(k)
        BY DEF Answering
  <2>6. k.retries = 0 /\ k.excluded = {k.selected} /\ k.provider = k.selected
        BY <2>1, <2>5 DEF Led
  <2>7. Led(new)
        BY <2>2, <2>3, <2>4, <2>5, <2>6 DEF Led
  <2>8. "local" \notin configured => LedToMock(new)
    <3> SUFFICES ASSUME "local" \notin configured PROVE LedToMock(new)
        OBVIOUS
    <3>1. k.provider # "local"
          BY <1>1, <2>5 DEF Led, Candidates, Http
    <3>2. k.selected = "external"
          BY <1>1, <2>6, <3>1 DEF Http
    <3> QED BY <2>3, <2>6, <3>2 DEF LedToMock
  <2>9. new.posts <= Earlier(new) + Spent(new)
    <3>1. k.posts <= Cost /\ k.posts \in Nat /\ Cost \in Nat
          BY <1>1, <2>1, CostSoFar
    <3>2. Earlier(new) = Cost /\ Spent(new) = 0
          BY <2>3, <2>4 DEF Earlier, Spent
    <3> QED BY <2>4, <3>1, <3>2
  <2>10. Answering(new)
        BY <2>3, <2>7, <2>8, <2>9 DEF Answering
  <2> QED BY <1>2, <2>10 DEF new
<1>3. ASSUME next = {}, SetCall(c, [k EXCEPT !.phase = "failed"])
      PROVE  \E new : SetCall(c, new) /\ Answering(new)
  <2> DEFINE new == [k EXCEPT !.phase = "failed"]
  <2>1. /\ new \in Call /\ new.stage = k.stage /\ new.provider = k.provider
        /\ new.selected = k.selected /\ new.excluded = k.excluded
        /\ new.retries = k.retries /\ new.posts = k.posts /\ new.phase = "failed"
        BY <1>1 DEF Call
  <2> HIDE DEF new
  <2>2. ASSUME allow_fallback, "local" \notin configured PROVE FALSE
    <3>1. k.provider = "external"
          BY <1>1, <2>2 DEF Answering, Led, Candidates, Http
    <3>2. k.stage = "first"
          BY <3>1 DEF Answering, Led, IsExternal
    <3>3. FallbackFor(k.request.ctx, {k.selected}) = {}
          BY <1>3, <2>2, <3>2
    <3>4. "rule" \in {k.selected} /\ "mock" \in {k.selected}
          BY <3>3, RuleAndMock
    <3> QED BY <3>4
  <2>3. Answering(new)
        BY <1>1, <2>1, <2>2, SettledAnswering
  <2> QED BY <1>3, <2>3 DEF new
<1> QED BY <1>2, <1>3 DEF Leave

LEMMA RetryAnswers ==
    ASSUME TypeOK, MaxRetriesAssumption, NEW c \in Callers, Answering(call[c]),
           RetryValidation(c)
    PROVE  \E new : SetCall(c, new) /\ Answering(new)
<1> DEFINE k == call[c]
           next == FallbackFor(k.request.ctx, k.excluded)
<1>1. k \in Call /\ k.phase = "judge" /\ ~ k.valid /\ Led(k)
      BY DEF TypeOK, RetryValidation, Answering
<1>2. k.provider # "mock"
      BY <1>1 DEF Answering
<1>3. k.retries \in {0, 1, 2} /\ k.stage \in {"first", "fallback", "retry"}
      BY <1>1 DEF Call, MaxValidationRetries
<1>4. ASSUME k.retries = MaxValidationRetries, SetCall(c, [k EXCEPT !.phase = "failed"])
      PROVE  \E new : SetCall(c, new) /\ Answering(new)
  <2> DEFINE new == [k EXCEPT !.phase = "failed"]
  <2>1. /\ new \in Call /\ new.stage = k.stage /\ new.provider = k.provider
        /\ new.selected = k.selected /\ new.excluded = k.excluded
        /\ new.retries = k.retries /\ new.posts = k.posts /\ new.phase = "failed"
        BY <1>1 DEF Call
  <2> HIDE DEF new
  <2>2. "local" \in configured
        BY <1>2, <1>4 DEF Answering, LedToMock, MaxValidationRetries
  <2>3. Answering(new)
        BY <1>1, <2>1, <2>2, SettledAnswering
  <2> QED BY <1>4, <2>3 DEF new
<1>5. ASSUME k.retries # MaxValidationRetries,
             NEW p \in IF next = {} THEN {k.selected} ELSE next,
             SetCall(c, [Ask(c, p, "retry") EXCEPT !.retries = @ + 1,
                                                   !.excluded = @ \cup {p}])
      PROVE  \E new : SetCall(c, new) /\ Answering(new)
  <2> DEFINE asked == Ask(c, p, "retry")
             new == [asked EXCEPT !.retries = @ + 1, !.excluded = @ \cup {p}]
  <2>1. k.retries = 0 \/ k.retries = 1
        BY <1>3, <1>5 DEF MaxValidationRetries
  <2>2. \/ k.retries = 0 /\ k.stage # "retry" /\ k.excluded = {k.selected}
        \/ k.retries = 1 /\ k.stage = "retry" /\ k.excluded = {k.selected, k.provider}
        BY <1>1, <1>3, <2>1 DEF Led
  <2>3. \/ p \in next
        \/ /\ p = k.selected /\ k.retries = 1
           /\ k.selected \in {"rule", "mock"} /\ k.provider = "rule"
    <3>1. CASE next # {}
          BY <3>1
    <3>2. CASE next = {}
      <4>1. "rule" \in k.excluded /\ "mock" \in k.excluded
            BY <3>2, RuleAndMock
      <4> QED BY <1>2, <1>5, <2>2, <3>2, <4>1
    <3> QED BY <3>1, <3>2
  <2>4. p \in Provider /\ p \in {"local", "rule", "mock"} /\ p \in Candidates
        BY <1>1, <2>3, FallbackOrder, FallbackSound DEF Call, Led
  <2>5. /\ asked \in Call /\ asked.phase = "ask" /\ asked.selected = k.selected
        /\ asked.provider = p /\ asked.retries = k.retries /\ asked.excluded = k.excluded
        BY <2>4, AskType
  <2>6. /\ asked.stage = "retry" /\ asked.posts = k.posts
        /\ asked.attempt = 0 /\ asked.json_only = FALSE
        BY <1>1 DEF Ask, Call
  <2> HIDE DEF asked
  <2>7. asked.retries + 1 \in 0..MaxValidationRetries
        BY <2>1, <2>5 DEF MaxValidationRetries
  <2>8. /\ new.phase = "ask" /\ new.selected = k.selected
        /\ new.provider = p /\ new.retries = k.retries + 1
        /\ new.excluded = k.excluded \cup {p}
        /\ new.stage = "retry" /\ new.posts = k.posts
        /\ new.attempt = 0 /\ new.json_only = FALSE
        BY <2>4, <2>5, <2>6, <2>7 DEF Call
  <2> HIDE DEF new
  <2>9. Led(new)
        BY <1>1, <2>1, <2>2, <2>4, <2>8 DEF Led, IsExternal
  <2>10. "local" \notin configured => LedToMock(new)
    <3> SUFFICES ASSUME "local" \notin configured PROVE LedToMock(new)
        OBVIOUS
    <3>1. LedToMock(k)
          BY DEF Answering
    <3>2. k.selected # "local"
          BY <1>1 DEF Led, Candidates
    <3>3. CASE k.retries = 0
      <4>1. p \in next
            BY <2>3, <3>3
      <4>2. p = "mock" => "rule" \in k.excluded
            BY <4>1, FallbackOrder
      <4>3. p # "local" /\ p \in {"local", "rule", "mock"} /\ p \notin k.excluded
            BY <4>1, FallbackOrder
      <4>4. k.selected = "external" \/ k.provider = k.selected
            BY <3>1, <3>3 DEF LedToMock
      <4>5. k.excluded = {k.selected}
            BY <2>2, <3>3
      <4>6. k.selected \in {"external", "local", "rule", "mock"}
            BY <1>1 DEF Call, Provider, Http
      <4>7. p = "mock" \/ (k.selected = "external" /\ p = "rule")
            BY <1>2, <3>2, <4>2, <4>3, <4>4, <4>5, <4>6
      <4> QED BY <2>8, <3>3, <4>7 DEF LedToMock
    <3>4. CASE k.retries = 1
      <4>1. k.selected = "external" /\ k.provider = "rule"
            BY <1>2, <3>1, <3>4 DEF LedToMock
      <4>2. p \in next
            BY <2>3, <4>1
      <4>3. p # "local" /\ p \in {"local", "rule", "mock"} /\ p \notin k.excluded
            BY <4>2, FallbackOrder
      <4>4. p = "mock"
            BY <2>2, <3>4, <4>1, <4>3
      <4> QED BY <2>8, <3>4, <4>4 DEF LedToMock
    <3> QED BY <2>1, <3>3, <3>4
  <2>11. new.posts <= Earlier(new) + Spent(new)
    <3>1. Spent(new) = 0
          BY <2>8 DEF Spent
    <3>2. CASE k.retries = 0
      <4>1. k.stage \in {"first", "fallback"}
            BY <1>3, <2>2, <3>2
      <4>2. Earlier(new) = Cost + Cost
            BY <2>8, <3>2 DEF Earlier
      <4>3. k.posts \in Nat /\ Cost \in Nat /\ (k.posts <= Cost \/ k.posts <= Cost + Cost)
            BY <1>1, <4>1, CostSoFar
      <4> QED BY <2>8, <3>1, <4>2, <4>3
    <3>3. CASE k.retries = 1 /\ p \notin Http
      <4>1. Earlier(new) = Cost + Cost + Cost
            BY <2>8, <3>3 DEF Earlier
      <4>2. k.posts \in Nat /\ Cost \in Nat /\ k.posts <= Cost + Cost + Cost
            BY <1>1, CostSoFar
      <4> QED BY <2>8, <3>1, <4>1, <4>2
    <3>4. CASE k.retries = 1 /\ p \in Http
      <4>1. p = "local"
            BY <2>4, <3>4 DEF Http
      <4>2. p \in next
            BY <2>3, <4>1
      <4>3. p \notin {k.selected, k.provider}
            BY <2>2, <3>4, <4>2, FallbackOrder
      <4>4. k.provider \notin Http
            BY <1>1, <2>2, <3>4, <4>1, <4>3 DEF Led, IsExternal, Http
      <4>5. k.posts \in Nat /\ Cost \in Nat /\ k.posts <= Cost + Cost
            BY <1>1, <2>2, <3>4, <4>4, CostSoFar
      <4>6. Earlier(new) = Cost + Cost
            BY <2>8, <3>4 DEF Earlier
      <4> QED BY <2>8, <3>1, <4>5, <4>6
    <3> QED BY <2>1, <3>2, <3>3, <3>4
  <2>12. Answering(new)
        BY <2>8, <2>9, <2>10, <2>11 DEF Answering
  <2> QED BY <1>5, <2>12 DEF new, asked
<1> QED BY <1>4, <1>5 DEF RetryValidation

LEMMA StartAnswers ==
    ASSUME TypeOK, MaxRetriesAssumption, NEW c \in Callers, Start(c)
    PROVE  \E new : SetCall(c, new) /\ Answering(new)
<1>1. PICK request \in Request : Select(c, request)
      BY DEF Start
<1> DEFINE eligible == {p \in Candidates : PrivacyAllows(p, request.ctx)}
<1>2. PICK p \in Earliest({q \in eligible : Healthy(q)}) :
        SetCall(c, [Idle EXCEPT !.phase = "ask", !.request = request, !.selected = p,
                                !.provider = p, !.excluded = {p}])
      BY <1>1 DEF Select
<1>3. p \in Candidates
      BY <1>2, EarliestIn
<1>4. p \in Provider
      BY <1>3 DEF Candidates, TypeOK, Provider, Http
<1> DEFINE new == [Idle EXCEPT !.phase = "ask", !.request = request, !.selected = p,
                               !.provider = p, !.excluded = {p}]
<1>5. /\ new.phase = "ask" /\ new.selected = p /\ new.provider = p /\ new.retries = 0
      /\ new.excluded = {p} /\ new.stage = "first" /\ new.posts = 0
      /\ new.attempt = 0 /\ new.json_only = FALSE
      BY <1>4, IdleType DEF Idle, Call
<1> HIDE DEF new
<1>6. Led(new)
      BY <1>3, <1>5 DEF Led
<1>7. LedToMock(new)
      BY <1>5 DEF LedToMock
<1>8. Earlier(new) = 0 /\ Spent(new) = 0
      BY <1>5 DEF Earlier, Spent
<1>9. Answering(new)
      BY <1>5, <1>6, <1>7, <1>8 DEF Answering
<1> QED BY <1>2, <1>9 DEF new

LEMMA StepAnswers ==
    ASSUME TypeOK, MaxRetriesAssumption, NEW c \in Callers, Answering(call[c]), Step(c)
    PROVE  \E new : SetCall(c, new) /\ (new = Idle \/ Answering(new))
<1>1. CASE Compute(c)
      BY <1>1, ComputeAnswers
<1>2. CASE Post(c)
      BY <1>2, PostsAnswer
<1>3. CASE Leave(c)
      BY <1>3, LeaveAnswers
<1>4. CASE Answered(c)
      BY <1>4, AnsweredAnswers
<1>5. CASE RetryValidation(c)
      BY <1>5, RetryAnswers
<1>6. CASE Return(c)
      BY <1>6 DEF Return
<1> QED BY <1>1, <1>2, <1>3, <1>4, <1>5, <1>6 DEF Step

(* One call is replaced; what the others were led by stays. *)
LEMMA OneCallAnswers ==
    ASSUME TypeOK, AnswerInv, NEW c \in Callers, NEW new, SetCall(c, new),
           new = Idle \/ Answering(new)
    PROVE  AnswerInv'
<1>1. configured' = configured /\ allow_fallback' = allow_fallback
      BY DEF SetCall
<1>2. call'[c] = new /\ \A d \in Callers : d # c => call'[d] = call[d]
      BY DEF SetCall, TypeOK
<1>3. ASSUME NEW k, Answering(k) PROVE Answering(k)'
      BY <1>1, <1>3 DEF Answering, Led, LedToMock, Candidates, Earlier, Spent
<1>4. ASSUME NEW d \in Callers PROVE call'[d] = Idle \/ Answering(call[d])'
  <2>1. CASE d = c
    <3>1. CASE new = Idle
          BY <1>2, <2>1, <3>1
    <3>2. CASE Answering(new)
      <4>1. Answering(new)'
            BY <1>3, <3>2
      <4> QED BY <1>2, <2>1, <4>1 DEF Answering, Led, LedToMock, Candidates, Earlier, Spent
    <3> QED BY <3>1, <3>2
  <2>2. CASE d # c
    <3>1. call'[d] = call[d] /\ (call[d] = Idle \/ Answering(call[d]))
          BY <1>2, <2>2 DEF AnswerInv
    <3> QED BY <1>1, <3>1 DEF Answering, Led, LedToMock, Candidates, Earlier, Spent
  <2> QED BY <2>1, <2>2
<1> QED BY <1>4 DEF AnswerInv, Idle

(* An answer depends on nothing but the configuration and its call. *)
LEMMA AnswersAlone ==
    ASSUME AnswerInv, UNCHANGED <<configured, allow_fallback, call>> PROVE AnswerInv'
<1>1. ASSUME NEW k PROVE Answering(k)' = Answering(k)
  <2>1. Candidates' = Candidates
        BY DEF Candidates
  <2>2. Led(k)' = Led(k)
        BY <2>1 DEF Led
  <2> QED BY <2>2 DEF Answering
<1> QED BY <1>1 DEF AnswerInv

LEMMA AnswerInvStep ==
    ASSUME MaxRetriesAssumption, TypeOK, AnswerInv, [Next]_vars PROVE AnswerInv'
<1>1. ASSUME NEW c \in Callers, Start(c) PROVE AnswerInv'
      BY <1>1, StartAnswers, OneCallAnswers
<1>2. ASSUME NEW c \in Callers, Step(c) PROVE AnswerInv'
  <2>1. call[c].phase # "idle"
        BY <1>2 DEF Step, Compute, Post, PostTransient, PostRejected, PostRefused,
               PostMisshapen, PostAnswered, Posting, Leave, Answered, RetryValidation, Return
  <2>2. Answering(call[c])
        BY <2>1 DEF AnswerInv, Idle
  <2> QED BY <1>2, <2>2, StepAnswers, OneCallAnswers
<1>3. CASE ChangeUp
      BY <1>3, AnswersAlone DEF ChangeUp
<1>4. CASE Restart
      BY <1>4 DEF Restart, AnswerInv
<1>5. CASE UNCHANGED vars
      BY <1>5, AnswersAlone DEF vars
<1> QED BY <1>1, <1>2, <1>3, <1>4, <1>5 DEF Next

(* Without a local node no failure ends a call of a service that may fall  *)
(* back, except that the first answer is of another shape, and no call     *)
(* costs more than three providers' retries, each doubled, for any number  *)
(* of calls and retries (service.py, openai_compatible.py).                *)
THEOREM EveryFailureFallsBack ==
    ASSUME MaxRetriesAssumption PROVE Spec => []FailuresFallBack
<1>1. TypeOK /\ AnswerInv => FailuresFallBack
  <2> SUFFICES ASSUME TypeOK, AnswerInv, NEW c \in Callers
               PROVE  /\ allow_fallback /\ "local" \notin configured
                           => /\ call[c].phase # "failed"
                              /\ call[c].phase = "raised" => call[c].stage = "first"
                      /\ call[c].posts <= 3 * 2 * (MaxRetries + 1)
      BY DEF FailuresFallBack
  <2>1. MaxRetries \in Nat /\ Cost = 2 * (MaxRetries + 1)
        BY DEF MaxRetriesAssumption, Cost
  <2>2. CASE call[c] = Idle
        BY <2>1, <2>2 DEF Idle
  <2>3. CASE Answering(call[c])
    <3> DEFINE k == call[c]
    <3>1. k \in Call
          BY DEF TypeOK
    <3>2. k.posts \in Nat /\ k.attempt \in 0..MaxRetries
          BY <3>1 DEF Call
    <3>3. k.posts <= Cost + Cost + Cost
      <4>1. CASE k.phase # "ask" \/ k.provider \notin Http
            BY <2>3, <4>1, CostSoFar
      <4>2. CASE k.phase = "ask" /\ k.provider \in Http
        <5>1. Spent(k) \in Nat /\ Spent(k) <= Cost
              BY <2>1, <3>2, <4>2 DEF Spent
        <5>2. Earlier(k) \in Nat /\ Earlier(k) <= Cost + Cost
          <6>1. k.stage \in {"first", "fallback", "retry"}
                BY <3>1 DEF Call
          <6> QED BY <2>1, <4>2, <6>1 DEF Earlier
        <5>3. k.posts <= Earlier(k) + Spent(k)
              BY <2>3 DEF Answering
        <5> HIDE DEF k
        <5> QED BY <2>1, <3>2, <5>1, <5>2, <5>3
      <4> QED BY <4>1, <4>2
    <3>4. k.posts <= 3 * 2 * (MaxRetries + 1)
      <4> HIDE DEF k
      <4> QED BY <2>1, <3>2, <3>3
    <3>5. ASSUME "local" \notin configured, k.phase = "raised" PROVE k.stage = "first"
      <4>1. k.provider = "external"
            BY <2>3, <3>1, <3>5 DEF Answering, Led, Candidates, Http
      <4> QED BY <2>3, <4>1 DEF Answering, Led, IsExternal
    <3> QED BY <2>3, <3>4, <3>5 DEF Answering
  <2> QED BY <2>2, <2>3 DEF AnswerInv
<1>2. Init => AnswerInv
      BY DEF Init, AnswerInv
<1>3. Spec => []TypeOK
      BY GatewayTypeCorrect
<1>4. TypeOK /\ AnswerInv /\ [Next]_vars => AnswerInv'
      BY AnswerInvStep
<1> QED BY <1>1, <1>2, <1>3, <1>4, PTL DEF Spec

(***************************************************************************)
(* The realtime server                                                     *)
(*                                                                         *)
(* A counter goes ahead of what the client has received when a push fails, *)
(* and the connection is closed then: only of an open one do the counter   *)
(* and the cache say what has been received.  The cache of an open one     *)
(* holds the last events, in their order: place maps its entries to their  *)
(* frames.                                                                 *)
(***************************************************************************)
Pushed(f) == f.event # "control"

(* The places of the entries of the cache b among the frames g. *)
Traces(place, b, g) ==
    /\ place \in [1..Len(b) -> 1..Len(g)]
    /\ \A i, j \in 1..Len(b) : i < j => place[i] < place[j]
    /\ \A i \in 1..Len(b) : g[place[i]].event = b[i]
    /\ \A n \in 1..Len(g) : Pushed(g[n]) =>
          \/ \E i \in 1..Len(b) : place[i] = n
          \/ Len(b) = CacheSize /\ \A i \in 1..Len(b) : n < place[i]

Traced(b, g) == Len(b) <= CacheSize /\ \E place : Traces(place, b, g)

(* A frame is numbered by its place. *)
Numbered(g) == \A i \in 1..Len(g) : g[i].sequence = i

(* Between two frames with one event there is a whole cache of others. *)
Between(g, i, j) == {k \in (i + 1)..(j - 1) : Pushed(g[k])}
Apart(g) ==
    \A i, j \in 1..Len(g) :
        i < j /\ g[i].event = g[j].event /\ Pushed(g[i])
        => R!Cardinality(Between(g, i, j)) >= CacheSize

LiveInv ==
    \A c \in Connections :
        conn[c] \in {"none", "open"} =>
            sequence[c] = Len(frames[c]) /\ Traced(cache[c], frames[c])

FramesInv ==
    /\ R!TypeOK /\ LiveInv
    /\ \A c \in Connections : Numbered(frames[c]) /\ Apart(frames[c])

LEMMA SameCount == ASSUME NEW S PROVE R!Cardinality(S) = Cardinality(S)
BY DEF R!Cardinality, Cardinality

(* What one more frame leaves of those before. *)
LEMMA OneMore ==
    ASSUME NEW g \in Seq(R!Frame), NEW f \in R!Frame
    PROVE  /\ Append(g, f) \in Seq(R!Frame) /\ Len(Append(g, f)) = Len(g) + 1
           /\ Append(g, f)[Len(g) + 1] = f
           /\ \A i \in 1..Len(g) : Append(g, f)[i] = g[i] /\ g[i] \in R!Frame
           /\ Len(g) \in Nat
OBVIOUS

LEMMA NumberedOneMore ==
    ASSUME NEW g \in Seq(R!Frame), NEW f \in R!Frame, Numbered(g),
           f.sequence = Len(g) + 1
    PROVE  Numbered(Append(g, f))
<1> DEFINE h == Append(g, f)
<1>1. /\ Len(h) = Len(g) + 1 /\ h[Len(g) + 1] = f /\ Len(g) \in Nat
      /\ \A i \in 1..Len(g) : h[i] = g[i]
      BY OneMore
<1> HIDE DEF h
<1>2. \A i \in 1..Len(h) : h[i].sequence = i
      BY <1>1 DEF Numbered
<1> QED BY <1>2 DEF Numbered, h

(* An answer leaves the places of the cached events. *)
LEMMA TracedAnswer ==
    ASSUME NEW g \in Seq(R!Frame), NEW f \in R!Frame, ~ Pushed(f),
           NEW b, Len(b) \in Nat, Traced(b, g)
    PROVE  Traced(b, Append(g, f))
<1> DEFINE h == Append(g, f)
<1>1. /\ Len(h) = Len(g) + 1 /\ h[Len(g) + 1] = f /\ Len(g) \in Nat
      /\ \A i \in 1..Len(g) : h[i] = g[i]
      BY OneMore
<1> HIDE DEF h
<1>2. PICK place : Traces(place, b, g)
      BY DEF Traced
<1>3. /\ place \in [1..Len(b) -> 1..Len(g)]
      /\ \A i, j \in 1..Len(b) : i < j => place[i] < place[j]
      /\ \A i \in 1..Len(b) : g[place[i]].event = b[i]
      BY <1>2 DEF Traces
<1>4. place \in [1..Len(b) -> 1..Len(h)]
      BY <1>1, <1>3
<1>5. \A i \in 1..Len(b) : h[place[i]].event = b[i]
      BY <1>1, <1>3
<1>6. ASSUME NEW n \in 1..Len(h), Pushed(h[n])
      PROVE  \/ \E i \in 1..Len(b) : place[i] = n
             \/ Len(b) = CacheSize /\ \A i \in 1..Len(b) : n < place[i]
  <2>1. n \in 1..Len(g) /\ Pushed(g[n])
        BY <1>1, <1>6
  <2> QED BY <1>2, <2>1 DEF Traces
<1>7. Traces(place, b, h)
      BY <1>3, <1>4, <1>5, <1>6 DEF Traces
<1> QED BY <1>7 DEF Traced, h

(* One event more, while the cache has room ... *)
LEMMA TracedPush ==
    ASSUME NEW g \in Seq(R!Frame), NEW f \in R!Frame,
           NEW b \in Seq(Events), f.event \in Events, Len(b) < CacheSize,
           CacheSize \in Nat, Traced(b, g)
    PROVE  Traced(Append(b, f.event), Append(g, f))
<1> DEFINE h == Append(g, f)
           d == Append(b, f.event)
<1>1. /\ Len(h) = Len(g) + 1 /\ h[Len(g) + 1] = f /\ Len(g) \in Nat
      /\ \A i \in 1..Len(g) : h[i] = g[i]
      BY OneMore
<1>2. /\ Len(d) = Len(b) + 1 /\ d[Len(b) + 1] = f.event /\ Len(b) \in Nat
      /\ \A i \in 1..Len(b) : d[i] = b[i]
      OBVIOUS
<1> HIDE DEF h, d
<1>3. PICK place : Traces(place, b, g)
      BY DEF Traced
<1>4. /\ place \in [1..Len(b) -> 1..Len(g)]
      /\ \A i, j \in 1..Len(b) : i < j => place[i] < place[j]
      /\ \A i \in 1..Len(b) : g[place[i]].event = b[i]
      /\ \A n \in 1..Len(g) : Pushed(g[n]) => \E i \in 1..Len(b) : place[i] = n
      BY <1>2, <1>3 DEF Traces
<1> DEFINE new == [i \in 1..Len(d) |-> IF i = Len(b) + 1 THEN Len(g) + 1 ELSE place[i]]
<1>5. /\ \A i \in 1..Len(b) : new[i] = place[i]
      /\ new[Len(b) + 1] = Len(g) + 1
      /\ new \in [1..Len(d) -> 1..Len(h)]
      BY <1>1, <1>2, <1>4
<1> HIDE DEF new
<1>6. \A i, j \in 1..Len(d) : i < j => new[i] < new[j]
  <2> SUFFICES ASSUME NEW i \in 1..Len(d), NEW j \in 1..Len(d), i < j PROVE new[i] < new[j]
      OBVIOUS
  <2>1. i \in 1..Len(b)
        BY <1>2
  <2>2. CASE j \in 1..Len(b)
        BY <1>4, <1>5, <2>1, <2>2
  <2>3. CASE j = Len(b) + 1
    <3>1. new[i] \in 1..Len(g)
          BY <1>4, <1>5, <2>1
    <3> QED BY <1>1, <1>5, <2>3, <3>1
  <2> QED BY <1>2, <2>2, <2>3
<1>7. \A i \in 1..Len(d) : h[new[i]].event = d[i]
  <2> SUFFICES ASSUME NEW i \in 1..Len(d) PROVE h[new[i]].event = d[i]
      OBVIOUS
  <2>1. CASE i \in 1..Len(b)
    <3>1. new[i] = place[i] /\ place[i] \in 1..Len(g) /\ d[i] = b[i]
          BY <1>2, <1>4, <1>5, <2>1
    <3>2. h[place[i]] = g[place[i]] /\ g[place[i]].event = b[i]
          BY <1>1, <1>4, <2>1, <3>1
    <3> QED BY <3>1, <3>2
  <2>2. CASE i = Len(b) + 1
        BY <1>1, <1>2, <1>5, <2>2
  <2> QED BY <1>2, <2>1, <2>2
<1>8. ASSUME NEW n \in 1..Len(h), Pushed(h[n])
      PROVE  \E i \in 1..Len(d) : new[i] = n
  <2>1. CASE n = Len(g) + 1
        BY <1>2, <1>5, <2>1
  <2>2. CASE n \in 1..Len(g)
    <3>1. PICK i \in 1..Len(b) : place[i] = n
          BY <1>1, <1>4, <1>8, <2>2
    <3> QED BY <1>2, <1>5, <3>1
  <2> QED BY <1>1, <2>1, <2>2
<1>9. Traces(new, d, h)
      BY <1>5, <1>6, <1>7, <1>8 DEF Traces
<1>10. Len(d) <= CacheSize
      BY <1>2
<1> QED BY <1>9, <1>10 DEF Traced, h, d

(* ... and when it is full, which drops the oldest. *)
LEMMA TracedDrop ==
    ASSUME NEW g \in Seq(R!Frame), NEW f \in R!Frame,
           NEW b \in Seq(Events), f.event \in Events, Len(b) = CacheSize,
           CacheSize \in Nat \ {0}, Traced(b, g)
    PROVE  Traced(Tail(Append(b, f.event)), Append(g, f))
<1> DEFINE h == Append(g, f)
           d == Tail(Append(b, f.event))
<1>1. /\ Len(h) = Len(g) + 1 /\ h[Len(g) + 1] = f /\ Len(g) \in Nat
      /\ \A i \in 1..Len(g) : h[i] = g[i]
      BY OneMore
<1>2. /\ Len(d) = Len(b) /\ d[Len(b)] = f.event /\ Len(b) \in Nat \ {0}
      /\ \A i \in 1..(Len(b) - 1) : d[i] = b[i + 1]
      OBVIOUS
<1> HIDE DEF h, d
<1>3. PICK place : Traces(place, b, g)
      BY DEF Traced
<1>4. /\ place \in [1..Len(b) -> 1..Len(g)]
      /\ \A i, j \in 1..Len(b) : i < j => place[i] < place[j]
      /\ \A i \in 1..Len(b) : g[place[i]].event = b[i]
      /\ \A n \in 1..Len(g) : Pushed(g[n]) =>
            \/ \E i \in 1..Len(b) : place[i] = n
            \/ \A i \in 1..Len(b) : n < place[i]
      BY <1>3 DEF Traces
<1> DEFINE new == [i \in 1..Len(d) |-> IF i = Len(b) THEN Len(g) + 1 ELSE place[i + 1]]
<1>5. /\ \A i \in 1..(Len(b) - 1) : i + 1 \in 1..Len(b) /\ new[i] = place[i + 1]
      /\ new[Len(b)] = Len(g) + 1
      /\ new \in [1..Len(d) -> 1..Len(h)]
      BY <1>1, <1>2, <1>4
<1> HIDE DEF new
<1>6. \A i, j \in 1..Len(d) : i < j => new[i] < new[j]
  <2> SUFFICES ASSUME NEW i \in 1..Len(d), NEW j \in 1..Len(d), i < j PROVE new[i] < new[j]
      OBVIOUS
  <2>1. i \in 1..(Len(b) - 1)
        BY <1>2
  <2>2. CASE j \in 1..(Len(b) - 1)
        BY <1>4, <1>5, <2>1, <2>2
  <2>3. CASE j = Len(b)
    <3>1. new[i] \in 1..Len(g)
          BY <1>4, <1>5, <2>1
    <3> QED BY <1>1, <1>5, <2>3, <3>1
  <2> QED BY <1>2, <2>2, <2>3
<1>7. \A i \in 1..Len(d) : h[new[i]].event = d[i]
  <2> SUFFICES ASSUME NEW i \in 1..Len(d) PROVE h[new[i]].event = d[i]
      OBVIOUS
  <2>1. CASE i \in 1..(Len(b) - 1)
    <3>1. i + 1 \in 1..Len(b) /\ new[i] = place[i + 1] /\ d[i] = b[i + 1]
          BY <1>2, <1>5, <2>1
    <3>2. place[i + 1] \in 1..Len(g) /\ g[place[i + 1]].event = b[i + 1]
          BY <1>4, <3>1
    <3> QED BY <1>1, <3>1, <3>2
  <2>2. CASE i = Len(b)
        BY <1>1, <1>2, <1>5, <2>2
  <2> QED BY <1>2, <2>1, <2>2
<1>8. ASSUME NEW n \in 1..Len(g), n <= place[1] PROVE \A i \in 1..Len(d) : n < new[i]
  <2> SUFFICES ASSUME NEW i \in 1..Len(d) PROVE n < new[i]
      OBVIOUS
  <2>1. CASE i \in 1..(Len(b) - 1)
    <3>1. 1 \in 1..Len(b) /\ i + 1 \in 1..Len(b) /\ 1 < i + 1
          BY <2>1
    <3>2. place[1] < place[i + 1] /\ place[1] \in Nat /\ place[i + 1] \in Nat
          BY <1>4, <3>1
    <3> QED BY <1>5, <1>8, <2>1, <3>2
  <2>2. CASE i = Len(b)
        BY <1>1, <1>5, <2>2
  <2> QED BY <1>2, <2>1, <2>2
<1>9. ASSUME NEW n \in 1..Len(h), Pushed(h[n])
      PROVE  (\E i \in 1..Len(d) : new[i] = n) \/ (\A i \in 1..Len(d) : n < new[i])
  <2>1. CASE n = Len(g) + 1
        BY <1>2, <1>5, <2>1
  <2>2. CASE n \in 1..Len(g)
    <3>1. Pushed(g[n])
          BY <1>1, <1>9, <2>2
    <3>2. CASE \E i \in 1..Len(b) : place[i] = n
      <4>1. PICK i \in 1..Len(b) : place[i] = n
            BY <3>2
      <4>2. CASE i = 1
            BY <1>8, <2>2, <4>1, <4>2
      <4>3. CASE i # 1
        <5>1. i - 1 \in 1..(Len(b) - 1) /\ i - 1 \in 1..Len(d) /\ (i - 1) + 1 = i
              BY <1>2, <4>1, <4>3
        <5>2. new[i - 1] = n
              BY <1>5, <4>1, <5>1
        <5> QED BY <5>1, <5>2
      <4> QED BY <4>2, <4>3
    <3>3. CASE \A i \in 1..Len(b) : n < place[i]
      <4>1. n < place[1] /\ place[1] \in Nat
            BY <1>2, <1>4, <3>3
      <4> QED BY <1>8, <2>2, <4>1
    <3> QED BY <1>4, <2>2, <3>1, <3>2, <3>3
  <2> QED BY <1>1, <2>1, <2>2
<1>10. Traces(new, d, h)
      BY <1>2, <1>5, <1>6, <1>7, <1>9 DEF Traces
<1>11. Len(d) <= CacheSize
      BY <1>2
<1> QED BY <1>10, <1>11 DEF Traced, h, d

(* A whole cache of others lies between an event and its repetition.       *)
LEMMA CacheBetween ==
    ASSUME NEW g \in Seq(R!Frame), NEW b \in Seq(Events), NEW place, Traces(place, b, g),
           NEW n \in 1..Len(g), Pushed(g[n]), \A i \in 1..Len(b) : b[i] # g[n].event
    PROVE  R!Cardinality(Between(g, n, Len(g) + 1)) >= CacheSize
<1>1. /\ place \in [1..Len(b) -> 1..Len(g)]
      /\ \A i, j \in 1..Len(b) : i < j => place[i] < place[j]
      /\ \A i \in 1..Len(b) : g[place[i]].event = b[i]
      BY DEF Traces
<1>2. Len(b) = CacheSize /\ \A i \in 1..Len(b) : n < place[i]
      BY DEF Traces
<1>3. Len(g) \in Nat /\ CacheSize \in Nat
      BY RealtimeParameters DEF R!CacheSizeAssumption
<1>4. \A i \in 1..Len(b) : b[i] \in Events
      OBVIOUS
<1>5. ASSUME NEW i \in 1..Len(b) PROVE place[i] \in Between(g, n, Len(g) + 1)
  <2>1. place[i] \in (n + 1)..((Len(g) + 1) - 1)
        BY <1>1, <1>2, <1>3
  <2>2. Pushed(g[place[i]])
        BY <1>1, <1>4, RealtimeParameters DEF Pushed, R!EventsAssumption
  <2> QED BY <2>1, <2>2 DEF Between
<1>6. \A i, j \in 1..Len(b) : place[i] = place[j] => i = j
  <2> SUFFICES ASSUME NEW i \in 1..Len(b), NEW j \in 1..Len(b), i < j
               PROVE  place[i] # place[j]
      OBVIOUS
  <2>1. place[i] \in Int /\ place[j] \in Int /\ place[i] < place[j]
        BY <1>1
  <2> QED BY <2>1
<1>7. place \in Injection(1..Len(b), Between(g, n, Len(g) + 1))
      BY <1>1, <1>5, <1>6 DEF Injection, IsInjective
<1>8. IsFiniteSet(Between(g, n, Len(g) + 1))
  <2>1. IsFiniteSet((n + 1)..((Len(g) + 1) - 1))
        BY <1>3, FS_Interval
  <2>2. Between(g, n, Len(g) + 1) \in SUBSET ((n + 1)..((Len(g) + 1) - 1))
        BY DEF Between
  <2> QED BY <2>1, <2>2, FS_Subset
<1>9. Cardinality(1..Len(b)) <= Cardinality(Between(g, n, Len(g) + 1))
      BY <1>7, <1>8, FS_Injection
<1>10. Cardinality(1..Len(b)) = CacheSize
      BY <1>2, <1>3, FS_Interval
<1> QED BY <1>9, <1>10, SameCount

LEMMA ApartOneMore ==
    ASSUME NEW g \in Seq(R!Frame), NEW f \in R!Frame, Apart(g),
           NEW b \in Seq(Events), Traced(b, g),
           Pushed(f) => \A i \in 1..Len(b) : b[i] # f.event
    PROVE  Apart(Append(g, f))
<1> DEFINE h == Append(g, f)
<1>1. /\ Len(h) = Len(g) + 1 /\ h[Len(g) + 1] = f /\ Len(g) \in Nat
      /\ \A i \in 1..Len(g) : h[i] = g[i]
      BY OneMore
<1> HIDE DEF h
<1>2. \A i \in Nat, j \in 1..(Len(g) + 1) : Between(h, i, j) = Between(g, i, j)
  <2> SUFFICES ASSUME NEW i \in Nat, NEW j \in 1..(Len(g) + 1)
               PROVE  Between(h, i, j) = Between(g, i, j)
      OBVIOUS
  <2>1. \A k \in (i + 1)..(j - 1) : k \in 1..Len(g) /\ h[k] = g[k]
        BY <1>1
  <2> QED BY <2>1 DEF Between
<1>3. ASSUME NEW i \in 1..Len(h), NEW j \in 1..Len(h),
             i < j, h[i].event = h[j].event, Pushed(h[i])
      PROVE  R!Cardinality(Between(h, i, j)) >= CacheSize
  <2>1. i \in 1..Len(g) /\ h[i] = g[i] /\ Pushed(g[i]) /\ i \in Nat
        BY <1>1, <1>3
  <2>2. CASE j \in 1..Len(g)
    <3>1. h[j] = g[j] /\ j \in 1..(Len(g) + 1)
          BY <1>1, <2>2
    <3>2. R!Cardinality(Between(g, i, j)) >= CacheSize
          BY <1>3, <2>1, <2>2, <3>1 DEF Apart
    <3> QED BY <1>2, <2>1, <3>1, <3>2
  <2>3. CASE j = Len(g) + 1
    <3>1. h[j] = f /\ Pushed(f) /\ g[i].event = f.event
          BY <1>1, <1>3, <2>1, <2>3 DEF Pushed
    <3>2. PICK place : Traces(place, b, g)
          BY DEF Traced
    <3>3. R!Cardinality(Between(g, i, Len(g) + 1)) >= CacheSize
          BY <2>1, <3>1, <3>2, CacheBetween
    <3>4. j \in 1..(Len(g) + 1)
          BY <1>1, <2>3
    <3>5. Between(h, i, j) = Between(g, i, Len(g) + 1)
          BY <1>2, <2>1, <2>3, <3>4
    <3> QED BY <3>3, <3>5
  <2> QED BY <1>1, <2>2, <2>3
<1> QED BY <1>3 DEF Apart, h

LEMMA LongerCache ==
    ASSUME NEW b \in Seq(Events), NEW event \in Events
    PROVE  Append(b, event) \in Seq(Events) /\ Tail(Append(b, event)) \in Seq(Events)
<1>1. Append(b, event) \in Seq(Events) /\ Len(Append(b, event)) = Len(b) + 1 /\ Len(b) \in Nat
      OBVIOUS
<1>2. Append(b, event) # <<>>
  <2> SUFFICES ASSUME Append(b, event) = <<>> PROVE FALSE
      OBVIOUS
  <2>1. Len(Append(b, event)) = 0
        OBVIOUS
  <2> QED BY <1>1, <2>1
<1> QED BY <1>1, <1>2, HeadTailProperties

(* One connection receives one frame, and its cache may go on with it.     *)
LEMMA SendSound ==
    ASSUME FramesInv, NEW c \in Connections, conn[c] \in {"none", "open"},
           NEW event \in Events \cup {"control"}, R!Send(c, event),
           event = "control" => UNCHANGED cache,
           event \in Events =>
               /\ cache' = [cache EXCEPT ![c] = R!Remember(c, event)]
               /\ \A i \in DOMAIN cache[c] : cache[c][i] # event,
           conn' = [conn EXCEPT ![c] = "open"],
           member' \subseteq Connections, subscribed' \subseteq Connections,
           handlers' \in [Connections -> Nat]
    PROVE  FramesInv'
<1> DEFINE g == frames[c]
           b == cache[c]
           f == [sequence |-> sequence[c] + 1, event |-> event]
<1>1. /\ g \in Seq(R!Frame) /\ b \in Seq(Events) /\ sequence[c] \in Nat
      BY DEF FramesInv, R!TypeOK
<1>2. sequence[c] = Len(g) /\ Traced(b, g) /\ Numbered(g) /\ Apart(g)
      BY DEF FramesInv, LiveInv
<1>3. f \in R!Frame /\ f.sequence = Len(g) + 1 /\ f.event = event
      BY <1>1, <1>2 DEF R!Frame, R!Control
<1>4. /\ frames'[c] = Append(g, f) /\ sequence'[c] = sequence[c] + 1
      /\ conn'[c] = "open"
      /\ \A d \in Connections : d # c => frames'[d] = frames[d]
            /\ sequence'[d] = sequence[d] /\ conn'[d] = conn[d]
      BY DEF R!Send, FramesInv, R!TypeOK
<1>5. /\ sequence' \in [Connections -> Nat]
      /\ conn' \in [Connections -> {"none", "open", "leaked", "closed"}]
      BY <1>1 DEF R!Send, FramesInv, R!TypeOK
<1>6. frames' \in [Connections -> Seq(R!Frame)]
  <2>1. Append(g, f) \in Seq(R!Frame)
        BY <1>1, <1>3, OneMore
  <2>2. frames' = [frames EXCEPT ![c] = Append(g, f)]
        BY DEF R!Send
  <2> QED BY <2>1, <2>2 DEF FramesInv, R!TypeOK
<1>7. CacheSize \in Nat \ {0} /\ "control" \notin Events
      BY RealtimeParameters DEF R!CacheSizeAssumption, R!EventsAssumption
<1>8. /\ cache' \in [Connections -> Seq(Events)]
      /\ \A d \in Connections : d # c => cache'[d] = cache[d]
      /\ event = "control" => cache'[c] = b
      /\ event \in Events => cache'[c] = R!Remember(c, event)
  <2>1. CASE event = "control"
        BY <1>7, <2>1 DEF FramesInv, R!TypeOK
  <2>2. CASE event \in Events
    <3>1. R!Remember(c, event) \in Seq(Events)
      <4>1. Append(b, event) \in Seq(Events) /\ Tail(Append(b, event)) \in Seq(Events)
            BY <1>1, <2>2, LongerCache
      <4> QED BY <4>1 DEF R!Remember
    <3> QED BY <1>7, <2>2, <3>1 DEF FramesInv, R!TypeOK
  <2> QED BY <2>1, <2>2
<1>9. R!TypeOK'
      BY <1>5, <1>6, <1>8 DEF R!TypeOK
<1> HIDE DEF f
<1>10. Len(Append(g, f)) = Len(g) + 1
      BY <1>1, <1>3, OneMore
<1>11. Traced(cache'[c], Append(g, f))
  <2>1. CASE event = "control"
    <3>1. ~ Pushed(f) /\ Len(b) \in Nat
          BY <1>1, <1>3, <2>1 DEF Pushed
    <3> QED BY <1>1, <1>2, <1>3, <1>8, <2>1, <3>1, TracedAnswer
  <2>2. CASE event \in Events
    <3>1. Len(b) \in Nat /\ Len(b) <= CacheSize /\ Len(Append(b, event)) = Len(b) + 1
          BY <1>1, <1>2, <2>2 DEF Traced
    <3>2. CASE Len(b) < CacheSize
      <4>1. cache'[c] = Append(b, event)
            BY <1>7, <1>8, <2>2, <3>1, <3>2 DEF R!Remember
      <4> QED BY <1>1, <1>2, <1>3, <1>7, <2>2, <3>2, <4>1, TracedPush
    <3>3. CASE Len(b) = CacheSize
      <4>1. cache'[c] = Tail(Append(b, event))
            BY <1>7, <1>8, <2>2, <3>1, <3>3 DEF R!Remember
      <4> QED BY <1>1, <1>2, <1>3, <1>7, <2>2, <3>3, <4>1, TracedDrop
    <3> QED BY <1>7, <3>1, <3>2, <3>3
  <2> QED BY <2>1, <2>2
<1>12. Numbered(Append(g, f))
      BY <1>1, <1>2, <1>3, NumberedOneMore
<1>13. Apart(Append(g, f))
  <2>1. Pushed(f) => \A i \in 1..Len(b) : b[i] # f.event
        BY <1>1, <1>3 DEF Pushed
  <2> QED BY <1>1, <1>2, <1>3, <2>1, ApartOneMore
<1>14. ASSUME NEW d \in Connections
       PROVE  /\ Numbered(frames'[d]) /\ Apart(frames'[d])
              /\ conn'[d] \in {"none", "open"} =>
                    sequence'[d] = Len(frames'[d]) /\ Traced(cache'[d], frames'[d])
  <2>1. CASE d = c
        BY <1>2, <1>4, <1>10, <1>11, <1>12, <1>13, <2>1
  <2>2. CASE d # c
        BY <1>4, <1>8, <2>2 DEF FramesInv, LiveInv
  <2> QED BY <2>1, <2>2
<1> HIDE DEF g, b
<1> QED BY <1>9, <1>14 DEF FramesInv, LiveInv, Numbered, Apart, Between, Pushed, Traced, Traces

(* Unless a frame is received, the frames of all and the caches and        *)
(* counters of the open connections stay.                                  *)
LEMMA NothingReceived ==
    ASSUME FramesInv, R!TypeOK', UNCHANGED frames,
           \A c \in Connections : conn'[c] \in {"none", "open"} =>
               /\ conn[c] \in {"none", "open"}
               /\ sequence'[c] = sequence[c] /\ cache'[c] = cache[c]
    PROVE  FramesInv'
<1>1. ASSUME NEW c \in Connections PROVE Numbered(frames'[c]) /\ Apart(frames'[c])
      BY DEF FramesInv
<1>2. ASSUME NEW c \in Connections, conn'[c] \in {"none", "open"}
      PROVE  sequence'[c] = Len(frames'[c]) /\ Traced(cache'[c], frames'[c])
  <2>1. sequence[c] = Len(frames[c]) /\ Traced(cache[c], frames[c])
        BY <1>2 DEF FramesInv, LiveInv
  <2>2. sequence'[c] = sequence[c] /\ cache'[c] = cache[c] /\ frames'[c] = frames[c]
        BY <1>2
  <2> QED BY <2>1, <2>2
<1> QED BY <1>1, <1>2 DEF FramesInv, LiveInv, Numbered, Apart, Between, Pushed, Traced, Traces

LEMMA FramesInvStep == ASSUME FramesInv, [R!Next]_rvars PROVE FramesInv'
<1> USE DEF R!Control
<1>1. R!TypeOK
      BY DEF FramesInv
<1>2. ASSUME NEW c \in Connections, conn[c] = "open" PROVE conn = [conn EXCEPT ![c] = "open"]
      BY <1>1, <1>2 DEF R!TypeOK
<1>3. ASSUME NEW c \in Connections, R!Connect(c) PROVE FramesInv'
  <2>1. CASE conn' = [conn EXCEPT ![c] = "open"] /\ R!Send(c, "control")
        BY <1>1, <1>3, <2>1, SendSound, RealtimeParameters
           DEF R!Connect, R!EventsAssumption, R!TypeOK
  <2>2. CASE conn' = [conn EXCEPT ![c] = "leaked"] /\ UNCHANGED <<sequence, frames>>
    <3>1. R!TypeOK'
          BY <1>1, <1>3, <2>2 DEF R!Connect, R!TypeOK
    <3>2. \A d \in Connections : conn'[d] \in {"none", "open"} => conn'[d] = conn[d]
          BY <1>1, <2>2 DEF R!TypeOK
    <3> QED BY <1>3, <2>2, <3>1, <3>2, NothingReceived DEF R!Connect
  <2> QED BY <1>3, <2>1, <2>2 DEF R!Connect
<1>4. ASSUME NEW c \in Connections, R!Disconnect(c) PROVE FramesInv'
  <2>1. R!TypeOK'
        BY <1>1, <1>4 DEF R!Disconnect, R!TypeOK
  <2>2. \A d \in Connections : conn'[d] \in {"none", "open"} => conn'[d] = conn[d]
        BY <1>1, <1>4 DEF R!Disconnect, R!TypeOK
  <2> QED BY <1>4, <2>1, <2>2, NothingReceived DEF R!Disconnect
<1>5. ASSUME NEW c \in Connections, R!ChangeMember(c) PROVE FramesInv'
  <2>1. R!TypeOK'
        BY <1>1, <1>5 DEF R!ChangeMember, R!TypeOK
  <2> QED BY <1>5, <2>1, NothingReceived DEF R!ChangeMember
<1>6. ASSUME NEW c \in Connections, R!HandleSubscribe(c) PROVE FramesInv'
  <2>1. /\ conn[c] = "open" /\ R!Send(c, "control") /\ UNCHANGED <<conn, member, cache>>
        BY <1>6 DEF R!HandleSubscribe, R!Receives
  <2>2. subscribed' \subseteq Connections
        BY <1>1, <1>6 DEF R!HandleSubscribe, R!TypeOK
  <2>3. handlers' \in [Connections -> Nat]
    <3>1. handlers[c] + 1 \in Nat /\ handlers \in [Connections -> Nat]
          BY <1>1 DEF R!TypeOK
    <3>2. handlers' = handlers \/ handlers' = [handlers EXCEPT ![c] = handlers[c] + 1]
          BY <1>6 DEF R!HandleSubscribe
    <3> QED BY <3>1, <3>2
  <2> QED BY <1>1, <1>2, <2>1, <2>2, <2>3, SendSound, RealtimeParameters
          DEF R!EventsAssumption, R!TypeOK
<1>7. ASSUME NEW c \in Connections, R!HandleUnsubscribe(c) PROVE FramesInv'
  <2>1. /\ conn[c] = "open" /\ R!Send(c, "control")
        /\ UNCHANGED <<conn, member, handlers, cache>>
        BY <1>7 DEF R!HandleUnsubscribe, R!Receives
  <2>2. subscribed' \subseteq Connections
        BY <1>1, <1>7 DEF R!HandleUnsubscribe, R!TypeOK
  <2> QED BY <1>1, <1>2, <2>1, <2>2, SendSound, RealtimeParameters
          DEF R!EventsAssumption, R!TypeOK
<1>8. ASSUME NEW c \in Connections, R!HandlePing(c) PROVE FramesInv'
  <2>1. /\ conn[c] = "open" /\ R!Send(c, "control")
        /\ UNCHANGED <<conn, member, subscribed, handlers, cache>>
        BY <1>8 DEF R!HandlePing, R!Receives
  <2> QED BY <1>1, <1>2, <2>1, SendSound, RealtimeParameters
          DEF R!EventsAssumption, R!TypeOK
<1>9. ASSUME NEW c \in Connections, NEW event \in Events, R!SendEvent(c, event)
      PROVE  FramesInv'
  <2>1. /\ conn[c] = "open" /\ UNCHANGED <<member, handlers>>
        /\ cache' = [cache EXCEPT ![c] = R!Remember(c, event)]
        /\ \A i \in DOMAIN cache[c] : cache[c][i] # event
        BY <1>9 DEF R!SendEvent, R!Receives
  <2>2. CASE R!Send(c, event) /\ UNCHANGED <<conn, subscribed>>
        BY <1>1, <1>2, <2>1, <2>2, SendSound, RealtimeParameters
           DEF R!EventsAssumption, R!TypeOK
  <2>3. CASE /\ sequence' = [sequence EXCEPT ![c] = @ + 1]
             /\ conn' = [conn EXCEPT ![c] = "closed"]
             /\ subscribed' = subscribed \ {c}
             /\ UNCHANGED frames
    <3>1. R!Remember(c, event) \in Seq(Events)
      <4>1. cache[c] \in Seq(Events)
            BY <1>1 DEF R!TypeOK
      <4>2. /\ Append(cache[c], event) \in Seq(Events)
            /\ Tail(Append(cache[c], event)) \in Seq(Events)
            BY <4>1, LongerCache
      <4> QED BY <4>2 DEF R!Remember
    <3>2. R!TypeOK'
          BY <1>1, <2>1, <2>3, <3>1 DEF R!TypeOK
    <3>3. \A d \in Connections : conn'[d] \in {"none", "open"} =>
             conn'[d] = conn[d] /\ sequence'[d] = sequence[d] /\ cache'[d] = cache[d]
          BY <1>1, <2>1, <2>3 DEF R!TypeOK
    <3> QED BY <2>3, <3>2, <3>3, NothingReceived
  <2> QED BY <1>9, <2>2, <2>3 DEF R!SendEvent
<1>10. CASE UNCHANGED rvars
  <2>1. R!TypeOK'
        BY <1>1, <1>10 DEF rvars, R!TypeOK
  <2> QED BY <1>10, <2>1, NothingReceived DEF rvars
<1> QED BY <1>3, <1>4, <1>5, <1>6, <1>7, <1>8, <1>9, <1>10 DEF R!Next

(* With any number of connections, whatever mixture of answers, errors and *)
(* pushes, the frames of each are numbered 1, 2, 3, ... and an event comes *)
(* twice only with a whole cache of others in between                      *)
(* (connection_manager.py: next_sequence, EventDedupCache).                *)
THEOREM FramesComeInOrder == PlatformSpec => []FramesInOrder
<1>1. PlatformInit => FramesInv
  <2> SUFFICES ASSUME R!Init PROVE FramesInv
      BY DEF PlatformInit
  <2>1. R!TypeOK
        BY DEF R!Init, R!TypeOK
  <2>2. ASSUME NEW c \in Connections PROVE sequence[c] = Len(frames[c]) /\ Traced(cache[c], frames[c])
    <3>1. sequence[c] = 0 /\ frames[c] = <<>> /\ cache[c] = <<>>
          BY DEF R!Init
    <3>2. [i \in 1..0 |-> i] \in [1..0 -> 1..0]
          OBVIOUS
    <3>3. Traces([i \in 1..0 |-> i], cache[c], frames[c])
          BY <3>1, <3>2 DEF Traces
    <3> QED BY <3>1, <3>3, RealtimeParameters DEF Traced, R!CacheSizeAssumption
  <2>3. \A c \in Connections : Numbered(frames[c]) /\ Apart(frames[c])
        BY DEF R!Init, Numbered, Apart
  <2> QED BY <2>1, <2>2, <2>3 DEF FramesInv, LiveInv
<1>2. FramesInv /\ [PlatformNext]_platformVars => FramesInv'
  <2>1. [PlatformNext]_platformVars => [R!Next]_rvars
        BY DEF PlatformNext, GatewayStep, NodeStep, RealtimeStep, platformVars, rvars
  <2> QED BY <2>1, FramesInvStep
<1>3. FramesInv => FramesInOrder
  <2> SUFFICES ASSUME FramesInv PROVE FramesInOrder
      OBVIOUS
  <2>1. \A c \in Connections : DOMAIN frames[c] = 1..Len(frames[c])
        BY DEF FramesInv, R!TypeOK
  <2>2. R!NumberedFromOne
        BY <2>1 DEF FramesInv, Numbered, R!NumberedFromOne
  <2>3. R!DeliveredOnce
        BY <2>1 DEF FramesInv, Apart, Between, Pushed, R!DeliveredOnce, R!Control
  <2> QED BY <2>2, <2>3 DEF FramesInv, FramesInOrder
<1> QED BY <1>1, <1>2, <1>3, PTL DEF PlatformSpec

(***************************************************************************)
(* The health of a node                                                    *)
(*                                                                         *)
(* The streak that NoProbeWhileCooling speaks of is the breaker's own      *)
(* count; a full one leaves it open, or half open once it has cooled down. *)
(***************************************************************************)
BreakerInv(p) ==
    LET b == breaker[p] IN
    /\ streak[p] = b.failures
    /\ b.failures = Threshold => b.state # "CLOSED"
    /\ b.state = "HALF_OPEN" => b.age = Recovery
    /\ check[p] = "probe" => b.state # "OPEN"
    /\ check[p] \in N!Health /\ b.state = "OPEN" => check[p] = "OFFLINE"

NodeInv == N!TypeOK /\ \A p \in Processes : BreakerInv(p)

(* In turn, only the first process has a check under way or a breaker that *)
(* is not closed, and the node is not deleted while it checks.             *)
NodeTurn ==
    turn =>
        /\ \A p \in Processes : p # "first" => check[p] = "idle" /\ breaker[p].state = "CLOSED"
        /\ \A p \in Processes : check[p] # "idle" => ~ row.deleted
        /\ \A p \in Processes :
              check[p] = "idle" /\ breaker[p].state = "OPEN" => row.health = "OFFLINE"
        /\ row.deleted => row.status = "deleted"

LEMMA BreakerTypes ==
    ASSUME NEW b \in N!Breaker
    PROVE  /\ N!Looked(b) \in N!Breaker
           /\ N!Looked(b).failures = b.failures /\ N!Looked(b).age = b.age
           /\ N!Looked(b).state =
                 IF b.state = "OPEN" /\ b.age >= Recovery THEN "HALF_OPEN" ELSE b.state
           /\ N!RecordSuccess(b) = N!Closed /\ N!Closed \in N!Breaker
           /\ N!RecordFailure(b) \in N!Breaker
           /\ N!RecordFailure(b).age = 0
           /\ N!RecordFailure(b).failures =
                 IF b.failures = Threshold THEN Threshold ELSE b.failures + 1
           /\ N!RecordFailure(b).state =
                 IF b.state = "HALF_OPEN" \/ b.failures + 1 >= Threshold THEN "OPEN" ELSE b.state
<1>1. /\ b.failures \in 0..Threshold /\ b.age \in 0..Recovery
      /\ b.state \in {"CLOSED", "OPEN", "HALF_OPEN"}
      /\ Threshold \in Nat \ {0} /\ Recovery \in Nat \ {0}
      BY NodeParameters DEF N!Breaker, N!LimitsAssumption
<1>2. N!Closed \in N!Breaker
      BY <1>1 DEF N!Closed, N!Breaker
<1>3. /\ N!Looked(b) \in N!Breaker
      /\ N!Looked(b).failures = b.failures /\ N!Looked(b).age = b.age
      /\ N!Looked(b).state =
            IF b.state = "OPEN" /\ b.age >= Recovery THEN "HALF_OPEN" ELSE b.state
      BY <1>1 DEF N!Looked, N!Breaker
<1>4. /\ N!RecordFailure(b) \in N!Breaker /\ N!RecordFailure(b).age = 0
      /\ N!RecordFailure(b).failures =
            IF b.failures = Threshold THEN Threshold ELSE b.failures + 1
      /\ N!RecordFailure(b).state =
            IF b.state = "HALF_OPEN" \/ b.failures + 1 >= Threshold THEN "OPEN" ELSE b.state
      BY <1>1 DEF N!RecordFailure, N!Breaker
<1> QED BY <1>2, <1>3, <1>4 DEF N!RecordSuccess

LEMMA NodeInitial ==
    ASSUME N!Init, turn \in BOOLEAN PROVE NodeInv /\ NodeTurn
<1>1. Threshold \in Nat \ {0} /\ Recovery \in Nat \ {0}
      BY NodeParameters DEF N!LimitsAssumption
<1>2. N!Closed = [state |-> "CLOSED", failures |-> 0, age |-> 0] /\ N!Closed \in N!Breaker
      BY <1>1 DEF N!Closed, N!Breaker
<1>3. N!TypeOK
      BY <1>1, <1>2 DEF N!Init, N!TypeOK, N!Row, N!Status, N!Health
<1>4. \A p \in Processes : BreakerInv(p)
      BY <1>1, <1>2 DEF N!Init, BreakerInv, N!Health
<1>5. NodeTurn
      BY <1>2 DEF N!Init, NodeTurn
<1> QED BY <1>3, <1>4, <1>5 DEF NodeInv

(* A step that leaves the breakers and the checks. *)
LEMMA RowStep ==
    ASSUME NodeInv, N!TypeOK', UNCHANGED <<breaker, streak, check>> PROVE NodeInv'
BY DEF NodeInv, BreakerInv, N!Health

(* A step of one process. *)
Moves(p, b, n, k) ==
    /\ b \in N!Breaker /\ n \in 0..Threshold /\ n = b.failures
    /\ k \in N!Health \cup {"idle", "probe"}
    /\ row' \in N!Row /\ node_up' \in BOOLEAN
    /\ breaker' = [breaker EXCEPT ![p] = b]
    /\ streak' = [streak EXCEPT ![p] = n]
    /\ check' = [check EXCEPT ![p] = k]
    /\ b.failures = Threshold => b.state # "CLOSED"
    /\ b.state = "HALF_OPEN" => b.age = Recovery
    /\ k = "probe" => b.state # "OPEN"
    /\ k \in N!Health /\ b.state = "OPEN" => k = "OFFLINE"

LEMMA ProcessStep ==
    ASSUME NodeInv, NEW p \in Processes, NEW b, NEW n, NEW k, Moves(p, b, n, k)
    PROVE  NodeInv' /\ breaker'[p] = b /\ check'[p] = k
<1>1. N!TypeOK' /\ breaker'[p] = b /\ check'[p] = k /\ streak'[p] = n
      BY DEF Moves, NodeInv, N!TypeOK
<1>2. \A d \in Processes : d # p => breaker'[d] = breaker[d] /\ check'[d] = check[d]
                                     /\ streak'[d] = streak[d]
      BY DEF Moves, NodeInv, N!TypeOK
<1>3. ASSUME NEW d \in Processes PROVE BreakerInv(d)'
  <2>1. CASE d = p
        BY <1>1, <2>1 DEF Moves, BreakerInv, N!Health
  <2>2. CASE d # p
        BY <1>2, <2>2 DEF NodeInv, BreakerInv, N!Health
  <2> QED BY <2>1, <2>2
<1> QED BY <1>1, <1>3 DEF NodeInv

(* What each action of a process makes of its breaker and its check. *)
LEMMA StartCheckSound ==
    ASSUME NodeInv, NEW p \in Processes, N!StartCheck(p)
    PROVE  /\ NodeInv' /\ check'[p] # "idle" /\ ~ row.deleted
           /\ \A d \in Processes : d # p => breaker'[d] = breaker[d] /\ check'[d] = check[d]
<1> DEFINE b == breaker[p]
           k == IF N!AllowRequest(breaker[p]) THEN "probe" ELSE "OFFLINE"
<1>1. b \in N!Breaker /\ streak[p] \in 0..Threshold
      BY DEF NodeInv, N!TypeOK
<1>2. /\ streak[p] = b.failures
      /\ b.failures = Threshold => b.state # "CLOSED"
      /\ b.state = "HALF_OPEN" => b.age = Recovery
      BY DEF NodeInv, BreakerInv
<1>3. /\ N!Looked(b) \in N!Breaker
      /\ N!Looked(b).failures = b.failures /\ N!Looked(b).age = b.age
      /\ N!Looked(b).state =
            IF b.state = "OPEN" /\ b.age >= Recovery THEN "HALF_OPEN" ELSE b.state
      BY <1>1, BreakerTypes
<1>4. b.age \in 0..Recovery /\ Recovery \in Nat
      BY <1>1, NodeParameters DEF N!Breaker, N!LimitsAssumption
<1>5. N!Looked(b).state = "HALF_OPEN" => N!Looked(b).age = Recovery
      BY <1>2, <1>3, <1>4
<1>6. k = "probe" => N!Looked(b).state # "OPEN"
      BY DEF N!AllowRequest
<1>7. k \in {"probe", "OFFLINE"}
      OBVIOUS
<1>8. /\ breaker' = [breaker EXCEPT ![p] = N!Looked(b)]
      /\ check' = [check EXCEPT ![p] = k]
      /\ UNCHANGED <<row, node_up, streak>> /\ ~ row.deleted
      BY DEF N!StartCheck, N!Free
<1>9. streak' = [streak EXCEPT ![p] = streak[p]]
      BY <1>8 DEF NodeInv, N!TypeOK
<1>10. row' \in N!Row /\ node_up' \in BOOLEAN
      BY <1>8 DEF NodeInv, N!TypeOK
<1>11. N!Looked(b).failures = Threshold => N!Looked(b).state # "CLOSED"
      BY <1>2, <1>3
<1> HIDE DEF k, b
<1>12. k \in N!Health \cup {"idle", "probe"} /\ k # "idle"
      BY <1>7 DEF N!Health
<1> DEFINE looked == N!Looked(b)
           n == streak[p]
<1>13. Moves(p, looked, n, k)
      BY <1>1, <1>2, <1>3, <1>5, <1>6, <1>7, <1>8, <1>9, <1>10, <1>11, <1>12
         DEF Moves, N!Health
<1> HIDE DEF looked, n
<1>14. NodeInv' /\ check'[p] = k
      BY <1>13, ProcessStep
<1> QED BY <1>8, <1>12, <1>13, <1>14 DEF NodeInv, N!TypeOK

LEMMA ProbeSound ==
    ASSUME NodeInv, NEW p \in Processes, N!Probe(p)
    PROVE  /\ NodeInv' /\ check[p] # "idle" /\ check'[p] # "idle" /\ UNCHANGED row
           /\ \A d \in Processes : d # p => breaker'[d] = breaker[d] /\ check'[d] = check[d]
<1> DEFINE b == breaker[p]
           c == IF node_up THEN N!RecordSuccess(b) ELSE N!RecordFailure(b)
           k == IF node_up THEN "ONLINE" ELSE IF c.state = "OPEN" THEN "OFFLINE" ELSE "DEGRADED"
           n == IF node_up THEN 0 ELSE IF streak[p] = Threshold THEN Threshold ELSE streak[p] + 1
<1>1. b \in N!Breaker /\ streak[p] \in 0..Threshold /\ node_up \in BOOLEAN
      BY DEF NodeInv, N!TypeOK
<1>2. streak[p] = b.failures /\ Threshold \in Nat \ {0}
      BY NodeParameters DEF NodeInv, BreakerInv, N!LimitsAssumption
<1>3. /\ N!RecordSuccess(b) = N!Closed /\ N!Closed \in N!Breaker
      /\ N!RecordFailure(b) \in N!Breaker
      /\ N!RecordFailure(b).failures =
            IF b.failures = Threshold THEN Threshold ELSE b.failures + 1
      /\ N!RecordFailure(b).state =
            IF b.state = "HALF_OPEN" \/ b.failures + 1 >= Threshold THEN "OPEN" ELSE b.state
      BY <1>1, BreakerTypes
<1>4. N!Closed.failures = 0 /\ N!Closed.state = "CLOSED"
      BY DEF N!Closed
<1>5. c \in N!Breaker /\ n \in 0..Threshold /\ n = c.failures
      BY <1>1, <1>2, <1>3, <1>4
<1>6. c.failures = Threshold => c.state # "CLOSED"
      BY <1>1, <1>2, <1>3, <1>4
<1>7. c.state # "HALF_OPEN" /\ (k \in N!Health /\ c.state = "OPEN" => k = "OFFLINE")
      BY <1>1, <1>3, <1>4
<1>8. k \in {"ONLINE", "OFFLINE", "DEGRADED"}
      OBVIOUS
<1>9. /\ breaker' = [breaker EXCEPT ![p] = c] /\ streak' = [streak EXCEPT ![p] = n]
      /\ UNCHANGED <<row, node_up>> /\ check[p] = "probe"
      BY DEF N!Probe
<1>10. breaker'[p] = c
      BY <1>9 DEF NodeInv, N!TypeOK
<1>11. check' = [check EXCEPT ![p] = k]
      BY <1>10 DEF N!Probe
<1>12. row' \in N!Row /\ node_up' \in BOOLEAN
      BY <1>9 DEF NodeInv, N!TypeOK
<1> HIDE DEF b, c, k, n
<1>13. k \in N!Health \cup {"idle", "probe"} /\ k \notin {"idle", "probe"}
      BY <1>8 DEF N!Health
<1>14. Moves(p, c, n, k)
      BY <1>5, <1>6, <1>7, <1>9, <1>11, <1>12, <1>13 DEF Moves
<1>15. NodeInv' /\ check'[p] = k
      BY <1>14, ProcessStep
<1> QED BY <1>9, <1>11, <1>13, <1>15 DEF NodeInv, N!TypeOK

LEMMA SaveCheckSound ==
    ASSUME NodeInv, NEW p \in Processes, N!SaveCheck(p)
    PROVE  /\ NodeInv' /\ check'[p] = "idle" /\ check[p] \in N!Health
           /\ breaker' = breaker
           /\ row'.health = check[p] /\ row'.deleted = row.deleted
           /\ \A d \in Processes : d # p => check'[d] = check[d]
<1>1. /\ check[p] \in N!Health /\ row \in N!Row
      /\ row' = [row EXCEPT !.health = check[p], !.status = N!Mapped(check[p])]
      /\ check' = [check EXCEPT ![p] = "idle"] /\ UNCHANGED <<node_up, breaker, streak>>
      BY DEF N!SaveCheck, NodeInv, N!TypeOK
<1>2. N!Mapped(check[p]) \in N!Status
      BY <1>1 DEF N!Mapped, N!Health, N!Status
<1>3. row' \in N!Row /\ row'.health = check[p] /\ row'.deleted = row.deleted
      BY <1>1, <1>2 DEF N!Row
<1>4. /\ breaker' = [breaker EXCEPT ![p] = breaker[p]]
      /\ streak' = [streak EXCEPT ![p] = streak[p]]
      /\ breaker[p] \in N!Breaker /\ streak[p] \in 0..Threshold /\ node_up' \in BOOLEAN
      BY <1>1 DEF NodeInv, N!TypeOK
<1>5. /\ streak[p] = breaker[p].failures
      /\ breaker[p].failures = Threshold => breaker[p].state # "CLOSED"
      /\ breaker[p].state = "HALF_OPEN" => breaker[p].age = Recovery
      BY DEF NodeInv, BreakerInv
<1>6. "idle" \in N!Health \cup {"idle", "probe"} /\ "idle" \notin N!Health
      BY DEF N!Health
<1> DEFINE b == breaker[p]
           n == streak[p]
           k == "idle"
<1>7. /\ b \in N!Breaker /\ n \in 0..Threshold /\ n = b.failures
      /\ b.failures = Threshold => b.state # "CLOSED"
      /\ b.state = "HALF_OPEN" => b.age = Recovery
      /\ breaker' = [breaker EXCEPT ![p] = b] /\ streak' = [streak EXCEPT ![p] = n]
      /\ check' = [check EXCEPT ![p] = k]
      BY <1>1, <1>4, <1>5
<1>8. k # "probe" /\ k \notin N!Health /\ k \in N!Health \cup {"idle", "probe"}
      BY <1>6
<1> HIDE DEF b, n, k
<1>9. row' \in N!Row /\ node_up' \in BOOLEAN
      BY <1>3, <1>4
<1>10. Moves(p, b, n, k)
      BY <1>7, <1>8, <1>9 DEF Moves
<1>11. NodeInv' /\ check'[p] = k
      BY <1>10, ProcessStep
<1>12. NodeInv' /\ check'[p] = "idle"
      BY <1>11 DEF k
<1> QED BY <1>1, <1>3, <1>12 DEF NodeInv, N!TypeOK

LEMMA RestartSound ==
    ASSUME NodeInv, NEW p \in Processes, N!Restart(p)
    PROVE  /\ NodeInv' /\ check'[p] = "idle" /\ breaker'[p].state = "CLOSED" /\ UNCHANGED row
           /\ \A d \in Processes : d # p => breaker'[d] = breaker[d] /\ check'[d] = check[d]
<1>1. /\ breaker' = [breaker EXCEPT ![p] = N!Closed] /\ streak' = [streak EXCEPT ![p] = 0]
      /\ check' = [check EXCEPT ![p] = "idle"] /\ UNCHANGED <<row, node_up>>
      BY DEF N!Restart
<1>2. /\ N!Closed \in N!Breaker /\ N!Closed.state = "CLOSED" /\ N!Closed.failures = 0
      /\ Threshold \in Nat \ {0} /\ 0 \in 0..Threshold
      BY NodeParameters DEF N!Closed, N!Breaker, N!LimitsAssumption
<1>3. "idle" \in N!Health \cup {"idle", "probe"} /\ "idle" \notin N!Health
      BY DEF N!Health
<1>4. row' \in N!Row /\ node_up' \in BOOLEAN
      BY <1>1 DEF NodeInv, N!TypeOK
<1>5. N!Closed.failures # Threshold
      BY <1>2
<1>6. Moves(p, N!Closed, 0, "idle")
      BY <1>1, <1>2, <1>3, <1>4, <1>5 DEF Moves
<1>7. NodeInv' /\ breaker'[p] = N!Closed /\ check'[p] = "idle"
      BY <1>6, ProcessStep
<1> QED BY <1>1, <1>2, <1>7 DEF NodeInv, N!TypeOK

LEMMA TickSound ==
    ASSUME NodeInv, N!Tick
    PROVE  /\ NodeInv' /\ UNCHANGED <<row, check>>
           /\ \A p \in Processes : breaker'[p].state = breaker[p].state
<1>1. /\ breaker' = [p \in Processes |->
                      [breaker[p] EXCEPT !.age = IF @ < Recovery THEN @ + 1 ELSE @]]
      /\ UNCHANGED <<row, node_up, streak, check>>
      BY DEF N!Tick
<1>2. Recovery \in Nat
      BY NodeParameters DEF N!LimitsAssumption
<1>3. ASSUME NEW p \in Processes
      PROVE  /\ breaker'[p] \in N!Breaker
             /\ breaker'[p].state = breaker[p].state /\ breaker'[p].failures = breaker[p].failures
             /\ breaker[p].age = Recovery => breaker'[p].age = Recovery
  <2>1. breaker[p] \in N!Breaker /\ breaker[p].age \in 0..Recovery
        BY DEF NodeInv, N!TypeOK, N!Breaker
  <2>2. breaker'[p] = [breaker[p] EXCEPT !.age =
                          IF breaker[p].age < Recovery THEN breaker[p].age + 1
                          ELSE breaker[p].age]
        BY <1>1
  <2>3. (IF breaker[p].age < Recovery THEN breaker[p].age + 1 ELSE breaker[p].age)
           \in 0..Recovery
        BY <1>2, <2>1
  <2> QED BY <1>2, <2>1, <2>2, <2>3 DEF N!Breaker
<1>4. breaker' \in [Processes -> N!Breaker]
      BY <1>1, <1>3
<1>5. N!TypeOK'
      BY <1>1, <1>4 DEF NodeInv, N!TypeOK
<1>6. \A p \in Processes : BreakerInv(p)'
      BY <1>1, <1>3 DEF NodeInv, BreakerInv
<1> QED BY <1>1, <1>3, <1>5, <1>6 DEF NodeInv

(* A step of the component keeps both invariants. *)
LEMMA NodeInvStep ==
    ASSUME NodeInv, NodeTurn, N!Next, InTurn, UNCHANGED turn
    PROVE  NodeInv' /\ NodeTurn' /\ (row.deleted => row'.deleted)
<1>1. row \in N!Row
      BY DEF NodeInv, N!TypeOK
<1>2. ASSUME turn
      PROVE  /\ \A p \in Processes :
                   p # "first" => check[p] = "idle" /\ breaker[p].state = "CLOSED"
             /\ \A p \in Processes : check[p] # "idle" => ~ row.deleted
             /\ \A p \in Processes :
                   check[p] = "idle" /\ breaker[p].state = "OPEN" => row.health = "OFFLINE"
             /\ row.deleted => row.status = "deleted"
             /\ \A p \in Processes : p # "first" => check'[p] = "idle"
             /\ check["first"] = "idle" \/ check'["first"] = "idle" \/ row' = row
      BY <1>2 DEF NodeTurn, InTurn
<1>3. ASSUME UNCHANGED <<breaker, streak, check, node_up>>, row' \in N!Row,
             row'.health = row.health, row'.deleted => row'.status = "deleted",
             row.deleted => row'.deleted
      PROVE  NodeInv' /\ NodeTurn' /\ (row.deleted => row'.deleted)
  <2>1. NodeInv'
        BY <1>3, RowStep DEF NodeInv, N!TypeOK
  <2>2. NodeTurn'
    <3> SUFFICES ASSUME turn PROVE NodeTurn'
        BY DEF NodeTurn
    <3>1. ASSUME NEW p \in Processes, check[p] # "idle" PROVE ~ row'.deleted
          BY <1>2, <1>3, <3>1
    <3> QED BY <1>2, <1>3, <3>1 DEF NodeTurn
  <2> QED BY <1>3, <2>1, <2>2
<1>4. ASSUME NEW p \in Processes, NEW status \in N!Status, N!UpdateNode(p, status)
      PROVE  NodeInv' /\ NodeTurn' /\ (row.deleted => row'.deleted)
      BY <1>1, <1>3, <1>4 DEF N!UpdateNode, N!Free, N!Row
<1>5. ASSUME NEW p \in Processes, N!DeleteNode(p)
      PROVE  NodeInv' /\ NodeTurn' /\ (row.deleted => row'.deleted)
      BY <1>1, <1>3, <1>5 DEF N!DeleteNode, N!Free, N!Row, N!Status
<1>6. ASSUME NEW p \in Processes, N!StartCheck(p)
      PROVE  NodeInv' /\ NodeTurn' /\ (row.deleted => row'.deleted)
  <2>1. /\ NodeInv' /\ check'[p] # "idle" /\ ~ row.deleted
        /\ \A d \in Processes : d # p => breaker'[d] = breaker[d] /\ check'[d] = check[d]
        BY <1>6, StartCheckSound
  <2>2. row' = row
        BY <1>6 DEF N!StartCheck
  <2>3. turn => p = "first"
        BY <1>2, <2>1
  <2>4. NodeTurn'
        BY <1>2, <2>1, <2>2, <2>3 DEF NodeTurn
  <2> QED BY <2>1, <2>2, <2>4
<1>7. ASSUME NEW p \in Processes, N!Probe(p)
      PROVE  NodeInv' /\ NodeTurn' /\ (row.deleted => row'.deleted)
  <2>1. /\ NodeInv' /\ check[p] # "idle" /\ check'[p] # "idle" /\ UNCHANGED row
        /\ \A d \in Processes : d # p => breaker'[d] = breaker[d] /\ check'[d] = check[d]
        BY <1>7, ProbeSound
  <2>2. NodeTurn'
        BY <1>2, <2>1 DEF NodeTurn
  <2> QED BY <2>1, <2>2
<1>8. ASSUME NEW p \in Processes, N!SaveCheck(p)
      PROVE  NodeInv' /\ NodeTurn' /\ (row.deleted => row'.deleted)
  <2>1. /\ NodeInv' /\ check'[p] = "idle" /\ check[p] \in N!Health
        /\ breaker' = breaker
        /\ row'.health = check[p] /\ row'.deleted = row.deleted
        /\ \A d \in Processes : d # p => check'[d] = check[d]
        BY <1>8, SaveCheckSound
  <2>2. check[p] # "idle" /\ (breaker[p].state = "OPEN" => check[p] = "OFFLINE")
        BY <2>1 DEF NodeInv, BreakerInv, N!Health
  <2>3. row.deleted \in BOOLEAN
        BY <1>1 DEF N!Row
  <2>4. NodeTurn'
    <3> SUFFICES ASSUME turn PROVE NodeTurn'
        BY DEF NodeTurn
    <3>1. p = "first" /\ ~ row.deleted
          BY <1>2, <2>2
    <3> QED BY <1>2, <2>1, <2>2, <3>1 DEF NodeTurn
  <2> QED BY <2>1, <2>4
<1>9. ASSUME NEW p \in Processes, N!Restart(p)
      PROVE  NodeInv' /\ NodeTurn' /\ (row.deleted => row'.deleted)
  <2>1. /\ NodeInv' /\ check'[p] = "idle" /\ breaker'[p].state = "CLOSED" /\ UNCHANGED row
        /\ \A d \in Processes : d # p => breaker'[d] = breaker[d] /\ check'[d] = check[d]
        BY <1>9, RestartSound
  <2>2. NodeTurn'
        BY <1>2, <2>1 DEF NodeTurn
  <2> QED BY <2>1, <2>2
<1>10. CASE N!Tick
  <2>1. /\ NodeInv' /\ UNCHANGED <<row, check>>
        /\ \A p \in Processes : breaker'[p].state = breaker[p].state
        BY <1>10, TickSound
  <2>2. NodeTurn'
        BY <1>2, <2>1 DEF NodeTurn
  <2> QED BY <2>1, <2>2
<1>11. CASE N!ChangeUp
  <2>1. /\ UNCHANGED <<row, breaker, streak, check>> /\ node_up' \in BOOLEAN
        BY <1>11 DEF N!ChangeUp, NodeInv, N!TypeOK
  <2>2. NodeInv'
        BY <2>1, RowStep DEF NodeInv, N!TypeOK
  <2>3. NodeTurn'
        BY <2>1 DEF NodeTurn
  <2> QED BY <2>1, <2>2, <2>3
<1> QED BY <1>4, <1>5, <1>6, <1>7, <1>8, <1>9, <1>10, <1>11 DEF N!Next

(* With any number of processes, none probes a node that is cooling down   *)
(* and no check brings a deleted node back; and when one process checks in *)
(* turn, what administrators read agrees with its breaker                  *)
(* (modules/nodes/service.py, health.py).                                  *)
THEOREM NodesAreSound == PlatformSpec => NodeSound
<1>1. PlatformInit => NodeInv /\ NodeTurn
      BY NodeInitial DEF PlatformInit
<1>2. NodeInv /\ NodeTurn /\ [PlatformNext]_platformVars
         => NodeInv' /\ NodeTurn' /\ [row.deleted => row'.deleted]_N!vars
  <2> SUFFICES ASSUME NodeInv, NodeTurn, [PlatformNext]_platformVars
               PROVE  NodeInv' /\ NodeTurn' /\ [row.deleted => row'.deleted]_N!vars
      OBVIOUS
  <2>1. CASE NodeStep(N!Next)
        BY <2>1, NodeInvStep DEF NodeStep
  <2>2. CASE UNCHANGED <<turn, nvars>>
    <3>1. UNCHANGED <<turn, row, node_up, breaker, streak, check>>
          BY <2>2 DEF nvars
    <3>2. NodeInv'
          BY <3>1, RowStep DEF NodeInv, N!TypeOK
    <3>3. NodeTurn'
          BY <3>1 DEF NodeTurn
    <3> QED BY <3>1, <3>2, <3>3 DEF N!vars
  <2> QED BY <2>1, <2>2 DEF PlatformNext, GatewayStep, RealtimeStep, platformVars
<1>3. NodeInv /\ NodeTurn => N!TypeOK /\ N!NoProbeWhileCooling /\ (turn => N!RowTruthful)
  <2> SUFFICES ASSUME NodeInv, NodeTurn
               PROVE  N!NoProbeWhileCooling /\ (turn => N!RowTruthful)
      BY DEF NodeInv
  <2>1. N!NoProbeWhileCooling
    <3> SUFFICES ASSUME NEW p \in Processes, check[p] = "probe", streak[p] = Threshold
                 PROVE  breaker[p].age = Recovery
        BY DEF N!NoProbeWhileCooling
    <3>1. breaker[p].state \in {"CLOSED", "OPEN", "HALF_OPEN"}
          BY DEF NodeInv, N!TypeOK, N!Breaker
    <3> QED BY <3>1 DEF NodeInv, BreakerInv
  <2>2. turn => N!RowTruthful
        BY DEF NodeTurn, N!RowTruthful
  <2> QED BY <2>1, <2>2
<1> QED BY <1>1, <1>2, <1>3, PTL DEF PlatformSpec, NodeSound, N!DeletedForGood
=============================================================================
