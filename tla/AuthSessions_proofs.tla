------------------------- MODULE AuthSessions_proofs -------------------------
(* Theorems about AuthSessions, for any number of sessions and tokens: the *)
(* first ones with any number of concurrent requests, the last one with    *)
(* requests served one after another.                                      *)
EXTENDS MCSessions, TLAPS

(***************************************************************************)
(* Types                                                                   *)
(***************************************************************************)
LEMMA IdleType == Idle \in Plan
  BY DEF Idle, Plan

LEMMA RevokeFamiliesType ==
    ASSUME TypeOK, NEW sessions \in SUBSET Sessions,
           NEW to \in {"REVOKED", "COMPROMISED"}
    PROVE  RevokeFamilies(sessions, to) \in Plan
  <1>1. Tokens \subseteq TokenId
    BY DEF Tokens, TokenId, TypeOK
  <1> QED
    BY <1>1, IdleType DEF RevokeFamilies, Plan, Idle

(* A commit only turns tokens to USED or REVOKED, and appends at most one. *)
LEMMA FamilyGrows ==
    ASSUME TypeOK, NEW p \in Plan, NEW s \in Sessions
    PROVE  /\ Family(p, s) \in Seq(TokenStatus)
           /\ Len(Family(p, s)) =
                 IF s \in p.opens \/ \E t \in p.used : t[1] = s
                 THEN Len(token[s]) + 1 ELSE Len(token[s])
           /\ \A i \in 1..Len(token[s]) :
                 Family(p, s)[i] \in {"USED", "REVOKED", token[s][i]}
  <1> DEFINE written == [i \in 1..Len(token[s]) |->
                            IF <<s, i>> \in p.used THEN "USED"
                            ELSE IF <<s, i>> \in p.revoked THEN "REVOKED"
                            ELSE token[s][i]]
  <1>1. token[s] \in Seq(TokenStatus) /\ Len(token[s]) \in Nat
    BY DEF TypeOK
  <1>2. \A i \in 1..Len(token[s]) :
            /\ token[s][i] \in TokenStatus
            /\ written[i] \in {"USED", "REVOKED", token[s][i]}
    BY <1>1
  <1>3. \A i \in 1..Len(token[s]) : written[i] \in TokenStatus
    BY <1>2 DEF TokenStatus
  <1>4. written \in [1..Len(token[s]) -> TokenStatus]
    BY <1>3
  <1>5. written \in Seq(TokenStatus) /\ Len(written) = Len(token[s])
    BY <1>1, <1>4
  <1>6. /\ Append(written, "ACTIVE") \in Seq(TokenStatus)
        /\ Len(Append(written, "ACTIVE")) = Len(token[s]) + 1
        /\ \A i \in 1..Len(token[s]) : Append(written, "ACTIVE")[i] = written[i]
    <2> HIDE DEF written
    <2> QED
      BY <1>1, <1>5 DEF TokenStatus
  <1>7. Family(p, s) = IF s \in p.opens \/ \E t \in p.used : t[1] = s
                       THEN Append(written, "ACTIVE") ELSE written
    BY DEF Family
  <1> HIDE DEF written
  <1> QED
    BY <1>1, <1>2, <1>5, <1>6, <1>7

LEMMA BeginType ==
    ASSUME TypeOK, NEW w \in Workers, NEW plan \in Plan, Begin(w, plan)
    PROVE  TypeOK'
  BY DEF TypeOK, Begin

LEMMA CommitType ==
    ASSUME TypeOK, NEW w \in Workers, Commit(w)
    PROVE  TypeOK'
  <1>1. worker[w] \in Plan
    BY DEF TypeOK
  <1>2. (user \in {"ACTIVE", "DELETED"})'
    BY DEF TypeOK, Commit
  <1>3. (session \in [Sessions -> SessionStatus \cup {"NONE"}])'
    BY <1>1 DEF TypeOK, Commit, Plan, SessionStatus
  <1>4. (version \in [Sessions -> Nat])'
    BY <1>1 DEF TypeOK, Commit, Plan
  <1>5. (token \in [Sessions -> Seq(TokenStatus)])'
    BY <1>1, FamilyGrows DEF Commit
  <1>6. (expired \in [Sessions -> Nat] /\ worker \in [Workers -> Plan])'
    BY IdleType DEF TypeOK, Commit
  <1> QED
    BY <1>2, <1>3, <1>4, <1>5, <1>6 DEF TypeOK

LEMMA RequestBegins ==
    ASSUME TypeOK, NEW w \in Workers, Request(w)
    PROVE  \E plan \in Plan : Begin(w, plan)
  <1>1. \A t \in Tokens : t \in TokenId /\ t[1] \in Sessions
    BY DEF Tokens, TokenId, TypeOK
  <1>2. ASSUME NEW s \in Sessions, Login(w, s)
        PROVE  \E plan \in Plan : Begin(w, plan)
    <2>1. [Idle EXCEPT !.opens = {s}] \in Plan
      BY DEF Idle, Plan
    <2> QED
      BY <1>2, <2>1 DEF Login
  <1>3. ASSUME NEW t \in Tokens, Rotate(w, t)
        PROVE  \E plan \in Plan : Begin(w, plan)
    <2>1. version[t[1]] + 1 \in Nat
      BY <1>1 DEF TypeOK
    <2>2. [Idle EXCEPT !.used = {t}, !.version = version[t[1]] + 1] \in Plan
      BY <1>1, <2>1 DEF Idle, Plan
    <2> QED
      BY <1>3, <2>2 DEF Rotate
  <1>4. ASSUME NEW t \in Tokens, Replay(w, t)
        PROVE  \E plan \in Plan : Begin(w, plan)
    BY <1>1, <1>4, RevokeFamiliesType DEF Replay
  <1>5. CASE Logout(w)
    BY <1>5, RevokeFamiliesType DEF Logout, ActiveSessions
  <1>6. CASE DeactivateUser(w)
    <2>1. RevokeFamilies(ActiveSessions, "REVOKED") \in Plan
      BY RevokeFamiliesType DEF ActiveSessions
    <2>2. [RevokeFamilies(ActiveSessions, "REVOKED") EXCEPT !.delete = TRUE] \in Plan
      BY <2>1 DEF Plan
    <2> QED
      BY <1>6, <2>2 DEF DeactivateUser
  <1> QED
    BY <1>2, <1>3, <1>4, <1>5, <1>6 DEF Request

LEMMA TypeStep == TypeOK /\ [Next]_vars => TypeOK'
  <1> SUFFICES ASSUME TypeOK, [Next]_vars PROVE TypeOK'
    OBVIOUS
  <1>1. ASSUME NEW w \in Workers, Request(w) PROVE TypeOK'
    BY <1>1, RequestBegins, BeginType
  <1>2. ASSUME NEW w \in Workers, Commit(w) PROVE TypeOK'
    BY <1>2, CommitType
  <1>3. ASSUME NEW w \in Workers, Abort(w) PROVE TypeOK'
    BY <1>3, IdleType DEF Abort, TypeOK
  <1>4. ASSUME NEW s \in Sessions, Expire(s) PROVE TypeOK'
    BY <1>4 DEF Expire, TypeOK
  <1>5. CASE UNCHANGED vars
    BY <1>5 DEF vars, TypeOK
  <1> QED
    BY <1>1, <1>2, <1>3, <1>4, <1>5 DEF Next

LEMMA InitType == Init => TypeOK
  <1> SUFFICES ASSUME Init PROVE TypeOK
    OBVIOUS
  <1>1. <<"ACTIVE">> \in Seq(TokenStatus) /\ <<>> \in Seq(TokenStatus)
    BY DEF TokenStatus
  <1>2. token \in [Sessions -> Seq(TokenStatus)]
    BY <1>1 DEF Init
  <1> QED
    BY <1>2, IdleType DEF Init, TypeOK, SessionStatus

(* Rows and plans are always well typed (the whole of modules/auth).       *)
THEOREM TypeCorrect == Spec => []TypeOK
  BY InitType, TypeStep, PTL DEF Spec

(***************************************************************************)
(* The inductive invariant.  A plan may be old, but what it relies on is   *)
(* stable: an identifier it opens stays its own and unused, a session it   *)
(* rotates or ends stays a row, and families only grow.                    *)
(***************************************************************************)
RowsInv ==
    \A s \in Sessions :
        IF session[s] = "NONE" THEN token[s] = <<>> /\ version[s] = 1
        ELSE version[s] <= Len(token[s])

PlanInv(w) ==
    /\ \A s \in worker[w].opens :
          session[s] = "NONE" /\ \A v \in Workers \ {w} : s \notin worker[v].opens
    /\ \A t \in worker[w].used :
          session[t[1]] # "NONE" /\ worker[w].version <= Len(token[t[1]]) + 1
    /\ \A s \in worker[w].ended : session[s] # "NONE"

IInv == TypeOK /\ RowsInv /\ \A w \in Workers : PlanInv(w)

LEMMA InitInv == Init => IInv
  <1> SUFFICES ASSUME Init PROVE IInv
    OBVIOUS
  <1>1. RowsInv
    BY DEF Init, RowsInv
  <1>2. ASSUME NEW w \in Workers PROVE PlanInv(w)
    BY DEF Init, PlanInv, Idle
  <1> QED
    BY InitType, <1>1, <1>2 DEF IInv

(* What a request may plan, whichever request it is. *)
SoundPlan(plan) ==
    /\ \A s \in plan.opens :
          session[s] = "NONE" /\ \A v \in Workers : s \notin worker[v].opens
    /\ \A t \in plan.used :
          session[t[1]] # "NONE" /\ plan.version <= Len(token[t[1]]) + 1
    /\ \A s \in plan.ended : session[s] # "NONE"

LEMMA RevokeIsSound ==
    ASSUME NEW sessions \in SUBSET Sessions, NEW to \in {"REVOKED", "COMPROMISED"},
           \A s \in sessions : session[s] # "NONE"
    PROVE  /\ SoundPlan(RevokeFamilies(sessions, to))
           /\ SoundPlan([RevokeFamilies(sessions, to) EXCEPT !.delete = TRUE])
  BY DEF SoundPlan, RevokeFamilies, Idle

LEMMA RequestIsSound ==
    ASSUME IInv, NEW w \in Workers, Request(w)
    PROVE  \E plan \in Plan : Begin(w, plan) /\ SoundPlan(plan)
  <1>1. \A t \in Tokens :
            /\ t \in TokenId /\ t[1] \in Sessions
            /\ Len(token[t[1]]) \in Nat
            /\ session[t[1]] # "NONE"
            /\ version[t[1]] \in Nat /\ version[t[1]] <= Len(token[t[1]])
    <2>1. \A s \in Sessions : Len(token[s]) \in Nat
      BY DEF IInv, TypeOK
    <2>2. \A s \in Sessions : 1..Len(token[s]) # {} => session[s] # "NONE"
      BY DEF IInv, RowsInv
    <2> QED
      BY <2>1, <2>2 DEF IInv, RowsInv, TypeOK, Tokens, TokenId
  <1>2. ASSUME NEW s \in Sessions, Login(w, s)
        PROVE  \E plan \in Plan : Begin(w, plan) /\ SoundPlan(plan)
    <2>1. [Idle EXCEPT !.opens = {s}] \in Plan
      BY DEF Idle, Plan
    <2>2. SoundPlan([Idle EXCEPT !.opens = {s}])
      BY <1>2 DEF Login, SoundPlan, Idle
    <2> QED
      BY <1>2, <2>1, <2>2 DEF Login
  <1>3. ASSUME NEW t \in Tokens, Rotate(w, t)
        PROVE  \E plan \in Plan : Begin(w, plan) /\ SoundPlan(plan)
    <2> DEFINE plan == [Idle EXCEPT !.used = {t}, !.version = version[t[1]] + 1]
    <2>1. plan \in Plan
      <3>1. version[t[1]] + 1 \in Nat
        BY <1>1
      <3> QED
        BY <1>1, <3>1 DEF Idle, Plan
    <2>2. SoundPlan(plan)
      BY <1>1 DEF SoundPlan, Idle
    <2> QED
      BY <1>3, <2>1, <2>2 DEF Rotate
  <1>4. ASSUME NEW t \in Tokens, Replay(w, t)
        PROVE  \E plan \in Plan : Begin(w, plan) /\ SoundPlan(plan)
    BY <1>1, <1>4, RevokeFamiliesType, RevokeIsSound DEF Replay, IInv
  <1>5. ActiveSessions \subseteq Sessions /\ \A s \in ActiveSessions : session[s] # "NONE"
    BY DEF ActiveSessions
  <1>6. CASE Logout(w)
    BY <1>5, <1>6, RevokeFamiliesType, RevokeIsSound DEF Logout, IInv
  <1>7. CASE DeactivateUser(w)
    <2>1. RevokeFamilies(ActiveSessions, "REVOKED") \in Plan
      BY <1>5, RevokeFamiliesType DEF IInv
    <2>2. [RevokeFamilies(ActiveSessions, "REVOKED") EXCEPT !.delete = TRUE] \in Plan
      BY <2>1 DEF Plan
    <2> QED
      BY <1>5, <1>7, <2>2, RevokeIsSound DEF DeactivateUser
  <1> QED
    BY <1>2, <1>3, <1>4, <1>6, <1>7 DEF Request

LEMMA BeginInv ==
    ASSUME IInv, NEW w \in Workers, NEW plan \in Plan, Begin(w, plan), SoundPlan(plan)
    PROVE  IInv'
  <1>1. TypeOK'
    BY BeginType DEF IInv
  <1>2. RowsInv'
    BY DEF IInv, RowsInv, Begin
  <1>3. worker' = [worker EXCEPT ![w] = plan]
    BY DEF Begin
  <1>4. worker'[w] = plan /\ \A v \in Workers \ {w} : worker'[v] = worker[v]
    BY <1>3 DEF IInv, TypeOK
  <1>5. ASSUME NEW v \in Workers PROVE PlanInv(v)'
    <2>1. CASE v = w
      BY <1>4, <2>1 DEF PlanInv, SoundPlan, Begin
    <2>2. CASE v # w
      BY <1>4, <2>2 DEF IInv, PlanInv, SoundPlan, Begin
    <2> QED
      BY <2>1, <2>2
  <1> QED
    BY <1>1, <1>2, <1>5 DEF IInv

(* A step that frees a worker and leaves sessions and tokens as they are,  *)
(* or extends them, keeps the plans of the others sound.                   *)
LEMMA CommitInv ==
    ASSUME IInv, NEW w \in Workers, Commit(w)
    PROVE  IInv'
  <1> DEFINE p == worker[w]
             rotated == {s \in Sessions : \E t \in p.used : t[1] = s}
  <1>1. TypeOK /\ TypeOK' /\ p \in Plan /\ PlanInv(w)
    BY CommitType DEF IInv, TypeOK
  <1>2. \A s \in Sessions :
            /\ Len(token[s]) \in Nat /\ version[s] \in Nat
            /\ token'[s] = Family(p, s)
            /\ Len(token'[s]) = IF s \in p.opens \cup rotated
                                THEN Len(token[s]) + 1 ELSE Len(token[s])
    <2>1. \A s \in Sessions : Len(token[s]) \in Nat /\ version[s] \in Nat
      BY <1>1 DEF TypeOK
    <2>2. \A s \in Sessions : token'[s] = Family(p, s)
      BY DEF Commit
    <2> QED
      BY <1>1, <2>1, <2>2, FamilyGrows
  <1>3. \A s \in Sessions :
            session'[s] = IF s \in p.opens THEN "ACTIVE"
                          ELSE IF s \in p.ended THEN p.to ELSE session[s]
    BY DEF Commit
  <1>4. \A s \in Sessions :
            version'[s] = IF s \in rotated THEN p.version ELSE version[s]
    BY DEF Commit
  <1>5. /\ \A s \in p.opens : s \in Sessions /\ session[s] = "NONE"
        /\ \A s \in p.ended : session[s] # "NONE"
        /\ \A s \in rotated : session[s] # "NONE" /\ p.version <= Len(token[s]) + 1
        /\ p.version \in Nat
        /\ p.to # "NONE"
    BY <1>1 DEF PlanInv, Plan
  <1>6. ASSUME NEW s \in Sessions
        PROVE  IF session'[s] = "NONE" THEN token'[s] = <<>> /\ version'[s] = 1
               ELSE version'[s] <= Len(token'[s])
    <2>1. IF session[s] = "NONE" THEN token[s] = <<>> /\ version[s] = 1
          ELSE version[s] <= Len(token[s])
      BY DEF IInv, RowsInv
    <2>2. CASE s \in p.opens
      BY <1>2, <1>3, <1>4, <1>5, <2>1, <2>2
    <2>3. CASE s \notin p.opens /\ s \in rotated
      BY <1>2, <1>3, <1>4, <1>5, <2>3
    <2>4. CASE s \notin p.opens /\ s \notin rotated /\ session[s] # "NONE"
      BY <1>2, <1>3, <1>4, <1>5, <2>1, <2>4
    <2>5. CASE s \notin p.opens /\ s \notin rotated /\ session[s] = "NONE"
      <3>1. token'[s] \in Seq(TokenStatus) /\ Len(token'[s]) = 0
        BY <1>1, <1>2, <2>1, <2>5 DEF TypeOK
      <3>2. token'[s] = <<>>
        BY <3>1
      <3> QED
        BY <1>3, <1>4, <1>5, <2>1, <2>5, <3>2
    <2> QED
      BY <2>2, <2>3, <2>4, <2>5
  <1>7. worker'[w] = Idle /\ \A v \in Workers \ {w} : worker'[v] = worker[v]
    BY <1>1 DEF Commit, TypeOK
  <1>8. \A s \in Sessions :
            /\ session[s] # "NONE" => session'[s] # "NONE"
            /\ session[s] = "NONE" /\ s \notin p.opens => session'[s] = "NONE"
            /\ Len(token'[s]) \in Nat /\ Len(token[s]) <= Len(token'[s])
    BY <1>2, <1>3, <1>5
  <1>9. ASSUME NEW v \in Workers PROVE PlanInv(v)'
    <2>1. CASE v = w
      BY <1>7, <2>1 DEF PlanInv, Idle
    <2>2. CASE v # w
      <3>1. PlanInv(v) /\ worker[v] \in Plan /\ worker'[v] = worker[v]
        BY <1>1, <1>7, <2>2 DEF IInv, TypeOK
      <3>2. ASSUME NEW s \in worker[v].opens
            PROVE  session'[s] = "NONE"
                   /\ \A u \in Workers \ {v} : s \notin worker'[u].opens
        <4>1. s \in Sessions /\ s \notin p.opens
          BY <2>2, <3>1 DEF PlanInv, Plan
        <4> QED
          BY <1>7, <1>8, <3>1, <4>1 DEF PlanInv, Idle
      <3>3. ASSUME NEW t \in worker[v].used
            PROVE  session'[t[1]] # "NONE" /\ worker[v].version <= Len(token'[t[1]]) + 1
        <4>1. t[1] \in Sessions /\ worker[v].version \in Nat
          BY <3>1 DEF Plan, TokenId
        <4> QED
          BY <1>2, <1>8, <3>1, <4>1 DEF PlanInv
      <3>4. \A s \in worker[v].ended : session'[s] # "NONE"
        BY <1>8, <3>1 DEF PlanInv, Plan
      <3> QED
        BY <3>1, <3>2, <3>3, <3>4 DEF PlanInv
    <2> QED
      BY <2>1, <2>2
  <1> QED
    BY <1>1, <1>6, <1>9 DEF IInv, RowsInv

LEMMA StepInv == IInv /\ [Next]_vars => IInv'
  <1> SUFFICES ASSUME IInv, [Next]_vars PROVE IInv'
    OBVIOUS
  <1>1. ASSUME NEW w \in Workers, Request(w) PROVE IInv'
    BY <1>1, RequestIsSound, BeginInv
  <1>2. ASSUME NEW w \in Workers, Commit(w) PROVE IInv'
    BY <1>2, CommitInv
  <1>3. ASSUME NEW w \in Workers, Abort(w) PROVE IInv'
    <2>1. TypeOK'
      BY TypeStep, <1>3 DEF IInv, Next
    <2>2. worker'[w] = Idle /\ \A v \in Workers \ {w} : worker'[v] = worker[v]
      BY <1>3 DEF Abort, IInv, TypeOK
    <2>3. ASSUME NEW v \in Workers PROVE PlanInv(v)'
      BY <1>3, <2>2 DEF Abort, IInv, PlanInv, Idle
    <2> QED
      BY <1>3, <2>1, <2>3 DEF Abort, IInv, RowsInv
  <1>4. ASSUME NEW s \in Sessions, Expire(s) PROVE IInv'
    BY <1>4, TypeStep DEF Expire, IInv, RowsInv, PlanInv, Next
  <1>5. CASE UNCHANGED vars
    BY <1>5, TypeStep DEF vars, IInv, RowsInv, PlanInv
  <1> QED
    BY <1>1, <1>2, <1>3, <1>4, <1>5 DEF Next

(* With any interleaving the version of a session never runs ahead of the  *)
(* tokens its family has had (refresh_token_rotation).                     *)
THEOREM VersionFollowsTokens == Spec => []VersionNeverAhead
  <1>1. IInv => VersionNeverAhead
    BY DEF IInv, RowsInv, VersionNeverAhead
  <1> QED
    BY InitInv, StepInv, <1>1, PTL DEF Spec

(* With any interleaving no commit, however old its plan, brings back an   *)
(* ended session, a used or revoked token or a deleted user.               *)
THEOREM EndsAreFinal == Spec => EndsForGood
  <1> DEFINE Final ==
        /\ \A s \in Sessions :
              session[s] \in {"REVOKED", "COMPROMISED"} => session'[s] # "ACTIVE"
        /\ \A t \in Tokens : StatusOf(t) # "ACTIVE" => StatusOf(t)' # "ACTIVE"
        /\ user = "DELETED" => user' = "DELETED"
  <1>1. IInv /\ [Next]_vars => [Final]_vars
    <2> SUFFICES ASSUME IInv, [Next]_vars PROVE Final
      OBVIOUS
    <2>1. CASE UNCHANGED <<user, session, token>>
      BY <2>1 DEF StatusOf
    <2>2. ASSUME NEW w \in Workers, Commit(w) PROVE Final
      <3>1. worker[w] \in Plan /\ PlanInv(w) /\ TypeOK
        BY DEF IInv, TypeOK
      <3>2. \A s \in Sessions : session[s] \in {"REVOKED", "COMPROMISED"}
                                    => session'[s] # "ACTIVE"
        BY <2>2, <3>1 DEF Commit, PlanInv, Plan
      <3>3. ASSUME NEW t \in Tokens, StatusOf(t) # "ACTIVE"
            PROVE  StatusOf(t)' # "ACTIVE"
        <4>1. t[1] \in Sessions /\ t[2] \in 1..Len(token[t[1]])
          BY DEF Tokens
        <4>2. token'[t[1]] = Family(worker[w], t[1])
          BY <2>2, <4>1 DEF Commit
        <4>3. token'[t[1]][t[2]] \in {"USED", "REVOKED", token[t[1]][t[2]]}
          BY <3>1, <4>1, <4>2, FamilyGrows
        <4> QED
          BY <3>3, <4>3 DEF StatusOf
      <3>4. user = "DELETED" => user' = "DELETED"
        BY <2>2 DEF Commit
      <3> QED
        BY <3>2, <3>3, <3>4
    <2>3. ASSUME NEW w \in Workers, Request(w) PROVE Final
      BY <2>1, <2>3, RequestIsSound DEF Begin
    <2> QED
      BY <2>1, <2>2, <2>3 DEF Next, Abort, Expire, vars
  <1>2. IInv /\ [Next]_vars => IInv'
    BY StepInv
  <1> HIDE DEF Final
  <1>3. Spec => [][Final]_vars
    BY InitInv, <1>1, <1>2, PTL DEF Spec
  <1> QED
    BY <1>3 DEF EndsForGood, Final
(***************************************************************************)
(* Requests in turn.  What a request read is still so when it commits: the *)
(* token it rotates is the live one, and a family it ends keeps no live    *)
(* token behind.                                                           *)
(***************************************************************************)
LiveIsNewest(s) ==
    \A i \in 1..Len(token[s]) :
        token[s][i] = "ACTIVE" => i = Len(token[s]) /\ session[s] = "ACTIVE"

FamiliesInv ==
    /\ \A s \in Sessions : LiveIsNewest(s)
    /\ VersionCountsTokens
    /\ DeletedUserSignedOut

FreshPlan(p) ==
    /\ p.opens # {} => user = "ACTIVE" /\ ~ p.delete
    /\ p.used # {} => p.ended = {} /\ ~ p.delete
    /\ \A t \in p.used : /\ session[t[1]] = "ACTIVE"
                         /\ t[2] = Len(token[t[1]])
                         /\ p.version = Len(token[t[1]]) + 1
    /\ \A s \in p.ended : \A i \in 1..Len(token[s]) :
          token[s][i] = "ACTIVE" => <<s, i>> \in p.revoked
    /\ p.delete => ActiveSessions \subseteq p.ended

TurnInv == IInv /\ FamiliesInv /\ OneBusy /\ \A w \in Workers : FreshPlan(worker[w])

LEMMA IdleIsFresh == FreshPlan(Idle)
  BY DEF FreshPlan, Idle

(* What the family of s becomes, token by token. *)
LEMMA FamilyTokens ==
    ASSUME TypeOK, NEW p \in Plan, NEW s \in Sessions
    PROVE  \A i \in 1..Len(token[s]) :
                 Family(p, s)[i] = IF <<s, i>> \in p.used THEN "USED"
                                   ELSE IF <<s, i>> \in p.revoked THEN "REVOKED"
                                   ELSE token[s][i]
  <1> DEFINE written == [i \in 1..Len(token[s]) |->
                            IF <<s, i>> \in p.used THEN "USED"
                            ELSE IF <<s, i>> \in p.revoked THEN "REVOKED"
                            ELSE token[s][i]]
  <1>1. Len(token[s]) \in Nat /\ \A i \in 1..Len(token[s]) : token[s][i] \in TokenStatus
    BY DEF TypeOK
  <1>2. written \in [1..Len(token[s]) -> TokenStatus]
    BY <1>1 DEF TokenStatus
  <1>3. written \in Seq(TokenStatus) /\ Len(written) = Len(token[s])
    BY <1>1, <1>2
  <1>4. \A i \in 1..Len(token[s]) : Append(written, "ACTIVE")[i] = written[i]
    <2> HIDE DEF written
    <2> QED
      BY <1>1, <1>3 DEF TokenStatus
  <1>5. Family(p, s) \in {written, Append(written, "ACTIVE")}
    BY DEF Family
  <1>6. \A i \in 1..Len(token[s]) : Family(p, s)[i] = written[i]
    <2> HIDE DEF written
    <2> QED
      BY <1>4, <1>5
  <1> QED
    BY <1>6

(* Every request plans on what is so now. *)
LEMMA RequestIsFresh ==
    ASSUME TurnInv, NEW w \in Workers, Request(w)
    PROVE  \E plan : Begin(w, plan) /\ FreshPlan(plan)
  <1>1. \A t \in Tokens :
            /\ t[1] \in Sessions /\ t[2] \in 1..Len(token[t[1]])
            /\ StatusOf(t) = "ACTIVE" => t[2] = Len(token[t[1]])
    BY DEF TurnInv, FamiliesInv, LiveIsNewest, Tokens, StatusOf
  <1>2. ASSUME NEW sessions \in SUBSET Sessions, NEW to,
               NEW i, NEW s \in sessions, i \in 1..Len(token[s]), token[s][i] = "ACTIVE"
        PROVE  <<s, i>> \in RevokeFamilies(sessions, to).revoked
    <2>1. <<s, i>> \in Tokens /\ StatusOf(<<s, i>>) = "ACTIVE"
      BY <1>2 DEF Tokens, StatusOf
    <2> QED
      BY <2>1 DEF RevokeFamilies, Idle
  <1>3. ASSUME NEW sessions \in SUBSET Sessions, NEW to
        PROVE  FreshPlan(RevokeFamilies(sessions, to))
    <2> DEFINE plan == RevokeFamilies(sessions, to)
    <2>1. /\ plan.opens = {} /\ plan.used = {} /\ plan.delete = FALSE
          /\ plan.ended \subseteq sessions
      BY DEF RevokeFamilies, Idle
    <2> QED
      BY <1>2, <2>1 DEF FreshPlan
  <1>4. ASSUME NEW s \in Sessions, Login(w, s)
        PROVE  \E plan : Begin(w, plan) /\ FreshPlan(plan)
    BY <1>4 DEF Login, FreshPlan, Idle
  <1>5. ASSUME NEW t \in Tokens, Rotate(w, t)
        PROVE  \E plan : Begin(w, plan) /\ FreshPlan(plan)
    <2> DEFINE plan == [Idle EXCEPT !.used = {t}, !.version = version[t[1]] + 1]
    <2>1. /\ session[t[1]] = "ACTIVE" /\ t[2] = Len(token[t[1]])
          /\ version[t[1]] = Len(token[t[1]])
      BY <1>1, <1>5 DEF Rotate, TurnInv, FamiliesInv, VersionCountsTokens
    <2>2. FreshPlan(plan)
      BY <2>1 DEF FreshPlan, Idle
    <2> QED
      BY <1>5, <2>2 DEF Rotate
  <1>6. ASSUME NEW t \in Tokens, Replay(w, t)
        PROVE  \E plan : Begin(w, plan) /\ FreshPlan(plan)
    BY <1>1, <1>3, <1>6 DEF Replay
  <1>7. CASE Logout(w)
    BY <1>3, <1>7 DEF Logout, ActiveSessions
  <1>8. CASE DeactivateUser(w)
    <2> DEFINE plan == RevokeFamilies(ActiveSessions, "REVOKED")
    <2>1. /\ FreshPlan(plan) /\ plan.opens = {} /\ plan.used = {}
          /\ plan.ended = ActiveSessions
      BY <1>3 DEF ActiveSessions, RevokeFamilies, Idle
    <2>2. /\ [plan EXCEPT !.delete = TRUE].opens = {}
          /\ [plan EXCEPT !.delete = TRUE].used = {}
          /\ [plan EXCEPT !.delete = TRUE].ended = plan.ended
          /\ [plan EXCEPT !.delete = TRUE].revoked = plan.revoked
      BY <2>1 DEF RevokeFamilies, Idle
    <2>3. FreshPlan([plan EXCEPT !.delete = TRUE])
      BY <2>1, <2>2 DEF FreshPlan
    <2> QED
      BY <1>8, <2>3 DEF DeactivateUser
  <1> QED
    BY <1>4, <1>5, <1>6, <1>7, <1>8 DEF Request

(* A commit of the only plan under way leaves one live token a family. *)
LEMMA CommitKeepsFamilies ==
    ASSUME TurnInv, NEW w \in Workers, Commit(w)
    PROVE  FamiliesInv'
  <1> DEFINE p == worker[w]
             rotated == {s \in Sessions : \E t \in p.used : t[1] = s}
  <1>1. TypeOK /\ TypeOK' /\ p \in Plan /\ PlanInv(w) /\ FreshPlan(p)
    BY CommitType DEF TurnInv, IInv, TypeOK
  <1>2. \A s \in Sessions :
            /\ Len(token[s]) \in Nat
            /\ token'[s] = Family(p, s)
            /\ session'[s] = IF s \in p.opens THEN "ACTIVE"
                             ELSE IF s \in p.ended THEN p.to ELSE session[s]
            /\ version'[s] = IF s \in rotated THEN p.version ELSE version[s]
    BY <1>1 DEF Commit, TypeOK
  <1>3. \A s \in Sessions :
            Len(token'[s]) = IF s \in p.opens \cup rotated
                             THEN Len(token[s]) + 1 ELSE Len(token[s])
    BY <1>1, <1>2, FamilyGrows
  <1>4. \A s \in Sessions : \A i \in 1..Len(token[s]) :
            token'[s][i] = IF <<s, i>> \in p.used THEN "USED"
                           ELSE IF <<s, i>> \in p.revoked THEN "REVOKED"
                           ELSE token[s][i]
    <2> TAKE s \in Sessions
    <2>1. \A i \in 1..Len(token[s]) :
              Family(p, s)[i] = IF <<s, i>> \in p.used THEN "USED"
                                ELSE IF <<s, i>> \in p.revoked THEN "REVOKED"
                                ELSE token[s][i]
      BY <1>1, FamilyTokens
    <2>2. token'[s] = Family(p, s)
      BY <1>2
    <2> QED
      BY <2>1, <2>2
  <1>5. p.to \in {"REVOKED", "COMPROMISED"} /\ p.opens \subseteq Sessions
    BY <1>1 DEF Plan
  <1>6. \A s \in p.opens : session[s] = "NONE" /\ token[s] = <<>> /\ version[s] = 1
    BY <1>1, <1>5 DEF PlanInv, TurnInv, IInv, RowsInv
  <1>7. \A s \in rotated : /\ session[s] = "ACTIVE" /\ s \notin p.ended
                           /\ <<s, Len(token[s])>> \in p.used
                           /\ p.version = Len(token[s]) + 1
    <2>1. ASSUME NEW t \in p.used
          PROVE  /\ session[t[1]] = "ACTIVE" /\ p.ended = {}
                 /\ t = <<t[1], Len(token[t[1]])>>
                 /\ p.version = Len(token[t[1]]) + 1
      <3>1. t = <<t[1], t[2]>>
        BY <1>1, <2>1 DEF Plan, TokenId
      <3> QED
        BY <1>1, <2>1, <3>1 DEF FreshPlan
    <2> QED
      BY <2>1
  <1>8. \A s \in Sessions :
            /\ LiveIsNewest(s)
            /\ session[s] # "NONE" => version[s] = Len(token[s])
    BY DEF TurnInv, FamiliesInv, VersionCountsTokens
  <1>9. ASSUME NEW s \in Sessions
        PROVE  LiveIsNewest(s)' /\ (session'[s] # "NONE" => version'[s] = Len(token'[s]))
    <2>1. CASE s \in p.opens
      <3> HIDE DEF p
      <3>1. token[s] = <<>> /\ session[s] = "NONE" /\ version[s] = 1
        BY <1>6, <2>1
      <3>2. Len(token'[s]) = 1 /\ session'[s] = "ACTIVE"
        <4>1. Len(token'[s]) = Len(token[s]) + 1
          BY <1>3, <2>1
        <4>2. Len(token[s]) = 0
          BY <3>1
        <4>3. session'[s] = "ACTIVE"
          BY <1>2, <2>1
        <4> QED
          BY <4>1, <4>2, <4>3
      <3>3. s \notin rotated
        BY <1>7, <3>1
      <3>4. version'[s] = 1
        BY <1>2, <3>1, <3>3
      <3> QED
        BY <3>2, <3>4 DEF LiveIsNewest
    <2>2. CASE s \in rotated
      <3>1. /\ Len(token'[s]) = Len(token[s]) + 1 /\ session'[s] = "ACTIVE"
            /\ version'[s] = Len(token[s]) + 1
        BY <1>2, <1>3, <1>7, <2>2
      <3>2. ASSUME NEW i \in 1..Len(token[s]) PROVE token'[s][i] # "ACTIVE"
        <4>1. CASE i = Len(token[s])
          BY <1>4, <1>7, <2>2, <4>1
        <4>2. CASE i # Len(token[s])
          BY <1>4, <1>8, <4>2 DEF LiveIsNewest
        <4> QED
          BY <4>1, <4>2
      <3> QED
        BY <1>2, <3>1, <3>2 DEF LiveIsNewest
    <2>3. CASE s \notin p.opens \cup rotated
      <3>1. Len(token'[s]) = Len(token[s]) /\ version'[s] = version[s]
        BY <1>2, <1>3, <2>3
      <3>2. session'[s] # "NONE" => session[s] # "NONE"
        BY <1>1, <1>2, <2>3 DEF PlanInv
      <3>3. ASSUME NEW i \in 1..Len(token[s]), token'[s][i] = "ACTIVE"
            PROVE  i = Len(token[s]) /\ session'[s] = "ACTIVE"
        <4>1. token[s][i] = "ACTIVE" /\ <<s, i>> \notin p.revoked
          BY <1>4, <3>3
        <4>2. s \notin p.ended
          BY <1>1, <4>1 DEF FreshPlan
        <4> QED
          BY <1>2, <1>8, <2>3, <4>1, <4>2 DEF LiveIsNewest
      <3> QED
        BY <1>8, <3>1, <3>2, <3>3 DEF LiveIsNewest
    <2> QED
      BY <2>1, <2>2, <2>3
  <1>10. DeletedUserSignedOut'
    <2> SUFFICES ASSUME user' = "DELETED", NEW s \in Sessions, session'[s] = "ACTIVE"
                 PROVE  FALSE
      BY DEF DeletedUserSignedOut, ActiveSessions
    <2>1. CASE p.delete
      BY <1>1, <1>2, <1>5, <2>1 DEF FreshPlan, ActiveSessions
    <2>2. CASE ~ p.delete
      <3>1. user = "DELETED"
        BY <2>2 DEF Commit
      <3>2. p.opens = {} /\ session[s] # "ACTIVE"
        BY <1>1, <3>1 DEF FreshPlan, TurnInv, FamiliesInv, DeletedUserSignedOut, ActiveSessions
      <3> QED
        BY <1>2, <1>5, <3>2
    <2> QED
      BY <2>1, <2>2
  <1> QED
    BY <1>9, <1>10 DEF FamiliesInv, VersionCountsTokens

(* Rows as before keep what they say of families, and a plan as fresh. *)
LEMMA SameRows ==
    ASSUME TurnInv, UNCHANGED <<user, session, version, token>>
    PROVE  /\ FamiliesInv'
           /\ \A w \in Workers : FreshPlan(worker'[w]) => FreshPlan(worker[w])'
  BY DEF TurnInv, FamiliesInv, LiveIsNewest, VersionCountsTokens, DeletedUserSignedOut,
         ActiveSessions, FreshPlan

LEMMA TurnStep ==
    ASSUME TurnInv, [Next]_vars, OneBusy'
    PROVE  TurnInv'
  <1>1. IInv' /\ TypeOK /\ OneBusy
    BY StepInv DEF TurnInv, IInv
  <1>2. ASSUME NEW w \in Workers, Request(w) PROVE TurnInv'
    <2>1. PICK plan : Begin(w, plan) /\ FreshPlan(plan)
      BY <1>2, RequestIsFresh
    <2>2. /\ worker'[w] = plan /\ UNCHANGED <<user, session, version, token>>
          /\ \A v \in Workers : v # w => worker'[v] = worker[v]
      BY <1>1, <2>1 DEF Begin, TypeOK
    <2>3. \A v \in Workers : FreshPlan(worker'[v])
      BY <2>1, <2>2 DEF TurnInv
    <2> QED
      BY <1>1, <2>2, <2>3, SameRows DEF TurnInv
  <1>3. ASSUME NEW w \in Workers, Commit(w) PROVE TurnInv'
    <2>1. \A v \in Workers : worker'[v] = Idle
      BY <1>1, <1>3 DEF Commit, TypeOK, OneBusy
    <2>2. \A v \in Workers : FreshPlan(worker[v])'
      BY <2>1 DEF FreshPlan, Idle
    <2> QED
      BY <1>1, <1>3, <2>2, CommitKeepsFamilies DEF TurnInv
  <1>4. ASSUME NEW w \in Workers, Abort(w) PROVE TurnInv'
    <2>1. \A v \in Workers : worker'[v] = Idle
      BY <1>1, <1>4 DEF Abort, TypeOK, OneBusy
    <2> QED
      BY <1>1, <1>4, <2>1, IdleIsFresh, SameRows DEF TurnInv, Abort
  <1>5. ASSUME UNCHANGED <<user, session, version, token, worker>> PROVE TurnInv'
    BY <1>1, <1>5, SameRows DEF TurnInv
  <1> QED
    BY <1>2, <1>3, <1>4, <1>5 DEF Next, Expire, vars

LEMMA TurnStart == Init => TurnInv
  <1> SUFFICES ASSUME Init PROVE TurnInv
    OBVIOUS
  <1>1. \A s \in Sessions : LiveIsNewest(s) /\ (session[s] # "NONE" => Len(token[s]) = 1)
    BY DEF Init, LiveIsNewest
  <1>2. FamiliesInv
    BY <1>1 DEF Init, FamiliesInv, VersionCountsTokens, DeletedUserSignedOut
  <1>3. OneBusy /\ \A w \in Workers : FreshPlan(worker[w])
    BY IdleIsFresh DEF Init, OneBusy
  <1> QED
    BY <1>2, <1>3, InitInv DEF TurnInv

LEMMA TurnSays == TurnInv => OneLiveToken /\ VersionCountsTokens /\ DeletedUserSignedOut
  BY DEF TurnInv, FamiliesInv, LiveIsNewest, OneLiveToken, Tokens, StatusOf

(* Served one after another by any number of workers, logins, refreshes,   *)
(* replays and logouts leave at most one live token in a family, numbered  *)
(* as the session knows it, and none after the account was deleted         *)
(* (refresh_token_rotation, _revoke_family, deactivate_user).              *)
THEOREM FamiliesAreSoundInTurn == MCSpec => []FamiliesInTurn
  <1> DEFINE Kept == turn => TurnInv
  <1>1. MCInit => Kept
    BY TurnStart DEF MCInit
  <1>2. Kept /\ [MCNext]_<<vars, turn>> => Kept'
    <2> SUFFICES ASSUME turn, TurnInv, turn', [MCNext]_<<vars, turn>> PROVE TurnInv'
      BY DEF MCNext
    <2>1. [Next]_vars /\ OneBusy'
      BY DEF MCNext, vars, TurnInv, OneBusy
    <2> QED
      BY <2>1, TurnStep
  <1>3. Kept => FamiliesInTurn
    BY TurnSays DEF FamiliesInTurn
  <1> QED
    BY <1>1, <1>2, <1>3, PTL DEF MCSpec

(* The same of the specification without the bounds of the instance, when  *)
(* one worker serves all requests.                                         *)
THEOREM OneLiveTokenInTurn ==
    ASSUME \A v, w \in Workers : v = w
    PROVE  Spec => [](OneLiveToken /\ VersionCountsTokens /\ DeletedUserSignedOut)
  <1>1. TurnInv /\ [Next]_vars => TurnInv'
    BY TurnStep DEF OneBusy
  <1> QED
    BY <1>1, TurnStart, TurnSays, PTL DEF Spec
=============================================================================
