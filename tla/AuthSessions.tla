---------------------------- MODULE AuthSessions ----------------------------
(***************************************************************************)
(* The sessions of one user and their refresh tokens (modules/auth:        *)
(* service.py; modules/users: deactivate_user).                            *)
(*                                                                         *)
(* Every login opens a session with a family of refresh tokens, numbered   *)
(* here in the order in which they were stored; a family has one session.  *)
(* A request checks what it has read and plans its writes; the commit      *)
(* writes only the columns the request changed, without looking again.     *)
(* Nothing is locked.  With one worker the requests are served one after   *)
(* another.                                                                *)
(***************************************************************************)
EXTENDS Integers, Sequences, FiniteSets

CONSTANTS Sessions,     \* the rows of auth_sessions, in use or not yet
          First,        \* the session that registration opened
          Workers,      \* concurrent request handlers
          MaxTokens     \* no rotation starts in a family with so many tokens

FirstAssumption == First \in Sessions
BoundAssumption == MaxTokens \in Nat

VARIABLES user,         \* users.status
          session,      \* auth_sessions.status, or "NONE" without a row
          version,      \* auth_sessions.session_version
          token,        \* refresh_tokens.status of each token of the family
          expired,      \* how many tokens of the family are past their expiry;
                        \* all live equally long, so the oldest go first
          worker        \* the plan of each worker

vars == <<user, session, version, token, expired, worker>>

SessionStatus == {"ACTIVE", "REVOKED", "COMPROMISED"}
TokenStatus == {"ACTIVE", "USED", "REVOKED"}
TokenId == Sessions \X (Nat \ {0})
Tokens == UNION {{s} \X (1..Len(token[s])) : s \in Sessions}

(* The writes of a request: the session it opens; the token it marks USED, *)
(* with the version its session gets, and replaces; the tokens it revokes; *)
(* the sessions it gives the status "to"; whether it deletes the user.     *)
Plan == [opens : SUBSET Sessions, used : SUBSET TokenId, version : Nat,
         revoked : SUBSET TokenId, ended : SUBSET Sessions,
         to : {"REVOKED", "COMPROMISED"}, delete : BOOLEAN]

Idle == [opens |-> {}, used |-> {}, version |-> 0, revoked |-> {},
         ended |-> {}, to |-> "REVOKED", delete |-> FALSE]

(* register_user, which signs the new user in *)
Init ==
    /\ user = "ACTIVE"
    /\ session = [s \in Sessions |-> IF s = First THEN "ACTIVE" ELSE "NONE"]
    /\ version = [s \in Sessions |-> 1]
    /\ token = [s \in Sessions |-> IF s = First THEN <<"ACTIVE">> ELSE <<>>]
    /\ expired = [s \in Sessions |-> 0]
    /\ worker = [w \in Workers |-> Idle]

StatusOf(t) == token[t[1]][t[2]]
IsExpired(t) == t[2] <= expired[t[1]]

Begin(w, plan) ==
    /\ worker[w] = Idle
    /\ worker' = [worker EXCEPT ![w] = plan]
    /\ UNCHANGED <<user, session, version, token, expired>>

Login(w, s) ==
    /\ user = "ACTIVE"
    /\ session[s] = "NONE"
    /\ \A v \in Workers : s \notin worker[v].opens      \* a fresh identifier
    /\ Begin(w, [Idle EXCEPT !.opens = {s}])

(* Mutant: the version is raised twice. *)
RotateSkipsVersion(w, t) ==
    /\ ~ IsExpired(t)
    /\ StatusOf(t) = "ACTIVE"
    /\ Len(token[t[1]]) < MaxTokens
    /\ session[t[1]] = "ACTIVE"
    /\ user = "ACTIVE"
    /\ Begin(w, [Idle EXCEPT !.used = {t}, !.version = version[t[1]] + 2])

Rotate(w, t) ==
    /\ ~ IsExpired(t)
    /\ StatusOf(t) = "ACTIVE"
    /\ Len(token[t[1]]) < MaxTokens
    /\ session[t[1]] = "ACTIVE"
    /\ user = "ACTIVE"
    /\ Begin(w, [Idle EXCEPT !.used = {t}, !.version = version[t[1]] + 1])

(* Mutant: the sessions end, their tokens stay. *)
EndSessionsOnly(sessions, to) ==
    [Idle EXCEPT !.ended = {s \in sessions : session[s] # to}, !.to = to]

(* _revoke_family, for every family of "sessions"; rows that already have  *)
(* the status they are given are not written.                              *)
RevokeFamilies(sessions, to) ==
    [Idle EXCEPT
        !.revoked = {t \in Tokens : t[1] \in sessions /\ StatusOf(t) = "ACTIVE"},
        !.ended = {s \in sessions : session[s] # to},
        !.to = to]

(* A token that was used comes back: the second half of                    *)
(* refresh_token_rotation is not reached, its family is revoked.           *)
Replay(w, t) ==
    /\ ~ IsExpired(t)
    /\ StatusOf(t) = "USED"
    /\ Begin(w, RevokeFamilies({t[1]}, "COMPROMISED"))

ActiveSessions == {s \in Sessions : session[s] = "ACTIVE"}

Logout(w) == Begin(w, RevokeFamilies(ActiveSessions, "REVOKED"))

DeactivateUser(w) ==
    Begin(w, [RevokeFamilies(ActiveSessions, "REVOKED") EXCEPT !.delete = TRUE])

(***************************************************************************)
(* Committing it                                                           *)
(***************************************************************************)
(* The family of s after the commit of p. *)
Family(p, s) ==
    LET written == [i \in 1..Len(token[s]) |->
                       IF <<s, i>> \in p.used THEN "USED"
                       ELSE IF <<s, i>> \in p.revoked THEN "REVOKED"
                       ELSE token[s][i]]
    IN  IF s \in p.opens \/ \E t \in p.used : t[1] = s
        THEN Append(written, "ACTIVE") ELSE written

(* Mutant: the session is written as a whole, as the rotation read it. *)
CommitWholeSession(w) ==
    LET p == worker[w]
        rotated == {s \in Sessions : \E t \in p.used : t[1] = s}
    IN  /\ p # Idle
        /\ user' = IF p.delete THEN "DELETED" ELSE user
        /\ session' = [s \in Sessions |->
                          IF s \in p.opens \cup rotated THEN "ACTIVE"
                          ELSE IF s \in p.ended THEN p.to ELSE session[s]]
        /\ version' = [s \in Sessions |-> IF s \in rotated THEN p.version
                                          ELSE version[s]]
        /\ token' = [s \in Sessions |-> Family(p, s)]
        /\ worker' = [worker EXCEPT ![w] = Idle]
        /\ UNCHANGED expired

Commit(w) ==
    LET p == worker[w]
        rotated == {s \in Sessions : \E t \in p.used : t[1] = s}
    IN  /\ p # Idle
        /\ user' = IF p.delete THEN "DELETED" ELSE user
        /\ session' = [s \in Sessions |->
                          IF s \in p.opens THEN "ACTIVE"
                          ELSE IF s \in p.ended THEN p.to ELSE session[s]]
        /\ version' = [s \in Sessions |-> IF s \in rotated THEN p.version
                                          ELSE version[s]]
        /\ token' = [s \in Sessions |-> Family(p, s)]
        /\ worker' = [worker EXCEPT ![w] = Idle]
        /\ UNCHANGED expired

(* The worker dies, or the client goes away: the transaction rolls back. *)
Abort(w) ==
    /\ worker[w] # Idle
    /\ worker' = [worker EXCEPT ![w] = Idle]
    /\ UNCHANGED <<user, session, version, token, expired>>

Expire(s) ==
    /\ expired[s] < Len(token[s])
    /\ expired' = [expired EXCEPT ![s] = @ + 1]
    /\ UNCHANGED <<user, session, version, token, worker>>

Request(w) ==
    \/ \E s \in Sessions : Login(w, s)
    \/ \E t \in Tokens : Rotate(w, t) \/ Replay(w, t)
    \/ Logout(w)
    \/ DeactivateUser(w)

Next ==
    \/ \E w \in Workers : Request(w) \/ Commit(w) \/ Abort(w)
    \/ \E s \in Sessions : Expire(s)

Spec == Init /\ [][Next]_vars

(***************************************************************************)
(* Properties                                                              *)
(***************************************************************************)
(* Rows and plans are well typed. *)
TypeOK ==
    /\ user \in {"ACTIVE", "DELETED"}
    /\ session \in [Sessions -> SessionStatus \cup {"NONE"}]
    /\ version \in [Sessions -> Nat]
    /\ token \in [Sessions -> Seq(TokenStatus)]
    /\ expired \in [Sessions -> Nat]
    /\ worker \in [Workers -> Plan]

(* Requests in turn.  Only the newest token of a family can be rotated,    *)
(* and none of a session that has ended: whatever the order of logins,     *)
(* refreshes, replays and logouts, one rotation leads to at most one live  *)
(* token (refresh_token_rotation, _revoke_family).                         *)
OneLiveToken ==
    \A t \in Tokens :
        StatusOf(t) = "ACTIVE" => /\ t[2] = Len(token[t[1]])
                                  /\ session[t[1]] = "ACTIVE"

(* Requests in turn.  The version that the client compares to detect a     *)
(* change of its session counts the tokens the family has had.             *)
VersionCountsTokens ==
    \A s \in Sessions : session[s] # "NONE" => version[s] = Len(token[s])

(* Requests in turn.  Deleting an account signs it out everywhere, and     *)
(* nothing signs it in again (deactivate_user, login_user).                *)
DeletedUserSignedOut == user = "DELETED" => ActiveSessions = {}

(* With any interleaving: no commit, however old its plan, brings back a   *)
(* session that has ended, a token that was used or revoked, or a deleted  *)
(* user.                                                                   *)
EndsForGood ==
    [][ /\ \A s \in Sessions :
              session[s] \in {"REVOKED", "COMPROMISED"} => session'[s] # "ACTIVE"
        /\ \A t \in Tokens : StatusOf(t) # "ACTIVE" => StatusOf(t)' # "ACTIVE"
        /\ user = "DELETED" => user' = "DELETED" ]_vars

(* With any interleaving: the version never runs ahead of the tokens       *)
(* issued, though two refreshes that overlap may give out the same one     *)
(* (refresh_token_rotation).                                               *)
VersionNeverAhead ==
    \A s \in Sessions : session[s] # "NONE" => version[s] <= Len(token[s])
=============================================================================
