----------------------------- MODULE MCSessions -----------------------------
(* AuthSessions on a small instance.  In the behaviours with turn at most  *)
(* one worker is busy at a time; in the others requests overlap, fewer     *)
(* sessions are opened and only the first token of each is rotated.        *)
EXTENDS AuthSessions

CONSTANT FewSessions

VARIABLE turn

OneBusy == \A v, w \in Workers : worker[v] # Idle /\ worker[w] # Idle => v = w

MCInit == Init /\ turn \in BOOLEAN

MCNext ==
    /\ Next
    /\ UNCHANGED turn
    /\ IF turn THEN OneBusy'
       ELSE \A w \in Workers : /\ worker'[w].opens \subseteq FewSessions
                               /\ worker'[w].used \subseteq FewSessions \X {1}

MCSpec == MCInit /\ [][MCNext]_<<vars, turn>>

(* Requests in turn: after any sequence of logins, refreshes, replays and  *)
(* logouts a family of refresh tokens has at most one live token, the      *)
(* session knows its number, and a deleted account has no open session     *)
(* (refresh_token_rotation, logout, deactivate_user).                      *)
FamiliesInTurn ==
    turn => OneLiveToken /\ VersionCountsTokens /\ DeletedUserSignedOut
=============================================================================
