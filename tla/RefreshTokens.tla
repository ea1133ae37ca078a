---------------------------- MODULE RefreshTokens ----------------------------
(***************************************************************************)
(* The refresh tokens of one login, a family: rotation, logout, revocation *)
(* of the family, renewal by use, expiry and cleanup.  A rotation is a     *)
(* transaction of several statements at READ COMMITTED: what it writes is  *)
(* seen by others when it commits, and a row it has updated stays locked   *)
(* until then.                                                             *)
(***************************************************************************)
EXTENDS Naturals, FiniteSets

CONSTANTS
    Token,      \* random strings, each issued once
    Refresher,  \* handlers of requests that present or revoke a token
    NoToken     \* what a handler that has found none works on

ASSUME TokenAssumption == NoToken \notin Token

VARIABLES
    token,      \* rows of refresh_tokens: "unissued", "live", "revoked" or "deleted"
    stale,      \* tokens past their expires_at
    rotation    \* what each handler is doing

tokenVars == <<token, stale, rotation>>

Resting == [step |-> "idle", of |-> NoToken, found |-> {}]

LiveToken == {t \in Token : token[t] = "live"}
TokenLocked(t) == \E h \in Refresher : rotation[h].step = "marked" /\ rotation[h].of = t

TokenTypeOK ==
    /\ token \in [Token -> {"unissued", "live", "revoked", "deleted"}]
    /\ stale \subseteq Token
    /\ rotation \in [Refresher -> [step : {"idle", "seen", "marked", "reused", "revoking"},
                                   of : Token \cup {NoToken}, found : SUBSET Token]]

(* issue_refresh_token at the login. *)
TokenInit ==
    /\ \E t \in Token : token = [u \in Token |-> IF u = t THEN "live" ELSE "unissued"]
    /\ stale = {}
    /\ rotation = [h \in Refresher |-> Resting]

Rotate(h, step, t, found) ==
    rotation' = [rotation EXCEPT ![h] = [step |-> step, of |-> t, found |-> found]]
EndRotate(h) == rotation' = [rotation EXCEPT ![h] = Resting]

-----------------------------------------------------------------------------
(* rotate_refresh_token: reading the presented token's row. A browser may   *)
(* present a token twice: two tabs, or a lost answer.                       *)
Present(h, t) ==
    /\ rotation[h].step = "idle"
    /\ t \notin stale
    /\ \/ token[t] = "live" /\ Rotate(h, "seen", t, {})
       \/ token[t] = "revoked" /\ Rotate(h, "reused", t, {})
    /\ UNCHANGED <<token, stale>>

(* Broken: takes the token it has read for its own, whatever the UPDATE *)
(* says of the rows it has changed.                                     *)
MarkAnyway(h) ==
    LET t == rotation[h].of IN
    /\ rotation[h].step = "seen"
    /\ ~TokenLocked(t)
    /\ Rotate(h, "marked", t, {})
    /\ UNCHANGED <<token, stale>>

(* The UPDATE that names revoked_at IS NULL waits for the row's lock; a     *)
(* rowcount of zero says that another request has spent the token.          *)
MarkRevoked(h) ==
    LET t == rotation[h].of IN
    /\ rotation[h].step = "seen"
    /\ ~TokenLocked(t)
    /\ Rotate(h, IF token[t] = "live" THEN "marked" ELSE "reused", t, {})
    /\ UNCHANGED <<token, stale>>

(* Broken: the new token is committed without the mark on the old one. *)
CommitUnmarked(h, new) ==
    /\ rotation[h].step = "marked"
    /\ token[new] = "unissued"
    /\ token' = [token EXCEPT ![new] = "live"]
    /\ EndRotate(h)
    /\ UNCHANGED stale

(* The new token is inserted and both changes are committed. *)
CommitRotation(h, new) ==
    LET t == rotation[h].of IN
    /\ rotation[h].step = "marked"
    /\ token[new] = "unissued"
    /\ token' = [token EXCEPT ![t] = "revoked", ![new] = "live"]
    /\ EndRotate(h)
    /\ UNCHANGED stale

(* A DatabaseError or the death of the worker: the transaction is undone. *)
AbortRotation(h) ==
    /\ rotation[h].step # "idle"
    /\ EndRotate(h)
    /\ UNCHANGED <<token, stale>>

(* _revoke_family, and revoke_all_for_user of another request: the rows the *)
(* UPDATE finds when it begins; it waits for those that are locked.         *)
BeginRevoke(h) ==
    /\ rotation[h].step \in {"reused", "idle"}
    /\ Rotate(h, "revoking", rotation[h].of, LiveToken)
    /\ UNCHANGED <<token, stale>>

EndRevoke(h) ==
    /\ rotation[h].step = "revoking"
    /\ \A t \in rotation[h].found : ~TokenLocked(t)
    /\ token' = [t \in Token |->
                    IF t \in rotation[h].found /\ token[t] = "live" THEN "revoked" ELSE token[t]]
    /\ EndRotate(h)
    /\ UNCHANGED stale

-----------------------------------------------------------------------------
(* revoke_refresh_token at the logout. *)
Logout(t) ==
    /\ token[t] = "live" /\ ~TokenLocked(t)
    /\ token' = [token EXCEPT ![t] = "revoked"]
    /\ UNCHANGED <<stale, rotation>>

(* touch_refresh_token puts the expiry of a live token off, never of one *)
(* that is past it: the time that passes before this step is arbitrary.  *)
TokenExpires(t) ==
    /\ token[t] \in {"live", "revoked"} /\ t \notin stale
    /\ stale' = stale \cup {t}
    /\ UNCHANGED <<token, rotation>>

(* cleanup_expired, a day after the expiry. *)
CleanToken(t) ==
    /\ t \in stale /\ token[t] \in {"live", "revoked"} /\ ~TokenLocked(t)
    /\ token' = [token EXCEPT ![t] = "deleted"]
    /\ UNCHANGED <<stale, rotation>>

TokenNext ==
    \/ \E h \in Refresher :
        \/ \E t \in Token : Present(h, t) \/ CommitRotation(h, t)
        \/ MarkRevoked(h) \/ AbortRotation(h) \/ BeginRevoke(h) \/ EndRevoke(h)
    \/ \E t \in Token : Logout(t) \/ TokenExpires(t) \/ CleanToken(t)

TokenSpec == TokenInit /\ [][TokenNext]_tokenVars

-----------------------------------------------------------------------------
(* However many requests present the tokens of a login at once, at most one *)
(* of them is good for another rotation: a token is exchanged for one token. *)
OneLiveToken == \A t, u \in LiveToken : t = u

(* A token that was spent, revoked or cleaned up is never live again, and a *)
(* new one is only handed out for one that was live until that commit. It   *)
(* does not say that a family ends: see FamilyRevoked.                      *)
Exchanged ==
    [][\A u \in Token : u \notin LiveToken /\ u \in LiveToken' =>
            /\ token[u] = "unissued"
            /\ \E t \in LiveToken : token'[t] = "revoked"]_tokenVars

(* A revocation of the family leaves no live token of it: "the entire       *)
(* family is revoked" (refresh_tokens.py:5).  Not kept by the code: its     *)
(* UPDATE does not see the row a rotation inserts and commits while it      *)
(* waits for the old one's lock.                                            *)
FamilyRevoked == [][\A h \in Refresher : EndRevoke(h) => LiveToken' = {}]_tokenVars
=============================================================================
