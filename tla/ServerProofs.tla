----------------------------- MODULE ServerProofs -----------------------------
(***************************************************************************)
(* The server's smaller components, for any tokens, threads, tabs, groups, *)
(* reports and numbers of them.  They share no state; each section proves  *)
(* what it needs of one of them.                                           *)
(***************************************************************************)
EXTENDS RefreshTokens, ConnectionPool, Presence, Groups, Moderation, MessageChanges,
        FiniteSetTheorems, SequenceTheorems, WellFoundedInduction, TLAPS

-----------------------------------------------------------------------------
(* Refresh tokens: at most one token of a login is live, because the mark a *)
(* rotation puts on the old token is a lock that nobody else passes before  *)
(* the new token is committed.                                              *)

Marked(h) == rotation[h].step = "marked"

(* A rotation past its mark still finds the token live, alone. *)
MarkHolds ==
    /\ \A h \in Refresher : rotation[h].step = "seen" => rotation[h].of \in Token
    /\ \A h \in Refresher : Marked(h) => rotation[h].of \in LiveToken
    /\ \A g, h \in Refresher : Marked(g) /\ Marked(h) => g = h

TokenInv == TokenTypeOK /\ OneLiveToken /\ MarkHolds

LEMMA TokenInitial == TokenInit => TokenInv
BY TokenAssumption DEF TokenInit, TokenInv, TokenTypeOK, OneLiveToken, MarkHolds, LiveToken,
                       Marked, Resting

LEMMA TokenStep == TokenInv /\ [TokenNext]_tokenVars => TokenInv'
<1> SUFFICES ASSUME TokenInv, [TokenNext]_tokenVars PROVE TokenInv'
    OBVIOUS
<1> USE DEF TokenInv, TokenTypeOK, OneLiveToken, MarkHolds, LiveToken, Marked
<1>1. ASSUME NEW h \in Refresher, NEW t \in Token, Present(h, t) PROVE TokenInv'
    <2>1. PICK step \in {"seen", "reused"} :
                /\ rotation' = [rotation EXCEPT ![h] = [step |-> step, of |-> t, found |-> {}]]
                /\ UNCHANGED <<token, stale>>
        BY <1>1 DEF Present, Rotate
    <2>2. \A g \in Refresher : Marked(g)' => g # h /\ Marked(g)
        BY <2>1
    <2>3. TokenTypeOK'
        BY <2>1
    <2>4. MarkHolds'
        BY <2>1, <2>2
    <2> QED
        BY <2>1, <2>3, <2>4
<1>2. ASSUME NEW h \in Refresher, NEW new \in Token, CommitRotation(h, new) PROVE TokenInv'
    <2> DEFINE t == rotation[h].of
    <2>1. t \in Token /\ token[t] = "live" /\ t # new
        BY <1>2 DEF CommitRotation
    <2>2. token' = [token EXCEPT ![t] = "revoked", ![new] = "live"]
        BY <1>2 DEF CommitRotation
    <2>3. \A u \in Token : token'[u] = "live" => u = new
        BY <2>1, <2>2
    <2>4. rotation' = [rotation EXCEPT ![h] = Resting] /\ stale' = stale
        BY <1>2 DEF CommitRotation, EndRotate
    <2>5. \A g \in Refresher : ~Marked(g)'
        BY <1>2, <2>4 DEF CommitRotation, Resting
    <2>6. TokenTypeOK'
        BY <2>1, <2>2, <2>4 DEF Resting
    <2>7. \A g \in Refresher : (rotation[g].step = "seen")' => (rotation[g].of)' \in Token
        BY <2>4 DEF Resting
    <2> QED
        BY <2>3, <2>5, <2>6, <2>7
<1>3. ASSUME NEW h \in Refresher, MarkRevoked(h) PROVE TokenInv'
    <2> DEFINE t == rotation[h].of
    <2>1. t \in Token /\ rotation[h].step = "seen" /\ UNCHANGED <<token, stale>>
        BY <1>3 DEF MarkRevoked
    <2>2. \A g \in Refresher : Marked(g) => rotation[g].of # t
        BY <1>3 DEF MarkRevoked, TokenLocked
    <2>3. rotation' = [rotation EXCEPT ![h] =
                [step |-> IF token[t] = "live" THEN "marked" ELSE "reused", of |-> t, found |-> {}]]
        BY <1>3 DEF MarkRevoked, Rotate
    <2>4. TokenTypeOK'
        BY <2>1, <2>3
    <2>5. \A g \in Refresher : Marked(g)' => \/ g = h /\ token[t] = "live"
                                             \/ g # h /\ Marked(g)
        BY <2>3
    <2>6. token[t] = "live" => \A g \in Refresher : ~Marked(g)
        BY <2>1, <2>2
    <2>7. MarkHolds'
        BY <2>1, <2>3, <2>5, <2>6
    <2> QED
        BY <2>1, <2>4, <2>7
<1>4. ASSUME NEW h \in Refresher, AbortRotation(h) PROVE TokenInv'
    BY <1>4 DEF AbortRotation, EndRotate, Resting
<1>5. ASSUME NEW h \in Refresher, BeginRevoke(h) PROVE TokenInv'
    BY <1>5 DEF BeginRevoke, Rotate
<1>6. ASSUME NEW h \in Refresher, EndRevoke(h) PROVE TokenInv'
    <2>1. \A g \in Refresher : Marked(g) => rotation[g].of \notin rotation[h].found
        BY <1>6 DEF EndRevoke, TokenLocked
    <2>2. /\ rotation' = [rotation EXCEPT ![h] = Resting] /\ stale' = stale
          /\ token' = [t \in Token |-> IF t \in rotation[h].found /\ token[t] = "live"
                                       THEN "revoked" ELSE token[t]]
        BY <1>6 DEF EndRevoke, EndRotate
    <2>3. TokenTypeOK'
        BY <2>2 DEF Resting
    <2>4. \A t \in Token : token'[t] = "live" => token[t] = "live"
        BY <2>2
    <2>5. \A g \in Refresher : Marked(g)' => g # h /\ Marked(g)
        BY <2>2 DEF Resting
    <2>6. MarkHolds'
        BY <2>1, <2>2, <2>5 DEF Resting
    <2> QED
        BY <2>3, <2>4, <2>6
<1>7. ASSUME NEW t \in Token, Logout(t) \/ CleanToken(t) PROVE TokenInv'
    <2>1. \A g \in Refresher : Marked(g) => rotation[g].of # t
        BY <1>7 DEF Logout, CleanToken, TokenLocked
    <2> QED
        BY <1>7, <2>1 DEF Logout, CleanToken
<1>8. ASSUME NEW t \in Token, TokenExpires(t) PROVE TokenInv'
    BY <1>8 DEF TokenExpires
<1>9. CASE UNCHANGED tokenVars
    BY <1>9 DEF tokenVars
<1> QED
    BY <1>1, <1>2, <1>3, <1>4, <1>5, <1>6, <1>7, <1>8, <1>9 DEF TokenNext

(* The inductive invariant: types, one live token, and a rotation past its *)
(* mark alone with a live token (rotate_refresh_token, lines 131-157).     *)
THEOREM TokenInvariant == TokenSpec => []TokenInv
BY TokenInitial, TokenStep, PTL DEF TokenSpec

(* However many handlers rotate, revoke, abort and clean up at once, at     *)
(* most one token of a login is live.                                       *)
THEOREM OneTokenLive == TokenSpec => []OneLiveToken
<1>1. TokenInv => OneLiveToken
    BY DEF TokenInv
<1> QED
    BY <1>1, TokenInvariant, PTL

(* A token becomes live only in the commit that revokes the live one it is  *)
(* exchanged for, and was never issued before.                              *)
THEOREM TokensAreExchanged == TokenSpec => Exchanged
<1> DEFINE Handover == \A u \in Token : u \notin LiveToken /\ u \in LiveToken' =>
                      /\ token[u] = "unissued"
                      /\ \E t \in LiveToken : token'[t] = "revoked"
<1>1. ASSUME TokenInv, [TokenNext]_tokenVars PROVE [Handover]_tokenVars
    <2> USE DEF TokenInv, TokenTypeOK, MarkHolds, LiveToken, Marked
    <2>1. ASSUME NEW h \in Refresher, NEW new \in Token, CommitRotation(h, new) PROVE Handover
        <3> DEFINE t == rotation[h].of
        <3>1. t \in LiveToken /\ t # new /\ token[new] = "unissued"
            BY <1>1, <2>1 DEF CommitRotation
        <3>2. token' = [token EXCEPT ![t] = "revoked", ![new] = "live"]
            BY <2>1 DEF CommitRotation
        <3>3. token'[t] = "revoked"
            BY <1>1, <3>1, <3>2
        <3>4. \A u \in Token : token[u] # "live" /\ token'[u] = "live" => u = new
            BY <1>1, <3>1, <3>2
        <3> QED
            BY <3>1, <3>3, <3>4
    <2>2. ASSUME NEW h \in Refresher, NEW t \in Token, Present(h, t) PROVE Handover
        BY <2>2 DEF Present
    <2>3. ASSUME NEW h \in Refresher, EndRevoke(h) PROVE Handover
        BY <1>1, <2>3 DEF EndRevoke
    <2>4. ASSUME NEW t \in Token, Logout(t) \/ CleanToken(t) PROVE Handover
        BY <1>1, <2>4 DEF Logout, CleanToken
    <2>5. ASSUME NEW h \in Refresher, MarkRevoked(h) \/ AbortRotation(h) \/ BeginRevoke(h) PROVE Handover
        BY <2>5 DEF MarkRevoked, AbortRotation, BeginRevoke
    <2>6. ASSUME NEW t \in Token, TokenExpires(t) PROVE Handover
        BY <2>6 DEF TokenExpires
    <2> QED
        BY <1>1, <2>1, <2>2, <2>3, <2>4, <2>5, <2>6 DEF TokenNext
<1> QED
    BY <1>1, TokenInvariant, PTL DEF TokenSpec, Exchanged

-----------------------------------------------------------------------------
(* The connection pool: the counter is exact and no wake-up is lost.        *)

lent == Cardinality(Lent)
awake == Cardinality(Awake)

(* With PoolCount this is PoolWakes: as long as somebody sleeps, MaxSize     *)
(* threads have a connection or are awake and about to look.  The threads   *)
(* that slept when the pool was disposed were woken.                        *)
PoolBusy ==
    /\ Asleep # {} => MaxSize <= lent + awake
    /\ disposed => Asleep = {}

PoolInv == PoolTypeOK /\ PoolCount /\ PoolBusy

LEMMA CountsAreFinite ==
    /\ IsFiniteSet(Lent) /\ lent \in Nat /\ IsFiniteSet(Awake) /\ awake \in Nat
    /\ IsFiniteSet(Asleep)
<1>1. Lent \in SUBSET Thread /\ Awake \in SUBSET Thread /\ Asleep \in SUBSET Thread
    BY DEF Lent, Awake, Asleep
<1>2. IsFiniteSet(Lent) /\ IsFiniteSet(Awake) /\ IsFiniteSet(Asleep)
    BY <1>1, FS_Subset, PoolAssumption
<1> QED
    BY <1>2, FS_CardinalityType DEF lent, awake

LEMMA PoolInitial == PoolInit => PoolInv
<1> SUFFICES ASSUME PoolInit PROVE PoolInv
    OBVIOUS
<1>1. Lent = {} /\ Asleep = {}
    BY DEF PoolInit, Lent, Asleep
<1>2. PoolTypeOK /\ PoolBusy
    BY <1>1 DEF PoolInit, PoolTypeOK, PoolBusy
<1>3. PoolCount
    BY <1>1, FS_EmptySet, PoolAssumption DEF PoolInit, PoolCount
<1> QED
    BY <1>2, <1>3 DEF PoolInv

(* A thread that takes a connection leaves the awake ones at most. *)
LEMMA TakingStep ==
    ASSUME PoolTypeOK, NEW t \in Thread, thread[t] \in {"away", "awake"},
           NEW s \in {"dialing", "using"}, NEW n, Proceed(t, s, n)
    PROVE  /\ thread' \in [Thread -> {"away", "asleep", "awake", "dialing", "using"}]
           /\ lent' = lent + 1 /\ awake' >= awake - 1 /\ awake' \in Nat /\ Asleep' \subseteq Asleep
<1>1. PICK woken \in SUBSET Asleep :
        thread' = [u \in Thread |-> IF u = t THEN s
                                    ELSE IF u \in woken THEN "awake" ELSE thread[u]]
    BY DEF Proceed
<1>2. /\ thread' \in [Thread -> {"away", "asleep", "awake", "dialing", "using"}]
      /\ Lent' = Lent \cup {t} /\ t \notin Lent /\ Asleep' \subseteq Asleep
    BY <1>1 DEF PoolTypeOK, Lent, Asleep
<1>3. lent' = lent + 1
    BY <1>2, CountsAreFinite, FS_AddElement DEF lent
<1>4. Awake \ {t} \subseteq Awake' /\ Awake' \in SUBSET Thread
    BY <1>1 DEF Awake, Asleep, PoolTypeOK
<1>5. IsFiniteSet(Awake')
    BY <1>4, FS_Subset, PoolAssumption
<1>6. Cardinality(Awake \ {t}) <= awake' /\ awake' \in Nat
    BY <1>4, <1>5, FS_Subset, FS_CardinalityType DEF awake
<1>7. Cardinality(Awake \ {t}) >= awake - 1 /\ Cardinality(Awake \ {t}) \in Nat
    <2>1. /\ IsFiniteSet(Awake \ {t})
          /\ Cardinality(Awake \ {t}) = IF t \in Awake THEN awake - 1 ELSE awake
        BY CountsAreFinite, FS_RemoveElement DEF awake
    <2>2. Cardinality(Awake \ {t}) \in Nat
        BY <2>1, FS_CardinalityType
    <2> QED
        BY <2>1, <2>2, CountsAreFinite
<1> QED
    BY <1>2, <1>3, <1>6, <1>7, CountsAreFinite

(* A thread that gives its connection or slot back wakes one, if any sleeps. *)
LEMMA GivingStep ==
    ASSUME PoolTypeOK, NEW t \in Thread, thread[t] \in {"dialing", "using"}, Proceed(t, "away", 1)
    PROVE  /\ thread' \in [Thread -> {"away", "asleep", "awake", "dialing", "using"}]
           /\ lent' = lent - 1 /\ lent >= 1 /\ Asleep' \subseteq Asleep
           /\ awake' = awake + 1 \/ Asleep' = {}
<1>1. PICK woken \in SUBSET Asleep :
        /\ Cardinality(woken) = 1 \/ woken = Asleep
        /\ thread' = [u \in Thread |-> IF u = t THEN "away"
                                       ELSE IF u \in woken THEN "awake" ELSE thread[u]]
    BY DEF Proceed
<1>2. /\ thread' \in [Thread -> {"away", "asleep", "awake", "dialing", "using"}]
      /\ Lent' = Lent \ {t} /\ t \in Lent /\ Asleep' = Asleep \ woken
    BY <1>1 DEF PoolTypeOK, Lent, Asleep
<1>3. lent' = lent - 1
    BY <1>2, CountsAreFinite, FS_RemoveElement DEF lent
<1>4. lent >= 1
    BY <1>2, CountsAreFinite, FS_EmptySet DEF lent
<1>5. ASSUME Cardinality(woken) = 1 PROVE awake' = awake + 1
    <2>1. IsFiniteSet(woken)
        BY FS_Subset, CountsAreFinite
    <2>2. PICK u : woken = {u}
        BY <1>5, <2>1, FS_Singleton
    <2>3. u \notin Awake /\ Awake' = Awake \cup {u}
        BY <1>1, <2>2 DEF Awake, Asleep, PoolTypeOK
    <2> QED
        BY <2>3, CountsAreFinite, FS_AddElement DEF awake
<1> QED
    BY <1>1, <1>2, <1>3, <1>4, <1>5

(* What one step may take from and add to the threads that keep the pool busy. *)
LEMMA StillBusy ==
    ASSUME NEW l \in Nat, NEW a \in Nat, NEW m \in Nat, NEW k \in Nat, NEW b \in Nat,
           m <= l + a, k = l + 1, b >= a - 1
    PROVE  m <= k + b
OBVIOUS

LEMMA PoolStep == PoolInv /\ [PoolNext]_poolVars => PoolInv'
<1> SUFFICES ASSUME PoolInv, [PoolNext]_poolVars PROVE PoolInv'
    OBVIOUS
<1>1. /\ PoolTypeOK /\ total = lent + spare /\ total <= MaxSize /\ PoolBusy
      /\ lent \in Nat /\ awake \in Nat /\ MaxSize \in Nat
    BY CountsAreFinite, PoolAssumption DEF PoolInv, PoolCount, lent
<1>2. ASSUME NEW t \in Thread, TakeSpare(t) PROVE PoolInv'
    <2>1. PICK dead \in 0..spare : /\ dead < spare /\ spare' = spare - dead - 1
                                   /\ total' = total - dead /\ Proceed(t, "using", dead)
        BY <1>2 DEF TakeSpare
    <2>2. thread[t] \in {"away", "awake"} /\ ~disposed /\ disposed' = disposed
        BY <1>2 DEF TakeSpare
    <2>3. /\ thread' \in [Thread -> {"away", "asleep", "awake", "dialing", "using"}]
          /\ lent' = lent + 1 /\ awake' >= awake - 1 /\ awake' \in Nat /\ Asleep' \subseteq Asleep
        BY <1>1, <2>1, <2>2, TakingStep
    <2>4. PoolTypeOK'
        BY <1>1, <2>1, <2>2, <2>3 DEF PoolTypeOK
    <2>5. total' = lent' + spare' /\ total' <= MaxSize
        BY <1>1, <2>1, <2>3 DEF PoolTypeOK
    <2>6. PoolBusy'
        <3>1. Asleep' # {} => MaxSize <= lent' + awake'
            <4> SUFFICES ASSUME Asleep' # {} PROVE MaxSize <= lent' + awake'
                OBVIOUS
            <4>1. Asleep # {}
                BY <2>3
            <4>2. MaxSize <= lent + awake
                BY <1>1, <4>1 DEF PoolBusy
            <4>3. lent' \in Nat
                BY <1>1, <2>3
            <4> QED
                BY <1>1, <2>3, <4>2, <4>3, StillBusy
        <3> QED
            BY <2>2, <3>1 DEF PoolBusy
    <2> QED
        BY <2>4, <2>5, <2>6 DEF PoolInv, PoolCount, lent
<1>3. ASSUME NEW t \in Thread, TakeSlot(t) PROVE PoolInv'
    <2>1. /\ thread[t] \in {"away", "awake"} /\ ~disposed /\ disposed' = disposed
          /\ total - spare < MaxSize /\ spare' = 0 /\ total' = total - spare + 1
          /\ Proceed(t, "dialing", spare)
        BY <1>3 DEF TakeSlot
    <2>2. /\ thread' \in [Thread -> {"away", "asleep", "awake", "dialing", "using"}]
          /\ lent' = lent + 1 /\ awake' >= awake - 1 /\ awake' \in Nat /\ Asleep' \subseteq Asleep
        BY <1>1, <2>1, TakingStep
    <2>3. total' = lent' + spare' /\ total' <= MaxSize /\ total' \in Nat
        BY <1>1, <2>1, <2>2 DEF PoolTypeOK
    <2>4. PoolTypeOK'
        BY <1>1, <2>1, <2>2, <2>3 DEF PoolTypeOK
    <2>5. PoolBusy'
        <3>1. Asleep' # {} => MaxSize <= lent' + awake'
            <4> SUFFICES ASSUME Asleep' # {} PROVE MaxSize <= lent' + awake'
                OBVIOUS
            <4>1. Asleep # {}
                BY <2>2
            <4>2. MaxSize <= lent + awake
                BY <1>1, <4>1 DEF PoolBusy
            <4>3. lent' \in Nat
                BY <1>1, <2>2
            <4> QED
                BY <1>1, <2>2, <4>2, <4>3, StillBusy
        <3> QED
            BY <2>1, <3>1 DEF PoolBusy
    <2> QED
        BY <2>3, <2>4, <2>5 DEF PoolInv, PoolCount, lent
<1>4. ASSUME NEW t \in Thread, WaitOrRaise(t) PROVE PoolInv'
    <2>1. /\ thread[t] \in {"away", "awake"} /\ ~disposed /\ spare = 0 /\ total >= MaxSize
          /\ UNCHANGED <<spare, total, disposed>>
        BY <1>4 DEF WaitOrRaise
    <2>2. PICK s \in {"asleep", "away"} : thread' = [thread EXCEPT ![t] = s]
        BY <1>4 DEF WaitOrRaise
    <2>3. PoolTypeOK' /\ Lent' = Lent
        BY <1>1, <2>1, <2>2 DEF PoolTypeOK, Lent
    <2>4. lent' = lent
        BY <2>3 DEF lent
    <2>5. awake' \in Nat
        <3>1. Awake' \in SUBSET Awake
            BY <1>1, <2>2 DEF Awake, PoolTypeOK
        <3> QED
            BY <3>1, CountsAreFinite, FS_Subset, FS_CardinalityType DEF awake
    <2>6. lent >= MaxSize
        BY <1>1, <2>1 DEF PoolTypeOK
    <2>7. PoolBusy'
        <3>1. MaxSize <= lent' + awake'
            <4>1. lent' \in Nat /\ lent' >= MaxSize /\ MaxSize \in Nat
                BY <1>1, <2>4, <2>6
            <4>2. \A m, l, a \in Nat : l >= m => m <= l + a
                OBVIOUS
            <4> QED
                BY <4>1, <4>2, <2>5, Zenon
        <3> QED
            BY <2>1, <3>1 DEF PoolBusy
    <2> QED
        BY <1>1, <2>1, <2>3, <2>4, <2>7 DEF PoolInv, PoolCount, lent
<1>5. ASSUME NEW t \in Thread, RaiseDisposed(t) PROVE PoolInv'
    <2>1. /\ disposed /\ UNCHANGED <<spare, total, disposed>>
          /\ thread[t] = "awake" /\ thread' = [thread EXCEPT ![t] = "away"]
        BY <1>5 DEF RaiseDisposed
    <2>2. PoolTypeOK' /\ Lent' = Lent /\ Asleep' = Asleep
        BY <1>1, <2>1 DEF PoolTypeOK, Lent, Asleep
    <2> QED
        BY <1>1, <2>1, <2>2 DEF PoolInv, PoolCount, PoolBusy, lent
<1>6. ASSUME NEW t \in Thread, WaitTimesOut(t) PROVE PoolInv'
    <2>1. /\ thread[t] = "asleep" /\ thread' = [thread EXCEPT ![t] = "awake"]
          /\ UNCHANGED <<spare, total, disposed>>
        BY <1>6 DEF WaitTimesOut
    <2>2. /\ PoolTypeOK' /\ Lent' = Lent /\ Asleep' \subseteq Asleep
          /\ Awake' = Awake \cup {t} /\ t \notin Awake
        BY <1>1, <2>1 DEF PoolTypeOK, Lent, Asleep, Awake
    <2>3. awake' = awake + 1 /\ lent' = lent
        BY <2>2, CountsAreFinite, FS_AddElement DEF awake, lent
    <2>4. PoolBusy'
        BY <1>1, <2>1, <2>2, <2>3 DEF PoolBusy
    <2> QED
        BY <1>1, <2>1, <2>2, <2>3, <2>4 DEF PoolInv, PoolCount, lent
<1>7. ASSUME NEW t \in Thread, Dialed(t) PROVE PoolInv'
    <2>1. /\ thread[t] = "dialing" /\ thread' = [thread EXCEPT ![t] = "using"]
          /\ UNCHANGED <<spare, total, disposed>>
        BY <1>7 DEF Dialed
    <2>2. PoolTypeOK' /\ Lent' = Lent /\ Asleep' = Asleep /\ Awake' = Awake
        BY <1>1, <2>1 DEF PoolTypeOK, Lent, Asleep, Awake
    <2> QED
        BY <1>1, <2>1, <2>2 DEF PoolInv, PoolCount, PoolBusy, lent, awake
<1>8. ASSUME NEW t \in Thread, DialFails(t) \/ Release(t) PROVE PoolInv'
    <2>1. /\ thread[t] \in {"dialing", "using"} /\ Proceed(t, "away", 1) /\ disposed' = disposed
          /\ \/ spare' = spare + 1 /\ total' = total
             \/ spare' = spare /\ total' = total - 1
        BY <1>8 DEF DialFails, Release
    <2>2. /\ thread' \in [Thread -> {"away", "asleep", "awake", "dialing", "using"}]
          /\ lent' = lent - 1 /\ lent >= 1 /\ Asleep' \subseteq Asleep /\ (awake' = awake + 1 \/ Asleep' = {})
        BY <1>1, <2>1, GivingStep
    <2>3. PoolTypeOK' /\ total' = lent' + spare' /\ total' <= MaxSize
        BY <1>1, <2>1, <2>2 DEF PoolTypeOK
    <2>4. PoolBusy'
        BY <1>1, <2>1, <2>2 DEF PoolBusy
    <2> QED
        BY <2>3, <2>4 DEF PoolInv, PoolCount, lent
<1>9. CASE Dispose
    <2>1. /\ disposed' = TRUE /\ total' = total - spare /\ spare' = 0
          /\ thread' = [t \in Thread |-> IF t \in Asleep THEN "awake" ELSE thread[t]]
        BY <1>9 DEF Dispose
    <2>2. /\ thread' \in [Thread -> {"away", "asleep", "awake", "dialing", "using"}]
          /\ Lent' = Lent /\ Asleep' = {}
        BY <1>1, <2>1 DEF PoolTypeOK, Lent, Asleep
    <2>3. PoolTypeOK' /\ total' = lent + spare' /\ total' <= MaxSize
        BY <1>1, <2>1, <2>2 DEF PoolTypeOK
    <2> QED
        BY <2>2, <2>3 DEF PoolInv, PoolCount, PoolBusy, lent
<1>10. CASE UNCHANGED poolVars
    BY <1>1, <1>10 DEF poolVars, PoolInv, PoolTypeOK, PoolCount, PoolBusy, lent, awake, Lent, Awake, Asleep
<1> QED
    BY <1>2, <1>3, <1>4, <1>5, <1>6, <1>7, <1>8, <1>9, <1>10 DEF PoolNext

(* The inductive invariant: the counter is exact, and with a sleeper there  *)
(* are MaxSize threads with a connection or awake (acquire and release).    *)
THEOREM PoolInvariant == PoolSpec => []PoolInv
BY PoolInitial, PoolStep, PTL DEF PoolSpec

(* Whatever fails between two critical sections, no slot of the pool leaks   *)
(* and no connection beyond _max_size is opened.                             *)
THEOREM SlotsAreCounted == PoolSpec => []PoolCount
<1>1. PoolInv => PoolCount
    BY DEF PoolInv
<1> QED
    BY <1>1, PoolInvariant, PTL

(* A free slot or connection never waits beside a sleeping thread with      *)
(* nobody awake to take it.                                                  *)
THEOREM NoWakeUpIsLost == PoolSpec => []PoolWakes
<1>1. PoolInv => PoolWakes
    BY CountsAreFinite, PoolAssumption DEF PoolInv, PoolTypeOK, PoolCount, PoolBusy, PoolWakes, lent, awake
<1> QED
    BY <1>1, PoolInvariant, PTL

-----------------------------------------------------------------------------
(* Presence: the store counts every open tab but those a late command of a    *)
(* prune took out, so its limit limits the others.                            *)

Kept == Open \ swept

(* A tab whose disconnect handler runs is closed already.                    *)
ClosedLeave == \A t \in Tab : leaving[t] # "none" => socket[t] = "closed"

(* The handlers of a closing tab and expiry take only closed tabs out, and   *)
(* whatever open tab a prune takes out is in swept.                           *)
OpenIsConnected == Kept \subseteq connected

PresenceInv ==
    /\ PresenceTypeOK /\ ClosedLeave /\ OpenIsConnected /\ VisibleIsConnected
    /\ TabCap

LEMMA PresenceInitial == PresenceInit => PresenceInv
<1> SUFFICES ASSUME PresenceInit PROVE PresenceInv
    OBVIOUS
<1>1. Open \ swept = {} /\ Kept = {}
    BY DEF PresenceInit, Open, Kept
<1>2. Cardinality({}) = 0
    BY FS_EmptySet
<1> QED
    BY <1>1, <1>2, TabAssumption
    DEF PresenceInit, PresenceInv, PresenceTypeOK, ClosedLeave, OpenIsConnected,
        VisibleIsConnected, TabCap

LEMMA TabSetsAreFinite ==
    ASSUME NEW S, S \subseteq Tab PROVE IsFiniteSet(S) /\ Cardinality(S) \in Nat
BY TabsAreFinite, FS_Subset, FS_CardinalityType

(* A step that leaves the tabs that count as they are, or fewer of them.      *)
LEMMA FewerKept ==
    ASSUME PresenceInv, Kept' \subseteq Kept PROVE TabCap'
<1>1. Kept \subseteq Tab
    BY DEF Kept, Open
<1>2. IsFiniteSet(Kept) /\ Cardinality(Kept) \in Nat /\ Cardinality(Kept') \in Nat
    BY <1>1, TabSetsAreFinite
<1>3. Cardinality(Kept') <= Cardinality(Kept)
    BY <1>2, FS_Subset
<1>4. Cardinality(Kept) <= MaxTabs
    BY DEF PresenceInv, TabCap, Kept
<1> QED
    BY <1>2, <1>3, <1>4, TabAssumption DEF TabCap, Kept

(* A key that goes may leave one more command of a prune under way.           *)
LEMMA KeyGoneIsTyped ==
    ASSUME PresenceTypeOK, NEW t \in Tab, NEW sets \in SUBSET StoredSet, KeyGone(t, sets)
    PROVE  strays' \subseteq StoredSet \X Tab
BY DEF PresenceTypeOK, KeyGone

(* Of a step that changes the store: what is to be shown of it.               *)
LEMMA PresenceKept ==
    ASSUME PresenceInv, PresenceTypeOK', ClosedLeave', OpenIsConnected', VisibleIsConnected',
           Kept' \subseteq Kept
    PROVE  PresenceInv'
BY FewerKept DEF PresenceInv

LEMMA ConnectKeeps ==
    ASSUME PresenceInv, NEW t \in Tab, Connect(t) PROVE PresenceInv'
<1> USE DEF ClosedLeave, OpenIsConnected, VisibleIsConnected, Open, Kept
<1>1. PresenceTypeOK /\ ClosedLeave /\ OpenIsConnected /\ VisibleIsConnected
    BY DEF PresenceInv
<1>2. /\ connected' = connected \cup {t}
      /\ socket' = [socket EXCEPT ![t] = "open"] /\ socket[t] = "new"
      /\ ended' = FALSE /\ Cardinality(connected) < MaxTabs
      /\ UNCHANGED <<active, emptying, strays, swept, report, leaving, crashes>>
    BY DEF Connect, AddConnected
<1>3. PresenceTypeOK'
    BY <1>1, <1>2 DEF PresenceTypeOK
<1>4. ClosedLeave' /\ OpenIsConnected' /\ VisibleIsConnected'
    BY <1>1, <1>2 DEF PresenceTypeOK
<1>5. /\ IsFiniteSet(connected) /\ Cardinality(connected) \in Nat
      /\ IsFiniteSet(connected') /\ Cardinality(connected') \in Nat
    BY <1>1, <1>3, TabSetsAreFinite DEF PresenceTypeOK
<1>6. Cardinality(connected') <= Cardinality(connected) + 1
    <2>1. Cardinality(connected \cup {t}) =
            IF t \in connected THEN Cardinality(connected) ELSE Cardinality(connected) + 1
        BY <1>5, FS_AddElement
    <2> QED
        BY <1>2, <1>5, <2>1
<1>7. Cardinality(Kept') <= Cardinality(connected') /\ Cardinality(Kept') \in Nat
    <2>1. Kept' \subseteq connected'
        BY <1>4
    <2> QED
        BY <1>5, <2>1, FS_Subset, FS_CardinalityType
<1>8. Cardinality(Kept') <= MaxTabs
    BY <1>2, <1>5, <1>6, <1>7, TabAssumption
<1> QED
    BY <1>3, <1>4, <1>8 DEF PresenceInv, TabCap

(* Reports and the second half of a disconnect add a tab as connected.         *)
LEMMA ReportKeeps ==
    ASSUME PresenceInv, NEW t \in Tab, StoreReport(t) \/ DropActive(t) PROVE PresenceInv'
<1> USE DEF ClosedLeave, OpenIsConnected, VisibleIsConnected, Open, Kept
<1>1. PresenceTypeOK /\ ClosedLeave /\ OpenIsConnected /\ VisibleIsConnected
    BY DEF PresenceInv
<1>2. /\ connected' = connected \cup {t} /\ active' \in {active \cup {t}, active \ {t}}
      /\ strays' \subseteq StoredSet \X Tab
      /\ UNCHANGED <<socket, emptying, swept, ended, crashes>>
    <2>1. {"act"} \in SUBSET StoredSet
        BY DEF StoredSet
    <2>2. strays' \subseteq StoredSet \X Tab
        BY <1>1, <2>1, KeyGoneIsTyped
        DEF StoreReport, DropActive, AddActive, RemoveActive, PresenceTypeOK
    <2> QED
        BY <2>2 DEF StoreReport, DropActive, AddActive, RemoveActive
<1>3. /\ report' \in [Tab -> {"none", "visible", "hidden"}]
      /\ \/ leaving' = leaving
         \/ leaving[t] = "removed" /\ leaving' = [leaving EXCEPT ![t] = "readded"]
    BY <1>1 DEF StoreReport, DropActive, PresenceTypeOK
<1>4. PresenceTypeOK'
    BY <1>1, <1>2, <1>3 DEF PresenceTypeOK
<1> QED
    BY <1>1, <1>2, <1>3, <1>4, PresenceKept DEF PresenceTypeOK

(* What takes a tab out and is no prune takes out a closed one.                *)
LEMMA DropKeeps ==
    ASSUME PresenceInv, NEW t \in Tab, DropConnected(t) \/ ExpireEntry(t) PROVE PresenceInv'
<1> USE DEF ClosedLeave, OpenIsConnected, VisibleIsConnected, Open, Kept
<1>1. PresenceTypeOK /\ ClosedLeave /\ OpenIsConnected /\ VisibleIsConnected
    BY DEF PresenceInv
<1>2. /\ connected' = connected \ {t} /\ active' = active \ {t} /\ socket[t] = "closed"
      /\ strays' \subseteq StoredSet \X Tab
      /\ UNCHANGED <<socket, emptying, report, swept, ended, crashes>>
    <2>1. strays' \subseteq StoredSet \X Tab
        BY <1>1, KeyGoneIsTyped DEF DropConnected, ExpireEntry, RemoveConnected
    <2> QED
        BY <1>1, <2>1 DEF DropConnected, ExpireEntry, RemoveConnected
<1>3. leaving' = leaving \/ leaving' = [leaving EXCEPT ![t] = "removed"]
    BY DEF DropConnected, ExpireEntry
<1>4. PresenceTypeOK'
    BY <1>1, <1>2, <1>3 DEF PresenceTypeOK
<1> QED
    BY <1>1, <1>2, <1>3, <1>4, PresenceKept DEF PresenceTypeOK

(* What a prune takes out of connected is swept.                               *)
LEMMA PruneKeeps ==
    ASSUME PresenceInv,
           \/ \E set \in StoredSet :
                \/ PruneEmpty(set) \/ PruneDeletes(set)
                \/ \E t \in Tab : PruneRemoves(set, t)
           \/ \E t \in Tab : DeleteEmpty(t)
    PROVE  PresenceInv'
<1> USE DEF ClosedLeave, OpenIsConnected, VisibleIsConnected, Open, Kept
<1>1. PresenceTypeOK /\ ClosedLeave /\ OpenIsConnected /\ VisibleIsConnected
    BY DEF PresenceInv
<1>2. /\ connected' \subseteq connected /\ active' \subseteq active
      /\ swept' = swept \cup (connected \ connected')
      /\ emptying' \subseteq StoredSet /\ strays' \subseteq strays
      /\ UNCHANGED <<socket, report, ended, crashes>>
    BY <1>1 DEF PruneEmpty, PruneDeletes, PruneRemoves, DeleteEmpty, DeleteConnected, PresenceTypeOK
<1>3. \/ leaving' = leaving
      \/ \E t \in Tab, step \in {"asleep", "terminating"} :
            leaving[t] # "none" /\ leaving' = [leaving EXCEPT ![t] = step]
    BY DEF PruneEmpty, PruneDeletes, PruneRemoves, DeleteEmpty
<1>4. PresenceTypeOK'
    BY <1>1, <1>2, <1>3 DEF PresenceTypeOK
<1>5. ClosedLeave'
    BY <1>1, <1>2, <1>3 DEF PresenceTypeOK
<1>6. OpenIsConnected' /\ VisibleIsConnected' /\ Kept' \subseteq Kept
    BY <1>1, <1>2
<1> QED
    BY <1>4, <1>5, <1>6, PresenceKept

(* The steps that leave the store alone.                                       *)
LEMMA HandlerKeeps ==
    ASSUME PresenceInv,
           \E t \in Tab :
            \/ \E state \in {"visible", "hidden"} : BeginReport(t, state)
            \/ Disconnect(t) \/ CountTabs(t) \/ GraceEnds(t) \/ Terminate(t) \/ WorkerDies(t)
    PROVE  PresenceInv'
<1> USE DEF ClosedLeave, OpenIsConnected, VisibleIsConnected, Open, Kept
<1>1. PresenceTypeOK /\ ClosedLeave /\ OpenIsConnected /\ VisibleIsConnected
    BY DEF PresenceInv
<1>2. UNCHANGED storeVars
    BY DEF BeginReport, Disconnect, CountTabs, GraceEnds, Terminate, WorkerDies
<1>3. /\ report' \in [Tab -> {"none", "visible", "hidden"}]
      /\ ended' \in BOOLEAN /\ crashes' \in 0..CrashLimit
    <2>1. report' \in [Tab -> {"none", "visible", "hidden"}]
        BY <1>1 DEF BeginReport, Disconnect, CountTabs, GraceEnds, Terminate, WorkerDies, PresenceTypeOK
    <2>2. ended' \in BOOLEAN
        BY <1>1 DEF BeginReport, Disconnect, CountTabs, GraceEnds, Terminate, WorkerDies, PresenceTypeOK
    <2>3. crashes' = crashes \/ (crashes' = crashes + 1 /\ crashes < CrashLimit)
        BY DEF BeginReport, Disconnect, CountTabs, GraceEnds, Terminate, WorkerDies
    <2>4. crashes' \in 0..CrashLimit
        BY <1>1, <2>3, TabAssumption DEF PresenceTypeOK
    <2> QED
        BY <2>1, <2>2, <2>4
<1>4. PICK t \in Tab :
            /\ \/ leaving' = leaving
               \/ \E step \in {"begun", "empty", "done", "ending"} :
                    leaving' = [leaving EXCEPT ![t] = step]
            /\ socket' = socket \/ socket' = [socket EXCEPT ![t] = "closed"]
            /\ leaving' = leaving \/ socket'[t] = "closed"
    BY <1>1 DEF BeginReport, Disconnect, CountTabs, GraceEnds, Terminate, WorkerDies, PresenceTypeOK
<1>5. PresenceTypeOK'
    BY <1>1, <1>2, <1>3, <1>4 DEF PresenceTypeOK, storeVars
<1>6. ClosedLeave' /\ Kept' \subseteq Kept
    BY <1>1, <1>2, <1>4 DEF PresenceTypeOK, storeVars
<1>7. OpenIsConnected' /\ VisibleIsConnected'
    BY <1>1, <1>2, <1>6 DEF storeVars
<1> QED
    BY <1>5, <1>6, <1>7, PresenceKept

LEMMA PresenceStep == PresenceInv /\ [PresenceNext]_presenceVars => PresenceInv'
<1> SUFFICES ASSUME PresenceInv, [PresenceNext]_presenceVars PROVE PresenceInv'
    OBVIOUS
<1>1. CASE UNCHANGED presenceVars
    BY <1>1
    DEF presenceVars, PresenceInv, PresenceTypeOK, ClosedLeave, OpenIsConnected, VisibleIsConnected,
        TabCap, Kept, Open
<1> QED
    BY <1>1, ConnectKeeps, ReportKeeps, DropKeeps, PruneKeeps, HandlerKeeps DEF PresenceNext

(* What add_connected's script counts includes every open tab that no late   *)
(* command of a prune took out, and what counts as visible among those is    *)
(* counted as connected; with the types of the store and its handlers.       *)
THEOREM PresenceInvariant == PresenceSpec => []PresenceInv
BY PresenceInitial, PresenceStep, PTL DEF PresenceSpec

(* The sockets open beyond max_connections_per_user are at most those whose   *)
(* entry a late command of a prune took out.                                  *)
THEOREM TabsAreCapped == PresenceSpec => []TabCap
<1>1. PresenceInv => TabCap
    BY DEF PresenceInv
<1> QED
    BY <1>1, PresenceInvariant, PTL

(* A tab counted as visible is counted as connected, or was taken out by a    *)
(* late command of a prune.                                                   *)
THEOREM VisibleTabsAreConnected == PresenceSpec => []VisibleIsConnected
<1>1. PresenceInv => VisibleIsConnected
    BY DEF PresenceInv
<1> QED
    BY <1>1, PresenceInvariant, PTL

(* The presence store, the prunes and the handlers, for any tabs.             *)
THEOREM PresenceTypeCorrect == PresenceSpec => []PresenceTypeOK
<1>1. PresenceInv => PresenceTypeOK
    BY DEF PresenceInv
<1> QED
    BY <1>1, PresenceInvariant, PTL

-----------------------------------------------------------------------------
(* Groups: the use of a link and the member it pays for are one statement.   *)

LinkInv ==
    /\ uses \in [Link -> Nat] /\ entered \in [Link -> Nat]
    /\ LinkPays

LEMMA LinkInitial == GroupInit => LinkInv
BY GroupAssumption DEF GroupInit, LinkInv, LinkPays

LEMMA JoinPays == ASSUME LinkInv, NEW k \in Task, Join(k) PROVE LinkInv'
<1> DEFINE l == task[k].with
<1>1. CASE UNCHANGED <<uses, entered>>
    BY <1>1 DEF LinkInv, LinkPays
<1>2. CASE /\ uses[l] < MaxUses
           /\ uses' = [uses EXCEPT ![l] = @ + 1] /\ entered' = [entered EXCEPT ![l] = @ + 1]
    <2> HIDE DEF l
    <2>1. \A m \in Link : /\ uses'[m] = IF m = l THEN uses[m] + 1 ELSE uses[m]
                          /\ entered'[m] = IF m = l THEN entered[m] + 1 ELSE entered[m]
        BY <1>2 DEF LinkInv
    <2>2. uses' \in [Link -> Nat] /\ entered' \in [Link -> Nat]
        <3>1. DOMAIN uses' = Link /\ DOMAIN entered' = Link
            BY <1>2 DEF LinkInv
        <3>2. \A m \in Link : uses'[m] \in Nat /\ entered'[m] \in Nat
            BY <2>1 DEF LinkInv
        <3> QED
            BY <1>2, <3>1, <3>2 DEF LinkInv
    <2>3. LinkPays'
        BY <1>2, <2>1, GroupAssumption DEF LinkInv, LinkPays
    <2> QED
        BY <2>2, <2>3 DEF LinkInv
<1> QED
    BY <1>1, <1>2 DEF Join

(* No other request touches the uses of a link or the people it let in.      *)
LEMMA LinkStep == LinkInv /\ [GroupNext]_groupVars => LinkInv'
<1> SUFFICES ASSUME LinkInv, [GroupNext]_groupVars PROVE LinkInv'
    OBVIOUS
<1>1. ASSUME UNCHANGED <<uses, entered>> PROVE LinkInv'
    BY <1>1 DEF LinkInv, LinkPays
<1>2. \A k, what : Checked(k, what) => UNCHANGED <<uses, entered>>
    BY DEF Checked, linkVars
<1>3. ASSUME NEW k \in Task, NEW a \in Person, NEW p \in Person,
             \/ \E r \in Role : CheckRole(k, a, p, r)
             \/ \E does \in {"remove", "ban"} : CheckRemove(k, a, p, does)
             \/ \E does \in {"add", "invite"} : CheckAdd(k, a, p, does)
      PROVE LinkInv'
    BY <1>1, <1>2, <1>3 DEF CheckRole, CheckRemove, CheckAdd
<1>4. ASSUME NEW k \in Task, NEW p \in Person,
             \/ CheckLeave(k, p)
             \/ \E does \in {"accept", "decline"} : CheckAnswer(k, p, does)
             \/ \E does \in {"create_link", "revoke_links"} : CheckLink(k, p, does)
             \/ \E l \in Link : CheckJoin(k, p, l)
      PROVE LinkInv'
    BY <1>1, <1>2, <1>4 DEF CheckLeave, CheckAnswer, CheckLink, CheckJoin
<1>5. ASSUME NEW k \in Task,
             \/ SetRole(k) \/ LeaveGroup(k) \/ Dissolve(k) \/ Ban(k) \/ Remove(k)
             \/ Add(k) \/ Invite(k) \/ Accept(k) \/ Decline(k)
             \/ RevokeLinks(k) \/ \E l \in Link : CreateLink(k, l)
      PROVE LinkInv'
    BY <1>1, <1>5 DEF SetRole, LeaveGroup, Dissolve, Ban, Remove, Add, Invite, Accept, Decline,
                      RevokeLinks, CreateLink, linkVars
<1>6. CASE UNCHANGED groupVars
    BY <1>1, <1>6 DEF groupVars, linkVars
<1> QED
    BY <1>3, <1>4, <1>5, <1>6, JoinPays DEF GroupNext

(* A link lets in as many people as it has uses, and never more than it was  *)
(* made for, whichever requests run beside consume_invite_link.              *)
THEOREM LinksPay == GroupSpec => []LinkPays
<1>1. LinkInv => LinkPays
    BY DEF LinkInv
<1> QED
    BY <1>1, LinkInitial, LinkStep, PTL DEF GroupSpec

(* What a request has checked is about people and roles.                      *)
TaskShapes ==
    \A k \in Task : /\ task[k].does = "role" => task[k].to \in Role
                    /\ task[k].does = "ban" => task[k].of \in Person

GroupTypes == GroupTypeOK /\ TaskShapes

LEMMA GroupTypesInitial == GroupInit => GroupTypes
<1> SUFFICES ASSUME GroupInit PROVE GroupTypes
    OBVIOUS
<1>1. link \in [Link -> {"new", "active", "off"}]
    <2>1. \A l \in Link : FirstLinks[l] \in {"new", "active"}
        BY GroupAssumption
    <2> QED
        BY <2>1, GroupAssumption DEF GroupInit
<1>2. TaskShapes
    BY DEF GroupInit, TaskShapes, NewTask
<1> QED
    BY <1>1, <1>2, GroupAssumption DEF GroupInit, GroupTypes, GroupTypeOK

(* A request is read and checked.                                             *)
LEMMA CheckedTypes ==
    ASSUME GroupTypes, NEW k \in Task, NEW what, Checked(k, what),
           what.does = "role" => what.to \in Role, what.does = "ban" => what.of \in Person
    PROVE  GroupTypes'
<1>1. task' = [task EXCEPT ![k] = what] /\ UNCHANGED <<role, exists, banned, invited, link, uses, entered>>
    BY DEF Checked, memberVars, linkVars
<1>2. DOMAIN task' = Task /\ TaskShapes'
    BY <1>1 DEF GroupTypes, GroupTypeOK, TaskShapes
<1> QED
    BY <1>1, <1>2 DEF GroupTypes, GroupTypeOK

(* A request is over.                                                         *)
LEMMA FinishTypes ==
    ASSUME GroupTypes, NEW k \in Task, FinishTask(k)
    PROVE  DOMAIN task' = Task /\ TaskShapes'
BY DEF GroupTypes, GroupTypeOK, TaskShapes, FinishTask, Over

LEMMA GroupTypesStep == GroupTypes /\ [GroupNext]_groupVars => GroupTypes'
<1> SUFFICES ASSUME GroupTypes, [GroupNext]_groupVars PROVE GroupTypes'
    OBVIOUS
<1>1. GroupTypeOK
    BY DEF GroupTypes
<1>2. ASSUME NEW k \in Task, NEW a \in Person, NEW p \in Person, NEW r \in Role, CheckRole(k, a, p, r)
      PROVE GroupTypes'
    BY <1>2, CheckedTypes DEF CheckRole
<1>3. ASSUME NEW k \in Task, NEW a \in Person, NEW p \in Person,
             \/ \E does \in {"remove", "ban"} : CheckRemove(k, a, p, does)
             \/ \E does \in {"add", "invite"} : CheckAdd(k, a, p, does)
      PROVE GroupTypes'
    <2>1. PICK does \in {"remove", "ban", "add", "invite"} : Checked(k, [does |-> does, of |-> p])
        BY <1>3 DEF CheckRemove, CheckAdd
    <2> QED
        BY <2>1, CheckedTypes
<1>4. ASSUME NEW k \in Task, NEW p \in Person,
             \/ CheckLeave(k, p)
             \/ \E does \in {"accept", "decline"} : CheckAnswer(k, p, does)
             \/ \E does \in {"create_link", "revoke_links"} : CheckLink(k, p, does)
             \/ \E l \in Link : CheckJoin(k, p, l)
      PROVE GroupTypes'
    <2>1. ASSUME CheckLeave(k, p) PROVE GroupTypes'
        <3> DEFINE step(heirs) == [does |-> "leave", of |-> p, heirs |-> heirs]
        <3>1. Checked(k, [does |-> "dissolve"]) \/ \E heirs : Checked(k, step(heirs))
            <4> HIDE DEF step
            <4>1. CASE Owners # {p}
                BY <2>1, <4>1 DEF CheckLeave, step
            <4>2. CASE Owners = {p}
                BY <2>1, <4>2 DEF CheckLeave, step
            <4> QED
                BY <4>1, <4>2
        <3>2. \A heirs : step(heirs).does = "leave"
            OBVIOUS
        <3>3. ASSUME Checked(k, [does |-> "dissolve"]) PROVE GroupTypes'
            BY <3>3, CheckedTypes
        <3> HIDE DEF step
        <3>4. ASSUME NEW heirs, Checked(k, step(heirs)) PROVE GroupTypes'
            BY <3>2, <3>4, CheckedTypes
        <3> QED
            BY <3>1, <3>3, <3>4
    <2>2. ASSUME NEW does \in {"accept", "decline"}, CheckAnswer(k, p, does) PROVE GroupTypes'
        BY <2>2, CheckedTypes DEF CheckAnswer
    <2>3. ASSUME NEW does \in {"create_link", "revoke_links"}, CheckLink(k, p, does) PROVE GroupTypes'
        BY <2>3, CheckedTypes DEF CheckLink
    <2>4. ASSUME NEW l \in Link, CheckJoin(k, p, l) PROVE GroupTypes'
        BY <2>4, CheckedTypes DEF CheckJoin
    <2> QED
        BY <1>4, <2>1, <2>2, <2>3, <2>4
<1>5. ASSUME NEW k \in Task, \/ SetRole(k) \/ LeaveGroup(k) \/ Remove(k) \/ Add(k)
      PROVE GroupTypes'
    <2>1. FinishTask(k) /\ UNCHANGED <<exists, banned, invited, link, uses, entered>>
        BY <1>5 DEF SetRole, LeaveGroup, Remove, Add, linkVars
    <2>2. ASSUME SetRole(k) PROVE role' \in [Person -> Role]
        BY <1>1, <2>2 DEF SetRole, GroupTypeOK, GroupTypes, TaskShapes, Role
    <2>3. ASSUME LeaveGroup(k) \/ Remove(k) \/ Add(k) PROVE role' \in [Person -> Role]
        BY <1>1, <2>3 DEF LeaveGroup, Remove, Add, Enter, GroupTypeOK, Role
    <2> QED
        BY <1>1, <1>5, <2>1, <2>2, <2>3, FinishTypes DEF GroupTypes, GroupTypeOK
<1>6. ASSUME NEW k \in Task, \/ Dissolve(k) \/ Invite(k) \/ Accept(k) \/ Decline(k) PROVE GroupTypes'
    <2>1. FinishTask(k) /\ UNCHANGED <<banned, uses, entered>> /\ exists' \in BOOLEAN
        BY <1>1, <1>6 DEF Dissolve, Invite, Accept, Decline, linkVars, GroupTypeOK
    <2>2. role' \in [Person -> Role]
        BY <1>1, <1>6 DEF Dissolve, Invite, Accept, Decline, Enter, GroupTypeOK, Role
    <2>3. invited' \in [Person -> {"none", "pending", "accepted", "declined"}]
        BY <1>1, <1>6 DEF Dissolve, Invite, Accept, Decline, GroupTypeOK
    <2>4. link' \in [Link -> {"new", "active", "off"}]
        BY <1>1, <1>6 DEF Dissolve, Invite, Accept, Decline, linkVars, GroupTypeOK
    <2> QED
        BY <1>1, <2>1, <2>2, <2>3, <2>4, FinishTypes DEF GroupTypes, GroupTypeOK
<1>7. ASSUME NEW k \in Task, \/ RevokeLinks(k) \/ \E l \in Link : CreateLink(k, l) PROVE GroupTypes'
    <2>1. FinishTask(k) /\ UNCHANGED <<role, exists, banned, invited, uses, entered>>
        BY <1>7 DEF RevokeLinks, CreateLink, memberVars
    <2>2. link' \in [Link -> {"new", "active", "off"}]
        BY <1>1, <1>7 DEF RevokeLinks, CreateLink, GroupTypeOK
    <2> QED
        BY <1>1, <2>1, <2>2, FinishTypes DEF GroupTypes, GroupTypeOK
<1>8. ASSUME NEW k \in Task, Ban(k) PROVE GroupTypes'
    <2>1. /\ task' = [task EXCEPT ![k].does = "remove"] /\ banned' = banned \cup {task[k].of}
          /\ task[k].does = "ban" /\ UNCHANGED <<role, exists, invited, link, uses, entered>>
        BY <1>8 DEF Ban, linkVars
    <2>2. \A j \in Task : j # k => task'[j] = task[j]
        BY <1>1, <2>1 DEF GroupTypeOK
    <2>3. task'[k] = [task[k] EXCEPT !.does = "remove"]
        BY <1>1, <2>1 DEF GroupTypeOK
    <2> QED
        BY <1>1, <2>1, <2>2, <2>3 DEF GroupTypes, GroupTypeOK, TaskShapes
<1>9. ASSUME NEW k \in Task, Join(k) PROVE GroupTypes'
    <2>1. FinishTask(k) /\ UNCHANGED <<exists, banned, invited, link>>
        BY <1>9 DEF Join
    <2>2. role' \in [Person -> Role]
        BY <1>1, <1>9 DEF Join, GroupTypeOK, Role
    <2>3. uses' \in [Link -> Nat] /\ entered' \in [Link -> Nat]
        BY <1>1, <1>9 DEF Join, GroupTypeOK
    <2> QED
        BY <1>1, <2>1, <2>2, <2>3, FinishTypes DEF GroupTypes, GroupTypeOK
<1>10. CASE UNCHANGED groupVars
    BY <1>10 DEF groupVars, memberVars, linkVars, GroupTypes, GroupTypeOK, TaskShapes
<1> QED
    BY <1>2, <1>3, <1>4, <1>5, <1>6, <1>7, <1>8, <1>9, <1>10 DEF GroupNext

(* Members, invitations, links and bans are what their columns can hold,      *)
(* whichever requests commit on what they read earlier.                       *)
THEOREM GroupTypeCorrect == GroupSpec => []GroupTypeOK
<1>1. GroupTypes => GroupTypeOK
    BY DEF GroupTypes
<1> QED
    BY <1>1, GroupTypesInitial, GroupTypesStep, PTL DEF GroupSpec

-----------------------------------------------------------------------------
(* Moderation: the row lock of the job keeps the workers of a report apart   *)
(* from the read of its case to the commit that opens one; only requests     *)
(* that triage at once have no such lock, and their reports are set apart.   *)

WorkSteps == {"claimed", "new", "known", "failing", "asking", "asked"}

CaseShapes ==
    /\ reportStatus \in [Report -> {"none", "received", "triaged", "closed"}]
    /\ cases \in [Report -> Nat] /\ atOnce \subseteq Report
    /\ worker \in [Worker -> {NoJob} \cup [step : WorkSteps, on : Report]]

(* A request that triages its report has set it apart.                       *)
AskedIsAtOnce ==
    \A r \in Report : \A w \in Worker :
        WorksOn(w, r) /\ worker[w].step \in {"asking", "asked"} => r \in atOnce

(* Nobody else holds the job of a report that a worker holds.                *)
LockIsAlone == \A r \in Report : \A v, w \in Worker : Holds(v, r) /\ Holds(w, r) => v = w

(* A worker that found no case is right until it commits one.                *)
NewHasNoCase ==
    \A r \in Report \ atOnce : \A w \in Worker :
        WorksOn(w, r) /\ worker[w].step = "new" => cases[r] = 0

(* Only a case closes a report.                                              *)
ClosedHasCase ==
    \A r \in Report \ atOnce :
        cases[r] <= 1 /\ (reportStatus[r] = "closed" => cases[r] = 1)

CaseInv == CaseShapes /\ AskedIsAtOnce /\ LockIsAlone /\ NewHasNoCase /\ ClosedHasCase

CaseStep ==
    \A r \in Report \ atOnce' :
        /\ cases'[r] <= 1
        /\ reportStatus[r] = "closed" => reportStatus'[r] = "closed"

LEMMA CaseInitial == ModerationInit => CaseInv
BY DEF ModerationInit, CaseInv, CaseShapes, AskedIsAtOnce, LockIsAlone, NewHasNoCase, ClosedHasCase,
       Holds, WorksOn

(* A worker gives its job up, or is done with it.                             *)
LEMMA RestStep ==
    ASSUME CaseInv, NEW w \in Worker, Rest(w), UNCHANGED <<reportStatus, cases, atOnce>>
    PROVE  CaseInv' /\ CaseStep
<1> USE DEF CaseInv, CaseShapes, Holds, WorksOn
<1>1. worker' = [worker EXCEPT ![w] = NoJob]
    BY DEF Rest
<1>2. CaseShapes' /\ ClosedHasCase' /\ CaseStep
    BY <1>1 DEF ClosedHasCase, CaseStep
<1>3. \A v \in Worker, q \in Report : WorksOn(v, q)' => WorksOn(v, q) /\ worker'[v] = worker[v]
    BY <1>1
<1> QED
    BY <1>2, <1>3 DEF LockIsAlone, NewHasNoCase, AskedIsAtOnce

(* A worker takes a job nobody holds, or goes on with its own.                *)
LEMMA WorkStep ==
    ASSUME CaseInv, NEW w \in Worker, NEW r \in Report,
           UNCHANGED <<reportStatus, cases, atOnce>>,
           ~JobLocked(r) \/ Holds(w, r),
           NEW step \in {"claimed", "new", "known", "failing"},
           Work(w, r, step), step = "new" => cases[r] = 0
    PROVE  CaseInv' /\ CaseStep
<1> USE DEF CaseInv, CaseShapes, Holds, WorksOn
<1>1. worker' = [worker EXCEPT ![w] = [step |-> step, on |-> r]]
    BY DEF Work
<1>2. CaseShapes' /\ ClosedHasCase' /\ CaseStep
    BY <1>1 DEF ClosedHasCase, CaseStep, WorkSteps
<1>3. \A v \in Worker, q \in Report :
        WorksOn(v, q)' => \/ v # w /\ WorksOn(v, q) /\ worker'[v] = worker[v]
                          \/ v = w /\ q = r /\ worker'[v].step = step
    BY <1>1
<1>4. \A v \in Worker : v # w => ~Holds(v, r)
    BY DEF JobLocked, LockIsAlone
<1>5. LockIsAlone'
    BY <1>3, <1>4 DEF LockIsAlone
<1>6. NewHasNoCase'
    BY <1>3 DEF NewHasNoCase
<1>7. AskedIsAtOnce'
    BY <1>3 DEF AskedIsAtOnce
<1> QED
    BY <1>2, <1>5, <1>6, <1>7

(* The commit of a triage.                                                    *)
LEMMA TriageCommitStep ==
    ASSUME CaseInv, NEW w \in Worker, NEW r \in Report, CommitTriage(w, r)
    PROVE  CaseInv' /\ CaseStep
<1> USE DEF CaseInv, CaseShapes, Holds, WorksOn
<1>1. CASE worker[w].step # "new"
    BY <1>1, RestStep DEF CommitTriage
<1>2. CASE worker[w].step = "new"
    <2>1. PICK s \in {"triaged", "closed"} :
            /\ cases' = [cases EXCEPT ![r] = @ + 1]
            /\ reportStatus' = [reportStatus EXCEPT ![r] = s]
            /\ worker' = [worker EXCEPT ![w] = NoJob]
        BY <1>2 DEF CommitTriage, OpenCase, Rest
    <2>2. /\ r \notin atOnce => cases[r] = 0 /\ reportStatus[r] # "closed"
          /\ Holds(w, r)
        BY <1>2 DEF CommitTriage, NewHasNoCase, ClosedHasCase
    <2>3. /\ cases'[r] = cases[r] + 1 /\ \A q \in Report : q # r => cases'[q] = cases[q]
          /\ atOnce' = atOnce
        BY <2>1, <1>2 DEF CommitTriage
    <2>4. CaseShapes'
        BY <2>1, <2>3
    <2>5. \A v \in Worker, q \in Report :
            WorksOn(v, q)' => v # w /\ WorksOn(v, q) /\ worker'[v] = worker[v]
        BY <2>1
    <2>6. LockIsAlone'
        BY <2>5 DEF LockIsAlone
    <2>7. NewHasNoCase'
        BY <2>2, <2>3, <2>5 DEF NewHasNoCase, LockIsAlone
    <2>8. ClosedHasCase'
        BY <2>1, <2>2, <2>3 DEF ClosedHasCase
    <2>9. CaseStep
        BY <2>1, <2>2, <2>3 DEF CaseStep, ClosedHasCase
    <2>10. AskedIsAtOnce'
        BY <2>3, <2>5 DEF AskedIsAtOnce
    <2> QED
        BY <2>4, <2>6, <2>7, <2>8, <2>9, <2>10
<1> QED
    BY <1>1, <1>2

(* A request that triages its report: it holds no job, and what it does to    *)
(* its own report concerns no other.                                          *)
LEMMA AtOnceStep ==
    ASSUME CaseInv, NEW w \in Worker, NEW r \in Report,
           SubmitAtOnce(w, r) \/ ReadAtOnce(w, r) \/ CommitAtOnce(w, r)
    PROVE  CaseInv' /\ CaseStep
<1> USE DEF CaseInv, CaseShapes, Holds, WorksOn
<1>1. PICK step \in {"asking", "asked", "none"} :
        worker' = [worker EXCEPT ![w] = IF step = "none" THEN NoJob ELSE [step |-> step, on |-> r]]
    BY DEF SubmitAtOnce, ReadAtOnce, CommitAtOnce, Rest, Work
<1>2. r \in atOnce' /\ atOnce \subseteq atOnce' /\ atOnce' \subseteq Report
    BY DEF SubmitAtOnce, ReadAtOnce, CommitAtOnce, AskedIsAtOnce
<1>3. /\ reportStatus' \in [Report -> {"none", "received", "triaged", "closed"}]
      /\ cases' \in [Report -> Nat]
      /\ \A q \in Report : q # r => reportStatus'[q] = reportStatus[q] /\ cases'[q] = cases[q]
    BY DEF SubmitAtOnce, ReadAtOnce, CommitAtOnce, SubmitReport, OpenCase
<1>4. \A v \in Worker, q \in Report :
        WorksOn(v, q)' => \/ v # w /\ WorksOn(v, q) /\ worker'[v] = worker[v]
                          \/ v = w /\ q = r /\ worker'[v].step \in {"asking", "asked"}
    BY <1>1
<1>5. CaseShapes'
    BY <1>1, <1>2, <1>3 DEF WorkSteps
<1>6. ClosedHasCase' /\ CaseStep
    BY <1>2, <1>3 DEF ClosedHasCase, CaseStep
<1>7. LockIsAlone'
    BY <1>4 DEF LockIsAlone
<1>8. NewHasNoCase' /\ AskedIsAtOnce'
    BY <1>2, <1>3, <1>4 DEF NewHasNoCase, AskedIsAtOnce
<1> QED
    BY <1>5, <1>6, <1>7, <1>8

LEMMA ReportStep == CaseInv /\ [ModerationNext]_moderationVars => CaseInv' /\ CaseStep
<1> SUFFICES ASSUME CaseInv, [ModerationNext]_moderationVars PROVE CaseInv' /\ CaseStep
    OBVIOUS
<1>1. ASSUME NEW w \in Worker, NEW r \in Report, ClaimJob(w, r) \/ ReadCase(w, r) \/ TriageFails(w, r)
      PROVE CaseInv' /\ CaseStep
    <2>1. ~JobLocked(r) \/ Holds(w, r)
        BY <1>1 DEF ClaimJob, ReadCase, TriageFails, Holds
    <2>2. UNCHANGED <<reportStatus, cases, atOnce>>
        BY <1>1 DEF ClaimJob, ReadCase, TriageFails
    <2>3. cases[r] > 0 \/ cases[r] = 0
        BY DEF CaseInv, CaseShapes
    <2>4. \E step \in {"claimed", "new", "known", "failing"} : Work(w, r, step) /\ (step = "new" => cases[r] = 0)
        BY <1>1, <2>3 DEF ClaimJob, ReadCase, TriageFails
    <2> QED
        BY <2>1, <2>2, <2>4, WorkStep
<1>2. ASSUME NEW w \in Worker, \/ WorkerStops(w)
                               \/ \E r \in Report : MarkFailed(w, r)
      PROVE CaseInv' /\ CaseStep
    BY <1>2, RestStep DEF WorkerStops, MarkFailed
<1>3. ASSUME NEW r \in Report, CreateReport(r) \/ DecideCase(r) PROVE CaseInv' /\ CaseStep
    <2>1. /\ cases' = cases /\ worker' = worker /\ atOnce' = atOnce
          /\ \/ reportStatus' = [reportStatus EXCEPT ![r] = IF @ = "none" THEN "received" ELSE @]
             \/ reportStatus' = [reportStatus EXCEPT ![r] = "closed"] /\ cases[r] > 0
        BY <1>3 DEF CreateReport, SubmitReport, DecideCase
    <2>2. CaseShapes' /\ ClosedHasCase' /\ CaseStep
        BY <2>1 DEF CaseInv, CaseShapes, ClosedHasCase, CaseStep
    <2> QED
        BY <2>1, <2>2 DEF CaseInv, AskedIsAtOnce, LockIsAlone, NewHasNoCase, Holds, WorksOn
<1>4. ASSUME \/ \E r \in Report : EnqueueReport(r) \/ EnqueueFails(r) \/ RetryComes(r)
             \/ UNCHANGED moderationVars
      PROVE CaseInv' /\ CaseStep
    <2>1. UNCHANGED <<cases, worker, reportStatus, atOnce>>
        BY <1>4 DEF EnqueueReport, EnqueueFails, RetryComes, moderationVars
    <2>2. CaseStep
        BY <2>1 DEF CaseStep, CaseInv, CaseShapes, ClosedHasCase
    <2> QED
        BY <2>1, <2>2 DEF CaseInv, CaseShapes, AskedIsAtOnce, LockIsAlone, NewHasNoCase, ClosedHasCase, Holds, WorksOn
<1> QED
    BY <1>1, <1>2, <1>3, <1>4, TriageCommitStep, AtOnceStep DEF ModerationNext

(* The inductive invariant: one worker holds a job, and what it read of the   *)
(* report's cases stays true until it commits.                                *)
THEOREM CaseInvariant == ModerationSpec => []CaseInv
BY CaseInitial, ReportStep, PTL DEF ModerationSpec

(* A report that only workers triage becomes one case, and the decision about *)
(* it is final, although a failed worker may mark a job again that another    *)
(* one has finished.                                                          *)
THEOREM ReportsBecomeOneCase == ModerationSpec => OneCase
<1>1. CaseInv /\ [ModerationNext]_moderationVars => [CaseStep]_moderationVars
    BY ReportStep
<1>2. [CaseStep]_moderationVars <=>
        [\A r \in Report \ atOnce' :
            /\ cases'[r] <= 1
            /\ reportStatus[r] = "closed" => reportStatus'[r] = "closed"]_moderationVars
    BY DEF CaseStep
<1> QED
    BY <1>1, <1>2, CaseInvariant, PTL DEF ModerationSpec, OneCase

(* A worker holds a job only while it has attempts left, and alone; so the    *)
(* attempt its commit counts is one of them.                                  *)
AttemptLeft ==
    \A r \in Report : \A w \in Worker :
        Holds(w, r) => /\ attempts[r] < MaxAttempts
                       /\ \A v \in Worker : Holds(v, r) => v = w

ModerationTypes ==
    /\ ModerationTypeOK /\ AttemptLeft
    /\ DOMAIN worker = Worker

LEMMA ModerationTypesInitial == ModerationInit => ModerationTypes
BY ModerationAssumption DEF ModerationInit, ModerationTypes, ModerationTypeOK, AttemptLeft, Holds, WorksOn

(* A step of one worker that leaves the attempts as they are.                 *)
LEMMA WorkerTypes ==
    ASSUME ModerationTypes, NEW w \in Worker, attempts' = attempts,
           NEW r \in Report,
           \/ Rest(w)
           \/ \E step \in {"asking", "asked"} : Work(w, r, step)
           \/ /\ (~JobLocked(r) /\ attempts[r] < MaxAttempts) \/ Holds(w, r)
              /\ \E step \in {"claimed", "new", "known", "failing"} : Work(w, r, step)
    PROVE  /\ DOMAIN worker' = Worker /\ AttemptLeft'
           /\ \A v \in Worker : worker'[v] = NoJob \/
                /\ worker'[v].step \in WorkSteps
                /\ worker'[v].on \in Report
<1> USE DEF ModerationTypes, ModerationTypeOK, Holds, WorksOn, NoJob, WorkSteps
<1>1. CASE Rest(w)
    <2>1. worker' = [worker EXCEPT ![w] = NoJob]
        BY <1>1 DEF Rest
    <2>2. \A v \in Worker, q \in Report : Holds(v, q)' => Holds(v, q)
        BY <2>1
    <2> QED
        BY <2>1, <2>2 DEF AttemptLeft
<1>2. ASSUME NEW step \in {"claimed", "new", "known", "failing"}, Work(w, r, step),
             (~JobLocked(r) /\ attempts[r] < MaxAttempts) \/ Holds(w, r)
      PROVE  /\ DOMAIN worker' = Worker /\ AttemptLeft'
             /\ \A v \in Worker : worker'[v] = NoJob \/
                  /\ worker'[v].step \in WorkSteps
                  /\ worker'[v].on \in Report
    <2>1. worker' = [worker EXCEPT ![w] = [step |-> step, on |-> r]]
        BY <1>2 DEF Work
    <2>2. \A v \in Worker, q \in Report : Holds(v, q)' => Holds(v, q) \/ (v = w /\ q = r)
        BY <2>1
    <2>3. attempts[r] < MaxAttempts /\ \A v \in Worker : Holds(v, r) => v = w
        BY <1>2 DEF JobLocked, AttemptLeft
    <2>4. AttemptLeft'
        BY <2>2, <2>3 DEF AttemptLeft
    <2>5. \A v \in Worker : v # w => worker'[v] = worker[v]
        BY <2>1
    <2>6. worker'[w] = [step |-> step, on |-> r]
        BY <2>1
    <2> QED
        BY <2>1, <2>4, <2>5, <2>6
<1>3. ASSUME NEW step \in {"asking", "asked"}, Work(w, r, step)
      PROVE  /\ DOMAIN worker' = Worker /\ AttemptLeft'
             /\ \A v \in Worker : worker'[v] = NoJob \/
                  /\ worker'[v].step \in WorkSteps
                  /\ worker'[v].on \in Report
    <2>1. worker' = [worker EXCEPT ![w] = [step |-> step, on |-> r]]
        BY <1>3 DEF Work
    <2>2. \A v \in Worker, q \in Report : Holds(v, q)' => Holds(v, q)
        BY <2>1
    <2>3. AttemptLeft'
        BY <2>2 DEF AttemptLeft
    <2>4. /\ \A v \in Worker : v # w => worker'[v] = worker[v]
          /\ worker'[w] = [step |-> step, on |-> r]
        BY <2>1
    <2> QED
        BY <2>1, <2>3, <2>4
<1> QED
    BY <1>1, <1>2, <1>3

LEMMA ModerationTypesStep == ModerationTypes /\ [ModerationNext]_moderationVars => ModerationTypes'
<1> SUFFICES ASSUME ModerationTypes, [ModerationNext]_moderationVars PROVE ModerationTypes'
    OBVIOUS
<1>1. ModerationTypeOK /\ DOMAIN worker = Worker
    BY DEF ModerationTypes
<1>2. ASSUME NEW r \in Report, \/ CreateReport(r) \/ EnqueueReport(r) \/ EnqueueFails(r)
                               \/ RetryComes(r) \/ DecideCase(r)
      PROVE ModerationTypes'
    <2>1. UNCHANGED <<attempts, worker, cases, atOnce, tried>>
        BY <1>2 DEF CreateReport, EnqueueReport, EnqueueFails, RetryComes, DecideCase
    <2>2. /\ reportStatus' \in [Report -> {"none", "received", "triaged", "closed"}]
          /\ job' \in [Report -> {"none", "pending", "failed", "done"}]
          /\ enqueueing' \subseteq Report /\ due' \subseteq Report
        BY <1>1, <1>2 DEF ModerationTypeOK, CreateReport, SubmitReport, EnqueueReport, EnqueueFails, RetryComes,
                          DecideCase
    <2> QED
        BY <2>1, <2>2 DEF ModerationTypes, ModerationTypeOK, AttemptLeft, Holds, WorksOn
<1>3. ASSUME NEW w \in Worker, NEW r \in Report,
             ClaimJob(w, r) \/ ReadCase(w, r) \/ TriageFails(w, r) \/ MarkFailed(w, r)
      PROVE ModerationTypes'
    <2>1. /\ UNCHANGED <<attempts, cases, reportStatus, enqueueing, atOnce>>
          /\ \/ Rest(w)
             \/ /\ (~JobLocked(r) /\ attempts[r] < MaxAttempts) \/ Holds(w, r)
                /\ \E step \in {"claimed", "new", "known", "failing"} : Work(w, r, step)
        BY <1>3 DEF ClaimJob, ReadCase, TriageFails, MarkFailed, Holds
    <2>2. /\ job' \in [Report -> {"none", "pending", "failed", "done"}] /\ due' \subseteq Report
          /\ tried' \in [Report -> 0..MaxAttempts]
        BY <1>1, <1>3, ModerationAssumption DEF ModerationTypeOK, ClaimJob, ReadCase, TriageFails, MarkFailed
    <2> QED
        BY <1>1, <2>1, <2>2, WorkerTypes DEF ModerationTypes, ModerationTypeOK, WorkSteps
<1>4. ASSUME NEW w \in Worker, WorkerStops(w) PROVE ModerationTypes'
    <2>1. UNCHANGED <<reportStatus, enqueueing, job, attempts, due, cases, atOnce, tried>> /\ Rest(w)
        BY <1>4 DEF WorkerStops
    <2>2. \E r : r \in Report
        BY <1>1, <1>4 DEF WorkerStops, ModerationTypeOK
    <2> QED
        BY <1>1, <2>1, <2>2, WorkerTypes DEF ModerationTypes, ModerationTypeOK, WorkSteps
<1>5. ASSUME NEW w \in Worker, NEW r \in Report, CommitTriage(w, r) PROVE ModerationTypes'
    <2>1. Holds(w, r)
        BY <1>5 DEF CommitTriage, Holds
    <2>2. attempts[r] < MaxAttempts /\ \A v \in Worker : Holds(v, r) => v = w
        BY <2>1 DEF ModerationTypes, AttemptLeft
    <2>3. /\ attempts' = [attempts EXCEPT ![r] = @ + 1]
          /\ worker' = [worker EXCEPT ![w] = NoJob]
          /\ UNCHANGED <<enqueueing, due, atOnce, tried>>
        BY <1>5 DEF CommitTriage, Rest
    <2>4. attempts' \in [Report -> 0..MaxAttempts]
        BY <1>1, <2>2, <2>3, ModerationAssumption DEF ModerationTypeOK
    <2>5. \A v \in Worker, q \in Report : Holds(v, q)' => v # w /\ Holds(v, q)
        BY <1>1, <2>3 DEF Holds, WorksOn
    <2>6. AttemptLeft'
        BY <1>1, <2>2, <2>3, <2>5 DEF AttemptLeft, ModerationTypes, ModerationTypeOK
    <2>7. /\ reportStatus' \in [Report -> {"none", "received", "triaged", "closed"}]
          /\ cases' \in [Report -> Nat]
          /\ job' \in [Report -> {"none", "pending", "failed", "done"}]
        BY <1>1, <1>5 DEF ModerationTypeOK, CommitTriage, OpenCase
    <2> QED
        BY <1>1, <2>3, <2>4, <2>6, <2>7 DEF ModerationTypes, ModerationTypeOK
<1>6. CASE UNCHANGED moderationVars
    BY <1>6 DEF moderationVars, ModerationTypes, ModerationTypeOK, AttemptLeft, Holds, WorksOn
<1>7. ASSUME NEW w \in Worker, NEW r \in Report,
             SubmitAtOnce(w, r) \/ ReadAtOnce(w, r) \/ CommitAtOnce(w, r)
      PROVE ModerationTypes'
    <2>1. /\ UNCHANGED <<attempts, enqueueing, job, due, tried>>
          /\ Rest(w) \/ \E step \in {"asking", "asked"} : Work(w, r, step)
        BY <1>7 DEF SubmitAtOnce, ReadAtOnce, CommitAtOnce
    <2>2. /\ reportStatus' \in [Report -> {"none", "received", "triaged", "closed"}]
          /\ cases' \in [Report -> Nat] /\ atOnce' \subseteq Report
        BY <1>1, <1>7 DEF ModerationTypeOK, SubmitAtOnce, ReadAtOnce, CommitAtOnce, SubmitReport, OpenCase
    <2>3. /\ DOMAIN worker' = Worker /\ AttemptLeft'
          /\ \A v \in Worker : worker'[v] = NoJob \/
                /\ worker'[v].step \in WorkSteps
                /\ worker'[v].on \in Report
        BY <2>1, WorkerTypes
    <2> QED
        BY <1>1, <2>1, <2>2, <2>3 DEF ModerationTypes, ModerationTypeOK, WorkSteps
<1> QED
    BY <1>2, <1>3, <1>4, <1>5, <1>6, <1>7 DEF ModerationNext

(* The attempts of a job stay within MODERATION_JOB_MAX_ATTEMPTS: the claim   *)
(* asks for one that is left, and the row lock keeps it until the commit.     *)
THEOREM ModerationTypeCorrect == ModerationSpec => []ModerationTypeOK
<1>1. ModerationTypes => ModerationTypeOK
    BY DEF ModerationTypes
<1> QED
    BY <1>1, ModerationTypesInitial, ModerationTypesStep, PTL DEF ModerationSpec

-----------------------------------------------------------------------------
(* Message changes: only a deletion takes a row away, and an edit names the  *)
(* row again in the statement that writes it.                                *)

RowsTyped == DOMAIN row = Message

LEMMA RowsStayTyped == RowsTyped /\ [ChangeNext]_changeVars => RowsTyped' /\ (\A m \in Message : ~Stored(m) => ~Stored(m)')
<1> SUFFICES ASSUME RowsTyped, [ChangeNext]_changeVars
             PROVE RowsTyped' /\ (\A m \in Message : ~Stored(m) => ~Stored(m)')
    OBVIOUS
<1> USE DEF RowsTyped, Stored
<1>1. ASSUME NEW e \in Edit, StoreEdit(e) PROVE RowsTyped' /\ (\A m \in Message : ~Stored(m) => ~Stored(m)')
    BY <1>1 DEF StoreEdit
<1>2. ASSUME NEW d \in Deletion, DeleteRow(d)
      PROVE RowsTyped' /\ (\A m \in Message : ~Stored(m) => ~Stored(m)')
    <2> DEFINE gone == request[d].id
    <2>1. row' = row \/ row' = [row EXCEPT ![gone] = NoRow]
        BY <1>2 DEF DeleteRow
    <2> QED
        BY <2>1
<1>3. ASSUME \/ \E e \in Edit : TellEdit(e) \/ \E m \in Message : CheckEdit(e, m)
             \/ \E d \in Deletion :
                    \/ DeletionFails(d) \/ TellDeletion(d)
                    \/ \E u \in Member, m \in Message, mode \in Modes : CheckDeletion(d, u, m, mode)
             \/ \E u \in Member :
                    \/ TakeDeletion(u) \/ TakeEdit(u) \/ \E d \in decrypting[u] : ShowEdit(u, d)
             \/ UNCHANGED changeVars
      PROVE row' = row
    BY <1>3 DEF TellEdit, CheckEdit, DeletionFails, TellDeletion, CheckDeletion, TakeDeletion,
                TakeEdit, ShowEdit, changeVars
<1> QED
    BY <1>1, <1>2, <1>3 DEF ChangeNext

(* A row that was deleted for everybody never comes back, also when an edit  *)
(* was checked before the deletion and is written after it.                  *)
THEOREM DeletedRowsStayDeleted == ChangeSpec => DeletedStays
<1>1. ChangeInit => RowsTyped
    BY DEF ChangeInit, RowsTyped
<1>2. RowsTyped /\ [ChangeNext]_changeVars => [\A m \in Message : ~Stored(m) => ~Stored(m)']_changeVars
    BY RowsStayTyped
<1> QED
    BY <1>1, <1>2, RowsStayTyped, PTL DEF ChangeSpec, DeletedStays

(* Among finitely many places, the k-th is the first with k places up to it.  *)
LEMMA KthPlace ==
    ASSUME NEW n \in Nat, NEW kept \in SUBSET (1..n), NEW k \in 1..Cardinality(kept)
    PROVE  \E i \in kept : Cardinality({j \in kept : j <= i}) = k
<1> DEFINE upTo(i) == {j \in kept : j <= i}
           late == {i \in 0..n : Cardinality(upTo(i)) >= k}
<1>1. IsFiniteSet(kept) /\ \A i : IsFiniteSet(upTo(i)) /\ Cardinality(upTo(i)) \in Nat
    <2>1. IsFiniteSet(1..n)
        BY FS_Interval
    <2>2. \A i : upTo(i) \in SUBSET (1..n)
        OBVIOUS
    <2> QED
        BY <2>1, <2>2, FS_Subset, FS_CardinalityType
<1>2. \A j \in kept : j \in Nat /\ 1 <= j /\ j <= n
    OBVIOUS
<1>3. n \in late
    <2>1. upTo(n) = kept
        BY <1>2
    <2>2. Cardinality(kept) \in Nat
        BY <1>1, FS_CardinalityType
    <2> HIDE DEF upTo
    <2> QED
        BY <2>1, <2>2
<1>4. PICK i \in late : \A j \in late : ~(j < i)
    <2>1. late \in SUBSET Nat /\ late # {}
        BY <1>3
    <2> HIDE DEF late
    <2>2. PICK i \in late : \A j \in late : <<j, i>> \notin OpToRel(<, Nat)
        BY <2>1, NatLessThanWellFounded, WFMin
    <2> QED
        BY <2>1, <2>2 DEF OpToRel
<1>5. upTo(0) = {} /\ Cardinality({}) = 0
    <2>1. \A j \in kept : ~(j <= 0)
        BY <1>2
    <2> QED
        BY <2>1, FS_EmptySet
<1>6. i \in 1..n /\ Cardinality(upTo(i)) >= k
    <2>1. 0 \notin late
        <3> HIDE DEF upTo
        <3> QED
            BY <1>5
    <2> QED
        BY <2>1
<1>7. Cardinality(upTo(i - 1)) < k
    <2> HIDE DEF upTo
    <2> QED
        BY <1>1, <1>4, <1>6
<1>8. CASE i \in kept
    <2>1. /\ \A j \in kept : j <= i <=> j <= i - 1 \/ j = i
          /\ ~(i <= i - 1)
        BY <1>2, <1>6
    <2>2. upTo(i) = upTo(i - 1) \cup {i} /\ i \notin upTo(i - 1)
        BY <1>8, <2>1
    <2>3. Cardinality(upTo(i)) = Cardinality(upTo(i - 1)) + 1
        <3> HIDE DEF upTo
        <3> QED
            BY <1>1, <2>2, FS_AddElement
    <2>4. Cardinality(upTo(i)) = k
        <3> HIDE DEF upTo
        <3> QED
            BY <1>1, <1>6, <1>7, <2>3
    <2> QED
        BY <1>8, <2>4
<1>9. CASE i \notin kept
    <2>1. \A j \in kept : j <= i <=> j <= i - 1
        BY <1>2, <1>6, <1>9
    <2>2. upTo(i) = upTo(i - 1)
        BY <2>1
    <2> HIDE DEF upTo
    <2> QED
        BY <1>1, <1>6, <1>7, <2>2
<1> QED
    BY <1>8, <1>9

(* What Array.filter keeps is a list of the same things.                      *)
LEMMA WithoutKeeps ==
    ASSUME NEW S, NEW list \in Seq(S), NEW m
    PROVE  Without(list, m) \in Seq(S)
<1> DEFINE kept == {i \in DOMAIN list : list[i].id # m}
           Kth(k) == CHOOSE i \in kept : Cardinality({j \in kept : j <= i}) = k
           size == Cardinality(kept)
<1>1. Len(list) \in Nat /\ DOMAIN list = 1..Len(list) /\ \A i \in 1..Len(list) : list[i] \in S
    OBVIOUS
<1>2. kept \in SUBSET (1..Len(list))
    BY <1>1
<1>3. size \in Nat
    <2>1. IsFiniteSet(1..Len(list))
        BY <1>1, FS_Interval
    <2> HIDE DEF kept
    <2> QED
        BY <1>2, <2>1, FS_Subset, FS_CardinalityType
<1>4. ASSUME NEW k \in 1..size PROVE list[Kth(k)] \in S
    <2> HIDE DEF kept
    <2>1. Kth(k) \in kept
        BY <1>1, <1>2, KthPlace
    <2> HIDE DEF Kth
    <2> QED
        BY <1>1, <1>2, <2>1
<1>5. Without(list, m) = [k \in 1..size |-> list[Kth(k)]]
    BY DEF Without
<1> HIDE DEF kept, Kth, size
<1> QED
    BY <1>3, <1>4, <1>5

LEMMA PutAtKeeps ==
    ASSUME NEW S, NEW list \in Seq(S), NEW i \in Nat \ {0}, NEW x \in S, Hole \in S
    PROVE  PutAt(list, i, x) \in Seq(S)
<1> DEFINE long == IF i > Len(list) THEN i ELSE Len(list)
<1>1. long \in Nat
    OBVIOUS
<1>2. PutAt(list, i, x) = [k \in 1..long |->
        IF k = i THEN x ELSE IF k <= Len(list) THEN list[k] ELSE Hole]
    BY DEF PutAt
<1>3. \A k \in 1..long : (IF k = i THEN x ELSE IF k <= Len(list) THEN list[k] ELSE Hole) \in S
    BY <1>1
<1> HIDE DEF long
<1> QED
    BY <1>1, <1>2, <1>3

(* What a request that was checked carries.                                   *)
Waiting == [step : {"idle", "done"}]
ChecksEdit == [step : {"checked", "stored"}, id : Message]
ChecksDeletion == [step : {"checked", "stored"}, id : Message, by : Member, mode : Modes]

ChangeTypes ==
    /\ ChangeTypeOK
    /\ DOMAIN request = Edit \cup Deletion
    /\ \A e \in Edit : request[e] \in Waiting \cup ChecksEdit
    /\ \A d \in Deletion : request[d] \in Waiting \cup ChecksDeletion
    /\ DOMAIN decrypting = Member

LEMMA ChangeTypesInitial == ChangeInit => ChangeTypes
<1> SUFFICES ASSUME ChangeInit PROVE ChangeTypes
    OBVIOUS
<1>1. PICK list \in [1..Cardinality(Message) -> Message] :
        shown = [u \in Member |-> [i \in DOMAIN list |-> [id |-> list[i], content |-> "first"]]]
    BY DEF ChangeInit
<1> DEFINE screen == [i \in DOMAIN list |-> [id |-> list[i], content |-> "first"]]
<1>2. screen \in Seq(Entry)
    <2>1. Cardinality(Message) \in Nat
        BY ChangeAssumption, FS_CardinalityType
    <2>2. \A i \in DOMAIN list : [id |-> list[i], content |-> "first"] \in Entry
        BY DEF Entry, Content
    <2> QED
        BY <2>1, <2>2
<1>3. shown \in [Member -> Seq(Entry)]
    <2> HIDE DEF screen
    <2> QED
        BY <1>1, <1>2 DEF screen
<1>4. mail \in [Member -> Seq(ChangeEvent)]
    BY DEF ChangeInit
<1>5. row \in [Message -> [content : Content \cup {"gone"}, edits : Nat]]
    BY DEF ChangeInit, Content
<1>6. \A r \in Edit \cup Deletion : request[r] = Idle
    BY DEF ChangeInit
<1>7. hidden \in [Message -> SUBSET Member] /\ decrypting = [u \in Member |-> {}]
      /\ DOMAIN request = Edit \cup Deletion
    BY DEF ChangeInit
<1> QED
    BY <1>3, <1>4, <1>5, <1>6, <1>7 DEF ChangeTypes, ChangeTypeOK, Idle, Waiting

(* A request goes on.                                                         *)
LEMMA StepTypes ==
    ASSUME ChangeTypes, NEW r \in Edit \cup Deletion, NEW what, Step(r, what),
           r \in Edit => what \in Waiting \cup ChecksEdit,
           r \in Deletion => what \in Waiting \cup ChecksDeletion
    PROVE  /\ DOMAIN request' = Edit \cup Deletion
           /\ \A e \in Edit : request'[e] \in Waiting \cup ChecksEdit
           /\ \A d \in Deletion : request'[d] \in Waiting \cup ChecksDeletion
           /\ \A q \in Edit \cup Deletion : request'[q].step \in {"idle", "checked", "stored", "done"}
<1>1. request' = [request EXCEPT ![r] = what] /\ DOMAIN request = Edit \cup Deletion
    BY DEF Step, ChangeTypes
<1>2. request'[r] = what /\ \A q \in Edit \cup Deletion : q # r => request'[q] = request[q]
    BY <1>1
<1>3. /\ \A e \in Edit : request'[e] \in Waiting \cup ChecksEdit
      /\ \A d \in Deletion : request'[d] \in Waiting \cup ChecksDeletion
    BY <1>2 DEF ChangeTypes
<1> QED
    BY <1>1, <1>3 DEF Waiting, ChecksEdit, ChecksDeletion

LEMMA BroadcastTypes ==
    ASSUME ChangeTypes, NEW event \in ChangeEvent, NEW users, Broadcast(event, users)
    PROVE  mail' \in [Member -> Seq(ChangeEvent)]
<1>1. \A u \in Member : mail[u] \in Seq(ChangeEvent) /\ Append(mail[u], event) \in Seq(ChangeEvent)
    BY DEF ChangeTypes, ChangeTypeOK
<1> QED
    BY <1>1 DEF Broadcast

(* The next event of a browser and the mail behind it.                        *)
LEMMA NextEvent ==
    ASSUME ChangeTypes, NEW u \in Member, mail[u] # <<>>
    PROVE  /\ Head(mail[u]) \in ChangeEvent /\ Tail(mail[u]) \in Seq(ChangeEvent)
           /\ Head(mail[u]).id \in Message
           /\ Head(mail[u]).type = "message_edited" => Head(mail[u]).content \in Edit
<1>1. mail[u] \in Seq(ChangeEvent)
    BY DEF ChangeTypes, ChangeTypeOK
<1>2. Head(mail[u]) \in ChangeEvent /\ Tail(mail[u]) \in Seq(ChangeEvent)
    BY <1>1
<1> QED
    BY <1>2 DEF ChangeEvent

LEMMA TakeTypes ==
    ASSUME ChangeTypes, NEW u \in Member, mail[u] # <<>>, Take(u)
    PROVE  mail' \in [Member -> Seq(ChangeEvent)]
<1>1. Tail(mail[u]) \in Seq(ChangeEvent) /\ mail \in [Member -> Seq(ChangeEvent)]
    BY NextEvent DEF ChangeTypes, ChangeTypeOK
<1> QED
    BY <1>1 DEF Take

LEMMA ChangeTypesStep == ChangeTypes /\ [ChangeNext]_changeVars => ChangeTypes'
<1> SUFFICES ASSUME ChangeTypes, [ChangeNext]_changeVars PROVE ChangeTypes'
    OBVIOUS
<1> USE DEF ChangeTypes
<1>1. ChangeTypeOK
    OBVIOUS
<1>2. ASSUME NEW e \in Edit, NEW m \in Message, CheckEdit(e, m) PROVE ChangeTypes'
    <2>1. Step(e, [step |-> "checked", id |-> m]) /\ UNCHANGED <<row, hidden, mail, shown, decrypting>>
        BY <1>2 DEF CheckEdit
    <2> QED
        BY <1>1, <2>1, StepTypes, ChangeAssumption DEF ChangeTypeOK, ChecksEdit
<1>3. ASSUME NEW e \in Edit, StoreEdit(e) PROVE ChangeTypes'
    <2> DEFINE m == request[e].id
    <2>1. m \in Message
        BY <1>3 DEF StoreEdit, Waiting, ChecksEdit
    <2>2. /\ \/ row' = row
             \/ row' = [row EXCEPT ![m] = [content |-> e, edits |-> @.edits + 1]]
          /\ \E what \in Waiting \cup ChecksEdit : Step(e, what)
          /\ UNCHANGED <<hidden, mail, shown, decrypting>>
        BY <1>3, <2>1 DEF StoreEdit, Waiting, ChecksEdit
    <2>3. row' \in [Message -> [content : Content \cup {"gone"}, edits : Nat]]
        <3> HIDE DEF m
        <3>1. row[m].edits \in Nat
            BY <1>1, <2>1 DEF ChangeTypeOK
        <3>2. [content |-> e, edits |-> row[m].edits + 1] \in [content : Content \cup {"gone"}, edits : Nat]
            BY <3>1 DEF Content
        <3> QED
            BY <1>1, <2>1, <2>2, <3>2 DEF ChangeTypeOK
    <2> QED
        BY <1>1, <2>2, <2>3, StepTypes, ChangeAssumption DEF ChangeTypeOK
<1>4. ASSUME NEW e \in Edit, TellEdit(e) PROVE ChangeTypes'
    <2>1. request[e].id \in Message
        BY <1>4 DEF TellEdit, Waiting, ChecksEdit
    <2>2. [type |-> "message_edited", id |-> request[e].id, content |-> e] \in ChangeEvent
        BY <2>1 DEF ChangeEvent
    <2>3. mail' \in [Member -> Seq(ChangeEvent)]
        BY <1>4, <2>2, BroadcastTypes DEF TellEdit
    <2>4. Step(e, [step |-> "done"]) /\ UNCHANGED <<row, hidden, shown, decrypting>>
        BY <1>4 DEF TellEdit
    <2> QED
        BY <1>1, <2>3, <2>4, StepTypes, ChangeAssumption DEF ChangeTypeOK, Waiting
<1>5. ASSUME NEW d \in Deletion, NEW u \in Member, NEW m \in Message, NEW mode \in Modes,
             CheckDeletion(d, u, m, mode)
      PROVE ChangeTypes'
    <2>1. Step(d, [step |-> "checked", id |-> m, by |-> u, mode |-> mode])
          /\ UNCHANGED <<row, hidden, mail, shown, decrypting>>
        BY <1>5 DEF CheckDeletion
    <2> QED
        BY <1>1, <2>1, StepTypes, ChangeAssumption DEF ChangeTypeOK, ChecksDeletion
<1>6. ASSUME NEW d \in Deletion, DeleteRow(d) PROVE ChangeTypes'
    <2> DEFINE m == request[d].id
    <2>1. request[d] \in ChecksDeletion
        BY <1>6 DEF DeleteRow, Waiting
    <2>2. m \in Message /\ request[d].by \in Member
          /\ [request[d] EXCEPT !.step = "stored"] \in ChecksDeletion
        BY <2>1 DEF ChecksDeletion
    <2>3. /\ \/ hidden' = [hidden EXCEPT ![m] = @ \cup {request[d].by}] /\ row' = row
             \/ row' = [row EXCEPT ![m] = NoRow] /\ hidden' = hidden
          /\ Step(d, [request[d] EXCEPT !.step = "stored"])
          /\ UNCHANGED <<mail, shown, decrypting>>
        BY <1>6 DEF DeleteRow
    <2>4. row' \in [Message -> [content : Content \cup {"gone"}, edits : Nat]]
        <3> HIDE DEF m
        <3>1. NoRow \in [content : Content \cup {"gone"}, edits : Nat]
            BY DEF NoRow
        <3> QED
            BY <1>1, <2>2, <2>3, <3>1 DEF ChangeTypeOK
    <2>5. hidden' \in [Message -> SUBSET Member]
        <3> HIDE DEF m
        <3>1. hidden[m] \cup {request[d].by} \in SUBSET Member
            BY <1>1, <2>2 DEF ChangeTypeOK
        <3> QED
            BY <1>1, <2>2, <2>3, <3>1 DEF ChangeTypeOK
    <2> QED
        BY <1>1, <2>2, <2>3, <2>4, <2>5, StepTypes, ChangeAssumption DEF ChangeTypeOK
<1>7. ASSUME NEW d \in Deletion, DeletionFails(d) PROVE ChangeTypes'
    <2>1. Step(d, [step |-> "done"]) /\ UNCHANGED <<row, hidden, mail, shown, decrypting>>
        BY <1>7 DEF DeletionFails
    <2> QED
        BY <1>1, <2>1, StepTypes, ChangeAssumption DEF ChangeTypeOK, Waiting
<1>8. ASSUME NEW d \in Deletion, TellDeletion(d) PROVE ChangeTypes'
    <2>1. request[d].id \in Message
        BY <1>8 DEF TellDeletion, Waiting, ChecksDeletion
    <2>2. [type |-> "messages_deleted", id |-> request[d].id] \in ChangeEvent
        BY <2>1 DEF ChangeEvent
    <2>3. mail' \in [Member -> Seq(ChangeEvent)]
        BY <1>8, <2>2, BroadcastTypes DEF TellDeletion
    <2>4. Step(d, [step |-> "done"]) /\ UNCHANGED <<row, hidden, shown, decrypting>>
        BY <1>8 DEF TellDeletion
    <2> QED
        BY <1>1, <2>3, <2>4, StepTypes, ChangeAssumption DEF ChangeTypeOK, Waiting
<1>9. ASSUME NEW u \in Member, TakeDeletion(u) PROVE ChangeTypes'
    <2>1. mail[u] # <<>> /\ Take(u) /\ UNCHANGED <<row, hidden, request, decrypting>>
          /\ shown' = [shown EXCEPT ![u] = Without(@, Head(mail[u]).id)]
        BY <1>9 DEF TakeDeletion, Next1
    <2>2. shown[u] \in Seq(Entry) /\ shown \in [Member -> Seq(Entry)]
        BY <1>1 DEF ChangeTypeOK
    <2>3. Without(shown[u], Head(mail[u]).id) \in Seq(Entry)
        BY <2>2, WithoutKeeps
    <2>4. shown' \in [Member -> Seq(Entry)]
        BY <2>1, <2>2, <2>3
    <2> QED
        BY <1>1, <2>1, <2>4, TakeTypes DEF ChangeTypeOK
<1>10. ASSUME NEW u \in Member, TakeEdit(u) PROVE ChangeTypes'
    <2> DEFINE entry == [id |-> Head(mail[u]).id, content |-> Head(mail[u]).content]
    <2>1. mail[u] # <<>> /\ Take(u) /\ UNCHANGED <<row, hidden, request, shown>>
          /\ Head(mail[u]).type = "message_edited"
        BY <1>10 DEF TakeEdit, Next1
    <2>2. decrypting' = [decrypting EXCEPT ![u] = @ \cup
                {[index |-> i, entry |-> entry] : i \in IndexOf(u, Head(mail[u]).id)}]
        BY <1>10 DEF TakeEdit
    <2>3. entry \in Entry
        BY <2>1, NextEvent DEF Entry, Content
    <2>4. \A i \in IndexOf(u, Head(mail[u]).id) : i \in Nat \ {0}
        <3>1. shown[u] \in Seq(Entry)
            BY <1>1 DEF ChangeTypeOK
        <3> QED
            BY <3>1 DEF IndexOf
    <2>5. DOMAIN decrypting' = Member
        BY <2>2
    <2>6. ASSUME NEW v \in Member, NEW d \in decrypting'[v]
          PROVE d.entry \in Entry /\ d.index \in Nat \ {0}
        <3>1. \/ d \in decrypting[v]
              \/ \E i \in IndexOf(u, Head(mail[u]).id) : d = [index |-> i, entry |-> entry]
            <4> HIDE DEF entry
            <4> QED
                BY <2>2, <2>6
        <3>2. ASSUME NEW i \in IndexOf(u, Head(mail[u]).id), d = [index |-> i, entry |-> entry]
              PROVE d.entry \in Entry /\ d.index \in Nat \ {0}
            <4> HIDE DEF entry
            <4> QED
                BY <2>3, <2>4, <3>2
        <3> QED
            BY <1>1, <3>1, <3>2 DEF ChangeTypeOK
    <2> QED
        BY <1>1, <2>1, <2>5, <2>6, TakeTypes DEF ChangeTypeOK
<1>11. ASSUME NEW u \in Member, NEW d \in decrypting[u], ShowEdit(u, d) PROVE ChangeTypes'
    <2>1. /\ shown' = [shown EXCEPT ![u] = PutAt(@, d.index, d.entry)]
          /\ decrypting' = [decrypting EXCEPT ![u] = @ \ {d}]
          /\ UNCHANGED <<row, hidden, request, mail>>
        BY <1>11 DEF ShowEdit
    <2>2. d.entry \in Entry /\ d.index \in Nat \ {0} /\ shown[u] \in Seq(Entry)
        BY <1>1 DEF ChangeTypeOK
    <2>3. PutAt(shown[u], d.index, d.entry) \in Seq(Entry)
        <3>1. Hole \in Entry
            BY DEF Entry
        <3> QED
            BY <2>2, <3>1, PutAtKeeps
    <2>4. shown' \in [Member -> Seq(Entry)]
        BY <1>1, <2>1, <2>3 DEF ChangeTypeOK
    <2>5. DOMAIN decrypting' = Member /\ \A v \in Member : decrypting'[v] \subseteq decrypting[v]
        BY <2>1
    <2> QED
        BY <1>1, <2>1, <2>4, <2>5 DEF ChangeTypeOK
<1>12. CASE UNCHANGED changeVars
    BY <1>1, <1>12 DEF changeVars, ChangeTypeOK
<1> QED
    BY <1>2, <1>3, <1>4, <1>5, <1>6, <1>7, <1>8, <1>9, <1>10, <1>11, <1>12 DEF ChangeNext

(* Rows, events and the lists browsers show hold what they should, also when  *)
(* an edit is written to an index that is beyond the end of the list by then. *)
THEOREM ChangeTypeCorrect == ChangeSpec => []ChangeTypeOK
<1>1. ChangeTypes => ChangeTypeOK
    BY DEF ChangeTypes
<1> QED
    BY <1>1, ChangeTypesInitial, ChangeTypesStep, PTL DEF ChangeSpec
=============================================================================
