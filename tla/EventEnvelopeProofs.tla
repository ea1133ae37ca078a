------------------------- MODULE EventEnvelopeProofs -------------------------
(***************************************************************************)
(* For any set of events, rooms and fault bounds: the log of a chat has no *)
(* holes, its rows are never renumbered, and no more envelopes carry a     *)
(* number the log does not hold them under than transactions were undone.  *)
(*                                                                         *)
(* LogGapFree is not inductive by itself: CommitEvent writes the number    *)
(* its transaction was given some steps earlier, so the proof has to know  *)
(* that this is still last_pts + 1.  It is, because at most one            *)
(* transaction holds the row of the chat (OneOpen, OpenIsNext).            *)
(***************************************************************************)
EXTENDS EventEnvelope, FiniteSetTheorems, TLAPS

\* A row belongs to the event that was given its number, and to no other.
RowIsStamp == \A p \in DOMAIN rows : pts[rows[p]] = p

OneOpen == \A e, f \in Event : stage[e] = "open" /\ stage[f] = "open" => e = f

OpenIsNext == \A e \in Event : stage[e] = "open" => pts[e] = lastPts + 1

\* An event has no number before its allocation and no row before its commit.
NoEarlyNumber == \A e \in Event : stage[e] \in {"idle", "stored"} => pts[e] = 0
RowIsFinal == \A p \in DOMAIN rows : stage[rows[p]] \in {"ready", "done"}

\* The log never gives out more than the next number.
NumbersInReach == \A e \in Event : pts[e] <= lastPts + 1

LogInv ==
    /\ ServerTypeOK
    /\ LogGapFree
    /\ RowIsStamp
    /\ OneOpen
    /\ OpenIsNext
    /\ NoEarlyNumber
    /\ RowIsFinal
    /\ NumbersInReach

\* A fault only counts up.
LEMMA FaultType ==
    ASSUME NEW k \in FaultKind, faults \in [FaultKind -> Nat], Fault(k)
    PROVE  faults' \in [FaultKind -> Nat]
BY DEF Fault

LEMMA LogInit == ServerInit => LogInv
BY DEF ServerInit, LogInv, ServerTypeOK, LogGapFree, RowIsStamp, OneOpen,
       OpenIsNext, NoEarlyNumber, RowIsFinal, NumbersInReach, Stage

\* The steps that neither number an event nor write a row.
LEMMA QuietStep ==
    ASSUME LogInv, NEW e \in Event,
           UNCHANGED <<lastPts, rows, pts>>,
           \/ /\ stage[e] = "idle" /\ Move(e, "stored")
           \/ /\ stage[e] = "stored" /\ Move(e, "ready")
           \/ /\ stage[e] = "ready" /\ Move(e, "ready")
           \/ /\ stage[e] = "ready" /\ Move(e, "done")
           \/ /\ stage[e] = "open" /\ Move(e, "ready"),
           todo' \in [Event -> SUBSET Room],
           faults' \in [FaultKind -> Nat]
    PROVE  LogInv'
<1> USE DEF LogInv, Move, ServerTypeOK, Stage
<1>1. ServerTypeOK'
  OBVIOUS
<1>2. LogGapFree' /\ RowIsStamp'
  BY DEF LogGapFree, RowIsStamp
<1>3. OneOpen' /\ OpenIsNext' /\ NoEarlyNumber'
  BY DEF OneOpen, OpenIsNext, NoEarlyNumber
<1>4. RowIsFinal' /\ NumbersInReach'
  BY DEF RowIsFinal, NumbersInReach
<1> QED
  BY <1>1, <1>2, <1>3, <1>4

LEMMA AllocateStep ==
    ASSUME LogInv, NEW e \in Event, Allocate(e)
    PROVE  LogInv'
<1> USE DEF LogInv, Allocate, Move, ServerTypeOK, Stage
<1>1. ServerTypeOK'
  OBVIOUS
<1>2. LogGapFree'
  BY DEF LogGapFree
<1>3. RowIsStamp' /\ RowIsFinal'
  BY DEF RowIsStamp, RowIsFinal
<1>4. OneOpen' /\ OpenIsNext' /\ NoEarlyNumber'
  BY DEF OneOpen, OpenIsNext, NoEarlyNumber
<1>5. NumbersInReach'
  BY DEF NumbersInReach
<1> QED
  BY <1>1, <1>2, <1>3, <1>4, <1>5

LEMMA CommitStep ==
    ASSUME LogInv, NEW e \in Event, CommitEvent(e)
    PROVE  LogInv'
<1> USE DEF LogInv, CommitEvent, Move, ServerTypeOK, Stage
<1>1. pts[e] = lastPts + 1 /\ lastPts' = lastPts + 1
  BY DEF OpenIsNext
<1>2. DOMAIN rows' = DOMAIN rows \cup {lastPts + 1}
  BY <1>1
<1>3. ServerTypeOK'
  BY <1>1, <1>2
<1>4. LogGapFree'
  BY <1>1, <1>2 DEF LogGapFree
<1>5. RowIsStamp' /\ RowIsFinal'
  BY <1>1, <1>2 DEF RowIsStamp, RowIsFinal
<1>6. OneOpen' /\ OpenIsNext' /\ NoEarlyNumber'
  BY <1>1 DEF OneOpen, OpenIsNext, NoEarlyNumber
<1>7. NumbersInReach'
  BY <1>1 DEF NumbersInReach
<1> QED
  BY <1>3, <1>4, <1>5, <1>6, <1>7

LEMMA CrashStep ==
    ASSUME LogInv, NEW e \in Event, Crash(e)
    PROVE  LogInv'
<1> USE DEF LogInv, Crash, Move, ServerTypeOK, Stage
<1>1. ServerTypeOK'
  BY FaultType DEF FaultKind
<1>2. LogGapFree'
  BY DEF LogGapFree
<1>3. RowIsStamp' /\ RowIsFinal'
  BY DEF RowIsStamp, RowIsFinal
<1>4. OneOpen' /\ OpenIsNext' /\ NoEarlyNumber'
  BY DEF OneOpen, OpenIsNext, NoEarlyNumber
<1>5. NumbersInReach'
  BY DEF NumbersInReach
<1> QED
  BY <1>1, <1>2, <1>3, <1>4, <1>5

LEMMA LogStep ==
    ASSUME LogInv, [ServerNext]_serverVars
    PROVE  LogInv'
<1>1. ASSUME NEW e \in Event, Persistence(e)
      PROVE  LogInv'
  <2>1. CASE Store(e)
    BY <2>1, QuietStep, RoomAssumption DEF Store, LogInv, ServerTypeOK
  <2>2. CASE Allocate(e)
    BY <2>2, AllocateStep
  <2>3. CASE CommitEvent(e)
    BY <2>3, CommitStep
  <2>4. CASE RollbackEvent(e)
    BY <2>4, QuietStep, FaultType DEF RollbackEvent, LogInv, ServerTypeOK, FaultKind
  <2>5. CASE EmitUnpersisted(e)
    BY <2>5, QuietStep DEF EmitUnpersisted, LogInv, ServerTypeOK
  <2>6. CASE PersistUnavailable(e)
    BY <2>6, QuietStep, FaultType
       DEF PersistUnavailable, LogInv, ServerTypeOK, FaultKind
  <2>7. CASE Crash(e)
    BY <2>7, CrashStep
  <2> QED
    BY <1>1, <2>1, <2>2, <2>3, <2>4, <2>5, <2>6, <2>7 DEF Persistence
<1>2. ASSUME NEW e \in Event, NEW r \in Room, EmitToRoom(e, r)
      PROVE  LogInv'
  <2>1. todo' \in [Event -> SUBSET Room] /\ faults' \in [FaultKind -> Nat]
    BY <1>2 DEF EmitToRoom, LogInv, ServerTypeOK
  <2> QED
    BY <1>2, <2>1, QuietStep DEF EmitToRoom
<1>3. CASE UNCHANGED serverVars
  BY <1>3 DEF LogInv, serverVars, ServerTypeOK, LogGapFree, RowIsStamp,
              OneOpen, OpenIsNext, NoEarlyNumber, RowIsFinal, NumbersInReach
<1> QED
  BY <1>1, <1>2, <1>3 DEF ServerNext

-----------------------------------------------------------------------------
\* The inductive invariant of the log holds in every reachable state.
THEOREM LogInvariant == ServerSpec => []LogInv
<1>1. ServerInit => LogInv
  BY LogInit
<1>2. LogInv /\ [ServerNext]_serverVars => LogInv'
  BY LogStep
<1> QED
  BY <1>1, <1>2, PTL DEF ServerSpec

\* get_chat_update_difference never meets a hole and last_pts is the number of
\* the newest row, whatever fails: crashes, lost connections and rollbacks of
\* the persistence transaction included.
THEOREM LogHasNoGap == ServerSpec => []LogGapFree
BY LogInvariant, PTL DEF LogInv

\* The variables have their types in every reachable state.
THEOREM ServerTypeCorrect == ServerSpec => []ServerTypeOK
BY LogInvariant, PTL DEF LogInv

\* A committed row keeps its number and its event for ever.
THEOREM LogNeverRewritten == ServerSpec => LogAppendOnly
<1> DEFINE A == /\ lastPts' >= lastPts
                /\ \A p \in DOMAIN rows : p \in DOMAIN rows' /\ rows'[p] = rows[p]
<1>1. LogInv /\ [ServerNext]_serverVars => [A]_<<lastPts, rows>>
  <2> SUFFICES ASSUME LogInv, [ServerNext]_serverVars,
                      ~ UNCHANGED <<lastPts, rows>>
               PROVE  A
    OBVIOUS
  <2>1. PICK e \in Event : CommitEvent(e)
    BY DEF ServerNext, Persistence, serverVars, Store, Allocate, RollbackEvent,
           EmitUnpersisted, PersistUnavailable, Crash, EmitToRoom
  <2>2. pts[e] = lastPts + 1 /\ pts[e] \notin DOMAIN rows
    BY <2>1 DEF CommitEvent, LogInv, OpenIsNext, LogGapFree, ServerTypeOK
  <2> QED
    BY <2>1, <2>2 DEF CommitEvent, LogInv, ServerTypeOK
<1> QED
  BY <1>1, LogInvariant, PTL DEF ServerSpec, LogAppendOnly

-----------------------------------------------------------------------------
\* Finitely many, as a part of a counter: what the counting needs.
Counted == IsFiniteSet(Unlogged) /\ StampedIsLogged

\* The steps after which no envelope is unlogged that was not before.
LEMMA NoneAdded ==
    ASSUME Counted, ServerTypeOK, ServerTypeOK', Unlogged' \subseteq Unlogged,
           faults'["rollback"] >= faults["rollback"]
    PROVE  Counted'
<1>1. IsFiniteSet(Unlogged') /\ Cardinality(Unlogged') <= Cardinality(Unlogged)
  BY FS_Subset DEF Counted
<1>2. Cardinality(Unlogged) \in Nat /\ Cardinality(Unlogged') \in Nat
  BY <1>1, FS_CardinalityType DEF Counted
<1>3. faults["rollback"] \in Nat /\ faults'["rollback"] \in Nat
  BY DEF ServerTypeOK, FaultKind
<1> QED
  BY <1>1, <1>2, <1>3 DEF Counted, StampedIsLogged

LEMMA OneAdded ==
    ASSUME Counted, ServerTypeOK, NEW e \in Event, Unlogged' \subseteq Unlogged \cup {e},
           faults'["rollback"] = faults["rollback"] + 1
    PROVE  Counted'
<1>1. /\ IsFiniteSet(Unlogged \cup {e})
      /\ \/ Cardinality(Unlogged \cup {e}) = Cardinality(Unlogged)
         \/ Cardinality(Unlogged \cup {e}) = Cardinality(Unlogged) + 1
  BY FS_AddElement DEF Counted
<1>2. /\ IsFiniteSet(Unlogged')
      /\ Cardinality(Unlogged') <= Cardinality(Unlogged \cup {e})
  BY <1>1, FS_Subset
<1>3. Cardinality(Unlogged) \in Nat /\ Cardinality(Unlogged') \in Nat
  BY <1>2, FS_CardinalityType DEF Counted
<1>4. faults["rollback"] \in Nat
  BY DEF ServerTypeOK, FaultKind
<1> QED
  BY <1>1, <1>2, <1>3, <1>4 DEF Counted, StampedIsLogged

\* A fault of another kind leaves the count of rollbacks alone.
LEMMA OtherFault ==
    ASSUME ServerTypeOK, NEW k \in FaultKind, k # "rollback", Fault(k)
    PROVE  faults'["rollback"] >= faults["rollback"]
BY DEF Fault, ServerTypeOK, FaultKind

LEMMA CountedStep ==
    ASSUME LogInv, LogInv', Counted, [ServerNext]_serverVars
    PROVE  Counted'
<1>0. ServerTypeOK /\ ServerTypeOK'
  BY DEF LogInv
<1>a. faults["rollback"] \in Nat
  BY <1>0 DEF ServerTypeOK, FaultKind
<1>1. ASSUME NEW e \in Event, Persistence(e)
      PROVE  Counted'
  <2>1. CASE Store(e)
    BY <2>1, <1>0, <1>a, NoneAdded
       DEF Store, Move, Unlogged, LogInv, NoEarlyNumber, ServerTypeOK
  <2>2. CASE Allocate(e)
    BY <2>2, <1>0, <1>a, NoneAdded DEF Allocate, Move, Unlogged, ServerTypeOK
  <2>3. CASE CommitEvent(e)
    <3>1. pts[e] \notin DOMAIN rows
      BY <2>3 DEF CommitEvent, LogInv, OpenIsNext, LogGapFree, ServerTypeOK
    <3>2. Unlogged' \subseteq Unlogged
      BY <2>3, <3>1, <1>0 DEF CommitEvent, Move, Unlogged, ServerTypeOK
    <3> QED
      BY <2>3, <3>2, <1>0, <1>a, NoneAdded DEF CommitEvent
  <2>4. CASE RollbackEvent(e)
    <3>1. Unlogged' \subseteq Unlogged \cup {e}
      BY <2>4, <1>0 DEF RollbackEvent, Move, Unlogged, ServerTypeOK
    <3>2. faults'["rollback"] = faults["rollback"] + 1
      BY <2>4, <1>0 DEF RollbackEvent, Fault, ServerTypeOK, FaultKind
    <3> QED
      BY <3>1, <3>2, <1>0, OneAdded
  <2>5. CASE EmitUnpersisted(e)
    BY <2>5, <1>0, <1>a, NoneAdded
       DEF EmitUnpersisted, Move, Unlogged, LogInv, NoEarlyNumber, ServerTypeOK
  <2>6. CASE PersistUnavailable(e)
    <3>1. Unlogged' \subseteq Unlogged
      BY <2>6, <1>0
         DEF PersistUnavailable, Move, Unlogged, LogInv, NoEarlyNumber, ServerTypeOK
    <3> QED
      BY <2>6, <3>1, <1>0, NoneAdded, OtherFault DEF PersistUnavailable, FaultKind
  <2>7. CASE Crash(e)
    <3>1. Unlogged' \subseteq Unlogged
      BY <2>7, <1>0 DEF Crash, Move, Unlogged, LogInv, NoEarlyNumber, ServerTypeOK
    <3> QED
      BY <2>7, <3>1, <1>0, NoneAdded, OtherFault DEF Crash, FaultKind
  <2> QED
    BY <1>1, <2>1, <2>2, <2>3, <2>4, <2>5, <2>6, <2>7 DEF Persistence
<1>2. ASSUME NEW e \in Event, NEW r \in Room, EmitToRoom(e, r)
      PROVE  Counted'
  BY <1>2, <1>0, <1>a, NoneAdded DEF EmitToRoom, Move, Unlogged, ServerTypeOK
<1>3. CASE UNCHANGED serverVars
  BY <1>3, <1>0, <1>a, NoneAdded DEF serverVars, Unlogged
<1> QED
  BY <1>1, <1>2, <1>3 DEF ServerNext

\* No more envelopes go out under a number the log does not hold them under than
\* persistence transactions were undone after their allocation: crashes, lost
\* connections and concurrent allocations never mislead a reader.
THEOREM NumbersCanBeTrusted == ServerSpec => []StampedIsLogged
<1>1. ServerInit => Counted
  <2> SUFFICES ASSUME ServerInit PROVE Counted
    OBVIOUS
  <2>1. Unlogged = {}
    BY DEF ServerInit, Unlogged
  <2> QED
    BY <2>1, FS_EmptySet DEF Counted, StampedIsLogged, ServerInit, FaultKind
<1>2. LogInv /\ LogInv' /\ Counted /\ [ServerNext]_serverVars => Counted'
  BY CountedStep
<1>3. ServerSpec => []Counted
  BY <1>1, <1>2, LogInvariant, PTL DEF ServerSpec
<1> QED
  BY <1>3, PTL DEF Counted
=============================================================================
