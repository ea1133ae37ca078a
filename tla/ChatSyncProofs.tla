--------------------------- MODULE ChatSyncProofs ---------------------------
(***************************************************************************)
(* ChatSync for any events, rooms, browsers, listeners, page sizes and     *)
(* fault bounds: no listener runs twice for one event, and no browser's    *)
(* number is further ahead of the server's than one undone transaction     *)
(* explains, whatever fails.  As long as no transaction fails after its    *)
(* allocation, the log and its browsers implement ChatFeed, no event is    *)
(* skipped but by adopting a number, and listeners see events in the order *)
(* of the log.                                                             *)
(***************************************************************************)
EXTENDS ChatSync, EventEnvelopeProofs, FiniteSetTheorems, SequenceTheorems, WellFoundedInduction

-----------------------------------------------------------------------------
(* Listeners run at most once.  AtMostOnce is not inductive by itself: a   *)
(* wrapped listener asks whether the event was seen, so the proof has to   *)
(* know that whatever has run has been recorded as seen.                   *)

Shape(v) ==
    /\ v = [known |-> v.known, seen |-> v.seen, runs |-> v.runs]
    /\ v.runs \in [Event -> [Listener -> Nat]]

Once(v) ==
    /\ Shape(v)
    /\ \A e \in Event, l \in Listener :
          v.runs[e][l] <= 1 /\ (v.runs[e][l] > 0 => e \in v.seen)

OnceInv ==
    /\ view = [c \in Client |-> view[c]]
    /\ \A c \in Client : Once(view[c])

(* Running the listeners of an event nobody has seen. *)
LEMMA RunOnce ==
    ASSUME NEW v, Once(v), NEW e, e \notin v.seen, NEW ls
    PROVE  Once(Run(v, e, ls))
<1> DEFINE r == [v.runs EXCEPT ![e] =
                    [l \in Listener |-> v.runs[e][l] + (IF l \in ls THEN 1 ELSE 0)]]
<1>1. /\ Run(v, e, ls) = [known |-> Run(v, e, ls).known, seen |-> v.seen \cup {e}, runs |-> r]
      /\ Run(v, e, ls).seen = v.seen \cup {e} /\ Run(v, e, ls).runs = r
    BY DEF Run
<1>2. r \in [Event -> [Listener -> Nat]]
    <2>1. r = [f \in Event |-> IF f = e
                  THEN [l \in Listener |-> v.runs[f][l] + (IF l \in ls THEN 1 ELSE 0)]
                  ELSE v.runs[f]]
        BY DEF Once, Shape
    <2>2. v.runs \in [Event -> [Listener -> Nat]]
        BY DEF Once, Shape
    <2> HIDE DEF r
    <2> QED
        BY <2>1, <2>2
<1>3. \A f \in Event, l \in Listener :
          r[f][l] <= 1 /\ (r[f][l] > 0 => f \in v.seen \cup {e})
    <2> TAKE f \in Event, l \in Listener
    <2>1. CASE f # e
        BY <2>1 DEF Once, Shape
    <2>2. CASE f = e
        <3>1. v.runs[f][l] = 0
            BY <2>2 DEF Once, Shape
        <3>2. r[f][l] = v.runs[f][l] + (IF l \in ls THEN 1 ELSE 0)
            BY <2>2 DEF Once, Shape
        <3> QED
            BY <2>2, <3>1, <3>2
    <2> QED
        BY <2>1, <2>2
<1> HIDE DEF r
<1> QED
    BY <1>1, <1>2, <1>3 DEF Once, Shape

LEMMA IgnoreOnce ==
    ASSUME NEW v, Once(v), NEW e
    PROVE  Once(Ignore(v, e))
<1>1. PICK k, s, r : v = [known |-> k, seen |-> s, runs |-> r]
    BY DEF Once, Shape
<1>2. Ignore(v, e) = [[known |-> k, seen |-> s, runs |-> r] EXCEPT !.seen = s \cup {e}]
    BY <1>1 DEF Ignore
<1>3. Ignore(v, e) = [known |-> k, seen |-> s \cup {e}, runs |-> r]
    BY <1>2
<1> QED
    BY <1>1, <1>3 DEF Once, Shape

(* A listener that waited looks again. *)
LEMMA ResumeOnce ==
    ASSUME NEW v, Once(v), NEW e, NEW l
    PROVE  Once(Resume(v, e, l))
BY RunOnce, IgnoreOnce DEF Resume

(* A page runs only the listeners of events that were not seen. *)
LEMMA ReplayOnce ==
    ASSUME NEW v, Once(v), NEW w
    PROVE  Once(Replay(v, w))
<1> DEFINE fresh == {rows[p] : p \in {q \in w.page : q > v.known}} \ v.seen
           logged == {e \in {rows[p] : p \in w.page} : Heard(e)}
           r == [e \in Event |-> [l \in Listener |->
                    v.runs[e][l] + (IF e \in fresh /\ l <= NumListeners[e] THEN 1 ELSE 0)]]
<1>1. /\ Replay(v, w) = [known |-> Replay(v, w).known, seen |-> v.seen \cup logged, runs |-> r]
      /\ Replay(v, w).seen = v.seen \cup logged /\ Replay(v, w).runs = r
    BY DEF Replay
<1>2. r \in [Event -> [Listener -> Nat]]
    BY DEF Once, Shape
<1>3. ASSUME NEW e \in Event, NEW l \in Listener, e \in fresh, l <= NumListeners[e]
      PROVE  e \in logged
    <2>1. NumListeners[e] \in Nat /\ l \in Nat /\ l > 0
        BY SyncAssumption DEF Listener
    <2>2. Heard(e)
        BY <1>3, <2>1 DEF Heard
    <2> QED
        BY <1>3, <2>2
<1>4. \A e \in Event, l \in Listener :
          r[e][l] <= 1 /\ (r[e][l] > 0 => e \in v.seen \cup logged)
    <2> TAKE e \in Event, l \in Listener
    <2>1. r[e][l] = v.runs[e][l] + (IF e \in fresh /\ l <= NumListeners[e] THEN 1 ELSE 0)
        OBVIOUS
    <2>2. v.runs[e][l] \in Nat /\ v.runs[e][l] <= 1 /\ (v.runs[e][l] > 0 => e \in v.seen)
        BY DEF Once, Shape
    <2>3. e \in fresh => e \notin v.seen
        OBVIOUS
    <2> HIDE DEF fresh, logged, r
    <2> QED
        BY <1>3, <2>1, <2>2, <2>3
<1> HIDE DEF fresh, logged, r
<1> QED
    BY <1>1, <1>2, <1>4 DEF Once, Shape

LEMMA AdoptOnce ==
    ASSUME OnceInv, NEW c \in Client, NEW n, Adopt(c, n)
    PROVE  OnceInv'
<1>1. view' = [view EXCEPT ![c] = [view[c] EXCEPT !.known = Larger(@, n)]]
    BY DEF Adopt
<1>2. Once([view[c] EXCEPT !.known = Larger(@, n)])
    BY DEF OnceInv, Once, Shape
<1> QED
    BY <1>1, <1>2 DEF OnceInv

LEMMA OnceInitial == Init => OnceInv
<1> SUFFICES ASSUME Init PROVE OnceInv
    OBVIOUS
<1>1. view = [c \in Client |-> [known |-> 0, seen |-> {},
                   runs |-> [e \in Event |-> [l \in Listener |-> 0]]]]
    BY DEF Init
<1>2. ASSUME NEW c \in Client PROVE Once(view[c])
    <2>1. view[c] = [known |-> 0, seen |-> {},
                     runs |-> [e \in Event |-> [l \in Listener |-> 0]]]
        BY <1>1
    <2> QED
        BY <2>1 DEF Once, Shape
<1> QED
    BY <1>1, <1>2 DEF OnceInv

LEMMA OnceStep == OnceInv /\ [Next]_vars => OnceInv'
<1> SUFFICES ASSUME OnceInv, [Next]_vars PROVE OnceInv'
    OBVIOUS
<1>1. ASSUME view' = view PROVE OnceInv'
    BY <1>1 DEF OnceInv
<1>2. ASSUME NEW c \in Client, NEW v, Once(v), view' = [view EXCEPT ![c] = v] PROVE OnceInv'
    BY <1>2 DEF OnceInv
<1>3. ASSUME NEW e \in Event, Serve(e) \/ \E r \in Room : Emit(e, r) PROVE OnceInv'
    BY <1>1, <1>3 DEF Serve, Emit, clientVars
<1>4. ASSUME NEW c \in Client, Open(c) \/ JoinRoom(c) \/ Drop(c) \/ Reconnect(c) PROVE OnceInv'
    BY <1>1, <1>4 DEF Open, JoinRoom, Drop, Reconnect
<1>5. ASSUME NEW c \in Client, Receive(c) PROVE OnceInv'
    <2>1. PICK e \in Event : \/ ReceiveRepeat(c, e) \/ ReceiveStale(c, e)
                             \/ ReceiveAhead(c, e)  \/ ReceiveNow(c, e)
        BY <1>5 DEF Receive
    <2>2. CASE ReceiveRepeat(c, e) \/ ReceiveAhead(c, e)
        BY <1>1, <2>2 DEF ReceiveRepeat, ReceiveAhead
    <2>3. CASE ReceiveStale(c, e)
        <3>1. Once(Ignore(view[c], e))
            BY IgnoreOnce DEF OnceInv
        <3>2. view' = [view EXCEPT ![c] = Ignore(view[c], e)]
            BY <2>3 DEF ReceiveStale
        <3> QED
            BY <1>2, <3>1, <3>2
    <2>4. CASE ReceiveNow(c, e)
        <3>1. Once(Run(view[c], e, 1 .. NumListeners[e]))
            BY <2>4, RunOnce DEF OnceInv, ReceiveNow
        <3>2. view' = [view EXCEPT ![c] = Run(view[c], e, 1 .. NumListeners[e])]
            BY <2>4 DEF ReceiveNow
        <3> QED
            BY <1>2, <3>1, <3>2
    <2> QED
        BY <2>1, <2>2, <2>3, <2>4
<1>6. ASSUME NEW c \in Client, TakeGap(c) PROVE OnceInv'
    <2> DEFINE g == gaps[c][1]
               v == Replay(view[c], g.walk)
    <2>1. Once(v) /\ Once(Resume(v, g.event, g.listener))
        BY ReplayOnce, ResumeOnce DEF OnceInv
    <2>2. \/ view' = [view EXCEPT ![c] = v]
          \/ view' = [view EXCEPT ![c] = Resume(v, g.event, g.listener)]
        BY <1>6 DEF TakeGap
    <2> HIDE DEF g, v
    <2> QED
        BY <1>2, <2>1, <2>2
<1>7. ASSUME NEW c \in Client, AnswerGap(c) \/ AnswerPrime(c) PROVE OnceInv'
    BY <1>1, <1>7 DEF AnswerGap, AnswerPrime
<1>8. ASSUME NEW c \in Client, TakePrime(c) PROVE OnceInv'
    BY <1>8, AdoptOnce DEF TakePrime
<1>9. ASSUME NEW c \in Client, NEW k \in Slot, AnswerSync(c, k) \/ TakeState(c, k) PROVE OnceInv'
    BY <1>1, <1>9, AdoptOnce DEF AnswerSync, TakeState
<1>10. ASSUME NEW c \in Client, NEW k \in Slot, TakeSync(c, k) PROVE OnceInv'
    <2>1. view' = [view EXCEPT ![c] = Replay(view[c], sync[c][k].walk)]
        BY <1>10 DEF TakeSync
    <2>2. Once(Replay(view[c], sync[c][k].walk))
        BY ReplayOnce DEF OnceInv
    <2> QED
        BY <1>2, <2>1, <2>2
<1>11. ASSUME NEW c \in Client, Failures(c) PROVE OnceInv'
    BY <1>1, <1>11 DEF Failures, FailGap, FailPrime, FailSync
<1>12. CASE UNCHANGED vars
    BY <1>1, <1>12 DEF vars, clientVars
<1> QED
    BY <1>3, <1>4, <1>5, <1>6, <1>7, <1>8, <1>9, <1>10, <1>11, <1>12 DEF Next, Requests

(* However often an event arrives, live in two rooms, replayed by several   *)
(* recoveries at once or after a wait, no listener runs twice for it.       *)
THEOREM ListenersRunOnce == Spec => []AtMostOnce
<1>1. OnceInv => AtMostOnce
    BY DEF OnceInv, Once, AtMostOnce
<1> QED
    BY <1>1, OnceInitial, OnceStep, PTL DEF Spec

-----------------------------------------------------------------------------
(* How far a browser's number may run ahead of the server's.  It comes from *)
(* envelopes, from pages of the log and from the server's answers, so the   *)
(* invariant bounds all three, by Mark.  An envelope whose transaction was  *)
(* undone holds the number the next transaction will be given, and none     *)
(* holds a higher one (NumbersInReach); Mark is that number as long as such *)
(* an envelope is out, and never sinks.                                     *)

WalkTo(m, n) == [cursor : 0 .. m, target : Nat, steps : Nat,
                 got : BOOLEAN, page : SUBSET (1 .. n), more : BOOLEAN]
ViewTo(m) == [known : 0 .. m, seen : SUBSET Event, runs : [Event -> [Listener -> Nat]]]
GapTo(m, n, es) == [event : es, listener : Listener, walk : WalkTo(m, n)]
PrimeTo(n) == [phase : {"idle", "ask", "told"}, server : 0 .. n]
SyncTo(m, n) == [phase : {"idle", "ask", "told", "walk"},
                 local : 0 .. m, server : 0 .. n, walk : WalkTo(m, n)]

(* m bounds what browsers know, n what the log holds; es are the events that *)
(* may be on their way.                                                      *)
Bounded(m, n, es) ==
    /\ inbox \in [Client -> Seq(es)]
    /\ view \in [Client -> ViewTo(m)]
    /\ gaps \in [Client -> Seq(GapTo(m, n, es))]
    /\ prime \in [Client -> PrimeTo(n)]
    /\ sync \in [Client -> [Slot -> SyncTo(m, n)]]

(* What was sent has been numbered for good. *)
SentEvents == {e \in Event : stage[e] \in {"ready", "done"}}

(* The highest number anything may have told a browser. *)
Mark == IF \E e \in SentEvents : pts[e] = lastPts + 1 THEN lastPts + 1 ELSE lastPts

Plain ==
    /\ link \in [Client -> {"new", "off", "linked", "joined"}]
    /\ floor \in [Client -> Nat]
    /\ missed \in [Client -> SUBSET Event]

SyncInv ==
    /\ LogInv
    /\ Bounded(Mark, lastPts, SentEvents)
    /\ Plain

LEMMA MarkIs ==
    ASSUME LogInv
    PROVE  /\ Mark \in Nat /\ lastPts \in Nat /\ lastPts <= Mark
           /\ \A e \in SentEvents : e \in Event /\ pts[e] \in 0 .. Mark
BY DEF LogInv, ServerTypeOK, NumbersInReach, Mark, SentEvents

(* The highest number of a page that has one. *)
LEMMA MaxIsIn ==
    ASSUME NEW n \in Nat, NEW S, S \subseteq 0 .. n, S # {}
    PROVE  Max(S) \in S /\ \A x \in S : x <= Max(S)
<1> DEFINE T == {n - x : x \in S}
           R == OpToRel(<, Nat)
<1>1. T \subseteq Nat /\ T # {}
    <2>1. \A x \in S : x \in Nat /\ n - x \in Nat
        OBVIOUS
    <2> QED
        BY <2>1
<1>2. IsWellFoundedOn(R, Nat)
    BY NatLessThanWellFounded
<1> HIDE DEF R
<1>3. PICK t \in T : \A y \in T : ~ (<<y, t>> \in R)
    <2> HIDE DEF T
    <2> QED
        BY <1>1, <1>2, WFMin
<1>4. \A y \in T : ~ (y < t)
    <2> HIDE DEF T
    <2> QED
        BY <1>1, <1>3 DEF R, OpToRel
<1>5. PICK x \in S : t = n - x
    OBVIOUS
<1>6. \A y \in S : x >= y
    <2> TAKE y \in S
    <2>1. n - y \in T
        OBVIOUS
    <2>2. ~(n - y < n - x)
        BY <2>1, <1>4, <1>5
    <2> QED
        BY <2>2
<1>7. Max(S) \in S /\ \A y \in S : Max(S) >= y
    BY <1>6 DEF Max
<1> QED
    BY <1>7

LEMMA NextCursorTo ==
    ASSUME NEW n \in Nat, NEW m \in Nat, n <= m, NEW w \in WalkTo(m, n)
    PROVE  NextCursor(w) \in 0 .. m
<1>1. w.page \cup {w.cursor} \subseteq 0 .. m
    BY DEF WalkTo
<1> QED
    BY <1>1, MaxIsIn DEF NextCursor

LEMMA WalkFrom ==
    ASSUME NEW n \in Nat, NEW m \in Nat, NEW a \in 0 .. m, NEW b \in Nat
    PROVE  Walk(a, b) \in WalkTo(m, n)
BY DEF Walk, WalkTo

LEMMA NextPageTo ==
    ASSUME NEW n \in Nat, NEW m \in Nat, n <= m, NEW w \in WalkTo(m, n)
    PROVE  NextPage(w) \in WalkTo(m, n)
<1>1. w.target \in Nat /\ w.steps + 1 \in Nat
    BY DEF WalkTo
<1>2. Walk(NextCursor(w), w.target) \in WalkTo(m, n)
    BY <1>1, NextCursorTo, WalkFrom
<1> QED
    BY <1>1, <1>2 DEF NextPage, WalkTo

LEMMA IdleTo ==
    ASSUME NEW n \in Nat, NEW m \in Nat
    PROVE  IdleSync \in SyncTo(m, n) /\ IdlePrime \in PrimeTo(n)
<1>1. Walk(0, 0) \in WalkTo(m, n) /\ 0 \in 0 .. n /\ 0 \in 0 .. m
    BY WalkFrom
<1> QED
    BY <1>1 DEF IdleSync, IdlePrime, SyncTo, PrimeTo

(* A page holds rows of the log. *)
LEMMA AnswerTo ==
    ASSUME LogInv, NEW m \in Nat, NEW w \in WalkTo(m, lastPts)
    PROVE  Answer(w) \in WalkTo(m, lastPts)
<1> DEFINE above == {p \in DOMAIN rows : p > w.cursor}
           page == {p \in above : Cardinality({q \in above : q < p}) < PageLimit}
<1>1. page \subseteq 1 .. lastPts /\ (page # above) \in BOOLEAN
    BY DEF LogInv, LogGapFree
<1>2. Answer(w) = [w EXCEPT !.got = TRUE, !.page = page, !.more = (page # above)]
    BY DEF Answer
<1> HIDE DEF above, page
<1> QED
    BY <1>1, <1>2 DEF WalkTo

LEMMA LargerTo ==
    ASSUME NEW n \in Nat, NEW a \in 0 .. n, NEW b \in 0 .. n
    PROVE  Larger(a, b) \in 0 .. n
BY DEF Larger

LEMMA RunTo ==
    ASSUME NEW n \in Nat, NEW v \in ViewTo(n), NEW e \in Event, pts[e] \in 0 .. n, NEW ls
    PROVE  Run(v, e, ls) \in ViewTo(n)
<1>1. Larger(v.known, pts[e]) \in 0 .. n
    BY LargerTo DEF ViewTo
<1>2. v.runs \in [Event -> [Listener -> Nat]] /\ v.seen \cup {e} \in SUBSET Event
    BY DEF ViewTo
<1>3. [l \in Listener |-> v.runs[e][l] + (IF l \in ls THEN 1 ELSE 0)] \in [Listener -> Nat]
    BY <1>2
<1>4. [v.runs EXCEPT ![e] = [l \in Listener |-> v.runs[e][l] + (IF l \in ls THEN 1 ELSE 0)]]
          \in [Event -> [Listener -> Nat]]
    BY <1>2, <1>3
<1> QED
    BY <1>1, <1>2, <1>4 DEF Run, ViewTo

LEMMA IgnoreTo ==
    ASSUME NEW n \in Nat, NEW v \in ViewTo(n), NEW e \in Event
    PROVE  Ignore(v, e) \in ViewTo(n)
BY DEF Ignore, ViewTo

LEMMA ResumeTo ==
    ASSUME NEW n \in Nat, NEW v \in ViewTo(n), NEW e \in Event, pts[e] \in 0 .. n, NEW l
    PROVE  Resume(v, e, l) \in ViewTo(n)
BY RunTo, IgnoreTo DEF Resume

LEMMA ReplayTo ==
    ASSUME LogInv, NEW m \in Nat, lastPts <= m,
           NEW v \in ViewTo(m), NEW w \in WalkTo(m, lastPts)
    PROVE  Replay(v, w) \in ViewTo(m)
<1> DEFINE fresh == {rows[p] : p \in {q \in w.page : q > v.known}} \ v.seen
           r == [e \in Event |-> [l \in Listener |->
                    v.runs[e][l] + (IF e \in fresh /\ l <= NumListeners[e] THEN 1 ELSE 0)]]
           s == v.seen \cup {e \in {rows[p] : p \in w.page} : Heard(e)}
<1>1. Larger(v.known, NextCursor(w)) \in 0 .. m
    BY LargerTo, NextCursorTo DEF ViewTo, LogInv, ServerTypeOK
<1>2. r \in [Event -> [Listener -> Nat]]
    <2>1. v.runs \in [Event -> [Listener -> Nat]]
        BY DEF ViewTo
    <2> HIDE DEF fresh
    <2> QED
        BY <2>1
<1>3. s \in SUBSET Event
    <2>1. \A p \in w.page : rows[p] \in Event
        BY DEF WalkTo, LogInv, LogGapFree, ServerTypeOK
    <2> QED
        BY <2>1 DEF ViewTo
<1>4. Replay(v, w) = [known |-> Larger(v.known, NextCursor(w)), seen |-> s, runs |-> r]
    BY DEF Replay
<1> HIDE DEF fresh, r, s
<1> QED
    BY <1>1, <1>2, <1>3, <1>4 DEF ViewTo

LEMMA IsSeqOf ==
    ASSUME NEW S, NEW n \in Nat, NEW f, f \in [1 .. n -> S]
    PROVE  f \in Seq(S)
OBVIOUS

LEMMA SeqGrows ==
    ASSUME NEW S, NEW T, S \subseteq T
    PROVE  Seq(S) \subseteq Seq(T)
OBVIOUS

LEMMA BoundGrows ==
    ASSUME NEW n \in Nat, NEW m \in Nat, NEW q \in Nat, NEW p \in Nat, n <= q, m <= p,
           NEW es, NEW fs, es \subseteq fs, Bounded(m, n, es)
    PROVE  Bounded(p, q, fs)
<1>1. 0 .. n \subseteq 0 .. q /\ 1 .. n \subseteq 1 .. q /\ 0 .. m \subseteq 0 .. p
    OBVIOUS
<1>2. WalkTo(m, n) \subseteq WalkTo(p, q) /\ ViewTo(m) \subseteq ViewTo(p) /\ PrimeTo(n) \subseteq PrimeTo(q)
    BY <1>1 DEF WalkTo, ViewTo, PrimeTo
<1>3. GapTo(m, n, es) \subseteq GapTo(p, q, fs) /\ SyncTo(m, n) \subseteq SyncTo(p, q)
    BY <1>1, <1>2 DEF GapTo, SyncTo
<1>4. Seq(GapTo(m, n, es)) \subseteq Seq(GapTo(p, q, fs)) /\ Seq(es) \subseteq Seq(fs)
    BY <1>3
<1> QED
    BY <1>2, <1>3, <1>4 DEF Bounded

LEMMA SyncInitial == Init => SyncInv
<1> SUFFICES ASSUME Init PROVE SyncInv
    OBVIOUS
<1>1. LogInv /\ lastPts = 0
    BY LogInit DEF Init, ServerInit
<1>2. Mark = 0
    BY DEF Init, ServerInit, Mark, SentEvents
<1>3. Plain
    BY DEF Init, Plain
<1>4. view \in [Client -> ViewTo(0)]
    <2>1. [known |-> 0, seen |-> {}, runs |-> [e \in Event |-> [l \in Listener |-> 0]]] \in ViewTo(0)
        BY DEF ViewTo
    <2> QED
        BY <2>1 DEF Init
<1>5. gaps \in [Client -> Seq(GapTo(0, 0, SentEvents))] /\ inbox \in [Client -> Seq(SentEvents)]
    BY DEF Init
<1>6. prime \in [Client -> PrimeTo(0)] /\ sync \in [Client -> [Slot -> SyncTo(0, 0)]]
    BY IdleTo DEF Init
<1> QED
    BY <1>1, <1>2, <1>3, <1>4, <1>5, <1>6 DEF SyncInv, Bounded

(* What a browser does leaves the log alone, but for the count of faults. *)
LEMMA LogKept ==
    ASSUME LogInv,
           \/ UNCHANGED serverVars
           \/ \E k \in FaultKind : Fault(k) /\ UNCHANGED <<lastPts, rows, stage, pts, todo>>
    PROVE  LogInv' /\ UNCHANGED <<lastPts, rows, stage, pts>>
<1>1. /\ UNCHANGED <<lastPts, rows, stage, pts, todo>>
      /\ faults' \in [FaultKind -> Nat]
    BY FaultType DEF serverVars, LogInv, ServerTypeOK
<1> QED
    BY <1>1 DEF LogInv, ServerTypeOK, LogGapFree, RowIsStamp, OneOpen, OpenIsNext,
                NoEarlyNumber, RowIsFinal, NumbersInReach

(* The server only appends to the log, what was sent stays sent, and the    *)
(* bound never sinks.                                                        *)
LEMMA ServerStep ==
    ASSUME LogInv, NEW e \in Event,
           Persistence(e) \/ \E r \in Room : EmitToRoom(e, r)
    PROVE  /\ LogInv' /\ lastPts \in Nat /\ lastPts' \in Nat /\ lastPts <= lastPts'
           /\ Mark \in Nat /\ Mark' \in Nat /\ Mark <= Mark'
           /\ SentEvents \subseteq SentEvents'
<1>1. LogInv'
    BY LogStep DEF ServerNext
<1>2. lastPts \in Nat /\ lastPts' \in Nat
    BY <1>1 DEF LogInv, ServerTypeOK
<1>3. lastPts' = lastPts \/ lastPts' = lastPts + 1
    BY <1>2 DEF Persistence, Store, Allocate, CommitEvent, RollbackEvent, EmitUnpersisted,
                PersistUnavailable, Crash, EmitToRoom, LogInv, OpenIsNext
<1>4. \A f \in Event : stage[f] \in {"ready", "done"} =>
                           stage'[f] \in {"ready", "done"} /\ pts'[f] = pts[f]
    BY DEF Persistence, Store, Allocate, CommitEvent, RollbackEvent, EmitUnpersisted,
           PersistUnavailable, Crash, EmitToRoom, Move, LogInv, ServerTypeOK
<1>5. SentEvents \subseteq SentEvents'
    BY <1>4 DEF SentEvents
<1>6. /\ Mark = lastPts \/ Mark = lastPts + 1
      /\ Mark' = lastPts' \/ Mark' = lastPts' + 1
    BY DEF Mark
<1>7. Mark <= Mark'
    <2>1. CASE lastPts' = lastPts + 1
        BY <1>2, <1>6, <2>1
    <2>2. CASE lastPts' = lastPts
        <3>1. ASSUME NEW f \in SentEvents, pts[f] = lastPts + 1
              PROVE  f \in SentEvents' /\ pts'[f] = lastPts' + 1
            BY <1>4, <2>2, <3>1 DEF SentEvents
        <3> QED
            BY <1>2, <1>6, <2>2, <3>1 DEF Mark
    <2> QED
        BY <1>3, <2>1, <2>2
<1> QED
    BY <1>1, <1>2, <1>3, <1>5, <1>6, <1>7

LEMMA ServeStep ==
    ASSUME SyncInv, NEW e \in Event, Serve(e)
    PROVE  SyncInv'
<1>1. /\ LogInv' /\ lastPts \in Nat /\ lastPts' \in Nat /\ lastPts <= lastPts'
      /\ Mark \in Nat /\ Mark' \in Nat /\ Mark <= Mark'
      /\ SentEvents \subseteq SentEvents'
    BY ServerStep DEF Serve, SyncInv
<1>2. Bounded(Mark', lastPts', SentEvents')
    BY <1>1, BoundGrows DEF SyncInv
<1>3. Bounded(Mark, lastPts, SentEvents)' /\ Plain'
    BY <1>1, <1>2 DEF Serve, clientVars, Bounded, SyncInv, Plain
<1> QED
    BY <1>1, <1>3 DEF SyncInv

LEMMA EmitStep ==
    ASSUME SyncInv, NEW e \in Event, NEW r \in Room, Emit(e, r)
    PROVE  SyncInv'
<1>1. /\ LogInv' /\ lastPts \in Nat /\ lastPts' \in Nat /\ lastPts <= lastPts'
      /\ Mark \in Nat /\ Mark' \in Nat /\ Mark <= Mark'
      /\ SentEvents \subseteq SentEvents'
    BY ServerStep DEF Emit, SyncInv
<1>2. Bounded(Mark', lastPts', SentEvents')
    BY <1>1, BoundGrows DEF SyncInv
<1>3. e \in SentEvents'
    BY <1>1 DEF Emit, EmitToRoom, SentEvents
<1>4. inbox' \in [Client -> Seq(SentEvents')]
    <2>1. inbox \in [Client -> Seq(SentEvents')]
        BY <1>2 DEF Bounded
    <2>2. \A c \in Client : Append(inbox[c], e) \in Seq(SentEvents')
        BY <1>3, <2>1
    <2> QED
        BY <2>1, <2>2 DEF Emit
<1>5. Bounded(Mark, lastPts, SentEvents)'
    BY <1>2, <1>4 DEF Emit, Bounded
<1>6. Plain'
    BY DEF Emit, Plain, SyncInv
<1> QED
    BY <1>1, <1>5, <1>6 DEF SyncInv

(* A step of a browser that stays within the bounds. *)
LEMMA BrowserStep ==
    ASSUME SyncInv,
           \/ UNCHANGED serverVars
           \/ \E k \in FaultKind : Fault(k) /\ UNCHANGED <<lastPts, rows, stage, pts, todo>>,
           inbox' \in [Client -> Seq(SentEvents)],
           view' \in [Client -> ViewTo(Mark)],
           gaps' \in [Client -> Seq(GapTo(Mark, lastPts, SentEvents))],
           prime' \in [Client -> PrimeTo(lastPts)],
           sync' \in [Client -> [Slot -> SyncTo(Mark, lastPts)]],
           link' \in [Client -> {"new", "off", "linked", "joined"}],
           floor' \in [Client -> Nat],
           missed' = missed
    PROVE  SyncInv'
<1>1. LogInv' /\ UNCHANGED <<lastPts, rows, stage, pts>>
    BY LogKept DEF SyncInv
<1>2. SentEvents' = SentEvents /\ Mark' = Mark
    BY <1>1 DEF SentEvents, Mark
<1>3. Bounded(Mark, lastPts, SentEvents)'
    BY <1>1, <1>2 DEF Bounded
<1>4. Plain'
    BY DEF Plain, SyncInv
<1> QED
    BY <1>1, <1>3, <1>4 DEF SyncInv

(* What the invariant says of the variables of the browsers. *)
LEMMA WithinMark ==
    ASSUME SyncInv
    PROVE  /\ LogInv /\ lastPts \in Nat /\ Mark \in Nat /\ lastPts <= Mark
           /\ inbox \in [Client -> Seq(SentEvents)]
           /\ view \in [Client -> ViewTo(Mark)]
           /\ gaps \in [Client -> Seq(GapTo(Mark, lastPts, SentEvents))]
           /\ prime \in [Client -> PrimeTo(lastPts)]
           /\ sync \in [Client -> [Slot -> SyncTo(Mark, lastPts)]]
           /\ link \in [Client -> {"new", "off", "linked", "joined"}]
           /\ floor \in [Client -> Nat]
           /\ \A c \in Client : view[c].known \in 0 .. Mark
BY MarkIs DEF SyncInv, Bounded, Plain, ViewTo

LEMMA LinkStep ==
    ASSUME SyncInv, NEW c \in Client, Open(c) \/ JoinRoom(c) \/ Drop(c) \/ Reconnect(c)
    PROVE  SyncInv'
<1>1. ASSUME AskPrime(c) PROVE prime' \in [Client -> PrimeTo(lastPts)]
    BY <1>1, WithinMark DEF AskPrime, PrimeTo
<1>2. CASE Open(c) \/ JoinRoom(c)
    BY <1>1, <1>2, WithinMark, BrowserStep DEF Open, JoinRoom
<1>3. CASE Drop(c)
    <2>1. "drop" \in FaultKind
        BY DEF FaultKind
    <2>2. inbox' \in [Client -> Seq(SentEvents)]
        BY <1>3, WithinMark DEF Drop
    <2> QED
        BY <1>3, <2>1, <2>2, WithinMark, BrowserStep DEF Drop
<1>4. CASE Reconnect(c)
    <2>1. PICK k \in Slot : sync' = [sync EXCEPT ![c][k] =
                                [IdleSync EXCEPT !.phase = "ask", !.local = view[c].known]]
        BY <1>4 DEF Reconnect
    <2>2. [IdleSync EXCEPT !.phase = "ask", !.local = view[c].known] \in SyncTo(Mark, lastPts)
        BY WithinMark, IdleTo DEF SyncTo
    <2>3. sync' \in [Client -> [Slot -> SyncTo(Mark, lastPts)]]
        BY <2>1, <2>2, WithinMark
    <2> QED
        BY <1>1, <1>4, <2>3, WithinMark, BrowserStep DEF Reconnect
<1> QED
    BY <1>2, <1>3, <1>4

LEMMA ReceiveStep ==
    ASSUME SyncInv, NEW c \in Client, Receive(c)
    PROVE  SyncInv'
<1>1. PICK e \in Event : \/ ReceiveRepeat(c, e) \/ ReceiveStale(c, e)
                         \/ ReceiveAhead(c, e)  \/ ReceiveNow(c, e)
    BY DEF Receive
<1>2. /\ inbox[c] # <<>> /\ e = Head(inbox[c]) /\ inbox' = [inbox EXCEPT ![c] = Tail(@)]
      /\ UNCHANGED <<serverVars, link, prime, sync, missed>>
    BY <1>1 DEF ReceiveRepeat, ReceiveStale, ReceiveAhead, ReceiveNow, Arrives
<1>3. e \in SentEvents /\ Tail(inbox[c]) \in Seq(SentEvents)
    BY <1>2, WithinMark
<1>4. pts[e] \in 0 .. Mark /\ inbox' \in [Client -> Seq(SentEvents)]
    BY <1>2, <1>3, WithinMark, MarkIs
<1>5. /\ view' \in [Client -> ViewTo(Mark)] /\ floor' \in [Client -> Nat]
      /\ gaps' \in [Client -> Seq(GapTo(Mark, lastPts, SentEvents))]
    <2>1. CASE ReceiveRepeat(c, e)
        BY <2>1, WithinMark DEF ReceiveRepeat
    <2>2. CASE ReceiveStale(c, e)
        <3>1. Ignore(view[c], e) \in ViewTo(Mark)
            BY WithinMark, IgnoreTo
        <3> QED
            BY <2>2, <3>1, WithinMark DEF ReceiveStale
    <2>3. CASE ReceiveAhead(c, e)
        <3> DEFINE new == [l \in 1 .. NumListeners[e] |->
                              [event |-> e, listener |-> l,
                               walk |-> Walk(view[c].known, pts[e] - 1)]]
        <3>1. pts[e] - 1 \in Nat
            <4>1. view[c].known > 0 /\ pts[e] > view[c].known + 1
                BY <2>3 DEF ReceiveAhead
            <4>2. view[c].known \in Nat /\ pts[e] \in Nat
                BY <1>4, WithinMark
            <4> QED
                BY <4>1, <4>2
        <3>2. Walk(view[c].known, pts[e] - 1) \in WalkTo(Mark, lastPts)
            BY <3>1, WithinMark, WalkFrom
        <3>3. NumListeners[e] \in Nat /\ 1 .. NumListeners[e] \subseteq Listener
            BY SyncAssumption DEF Listener
        <3>4. \A l \in 1 .. NumListeners[e] : new[l] \in GapTo(Mark, lastPts, SentEvents)
            BY <1>3, <3>2, <3>3 DEF GapTo
        <3>5. new \in Seq(GapTo(Mark, lastPts, SentEvents))
            <4>1. new \in [1 .. NumListeners[e] -> GapTo(Mark, lastPts, SentEvents)]
                BY <3>4
            <4> HIDE DEF new
            <4> QED
                BY <3>3, <4>1, IsSeqOf
        <3>6. gaps[c] \o new \in Seq(GapTo(Mark, lastPts, SentEvents))
            BY <3>5, WithinMark
        <3>7. gaps' = [gaps EXCEPT ![c] = gaps[c] \o new] /\ UNCHANGED <<view, floor>>
            BY <2>3 DEF ReceiveAhead
        <3> HIDE DEF new
        <3> QED
            BY <3>6, <3>7, WithinMark
    <2>4. CASE ReceiveNow(c, e)
        <3>1. Run(view[c], e, 1 .. NumListeners[e]) \in ViewTo(Mark)
            BY <1>4, WithinMark, RunTo
        <3>2. view' \in [Client -> ViewTo(Mark)] /\ gaps' = gaps
            BY <2>4, <3>1, WithinMark DEF ReceiveNow
        <3>3. (IF pts[e] > 0 /\ view[c].known = 0 THEN pts[e] - 1 ELSE floor[c]) \in Nat
            BY <1>4, WithinMark
        <3>4. floor' \in [Client -> Nat]
            BY <2>4, <3>3, WithinMark DEF ReceiveNow
        <3> QED
            BY <3>2, <3>4, WithinMark
    <2> QED
        BY <1>1, <2>1, <2>2, <2>3, <2>4
<1> QED
    BY <1>2, <1>4, <1>5, WithinMark, BrowserStep

(* A recovery's page is asked for, replayed, or lost. *)
LEMMA GapStep ==
    ASSUME SyncInv, NEW c \in Client, AnswerGap(c) \/ TakeGap(c) \/ FailGap(c)
    PROVE  SyncInv'
<1> DEFINE g == gaps[c][1]
           G == GapTo(Mark, lastPts, SentEvents)
<1>1. gaps[c] \in Seq(G) /\ gaps[c] # <<>>
    BY WithinMark DEF AnswerGap, TakeGap, FailGap
<1>2. g \in G /\ Tail(gaps[c]) \in Seq(G) /\ 1 \in 1 .. Len(gaps[c])
    BY <1>1
<1>3. /\ g.event \in SentEvents /\ g.listener \in Listener /\ g.walk \in WalkTo(Mark, lastPts)
      /\ view[c] \in ViewTo(Mark)
    BY <1>2, WithinMark DEF GapTo
<1>4. [gaps EXCEPT ![c] = Tail(@)] \in [Client -> Seq(G)]
    BY <1>2, WithinMark
<1>5. ASSUME NEW w \in WalkTo(Mark, lastPts)
      PROVE  [gaps EXCEPT ![c][1].walk = w] \in [Client -> Seq(G)]
    <2>1. [g EXCEPT !.walk = w] \in G
        BY <1>2 DEF GapTo
    <2>2. [gaps[c] EXCEPT ![1] = [g EXCEPT !.walk = w]] \in Seq(G)
        BY <1>1, <1>2, <2>1
    <2> QED
        BY <2>2, WithinMark
<1>6. CASE AnswerGap(c)
    <2>1. gaps' \in [Client -> Seq(G)]
        BY <1>3, <1>5, <1>6, AnswerTo, WithinMark DEF AnswerGap
    <2> QED
        BY <1>6, <2>1, WithinMark, BrowserStep DEF AnswerGap
<1>7. CASE TakeGap(c)
    <2> DEFINE v == Replay(view[c], g.walk)
    <2>1. v \in ViewTo(Mark)
        BY <1>3, ReplayTo, WithinMark
    <2>2. Resume(v, g.event, g.listener) \in ViewTo(Mark)
        BY <1>3, <2>1, ResumeTo, MarkIs, WithinMark
    <2>3. /\ \/ view' = [view EXCEPT ![c] = v]
             \/ view' = [view EXCEPT ![c] = Resume(v, g.event, g.listener)]
          /\ \/ gaps' = [gaps EXCEPT ![c][1].walk = NextPage(g.walk)]
             \/ gaps' = [gaps EXCEPT ![c] = Tail(@)]
          /\ UNCHANGED <<serverVars, link, inbox, prime, sync, floor, missed>>
        BY <1>7 DEF TakeGap
    <2>4. view' \in [Client -> ViewTo(Mark)]
        BY <2>1, <2>2, <2>3, WithinMark
    <2>5. gaps' \in [Client -> Seq(G)]
        <3>1. NextPage(g.walk) \in WalkTo(Mark, lastPts)
            BY <1>3, NextPageTo, WithinMark
        <3>2. [gaps EXCEPT ![c][1].walk = NextPage(g.walk)] \in [Client -> Seq(G)]
            BY <1>5, <3>1
        <3> QED
            BY <1>4, <2>3, <3>2
    <2> QED
        BY <2>3, <2>4, <2>5, WithinMark, BrowserStep
<1>8. CASE FailGap(c)
    <2>1. "http" \in FaultKind
        BY DEF FaultKind
    <2> QED
        BY <1>4, <1>8, <2>1, WithinMark, BrowserStep DEF FailGap
<1> QED
    BY <1>6, <1>7, <1>8

(* __sun_setChatPts with a number of the server. *)
LEMMA AdoptTo ==
    ASSUME SyncInv, NEW c \in Client, NEW n \in 0 .. Mark, Adopt(c, n)
    PROVE  view' \in [Client -> ViewTo(Mark)] /\ floor' \in [Client -> Nat]
<1>1. Larger(view[c].known, n) \in 0 .. Mark
    BY WithinMark, LargerTo
<1>2. [view[c] EXCEPT !.known = Larger(view[c].known, n)] \in ViewTo(Mark)
    BY <1>1, WithinMark DEF ViewTo
<1>3. view' = [view EXCEPT ![c] = [view[c] EXCEPT !.known = Larger(view[c].known, n)]]
    BY DEF Adopt
<1> QED
    BY <1>2, <1>3, WithinMark DEF Adopt

LEMMA PrimeStep ==
    ASSUME SyncInv, NEW c \in Client, AnswerPrime(c) \/ TakePrime(c) \/ FailPrime(c)
    PROVE  SyncInv'
<1>1. CASE AnswerPrime(c)
    <2>1. [phase |-> "told", server |-> lastPts] \in PrimeTo(lastPts)
        BY WithinMark DEF PrimeTo
    <2>2. prime' \in [Client -> PrimeTo(lastPts)]
        BY <1>1, <2>1, WithinMark DEF AnswerPrime
    <2> QED
        BY <1>1, <2>2, WithinMark, BrowserStep DEF AnswerPrime
<1>2. prime' = [prime EXCEPT ![c] = IdlePrime] => prime' \in [Client -> PrimeTo(lastPts)]
    BY IdleTo, WithinMark
<1>3. CASE TakePrime(c)
    <2>1. prime[c].server \in 0 .. Mark
        BY WithinMark DEF PrimeTo
    <2>2. view' \in [Client -> ViewTo(Mark)] /\ floor' \in [Client -> Nat]
        BY <1>3, <2>1, AdoptTo DEF TakePrime
    <2> QED
        BY <1>2, <1>3, <2>2, WithinMark, BrowserStep DEF TakePrime
<1>4. CASE FailPrime(c)
    <2>1. "http" \in FaultKind
        BY DEF FaultKind
    <2> QED
        BY <1>2, <1>4, <2>1, WithinMark, BrowserStep DEF FailPrime
<1> QED
    BY <1>1, <1>3, <1>4

LEMMA ReconnectSyncStep ==
    ASSUME SyncInv, NEW c \in Client, NEW k \in Slot,
           AnswerSync(c, k) \/ TakeState(c, k) \/ TakeSync(c, k) \/ FailSync(c, k)
    PROVE  SyncInv'
<1> DEFINE s == sync[c][k]
<1>1. /\ s \in SyncTo(Mark, lastPts) /\ s.local \in 0 .. Mark /\ s.server \in 0 .. Mark
      /\ s.walk \in WalkTo(Mark, lastPts) /\ view[c] \in ViewTo(Mark)
    BY WithinMark DEF SyncTo
<1>2. ASSUME NEW x \in SyncTo(Mark, lastPts), sync' = [sync EXCEPT ![c][k] = x]
      PROVE  sync' \in [Client -> [Slot -> SyncTo(Mark, lastPts)]]
    BY <1>2, WithinMark
<1>3. CASE AnswerSync(c, k)
    <2>1. ASSUME sync' = [sync EXCEPT ![c][k].phase = "told", ![c][k].server = lastPts]
          PROVE  sync' \in [Client -> [Slot -> SyncTo(Mark, lastPts)]]
        <3> DEFINE told == [sync EXCEPT ![c][k].phase = "told"]
        <3>1. told \in [Client -> [Slot -> SyncTo(Mark, lastPts)]]
            BY <1>1, WithinMark DEF SyncTo
        <3>2. lastPts \in 0 .. Mark /\ sync' = [told EXCEPT ![c][k].server = lastPts]
            BY <2>1, WithinMark
        <3>3. told[c][k] \in SyncTo(Mark, lastPts)
            BY <3>1
        <3> HIDE DEF told
        <3>4. [told[c][k] EXCEPT !.server = lastPts] \in SyncTo(Mark, lastPts)
            BY <3>2, <3>3 DEF SyncTo
        <3> QED
            BY <3>1, <3>2, <3>4
    <2>2. ASSUME sync' = [sync EXCEPT ![c][k].walk = Answer(@)]
          PROVE  sync' \in [Client -> [Slot -> SyncTo(Mark, lastPts)]]
        <3>1. [s EXCEPT !.walk = Answer(s.walk)] \in SyncTo(Mark, lastPts)
            BY <1>1, AnswerTo, WithinMark DEF SyncTo
        <3>2. sync' = [sync EXCEPT ![c][k] = [s EXCEPT !.walk = Answer(s.walk)]]
            BY <2>2
        <3> QED
            BY <1>2, <3>1, <3>2
    <2>3. sync' \in [Client -> [Slot -> SyncTo(Mark, lastPts)]]
        BY <1>3, <2>1, <2>2 DEF AnswerSync
    <2> QED
        BY <1>3, <2>3, WithinMark, BrowserStep DEF AnswerSync
<1>4. CASE TakeState(c, k)
    <2>1. Walk(s.local, s.server) \in WalkTo(Mark, lastPts)
        BY <1>1, WalkFrom, WithinMark
    <2>2. IdleSync \in SyncTo(Mark, lastPts)
        BY IdleTo, WithinMark
    <2>3. ASSUME sync' = [sync EXCEPT ![c][k].phase = "walk",
                                      ![c][k].walk = Walk(s.local, s.server)]
          PROVE  sync' \in [Client -> [Slot -> SyncTo(Mark, lastPts)]]
        <3> DEFINE walking == [sync EXCEPT ![c][k].phase = "walk"]
        <3>1. walking \in [Client -> [Slot -> SyncTo(Mark, lastPts)]]
            BY <1>1, WithinMark DEF SyncTo
        <3>2. sync' = [walking EXCEPT ![c][k].walk = Walk(s.local, s.server)]
            BY <2>3, WithinMark
        <3>3. walking[c][k] \in SyncTo(Mark, lastPts)
            BY <3>1
        <3> HIDE DEF walking, s
        <3>4. [walking[c][k] EXCEPT !.walk = Walk(s.local, s.server)] \in SyncTo(Mark, lastPts)
            BY <2>1, <3>3 DEF SyncTo
        <3> QED
            BY <3>1, <3>2, <3>4
    <2>4. ASSUME sync' = [sync EXCEPT ![c][k] = IdleSync]
          PROVE  sync' \in [Client -> [Slot -> SyncTo(Mark, lastPts)]]
        BY <1>2, <2>2, <2>4
    <2>5. /\ sync' \in [Client -> [Slot -> SyncTo(Mark, lastPts)]]
          /\ UNCHANGED <<serverVars, link, inbox, gaps, prime, missed>>
        BY <1>4, <2>3, <2>4 DEF TakeState
    <2>6. Adopt(c, s.server) \/ UNCHANGED <<view, floor>>
        BY <1>4 DEF TakeState
    <2>7. view' \in [Client -> ViewTo(Mark)] /\ floor' \in [Client -> Nat]
        BY <1>1, <2>6, AdoptTo, WithinMark
    <2> QED
        BY <2>5, <2>7, WithinMark, BrowserStep
<1>5. CASE TakeSync(c, k)
    <2>1. Replay(view[c], s.walk) \in ViewTo(Mark)
        BY <1>1, ReplayTo, WithinMark
    <2>2. [s EXCEPT !.walk = NextPage(s.walk)] \in SyncTo(Mark, lastPts) /\ IdleSync \in SyncTo(Mark, lastPts)
        BY <1>1, NextPageTo, IdleTo, WithinMark DEF SyncTo
    <2>3. /\ view' = [view EXCEPT ![c] = Replay(view[c], s.walk)]
          /\ \/ sync' = [sync EXCEPT ![c][k] = [s EXCEPT !.walk = NextPage(s.walk)]]
             \/ sync' = [sync EXCEPT ![c][k] = IdleSync]
        BY <1>5, WithinMark DEF TakeSync
    <2>4. view' \in [Client -> ViewTo(Mark)]
        BY <2>1, <2>3, WithinMark
    <2>5. sync' \in [Client -> [Slot -> SyncTo(Mark, lastPts)]]
        BY <1>2, <2>2, <2>3
    <2> QED
        BY <1>5, <2>4, <2>5, WithinMark, BrowserStep DEF TakeSync
<1>6. CASE FailSync(c, k)
    <2>1. "http" \in FaultKind
        BY DEF FaultKind
    <2>2. sync' \in [Client -> [Slot -> SyncTo(Mark, lastPts)]]
        BY <1>2, <1>6, IdleTo, WithinMark DEF FailSync
    <2> QED
        BY <1>6, <2>1, <2>2, WithinMark, BrowserStep DEF FailSync
<1> QED
    BY <1>3, <1>4, <1>5, <1>6

LEMMA SyncStep ==
    ASSUME SyncInv, [Next]_vars
    PROVE  SyncInv'
<1>1. CASE UNCHANGED vars
    <2>1. UNCHANGED serverVars /\ UNCHANGED clientVars
        BY <1>1 DEF vars
    <2> QED
        BY <2>1, WithinMark, BrowserStep DEF clientVars
<1>2. ASSUME NEW c \in Client, Requests(c) PROVE SyncInv'
    BY <1>2, GapStep, PrimeStep, ReconnectSyncStep DEF Requests
<1>3. ASSUME NEW c \in Client, Failures(c) PROVE SyncInv'
    BY <1>3, GapStep, PrimeStep, ReconnectSyncStep DEF Failures
<1> QED
    BY <1>1, <1>2, <1>3, ServeStep, EmitStep, LinkStep, ReceiveStep DEF Next

(* Whatever is lost, replayed or adopted, a browser's number runs ahead of    *)
(* the server's by at most the one number that an undone transaction has left *)
(* on an envelope (_next_chat_pts, emit_enveloped_socket_event,               *)
(* __sun_setChatPts).                                                         *)
THEOREM NumberIsNotAhead == Spec => []KnownNotAhead
<1>1. ASSUME SyncInv PROVE KnownNotAhead
    <2> SUFFICES ASSUME NEW c \in Client, ~(view[c].known <= lastPts)
                 PROVE  \E e \in Unlogged :
                            view[c].known = lastPts + 1 /\ pts[e] = lastPts + 1
        BY DEF KnownNotAhead
    <2>1. view[c].known \in 0 .. Mark /\ lastPts \in Nat
        BY <1>1, WithinMark
    <2>2. PICK e \in SentEvents : pts[e] = lastPts + 1
        BY <2>1 DEF Mark
    <2>3. Mark = lastPts + 1
        BY <2>2 DEF Mark
    <2>4. e \in Unlogged
        BY <1>1, <2>1, <2>2 DEF Unlogged, SentEvents, SyncInv, LogInv, LogGapFree
    <2> QED
        BY <2>1, <2>2, <2>3, <2>4
<1>2. SyncInv /\ [Next]_vars => SyncInv'
    BY SyncStep
<1> QED
    BY <1>1, <1>2, SyncInitial, PTL DEF Spec

(* The variables of the server and of the browsers have their types. *)
THEOREM SyncTypeCorrect == Spec => []TypeOK
<1>1. ASSUME SyncInv PROVE TypeOK
    <2>1. 0 .. Mark \subseteq Nat /\ 0 .. lastPts \subseteq Nat /\ 1 .. lastPts \subseteq Nat \ {0} /\ SentEvents \subseteq Event
        BY <1>1, WithinMark DEF SentEvents
    <2>2. WalkTo(Mark, lastPts) \subseteq WalkType
        BY <2>1 DEF WalkTo, WalkType
    <2>3. /\ ViewTo(Mark) \subseteq [known : Nat, seen : SUBSET Event,
                                        runs : [Event -> [Listener -> Nat]]]
          /\ PrimeTo(lastPts) \subseteq [phase : {"idle", "ask", "told"}, server : Nat]
          /\ GapTo(Mark, lastPts, SentEvents) \subseteq [event : Event, listener : Listener, walk : WalkType]
          /\ SyncTo(Mark, lastPts) \subseteq [phase : {"idle", "ask", "told", "walk"},
                                        local : Nat, server : Nat, walk : WalkType]
        BY <2>1, <2>2 DEF ViewTo, PrimeTo, GapTo, SyncTo
    <2>4. /\ inbox \in [Client -> Seq(Event)]
          /\ gaps \in [Client -> Seq([event : Event, listener : Listener, walk : WalkType])]
        <3>1. Seq(SentEvents) \subseteq Seq(Event)
            BY <2>1
        <3>2. Seq(GapTo(Mark, lastPts, SentEvents))
                  \subseteq Seq([event : Event, listener : Listener, walk : WalkType])
            BY <2>3, SeqGrows
        <3> QED
            BY <1>1, <3>1, <3>2, WithinMark
    <2>5. /\ view \in [Client -> [known : Nat, seen : SUBSET Event,
                                  runs : [Event -> [Listener -> Nat]]]]
          /\ prime \in [Client -> [phase : {"idle", "ask", "told"}, server : Nat]]
        BY <1>1, <2>3, WithinMark
    <2>6. sync \in [Client -> [Slot -> [phase : {"idle", "ask", "told", "walk"},
                                        local : Nat, server : Nat, walk : WalkType]]]
        BY <1>1, <2>3, WithinMark
    <2>7. ServerTypeOK /\ Plain
        BY <1>1 DEF SyncInv, LogInv
    <2> QED
        BY <2>4, <2>5, <2>6, <2>7 DEF TypeOK, Plain
<1>2. SyncInv /\ [Next]_vars => SyncInv'
    BY SyncStep
<1> QED
    BY <1>1, <1>2, SyncInitial, PTL DEF Spec

-----------------------------------------------------------------------------
(* One browser's view follows the log.  What is left follows from what one *)
(* step may do to a view: it stays where it is, follows the log without a  *)
(* hole, begins at its first event, or skips to a number of the server     *)
(* (Moves).  A page is replayed some steps after it was read, so the proof *)
(* has to know that a walk never starts above what the browser knows and   *)
(* that its pages have no holes (WalkFits), that a suspended listener      *)
(* waits for the number right below its own (GapFits), and that what was   *)
(* seen is not ahead (ViewFits).                                           *)

(* Both need that no transaction is undone after its allocation: the event   *)
(* that is given the number a second time is old news to a browser that was  *)
(* told of it before, and its listeners never run (AllLogged).               *)

NeverRollsBack == FaultLimit["rollback"] = 0

(* Every number on an envelope is the number of that event in the log. *)
AllLogged ==
    \A e \in Event : stage[e] \in {"ready", "done"} /\ pts[e] > 0 =>
        pts[e] \in DOMAIN rows /\ rows[pts[e]] = e

WalkFits(w, n) ==
    /\ w.cursor <= n
    /\ w.got => w.page = w.cursor + 1 .. NextCursor(w)

GapFits(g, n) ==
    /\ WalkFits(g.walk, n)
    /\ Heard(g.event)
    /\ pts[g.event] = g.walk.target + 1

SyncFits(s, n) == s.local <= n /\ WalkFits(s.walk, n)

ViewFits(v) ==
    /\ v.seen \subseteq SentEvents
    /\ \A e \in v.seen : pts[e] <= v.known

Fits(c) ==
    /\ ViewFits(view[c])
    /\ \A i \in 1 .. Len(gaps[c]) : GapFits(gaps[c][i], view[c].known)
    /\ \A k \in Slot : SyncFits(sync[c][k], view[c].known)

FeedInv == SyncInv /\ AllLogged /\ OnceInv /\ \A c \in Client : Fits(c)

-----------------------------------------------------------------------------
(* The log takes no number back. *)

LEMMA AllLoggedStep ==
    ASSUME NeverRollsBack, LogInv, AllLogged, [ServerNext]_serverVars
    PROVE  AllLogged'
<1> USE DEF LogInv, ServerTypeOK, AllLogged, Move
<1>1. ASSUME NEW e \in Event, Persistence(e)
      PROVE  AllLogged'
  <2>1. CASE Store(e)
    BY <2>1 DEF Store, NoEarlyNumber
  <2>2. CASE Allocate(e)
    BY <2>2 DEF Allocate
  <2>3. CASE CommitEvent(e)
    <3>1. pts[e] \notin DOMAIN rows
      BY <2>3 DEF CommitEvent, OpenIsNext, LogGapFree
    <3> QED
      BY <2>3, <3>1 DEF CommitEvent
  <2>4. CASE RollbackEvent(e)
    BY <2>4, FaultAssumption DEF RollbackEvent, Fault, NeverRollsBack, FaultKind
  <2>5. CASE EmitUnpersisted(e)
    BY <2>5 DEF EmitUnpersisted, NoEarlyNumber
  <2>6. CASE PersistUnavailable(e)
    BY <2>6 DEF PersistUnavailable, NoEarlyNumber
  <2>7. CASE Crash(e)
    BY <2>7 DEF Crash, NoEarlyNumber
  <2> QED
    BY <1>1, <2>1, <2>2, <2>3, <2>4, <2>5, <2>6, <2>7 DEF Persistence
<1>2. ASSUME NEW e \in Event, NEW r \in Room, EmitToRoom(e, r)
      PROVE  AllLogged'
  BY <1>2 DEF EmitToRoom
<1>3. CASE UNCHANGED serverVars
  BY <1>3 DEF serverVars
<1> QED
  BY <1>1, <1>2, <1>3 DEF ServerNext

LEMMA AllLoggedNext ==
    ASSUME NeverRollsBack, LogInv, AllLogged, [Next]_vars
    PROVE  AllLogged'
<1>1. ASSUME NEW e \in Event, Serve(e) \/ \E r \in Room : Emit(e, r)
      PROVE  AllLogged'
    BY <1>1, NeverRollsBack, AllLoggedStep DEF Serve, Emit, ServerNext
<1>2. ASSUME UNCHANGED <<rows, stage, pts>> PROVE AllLogged'
    BY <1>2 DEF AllLogged
<1>3. ASSUME NEW c \in Client, Open(c) \/ JoinRoom(c) \/ Drop(c) \/ Reconnect(c)
      PROVE  AllLogged'
    BY <1>2, <1>3 DEF Open, JoinRoom, Drop, Reconnect, serverVars
<1>4. ASSUME NEW c \in Client, Receive(c) PROVE AllLogged'
    BY <1>2, <1>4 DEF Receive, ReceiveRepeat, ReceiveStale, ReceiveAhead, ReceiveNow,
                      Arrives, serverVars
<1>5. ASSUME NEW c \in Client, Requests(c) PROVE AllLogged'
    BY <1>2, <1>5 DEF Requests, AnswerGap, TakeGap, AnswerPrime, TakePrime, AnswerSync,
                      TakeState, TakeSync, serverVars
<1>6. ASSUME NEW c \in Client, Failures(c) PROVE AllLogged'
    BY <1>2, <1>6 DEF Failures, FailGap, FailPrime, FailSync
<1>7. CASE UNCHANGED vars
    BY <1>2, <1>7 DEF vars, serverVars
<1> QED
    BY <1>1, <1>3, <1>4, <1>5, <1>6, <1>7 DEF Next

(* An envelope that was sent carries no number beyond the log's. *)
LEMMA SentTo ==
    ASSUME LogInv, AllLogged, NEW e \in SentEvents
    PROVE  e \in Event /\ pts[e] \in 0 .. lastPts
BY DEF LogInv, LogGapFree, AllLogged, ServerTypeOK, SentEvents

LEMMA MarkIsLast ==
    ASSUME LogInv, AllLogged
    PROVE  Mark = lastPts
BY SentTo DEF Mark, LogInv, ServerTypeOK

(* What the invariant says of the variables of the browsers. *)
LEMMA InBounds ==
    ASSUME SyncInv, AllLogged
    PROVE  /\ lastPts \in Nat /\ LogInv
           /\ inbox \in [Client -> Seq(SentEvents)]
           /\ view \in [Client -> ViewTo(lastPts)]
           /\ gaps \in [Client -> Seq(GapTo(lastPts, lastPts, SentEvents))]
           /\ prime \in [Client -> PrimeTo(lastPts)]
           /\ sync \in [Client -> [Slot -> SyncTo(lastPts, lastPts)]]
           /\ link \in [Client -> {"new", "off", "linked", "joined"}]
           /\ floor \in [Client -> Nat]
           /\ \A c \in Client : view[c].known \in 0 .. lastPts
BY WithinMark, MarkIsLast

-----------------------------------------------------------------------------
(* Pages have no holes. *)

LEMMA NextCursorIs ==
    ASSUME NEW n \in Nat, NEW w \in WalkTo(n, n)
    PROVE  /\ NextCursor(w) \in 0 .. n
           /\ NextCursor(w) \in w.page \cup {w.cursor}
           /\ w.cursor <= NextCursor(w)
           /\ \A p \in w.page : p <= NextCursor(w)
<1>1. w.page \cup {w.cursor} \subseteq 0 .. n
    BY DEF WalkTo
<1> QED
    BY <1>1, MaxIsIn DEF NextCursor

(* get_chat_update_difference returns the rows right above the cursor. *)
LEMMA AnswerFull ==
    ASSUME LogInv, NEW w \in WalkTo(lastPts, lastPts)
    PROVE  /\ Answer(w).cursor = w.cursor /\ Answer(w).target = w.target
           /\ Answer(w).page = w.cursor + 1 .. NextCursor(Answer(w))
<1> DEFINE above == {p \in DOMAIN rows : p > w.cursor}
           below(p) == {q \in above : q < p}
           page == {p \in above : Cardinality(below(p)) < PageLimit}
           a == Answer(w)
<1>1. a = [w EXCEPT !.got = TRUE, !.page = page, !.more = (page # above)]
    BY DEF Answer
<1>2. a.cursor = w.cursor /\ a.target = w.target /\ a.page = page
    BY <1>1 DEF WalkTo
<1>3. a \in WalkTo(lastPts, lastPts) /\ lastPts \in Nat /\ w.cursor \in 0 .. lastPts
    BY AnswerTo DEF LogInv, ServerTypeOK, WalkTo
<1>4. above = w.cursor + 1 .. lastPts
    BY <1>3 DEF LogInv, LogGapFree
<1>5. ASSUME NEW p \in page, NEW q \in w.cursor + 1 .. p PROVE q \in page
    <2>1. q \in above
        BY <1>3, <1>4
    <2>2. below(q) \subseteq below(p)
        BY <1>3, <1>4
    <2>3. IsFiniteSet(below(p))
        <3>0. IsFiniteSet(w.cursor + 1 .. lastPts)
            <4>1. w.cursor + 1 \in Int /\ lastPts \in Int
                BY <1>3
            <4> QED
                BY <4>1, FS_Interval
        <3>1. IsFiniteSet(above)
            BY <1>4, <3>0
        <3> HIDE DEF above
        <3> QED
            BY <3>1, FS_Subset
    <2>4. /\ Cardinality(below(q)) <= Cardinality(below(p))
          /\ Cardinality(below(q)) \in Nat /\ Cardinality(below(p)) \in Nat
        <3> HIDE DEF below
        <3> QED
            BY <2>2, <2>3, FS_Subset, FS_CardinalityType
    <2>5. Cardinality(below(p)) < PageLimit
        OBVIOUS
    <2> QED
        BY <2>1, <2>4, <2>5, SyncAssumption
<1>6. page \subseteq w.cursor + 1 .. lastPts
    BY <1>4
<1> HIDE DEF a, page
<1>7. /\ NextCursor(a) \in page \cup {w.cursor} /\ NextCursor(a) \in 0 .. lastPts
      /\ \A p \in page : p <= NextCursor(a)
    BY <1>2, <1>3, NextCursorIs
<1>8. page = w.cursor + 1 .. NextCursor(a)
    <2>1. page \subseteq w.cursor + 1 .. NextCursor(a)
        BY <1>3, <1>6, <1>7
    <2>2. ASSUME NEW q \in w.cursor + 1 .. NextCursor(a) PROVE q \in page
        BY <1>3, <1>5, <1>7
    <2> QED
        BY <2>1, <2>2
<1> QED
    BY <1>2, <1>8 DEF a

LEMMA WalkGrows ==
    ASSUME NEW n \in Nat, NEW w \in WalkTo(n, n), NEW a \in Nat, NEW b \in Nat, a <= b, WalkFits(w, a)
    PROVE  WalkFits(w, b)
BY DEF WalkFits, WalkTo

LEMMA GapGrows ==
    ASSUME NEW n \in Nat, NEW es, NEW g \in GapTo(n, n, es),
           NEW a \in Nat, NEW b \in Nat, a <= b, GapFits(g, a)
    PROVE  GapFits(g, b)
BY WalkGrows DEF GapFits, GapTo

LEMMA SyncGrows ==
    ASSUME NEW n \in Nat, NEW s \in SyncTo(n, n),
           NEW a \in Nat, NEW b \in Nat, a <= b, SyncFits(s, a)
    PROVE  SyncFits(s, b)
BY WalkGrows DEF SyncFits, SyncTo

LEMMA FreshWalkFits ==
    ASSUME NEW n \in Nat, NEW a \in 0 .. n, NEW b
    PROVE  WalkFits(Walk(a, b), n)
BY DEF WalkFits, Walk

(* The walk goes on behind the page that was replayed. *)
LEMMA NextPageFits ==
    ASSUME NEW n \in Nat, NEW w \in WalkTo(n, n), NEW k \in Nat, NextCursor(w) <= k
    PROVE  WalkFits(NextPage(w), k) /\ NextPage(w).target = w.target
<1>1. NextPage(w) = [[cursor |-> NextCursor(w), target |-> w.target, steps |-> 0,
                      got |-> FALSE, page |-> {}, more |-> FALSE] EXCEPT !.steps = w.steps + 1]
    BY DEF NextPage, Walk
<1> QED
    BY <1>1 DEF WalkFits

LEMMA AnswerFits ==
    ASSUME LogInv, NEW w \in WalkTo(lastPts, lastPts), NEW k \in Nat, w.cursor <= k
    PROVE  WalkFits(Answer(w), k) /\ Answer(w).target = w.target
BY AnswerFull DEF WalkFits

-----------------------------------------------------------------------------
(* What a step may do to a view. *)

(* The numbered events whose listeners have run. *)
Done(v) == {e \in Event : pts[e] > 0 /\ \E l \in Listener : v.runs[e][l] > 0}

(* The rows above a up to b that somebody listens to. *)
Between(a, b) == {e \in {rows[p] : p \in a + 1 .. b} : Heard(e)}

Stays(v, u) == u.known = v.known /\ Done(u) = Done(v)

Follows(v, u) ==
    /\ u.known \in v.known + 1 .. lastPts
    /\ Done(u) = Done(v) \cup Between(v.known, u.known)

Begins(v, u) ==
    /\ v.known = 0 /\ u.known \in 1 .. lastPts
    /\ Heard(rows[u.known])
    /\ Done(u) = Done(v) \cup {rows[u.known]}

Skips(v, u) ==
    /\ u.known \in v.known + 1 .. lastPts
    /\ Done(u) = Done(v)

Along(v, u) == Stays(v, u) \/ Follows(v, u)

(* Following the log twice is following it once. *)
LEMMA AlongTwice ==
    ASSUME lastPts \in Nat, NEW v \in ViewTo(lastPts), NEW u \in ViewTo(lastPts),
           NEW x \in ViewTo(lastPts), Along(v, u), Along(u, x)
    PROVE  Along(v, x)
<1>1. v.known \in 0 .. lastPts /\ u.known \in 0 .. lastPts /\ x.known \in 0 .. lastPts
    BY DEF ViewTo
<1>2. CASE Stays(v, u) \/ Stays(u, x)
    BY <1>2 DEF Along, Stays, Follows
<1>3. CASE Follows(v, u) /\ Follows(u, x)
    <2>1. v.known + 1 .. x.known = (v.known + 1 .. u.known) \cup (u.known + 1 .. x.known)
        BY <1>1, <1>3 DEF Follows
    <2>2. Between(v.known, x.known) = Between(v.known, u.known) \cup Between(u.known, x.known)
        BY <2>1 DEF Between
    <2>3. x.known \in v.known + 1 .. lastPts
        BY <1>1, <1>3 DEF Follows
    <2> QED
        BY <1>3, <2>2, <2>3 DEF Along, Follows
<1> QED
    BY <1>2, <1>3 DEF Along

LEMMA RunDone ==
    ASSUME NEW v, v.runs \in [Event -> [Listener -> Nat]], NEW e \in Event,
           NEW ls, NEW l \in Listener, l \in ls
    PROVE  Done(Run(v, e, ls)) = IF pts[e] > 0 THEN Done(v) \cup {e} ELSE Done(v)
<1> DEFINE r == Run(v, e, ls).runs
<1>1. r = [v.runs EXCEPT ![e] =
              [k \in Listener |-> v.runs[e][k] + (IF k \in ls THEN 1 ELSE 0)]]
    BY DEF Run
<1>2. \A f \in Event : f # e => r[f] = v.runs[f]
    BY <1>1
<1>3. r[e][l] > 0
    <2>1. r[e][l] = v.runs[e][l] + 1 /\ v.runs[e][l] \in Nat
        BY <1>1
    <2> QED
        BY <2>1
<1> HIDE DEF r
<1>4. CASE pts[e] > 0
    BY <1>2, <1>3, <1>4 DEF Done, r
<1>5. CASE ~(pts[e] > 0)
    BY <1>2, <1>5 DEF Done, r
<1> QED
    BY <1>4, <1>5

(* What every listener of the browser may rely on when its number is new. *)
LEMMA RunFits ==
    ASSUME lastPts \in Nat, NEW v \in ViewTo(lastPts), ViewFits(v), NEW e \in SentEvents,
           pts[e] \in 0 .. lastPts, pts \in [Event -> Nat], NEW ls
    PROVE  ViewFits(Run(v, e, ls)) /\ Run(v, e, ls).known = Larger(v.known, pts[e])
<1>1. Run(v, e, ls).known = Larger(v.known, pts[e]) /\ Run(v, e, ls).seen = v.seen \cup {e}
    BY DEF Run
<1>2. v.known \in 0 .. lastPts
    BY DEF ViewTo
<1>3. \A f \in v.seen \cup {e} : f \in Event /\ pts[f] \in Nat /\ pts[f] <= Larger(v.known, pts[e])
    BY <1>2 DEF ViewFits, Larger, SentEvents
<1> QED
    BY <1>1, <1>3 DEF ViewFits

(* An event whose number is not new is recorded and nothing else. *)
LEMMA IgnoreFits ==
    ASSUME lastPts \in Nat, NEW v \in ViewTo(lastPts), ViewFits(v), NEW e \in SentEvents,
           pts[e] <= v.known
    PROVE  ViewFits(Ignore(v, e)) /\ Stays(v, Ignore(v, e))
<1>1. /\ Ignore(v, e).known = v.known /\ Ignore(v, e).runs = v.runs
      /\ Ignore(v, e).seen = v.seen \cup {e}
    BY DEF Ignore, ViewTo
<1> QED
    BY <1>1 DEF ViewFits, Stays, Done

(* A row of the log was sent under its number. *)
LEMMA RowSent ==
    ASSUME LogInv, NEW p \in 1 .. lastPts
    PROVE  rows[p] \in SentEvents /\ pts[rows[p]] = p
BY DEF LogInv, LogGapFree, ServerTypeOK, RowIsStamp, RowIsFinal, SentEvents

(* The next number, or the first one. *)
LEMMA RunMoves ==
    ASSUME LogInv, AllLogged, NEW v \in ViewTo(lastPts), ViewFits(v), NEW e \in SentEvents,
           Heard(e), NEW ls, NEW l \in Listener, l \in ls
    PROVE  /\ pts[e] = 0 => Stays(v, Run(v, e, ls))
           /\ pts[e] = v.known + 1 => Follows(v, Run(v, e, ls))
           /\ v.known = 0 /\ pts[e] > 0 => Begins(v, Run(v, e, ls)) /\ Run(v, e, ls).known = pts[e]
<1> DEFINE u == Run(v, e, ls)
<1>1. /\ e \in Event /\ pts[e] \in 0 .. lastPts /\ lastPts \in Nat /\ pts \in [Event -> Nat]
      /\ v.known \in 0 .. lastPts /\ v.runs \in [Event -> [Listener -> Nat]]
    BY SentTo DEF LogInv, ServerTypeOK, ViewTo
<1>2. u.known = Larger(v.known, pts[e])
    BY DEF Run
<1>3. Done(u) = IF pts[e] > 0 THEN Done(v) \cup {e} ELSE Done(v)
    BY <1>1, RunDone
<1> HIDE DEF u
<1>4. pts[e] > 0 => rows[pts[e]] = e
    BY <1>1 DEF AllLogged, SentEvents
<1>5. ASSUME pts[e] = 0 PROVE Stays(v, u)
    BY <1>1, <1>2, <1>3, <1>5 DEF Stays, Larger
<1>6. ASSUME pts[e] = v.known + 1 PROVE Follows(v, u)
    <2>1. u.known = v.known + 1 /\ v.known + 1 .. u.known = {pts[e]}
        BY <1>1, <1>2, <1>6 DEF Larger
    <2>2. Between(v.known, u.known) = {e}
        BY <1>1, <1>4, <1>6, <2>1 DEF Between
    <2> QED
        BY <1>1, <1>3, <1>6, <2>1, <2>2 DEF Follows
<1>7. ASSUME v.known = 0, pts[e] > 0 PROVE Begins(v, u) /\ u.known = pts[e]
    BY <1>1, <1>2, <1>3, <1>4, <1>7 DEF Begins, Larger
<1> QED
    BY <1>5, <1>6, <1>7 DEF u

(* A page whose walk begins within what the browser knows adds no hole. *)
LEMMA ReplayMoves ==
    ASSUME LogInv, NEW v \in ViewTo(lastPts), ViewFits(v),
           NEW w \in WalkTo(lastPts, lastPts), WalkFits(w, v.known), w.got
    PROVE  /\ ViewFits(Replay(v, w)) /\ Along(v, Replay(v, w))
           /\ Replay(v, w).known = Larger(v.known, NextCursor(w))
<1> DEFINE u == Replay(v, w)
           fresh == {rows[p] : p \in {q \in w.page : q > v.known}} \ v.seen
           logged == {e \in {rows[p] : p \in w.page} : Heard(e)}
<1>1. /\ u.known = Larger(v.known, NextCursor(w)) /\ u.seen = v.seen \cup logged
      /\ u.runs = [e \in Event |-> [l \in Listener |->
                      v.runs[e][l] + (IF e \in fresh /\ l <= NumListeners[e] THEN 1 ELSE 0)]]
    BY DEF Replay
<1>2. /\ lastPts \in Nat /\ v.known \in 0 .. lastPts /\ w.cursor \in 0 .. lastPts
      /\ w.page \subseteq 1 .. lastPts /\ v.runs \in [Event -> [Listener -> Nat]]
      /\ pts \in [Event -> Nat]
    BY DEF LogInv, ServerTypeOK, ViewTo, WalkTo
<1>3. /\ NextCursor(w) \in 0 .. lastPts /\ \A p \in w.page : p <= NextCursor(w)
      /\ w.cursor <= v.known /\ w.page = w.cursor + 1 .. NextCursor(w)
    BY <1>2, NextCursorIs DEF WalkFits
<1>4. \A p \in w.page : rows[p] \in SentEvents /\ pts[rows[p]] = p
    BY <1>2, RowSent
<1>5. u.known \in 0 .. lastPts /\ v.known <= u.known /\ NextCursor(w) <= u.known
    BY <1>1, <1>2, <1>3 DEF Larger
<1>6. ViewFits(u)
    <2>1. logged \subseteq SentEvents /\ \A e \in logged : pts[e] <= u.known
        BY <1>2, <1>3, <1>4, <1>5
    <2>2. \A e \in v.seen : e \in SentEvents /\ pts[e] <= u.known
        <3>1. \A e \in v.seen : e \in SentEvents /\ e \in Event /\ pts[e] \in Nat /\ pts[e] <= v.known
            BY <1>2 DEF ViewFits, SentEvents
        <3> QED
            BY <1>2, <1>5, <3>1
    <2> HIDE DEF logged, u
    <2> QED
        BY <1>1, <2>1, <2>2 DEF ViewFits
<1>7. fresh = {rows[p] : p \in v.known + 1 .. NextCursor(w)}
    <2>1. {q \in w.page : q > v.known} = v.known + 1 .. NextCursor(w)
        BY <1>2, <1>3
    <2>2. \A p \in v.known + 1 .. NextCursor(w) : rows[p] \notin v.seen
        BY <1>2, <1>3, <1>4, <2>1 DEF ViewFits
    <2> QED
        BY <2>1, <2>2
<1> HIDE DEF u, fresh, logged
<1>8. \A e \in Event : (\E l \in Listener : u.runs[e][l] > 0)
                       <=> (\E l \in Listener : v.runs[e][l] > 0) \/ (e \in fresh /\ Heard(e))
    <2> TAKE e \in Event
    <2>1. NumListeners[e] \in 0 .. 2 /\ 1 \in Listener /\ Listener \subseteq Nat /\ 0 \notin Listener
        BY SyncAssumption DEF Listener
    <2>2. \A l \in Listener : /\ v.runs[e][l] \in Nat
                             /\ u.runs[e][l] = v.runs[e][l]
                                  + (IF e \in fresh /\ l <= NumListeners[e] THEN 1 ELSE 0)
        BY <1>1, <1>2
    <2>3. CASE e \in fresh /\ Heard(e)
        <3>1. u.runs[e][1] > 0
            BY <2>1, <2>2, <2>3 DEF Heard
        <3> QED
            BY <2>1, <2>3, <3>1
    <2>4. CASE ~(e \in fresh /\ Heard(e))
        <3>1. \A l \in Listener : u.runs[e][l] = v.runs[e][l]
            BY <2>1, <2>2, <2>4 DEF Heard
        <3> QED
            BY <2>4, <3>1
    <2> QED
        BY <2>3, <2>4
<1>9. Done(u) = Done(v) \cup Between(v.known, NextCursor(w))
    <2>1. \A p \in v.known + 1 .. NextCursor(w) : rows[p] \in Event /\ pts[rows[p]] > 0
        BY <1>2, <1>3, <1>4 DEF SentEvents
    <2> QED
        BY <1>7, <1>8, <2>1 DEF Done, Between
<1>10. Along(v, u)
    <2>1. CASE NextCursor(w) <= v.known
        <3>1. v.known + 1 .. NextCursor(w) = {}
            BY <1>2, <1>3, <2>1
        <3>2. Between(v.known, NextCursor(w)) = {}
            BY <3>1 DEF Between
        <3> QED
            BY <1>1, <1>2, <1>3, <1>9, <2>1, <3>2 DEF Along, Stays, Larger
    <2>2. CASE NextCursor(w) > v.known
        BY <1>1, <1>2, <1>3, <1>9, <2>2 DEF Along, Follows, Larger
    <2> QED
        BY <1>2, <1>3, <2>1, <2>2
<1> QED
    BY <1>1, <1>6, <1>10 DEF u

(* A listener that resumes once the numbers below its own are there. *)
LEMMA ResumeMoves ==
    ASSUME LogInv, AllLogged, NEW v \in ViewTo(lastPts), ViewFits(v), NEW e \in SentEvents,
           Heard(e), pts[e] <= v.known + 1, NEW l \in Listener
    PROVE  ViewFits(Resume(v, e, l)) /\ Along(v, Resume(v, e, l)) /\ v.known <= Resume(v, e, l).known
<1>1. /\ e \in Event /\ pts[e] \in 0 .. lastPts /\ lastPts \in Nat /\ pts \in [Event -> Nat]
      /\ v.known \in 0 .. lastPts
    BY SentTo DEF LogInv, ServerTypeOK, ViewTo
<1>2. CASE e \in v.seen \/ pts[e] <= v.known
    <2>1. pts[e] <= v.known /\ Resume(v, e, l) = Ignore(v, e)
        BY <1>2 DEF Resume, ViewFits
    <2> QED
        BY <1>1, <2>1, IgnoreFits DEF Along, Stays
<1>3. CASE ~(e \in v.seen \/ pts[e] <= v.known)
    <2>1. pts[e] = v.known + 1 /\ Resume(v, e, l) = Run(v, e, {l})
        BY <1>1, <1>3 DEF Resume
    <2>2. Follows(v, Run(v, e, {l})) /\ ViewFits(Run(v, e, {l}))
        BY <1>1, <2>1, RunMoves, RunFits
    <2>3. Along(v, Run(v, e, {l}))
        BY <2>2 DEF Along
    <2>4. Run(v, e, {l}).known \in v.known + 1 .. lastPts
        BY <2>2 DEF Follows
    <2>5. v.known <= Run(v, e, {l}).known
        BY <1>1, <2>4
    <2> QED
        BY <2>1, <2>2, <2>3, <2>5
<1> QED
    BY <1>2, <1>3

-----------------------------------------------------------------------------
(* The steps.  A browser moves, or the server does. *)

Moves(c) ==
    LET v == view[c]
        u == view'[c]
    IN  /\ UNCHANGED <<lastPts, rows, pts>>
        /\ \A d \in Client \ {c} : view'[d] = view[d] /\ floor'[d] = floor[d]
        /\ \/ Along(v, u) /\ floor'[c] = floor[c]
           \/ Begins(v, u) /\ floor'[c] = u.known - 1
           \/ Skips(v, u) /\ floor'[c] = u.known

(* A step of browser c keeps every browser fit, and moves c. *)
Fine(c) == Moves(c) /\ \A d \in Client : Fits(d)'

(* The step of a browser from what it leaves behind. *)
LEMMA FineFrom ==
    ASSUME FeedInv, NEW c \in Client, UNCHANGED <<lastPts, rows, stage, pts>>,
           \A d \in Client \ {c} : /\ view'[d] = view[d] /\ floor'[d] = floor[d]
                                  /\ gaps'[d] = gaps[d] /\ sync'[d] = sync[d],
           ViewFits(view'[c]),
           \A i \in 1 .. Len(gaps'[c]) : GapFits(gaps'[c][i], view'[c].known),
           \A k \in Slot : SyncFits(sync'[c][k], view'[c].known)
    PROVE  \A d \in Client : Fits(d)'
<1> SUFFICES ASSUME NEW d \in Client PROVE Fits(d)'
    OBVIOUS
<1>1. ASSUME NEW v PROVE ViewFits(v) => ViewFits(v)'
    BY DEF ViewFits, SentEvents
<1>2. CASE d = c
    BY <1>2 DEF Fits, ViewFits, SentEvents, GapFits
<1>3. CASE d # c
    BY <1>3 DEF FeedInv, Fits, ViewFits, SentEvents, GapFits
<1> QED
    BY <1>2, <1>3

LEMMA GapsKept ==
    ASSUME FeedInv, NEW c \in Client, NEW n \in Nat, view[c].known <= n
    PROVE  /\ \A i \in 1 .. Len(gaps[c]) : GapFits(gaps[c][i], n)
           /\ \A k \in Slot : SyncFits(sync[c][k], n)
<1>1. /\ view[c].known \in Nat /\ lastPts \in Nat
      /\ gaps[c] \in Seq(GapTo(lastPts, lastPts, SentEvents)) /\ sync[c] \in [Slot -> SyncTo(lastPts, lastPts)]
    BY InBounds DEF FeedInv
<1>2. ASSUME NEW i \in 1 .. Len(gaps[c]) PROVE GapFits(gaps[c][i], n)
    BY <1>1, GapGrows DEF FeedInv, Fits
<1>3. ASSUME NEW k \in Slot PROVE SyncFits(sync[c][k], n)
    BY <1>1, SyncGrows DEF FeedInv, Fits
<1> QED
    BY <1>2, <1>3

(* A step that leaves the view of c alone. *)
LEMMA StaysFine ==
    ASSUME FeedInv, NEW c \in Client, UNCHANGED <<lastPts, rows, stage, pts, view, floor>>,
           \A d \in Client \ {c} : gaps'[d] = gaps[d] /\ sync'[d] = sync[d],
           gaps'[c] = gaps[c] \/ \A i \in 1 .. Len(gaps'[c]) : GapFits(gaps'[c][i], view[c].known),
           sync'[c] = sync[c] \/ \A k \in Slot : SyncFits(sync'[c][k], view[c].known)
    PROVE  Fine(c)
<1>1. Moves(c)
    BY DEF Moves, Along, Stays
<1>2. ViewFits(view'[c])
    BY DEF FeedInv, Fits
<1>3. view[c].known \in Nat
    BY InBounds DEF FeedInv
<1>4. /\ \A i \in 1 .. Len(gaps'[c]) : GapFits(gaps'[c][i], view'[c].known)
      /\ \A k \in Slot : SyncFits(sync'[c][k], view'[c].known)
    BY <1>3 DEF FeedInv, Fits
<1> QED
    BY <1>1, <1>2, <1>4, FineFrom DEF Fine

LEMMA LinkFine ==
    ASSUME FeedInv, NEW c \in Client, Open(c) \/ JoinRoom(c) \/ Drop(c) \/ Reconnect(c)
    PROVE  Fine(c)
<1>1. CASE Open(c) \/ JoinRoom(c) \/ Drop(c)
    BY <1>1, StaysFine DEF Open, JoinRoom, Drop, serverVars
<1>2. CASE Reconnect(c)
    <2> DEFINE s == [IdleSync EXCEPT !.phase = "ask", !.local = view[c].known]
    <2>1. PICK k \in Slot : sync' = [sync EXCEPT ![c][k] = s]
        BY <1>2 DEF Reconnect
    <2>2. view[c].known \in Nat /\ sync \in [Client -> [Slot -> SyncTo(lastPts, lastPts)]]
        BY InBounds DEF FeedInv
    <2>3. SyncFits(s, view[c].known)
        <3>1. s.local = view[c].known /\ s.walk = Walk(0, 0)
            BY DEF IdleSync
        <3> HIDE DEF s
        <3> QED
            BY <2>2, <3>1, FreshWalkFits DEF SyncFits
    <2> HIDE DEF s
    <2>4. \A j \in Slot : SyncFits(sync'[c][j], view[c].known)
        BY <2>1, <2>2, <2>3 DEF FeedInv, Fits
    <2>5. \A d \in Client \ {c} : sync'[d] = sync[d]
        BY <2>1
    <2> QED
        BY <1>2, <2>4, <2>5, StaysFine DEF Reconnect, serverVars
<1> QED
    BY <1>1, <1>2

(* A step of browser c that moves along the log. *)
LEMMA AlongFine ==
    ASSUME FeedInv, NEW c \in Client, UNCHANGED <<lastPts, rows, stage, pts, floor, sync>>,
           NEW u, view' = [view EXCEPT ![c] = u], Along(view[c], u), ViewFits(u),
           \A d \in Client \ {c} : gaps'[d] = gaps[d],
           gaps'[c] = gaps[c] \/ \A i \in 1 .. Len(gaps'[c]) : GapFits(gaps'[c][i], u.known)
    PROVE  Fine(c)
<1>1. /\ view'[c] = u /\ \A d \in Client \ {c} : view'[d] = view[d]
    BY InBounds DEF FeedInv
<1>2. Moves(c)
    BY <1>1 DEF Moves
<1>3. view[c].known \in Nat /\ u.known \in Nat /\ view[c].known <= u.known
    <2>1. lastPts \in Nat /\ view[c].known \in 0 .. lastPts
        BY InBounds DEF FeedInv
    <2>2. u.known = view[c].known \/ u.known \in view[c].known + 1 .. lastPts
        BY DEF Along, Stays, Follows
    <2> QED
        BY <2>1, <2>2
<1>4. /\ \A i \in 1 .. Len(gaps'[c]) : GapFits(gaps'[c][i], u.known)
      /\ \A k \in Slot : SyncFits(sync'[c][k], u.known)
    BY <1>3, GapsKept
<1> QED
    BY <1>1, <1>2, <1>4, FineFrom DEF Fine

(* The elements of a sequence that was appended to. *)
LEMMA ConcatIs ==
    ASSUME NEW S, NEW s \in Seq(S), NEW T, NEW t \in Seq(T)
    PROVE  /\ Len(s \o t) = Len(s) + Len(t)
           /\ \A i \in 1 .. Len(s) : (s \o t)[i] = s[i]
           /\ \A i \in Len(s) + 1 .. Len(s) + Len(t) : (s \o t)[i] = t[i - Len(s)]
<1>1. s \in Seq(S \cup T) /\ t \in Seq(S \cup T)
    BY SeqGrows
<1> QED
    BY <1>1

LEMMA ReceiveFine ==
    ASSUME FeedInv, NEW c \in Client, Receive(c)
    PROVE  Fine(c)
<1>1. PICK e \in Event : \/ ReceiveRepeat(c, e) \/ ReceiveStale(c, e)
                         \/ ReceiveAhead(c, e)  \/ ReceiveNow(c, e)
    BY DEF Receive
<1>2. /\ inbox[c] # <<>> /\ e = Head(inbox[c])
      /\ UNCHANGED <<lastPts, rows, stage, pts, sync>>
    BY <1>1 DEF ReceiveRepeat, ReceiveStale, ReceiveAhead, ReceiveNow, Arrives, serverVars
<1>3. /\ LogInv /\ AllLogged /\ lastPts \in Nat /\ pts \in [Event -> Nat]
      /\ view[c] \in ViewTo(lastPts) /\ view[c].known \in 0 .. lastPts /\ ViewFits(view[c])
      /\ inbox[c] \in Seq(SentEvents) /\ gaps \in [Client -> Seq(GapTo(lastPts, lastPts, SentEvents))]
    BY InBounds DEF FeedInv, SyncInv, Fits, LogInv, ServerTypeOK
<1>4. e \in SentEvents /\ pts[e] \in 0 .. lastPts
    <2>1. e \in SentEvents
        BY <1>2, <1>3
    <2> QED
        BY <1>3, <2>1, SentTo
<1>5. Heard(e) => 1 \in 1 .. NumListeners[e] /\ 1 \in Listener
    BY <1>4, SyncAssumption DEF Heard, Listener
<1>6. CASE ReceiveRepeat(c, e)
    BY <1>2, <1>6, StaysFine DEF ReceiveRepeat
<1>7. CASE ReceiveStale(c, e)
    <2>1. pts[e] <= view[c].known
        BY <1>7 DEF ReceiveStale
    <2>2. ViewFits(Ignore(view[c], e)) /\ Along(view[c], Ignore(view[c], e))
        BY <1>3, <1>4, <2>1, IgnoreFits DEF Along
    <2>3. view' = [view EXCEPT ![c] = Ignore(view[c], e)] /\ UNCHANGED <<gaps, floor>>
        BY <1>7 DEF ReceiveStale
    <2> QED
        BY <1>2, <2>2, <2>3, AlongFine
<1>8. CASE ReceiveAhead(c, e)
    <2> DEFINE new == [l \in 1 .. NumListeners[e] |->
                          [event |-> e, listener |-> l,
                           walk |-> Walk(view[c].known, pts[e] - 1)]]
    <2>1. /\ Heard(e) /\ gaps' = [gaps EXCEPT ![c] = gaps[c] \o new] /\ UNCHANGED <<view, floor>>
        BY <1>8 DEF ReceiveAhead
    <2>2. NumListeners[e] \in Nat
        BY <1>4, SyncAssumption DEF SentEvents
    <2>3. \A l \in 1 .. NumListeners[e] : GapFits(new[l], view[c].known)
        <3>1. WalkFits(Walk(view[c].known, pts[e] - 1), view[c].known)
            BY <1>3, FreshWalkFits
        <3>2. Walk(view[c].known, pts[e] - 1).target = pts[e] - 1
            BY DEF Walk
        <3>3. pts[e] = (pts[e] - 1) + 1
            BY <1>4
        <3> QED
            BY <2>1, <3>1, <3>2, <3>3 DEF GapFits
    <2>4. new \in Seq({new[l] : l \in 1 .. NumListeners[e]}) /\ Len(new) = NumListeners[e]
        <3>1. new \in [1 .. NumListeners[e] -> {new[l] : l \in 1 .. NumListeners[e]}]
            OBVIOUS
        <3> HIDE DEF new
        <3> QED
            BY <2>2, <3>1, IsSeqOf
    <2> HIDE DEF new
    <2>5. gaps'[c] = gaps[c] \o new /\ \A d \in Client \ {c} : gaps'[d] = gaps[d]
        BY <1>3, <2>1
    <2>6. ASSUME NEW i \in 1 .. Len(gaps'[c]) PROVE GapFits(gaps'[c][i], view[c].known)
        <3>1. /\ Len(gaps[c]) \in Nat /\ Len(gaps'[c]) = Len(gaps[c]) + NumListeners[e]
              /\ \A j \in 1 .. Len(gaps[c]) : gaps'[c][j] = gaps[c][j]
              /\ \A j \in Len(gaps[c]) + 1 .. Len(gaps[c]) + NumListeners[e] :
                    gaps'[c][j] = new[j - Len(gaps[c])]
            <4>1. gaps[c] \in Seq(GapTo(lastPts, lastPts, SentEvents))
                BY <1>3
            <4>2. Len(gaps[c]) \in Nat
                BY <4>1
            <4>3. /\ Len(gaps[c] \o new) = Len(gaps[c]) + Len(new)
                  /\ \A j \in 1 .. Len(gaps[c]) : (gaps[c] \o new)[j] = gaps[c][j]
                  /\ \A j \in Len(gaps[c]) + 1 .. Len(gaps[c]) + Len(new) :
                        (gaps[c] \o new)[j] = new[j - Len(gaps[c])]
                <5> DEFINE rest == {new[l] : l \in 1 .. NumListeners[e]}
                <5>1. new \in Seq(rest)
                    BY <2>4
                <5> HIDE DEF rest
                <5> QED
                    BY <4>1, <5>1, ConcatIs
            <4> QED
                BY <2>4, <2>5, <4>2, <4>3
        <3>2. CASE i <= Len(gaps[c])
            <4>1. gaps'[c][i] = gaps[c][i] /\ i \in 1 .. Len(gaps[c])
                BY <3>1, <3>2
            <4> QED
                BY <4>1 DEF FeedInv, Fits
        <3>3. CASE i > Len(gaps[c])
            <4>1. i \in Len(gaps[c]) + 1 .. Len(gaps[c]) + NumListeners[e]
                BY <2>2, <3>1, <3>3
            <4>2. /\ gaps'[c][i] = new[i - Len(gaps[c])]
                  /\ i - Len(gaps[c]) \in 1 .. NumListeners[e]
                BY <2>2, <3>1, <4>1
            <4> QED
                BY <2>3, <4>2
        <3> QED
            BY <3>1, <3>2, <3>3
    <2> QED
        BY <1>2, <2>1, <2>5, <2>6, StaysFine
<1>9. CASE ReceiveNow(c, e)
    <2> DEFINE u == Run(view[c], e, 1 .. NumListeners[e])
    <2>1. /\ Heard(e) /\ view' = [view EXCEPT ![c] = u] /\ UNCHANGED gaps
          /\ pts[e] = 0 \/ view[c].known = 0 \/ pts[e] = view[c].known + 1
          /\ floor' = [floor EXCEPT ![c] = IF pts[e] > 0 /\ view[c].known = 0
                                           THEN pts[e] - 1 ELSE floor[c]]
        BY <1>9 DEF ReceiveNow
    <2>2. /\ pts[e] = 0 => Stays(view[c], u)
          /\ pts[e] = view[c].known + 1 => Follows(view[c], u)
          /\ view[c].known = 0 /\ pts[e] > 0 => Begins(view[c], u) /\ u.known = pts[e]
        BY <1>3, <1>4, <1>5, <2>1, RunMoves
    <2>3. ViewFits(u) /\ u.known = Larger(view[c].known, pts[e])
        BY <1>3, <1>4, RunFits
    <2> HIDE DEF u
    <2>4. CASE ~(pts[e] > 0 /\ view[c].known = 0)
        <3>1. floor' = floor
            BY <2>1, <2>4, InBounds DEF FeedInv
        <3>2. Along(view[c], u)
            BY <1>4, <2>1, <2>2, <2>4 DEF Along
        <3> QED
            BY <1>2, <2>1, <2>3, <3>1, <3>2, AlongFine
    <2>5. CASE pts[e] > 0 /\ view[c].known = 0
        <3>1. /\ view'[c] = u /\ \A d \in Client \ {c} : view'[d] = view[d]
              /\ floor'[c] = u.known - 1 /\ \A d \in Client \ {c} : floor'[d] = floor[d]
            BY <2>1, <2>2, <2>5, InBounds DEF FeedInv
        <3>2. Moves(c)
            BY <1>2, <2>2, <2>5, <3>1 DEF Moves
        <3>3. u.known \in Nat /\ view[c].known <= u.known
            BY <1>3, <1>4, <2>3, <2>5 DEF Larger
        <3> QED
            BY <1>2, <2>1, <2>3, <3>1, <3>2, <3>3, GapsKept, FineFrom DEF Fine
    <2> QED
        BY <2>4, <2>5
<1> QED
    BY <1>1, <1>6, <1>7, <1>8, <1>9

LEMMA PutFirst ==
    ASSUME NEW S, NEW s \in Seq(S), s # <<>>, NEW x \in S
    PROVE  /\ Len([s EXCEPT ![1] = x]) = Len(s) /\ [s EXCEPT ![1] = x][1] = x
           /\ \A i \in 2 .. Len(s) : [s EXCEPT ![1] = x][i] = s[i]
<1> DEFINE t == [s EXCEPT ![1] = x]
<1>1. Len(s) \in Nat /\ DOMAIN s = 1 .. Len(s) /\ 1 \in 1 .. Len(s)
    OBVIOUS
<1>2. t \in Seq(S)
    BY <1>1
<1>3. DOMAIN t = 1 .. Len(s) /\ DOMAIN t = 1 .. Len(t) /\ Len(t) \in Nat
    BY <1>1, <1>2
<1>4. Len(t) = Len(s)
    <2> HIDE DEF t
    <2> QED
        BY <1>1, <1>3
<1>5. t[1] = x /\ \A i \in 2 .. Len(s) : t[i] = s[i]
    BY <1>1
<1> QED
    BY <1>4, <1>5

(* The listener at the head of the queue looks at another page. *)
LEMMA HeadWalks ==
    ASSUME FeedInv, NEW c \in Client, gaps[c] # <<>>, NEW n \in Nat, view[c].known <= n,
           NEW w \in WalkTo(lastPts, lastPts), WalkFits(w, n), w.target = gaps[c][1].walk.target,
           gaps' = [gaps EXCEPT ![c][1].walk = w]
    PROVE  /\ \A d \in Client \ {c} : gaps'[d] = gaps[d]
           /\ \A i \in 1 .. Len(gaps'[c]) : GapFits(gaps'[c][i], n)
<1> DEFINE g == [gaps[c][1] EXCEPT !.walk = w]
           gs == gaps[c]
<1>1. gaps \in [Client -> Seq(GapTo(lastPts, lastPts, SentEvents))] /\ gs \in Seq(GapTo(lastPts, lastPts, SentEvents))
    BY InBounds DEF FeedInv
<1>2. gaps' = [gaps EXCEPT ![c] = [gs EXCEPT ![1] = g]]
    BY <1>1
<1>3. 1 \in 1 .. Len(gs) /\ gs[1] \in GapTo(lastPts, lastPts, SentEvents)
    BY <1>1
<1>4. g.walk = w /\ g.event = gs[1].event /\ g \in GapTo(lastPts, lastPts, SentEvents)
    BY <1>3 DEF GapTo
<1>5. GapFits(g, n)
    BY <1>3, <1>4 DEF FeedInv, Fits, GapFits
<1> HIDE DEF g, gs
<1>6. gaps'[c] = [gs EXCEPT ![1] = g] /\ \A d \in Client \ {c} : gaps'[d] = gaps[d]
    BY <1>1, <1>2
<1>7. Len(gaps'[c]) = Len(gs) /\ gaps'[c][1] = g /\ \A i \in 2 .. Len(gs) : gaps'[c][i] = gs[i]
    <2> DEFINE G == GapTo(lastPts, lastPts, SentEvents)
    <2>1. gs \in Seq(G) /\ gs # <<>> /\ g \in G
        BY <1>1, <1>3, <1>4
    <2> HIDE DEF G
    <2>2. /\ Len([gs EXCEPT ![1] = g]) = Len(gs) /\ [gs EXCEPT ![1] = g][1] = g
          /\ \A i \in 2 .. Len(gs) : [gs EXCEPT ![1] = g][i] = gs[i]
        BY <2>1, PutFirst
    <2> QED
        BY <1>6, <2>2
<1>8. \A i \in 1 .. Len(gs) : GapFits(gs[i], n)
    BY GapsKept DEF gs
<1>9. ASSUME NEW i \in 1 .. Len(gs) PROVE GapFits(gaps'[c][i], n)
    <2>1. CASE i = 1
        BY <1>5, <1>7, <2>1
    <2>2. CASE i # 1
        <3>1. i \in 2 .. Len(gs)
            BY <1>1, <2>2
        <3> QED
            BY <1>7, <1>8, <1>9, <3>1
    <2> QED
        BY <2>1, <2>2
<1> QED
    BY <1>6, <1>7, <1>9

(* It leaves the queue. *)
LEMMA HeadLeaves ==
    ASSUME FeedInv, NEW c \in Client, gaps[c] # <<>>, NEW n \in Nat, view[c].known <= n,
           gaps' = [gaps EXCEPT ![c] = Tail(gaps[c])]
    PROVE  /\ \A d \in Client \ {c} : gaps'[d] = gaps[d]
           /\ \A i \in 1 .. Len(gaps'[c]) : GapFits(gaps'[c][i], n)
<1> DEFINE gs == gaps[c]
<1>1. gaps \in [Client -> Seq(GapTo(lastPts, lastPts, SentEvents))] /\ gs \in Seq(GapTo(lastPts, lastPts, SentEvents))
    BY InBounds DEF FeedInv
<1>2. gaps'[c] = Tail(gs) /\ \A d \in Client \ {c} : gaps'[d] = gaps[d]
    BY <1>1
<1>3. \A i \in 1 .. Len(gs) : GapFits(gs[i], n)
    BY GapsKept
<1>4. gs # <<>>
    OBVIOUS
<1> HIDE DEF gs
<1>5. Len(Tail(gs)) + 1 = Len(gs) /\ Len(gs) \in Nat /\ Len(Tail(gs)) \in Nat
    BY <1>1, <1>4
<1>6. \A i \in 1 .. Len(Tail(gs)) : Tail(gs)[i] = gs[i + 1]
    BY <1>1, <1>4
<1>7. \A i \in 1 .. Len(Tail(gs)) : i + 1 \in 1 .. Len(gs)
    <2> DEFINE m == Len(Tail(gs))
               k == Len(gs)
    <2>1. m + 1 = k /\ k \in Nat /\ m \in Nat
        BY <1>5
    <2> HIDE DEF m, k
    <2>2. \A i \in 1 .. m : i + 1 \in 1 .. k
        BY <2>1
    <2> QED
        BY <2>2 DEF m, k
<1>8. ASSUME NEW i \in 1 .. Len(Tail(gs)) PROVE GapFits(gaps'[c][i], n)
    <2>1. Tail(gs)[i] = gs[i + 1] /\ i + 1 \in 1 .. Len(gs)
        BY <1>6, <1>7
    <2>2. GapFits(gs[i + 1], n)
        BY <1>3, <2>1
    <2> QED
        BY <1>2, <2>1, <2>2
<1> QED
    BY <1>2, <1>8

LEMMA GapFine ==
    ASSUME FeedInv, NEW c \in Client, AnswerGap(c) \/ TakeGap(c) \/ FailGap(c)
    PROVE  Fine(c)
<1> DEFINE g == gaps[c][1]
           w == g.walk
           v == view[c]
           u == Replay(v, w)
<1>1. gaps[c] # <<>> /\ UNCHANGED <<lastPts, rows, stage, pts, sync, floor>>
    BY DEF AnswerGap, TakeGap, FailGap, serverVars
<1>2. /\ LogInv /\ AllLogged /\ lastPts \in Nat /\ pts \in [Event -> Nat]
      /\ v \in ViewTo(lastPts) /\ v.known \in 0 .. lastPts /\ ViewFits(v)
    BY InBounds DEF FeedInv, SyncInv, Fits, LogInv, ServerTypeOK
<1>3. g \in GapTo(lastPts, lastPts, SentEvents) /\ GapFits(g, v.known)
    <2>1. gaps[c] \in Seq(GapTo(lastPts, lastPts, SentEvents))
        BY InBounds DEF FeedInv
    <2>2. 1 \in 1 .. Len(gaps[c]) /\ gaps[c][1] \in GapTo(lastPts, lastPts, SentEvents)
        BY <1>1, <2>1
    <2> QED
        BY <2>2 DEF FeedInv, Fits
<1>4. /\ w \in WalkTo(lastPts, lastPts) /\ WalkFits(w, v.known) /\ w.cursor <= v.known
      /\ g.event \in SentEvents /\ g.listener \in Listener
      /\ Heard(g.event) /\ pts[g.event] = w.target + 1 /\ w.target \in Nat
    BY <1>3 DEF GapFits, WalkFits, GapTo, WalkTo
<1>5. CASE AnswerGap(c)
    <2>1. gaps' = [gaps EXCEPT ![c][1].walk = Answer(w)] /\ view' = view
        BY <1>5 DEF AnswerGap
    <2>2. WalkFits(Answer(w), v.known) /\ Answer(w).target = w.target
        BY <1>2, <1>4, AnswerFits
    <2>3. v.known \in Nat /\ v.known <= v.known
        BY <1>2
    <2>4. /\ \A d \in Client \ {c} : gaps'[d] = gaps[d]
          /\ \A i \in 1 .. Len(gaps'[c]) : GapFits(gaps'[c][i], v.known)
        BY <1>1, <1>2, <1>4, <2>1, <2>2, <2>3, AnswerTo, HeadWalks
    <2> QED
        BY <1>1, <2>1, <2>4, StaysFine
<1>6. CASE TakeGap(c)
    <2>1. w.got
        BY <1>6 DEF TakeGap
    <2>2. /\ ViewFits(u) /\ Along(v, u) /\ u.known = Larger(v.known, NextCursor(w))
          /\ u \in ViewTo(lastPts)
        BY <1>2, <1>4, <2>1, ReplayMoves, ReplayTo
    <2>3. /\ NextCursor(w) \in 0 .. lastPts /\ u.known \in 0 .. lastPts
          /\ NextCursor(w) <= u.known /\ v.known <= u.known /\ u.known \in Nat
        BY <1>2, <1>4, <2>2, NextCursorIs DEF Larger
    <2>4. \/ /\ view' = [view EXCEPT ![c] = u]
             /\ gaps' = [gaps EXCEPT ![c][1].walk = NextPage(w)]
          \/ /\ Outcome(w) = "reached"
             /\ view' = [view EXCEPT ![c] = Resume(u, g.event, g.listener)]
             /\ gaps' = [gaps EXCEPT ![c] = Tail(gaps[c])]
          \/ /\ view' = [view EXCEPT ![c] = u]
             /\ gaps' = [gaps EXCEPT ![c] = Tail(gaps[c])]
        BY <1>6 DEF TakeGap
    <2> HIDE DEF u
    <2>5. CASE /\ view' = [view EXCEPT ![c] = u]
               /\ gaps' = [gaps EXCEPT ![c][1].walk = NextPage(w)]
        <3>1. WalkFits(NextPage(w), u.known) /\ NextPage(w).target = w.target
            BY <1>2, <1>4, <2>3, NextPageFits
        <3>2. /\ \A d \in Client \ {c} : gaps'[d] = gaps[d]
              /\ \A i \in 1 .. Len(gaps'[c]) : GapFits(gaps'[c][i], u.known)
            <4>1. NextPage(w) \in WalkTo(lastPts, lastPts)
                BY <1>2, <1>4, NextPageTo
            <4> QED
                BY <1>1, <1>2, <1>4, <2>3, <2>5, <3>1, <4>1, HeadWalks
        <3> QED
            BY <1>1, <2>2, <2>5, <3>2, AlongFine
    <2>6. CASE /\ Outcome(w) = "reached"
               /\ view' = [view EXCEPT ![c] = Resume(u, g.event, g.listener)]
               /\ gaps' = [gaps EXCEPT ![c] = Tail(gaps[c])]
        <3> DEFINE x == Resume(u, g.event, g.listener)
        <3>1. NextCursor(w) >= w.target
            BY <2>6 DEF Outcome
        <3>2. pts[g.event] <= u.known + 1
            BY <1>4, <2>3, <3>1
        <3>3. ViewFits(x) /\ Along(u, x) /\ u.known <= x.known
            BY <1>2, <1>4, <2>2, <3>2, ResumeMoves
        <3>4. x \in ViewTo(lastPts) /\ x.known \in Nat
            <4>1. g.event \in Event /\ pts[g.event] \in 0 .. lastPts
                BY <1>2, <1>4, SentTo
            <4>2. x \in ViewTo(lastPts)
                BY <1>2, <2>2, <4>1, ResumeTo
            <4> HIDE DEF x
            <4> QED
                BY <4>2 DEF ViewTo
        <3> HIDE DEF x
        <3>5. Along(v, x) /\ v.known <= x.known
            BY <1>2, <2>2, <2>3, <3>3, <3>4, AlongTwice
        <3>6. /\ \A d \in Client \ {c} : gaps'[d] = gaps[d]
              /\ \A i \in 1 .. Len(gaps'[c]) : GapFits(gaps'[c][i], x.known)
            BY <1>1, <2>6, <3>4, <3>5, HeadLeaves
        <3> QED
            BY <1>1, <2>6, <3>3, <3>5, <3>6, AlongFine DEF x
    <2>7. CASE /\ view' = [view EXCEPT ![c] = u]
               /\ gaps' = [gaps EXCEPT ![c] = Tail(gaps[c])]
        <3>1. /\ \A d \in Client \ {c} : gaps'[d] = gaps[d]
              /\ \A i \in 1 .. Len(gaps'[c]) : GapFits(gaps'[c][i], u.known)
            BY <1>1, <2>3, <2>7, HeadLeaves
        <3> QED
            BY <1>1, <2>2, <2>7, <3>1, AlongFine
    <2> QED
        BY <2>4, <2>5, <2>6, <2>7
<1>7. CASE FailGap(c)
    <2>1. gaps' = [gaps EXCEPT ![c] = Tail(gaps[c])] /\ view' = view
        BY <1>7 DEF FailGap
    <2>2. v.known \in Nat /\ v.known <= v.known
        BY <1>2
    <2>3. /\ \A d \in Client \ {c} : gaps'[d] = gaps[d]
          /\ \A i \in 1 .. Len(gaps'[c]) : GapFits(gaps'[c][i], v.known)
        BY <1>1, <2>1, <2>2, HeadLeaves
    <2> QED
        BY <1>1, <2>1, <2>3, StaysFine
<1> QED
    BY <1>5, <1>6, <1>7

(* Adopting a number of the server moves the number alone. *)
LEMMA AdoptMoves ==
    ASSUME FeedInv, NEW c \in Client, NEW n \in 0 .. lastPts, Adopt(c, n),
           UNCHANGED <<lastPts, rows, pts>>
    PROVE  /\ Moves(c) /\ ViewFits(view'[c])
           /\ view'[c].known \in Nat /\ view[c].known <= view'[c].known
           /\ \A d \in Client \ {c} : view'[d] = view[d] /\ floor'[d] = floor[d]
<1> DEFINE v == view[c]
           u == [v EXCEPT !.known = Larger(v.known, n)]
<1>1. /\ view' = [view EXCEPT ![c] = u]
      /\ floor' = [floor EXCEPT ![c] = IF n > v.known THEN n ELSE floor[c]]
    BY DEF Adopt
<1>2. /\ v \in ViewTo(lastPts) /\ v.known \in 0 .. lastPts /\ lastPts \in Nat
      /\ view \in [Client -> ViewTo(lastPts)] /\ floor \in [Client -> Nat]
      /\ pts \in [Event -> Nat] /\ ViewFits(v)
    BY InBounds DEF FeedInv, Fits, LogInv, ServerTypeOK
<1>3. u.known = Larger(v.known, n) /\ u.seen = v.seen /\ u.runs = v.runs
    BY <1>2 DEF ViewTo
<1> HIDE DEF u
<1>4. /\ view'[c] = u /\ \A d \in Client \ {c} : view'[d] = view[d] /\ floor'[d] = floor[d]
      /\ floor'[c] = IF n > v.known THEN n ELSE floor[c]
    BY <1>1, <1>2
<1>5. u.known \in Nat /\ v.known <= u.known
    BY <1>2, <1>3 DEF Larger
<1>6. Done(u) = Done(v)
    BY <1>3 DEF Done
<1>7. IF n > v.known THEN Skips(v, u) /\ u.known = n ELSE Stays(v, u)
    BY <1>2, <1>3, <1>6 DEF Skips, Stays, Larger
<1>8. Moves(c)
    BY <1>4, <1>7 DEF Moves, Along
<1>9. ViewFits(u)
    <2>1. \A e \in v.seen : pts[e] \in Nat /\ pts[e] <= v.known
        BY <1>2 DEF ViewFits, SentEvents
    <2> QED
        BY <1>2, <1>3, <1>5, <2>1 DEF ViewFits
<1> QED
    BY <1>4, <1>5, <1>8, <1>9

LEMMA PrimeFine ==
    ASSUME FeedInv, NEW c \in Client, AnswerPrime(c) \/ TakePrime(c) \/ FailPrime(c)
    PROVE  Fine(c)
<1>1. UNCHANGED <<lastPts, rows, stage, pts, gaps, sync>>
    BY DEF AnswerPrime, TakePrime, FailPrime, serverVars
<1>2. CASE AnswerPrime(c) \/ FailPrime(c)
    BY <1>1, <1>2, StaysFine DEF AnswerPrime, FailPrime
<1>3. CASE TakePrime(c)
    <2>1. prime[c].server \in 0 .. lastPts
        BY InBounds DEF FeedInv, PrimeTo
    <2>2. /\ Moves(c) /\ ViewFits(view'[c])
          /\ view'[c].known \in Nat /\ view[c].known <= view'[c].known
          /\ \A d \in Client \ {c} : view'[d] = view[d] /\ floor'[d] = floor[d]
        BY <1>1, <1>3, <2>1, AdoptMoves DEF TakePrime
    <2> QED
        BY <1>1, <2>2, GapsKept, FineFrom DEF Fine
<1> QED
    BY <1>2, <1>3

LEMMA SlotKept ==
    ASSUME FeedInv, NEW c \in Client, NEW k \in Slot, NEW n \in Nat, view[c].known <= n,
           NEW s, SyncFits(s, n), sync' = [sync EXCEPT ![c][k] = s]
    PROVE  /\ \A d \in Client \ {c} : sync'[d] = sync[d]
           /\ \A j \in Slot : SyncFits(sync'[c][j], n)
<1>1. sync \in [Client -> [Slot -> SyncTo(lastPts, lastPts)]]
    BY InBounds DEF FeedInv
<1>2. \A j \in Slot : SyncFits(sync[c][j], n)
    BY GapsKept
<1> QED
    BY <1>1, <1>2

LEMMA IdleFits ==
    ASSUME NEW n \in Nat
    PROVE  SyncFits(IdleSync, n)
<1>1. IdleSync.local = 0 /\ IdleSync.walk = Walk(0, 0)
    BY DEF IdleSync
<1>2. WalkFits(Walk(0, 0), n)
    BY DEF Walk, WalkFits
<1> QED
    BY <1>1, <1>2 DEF SyncFits

LEMMA SyncFine ==
    ASSUME FeedInv, NEW c \in Client, NEW k \in Slot,
           AnswerSync(c, k) \/ TakeState(c, k) \/ TakeSync(c, k) \/ FailSync(c, k)
    PROVE  Fine(c)
<1> DEFINE s == sync[c][k]
           w == s.walk
           v == view[c]
<1>1. UNCHANGED <<lastPts, rows, stage, pts, gaps>>
    BY DEF AnswerSync, TakeState, TakeSync, FailSync, serverVars
<1>2. /\ LogInv /\ AllLogged /\ lastPts \in Nat
      /\ v \in ViewTo(lastPts) /\ v.known \in Nat /\ v.known <= v.known /\ ViewFits(v)
    BY InBounds DEF FeedInv, SyncInv, Fits
<1>3. /\ sync \in [Client -> [Slot -> SyncTo(lastPts, lastPts)]] /\ s \in SyncTo(lastPts, lastPts)
      /\ s.server \in 0 .. lastPts /\ w \in WalkTo(lastPts, lastPts) /\ SyncFits(s, v.known)
    BY InBounds DEF FeedInv, Fits, SyncTo
<1>4. s.local <= v.known /\ WalkFits(w, v.known) /\ w.cursor <= v.known /\ s.local \in 0 .. lastPts
    BY <1>3 DEF SyncFits, WalkFits, SyncTo
<1>5. ASSUME UNCHANGED <<view, floor>>, NEW x, SyncFits(x, v.known),
             sync' = [sync EXCEPT ![c][k] = x]
      PROVE  Fine(c)
    <2>1. /\ \A d \in Client \ {c} : sync'[d] = sync[d]
          /\ \A j \in Slot : SyncFits(sync'[c][j], v.known)
        BY <1>2, <1>5, SlotKept
    <2> QED
        BY <1>1, <1>5, <2>1, StaysFine
<1>6. SyncFits(IdleSync, v.known)
    BY <1>2, IdleFits
<1>7. CASE AnswerSync(c, k)
    <2>1. UNCHANGED <<view, floor>>
        BY <1>7 DEF AnswerSync
    <2>2. ASSUME sync' = [sync EXCEPT ![c][k].phase = "told", ![c][k].server = lastPts]
          PROVE  Fine(c)
        <3> DEFINE told == [s EXCEPT !.phase = "told"]
                   x == [told EXCEPT !.server = lastPts]
        <3>1. sync' = [[sync EXCEPT ![c][k] = told] EXCEPT ![c][k].server = lastPts]
            BY <2>2, <1>3
        <3>2. sync' = [sync EXCEPT ![c][k] = x]
            <4> HIDE DEF told
            <4> QED
                BY <1>3, <3>1
        <3>3. x.local = s.local /\ x.walk = w
            BY <1>3 DEF SyncTo
        <3> HIDE DEF x, told
        <3>4. SyncFits(x, v.known)
            BY <1>4, <3>3 DEF SyncFits
        <3> QED
            BY <1>5, <2>1, <3>2, <3>4
    <2>3. ASSUME sync' = [sync EXCEPT ![c][k].walk = Answer(@)]
          PROVE  Fine(c)
        <3> DEFINE x == [s EXCEPT !.walk = Answer(w)]
        <3>1. sync' = [sync EXCEPT ![c][k] = x]
            BY <1>3, <2>3
        <3>2. x.local = s.local /\ x.walk = Answer(w)
            BY <1>3 DEF SyncTo
        <3>3. WalkFits(Answer(w), v.known)
            BY <1>2, <1>3, <1>4, AnswerFits
        <3> HIDE DEF x
        <3>4. SyncFits(x, v.known)
            BY <1>4, <3>2, <3>3 DEF SyncFits
        <3> QED
            BY <1>5, <2>1, <3>1, <3>4
    <2> QED
        BY <1>7, <2>2, <2>3 DEF AnswerSync
<1>8. CASE TakeState(c, k)
    <2>1. CASE Adopt(c, s.server) /\ sync' = [sync EXCEPT ![c][k] = IdleSync]
        <3>1. /\ Moves(c) /\ ViewFits(view'[c])
              /\ view'[c].known \in Nat /\ view[c].known <= view'[c].known
              /\ \A d \in Client \ {c} : view'[d] = view[d] /\ floor'[d] = floor[d]
            BY <1>1, <1>3, <2>1, AdoptMoves
        <3>2. /\ \A d \in Client \ {c} : sync'[d] = sync[d]
              /\ \A j \in Slot : SyncFits(sync'[c][j], view'[c].known)
            BY <2>1, <3>1, IdleFits, SlotKept
        <3> QED
            BY <1>1, <3>1, <3>2, GapsKept, FineFrom DEF Fine
    <2>2. CASE UNCHANGED <<view, floor>> /\ sync' = [sync EXCEPT ![c][k] = IdleSync]
        BY <1>5, <1>6, <2>2
    <2>3. CASE /\ UNCHANGED <<view, floor>>
               /\ sync' = [sync EXCEPT ![c][k].phase = "walk",
                                       ![c][k].walk = Walk(s.local, s.server)]
        <3> DEFINE walking == [s EXCEPT !.phase = "walk"]
                   x == [walking EXCEPT !.walk = Walk(s.local, s.server)]
        <3>1. sync' = [[sync EXCEPT ![c][k] = walking]
                          EXCEPT ![c][k].walk = Walk(s.local, s.server)]
            BY <2>3, <1>3
        <3>2. sync' = [sync EXCEPT ![c][k] = x]
            <4> HIDE DEF walking
            <4> QED
                BY <1>3, <3>1
        <3>3. x.local = s.local /\ x.walk = Walk(s.local, s.server)
            BY <1>3 DEF SyncTo
        <3>4. WalkFits(Walk(s.local, s.server), v.known)
            BY <1>4 DEF Walk, WalkFits
        <3> HIDE DEF x, walking
        <3>5. SyncFits(x, v.known)
            BY <1>4, <3>3, <3>4 DEF SyncFits
        <3> QED
            BY <1>5, <2>3, <3>2, <3>5
    <2> QED
        BY <1>8, <2>1, <2>2, <2>3 DEF TakeState
<1>9. CASE TakeSync(c, k)
    <2> DEFINE u == Replay(v, w)
    <2>1. /\ w.got /\ view' = [view EXCEPT ![c] = u] /\ UNCHANGED floor
          /\ \/ sync' = [sync EXCEPT ![c][k] = [s EXCEPT !.walk = NextPage(w)]]
             \/ sync' = [sync EXCEPT ![c][k] = IdleSync]
        BY <1>3, <1>9 DEF TakeSync
    <2>2. ViewFits(u) /\ Along(v, u) /\ u.known = Larger(v.known, NextCursor(w))
        BY <1>2, <1>3, <1>4, <2>1, ReplayMoves
    <2>3. /\ NextCursor(w) \in 0 .. lastPts /\ u.known \in Nat
          /\ NextCursor(w) <= u.known /\ v.known <= u.known
        BY <1>2, <1>3, <2>2, NextCursorIs DEF Larger
    <2> HIDE DEF u
    <2>4. SyncFits([s EXCEPT !.walk = NextPage(w)], u.known)
        <3> DEFINE x == [s EXCEPT !.walk = NextPage(w)]
        <3>1. x.local = s.local /\ x.walk = NextPage(w)
            BY <1>3 DEF SyncTo
        <3>2. WalkFits(NextPage(w), u.known)
            BY <1>2, <1>3, <2>3, NextPageFits
        <3>3. s.local <= u.known
            BY <1>2, <1>4, <2>3
        <3> HIDE DEF x
        <3>4. SyncFits(x, u.known)
            BY <3>1, <3>2, <3>3 DEF SyncFits
        <3> QED
            BY <3>4 DEF x
    <2>5. /\ \A d \in Client \ {c} : sync'[d] = sync[d]
          /\ \A j \in Slot : SyncFits(sync'[c][j], u.known)
        BY <2>1, <2>3, <2>4, IdleFits, SlotKept
    <2>6. /\ view'[c] = u /\ \A d \in Client \ {c} : view'[d] = view[d]
        BY <2>1, InBounds DEF FeedInv
    <2>7. Moves(c)
        BY <1>1, <2>1, <2>2, <2>6 DEF Moves
    <2> QED
        BY <1>1, <2>1, <2>2, <2>3, <2>5, <2>6, <2>7, GapsKept, FineFrom DEF Fine
<1>10. CASE FailSync(c, k)
    BY <1>5, <1>6, <1>10 DEF FailSync
<1> QED
    BY <1>7, <1>8, <1>9, <1>10

(* The server numbers an event before it sends it, and never again. *)
LEMMA SentIsFinal ==
    ASSUME LogInv, NEW e \in Event, Persistence(e) \/ \E r \in Room : EmitToRoom(e, r),
           NEW f \in SentEvents
    PROVE  f \in SentEvents' /\ pts'[f] = pts[f]
<1> USE DEF LogInv, ServerTypeOK, SentEvents, Move
<1>1. CASE Store(e) \/ Allocate(e) \/ CommitEvent(e) \/ RollbackEvent(e)
    BY <1>1 DEF Store, Allocate, CommitEvent, RollbackEvent
<1>2. CASE EmitUnpersisted(e) \/ PersistUnavailable(e) \/ \E r \in Room : EmitToRoom(e, r)
    BY <1>2 DEF EmitUnpersisted, PersistUnavailable, EmitToRoom
<1>3. CASE Crash(e)
    BY <1>3 DEF Crash
<1> QED
    BY <1>1, <1>2, <1>3 DEF Persistence

(* A step of the server: it may add a row, and no browser notices. *)
Serves(e) ==
    /\ Persistence(e) \/ \E r \in Room : EmitToRoom(e, r)
    /\ UNCHANGED <<view, gaps, sync, floor>>

LEMMA ServerFine ==
    ASSUME FeedInv, NEW e \in Event, Serves(e)
    PROVE  \A c \in Client : Fits(c)'
<1> SUFFICES ASSUME NEW c \in Client PROVE Fits(c)'
    OBVIOUS
<1>1. LogInv /\ lastPts \in Nat /\ UNCHANGED <<view, gaps, sync, floor>>
    BY InBounds DEF FeedInv, Serves
<1>2. \A f \in SentEvents : f \in SentEvents' /\ pts'[f] = pts[f]
    BY <1>1, SentIsFinal DEF Serves
<1>3. ViewFits(view[c])'
    BY <1>1, <1>2 DEF FeedInv, Fits, ViewFits
<1>4. ASSUME NEW i \in 1 .. Len(gaps[c]) PROVE GapFits(gaps[c][i], view[c].known)'
    <2>1. gaps[c][i] \in GapTo(lastPts, lastPts, SentEvents)
        <3>1. gaps[c] \in Seq(GapTo(lastPts, lastPts, SentEvents))
            BY InBounds DEF FeedInv
        <3> QED
            BY <3>1
    <2>2. gaps[c][i].event \in SentEvents
        BY <2>1 DEF GapTo
    <2> QED
        BY <1>1, <1>2, <2>2 DEF FeedInv, Fits, GapFits
<1>5. \A k \in Slot : SyncFits(sync[c][k], view[c].known)'
    BY <1>1 DEF FeedInv, Fits, SyncFits
<1> QED
    BY <1>1, <1>3, <1>4, <1>5 DEF Fits

LEMMA FeedInitial == Init => FeedInv
<1> SUFFICES ASSUME Init PROVE FeedInv
    OBVIOUS
<1>1. ASSUME NEW c \in Client PROVE Fits(c)
    <2>1. /\ view[c].known = 0 /\ view[c].seen = {} /\ gaps[c] = <<>>
          /\ \A k \in Slot : sync[c][k] = IdleSync
        BY DEF Init
    <2> QED
        BY <2>1, IdleFits DEF Fits, ViewFits
<1>2. AllLogged
    BY DEF Init, ServerInit, AllLogged
<1> QED
    BY <1>1, <1>2, SyncInitial, OnceInitial DEF FeedInv

(* Every step is one of these. *)
FeedShape ==
    \/ \E c \in Client : Moves(c)
    \/ \E e \in Event : Serves(e)
    \/ UNCHANGED <<lastPts, rows, pts, view, floor>>

LEMMA FeedStep ==
    ASSUME NeverRollsBack, FeedInv, [Next]_vars
    PROVE  FeedInv' /\ FeedShape
<1>1. SyncInv' /\ AllLogged' /\ OnceInv'
    BY NeverRollsBack, SyncStep, AllLoggedNext, OnceStep DEF FeedInv, SyncInv
<1>2. CASE UNCHANGED vars
    <2>1. UNCHANGED <<lastPts, rows, stage, pts, view, gaps, sync, floor>>
        BY <1>2 DEF vars, serverVars, clientVars
    <2>2. \A c \in Client : Fits(c)'
        BY <2>1 DEF FeedInv, Fits, ViewFits, GapFits, SyncFits, SentEvents
    <2> QED
        BY <1>1, <2>1, <2>2 DEF FeedInv, FeedShape
<1>3. ASSUME NEW c \in Client, Fine(c) PROVE FeedInv' /\ FeedShape
    BY <1>1, <1>3 DEF Fine, FeedInv, FeedShape
<1>4. ASSUME NEW e \in Event, Serve(e) \/ \E r \in Room : Emit(e, r)
      PROVE  FeedInv' /\ FeedShape
    <2>1. Serves(e)
        BY <1>4 DEF Serve, Emit, Serves, clientVars
    <2> QED
        BY <1>1, <2>1, ServerFine DEF FeedInv, FeedShape
<1>5. ASSUME NEW c \in Client, \/ Open(c) \/ JoinRoom(c) \/ Drop(c) \/ Reconnect(c)
                               \/ Receive(c) \/ Requests(c) \/ Failures(c)
      PROVE  Fine(c)
    BY <1>5, LinkFine, ReceiveFine, GapFine, PrimeFine, SyncFine DEF Requests, Failures
<1> QED
    BY <1>2, <1>3, <1>4, <1>5 DEF Next

(* What a move adds was numbered above what the browser knew. *)
LEMMA NewsIsNew ==
    ASSUME FeedInv, NEW c \in Client, Moves(c), NEW e \in Done(view'[c]), e \notin Done(view[c])
    PROVE  pts[e] > view[c].known
<1> DEFINE v == view[c]
           u == view'[c]
<1>1. LogInv /\ lastPts \in Nat /\ v.known \in 0 .. lastPts
    BY InBounds DEF FeedInv
<1>2. PICK p \in 1 .. lastPts : p > v.known /\ e = rows[p]
    <2>1. Follows(v, u) \/ Begins(v, u)
        BY DEF Moves, Along, Stays, Skips
    <2>2. CASE Follows(v, u)
        <3>1. e \in Between(v.known, u.known) /\ u.known \in v.known + 1 .. lastPts
            BY <2>2 DEF Follows
        <3> QED
            BY <1>1, <3>1 DEF Between
    <2>3. CASE Begins(v, u)
        BY <1>1, <2>3 DEF Begins
    <2> QED
        BY <2>1, <2>2, <2>3
<1> QED
    BY <1>1, <1>2, RowSent

-----------------------------------------------------------------------------
(* A browser that has reached number n has shown its listeners every event  *)
(* up to n, except below a number it adopted: pages of any size, recoveries *)
(* that overlap, envelopes out of order, lost requests and lost connections *)
(* leave no hole (withDifferenceGate, recoverGap, __sun_setChatPts).        *)
LEMMA HolesStep ==
    ASSUME FeedInv, FeedInv', FeedShape, NothingSkipped
    PROVE  NothingSkipped'
<1> DEFINE Covered(v, fl, rs) ==
        \A p \in DOMAIN rs : fl < p /\ p <= v.known /\ Heard(rs[p]) =>
            \E l \in Listener : v.runs[rs[p]][l] > 0
<1>1. LogInv /\ LogInv' /\ lastPts \in Nat /\ DOMAIN rows = 1 .. lastPts
    BY InBounds DEF FeedInv, SyncInv, LogInv, LogGapFree
<1>2. \A c \in Client : Covered(view[c], floor[c], rows)
    BY DEF NothingSkipped, Handled
<1>3. ASSUME NEW c \in Client PROVE Covered(view'[c], floor'[c], rows')
    <2>1. /\ view[c].known \in 0 .. lastPts /\ floor[c] \in Nat
          /\ \A p \in 1 .. lastPts : pts[rows[p]] = p /\ rows[p] \in Event
        BY <1>1, InBounds, RowSent DEF FeedInv, SentEvents
    <2>2. CASE UNCHANGED <<rows, view, floor>>
        BY <1>2, <2>2
    <2>3. CASE Moves(c)
        <3> DEFINE v == view[c]
                   u == view'[c]
        <3>1. rows' = rows /\ Covered(v, floor[c], rows) /\ pts' = pts
            BY <1>2, <2>3 DEF Moves
        <3>2. \A p \in 1 .. lastPts : rows[p] \in Done(u) => \E l \in Listener : u.runs[rows[p]][l] > 0
            BY DEF Done
        <3>3. \A p \in 1 .. lastPts : floor[c] < p /\ p <= v.known /\ Heard(rows[p]) => rows[p] \in Done(v)
            BY <1>1, <2>1, <3>1 DEF Done
        <3>4. ASSUME NEW p \in 1 .. lastPts, floor'[c] < p, p <= u.known, Heard(rows[p])
              PROVE  rows[p] \in Done(u)
            <4>1. CASE Stays(v, u) /\ floor'[c] = floor[c]
                BY <3>3, <3>4, <4>1 DEF Stays
            <4>2. CASE Follows(v, u) /\ floor'[c] = floor[c]
                <5>1. CASE p <= v.known
                    BY <3>3, <3>4, <4>2, <5>1 DEF Follows
                <5>2. CASE p > v.known
                    <6>1. p \in v.known + 1 .. u.known
                        BY <1>1, <2>1, <3>4, <4>2, <5>2 DEF Follows
                    <6>2. rows[p] \in Between(v.known, u.known)
                        BY <3>4, <6>1 DEF Between
                    <6> QED
                        BY <4>2, <6>2 DEF Follows
                <5> QED
                    BY <2>1, <5>1, <5>2
            <4>3. CASE Begins(v, u) /\ floor'[c] = u.known - 1
                <5>1. p = u.known
                    BY <1>1, <3>4, <4>3 DEF Begins
                <5> QED
                    BY <4>3, <5>1 DEF Begins
            <4>4. CASE Skips(v, u) /\ floor'[c] = u.known
                BY <1>1, <2>1, <3>4, <4>4 DEF Skips
            <4> QED
                BY <2>3, <4>1, <4>2, <4>3, <4>4 DEF Moves, Along
        <3> QED
            BY <1>1, <3>1, <3>2, <3>4
    <2>4. CASE \E d \in Client : Moves(d) /\ d # c
        <3>1. view'[c] = view[c] /\ floor'[c] = floor[c] /\ rows' = rows
            BY <2>4 DEF Moves
        <3> QED
            BY <1>2, <3>1
    <2>5. CASE \E e \in Event : Serves(e)
        <3>1. \A p \in 1 .. lastPts : p \in DOMAIN rows' => rows'[p] = rows[p]
            BY <1>1, <2>5 DEF Serves, Persistence, Store, Allocate, CommitEvent, RollbackEvent,
                EmitUnpersisted, PersistUnavailable, Crash, EmitToRoom, LogInv, OpenIsNext
        <3>2. view' = view /\ floor' = floor
            BY <2>5 DEF Serves
        <3>3. \A p \in DOMAIN rows' : p \in Nat \ {0}
            BY <1>1 DEF LogInv, ServerTypeOK
        <3>4. \A p \in DOMAIN rows' : p <= view[c].known => p \in 1 .. lastPts
            BY <1>1, <2>1, <3>3
        <3> QED
            BY <1>1, <1>2, <3>1, <3>2, <3>4
    <2> QED
        BY <2>2, <2>3, <2>4, <2>5 DEF FeedShape
<1> QED
    BY <1>3 DEF NothingSkipped, Handled

THEOREM NoEventIsSkipped ==
    ASSUME NeverRollsBack
    PROVE  Spec => []NothingSkipped
<1>1. Init => FeedInv /\ NothingSkipped
    <2>1. Init => NothingSkipped
        BY DEF Init, ServerInit, NothingSkipped
    <2> QED
        BY <2>1, FeedInitial
<1>2. FeedInv /\ NothingSkipped /\ [Next]_vars => (FeedInv /\ NothingSkipped)'
    BY NeverRollsBack, FeedStep, HolesStep
<1> QED
    BY <1>1, <1>2, PTL DEF Spec

(* Listeners see numbered events in the order of their numbers.  What has   *)
(* run was seen, and so was not above the number the browser knew; what is  *)
(* news to it is.                                                           *)
LEMMA OrderStep ==
    ASSUME FeedInv, FeedShape, NEW c \in Client, NEW e \in Event, NEW f \in Event,
           Handled(c, e)', ~Handled(c, e), pts[e] > 0, Handled(c, f), view' # view
    PROVE  pts[f] < pts[e]
<1>1. PICK d \in Client : Moves(d)
    BY DEF FeedShape, Serves
<1>2. d = c /\ pts' = pts
    BY <1>1 DEF Moves, Handled
<1>3. e \in Done(view'[c]) /\ e \notin Done(view[c])
    BY DEF Done, Handled
<1>4. pts[e] > view[c].known
    BY <1>1, <1>2, <1>3, NewsIsNew
<1>5. f \in view[c].seen
    BY DEF FeedInv, OnceInv, Once, Handled
<1>6. pts[f] <= view[c].known
    BY <1>5 DEF FeedInv, Fits, ViewFits
<1>7. pts[e] \in Nat /\ pts[f] \in Nat /\ view[c].known \in Nat
    BY InBounds DEF FeedInv, LogInv, ServerTypeOK
<1> QED
    BY <1>4, <1>6, <1>7

THEOREM EventsComeInOrder ==
    ASSUME NeverRollsBack
    PROVE  Spec => InOrder
<1>1. FeedInv /\ [Next]_vars =>
          [\A c \in Client, e \in Event :
              Handled(c, e)' /\ ~Handled(c, e) /\ pts[e] > 0 =>
                  \A f \in Event : Handled(c, f) => pts[f] < pts[e]]_view
    BY NeverRollsBack, FeedStep, OrderStep
<1>2. FeedInv /\ [Next]_vars => FeedInv'
    BY NeverRollsBack, FeedStep
<1> QED
    BY <1>1, <1>2, FeedInitial, PTL DEF Spec, InOrder

-----------------------------------------------------------------------------
(* The refinement. *)

Published == [p \in 1 .. lastPts |-> rows[p]]
Cursors == [c \in Client |-> view[c].known]
HandledBy == [c \in Client |-> {e \in Event : pts[e] > 0 /\ Handled(c, e)}]

LEMMA PublishedIs ==
    ASSUME FeedInv
    PROVE  /\ Published \in Seq(Event) /\ Len(Published) = lastPts
           /\ \A p \in 1 .. lastPts : Published[p] = rows[p]
           /\ \A c \in Client : HandledBy[c] = Done(view[c])
<1>1. lastPts \in Nat /\ \A p \in 1 .. lastPts : rows[p] \in Event
    BY InBounds, RowSent DEF FeedInv, SentEvents
<1>2. Published \in Seq(Event)
    BY <1>1, IsSeqOf DEF Published
<1>3. Len(Published) = lastPts
    <2>1. DOMAIN Published = 1 .. lastPts
        BY DEF Published
    <2>2. DOMAIN Published = 1 .. Len(Published) /\ Len(Published) \in Nat
        BY <1>2
    <2> QED
        BY <1>1, <2>1, <2>2
<1>4. \A c \in Client : HandledBy[c] = Done(view[c])
    BY DEF HandledBy, Done, Handled
<1> QED
    BY <1>2, <1>3, <1>4 DEF Published

LEMMA BrowserFollowsFeed ==
    ASSUME FeedInv, FeedInv', NEW c \in Client, Moves(c)
    PROVE  [Feed!FeedNext]_(Feed!feedVars)
<1> DEFINE v == view[c]
           u == view'[c]
           Audible == {e \in Event : Heard(e)}
<1>1. UNCHANGED <<lastPts, rows, pts>> /\ Published' = Published
    BY DEF Moves, Published
<1>2. /\ lastPts \in Nat /\ v.known \in 0 .. lastPts /\ u.known \in Nat
      /\ Len(Published) = lastPts /\ \A p \in 1 .. lastPts : Published[p] = rows[p]
    <2>1. lastPts \in Nat /\ v.known \in 0 .. lastPts
        BY InBounds DEF FeedInv
    <2>2. u.known \in Nat
        BY <2>1 DEF Moves, Along, Stays, Follows, Begins, Skips
    <2> QED
        BY <2>1, <2>2, PublishedIs
<1>3. Cursors' = [Cursors EXCEPT ![c] = u.known] /\ Cursors[c] = v.known
    BY DEF Moves, Cursors
<1>4. ASSUME NEW more, Done(u) = Done(v) \cup more
      PROVE  HandledBy' = [HandledBy EXCEPT ![c] = HandledBy[c] \cup more]
    <2>1. \A d \in Client : HandledBy[d] = Done(view[d])
        BY PublishedIs
    <2>2. HandledBy' = [d \in Client |-> Done(view'[d])]
        BY <1>1 DEF HandledBy, Done, Handled
    <2>3. \A d \in Client \ {c} : Done(view'[d]) = Done(view[d])
        BY DEF Moves
    <2>4. HandledBy = [d \in Client |-> HandledBy[d]]
        BY DEF HandledBy
    <2> HIDE DEF HandledBy
    <2> QED
        BY <1>4, <2>1, <2>2, <2>3, <2>4
<1>5. CASE Stays(v, u)
    <2>1. Cursors' = Cursors
        BY <1>3, <1>5 DEF Stays, Cursors
    <2>2. Done(u) = Done(v) \cup {}
        BY <1>5 DEF Stays
    <2>3. HandledBy' = HandledBy
        <3>1. HandledBy' = [HandledBy EXCEPT ![c] = HandledBy[c] \cup {}]
            BY <1>4, <2>2
        <3>2. HandledBy = [d \in Client |-> HandledBy[d]]
            BY DEF HandledBy
        <3> DEFINE h == HandledBy
        <3> HIDE DEF h
        <3>3. [h EXCEPT ![c] = h[c] \cup {}] = [d \in Client |-> h[d]]
            BY <3>2 DEF h
        <3> QED
            BY <3>1, <3>2, <3>3 DEF h
    <2> QED
        BY <1>1, <2>1, <2>3 DEF Feed!feedVars, Published, Cursors, HandledBy
<1>6. \A es : u.known \in v.known + 1 .. lastPts /\ Done(u) = Done(v) \cup (es \cap Audible)
                 => Feed!MoveTo(c, u.known, es)
    <2> SUFFICES ASSUME NEW es, u.known \in v.known + 1 .. lastPts,
                        Done(u) = Done(v) \cup (es \cap Audible)
                 PROVE  Feed!MoveTo(c, u.known, es)
        OBVIOUS
    <2>1. HandledBy' = [HandledBy EXCEPT ![c] = HandledBy[c] \cup (es \cap Audible)]
        BY <1>4
    <2>2. u.known \in 1 .. Len(Published) /\ u.known > Cursors[c]
        BY <1>2, <1>3
    <2> QED
        BY <1>1, <1>3, <2>1, <2>2 DEF Feed!MoveTo, Published, Cursors, HandledBy
<1>7. u.known \in v.known + 1 .. lastPts => u.known \in 1 .. Len(Published)
    BY <1>2
<1>8. CASE Follows(v, u)
    <2> DEFINE path == {Published[p] : p \in Cursors[c] + 1 .. u.known}
    <2>1. Between(v.known, u.known) = path \cap Audible
        <3>1. path = {rows[p] : p \in v.known + 1 .. u.known}
            BY <1>2, <1>3, <1>8 DEF Follows
        <3>2. path \subseteq Event
            <4>1. \A p \in 1 .. lastPts : rows[p] \in Event
                BY InBounds, RowSent DEF FeedInv, SentEvents
            <4>2. \A p \in v.known + 1 .. u.known : p \in 1 .. lastPts
                BY <1>2, <1>8 DEF Follows
            <4> HIDE DEF path
            <4> QED
                BY <3>1, <4>1, <4>2
        <3> HIDE DEF path
        <3> QED
            BY <3>1, <3>2 DEF Between
    <2>2. Feed!MoveTo(c, u.known, path)
        <3>1. u.known \in v.known + 1 .. lastPts /\ Done(u) = Done(v) \cup (path \cap Audible)
            BY <1>8, <2>1 DEF Follows
        <3> HIDE DEF path, Audible, u, v
        <3> QED
            BY <1>6, <3>1 DEF Feed!MoveTo
    <2>3. Feed!Follow(c, u.known)
        BY <2>2 DEF Feed!Follow, Published, Cursors
    <2> QED
        BY <1>7, <1>8, <2>3 DEF Feed!FeedNext, Follows, Published
<1>9. CASE Begins(v, u)
    <2>1. u.known \in v.known + 1 .. lastPts
        BY <1>2, <1>9 DEF Begins
    <2>2. {Published[u.known]} \cap Audible = {rows[u.known]}
        BY <1>2, <1>9, InBounds, RowSent DEF FeedInv, SentEvents, Begins
    <2>3. Feed!MoveTo(c, u.known, {Published[u.known]})
        <3>1. Done(u) = Done(v) \cup ({Published[u.known]} \cap Audible)
            BY <1>9, <2>2 DEF Begins
        <3> HIDE DEF Audible, u, v
        <3> QED
            BY <1>6, <2>1, <3>1 DEF Feed!MoveTo
    <2>4. Feed!Begin(c, u.known)
        BY <1>3, <1>9, <2>3 DEF Feed!Begin, Begins, Published, Cursors
    <2> QED
        BY <1>7, <2>1, <2>4 DEF Feed!FeedNext, Published
<1>10. CASE Skips(v, u)
    <2>1. Done(u) = Done(v) \cup ({} \cap Audible)
        BY <1>10 DEF Skips
    <2>2. Feed!Skip(c, u.known)
        BY <1>6, <1>10, <2>1 DEF Skips, Feed!Skip
    <2> QED
        BY <1>7, <1>10, <2>2 DEF Feed!FeedNext, Skips, Published
<1> QED
    BY <1>5, <1>8, <1>9, <1>10 DEF Moves, Along

LEMMA ServerPublishes ==
    ASSUME FeedInv, FeedInv', NEW e \in Event, Serves(e)
    PROVE  [Feed!FeedNext]_(Feed!feedVars)
<1>1. LogInv /\ LogInv' /\ lastPts \in Nat /\ DOMAIN rows = 1 .. lastPts /\ UNCHANGED view
    BY InBounds DEF FeedInv, SyncInv, LogInv, LogGapFree, Serves
<1>2. Cursors' = Cursors
    BY <1>1 DEF Cursors
<1>3. HandledBy' = HandledBy
    <2>1. ASSUME NEW c \in Client, NEW f \in Event, Handled(c, f)
          PROVE  pts'[f] = pts[f]
        <3>1. f \in view[c].seen
            BY <2>1 DEF FeedInv, OnceInv, Once, Handled
        <3>2. f \in SentEvents
            BY <3>1 DEF FeedInv, Fits, ViewFits
        <3> QED
            BY <1>1, <3>2, SentIsFinal DEF Serves
    <2>2. \A c \in Client, f \in Event : Handled(c, f)' <=> Handled(c, f)
        BY <1>1 DEF Handled
    <2> QED
        BY <2>1, <2>2 DEF HandledBy
<1>4. CASE CommitEvent(e)
    <2>1. /\ lastPts' = lastPts + 1 /\ rows'[lastPts + 1] = e
          /\ \A p \in 1 .. lastPts : rows'[p] = rows[p]
        BY <1>1, <1>4 DEF CommitEvent, LogInv, OpenIsNext
    <2>2. \A p \in 1 .. lastPts : rows[p] # e
        BY <1>1, <1>4 DEF CommitEvent, LogInv, RowIsFinal
    <2>3. /\ Published \in Seq(Event) /\ Len(Published) = lastPts
          /\ \A p \in 1 .. lastPts : Published[p] = rows[p]
        BY PublishedIs
    <2>4. Published' = Append(Published, e)
        <3>1. Published' = [p \in 1 .. lastPts + 1 |-> IF p = lastPts + 1 THEN e ELSE rows[p]]
            BY <1>1, <2>1 DEF Published
        <3>2. Published' \in Seq(Event) /\ Len(Published') = lastPts + 1
            <4> DEFINE f == [p \in 1 .. lastPts + 1 |-> IF p = lastPts + 1 THEN e ELSE rows[p]]
            <4>1. f \in Seq(Event) /\ DOMAIN f = 1 .. lastPts + 1
                <5>1. \A p \in 1 .. lastPts : rows[p] \in Event
                    BY InBounds, RowSent DEF FeedInv, SentEvents
                <5>2. f \in [1 .. lastPts + 1 -> Event]
                    BY <1>1, <5>1
                <5>3. lastPts + 1 \in Nat
                    BY <1>1
                <5> HIDE DEF f
                <5> QED
                    BY <5>2, <5>3, IsSeqOf
            <4> HIDE DEF f
            <4>2. DOMAIN f = 1 .. Len(f) /\ Len(f) \in Nat
                BY <4>1
            <4>3. Len(f) = lastPts + 1
                BY <1>1, <4>1, <4>2
            <4> QED
                BY <3>1, <4>1, <4>3 DEF f
        <3>3. /\ Append(Published, e) \in Seq(Event)
              /\ Len(Append(Published, e)) = lastPts + 1
              /\ Append(Published, e)[lastPts + 1] = e
              /\ \A p \in 1 .. lastPts : Append(Published, e)[p] = rows[p]
            BY <2>3, AppendProperties
        <3>4. \A p \in 1 .. lastPts + 1 : Published'[p] = Append(Published, e)[p]
            BY <1>1, <3>1, <3>3
        <3> DEFINE a == Append(Published, e)
                   b == Published'
        <3> HIDE DEF a, b
        <3>5. b \in Seq(Event) /\ a \in Seq(Event) /\ Len(b) = Len(a) /\ \A p \in 1 .. Len(b) : b[p] = a[p]
            BY <3>2, <3>3, <3>4 DEF a, b
        <3>6. b = a
            BY <3>5, SeqEqual
        <3> QED
            BY <3>6 DEF a, b
    <2>5. Feed!Publish(e)
        BY <1>2, <1>3, <2>2, <2>3, <2>4 DEF Feed!Publish, Published, Cursors, HandledBy
    <2> QED
        BY <2>5 DEF Feed!FeedNext
<1>5. CASE ~CommitEvent(e)
    <2>1. UNCHANGED <<lastPts, rows>>
        BY <1>5 DEF Serves, Persistence, Store, Allocate, RollbackEvent,
               EmitUnpersisted, PersistUnavailable, Crash, EmitToRoom
    <2> QED
        BY <1>2, <1>3, <2>1 DEF Feed!feedVars, Published, Cursors, HandledBy
<1> QED
    BY <1>4, <1>5

LEMMA FeedStarts == Init => Feed!FeedInit
<1> SUFFICES ASSUME Init PROVE Feed!FeedInit
    OBVIOUS
<1>1. lastPts = 0 /\ \A c \in Client : view[c].known = 0
    BY DEF Init, ServerInit
<1>2. \A c \in Client, e \in Event : pts[e] = 0
    BY DEF Init, ServerInit
<1>3. [p \in 1 .. lastPts |-> rows[p]] = <<>>
    BY <1>1
<1> QED
    BY <1>1, <1>2, <1>3 DEF Feed!FeedInit

(* The log and its browsers are a feed with readers: through the mapping of *)
(* ChatSync, every step of the server and of a browser is a step of the     *)
(* feed or none, whatever is lost, delayed, doubled or fetched twice.       *)
THEOREM SyncImplementsFeed ==
    ASSUME NeverRollsBack
    PROVE  Spec => ImplementsFeed
<1>1. FeedInv /\ [Next]_vars => FeedInv'
    BY NeverRollsBack, FeedStep
<1>2. FeedInv /\ FeedInv' /\ [Next]_vars => [Feed!FeedNext]_(Feed!feedVars)
    <2> SUFFICES ASSUME FeedInv, FeedInv', [Next]_vars
                 PROVE  [Feed!FeedNext]_(Feed!feedVars)
        OBVIOUS
    <2>1. FeedShape
        BY NeverRollsBack, FeedStep
    <2>2. ASSUME UNCHANGED <<lastPts, rows, pts, view, floor>>
          PROVE  UNCHANGED Feed!feedVars
        BY <2>2 DEF Feed!feedVars, Handled
    <2> QED
        BY <2>1, <2>2, BrowserFollowsFeed, ServerPublishes DEF FeedShape
<1> QED
    BY <1>1, <1>2, FeedInitial, FeedStarts, PTL DEF Spec, ImplementsFeed, Feed!FeedSpec
=============================================================================
