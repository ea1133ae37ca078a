------------------------- MODULE SendMessageProofs -------------------------
(***************************************************************************)
(* For any number of requests, handlers and faults: a request has one row, *)
(* is announced at most as often as it was committed, confirmed only after *)
(* that and for good, and what is queued is not lost: sending implements   *)
(* Delivery.                                                               *)
(*                                                                         *)
(* A confirmation comes from a handler that found the row or committed it; *)
(* Committed says so of the handlers under way.  ToldOnce is not inductive *)
(* as it stands: a handler that has committed is going to announce, so its *)
(* announcement is owed and counts already (Owed).                         *)
(***************************************************************************)
EXTENDS SendMessage, FiniteSetTheorems, TLAPS

\* Every row was committed.
RowsStored == \A r \in Request : rows[r] <= stored[r]

\* A handler past its insert has committed its request.
Committed ==
    \A h \in Handler :
        handler[h].at \in {"read", "tell", "ack"} => stored[handler[h].req] > 0

\* The handlers that have still to announce r.
Telling(r) == {h \in Handler : handler[h].req = r /\ handler[h].at \in {"read", "tell"}}

Owed == \A r \in Request : told[r] + Cardinality(Telling(r)) <= stored[r]

SendInv ==
    /\ TypeOK
    /\ OneRow
    /\ RowsStored
    /\ Committed
    /\ Owed
    /\ SentIsStored

LEMMA SendInit == Init => SendInv
<1> SUFFICES ASSUME Init PROVE SendInv
  OBVIOUS
<1>1. TypeOK
  <2>1. 0 \in 0 .. TimerLimit
    BY SendAssumption DEF SendAssumption
  <2> QED
    BY <2>1 DEF Init, TypeOK, timers
<1>4. OneRow /\ RowsStored /\ SentIsStored
  BY DEF Init, OneRow, RowsStored, SentIsStored
<1>2. Committed /\ \A r \in Request : Telling(r) = {}
  BY DEF Init, Committed, Telling, Idle
<1>3. Owed
  BY <1>2, FS_EmptySet DEF Init, Owed
<1> QED
  BY <1>1, <1>4, <1>2, <1>3 DEF SendInv

-----------------------------------------------------------------------------
Steps == {"find", "reserve", "insert", "read", "tell", "ack"}
Kinds == {"sent", "echo", "refused"}

\* A handler under way has a request; where it stands tells whether it is.
LEMMA Busy ==
  ASSUME TypeOK, NEW h \in Handler, handler[h].at \in Steps
  PROVE  handler[h] \in [req : Request, at : Steps]
BY DEF TypeOK, Idle, Steps

\* An answer is added to those under way, or there is none.
LEMMA EmitAdds ==
  ASSUME NEW h \in Handler, NEW k, Emit(h, k)
  PROVE  reply' \subseteq reply \cup {Answer(handler[h].req, k)}
BY DEF Emit

LEMMA EmitType ==
  ASSUME TypeOK, NEW h \in Handler, handler[h].at \in Steps, NEW k \in Kinds, Emit(h, k)
  PROVE  reply' \subseteq [req : Request, kind : Kinds]
<1>1. handler[h].req \in Request
  BY Busy
<1>2. Answer(handler[h].req, k) \in [req : Request, kind : Kinds]
  BY <1>1 DEF Answer
<1> QED
  BY <1>2, EmitAdds DEF TypeOK, Kinds

LEMMA ReturnType ==
  ASSUME TypeOK, NEW h \in Handler, Return(h)
  PROVE  handler' \in [Handler -> {Idle} \cup [req : Request, at : Steps]]
BY DEF TypeOK, Steps, Return

LEMMA GotoType ==
  ASSUME TypeOK, NEW h \in Handler, handler[h].at \in Steps, NEW s \in Steps, Goto(h, s)
  PROVE  handler' \in [Handler -> {Idle} \cup [req : Request, at : Steps]]
<1>1. [handler[h] EXCEPT !.at = s] \in [req : Request, at : Steps]
  BY Busy
<1> QED
  BY <1>1 DEF TypeOK, Steps, Goto

TimerType ==
    /\ running \in [Request -> 0 .. TimerLimit]
    /\ tracked \subseteq {r \in Request : running[r] > 0}

Bubbles == [Request -> {"new", "pending", "read", "failed", "sent", "gone"}]

\* The parts of TypeOK that only the server's steps, or only the browser's, move.
ServerType ==
    /\ rows \in [Request -> Nat]
    /\ key \in [Request -> {"free", "pending", "completed"}]
    /\ handler \in [Handler -> {Idle} \cup [req : Request, at : Steps]]
    /\ stored \in [Request -> Nat] /\ told \in [Request -> Nat]

BrowserType ==
    /\ outbox \subseteq Request
    /\ page \in BOOLEAN /\ online \in BOOLEAN
    /\ bubble \in Bubbles /\ TimerType
    /\ sending \subseteq Request /\ saving \subseteq Request
    /\ expired \subseteq Request

WireType ==
    /\ wire \subseteq Request
    /\ reply \subseteq [req : Request, kind : Kinds]

LEMMA TypeParts ==
  /\ TypeOK <=> ServerType /\ BrowserType /\ WireType
  /\ TypeOK' <=> ServerType' /\ BrowserType' /\ WireType'
BY DEF TypeOK, ServerType, BrowserType, WireType, TimerType, Bubbles, Steps, Kinds

LEMMA HandleType ==
  ASSUME TypeOK, NEW h \in Handler, Handle(h)
  PROVE  TypeOK'
<1> DEFINE HT == handler' \in [Handler -> {Idle} \cup [req : Request, at : Steps]]
<1> DEFINE RT == reply' \subseteq [req : Request, kind : Kinds]
<1>1. BrowserType' /\ ServerType /\ WireType
  <2>1. browser' = browser
    BY DEF Handle, Begin, Refuse, FindExisting, Reserve, Insert, InsertFails,
           ReadFails, FailSave, Complete, Tell, Ack, Crash
  <2> QED
    BY <2>1, TypeParts DEF BrowserType, TimerType, browser, timers
<1>2. CASE Begin(h)
  <2>1. PICK r \in wire : /\ wire' = wire \ {r}
                          /\ handler' = [handler EXCEPT ![h] = [req |-> r, at |-> "find"]]
    BY <1>2 DEF Begin
  <2>2. HT
    BY <1>1, <2>1 DEF ServerType, WireType, Steps
  <2> QED
    BY <1>1, <1>2, <2>1, <2>2, TypeParts DEF Begin, ServerType, WireType
<1>3. CASE Refuse(h)
  <2>1. handler[h].at \in Steps /\ (Emit(h, "refused") \/ reply' = reply)
    BY <1>3 DEF Refuse, At, Steps
  <2>2. HT
    BY <1>3, ReturnType DEF Refuse
  <2>3. RT
    <3>1. CASE Emit(h, "refused")
      BY <2>1, <3>1, EmitType DEF Kinds
    <3> QED
      BY <1>1, <2>1, <3>1 DEF WireType
  <2> QED
    BY <1>1, <1>3, <2>2, <2>3, TypeParts DEF Refuse, ServerType, WireType
<1>4. CASE FindExisting(h)
  <2>1. handler[h].at \in Steps /\ \/ Emit(h, "sent") /\ Return(h)
                                   \/ Goto(h, "reserve") /\ reply' = reply
    BY <1>4 DEF FindExisting, At, Steps
  <2>2. HT /\ RT
    <3>1. CASE Emit(h, "sent") /\ Return(h)
      BY <2>1, <3>1, ReturnType, EmitType DEF Kinds
    <3>2. CASE Goto(h, "reserve") /\ reply' = reply
      BY <1>1, <2>1, <3>2, GotoType DEF WireType, Steps
    <3> QED
      BY <2>1, <3>1, <3>2
  <2> QED
    BY <1>1, <1>4, <2>2, TypeParts DEF FindExisting, ServerType, WireType
<1>5. CASE Reserve(h)
  <2>1. handler[h].at \in Steps /\ \/ Return(h) /\ reply' = reply
                                   \/ Goto(h, "insert") /\ reply' = reply
    BY <1>5 DEF Reserve, At, Steps
  <2>2. HT /\ RT
    <3>1. CASE Return(h) /\ reply' = reply
      BY <1>1, <2>1, <3>1, ReturnType DEF WireType
    <3>2. CASE Goto(h, "insert") /\ reply' = reply
      BY <1>1, <2>1, <3>2, GotoType DEF WireType, Steps
    <3> QED
      BY <2>1, <3>1, <3>2
  <2>3. key' \in [Request -> {"free", "pending", "completed"}]
    BY <1>1, <1>5 DEF Reserve, ServerType
  <2> QED
    BY <1>1, <1>5, <2>2, <2>3, TypeParts DEF Reserve, ServerType, WireType
<1>6. CASE Insert(h)
  <2>1. HT
    BY <1>6, GotoType DEF Insert, At, Steps
  <2>2. rows' \in [Request -> Nat] /\ stored' \in [Request -> Nat]
    <3>1. handler[h].req \in Request
      BY <1>6, Busy DEF Insert, At, Steps
    <3>2. /\ rows' = [rows EXCEPT ![handler[h].req] = rows[handler[h].req] + 1]
          /\ stored' = [stored EXCEPT ![handler[h].req] = stored[handler[h].req] + 1]
      BY <1>6 DEF Insert
    <3> QED
      BY <1>1, <3>1, <3>2 DEF ServerType
  <2> QED
    BY <1>1, <1>6, <2>1, <2>2, TypeParts DEF Insert, ServerType, WireType
<1>7. CASE InsertFails(h) \/ ReadFails(h)
  <2>1. handler[h].at \in Steps /\ FailSave(h)
    BY <1>7 DEF InsertFails, ReadFails, At, Steps
  <2>2. HT /\ RT
    BY <2>1, ReturnType, EmitType DEF FailSave, Kinds
  <2>3. key' \in [Request -> {"free", "pending", "completed"}]
    BY <1>1, <2>1 DEF FailSave, SetKey, ServerType
  <2> QED
    BY <1>1, <2>1, <2>2, <2>3, TypeParts DEF FailSave, ServerType, WireType
<1>8. CASE Complete(h)
  <2>1. HT
    BY <1>8, GotoType DEF Complete, At, Steps
  <2>2. key' \in [Request -> {"free", "pending", "completed"}]
    BY <1>1, <1>8 DEF Complete, SetKey, ServerType
  <2> QED
    BY <1>1, <1>8, <2>1, <2>2, TypeParts DEF Complete, ServerType, WireType
<1>9. CASE Tell(h)
  <2>1. handler[h].at \in Steps /\ Goto(h, "ack") /\ Emit(h, "echo")
    BY <1>9 DEF Tell, At, Steps
  <2>2. HT /\ RT
    BY <2>1, GotoType, EmitType DEF Steps, Kinds
  <2>3. told' \in [Request -> Nat]
    <3>1. handler[h].req \in Request
      BY <2>1, Busy
    <3>2. told' = [told EXCEPT ![handler[h].req] = told[handler[h].req] + 1]
      BY <1>9 DEF Tell
    <3> QED
      BY <1>1, <3>1, <3>2 DEF ServerType
  <2> QED
    BY <1>1, <1>9, <2>2, <2>3, TypeParts DEF Tell, ServerType, WireType
<1>10. CASE Ack(h)
  <2>1. HT /\ RT
    BY <1>10, ReturnType, EmitType DEF Ack, At, Steps, Kinds
  <2> QED
    BY <1>1, <1>10, <2>1, TypeParts DEF Ack, ServerType, WireType
<1>11. CASE Crash(h)
  <2>1. HT
    BY <1>11, ReturnType DEF Crash
  <2> QED
    BY <1>1, <1>11, <2>1, TypeParts DEF Crash, ServerType, WireType
<1> QED
  BY <1>2, <1>3, <1>4, <1>5, <1>6, <1>7, <1>8, <1>9, <1>10, <1>11 DEF Handle

-----------------------------------------------------------------------------
\* A timeout is stopped only while it runs.
LEMMA CancelType ==
  ASSUME TimerType, NEW rs, CancelTimeout(rs)
  PROVE  TimerType'
<1> USE SendAssumption DEF SendAssumption
<1>1. \A r \in Request : running'[r] =
          IF r \in rs \cap tracked THEN running[r] - 1 ELSE running[r]
  BY DEF CancelTimeout
<1>2. \A r \in Request : running'[r] \in 0 .. TimerLimit
  BY <1>1 DEF TimerType
<1>3. running' \in [Request -> 0 .. TimerLimit]
  BY <1>2 DEF CancelTimeout
<1>4. \A r \in tracked' : r \in Request /\ running'[r] > 0
  BY <1>1 DEF CancelTimeout, TimerType
<1> QED
  BY <1>3, <1>4 DEF TimerType

LEMMA ScheduleType ==
  ASSUME TimerType, NEW r \in Request, running[r] < TimerLimit, Schedule({r})
  PROVE  TimerType'
<1> USE SendAssumption DEF SendAssumption
<1>1. \A q \in Request : running'[q] = IF q = r THEN running[q] + 1 ELSE running[q]
  BY DEF Schedule
<1>2. \A q \in Request : running'[q] \in 0 .. TimerLimit
  BY <1>1 DEF TimerType
<1>3. running' \in [Request -> 0 .. TimerLimit]
  BY <1>2 DEF Schedule
<1>4. \A q \in tracked' : q \in Request /\ running'[q] > 0
  BY <1>1 DEF Schedule, TimerType
<1> QED
  BY <1>3, <1>4 DEF TimerType

LEMMA ShowType ==
  ASSUME bubble \in Bubbles, NEW rs, NEW b \in {"failed", "sent"}, Show(rs, b)
  PROVE  bubble' \in Bubbles
BY DEF Bubbles, Show

LEMMA DrainType ==
  ASSUME TimerType, outbox \subseteq Request, NEW old \in SUBSET outbox, Drain(old)
  PROVE  TimerType'
<1> USE SendAssumption DEF SendAssumption
<1>1. CASE online
  <2>1. /\ \A r \in Request : running'[r] =
              CASE r \in outbox' -> running[r] + 1
                [] r \in old \cap tracked -> running[r] - 1
                [] OTHER -> running[r]
        /\ running' = [r \in Request |-> running'[r]]
        /\ tracked' = (tracked \ old) \cup outbox'
        /\ outbox' = outbox \ old
        /\ \A r \in outbox' : running[r] < TimerLimit
    BY <1>1 DEF Drain
  <2>2. \A r \in Request : running'[r] \in 0 .. TimerLimit
    BY <2>1 DEF TimerType
  <2>3. \A r \in tracked' : r \in Request /\ running'[r] > 0
    BY <2>1 DEF TimerType
  <2> QED
    BY <2>1, <2>2, <2>3 DEF TimerType
<1>2. CASE ~online
  BY <1>2, CancelType DEF Drain
<1> QED
  BY <1>1, <1>2

\* The steps of the browser leave the server alone.
LEMMA ServerSame == ASSUME ServerType, UNCHANGED server PROVE ServerType'
BY DEF ServerType, server

LEMMA BrowseType ==
  ASSUME TypeOK, NEW r \in Request, Browse(r)
  PROVE  TypeOK'
<1> USE DEF BrowserType
<1>1. ServerType' /\ BrowserType /\ WireType
  <2>1. UNCHANGED server
    BY DEF Browse, Compose, SendFails, SendNow, SendLater, Saved, PendingTimeout
  <2> QED
    BY <2>1, TypeParts, ServerSame
<1>2. CASE Compose(r)
  <2>1. bubble' \in Bubbles /\ TimerType'
    BY <1>1, <1>2 DEF Compose, Bubbles, TimerType, timers
  <2> QED
    BY <1>1, <1>2, <2>1, TypeParts DEF Compose, WireType
<1>3. CASE SendFails(r)
  <2>1. bubble' \in Bubbles /\ TimerType'
    BY <1>1, <1>3, CancelType, ShowType DEF SendFails, FailPending
  <2> QED
    BY <1>1, <1>3, <2>1, TypeParts DEF SendFails, WireType
<1>4. CASE SendNow(r)
  <2>1. TimerType'
    BY <1>1, <1>4, ScheduleType DEF SendNow
  <2> QED
    BY <1>1, <1>4, <2>1, TypeParts DEF SendNow, WireType
<1>5. CASE SendLater(r)
  <2>1. TimerType'
    BY <1>1, <1>5 DEF SendLater, TimerType, timers
  <2> QED
    BY <1>1, <1>5, <2>1, TypeParts DEF SendLater, WireType
<1>6. CASE Saved(r)
  <2>1. bubble' \in Bubbles /\ TimerType'
    BY <1>1, <1>6, CancelType, ShowType DEF Saved, FailPending
  <2> QED
    BY <1>1, <1>6, <2>1, TypeParts DEF Saved, WireType
<1>7. CASE PendingTimeout(r)
  <2>1. TimerType'
    <3>1. running' = [running EXCEPT ![r] = running[r] - 1] /\ tracked' = tracked \ {r}
      BY <1>7 DEF PendingTimeout
    <3>2. running[r] - 1 \in 0 .. TimerLimit
      BY <1>1, <1>7, SendAssumption DEF PendingTimeout, TimerType, SendAssumption
    <3> QED
      BY <1>1, <3>1, <3>2 DEF TimerType
  <2>2. bubble' \in Bubbles
    BY <1>1, <1>7, ShowType DEF PendingTimeout
  <2> QED
    BY <1>1, <1>7, <2>1, <2>2, TypeParts DEF PendingTimeout, WireType
<1> QED
  BY <1>2, <1>3, <1>4, <1>5, <1>6, <1>7 DEF Browse

\* The steps of the page that concern no single request.
PageStep ==
    \/ \E old \in SUBSET outbox : Drain(old) \/ Open(old)
    \/ \E m \in reply : Receive(m)
    \/ \E rs \in SUBSET Request : TakeRead(rs)
    \/ Disconnect \/ Connect \/ Close

LEMMA PageType ==
  ASSUME TypeOK, PageStep
  PROVE  TypeOK'
<1> USE DEF BrowserType
<1>1. ServerType' /\ BrowserType /\ WireType
  <2>1. UNCHANGED server
    BY DEF PageStep, Drain, Open, Receive, TakeRead, Disconnect, Connect, Close
  <2> QED
    BY <2>1, TypeParts, ServerSame
<1>2. ASSUME NEW old \in SUBSET outbox, Drain(old) PROVE TypeOK'
  <2>1. TimerType'
    BY <1>1, <1>2, DrainType
  <2>2. bubble' \in Bubbles
    BY <1>1, <1>2, ShowType DEF Drain
  <2>3. outbox' \subseteq Request /\ expired' \subseteq Request /\ WireType'
    BY <1>1, <1>2 DEF Drain, Prune, WireType
  <2> QED
    BY <1>1, <1>2, <2>1, <2>2, <2>3, TypeParts DEF Drain
<1>3. ASSUME NEW old \in SUBSET outbox, Open(old) PROVE TypeOK'
  <2>1. TimerType'
    BY <1>1, <1>3 DEF Open, TimerType, timers
  <2> QED
    BY <1>1, <1>3, <2>1, TypeParts DEF Open, Prune, WireType
<1>4. ASSUME NEW m \in reply, Receive(m) PROVE TypeOK'
  <2>1. TimerType' /\ bubble' \in Bubbles
    <3>1. CASE TakeSent(m)
      <4>1. TimerType'
        BY <1>1, <3>1, CancelType DEF TakeSent, TimerType, timers
      <4> QED
        BY <1>1, <3>1, <4>1, ShowType DEF TakeSent
    <3>2. CASE TakeEcho(m)
      <4>1. CASE UNCHANGED <<timers, bubble>>
        BY <1>1, <4>1 DEF TimerType, timers
      <4> QED
        BY <1>1, <3>2, <4>1, CancelType, ShowType DEF TakeEcho
    <3>3. CASE TakeError(m)
      BY <1>1, <3>3 DEF TakeError, TimerType, timers
    <3> QED
      BY <1>4, <3>1, <3>2, <3>3 DEF Receive
  <2>2. outbox' \subseteq Request
    BY <1>1, <1>4 DEF Receive, TakeSent, TakeEcho, TakeError
  <2> QED
    BY <1>1, <1>4, <2>1, <2>2, TypeParts DEF Receive, WireType
<1>5. CASE Disconnect
  <2>1. TimerType'
    BY <1>1, <1>5 DEF Disconnect, TimerType, timers
  <2> QED
    BY <1>1, <1>5, <2>1, TypeParts DEF Disconnect, WireType
<1>6. CASE Connect
  <2>1. TimerType'
    BY <1>1, <1>6 DEF Connect, TimerType, timers
  <2> QED
    BY <1>1, <1>6, <2>1, TypeParts DEF Connect, WireType
<1>7. CASE Close
  <2>1. TimerType'
    BY <1>7, SendAssumption DEF Close, TimerType, SendAssumption
  <2>2. bubble' \in Bubbles
    BY <1>7 DEF Close, Bubbles
  <2> QED
    BY <1>1, <1>7, <2>1, <2>2, TypeParts DEF Close, WireType
<1>8. ASSUME NEW rs \in SUBSET Request, TakeRead(rs) PROVE TypeOK'
  <2>1. TimerType' /\ bubble' \in Bubbles
    BY <1>1, <1>8 DEF TakeRead, TimerType, timers, Bubbles
  <2> QED
    BY <1>1, <1>8, <2>1, TypeParts, ServerSame DEF TakeRead, WireType
<1> QED
  BY <1>2, <1>3, <1>4, <1>5, <1>6, <1>7, <1>8 DEF PageStep

-----------------------------------------------------------------------------
\* What a step of a handler may do to the counters: it inserts, it announces,
\* or it leaves them alone.
LEMMA HandleCounts ==
  ASSUME NEW h \in Handler, Handle(h)
  PROVE  \/ Insert(h)
         \/ Tell(h)
         \/ UNCHANGED <<rows, stored, told>>
BY DEF Handle, Begin, Refuse, FindExisting, Reserve, InsertFails,
       ReadFails, FailSave, Complete, Ack, Crash

\* The step is on one handler; it enters the part after the insert by inserting.
LEMMA HandleMoves ==
  ASSUME TypeOK, NEW h \in Handler, Handle(h)
  PROVE  /\ \A g \in Handler \ {h} : handler'[g] = handler[g]
         /\ handler'[h].at \in {"read", "tell", "ack"} =>
              /\ handler'[h].req = handler[h].req
              /\ Insert(h) \/ handler[h].at \in {"read", "tell", "ack"}
BY DEF Handle, Begin, Refuse, FindExisting, Reserve, Insert, InsertFails,
       ReadFails, FailSave, Complete, Tell, Ack, Crash, At, Goto, Return, Idle, TypeOK

\* What an insert does to the request of its handler.
LEMMA InsertEffect ==
  ASSUME TypeOK, NEW h \in Handler, Insert(h)
  PROVE  /\ handler[h].req \in Request /\ rows[handler[h].req] = 0
         /\ rows' = [rows EXCEPT ![handler[h].req] = rows[handler[h].req] + 1]
         /\ stored' = [stored EXCEPT ![handler[h].req] = stored[handler[h].req] + 1]
         /\ told' = told /\ reply' = reply
<1>1. handler[h].req \in Request
  BY Busy DEF Insert, At, Steps
<1> QED
  BY <1>1 DEF Insert

\* The history of commits only grows.
LEMMA StoredGrows ==
  ASSUME TypeOK, NEW h \in Handler, Handle(h)
  PROVE  \A r \in Request : stored'[r] >= stored[r]
<1>1. CASE Insert(h)
  BY <1>1, InsertEffect DEF TypeOK
<1>2. CASE ~Insert(h)
  BY <1>2, HandleCounts DEF TypeOK, Tell
<1> QED
  BY <1>1, <1>2

\* A confirmation comes from a handler that has found the row or committed it.
LEMMA HandleConfirms ==
  ASSUME SendInv, NEW h \in Handler, Handle(h),
         NEW m \in reply', m \notin reply, m.kind \in {"sent", "echo"}
  PROVE  stored[m.req] > 0 /\ m.req \in Request
<1> DEFINE r == handler[h].req
<1>1. (FindExisting(h) /\ rows[r] > 0 /\ Emit(h, "sent")) \/ Tell(h) \/ Ack(h)
  BY DEF Handle, Begin, Refuse, FindExisting, Reserve, Insert, InsertFails,
         ReadFails, FailSave, Complete, Crash, Emit, Answer
<1>2. m.req = r
  BY <1>1 DEF Tell, Ack, Emit, Answer
<1>3. handler[h].at \in Steps
  BY <1>1 DEF FindExisting, Tell, Ack, At, Steps
<1>4. r \in Request
  BY <1>3, Busy DEF SendInv
<1>5. CASE rows[r] > 0
  BY <1>2, <1>4, <1>5 DEF SendInv, RowsStored, TypeOK
<1>6. CASE Tell(h) \/ Ack(h)
  BY <1>2, <1>4, <1>6 DEF SendInv, Committed, Tell, Ack, At
<1> QED
  BY <1>1, <1>5, <1>6

LEMMA HandleSafe ==
  ASSUME SendInv, NEW h \in Handler, Handle(h)
  PROVE  OneRow' /\ RowsStored' /\ Committed' /\ SentIsStored'
<1> USE DEF SendInv
<1>1. OneRow' /\ RowsStored'
  <2>1. CASE Insert(h)
    BY <2>1, InsertEffect DEF OneRow, RowsStored, TypeOK
  <2>2. CASE ~Insert(h)
    BY <2>2, HandleCounts DEF OneRow, RowsStored, Tell
  <2> QED
    BY <2>1, <2>2
<1>2. Committed'
  <2> SUFFICES ASSUME NEW g \in Handler, handler'[g].at \in {"read", "tell", "ack"}
               PROVE  stored'[handler'[g].req] > 0
    BY DEF Committed
  <2>1. CASE g # h
    <3>1. handler'[g] = handler[g] /\ handler[g].req \in Request
      BY <2>1, HandleMoves, Busy DEF Steps
    <3> QED
      BY <3>1, StoredGrows, HandleType DEF Committed, TypeOK
  <2>2. CASE g = h /\ Insert(h)
    BY <2>2, HandleMoves, InsertEffect DEF TypeOK
  <2>3. CASE g = h /\ ~Insert(h)
    <3>1. handler'[h].req = handler[h].req /\ handler[h].at \in {"read", "tell", "ack"}
      BY <2>3, HandleMoves
    <3>2. handler[h].req \in Request
      BY <3>1, Busy DEF Steps
    <3> QED
      BY <2>3, <3>1, <3>2, StoredGrows, HandleType DEF Committed, TypeOK
  <2> QED
    BY <2>1, <2>2, <2>3
<1>3. SentIsStored'
  <2> SUFFICES ASSUME NEW r \in Request,
                      \/ bubble'[r] = "sent"
                      \/ \E m \in reply' : m.req = r /\ m.kind \in {"sent", "echo"}
               PROVE  stored'[r] > 0
    BY DEF SentIsStored
  <2>1. bubble' = bubble
    BY DEF Handle, Begin, Refuse, FindExisting, Reserve, Insert, InsertFails,
           ReadFails, FailSave, Complete, Tell, Ack, Crash, browser
  <2>2. stored[r] > 0
    <3>1. CASE bubble'[r] = "sent"
      BY <2>1, <3>1 DEF SentIsStored
    <3>2. ASSUME NEW m \in reply', m.req = r, m.kind \in {"sent", "echo"}
          PROVE  stored[r] > 0
      <4>1. CASE m \in reply
        BY <3>2, <4>1 DEF SentIsStored
      <4> QED
        BY <3>2, <4>1, HandleConfirms
    <3> QED
      BY <3>1, <3>2
  <2> QED
    BY <2>2, StoredGrows, HandleType DEF TypeOK
<1> QED
  BY <1>1, <1>2, <1>3

LEMMA TellingFinite == \A r : IsFiniteSet(Telling(r)) /\ Cardinality(Telling(r)) \in Nat
<1> SUFFICES ASSUME NEW r PROVE IsFiniteSet(Telling(r)) /\ Cardinality(Telling(r)) \in Nat
  OBVIOUS
<1>1. Telling(r) \in SUBSET Handler
  BY DEF Telling
<1> QED
  BY <1>1, SendAssumption, FS_Subset, FS_CardinalityType DEF SendAssumption

\* An insert adds to the announcements that are owed, Tell pays one, and
\* every other step forgives some or none.
LEMMA HandleOwed ==
  ASSUME SendInv, NEW h \in Handler, Handle(h)
  PROVE  Owed'
<1> SUFFICES ASSUME NEW r \in Request
             PROVE  told'[r] + Cardinality(Telling(r)') <= stored'[r]
  BY DEF Owed
<1> USE DEF SendInv
<1>1. /\ IsFiniteSet(Telling(r)) /\ Cardinality(Telling(r)) \in Nat
      /\ told[r] + Cardinality(Telling(r)) <= stored[r]
      /\ told[r] \in Nat /\ stored[r] \in Nat
  BY TellingFinite DEF Owed, TypeOK
<1>2. CASE Insert(h)
  <2>1. told'[r] = told[r]
    BY <1>2, InsertEffect
  <2>2. CASE r = handler[h].req
    <3>1. Telling(r)' = Telling(r) \cup {h}
      BY <1>2, <2>2 DEF Insert, At, Goto, Telling, TypeOK
    <3>2. Cardinality(Telling(r)') \in {Cardinality(Telling(r)), Cardinality(Telling(r)) + 1}
      BY <1>1, <3>1, FS_AddElement
    <3>3. stored'[r] = stored[r] + 1
      BY <1>2, <2>2, InsertEffect DEF TypeOK
    <3>4. Cardinality(Telling(r)') \in Nat
      BY <1>1, <3>1, FS_AddElement, FS_CardinalityType
    <3> QED
      BY <1>1, <2>1, <3>2, <3>3, <3>4
  <2>3. CASE r # handler[h].req
    <3>1. Telling(r)' = Telling(r)
      BY <1>2, <2>3 DEF Insert, At, Goto, Telling, TypeOK
    <3>2. stored'[r] = stored[r]
      BY <1>2, <2>3, InsertEffect DEF TypeOK
    <3> QED
      BY <1>1, <2>1, <3>1, <3>2
  <2> QED
    BY <2>2, <2>3
<1>3. CASE Tell(h)
  <2>1. stored'[r] = stored[r]
    BY <1>3 DEF Tell
  <2>2. CASE r = handler[h].req
    <3>1. h \in Telling(r)
      BY <1>3, <2>2 DEF Tell, At, Telling
    <3>2. Telling(r)' = Telling(r) \ {h}
      BY <1>3, <2>2 DEF Tell, At, Goto, Telling, TypeOK
    <3>3. Cardinality(Telling(r)') = Cardinality(Telling(r)) - 1
      BY <1>1, <3>1, <3>2, FS_RemoveElement
    <3>4. told'[r] = told[r] + 1
      BY <1>3, <2>2 DEF Tell, TypeOK
    <3> QED
      BY <1>1, <2>1, <3>3, <3>4
  <2>3. CASE r # handler[h].req
    <3>1. Telling(r)' = Telling(r)
      BY <1>3, <2>3 DEF Tell, At, Goto, Telling, TypeOK
    <3>2. told'[r] = told[r]
      BY <1>3, <2>3 DEF Tell, TypeOK
    <3> QED
      BY <1>1, <2>1, <3>1, <3>2
  <2> QED
    BY <2>2, <2>3
<1>4. CASE ~Insert(h) /\ ~Tell(h)
  <2>1. told'[r] = told[r] /\ stored'[r] = stored[r]
    BY <1>4, HandleCounts
  <2>2. Telling(r)' \in SUBSET Telling(r)
    BY <1>4 DEF Handle, Begin, Refuse, FindExisting, Reserve, InsertFails, ReadFails,
           FailSave, Complete, Ack, Crash, At, Goto, Return, Idle, Telling, TypeOK
  <2>3. Cardinality(Telling(r)') <= Cardinality(Telling(r))
        /\ Cardinality(Telling(r)') \in Nat
    BY <1>1, <2>2, FS_Subset, FS_CardinalityType
  <2> QED
    BY <1>1, <2>1, <2>3
<1> QED
  BY <1>2, <1>3, <1>4

\* The reservation expires, or the message is deleted for everybody.
LEMMA FaultSafe ==
  ASSUME SendInv, NEW r \in Request, ExpireKey(r) \/ Delete(r)
  PROVE  SendInv'
<1> USE DEF SendInv
<1>1. /\ rows' \in [Request -> Nat] /\ \A q \in Request : rows'[q] <= rows[q]
      /\ key' \in [Request -> {"free", "pending", "completed"}]
      /\ UNCHANGED <<handler, stored, told, browser, wire, reply>>
  BY DEF ExpireKey, Delete, TypeOK
<1>2. TypeOK'
  BY <1>1 DEF TypeOK, browser, timers
<1>3. OneRow' /\ RowsStored'
  BY <1>1 DEF OneRow, RowsStored, TypeOK
<1>4. Committed' /\ SentIsStored'
  BY <1>1 DEF Committed, SentIsStored, browser
<1>5. Owed'
  BY <1>1 DEF Owed, Telling
<1> QED
  BY <1>2, <1>3, <1>4, <1>5

\* A page shows a message as sent on a confirmation, and makes no confirmation.
LEMMA BrowserSafe ==
  ASSUME SendInv, PageStep \/ \E r \in Request : Browse(r)
  PROVE  SendInv'
<1> USE DEF SendInv
<1>1. TypeOK'
  BY PageType, BrowseType
<1>2. UNCHANGED server
  BY DEF PageStep, Drain, Open, Receive, TakeRead, Disconnect, Connect, Close,
         Browse, Compose, SendFails, SendNow, SendLater, Saved, PendingTimeout
<1>3. OneRow' /\ RowsStored' /\ Committed' /\ Owed'
  BY <1>2 DEF server, OneRow, RowsStored, Committed, Owed, Telling
<1>4. reply' \subseteq reply
  BY DEF PageStep, Drain, Open, Receive, TakeRead, Disconnect, Connect, Close,
         Browse, Compose, SendFails, SendNow, SendLater, Saved, PendingTimeout
<1>5. ASSUME NEW r \in Request, bubble'[r] = "sent"
      PROVE  bubble[r] = "sent" \/ \E m \in reply : m.req = r /\ m.kind \in {"sent", "echo"}
  <2>1. CASE PageStep
    BY <1>5, <2>1 DEF PageStep, Drain, Open, Receive, TakeRead, Disconnect, Connect, Close,
           TakeSent, TakeEcho, TakeError, Show, TypeOK
  <2>2. CASE \E q \in Request : Browse(q)
    BY <1>5, <2>2 DEF Browse, Compose, SendFails, SendNow, SendLater, Saved,
           PendingTimeout, FailPending, Show, TypeOK
  <2> QED
    BY <2>1, <2>2
<1>6. SentIsStored'
  BY <1>2, <1>4, <1>5 DEF SentIsStored, server
<1> QED
  BY <1>1, <1>3, <1>6

LEMMA SendStep == SendInv /\ [Next]_vars => SendInv'
<1> SUFFICES ASSUME SendInv, [Next]_vars PROVE SendInv'
  OBVIOUS
<1>1. ASSUME NEW h \in Handler, Handle(h) PROVE SendInv'
  BY <1>1, HandleType, HandleSafe, HandleOwed DEF SendInv
<1>2. ASSUME NEW r \in Request, ExpireKey(r) \/ Delete(r) PROVE SendInv'
  BY <1>2, FaultSafe
<1>3. CASE PageStep \/ \E r \in Request : Browse(r)
  BY <1>3, BrowserSafe
<1>4. CASE UNCHANGED vars
  <2>1. TypeOK'
    BY <1>4 DEF vars, server, browser, timers, SendInv, TypeOK
  <2>2. OneRow' /\ RowsStored' /\ Committed' /\ Owed' /\ SentIsStored'
    BY <1>4 DEF vars, server, browser, SendInv, OneRow, RowsStored, Committed, Owed,
           Telling, SentIsStored
  <2> QED
    BY <2>1, <2>2 DEF SendInv
<1> QED
  BY <1>1, <1>2, <1>3, <1>4 DEF Next, PageStep

-----------------------------------------------------------------------------
\* The inductive invariant holds of every behaviour.
THEOREM SendInvariant == Spec => []SendInv
BY SendInit, SendStep, PTL DEF Spec

\* The variables keep their types; in particular no pending timeout is stopped
\* that does not run.
THEOREM SendTypeCorrect == Spec => []TypeOK
<1>1. SendInv => TypeOK
  BY DEF SendInv
<1> QED
  BY <1>1, SendInvariant, PTL

\* The unique index alone keeps a request at one row, whatever becomes of its
\* reservation.
THEOREM RowOnce == Spec => []OneRow
<1>1. SendInv => OneRow
  BY DEF SendInv
<1> QED
  BY <1>1, SendInvariant, PTL

\* The page confirms only what was committed: the answers it takes come from a
\* handler that has found the row or has inserted it.
THEOREM ConfirmedIsStored == Spec => []SentIsStored
<1>1. SendInv => SentIsStored
  BY DEF SendInv
<1> QED
  BY <1>1, SendInvariant, PTL

\* No retry, race of copies or crash makes the receiver be told more often
\* than the message was committed.
THEOREM AnnouncedOnce == Spec => []ToldOnce
<1>1. SendInv => ToldOnce
  BY TellingFinite DEF SendInv, Owed, ToldOnce, TypeOK
<1> QED
  BY <1>1, SendInvariant, PTL

\* An entry leaves the outbox committed or expired: the confirmation that
\* removes it says the truth.
THEOREM QueuedIsKept == Spec => OutboxKeeps
<1>1. SendInv /\ [Next]_vars =>
        [\A r \in outbox \ outbox' : stored[r] > 0 \/ r \in expired']_vars
  <2> SUFFICES ASSUME SendInv, Next, NEW r \in outbox \ outbox'
               PROVE  stored[r] > 0 \/ r \in expired'
    BY DEF vars, browser
  <2>1. ASSUME NEW old \in SUBSET outbox, Drain(old) \/ Open(old)
        PROVE  r \in expired'
    BY <2>1 DEF Drain, Open, Prune
  <2>2. ASSUME NEW m \in reply, Receive(m)
        PROVE  stored[r] > 0
    <3>1. m.kind = "sent" /\ r = m.req
      BY <2>2 DEF Receive, TakeSent, TakeEcho, TakeError
    <3> QED
      BY <3>1 DEF SendInv, SentIsStored, TypeOK
  <2>3. ASSUME NEW h \in Handler, Handle(h) PROVE FALSE
    BY <2>3 DEF Handle, Begin, Refuse, FindExisting, Reserve, Insert, InsertFails,
           ReadFails, FailSave, Complete, Tell, Ack, Crash, browser
  <2>4. ASSUME NEW q \in Request, ExpireKey(q) \/ Delete(q) \/ Browse(q) PROVE FALSE
    BY <2>4 DEF ExpireKey, Delete, Browse, Compose, SendFails, SendNow, SendLater,
           Saved, PendingTimeout, browser
  <2>5. CASE Disconnect \/ Connect \/ Close \/ \E rs \in SUBSET Request : TakeRead(rs)
    BY <2>5 DEF Disconnect, Connect, Close, TakeRead
  <2> QED
    BY <2>1, <2>2, <2>3, <2>4, <2>5 DEF Next
<1> QED
  BY <1>1, SendInvariant, PTL DEF Spec, OutboxKeeps

(* Show, Compose and TakeRead write the bubbles of an open page, and all pass *)
(* over a confirmed one: late timeouts, late entries, echoes and marks of     *)
(* reading leave it as it is.                                                 *)
THEOREM ConfirmedStays == Spec => SentStays
<1>1. ASSUME TypeOK, [Next]_vars, NEW r \in Request, bubble[r] = "sent"
      PROVE  bubble'[r] \in {"sent", "gone"}
  <2>1. bubble \in Bubbles /\ ~Unconfirmed(r)
    BY <1>1 DEF TypeOK, Bubbles, Unconfirmed
  <2>2. ASSUME NEW rs, NEW b, Show(rs, b) PROVE bubble'[r] = "sent"
    BY <1>1, <2>1, <2>2 DEF Show
  <2>3. CASE UNCHANGED bubble
    BY <1>1, <2>3
  <2>4. ASSUME NEW h \in Handler, Handle(h) PROVE UNCHANGED bubble
    BY <2>4 DEF Handle, Begin, Refuse, FindExisting, Reserve, Insert, InsertFails,
                ReadFails, FailSave, Complete, Tell, Ack, Crash, browser
  <2>5. ASSUME NEW q \in Request, Compose(q) PROVE bubble'[r] = "sent"
    BY <1>1, <2>1, <2>5 DEF Compose, Retryable, Bubbles
  <2>6. ASSUME NEW q \in Request, SendFails(q) \/ Saved(q) \/ PendingTimeout(q) PROVE bubble'[r] = "sent"
    BY <2>2, <2>6 DEF SendFails, Saved, PendingTimeout, FailPending
  <2>7. ASSUME NEW q \in Request, ExpireKey(q) \/ Delete(q) \/ SendNow(q) \/ SendLater(q)
        PROVE  UNCHANGED bubble
    BY <2>7 DEF ExpireKey, Delete, SendNow, SendLater, browser
  <2>8. ASSUME NEW old \in SUBSET outbox, Drain(old) PROVE bubble'[r] = "sent"
    BY <2>2, <2>8 DEF Drain
  <2>9. ASSUME NEW m \in reply, Receive(m) PROVE bubble'[r] = "sent"
    BY <1>1, <2>2, <2>9 DEF Receive, TakeSent, TakeEcho, TakeError
  <2>10. CASE Close
    BY <1>1, <2>1, <2>10 DEF Close
  <2>11. ASSUME NEW old \in SUBSET outbox, Open(old) PROVE UNCHANGED bubble
    BY <2>11 DEF Open
  <2>12. ASSUME NEW rs \in SUBSET Request, TakeRead(rs) PROVE bubble'[r] = "sent"
    BY <1>1, <2>1, <2>12 DEF TakeRead
  <2>13. CASE Disconnect \/ Connect \/ UNCHANGED vars
    BY <2>3, <2>13 DEF Disconnect, Connect, vars, browser
  <2> QED
    BY <1>1, <2>3, <2>4, <2>5, <2>6, <2>7, <2>8, <2>9, <2>10, <2>11, <2>12, <2>13 DEF Next, Browse
<1>2. TypeOK /\ [Next]_vars => [\A r \in Request : bubble[r] = "sent" => bubble'[r] \in {"sent", "gone"}]_vars
  BY <1>1
<1> QED
  BY <1>2, SendTypeCorrect, PTL DEF Spec, SentStays

-----------------------------------------------------------------------------
(***************************************************************************)
(* The refinement of Delivery.  Most steps are none of its business:       *)
(* neither the rows nor the outbox nor what is confirmed changes.  The     *)
(* others are one of its actions, by the invariant above (an announcement  *)
(* is owed, a confirmation is true) and because a closed page is quiet.    *)
(***************************************************************************)
Confirmed == {r \in Request : bubble[r] = "sent"}

\* Nothing is sent, saved or received without a page.
ClosedIsQuiet == ~page => ~online /\ sending = {} /\ saving = {}

LEMMA QuietStep == ClosedIsQuiet /\ [Next]_vars => ClosedIsQuiet'
<1> SUFFICES ASSUME ClosedIsQuiet, [Next]_vars PROVE ClosedIsQuiet'
  OBVIOUS
<1>1. ASSUME NEW h \in Handler, Handle(h) PROVE UNCHANGED browser
  BY <1>1 DEF Handle, Begin, Refuse, FindExisting, Reserve, Insert, InsertFails,
              ReadFails, FailSave, Complete, Tell, Ack, Crash
<1>2. ASSUME NEW r \in Request, ExpireKey(r) \/ Delete(r) PROVE UNCHANGED browser
  BY <1>2 DEF ExpireKey, Delete
<1>3. CASE UNCHANGED browser \/ UNCHANGED vars
  BY <1>3 DEF browser, vars, ClosedIsQuiet
<1>4. ASSUME NEW r \in Request, Browse(r) PROVE ClosedIsQuiet'
  BY <1>4 DEF Browse, Compose, SendFails, SendNow, SendLater, Saved, PendingTimeout,
              ClosedIsQuiet
<1>5. CASE PageStep
  BY <1>5 DEF PageStep, Drain, Open, Receive, TakeRead, Disconnect, Connect, Close, ClosedIsQuiet
<1> QED
  BY <1>1, <1>2, <1>3, <1>4, <1>5 DEF Next, PageStep

\* What Delivery does not see of a step.
LEMMA Unseen ==
  ASSUME UNCHANGED <<rows, stored, told, outbox, expired, page, Confirmed>>
  PROVE  UNCHANGED Promise!deliveryVars
BY DEF Promise!deliveryVars, Promise!chat, Promise!sender, Confirmed

\* A bubble that does not become a confirmed one was none.
LEMMA ShowKeeps ==
  ASSUME TypeOK, NEW rs, NEW b, b # "sent", Show(rs, b)
  PROVE  Confirmed' = Confirmed
BY DEF Show, Unconfirmed, Confirmed, TypeOK

\* To show one message as sent confirms that message or, if it is confirmed or
\* unknown to the page, none.
LEMMA ShowConfirms ==
  ASSUME TypeOK, NEW r \in Request, Show({r}, "sent")
  PROVE  Confirmed' \in {Confirmed, Confirmed \cup {r}}
<1>1. CASE Unconfirmed(r)
  BY <1>1 DEF Show, Confirmed, TypeOK
<1>2. CASE ~Unconfirmed(r)
  BY <1>2 DEF Show, Confirmed, TypeOK
<1> QED
  BY <1>1, <1>2

LEMMA HandleDelivers ==
  ASSUME SendInv, NEW h \in Handler, Handle(h)
  PROVE  [Promise!DeliveryNext]_Promise!deliveryVars
<1>1. UNCHANGED <<outbox, expired, page, bubble>>
  BY DEF Handle, Begin, Refuse, FindExisting, Reserve, Insert, InsertFails,
         ReadFails, FailSave, Complete, Tell, Ack, Crash, browser
<1>2. UNCHANGED Confirmed
  BY <1>1 DEF Confirmed
<1>3. CASE Insert(h)
  <2>1. PICK r \in Request : r = handler[h].req /\ rows[r] = 0
    BY <1>3, InsertEffect DEF SendInv
  <2>2. rows' = [rows EXCEPT ![r] = rows[r] + 1]
    BY <1>3, <2>1, InsertEffect DEF SendInv
  <2>3. {q \in Request : rows'[q] > 0} = {q \in Request : rows[q] > 0} \cup {r}
    BY <2>1, <2>2 DEF SendInv, TypeOK
  <2>4. stored' = [stored EXCEPT ![r] = stored[r] + 1] /\ told' = told
    BY <1>3, <2>1, InsertEffect DEF SendInv
  <2>5. Promise!Deliver(r)
    BY <1>1, <1>2, <2>1, <2>3, <2>4 DEF Promise!Deliver, Promise!sender, Confirmed
  <2> QED
    BY <2>1, <2>5 DEF Promise!DeliveryNext
<1>4. CASE Tell(h)
  <2>1. PICK r \in Request : r = handler[h].req /\ h \in Telling(r)
    BY <1>4, Busy DEF Tell, At, Telling, Steps, SendInv
  <2>2. Cardinality(Telling(r)) # 0
    BY <2>1, TellingFinite, FS_EmptySet
  <2>3. told[r] < stored[r]
    BY <2>1, <2>2, TellingFinite DEF SendInv, Owed, TypeOK
  <2>4. rows' = rows /\ stored' = stored /\ told' = [told EXCEPT ![r] = told[r] + 1]
    BY <1>4, <2>1 DEF Tell
  <2>5. Promise!Announce(r)
    BY <1>1, <1>2, <2>3, <2>4 DEF Promise!Announce, Promise!sender, Confirmed
  <2> QED
    BY <2>1, <2>5 DEF Promise!DeliveryNext
<1>5. CASE UNCHANGED <<rows, stored, told>>
  BY <1>1, <1>2, <1>5, Unseen
<1> QED
  BY <1>3, <1>4, <1>5, HandleCounts

LEMMA FaultDelivers ==
  ASSUME SendInv, NEW r \in Request, ExpireKey(r) \/ Delete(r)
  PROVE  [Promise!DeliveryNext]_Promise!deliveryVars
<1>1. UNCHANGED <<stored, told, outbox, expired, page, bubble>>
  BY DEF ExpireKey, Delete, browser
<1>2. UNCHANGED Confirmed
  BY <1>1 DEF Confirmed
<1>3. CASE ExpireKey(r)
  BY <1>1, <1>2, <1>3, Unseen DEF ExpireKey
<1>4. CASE Delete(r)
  <2>1. r \in {q \in Request : rows[q] > 0}
    BY <1>4 DEF Delete
  <2>2. {q \in Request : rows'[q] > 0} = {q \in Request : rows[q] > 0} \ {r}
    BY <1>4 DEF Delete, SendInv, TypeOK
  <2>3. Promise!Withdraw(r)
    BY <1>1, <1>2, <2>1, <2>2 DEF Promise!Withdraw, Promise!sender, Confirmed
  <2> QED
    BY <2>3 DEF Promise!DeliveryNext
<1> QED
  BY <1>3, <1>4

\* Of what the user and the timers start, Delivery sees an entry that is saved.
LEMMA BrowseDelivers ==
  ASSUME SendInv, ClosedIsQuiet, NEW r \in Request, Browse(r)
  PROVE  [Promise!DeliveryNext]_Promise!deliveryVars
<1>1. UNCHANGED <<rows, stored, told, expired, page>>
  BY DEF Browse, Compose, SendFails, SendNow, SendLater, Saved, PendingTimeout, server
<1>2. UNCHANGED Confirmed
  <2>1. CASE Compose(r)
    BY <2>1 DEF Compose, Retryable, Confirmed, SendInv, TypeOK
  <2>2. CASE SendFails(r) \/ Saved(r) \/ PendingTimeout(r)
    BY <2>2, ShowKeeps DEF SendFails, Saved, PendingTimeout, FailPending, SendInv
  <2>3. CASE SendNow(r) \/ SendLater(r)
    BY <2>3 DEF SendNow, SendLater, Confirmed
  <2> QED
    BY <2>1, <2>2, <2>3 DEF Browse
<1>3. outbox' = outbox \/ (page /\ outbox' = outbox \cup {r})
  BY DEF Browse, Compose, SendFails, SendNow, SendLater, Saved, PendingTimeout,
         ClosedIsQuiet
<1>4. CASE outbox' = outbox
  BY <1>1, <1>2, <1>4, Unseen
<1>5. CASE page /\ outbox' = outbox \cup {r}
  <2>1. Promise!Keep(r)
    BY <1>1, <1>2, <1>5 DEF Promise!Keep, Promise!chat, Confirmed
  <2> QED
    BY <2>1 DEF Promise!DeliveryNext
<1> QED
  BY <1>3, <1>4, <1>5

LEMMA AnswerDelivers ==
  ASSUME SendInv, ClosedIsQuiet, NEW m \in reply, Receive(m)
  PROVE  [Promise!DeliveryNext]_Promise!deliveryVars
<1>1. UNCHANGED <<rows, stored, told, expired, page>> /\ page
  BY DEF Receive, server, ClosedIsQuiet, SendInv, TypeOK
<1>2. m.req \in Request
  BY DEF SendInv, TypeOK
<1>3. CASE UNCHANGED bubble /\ UNCHANGED outbox
  BY <1>1, <1>3, Unseen DEF Confirmed
<1>4. CASE m.kind \in {"sent", "echo"} /\ Show({m.req}, "sent")
  <2>1. stored[m.req] > 0
    BY <1>2, <1>4 DEF SendInv, SentIsStored
  <2>2. Confirmed' \in {Confirmed, Confirmed \cup {m.req}}
    BY <1>2, <1>4, ShowConfirms DEF SendInv
  <2>3. outbox' \in {outbox, outbox \ {m.req}}
    BY DEF Receive, TakeSent, TakeEcho, TakeError
  <2>4. Promise!Confirm(m.req)
    BY <1>1, <2>1, <2>2, <2>3 DEF Promise!Confirm, Promise!chat, Confirmed
  <2> QED
    BY <1>2, <2>4 DEF Promise!DeliveryNext
<1> QED
  BY <1>3, <1>4 DEF Receive, TakeSent, TakeEcho, TakeError

LEMMA PageDelivers ==
  ASSUME SendInv, ClosedIsQuiet, PageStep
  PROVE  [Promise!DeliveryNext]_Promise!deliveryVars
<1>1. UNCHANGED <<rows, stored, told>>
  BY DEF PageStep, Drain, Open, Receive, TakeRead, Disconnect, Connect, Close, server
<1>2. ASSUME NEW old \in SUBSET outbox, Drain(old)
      PROVE  Promise!DeliveryNext
  <2>1. Confirmed' = Confirmed
    BY <1>2, ShowKeeps DEF Drain, SendInv
  <2>2. Promise!GiveUp(old)
    BY <1>1, <1>2, <2>1
       DEF Drain, Prune, Promise!GiveUp, Promise!Lapse, Promise!chat, Confirmed
  <2> QED
    BY <2>2 DEF Promise!DeliveryNext
<1>3. ASSUME NEW old \in SUBSET outbox, Open(old)
      PROVE  Promise!DeliveryNext
  <2>1. Promise!Return(old)
    BY <1>1, <1>3 DEF Open, Prune, Promise!Return, Promise!Lapse, Promise!chat
  <2> QED
    BY <2>1 DEF Promise!DeliveryNext
<1>4. CASE Close
  <2>1. Confirmed' = {}
    BY <1>4 DEF Close, Confirmed
  <2>2. Promise!Leave
    BY <1>1, <1>4, <2>1 DEF Close, Promise!Leave, Promise!chat, Confirmed
  <2> QED
    BY <2>2 DEF Promise!DeliveryNext
<1>5. CASE Disconnect \/ Connect
  BY <1>1, <1>5, Unseen DEF Disconnect, Connect, Confirmed
<1>6. ASSUME NEW rs \in SUBSET Request, TakeRead(rs)
      PROVE  [Promise!DeliveryNext]_Promise!deliveryVars
  <2>1. Confirmed' = Confirmed
    BY <1>6 DEF TakeRead, Confirmed, SendInv, TypeOK
  <2> QED
    BY <1>1, <1>6, <2>1, Unseen DEF TakeRead
<1> QED
  BY <1>2, <1>3, <1>4, <1>5, <1>6, AnswerDelivers DEF PageStep

(* Every step of the handlers, the browser and the faults around them is a    *)
(* step of Delivery or none: what sending promises, for any number of         *)
(* messages, handlers and retries.                                            *)
THEOREM SendImplementsDelivery == Spec => ImplementsDelivery
<1>1. Init => Promise!DeliveryInit /\ ClosedIsQuiet
  BY DEF Init, ClosedIsQuiet, Promise!DeliveryInit
<1>2. ASSUME SendInv, ClosedIsQuiet, [Next]_vars
      PROVE  [Promise!DeliveryNext]_Promise!deliveryVars
  <2>1. CASE UNCHANGED vars
    BY <2>1, Unseen DEF vars, server, browser, Confirmed
  <2>2. CASE Next
    BY <1>2, <2>2, HandleDelivers, FaultDelivers, BrowseDelivers, PageDelivers
       DEF Next, PageStep
  <2> QED
    BY <1>2, <2>1, <2>2
<1>3. SendInv /\ ClosedIsQuiet /\ [Next]_vars => [Promise!DeliveryNext]_Promise!deliveryVars
  BY <1>2
<1>4. Spec => []ClosedIsQuiet
  BY <1>1, QuietStep, PTL DEF Spec
<1> QED
  BY <1>1, <1>3, <1>4, SendInvariant, PTL DEF Spec, ImplementsDelivery, Promise!DeliverySpec
=============================================================================
