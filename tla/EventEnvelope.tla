---------------------------- MODULE EventEnvelope ----------------------------
(***************************************************************************)
(* The server's event log of one chat: app/services/event_envelope.py.     *)
(*                                                                         *)
(* A socket handler first commits its own work (a message, an edit, a      *)
(* receipt), then calls emit_enveloped_socket_event once for every room    *)
(* that must hear of it.  The first of these calls allocates the next      *)
(* chat_pts and inserts the event into chat_update_events, in one          *)
(* transaction of its own; the following calls reuse the cached event_id   *)
(* and chat_pts.  Handlers of several requests run concurrently, so their  *)
(* steps interleave everywhere except while one of them holds the          *)
(* chat_event_state row that _next_chat_pts locked.                        *)
(*                                                                         *)
(* An element of Event is one logical emission (one event_id).  Chats are  *)
(* independent of one another and the module describes one of them.        *)
(***************************************************************************)
EXTENDS Naturals, FiniteSets

CONSTANTS
    Event,        \* emissions about the chat that may happen
    Client,       \* connected browsers; each has a personal room, user_<id>
    ChatRoom,     \* the room of the chat
    RoomsOf,      \* the rooms a handler emits an event to
    Persisted,    \* the events whose type is not in _NON_PERSISTED_CHAT_EVENTS
    FaultLimit    \* bound on the number of faults of each kind

Room == Client \cup {ChatRoom}

\* crash:    the worker process dies in the middle of a handler
\* noconn:   persistence fails before a chat_pts is allocated
\* rollback: persistence fails after the allocation (INSERT or COMMIT)
\* drop:     a client loses its connection
\* http:     a request of a client fails for good, after its retries
FaultKind == {"crash", "noconn", "rollback", "drop", "http"}

ASSUME RoomAssumption ==
    /\ ChatRoom \notin Client
    /\ RoomsOf \in [Event -> (SUBSET Room) \ {{}}]
    /\ Persisted \subseteq Event

ASSUME FaultAssumption == FaultLimit \in [FaultKind -> Nat]

VARIABLES
    lastPts,   \* chat_event_state.last_pts, 0 when there is no row
    rows,      \* chat_update_events: from chat_pts to event
    stage,     \* progress of the handler of each event
    pts,       \* the chat_pts its envelope carries, 0 for none
    todo,      \* rooms the handler has still to emit to
    faults     \* faults so far, by kind

serverVars == <<lastPts, rows, stage, pts, todo, faults>>

Stage == {"idle", "stored", "open", "ready", "done"}

ServerInit ==
    /\ lastPts = 0
    /\ rows = [p \in {} |-> ChatRoom]
    /\ stage = [e \in Event |-> "idle"]
    /\ pts = [e \in Event |-> 0]
    /\ todo = [e \in Event |-> {}]
    /\ faults = [k \in FaultKind |-> 0]

Fault(k) ==
    /\ faults[k] < FaultLimit[k]
    /\ faults' = [faults EXCEPT ![k] = @ + 1]

Move(e, s) == stage' = [stage EXCEPT ![e] = s]

\* The handler commits its own work and is about to emit.
Store(e) ==
    /\ stage[e] = "idle"
    /\ Move(e, "stored")
    /\ todo' = [todo EXCEPT ![e] = RoomsOf[e]]
    /\ UNCHANGED <<lastPts, rows, pts, faults>>

\* Broken: the upsert does not wait for the transaction that holds the row.
AllocateUnlocked(e) ==
    /\ stage[e] = "stored"
    /\ e \in Persisted
    /\ pts' = [pts EXCEPT ![e] = lastPts + 1]
    /\ Move(e, "open")
    /\ UNCHANGED <<lastPts, rows, todo, faults>>

\* Broken: the number is read before it is incremented.
AllocateStale(e) ==
    /\ stage[e] = "stored"
    /\ e \in Persisted
    /\ \A f \in Event : stage[f] # "open"
    /\ pts' = [pts EXCEPT ![e] = lastPts]
    /\ Move(e, "open")
    /\ UNCHANGED <<lastPts, rows, todo, faults>>

\* The upsert of _next_chat_pts: it takes the row of the chat, which every
\* other transaction waits for, and reads the incremented value back.
Allocate(e) ==
    /\ stage[e] = "stored"
    /\ e \in Persisted
    /\ \A f \in Event : stage[f] # "open"
    /\ pts' = [pts EXCEPT ![e] = lastPts + 1]
    /\ Move(e, "open")
    /\ UNCHANGED <<lastPts, rows, todo, faults>>

\* The insert into chat_update_events and the commit.
CommitEvent(e) ==
    /\ stage[e] = "open"
    /\ lastPts' = pts[e]
    /\ rows' = [p \in DOMAIN rows \cup {pts[e]} |->
                    IF p = pts[e] THEN e ELSE rows[p]]
    /\ Move(e, "ready")
    /\ UNCHANGED <<pts, todo, faults>>

\* Broken: the counter is committed on its own and survives the rollback.
RollbackRowOnly(e) ==
    /\ stage[e] = "open"
    /\ Fault("rollback")
    /\ lastPts' = pts[e]
    /\ Move(e, "ready")
    /\ UNCHANGED <<rows, pts, todo>>

\* The insert or the commit raises: the transaction is undone, but the local
\* variable chat_pts keeps the number it was given and goes into the envelope.
RollbackEvent(e) ==
    /\ stage[e] = "open"
    /\ Fault("rollback")
    /\ Move(e, "ready")
    /\ UNCHANGED <<lastPts, rows, pts, todo>>

\* An event type that is never persisted.
EmitUnpersisted(e) ==
    /\ stage[e] = "stored"
    /\ e \notin Persisted
    /\ Move(e, "ready")
    /\ UNCHANGED <<lastPts, rows, pts, todo, faults>>

\* No connection, or the upsert raises: chat_pts is still None.
PersistUnavailable(e) ==
    /\ stage[e] = "stored"
    /\ e \in Persisted
    /\ Fault("noconn")
    /\ Move(e, "ready")
    /\ UNCHANGED <<lastPts, rows, pts, todo>>

\* Broken: rooms are told before the transaction is committed.
EmitToRoomEarly(e, r) ==
    /\ stage[e] \in {"open", "ready"}
    /\ r \in todo[e]
    /\ todo' = [todo EXCEPT ![e] = @ \ {r}]
    /\ Move(e, IF todo[e] = {r} /\ stage[e] = "ready" THEN "done" ELSE stage[e])
    /\ UNCHANGED <<lastPts, rows, pts, faults>>

\* One call of raw_emit_func; the last one ends the handler.
EmitToRoom(e, r) ==
    /\ stage[e] = "ready"
    /\ r \in todo[e]
    /\ todo' = [todo EXCEPT ![e] = @ \ {r}]
    /\ Move(e, IF todo[e] = {r} THEN "done" ELSE "ready")
    /\ UNCHANGED <<lastPts, rows, pts, faults>>

\* The worker dies; PostgreSQL undoes an open transaction.
Crash(e) ==
    /\ stage[e] \in {"stored", "open", "ready"}
    /\ Fault("crash")
    /\ Move(e, "done")
    /\ todo' = [todo EXCEPT ![e] = {}]
    /\ pts' = [pts EXCEPT ![e] = IF stage[e] = "open" THEN 0 ELSE @]
    /\ UNCHANGED <<lastPts, rows>>

\* Everything the server does except handing an envelope to a room.
Persistence(e) ==
    \/ Store(e) \/ Allocate(e) \/ CommitEvent(e) \/ RollbackEvent(e)
    \/ EmitUnpersisted(e) \/ PersistUnavailable(e) \/ Crash(e)

ServerNext ==
    \E e \in Event : Persistence(e) \/ \E r \in Room : EmitToRoom(e, r)

ServerSpec == ServerInit /\ [][ServerNext]_serverVars

-----------------------------------------------------------------------------
ServerTypeOK ==
    /\ lastPts \in Nat
    /\ DOMAIN rows \subseteq Nat \ {0}
    /\ \A p \in DOMAIN rows : rows[p] \in Event
    /\ stage \in [Event -> Stage]
    /\ pts \in [Event -> Nat]
    /\ todo \in [Event -> SUBSET Room]
    /\ faults \in [FaultKind -> Nat]

\* The log has no holes and ends at last_pts: a reader that walks it from any
\* cursor meets every committed number once (get_chat_update_difference relies
\* on it: a client asks for chat_pts > cursor and trusts the answer).
LogGapFree == DOMAIN rows = 1 .. lastPts

\* The envelopes that may go out with a number the log does not hold them under.
Unlogged ==
    {e \in Event : /\ stage[e] \in {"ready", "done"} /\ pts[e] > 0
                   /\ ~(pts[e] \in DOMAIN rows /\ rows[pts[e]] = e)}

\* A client that is told of chat_pts n finds that event under n in the
\* difference, but for the numbers the log has taken back: there are no more of
\* them than transactions that failed after their allocation, whatever else
\* fails and whoever allocates meanwhile.
StampedIsLogged == Cardinality(Unlogged) <= faults["rollback"]

\* A committed row is never renumbered, replaced or removed, and last_pts only
\* grows: a cursor a client has stored stays meaningful.
LogAppendOnly ==
    [][ /\ lastPts' >= lastPts
        /\ \A p \in DOMAIN rows : p \in DOMAIN rows' /\ rows'[p] = rows[p]
      ]_<<lastPts, rows>>
=============================================================================
