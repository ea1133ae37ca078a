---------------------------- MODULE SendMessage ----------------------------
(***************************************************************************)
(* Sending a message, from the composer of a browser to the table of       *)
(* messages and back: handle_send_message_event of                         *)
(* app/sockets/message_handlers.py with the reservations of                *)
(* app/sockets/idempotency.py, and the browser's bubble, pending timeout   *)
(* and outbox.                                                             *)
(*                                                                         *)
(* A request is one message the user composed; every copy of it carries    *)
(* the same request_id.  The handlers of several copies run concurrently,  *)
(* a step for each statement on Redis or the database.  The outbox         *)
(* (IndexedDB) is all that outlives a page.                                *)
(***************************************************************************)
EXTENDS Naturals, FiniteSets

CONSTANTS
    Request,
    Handler,     \* the send_message handlers that may run at the same time
    None,        \* no request
    File,        \* requests that carry a file: their bubble can be retried
    StoreLimit,  \* bound on the commits of one request: no deletion after as many
    TimerLimit   \* bound on the pending timeouts of one request

ASSUME SendAssumption ==
    /\ None \notin Request /\ File \subseteq Request
    /\ StoreLimit \in Nat /\ TimerLimit \in Nat
    /\ IsFiniteSet(Handler)

VARIABLES
    rows,     \* rows of messages with this request_id
    key,      \* the reservation in Redis
    handler,  \* what each handler works at
    wire,     \* copies on their way to the server
    reply,    \* answers on their way to the browser
    outbox,   \* entries in IndexedDB
    page,     \* the chat page is open
    online,   \* its socket is connected
    bubble,   \* the message as the page shows it: "sent" has the row's id, any other
              \* still its client id; "read" is marked as read without an answer
    sending,  \* messages being encrypted, files being uploaded
    saving,   \* entries that enqueueOutbox is writing
    running,  \* pending timeouts that run for a request
    tracked,  \* requests whose last timeout pendingTimeouts still knows
    stored,   \* history: rows ever committed
    told,     \* history: times the receiver was sent the message
    expired   \* history: requests removed from the outbox for their age

server  == <<rows, key, handler, stored, told>>
timers  == <<running, tracked>>
browser == <<outbox, page, online, bubble, sending, saving, timers, expired>>
vars    == <<server, browser, wire, reply>>

Idle == [req |-> None, at |-> "idle"]
Answer(r, k) == [req |-> r, kind |-> k]

Init ==
    /\ rows = [r \in Request |-> 0]
    /\ key = [r \in Request |-> "free"]
    /\ handler = [h \in Handler |-> Idle]
    /\ wire = {} /\ reply = {}
    /\ outbox = {} /\ page = TRUE /\ online = FALSE
    /\ bubble = [r \in Request |-> "new"]
    /\ sending = {} /\ saving = {}
    /\ running = [r \in Request |-> 0] /\ tracked = {}
    /\ stored = [r \in Request |-> 0]
    /\ told = [r \in Request |-> 0]
    /\ expired = {}

-----------------------------------------------------------------------------
(***************************************************************************)
(* The server: one handler of a copy of a request.                         *)
(***************************************************************************)
At(h, step) == handler[h].at = step
Goto(h, step) == handler' = [handler EXCEPT ![h].at = step]
Return(h) == handler' = [handler EXCEPT ![h] = Idle]

\* What an open page misses while its socket is down it may be given later
\* from the event log, where errors are not kept.
Logged(k) == k \in {"sent", "echo"}
Emit(h, k) ==
    \/ page /\ (online \/ Logged(k)) /\ reply' = reply \cup {Answer(handler[h].req, k)}
    \/ ~online /\ UNCHANGED reply

Begin(h) ==
    /\ At(h, "idle")
    /\ \E r \in wire :
          /\ wire' = wire \ {r}
          /\ handler' = [handler EXCEPT ![h] = [req |-> r, at |-> "find"]]
    /\ UNCHANGED <<rows, key, stored, told, browser, reply>>

\* Payload, moderation, membership and blocks are checked before the lookup;
\* rate limits, encryption and the reach of Redis between it and the reservation.
\* Without a session or CSRF token there is no answer.
Refuse(h) ==
    /\ \/ At(h, "find") /\ (Emit(h, "refused") \/ UNCHANGED reply)
       \/ At(h, "reserve") /\ Emit(h, "refused")
    /\ Return(h)
    /\ UNCHANGED <<rows, key, stored, told, browser, wire>>

\* Broken: a retry of a stored message takes the ordinary way out.
FindExistingTells(h) ==
    /\ At(h, "find")
    /\ Goto(h, IF rows[handler[h].req] > 0 THEN "tell" ELSE "reserve")
    /\ UNCHANGED <<rows, key, stored, told, browser, wire, reply>>

FindExisting(h) ==
    /\ At(h, "find")
    /\ IF rows[handler[h].req] > 0
       THEN Emit(h, "sent") /\ Return(h)
       ELSE Goto(h, "reserve") /\ UNCHANGED reply
    /\ UNCHANGED <<rows, key, stored, told, browser, wire>>

\* Broken: whoever finds a reservation confirms the message.
ReserveConfirms(h) ==
    /\ At(h, "reserve")
    /\ LET r == handler[h].req IN
       IF key[r] = "free"
       THEN key' = [key EXCEPT ![r] = "pending"] /\ Goto(h, "insert") /\ UNCHANGED reply
       ELSE Emit(h, "sent") /\ Return(h) /\ UNCHANGED key
    /\ UNCHANGED <<rows, stored, told, browser, wire>>

\* Who finds a reservation answers with the error duplicate_request, of which
\* the page takes no notice: it is not kept in reply.
Reserve(h) ==
    /\ At(h, "reserve")
    /\ LET r == handler[h].req IN
       IF key[r] = "free"
       THEN key' = [key EXCEPT ![r] = "pending"] /\ Goto(h, "insert") /\ UNCHANGED reply
       ELSE Return(h) /\ UNCHANGED <<key, reply>>
    /\ UNCHANGED <<rows, stored, told, browser, wire>>

\* Without Redis the key stays until it expires.
SetKey(r, k) == key' \in {key, [key EXCEPT ![r] = k]}

\* The error path of _persist_send_flow.  The key is deleted whoever holds it.
FailSave(h) ==
    /\ SetKey(handler[h].req, "free")
    /\ Emit(h, "refused") /\ Return(h)
    /\ UNCHANGED <<rows, stored, told, browser, wire>>

\* Broken: without the unique index, the reservation alone keeps retries out.
InsertTwice(h) ==
    LET r == handler[h].req IN
    /\ At(h, "insert")
    /\ rows' = [rows EXCEPT ![r] = @ + 1]
    /\ stored' = [stored EXCEPT ![r] = @ + 1]
    /\ Goto(h, "read")
    /\ UNCHANGED <<key, told, browser, wire, reply>>

\* The transaction of the insert.  The unique index lets one of several
\* concurrent transactions with a request_id commit.
Insert(h) ==
    LET r == handler[h].req IN
    /\ At(h, "insert") /\ rows[r] = 0
    /\ rows' = [rows EXCEPT ![r] = @ + 1]
    /\ stored' = [stored EXCEPT ![r] = @ + 1]
    /\ Goto(h, "read")
    /\ UNCHANGED <<key, told, browser, wire, reply>>

\* The index refuses the row, or the database fails.
InsertFails(h) ==
    /\ At(h, "insert")
    /\ FailSave(h)

\* What is read after the commit, in the same try block.
ReadFails(h) == At(h, "read") /\ FailSave(h)

Complete(h) ==
    /\ At(h, "read")
    /\ SetKey(handler[h].req, "completed")
    /\ Goto(h, "tell")
    /\ UNCHANGED <<rows, stored, told, browser, wire, reply>>

\* receive_message to the receiver and to the sender's own room, then message_sent.
Tell(h) ==
    /\ At(h, "tell")
    /\ told' = [told EXCEPT ![handler[h].req] = @ + 1]
    /\ Emit(h, "echo") /\ Goto(h, "ack")
    /\ UNCHANGED <<rows, key, stored, browser, wire>>

Ack(h) ==
    /\ At(h, "ack")
    /\ Emit(h, "sent") /\ Return(h)
    /\ UNCHANGED <<rows, key, stored, told, browser, wire>>

Crash(h) ==
    /\ ~At(h, "idle")
    /\ Return(h)
    /\ UNCHANGED <<rows, key, stored, told, browser, wire, reply>>

\* The reservation reaches its time to live, pending or completed.
ExpireKey(r) ==
    /\ key[r] # "free"
    /\ key' = [key EXCEPT ![r] = "free"]
    /\ UNCHANGED <<rows, handler, stored, told, browser, wire, reply>>

\* Somebody deletes the message for everybody: the row goes.
Delete(r) ==
    /\ rows[r] > 0 /\ stored[r] < StoreLimit
    /\ rows' = [rows EXCEPT ![r] = 0]
    /\ UNCHANGED <<key, handler, stored, told, browser, wire, reply>>

-----------------------------------------------------------------------------
(***************************************************************************)
(* The browser.                                                            *)
(***************************************************************************)
\* schedulePendingTimeout forgets a timeout it replaces, but does not stop it.
Schedule(rs) ==
    /\ running' = [r \in Request |-> IF r \in rs THEN running[r] + 1 ELSE running[r]]
    /\ tracked' = tracked \cup rs

\* Broken: a timeout is stopped that was replaced or has run already.
CancelAny(rs) ==
    /\ running' = [r \in Request |-> IF r \in rs THEN running[r] - 1 ELSE running[r]]
    /\ tracked' = tracked \ rs

CancelTimeout(rs) ==
    /\ running' = [r \in Request |->
                      IF r \in rs \cap tracked THEN running[r] - 1 ELSE running[r]]
    /\ tracked' = tracked \ rs

\* failPendingMessage and the listeners find a message by its client id, which
\* a confirmed one has no more.
Unconfirmed(r) == bubble[r] \in {"pending", "failed", "read"}

\* Broken: failPendingMessage and the listeners look for any message.
ShowAny(rs, b) == bubble' = [r \in Request |-> IF r \in rs THEN b ELSE bubble[r]]

Show(rs, b) ==
    bubble' = [r \in Request |-> IF r \in rs /\ Unconfirmed(r) THEN b ELSE bubble[r]]

FailPending(rs) == CancelTimeout(rs) /\ Show(rs, "failed")

\* A click on a failed message drains the outbox first and goes on to the
\* retry only if that sent nothing.
Retryable(r) ==
    r \in File /\ bubble[r] = "failed" /\ (online => outbox = {})

\* sendTextMessageFlow or sendFileMessageFlow up to the encryption.
Compose(r) ==
    /\ page /\ (bubble[r] = "new" \/ Retryable(r))
    /\ r \notin sending \cup saving
    /\ sending' = sending \cup {r}
    /\ bubble' = [bubble EXCEPT ![r] = "pending"]
    /\ UNCHANGED <<server, outbox, page, online, saving, timers, expired, wire, reply>>

\* The upload fails, or the user has gone to another chat.
SendFails(r) ==
    /\ r \in sending
    /\ sending' = sending \ {r}
    /\ FailPending({r})
    /\ UNCHANGED <<server, outbox, page, online, saving, expired, wire, reply>>

SendNow(r) ==
    /\ r \in sending /\ online
    /\ running[r] < TimerLimit
    /\ sending' = sending \ {r}
    /\ wire' = wire \cup {r}
    /\ Schedule({r})
    /\ UNCHANGED <<server, outbox, page, online, bubble, saving, expired, reply>>

SendLater(r) ==
    /\ r \in sending /\ ~online
    /\ sending' = sending \ {r}
    /\ saving' = saving \cup {r}
    /\ UNCHANGED <<server, outbox, page, online, bubble, timers, expired, wire, reply>>

\* The entry is written, or IndexedDB fails; the bubble shows "failed" for both.
Saved(r) ==
    /\ r \in saving
    /\ saving' = saving \ {r}
    /\ outbox' \in {outbox, outbox \cup {r}}
    /\ FailPending({r})
    /\ UNCHANGED <<server, page, online, sending, expired, wire, reply>>

\* Entries of any age may have come to the end of their 24 hours.
Prune(old) ==
    /\ old \subseteq outbox
    /\ expired' = expired \cup old

\* Broken: what was emitted leaves the outbox.
DrainForgets(old) ==
    /\ page /\ online /\ outbox # {}
    /\ Prune(old)
    /\ \A r \in outbox : running[r] < TimerLimit
    /\ wire' = wire \cup (outbox \ old)
    /\ outbox' = {}
    /\ Show(old, "failed") /\ Schedule(outbox \ old)
    /\ UNCHANGED <<server, page, online, sending, saving, reply>>

\* drainOnce, started by a connect or online event, a background sync or a
\* click, and asynchronous: when it comes to the entries the socket is up or not.
Drain(old) ==
    /\ page /\ outbox # {}
    /\ Prune(old)
    /\ outbox' = outbox \ old
    /\ Show(old, "failed")
    /\ IF online
       THEN /\ \A r \in outbox' : running[r] < TimerLimit
            /\ wire' = wire \cup outbox'
            /\ running' = [r \in Request |-> CASE r \in outbox' -> running[r] + 1
                                              [] r \in old \cap tracked -> running[r] - 1
                                              [] OTHER -> running[r]]
            /\ tracked' = (tracked \ old) \cup outbox'
       ELSE CancelTimeout(old) /\ UNCHANGED wire
    /\ UNCHANGED <<server, page, online, sending, saving, reply>>

PendingTimeout(r) ==
    /\ running[r] > 0
    /\ running' = [running EXCEPT ![r] = @ - 1]
    /\ tracked' = tracked \ {r}
    /\ Show({r}, "failed")
    /\ UNCHANGED <<server, outbox, page, online, sending, saving, expired, wire, reply>>

\* The listeners of message_sent: the bubble is confirmed, the entry removed.
TakeSent(m) ==
    /\ m.kind = "sent"
    /\ IF Unconfirmed(m.req) THEN CancelTimeout({m.req}) ELSE UNCHANGED timers
    /\ Show({m.req}, "sent")
    /\ outbox' = outbox \ {m.req}

\* The listener of receive_message: a message of one's own, in the chat on the
\* screen or in another.
TakeEcho(m) ==
    /\ m.kind = "echo"
    /\ \/ UNCHANGED <<timers, bubble>>
       \/ /\ Unconfirmed(m.req)
          /\ CancelTimeout({m.req}) /\ Show({m.req}, "sent")
    /\ UNCHANGED outbox

\* The listener of messages_read, which the receiver's reading of other messages
\* of the chat brings: what is pending there loses the mark, not the client id.
\* (messages_delivered does the same for an empty list, which is never sent.)
TakeRead(rs) ==
    /\ online
    /\ bubble' = [r \in Request |-> IF r \in rs /\ bubble[r] = "pending" THEN "read" ELSE bubble[r]]
    /\ UNCHANGED <<server, outbox, page, online, sending, saving, timers, expired, wire, reply>>

\* The listener of "error": a request_id makes it a matter of reactions.
TakeError(m) ==
    /\ m.kind = "refused"
    /\ UNCHANGED <<timers, bubble, outbox>>

Receive(m) ==
    /\ online
    /\ reply' = reply \ {m}
    /\ TakeSent(m) \/ TakeEcho(m) \/ TakeError(m)
    /\ UNCHANGED <<server, page, online, sending, saving, expired, wire>>

\* What was on its way may be lost; an answer may also come from the event log
\* after the next connect.
Disconnect ==
    /\ online
    /\ online' = FALSE
    /\ wire' \in SUBSET wire
    /\ reply' \in SUBSET {m \in reply : Logged(m.kind)}
    /\ UNCHANGED <<server, outbox, page, bubble, sending, saving, timers, expired>>

Connect ==
    /\ page /\ ~online
    /\ online' = TRUE
    /\ UNCHANGED <<server, outbox, page, bubble, sending, saving, timers, expired,
                   wire, reply>>

\* The page goes, with all that is not in the outbox.
Close ==
    /\ page
    /\ page' = FALSE /\ online' = FALSE
    /\ bubble' = [r \in Request |-> IF bubble[r] = "new" THEN "new" ELSE "gone"]
    /\ sending' = {} /\ saving' = {}
    /\ running' = [r \in Request |-> 0] /\ tracked' = {}
    /\ wire' \in SUBSET wire /\ reply' = {}
    /\ UNCHANGED <<server, outbox, expired>>

\* The outbox is pruned when the runtime starts.
Open(old) ==
    /\ ~page
    /\ page' = TRUE
    /\ Prune(old) /\ outbox' = outbox \ old
    /\ UNCHANGED <<server, online, bubble, sending, saving, timers, wire, reply>>

-----------------------------------------------------------------------------
Handle(h) ==
    \/ Begin(h) \/ Refuse(h) \/ FindExisting(h) \/ Reserve(h)
    \/ Insert(h) \/ InsertFails(h) \/ ReadFails(h) \/ Complete(h)
    \/ Tell(h) \/ Ack(h) \/ Crash(h)

Browse(r) ==
    \/ Compose(r) \/ SendFails(r) \/ SendNow(r) \/ SendLater(r)
    \/ Saved(r) \/ PendingTimeout(r)

Next ==
    \/ \E h \in Handler : Handle(h)
    \/ \E r \in Request : ExpireKey(r) \/ Delete(r) \/ Browse(r)
    \/ \E old \in SUBSET outbox : Drain(old)
    \/ \E old \in SUBSET outbox : Open(old)
    \/ \E m \in reply : Receive(m)
    \/ \E rs \in SUBSET Request : TakeRead(rs)
    \/ Disconnect \/ Connect \/ Close

Spec == Init /\ [][Next]_vars

-----------------------------------------------------------------------------
TypeOK ==
    /\ rows \in [Request -> Nat]
    /\ key \in [Request -> {"free", "pending", "completed"}]
    /\ handler \in [Handler -> {Idle} \cup
          [req : Request, at : {"find", "reserve", "insert", "read", "tell", "ack"}]]
    /\ wire \subseteq Request
    /\ reply \subseteq [req : Request, kind : {"sent", "echo", "refused"}]
    /\ outbox \subseteq Request
    /\ page \in BOOLEAN /\ online \in BOOLEAN
    /\ bubble \in [Request -> {"new", "pending", "read", "failed", "sent", "gone"}]
    /\ sending \subseteq Request /\ saving \subseteq Request
    /\ running \in [Request -> 0 .. TimerLimit]
    /\ tracked \subseteq {r \in Request : running[r] > 0}
    /\ stored \in [Request -> Nat] /\ told \in [Request -> Nat]
    /\ expired \subseteq Request

\* However many copies of a request race, also after its reservation expired,
\* was given back by another copy or was lost with Redis, the table of messages
\* never holds it twice.
OneRow == \A r \in Request : rows[r] <= 1

\* The page confirms a message (the bubble "sent", which has given its client id
\* for the row's id), or has a confirmation on its way, only when the message was
\* committed.  A bubble marked as read is not confirmed: see ReadIsStored.
SentIsStored ==
    \A r \in Request :
        (\/ bubble[r] = "sent"
         \/ \E m \in reply : m.req = r /\ m.kind \in {"sent", "echo"})
        => stored[r] > 0

\* A retry announces nothing: the receiver is sent a message at most as many
\* times as it was committed.
ToldOnce == \A r \in Request : told[r] <= stored[r]

\* What the user was told is queued stays in the outbox, over any number of
\* lost answers and closed pages, until it is committed or its time is over.
OutboxKeeps ==
    [][\A r \in outbox \ outbox' : stored[r] > 0 \/ r \in expired']_vars

\* Late timeouts, late entries in the outbox and marks of reading do not turn a
\* message that was confirmed into a failed one.
SentStays ==
    [][\A r \in Request : bubble[r] = "sent" => bubble'[r] \in {"sent", "gone"}]_vars

Promise == INSTANCE Delivery WITH
    present   <- {r \in Request : rows[r] > 0},
    waiting   <- outbox,
    lapsed    <- expired,
    open      <- page,
    confirmed <- {r \in Request : bubble[r] = "sent"}

\* Handlers that race over copies, reservations that expire, lost answers, late
\* timeouts and closed pages together do no more than Delivery allows: one row,
\* one announcement a row, confirmations that are true and stay, an outbox that
\* lets go only of what was committed or too old.
ImplementsDelivery == Promise!DeliverySpec

\* A message shown as read was committed.  Not kept by the code: messages_read
\* marks every message of one's own, those without an answer too, and a timeout
\* may turn what was shown as read into a failed one.
ReadIsStored == \A r \in Request : bubble[r] = "read" => stored[r] > 0

\* chat-outbox.js, lines 3-4: "server idempotency via request_id prevents
\* duplicates on retry": a message is committed once.  Not kept by the code
\* once the message was deleted and the completed mark has expired.
StoredOnce == \A r \in Request : stored[r] <= 1

\* test_chat_message_status_events_module.py, line 41: an error with a
\* request_id fails the pending message.  Not kept by the code: the handler of
\* reactions takes every error that carries a request_id.
ErrorFails ==
    [][\A m \in reply :
          m.kind = "refused" /\ Receive(m) => bubble'[m.req] # "pending"]_vars
=============================================================================
