----------------------------- MODULE MCChatSync -----------------------------
(***************************************************************************)
(* Instances of ChatSync for TLC.  The events of a run are a subset of:    *)
(*   msg1, msg2        a message, to the chat's room and the personal room *)
(*   edit1, edit2      an edit, to the chat's room only                    *)
(*   ack               message_sent, to the sender's room, two listeners   *)
(*   note, hint, mark  an event of a type the browser has no listener for  *)
(*   typing            an event that is never persisted                    *)
(***************************************************************************)
EXTENDS ChatSync

CONSTANTS msg1, msg2, edit1, edit2, ack, note, hint, mark, typing, ann, room

TwoMessages == {msg1, msg2}
AckAmongOthers == {ack, note, hint, mark}
MessageEditNote == {msg1, edit1, note}
EditsAndAck == {edit1, edit2, ack}

OneClient == {ann}

MCRoomsOf == [e \in Event |-> IF e = ack THEN {ann}
                         ELSE IF e \in {edit1, edit2, note, hint, mark, typing} THEN {room}
                         ELSE {ann, room}]
MCPersisted == Event \ {typing}
MCNumListeners == [e \in Event |-> IF e \in {note, hint, mark} THEN 0 ELSE IF e = ack THEN 2 ELSE 1]

Faults(rollback, drop, http) ==
    [k \in FaultKind |-> CASE k = "rollback" -> rollback
                           [] k = "drop"     -> drop
                           [] k = "http"     -> http
                           [] OTHER          -> 0]
NoFaults == Faults(0, 0, 0)
OneDrop == Faults(0, 1, 0)
DropAndHttp == Faults(0, 1, 1)
OneRollback == Faults(1, 0, 0)
=============================================================================
