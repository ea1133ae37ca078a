--------------------------- MODULE MCEventEnvelope ---------------------------
(***************************************************************************)
(* A small instance of EventEnvelope for TLC: two persisted events for     *)
(* everybody in the chat, one for a personal room only (an acknowledgement *)
(* such as message_sent) and one that is never persisted (a typing         *)
(* notice).                                                                *)
(***************************************************************************)
EXTENDS EventEnvelope

CONSTANTS msg1, msg2, ack, typing, ann, room

MCEvent == {msg1, msg2, ack, typing}
MCClient == {ann}
MCRoomsOf == [e \in MCEvent |-> IF e = ack    THEN {ann}
                           ELSE IF e = typing THEN {room}
                           ELSE {ann, room}]
MCPersisted == MCEvent \ {typing}

\* One fault of every kind the server has.
OneOfEach == [k \in FaultKind |-> IF k \in {"drop", "http"} THEN 0 ELSE 1]
=============================================================================
