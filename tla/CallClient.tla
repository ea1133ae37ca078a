----------------------------- MODULE CallClient -----------------------------
(***************************************************************************)
(* CallManager in one tab: the state of the call, the timers that end      *)
(* every wait, reconnects and reloads.  The server (module Calls), the     *)
(* partner and the user's other devices are the environment: requests are  *)
(* served in any order, events arrive in theirs.  What an active call does *)
(* is the subject of CallMedia and Negotiation.                            *)
(***************************************************************************)
EXTENDS Naturals, Sequences

CONSTANTS
    ClientCall,  \* calls
    Outgoing,    \* those this user places, the others are the partner's
    NoCall,      \* null
    MaxAccepts,  \* request ids of call_accept
    MaxEvents,   \* events on their way before a further one is emitted
    MaxOutages   \* disconnects and reloads

ASSUME ClientAssumption ==
    /\ Outgoing \subseteq ClientCall /\ NoCall \notin ClientCall
    /\ MaxAccepts \in Nat /\ MaxEvents \in Nat /\ MaxOutages \in Nat

VARIABLES
    session,    \* status and participants on the server: "none", "ringing", "active", "over"
    answered,   \* history: calls that were active on the server
    requests,   \* what this tab has emitted and the server has not handled
    events,     \* what the server has emitted to this tab
    syncing,    \* call_sync handlers that have read and not yet emitted
    online,       \* socket.connected
    outages,
    blocked,    \* _isAccessBlocked: the recovery words are missing
    phase,      \* _state
    callId,     \* _callId
    acceptId,   \* _pendingAcceptRequestId, 0 without one
    accepts,    \* accept ids used
    remembered, \* sessionStorage: the call it names if it was ringing_out, accepting or active
    timers      \* armed timers

sessionVars == <<session, answered, syncing>>
wireVars == <<requests, events, online, outages>>
stateVars == <<phase, callId, acceptId, accepts, remembered, timers, blocked>>
clientVars == <<sessionVars, wireVars, stateVars>>

LiveCalls == {c \in ClientCall : session[c] \in {"ringing", "active"}}

ClientTypeOK ==
    /\ session \in [ClientCall -> {"none", "ringing", "active", "over"}]
    /\ answered \subseteq ClientCall
    /\ online \in BOOLEAN /\ blocked \in BOOLEAN
    /\ outages \in 0..MaxOutages
    /\ phase \in {"idle", "ringing_out", "ringing_in", "accepting", "active"}
    /\ callId \in ClientCall \cup {NoCall}
    /\ acceptId \in 0..accepts /\ accepts \in 0..MaxAccepts
    /\ remembered \in ClientCall \cup {NoCall}
    /\ timers \subseteq {"ring", "initiate", "accept", "grace"}

ClientInit ==
    /\ session = [c \in ClientCall |-> "none"] /\ answered = {} /\ syncing = {}
    /\ requests = {} /\ events = <<>> /\ online = FALSE /\ outages = 0
    /\ blocked \in BOOLEAN
    /\ phase = "idle" /\ callId = NoCall /\ acceptId = 0 /\ accepts = 0
    /\ remembered = NoCall /\ timers = {}

-----------------------------------------------------------------------------
(* What the handlers share.                                                *)

Request(what, c) == [what |-> what, call |-> c, id |-> 0]
Emit(r) == requests' = requests \cup {r}

(* _cleanup. *)
Cleanup ==
    /\ phase' = "idle" /\ callId' = NoCall /\ acceptId' = 0 /\ timers' = {}
    /\ remembered' = IF callId \in {NoCall, remembered} THEN NoCall ELSE remembered
    /\ UNCHANGED <<accepts, blocked>>

Stay == UNCHANGED stateVars

(* A new wait, or a new state of the same call. *)
Become(p, c, armed) ==
    /\ phase' = p /\ callId' = c /\ timers' = armed
    /\ remembered' = IF c = NoCall THEN remembered ELSE IF p = "ringing_in" THEN NoCall ELSE c
    /\ UNCHANGED <<accepts, blocked>>

Activate(c) ==
    /\ Become("active", c, timers \ {"ring", "accept", "grace"})
    /\ acceptId' = 0

EndRequest == Request(CASE phase = "ringing_out" -> "cancel"
                        [] phase \in {"ringing_in", "accepting"} -> "reject"
                        [] OTHER -> "end", callId)

-----------------------------------------------------------------------------
(* The user.                                                               *)

StartCall ==
    /\ phase = "idle" /\ ~blocked /\ online
    /\ Become("ringing_out", NoCall, {"ring", "initiate"})
    /\ Emit(Request("initiate", NoCall))
    /\ UNCHANGED <<acceptId, sessionVars, events, online, outages>>

AcceptCall ==
    /\ phase = "ringing_in" /\ ~blocked /\ online /\ accepts < MaxAccepts
    /\ phase' = "accepting" /\ remembered' = callId
    /\ accepts' = accepts + 1 /\ acceptId' = accepts + 1
    /\ timers' = {"accept"}
    /\ Emit([what |-> "accept", call |-> callId, id |-> accepts + 1])
    /\ UNCHANGED <<callId, blocked, sessionVars, events, online, outages>>

(* endCall, rejectCall and, in a blocked tab, acceptCall; also when the      *)
(* devices or the ICE servers cannot be had (_startMedia) and when the peer  *)
(* connection stays lost (_handleRecoverableDisconnect).                     *)
EndCall ==
    /\ phase # "idle"
    /\ Emit(EndRequest)
    /\ Cleanup
    /\ UNCHANGED <<sessionVars, events, online, outages>>

(* The timers. *)
RingTimeout ==
    /\ "ring" \in timers
    /\ IF phase = "ringing_out" /\ callId # NoCall THEN Emit(EndRequest) ELSE UNCHANGED requests
    /\ Cleanup
    /\ UNCHANGED <<sessionVars, events, online, outages>>

AckTimeout ==
    /\ "initiate" \in timers
    /\ Cleanup
    /\ UNCHANGED <<sessionVars, wireVars>>

AcceptTimeout ==
    /\ "accept" \in timers
    /\ timers' = (timers \ {"accept"}) \cup {"grace"}
    /\ IF online THEN Emit(Request("sync", NoCall)) ELSE UNCHANGED requests
    /\ UNCHANGED <<phase, callId, acceptId, accepts, remembered, blocked,
                   sessionVars, events, online, outages>>

GraceTimeout ==
    /\ "grace" \in timers
    /\ Cleanup
    /\ UNCHANGED <<sessionVars, wireVars>>

-----------------------------------------------------------------------------
(* Events of the server, in the order they were emitted.                   *)

OnIncoming(c) ==
    IF c = callId THEN Stay /\ UNCHANGED requests
    ELSE IF blocked \/ phase # "idle" THEN Stay /\ Emit(Request("reject", c))
    ELSE /\ Become("ringing_in", c, {"ring"})
         /\ acceptId' = 0
         /\ UNCHANGED requests

OnInitiated(c) ==
    /\ IF phase = "ringing_out"
       THEN /\ Become("ringing_out", c, timers \ {"initiate"})
            /\ UNCHANGED acceptId
       ELSE Stay
    /\ UNCHANGED requests

(* Broken: does not ask which call was accepted. *)
OnAcceptedAny(c, id) ==
    /\ IF phase \in {"accepting", "ringing_out"} THEN Activate(callId) ELSE Stay
    /\ UNCHANGED requests

OnAccepted(c, id) ==
    /\ IF c # callId THEN Stay
       ELSE CASE phase = "ringing_in" -> Cleanup
              [] phase = "accepting" /\ id \notin {0, acceptId} -> Cleanup
              [] phase = "accepting" /\ id \in {0, acceptId} -> Activate(c)
              [] phase = "ringing_out" -> Activate(c)
              [] OTHER -> Stay
    /\ UNCHANGED requests

OnOver(c) ==
    /\ IF c = callId THEN Cleanup ELSE Stay
    /\ UNCHANGED requests

OnError ==
    /\ IF phase = "idle" THEN Stay ELSE Cleanup
    /\ UNCHANGED requests

(* Broken: a restored outgoing call rings without a timer. *)
RestoreUntimed(c) == Become("ringing_out", c, {})

RestoreOutgoingRinging(c) == Become("ringing_out", c, {"ring"})

OnSync(c, status) ==
    IF c # NoCall /\ blocked
    THEN /\ IF status = "ringing" /\ c \notin Outgoing
            THEN Emit(Request("reject", c)) ELSE UNCHANGED requests
         /\ IF phase # "idle" THEN Cleanup ELSE Stay
    ELSE IF phase = "idle"
    THEN CASE status = "ringing" /\ c \notin Outgoing -> OnIncoming(c)
           [] status = "ringing" /\ c \in Outgoing ->
                RestoreOutgoingRinging(c) /\ acceptId' = 0 /\ UNCHANGED requests
           [] status = "active" /\ c = remembered -> Activate(c) /\ UNCHANGED requests
           [] OTHER -> Stay /\ UNCHANGED requests
    ELSE /\ CASE c # callId \/ c = NoCall -> Cleanup
              [] c = callId /\ c # NoCall /\ status = "active"
                 /\ phase \in {"ringing_out", "accepting"} -> Activate(c)
              [] c = callId /\ status = "active" /\ phase = "ringing_in" -> Cleanup
              [] OTHER -> Stay
         /\ UNCHANGED requests

TakeEvent ==
    /\ online /\ events # <<>>
    /\ events' = Tail(events)
    /\ LET e == Head(events) IN
        \/ e.type = "call_incoming" /\ OnIncoming(e.call)
        \/ e.type = "call_initiated" /\ OnInitiated(e.call)
        \/ e.type = "call_accepted" /\ OnAccepted(e.call, e.id)
        \/ e.type = "call_over" /\ OnOver(e.call)
        \/ e.type = "call_error" /\ OnError
        \/ e.type = "call_sync" /\ OnSync(e.call, e.status)
    /\ UNCHANGED <<sessionVars, online, outages>>

-----------------------------------------------------------------------------
(* The socket and the page.                                                *)

SocketConnected ==
    /\ ~online /\ online' = TRUE
    /\ Emit(Request("sync", NoCall))
    /\ UNCHANGED <<stateVars, sessionVars, events, outages>>

(* What was emitted is lost or reaches the server later; nothing arrives. *)
LinkLost ==
    /\ online /\ outages < MaxOutages
    /\ online' = FALSE /\ outages' = outages + 1
    /\ requests' \in {requests, {}}
    /\ events' = <<>> /\ syncing' = {}
    /\ UNCHANGED <<stateVars, session, answered>>

(* Only sessionStorage survives. *)
Reload ==
    /\ outages < MaxOutages /\ outages' = outages + 1
    /\ online' = FALSE /\ requests' = {} /\ events' = <<>> /\ syncing' = {}
    /\ phase' = "idle" /\ callId' = NoCall /\ acceptId' = 0 /\ timers' = {}
    /\ UNCHANGED <<session, answered, accepts, remembered, blocked>>

-----------------------------------------------------------------------------
(* The server, the partner and the user's other devices.                   *)

ServerEvent(type, c) == [type |-> type, call |-> c, id |-> 0, status |-> "none"]
Send(e) == events' = IF online THEN Append(events, e) ELSE events
SetSession(c, s) ==
    /\ session' = [session EXCEPT ![c] = s]
    /\ answered' = IF s = "active" THEN answered \cup {c} ELSE answered
Refuse == Send(ServerEvent("call_error", NoCall)) /\ UNCHANGED <<session, answered>>

ServeInitiate(r) ==
    \/ /\ LiveCalls = {}
       /\ \E c \in Outgoing : /\ session[c] = "none"
                              /\ SetSession(c, "ringing")
                              /\ Send(ServerEvent("call_initiated", c))
    \/ (LiveCalls # {} \/ \A c \in Outgoing : session[c] # "none") /\ Refuse

ServeAccept(r) ==
    IF session[r.call] = "ringing"
    THEN /\ SetSession(r.call, "active")
         /\ Send([ServerEvent("call_accepted", r.call) EXCEPT !.id = r.id])
    ELSE Refuse

(* call_reject, call_cancel, call_end and their answers to this user. *)
ServeEnd(r) ==
    IF r.call # NoCall /\ \/ session[r.call] = "ringing" /\ r.what # "end"
                          \/ session[r.call] = "active" /\ r.what # "reject"
    THEN SetSession(r.call, "over") /\ Send(ServerEvent("call_over", r.call))
    ELSE UNCHANGED <<session, answered, events>>

Serve(r) ==
    /\ online /\ r \in requests /\ Len(events) < MaxEvents
    /\ requests' = requests \ {r}
    /\ \/ r.what = "initiate" /\ ServeInitiate(r) /\ UNCHANGED syncing
       \/ r.what = "accept" /\ ServeAccept(r) /\ UNCHANGED syncing
       \/ r.what \in {"reject", "cancel", "end"} /\ ServeEnd(r) /\ UNCHANGED syncing
       \/ /\ r.what = "sync"
          /\ syncing' = {[type |-> "call_sync", call |-> c, id |-> 0, status |-> session[c]] :
                            c \in LiveCalls} \cup
                        (IF LiveCalls = {} THEN {ServerEvent("call_sync", NoCall)} ELSE {})
          /\ UNCHANGED <<session, answered, events>>
    /\ UNCHANGED <<stateVars, online, outages>>

AnswerSync ==
    /\ syncing # {} /\ Len(events) < MaxEvents
    /\ \E e \in syncing \cup {ServerEvent("call_error", NoCall)} : Send(e)
    /\ syncing' = {}
    /\ UNCHANGED <<session, answered, requests, online, outages, stateVars>>

Others(c, s, e) ==
    /\ Len(events) < MaxEvents
    /\ SetSession(c, s)
    /\ Send(e)
    /\ UNCHANGED <<syncing, requests, online, outages, stateVars>>

PartnerCalls(c) ==
    /\ c \notin Outgoing /\ session[c] = "none" /\ LiveCalls = {}
    /\ Others(c, "ringing", ServerEvent("call_incoming", c))

(* The partner, or another device of this user with a request id of its own. *)
OthersAccept(c) ==
    /\ session[c] = "ringing"
    /\ Others(c, "active", [ServerEvent("call_accepted", c) EXCEPT !.id =
                                IF c \in Outgoing THEN 0 ELSE MaxAccepts + 1])

OthersEnd(c) ==
    /\ session[c] \in {"ringing", "active"}
    /\ Others(c, "over", ServerEvent("call_over", c))

(* mark_missed_calls and _reap_stale_active_calls tell nobody. *)
Expire(c) ==
    /\ session[c] \in {"ringing", "active"}
    /\ SetSession(c, "over")
    /\ UNCHANGED <<syncing, wireVars, stateVars>>

ClientNext ==
    \/ StartCall \/ AcceptCall \/ EndCall
    \/ RingTimeout \/ AckTimeout \/ AcceptTimeout \/ GraceTimeout
    \/ TakeEvent \/ SocketConnected \/ LinkLost \/ Reload \/ AnswerSync
    \/ \E r \in requests : Serve(r)
    \/ \E c \in ClientCall : PartnerCalls(c) \/ OthersAccept(c) \/ OthersEnd(c) \/ Expire(c)

ClientSpec == ClientInit /\ [][ClientNext]_clientVars

-----------------------------------------------------------------------------
(* A tab talks only in a call that was accepted, also when events of an     *)
(* earlier call, a reconnect or a reload come in between.                   *)
TalksWhenAnswered == phase = "active" => callId \in answered

(* No tab rings or connects for ever: whatever the server does or fails to  *)
(* say, a timer is armed that ends the wait.                                *)
WaitIsTimed ==
    /\ phase \in {"ringing_out", "ringing_in"} => "ring" \in timers
    /\ phase = "ringing_out" /\ callId = NoCall => "initiate" \in timers
    /\ phase = "accepting" => timers \cap {"accept", "grace"} # {}

(* What this user is told of comes from an Exchange with a line for the     *)
(* user: the server and the others here may do no more than Calls does.     *)
CallPhase ==
    [c \in ClientCall |-> CASE session[c] = "none"    -> "new"
                            [] session[c] = "ringing" -> "ringing"
                            [] session[c] = "active"  -> "talking"
                            [] OTHER                  -> "over"]
UserLine ==
    [u \in {"user"} |-> IF LiveCalls = {} THEN NoCall ELSE CHOOSE c \in LiveCalls : TRUE]

Telephone == INSTANCE Exchange
    WITH User <- {"user"}, Call <- ClientCall, Free <- NoCall, phase <- CallPhase, line <- UserLine

HearsAnExchange == Telephone!ExchangeSpec
=============================================================================
