---------------------------- MODULE BrowserProofs ----------------------------
(***************************************************************************)
(* The browser's components, for any tracks, calls, chats, messages and     *)
(* numbers of them.  They share no state; each section proves what it needs *)
(* of one of them.                                                          *)
(***************************************************************************)
EXTENDS CallMedia, CallClient, ChatView, SequenceTheorems, TLAPS

-----------------------------------------------------------------------------
(* CallMedia: no device stays open that neither the call nor a running       *)
(* operation holds.                                                          *)

Change == [on : Device, at : {"prepare", "attach", "revert", "detach"},
           track : Track \cup {0}, current : BOOLEAN]

Empty == \A d \in Device : held[d] = 0

(* What is captured, track by track. *)
Covered ==
    /\ \A t \in capturing : \/ \E d \in Device : held[d] = t
                            \/ \E o \in operations : o.track = t
    /\ ~inCall => Empty

(* The starts and operations of the present call, of which there is a call; *)
(* while it starts, nothing is held and nothing is changed.                  *)
SessionsApart ==
    /\ ~inCall => /\ \A s \in starts : ~s.current
                  /\ \A o \in operations : ~o.current
    /\ \A s, r \in starts : s.current /\ r.current => s = r
    /\ \A s \in starts : s.current => Empty /\ \A o \in operations : ~o.current
    /\ \A o \in operations : o.at \in {"prepare", "detach"} => o.track = 0

MediaInv == MediaTypeOK /\ Covered /\ SessionsApart

LEMMA CoveredIsHeld == MediaTypeOK /\ Covered => CaptureIsHeld
BY DEF MediaTypeOK, Covered, Empty, CaptureIsHeld, NoMedia

LEMMA MediaInitial == MediaInit => MediaInv
BY MediaAssumption DEF MediaInit, MediaInv, MediaTypeOK, Covered, Empty, SessionsApart, NoMedia, Device

(* The end of a call. *)
LEMMA ReleaseStep ==
    ASSUME MediaInv, ReleaseMedia PROVE MediaInv'
<1> USE DEF MediaInv, MediaTypeOK, Stop, Device, Empty
<1>1. MediaTypeOK'
    <2>1. inCall' \in BOOLEAN /\ held' \in [Device -> Track \cup {0}] /\ capturing' \subseteq Track
        BY DEF NoMedia, ReleaseMedia
    <2>2. starts' \subseteq [at : {"ice", "camera", "microphone"}, current : BOOLEAN]
        <3>1. ASSUME NEW s \in starts
              PROVE  [s EXCEPT !.current = FALSE] \in [at : {"ice", "camera", "microphone"}, current : BOOLEAN]
            OBVIOUS
        <3> QED
            BY <3>1 DEF ReleaseMedia
    <2>3. operations' \subseteq Change
        <3>1. ASSUME NEW o \in operations PROVE [o EXCEPT !.current = FALSE] \in Change
            BY DEF Change
        <3> QED
            BY <3>1 DEF ReleaseMedia
    <2> QED
        BY <2>1, <2>2, <2>3 DEF Change
<1>2. ASSUME NEW o \in operations PROVE \E p \in operations' : p.track = o.track
    <2>1. [o EXCEPT !.current = FALSE] \in operations' /\ [o EXCEPT !.current = FALSE].track = o.track
        BY DEF ReleaseMedia
    <2> QED
        BY <2>1
<1>3. Covered'
    <2>1. ASSUME NEW t \in capturing' PROVE \E o \in operations' : o.track = t
        <3>1. t \in capturing /\ \A d \in Device : held[d] # t
            BY DEF ReleaseMedia
        <3> QED
            BY <1>2, <3>1 DEF Covered
    <2>2. Empty'
        BY DEF NoMedia, ReleaseMedia
    <2> QED
        BY <2>1, <2>2 DEF Covered
<1>4. \A s \in starts' : ~s.current
    BY DEF ReleaseMedia
<1>5. \A p \in operations' : ~p.current /\ \E o \in operations : p.at = o.at /\ p.track = o.track
    BY DEF ReleaseMedia
<1>6. SessionsApart'
    BY <1>4, <1>5 DEF SessionsApart
<1> QED
    BY <1>1, <1>3, <1>6

LEMMA StartsStep ==
    ASSUME MediaInv, NEW s \in starts, IceServers(s) \/ DevicesOpened(s) \/ StartFails(s)
    PROVE  MediaInv'
<1> USE DEF MediaInv, MediaTypeOK, Device, Empty
<1>1. CASE IceServers(s)
    <2> DEFINE r == [at |-> "camera", current |-> TRUE]
    <2>0. starts' \subseteq starts \cup {r} /\ UNCHANGED <<inCall, held, operations, capturing>>
        BY <1>1 DEF IceServers
    <2>1. MediaTypeOK' /\ Covered'
        <3>1. r \in [at : {"ice", "camera", "microphone"}, current : BOOLEAN]
            OBVIOUS
        <3> QED
            BY <2>0, <3>1 DEF Covered
    <2>2. SessionsApart'
        BY <1>1 DEF IceServers, SessionsApart
    <2> QED
        BY <2>1, <2>2
<1>2. CASE DevicesOpened(s)
    <2>1. CASE ~s.current /\ UNCHANGED <<held, capturing>>
        BY <1>2, <2>1 DEF DevicesOpened, SessionsApart, Covered
    <2>2. CASE s.current
        <3>1. PICK k \in Track, v \in Track \cup {0} :
                /\ held' = [audio |-> k, video |-> v]
                /\ capturing' = capturing \cup ({k, v} \ {0})
                /\ starts' = starts \ {s} /\ UNCHANGED <<inCall, operations>>
            BY <1>2, <2>2 DEF DevicesOpened, Unused
        <3>2. Empty
            BY <2>2 DEF SessionsApart
        <3>3. MediaTypeOK'
            BY <3>1
        <3>4. capturing \subseteq {o.track : o \in operations}
            BY <3>2, MediaAssumption DEF Covered
        <3>5. {k, v} \subseteq {held'[d] : d \in Device}
            BY <3>1
        <3>6. inCall
            BY <2>2 DEF SessionsApart
        <3>7. Covered'
            BY <3>1, <3>4, <3>5, <3>6 DEF Covered
        <3>8. \A r \in starts' : ~r.current
            BY <3>1, <2>2 DEF SessionsApart
        <3>9. SessionsApart'
            BY <3>1, <3>6, <3>8 DEF SessionsApart
        <3> QED
            BY <3>3, <3>7, <3>9
    <2> QED
        BY <1>2, <2>1, <2>2 DEF DevicesOpened
<1>3. CASE StartFails(s)
    <2>1. CASE s.current /\ ReleaseMedia
        BY <2>1, ReleaseStep
    <2>2. CASE ~(s.current /\ ReleaseMedia)
        <3>1. /\ UNCHANGED <<inCall, held, operations, capturing>>
              /\ \/ starts' = (starts \ {s}) \cup {[s EXCEPT !.at = "microphone"]}
                 \/ starts' = starts \ {s}
            BY <1>3, <2>2 DEF StartFails
        <3>2. MediaTypeOK' /\ Covered'
            BY <3>1 DEF Covered
        <3>3. SessionsApart'
            BY <3>1 DEF SessionsApart
        <3> QED
            BY <3>2, <3>3
    <2> QED
        BY <2>1, <2>2
<1> QED
    BY <1>1, <1>2, <1>3

LEMMA OperationsStep ==
    ASSUME MediaInv, NEW o \in operations,
           Prepared(o) \/ Attached(o) \/ OperationFails(o) \/ Reverted(o) \/ Detached(o)
    PROVE  MediaInv'
<1> USE DEF MediaInv, MediaTypeOK, Device, Empty
<1>1. CASE Prepared(o) /\ o.current
    <2>1. PICK k \in Track : Now(o, "attach", k) /\ capturing' = capturing \cup {k}
        BY <1>1 DEF Prepared, Unused
    <2>2. operations' = (operations \ {o}) \cup {[o EXCEPT !.at = "attach", !.track = k]}
        BY <2>1 DEF Now
    <2>3. UNCHANGED <<inCall, starts, held>> /\ o.at = "prepare" /\ o.track = 0
        BY <1>1 DEF Prepared, SessionsApart
    <2>4. MediaTypeOK'
        BY <2>1, <2>2, <2>3
    <2> DEFINE n == [o EXCEPT !.at = "attach", !.track = k]
    <2>5. n.track = k /\ n.at = "attach" /\ n.current = o.current /\ n \in operations'
        BY <2>2
    <2>6. ASSUME NEW t \in capturing' PROVE \/ \E d \in Device : held'[d] = t
                                            \/ \E p \in operations' : p.track = t
        <3>1. CASE t = k
            BY <3>1, <2>5
        <3>2. CASE t \in capturing
            <4>1. t # 0
                BY <3>2, MediaAssumption
            <4>2. \A p \in operations : p.track = t => p \in operations'
                BY <4>1, <2>2, <2>3
            <4> QED
                BY <3>2, <4>2, <2>3 DEF Covered
        <3> QED
            BY <2>1, <3>1, <3>2
    <2>7. Covered'
        BY <2>3, <2>6 DEF Covered
    <2>8. \A p \in operations' : p = n \/ p \in operations
        BY <2>2
    <2>9. SessionsApart'
        BY <1>1, <2>3, <2>5, <2>8 DEF SessionsApart
    <2> QED
        BY <2>4, <2>7, <2>9
<1>2. CASE OperationFails(o) /\ o.current
    <2> DEFINE n == [o EXCEPT !.at = "revert", !.track = o.track]
    <2>1. operations' = (operations \ {o}) \cup {n} /\ UNCHANGED <<inCall, starts, held, capturing>>
        BY <1>2 DEF OperationFails, Now
    <2>2. MediaTypeOK'
        BY <2>1
    <2>3. n.track = o.track /\ n.at = "revert" /\ n.current = o.current /\ n \in operations'
        BY <2>1
    <2>4. \A p \in operations : \E q \in operations' : q.track = p.track
        BY <2>1, <2>3
    <2>5. Covered'
        BY <2>1, <2>4 DEF Covered
    <2>6. \A p \in operations' : p = n \/ p \in operations
        BY <2>1
    <2>7. SessionsApart'
        BY <1>2, <2>1, <2>3, <2>6 DEF SessionsApart
    <2> QED
        BY <2>2, <2>5, <2>7
<1>3. CASE UNCHANGED <<inCall, starts>> /\ operations' = operations \ {o}
           /\ capturing' \subseteq capturing /\ o.track \notin capturing' /\ held' = held
    <2>1. MediaTypeOK'
        BY <1>3
    <2>2. Covered'
        BY <1>3 DEF Covered
    <2>3. SessionsApart'
        BY <1>3 DEF SessionsApart
    <2> QED
        BY <2>1, <2>2, <2>3
<1>4. CASE Attached(o) /\ o.current
    <2>1. /\ operations' = operations \ {o} /\ UNCHANGED <<inCall, starts>>
          /\ capturing' = capturing \ {held[o.on]}
          /\ held' = [held EXCEPT ![o.on] = o.track]
        BY <1>4 DEF Attached, Done, Stop
    <2>2. inCall /\ \A s \in starts : ~s.current
        BY <1>4 DEF SessionsApart
    <2>3. MediaTypeOK'
        BY <2>1
    <2>4. Covered'
        BY <2>1, <2>2 DEF Covered
    <2>5. SessionsApart'
        BY <2>1, <2>2 DEF SessionsApart
    <2> QED
        BY <2>3, <2>4, <2>5
<1>5. CASE Detached(o) /\ o.current /\ capturing' = capturing \ {held.video}
           /\ held' = [held EXCEPT !.video = 0]
    <2>1. operations' = operations \ {o} /\ UNCHANGED <<inCall, starts>> /\ o.track = 0
        BY <1>5 DEF Detached, Done, SessionsApart
    <2>2. inCall /\ \A s \in starts : ~s.current
        BY <1>5 DEF SessionsApart
    <2>3. MediaTypeOK'
        BY <1>5, <2>1
    <2>4. Covered'
        BY <1>5, <2>1, <2>2, MediaAssumption DEF Covered
    <2>5. SessionsApart'
        BY <2>1, <2>2 DEF SessionsApart
    <2> QED
        BY <2>3, <2>4, <2>5
<1> QED
    BY <1>1, <1>2, <1>3, <1>4, <1>5, MediaAssumption
    DEF Prepared, Attached, OperationFails, Reverted, Detached, Done, Stop, SessionsApart

LEMMA MediaStep == MediaInv /\ [MediaNext]_mediaVars => MediaInv'
<1> SUFFICES ASSUME MediaInv, [MediaNext]_mediaVars PROVE MediaInv'
    OBVIOUS
<1> USE DEF MediaInv, MediaTypeOK, Device, Empty
<1>1. CASE StartMedia
    <2> DEFINE r == [at |-> "ice", current |-> TRUE]
    <2>1. /\ starts' = starts \cup {r} /\ ~inCall /\ inCall'
          /\ UNCHANGED <<held, operations, capturing>>
        BY <1>1 DEF StartMedia
    <2>2. r \in [at : {"ice", "camera", "microphone"}, current : BOOLEAN]
        OBVIOUS
    <2>3. MediaTypeOK' /\ Covered'
        BY <1>1, <2>1, <2>2 DEF Covered, StartMedia
    <2>4. SessionsApart'
        BY <2>1 DEF SessionsApart, Covered
    <2> QED
        BY <2>3, <2>4
<1>2. CASE EndMedia
    BY <1>2, ReleaseStep DEF EndMedia
<1>3. ASSUME NEW d \in Device, TrackEnded(d) PROVE MediaInv'
    <2>1. /\ held' = [held EXCEPT ![d] = 0] /\ capturing' = capturing \ {held[d]}
          /\ UNCHANGED <<inCall, starts, operations>> /\ held[d] # 0
        BY <1>3 DEF TrackEnded, Stop
    <2>2. MediaTypeOK'
        BY <2>1
    <2>3. Covered'
        BY <2>1 DEF Covered
    <2>4. SessionsApart'
        BY <2>1 DEF SessionsApart
    <2> QED
        BY <2>2, <2>3, <2>4
<1>4. ASSUME NEW d \in Device, NEW at \in {"prepare", "detach"}, BeginOperation(d, at) PROVE MediaInv'
    <2>1. /\ operations' = operations \cup {[on |-> d, at |-> at, track |-> 0, current |-> TRUE]}
          /\ UNCHANGED <<inCall, starts, held, capturing>>
          /\ inCall /\ \A s \in starts : ~s.current
        BY <1>4 DEF BeginOperation
    <2> DEFINE n == [on |-> d, at |-> at, track |-> 0, current |-> TRUE]
    <2>2. n \in Change /\ n.track = 0
        BY DEF Change
    <2>3. MediaTypeOK'
        BY <2>1, <2>2 DEF Change
    <2>4. Covered' /\ SessionsApart'
        BY <2>1 DEF Covered, SessionsApart
    <2> QED
        BY <2>3, <2>4
<1>5. CASE UNCHANGED mediaVars
    BY <1>5 DEF mediaVars, Covered, SessionsApart
<1> QED
    BY <1>1, <1>2, <1>3, <1>4, <1>5, StartsStep, OperationsStep DEF MediaNext

(* The inductive invariant: what is captured is held, and the awaits of the *)
(* present call exclude what belongs to calls before it.                     *)
THEOREM MediaInvariant == MediaSpec => []MediaInv
BY MediaInitial, MediaStep, PTL DEF MediaSpec

(* However calls end and begin between the awaits of _startMedia and of the *)
(* changes of devices, no microphone, camera or screen stays open alone.    *)
THEOREM CapturedIsHeld == MediaSpec => []CaptureIsHeld
<1>1. MediaInv => CaptureIsHeld
    BY CoveredIsHeld DEF MediaInv
<1> QED
    BY <1>1, MediaInvariant, PTL

-----------------------------------------------------------------------------
(* CallManager: what the server tells a tab is true of the calls it names,   *)
(* and every way into a wait arms the timer that ends it.                     *)

Status == {"none", "ringing", "active", "over"}
Wait == {"ring", "initiate", "accept", "grace"}

Notice == [type : {"call_incoming", "call_initiated", "call_accepted",
                   "call_over", "call_error", "call_sync"},
           call : ClientCall \cup {NoCall}, id : Nat, status : Status]

(* An event stays true while it waits: a call that was answered remains so.  *)
TrueNotice ==
    {e \in Notice :
        /\ e.type = "call_accepted" \/ e.status = "active" => e.call \in answered
        /\ e.type \in {"call_incoming", "call_initiated"} \/ e.status # "none"
           => e.call \in ClientCall}

Question == [what : {"initiate", "accept", "reject", "cancel", "end", "sync"},
             call : ClientCall \cup {NoCall}, id : Nat]

SessionInv ==
    /\ session \in [ClientCall -> Status] /\ answered \subseteq ClientCall
    /\ \A c \in ClientCall : session[c] = "active" => c \in answered

WireInv ==
    /\ syncing \subseteq TrueNotice /\ events \in Seq(TrueNotice)
    /\ requests \subseteq Question
    /\ \A r \in requests : r.what = "accept" => r.call \in ClientCall
    /\ online \in BOOLEAN /\ outages \in 0..MaxOutages

StateInv ==
    /\ phase \in {"idle", "ringing_out", "ringing_in", "accepting", "active"}
    /\ callId \in ClientCall \cup {NoCall} /\ remembered \in ClientCall \cup {NoCall}
    /\ acceptId \in 0..accepts /\ accepts \in 0..MaxAccepts
    /\ timers \subseteq Wait /\ blocked \in BOOLEAN
    /\ phase = "ringing_in" => callId \in ClientCall
    /\ TalksWhenAnswered /\ WaitIsTimed

ClientInv == SessionInv /\ WireInv /\ StateInv

LEMMA ClientInitial == ClientInit => ClientInv
<1> SUFFICES ASSUME ClientInit PROVE ClientInv
    OBVIOUS
<1>1. SessionInv
    BY DEF ClientInit, SessionInv, Status
<1>2. WireInv
    <2>1. events = <<>> /\ syncing = {} /\ requests = {} /\ online = FALSE /\ outages = 0
        BY DEF ClientInit
    <2>2. events \in Seq(TrueNotice)
        BY <2>1
    <2>3. outages \in 0..MaxOutages
        BY <2>1, ClientAssumption
    <2> QED
        BY <2>1, <2>2, <2>3 DEF WireInv
<1>3. StateInv
    BY ClientAssumption DEF ClientInit, StateInv, TalksWhenAnswered, WaitIsTimed
<1> QED
    BY <1>1, <1>2, <1>3 DEF ClientInv

(* What a handler may do to the state of the call.                            *)
Reaction ==
    \/ Stay
    \/ Cleanup
    \/ \E c \in answered : Activate(c)
    \/ \E c \in ClientCall : Become("ringing_in", c, {"ring"}) /\ acceptId' = 0
    \/ \E c \in ClientCall : Become("ringing_out", c, {"ring"}) /\ acceptId' = 0
    \/ \E c \in ClientCall : /\ phase = "ringing_out" /\ acceptId' = acceptId
                             /\ Become("ringing_out", c, timers \ {"initiate"})

LEMMA ReactionStep ==
    ASSUME StateInv, answered \subseteq ClientCall, answered' = answered, Reaction
    PROVE  StateInv'
<1> USE ClientAssumption DEF StateInv, TalksWhenAnswered, WaitIsTimed, Wait
<1>1. CASE Stay
    BY <1>1 DEF Stay, stateVars
<1>2. CASE Cleanup
    BY <1>2 DEF Cleanup
<1>3. ASSUME NEW c \in answered, Activate(c) PROVE StateInv'
    BY <1>3 DEF Activate, Become
<1>4. ASSUME NEW c \in ClientCall, Become("ringing_in", c, {"ring"}), acceptId' = 0 PROVE StateInv'
    BY <1>4 DEF Become
<1>5. ASSUME NEW c \in ClientCall, Become("ringing_out", c, {"ring"}), acceptId' = 0 PROVE StateInv'
    BY <1>5 DEF Become
<1>6. ASSUME NEW c \in ClientCall, phase = "ringing_out", acceptId' = acceptId,
             Become("ringing_out", c, timers \ {"initiate"})
      PROVE StateInv'
    BY <1>6 DEF Become
<1> QED
    BY <1>1, <1>2, <1>3, <1>4, <1>5, <1>6 DEF Reaction

(* A tab that answers an event only rejects the call the event names.        *)
Rejects(c) == requests' = requests \/ Emit(Request("reject", c))

LEMMA IncomingReacts ==
    ASSUME NEW c \in ClientCall, OnIncoming(c) PROVE Reaction /\ Rejects(c)
BY DEF OnIncoming, Reaction, Rejects

LEMMA AcceptedReacts ==
    ASSUME NEW c \in answered, NEW id, OnAccepted(c, id) PROVE Reaction /\ Rejects(c)
BY DEF OnAccepted, Reaction, Rejects

LEMMA SyncReacts ==
    ASSUME NEW c \in ClientCall \cup {NoCall}, NEW status \in Status, OnSync(c, status),
           status = "active" => c \in answered, status # "none" => c \in ClientCall
    PROVE  Reaction /\ Rejects(c)
<1>1. CASE c # NoCall /\ blocked
    BY <1>1 DEF OnSync, Reaction, Rejects
<1>2. CASE ~(c # NoCall /\ blocked) /\ phase = "idle"
    <2>1. \/ status = "ringing" /\ c \notin Outgoing /\ OnIncoming(c)
          \/ /\ status = "ringing" /\ RestoreOutgoingRinging(c)
             /\ acceptId' = 0 /\ requests' = requests
          \/ status = "active" /\ Activate(c) /\ requests' = requests
          \/ Stay /\ requests' = requests
        BY <1>2 DEF OnSync
    <2> QED
        BY <2>1, IncomingReacts DEF RestoreOutgoingRinging, Reaction, Rejects
<1>3. CASE ~(c # NoCall /\ blocked) /\ phase # "idle"
    <2>1. /\ requests' = requests
          /\ Stay \/ Cleanup \/ (status = "active" /\ Activate(c))
        BY <1>3 DEF OnSync
    <2> QED
        BY <2>1 DEF Reaction, Rejects
<1> QED
    BY <1>1, <1>2, <1>3

LEMMA NoticeReacts ==
    ASSUME SessionInv, WireInv, TakeEvent
    PROVE  /\ Reaction /\ events' = Tail(events)
           /\ UNCHANGED <<session, answered, syncing, online, outages>>
           /\ \E c \in ClientCall \cup {NoCall} : Rejects(c)
<1> DEFINE e == Head(events)
<1>1. e \in TrueNotice
    BY DEF TakeEvent, WireInv
<1>2. /\ e.call \in ClientCall \cup {NoCall} /\ e.status \in Status
      /\ e.type = "call_accepted" \/ e.status = "active" => e.call \in answered
      /\ e.type \in {"call_incoming", "call_initiated"} \/ e.status # "none" => e.call \in ClientCall
    BY <1>1 DEF TrueNotice, Notice
<1>3. /\ events' = Tail(events) /\ UNCHANGED <<session, answered, syncing, online, outages>>
      /\ \/ e.type = "call_incoming" /\ OnIncoming(e.call)
         \/ e.type = "call_initiated" /\ OnInitiated(e.call)
         \/ e.type = "call_accepted" /\ OnAccepted(e.call, e.id)
         \/ e.type = "call_over" /\ OnOver(e.call)
         \/ e.type = "call_error" /\ OnError
         \/ e.type = "call_sync" /\ OnSync(e.call, e.status)
    BY DEF TakeEvent, sessionVars
<1> HIDE DEF e
<1>4. CASE e.type = "call_incoming" /\ OnIncoming(e.call)
    BY <1>2, <1>3, <1>4, IncomingReacts
<1>5. CASE e.type = "call_accepted" /\ OnAccepted(e.call, e.id)
    BY <1>2, <1>3, <1>5, AcceptedReacts
<1>6. CASE e.type = "call_sync" /\ OnSync(e.call, e.status)
    BY <1>2, <1>3, <1>6, SyncReacts
<1>7. CASE e.type = "call_initiated" /\ OnInitiated(e.call)
    <2>1. Reaction /\ requests' = requests
        BY <1>2, <1>7 DEF OnInitiated, Reaction
    <2> QED
        BY <1>2, <1>3, <2>1 DEF Rejects
<1>8. CASE OnOver(e.call) \/ OnError
    <2>1. Reaction /\ requests' = requests
        BY <1>8 DEF OnOver, OnError, Reaction
    <2> QED
        BY <1>2, <1>3, <2>1 DEF Rejects
<1> QED
    BY <1>3, <1>4, <1>5, <1>6, <1>7, <1>8

(* An event that is true of the calls joins those on their way.               *)
LEMMA SendsTruth ==
    ASSUME events \in Seq(TrueNotice), answered \subseteq answered',
           NEW e \in TrueNotice', Send(e)
    PROVE  events' \in Seq(TrueNotice')
<1>1. TrueNotice \subseteq TrueNotice'
    BY DEF TrueNotice, Notice
<1>2. events \in Seq(TrueNotice')
    <2>1. \A i \in 1..Len(events) : events[i] \in TrueNotice'
        BY <1>1
    <2> QED
        BY <2>1, SeqDef
<1> QED
    BY <1>2 DEF Send

(* Nothing is emitted, and no call changes.                                   *)
LEMMA KeepsTruth ==
    ASSUME WireInv, answered \subseteq answered'
    PROVE  events \in Seq(TrueNotice') /\ syncing \subseteq TrueNotice'
<1>1. TrueNotice \subseteq TrueNotice'
    BY DEF TrueNotice, Notice
<1>2. \A i \in 1..Len(events) : events[i] \in TrueNotice'
    BY <1>1 DEF WireInv
<1> QED
    BY <1>1, <1>2, SeqDef DEF WireInv

(* What the server and the others do to the calls.                            *)
LEMMA SetSessionStep ==
    ASSUME SessionInv, NEW c \in ClientCall, NEW s \in Status, SetSession(c, s)
    PROVE  SessionInv' /\ answered \subseteq answered' /\ (s = "active" => c \in answered')
<1>1. session' = [session EXCEPT ![c] = s] /\ answered' = IF s = "active" THEN answered \cup {c} ELSE answered
    BY DEF SetSession
<1> QED
    BY <1>1 DEF SessionInv

LEMMA OthersStep ==
    ASSUME ClientInv, NEW c \in ClientCall, NEW s \in Status, NEW type \in {"call_incoming", "call_accepted", "call_over"},
           NEW id \in Nat, type = "call_accepted" => s = "active",
           Others(c, s, [ServerEvent(type, c) EXCEPT !.id = id])
    PROVE  ClientInv'
<1>1. /\ SetSession(c, s) /\ Send([ServerEvent(type, c) EXCEPT !.id = id])
      /\ UNCHANGED <<syncing, requests, online, outages>> /\ UNCHANGED stateVars
    BY DEF Others
<1>2. SessionInv' /\ answered \subseteq answered' /\ (s = "active" => c \in answered')
    BY <1>1, SetSessionStep DEF ClientInv
<1>3. [ServerEvent(type, c) EXCEPT !.id = id] \in TrueNotice'
    BY <1>2 DEF ServerEvent, TrueNotice, Notice, Status
<1>4. WireInv'
    BY <1>1, <1>2, <1>3, SendsTruth, KeepsTruth DEF ClientInv, WireInv
<1>5. StateInv'
    BY <1>1, <1>2 DEF ClientInv, StateInv, stateVars, TalksWhenAnswered, WaitIsTimed
<1> QED
    BY <1>2, <1>4, <1>5 DEF ClientInv

(* The server serves a request.                                               *)
LEMMA ServeStep == ASSUME ClientInv, NEW r \in requests, Serve(r) PROVE ClientInv'
<1>1. /\ requests' = requests \ {r} /\ UNCHANGED stateVars /\ UNCHANGED <<online, outages>>
      /\ r \in Question /\ (r.what = "accept" => r.call \in ClientCall)
    BY DEF Serve, ClientInv, WireInv
<1>2. ASSUME SessionInv', answered \subseteq answered', events' \in Seq(TrueNotice'), syncing' \subseteq TrueNotice'
      PROVE ClientInv'
    <2>1. WireInv'
        BY <1>1, <1>2 DEF ClientInv, WireInv
    <2>2. StateInv'
        BY <1>1, <1>2 DEF ClientInv, StateInv, stateVars, TalksWhenAnswered, WaitIsTimed
    <2> QED
        BY <1>2, <2>1, <2>2 DEF ClientInv
<1>3. ASSUME UNCHANGED <<session, answered, events, syncing>> PROVE ClientInv'
    <2>1. SessionInv' /\ TrueNotice' = TrueNotice
        BY <1>3 DEF ClientInv, SessionInv, TrueNotice
    <2> QED
        BY <1>2, <1>3, <2>1 DEF ClientInv, WireInv
<1>4. ASSUME Refuse, syncing' = syncing PROVE ClientInv'
    <2>1. SessionInv' /\ answered' = answered
        BY <1>4 DEF Refuse, ClientInv, SessionInv
    <2>2. ServerEvent("call_error", NoCall) \in TrueNotice'
        BY DEF ServerEvent, TrueNotice, Notice, Status
    <2> QED
        BY <1>2, <1>4, <2>1, <2>2, SendsTruth, KeepsTruth DEF Refuse, ClientInv, WireInv
<1>5. ASSUME NEW c \in ClientCall, NEW s \in Status, NEW e, SetSession(c, s), Send(e), syncing' = syncing,
             c \in answered' \/ s # "active" => e \in TrueNotice'
      PROVE ClientInv'
    <2>1. SessionInv' /\ answered \subseteq answered' /\ (s = "active" => c \in answered')
        BY <1>5, SetSessionStep DEF ClientInv
    <2> QED
        BY <1>2, <1>5, <2>1, SendsTruth, KeepsTruth DEF ClientInv, WireInv
<1>6. CASE r.what = "initiate" /\ ServeInitiate(r) /\ UNCHANGED syncing
    <2>1. CASE \E c \in Outgoing : SetSession(c, "ringing") /\ Send(ServerEvent("call_initiated", c))
        <3>1. PICK c \in Outgoing : SetSession(c, "ringing") /\ Send(ServerEvent("call_initiated", c))
            BY <2>1
        <3>2. c \in ClientCall /\ ServerEvent("call_initiated", c) \in TrueNotice'
            BY ClientAssumption DEF ServerEvent, TrueNotice, Notice, Status
        <3> QED
            BY <1>5, <1>6, <3>1, <3>2 DEF Status
    <2> QED
        BY <1>4, <1>6, <2>1 DEF ServeInitiate
<1>7. CASE r.what = "accept" /\ ServeAccept(r) /\ UNCHANGED syncing
    <2> DEFINE e == [ServerEvent("call_accepted", r.call) EXCEPT !.id = r.id]
    <2>1. CASE session[r.call] = "ringing"
        <3>1. SetSession(r.call, "active") /\ Send(e)
            BY <1>7, <2>1 DEF ServeAccept
        <3>2. r.call \in ClientCall /\ r.id \in Nat
            BY <1>1, <1>7 DEF Question
        <3>3. r.call \in answered' => e \in TrueNotice'
            BY <3>2 DEF ServerEvent, TrueNotice, Notice, Status
        <3> QED
            BY <1>5, <1>7, <3>1, <3>2, <3>3 DEF Status
    <2> QED
        BY <1>4, <1>7, <2>1 DEF ServeAccept
<1>8. CASE r.what \in {"reject", "cancel", "end"} /\ ServeEnd(r) /\ UNCHANGED syncing
    <2>1. CASE r.call # NoCall /\ SetSession(r.call, "over") /\ Send(ServerEvent("call_over", r.call))
        <3>1. r.call \in ClientCall /\ ServerEvent("call_over", r.call) \in TrueNotice'
            BY <1>1, <2>1 DEF Question, ServerEvent, TrueNotice, Notice, Status
        <3> QED
            BY <1>5, <1>8, <2>1, <3>1 DEF Status
    <2> QED
        BY <1>3, <1>8, <2>1 DEF ServeEnd
<1>9. CASE /\ syncing' = {[type |-> "call_sync", call |-> c, id |-> 0, status |-> session[c]] :
                            c \in LiveCalls} \cup
                        (IF LiveCalls = {} THEN {ServerEvent("call_sync", NoCall)} ELSE {})
           /\ UNCHANGED <<session, answered, events>>
    <2>1. SessionInv' /\ TrueNotice' = TrueNotice
        BY <1>9 DEF ClientInv, SessionInv, TrueNotice
    <2>2. \A c \in LiveCalls : [type |-> "call_sync", call |-> c, id |-> 0, status |-> session[c]] \in TrueNotice
        BY DEF LiveCalls, ClientInv, SessionInv, TrueNotice, Notice, Status
    <2>3. ServerEvent("call_sync", NoCall) \in TrueNotice
        BY DEF ServerEvent, TrueNotice, Notice, Status
    <2>4. syncing' \subseteq TrueNotice
        BY <1>9, <2>2, <2>3
    <2> QED
        BY <1>2, <1>9, <2>1, <2>4 DEF ClientInv, WireInv
<1> QED
    BY <1>6, <1>7, <1>8, <1>9 DEF Serve

(* What the tab does of its own accord leaves the calls and the events alone. *)
LEMMA OwnStep ==
    ASSUME ClientInv, UNCHANGED sessionVars, UNCHANGED events, UNCHANGED outages,
           online' \in BOOLEAN, StateInv',
           \/ requests' = requests
           \/ \E r \in Question : Emit(r) /\ (r.what = "accept" => r.call \in ClientCall)
    PROVE  ClientInv'
<1>1. SessionInv' /\ TrueNotice' = TrueNotice
    BY DEF ClientInv, SessionInv, TrueNotice, sessionVars
<1> QED
    BY <1>1 DEF ClientInv, WireInv, sessionVars, Emit

(* The user and the timers.                                                   *)
LEMMA UserStep ==
    ASSUME ClientInv,
           \/ StartCall \/ AcceptCall \/ EndCall
           \/ RingTimeout \/ AckTimeout \/ AcceptTimeout \/ GraceTimeout
    PROVE  ClientInv'
<1>1. StateInv /\ answered \subseteq ClientCall
    BY DEF ClientInv, SessionInv
<1>2. /\ UNCHANGED sessionVars /\ UNCHANGED <<events, online, outages>> /\ online' \in BOOLEAN
    BY DEF ClientInv, WireInv, StartCall, AcceptCall, EndCall, RingTimeout, AckTimeout, AcceptTimeout,
           GraceTimeout, wireVars
<1>3. answered' = answered
    BY <1>2 DEF sessionVars
<1>4. \A what \in {"initiate", "reject", "cancel", "end", "sync"} : \A c \in ClientCall \cup {NoCall} :
        Request(what, c) \in Question /\ Request(what, c).what # "accept"
    BY DEF Request, Question
<1>5. EndRequest \in Question /\ EndRequest.what # "accept"
    BY <1>1, <1>4 DEF EndRequest, StateInv
<1>6. CASE StartCall
    <2>1. StateInv'
        BY <1>1, <1>3, <1>6 DEF StartCall, Become, StateInv, Wait, TalksWhenAnswered, WaitIsTimed
    <2> QED
        BY <1>2, <1>4, <1>6, <2>1, OwnStep DEF StartCall
<1>7. CASE AcceptCall
    <2> DEFINE r == [what |-> "accept", call |-> callId, id |-> accepts + 1]
    <2>1. /\ phase' = "accepting" /\ remembered' = callId /\ accepts < MaxAccepts
          /\ accepts' = accepts + 1 /\ acceptId' = accepts + 1 /\ timers' = {"accept"}
          /\ callId' = callId /\ blocked' = blocked /\ phase = "ringing_in" /\ Emit(r)
        BY <1>7 DEF AcceptCall
    <2>2. StateInv'
        BY <1>1, <1>3, <2>1, ClientAssumption DEF StateInv, Wait, TalksWhenAnswered, WaitIsTimed
    <2>3. r \in Question /\ r.call \in ClientCall
        BY <1>1, <2>1 DEF StateInv, Question
    <2> QED
        BY <1>2, <2>1, <2>2, <2>3, OwnStep
<1>8. CASE AcceptTimeout
    <2>1. StateInv'
        BY <1>1, <1>3, <1>8 DEF AcceptTimeout, StateInv, Wait, TalksWhenAnswered, WaitIsTimed
    <2> QED
        BY <1>2, <1>4, <1>8, <2>1, OwnStep DEF AcceptTimeout
<1>9. CASE EndCall \/ RingTimeout \/ AckTimeout \/ GraceTimeout
    <2>1. Cleanup /\ (requests' = requests \/ Emit(EndRequest))
        BY <1>9 DEF EndCall, RingTimeout, AckTimeout, GraceTimeout, wireVars
    <2>2. StateInv'
        BY <1>1, <1>3, <2>1, ReactionStep DEF Reaction
    <2> QED
        BY <1>2, <1>5, <2>1, <2>2, OwnStep
<1> QED
    BY <1>6, <1>7, <1>8, <1>9

(* Events and the link.                                                       *)
LEMMA NetworkStep == ASSUME ClientInv, TakeEvent \/ SocketConnected \/ LinkLost \/ Reload PROVE ClientInv'
<1>1. CASE TakeEvent
    <2>1. /\ Reaction /\ events' = Tail(events)
          /\ UNCHANGED <<session, answered, syncing, online, outages>>
          /\ \E c \in ClientCall \cup {NoCall} : Rejects(c)
        BY <1>1, NoticeReacts DEF ClientInv
    <2>2. StateInv'
        BY <2>1, ReactionStep DEF ClientInv, SessionInv
    <2>3. SessionInv' /\ TrueNotice' = TrueNotice
        BY <2>1 DEF ClientInv, SessionInv, TrueNotice
    <2>4. events' \in Seq(TrueNotice)
        BY <1>1, <2>1 DEF ClientInv, WireInv, TakeEvent
    <2>5. requests' \subseteq Question /\ \A r \in requests' : r.what = "accept" => r.call \in ClientCall
        BY <2>1 DEF ClientInv, WireInv, Rejects, Emit, Request, Question
    <2> QED
        BY <2>1, <2>2, <2>3, <2>4, <2>5 DEF ClientInv, WireInv
<1>2. CASE SocketConnected
    <2>1. StateInv'
        BY <1>2 DEF SocketConnected, stateVars, sessionVars, ClientInv, StateInv, TalksWhenAnswered, WaitIsTimed
    <2>2. Request("sync", NoCall) \in Question /\ Request("sync", NoCall).what # "accept"
        BY DEF Request, Question
    <2> QED
        BY <1>2, <2>1, <2>2, OwnStep DEF SocketConnected
<1>3. ASSUME UNCHANGED <<session, answered>>, outages < MaxOutages, outages' = outages + 1,
             online' = FALSE, requests' \subseteq requests, events' = <<>>, syncing' = {}, StateInv'
      PROVE ClientInv'
    <2>1. SessionInv' /\ events' \in Seq(TrueNotice')
        BY <1>3 DEF ClientInv, SessionInv
    <2>2. outages' \in 0..MaxOutages
        BY <1>3, ClientAssumption DEF ClientInv, WireInv
    <2> QED
        BY <1>3, <2>1, <2>2 DEF ClientInv, WireInv
<1>4. CASE LinkLost
    <2>1. StateInv'
        BY <1>4 DEF LinkLost, stateVars, ClientInv, StateInv, TalksWhenAnswered, WaitIsTimed
    <2> QED
        BY <1>3, <1>4, <2>1 DEF LinkLost
<1>5. CASE Reload
    <2>1. StateInv'
        BY <1>5, ClientAssumption DEF Reload, ClientInv, StateInv, TalksWhenAnswered, WaitIsTimed
    <2> QED
        BY <1>3, <1>5, <2>1 DEF Reload
<1> QED
    BY <1>1, <1>2, <1>4, <1>5

LEMMA AnswerStep == ASSUME ClientInv, AnswerSync PROVE ClientInv'
<1>1. PICK e \in syncing \cup {ServerEvent("call_error", NoCall)} : Send(e)
    BY DEF AnswerSync
<1>2. syncing' = {} /\ UNCHANGED <<session, answered, requests, online, outages>> /\ UNCHANGED stateVars
    BY DEF AnswerSync
<1>3. SessionInv' /\ TrueNotice' = TrueNotice
    BY <1>2 DEF ClientInv, SessionInv, TrueNotice
<1>4. e \in TrueNotice'
    BY <1>3 DEF ClientInv, WireInv, ServerEvent, TrueNotice, Notice, Status
<1>5. WireInv'
    BY <1>1, <1>2, <1>4, SendsTruth DEF ClientInv, WireInv
<1>6. StateInv'
    BY <1>2 DEF ClientInv, StateInv, stateVars, TalksWhenAnswered, WaitIsTimed
<1> QED
    BY <1>3, <1>5, <1>6 DEF ClientInv

(* The partner, the other devices, and the server's own clock.                *)
LEMMA OtherSideStep ==
    ASSUME ClientInv, NEW c \in ClientCall,
           PartnerCalls(c) \/ OthersAccept(c) \/ OthersEnd(c) \/ Expire(c)
    PROVE  ClientInv'
<1>1. \A type : ServerEvent(type, c) = [ServerEvent(type, c) EXCEPT !.id = 0]
    BY DEF ServerEvent
<1>2. CASE PartnerCalls(c)
    <2>1. Others(c, "ringing", [ServerEvent("call_incoming", c) EXCEPT !.id = 0])
        BY <1>1, <1>2 DEF PartnerCalls
    <2> QED
        BY <2>1, OthersStep DEF Status
<1>3. CASE OthersAccept(c)
    <2> DEFINE id == IF c \in Outgoing THEN 0 ELSE MaxAccepts + 1
    <2>1. Others(c, "active", [ServerEvent("call_accepted", c) EXCEPT !.id = id])
        BY <1>3 DEF OthersAccept
    <2>2. id \in Nat
        BY ClientAssumption
    <2> HIDE DEF id
    <2> QED
        BY <2>1, <2>2, OthersStep DEF Status
<1>4. CASE OthersEnd(c)
    <2>1. Others(c, "over", [ServerEvent("call_over", c) EXCEPT !.id = 0])
        BY <1>1, <1>4 DEF OthersEnd
    <2> QED
        BY <2>1, OthersStep DEF Status
<1>5. CASE Expire(c)
    <2>1. SetSession(c, "over") /\ UNCHANGED <<syncing, requests, events, online, outages>> /\ UNCHANGED stateVars
        BY <1>5 DEF Expire, wireVars
    <2>2. SessionInv' /\ answered' = answered
        BY <2>1, SetSessionStep DEF ClientInv, Status, SetSession
    <2>3. WireInv' /\ StateInv'
        BY <2>1, <2>2 DEF ClientInv, WireInv, StateInv, stateVars, TrueNotice, TalksWhenAnswered, WaitIsTimed
    <2> QED
        BY <2>2, <2>3 DEF ClientInv
<1> QED
    BY <1>2, <1>3, <1>4, <1>5

LEMMA ClientStep == ClientInv /\ [ClientNext]_clientVars => ClientInv'
<1>1. ASSUME ClientInv, UNCHANGED clientVars PROVE ClientInv'
    BY <1>1 DEF clientVars, sessionVars, wireVars, stateVars, ClientInv, SessionInv, WireInv, StateInv,
                TrueNotice, TalksWhenAnswered, WaitIsTimed
<1> QED
    BY <1>1, UserStep, NetworkStep, AnswerStep, ServeStep, OtherSideStep DEF ClientNext

(* The inductive invariant: the calls, what is on its way, and the waits.     *)
THEOREM ClientInvariant == ClientSpec => []ClientInv
BY ClientInitial, ClientStep, PTL DEF ClientSpec

(* The state of a call, its ids and its timers are what CallManager may hold. *)
THEOREM ClientTypeCorrect == ClientSpec => []ClientTypeOK
<1>1. ClientInv => ClientTypeOK
    BY DEF ClientInv, SessionInv, WireInv, StateInv, ClientTypeOK, Status, Wait
<1> QED
    BY <1>1, ClientInvariant, PTL

(* A tab talks only in a call that was accepted, whatever events of other     *)
(* calls, reconnects and reloads come in between.                             *)
THEOREM TalksOnlyAnswered == ClientSpec => []TalksWhenAnswered
<1>1. ClientInv => TalksWhenAnswered
    BY DEF ClientInv, StateInv
<1> QED
    BY <1>1, ClientInvariant, PTL

(* No tab rings or connects without a timer that ends the wait.               *)
THEOREM WaitsAreTimed == ClientSpec => []WaitIsTimed
<1>1. ClientInv => WaitIsTimed
    BY DEF ClientInv, StateInv
<1> QED
    BY <1>1, ClientInvariant, PTL

-----------------------------------------------------------------------------
(* The calls of one user occupy one line.                                     *)

(* At most one call of this user is under way.                                *)
OneAtOnce ==
    /\ session \in [ClientCall -> Status]
    /\ \A c, d \in LiveCalls : c = d

(* What a step may do to the calls of this user.                              *)
CallMoves(c, s) ==
    /\ session' = [session EXCEPT ![c] = s]
    /\ \/ s = "ringing" /\ session[c] = "none" /\ LiveCalls = {}
       \/ s = "active" /\ session[c] = "ringing"
       \/ s = "over" /\ session[c] \in {"ringing", "active"}

LEMMA SessionMoves ==
    ASSUME ClientInv, [ClientNext]_clientVars
    PROVE  session' = session \/ \E c \in ClientCall, s \in Status : CallMoves(c, s)
<1> USE DEF ClientInv, WireInv, Question
<1>1. ASSUME \/ StartCall \/ AcceptCall \/ EndCall
             \/ RingTimeout \/ AckTimeout \/ AcceptTimeout \/ GraceTimeout
             \/ TakeEvent \/ SocketConnected \/ LinkLost \/ Reload \/ AnswerSync
             \/ UNCHANGED clientVars
      PROVE session' = session
    BY <1>1 DEF StartCall, AcceptCall, EndCall, RingTimeout, AckTimeout, AcceptTimeout, GraceTimeout,
                TakeEvent, SocketConnected, LinkLost, Reload, AnswerSync, clientVars, sessionVars
<1>2. ASSUME NEW r \in requests, Serve(r)
      PROVE session' = session \/ \E c \in ClientCall, s \in Status : CallMoves(c, s)
    <2>1. ASSUME r.what = "initiate", ServeInitiate(r)
          PROVE session' = session \/ \E c \in ClientCall, s \in Status : CallMoves(c, s)
        BY <2>1, ClientAssumption DEF ServeInitiate, Refuse, SetSession, CallMoves, Status
    <2>2. ASSUME r.what = "accept", ServeAccept(r)
          PROVE session' = session \/ \E c \in ClientCall, s \in Status : CallMoves(c, s)
        BY <2>2 DEF ServeAccept, Refuse, SetSession, CallMoves, Status
    <2>3. ASSUME ServeEnd(r)
          PROVE session' = session \/ \E c \in ClientCall, s \in Status : CallMoves(c, s)
        BY <2>3 DEF ServeEnd, SetSession, CallMoves, Status
    <2> QED
        BY <1>2, <2>1, <2>2, <2>3 DEF Serve
<1>3. ASSUME NEW c \in ClientCall, PartnerCalls(c) \/ OthersAccept(c) \/ OthersEnd(c) \/ Expire(c)
      PROVE \E s \in Status : CallMoves(c, s)
    BY <1>3 DEF PartnerCalls, OthersAccept, OthersEnd, Expire, Others, SetSession, CallMoves, Status
<1> QED
    BY <1>1, <1>2, <1>3 DEF ClientNext

LEMMA OneStays ==
    ASSUME OneAtOnce, session' = session \/ \E c \in ClientCall, s \in Status : CallMoves(c, s)
    PROVE  OneAtOnce'
<1>1. CASE session' = session
    BY <1>1 DEF OneAtOnce, LiveCalls
<1>2. ASSUME NEW c \in ClientCall, NEW s \in Status, CallMoves(c, s) PROVE OneAtOnce'
    <2>1. session' \in [ClientCall -> Status] /\ session'[c] = s
          /\ \A d \in ClientCall : d # c => session'[d] = session[d]
        BY <1>2 DEF CallMoves, OneAtOnce
    <2> QED
        BY <1>2, <2>1 DEF CallMoves, OneAtOnce, LiveCalls
<1> QED
    BY <1>1, <1>2

LEMMA OnlyChoice == \A c : (CHOOSE d \in {c} : TRUE) = c /\ {c} # {}
OBVIOUS

LEMMA TelephoneStep ==
    ASSUME OneAtOnce, session' = session \/ \E c \in ClientCall, s \in Status : CallMoves(c, s)
    PROVE  [Telephone!ExchangeNext]_Telephone!exchangeVars
<1> DEFINE you == {"user"}
<1>1. OneAtOnce'
    BY OneStays
<1>2. CASE session' = session
    BY <1>2 DEF Telephone!exchangeVars, CallPhase, UserLine, LiveCalls
<1>3. ASSUME NEW c \in ClientCall, NEW s \in Status, CallMoves(c, s) PROVE Telephone!ExchangeNext
    <2>1. /\ session \in [ClientCall -> Status] /\ session' \in [ClientCall -> Status]
          /\ session'[c] = s /\ \A d \in ClientCall : d # c => session'[d] = session[d]
        BY <1>1, <1>3 DEF CallMoves, OneAtOnce
    <2>2. CASE s = "ringing"
        <3>1. LiveCalls = {} /\ LiveCalls' = {c} /\ session[c] = "none"
            BY <1>3, <2>1, <2>2 DEF CallMoves, LiveCalls
        <3>2. UserLine = [u \in you |-> NoCall] /\ UserLine' = [u \in you |-> c]
            BY <3>1, OnlyChoice DEF UserLine
        <3>3. /\ CallPhase[c] = "new"
              /\ CallPhase' = [d \in ClientCall |-> IF d = c THEN "ringing"
                                                ELSE IF d \in {} THEN "over" ELSE CallPhase[d]]
            BY <2>1, <2>2, <3>1 DEF CallPhase
        <3>4. Telephone!Cleared({}) = UserLine
            BY <3>2 DEF Telephone!Cleared
        <3>5. Telephone!Dial(c, you, {})
            BY <3>2, <3>3, <3>4 DEF Telephone!Dial
        <3> QED
            BY <3>5 DEF Telephone!ExchangeNext
    <2>3. CASE s = "active"
        <3>1. LiveCalls' = LiveCalls /\ c \in LiveCalls /\ session[c] = "ringing"
            BY <1>3, <2>1, <2>3 DEF CallMoves, LiveCalls
        <3>2. UserLine' = UserLine
            BY <3>1 DEF UserLine
        <3>3. CallPhase[c] = "ringing" /\ CallPhase' = [CallPhase EXCEPT ![c] = "talking"]
            BY <2>1, <2>3, <3>1 DEF CallPhase
        <3> QED
            BY <3>2, <3>3 DEF Telephone!ExchangeNext, Telephone!Answer
    <2>4. CASE s = "over"
        <3>1. LiveCalls = {c} /\ LiveCalls' = {} /\ session[c] \in {"ringing", "active"}
            BY <1>3, <2>1, <2>4 DEF CallMoves, LiveCalls, OneAtOnce
        <3>2. UserLine = [u \in you |-> c] /\ UserLine' = [u \in you |-> NoCall]
            BY <3>1, OnlyChoice DEF UserLine
        <3>3. /\ \A d \in {c} : CallPhase[d] \in {"ringing", "talking"}
              /\ CallPhase' = [d \in ClientCall |-> IF d \in {c} THEN "over" ELSE CallPhase[d]]
            BY <2>1, <2>4, <3>1 DEF CallPhase
        <3>4. UserLine' = Telephone!Cleared({c})
            BY <3>2 DEF Telephone!Cleared
        <3> QED
            BY <3>3, <3>4 DEF Telephone!ExchangeNext, Telephone!HangUp
    <2> QED
        BY <1>3, <2>2, <2>3, <2>4 DEF CallMoves
<1> QED
    BY <1>2, <1>3

(* What a user's browser hears of is an Exchange with one line for the user:  *)
(* what the model lets the server and the other devices do is no more than    *)
(* what CallsImplementExchange proves of the service.                         *)
THEOREM BrowserHearsAnExchange == ClientSpec => HearsAnExchange
<1>1. ClientInit => OneAtOnce /\ Telephone!ExchangeInit
    BY DEF ClientInit, OneAtOnce, Status, LiveCalls, Telephone!ExchangeInit, CallPhase, UserLine
<1>2. ClientInv /\ OneAtOnce /\ [ClientNext]_clientVars
      => OneAtOnce' /\ [Telephone!ExchangeNext]_Telephone!exchangeVars
    BY SessionMoves, OneStays, TelephoneStep
<1> QED
    BY <1>1, <1>2, ClientInvariant, PTL DEF ClientSpec, HearsAnExchange, Telephone!ExchangeSpec

-----------------------------------------------------------------------------
(* ChatView: isLoadingInitial of a chat stands for a request of the chat that *)
(* is not out of date, so that opening the chat again may rely on it.         *)

Fetch == [of : Dialog, token : 1..MaxOpens,
          at : {"cache", "decode_cache", "render", "request", "bars", "decode"},
          delta : BOOLEAN, page : SUBSET Note]

(* No token is younger than the openings counted.                             *)
TokensCount == \A c \in Dialog : lastFetch[c] <= opens

(* The finally block of the request has still to run.                         *)
Begun(f) == f.at \in {"request", "bars", "decode"}

LoadIsUnderWay ==
    \A c \in Dialog : loading[c] => \E f \in fetches : f.of = c /\ Latest(f) /\ Begun(f)

ViewInv == ViewTypeOK /\ TokensCount /\ LoadIsUnderWay /\ OpenDialogLoads

(* A page is made of messages. *)
LEMMA PagesAreNotes ==
    ASSUME NEW c, NEW ids \in SUBSET Note PROVE Newest(c, ids) \subseteq Note
BY DEF Newest, In

LEMMA ViewInitial == ViewInit => ViewInv
<1> SUFFICES ASSUME ViewInit PROVE ViewInv
    OBVIOUS
<1>1. inTable \subseteq Note /\ delivered = inTable /\ deciphering = {} /\ current = NoDialog
    BY DEF ViewInit
<1>2. listed \in [Dialog -> SUBSET Note] /\ cached \in [Dialog -> SUBSET Note]
    BY <1>1 DEF ViewInit, In
<1>3. /\ initialized \in [Dialog -> BOOLEAN] /\ loading \in [Dialog -> BOOLEAN]
      /\ lastFetch \in [Dialog -> 0..MaxOpens] /\ opens \in 0..MaxOpens
      /\ fetches = {} /\ older = {} /\ failed = {}
      /\ \A c \in Dialog : ~loading[c] /\ lastFetch[c] = 0
      /\ opens = 0
    BY ViewAssumption DEF ViewInit
<1>4. ViewTypeOK
    BY <1>1, <1>2, <1>3 DEF ViewTypeOK
<1>5. TokensCount /\ LoadIsUnderWay
    BY <1>3 DEF TokensCount, LoadIsUnderWay
<1>6. OpenDialogLoads
    BY <1>1 DEF OpenDialogLoads
<1> QED
    BY <1>4, <1>5, <1>6 DEF ViewInv

(* Leaving a chat aborts its requests; the flag of a chat stays up only       *)
(* beside a load that stays.                                                   *)
LEMMA LeaveStep ==
    ASSUME ViewInv, NEW left \in Dialog \cup {NoDialog}, LeaveDialog(left)
    PROVE  /\ older' \in SUBSET older /\ loading' \in [Dialog -> BOOLEAN]
           /\ \A c \in Dialog : loading'[c] =>
                loading[c] /\ \E f \in fetches \ Aborted(left) : f.of = c /\ Latest(f) /\ Begun(f)
<1> USE DEF LeaveDialog
<1>1. older' \in SUBSET older /\ loading' \in [Dialog -> BOOLEAN]
    BY DEF ViewInv, ViewTypeOK
<1>2. ASSUME NEW c \in Dialog, loading'[c]
      PROVE  loading[c] /\ \E f \in fetches \ Aborted(left) : f.of = c /\ Latest(f) /\ Begun(f)
    <2>1. loading[c] /\ ~(\E f \in Aborted(left) : c = left /\ f.token = lastFetch[c])
        BY <1>2
    <2>2. PICK f \in fetches : f.of = c /\ Latest(f) /\ Begun(f)
        BY <2>1 DEF ViewInv, LoadIsUnderWay
    <2>3. f \notin Aborted(left)
        BY <2>1, <2>2 DEF Aborted, Latest
    <2> QED
        BY <2>1, <2>2, <2>3
<1> QED
    BY <1>1, <1>2

LEMMA OpenStep == ASSUME ViewInv, NEW c \in Dialog, OpenDialog(c) PROVE ViewInv'
<1> DEFINE left == IF c = current THEN NoDialog ELSE current
           fetch == [of |-> c, token |-> lastFetch[c] + 1, at |-> "cache", delta |-> FALSE, page |-> {}]
<1>1. /\ opens < MaxOpens /\ opens' = opens + 1 /\ current' = c
      /\ LeaveDialog(left)
      /\ lastFetch' = [lastFetch EXCEPT ![c] = IF loading[c] THEN @ ELSE @ + 1]
      /\ fetches' = (fetches \ Aborted(left)) \cup (IF loading[c] \/ initialized[c] THEN {} ELSE {fetch})
      /\ failed' = IF loading[c] THEN failed ELSE failed \ {c}
      /\ UNCHANGED <<unseenVars, listed, initialized, cached>>
    BY DEF OpenDialog
<1>2. /\ left \in Dialog \cup {NoDialog} /\ left # c
      /\ \A f \in Aborted(left) : f.of # c
    BY ViewAssumption DEF ViewInv, ViewTypeOK, Aborted
<1>3. /\ older' \in SUBSET older /\ loading' \in [Dialog -> BOOLEAN]
      /\ \A d \in Dialog : loading'[d] =>
            loading[d] /\ \E f \in fetches \ Aborted(left) : f.of = d /\ Latest(f) /\ Begun(f)
    BY <1>1, <1>2, LeaveStep
<1>4. /\ opens' \in 0..MaxOpens /\ lastFetch[c] \in Nat /\ lastFetch[c] <= opens /\ opens \in Nat
      /\ fetch \in Fetch
    BY <1>1, ViewAssumption DEF ViewInv, ViewTypeOK, TokensCount, Fetch
<1> HIDE DEF left, fetch
<1>5. \A d \in Dialog : lastFetch'[d] = IF d = c /\ ~loading[c] THEN lastFetch[d] + 1 ELSE lastFetch[d]
    BY <1>1 DEF ViewInv, ViewTypeOK
<1>6. lastFetch' \in [Dialog -> 0..MaxOpens] /\ TokensCount'
    <2>1. \A d \in Dialog : lastFetch[d] \in Nat /\ lastFetch[d] <= opens
        BY DEF ViewInv, ViewTypeOK, TokensCount
    <2>2. \A d \in Dialog : lastFetch'[d] \in 0..MaxOpens /\ lastFetch'[d] <= opens'
        BY <1>1, <1>4, <1>5, <2>1, ViewAssumption
    <2>3. DOMAIN lastFetch' = Dialog
        BY <1>1 DEF ViewInv, ViewTypeOK
    <2> QED
        BY <1>1, <2>2, <2>3 DEF ViewInv, ViewTypeOK, TokensCount
<1>7. ViewTypeOK'
    <2>1. fetches' \subseteq Fetch
        BY <1>1, <1>4 DEF ViewInv, ViewTypeOK, Fetch
    <2> QED
        BY <1>1, <1>3, <1>4, <1>6, <2>1 DEF ViewInv, ViewTypeOK, unseenVars, Fetch
<1>8. LoadIsUnderWay'
    <2> SUFFICES ASSUME NEW d \in Dialog, loading'[d]
                 PROVE \E f \in fetches' : f.of = d /\ Latest(f)' /\ Begun(f)
        BY DEF LoadIsUnderWay, Begun
    <2>1. loading[d] /\ lastFetch'[d] = lastFetch[d]
        BY <1>3, <1>5
    <2>2. PICK f \in fetches \ Aborted(left) : f.of = d /\ Latest(f) /\ Begun(f)
        BY <1>3
    <2> QED
        BY <1>1, <2>1, <2>2 DEF Latest
<1>9. OpenDialogLoads'
    <2>1. CASE loading[c]
        <3>1. PICK f \in fetches : f.of = c /\ Latest(f)
            BY <2>1 DEF ViewInv, LoadIsUnderWay
        <3>2. f \in fetches' /\ lastFetch'[c] = lastFetch[c]
            BY <1>1, <1>2, <1>5, <2>1, <3>1
        <3> QED
            BY <1>1, <3>1, <3>2 DEF OpenDialogLoads, Shown, Latest
    <2>2. CASE ~loading[c] /\ ~initialized[c]
        <3>1. fetch \in fetches' /\ lastFetch'[c] = lastFetch[c] + 1
            BY <1>1, <1>5, <2>2
        <3>2. fetch.of = c /\ fetch.token = lastFetch[c] + 1
            BY DEF fetch
        <3> QED
            BY <1>1, <3>1, <3>2 DEF OpenDialogLoads, Shown, Latest
    <2>3. CASE initialized[c]
        BY <1>1, <2>3 DEF OpenDialogLoads
    <2> QED
        BY <2>1, <2>2, <2>3
<1> QED
    BY <1>6, <1>7, <1>8, <1>9 DEF ViewInv

LEMMA CloseStep == ASSUME ViewInv, CloseDialog PROVE ViewInv'
<1>1. /\ current \in Dialog /\ opens < MaxOpens /\ opens' = opens + 1 /\ current' = NoDialog
      /\ LeaveDialog(current) /\ fetches' = fetches \ Aborted(current)
      /\ UNCHANGED <<unseenVars, listed, initialized, lastFetch, cached, failed>>
    BY DEF CloseDialog, ViewInv, ViewTypeOK
<1>2. /\ older' \in SUBSET older /\ loading' \in [Dialog -> BOOLEAN]
      /\ \A d \in Dialog : loading'[d] =>
            loading[d] /\ \E f \in fetches \ Aborted(current) : f.of = d /\ Latest(f) /\ Begun(f)
    BY <1>1, LeaveStep
<1>3. opens' \in 0..MaxOpens /\ TokensCount'
    <2>1. \A d \in Dialog : lastFetch[d] \in Nat /\ lastFetch[d] <= opens
        BY DEF ViewInv, ViewTypeOK, TokensCount
    <2>2. opens \in Nat
        BY DEF ViewInv, ViewTypeOK
    <2>3. \A d \in Dialog : lastFetch[d] <= opens + 1
        BY <2>1, <2>2
    <2> QED
        BY <1>1, <2>2, <2>3, ViewAssumption DEF TokensCount
<1>4. ViewTypeOK'
    BY <1>1, <1>2, <1>3 DEF ViewInv, ViewTypeOK, unseenVars
<1>5. LoadIsUnderWay'
    BY <1>1, <1>2 DEF LoadIsUnderWay, Latest, Begun
<1>6. OpenDialogLoads'
    BY <1>1 DEF OpenDialogLoads
<1> QED
    BY <1>3, <1>4, <1>5, <1>6 DEF ViewInv

(* What no step of a load does: undo a load, or forget a failure.             *)
Onward ==
    /\ listed' \in [Dialog -> SUBSET Note] /\ cached' \in [Dialog -> SUBSET Note]
    /\ initialized' \in [Dialog -> BOOLEAN]
    /\ \A c \in Dialog : initialized[c] => initialized'[c]
    /\ failed \subseteq failed' /\ failed' \subseteq Dialog
    /\ UNCHANGED <<unseenVars, current, lastFetch, older, opens>>

LEMMA OnwardKeeps ==
    ASSUME ViewInv, Onward, fetches' \subseteq Fetch, loading' \in [Dialog -> BOOLEAN]
    PROVE  ViewTypeOK' /\ TokensCount'
<1>1. ViewTypeOK'
    BY DEF ViewInv, ViewTypeOK, Onward, unseenVars, Fetch
<1>2. TokensCount'
    BY DEF ViewInv, TokensCount, Onward
<1> QED
    BY <1>1, <1>2

(* A load goes on to its next await, and may begin its request.               *)
LEMMA ContinueStep ==
    ASSUME ViewInv, Onward, NEW f \in fetches, NEW g \in Fetch, Continue(f, g),
           g.of = f.of, g.token = f.token, Begun(f) => Begun(g),
           \/ loading' = loading
           \/ loading' = [loading EXCEPT ![f.of] = TRUE] /\ Latest(f) /\ Begun(g)
    PROVE  ViewInv'
<1>1. /\ fetches \subseteq Fetch /\ loading \in [Dialog -> BOOLEAN] /\ f.of \in Dialog
      /\ fetches' = (fetches \ {f}) \cup {g}
    BY DEF ViewInv, ViewTypeOK, Fetch, Continue
<1>2. fetches' \subseteq Fetch /\ loading' \in [Dialog -> BOOLEAN]
    BY <1>1
<1>3. ViewTypeOK' /\ TokensCount'
    BY <1>2, OnwardKeeps
<1>4. \A h : Latest(h)' <=> Latest(h)
    BY DEF Onward, Latest
<1>5. Latest(g) <=> Latest(f)
    BY DEF Latest
<1>6. LoadIsUnderWay'
    <2> SUFFICES ASSUME NEW c \in Dialog, loading'[c]
                 PROVE \E h \in fetches' : h.of = c /\ Latest(h)' /\ Begun(h)
        BY DEF LoadIsUnderWay, Begun
    <2>1. CASE loading[c]
        <3>1. PICK h \in fetches : h.of = c /\ Latest(h) /\ Begun(h)
            BY <2>1 DEF ViewInv, LoadIsUnderWay
        <3> QED
            BY <1>1, <1>4, <1>5, <3>1
    <2>2. CASE ~loading[c]
        <3>1. c = f.of /\ Latest(f) /\ Begun(g)
            BY <1>1, <2>2
        <3> QED
            BY <1>1, <1>4, <1>5, <3>1
    <2> QED
        BY <2>1, <2>2
<1>7. OpenDialogLoads'
    <2> SUFFICES ASSUME current' # NoDialog, ~initialized'[current'], current' \notin failed'
                 PROVE \E h \in fetches' : Shown(h)' /\ Latest(h)'
        BY DEF OpenDialogLoads
    <2>1. current' = current /\ current \in Dialog /\ ~initialized[current] /\ current \notin failed
        BY DEF Onward, ViewInv, ViewTypeOK
    <2>2. PICK h \in fetches : Shown(h) /\ Latest(h)
        BY <2>1 DEF ViewInv, OpenDialogLoads
    <2> QED
        BY <1>1, <1>4, <1>5, <2>1, <2>2 DEF Shown
<1> QED
    BY <1>3, <1>6, <1>7 DEF ViewInv

(* A load ends: the chat it loads has its list, is not open any more, was     *)
(* opened again since, or its failure was told.                                *)
LEMMA FinishStep ==
    ASSUME ViewInv, Onward, NEW f \in fetches, FinishFetch(f),
           Shown(f) /\ Latest(f) => initialized'[f.of] \/ f.of \in failed'
    PROVE  ViewInv'
<1>1. /\ fetches \subseteq Fetch /\ loading \in [Dialog -> BOOLEAN] /\ f.of \in Dialog
      /\ fetches' = fetches \ {f}
      /\ loading' = IF Begun(f) /\ Latest(f) THEN [loading EXCEPT ![f.of] = FALSE] ELSE loading
    BY DEF ViewInv, ViewTypeOK, Fetch, FinishFetch, Begun
<1>2. ViewTypeOK' /\ TokensCount'
    BY <1>1, OnwardKeeps
<1>3. \A h : Latest(h)' <=> Latest(h)
    BY DEF Onward, Latest
<1>4. LoadIsUnderWay'
    <2> SUFFICES ASSUME NEW c \in Dialog, loading'[c]
                 PROVE \E h \in fetches' : h.of = c /\ Latest(h)' /\ Begun(h)
        BY DEF LoadIsUnderWay, Begun
    <2>1. loading[c] /\ ~(c = f.of /\ Begun(f) /\ Latest(f))
        BY <1>1
    <2>2. PICK h \in fetches : h.of = c /\ Latest(h) /\ Begun(h)
        BY <2>1 DEF ViewInv, LoadIsUnderWay
    <2> QED
        BY <1>1, <1>3, <2>1, <2>2
<1>5. OpenDialogLoads'
    <2> SUFFICES ASSUME current' # NoDialog, ~initialized'[current'], current' \notin failed'
                 PROVE \E h \in fetches' : Shown(h)' /\ Latest(h)'
        BY DEF OpenDialogLoads
    <2>1. current' = current /\ current \in Dialog /\ ~initialized[current] /\ current \notin failed
        BY DEF Onward, ViewInv, ViewTypeOK
    <2>2. PICK h \in fetches : Shown(h) /\ Latest(h)
        BY <2>1 DEF ViewInv, OpenDialogLoads
    <2>3. h # f
        BY <2>1, <2>2 DEF Shown
    <2> QED
        BY <1>1, <1>3, <2>1, <2>2, <2>3 DEF Shown
<1> QED
    BY <1>2, <1>4, <1>5 DEF ViewInv

(* The request begins, or the load is out of date and ends.                   *)
LEMMA BeginStep ==
    ASSUME ViewInv, Onward, NEW f \in fetches, ~Begun(f), BeginRequest(f) PROVE ViewInv'
<1>1. f \in Fetch
    BY DEF ViewInv, ViewTypeOK, Fetch
<1>2. CASE Latest(f) /\ Shown(f)
    <2> DEFINE g == [f EXCEPT !.at = "request", !.delta = f.at = "cache" /\ listed[f.of] # {}]
    <2>1. g \in Fetch /\ g.of = f.of /\ g.token = f.token /\ Begun(g)
        BY <1>1 DEF Fetch, Begun
    <2>2. Continue(f, g) /\ loading' = [loading EXCEPT ![f.of] = TRUE]
        BY <1>2 DEF BeginRequest
    <2> HIDE DEF g
    <2> QED
        BY <1>2, <2>1, <2>2, ContinueStep
<1>3. CASE ~(Latest(f) /\ Shown(f))
    BY <1>3, FinishStep DEF BeginRequest
<1> QED
    BY <1>2, <1>3

LEMMA FetchStep == ASSUME ViewInv, Fetching PROVE ViewInv'
<1>1. PICK f \in fetches :
        \/ CacheRead(f) \/ CacheDecoded(f) \/ CacheRendered(f)
        \/ Answered(f) \/ BarsRestored(f) \/ PageDecoded(f) \/ FetchFails(f)
    BY DEF Fetching
<1>2. UNCHANGED <<unseenVars, current, lastFetch, older, opens>>
    BY DEF Fetching
<1>3. /\ f \in Fetch /\ f.of \in Dialog /\ f.page \subseteq Note
      /\ listed \in [Dialog -> SUBSET Note] /\ cached \in [Dialog -> SUBSET Note]
      /\ initialized \in [Dialog -> BOOLEAN] /\ failed \subseteq Dialog
      /\ inTable \subseteq Note
    BY DEF ViewInv, ViewTypeOK, Fetch
<1>4. ASSUME UNCHANGED <<listed, initialized, cached>>, failed' \in {failed, failed \cup {f.of}} PROVE Onward
    BY <1>2, <1>3, <1>4 DEF Onward
<1>5. CASE CacheRead(f)
    <2>1. Onward /\ ~Begun(f)
        BY <1>4, <1>5 DEF CacheRead, Begun
    <2>2. CASE cached[f.of] # {} /\ Latest(f) /\ Shown(f)
        <3> DEFINE g == [f EXCEPT !.at = "decode_cache", !.page = cached[f.of]]
        <3>1. g \in Fetch /\ g.of = f.of /\ g.token = f.token
            BY <1>3 DEF Fetch
        <3>2. Continue(f, g) /\ loading' = loading
            BY <1>5, <2>2 DEF CacheRead
        <3> HIDE DEF g
        <3> QED
            BY <2>1, <3>1, <3>2, ContinueStep
    <2> QED
        BY <1>5, <2>1, <2>2, BeginStep DEF CacheRead
<1>6. CASE CacheRendered(f)
    BY <1>4, <1>6, BeginStep DEF CacheRendered, Begun
<1>7. CASE CacheDecoded(f)
    <2>1. CASE Latest(f) /\ Shown(f)
        <3> DEFINE g == [f EXCEPT !.at = "render"]
        <3>1. g \in Fetch /\ g.of = f.of /\ g.token = f.token /\ ~Begun(f)
            BY <1>3, <1>7 DEF Fetch, Begun, CacheDecoded
        <3>2. /\ Continue(f, g) /\ loading' = loading /\ cached' = cached /\ failed' = failed
              /\ listed' = [listed EXCEPT ![f.of] = f.page]
              /\ initialized' = [initialized EXCEPT ![f.of] = TRUE]
            BY <1>7, <2>1 DEF CacheDecoded
        <3>3. Onward
            BY <1>2, <1>3, <3>2 DEF Onward
        <3> HIDE DEF g
        <3> QED
            BY <3>1, <3>2, <3>3, ContinueStep
    <2>2. CASE ~(Latest(f) /\ Shown(f))
        BY <1>4, <1>7, <2>2, FinishStep DEF CacheDecoded
    <2> QED
        BY <2>1, <2>2
<1>8. CASE Answered(f)
    <2>1. Onward
        BY <1>4, <1>8 DEF Answered
    <2>2. CASE Latest(f) /\ Shown(f)
        <3> DEFINE g == [f EXCEPT !.at = "bars", !.page = PageFor(f)]
        <3>1. PageFor(f) \subseteq Note
            BY <1>3, PagesAreNotes DEF PageFor, In
        <3>2. g \in Fetch /\ g.of = f.of /\ g.token = f.token /\ Begun(g)
            BY <1>3, <3>1 DEF Fetch, Begun
        <3>3. Continue(f, g) /\ loading' = loading
            BY <1>8, <2>2 DEF Answered
        <3> HIDE DEF g
        <3> QED
            BY <2>1, <3>2, <3>3, ContinueStep
    <2>3. CASE ~(Latest(f) /\ Shown(f))
        BY <1>8, <2>1, <2>3, FinishStep DEF Answered
    <2> QED
        BY <2>2, <2>3
<1>9. CASE BarsRestored(f)
    <2> DEFINE g == [f EXCEPT !.at = "decode"]
    <2>1. g \in Fetch /\ g.of = f.of /\ g.token = f.token /\ Begun(g)
        BY <1>3 DEF Fetch, Begun
    <2>2. Continue(f, g) /\ loading' = loading
        BY <1>9 DEF BarsRestored
    <2>3. f.delta \in BOOLEAN
        BY <1>3 DEF Fetch
    <2>4. Onward
        BY <1>2, <1>3, <1>9, <2>3 DEF Onward, BarsRestored
    <2> HIDE DEF g
    <2> QED
        BY <2>1, <2>2, <2>4, ContinueStep
<1>10. CASE PageDecoded(f)
    <2>1. FinishFetch(f) /\ failed' = failed
        BY <1>10 DEF PageDecoded
    <2>2. CASE Latest(f) /\ (f.delta => Shown(f))
        <3>1. /\ listed' = [listed EXCEPT ![f.of] = IF f.delta THEN @ \cup f.page ELSE f.page]
              /\ initialized' = [initialized EXCEPT ![f.of] = TRUE]
              /\ cached' = [cached EXCEPT ![f.of] = IF f.delta THEN @ \cup f.page ELSE f.page]
            BY <1>10, <2>2 DEF PageDecoded
        <3>2. Onward
            BY <1>2, <1>3, <2>1, <3>1 DEF Onward
        <3> QED
            BY <1>3, <2>1, <3>1, <3>2, FinishStep
    <2>3. CASE ~(Latest(f) /\ (f.delta => Shown(f)))
        BY <1>4, <1>10, <2>1, <2>3, FinishStep DEF PageDecoded
    <2> QED
        BY <2>2, <2>3
<1>11. CASE FetchFails(f)
    BY <1>3, <1>4, <1>11, FinishStep DEF FetchFails
<1> QED
    BY <1>1, <1>5, <1>6, <1>7, <1>8, <1>9, <1>10, <1>11

(* Older pages and live messages leave the loads, the flags and the tokens.   *)
LEMMA ListStep ==
    ASSUME ViewInv, UNCHANGED <<current, initialized, loading, lastFetch, fetches, failed, opens>>,
           inTable' \subseteq Note, delivered' \subseteq inTable',
           deciphering' \subseteq [id : Note, open : BOOLEAN],
           listed' \in [Dialog -> SUBSET Note], cached' \in [Dialog -> SUBSET Note],
           older' \subseteq [of : Dialog, at : {"request", "decode"}, page : SUBSET Note]
    PROVE  ViewInv'
<1>1. ViewTypeOK'
    BY DEF ViewInv, ViewTypeOK
<1>2. TokensCount' /\ LoadIsUnderWay' /\ OpenDialogLoads'
    BY DEF ViewInv, TokensCount, LoadIsUnderWay, OpenDialogLoads, Latest, Shown, Begun
<1> QED
    BY <1>1, <1>2 DEF ViewInv

LEMMA OlderStep ==
    ASSUME ViewInv, LoadOlder \/ \E o \in older : OlderAnswered(o) \/ OlderDecoded(o) PROVE ViewInv'
<1> DEFINE Older == [of : Dialog, at : {"request", "decode"}, page : SUBSET Note]
<1>1. /\ older \subseteq Older /\ current \in Dialog \cup {NoDialog} /\ inTable \subseteq Note
      /\ listed \in [Dialog -> SUBSET Note] /\ cached \in [Dialog -> SUBSET Note]
    BY DEF ViewInv, ViewTypeOK
<1>2. UNCHANGED <<current, initialized, loading, lastFetch, fetches, failed, opens>> /\ UNCHANGED unseenVars
    BY DEF LoadOlder, OlderAnswered, OlderDecoded
<1>3. /\ inTable' \subseteq Note /\ delivered' \subseteq inTable'
      /\ deciphering' \subseteq [id : Note, open : BOOLEAN]
    BY <1>2 DEF ViewInv, ViewTypeOK, unseenVars
<1>4. CASE LoadOlder
    <2>1. Newest(current, {n \in inTable : n < Min(listed[current])}) \subseteq Note
        BY <1>1, PagesAreNotes
    <2>2. older' \subseteq Older /\ listed' = listed /\ cached' = cached
        BY <1>1, <1>4, <2>1 DEF LoadOlder
    <2> QED
        BY <1>1, <1>2, <1>3, <2>2, ListStep
<1>5. ASSUME NEW o \in older, OlderAnswered(o) PROVE ViewInv'
    <2>1. older' \subseteq Older /\ listed' = listed /\ cached' = cached
        BY <1>1, <1>5 DEF OlderAnswered
    <2> QED
        BY <1>1, <1>2, <1>3, <2>1, ListStep
<1>6. ASSUME NEW o \in older, OlderDecoded(o) PROVE ViewInv'
    <2>1. /\ older' \subseteq Older
          /\ listed' \in [Dialog -> SUBSET Note] /\ cached' \in [Dialog -> SUBSET Note]
        BY <1>1, <1>6 DEF OlderDecoded
    <2> QED
        BY <1>1, <1>2, <1>3, <2>1, ListStep
<1> QED
    BY <1>4, <1>5, <1>6

LEMMA NoteStep ==
    ASSUME ViewInv,
           \/ \E n \in Note : StoreNote(n) \/ ReceiveNote(n)
           \/ \E d \in deciphering : NoteDeciphered(d)
    PROVE  ViewInv'
<1>1. /\ older \subseteq [of : Dialog, at : {"request", "decode"}, page : SUBSET Note]
      /\ current \in Dialog \cup {NoDialog} /\ inTable \subseteq Note /\ delivered \subseteq inTable
      /\ deciphering \subseteq [id : Note, open : BOOLEAN]
      /\ listed \in [Dialog -> SUBSET Note] /\ cached \in [Dialog -> SUBSET Note]
    BY DEF ViewInv, ViewTypeOK
<1>2. ASSUME NEW n \in Note, StoreNote(n) PROVE ViewInv'
    BY <1>1, <1>2, ListStep DEF StoreNote
<1>3. ASSUME NEW n \in Note, ReceiveNote(n) PROVE ViewInv'
    <2>1. deciphering' \subseteq [id : Note, open : BOOLEAN]
        <3> DEFINE open == DialogOf[n] = current
        <3>1. deciphering' = deciphering \cup {[id |-> n, open |-> open]} /\ open \in BOOLEAN
            BY <1>3 DEF ReceiveNote
        <3> HIDE DEF open
        <3> QED
            BY <1>1, <3>1
    <2>2. cached' \in [Dialog -> SUBSET Note]
        <3> DEFINE c == DialogOf[n]
        <3>1. cached' = [cached EXCEPT ![c] = @ \cup {n}]
            BY <1>3 DEF ReceiveNote
        <3> HIDE DEF c
        <3> QED
            BY <1>1, <3>1
    <2> QED
        BY <1>1, <1>3, <2>1, <2>2, ListStep DEF ReceiveNote
<1>4. ASSUME NEW d \in deciphering, NoteDeciphered(d) PROVE ViewInv'
    <2>1. d.id \in Note
        BY <1>1
    <2>2. listed' \in [Dialog -> SUBSET Note]
        BY <1>1, <1>4, <2>1 DEF NoteDeciphered, List
    <2> QED
        BY <1>1, <1>4, <2>2, ListStep DEF NoteDeciphered
<1> QED
    BY <1>2, <1>3, <1>4

LEMMA ViewStep == ViewInv /\ [ViewNext]_viewVars => ViewInv'
<1>1. ASSUME ViewInv, UNCHANGED viewVars PROVE ViewInv'
    BY <1>1 DEF viewVars, unseenVars, ViewInv, ViewTypeOK, TokensCount, LoadIsUnderWay, OpenDialogLoads,
                Latest, Shown, Begun
<1> QED
    BY <1>1, OpenStep, CloseStep, FetchStep, OlderStep, NoteStep DEF ViewNext

(* The inductive invariant: a flag that keeps a chat from being loaded again  *)
(* has a load that keeps its promise.                                          *)
THEOREM ViewInvariant == ViewSpec => []ViewInv
BY ViewInitial, ViewStep, PTL DEF ViewSpec

(* The lists, the flags and the loads are what the state store may hold.      *)
THEOREM ViewTypeCorrect == ViewSpec => []ViewTypeOK
<1>1. ViewInv => ViewTypeOK
    BY DEF ViewInv
<1> QED
    BY <1>1, ViewInvariant, PTL

(* An open chat gets its history however fast the user changes chats.         *)
THEOREM OpenDialogsLoad == ViewSpec => []OpenDialogLoads
<1>1. ViewInv => OpenDialogLoads
    BY DEF ViewInv
<1> QED
    BY <1>1, ViewInvariant, PTL
==============================================================================
