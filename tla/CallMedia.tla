------------------------------ MODULE CallMedia ------------------------------
(***************************************************************************)
(* The microphone, camera and screen of a tab: CallMedia, and the parts of *)
(* CallManager that await it.  A call may end, and the next one begin,     *)
(* while a device is being opened, replaced or attached to the sender;     *)
(* _callLifecycleSeq tells what is awaited for a call that is over.        *)
(***************************************************************************)
EXTENDS Naturals, FiniteSets

CONSTANTS
    Track,         \* capture tracks of the browser
    MaxOperations  \* operations on devices under way

ASSUME MediaAssumption ==
    Track \subseteq Nat \ {0} /\ IsFiniteSet(Track) /\ MaxOperations \in Nat

VARIABLES
    inCall,     \* _state is 'active'
    starts,     \* calls of _startMedia that await something
    held,       \* the tracks of _media, 0 for none
    operations, \* changes of microphone, camera or screen that await something
    capturing   \* tracks the browser captures

mediaVars == <<inCall, starts, held, operations, capturing>>

Device == {"audio", "video"}
NoMedia == [d \in Device |-> 0]

MediaTypeOK ==
    /\ inCall \in BOOLEAN
    /\ starts \subseteq [at : {"ice", "camera", "microphone"}, current : BOOLEAN]
    /\ held \in [Device -> Track \cup {0}]
    /\ operations \subseteq [on : Device, at : {"prepare", "attach", "revert", "detach"},
                             track : Track \cup {0}, current : BOOLEAN]
    /\ capturing \subseteq Track

MediaInit ==
    /\ inCall = FALSE /\ starts = {} /\ held = NoMedia
    /\ operations = {} /\ capturing = {}

Stop(tracks) == capturing' = capturing \ tracks

(* _cleanup: the tracks of the call are stopped, and what is awaited belongs *)
(* to no current call from now on.                                           *)
ReleaseMedia ==
    /\ inCall' = FALSE
    /\ held' = NoMedia
    /\ Stop({held[d] : d \in Device})
    /\ starts' = {[s EXCEPT !.current = FALSE] : s \in starts}
    /\ operations' = {[o EXCEPT !.current = FALSE] : o \in operations}

(* A call becomes active: _startMedia asks for the ICE servers first. *)
StartMedia ==
    /\ ~inCall /\ inCall' = TRUE
    /\ starts' = starts \cup {[at |-> "ice", current |-> TRUE]}
    /\ UNCHANGED <<held, operations, capturing>>

EndMedia == inCall /\ ReleaseMedia

-----------------------------------------------------------------------------
(* _startMedia: what each of its awaits finds when it is over.             *)

Unused == Track \ (capturing \cup {held.audio, held.video} \cup {o.track : o \in operations})

IceServers(s) ==
    /\ s \in starts /\ s.at = "ice"
    /\ starts' = (starts \ {s}) \cup
                 (IF s.current THEN {[at |-> "camera", current |-> TRUE]} ELSE {})
    /\ UNCHANGED <<inCall, held, operations, capturing>>

(* The microphone, with the camera or without; a tab whose call is over      *)
(* closes them again.                                                        *)
DevicesOpened(s) ==
    /\ s \in starts /\ s.at # "ice"
    /\ starts' = starts \ {s}
    /\ \/ /\ s.current
          /\ \E k \in Unused, v \in (IF s.at = "camera" THEN Unused ELSE {}) \cup {0} :
                /\ k # v
                /\ held' = [audio |-> k, video |-> v]
                /\ capturing' = capturing \cup ({k, v} \ {0})
       \/ ~s.current /\ UNCHANGED <<held, capturing>>
    /\ UNCHANGED <<inCall, operations>>

(* Without a camera the microphone alone is asked for; without either, or   *)
(* without ICE servers, the call is ended, if it still is this one.         *)
StartFails(s) ==
    /\ s \in starts
    /\ \/ /\ s.at = "camera"
          /\ starts' = (starts \ {s}) \cup {[s EXCEPT !.at = "microphone"]}
          /\ UNCHANGED <<inCall, held, operations, capturing>>
       \/ /\ ~s.current
          /\ starts' = starts \ {s}
          /\ UNCHANGED <<inCall, held, operations, capturing>>
       \/ s.current /\ ReleaseMedia

-----------------------------------------------------------------------------
(* _toggleVideo, _switchCamera, _selectCamera, _toggleScreenShare, the      *)
(* choice of a microphone and _toggleAudio after the track had ended.       *)
(* Operations on the video of a call run one after the other.               *)

Now(o, at, track) == operations' = (operations \ {o}) \cup {[o EXCEPT !.at = at, !.track = track]}
Done(o) == operations' = operations \ {o}

BeginOperation(d, at) ==
    /\ inCall /\ \A s \in starts : ~s.current
    /\ d = "video" => \A o \in operations : o.current => o.on # "video"
    /\ Cardinality(operations) < MaxOperations
    /\ at = "detach" => d = "video" /\ held.video # 0
    /\ operations' = operations \cup {[on |-> d, at |-> at, track |-> 0, current |-> TRUE]}
    /\ UNCHANGED <<inCall, starts, held, capturing>>

Prepared(o) ==
    /\ o \in operations /\ o.at = "prepare"
    /\ \/ /\ o.current
          /\ \E k \in Unused : Now(o, "attach", k) /\ capturing' = capturing \cup {k}
       \/ ~o.current /\ Done(o) /\ UNCHANGED capturing
    /\ UNCHANGED <<inCall, starts, held>>

(* Broken: a track that comes too late for its call is not stopped. *)
AttachedLate(o) ==
    /\ o \in operations /\ o.at = "attach"
    /\ Done(o)
    /\ \/ /\ o.current
          /\ Stop({held[o.on]})
          /\ held' = [held EXCEPT ![o.on] = o.track]
       \/ ~o.current /\ UNCHANGED <<held, capturing>>
    /\ UNCHANGED <<inCall, starts>>

Attached(o) ==
    /\ o \in operations /\ o.at = "attach"
    /\ Done(o)
    /\ \/ /\ o.current
          /\ Stop({held[o.on]})
          /\ held' = [held EXCEPT ![o.on] = o.track]
       \/ ~o.current /\ Stop({o.track}) /\ UNCHANGED held
    /\ UNCHANGED <<inCall, starts>>

(* A device that cannot be opened or sent: the sender gets its old track    *)
(* back, then the new one is stopped.                                       *)
OperationFails(o) ==
    /\ o \in operations /\ o.at \in {"prepare", "attach"}
    /\ IF o.current THEN Now(o, "revert", o.track) /\ UNCHANGED capturing
                    ELSE Done(o) /\ Stop({o.track})
    /\ UNCHANGED <<inCall, starts, held>>

Reverted(o) ==
    /\ o \in operations /\ o.at = "revert"
    /\ Done(o)
    /\ Stop({o.track})
    /\ UNCHANGED <<inCall, starts, held>>

Detached(o) ==
    /\ o \in operations /\ o.at = "detach"
    /\ Done(o)
    /\ \/ o.current /\ Stop({held.video}) /\ held' = [held EXCEPT !.video = 0]
       \/ UNCHANGED <<held, capturing>>   \* another call by now, or the sender refused
    /\ UNCHANGED <<inCall, starts>>

(* The device is unplugged, or its permission withdrawn. *)
TrackEnded(d) ==
    /\ held[d] # 0
    /\ Stop({held[d]})
    /\ held' = [held EXCEPT ![d] = 0]
    /\ UNCHANGED <<inCall, starts, operations>>

-----------------------------------------------------------------------------
MediaNext ==
    \/ StartMedia \/ EndMedia
    \/ \E s \in starts : IceServers(s) \/ DevicesOpened(s) \/ StartFails(s)
    \/ \E d \in Device : TrackEnded(d) \/ \E at \in {"prepare", "detach"} : BeginOperation(d, at)
    \/ \E o \in operations :
        Prepared(o) \/ Attached(o) \/ OperationFails(o) \/ Reverted(o) \/ Detached(o)

MediaSpec == MediaInit /\ [][MediaNext]_mediaVars

-----------------------------------------------------------------------------
(* Nothing is captured behind the user's back: every open microphone,       *)
(* camera or screen belongs to the call of this tab or to an operation that *)
(* still runs and will stop it, however the end of the call and the start   *)
(* of the next one fall between the awaits.                                 *)
CaptureIsHeld ==
    /\ capturing \subseteq {held[d] : d \in Device} \cup {o.track : o \in operations}
    /\ ~inCall => held = NoMedia
=============================================================================
