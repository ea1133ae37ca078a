----------------------------- MODULE Negotiation -----------------------------
(***************************************************************************)
(* CallWebRTC: the two sides of a call agree on a session description by   *)
(* "perfect negotiation".  The server relays what they send.               *)
(*                                                                         *)
(* Every handler awaits the browser and the digest of the verification     *)
(* code, so the handlers of one side interleave.  The RTCPeerConnection is *)
(* modelled by its operations chain, its signalling state and the rule     *)
(* that fires negotiationneeded.                                           *)
(***************************************************************************)
EXTENDS Naturals, Sequences

CONSTANTS
    MaxDemands,  \* ICE restarts and new tracks
    MaxLosses,   \* reconnects of a socket that lose what was on its way
    DigestsInOrder  \* digests of one side end in the order they were begun

ASSUME NegotiationAssumption ==
    MaxDemands \in Nat /\ MaxLosses \in Nat /\ DigestsInOrder \in BOOLEAN

VARIABLES
    signaling,  \* _pc.signalingState of each side, "new" before init
    pending,    \* the offer that is being negotiated
    settled,    \* the last exchange this side completed: the description it gave
    need,       \* what this side has still to offer: the browser's [[NegotiationNeeded]]
    offered,    \* what the pending offer of this side carries
    chain,      \* the connection's operations, the first one running
    making,     \* _makingOffer
    waiting,    \* what handlers do once the verification code is there, as they asked for it
    relayed,    \* messages on their way to each side
    offers,     \* offers created so far, their numbers
    demands, losses

negotiationVars == <<signaling, pending, settled, need, offered, chain,
                     making, waiting, relayed, offers, demands, losses>>

Side == {"caller", "callee"}
Polite(p) == p = "callee"
Peer(p) == IF p = "caller" THEN "callee" ELSE "caller"

(* A new kind of track needs an offer of its side unless the other side's   *)
(* offer happens to have room for it; everything else is settled by any      *)
(* exchange.                                                                 *)
Want == {"exchange", "track"}

Nothing == [type |-> "none", offer |-> 0, answered |-> 0]
Signal == [type : {"offer", "answer"}, offer : Nat]
Operation == [op : {"local"}, next : {"offer", "answer"}]
             \cup [op : {"remote"}, signal : Signal]

NegotiationTypeOK ==
    /\ signaling \in [Side -> {"new", "stable", "have-local-offer", "have-remote-offer"}]
    /\ pending \in [Side -> 0..offers]
    /\ \A p \in Side : settled[p].type \in {"none", "offer", "answer"}
    /\ need \in [Side -> SUBSET Want] /\ offered \in [Side -> SUBSET Want]
    /\ chain \in [Side -> Seq(Operation)]
    /\ making \in [Side -> BOOLEAN]
    /\ waiting \in [Side -> Seq({"reply", "offer", "answer"})]
    /\ relayed \in [Side -> Seq(Signal)]
    /\ offers \in Nat /\ demands \in 0..MaxDemands /\ losses \in 0..MaxLosses

NegotiationInit ==
    /\ signaling = [p \in Side |-> "new"]
    /\ pending = [p \in Side |-> 0]
    /\ settled = [p \in Side |-> Nothing]
    /\ need = [p \in Side |-> {}]
    /\ offered = [p \in Side |-> {}]
    /\ chain = [p \in Side |-> <<>>]
    /\ making = [p \in Side |-> FALSE]
    /\ waiting = [p \in Side |-> <<>>]
    /\ relayed = [p \in Side |-> <<>>]
    /\ offers = 0 /\ demands = 0 /\ losses = 0

-----------------------------------------------------------------------------
(* init: the local tracks ask for a negotiation. Signals that arrive        *)
(* earlier wait in CallManager's _pendingSignals.                           *)
StartPeer(p) ==
    /\ signaling[p] = "new"
    /\ signaling' = [signaling EXCEPT ![p] = "stable"]
    /\ need' = [need EXCEPT ![p] = {"exchange"}]
    /\ UNCHANGED <<pending, settled, offered, chain, making, waiting, relayed, offers, demands, losses>>

Demand(p, what) ==
    /\ demands < MaxDemands /\ demands' = demands + 1
    /\ need' = [need EXCEPT ![p] = @ \cup {what}]
    /\ UNCHANGED <<signaling, pending, settled, offered, chain, making, waiting, relayed, offers, losses>>

RestartIce(p) == signaling[p] = "stable" /\ Demand(p, "exchange")

(* addVideoTrack, when there is no sender for video yet. *)
AddVideoTrack(p) == signaling[p] # "new" /\ Demand(p, "track")

(* onnegotiationneeded, which the browser fires in a stable state while no  *)
(* operation runs.                                                          *)
NegotiationNeeded(p) ==
    /\ signaling[p] = "stable" /\ need[p] # {} /\ chain[p] = <<>>
    /\ making' = [making EXCEPT ![p] = TRUE]
    /\ chain' = [chain EXCEPT ![p] = <<[op |-> "local", next |-> "offer"]>>]
    /\ UNCHANGED <<signaling, pending, settled, need, offered, waiting, relayed, offers, demands, losses>>

-----------------------------------------------------------------------------
(* The operations of the RTCPeerConnection.                                *)

Await(p, what) == waiting' = [waiting EXCEPT ![p] = Append(@, what)]

(* setLocalDescription() answers a remote offer and otherwise offers. What  *)
(* this side still wants may be part of its answer or need an offer.        *)
SetLocal(p, next) ==
    /\ Await(p, next)
    /\ IF signaling[p] = "have-remote-offer"
       THEN /\ signaling' = [signaling EXCEPT ![p] = "stable"]
            /\ settled' = [settled EXCEPT ![p] =
                    [type |-> "answer", offer |-> pending[p], answered |-> pending[p]]]
            /\ \E still \in SUBSET (need[p] \cap {"track"}) : need' = [need EXCEPT ![p] = still]
            /\ UNCHANGED <<pending, offered, offers>>
       ELSE /\ signaling' = [signaling EXCEPT ![p] = "have-local-offer"]
            /\ offers' = offers + 1
            /\ pending' = [pending EXCEPT ![p] = offers + 1]
            /\ offered' = [offered EXCEPT ![p] = @ \cup need[p]]
            /\ need' = [need EXCEPT ![p] = {}]
            /\ UNCHANGED settled

(* A remote offer rolls a local one back. *)
SetRemoteOffer(p, offer) ==
    /\ Await(p, "reply")
    /\ signaling' = [signaling EXCEPT ![p] = "have-remote-offer"]
    /\ pending' = [pending EXCEPT ![p] = offer]
    /\ need' = [need EXCEPT ![p] = @ \cup offered[p]]
    /\ offered' = [offered EXCEPT ![p] = {}]
    /\ UNCHANGED <<settled, offers>>

(* An answer is an error unless a local offer is pending. *)
SetRemoteAnswer(p, offer) ==
    /\ IF signaling[p] = "have-local-offer"
       THEN /\ signaling' = [signaling EXCEPT ![p] = "stable"]
            /\ settled' = [settled EXCEPT ![p] =
                    [type |-> "offer", offer |-> pending[p], answered |-> offer]]
            /\ offered' = [offered EXCEPT ![p] = {}]
       ELSE UNCHANGED <<signaling, settled, offered>>
    /\ UNCHANGED <<pending, need, waiting, offers>>

Operate(p) ==
    /\ chain[p] # <<>>
    /\ chain' = [chain EXCEPT ![p] = Tail(@)]
    /\ LET o == Head(chain[p]) IN
        \/ o.op = "local" /\ SetLocal(p, o.next)
        \/ /\ o.op = "remote" /\ o.signal.type = "offer"
           /\ SetRemoteOffer(p, o.signal.offer)
        \/ /\ o.op = "remote" /\ o.signal.type = "answer"
           /\ SetRemoteAnswer(p, o.signal.offer)
    /\ UNCHANGED <<making, relayed, demands, losses>>

-----------------------------------------------------------------------------
(* The handlers, after their awaits.                                       *)

LocalDescription(p) ==
    IF signaling[p] = "have-local-offer"
    THEN [type |-> "offer", offer |-> pending[p]]
    ELSE [type |-> settled[p].type, offer |-> settled[p].offer]

(* The server relays a description only under the event of its type. *)
Relay(p, type) ==
    relayed' = IF LocalDescription(p).type = type
               THEN [relayed EXCEPT ![Peer(p)] = Append(@, LocalDescription(p))]
               ELSE relayed

(* A digest ends; it may have overtaken those begun before it. *)
DigestEnds(p, what) ==
    \E i \in DOMAIN waiting[p] :
        /\ DigestsInOrder => i = 1
        /\ waiting[p][i] = what
        /\ waiting' = [waiting EXCEPT ![p] = SubSeq(@, 1, i - 1) \o SubSeq(@, i + 1, Len(@))]

SendOffer(p) ==
    /\ DigestEnds(p, "offer")
    /\ Relay(p, "offer")
    /\ making' = [making EXCEPT ![p] = FALSE]
    /\ UNCHANGED <<signaling, pending, settled, need, offered, chain, offers, demands, losses>>

Reply(p) ==
    /\ DigestEnds(p, "reply")
    /\ chain' = [chain EXCEPT ![p] = Append(@, [op |-> "local", next |-> "answer"])]
    /\ UNCHANGED <<signaling, pending, settled, need, offered, making, relayed, offers, demands, losses>>

SendAnswer(p) ==
    /\ DigestEnds(p, "answer")
    /\ Relay(p, "answer")
    /\ UNCHANGED <<signaling, pending, settled, need, offered, chain, making, offers, demands, losses>>

OfferCollision(p) == making[p] \/ signaling[p] # "stable"

(* Broken: nobody is impolite. *)
IgnoresNothing(p) == FALSE

IgnoresOffer(p) == ~Polite(p) /\ OfferCollision(p)

(* handleOffer and handleAnswer. *)
TakeSignal(p) ==
    /\ signaling[p] # "new" /\ relayed[p] # <<>>
    /\ relayed' = [relayed EXCEPT ![p] = Tail(@)]
    /\ LET s == Head(relayed[p])
           ignored == IF s.type = "offer" THEN IgnoresOffer(p) ELSE signaling[p] = "stable"
       IN chain' = IF ignored THEN chain
                   ELSE [chain EXCEPT ![p] = Append(@, [op |-> "remote", signal |-> s])]
    /\ UNCHANGED <<signaling, pending, settled, need, offered, making, waiting, offers, demands, losses>>

LoseSignals(p) ==
    /\ losses < MaxLosses /\ relayed[p] # <<>>
    /\ losses' = losses + 1
    /\ relayed' = [relayed EXCEPT ![p] = <<>>]
    /\ UNCHANGED <<signaling, pending, settled, need, offered, chain, making, waiting, offers, demands>>

NegotiationNext ==
    \E p \in Side :
        \/ StartPeer(p) \/ RestartIce(p) \/ AddVideoTrack(p) \/ NegotiationNeeded(p)
        \/ Operate(p) \/ SendOffer(p) \/ Reply(p) \/ SendAnswer(p)
        \/ TakeSignal(p) \/ LoseSignals(p)

NegotiationSpec == NegotiationInit /\ [][NegotiationNext]_negotiationVars

-----------------------------------------------------------------------------
Quiet == \A p \in Side : relayed[p] = <<>> /\ chain[p] = <<>> /\ waiting[p] = <<>>
BothStable == \A p \in Side : signaling[p] = "stable"

(* However the offers of the two sides cross, are rolled back, or are lost: *)
(* whenever both sides believe that they have agreed, they have agreed on   *)
(* the same offer, which one of them made and the other one answered.       *)
(* Kept only if no digest ends before one begun earlier on its side: else   *)
(* an offer can be sent twice, and the second answer is taken for the       *)
(* answer to a later offer.                                                 *)
SameExchange ==
    BothStable =>
        /\ settled["caller"].offer = settled["callee"].offer
        /\ \A p \in Side : settled[p].offer = settled[p].answered

(* "If both sides restart at once, the polite/impolite collision handling   *)
(* above resolves it": once nothing is on its way, both sides are stable.   *)
(* Not kept by the code when a digest ends after a later one, or when a     *)
(* reconnect loses an offer: nobody repeats it.                             *)
RestartsSettle ==
    Quiet /\ (\A p \in Side : signaling[p] # "new" /\ (signaling[p] = "stable" => need[p] = {}))
    => BothStable
=============================================================================
