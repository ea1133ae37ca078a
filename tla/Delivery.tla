------------------------------ MODULE Delivery ------------------------------
(***************************************************************************)
(* What sending a message promises its sender, without handlers, copies,   *)
(* reservations or sockets.  A message is delivered into a chat that holds *)
(* it once, the receiver is told of each delivery at most once, and the    *)
(* sender, as long as the page is open, sees confirmed for good what has   *)
(* been delivered.  What waits to be sent again leaves only when it was    *)
(* delivered or when its time is over.                                     *)
(***************************************************************************)
EXTENDS Naturals

CONSTANT Request       \* the messages the user composed

VARIABLES
    present,           \* messages the chat holds now
    stored,            \* how often each was delivered
    told,              \* how often the receiver was told of each
    waiting,           \* messages kept to be sent again
    lapsed,            \* messages that have waited for too long
    open,              \* the sender looks at the page
    confirmed          \* messages the page has had an answer for

chat   == <<present, stored, told>>
sender == <<waiting, lapsed, open, confirmed>>
deliveryVars == <<chat, sender>>

DeliveryInit ==
    /\ present = {}
    /\ stored = [r \in Request |-> 0] /\ told = [r \in Request |-> 0]
    /\ waiting = {} /\ lapsed = {}
    /\ open = TRUE /\ confirmed = {}

Deliver(r) ==
    /\ r \notin present
    /\ present' = present \cup {r}
    /\ stored' = [stored EXCEPT ![r] = @ + 1]
    /\ UNCHANGED <<told, sender>>

\* Somebody deletes the message for everybody.
Withdraw(r) ==
    /\ r \in present
    /\ present' = present \ {r}
    /\ UNCHANGED <<stored, told, sender>>

Announce(r) ==
    /\ told[r] < stored[r]
    /\ told' = [told EXCEPT ![r] = @ + 1]
    /\ UNCHANGED <<present, stored, sender>>

\* An answer reaches the page, which may know nothing of the message any more.
Confirm(r) ==
    /\ open /\ stored[r] > 0
    /\ confirmed' \in {confirmed, confirmed \cup {r}}
    /\ waiting' \in {waiting, waiting \ {r}}
    /\ UNCHANGED <<chat, lapsed, open>>

Keep(r) ==
    /\ open
    /\ waiting' = waiting \cup {r}
    /\ UNCHANGED <<chat, lapsed, open, confirmed>>

Lapse(old) ==
    /\ old \subseteq waiting
    /\ waiting' = waiting \ old
    /\ lapsed' = lapsed \cup old

GiveUp(old) == open /\ Lapse(old) /\ UNCHANGED <<chat, open, confirmed>>

Leave ==
    /\ open
    /\ open' = FALSE /\ confirmed' = {}
    /\ UNCHANGED <<chat, waiting, lapsed>>

Return(old) ==
    /\ ~open
    /\ open' = TRUE
    /\ Lapse(old)
    /\ UNCHANGED <<chat, confirmed>>

DeliveryNext ==
    \/ \E r \in Request :
          Deliver(r) \/ Withdraw(r) \/ Announce(r) \/ Confirm(r) \/ Keep(r)
    \/ \E old \in SUBSET waiting : GiveUp(old) \/ Return(old)
    \/ Leave

DeliverySpec == DeliveryInit /\ [][DeliveryNext]_deliveryVars
=============================================================================
