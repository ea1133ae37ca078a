-------------------------------- MODULE Calls --------------------------------
(***************************************************************************)
(* The life of calls on the server: app/services/calls.py and the handlers *)
(* of app/sockets/call_handlers.py that use it.                            *)
(*                                                                         *)
(* Requests of users, the cleanup that follows a user's last disconnect    *)
(* and the scheduler run concurrently, each a sequence of transactions.    *)
(* A handler first reads (its checks), then runs one conditional UPDATE,   *)
(* then, in a further transaction, writes the call's card into the chat.   *)
(* Between these anything may happen.  What a handler has still to do is a *)
(* command in "pending"; placing a call has more steps and its own state.  *)
(*                                                                         *)
(* An element of Call is one call_initiate request.                        *)
(***************************************************************************)
EXTENDS Naturals, FiniteSetsExt

CONSTANTS
    User,      \* user ids
    Chat,
    Call,
    ChatOf,    \* the chat a call is placed in
    Caller,    \* who places it
    Members,   \* the members of each chat at first
    Joiner,    \* users who may join any chat later
    Leaver,    \* users whose tabs may close
    MaxHandlers, \* bound on the commands under way when a request is admitted
    MaxTimers  \* bound on the cleanups of one user that are due

ASSUME CallAssumption ==
    /\ User \subseteq Nat
    /\ ChatOf \in [Call -> Chat]
    /\ Caller \in [Call -> User]
    /\ Members \in [Chat -> SUBSET User]
    /\ Joiner \subseteq User
    /\ Leaver \subseteq User
    /\ MaxHandlers \in Nat /\ MaxTimers \in Nat
    /\ Chat \cap User = {}
    /\ "free" \notin Call

VARIABLES
    status,   \* call_sessions.status, "none" before the insert
    inCall,   \* call_participants of the call with left_at IS NULL
    card,     \* the status on the call's card in the chat, "none" without one
    age,      \* 0, 1 after _CALL_RING_TIMEOUT, 2 after _CALL_ACTIVE_STALE
    members,  \* members of each chat
    dial,     \* progress of create_call_session_locked for each call
    party,    \* participant_ids of the request
    want,     \* advisory locks it has still to take
    doomed,   \* rows its transaction has updated and not yet committed
    pending,  \* commands of handlers that have passed their checks
    online,   \* users with a connected tab
    grace,    \* how many cleanups of a user are due, one per closing of the last tab
    lost      \* history: calls whose handler died before the card was written

callVars == <<status, inCall, card, age>>
dialVars == <<dial, party, want, doomed>>
tabVars  == <<online, grace>>
vars == <<callVars, dialVars, tabVars, members, pending, lost>>

Final == {"ended", "rejected", "cancelled", "missed", "failed"}
Live(c) == status[c] \in {"ringing", "active"}
LiveOf(u) == {c \in Call : Live(c) /\ u \in inCall[c]}

Command(k, u, c, b) == [kind |-> k, user |-> u, call |-> c, by |-> b]

Init ==
    /\ status = [c \in Call |-> "none"]
    /\ inCall = [c \in Call |-> {}]
    /\ card = [c \in Call |-> "none"]
    /\ age = [c \in Call |-> 0]
    /\ members = Members
    /\ dial = [c \in Call |-> "new"]
    /\ party = [c \in Call |-> {}]
    /\ want = [c \in Call |-> {}]
    /\ doomed = [c \in Call |-> {}]
    /\ pending = {}
    /\ online = User
    /\ grace = [u \in User |-> 0]
    /\ lost = {}

-----------------------------------------------------------------------------
(***************************************************************************)
(* Timeouts.                                                               *)
(***************************************************************************)
\* A row that an uncommitted transaction has updated; other updates wait.
RowLocked(c) == \E d \in Call : c \in doomed[d]

Overdue == {c \in Call : status[c] = "ringing" /\ age[c] > 0}
Abandoned == {c \in Call : status[c] = "active" /\ age[c] = 2}

\* mark_missed_calls for the calls in ms, _reap_stale_active_calls for those
\* in fs, both with the cards they write in the same transaction.
TimeOut(ms, fs) ==
    /\ \A c \in ms \cup fs : ~RowLocked(c)
    /\ status' = [c \in Call |-> IF c \in ms THEN "missed"
                            ELSE IF c \in fs THEN "failed" ELSE status[c]]
    /\ inCall' = [c \in Call |-> IF c \in fs THEN {} ELSE inCall[c]]
    /\ card' = [c \in Call |->
                   IF c \in ms \cup fs /\ card[c] = "none" THEN status'[c] ELSE card[c]]
    /\ UNCHANGED age

\* The scheduler, for all chats; also what remains of a handler that refreshes
\* the calls of its chat, or all, and is then turned away by one of its checks.
MarkMissed ==
    /\ Overdue # {}
    /\ \/ TimeOut(Overdue, {})
       \/ \E ch \in Chat : TimeOut({c \in Overdue : ChatOf[c] = ch}, {})
    /\ UNCHANGED <<dialVars, tabVars, members, pending, lost>>

\* Broken: abandoned calls are looked for by the age of a ringing call only.
ReapNever ==
    /\ Abandoned \cap Overdue # {}
    /\ TimeOut({}, Abandoned)
    /\ UNCHANGED <<dialVars, tabVars, members, pending, lost>>

ReapStale ==
    /\ Abandoned # {}
    /\ TimeOut({}, Abandoned)
    /\ UNCHANGED <<dialVars, tabVars, members, pending, lost>>

Older(c) ==
    /\ Live(c) /\ age[c] < 2
    /\ age' = [age EXCEPT ![c] = @ + 1]
    /\ UNCHANGED <<status, inCall, card, dialVars, tabVars, members, pending, lost>>

-----------------------------------------------------------------------------
(***************************************************************************)
(* call_initiate.                                                          *)
(***************************************************************************)
Locks(c) == {ChatOf[c]} \cup party[c]
Holds(c, k) == dial[c] \in {"locking", "inserting"} /\ k \in Locks(c) \ want[c]

\* Somebody in us is in a live call outside the calls in gone.
Busy(us, gone) == \E u \in us : LiveOf(u) \ gone # {}

\* The checks before the locks: of the other members exactly one, v, lets the
\* caller reach him (which one the privacy settings decide), overdue calls are
\* marked first, and neither side is in a live call.
DialCheck(c, v) ==
    /\ dial[c] = "new"
    /\ {Caller[c], v} \subseteq members[ChatOf[c]] /\ v # Caller[c]
    /\ TimeOut(Overdue, {})
    /\ ~Busy({Caller[c], v}, Overdue)
    /\ dial' = [dial EXCEPT ![c] = "locking"]
    /\ party' = [party EXCEPT ![c] = {Caller[c], v}]
    /\ want' = [want EXCEPT ![c] = {Caller[c], v, ChatOf[c]}]
    /\ UNCHANGED <<doomed, tabVars, members, pending, lost>>

\* Broken: participants are locked in the order of the request.
NextLockUnsorted(c) ==
    IF ChatOf[c] \in want[c] THEN ChatOf[c]
    ELSE IF Caller[c] \in want[c] THEN Caller[c] ELSE Min(want[c])

\* The chat's lock first, then those of the participants, sorted.
NextLock(c) == IF ChatOf[c] \in want[c] THEN ChatOf[c] ELSE Min(want[c])

\* Broken: the advisory locks are shared.
DialLockShared(c) ==
    /\ dial[c] = "locking" /\ want[c] # {}
    /\ want' = [want EXCEPT ![c] = @ \ {NextLock(c)}]
    /\ UNCHANGED <<callVars, dial, party, doomed, tabVars, members, pending, lost>>

DialLock(c) ==
    /\ dial[c] = "locking" /\ want[c] # {}
    /\ \A d \in Call \ {c} : ~Holds(d, NextLock(c))
    /\ want' = [want EXCEPT ![c] = @ \ {NextLock(c)}]
    /\ UNCHANGED <<callVars, dial, party, doomed, tabVars, members, pending, lost>>

\* Broken: only the chat is looked at, not the participants.
DialReapChatOnly(c) ==
    LET here == {d \in Call : ChatOf[d] = ChatOf[c]}
        gone == here \cap (Overdue \cup Abandoned)
    IN
    /\ dial[c] = "locking" /\ want[c] = {}
    /\ \A d \in gone : ~RowLocked(d)
    /\ \A d \in here \ gone : ~Live(d)
    /\ dial' = [dial EXCEPT ![c] = "inserting"]
    /\ doomed' = [doomed EXCEPT ![c] = gone]
    /\ UNCHANGED <<callVars, party, want, tabVars, members, pending, lost>>

\* With the locks held: the chat's overdue and abandoned calls are ended, and
\* no live call may be left in the chat or with a participant.  If one is, the
\* transaction is committed and the request refused.
DialReap(c) ==
    LET here == {d \in Call : ChatOf[d] = ChatOf[c]}
        gone == here \cap (Overdue \cup Abandoned)
        free == ~Busy(party[c], gone) /\ \A d \in here \ gone : ~Live(d)
    IN
    /\ dial[c] = "locking" /\ want[c] = {}
    /\ \A d \in gone : ~RowLocked(d)
    /\ dial' = [dial EXCEPT ![c] = IF free THEN "inserting" ELSE "refused"]
    /\ \/ free /\ doomed' = [doomed EXCEPT ![c] = gone] /\ UNCHANGED callVars
       \/ ~free /\ TimeOut(gone \cap Overdue, gone \cap Abandoned) /\ UNCHANGED doomed
    /\ UNCHANGED <<party, want, tabVars, members, pending, lost>>

\* The insert and the commit; call_initiated and call_incoming go out.
DialInsert(c) ==
    /\ dial[c] = "inserting"
    /\ status' = [d \in Call |->
                     IF d = c THEN "ringing"
                     ELSE IF d \notin doomed[c] THEN status[d]
                     ELSE IF status[d] = "ringing" THEN "missed" ELSE "failed"]
    /\ inCall' = [d \in Call |->
                     IF d = c THEN party[c]
                     ELSE IF d \in doomed[c] /\ status[d] = "active" THEN {} ELSE inCall[d]]
    /\ card' = [d \in Call |-> IF d \in doomed[c] /\ card[d] = "none"
                               THEN status'[d] ELSE card[d]]
    /\ dial' = [dial EXCEPT ![c] = "done"]
    /\ doomed' = [doomed EXCEPT ![c] = {}]
    /\ UNCHANGED <<age, party, want, tabVars, members, pending, lost>>

\* An error or a crash: everything is rolled back and the locks are released.
DialFail(c) ==
    /\ dial[c] \in {"locking", "inserting"}
    /\ dial' = [dial EXCEPT ![c] = "refused"]
    /\ doomed' = [doomed EXCEPT ![c] = {}]
    /\ UNCHANGED <<callVars, party, want, tabVars, members, pending, lost>>

-----------------------------------------------------------------------------
(***************************************************************************)
(* call_accept, call_reject, call_cancel, call_end.                        *)
(***************************************************************************)
Submit(k, u, c) ==
    /\ Cardinality(pending) < MaxHandlers
    /\ pending' = pending \cup {Command(k, u, c, "request")}

\* handle_call_accept up to the UPDATE: overdue calls are marked missed, the
\* call must still ring, for another member of its chat, who is not in a
\* different call.
AcceptCheck(u, c) ==
    /\ status[c] = "ringing" /\ c \notin Overdue
    /\ u # Caller[c] /\ u \in members[ChatOf[c]]
    /\ TimeOut(Overdue, {})
    /\ LiveOf(u) \ Overdue = {} \/ c \in LiveOf(u)
    /\ Submit("accept", u, c)
    /\ UNCHANGED <<dialVars, tabVars, members, lost>>

\* Refreshing the chat's overdue calls does nothing here: a chat has one live
\* call, and this one is not overdue.
RejectCheck(u, c) ==
    /\ status[c] = "ringing" /\ c \notin Overdue
    /\ u # Caller[c] /\ u \in members[ChatOf[c]]
    /\ Submit("reject", u, c)
    /\ UNCHANGED <<callVars, dialVars, tabVars, members, lost>>

CancelCheck(c) ==
    /\ status[c] = "ringing" /\ c \notin Overdue
    /\ Submit("cancel", Caller[c], c)
    /\ UNCHANGED <<callVars, dialVars, tabVars, members, lost>>

\* call_end, and call_cancel of a call that has been accepted meanwhile.
EndCheck(u, c) ==
    /\ status[c] = "active" /\ u \in inCall[c]
    /\ Submit("end", u, c)
    /\ UNCHANGED <<callVars, dialVars, tabVars, members, lost>>

\* The UPDATE of a row waits for a transaction that has updated it already.
Runs(m, k) == m.kind = k /\ ~RowLocked(m.call)

Drop(m) == pending' = pending \ {m}

\* The call is over: everybody leaves, and the card is still to be written.
Finish(m, s) ==
    /\ status' = [status EXCEPT ![m.call] = s]
    /\ inCall' = [inCall EXCEPT ![m.call] = {}]
    /\ pending' = (pending \ {m}) \cup {[m EXCEPT !.kind = "card"]}
    /\ UNCHANGED <<card, age>>

\* Broken: the UPDATE of accept_call does not look at the status.
AcceptAnyway(m) ==
    /\ Runs(m, "accept") /\ Drop(m)
    /\ status' = [status EXCEPT ![m.call] = "active"]
    /\ inCall' = [inCall EXCEPT ![m.call] = @ \cup {m.user}]
    /\ UNCHANGED <<card, age>>

Accept(m) ==
    /\ Runs(m, "accept") /\ Drop(m)
    /\ \/ /\ status[m.call] = "ringing"
          /\ status' = [status EXCEPT ![m.call] = "active"]
          /\ inCall' = [inCall EXCEPT ![m.call] = @ \cup {m.user}]
          /\ UNCHANGED <<card, age>>
       \/ status[m.call] # "ringing" /\ UNCHANGED callVars

\* Broken: a status the call history does not know.
RejectAsDeclined(m) ==
    /\ Runs(m, "reject") /\ status[m.call] = "ringing"
    /\ Finish(m, "declined")

Reject(m) ==
    /\ Runs(m, "reject")
    /\ \/ status[m.call] = "ringing" /\ Finish(m, "rejected")
       \/ status[m.call] # "ringing" /\ Drop(m) /\ UNCHANGED callVars

Cancel(m) ==
    /\ Runs(m, "cancel")
    /\ \/ status[m.call] = "ringing" /\ Finish(m, "cancelled")
       \/ status[m.call] # "ringing" /\ Drop(m) /\ UNCHANGED callVars

\* Broken: the participant leaves and the session is not touched.
LeaveOnly(m) ==
    /\ Runs(m, "end") /\ Drop(m)
    /\ inCall' = [inCall EXCEPT ![m.call] = @ \ {m.user}]
    /\ UNCHANGED <<status, card, age>>

\* end_call: a participant who is still in leaves, and with them everybody,
\* provided the call is active.
End(m) ==
    LET over == m.user \in inCall[m.call] /\ status[m.call] = "active" IN
    /\ Runs(m, "end")
    /\ \/ over /\ Finish(m, "ended")
       \/ /\ ~over /\ Drop(m)
          /\ inCall' = [inCall EXCEPT ![m.call] = @ \ {m.user}]
          /\ UNCHANGED <<status, card, age>>

\* Broken: no card when the caller is the one who ends the call.
WriteCardOfOthers(m) ==
    /\ m.kind = "card" /\ Drop(m)
    /\ card' = [card EXCEPT ![m.call] =
                   IF @ = "none" /\ m.user # Caller[m.call] THEN status[m.call] ELSE @]
    /\ UNCHANGED <<status, inCall, age>>

\* create_call_log_message: one card per call.
WriteCard(m) ==
    /\ m.kind = "card" /\ Drop(m)
    /\ card' = [card EXCEPT ![m.call] =
                   IF @ = "none" /\ status[m.call] \in Final THEN status[m.call] ELSE @]
    /\ UNCHANGED <<status, inCall, age>>

\* The worker dies, or an exception ends the handler.
Die(m) ==
    /\ Drop(m)
    /\ lost' = IF m.kind = "card" THEN lost \cup {m.call} ELSE lost
    /\ UNCHANGED callVars

-----------------------------------------------------------------------------
(***************************************************************************)
(* Disconnects.                                                            *)
(***************************************************************************)
\* A user's last tab closes; the cleanup waits for the grace period.
Disconnect(u) ==
    /\ u \in online \cap Leaver /\ grace[u] < MaxTimers
    /\ online' = online \ {u}
    /\ grace' = [grace EXCEPT ![u] = @ + 1]
    /\ UNCHANGED <<callVars, dialVars, members, pending, lost>>

Reconnect(u) ==
    /\ u \in User \ online
    /\ online' = online \cup {u}
    /\ UNCHANGED <<callVars, dialVars, grace, members, pending, lost>>

\* What terminate_call_on_disconnect does with a call, by the status it had
\* when the list was read.
Ending(u, c) ==
    Command(IF status[c] = "active" THEN "end"
            ELSE IF Caller[c] = u THEN "cancel" ELSE "reject", u, c, "cleanup")

\* The grace period is over: nothing if the user is back, otherwise the list
\* of live calls is read and they are ended one by one.
Cleanup(u) ==
    /\ grace[u] > 0
    /\ grace' = [grace EXCEPT ![u] = @ - 1]
    /\ \/ u \in online /\ UNCHANGED pending
       \/ u \notin online /\ pending' = pending \cup {Ending(u, c) : c \in LiveOf(u)}
    /\ UNCHANGED <<callVars, dialVars, online, members, lost>>

JoinChat(u, ch) ==
    /\ u \in Joiner \ members[ch]
    /\ members' = [members EXCEPT ![ch] = @ \cup {u}]
    /\ UNCHANGED <<callVars, dialVars, tabVars, pending, lost>>

-----------------------------------------------------------------------------
Dialing(c) ==
    \/ \E v \in User : DialCheck(c, v)
    \/ DialLock(c) \/ DialReap(c) \/ DialInsert(c) \/ DialFail(c)

Requests(u, c) == \/ AcceptCheck(u, c) \/ RejectCheck(u, c) \/ EndCheck(u, c)

Handling(m) ==
    /\ \/ Accept(m) \/ Reject(m) \/ Cancel(m) \/ End(m) \/ WriteCard(m)
    /\ UNCHANGED lost

Next ==
    \/ MarkMissed \/ ReapStale
    \/ \E c \in Call : Older(c) \/ Dialing(c) \/ CancelCheck(c)
    \/ \E u \in User, c \in Call : Requests(u, c)
    \/ \E m \in pending : /\ Handling(m) \/ Die(m)
                          /\ UNCHANGED <<dialVars, tabVars, members>>
    \/ \E u \in User : Disconnect(u) \/ Reconnect(u) \/ Cleanup(u)
    \/ \E u \in User, ch \in Chat : JoinChat(u, ch)

Spec == Init /\ [][Next]_vars

\* The scheduler's job runs again and again and time passes; a transaction
\* that waits for nothing but the locks of others goes on.
Fairness ==
    /\ WF_vars(MarkMissed) /\ WF_vars(ReapStale)
    /\ \A c \in Call : /\ WF_vars(Older(c))
                       /\ WF_vars(DialLock(c))
                       /\ WF_vars(DialReap(c))
                       /\ WF_vars(DialInsert(c))

FairSpec == Spec /\ Fairness

-----------------------------------------------------------------------------
CommandType == [kind : {"accept", "reject", "cancel", "end", "card"},
                user : User, call : Call, by : {"request", "cleanup"}]

TypeOK ==
    /\ status \in [Call -> {"none", "ringing", "active"} \cup Final]
    /\ inCall \in [Call -> SUBSET User]
    /\ card \in [Call -> {"none"} \cup Final]
    /\ age \in [Call -> 0 .. 2]
    /\ members \in [Chat -> SUBSET User]
    /\ dial \in [Call -> {"new", "locking", "inserting", "refused", "done"}]
    /\ party \in [Call -> SUBSET User]
    /\ want \in [Call -> SUBSET (Chat \cup User)]
    /\ doomed \in [Call -> SUBSET Call]
    /\ pending \subseteq CommandType
    /\ online \subseteq User
    /\ grace \in [User -> 0 .. MaxTimers]
    /\ lost \subseteq Call

\* However many requests race, a chat has one call at a time, ringing or
\* active: the advisory lock makes the check and the insert one step.
OneLivePerChat ==
    \A c, d \in Call :
        Live(c) /\ Live(d) /\ ChatOf[c] = ChatOf[d] => c = d

\* Nobody is left alone in a live call: as long as it rings or is talked on,
\* the caller and the callee are both in, and when one leaves it is over.
NobodyAlone ==
    \A c \in Call : Live(c) => party[c] # {} /\ party[c] \subseteq inCall[c]

\* A call that is over has a card in the chat, or a handler that is about to
\* write it, unless that handler died.
CardIsWritten ==
    \A c \in Call : status[c] \in Final =>
        \/ card[c] # "none"
        \/ c \in lost
        \/ \E m \in pending : m.kind = "card" /\ m.call = c

\* The card in the chat tells how the call ended: what one handler wrote is
\* not contradicted by what another does to the call later.
CardTellsTruth ==
    \A c \in Call : card[c] # "none" => card[c] = status[c]

\* c waits for d: for its next advisory lock, or for a row that d is about to end.
WaitsFor(c, d) ==
    /\ c # d /\ dial[c] = "locking"
    /\ \/ want[c] # {} /\ Holds(d, NextLock(c))
       \/ /\ want[c] = {}
          /\ \E e \in doomed[d] : ChatOf[e] = ChatOf[c] /\ e \in Overdue \cup Abandoned

\* However requests for different chats share participants, they never wait for
\* one another in a circle: of the requests under way, one waits for none.
NobodyDeadlocks ==
    \A cs \in SUBSET Call :
        IsFiniteSet(cs) /\ cs # {} => \E c \in cs : \A d \in cs : ~WaitsFor(c, d)

\* When the cleanup of a disconnected user has dealt with a call of its list,
\* the call is over.  Not kept by the code: a call that was ringing when the
\* list was read may have been answered before it is cancelled.
CleanupEndsCalls ==
    [][\A m \in pending :
          m.by = "cleanup" /\ m.kind # "card" /\ Handling(m) => ~Live(m.call)']_vars

\* The service is an exchange whose lines belong to the caller and the callee
\* of a call.  Somebody who joins a chat while it rings may answer as well;
\* this occupies nobody's line.
OnLine(u) == {c \in Call : Live(c) /\ u \in party[c] \cap inCall[c]}

Phase == [c \in Call |-> CASE status[c] = "none"    -> "new"
                          [] status[c] = "ringing" -> "ringing"
                          [] status[c] = "active"  -> "talking"
                          [] OTHER                 -> "over"]

Line == [u \in User |-> IF OnLine(u) = {} THEN "free"
                        ELSE CHOOSE c \in OnLine(u) : TRUE]

Switch == INSTANCE Exchange WITH Free <- "free", phase <- Phase, line <- Line

\* A line is never promised to two calls, across all chats, and a call that is
\* over stays over.
ImplementsExchange == Switch!ExchangeSpec

\* No call occupies its chat for ever, also when everybody in it vanishes.
LiveEnds == \A c \in Call : Live(c) ~> ~Live(c)

\* Requests that wait for the locks of one another all come to an end.
DialEnds ==
    \A c \in Call : dial[c] = "locking" ~> dial[c] \in {"refused", "done"}
=============================================================================
