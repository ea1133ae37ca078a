----------------------------- MODULE CallsProofs -----------------------------
(***************************************************************************)
(* For any users, chats and calls, and any number of handlers, timers and  *)
(* crashes: a chat has one live call, nobody is alone in it, and a call    *)
(* that is over has one card, which tells how it ended.                    *)
(*                                                                         *)
(* OneLivePerChat needs to know what a transaction may rely on between its *)
(* check and its insert: no other transaction holds one of its locks       *)
(* (Exclusive), so no call can have been placed in its chat meanwhile      *)
(* (Reserved).  CardTellsTruth needs that the calls it is about to end are *)
(* still as it found them: their rows are locked (DoomedHere).             *)
(***************************************************************************)
EXTENDS Calls, FiniteSetTheorems, TLAPS

\* No two requests hold the same advisory lock.
Exclusive ==
    \A c, d \in Call : \A k : Holds(c, k) /\ Holds(d, k) => c = d

\* A call exists from its insert on.
Started == \A c \in Call : dial[c] # "done" => status[c] = "none"

\* A request that has passed its checks has all its locks, and what lives in
\* its chat is what it is about to end.
Reserved ==
    \A c \in Call : dial[c] = "inserting" =>
        /\ want[c] = {}
        /\ \A d \in Call : Live(d) /\ ChatOf[d] = ChatOf[c] => d \in doomed[c]

\* Only such a request has rows to end; they are of its chat and still live.
DoomedHere ==
    \A c, d \in Call : d \in doomed[c] =>
        dial[c] = "inserting" /\ ChatOf[d] = ChatOf[c] /\ Live(d)

\* A request under way has participants.
PartyKnown == \A c \in Call : dial[c] # "new" => party[c] # {}

\* A call_end is only admitted for a call that was accepted.
EndAfterAccept ==
    \A m \in pending : m.kind = "end" => status[m.call] \notin {"none", "ringing"}

CallsInv ==
    /\ TypeOK
    /\ Exclusive
    /\ Started
    /\ Reserved
    /\ DoomedHere
    /\ PartyKnown
    /\ EndAfterAccept
    /\ OneLivePerChat
    /\ NobodyAlone
    /\ CardIsWritten
    /\ CardTellsTruth

LEMMA CallsInit == Init => CallsInv
<1> SUFFICES ASSUME Init PROVE CallsInv
  OBVIOUS
<1> USE DEF Init, Live, Final
<1>1. TypeOK
  BY CallAssumption DEF TypeOK, CallAssumption
<1>2. Exclusive /\ Reserved
  BY DEF Exclusive, Holds, Reserved
<1>3. Started /\ DoomedHere /\ PartyKnown /\ EndAfterAccept
  BY DEF Started, DoomedHere, PartyKnown, EndAfterAccept
<1>4. OneLivePerChat /\ NobodyAlone /\ CardIsWritten /\ CardTellsTruth
  BY DEF OneLivePerChat, NobodyAlone, CardIsWritten, CardTellsTruth
<1> QED
  BY <1>1, <1>2, <1>3, <1>4 DEF CallsInv

-----------------------------------------------------------------------------
\* What every step but a successful insert does to the calls: none begins, the
\* live ones keep their participants, and a row that is locked keeps its life.
Subsides ==
    /\ \A c \in Call : Live(c)' => Live(c) /\ inCall[c] \subseteq inCall'[c]
    /\ \A c \in Call : Live(c) /\ RowLocked(c) => Live(c)'
    /\ \A c \in Call : status[c] = "none" => status'[c] = "none"
    /\ \A c \in Call : status[c] \notin {"none", "ringing"}
                       => status'[c] \notin {"none", "ringing"}

\* The part of the invariant that speaks of calls and requests being placed.
DialInv ==
    /\ Exclusive /\ Started /\ Reserved /\ DoomedHere /\ PartyKnown
    /\ OneLivePerChat /\ NobodyAlone

LEMMA Steady ==
    ASSUME CallsInv, Subsides, UNCHANGED dialVars
    PROVE  DialInv'
<1> USE DEF CallsInv, Subsides, dialVars
<1>1. Exclusive'
  BY DEF Exclusive, Holds, Locks
<1>2. Started' /\ PartyKnown'
  BY DEF Started, PartyKnown
<1>3. Reserved'
  BY DEF Reserved
<1>4. DoomedHere'
  BY DEF DoomedHere, RowLocked
<1>5. OneLivePerChat' /\ NobodyAlone'
  BY DEF OneLivePerChat, NobodyAlone
<1> QED
  BY <1>1, <1>2, <1>3, <1>4, <1>5 DEF DialInv

\* A sweep ends calls whose rows are free, and writes their cards itself.
LEMMA Sweep ==
    ASSUME CallsInv, NEW ms, NEW fs, ms \subseteq Overdue, fs \subseteq Abandoned,
           TimeOut(ms, fs)
    PROVE  /\ Subsides
           /\ status' \in [Call -> {"none", "ringing", "active"} \cup Final]
           /\ inCall' \in [Call -> SUBSET User]
           /\ card' \in [Call -> {"none"} \cup Final]
           /\ age' = age
           /\ CardTellsTruth'
           /\ \A c \in Call : status'[c] \in Final =>
                  card'[c] # "none" \/ (status[c] \in Final /\ card'[c] = card[c])
<1> USE DEF CallsInv, TypeOK, TimeOut, Overdue, Abandoned, Final, Live
<1>1. \A c \in ms : status[c] = "ringing"
  OBVIOUS
<1>2. \A c \in fs : status[c] = "active"
  OBVIOUS
<1>3. Subsides
  BY <1>1, <1>2 DEF Subsides
<1>4. CardTellsTruth'
  BY <1>1, <1>2 DEF CardTellsTruth
<1> QED
  BY <1>1, <1>2, <1>3, <1>4

\* What is left to show for a step that leaves the dialling alone.
LEMMA Enough ==
    ASSUME CallsInv, Subsides, UNCHANGED dialVars,
           TypeOK', EndAfterAccept', CardIsWritten', CardTellsTruth'
    PROVE  CallsInv'
BY Steady DEF DialInv, CallsInv

LEMMA SweepStep ==
    ASSUME CallsInv, MarkMissed \/ ReapStale
    PROVE  CallsInv'
<1>1. PICK ms \in SUBSET Overdue, fs \in SUBSET Abandoned : TimeOut(ms, fs)
  BY DEF MarkMissed, ReapStale
<1>2. UNCHANGED <<dialVars, tabVars, members, pending, lost>>
  BY DEF MarkMissed, ReapStale
<1>3. TypeOK'
  BY <1>1, <1>2, Sweep DEF CallsInv, TypeOK, dialVars, tabVars
<1>4. EndAfterAccept'
  BY <1>1, <1>2, Sweep DEF CallsInv, EndAfterAccept, Subsides, TypeOK, CommandType
<1>5. CardIsWritten'
  BY <1>1, <1>2, Sweep DEF CallsInv, CardIsWritten
<1> QED
  BY <1>1, <1>2, <1>3, <1>4, <1>5, Sweep, Enough

\* Steps that touch neither the calls nor the commands.
LEMMA Untouched ==
    ASSUME CallsInv, UNCHANGED <<status, inCall, card, dialVars, pending, lost>>, TypeOK'
    PROVE  CallsInv'
<1>1. Subsides
  BY DEF Subsides, Live
<1>2. EndAfterAccept' /\ CardIsWritten' /\ CardTellsTruth'
  BY DEF CallsInv, EndAfterAccept, CardIsWritten, CardTellsTruth
<1> QED
  BY <1>1, <1>2, Enough

LEMMA AsideStep ==
    ASSUME CallsInv,
           \/ \E c \in Call : Older(c)
           \/ \E u \in User : Disconnect(u) \/ Reconnect(u)
           \/ \E u \in User, ch \in Chat : JoinChat(u, ch)
    PROVE  CallsInv'
<1> USE DEF CallsInv, TypeOK, callVars, dialVars, tabVars
<1>1. CASE \E c \in Call : Older(c)
  BY <1>1, Untouched DEF Older
<1>2. CASE \E u \in User : Disconnect(u)
  BY <1>2, CallAssumption, Untouched DEF Disconnect, CallAssumption
<1>3. CASE \E u \in User : Reconnect(u)
  BY <1>3, Untouched DEF Reconnect
<1>4. CASE \E u \in User, ch \in Chat : JoinChat(u, ch)
  BY <1>4, Untouched DEF JoinChat
<1> QED
  BY <1>1, <1>2, <1>3, <1>4

-----------------------------------------------------------------------------
\* A handler that passes its checks adds a command, after a sweep or not.
LEMMA AdmitStep ==
    ASSUME CallsInv, UNCHANGED <<dialVars, members, online, lost>>,
           grace' \in [User -> 0 .. MaxTimers],
           UNCHANGED callVars
             \/ \E ms \in SUBSET Overdue : TimeOut(ms, {}),
           NEW new, new \subseteq CommandType,
           pending' = pending \cup new,
           \A m \in new : m.kind = "end" => status[m.call] = "active"
    PROVE  CallsInv'
<1>1. CASE UNCHANGED callVars
  <2> USE <1>1 DEF CallsInv, callVars
  <2>1. Subsides
    BY DEF Subsides, Live
  <2>2. TypeOK'
    BY DEF TypeOK, dialVars
  <2>3. EndAfterAccept' /\ CardIsWritten' /\ CardTellsTruth'
    BY DEF EndAfterAccept, CardIsWritten, CardTellsTruth
  <2> QED
    BY <2>1, <2>2, <2>3, Enough
<1>2. CASE \E ms \in SUBSET Overdue : TimeOut(ms, {})
  <2>1. PICK ms \in SUBSET Overdue : TimeOut(ms, {})
    BY <1>2
  <2>2. TypeOK'
    BY <2>1, Sweep DEF CallsInv, TypeOK, dialVars
  <2>3. EndAfterAccept'
    BY <2>1, Sweep DEF CallsInv, EndAfterAccept, Subsides, TypeOK, CommandType
  <2>4. CardIsWritten'
    BY <2>1, Sweep DEF CallsInv, CardIsWritten
  <2> QED
    BY <2>1, <2>2, <2>3, <2>4, Sweep, Enough
<1> QED
  BY <1>1, <1>2

LEMMA CheckStep ==
    ASSUME CallsInv,
           \/ \E c \in Call : CancelCheck(c)
           \/ \E u \in User, c \in Call : Requests(u, c)
           \/ \E u \in User : Cleanup(u)
    PROVE  CallsInv'
<1>0. CallsInv => pending \subseteq CommandType /\ grace \in [User -> 0 .. MaxTimers]
  BY DEF CallsInv, TypeOK
<1>1. ASSUME NEW k \in {"accept", "reject", "cancel", "end"},
             NEW u \in User, NEW c \in Call, Submit(k, u, c),
             k = "end" => status[c] = "active",
             UNCHANGED <<dialVars, tabVars, members, lost>>,
             UNCHANGED callVars \/ TimeOut(Overdue, {})
      PROVE  CallsInv'
  <2> DEFINE new == {Command(k, u, c, "request")}
  <2>1. new \subseteq CommandType
    BY DEF Command, CommandType
  <2>2. \A m \in new : m.kind = "end" => status[m.call] = "active"
    BY <1>1 DEF Command
  <2>3. pending' = pending \cup new
    BY <1>1 DEF Submit
  <2>4. UNCHANGED <<dialVars, members, online, lost>> /\ grace' = grace
    BY <1>1 DEF tabVars
  <2>5. UNCHANGED callVars \/ \E ms \in SUBSET Overdue : TimeOut(ms, {})
    BY <1>1
  <2> HIDE DEF new
  <2> QED
    BY <1>0, <2>1, <2>2, <2>3, <2>4, <2>5, AdmitStep
<1>2. ASSUME NEW c \in Call, CancelCheck(c)
      PROVE  CallsInv'
  <2>1. Caller[c] \in User
    BY CallAssumption DEF CallAssumption
  <2> QED
    BY <1>1, <1>2, <2>1 DEF CancelCheck
<1>3. ASSUME NEW u \in User, NEW c \in Call, Requests(u, c)
      PROVE  CallsInv'
  <2>1. CASE AcceptCheck(u, c)
    BY <1>1, <2>1 DEF AcceptCheck
  <2>2. CASE RejectCheck(u, c)
    BY <1>1, <2>2 DEF RejectCheck
  <2>3. CASE EndCheck(u, c)
    BY <1>1, <2>3 DEF EndCheck
  <2> QED
    BY <1>3, <2>1, <2>2, <2>3 DEF Requests
<1>4. ASSUME NEW u \in User, Cleanup(u)
      PROVE  CallsInv'
  <2>1. grace' \in [User -> 0 .. MaxTimers]
    BY <1>0, <1>4, CallAssumption DEF Cleanup, CallAssumption
  <2> DEFINE new == IF u \in online THEN {} ELSE {Ending(u, c) : c \in LiveOf(u)}
  <2>2. new \subseteq CommandType
    BY DEF Ending, Command, CommandType, LiveOf
  <2>3. \A m \in new : m.kind = "end" => status[m.call] = "active"
    BY DEF Ending, Command, LiveOf
  <2>4. pending' = pending \cup new
    BY <1>4 DEF Cleanup
  <2> HIDE DEF new
  <2> QED
    BY <1>4, <2>1, <2>2, <2>3, <2>4, AdmitStep DEF Cleanup
<1> QED
  BY <1>2, <1>3, <1>4

-----------------------------------------------------------------------------
\* A command that is carried out.  Its UPDATE finds the row free, so no request
\* counts on the call to live on.
LEMMA DropStep ==
    ASSUME CallsInv, NEW m \in pending, m.kind # "card" \/ m.call \in lost',
           Drop(m), UNCHANGED <<status, card, age>>, UNCHANGED <<dialVars, tabVars, members>>,
           inCall' \in [Call -> SUBSET User], lost' \subseteq Call, lost \subseteq lost',
           \A c \in Call : Live(c) => inCall'[c] = inCall[c]
    PROVE  CallsInv'
<1> USE DEF CallsInv, Drop
<1>1. Subsides
  BY DEF Subsides, Live
<1>2. TypeOK'
  BY DEF TypeOK, dialVars, tabVars
<1>3. EndAfterAccept' /\ CardTellsTruth'
  BY DEF EndAfterAccept, CardTellsTruth
<1>4. CardIsWritten'
  BY DEF CardIsWritten
<1> QED
  BY <1>1, <1>2, <1>3, <1>4, Enough

LEMMA AcceptStep ==
    ASSUME CallsInv, NEW m \in pending, Accept(m), UNCHANGED lost,
           UNCHANGED <<dialVars, tabVars, members>>
    PROVE  CallsInv'
<1> USE DEF CallsInv
<1>0. m \in CommandType /\ m.kind = "accept" /\ Drop(m)
  BY DEF TypeOK, Accept, Runs
<1>1. CASE status[m.call] # "ringing"
  BY <1>0, <1>1, DropStep DEF Accept, callVars, TypeOK
<1>2. CASE status[m.call] = "ringing"
  <2> USE <1>0, <1>2 DEF Accept, Drop, CommandType
  <2>1. Subsides
    BY DEF Subsides, Live, TypeOK
  <2>2. TypeOK'
    BY DEF TypeOK, dialVars, tabVars
  <2>3. EndAfterAccept' /\ CardTellsTruth'
    BY DEF EndAfterAccept, CardTellsTruth, TypeOK, Final
  <2>4. CardIsWritten'
    BY DEF CardIsWritten, TypeOK, Final
  <2> QED
    BY <2>1, <2>2, <2>3, <2>4, Enough
<1> QED
  BY <1>1, <1>2

\* A handler that ends a live call leaves the card to be written.
LEMMA FinishStep ==
    ASSUME CallsInv, NEW m \in pending, NEW s \in Final,
           Finish(m, s), Live(m.call), ~RowLocked(m.call), m.kind # "card",
           UNCHANGED lost, UNCHANGED <<dialVars, tabVars, members>>
    PROVE  CallsInv'
<1> USE DEF CallsInv, Finish
<1>0. m \in CommandType
  BY DEF TypeOK
<1>1. Subsides
  BY <1>0 DEF Subsides, Live, TypeOK, CommandType, Final
<1>2. TypeOK'
  BY <1>0 DEF TypeOK, dialVars, tabVars, CommandType, Final
<1>3. EndAfterAccept'
  BY <1>0 DEF EndAfterAccept, TypeOK, CommandType, Final
<1>4. CardTellsTruth'
  BY <1>0 DEF CardTellsTruth, TypeOK, CommandType, Final, Live
<1>5. CardIsWritten'
  <2>1. LET n == [m EXCEPT !.kind = "card"]
        IN  n \in pending' /\ n.kind = "card" /\ n.call = m.call
    BY <1>0 DEF CommandType
  <2>2. ASSUME NEW c \in Call, status'[c] \in Final
        PROVE  \/ card'[c] # "none" \/ c \in lost'
               \/ \E n \in pending' : n.kind = "card" /\ n.call = c
    <3>1. CASE c = m.call
      BY <2>1, <3>1
    <3>2. CASE c # m.call
      BY <2>2, <3>2 DEF CardIsWritten, TypeOK
    <3> QED
      BY <3>1, <3>2
  <2> QED
    BY <2>2 DEF CardIsWritten
<1> QED
  BY <1>1, <1>2, <1>3, <1>4, <1>5, Enough

LEMMA WriteStep ==
    ASSUME CallsInv, NEW m \in pending, WriteCard(m), UNCHANGED lost,
           UNCHANGED <<dialVars, tabVars, members>>
    PROVE  CallsInv'
<1> USE DEF CallsInv, WriteCard, Drop
<1>0. m \in CommandType
  BY DEF TypeOK
<1>1. Subsides
  BY DEF Subsides, Live
<1>2. TypeOK'
  BY <1>0 DEF TypeOK, dialVars, tabVars, CommandType
<1>3. EndAfterAccept' /\ CardTellsTruth'
  BY <1>0 DEF EndAfterAccept, CardTellsTruth, TypeOK, CommandType
<1>4. CardIsWritten'
  BY <1>0 DEF CardIsWritten, TypeOK, CommandType, Final
<1> QED
  BY <1>1, <1>2, <1>3, <1>4, Enough

LEMMA CommandStep ==
    ASSUME CallsInv, NEW m \in pending, Handling(m) \/ Die(m),
           UNCHANGED <<dialVars, tabVars, members>>
    PROVE  CallsInv'
<1>0. m \in CommandType /\ lost \subseteq Call /\ inCall \in [Call -> SUBSET User]
  BY DEF CallsInv, TypeOK
<1>1. CASE Accept(m) /\ UNCHANGED lost
  BY <1>1, AcceptStep
<1>2. CASE (Reject(m) \/ Cancel(m)) /\ UNCHANGED lost
  <2>1. CASE status[m.call] = "ringing"
    BY <1>2, <2>1, FinishStep DEF Reject, Cancel, Runs, Live, Final
  <2>2. CASE status[m.call] # "ringing"
    BY <1>0, <1>2, <2>2, DropStep DEF Reject, Cancel, Runs, callVars
  <2> QED
    BY <2>1, <2>2
<1>3. CASE End(m) /\ UNCHANGED lost
  <2>1. CASE m.user \in inCall[m.call] /\ status[m.call] = "active"
    BY <1>3, <2>1, FinishStep DEF End, Runs, Live, Final
  <2>2. CASE ~(m.user \in inCall[m.call] /\ status[m.call] = "active")
    <3>1. status[m.call] \notin {"none", "ringing"}
      BY <1>3 DEF CallsInv, EndAfterAccept, End, Runs
    <3>2. \A c \in Call : Live(c) => inCall'[c] = inCall[c]
      BY <1>0, <1>3, <2>2, <3>1 DEF End, Live
    <3>3. inCall' \in [Call -> SUBSET User]
      BY <1>0, <1>3, <2>2 DEF End
    <3> QED
      BY <1>0, <1>3, <2>2, <3>2, <3>3, DropStep DEF End, Runs
  <2> QED
    BY <2>1, <2>2
<1>4. CASE WriteCard(m) /\ UNCHANGED lost
  BY <1>4, WriteStep
<1>5. CASE Die(m)
  <2>1. lost' \subseteq Call /\ lost \subseteq lost' /\ (m.kind = "card" => m.call \in lost')
    BY <1>0, <1>5 DEF Die, CommandType
  <2> QED
    BY <1>0, <1>5, <2>1, DropStep DEF Die, callVars
<1> QED
  BY <1>1, <1>2, <1>3, <1>4, <1>5 DEF Handling

-----------------------------------------------------------------------------
LEMMA DialCheckStep ==
    ASSUME CallsInv, NEW c \in Call, NEW v \in User, DialCheck(c, v)
    PROVE  CallsInv'
<1> USE DEF CallsInv, DialCheck
<1>0. /\ ChatOf \in [Call -> Chat] /\ Caller \in [Call -> User]
      /\ dial \in [Call -> {"new", "locking", "inserting", "refused", "done"}]
      /\ party \in [Call -> SUBSET User] /\ want \in [Call -> SUBSET (Chat \cup User)]
  BY CallAssumption DEF CallAssumption, TypeOK
<1>1. Subsides /\ CardTellsTruth'
  BY Sweep
<1>2. TypeOK'
  BY <1>0, Sweep DEF TypeOK, tabVars
<1>3. EndAfterAccept'
  BY <1>1 DEF EndAfterAccept, Subsides, TypeOK, CommandType
<1>4. CardIsWritten'
  BY Sweep DEF CardIsWritten
<1>5. Exclusive'
  BY <1>0 DEF Exclusive, Holds, Locks
<1>6. Started' /\ PartyKnown'
  BY <1>0, <1>1 DEF Started, PartyKnown, Subsides
<1>7. Reserved'
  BY <1>0, <1>1 DEF Reserved, Subsides
<1>8. DoomedHere'
  BY <1>0, <1>1 DEF DoomedHere, Subsides, RowLocked
<1>9. OneLivePerChat'
  BY <1>1 DEF OneLivePerChat, Subsides
<1>10. NobodyAlone'
  BY <1>0, <1>1 DEF NobodyAlone, Subsides, Started, Live
<1> QED
  BY <1>1, <1>2, <1>3, <1>4, <1>5, <1>6, <1>7, <1>8, <1>9, <1>10

LEMMA DialLockStep ==
    ASSUME CallsInv, NEW c \in Call, DialLock(c) \/ DialFail(c)
    PROVE  CallsInv'
<1> USE DEF CallsInv, DialLock, DialFail, callVars, TypeOK
<1>1. TypeOK'
  BY DEF tabVars
<1>2. EndAfterAccept' /\ CardTellsTruth' /\ CardIsWritten'
  BY DEF EndAfterAccept, CardTellsTruth, CardIsWritten
<1>3. Exclusive'
  BY DEF Exclusive, Holds, Locks
<1>4. Started' /\ PartyKnown'
  BY DEF Started, PartyKnown
<1>5. Reserved' /\ DoomedHere'
  BY DEF Reserved, DoomedHere, Live
<1>6. OneLivePerChat' /\ NobodyAlone'
  BY DEF OneLivePerChat, NobodyAlone, Live
<1> QED
  BY <1>1, <1>2, <1>3, <1>4, <1>5, <1>6

\* The check with the locks held.  A call that is neither overdue nor abandoned
\* refuses the request, so what is left alive in the chat is in doomed[c].
LEMMA DialReapStep ==
    ASSUME CallsInv, NEW c \in Call, DialReap(c)
    PROVE  CallsInv'
<1> DEFINE here == {d \in Call : ChatOf[d] = ChatOf[c]}
           gone == here \cap (Overdue \cup Abandoned)
           free == ~Busy(party[c], gone) /\ \A d \in here \ gone : ~Live(d)
<1>0. /\ dial[c] = "locking" /\ want[c] = {}
      /\ dial' = [dial EXCEPT ![c] = IF free THEN "inserting" ELSE "refused"]
      /\ \A d \in gone : ~RowLocked(d)
      /\ UNCHANGED <<party, want, tabVars, members, pending, lost>>
  BY DEF DialReap
<1>1. CASE free
  <2> USE <1>0, <1>1 DEF CallsInv, callVars, TypeOK
  <2>0. doomed' = [doomed EXCEPT ![c] = gone] /\ UNCHANGED callVars
    BY DEF DialReap
  <2>1. \A d \in gone : Live(d)
    BY DEF Overdue, Abandoned, Live
  <2>2. TypeOK'
    BY <2>0 DEF tabVars
  <2>3. EndAfterAccept' /\ CardTellsTruth' /\ CardIsWritten'
    BY <2>0 DEF EndAfterAccept, CardTellsTruth, CardIsWritten
  <2>4. Exclusive'
    BY <2>0 DEF Exclusive, Holds, Locks
  <2>5. Started' /\ PartyKnown'
    BY <2>0 DEF Started, PartyKnown
  <2>6. Reserved'
    BY <2>0 DEF Reserved, Live
  <2>7. DoomedHere'
    BY <2>0, <2>1 DEF DoomedHere, Live
  <2>8. OneLivePerChat' /\ NobodyAlone'
    BY <2>0 DEF OneLivePerChat, NobodyAlone, Live
  <2> QED
    BY <2>2, <2>3, <2>4, <2>5, <2>6, <2>7, <2>8
<1>2. CASE ~free
  <2>0. TimeOut(gone \cap Overdue, gone \cap Abandoned) /\ UNCHANGED doomed
    BY <1>0, <1>2 DEF DialReap
  <2>1. /\ Subsides /\ CardTellsTruth'
        /\ status' \in [Call -> {"none", "ringing", "active"} \cup Final]
        /\ inCall' \in [Call -> SUBSET User]
        /\ card' \in [Call -> {"none"} \cup Final]
        /\ age' = age
        /\ \A d \in Call : status'[d] \in Final =>
               card'[d] # "none" \/ (status[d] \in Final /\ card'[d] = card[d])
    BY <2>0, Sweep
  <2>2. /\ dial' = [dial EXCEPT ![c] = "refused"]
        /\ UNCHANGED <<party, want, doomed, tabVars, members, pending, lost>>
    BY <1>0, <1>2, <2>0
  <2> HIDE DEF here, gone, free
  <2> USE <1>0, <2>1, <2>2 DEF CallsInv
  <2>3. TypeOK'
    BY DEF TypeOK, tabVars
  <2>4. EndAfterAccept'
    BY DEF EndAfterAccept, Subsides, TypeOK, CommandType
  <2>5. CardIsWritten'
    BY DEF CardIsWritten
  <2>6. Exclusive'
    BY DEF Exclusive, Holds, Locks, TypeOK
  <2>7. Started' /\ PartyKnown'
    BY DEF Started, PartyKnown, Subsides, TypeOK
  <2>8. Reserved' /\ DoomedHere'
    BY DEF Reserved, DoomedHere, Subsides, RowLocked, TypeOK
  <2>9. OneLivePerChat' /\ NobodyAlone'
    BY DEF OneLivePerChat, NobodyAlone, Subsides
  <2> QED
    BY <2>3, <2>4, <2>5, <2>6, <2>7, <2>8, <2>9
<1> QED
  BY <1>1, <1>2

\* The insert: the calls of the chat end in the transaction that begins the
\* next one, and the locks of the chat keep other inserts out.
LEMMA DialInsertStep ==
    ASSUME CallsInv, NEW c \in Call, DialInsert(c)
    PROVE  CallsInv'
<1> USE DEF CallsInv, DialInsert, TypeOK, Final
<1>1. \A d \in Call : Live(d)' => d = c \/ (Live(d) /\ d \notin doomed[c])
  BY DEF Live
<1>2. status[c] = "none" /\ c \notin doomed[c]
  BY DEF Started, DoomedHere, Live
<1>3. \A d \in doomed[c] : Live(d) /\ d # c
  BY <1>2 DEF DoomedHere
<1>4. TypeOK'
  <2>1. status' \in [Call -> {"none", "ringing", "active"} \cup Final]
    OBVIOUS
  <2>2. card' \in [Call -> {"none"} \cup Final]
    BY <1>3 DEF Live
  <2>3. inCall' \in [Call -> SUBSET User]
    OBVIOUS
  <2> QED
    BY <2>1, <2>2, <2>3 DEF tabVars
<1>5. EndAfterAccept'
  BY <1>2, <1>3 DEF EndAfterAccept, CommandType, Live
<1>6. CardTellsTruth'
  BY <1>2, <1>3 DEF CardTellsTruth, Live
<1>7. CardIsWritten'
  BY <1>2, <1>3 DEF CardIsWritten
<1>8. Exclusive'
  BY DEF Exclusive, Holds, Locks
<1>9. Started' /\ PartyKnown'
  BY <1>2, <1>3 DEF Started, PartyKnown, Live
<1>10. \A d \in Call \ {c} : dial[d] = "inserting" => ChatOf[d] # ChatOf[c]
  <2> SUFFICES ASSUME NEW d \in Call \ {c}, dial[d] = "inserting", ChatOf[d] = ChatOf[c]
              PROVE  FALSE
    OBVIOUS
  <2>1. want[c] = {} /\ want[d] = {}
    BY DEF Reserved
  <2>2. Holds(c, ChatOf[c]) /\ Holds(d, ChatOf[c])
    BY <2>1 DEF Holds, Locks
  <2> QED
    BY <2>2 DEF Exclusive
<1>11. Reserved'
  BY <1>1, <1>10 DEF Reserved
<1>12. DoomedHere'
  BY <1>2, <1>3, <1>10 DEF DoomedHere, Live
<1>13. OneLivePerChat'
  BY <1>1 DEF OneLivePerChat, Reserved
<1>14. NobodyAlone'
  BY <1>1, <1>2, <1>3 DEF NobodyAlone, PartyKnown, Live
<1> QED
  BY <1>4, <1>5, <1>6, <1>7, <1>8, <1>9, <1>11, <1>12, <1>13, <1>14

-----------------------------------------------------------------------------
LEMMA CallsStep == CallsInv /\ [Next]_vars => CallsInv'
<1> SUFFICES ASSUME CallsInv, [Next]_vars PROVE CallsInv'
  OBVIOUS
<1>1. CASE UNCHANGED vars
  BY <1>1, Untouched DEF vars, callVars, dialVars, tabVars, CallsInv, TypeOK
<1>2. CASE MarkMissed \/ ReapStale
  BY <1>2, SweepStep
<1>3. ASSUME NEW c \in Call, Dialing(c) PROVE CallsInv'
  BY <1>3, DialCheckStep, DialLockStep, DialReapStep, DialInsertStep DEF Dialing
<1>4. CASE \/ \E c \in Call : CancelCheck(c)
           \/ \E u \in User, c \in Call : Requests(u, c)
           \/ \E u \in User : Cleanup(u)
  BY <1>4, CheckStep
<1>5. CASE \E m \in pending : /\ Handling(m) \/ Die(m)
                              /\ UNCHANGED <<dialVars, tabVars, members>>
  BY <1>5, CommandStep
<1>6. CASE \/ \E c \in Call : Older(c)
           \/ \E u \in User : Disconnect(u) \/ Reconnect(u)
           \/ \E u \in User, ch \in Chat : JoinChat(u, ch)
  BY <1>6, AsideStep
<1> QED
  BY <1>1, <1>2, <1>3, <1>4, <1>5, <1>6 DEF Next

\* The inductive invariant holds in every state the service can reach.
THEOREM CallsInvariant == Spec => []CallsInv
BY CallsInit, CallsStep, PTL DEF Spec

\* Every variable of the call service keeps its type.
THEOREM CallsTypeCorrect == Spec => []TypeOK
BY CallsInvariant, PTL DEF CallsInv

\* A chat never has two live calls, however many members dial at once.
THEOREM OneCallPerChat == Spec => []OneLivePerChat
BY CallsInvariant, PTL DEF CallsInv

\* Caller and callee are both in a live call, from its first ring to its end.
THEOREM BothStayIn == Spec => []NobodyAlone
BY CallsInvariant, PTL DEF CallsInv

\* A call that is over has its card, or somebody about to write it, unless the
\* handler that ended it died.
THEOREM CardsAreWritten == Spec => []CardIsWritten
BY CallsInvariant, PTL DEF CallsInv

\* The card of a call never contradicts its status.
THEOREM CardsTellTruth == Spec => []CardTellsTruth
BY CallsInvariant, PTL DEF CallsInv

-----------------------------------------------------------------------------
(* Requests never wait for one another in a circle.  Each takes the lock of *)
(* its chat first, when it holds none, then those of its participants from  *)
(* the lowest number up (Ordered), then rows (ending calls).  So whoever is *)
(* waited for stands further on in this order (Ahead) than who waits.       *)

Ordered ==
    \A c \in Call : dial[c] = "locking" =>
        /\ \E u, v \in User : party[c] = {u, v}
        /\ want[c] \subseteq Locks(c)
        /\ ChatOf[c] \in want[c] => want[c] = Locks(c)
        /\ \A u \in party[c] \ want[c], v \in want[c] : v # ChatOf[c] => u < v

\* How far a request has come: to its chat's lock, its participants', the rows.
Stage(c) == IF dial[c] = "inserting" THEN 3
            ELSE IF want[c] = {} THEN 2
            ELSE IF ChatOf[c] \notin want[c] THEN 1 ELSE 0

Ahead(d, c) ==
    \/ Stage(c) < Stage(d)
    \/ Stage(c) = 1 /\ Stage(d) = 1 /\ NextLock(c) < NextLock(d)

\* A chat is nobody's user id.
LEMMA Apart ==
    ASSUME NEW c \in Call
    PROVE  ChatOf[c] \in Chat /\ ChatOf[c] \notin User
BY CallAssumption DEF CallAssumption

\* The least of two numbers, which is all that Min has to find here.
LEMMA LeastOfTwo ==
    ASSUME NEW u \in Nat, NEW v \in Nat, NEW S, S \subseteq {u, v}, S # {}
    PROVE  Min(S) \in S /\ \A x \in S : Min(S) <= x
<1>1. \E m \in S : \A x \in S : m <= x
  <2>1. CASE u \in S /\ (v \in S => u <= v)
    BY <2>1
  <2>2. CASE v \in S /\ (u \in S => v <= u)
    BY <2>2
  <2>3. u \in S \/ v \in S
    OBVIOUS
  <2>4. u <= v \/ v <= u
    OBVIOUS
  <2> QED
    BY <2>1, <2>2, <2>3, <2>4
<1> QED
  BY <1>1 DEF Min

LEMMA NextLockIs ==
    ASSUME TypeOK, Ordered, NEW c \in Call, dial[c] = "locking", want[c] # {}
    PROVE  /\ NextLock(c) \in want[c]
           /\ ChatOf[c] \in want[c] => NextLock(c) = ChatOf[c]
           /\ ChatOf[c] \notin want[c] => /\ want[c] \subseteq User /\ NextLock(c) \in User
                                         /\ \A v \in want[c] : NextLock(c) <= v
<1>1. CASE ChatOf[c] \in want[c]
  BY <1>1 DEF NextLock
<1>2. CASE ChatOf[c] \notin want[c]
  <2>1. PICK u, v \in User : party[c] = {u, v}
    BY DEF Ordered
  <2>2. want[c] \subseteq {u, v} /\ u \in Nat /\ v \in Nat
    BY <1>2, <2>1, CallAssumption DEF Ordered, Locks, CallAssumption
  <2>3. Min(want[c]) \in want[c] /\ \A x \in want[c] : Min(want[c]) <= x
    BY <2>2, LeastOfTwo
  <2> QED
    BY <1>2, <2>2, <2>3 DEF NextLock
<1> QED
  BY <1>1, <1>2

LEMMA OrderedInit == Init => Ordered
BY DEF Init, Ordered

LEMMA OrderedStep == TypeOK /\ Ordered /\ [Next]_vars => Ordered'
<1> SUFFICES ASSUME TypeOK, Ordered, [Next]_vars PROVE Ordered'
  OBVIOUS
<1>1. ASSUME UNCHANGED <<dial, party, want>> PROVE Ordered'
  BY <1>1 DEF Ordered, Locks
<1>2. ASSUME NEW c \in Call, NEW v \in User, DialCheck(c, v) PROVE Ordered'
  <2>1. /\ dial' = [dial EXCEPT ![c] = "locking"]
        /\ party' = [party EXCEPT ![c] = {Caller[c], v}]
        /\ want' = [want EXCEPT ![c] = {Caller[c], v, ChatOf[c]}]
    BY <1>2 DEF DialCheck
  <2>2. Caller[c] \in User
    BY CallAssumption DEF CallAssumption
  <2>3. \A d \in Call \ {c} : dial'[d] = dial[d] /\ party'[d] = party[d] /\ want'[d] = want[d]
    BY <2>1 DEF TypeOK
  <2>4. party'[c] = {Caller[c], v} /\ want'[c] = {Caller[c], v, ChatOf[c]}
    BY <2>1 DEF TypeOK
  <2> QED
    BY <2>2, <2>3, <2>4 DEF Ordered, Locks
<1>3. ASSUME NEW c \in Call, DialLock(c) PROVE Ordered'
  <2>1. /\ dial[c] = "locking" /\ want[c] # {} /\ UNCHANGED <<dial, party>>
        /\ want' = [want EXCEPT ![c] = @ \ {NextLock(c)}]
    BY <1>3 DEF DialLock
  <2>2. \A d \in Call \ {c} : want'[d] = want[d]
    BY <2>1 DEF TypeOK
  <2>3. want'[c] = want[c] \ {NextLock(c)}
    BY <2>1 DEF TypeOK
  <2>4. /\ \E u, v \in User : party[c] = {u, v}
        /\ want'[c] \subseteq Locks(c) /\ ChatOf[c] \notin want'[c]
    BY <2>1, <2>3, NextLockIs DEF Ordered
  <2>5. \A u \in party[c] \ want'[c], v \in want'[c] : u < v
    <3>1. CASE ChatOf[c] \in want[c]
      <4>1. NextLock(c) = ChatOf[c] /\ want[c] = Locks(c)
        BY <2>1, <3>1, NextLockIs DEF Ordered
      <4> QED
        BY <2>3, <2>4, <4>1, Apart DEF Locks
    <3>2. CASE ChatOf[c] \notin want[c]
      <4>1. /\ want[c] \subseteq User /\ NextLock(c) \in User
            /\ \A v \in want[c] : NextLock(c) <= v
        BY <2>1, <3>2, NextLockIs
      <4>2. want[c] \subseteq Nat /\ NextLock(c) \in Nat
        BY <4>1, CallAssumption DEF CallAssumption
      <4>3. \A u \in party[c] \ want[c], v \in want[c] : u < v
        BY <2>1, <3>2 DEF Ordered
      <4> QED
        BY <2>3, <4>1, <4>2, <4>3
    <3> QED
      BY <3>1, <3>2
  <2> QED
    BY <2>1, <2>2, <2>4, <2>5 DEF Ordered, Locks
<1>4. ASSUME NEW c \in Call, DialReap(c) \/ DialInsert(c) \/ DialFail(c) PROVE Ordered'
  <2>1. /\ UNCHANGED <<party, want>>
        /\ \E step \in {"inserting", "refused", "done"} : dial' = [dial EXCEPT ![c] = step]
    BY <1>4 DEF DialReap, DialInsert, DialFail
  <2>2. \A d \in Call : dial'[d] = "locking" => dial[d] = "locking"
    BY <2>1 DEF TypeOK
  <2> QED
    BY <2>1, <2>2 DEF Ordered, Locks
<1>5. CASE MarkMissed \/ ReapStale \/ \E c \in Call : Older(c) \/ CancelCheck(c)
  BY <1>1, <1>5 DEF MarkMissed, ReapStale, Older, CancelCheck, dialVars
<1>6. CASE \/ \E u \in User, c \in Call : Requests(u, c)
           \/ \E m \in pending : /\ Handling(m) \/ Die(m)
                                 /\ UNCHANGED <<dialVars, tabVars, members>>
  BY <1>1, <1>6 DEF Requests, AcceptCheck, RejectCheck, EndCheck, dialVars
<1>7. CASE \/ \E u \in User : Disconnect(u) \/ Reconnect(u) \/ Cleanup(u)
           \/ \E u \in User, ch \in Chat : JoinChat(u, ch)
           \/ UNCHANGED vars
  BY <1>1, <1>7 DEF Disconnect, Reconnect, Cleanup, JoinChat, vars, dialVars
<1> QED
  BY <1>2, <1>3, <1>4, <1>5, <1>6, <1>7 DEF Next, Dialing

LEMMA WaitsForAhead ==
    ASSUME CallsInv, Ordered, NEW c \in Call, NEW d \in Call, WaitsFor(c, d)
    PROVE  Ahead(d, c)
<1> USE DEF CallsInv
<1>1. dial[c] = "locking" /\ c # d
  BY DEF WaitsFor
<1>2. CASE want[c] # {} /\ Holds(d, NextLock(c))
  <2> DEFINE k == NextLock(c)
  <2>1. k \in want[c] /\ k \in Locks(d) \ want[d] /\ dial[d] \in {"locking", "inserting"}
    BY <1>1, <1>2, NextLockIs DEF Holds
  <2>2. CASE dial[d] = "inserting" \/ want[d] = {}
    BY <1>1, <1>2, <2>2 DEF Ahead, Stage
  <2>3. CASE dial[d] = "locking" /\ want[d] # {}
    <3>1. ChatOf[d] \notin want[d] /\ Stage(d) = 1
      BY <2>1, <2>3 DEF Ordered, Stage
    <3>2. CASE ChatOf[c] \in want[c]
      BY <1>1, <1>2, <3>1, <3>2 DEF Ahead, Stage
    <3>3. CASE ChatOf[c] \notin want[c]
      <4>1. Stage(c) = 1 /\ k \in User
        BY <1>1, <1>2, <3>3, NextLockIs DEF Stage
      <4>2. k \in party[d] \ want[d]
        BY <2>1, <4>1, Apart DEF Locks
      <4>3. NextLock(d) \in want[d] /\ NextLock(d) # ChatOf[d]
        BY <2>3, <3>1, NextLockIs
      <4>4. k < NextLock(d)
        BY <2>3, <4>2, <4>3 DEF Ordered
      <4> QED
        BY <3>1, <4>1, <4>4 DEF Ahead
    <3> QED
      BY <3>2, <3>3
  <2> QED
    BY <2>1, <2>2, <2>3
<1>3. CASE want[c] = {} /\ doomed[d] # {}
  <2>1. dial[d] = "inserting"
    BY <1>3 DEF DoomedHere, TypeOK
  <2> QED
    BY <1>1, <1>3, <2>1 DEF Ahead, Stage
<1> QED
  BY <1>2, <1>3 DEF WaitsFor

LEMMA AheadIsOrder ==
    ASSUME TypeOK, Ordered, NEW cs \in SUBSET Call, \A c \in cs : dial[c] \in {"locking", "inserting"}
    PROVE  /\ \A c \in cs : ~Ahead(c, c)
           /\ \A c, d, e \in cs : Ahead(c, d) /\ Ahead(d, e) => Ahead(c, e)
<1>1. \A c \in cs : Stage(c) \in 0 .. 3
  BY DEF Stage
<1>2. ASSUME NEW c \in cs, Stage(c) = 1 PROVE NextLock(c) \in Nat
  <2>1. dial[c] = "locking" /\ want[c] # {} /\ ChatOf[c] \notin want[c]
    BY <1>2 DEF Stage
  <2> QED
    BY <2>1, NextLockIs, CallAssumption DEF CallAssumption
<1> QED
  BY <1>1, <1>2 DEF Ahead

\* Of finitely many things in an order, one has nothing above it: the sets of
\* what is above each have a smallest one.
LEMMA SomeTop ==
    ASSUME NEW S, IsFiniteSet(S), S # {}, NEW R,
           \A x \in S : <<x, x>> \notin R,
           \A x, y, z \in S : <<x, y>> \in R /\ <<y, z>> \in R => <<x, z>> \in R
    PROVE  \E x \in S : \A y \in S : <<y, x>> \notin R
<1> DEFINE above(x) == {y \in S : <<y, x>> \in R}
           T == {above(x) : x \in S}
<1>1. T # {} /\ T \subseteq FiniteSubsetsOf(S)
  <2>1. ASSUME NEW x \in S PROVE above(x) \in SUBSET S /\ IsFiniteSet(above(x))
    BY FS_Subset
  <2>2. ASSUME NEW x \in S PROVE above(x) \in FiniteSubsetsOf(S)
    <3> HIDE DEF above
    <3> QED
      BY <2>1, <2>2 DEF FiniteSubsetsOf
  <2> HIDE DEF above
  <2> QED
    BY <2>2
<1>2. PICK U \in T : \A V \in T : <<V, U>> \notin StrictSubsetOrdering(S)
  <2> HIDE DEF T
  <2> QED
    BY <1>1, FS_StrictSubsetOrderingWellFounded, WFMin
<1>3. PICK x \in S : U = above(x)
  OBVIOUS
<1>4. ASSUME NEW y \in S, <<y, x>> \in R PROVE FALSE
  <2>1. above(y) \subseteq above(x) /\ y \in above(x) /\ y \notin above(y)
    BY <1>4
  <2>2. above(y) \in T /\ above(y) \in SUBSET S /\ above(x) \in SUBSET S
    OBVIOUS
  <2> QED
    BY <1>2, <1>3, <2>1, <2>2 DEF StrictSubsetOrdering
<1> QED
  BY <1>4

\* However many requests for however many chats wait for locks and rows, one of
\* them can go on as far as the others are concerned.
THEOREM NoCircleOfWaits == Spec => []NobodyDeadlocks
<1>1. CallsInv /\ Ordered => NobodyDeadlocks
  <2> SUFFICES ASSUME CallsInv, Ordered, NEW cs \in SUBSET Call, IsFiniteSet(cs), cs # {}
               PROVE  \E c \in cs : \A d \in cs : ~WaitsFor(c, d)
    BY DEF NobodyDeadlocks
  <2> DEFINE busy == {c \in cs : dial[c] \in {"locking", "inserting"}}
             R == {p \in busy \X busy : Ahead(p[1], p[2])}
  <2>1. \A c, d \in cs : WaitsFor(c, d) => c \in busy /\ d \in busy /\ <<d, c>> \in R
    <3> SUFFICES ASSUME NEW c \in cs, NEW d \in cs, WaitsFor(c, d)
                 PROVE  c \in busy /\ d \in busy /\ <<d, c>> \in R
      OBVIOUS
    <3>1. dial[c] = "locking" /\ dial[d] \in {"locking", "inserting"}
      BY DEF WaitsFor, Holds, CallsInv, TypeOK, DoomedHere
    <3>2. Ahead(d, c)
      BY WaitsForAhead
    <3> QED
      BY <3>1, <3>2
  <2>2. CASE busy = {}
    BY <2>1, <2>2
  <2>3. CASE busy # {}
    <3>1. IsFiniteSet(busy)
      BY FS_Subset
    <3>2. /\ \A x \in busy : <<x, x>> \notin R
          /\ \A x, y, z \in busy : <<x, y>> \in R /\ <<y, z>> \in R => <<x, z>> \in R
      <4>1. /\ \A c \in busy : ~Ahead(c, c)
            /\ \A c, d, e \in busy : Ahead(c, d) /\ Ahead(d, e) => Ahead(c, e)
        BY AheadIsOrder DEF CallsInv
      <4> QED
        BY <4>1
    <3>3. PICK c \in busy : \A d \in busy : <<d, c>> \notin R
      <4> HIDE DEF R, busy
      <4> QED
        BY <2>3, <3>1, <3>2, SomeTop
    <3> QED
      BY <2>1, <3>3
  <2> QED
    BY <2>2, <2>3
<1>2. CallsInv /\ Ordered /\ [Next]_vars => Ordered'
  BY OrderedStep DEF CallsInv
<1> QED
  BY <1>1, <1>2, OrderedInit, CallsInvariant, PTL DEF Spec

-----------------------------------------------------------------------------
(* The call service implements Exchange, a switch with one line per user.   *)
(* The argument goes beyond one chat: a user's line is reserved by the      *)
(* advisory lock on the user (Promised), so two requests in two chats       *)
(* cannot both find it free (OneLine).  Every step of the service then has  *)
(* one of three shapes (Shapes): calls end, one is answered, one is placed. *)

\* Whoever a request has found free is only in calls that it is about to end.
Promised ==
    \A c, d \in Call : \A u \in party[c] \cap party[d] :
        dial[c] = "inserting" /\ Live(d) => d \in doomed[c]

OneLine ==
    \A c, d \in Call : \A u \in party[c] \cap party[d] :
        Live(c) /\ Live(d) => c = d

LineInv == CallsInv /\ Promised /\ OneLine

-----------------------------------------------------------------------------
\* The shapes of a step.
Ends(cs) ==
    /\ \A c \in cs : Live(c) /\ status'[c] \in Final
    /\ \A c \in Call \ cs : status'[c] = status[c]
    /\ \A c \in Call : Live(c) => party'[c] = party[c]

Answers(c) ==
    /\ status[c] = "ringing"
    /\ status' = [status EXCEPT ![c] = "active"]
    /\ party' = party

Shape == \/ \E cs \in SUBSET Call : Ends(cs)
         \/ \E c \in Call : Answers(c)

\* What a step may do to a request that is past its checks, or gets there.
Proceeds ==
    \A c \in Call : dial'[c] = "inserting" =>
        \/ dial[c] = "inserting" /\ party'[c] = party[c] /\ doomed'[c] = doomed[c]
        \/ DialReap(c)

LEMMA TimeOutEnds ==
    ASSUME CallsInv, NEW ms, NEW fs, ms \subseteq Overdue, fs \subseteq Abandoned,
           TimeOut(ms, fs), \A c \in Call : Live(c) => party'[c] = party[c]
    PROVE  \E cs \in SUBSET Call : Ends(cs)
<1>1. Ends(ms \cup fs)
  BY DEF Ends, TimeOut, Overdue, Abandoned, Live, Final
<1>2. ms \cup fs \in SUBSET Call
  BY DEF Overdue, Abandoned
<1> QED
  BY <1>1, <1>2

LEMMA NothingEnds ==
    ASSUME UNCHANGED status, \A c \in Call : Live(c) => party'[c] = party[c]
    PROVE  \E cs \in SUBSET Call : Ends(cs)
<1>1. Ends({})
  BY DEF Ends
<1> QED
  BY <1>1

LEMMA Shapes ==
    ASSUME CallsInv, [Next]_vars
    PROVE  \/ Shape /\ Proceeds
           \/ \E c \in Call : DialInsert(c)
<1> USE DEF CallsInv, TypeOK
<1>1. CASE UNCHANGED vars
  BY <1>1, NothingEnds DEF vars, callVars, dialVars, Shape, Proceeds
<1>2. CASE MarkMissed \/ ReapStale
  <2>1. PICK ms \in SUBSET Overdue, fs \in SUBSET Abandoned : TimeOut(ms, fs)
    BY <1>2 DEF MarkMissed, ReapStale
  <2>2. UNCHANGED dialVars
    BY <1>2 DEF MarkMissed, ReapStale
  <2> QED
    BY <2>1, <2>2, TimeOutEnds DEF dialVars, Shape, Proceeds
<1>3. ASSUME NEW c \in Call, NEW v \in User, DialCheck(c, v)
      PROVE  Shape /\ Proceeds
  <2>1. \A d \in Call : Live(d) => party'[d] = party[d]
    BY <1>3 DEF DialCheck, Started, Live
  <2>2. Proceeds
    BY <1>3 DEF DialCheck, Proceeds
  <2> QED
    BY <1>3, <2>1, <2>2, TimeOutEnds DEF DialCheck, Shape
<1>4. ASSUME NEW c \in Call, DialLock(c) \/ DialFail(c)
      PROVE  Shape /\ Proceeds
  BY <1>4, NothingEnds DEF DialLock, DialFail, callVars, Shape, Proceeds
<1>5. ASSUME NEW c \in Call, DialReap(c)
      PROVE  Shape /\ Proceeds
  <2>1. party' = party
    BY <1>5 DEF DialReap
  <2>2. \A d \in Call \ {c} : dial'[d] = dial[d] /\ doomed'[d] = doomed[d]
    BY <1>5 DEF DialReap
  <2>3. Proceeds
    BY <1>5, <2>1, <2>2 DEF Proceeds
  <2>4. CASE UNCHANGED callVars
    BY <2>1, <2>3, <2>4, NothingEnds DEF callVars, Shape
  <2>5. CASE \E ms \in SUBSET Overdue, fs \in SUBSET Abandoned : TimeOut(ms, fs)
    BY <2>1, <2>3, <2>5, TimeOutEnds DEF Shape
  <2>6. \/ UNCHANGED callVars
        \/ \E ms \in SUBSET Overdue, fs \in SUBSET Abandoned : TimeOut(ms, fs)
    BY <1>5 DEF DialReap
  <2> QED
    BY <2>4, <2>5, <2>6
<1>6. ASSUME NEW u \in User, NEW c \in Call, Requests(u, c)
      PROVE  Shape /\ Proceeds
  BY <1>6, NothingEnds, TimeOutEnds
     DEF Requests, AcceptCheck, RejectCheck, EndCheck, callVars, dialVars,
         Shape, Proceeds
<1>7. ASSUME NEW m \in pending, Handling(m) \/ Die(m), UNCHANGED dialVars
      PROVE  Shape /\ Proceeds
  <2>0. m.call \in Call
    BY DEF CommandType
  <2>1. Proceeds
    BY <1>7 DEF dialVars, Proceeds
  <2>2. CASE UNCHANGED status
    BY <1>7, <2>1, <2>2, NothingEnds DEF dialVars, Shape
  <2>3. CASE Accept(m) /\ status[m.call] = "ringing"
    BY <1>7, <2>0, <2>1, <2>3 DEF Accept, dialVars, Shape, Answers
  <2>4. ASSUME NEW s \in Final, Finish(m, s), Live(m.call)
        PROVE  Shape
    <3>1. status' = [status EXCEPT ![m.call] = s] /\ party' = party
      BY <1>7, <2>4 DEF Finish, dialVars
    <3>2. Ends({m.call})
      BY <2>0, <2>4, <3>1 DEF Ends
    <3> QED
      BY <2>0, <3>2 DEF Shape
  <2>5. CASE (Reject(m) \/ Cancel(m) \/ End(m)) /\ ~UNCHANGED status
    BY <2>1, <2>4, <2>5 DEF Reject, Cancel, End, callVars, Live, Final
  <2> QED
    BY <1>7, <2>2, <2>3, <2>5 DEF Handling, Die, Accept, WriteCard, callVars
<1>8. ASSUME UNCHANGED <<status, dialVars>>
      PROVE  Shape /\ Proceeds
  BY <1>8, NothingEnds DEF dialVars, Shape, Proceeds
<1>9. CASE \/ \E c \in Call : Older(c)
           \/ \E u \in User : Disconnect(u) \/ Reconnect(u) \/ Cleanup(u)
           \/ \E u \in User, ch \in Chat : JoinChat(u, ch)
  BY <1>8, <1>9 DEF Older, Disconnect, Reconnect, Cleanup, JoinChat, callVars
<1>10. CASE \E c \in Call : CancelCheck(c)
  BY <1>10, NothingEnds DEF CancelCheck, callVars, dialVars, Shape, Proceeds
<1> QED
  BY <1>1, <1>2, <1>3, <1>4, <1>5, <1>6, <1>7, <1>9, <1>10 DEF Next, Dialing

-----------------------------------------------------------------------------
\* In a shaped step a live call was live before, with the same participants.
LEMMA StillLive ==
    ASSUME CallsInv, Shape, NEW c \in Call, Live(c)'
    PROVE  Live(c) /\ party'[c] = party[c]
BY DEF Shape, Ends, Answers, Live, Final, CallsInv, TypeOK

\* The check of a request leaves no live call with a participant of it, except
\* for those it ends; all participants of a live call are still in.
LEMMA ReapPromises ==
    ASSUME CallsInv, NEW c \in Call, DialReap(c), dial'[c] = "inserting",
           NEW d \in Call, NEW u \in party[c] \cap party[d], Live(d)
    PROVE  d \in doomed'[c] /\ party' = party
<1> DEFINE here == {e \in Call : ChatOf[e] = ChatOf[c]}
           gone == here \cap (Overdue \cup Abandoned)
<1>1. ~Busy(party[c], gone) /\ doomed' = [doomed EXCEPT ![c] = gone] /\ party' = party
  BY DEF DialReap, CallsInv, TypeOK
<1>2. d \in LiveOf(u)
  BY DEF LiveOf, CallsInv, NobodyAlone
<1>3. d \in gone
  BY <1>1, <1>2 DEF Busy
<1> QED
  BY <1>1, <1>3 DEF CallsInv, TypeOK

LEMMA LineInit == Init => LineInv
BY CallsInit DEF LineInv, Promised, OneLine, Init, Live

LEMMA LineStep == LineInv /\ [Next]_vars => LineInv'
<1> SUFFICES ASSUME LineInv, [Next]_vars PROVE LineInv'
  OBVIOUS
<1> USE DEF LineInv
<1>1. CallsInv'
  BY CallsStep
<1>2. CASE Shape /\ Proceeds
  <2>1. OneLine'
    BY <1>2, StillLive DEF OneLine
  <2>2. Promised'
    <3> SUFFICES ASSUME NEW c \in Call, NEW d \in Call, NEW u \in party'[c] \cap party'[d],
                        dial'[c] = "inserting", Live(d)'
                 PROVE  d \in doomed'[c]
      BY DEF Promised
    <3>1. Live(d) /\ party'[d] = party[d]
      BY <1>2, StillLive
    <3>2. CASE dial[c] = "inserting" /\ party'[c] = party[c] /\ doomed'[c] = doomed[c]
      BY <3>1, <3>2 DEF Promised
    <3>3. CASE DialReap(c)
      <4>1. party' = party
        BY <3>3 DEF DialReap
      <4> QED
        BY <3>1, <3>3, <4>1, ReapPromises
    <3> QED
      BY <1>2, <3>2, <3>3 DEF Proceeds
  <2> QED
    BY <1>1, <2>1, <2>2
<1>3. ASSUME NEW c \in Call, DialInsert(c)
      PROVE  LineInv'
  <2>1. \A d \in Call : Live(d)' => d = c \/ (Live(d) /\ d \notin doomed[c])
    BY <1>3 DEF DialInsert, Live, CallsInv, TypeOK
  <2>2. dial[c] = "inserting" /\ party' = party
    BY <1>3 DEF DialInsert
  <2>3. \A d \in Call \ {c} : dial'[d] = dial[d] /\ doomed'[d] = doomed[d]
    BY <1>3 DEF DialInsert, CallsInv, TypeOK
  <2>4. dial'[c] # "inserting"
    BY <1>3 DEF DialInsert, CallsInv, TypeOK
  <2>5. OneLine'
    BY <2>1, <2>2 DEF OneLine, Promised
  <2>6. \A d \in Call \ {c} : \A u \in party[c] \cap party[d] : dial[d] # "inserting"
    <3> SUFFICES ASSUME NEW d \in Call \ {c}, NEW u \in party[c] \cap party[d],
                        dial[d] = "inserting"
                 PROVE  FALSE
      OBVIOUS
    <3>1. want[c] = {} /\ want[d] = {}
      BY <2>2 DEF CallsInv, Reserved
    <3>2. Holds(c, u) /\ Holds(d, u)
      BY <2>2, <3>1 DEF Holds, Locks
    <3> QED
      BY <3>2 DEF CallsInv, Exclusive
  <2>7. Promised'
    BY <2>1, <2>2, <2>3, <2>4, <2>6 DEF Promised
  <2> QED
    BY <1>1, <2>5, <2>7
<1> QED
  BY <1>2, <1>3, Shapes

THEOREM LineInvariant == Spec => []LineInv
BY LineInit, LineStep, PTL DEF Spec

-----------------------------------------------------------------------------
\* The line of a user shows the one live call he is a participant of.
Shown ==
    \A u \in User :
        /\ \A c \in Call : Live(c) /\ u \in party[c] => Line[u] = c
        /\ (\A c \in Call : Live(c) => u \notin party[c]) => Line[u] = "free"

LEMMA LineShows == LineInv => Shown
<1> SUFFICES ASSUME LineInv, NEW u \in User
             PROVE  /\ \A c \in Call : Live(c) /\ u \in party[c] => Line[u] = c
                    /\ (\A c \in Call : Live(c) => u \notin party[c]) => Line[u] = "free"
  BY DEF Shown
<1>1. OnLine(u) = {c \in Call : Live(c) /\ u \in party[c]}
  BY DEF OnLine, LineInv, CallsInv, NobodyAlone
<1>2. ASSUME NEW c \in Call, Live(c), u \in party[c]
      PROVE  Line[u] = c
  <2>1. OnLine(u) = {c}
    BY <1>1, <1>2 DEF LineInv, OneLine
  <2> QED
    BY <2>1 DEF Line
<1>3. ASSUME \A c \in Call : Live(c) => u \notin party[c]
      PROVE  Line[u] = "free"
  BY <1>1, <1>3 DEF Line
<1> QED
  BY <1>2, <1>3

LEMMA ExchangeStarts == Init => Switch!ExchangeInit
BY DEF Init, Switch!ExchangeInit, Phase, Line, OnLine, Live

\* What happens to the lines when the calls in cs end and, with us # {}, a call
\* c is placed between users us.
LEMMA EndsShown ==
    ASSUME LineInv, Shown, Shown', NEW cs \in SUBSET Call, Ends(cs)
    PROVE  Line' = [u \in User |-> IF Line[u] \in cs THEN "free" ELSE Line[u]]
<1>1. \A c \in Call : Live(c)' <=> Live(c) /\ c \notin cs
  BY DEF Ends, Live, Final
<1>2. ASSUME NEW u \in User
      PROVE  Line'[u] = IF Line[u] \in cs THEN "free" ELSE Line[u]
  <2>1. CASE \E c \in Call : Live(c) /\ u \in party[c]
    <3>1. PICK c \in Call : Live(c) /\ u \in party[c]
      BY <2>1
    <3>2. Line[u] = c /\ party'[c] = party[c]
      BY <3>1 DEF Shown, Ends
    <3>3. CASE c \in cs
      <4>1. \A d \in Call : Live(d)' => u \notin party'[d]
        BY <1>1, <3>1, <3>3 DEF Ends, LineInv, OneLine
      <4> QED
        BY <3>2, <3>3, <4>1 DEF Shown
    <3>4. CASE c \notin cs
      BY <1>1, <3>1, <3>2, <3>4 DEF Shown
    <3> QED
      BY <3>3, <3>4
  <2>2. CASE \A c \in Call : Live(c) => u \notin party[c]
    <3>1. Line[u] = "free" /\ "free" \notin cs
      BY <2>2, CallAssumption DEF Shown, CallAssumption
    <3>2. \A d \in Call : Live(d)' => u \notin party'[d]
      BY <1>1, <2>2 DEF Ends
    <3> QED
      BY <3>1, <3>2 DEF Shown
  <2> QED
    BY <2>1, <2>2
<1> QED
  BY <1>2 DEF Line

LEMMA ExchangeHangsUp ==
    ASSUME LineInv, Shown, Shown', NEW cs \in SUBSET Call, Ends(cs)
    PROVE  [Switch!ExchangeNext]_Switch!exchangeVars
<1>1. Line' = [u \in User |-> IF Line[u] \in cs THEN "free" ELSE Line[u]]
  BY EndsShown
<1>2. Phase' = [c \in Call |-> IF c \in cs THEN "over" ELSE Phase[c]]
  BY DEF Ends, Phase, Final
<1>3. \A c \in cs : Phase[c] \in {"ringing", "talking"}
  BY DEF Ends, Phase, Live
<1>4. CASE cs = {}
  <2>1. Line' = Line
    BY <1>1, <1>4 DEF Line
  <2>2. Phase' = Phase
    BY <1>2, <1>4 DEF Phase
  <2> QED
    BY <2>1, <2>2 DEF Switch!exchangeVars
<1>5. CASE cs # {}
  BY <1>1, <1>2, <1>3, <1>5 DEF Switch!ExchangeNext, Switch!HangUp, Switch!Cleared
<1> QED
  BY <1>4, <1>5

LEMMA ExchangeAnswers ==
    ASSUME LineInv, Shown, Shown', NEW c \in Call, Answers(c)
    PROVE  Switch!ExchangeNext
<1>0. status \in [Call -> {"none", "ringing", "active"} \cup Final]
  BY DEF LineInv, CallsInv, TypeOK
<1>1. \A d \in Call : Live(d)' <=> Live(d)
  BY <1>0 DEF Answers, Live
<1>2. Line' = Line
  <2>1. ASSUME NEW u \in User PROVE Line'[u] = Line[u]
    <3>1. CASE \E d \in Call : Live(d) /\ u \in party[d]
      BY <1>1, <3>1 DEF Shown, Answers
    <3>2. CASE \A d \in Call : Live(d) => u \notin party[d]
      BY <1>1, <3>2 DEF Shown, Answers
    <3> QED
      BY <3>1, <3>2
  <2> QED
    BY <2>1 DEF Line
<1>3. Phase[c] = "ringing" /\ Phase' = [Phase EXCEPT ![c] = "talking"]
  BY <1>0 DEF Answers, Phase
<1> QED
  BY <1>2, <1>3 DEF Switch!ExchangeNext, Switch!Answer

LEMMA ExchangeDials ==
    ASSUME LineInv, Shown, Shown', NEW c \in Call, DialInsert(c)
    PROVE  Switch!ExchangeNext
<1> DEFINE cleared == [u \in User |-> IF Line[u] \in doomed[c] THEN "free" ELSE Line[u]]
<1>0. /\ status \in [Call -> {"none", "ringing", "active"} \cup Final]
      /\ dial[c] = "inserting" /\ party' = party
      /\ party[c] \in SUBSET User /\ party[c] # {} /\ doomed[c] \in SUBSET Call
  BY DEF LineInv, CallsInv, TypeOK, DialInsert, PartyKnown
<1>1. status[c] = "none" /\ \A d \in doomed[c] : Live(d) /\ d # c
  BY <1>0 DEF LineInv, CallsInv, Started, DoomedHere, Live
<1>2. Phase' = [d \in Call |-> IF d = c THEN "ringing"
                          ELSE IF d \in doomed[c] THEN "over" ELSE Phase[d]]
  BY <1>0, <1>1 DEF DialInsert, Phase
<1>3. Phase[c] = "new" /\ \A d \in doomed[c] : Phase[d] \in {"ringing", "talking"}
  BY <1>0, <1>1 DEF Phase, Live
<1>4. \A d \in Call : Live(d)' <=> d = c \/ (Live(d) /\ d \notin doomed[c])
  BY <1>0 DEF DialInsert, Live
<1>5. \A u \in party[c] : cleared[u] = "free"
  <2> SUFFICES ASSUME NEW u \in party[c] PROVE cleared[u] = "free"
    OBVIOUS
  <2>1. CASE \E d \in Call : Live(d) /\ u \in party[d]
    BY <1>0, <2>1 DEF LineInv, Promised, Shown
  <2>2. CASE \A d \in Call : Live(d) => u \notin party[d]
    BY <1>0, <2>2 DEF Shown
  <2> QED
    BY <2>1, <2>2
<1>6. Line' = [u \in User |-> IF u \in party[c] THEN c ELSE cleared[u]]
  <2>1. ASSUME NEW u \in User
        PROVE  Line'[u] = IF u \in party[c] THEN c ELSE cleared[u]
    <3>1. CASE u \in party[c]
      BY <1>0, <1>4, <3>1 DEF Shown
    <3>2. CASE u \notin party[c] /\ \E d \in Call : Live(d) /\ u \in party[d]
      <4>1. PICK d \in Call : Live(d) /\ u \in party[d]
        BY <3>2
      <4>2. Line[u] = d
        BY <4>1 DEF Shown
      <4>3. CASE d \in doomed[c]
        <5>1. \A e \in Call : Live(e)' => u \notin party'[e]
          BY <1>0, <1>4, <3>2, <4>1, <4>3 DEF LineInv, OneLine
        <5> QED
          BY <3>2, <4>2, <4>3, <5>1 DEF Shown
      <4>4. CASE d \notin doomed[c]
        BY <1>0, <1>4, <3>2, <4>1, <4>2, <4>4 DEF Shown
      <4> QED
        BY <4>3, <4>4
    <3>3. CASE u \notin party[c] /\ \A d \in Call : Live(d) => u \notin party[d]
      <4>1. Line[u] = "free"
        BY <3>3 DEF Shown
      <4>2. \A e \in Call : Live(e)' => u \notin party'[e]
        BY <1>0, <1>4, <3>3
      <4> QED
        BY <3>3, <4>1, <4>2 DEF Shown
    <3> QED
      BY <3>1, <3>2, <3>3
  <2> QED
    BY <2>1 DEF Line
<1> QED
  BY <1>0, <1>2, <1>3, <1>5, <1>6
     DEF Switch!ExchangeNext, Switch!Dial, Switch!Cleared

LEMMA ExchangeStep ==
    LineInv /\ LineInv' /\ [Next]_vars => [Switch!ExchangeNext]_Switch!exchangeVars
<1> SUFFICES ASSUME LineInv, LineInv', [Next]_vars
             PROVE  [Switch!ExchangeNext]_Switch!exchangeVars
  OBVIOUS
<1>1. Shown /\ Shown'
  BY LineShows, PTL
<1>2. CASE Shape
  BY <1>1, <1>2, ExchangeHangsUp, ExchangeAnswers DEF Shape
<1>3. ASSUME NEW c \in Call, DialInsert(c)
      PROVE  Switch!ExchangeNext
  BY <1>1, <1>3, ExchangeDials
<1> QED
  BY <1>2, <1>3, Shapes DEF LineInv

\* The call service is a telephone exchange: across all chats a user's line
\* carries one call, and a call that is over stays over.
THEOREM CallsImplementExchange == Spec => ImplementsExchange
<1>1. Init => Switch!ExchangeInit
  BY ExchangeStarts
<1>2. LineInv /\ LineInv' /\ [Next]_vars => [Switch!ExchangeNext]_Switch!exchangeVars
  BY ExchangeStep
<1> QED
  BY <1>1, <1>2, LineInvariant, PTL DEF Spec, ImplementsExchange, Switch!ExchangeSpec
=============================================================================
