------------------------------ MODULE ChatSync ------------------------------
(***************************************************************************)
(* The event log of a chat together with the browsers that follow it.      *)
(*                                                                         *)
(* A browser hears of an event twice over: as a Socket.IO message, which   *)
(* may come out of order or never, and through /api/updates/difference,    *)
(* which replays the log from a cursor.  static/modules/                   *)
(* chat-socket-client.js decides for each arrival whether the listeners    *)
(* run, are skipped, or wait until the missing numbers have been fetched;  *)
(* static/modules/chat-updates-sync.js does the fetching; static/chat/     *)
(* realtime-orchestrator.js starts a synchronisation on every reconnect.   *)
(*                                                                         *)
(* JavaScript is single threaded: what a callback does up to its next      *)
(* await is one step here.  A request is two steps, the server's read and  *)
(* the browser's use of the answer, and anything may happen between them.  *)
(***************************************************************************)
EXTENDS EventEnvelope, Sequences, FiniteSetsExt

CONSTANTS
    NumListeners,  \* how many listeners the browser has for an event's type
    PageLimit,     \* the limit of one difference request
    MaxSteps       \* MAX_DIFFERENCE_STEPS: pages one recovery may fetch

Listener == 1 .. 2

ASSUME SyncAssumption ==
    /\ NumListeners \in [Event -> 0 .. 2]
    /\ PageLimit \in Nat \ {0}
    /\ MaxSteps \in Nat \ {0}

VARIABLES
    link,    \* the socket: never opened, off, connected, in the chat's room
    inbox,   \* envelopes on their way to the browser
    view,    \* what the browser remembers of the chat
    gaps,    \* suspended listeners, in the order of the chat's sync queue
    prime,   \* primeChatState's request
    sync,    \* the recoveries syncOnReconnect started
    floor,   \* history: last number adopted without replaying what is below
    missed   \* history: events sent to the browser's rooms while it was off

clientVars == <<link, inbox, view, gaps, prime, sync, floor, missed>>
vars == <<serverVars, clientVars>>

\* One slot for each reconnect the bound on "drop" leaves room for.
Slot == 1 .. FaultLimit["drop"]

Larger(a, b) == IF a > b THEN a ELSE b
Heard(e) == NumListeners[e] > 0

\* recoverGap: a walk over the log from cursor up to target, page by page.
Walk(from, to) == [cursor |-> from, target |-> to, steps |-> 0,
                   got |-> FALSE, page |-> {}, more |-> FALSE]

IdleSync == [phase |-> "idle", local |-> 0, server |-> 0, walk |-> Walk(0, 0)]
IdlePrime == [phase |-> "idle", server |-> 0]

Init ==
    /\ ServerInit
    /\ link = [c \in Client |-> "new"]
    /\ inbox = [c \in Client |-> <<>>]
    /\ view = [c \in Client |->
                  [known |-> 0, seen |-> {},
                   runs |-> [e \in Event |-> [l \in Listener |-> 0]]]]
    /\ gaps = [c \in Client |-> <<>>]
    /\ prime = [c \in Client |-> IdlePrime]
    /\ sync = [c \in Client |-> [k \in Slot |-> IdleSync]]
    /\ floor = [c \in Client |-> 0]
    /\ missed = [c \in Client |-> {}]

-----------------------------------------------------------------------------
(***************************************************************************)
(* Connections and the delivery of envelopes.                              *)
(***************************************************************************)
Serve(e) == Persistence(e) /\ UNCHANGED clientVars

InRoom(c, r) == \/ r = c /\ link[c] \in {"linked", "joined"}
                \/ r = ChatRoom /\ link[c] = "joined"

\* A browser that followed the chat is offline, with no request about the chat
\* pending, when an event it does not know of is sent.
Misses(c, e) == /\ link[c] = "off" /\ prime[c].phase = "idle"
                /\ view[c].known > 0 /\ pts[e] > view[c].known

Emit(e, r) ==
    /\ EmitToRoom(e, r)
    /\ inbox' = [c \in Client |-> IF InRoom(c, r) THEN Append(inbox[c], e)
                                                  ELSE inbox[c]]
    /\ missed' = [c \in Client |-> IF r \in {c, ChatRoom} /\ Misses(c, e)
                                   THEN missed[c] \cup {e} ELSE missed[c]]
    /\ UNCHANGED <<link, view, gaps, prime, sync, floor>>

\* joinChatRoom asks for the state of the chat unless a request is pending.
AskPrime(c) ==
    prime' = [prime EXCEPT ![c] =
                 IF @.phase = "idle" THEN [phase |-> "ask", server |-> 0] ELSE @]

Open(c) ==
    /\ link[c] = "new"
    /\ link' = [link EXCEPT ![c] = "linked"]
    /\ AskPrime(c)
    /\ UNCHANGED <<serverVars, inbox, view, gaps, sync, floor, missed>>

\* The server handles the 'join' message.
JoinRoom(c) ==
    /\ link[c] = "linked"
    /\ link' = [link EXCEPT ![c] = "joined"]
    /\ UNCHANGED <<serverVars, inbox, view, gaps, prime, sync, floor, missed>>

Drop(c) ==
    /\ link[c] \in {"linked", "joined"}
    /\ Fault("drop")
    /\ link' = [link EXCEPT ![c] = "off"]
    /\ inbox' = [inbox EXCEPT ![c] = <<>>]
    /\ UNCHANGED <<lastPts, rows, stage, pts, todo>>
    /\ UNCHANGED <<view, gaps, prime, sync, floor, missed>>

\* Broken: the recovery starts one number early, also when there is none.
ReconnectEarly(c) ==
    /\ link[c] = "off"
    /\ link' = [link EXCEPT ![c] = "linked"]
    /\ AskPrime(c)
    /\ \E k \in Slot :
          /\ sync[c][k].phase = "idle"
          /\ sync' = [sync EXCEPT ![c][k] = [IdleSync EXCEPT
                         !.phase = "ask", !.local = view[c].known - 1]]
    /\ UNCHANGED <<serverVars, inbox, view, gaps, floor, missed>>

\* The 'connect' listener: joinChatRoom, then syncOnReconnect, which reads
\* the local number before its first await.
Reconnect(c) ==
    /\ link[c] = "off"
    /\ link' = [link EXCEPT ![c] = "linked"]
    /\ AskPrime(c)
    /\ \E k \in Slot :
          /\ sync[c][k].phase = "idle"
          /\ \A j \in Slot : j < k => sync[c][j].phase # "idle"
          /\ sync' = [sync EXCEPT ![c][k] =
                         [IdleSync EXCEPT !.phase = "ask", !.local = view[c].known]]
    /\ UNCHANGED <<serverVars, inbox, view, gaps, floor, missed>>

-----------------------------------------------------------------------------
(***************************************************************************)
(* The wrapped listeners.                                                  *)
(***************************************************************************)
\* The listeners in ls run for e: number and id are recorded first.
Run(v, e, ls) ==
    [known |-> Larger(v.known, pts[e]),
     seen |-> v.seen \cup {e},
     runs |-> [v.runs EXCEPT ![e] =
                  [l \in Listener |-> v.runs[e][l] + (IF l \in ls THEN 1 ELSE 0)]]]

Ignore(v, e) == [v EXCEPT !.seen = @ \cup {e}]

\* Broken: no second look after the wait.
ResumeBlindly(v, e, l) == Run(v, e, {l})

\* A listener that waited for a recovery looks again before it runs.
Resume(v, e, l) ==
    IF e \in v.seen \/ pts[e] <= v.known THEN Ignore(v, e) ELSE Run(v, e, {l})

\* e is the next envelope the socket hands to the listeners of its type.
Arrives(c, e) ==
    /\ inbox[c] # <<>>
    /\ e = Head(inbox[c])
    /\ inbox' = [inbox EXCEPT ![c] = Tail(@)]
    /\ UNCHANGED <<serverVars, link, prime, sync, missed>>

\* Nobody listens, or the event_id was seen before.
ReceiveRepeat(c, e) ==
    /\ Arrives(c, e)
    /\ ~Heard(e) \/ e \in view[c].seen
    /\ UNCHANGED <<view, gaps, floor>>

ReceiveStale(c, e) ==
    /\ Arrives(c, e)
    /\ Heard(e) /\ e \notin view[c].seen
    /\ pts[e] \in 1 .. view[c].known
    /\ view' = [view EXCEPT ![c] = Ignore(@, e)]
    /\ UNCHANGED <<gaps, floor>>

\* Broken: an event that is ahead is dropped and nothing is fetched.
DropAhead(c, e) ==
    /\ Arrives(c, e)
    /\ Heard(e) /\ e \notin view[c].seen
    /\ view[c].known > 0 /\ pts[e] > view[c].known + 1
    /\ UNCHANGED <<view, gaps, floor>>

\* Numbers are missing: every listener of the event suspends on a recovery of
\* its own, and the recoveries of a chat run one after the other.
ReceiveAhead(c, e) ==
    /\ Arrives(c, e)
    /\ Heard(e) /\ e \notin view[c].seen
    /\ view[c].known > 0 /\ pts[e] > view[c].known + 1
    /\ gaps' = [gaps EXCEPT ![c] = @ \o
                   [l \in 1 .. NumListeners[e] |->
                       [event |-> e, listener |-> l,
                        walk |-> Walk(view[c].known, pts[e] - 1)]]]
    /\ UNCHANGED <<view, floor>>

\* Broken: a number that is not new is no reason to skip the listeners.
ReceiveOld(c, e) ==
    /\ Arrives(c, e)
    /\ Heard(e) /\ e \notin view[c].seen
    /\ pts[e] <= view[c].known + 1
    /\ view' = [view EXCEPT ![c] = Run(@, e, 1 .. NumListeners[e])]
    /\ UNCHANGED <<gaps, floor>>

\* Broken: no gap check.
ReceiveAnyNew(c, e) ==
    /\ Arrives(c, e)
    /\ Heard(e) /\ e \notin view[c].seen
    /\ pts[e] = 0 \/ pts[e] > view[c].known
    /\ view' = [view EXCEPT ![c] = Run(@, e, 1 .. NumListeners[e])]
    /\ floor' = [floor EXCEPT ![c] = IF pts[e] > 0 /\ view[c].known = 0
                                     THEN pts[e] - 1 ELSE @]
    /\ UNCHANGED gaps

\* The next number, the first number ever, or no number at all.
ReceiveNow(c, e) ==
    /\ Arrives(c, e)
    /\ Heard(e) /\ e \notin view[c].seen
    /\ pts[e] = 0 \/ view[c].known = 0 \/ pts[e] = view[c].known + 1
    /\ view' = [view EXCEPT ![c] = Run(@, e, 1 .. NumListeners[e])]
    /\ floor' = [floor EXCEPT ![c] = IF pts[e] > 0 /\ view[c].known = 0
                                     THEN pts[e] - 1 ELSE @]
    /\ UNCHANGED gaps

Receive(c) ==
    \E e \in Event : \/ ReceiveRepeat(c, e) \/ ReceiveStale(c, e)
                     \/ ReceiveAhead(c, e)  \/ ReceiveNow(c, e)

-----------------------------------------------------------------------------
(***************************************************************************)
(* recoverGap.                                                             *)
(***************************************************************************)
\* get_chat_update_difference: the lowest PageLimit rows above the cursor.
Answer(w) ==
    LET above == {p \in DOMAIN rows : p > w.cursor}
        page  == {p \in above : Cardinality({q \in above : q < p}) < PageLimit}
    IN  [w EXCEPT !.got = TRUE, !.page = page, !.more = (page # above)]

NextCursor(w) == Max(w.page \cup {w.cursor})

\* dispatchDifferenceEvents, then __sun_setChatPts with the page's cursor.  A
\* page is in ascending order, so a row is fresh if it is above the number
\* known before the page.
Replay(v, w) ==
    LET fresh == {rows[p] : p \in {q \in w.page : q > v.known}} \ v.seen
    IN  [known |-> Larger(v.known, NextCursor(w)),
         seen |-> v.seen \cup {e \in {rows[p] : p \in w.page} : Heard(e)},
         runs |-> [e \in Event |-> [l \in Listener |->
                      v.runs[e][l] +
                      (IF e \in fresh /\ l <= NumListeners[e] THEN 1 ELSE 0)]]]

Outcome(w) ==
    IF NextCursor(w) >= w.target THEN "reached"
    ELSE IF w.more /\ NextCursor(w) > w.cursor /\ w.steps + 1 < MaxSteps
         THEN "more" ELSE "failed"

NextPage(w) == [Walk(NextCursor(w), w.target) EXCEPT !.steps = w.steps + 1]

\* Broken: a recovery that waits in the chat's queue is not started when the
\* one before it ends.
AnswerFirstGap(c) ==
    /\ gaps[c] # <<>> /\ ~gaps[c][1].walk.got
    /\ gaps[c][1].listener = 1
    /\ gaps' = [gaps EXCEPT ![c][1].walk = Answer(@)]
    /\ UNCHANGED <<serverVars, link, inbox, view, prime, sync, floor, missed>>

AnswerGap(c) ==
    /\ gaps[c] # <<>> /\ ~gaps[c][1].walk.got
    /\ gaps' = [gaps EXCEPT ![c][1].walk = Answer(@)]
    /\ UNCHANGED <<serverVars, link, inbox, view, prime, sync, floor, missed>>

\* The page is replayed; when the walk ends its listener resumes, or gives up.
TakeGap(c) ==
    /\ gaps[c] # <<>> /\ gaps[c][1].walk.got
    /\ LET g == gaps[c][1]
           v == Replay(view[c], g.walk)
       IN \/ /\ Outcome(g.walk) = "more"
             /\ view' = [view EXCEPT ![c] = v]
             /\ gaps' = [gaps EXCEPT ![c][1].walk = NextPage(g.walk)]
          \/ /\ Outcome(g.walk) = "reached"
             /\ view' = [view EXCEPT ![c] = Resume(v, g.event, g.listener)]
             /\ gaps' = [gaps EXCEPT ![c] = Tail(@)]
          \/ /\ Outcome(g.walk) = "failed"
             /\ view' = [view EXCEPT ![c] = v]
             /\ gaps' = [gaps EXCEPT ![c] = Tail(@)]
    /\ UNCHANGED <<serverVars, link, inbox, prime, sync, floor, missed>>

\* Broken: a failed recovery counts as a recovery.
FailGapOpen(c) ==
    /\ gaps[c] # <<>>
    /\ Fault("http")
    /\ view' = [view EXCEPT ![c] = Resume(@, gaps[c][1].event, gaps[c][1].listener)]
    /\ gaps' = [gaps EXCEPT ![c] = Tail(@)]
    /\ UNCHANGED <<lastPts, rows, stage, pts, todo>>
    /\ UNCHANGED <<link, inbox, prime, sync, floor, missed>>

FailGap(c) ==
    /\ gaps[c] # <<>>
    /\ Fault("http")
    /\ gaps' = [gaps EXCEPT ![c] = Tail(@)]
    /\ UNCHANGED <<lastPts, rows, stage, pts, todo>>
    /\ UNCHANGED <<link, inbox, view, prime, sync, floor, missed>>

-----------------------------------------------------------------------------
(***************************************************************************)
(* primeChatState and syncOnReconnect.                                     *)
(***************************************************************************)
\* __sun_setChatPts with a number of the server and no replay.
Adopt(c, n) ==
    /\ view' = [view EXCEPT ![c].known = Larger(@, n)]
    /\ floor' = [floor EXCEPT ![c] = IF n > view[c].known THEN n ELSE @]

AnswerPrime(c) ==
    /\ prime[c].phase = "ask"
    /\ prime' = [prime EXCEPT ![c] = [phase |-> "told", server |-> lastPts]]
    /\ UNCHANGED <<serverVars, link, inbox, view, gaps, sync, floor, missed>>

TakePrime(c) ==
    /\ prime[c].phase = "told"
    /\ Adopt(c, prime[c].server)
    /\ prime' = [prime EXCEPT ![c] = IdlePrime]
    /\ UNCHANGED <<serverVars, link, inbox, gaps, sync, missed>>

FailPrime(c) ==
    /\ prime[c].phase # "idle"
    /\ Fault("http")
    /\ prime' = [prime EXCEPT ![c] = IdlePrime]
    /\ UNCHANGED <<lastPts, rows, stage, pts, todo>>
    /\ UNCHANGED <<link, inbox, view, gaps, sync, floor, missed>>

AnswerSync(c, k) ==
    /\ \/ /\ sync[c][k].phase = "ask"
          /\ sync' = [sync EXCEPT ![c][k].phase = "told", ![c][k].server = lastPts]
       \/ /\ sync[c][k].phase = "walk" /\ ~sync[c][k].walk.got
          /\ sync' = [sync EXCEPT ![c][k].walk = Answer(@)]
    /\ UNCHANGED <<serverVars, link, inbox, view, gaps, prime, floor, missed>>

\* The answer to the state request: adopt it, be content, or start a walk.
TakeState(c, k) ==
    LET s == sync[c][k] IN
    /\ s.phase = "told"
    /\ \/ /\ s.local = 0
          /\ Adopt(c, s.server)
          /\ sync' = [sync EXCEPT ![c][k] = IdleSync]
       \/ /\ s.local > 0 /\ s.server <= s.local
          /\ sync' = [sync EXCEPT ![c][k] = IdleSync]
          /\ UNCHANGED <<view, floor>>
       \/ /\ s.local > 0 /\ s.server > s.local
          /\ sync' = [sync EXCEPT ![c][k].phase = "walk",
                                  ![c][k].walk = Walk(s.local, s.server)]
          /\ UNCHANGED <<view, floor>>
    /\ UNCHANGED <<serverVars, link, inbox, gaps, prime, missed>>

TakeSync(c, k) ==
    LET w == sync[c][k].walk IN
    /\ sync[c][k].phase = "walk" /\ w.got
    /\ view' = [view EXCEPT ![c] = Replay(@, w)]
    /\ sync' = [sync EXCEPT ![c][k] = IF Outcome(w) = "more"
                                      THEN [@ EXCEPT !.walk = NextPage(w)]
                                      ELSE IdleSync]
    /\ UNCHANGED <<serverVars, link, inbox, gaps, prime, floor, missed>>

FailSync(c, k) ==
    /\ sync[c][k].phase # "idle"
    /\ Fault("http")
    /\ sync' = [sync EXCEPT ![c][k] = IdleSync]
    /\ UNCHANGED <<lastPts, rows, stage, pts, todo>>
    /\ UNCHANGED <<link, inbox, view, gaps, prime, floor, missed>>

-----------------------------------------------------------------------------
\* What the browser and the server do about its requests.
Requests(c) ==
    \/ AnswerGap(c) \/ TakeGap(c) \/ AnswerPrime(c) \/ TakePrime(c)
    \/ \E k \in Slot : AnswerSync(c, k) \/ TakeState(c, k) \/ TakeSync(c, k)

Failures(c) ==
    FailGap(c) \/ FailPrime(c) \/ \E k \in Slot : FailSync(c, k)

Next ==
    \/ \E e \in Event : Serve(e) \/ \E r \in Room : Emit(e, r)
    \/ \E c \in Client :
          \/ Open(c) \/ JoinRoom(c) \/ Drop(c) \/ Reconnect(c)
          \/ Receive(c) \/ Requests(c) \/ Failures(c)

Spec == Init /\ [][Next]_vars

-----------------------------------------------------------------------------
(***************************************************************************)
(* The log and a browser implement the feed, as long as no transaction     *)
(* fails after its allocation.                                             *)
(***************************************************************************)
Handled(c, e) == \E l \in Listener : view[c].runs[e][l] > 0

Feed == INSTANCE ChatFeed WITH
    Audible <- {e \in Event : Heard(e)},
    feed    <- [p \in 1 .. lastPts |-> rows[p]],
    cursor  <- [c \in Client |-> view[c].known],
    handled <- [c \in Client |-> {e \in Event : pts[e] > 0 /\ Handled(c, e)}]

\* Every behaviour of the server and the browsers, seen through the mapping
\* above, is a behaviour of the abstract feed: whatever is lost, reordered,
\* doubled or fetched twice, a reader only moves forward and handles exactly
\* what it moves over, once, or adopts a number the server gave it.
ImplementsFeed == Feed!FeedSpec

-----------------------------------------------------------------------------
\* The scheduler serves every request and every listener, and handlers that
\* have begun run to their end; nobody has to send, connect or reconnect.
Fairness ==
    /\ \A e \in Event :
          /\ WF_vars(Serve(e) /\ stage[e] # "idle")
          /\ WF_vars(\E r \in Room : Emit(e, r))
    /\ \A c \in Client :
          /\ WF_vars(Receive(c))
          /\ WF_vars(AnswerGap(c)) /\ WF_vars(TakeGap(c))

FairSpec == Spec /\ Fairness

-----------------------------------------------------------------------------
WalkType == [cursor : Nat, target : Nat, steps : Nat,
             got : BOOLEAN, page : SUBSET (Nat \ {0}), more : BOOLEAN]

TypeOK ==
    /\ ServerTypeOK
    /\ link \in [Client -> {"new", "off", "linked", "joined"}]
    /\ inbox \in [Client -> Seq(Event)]
    /\ view \in [Client -> [known : Nat, seen : SUBSET Event,
                            runs : [Event -> [Listener -> Nat]]]]
    /\ gaps \in [Client -> Seq([event : Event, listener : Listener, walk : WalkType])]
    /\ prime \in [Client -> [phase : {"idle", "ask", "told"}, server : Nat]]
    /\ sync \in [Client -> [Slot -> [phase : {"idle", "ask", "told", "walk"},
                                     local : Nat, server : Nat, walk : WalkType]]]
    /\ floor \in [Client -> Nat]
    /\ missed \in [Client -> SUBSET Event]

\* No listener runs twice for one event, however often the event arrives: in
\* two rooms, live and replayed, replayed by two recoveries at once, or live
\* while a recovery that waits for it is under way.
AtMostOnce ==
    \A c \in Client, e \in Event, l \in Listener : view[c].runs[e][l] <= 1

\* The browser's number runs ahead of the server's only by the one number a
\* transaction that was undone has left on an envelope, never by more, whatever
\* it replays, adopts or recovers; otherwise the next event the server numbers
\* is news to every browser.
KnownNotAhead ==
    \A c \in Client :
        \/ view[c].known <= lastPts
        \/ \E e \in Unlogged : view[c].known = lastPts + 1 /\ pts[e] = lastPts + 1

\* A browser that has reached number n has shown its listeners every event up
\* to n, unless it adopted a number of the server without a replay, and then
\* only what is not above that number is missing.  This is what the gap check,
\* the order of the sync queue and the second look after a wait are for.
NothingSkipped ==
    \A c \in Client : \A p \in DOMAIN rows :
        floor[c] < p /\ p <= view[c].known /\ Heard(rows[p]) => Handled(c, rows[p])

\* Listeners see numbered events in the order of their numbers: when one runs,
\* no event with a higher number has run before.
InOrder ==
    [][\A c \in Client, e \in Event :
          Handled(c, e)' /\ ~Handled(c, e) /\ pts[e] > 0 =>
              \A f \in Event : Handled(c, f) => pts[f] < pts[e]]_view

\* An event sent while the browser was offline is replayed to it by the time
\* its number passes the event's.
MissedIsReplayed ==
    \A c \in Client : \A e \in missed[c] :
        Heard(e) /\ pts[e] \in 1 .. view[c].known => Handled(c, e)

\* An event that reached a listener of its type reaches all of them: no
\* listener is left behind once nothing waits.
AllListeners ==
    \A c \in Client, e \in Event :
        gaps[c] = <<>> /\ Handled(c, e) =>
            \A l \in 1 .. NumListeners[e] : view[c].runs[e][l] > 0

\* Suspended listeners do not wait for ever: each recovery ends and lets the
\* next one in the chat's queue begin, also when it fails.
GapsDrain == \A c \in Client : gaps[c] # <<>> ~> gaps[c] = <<>>

\* A numbered event the socket delivers is handled in the end, or lies below a
\* number the browser adopted, or shares its number with an event whose
\* transaction was undone.  One recovery fetches no more than MaxSteps pages:
\* an event that is further ahead waits for a later one.
SharesNumber(e) == pts[e] > 0 /\ \E f \in Event \ {e} : pts[f] = pts[e]
InReach(c, e) == pts[e] <= view[c].known + PageLimit * MaxSteps + 1

DeliveredIsHandled ==
    \A c \in Client : \A e \in {f \in Event : Heard(f)} :
        inbox[c] # <<>> /\ e = Head(inbox[c]) /\ InReach(c, e) ~>
            \/ Handled(c, e) \/ pts[e] \in 1 .. floor[c]
            \/ SharesNumber(e)

\* The same without a bound on how far ahead the event is: refuted by TLC.
AlwaysHandled ==
    \A c \in Client : \A e \in {f \in Event : Heard(f)} :
        inbox[c] # <<>> /\ e = Head(inbox[c]) ~>
            \/ Handled(c, e) \/ pts[e] \in 1 .. floor[c]
            \/ SharesNumber(e)
=============================================================================
