------------------------------ MODULE ChatFeed ------------------------------
(***************************************************************************)
(* What the event log and its browsers promise together, without sockets,  *)
(* requests or queues: a chat is a feed of events that only grows, and     *)
(* each reader moves forward over it.  A reader handles what it moves      *)
(* over, each event once and in order, except that it may begin anywhere   *)
(* and may adopt a later position without looking at what lies between.    *)
(***************************************************************************)
EXTENDS Naturals, Sequences

CONSTANTS Event, Client,
          Audible        \* the events a reader has something to do for

VARIABLES feed,          \* the events of the chat, in order
          cursor,        \* how far each reader has come, 0 at first
          handled        \* the events each reader has handled

feedVars == <<feed, cursor, handled>>

FeedInit ==
    /\ feed = <<>>
    /\ cursor = [c \in Client |-> 0]
    /\ handled = [c \in Client |-> {}]

Publish(e) ==
    /\ \A p \in 1 .. Len(feed) : feed[p] # e
    /\ feed' = Append(feed, e)
    /\ UNCHANGED <<cursor, handled>>

MoveTo(c, n, es) ==
    /\ n \in 1 .. Len(feed)
    /\ n > cursor[c]
    /\ cursor' = [cursor EXCEPT ![c] = n]
    /\ handled' = [handled EXCEPT ![c] = @ \cup (es \cap Audible)]
    /\ UNCHANGED feed

\* Handle everything up to position n.
Follow(c, n) == MoveTo(c, n, {feed[p] : p \in cursor[c] + 1 .. n})

\* Begin with the event at position n.
Begin(c, n) == cursor[c] = 0 /\ MoveTo(c, n, {feed[n]})

\* Take position n for granted.
Skip(c, n) == MoveTo(c, n, {})

FeedNext ==
    \/ \E e \in Event : Publish(e)
    \/ \E c \in Client, n \in 1 .. Len(feed) :
          Follow(c, n) \/ Begin(c, n) \/ Skip(c, n)

FeedSpec == FeedInit /\ [][FeedNext]_feedVars
=============================================================================
