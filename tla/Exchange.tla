------------------------------ MODULE Exchange ------------------------------
(***************************************************************************)
(* What the call service promises, seen from outside: a telephone          *)
(* exchange with one line per user.  A call that rings or is being talked  *)
(* on occupies the lines of its parties, a line carries one call at most,  *)
(* and a call that is over never comes back.                               *)
(***************************************************************************)
CONSTANTS User, Call, Free

VARIABLES
    phase,   \* of each call: "new", "ringing", "talking" or "over"
    line     \* of each user: the call that occupies it, or Free

exchangeVars == <<phase, line>>

ExchangeInit ==
    /\ phase = [c \in Call |-> "new"]
    /\ line = [u \in User |-> Free]

\* Calls in cs come to an end and give their lines back.
Cleared(cs) == [u \in User |-> IF line[u] \in cs THEN Free ELSE line[u]]

\* Calls end: refused, hung up, unanswered for too long, abandoned.
HangUp(cs) ==
    /\ cs # {}
    /\ \A c \in cs : phase[c] \in {"ringing", "talking"}
    /\ phase' = [c \in Call |-> IF c \in cs THEN "over" ELSE phase[c]]
    /\ line' = Cleared(cs)

\* A call is placed between users whose lines are free, at the latest when
\* the overdue calls in cs have been cleared.
Dial(c, us, cs) ==
    /\ phase[c] = "new"
    /\ \A d \in cs : phase[d] \in {"ringing", "talking"}
    /\ \A u \in us : Cleared(cs)[u] = Free
    /\ phase' = [d \in Call |-> IF d = c THEN "ringing"
                           ELSE IF d \in cs THEN "over" ELSE phase[d]]
    /\ line' = [u \in User |-> IF u \in us THEN c ELSE Cleared(cs)[u]]

Answer(c) ==
    /\ phase[c] = "ringing"
    /\ phase' = [phase EXCEPT ![c] = "talking"]
    /\ UNCHANGED line

ExchangeNext ==
    \/ \E cs \in SUBSET Call : HangUp(cs)
    \/ \E c \in Call, us \in SUBSET User, cs \in SUBSET Call :
          us # {} /\ Dial(c, us, cs)
    \/ \E c \in Call : Answer(c)

ExchangeSpec == ExchangeInit /\ [][ExchangeNext]_exchangeVars
=============================================================================
