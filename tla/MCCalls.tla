------------------------------- MODULE MCCalls -------------------------------
(***************************************************************************)
(* Instances of Calls for TLC.  Users 1 and 2 are the members of a direct  *)
(* chat and of a group; c1 is placed by user 1 and c2 by user 2, both in   *)
(* the group or one in each chat.                                          *)
(***************************************************************************)
EXTENDS Calls

CONSTANTS c1, c2, direct, group

TwoCalls == {c1, c2}
TwoUsers == 1 .. 2
ThreeUsers == 1 .. 3
Chats == {direct, group}

SameChat == [c \in Call |-> group]
CrossChat == [c \in Call |-> IF c = c1 THEN direct ELSE group]
MCCaller == [c \in Call |-> IF c = c1 THEN 1 ELSE 2]
SamePair == [ch \in Chats |-> {1, 2}]

Nobody == {}
UserOne == {1}
UserThree == {3}
=============================================================================
