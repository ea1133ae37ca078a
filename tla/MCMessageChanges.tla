-------------------------- MODULE MCMessageChanges ----------------------------
(*****************************************************************************)
(* A small instance of MessageChanges for TLC: two members, one message of   *)
(* each.                                                                     *)
(*****************************************************************************)
EXTENDS MessageChanges, TLC

CONSTANTS u1, u2, m1, m2

MCMember == {u1, u2}
MCMessage == {m1, m2}
MCAuthorOf == (m1 :> u1) @@ (m2 :> u2)
===============================================================================
