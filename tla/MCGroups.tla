------------------------------ MODULE MCGroups --------------------------------
(*****************************************************************************)
(* Small instances of Groups for TLC: an owner, an admin or a member, and a  *)
(* stranger, with one link in use and one to be created.                     *)
(*****************************************************************************)
EXTENDS Groups, TLC

CONSTANTS ada, bob, eve, l1, l2

MCPerson == {ada, bob, eve}
OwnerAndAdmin == (ada :> "owner") @@ (bob :> "admin") @@ (eve :> "none")
OwnerAndMember == (ada :> "owner") @@ (bob :> "member") @@ (eve :> "none")
MCLink == {l1, l2}
OneActive == (l1 :> "active") @@ (l2 :> "new")
===============================================================================
