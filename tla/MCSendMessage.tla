---------------------------- MODULE MCSendMessage ----------------------------
(***************************************************************************)
(* An instance of SendMessage for TLC: a message with a file, which can be *)
(* retried, and two handlers.                                              *)
(***************************************************************************)
EXTENDS SendMessage, TLC

CONSTANTS file, h1, h2

OneFile == {file}
TwoHandlers == {h1, h2}
HandlerSymmetry == Permutations(TwoHandlers)
=============================================================================
