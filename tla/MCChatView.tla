----------------------------- MODULE MCChatView -------------------------------
(*****************************************************************************)
(* A small instance of ChatView for TLC: two chats, all messages in one.     *)
(*****************************************************************************)
EXTENDS ChatView, TLC

CONSTANTS chat1, chat2

MCDialog == {chat1, chat2}
AllInOne == [n \in Note |-> chat1]
===============================================================================
