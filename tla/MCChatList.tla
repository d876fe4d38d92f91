------------------------------ MODULE MCChatList ------------------------------
(* Two chats, over a log out and a second log in.                             *)
EXTENDS ChatList
===============================================================================
