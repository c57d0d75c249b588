----------------------------- MODULE MCChatSession -----------------------------
(* The chat session as TLC checks it: every bound is a number in the .cfg.     *)
EXTENDS ChatSession
===============================================================================
