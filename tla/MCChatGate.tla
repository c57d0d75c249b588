------------------------------ MODULE MCChatGate ------------------------------
(* Small instances of ChatGate for TLC; the bounds are in the .cfg files.     *)
EXTENDS ChatGate
===============================================================================
