---------------------------- MODULE MCTrustMonitor ----------------------------
(* A small instance of TrustMonitor for TLC; the bounds are in the .cfg file. *)
EXTENDS TrustMonitor
===============================================================================
