------------------------------ MODULE MCDashboard ------------------------------
(* Small instances of Dashboard for TLC; the bounds are in the .cfg files.    *)
EXTENDS Dashboard
===============================================================================
