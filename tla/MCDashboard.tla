---------------------------- MODULE MCDashboard -----------------------------
(* Instances of Dashboard for TLC.                                         *)
EXTENDS Dashboard

CONSTANTS a, me, none, oracle, failure, feed
=============================================================================
