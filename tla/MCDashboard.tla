---------------------------- MODULE MCDashboard ----------------------------
(* Small instances of Dashboard for TLC. *)
EXTENDS Dashboard, TLC

\* A short window with a point for every second, and a long one with a point for two.
Buckets2 == 1 :> 1 @@ 2 :> 2
Ahead == {0, 1}
=============================================================================
