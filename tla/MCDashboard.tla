---------------------------- MODULE MCDashboard -----------------------------
(* Model checking Dashboard.                                               *)
EXTENDS Dashboard
=============================================================================
