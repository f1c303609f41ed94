-------------------------- MODULE MCLaunchTracker --------------------------
(* Model checking LaunchTracker.                                           *)
EXTENDS LaunchTracker
=============================================================================
