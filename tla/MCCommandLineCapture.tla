------------------------ MODULE MCCommandLineCapture ------------------------
(* Model checking CommandLineCapture.                                      *)
EXTENDS CommandLineCapture
=============================================================================
