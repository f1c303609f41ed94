---------------------------- MODULE MCPipeServer ----------------------------
(* Model checking PipeServer.                                              *)
EXTENDS PipeServer
=============================================================================
