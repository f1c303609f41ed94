---------------------------- MODULE SamplingPass ----------------------------
(***************************************************************************)
(* What the sampling thread of runtime.rs keeps of the machine besides     *)
(* metrics and launches: the evidence for findings (Diagnostics), the      *)
(* Windows event log, and the machine's baseline. The three do not meet,   *)
(* so a behaviour follows one of them (scope "events", "learning", or one  *)
(* of Diagnostics).                                                        *)
(***************************************************************************)
EXTENDS Diagnostics, EventLog, Learning

passVars == <<vars, evVars, leVars>>

OnlyFindings == scope \notin {"events", "learning"} /\ UNCHANGED <<evVars, leVars>>
OnlyEvents   == scope = "events" /\ UNCHANGED <<vars, leVars>>
OnlyLearning == scope = "learning" /\ UNCHANGED <<vars, evVars>>

SamplingInit == DiagnosticsInit /\ EventLogInit /\ LearningInit

SamplingNext ==
  \/ DiagnosticsNext /\ OnlyFindings
  \/ EventLogNext /\ OnlyEvents
  \/ LearningNext /\ OnlyLearning

(* The sampling thread is never suspended, and a consumer whose session is *)
(* stopped drains and joins.                                               *)
SamplingSpec ==
  /\ SamplingInit /\ [][SamplingNext]_passVars
  /\ WF_passVars(Begin /\ OnlyFindings) /\ WF_passVars(End /\ OnlyFindings)
  /\ WF_passVars(DuringCapture /\ OnlyFindings)

(* Types.                                                                  *)
SamplingTypeOK == DiagnosticsTypeOK /\ EventLogTypeOK /\ LearningTypeOK
=============================================================================
