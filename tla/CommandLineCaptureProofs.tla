---------------------- MODULE CommandLineCaptureProofs ----------------------
(* Proofs about CommandLineCapture, for any set of launches and any number *)
(* of deletes.                                                             *)
EXTENDS CommandLineCapture, TLAPS

-----------------------------------------------------------------------------
(* Type correctness of the pipeline: one place per line, and a loop that   *)
(* never runs ahead of the forget counter.                                 *)

LEMMA InitTypeOK == Init => TypeOK
<1> SUFFICES ASSUME Init PROVE TypeOK
  OBVIOUS
<1>1. /\ setting \in BOOLEAN /\ session \in BOOLEAN /\ tickOn \in BOOLEAN
      /\ pc \in Points /\ handler \in Handlers
  BY DEF Init, Points, Handlers
<1>2. forgetGen \in 0..MaxDeletes /\ lastForget \in 0..MaxDeletes
      /\ lastForget <= forgetGen
  BY MaxDeletesAssumption DEF Init
<1>3. tracker \in [Launches -> Flushed]
  BY DEF Init, Flushed
<1>4. QED
  BY <1>1, <1>2, <1>3 DEF Init, TypeOK

(* A drain only moves launches along no -> running -> final.               *)
LEMMA DrainType ==
  ASSUME TypeOK, NEW F \in SUBSET Launches, Drain(F)
  PROVE  /\ tracker' \in [Launches -> Flushed]
         /\ flushable' \subseteq Launches
BY DEF TypeOK, Drain, Flushed

LEMMA NextTypeOK == TypeOK /\ [Next]_vars => TypeOK'
<1> SUFFICES ASSUME TypeOK, [Next]_vars PROVE TypeOK'
  OBVIOUS
<1> USE MaxDeletesAssumption
<1>1. ASSUME NEW l \in Launches, LogLine(l) PROVE TypeOK'
  BY <1>1 DEF LogLine, TypeOK
<1>2. ASSUME NEW l \in Launches, FlushLine(l) PROVE TypeOK'
  BY <1>2 DEF FlushLine, TypeOK, historyVars
<1>3. CASE BeginTick
  BY <1>3 DEF BeginTick, Goto, TypeOK, historyVars, Points
<1>4. CASE CaptureStep
  <2>1. CASE tickOn /\ TakeLines
    BY <1>4, <2>1 DEF CaptureStep, Goto, TakeLines, TypeOK, historyVars, Points
  <2>2. CASE ~tickOn /\ TurnOff
    BY <1>4, <2>2 DEF CaptureStep, Goto, TurnOff, TypeOK, historyVars, Points
  <2>3. QED
    BY <1>4, <2>1, <2>2 DEF CaptureStep
<1>5. ASSUME NEW F \in SUBSET Launches, JoinStep(F) PROVE TypeOK'
  <2>1. /\ tracker' \in [Launches -> Flushed]
        /\ flushable' \subseteq Launches
    BY <1>5, DrainType DEF JoinStep
  <2>2. /\ batch' \subseteq joiner /\ joiner' \subseteq joiner
        /\ batch' \cap joiner' = {}
        /\ recent' \subseteq Launches
    BY <1>5 DEF JoinStep, TypeOK
  <2>3. QED
    BY <1>5, <2>1, <2>2 DEF JoinStep, Goto, TypeOK, historyVars, Points
<1>6. ASSUME NEW saved \in BOOLEAN, SaveStep(saved) PROVE TypeOK'
  <2>1. /\ batch' \cup joiner' \subseteq batch \cup joiner
        /\ batch' \cap joiner' = {}
        /\ recent' \subseteq Launches
    BY <1>6 DEF SaveStep, Reconcile, TypeOK
  <2>2. QED
    BY <1>6, <2>1 DEF SaveStep, Goto, TypeOK, historyVars, Points
<1>7. CASE ForgetCheck
  BY <1>7 DEF ForgetCheck, Goto, TypeOK, historyVars, Points
<1>8. ASSUME NEW l \in Launches, PersistLine(l) PROVE TypeOK'
  BY <1>8 DEF PersistLine, TypeOK, historyVars
<1>9. CASE EndTick
  BY <1>9 DEF EndTick, Goto, TypeOK, historyVars, Points
<1>10. ASSUME NEW on \in BOOLEAN, SetCapture(on) PROVE TypeOK'
  BY <1>10 DEF SetCapture, TypeOK, loopVars, historyVars
<1>11. CASE DeleteBegins
  BY <1>11 DEF DeleteBegins, Covered, TypeOK, loopVars, Handlers
<1>12. CASE DeleteReturns
  BY <1>12 DEF DeleteReturns, TypeOK, Handlers
<1>13. CASE DeleteFails
  BY <1>13 DEF DeleteFails, TypeOK, loopVars, historyVars, Handlers
<1>14. CASE Crash
  <2>1. /\ setting' \in BOOLEAN /\ session' \in BOOLEAN /\ tickOn' \in BOOLEAN
        /\ pc' \in Points /\ handler' \in Handlers
    BY <1>14 DEF Crash, TypeOK, Points, Handlers
  <2>2. /\ forgetGen' \in 0..MaxDeletes /\ lastForget' \in 0..MaxDeletes
        /\ lastForget' <= forgetGen'
    BY <1>14 DEF Crash
  <2>3. QED
    BY <1>14, <2>1, <2>2 DEF Crash, TypeOK, historyVars
<1>15. CASE UNCHANGED vars
  BY <1>15 DEF vars, loopVars, historyVars, TypeOK
<1>16. QED
  BY <1>1, <1>2, <1>3, <1>4, <1>5, <1>6, <1>7, <1>8, <1>9, <1>10, <1>11,
     <1>12, <1>13, <1>14, <1>15 DEF Next, Loop

(* Every reachable state is well typed: in particular a captured line is   *)
(* in at most one of the session, the queue, the joiner, the batch and the *)
(* table.                                                                  *)
THEOREM TypeCorrect == Spec => []TypeOK
BY InitTypeOK, NextTypeOK, PTL DEF Spec

-----------------------------------------------------------------------------
(* The forget protocol.  A line to be forgotten is never upstream of the   *)
(* loop nor on disk; while the loop has seen the latest bump it holds none *)
(* at all; and none survives the second check into the persist loop.       *)
ForgetInv ==
  /\ forgotten \cap (buffer \cup queue \cup disk) = {}
  /\ forgetGen = lastForget => forgotten \cap (joiner \cup batch) = {}
  /\ pc = "persist" => forgotten \cap batch = {}

LEMMA InitForgetInv == Init => ForgetInv
BY DEF Init, ForgetInv

LEMMA NextForgetInv == TypeOK /\ ForgetInv /\ [Next]_vars => ForgetInv'
<1> SUFFICES ASSUME TypeOK, ForgetInv, [Next]_vars PROVE ForgetInv'
  OBVIOUS
<1>1. ASSUME NEW l \in Launches, LogLine(l) PROVE ForgetInv'
  BY <1>1 DEF LogLine, TypeOK, ForgetInv
<1>2. ASSUME NEW l \in Launches, FlushLine(l) PROVE ForgetInv'
  BY <1>2 DEF FlushLine, ForgetInv, historyVars
<1>3. CASE BeginTick
  BY <1>3 DEF BeginTick, Goto, ForgetInv, historyVars
<1>4. CASE CaptureStep
  <2>1. CASE tickOn /\ TakeLines
    BY <1>4, <2>1 DEF CaptureStep, Goto, TakeLines, ForgetInv, historyVars
  <2>2. CASE ~tickOn /\ TurnOff
    BY <1>4, <2>2 DEF CaptureStep, Goto, TurnOff, ForgetInv, historyVars
  <2>3. QED
    BY <1>4, <2>1, <2>2 DEF CaptureStep
(* The first check: either the bump was seen before, or the joiner goes.   *)
<1>5. ASSUME NEW F \in SUBSET Launches, JoinStep(F) PROVE ForgetInv'
  <2>1. batch' \cup joiner' \subseteq (IF ForgetAdvanced THEN {} ELSE joiner)
    BY <1>5 DEF JoinStep
  <2>2. forgotten \cap (batch' \cup joiner') = {}
    BY <2>1 DEF ForgetAdvanced, ForgetInv
  <2>3. QED
    BY <1>5, <2>2 DEF JoinStep, Goto, ForgetInv, historyVars
<1>6. ASSUME NEW saved \in BOOLEAN, SaveStep(saved) PROVE ForgetInv'
  <2>1. batch' \cup joiner' \subseteq batch \cup joiner
    BY <1>6 DEF SaveStep, Reconcile
  <2>2. QED
    BY <1>6, <2>1 DEF SaveStep, Goto, ForgetInv, historyVars
(* The second check is what keeps a forgotten line from the persist loop.  *)
<1>7. CASE ForgetCheck
  BY <1>7 DEF ForgetCheck, ForgetAdvanced, Goto, ForgetInv, historyVars
<1>8. ASSUME NEW l \in Launches, PersistLine(l) PROVE ForgetInv'
  BY <1>8 DEF PersistLine, ForgetInv, historyVars
<1>9. CASE EndTick
  BY <1>9 DEF EndTick, Goto, ForgetInv, historyVars
<1>10. ASSUME NEW on \in BOOLEAN, SetCapture(on) PROVE ForgetInv'
  BY <1>10 DEF SetCapture, ForgetInv, loopVars, historyVars
(* The bump comes first, so what is forgotten here is still to be checked. *)
<1>11. CASE DeleteBegins
  <2>1. lastForget' # forgetGen'
    BY <1>11, MaxDeletesAssumption DEF DeleteBegins, loopVars, TypeOK
  <2>2. QED
    BY <1>11, <2>1 DEF DeleteBegins, Covered, ForgetInv, TypeOK, loopVars
<1>12. CASE DeleteReturns
  BY <1>12 DEF DeleteReturns, ForgetInv, TypeOK
<1>13. CASE DeleteFails
  BY <1>13 DEF DeleteFails, ForgetInv, loopVars, historyVars
<1>14. CASE Crash
  BY <1>14 DEF Crash, ForgetInv, historyVars
<1>15. CASE UNCHANGED vars
  BY <1>15 DEF vars, loopVars, historyVars, ForgetInv
<1>16. QED
  BY <1>1, <1>2, <1>3, <1>4, <1>5, <1>6, <1>7, <1>8, <1>9, <1>10, <1>11,
     <1>12, <1>13, <1>14, <1>15 DEF Next, Loop

(* What a delete found on disk, or found in the loop short of its second   *)
(* check, is never filed afterwards.                                       *)
THEOREM ForgetsForGood == Spec => []ForgottenStaysForgotten
<1>1. ForgetInv => ForgottenStaysForgotten
  BY DEF ForgetInv, ForgottenStaysForgotten
<1>2. QED
  BY <1>1, InitTypeOK, NextTypeOK, InitForgetInv, NextForgetInv, PTL DEF Spec

-----------------------------------------------------------------------------
(* The late join offers lines to saved rows only.                          *)
LEMMA NextLateLines == LateLinesHaveRows /\ [Next]_vars => LateLinesHaveRows'
<1> SUFFICES ASSUME LateLinesHaveRows, [Next]_vars PROVE LateLinesHaveRows'
  OBVIOUS
<1> USE DEF LateLinesHaveRows
(* Saving is the step that matters: a failed save remembers nothing.       *)
<1>1. ASSUME NEW saved \in BOOLEAN, SaveStep(saved) PROVE LateLinesHaveRows'
  <2>1. rows \subseteq rows' /\ (saved => flushable \subseteq rows')
    BY <1>1 DEF SaveStep
  <2>2. recent' \subseteq recent \cup (IF saved THEN flushable ELSE {})
    BY <1>1 DEF SaveStep, Reconcile
  <2>3. QED
    BY <2>1, <2>2
<1>2. CASE CaptureStep
  BY <1>2 DEF CaptureStep, TakeLines, TurnOff
<1>3. CASE ForgetCheck
  BY <1>3 DEF ForgetCheck
<1>4. CASE \E F \in SUBSET Launches : JoinStep(F)
  BY <1>4 DEF JoinStep
<1>5. CASE Crash
  BY <1>5 DEF Crash
(* Every other step leaves both the remembered identities and the rows.    *)
<1>6. CASE UNCHANGED <<recent, rows>>
  BY <1>6
<1>7. QED
  BY <1>1, <1>2, <1>3, <1>4, <1>5, <1>6
     DEF Next, Loop, vars, loopVars, LogLine, FlushLine, BeginTick,
         PersistLine, EndTick, SetCapture, DeleteBegins, DeleteReturns,
         DeleteFails

(* A line that arrives after its launch was flushed is only ever filed     *)
(* against a row that save_launches has written.                           *)
THEOREM LateLinesGoToRows == Spec => []LateLinesHaveRows
<1>1. Init => LateLinesHaveRows
  BY DEF Init, LateLinesHaveRows
<1>2. QED
  BY <1>1, NextLateLines, PTL DEF Spec

-----------------------------------------------------------------------------
(* With no session there is nothing to hold, and a batch only exists past  *)
(* the join of a tick that is capturing.                                   *)
SessionInv ==
  /\ ~session => buffer = {} /\ queue = {} /\ joiner = {} /\ recent = {}
  /\ batch # {} => pc \in {"joined", "saved", "persist"} /\ tickOn
  /\ ~tickOn /\ pc \notin {"idle", "cloned"} => ~session

LEMMA NextSessionInv == SessionInv /\ [Next]_vars => SessionInv'
<1> SUFFICES ASSUME SessionInv, [Next]_vars PROVE SessionInv'
  OBVIOUS
<1> USE DEF SessionInv
<1>1. ASSUME NEW l \in Launches, LogLine(l) PROVE SessionInv'
  BY <1>1 DEF LogLine
<1>2. ASSUME NEW l \in Launches, FlushLine(l) PROVE SessionInv'
  BY <1>2 DEF FlushLine
<1>3. CASE BeginTick
  BY <1>3 DEF BeginTick, Goto
<1>4. CASE CaptureStep
  <2>1. CASE tickOn /\ TakeLines
    BY <1>4, <2>1 DEF CaptureStep, Goto, TakeLines
  <2>2. CASE ~tickOn /\ TurnOff
    BY <1>4, <2>2 DEF CaptureStep, Goto, TurnOff
  <2>3. QED
    BY <1>4, <2>1, <2>2 DEF CaptureStep
<1>5. ASSUME NEW F \in SUBSET Launches, JoinStep(F) PROVE SessionInv'
  <2>1. /\ joiner' \subseteq joiner /\ recent' \subseteq recent
        /\ batch' # {} => tickOn
    BY <1>5 DEF JoinStep, CaptureActive
  <2>2. QED
    BY <1>5, <2>1 DEF JoinStep, Goto
<1>6. ASSUME NEW saved \in BOOLEAN, SaveStep(saved) PROVE SessionInv'
  <2>1. CASE CaptureActive
    BY <1>6, <2>1 DEF SaveStep, CaptureActive, Goto
  <2>2. CASE ~CaptureActive
    BY <1>6, <2>2 DEF SaveStep, Goto
  <2>3. QED
    BY <2>1, <2>2
<1>7. CASE ForgetCheck
  BY <1>7 DEF ForgetCheck, Goto
<1>8. ASSUME NEW l \in Launches, PersistLine(l) PROVE SessionInv'
  BY <1>8 DEF PersistLine
<1>9. CASE EndTick
  BY <1>9 DEF EndTick, Goto
<1>10. CASE Crash
  BY <1>10 DEF Crash
<1>11. CASE UNCHANGED loopVars
  BY <1>11 DEF loopVars
<1>12. QED
  BY <1>1, <1>2, <1>3, <1>4, <1>5, <1>6, <1>7, <1>8, <1>9, <1>10, <1>11
     DEF Next, Loop, vars, SetCapture, DeleteBegins, DeleteReturns,
         DeleteFails, loopVars

(* Past the toggle of a tick that began with capture off, the service      *)
(* holds no line and no identity a straggler could still be filed against. *)
THEOREM OffMeansEmpty == Spec => []OffTickHoldsNothing
<1>1. Init => SessionInv
  BY DEF Init, SessionInv
<1>2. SessionInv => OffTickHoldsNothing
  BY DEF SessionInv, OffTickHoldsNothing, HoldsNothing
<1>3. QED
  BY <1>1, <1>2, NextSessionInv, PTL DEF Spec

(* An empty pipeline with capture off stays empty until capture is on: no  *)
(* tick, wipe or restart opens a session or brings a line back.            *)
THEOREM OffStays == Spec => OffStaysEmpty
<1>1. ASSUME ~tickOn, HoldsNothing, ~setting, [Next]_vars
      PROVE  ~tickOn' /\ HoldsNothing'
  <2> USE <1>1 DEF HoldsNothing
  <2>1. CASE \E l \in Launches : LogLine(l) \/ FlushLine(l)
    BY <2>1 DEF LogLine, FlushLine
  <2>2. CASE BeginTick
    BY <2>2 DEF BeginTick
  <2>3. CASE CaptureStep
    BY <2>3 DEF CaptureStep, TurnOff
  <2>4. CASE \E F \in SUBSET Launches : JoinStep(F)
    BY <2>4 DEF JoinStep, CaptureActive
  <2>5. CASE \E saved \in BOOLEAN : SaveStep(saved)
    BY <2>5 DEF SaveStep, CaptureActive
  <2>6. CASE ForgetCheck
    BY <2>6 DEF ForgetCheck
  <2>7. CASE (\E l \in Launches : PersistLine(l)) \/ EndTick
    BY <2>7 DEF PersistLine, EndTick
  <2>8. CASE Crash
    BY <2>8 DEF Crash
  <2>9. CASE UNCHANGED loopVars
    BY <2>9 DEF loopVars
  <2>10. QED
    BY <2>1, <2>2, <2>3, <2>4, <2>5, <2>6, <2>7, <2>8, <2>9
       DEF Next, Loop, vars, SetCapture, DeleteBegins, DeleteReturns, DeleteFails, loopVars
<1>2. [Next]_vars =>
        [~tickOn /\ HoldsNothing /\ ~setting => ~tickOn' /\ HoldsNothing']_vars
  BY <1>1
<1>3. QED
  BY <1>2, PTL DEF Spec, OffStaysEmpty
=============================================================================
