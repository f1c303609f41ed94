------------------------- MODULE CommandLineCapture -------------------------
(***************************************************************************)
(* The opt-in command-line pipeline: the MOF session of etw.rs captures a  *)
(* line, the sampling loop of runtime.rs takes it into the CmdlineJoiner,  *)
(* joins it to a flushed launch row (or, late, to a recently saved one)    *)
(* and files it in launch_cmdlines, while the pipe thread may change the   *)
(* setting or wipe the table at any moment.                                *)
(*                                                                         *)
(* A command line is identified with the launch it describes: the text,    *)
(* its redaction and its DPAPI blob are data no property here tells apart, *)
(* and the matching of a capture to a launch is by identity.  One tick of  *)
(* the loop is cut where the pipe thread can observe or disturb it: where  *)
(* it reads the settings, the ETW queue or the forget counter, and where   *)
(* it writes the database.                                                 *)
(***************************************************************************)
EXTENDS Naturals, FiniteSets

CONSTANTS
  Launches,    \* the process launches of the behaviour
  MaxDeletes   \* bound: deleteCommandLines requests per service run

ASSUME MaxDeletesAssumption == MaxDeletes \in Nat

VARIABLES
  setting,     \* AppState.settings.capture_command_lines
  session,     \* cmdline_session is Some
  buffer,      \* lines the kernel session has logged and not yet flushed
  queue,       \* lines in the collector's bounded channel
  joiner,      \* CmdlineJoiner.entries
  recent,      \* RecentLaunches.entries: saved rows still without a line
  tracker,     \* what the launch tracker has flushed of each launch
  flushable,   \* rows drained from the tracker by this tick
  batch,       \* joined: the lines this tick is about to file
  rows,        \* launches saved in launch_events
  disk,        \* lines filed in launch_cmdlines
  pc,          \* where the sampling loop is in its tick
  tickOn,      \* the tick's own copy of the setting
  forgetGen,   \* AppState.cmdline_forget_generation
  lastForget,  \* last_forget_generation of the loop
  handler,     \* what the pipe thread is doing
  captured,    \* history: every line the session ever logged
  forgotten    \* history: lines a delete found on disk, or found in the
               \* joiner or an unchecked batch when it bumped the counter

loopVars    == <<session, buffer, queue, joiner, recent, tracker, flushable, batch,
                 rows, disk, pc, tickOn, lastForget>>
historyVars == <<captured, forgotten>>
vars        == <<setting, loopVars, forgetGen, handler, historyVars>>

(* Ticks move through these points; "idle" is the wait between two ticks.  *)
Points   == {"idle", "cloned", "taken", "joined", "saved", "persist"}
Flushed  == {"no", "running", "final"}
Handlers == {"idle", "deleting"}

(* Types, and two structural facts every step relies on: a line is in one  *)
(* place at a time, and the loop never remembers a newer forget generation *)
(* than the pipe thread has published.                                     *)
TypeOK ==
  /\ setting \in BOOLEAN /\ session \in BOOLEAN /\ tickOn \in BOOLEAN
  /\ buffer \subseteq Launches
  /\ queue \subseteq Launches /\ joiner \subseteq Launches
  /\ batch \subseteq Launches /\ disk \subseteq Launches
  /\ recent \subseteq Launches /\ rows \subseteq Launches
  /\ flushable \subseteq Launches
  /\ tracker \in [Launches -> Flushed]
  /\ pc \in Points /\ handler \in Handlers
  /\ forgetGen \in 0..MaxDeletes /\ lastForget \in 0..MaxDeletes
  /\ lastForget <= forgetGen
  /\ captured \subseteq Launches
  /\ forgotten \subseteq captured
  /\ (buffer \cup queue \cup joiner \cup batch \cup disk) \subseteq captured
  /\ buffer \cap (queue \cup joiner \cup batch \cup disk) = {}
  /\ queue \cap joiner = {} /\ queue \cap batch = {} /\ queue \cap disk = {}
  /\ joiner \cap batch = {} /\ joiner \cap disk = {} /\ batch \cap disk = {}

Init ==
  /\ setting \in BOOLEAN
  /\ session = FALSE /\ tickOn = FALSE
  /\ buffer = {} /\ queue = {} /\ joiner = {} 
  /\ recent = {} /\ flushable = {} /\ batch = {}
  /\ rows = {} /\ disk = {}
  /\ tracker = [l \in Launches |-> "no"]
  /\ pc = "idle" /\ handler = "idle"
  /\ forgetGen = 0 /\ lastForget = 0
  /\ captured = {} /\ forgotten = {}

-----------------------------------------------------------------------------
(* The ETW side.                                                           *)

(* A process starts while the session runs: the kernel logs its line.      *)
LogLine(l) ==
  /\ session /\ l \notin captured
  /\ buffer' = buffer \cup {l}
  /\ captured' = captured \cup {l}
  /\ UNCHANGED <<setting, session, queue, joiner, recent, tracker, flushable,
                 batch, rows, disk, pc, tickOn, forgetGen, lastForget,
                 handler, forgotten>>

(* The session's one-second flush runs the callback, which queues the line *)
(* (or, the channel being full, drops it).                                 *)
FlushLine(l) ==
  /\ l \in buffer
  /\ buffer' = buffer \ {l}
  /\ queue' \in {queue, queue \cup {l}}
  /\ UNCHANGED <<setting, session, joiner, recent, tracker, flushable, batch,
                 rows, disk, pc, tickOn, forgetGen, lastForget, handler,
                 historyVars>>

-----------------------------------------------------------------------------
(* The sampling loop.                                                      *)

Goto(from, to) == pc = from /\ pc' = to

(* The tick clones the settings it will use to its very end.               *)
BeginTick ==
  /\ Goto("idle", "cloned")
  /\ tickOn' = setting
  /\ UNCHANGED <<setting, session, buffer, queue, joiner, recent, tracker,
                 flushable, batch, rows, disk, forgetGen, lastForget, handler,
                 historyVars>>

(* The toggle of a build that stops the session and forgets its clears.    *)
TurnOffKeepsLines ==
  /\ session' = FALSE
  /\ buffer' = {} /\ queue' = {}
  /\ UNCHANGED <<joiner, recent>>

(* Turning capture off ends the session (what it had not handed over dies  *)
(* with it) and drops the joiner and the remembered identities.            *)
TurnOff ==
  /\ session' = FALSE
  /\ buffer' = {} /\ queue' = {}
  /\ IF session THEN joiner' = {} /\ recent' = {}
                ELSE UNCHANGED <<joiner, recent>>

(* With capture on: start a missing session (which may fail, and is then   *)
(* retried on a later tick), take what is queued, and age entries out.     *)
TakeLines ==
  /\ session' \in (IF session THEN {TRUE} ELSE BOOLEAN)
  /\ queue' = {}
  /\ \E old \in SUBSET joiner : joiner' = (joiner \ old) \cup queue
  /\ UNCHANGED <<buffer, recent>>

CaptureStep ==
  /\ Goto("cloned", "taken")
  /\ IF tickOn THEN TakeLines ELSE TurnOff
  /\ UNCHANGED <<setting, tracker, flushable, batch, rows, disk, tickOn,
                 forgetGen, lastForget, handler, historyVars>>

(* forget_generation_advanced                                              *)
ForgetAdvanced == forgetGen # lastForget

CaptureActive == tickOn /\ session

(* The rows the tracker hands over this tick: a launch is flushed once as  *)
(* Running and once when it stops, or only when it stops.                  *)
Drain(F) ==
  /\ flushable' = F
  /\ \E next \in [F -> {"running", "final"}] :
       /\ \A l \in F : \/ tracker[l] = "no"
                       \/ tracker[l] = "running" /\ next[l] = "final"
       /\ tracker' = [l \in Launches |-> IF l \in F THEN next[l]
                                                    ELSE tracker[l]]

(* First forget check, then join_command_lines over the flushed rows.      *)
JoinStep(F) ==
  /\ Goto("taken", "joined")
  /\ Drain(F)
  /\ LET held == IF ForgetAdvanced THEN {} ELSE joiner
         hits == IF CaptureActive THEN held \cap F ELSE {}
     IN  /\ batch' = hits
         /\ joiner' = held \ hits
  /\ recent' = IF ForgetAdvanced THEN {} ELSE recent
  /\ lastForget' = forgetGen
  /\ UNCHANGED <<setting, session, buffer, queue, rows, disk, tickOn,
                 forgetGen, handler, historyVars>>

(* Reconciliation that remembers the rows of a failed save as well.        *)
ReconcileUnsaved(saved) ==
  \E old \in SUBSET recent :
    LET fresh == flushable \ batch
        late  == joiner \cap ((recent \ old) \cup fresh)
    IN  /\ recent' = (recent \ old) \cup fresh
        /\ batch' = batch \cup late
        /\ joiner' = joiner \ late

(* The late-join reconciliation: saved rows without a line are remembered, *)
(* old identities age out, and captures that were waiting for a remembered *)
(* row join the batch.                                                     *)
Reconcile(saved) ==
  \E old \in SUBSET recent :
    LET fresh == IF saved THEN flushable \ batch ELSE {}
        late  == joiner \cap ((recent \ old) \cup fresh)
    IN  /\ recent' = (recent \ old) \cup fresh
        /\ batch' = batch \cup late
        /\ joiner' = joiner \ late

(* save_launches, whose failure is only logged, and the reconciliation.    *)
SaveStep(saved) ==
  /\ Goto("joined", "saved")
  /\ saved => flushable # {}
  /\ rows' = IF saved THEN rows \cup flushable ELSE rows
  /\ IF CaptureActive THEN Reconcile(saved)
                      ELSE UNCHANGED <<recent, batch, joiner>>
  /\ flushable' = {}
  /\ UNCHANGED <<setting, session, buffer, queue, tracker, disk, tickOn,
                 forgetGen, lastForget, handler, historyVars>>

(* The check of a build that trusts the first one.                         *)
ForgetCheckSkipped ==
  /\ Goto("saved", "persist")
  /\ UNCHANGED <<setting, session, buffer, queue, joiner, recent, tracker,
                 flushable, batch, rows, disk, tickOn, forgetGen, lastForget,
                 handler, historyVars>>

(* Second forget check, immediately before the persist loop.               *)
ForgetCheck ==
  /\ Goto("saved", "persist")
  /\ IF ForgetAdvanced
     THEN joiner' = {} /\ recent' = {} /\ batch' = {}
     ELSE UNCHANGED <<joiner, recent, batch>>
  /\ lastForget' = forgetGen
  /\ UNCHANGED <<setting, session, buffer, queue, tracker, flushable, rows,
                 disk, tickOn, forgetGen, handler, historyVars>>

(* One iteration of the persist loop: encrypt and file a line.  A failure  *)
(* of either loses it, since the join already consumed the capture.        *)
PersistLine(l) ==
  /\ pc = "persist" /\ l \in batch
  /\ batch' = batch \ {l}
  /\ disk' \in {disk, disk \cup {l}}
  /\ UNCHANGED <<setting, session, buffer, queue, joiner, recent, tracker,
                 flushable, rows, pc, tickOn, forgetGen, lastForget, handler,
                 historyVars>>

(* The rest of the tick; the hourly retention prune drops what has aged.   *)
EndTick ==
  /\ Goto("persist", "idle")
  /\ batch = {}
  /\ disk' \in SUBSET disk
  /\ UNCHANGED <<setting, session, buffer, queue, joiner, recent, tracker,
                 flushable, batch, rows, tickOn, forgetGen, lastForget,
                 handler, historyVars>>

-----------------------------------------------------------------------------
(* The pipe thread, which serves one request at a time.                    *)

(* UpdateSettings                                                          *)
SetCapture(on) ==
  /\ handler = "idle" /\ setting # on
  /\ setting' = on
  /\ UNCHANGED <<loopVars, forgetGen, handler, historyVars>>

(* What the loop holds when the counter moves and has yet to check it: the *)
(* joiner, and the batch up to the check that stands before the writes.    *)
Covered == joiner \cup (IF pc = "persist" THEN {} ELSE batch)

(* DeleteCommandLines bumps the counter before it touches the table.       *)
DeleteBegins ==
  /\ handler = "idle" /\ forgetGen < MaxDeletes
  /\ handler' = "deleting"
  /\ forgetGen' = forgetGen + 1
  /\ forgotten' = forgotten \cup Covered
  /\ UNCHANGED <<setting, loopVars, captured>>

(* delete_all_launch_cmdlines, and the reply.                              *)
DeleteReturns ==
  /\ handler = "deleting"
  /\ handler' = "idle"
  /\ disk' = {}
  /\ forgotten' = forgotten \cup disk
  /\ UNCHANGED <<setting, session, buffer, queue, joiner, recent, tracker,
                 flushable, batch, rows, pc, tickOn, forgetGen, lastForget,
                 captured>>

(* The DELETE fails: an error reply, and a counter that has moved already. *)
DeleteFails ==
  /\ handler = "deleting"
  /\ handler' = "idle"
  /\ UNCHANGED <<setting, loopVars, forgetGen, historyVars>>

-----------------------------------------------------------------------------
(* The service dies and is started again: the settings file and the        *)
(* database survive, everything the process held is gone.  A launch the    *)
(* old tracker was still holding is never flushed by the new one.          *)
Crash ==
  /\ session' = FALSE /\ tickOn' = FALSE /\ pc' = "idle" /\ handler' = "idle"
  /\ buffer' = {} /\ queue' = {} /\ joiner' = {} /\ recent' = {}
  /\ batch' = {} /\ flushable' = {}
  /\ forgetGen' = 0 /\ lastForget' = 0
  /\ UNCHANGED <<setting, tracker, rows, disk, historyVars>>

-----------------------------------------------------------------------------
Loop ==
  \/ BeginTick
  \/ CaptureStep
  \/ \E F \in SUBSET Launches : JoinStep(F)
  \/ \E saved \in BOOLEAN : SaveStep(saved)
  \/ ForgetCheck
  \/ \E l \in Launches : PersistLine(l)
  \/ EndTick

Next ==
  \/ \E l \in Launches : LogLine(l) \/ FlushLine(l)
  \/ Loop
  \/ \E on \in BOOLEAN : SetCapture(on)
  \/ DeleteBegins \/ DeleteReturns \/ DeleteFails
  \/ Crash

(* The sampling thread keeps ticking; nothing else owes anybody a step.    *)
Spec == Init /\ [][Next]_vars /\ WF_vars(Loop)

-----------------------------------------------------------------------------
(* A line that a wipe found on disk, or that the loop was holding short of *)
(* its second check when the wipe was requested, is never on disk again:   *)
(* neither check alone gives this, nor does the order of bump and DELETE.  *)
ForgottenStaysForgotten == disk \cap forgotten = {}

(* In a tick that began with capture off, nothing is held past the toggle: *)
(* no session, no capture, no identity a straggler could be filed against. *)
HoldsNothing ==
  ~session /\ buffer \cup queue \cup joiner \cup recent \cup batch = {}

OffTickHoldsNothing == ~tickOn /\ pc \notin {"idle", "cloned"} => HoldsNothing

(* Once that is so, and whatever a tick, a wipe or a restart does then, it *)
(* stays so until the user turns capture on again.                         *)
OffStaysEmpty ==
  [][~tickOn /\ HoldsNothing /\ ~setting => ~tickOn' /\ HoldsNothing']_vars

(* The late join only ever offers a line to a row that reached storage.    *)
LateLinesHaveRows == recent \subseteq rows

(* Once the user leaves capture off, the process ends up holding no        *)
(* captured text anywhere, and stays so.                                   *)
OffDrainsEverything ==
  <>[](~setting) => <>[](buffer \cup queue \cup joiner \cup batch = {})
=============================================================================
