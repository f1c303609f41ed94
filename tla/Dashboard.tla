----------------------------- MODULE Dashboard ------------------------------
(***************************************************************************)
(* The terminal dashboard: the interface thread (keys, clicks and          *)
(* drain_events), the background worker, the analyzer's thread, and, for   *)
(* live telemetry, the service's sampling loop. The pages share the two    *)
(* channels and the worker and nothing else, so a behaviour uses one page  *)
(* (scope); snapshots and page refreshes are there where they matter. The  *)
(* background video has a thread and a channel of its own.                 *)
(***************************************************************************)
EXTENDS ChatPane, LaunchPane, LiveChannel, BackgroundClip

CONSTANT Scopes

VARIABLE scope

pageVars == <<workerVars, chatVars, launchVars, liveVars, scope>>
vars == <<pageVars, clipVars>>

DashboardInit ==
  /\ WorkerInit /\ ChatInit /\ LaunchInit /\ LiveInit /\ ClipInit
  /\ scope \in Scopes
  /\ scope # "background" => stored.video = Off

(* Types.                                                                  *)
DashboardTypeOK ==
  /\ WorkerTypeOK /\ ChatTypeOK /\ LaunchTypeOK /\ LiveTypeOK /\ ClipTypeOK
  /\ scope \in Scopes

OnlyChat   == scope = "chat" /\ UNCHANGED <<launchVars, liveVars, clipVars, scope>>
OnlyLaunch == scope = "launches" /\ UNCHANGED <<chatVars, liveVars, clipVars, scope>>
OnlyLive   == scope = "live" /\ UNCHANGED <<chatVars, launchVars, clipVars, scope>>
OnlyClip   == scope = "background" /\ UNCHANGED pageVars
NoPage     == UNCHANGED <<chatVars, liveVars, clipVars, scope>>

-----------------------------------------------------------------------------

(* A snapshot or another page's reply is drained; cursors are clamped.     *)
DrainShown == Draining("page") /\ UNCHANGED commands /\ ClampGroups /\ NoPage

Chat ==
  \/ Press \/ Answered \/ ServeChat \/ ServeCancel
  \/ CodexEnds \/ ThreadSends \/ ThreadReturns

Launches == Browse \/ Fetch \/ ServeGroups \/ ServeOccurrences

Live ==
  \/ ChangeRate \/ LiveArrived \/ LiveRefused
  \/ ServeLive \/ Poll \/ PollLatches \/ PollReturns \/ PollFails
  \/ GrowsIdle \/ OtherAsks \/ \E g \in 1..MaxLoops : LoopStep(g)

(* Snapshots and page refreshes are delivered where draining one moves a   *)
(* cursor: in the drill-down.                                              *)
Snapshot == scope = "launches" /\ Tick(TRUE)
Refreshed == scope = "chat" /\ ServePage(<< >>)

Worker ==
  /\ \/ Reap
     \/ (Flush \/ Refreshed \/ Tick(FALSE) \/ Snapshot) /\ UNCHANGED chatVars
  /\ scope # "background" /\ UNCHANGED <<launchVars, liveVars, clipVars, scope>>

DashboardNext ==
  \/ Chat /\ OnlyChat
  \/ Launches /\ OnlyLaunch
  \/ Live /\ OnlyLive
  \/ ClipNext /\ OnlyClip
  \/ DrainShown \/ Worker

-----------------------------------------------------------------------------

Drain ==
  \/ DrainShown
  \/ Answered /\ OnlyChat
  \/ (GroupsArrived \/ GroupsFailed \/ OccurrencesArrived) /\ OnlyLaunch
  \/ (LiveArrived \/ LiveRefused) /\ OnlyLive
  \/ \E w \in Windows : DrainConversion(w) /\ OnlyClip

WorkerRuns ==
  \/ Worker
  \/ (ServeChat \/ ServeCancel) /\ OnlyChat
  \/ (ServeGroups \/ ServeOccurrences) /\ OnlyLaunch
  \/ (ServeLive \/ PollLatches \/ PollReturns) /\ OnlyLive

(* The threads are not suspended: the main loop drains and minds its       *)
(* deadlines, the worker and the conversion threads go on, Codex ends      *)
(* within its time budget, clocks advance. Nobody is obliged to press a    *)
(* key.                                                                    *)
DashboardSpec ==
  /\ DashboardInit /\ [][DashboardNext]_vars
  /\ WF_vars(Drain) /\ WF_vars(WorkerRuns)
  /\ WF_vars(Fetch /\ OnlyLaunch)
  /\ WF_vars((CodexEnds \/ ThreadSends \/ ThreadReturns) /\ OnlyChat)
  /\ WF_vars(GrowsIdle /\ OnlyLive)
  /\ \A g \in 1..MaxLoops : WF_vars(LoopStep(g) /\ OnlyLive)
  /\ \A x \in Threads : WF_clipVars(ThreadStep(x))

-----------------------------------------------------------------------------
(* A question in flight, wherever it is, finds the page waiting for it:    *)
(* there is never a second one, and its reply clears the right flag        *)
(* (the guards on analyzer_running, and the refused RunChat).              *)
InFlight ==
  LET Of(s) == {i \in DOMAIN s : s[i].kind = "chat"}
  IN  Cardinality(Of(commands)) + Cardinality(Of(outbox)) + Cardinality(Of(events))
      + (IF analyzer.does \in {"asking", "sending"} THEN 1 ELSE 0)

OneQuestionInFlight == InFlight <= IF running THEN 1 ELSE 0

(* While the rename band is open, the cursor stays on the chat it was      *)
(* opened for: commit_vault_rename asks the cursor which chat to rename,   *)
(* and a reply would move it.                                              *)
RenameAimsAtItsChat == band # NoChat => row # 0 /\ sessions[row].id = band

(* A question the analyzer has started on is answered or reported failed.  *)
RunsEnd == analyzer.does = "asking" ~> ~running

(* docs/agent-integration.md: the client validates conversation identity   *)
(* before displaying the answer.                                           *)
AnswersAreOwn == \A i \in DOMAIN sessions : ~sessions[i].strayed
=============================================================================
