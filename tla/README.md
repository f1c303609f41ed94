# PC Pulse: TLA+ models and proofs

PC Pulse is a Windows service (`src/src/PcPulse.Service`) that samples the machine every two
seconds, turns sustained trouble into incidents, records every process launch, and answers a
dashboard and a tray helper (`src/src/PcPulse.Tui`) over a named pipe. This directory holds
TLA+ modules for the parts of it whose correctness depends on order, failure and concurrency,
the TLC configurations that check them on small instances, and TLAPS proofs of the results
that hold for every instance.

Paths below are short for `src/src/PcPulse.Service/src/` unless they name another place;
`Tui:` stands for `src/src/PcPulse.Tui/src/`.

## The system

| Component | State | Operations | Talks to |
|---|---|---|---|
| Sampling loop (`runtime.rs` `sampling_loop`) | local copies: settings, evaluation, joiner, tracker, forget generation | one tick: collect, evaluate, diagnose, launches, upsert, publish, poll events, save baselines, prune | everything else; it is the only writer of most tables |
| Alert engine (`alerting.rs`) | streaks, active, guards, exit clocks, resolved and notify memory, verdict latch, growth windows | `observe_interrupts`, `evaluate`, `acknowledge`, `set_archived`, `new` | behind one mutex: the loop and the pipe thread |
| Notification policy (`quality.rs`, `ratings.rs`) | rating offsets | `score`, `decide`, `derive_offsets` | called by the engine |
| Baselines (`baselines.rs`) | observed time, anchor, sketches, names | `observe_host`, `restore`, save | engine, `baselines` table |
| Interrupt attribution (`metrics/interrupts.rs`) | per finding a ring of captures and a verdict; one kernel session | `observe`, `capture`, `decorate`, `evidence` | kernel ETW, the loop |
| Leak forensics (`metrics/forensics.rs`) | baselines and rows per finding | `observe`, `decorate` | the loop |
| Crash dumps (`metrics/dumps.rs`) | active findings, triage cache, next scan | `observe`, `scan` | file system, the loop |
| Event log (`eventlog.rs`) | poll window, memory of identities | `poll` | Windows, `diagnostic_logs` |
| Launch tracker (`launches.rs`) | pending launches, pid index, recent ring | `on_start`, `on_stop`, `observe_window`, `drain_flushable` | fed by the ETW queue, saved to `launch_events` |
| Command-line capture (`launches.rs`, `runtime.rs`) | joiner, recent launches | `offer`, `attach`, `attach_to_recent`, `clear` | a second ETW session; `launch_cmdlines` |
| ETW sessions (`etw.rs`) | two bounded channels, health counters | start, reclaim, callbacks, drop | kernel, sampling loop |
| Live telemetry (`metrics/live.rs`) | latch, slot, time of the last request | `request`, `live_loop` | pipe thread, a sampling thread of its own |
| Storage (`storage.rs`) | SQLite tables behind one mutex | upserts, prunes, queries | loop and pipe thread |
| Pipe server (`pipe.rs`) | one thread, one pipe instance | `serve`, `serve_client`, `wake` | clients; `AppState::handle` |
| Tray helper (`Tui:notifier.rs`) | `seen` pairs, `initialized` | poll every two seconds | pipe client |
| Dashboard (`Tui:app.rs`) | pages, cursors, two bounded channels | keys, clicks, `drain_events`, `worker_loop` | pipe client |
| Analyzer (`Tui:analyzer.rs`, `chat_history.rs`) | one run, the vault | `start`, `cancel`, `poll` | worker, a Codex child |
| Background video (`Tui:app.rs`, `clipconvert.rs`, `pulseclip.rs`) | setting, converter thread, cache directory | choose, convert, sweep, play | ffmpeg, other dashboards through the directory |
| Plan contexts, updater, bootstrap, installer | see *Not modelled* | | |

What interacts: **two threads of the service** share the engine, the settings, the snapshot
and the database, each under its own lock, so a tick and a request interleave between any
two of these. **The kernel** delivers launch events late, twice or not at all, and keeps a
trace session that a dead collector has left. **Storage** survives a restart and nothing else
in the service does, while **the tray** survives a restart of the service. The pipe has **one
instance**, so clients queue up behind each other, and the stop of the service is itself a
client of it. **The dashboard** is an interface thread that must not block, a worker that
does, and a thread per question and per conversion; they meet in bounded channels, and the
interface goes on accepting keys while a reply is under way.

What makes each part correct:

* *Engine.* An incident is opened only by a run of breaches as long as the settings ask for
  and closed only after its hold; it keeps its identity over a quiet-period reopen; a
  notification generation moves only past one the user was told about.
* *Delivery.* Engine, table and snapshot agree between ticks; what the tray remembers is
  durable; user decisions reach the snapshot.
* *Diagnostics.* Evidence is that of the finding it is shown with and outlives its
  resolution; a capture leaves no kernel trace behind; a verdict does not swing; no event is
  lost without a word; learning is observed time.
* *Command lines.* What was wiped never comes back; what capture held is gone once it is off.
* *Launches.* A row is closed by its own exit; rows only move from running to final; nothing
  is pending for ever.
* *Pipe.* Everybody connected is answered unless the service stops, and it does stop.
* *Live channel.* One sampling thread at most, none when nobody asks, no stale sample.
* *Dashboard.* One question in flight and its end noticed; keys act on what the cursor was
  on; a drill-down belongs to the row under the cursor and is loaded in the end; a background
  is played, on its way, or explained.

## Modules

| Module | Models | Extended or used by |
|---|---|---|
| `IncidentLedger` | abstract: what the engine promises downstream | `IncidentEngine` (refinement), `AlertService` (instance) |
| `IncidentEngine` | `AlertEngine` reconciliation, scoring terms and `quality::decide` | `IncidentEngineProofs`, `MCIncidentEngine` |
| `AlertService` | loop, table, snapshot, mark requests, tray, restart | `AlertServiceProofs`, `MCAlertService` |
| `CommandLineCapture` | the capture pipeline and `deleteCommandLines` | `CommandLineCaptureProofs`, `MCCommandLineCapture` |
| `LaunchTracker` | ETW queue, tracker, `launch_events` | `LaunchTrackerProofs`, `MCLaunchTracker` |
| `PipeServer` | pipe thread, clients, shutdown of `run()` | `PipeServerProofs`, `MCPipeServer` |
| `RootCause` | `metrics/interrupts.rs` | `Diagnostics` |
| `Forensics`, `CrashDumps` | `metrics/forensics.rs`, `metrics/dumps.rs` | `Diagnostics` |
| `Diagnostics` | a pass of the loop over the three engines, table, snapshot, archive, crash | `SamplingPass` |
| `EventLog`, `Learning` | `eventlog.rs` with its table; observed time of `baselines.rs` | `SamplingPass` |
| `SamplingPass` | the composition of the last three | `SamplingPassProofs`, `MCSamplingPass` |
| `ClientWorker` | channels and `worker_loop` of the dashboard | the page modules |
| `ChatPane`, `LaunchPane`, `LiveChannel` | a page each, with the arms of the worker that serve it | `Dashboard` |
| `BackgroundClip` | background video, conversion threads, cache directory | `Dashboard` |
| `Dashboard` | the composition of the last five | `BackgroundClipProofs`, which `DashboardProofs` builds on, `MCDashboard` |

`PROJECT.json` maps every definition to the lines it stands for. A definition that no action
uses and whose comment begins with what it would be without something (`PushAll`,
`RequestForgetting`, `TellWaits`) is a variant of the one beside it, kept to show that a
property notices the difference.

**IncidentEngine.** One action `Evaluate` is `observe_interrupts` and `evaluate` under their
one lock: every `Next...` operator gives one field of `AlertEngine` after it. A detector's
reading is abstracted to what reconciliation asks of it: `breach`; `loud` or `quiet` (above or
below the exit threshold); `gone` (no reading); `climbing` or `recovered` (the growth
window's fate). Timestamps are ages in sample intervals, capped where no comparison can see
further (`SinceCap`, `QuietCap`). Confidence is an input; persistence is computed, since it
is what the floors of a reopened incident wait for. Learning and `sustained_samples` may
change between any two samples. `run`, `calm`, `announced` and `told` are history.
`Restart` takes the engine's own view of what was open; that the table may lag behind it is
the subject of `AlertService`.

**IncidentLedger.** Per fingerprint: nothing, mint, reopen, update or close. It is both the
specification `IncidentEngine` implements and the engine inside `AlertService`, which
therefore talks about any engine that keeps the ledger's promises. A service restart closes
all open incidents at once and drops what the quiet period has outrun; in the ledger these
are `Closes` and `Stays` of the different keys in one `Evaluate`.

**AlertService.** The tick is three steps (`Evaluate`, `Upsert`, `Publish`) because these are
the moments at which the pipe thread can interleave; a mark request is `MarkEngine`,
`MarkStore` (or `MarkFails`) and `MarkSnapshot` for the same reason. `Poll` is one snapshot
request, served between two other requests because there is one pipe instance. `Restart`
may happen in any state and stands for a crash, a fatal `?` in the loop and a normal stop.

**CommandLineCapture.** The points of a tick are where the loop reads the settings, the ETW
queue or the forget counter, or writes the database. A line is identified with the launch
it describes; what matching by pid and time window could confuse is not modelled. `Covered`
names the lines a wipe promises to forget: those on disk, in the joiner, and in a batch that
has not passed its second check. Lines still in the kernel's buffers or the channel at the
moment of a wipe are filed later, in the model as in the code.

**LaunchTracker.** A launch is a number in start order and stands for the `(pid, start time)`
key. Stop events carry only the pid. The age of a launch is one of three classes, the two
thresholds of `drain_flushable`. `Queued` and `Dropped` are what happens to an event on its
way, and `StartRepeats` delivers the start of a launch once more at any time: behind its
original, with the stop queued, or when the row is long saved. `on_start` cannot tell these
apart; the model gives a repeat after the exit the kind `again`, and `Late` names the launches
that had one, because the code's pending check (`launches.rs:343`) stops a repeat only until
the row is handed over. `ExitIsOwn` and the first half of `RowsOnlyAdvance` exempt exactly
these launches. Lineage, paths and `startsSeen` are left out.

**PipeServer.** The server's program counter follows `serve` line by line; `instance` is the
one pipe instance and who has its other end. `Wake` is a client that opens and closes at
once. Requests have no content here.

**RootCause.** `Observe` is the pass up to the capture: `Retain` with its grace pass, then
nothing open, not due, or due. The capture is a step per call into Windows, since each has an
error return of its own that must undo what the earlier ones did: session refused, trace
refused, consumer not spawned, join failed. `StopSession` is asked once and may be refused, as
it is when another tool has stopped the session already: on the two error paths before the
trace nobody looks at the status, after the window it is looked at behind the join. `kernel`
tells a session still ours to stop from an orphan, one left by a crash or by a refused stop,
which the next start stops by name. `Blocked` is the join on an orphan (see *Known
divergences*). A trace is the share each driver has
of it; `Rebuild` is `rebuild_rows`, and the modal driver, the confidence above Low and the
`SettledOn` gate are computed, not chosen. High against Medium, the correlation with other
activity and the wording of rows are left out.

**Forensics, CrashDumps.** `Capture` is `observe` whole, with one enumeration for all handle
findings and a thread list per process, each of which may fail. `opening` is history: which
of its openings a finding is in. A dump is a path and a stamp; the file system writes,
deletes and ages files between passes.

**Diagnostics.** A pass is `BeginPass` (detectors, forensics, interrupts), the steps of a
capture, and `EndPass` (dumps, `upsert_alerts`, snapshot). `ArchiveDump` is the request for a
finding the alert engine does not hold. `CrashAndRestart` may happen at any point and keeps
only the table.

**EventLog, Learning.** Time is counted in polls and in sampling intervals. A poll may fail,
hit the cap, meet malformed events, and have its batch refused by storage after the
identities were remembered. `reported`, `slept`, `watched`, `unsaved`, `lost` and `sleeps` are
history. A machine sleeps, a service stops or crashes, for long or short.

**SamplingPass.** Findings, events and learning share the thread and nothing else, so a
behaviour follows one of them (`scope`); so do the three engines, whose findings have
different keys. This keeps the composition's state space a sum instead of a product.

**ClientWorker.** `TrySend` loses a command when the channel is full, `Flush` waits for room.
`Serve` is an arm of the select: it takes a command and leaves its replies in the `outbox`,
which is sent before the worker goes round. A pipe call is one step with any outcome.

**ChatPane.** One action per key or click of the page, with the guards of its handler.
`Persist` is `persist_current_chat`, whose failing save leaves the cursor; `OthersThan` is what
`upsert` does not replace. `strayed` is
history: the transcript holds an answer to another conversation's question. The thread is
`asking` until Codex ends by answer, failure, cancel or time budget, then `sending`,
`returning` and `finished`, until `Reap` joins it.

**LaunchPane.** `SyncTo` is `sync_launch_occurrences`: a moved selection drops the rows and
arms the settle window, a refused command re-arms it. Every `groups` reply may rank the groups
anew.

**LiveChannel.** `request` is three steps (stamp, latch, read), `live_loop` five, so that a
request can fall between the idle decision, the clearing of the slot and the release of the
latch. The dashboard's side is the worker's poll, the refusal it remembers, and the tail the
page shows.

**BackgroundClip.** A conversion thread is let go of by raising its flag and dropping its
receiver, which is what frees one that waits for room. `restore_background`,
`start_background_conversion` and the sweep are operators shared by the keys that call them.
Every way the file system can disappoint (unreadable directory, broken cache, vanished
scratch file, a thread that does not start) is a disjunct. Several windows share `stored`,
`cached` and `scratch`.

**Dashboard.** The pages share the channels and the worker and nothing else, so a behaviour
uses one page (`scope`). Snapshots and page refreshes are delivered where draining one moves
a cursor.

## Runs

All runs finish within two minutes with two workers.

| Run | Instance | Shows |
|---|---|---|
| `capture` | 2 launches, 1 wipe per service run; 239k states | `ForgottenStaysForgotten`, `LateLinesHaveRows`, `OffDrainsEverything` |
| `growth` | 1 growth key, windows {2,3}, quiet period 3, 2 ids, 1 renotification; 58k states | `ClosedKeysStartOver`, `OpensSustained`, `HoldServed`, refinement of the ledger |
| `dpc` | the DPC key, floors raised by 0.15, 2 ids, 2 renotifications; 12k states | refinement with the verdict latch and the veto |
| `delivery` | 1 key: two incidents, or one renotified twice; 231k states | `TypeOK`, `IdleAgrees`, `SeenIsDurable`, `MarksAreShown`, `NotifiableIsSeen` |
| `launches` | 2 launches of 1 pid, queue of 2, 1 row, 1 lost event, 1 repeated start; 253k states | `TypeOK`, `ExitIsOwn`, `StopsAddUp`, `RowsOnlyAdvance`, `NothingPendingForever` |
| `pipe` | 2 clients, one polling; 220 states | `CutOnlyByStop`, `ConnectedReturns`, `StopCompletes` |
| `sampling` | 3 drivers of 2 families, 3 traces, ring of 4; a handle and a thread finding; a dump written twice; 3 events, cap 2, memory 1; learning period 6; 1 crash; 78k states | `NothingLeftRunning`, `NoSwinging`, `CaptureReturns`, `BaselinesAreOwn`, `TableAgreesWithSnapshot`, `ResolvesWithEvidence`, `NothingLostSilently`, `LearnedIsObserved` |
| `dashboard` | channels of one; 2 conversations; 2 launch groups, one of a console; 2 live rates, 2 loops; 1 window, 2 videos, 2 conversion threads; 107k states | `OneQuestionInFlight`, `RenameAimsAtItsChat`, `RunsEnd`, `OccurrencesAreSelected`, `SelectionLoads`, `OneLoopServes`, `LiveStops`, `BackgroundExplained`, `SupersededEnd` |

Four runs are expected to find a violation; each states a sentence of the repository that
the code does not live up to, and PROJECT.json's findings quote it:

| Run | Sentence | What happens |
|---|---|---|
| `escalation_silent` | `quality.rs:436` | an escalation after a suppression keeps a pair the tray has seen |
| `stop_unpolled` | `docs/protocol.md:3` | a lost wake-up holds the stop until some client connects |
| `dump_archive_lost` | `docs/detectors.md:29` | the next scan writes an archived dump finding back unarchived (`metrics/dumps.rs:200`) |
| `answer_misfiled` | `docs/agent-integration.md:8` | Enter in the focused vault changes the conversation under a question, and its answer is saved there (`Tui:app.rs:1796`) |

**Bounds.** Fingerprints never interact inside the engine or the table except through the
DPC latch, so one key shows what a key can go through; `MaxIds = 2` allows the first
incident, a reopened one and a fresh one; `MaxGen` bounds how often a pair moves. An identity
is what a row is filed under and a generation is part of its content, so `MCAlertService`
explores two of the first or two of the second (`story`) and not their product. Windows 2
and 3 include the smallest value the settings accept and a change under an open incident.
A quiet period of 3 with steps of 1 and 4 intervals reaches both sides of its boundary.
Two launches are the fewest with a reused pid, and with one lost event and a queue of two
every loss that can confuse two lives of a pid happens; two pids share only the queue and the
row cap, so one shows what a pid can go through, and one repeated start comes at any time and
for either launch. One wipe per service run is
enough to reach every check before and after it, and a crash resets the counter so several
wipes occur in a behaviour. In `sampling` a ring of four with three traces is the shortest in
which a majority can be won, tied and lost again; two drivers of one family tell driver from
family; two stamps of one path give an overwritten dump; a nap of 2 stays inside one
look-back and leaves the other, and one of 5 leaves both; gaps of 1 and 4 lie on both sides
of the longest step that is credited. In `dashboard` channels of one are full as soon as
anything is under way, which is the case the code's refusals and re-arming are for; two of
anything are the fewest a reply can be misdirected between. `MaxChats`, `MaxLoops`, `Slots`,
`MaxStamp`, `MaxCrashes`, `MaxRecord`, `MaxWatched` and `MaxGaps` only end behaviours. The
proofs below do not depend on any bound.

**Fairness.** The sampling thread keeps ticking (`WF` of `Loop`; of `Begin`, `End` and
`DuringCapture` in `SamplingSpec`): it waits at most one interval between ticks and every call
in it returns, the consumer of a stopped trace session included; a join on a session that goes
on is not a step of the model, and nothing is assumed of it. A request that has begun is
finished (`WF` of `Handler`, `Serve`): handlers only take short locks. The tray polls every
two seconds (`WF` of `Poll`), and because it needs the pipe free, `NotifiableIsSeen` is stated
for when clients stop keeping it busy. `LaunchTracker` assumes of the clock that it goes on
between ticks (`SF` of `Clock`, which a tick disables again and again). `PipeServer.Spec`
assumes only threads that run and clients that go through with a request once
connected; `PolledSpec` adds one client that keeps asking, as the tray helper does while it
runs, and the two runs of `StopCompletes` show that the stop depends on it. `DashboardSpec`
assumes that the main loop drains events and minds its deadlines, that the worker goes round,
that Codex ends within its time budget (`wait_for_codex` kills it then), that clocks advance
and that live and conversion threads run. Nothing is assumed of the user, who need never
press a key, of losses, failures or crashes. `pipe` and `stop_unpolled` do not check
deadlock, because the service ends there; nor do `dashboard` and `answer_misfiled`, because a
dashboard at rest in a scope without a clock has nothing to do until a key is pressed, and
bounded conversations and loops run out.

## Proofs

Each theorem holds for every value of the constants that satisfies the named `ASSUME`s of
the modules, which are as weak as the types of the constants: that a bound is a number, that
the mark for no pid is not a pid, that `Off` is not the path of a video, and for `NoSwinging`
a ring of even length (`CAPTURE_HISTORY` is eight). Every invariant that a run checks is proved
here, and every invariant used for it was checked by TLC before it was proved.

| Theorem | Statement | Argument |
|---|---|---|
| `CommandLineCaptureProofs!TypeCorrect` | `[]TypeOK` | `TypeOK` is inductive: it contains that a line is in one place at a time, which each move of a line needs |
| `ForgetsForGood` | `[]ForgottenStaysForgotten` | `ForgetInv`: no forgotten line is upstream of the joiner or on disk; while loop and pipe thread agree on the counter none is in the joiner or the batch; past the second check none is in the batch whatever the counter says. A bump breaks the agreement exactly when it makes lines forgotten, and a check restores it by clearing |
| `LateLinesGoToRows` | `[]LateLinesHaveRows` | inductive: `recent` grows only with rows just saved, and `rows` never shrinks |
| `OffMeansEmpty` | `[]OffTickHoldsNothing` | `SessionInv`: without a session nothing is held, wherever the tick is; the toggle can therefore rely on `cmdline_session.take()` alone |
| `OffStays` | `OffStaysEmpty` | the stable half of `OffDrainsEverything`: step by step; it needs that a tick uses its own copy of the setting to its end |
| `IncidentEngineProofs!EngineTypes` | `[]TypeOK` | from `Inductive`, which adds to the types, for each key: closed keys start over, a running exit clock is no longer than the calm that was really seen, and the latch and memories describe the same incident |
| `ClosedStartOver`, `OpensOnlySustained`, `HoldAlwaysServed` | the properties of run `growth` | from `Inductive`; the action properties follow step by step, `Restart` by its history reset |
| `ImplementsLedger` | `Spec => LedgerSpec` | under the refinement mapping of `IncidentEngine`, each key's `Evaluate` is one of the ledger's five steps; a bump needs that the previous notification was told, which the invariant's beliefs give for open and for reopened incidents; `UpdateSettings` and `LearningEnds` stutter |
| `PipeServerProofs!PipeTypes`, `OnlyAStopCuts` | `[]TypeOK`, `[]CutOnlyByStop` | `InstanceFits` relates the server's point to the instance, so `CloseInstance` can only meet a client once the flag is up |
| `LaunchTrackerProofs!TrackerTypes` | `[]TypeOK` | `LaunchInv`, in five parts. `KernelInv`: launches start in the order of their numbers and a pid runs its newest. `QueueInv`: the events of one pid wait in the order in which they happened (`InOrder`), and the exit of a tracked launch is still to come, queued, or lost (`Ends`). `TrackerInv`: nothing later of a pid has been seen than what is tracked or queued (`Ahead`). `RowsInv`: a launch that is closed or final has no start left in the queue that could bring it back, unless it is `Late` |
| `ExitOwn` | `[]ExitIsOwn` | `MayClose` in `LaunchInv` carries the evidence: when the tracker closes a launch by the exit of a later one, everything of that pid in between was lost, and what is lost stays lost, so the saved row still has it. Order alone does not give this; it needs `Ahead`, since a repeated start also moves the index. A start repeated after the exit of its launch can bring anything back, so the evidence is kept for the launches without one (`Over`, `Late`), and that another launch was late takes nothing from it |
| `StopsCounted` | `[]StopsAddUp` | in `LaunchInv`: each counted stop is an orphan, a row handed over, or one closed launch still pending; a flush moves one from the third to the second |
| `OnlyAdvance` | `RowsOnlyAdvance` | a final row has left the tracker, and by `RowsInv` no queued start can track it again, unless one came again after the exit, when the launch is `Late` and stays so; the cap deletes the oldest row and changes none. The half about the running snapshot has no exception |
| `SamplingPassProofs!SamplingLeavesNothing` | `[]NothingLeftRunning` | `NothingLeft`: `CaptureInv` ties the session and the handle to the point the thread has reached; every return closes the handle and asks for the stop, and a session that survives the asking is an orphan like one a crash left |
| `SamplingOpenFindingsSpeak` | `[]OnlyOpenFindingsSpeak` | `GraceInv`: the property with stale entries among those that exist; `Retain` keeps open and stale apart |
| `SamplingDoesNotSwing` | `NoSwinging` | `VerdictInv`: the family a verdict names holds a strict majority of its ring. A change names another family, and one more trace raises that family's count by one at the most, which does not make a majority of an even ring that the first family held |
| `SamplingLosesNothingSilently` | `[]NothingLostSilently` | `EventLogInv` adds to the property that what is remembered is stored or reported, and that once a poll is done every event older than it is accounted for, so half a minute brings nothing unaccounted past the look-back; a poll that is not truncated examines all in sight |
| `LearningIsObservation` | `[]LearnedIsObserved` | `LearningInv`: the same two bounds for the row in the table, which a crash falls back to |
| `BaselinesBelong` | `[]BaselinesAreOwn` | `GrowthInv`: held baselines are those of open findings, and only a finding that is not open gets a new opening |
| `TableAgrees` | `[]TableAgreesWithSnapshot` | `TableInv`: outside the changed set the table already agrees with what the detectors hold; `EndPass` writes the changed set |
| `ResolutionKeepsEvidence` | `ResolvesWithEvidence` | `EvidenceInv`: what is displayed with rows has rows in its engine, and is open or among the changed; with `RowsInv` (stale rows are not those of open findings) they last until the pass that writes it back |
| `SamplingTypes` | `[]SamplingTypeOK` | `TypesInv`, a part per engine, over the invariants above. The types do not carry themselves: that a triaged dump has a stamp needs that a file the scan finds was written, that the rows of a finding which ends are rows needs `EvidenceInv`, that observed time is a number after a crash needs the same of the row it falls back to |
| `DashboardProofs!OneLoop` | `[]OneLoopServes` | `LoopInv` adds that a loop that has not begun, or is about to release the latch, has left the slot empty |
| `TailWanted` | `[]TailIsWanted` | inductive |
| `OneQuestion` | `[]OneQuestionInFlight` | `QuestionInv`: the chat messages of the three queues and a busy thread, counted, are at most one, and none when the page is not waiting. Lemmas give what `Append`, `Tail` and concatenation do to the count |
| `RenameAims` | `[]RenameAimsAtItsChat` | while the band is open the page is not waiting, so by `QuestionInv` no reply can re-sort the vault |
| `OccurrencesSelected` | `[]OccurrencesAreSelected` | `PaneInv`: the group the pane waits for is the row under the cursor, and its rows and key are that or none; `Replies` adds that only replies that carry lists travel as such |
| `SelectionAttended` | `[]SelectionIsAttended` | the safe half of `SelectionLoads`. `AttendInv` over `PaneInv`: a message about a group stays on the three channels until it is taken (`Carried`), and none is about no group. A reply that is dropped is for a group the pane no longer asks for, since `key` is the selected group or none |
| `DashboardTypes` | `[]DashboardTypeOK` | `TypesInv` over `QuestionInv`, `Replies`, `PaneInv`, `LoopInv` and `ClipTypes`. Every step sends only into room and takes only from the front (`CommandStep`, `EventStep`), and a rate on its way to the worker is one that can be chosen. `PersistKeepsVault`: replacing a session, moving it to the front and cutting the list leaves one session of a chat and never a shorter list, so a cursor that stays is still on a row |
| `AlertServiceProofs!ServiceTypes`, `IdleAgreement`, `SeenDurable` | `[]TypeOK`, `[]IdleAgrees`, `[]SeenIsDurable` | `ServiceInv`: for each fingerprint the table either agrees with the engine (`Settled`) or the batch holds the row that makes it agree (`Settling`), the five ledger steps lead from the first to the one or the other and `Upsert` back. `Identified` keeps identities from being reused, also by a restart, which seeds the engine with the newest row; rows never vanish and generations never fall, so what is durable stays so |
| `BackgroundClipProofs!BackgroundIsExplained` | `[]BackgroundExplained` | `ClipInv`: the conversion a window holds is of what it is set to, its own and not cancelled; no step of another window or thread touches it. Any number of windows |
| `ClipTypes` | `[]ClipTypeOK` | from `ClipInv`; a thread sends only into room, and letting go, starting and quitting leave channels as they were or empty |

Only model-checked: what holds under fairness (`OffDrainsEverything`, `MarksAreShown`,
`NotifiableIsSeen`, `NothingPendingForever`, `ConnectedReturns`, `StopCompletes`,
`CaptureReturns`, `RunsEnd`, `SelectionLoads`, `LiveStops`, `SupersededEnd`), since the prover
has neither `ENABLED` nor liveness rules for it; the safe half of two of them is proved
(`OffStays`, `SelectionAttended`). Runs check one dashboard window at a time; that several do
not break `BackgroundExplained` is proved.

## Known divergences without a run

Disagreements between code and comments, or states the code can be left in, met while
modelling and described here only.

* A command line can be filed although the save of its row failed (`runtime.rs:1196` against
  1256-1291), and a wipe between the second check and the inserts leaves lines (1256, which
  the comment accepts).
* A mark is overwritten by a stale upsert until an evaluation touches the incident
  (`alerting.rs:1705`, `runtime.rs:1351`).
* A start event repeated after its launch was handed over is a new launch to `on_start`, whose
  comment has duplicates ignored "rather than ... resurrect an already-finalized row"
  (`launches.rs:343-347`). The running snapshot replaces the final row
  (`storage.rs:666-680`); the row stays "running" when the tracker lets go of it after a day,
  or is closed with the exit of a later process of the same pid.
* A stop of the interrupt session that fails leaves it running under its name until the next
  capture, against "every error path tears the session down deterministically"
  (`metrics/interrupts.rs:1300`). At the end of a window the status is looked at only behind
  `consumer.join()` (1483-1492), which has no bound: the sampling thread waits until somebody
  else stops the session. `CaptureReturns` names this state, and it is the only exception.
* A pipe that cannot be created ends `serve` (`pipe.rs:71`): the service samples on with nobody
  to talk to until it is restarted, and a log line says so.
* The sweep of windows comes after the drain has fixed the window state (`runtime.rs:1145`).
* `forensics.rs` retries a failing first enumeration on every sample; `docs/detectors.md:38`
  speaks of a minute.
* At `NAME_CAP` the baselines forget a name (`baselines.rs:348`), and `save_baselines` never
  deletes evicted rows.
* Event log: `events_stored` counts before storage accepts; a refusal after the identities
  were remembered loses the batch, with an error noted; a failed first poll ends the
  fifteen-minute look-back; a suspension over two minutes loses events nobody polled.
* A question asked while the finished thread is not yet joined is dropped and the page waits
  (`Tui:app.rs:1143`); `RunsEnd` is therefore stated from the moment the thread has begun.
* Quitting joins a worker that may be blocked on a full event channel (`Tui:app.rs:1036`).
* A live rate lost on a full channel is not sent again (`Tui:app.rs:3619`), and a reply to a
  settings change overwrites later local edits (1819).
* With update checks switched off, `u` still downloads an update that was found before
  (`Tui:app.rs:2188` does not ask the preference), against the repository's `README.md:149`.
  A check or a download whose thread cannot be spawned reports nothing, and the page stays
  at "downloading" (`Tui:app.rs:1243-1274`). Two dashboards download to the same file.
* Another window's sweep can delete the scratch file or the clip a conversion needs
  (`Tui:clipconvert.rs:270`), although `pulseclip.rs` keeps the names apart for two windows;
  the outcome is an error message, which `BackgroundExplained` allows. A conversion thread
  that fails to spawn leaves its window waiting, so that choosing the same video is ignored.

## Not modelled

* In `Learning`, a clock set back between two samples, which credits nothing, and a store of an
  older release with sketches of many samples. The row of a store saved after one sample is
  modelled, because it reads the same.
* The detectors, the growth windows, sketches and name statistics of the baselines, the
  novelty and corroboration scores, `derive_offsets` and the ratings store: floating-point
  data that no property here distinguishes.
* Lineage, path mapping and launch grouping; matching of command lines by time window.
* The tray's offline and reconnect balloons and its `SEEN_CAP` eviction; two trays, which the
  single-instance comment of `Tui:bootstrap.rs:332` does not prevent.
* Housekeeping prunes: retention of the alerts table can delete the row of an incident that
  is open but untouched.
* Metric collection, trace decoding, dump headers, event classification, redaction and DPAPI:
  Win32 calls and data, inputs that may fail where a model uses them.
* Plan contexts and analysis: one push and one lookup under a lock, and a report.
* The other pages and the drawing of the dashboard (`Tui:ui.rs` and most of `app.rs`):
  layout, animation and forms over state held elsewhere; the worker's arms for settings,
  actions, ratings and updates; quitting. The vault's file, the Codex child and the repair of
  its answers; frames, probing and playback timing of the background video.
* Updater, bootstrap, installer, scripts and agent packs: sequential and outside the
  program's own state. Most of the repository's lines are in this group and the previous two,
  which together with the unit tests inside the source files (two lines in five) is why the map
  covers the part of the implementation it does.

## Plan

Done: the modules above, their runs, and the proofs listed.

1. Proofs: the safety half of the remaining liveness properties, each with the measure that
   falls: a queue drained, a thread that is let go of.
2. The remaining keys of the dashboard that race with replies: the termination prompt against a
   refreshed process list, the update prompt and its download on the worker, settings edits
   against their replies, and quitting.
3. `AlertService` extended by the retention prune and the tray's `SEEN_CAP`; `LaunchTracker` by
   lineage and by sessions that restart under the loss counters.
4. `PlanContexts` (32 issued contexts, 24 hours) and the baselines' names as bounded stores;
   `derive_offsets` and `decide` against a reference definition.
