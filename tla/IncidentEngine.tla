--------------------------- MODULE IncidentEngine ---------------------------
(***************************************************************************)
(* AlertEngine::evaluate, from the candidates of a sample to the incidents *)
(* it leaves open: streaks, hysteresis, quiet-period reopen, scoring and   *)
(* the notification policy of quality.rs.                                  *)
(*                                                                         *)
(* A detector's reading is abstracted to what reconciliation asks of it:   *)
(* whether it breached, sits above or below its exit threshold, is absent, *)
(* or carries a growth window that keeps the incident open ("climbing") or *)
(* closes it ("recovered").  Time is counted in sample intervals and kept  *)
(* as ages that stop growing where no comparison can tell them apart.      *)
(* Confidence and the rating offset are percentages.                       *)
(***************************************************************************)
EXTENDS Integers

CONSTANTS
  Keys,        \* fingerprints
  Guarded,     \* those of value-shaped detectors (Candidate::with_entry)
  Growth,      \* those with a growth window (handleGrowth, threadGrowth)
  Attributed,  \* DPC_KEY, or empty
  Bands,       \* severities each detector can report
  Windows,     \* values settings.sustained_samples takes
  MaxWindow,   \* the largest one Settings::validate accepts
  Quiet,       \* QUIET_PERIOD_MS, in intervals
  Elapsed,     \* intervals that may pass between two evaluations
  Scores,      \* confidence and rating offset an incident may be scored with
  MaxIds,      \* bound: incidents minted per fingerprint
  MaxGen       \* bound: notification generations per incident

ASSUME EngineConstants ==
  /\ Growth \subseteq Guarded /\ Attributed \subseteq Guarded
  /\ Guarded \subseteq Keys
  /\ MaxWindow \in Nat /\ Windows \subseteq 2..MaxWindow
  /\ \A k \in Keys : Bands[k] \subseteq {0, 1, 2}
  /\ Quiet \in Nat /\ MaxIds \in Nat /\ MaxGen \in Nat
  /\ Elapsed \subseteq Nat \ {0}
  /\ \A s \in Scores : s.confidence \in 0..100 /\ s.offset \in -15..15

VARIABLES
  required,   \* settings.sustained_samples
  learning,   \* calibration.learning
  streaks,    \* consecutive breaching samples, kept while open
  since,      \* calibrations: age of the current run of breaches
  window,     \* calibrations: sustained window of the last candidate
  reopenedFrom, \* calibrations: severity a reopened incident resolved at
  guards,     \* hold of the exit guard
  belowFor,   \* below_exit_since, as an age
  active,     \* the open incident of each key
  resolvedMemory, \* the incident a refire inside the quiet period continues
  notifyMemory,   \* generation and age of the last authorised notification
  lastVerdict,    \* last_verdict_change
  pendingVerdict, \* pending_verdict_change
  minted,     \* Uuid::new_v4 calls per key
  told,       \* history: <<key, id, generation>> that left with notify set
  run,        \* history: unbroken breaching samples, open or not
  calm,       \* history: age of the evidence that the condition is over
  announced   \* history: severity at which the current pair was first told

policyVars == <<required, learning>>
keyVars    == <<streaks, since, window, reopenedFrom, guards, belowFor, active,
                resolvedMemory, notifyMemory>>
latchVars  == <<lastVerdict, pendingVerdict>>
historyVars == <<told, run, calm, announced>>
vars       == <<policyVars, keyVars, latchVars, minted, historyVars>>

Info == 0
Warning == 1
Critical == 2
Severities == {Info, Warning, Critical}

None     == -1
Closed   == [n |-> 0, severity |-> Info, notify |-> FALSE, gen |-> 0]
NoMemory == [n |-> 0, severity |-> Info, gen |-> 0, age |-> 0]
NeverNotified == [gen |-> None, age |-> 0]

(* Ages are compared with a hold, with three windows and with the quiet    *)
(* period; beyond those an age says nothing more.                          *)
SinceCap  == 3 * MaxWindow
QuietCap  == Quiet + 1
Aged(age, d, cap) == IF age + d > cap THEN cap ELSE age + d

Verdicts  == {"none", "change1", "change2"}
Incidents == [n : 1..MaxIds, severity : Severities, notify : BOOLEAN, gen : 0..MaxGen]
Memories  == [n : 1..MaxIds, severity : Severities, gen : 0..MaxGen, age : 0..Quiet]
Notified  == [gen : 0..MaxGen, age : 0..QuietCap]

TypeOK ==
  /\ required \in Windows /\ learning \in BOOLEAN
  /\ streaks \in [Keys -> 0..MaxWindow]
  /\ since \in [Keys -> 0..SinceCap]
  /\ window \in [Keys -> Windows \cup {0}]
  /\ reopenedFrom \in [Keys -> Severities \cup {None}]
  /\ guards \in [Keys -> Windows \cup {0}]
  /\ belowFor \in [Keys -> 0..MaxWindow \cup {None}]
  /\ active \in [Keys -> Incidents \cup {Closed}]
  /\ resolvedMemory \in [Keys -> Memories \cup {NoMemory}]
  /\ notifyMemory \in [Keys -> Notified \cup {NeverNotified}]
  /\ lastVerdict \in Verdicts /\ pendingVerdict \in BOOLEAN
  /\ minted \in [Keys -> 0..MaxIds]
  /\ told \subseteq Keys \X (1..MaxIds) \X (0..MaxGen)
  /\ run \in [Keys -> 0..MaxWindow]
  /\ calm \in [Keys -> 0..MaxWindow \cup {None}]
  /\ announced \in [Keys -> Severities \cup {None}]

Init ==
  /\ required \in Windows /\ learning \in BOOLEAN
  /\ streaks = [k \in Keys |-> 0] /\ since = [k \in Keys |-> 0]
  /\ window = [k \in Keys |-> 0] /\ reopenedFrom = [k \in Keys |-> None]
  /\ guards = [k \in Keys |-> 0] /\ belowFor = [k \in Keys |-> None]
  /\ active = [k \in Keys |-> Closed]
  /\ resolvedMemory = [k \in Keys |-> NoMemory]
  /\ notifyMemory = [k \in Keys |-> NeverNotified]
  /\ lastVerdict = "none" /\ pendingVerdict = FALSE
  /\ minted = [k \in Keys |-> 0] /\ told = {}
  /\ run = [k \in Keys |-> 0] /\ calm = [k \in Keys |-> None]
  /\ announced = [k \in Keys |-> None]

-----------------------------------------------------------------------------
(* One sample of one detector.                                             *)

Absent(k) == {"gone"} \cup (IF k \in Guarded THEN {"loud", "quiet"} ELSE {})
                      \cup (IF k \in Growth THEN {"climbing", "recovered"} ELSE {})

(* What the sample says, how it would be scored, and whether the evidence  *)
(* bar of the DPC detector is met (other detectors have none).             *)
Samples(k) ==
  [sees : {"breach"}, severity : Bands[k], score : Scores,
   barMet : IF k \in Attributed THEN BOOLEAN ELSE {TRUE}]
  \cup
  [sees : Absent(k), severity : {Info}, score : Scores,
   barMet : IF k \in Attributed THEN BOOLEAN ELSE {TRUE}]

Open(k)     == active[k] # Closed
Breach(x)   == x.sees = "breach"
Streak(k)   == Aged(streaks[k], 1, MaxWindow)
Sustained(k, x) == Breach(x) /\ Streak(k) >= required
Opens(k, x)     == Sustained(k, x) /\ ~Open(k)

(* condition_cleared: the exit clock of an open incident whose reading is  *)
(* under its exit threshold.                                               *)
ExitClock(k, d) == IF belowFor[k] = None THEN 0 ELSE Aged(belowFor[k], d, MaxWindow)

Clears(k, x, d) ==
  \/ x.sees \in {"gone", "recovered"}
  \/ x.sees \in {"loud", "quiet"} /\ guards[k] = 0
  \/ x.sees = "quiet" /\ ExitClock(k, d) >= guards[k]

Closes(k, x, d)  == Open(k) /\ ~Breach(x) /\ Clears(k, x, d)
OpenAfter(k, x, d) == (Open(k) /\ ~Closes(k, x, d)) \/ Opens(k, x)

(* A build whose window leaves the exit clock running.                     *)
NextBelowKeepsClock(k, x, d) ==
  IF Open(k) /\ x.sees \in {"quiet", "climbing"} /\ guards[k] # 0 /\ ~Closes(k, x, d)
  THEN ExitClock(k, d) ELSE None

(* The exit clock restarts on a breach, on a reading over the threshold,   *)
(* and when the growth window keeps the incident open against it.          *)
NextBelow(k, x, d) ==
  IF Open(k) /\ x.sees = "quiet" /\ guards[k] # 0 /\ ~Closes(k, x, d)
  THEN ExitClock(k, d) ELSE None

(* A build that never drops a streak.                                      *)
NextStreakSticky(k, x, d) == IF Breach(x) THEN Streak(k) ELSE streaks[k]

(* Streaks and scoring terms live while the key breaches or stays open.    *)
NextStreak(k, x, d) ==
  IF Breach(x) THEN Streak(k) ELSE IF OpenAfter(k, x, d) THEN streaks[k] ELSE 0

NextSince(k, x, d) ==
  IF Breach(x) /\ streaks[k] = 0 THEN 0
  ELSE IF Breach(x) \/ OpenAfter(k, x, d) THEN Aged(since[k], d, SinceCap) ELSE 0

NextWindow(k, x, d) ==
  IF Breach(x) THEN required ELSE IF OpenAfter(k, x, d) THEN window[k] ELSE 0

NextGuard(k, x, d) ==
  IF Sustained(k, x) THEN (IF k \in Guarded THEN required ELSE 0)
  ELSE IF Closes(k, x, d) THEN 0 ELSE guards[k]

-----------------------------------------------------------------------------
(* Quiet-period memory.                                                    *)

(* resolved_memory after the pruning that begins an evaluation.            *)
Remembered(k, d) ==
  IF resolvedMemory[k] # NoMemory /\ resolvedMemory[k].age + d <= Quiet
  THEN [resolvedMemory[k] EXCEPT !.age = @ + d] ELSE NoMemory

Reopens(k, x, d) == Opens(k, x) /\ Remembered(k, d) # NoMemory
Mints(k, x, d)   == Opens(k, x) /\ Remembered(k, d) = NoMemory

NextMemory(k, x, d) ==
  CASE Closes(k, x, d) -> [n |-> active[k].n, severity |-> active[k].severity,
                           gen |-> active[k].gen, age |-> 0]
    [] Opens(k, x) -> NoMemory
    [] OTHER -> Remembered(k, d)

(* notify_memory after its pruning: kept while open, or for the period.    *)
LastNotified(k, x, d) ==
  LET older == Aged(notifyMemory[k].age, d, QuietCap)
  IN  IF /\ notifyMemory[k] # NeverNotified
         /\ OpenAfter(k, x, d) \/ older <= Quiet
      THEN [gen |-> notifyMemory[k].gen, age |-> older] ELSE NeverNotified

-----------------------------------------------------------------------------
(* quality::decide.                                                        *)

ConfidenceFloor(severity) ==
  IF severity # Critical THEN 50 ELSE IF learning THEN 60 ELSE 35

(* Persistence is breach duration over three sustained windows.            *)
FloorsMet(severity, age, w, score) ==
  /\ \/ severity = Critical
     \/ severity = Warning /\ ~learning
  /\ 100 * age >= 3 * w * (50 + score.offset)
  /\ score.confidence >= ConfidenceFloor(severity) + score.offset

(* The incident as reconciliation leaves it, before it is scored.          *)
Reconciled(k, x, d) ==
  CASE Mints(k, x, d) -> [n |-> minted[k] + 1, severity |-> x.severity,
                          notify |-> FALSE, gen |-> 0]
    [] Reopens(k, x, d) -> [n |-> Remembered(k, d).n, severity |-> x.severity,
                            notify |-> FALSE, gen |-> Remembered(k, d).gen]
    [] Open(k) /\ Sustained(k, x) -> [active[k] EXCEPT !.severity = x.severity]
    [] OTHER -> active[k]

ReopenedFrom(k, x, d) ==
  IF Reopens(k, x, d) THEN Remembered(k, d).severity ELSE reopenedFrom[k]

(* What the decision compares with: the severity a reopened incident       *)
(* resolved at, or the incident before this evaluation.                    *)
WasNotifying(k, x, d) ==
  IF ReopenedFrom(k, x, d) # None THEN LastNotified(k, x, d) # NeverNotified
                                  ELSE Open(k) /\ active[k].notify

WasAt(k, x, d) ==
  IF ReopenedFrom(k, x, d) # None THEN ReopenedFrom(k, x, d) ELSE active[k].severity

(* The DPC detector can veto a notification, never grant one.              *)
Notify(k, x, d) ==
  /\ OpenAfter(k, x, d)
  /\ FloorsMet(Reconciled(k, x, d).severity, NextSince(k, x, d),
               NextWindow(k, x, d), x.score)
  /\ x.barMet

(* A build that lets a suppressed incident move its generation.            *)
BumpsUntold(k, x, d, pending) ==
  /\ Notify(k, x, d)
  /\ \/ Reconciled(k, x, d).severity > WasAt(k, x, d)
     \/ k \in Attributed /\ pending

(* pending: a verdict change waits to be told.                             *)
Bumps(k, x, d, pending) ==
  /\ Notify(k, x, d) /\ WasNotifying(k, x, d)
  /\ \/ Reconciled(k, x, d).severity > WasAt(k, x, d)
     \/ k \in Attributed /\ pending

Scored(k, x, d, pending) ==
  IF OpenAfter(k, x, d)
  THEN [Reconciled(k, x, d) EXCEPT
          !.notify = Notify(k, x, d),
          !.gen = IF Bumps(k, x, d, pending) THEN @ + 1 ELSE @]
  ELSE Closed

NextReopenedFrom(k, x, d) ==
  IF OpenAfter(k, x, d) /\ ~Notify(k, x, d) THEN ReopenedFrom(k, x, d) ELSE None

NextNotified(k, x, d, pending) ==
  IF /\ Notify(k, x, d)
     /\ LastNotified(k, x, d).gen # Scored(k, x, d, pending).gen
  THEN [gen |-> Scored(k, x, d, pending).gen, age |-> 0]
  ELSE LastNotified(k, x, d)

(* observe_interrupts: a confident change other than the last one latches. *)
Changed(verdict) == verdict # "none" /\ verdict # lastVerdict
Pending(verdict) == pendingVerdict \/ Changed(verdict)

-----------------------------------------------------------------------------
(* History: unbroken breaches; how long an open incident's evidence has    *)
(* said that it is over (a vanished subject or a recovered window says so  *)
(* at once); the severity at which its current pair was first told.        *)
NextRun(k, x) == IF Breach(x) THEN Aged(run[k], 1, MaxWindow) ELSE 0

NextCalm(k, x, d) ==
  CASE ~Open(k) -> None
    [] x.sees \in {"gone", "recovered"} -> MaxWindow
    [] x.sees = "quiet" -> IF calm[k] = None THEN 0 ELSE Aged(calm[k], d, MaxWindow)
    [] OTHER -> None

NextAnnounced(k, inc) ==
  IF inc = Closed \/ <<k, inc.n, inc.gen>> \in told THEN announced[k]
  ELSE IF inc.notify THEN inc.severity
  ELSE IF inc.gen = 0 THEN None ELSE announced[k]

-----------------------------------------------------------------------------
(* The bounds: identities and generations the model keeps apart.           *)
WithinBounds(k, x, d, pending) ==
  /\ Mints(k, x, d) => minted[k] < MaxIds
  /\ Bumps(k, x, d, pending) => Reconciled(k, x, d).gen < MaxGen

(* observe_interrupts and evaluate, called under one lock by the loop.     *)
Evaluate(x, d, verdict) ==
  LET pending == Pending(verdict)
      after   == [k \in Keys |-> Scored(k, x[k], d, pending)]
  IN
  /\ \A k \in Keys : WithinBounds(k, x[k], d, pending)
  /\ streaks' = [k \in Keys |-> NextStreak(k, x[k], d)]
  /\ since' = [k \in Keys |-> NextSince(k, x[k], d)]
  /\ window' = [k \in Keys |-> NextWindow(k, x[k], d)]
  /\ guards' = [k \in Keys |-> NextGuard(k, x[k], d)]
  /\ belowFor' = [k \in Keys |-> NextBelow(k, x[k], d)]
  /\ resolvedMemory' = [k \in Keys |-> NextMemory(k, x[k], d)]
  /\ notifyMemory' = [k \in Keys |-> NextNotified(k, x[k], d, pending)]
  /\ reopenedFrom' = [k \in Keys |-> NextReopenedFrom(k, x[k], d)]
  /\ minted' = [k \in Keys |-> IF Mints(k, x[k], d) THEN minted[k] + 1 ELSE minted[k]]
  /\ active' = after
  /\ lastVerdict' = IF Changed(verdict) THEN verdict ELSE lastVerdict
  /\ pendingVerdict' = (pending /\ \A k \in Attributed :
                          ~Closes(k, x[k], d) /\ ~Bumps(k, x[k], d, pending))
  /\ told' = told \cup {<<k, after[k].n, after[k].gen>> :
                          k \in {key \in Keys : after[key].notify}}
  /\ run' = [k \in Keys |-> NextRun(k, x[k])]
  /\ calm' = [k \in Keys |-> NextCalm(k, x[k], d)]
  /\ announced' = [k \in Keys |-> NextAnnounced(k, after[k])]
  /\ UNCHANGED policyVars

(* The user changes settings.sustained_samples.                            *)
UpdateSettings(w) ==
  /\ required' = w
  /\ UNCHANGED <<learning, keyVars, latchVars, minted, historyVars>>

(* The learning period of the machine's baseline ends.                     *)
LearningEnds ==
  /\ learning /\ learning' = FALSE
  /\ UNCHANGED <<required, keyVars, latchVars, minted, historyVars>>

(* The service restarts after d intervals: storage stamps every open       *)
(* incident as resolved now, and what resolved within the quiet period     *)
(* seeds the memory of an engine that has forgotten everything else.       *)
Restart(d) ==
  /\ resolvedMemory' =
       [k \in Keys |-> IF Open(k)
                       THEN [n |-> active[k].n, severity |-> active[k].severity,
                             gen |-> active[k].gen, age |-> 0]
                       ELSE Remembered(k, d)]
  /\ active' = [k \in Keys |-> Closed]
  /\ streaks' = [k \in Keys |-> 0] /\ since' = [k \in Keys |-> 0]
  /\ window' = [k \in Keys |-> 0] /\ reopenedFrom' = [k \in Keys |-> None]
  /\ guards' = [k \in Keys |-> 0] /\ belowFor' = [k \in Keys |-> None]
  /\ notifyMemory' = [k \in Keys |-> NeverNotified]
  /\ lastVerdict' = "none" /\ pendingVerdict' = FALSE
  /\ run' = [k \in Keys |-> 0] /\ calm' = [k \in Keys |-> MaxWindow]
  /\ UNCHANGED <<policyVars, minted, told, announced>>

(* One sample per detector.                                                *)
Observations == {x \in [Keys -> UNION {Samples(k) : k \in Keys}] :
                   \A k \in Keys : x[k] \in Samples(k)}

Next ==
  \/ \E x \in Observations, d \in Elapsed,
        verdict \in (IF Attributed = {} THEN {"none"} ELSE Verdicts) :
       Evaluate(x, d, verdict)
  \/ \E w \in Windows : UpdateSettings(w)
  \/ LearningEnds
  \/ \E d \in Elapsed : Restart(d)

Spec == Init /\ [][Next]_vars

-----------------------------------------------------------------------------
(* An incident opens only on as many unbroken breaches as the settings of  *)
(* the moment ask for, whatever the key went through before: streaks left  *)
(* over from an earlier incident, a restart or a change of settings never  *)
(* count.                                                                  *)
OpensSustained ==
  [][\A k \in Keys : ~Open(k) /\ Open(k)' => run'[k] >= required]_vars

(* A value-shaped incident closes only after its reading stayed under the  *)
(* exit threshold for the whole hold, with no breach, no reading over the  *)
(* threshold and no climbing window in between.                            *)
HoldServed ==
  [][\A k \in Keys : Open(k) /\ ~Open(k)' => calm'[k] >= guards[k]]_vars

(* A key that is not open has no stale exit terms, and its streak is the   *)
(* breaches it has really just had.                                        *)
ClosedKeysStartOver ==
  \A k \in Keys : ~Open(k) =>
    /\ guards[k] = 0 /\ belowFor[k] = None /\ reopenedFrom[k] = None
    /\ streaks[k] = run[k]

(* What the rest of the service relies on.                                 *)
Ledger == INSTANCE IncidentLedger WITH
  ledger <- [k \in Keys |-> [n |-> active[k].n, gen |-> active[k].gen,
                             notify |-> active[k].notify]],
  last   <- [k \in Keys |-> [n |-> resolvedMemory[k].n, gen |-> resolvedMemory[k].gen]]

LedgerSpec == Ledger!Spec

-----------------------------------------------------------------------------
(* What comments and documentation say, and the code does not do.          *)

(* quality.rs: a suppressed incident "pops the moment the incident becomes *)
(* notifiable", because the tray never recorded its pair.  At a severity   *)
(* above the one its pair was told at, an open incident leaves with a pair *)
(* that is new to the tray.                                                *)
EscalationPops ==
  [][\A k \in Keys :
       /\ Open(k) /\ reopenedFrom[k] = None
       /\ active'[k].notify /\ announced[k] # None
       /\ active'[k].severity > announced[k]
       => <<k, active'[k].n, active'[k].gen>> \notin told]_vars
=============================================================================
