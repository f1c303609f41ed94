------------------------------ MODULE Learning ------------------------------
(***************************************************************************)
(* How much the machine's baseline has learned (MachineBaseline of         *)
(* baselines.rs): observed time, credited gap by gap, saved every few      *)
(* minutes and at a clean stop, restored at the next start. It decides     *)
(* when the notification policy leaves its learning period.                *)
(***************************************************************************)
EXTENDS Integers

CONSTANTS
  LearningPeriod,  \* LEARNING_PERIOD_MS
  MaxStep,         \* MAX_OBSERVED_STEP_MS
  Nominal,         \* NOMINAL_SAMPLE_INTERVAL_MS
  Gaps,            \* what lies between two samples: an interval, or a sleep
  MaxWatched,      \* bound: time sampled
  MaxGaps          \* bound: sleeps, and starts, of a behaviour

ASSUME LearningAssumption ==
  /\ LearningPeriod \in Nat /\ MaxStep \in Nat \ {0}
  /\ Nominal \in 0..LearningPeriod /\ Gaps \subseteq Nat \ {0}
  /\ MaxWatched \in Nat /\ MaxGaps \in Nat

VARIABLES
  observed,  \* observed_ms
  anchored,  \* last_observed_ms is Some
  row,       \* baselines table: observed_ms of the machine row, or NoRow
  watched,   \* history: time between two samples of one run, awake
  unsaved,   \* history: how much of it is younger than the row
  lost,      \* history: how much of it went with a crash
  sleeps     \* history: sleeps between two samples of one run

leVars == <<observed, anchored, row, watched, unsaved, lost, sleeps>>

NoRow == -1
Least(a, b) == IF a < b THEN a ELSE b

LearningTypeOK ==
  /\ observed \in 0..LearningPeriod /\ anchored \in BOOLEAN
  /\ row \in {NoRow} \cup 0..LearningPeriod
  /\ watched \in 0..MaxWatched /\ unsaved \in 0..watched /\ lost \in 0..watched
  /\ sleeps \in 0..MaxGaps

LearningInit ==
  /\ observed = 0 /\ anchored = FALSE /\ row = NoRow
  /\ watched = 0 /\ unsaved = 0 /\ lost = 0 /\ sleeps = 0

(* A credit of the whole gap.                                              *)
CreditUncapped(gap) == IF anchored THEN Least(observed + gap, LearningPeriod) ELSE observed

(* accrue_observed.                                                        *)
Credit(gap) ==
  IF anchored THEN Least(observed + Least(gap, MaxStep), LearningPeriod) ELSE observed

(* One sample; a gap longer than a step is one the machine slept through.  *)
SampleTaken(gap) ==
  LET awake == anchored /\ gap <= MaxStep
      slept == anchored /\ gap > MaxStep IN
  /\ observed' = Credit(gap) /\ anchored' = TRUE
  /\ awake => watched + gap <= MaxWatched
  /\ slept => sleeps < MaxGaps
  /\ watched' = IF awake THEN watched + gap ELSE watched
  /\ unsaved' = IF awake THEN unsaved + gap ELSE unsaved
  /\ sleeps' = IF slept THEN sleeps + 1 ELSE sleeps
  /\ UNCHANGED <<row, lost>>

(* next_baseline_save.                                                     *)
BaselineSaved ==
  /\ anchored /\ row' = observed /\ unsaved' = 0
  /\ UNCHANGED <<observed, anchored, watched, lost, sleeps>>

(* BaselineStore::restore: the anchor is not persisted, and a row with no  *)
(* observed time, saved after one sample, is taken for one of an older     *)
(* release (backfill_observed_from_sketches).                              *)
Restored(saved) ==
  /\ observed' = IF saved = NoRow THEN 0 ELSE IF saved = 0 THEN Nominal ELSE saved
  /\ anchored' = FALSE

(* The loop ends on a stop, saves, and the service starts again. Where the *)
(* last save fails it is a crash.                                          *)
StoppedCleanly ==
  /\ anchored /\ row' = observed /\ unsaved' = 0 /\ Restored(observed)
  /\ UNCHANGED <<watched, lost, sleeps>>

Crashed ==
  /\ anchored /\ Restored(row) /\ lost' = lost + unsaved /\ unsaved' = 0
  /\ UNCHANGED <<row, watched, sleeps>>

LearningNext ==
  \/ \E gap \in Gaps : SampleTaken(gap)
  \/ BaselineSaved \/ StoppedCleanly \/ Crashed

-----------------------------------------------------------------------------
(* docs/protocol.md: learning is observed time. The credit is what was     *)
(* sampled, but for what crashes took, plus one step for each sleep and    *)
(* one sample at the most: neither sleep nor restarts nor downtime pass    *)
(* for observation, and a clean stop keeps everything.                     *)
LearnedIsObserved ==
  /\ observed <= watched - lost + MaxStep * sleeps + Nominal
  /\ observed >= Least(watched - lost, LearningPeriod)
=============================================================================
