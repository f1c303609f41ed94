------------------------ MODULE IncidentEngineProofs ------------------------
(* Proofs about IncidentEngine, for any detectors, windows, quiet period   *)
(* and bounds.                                                             *)
EXTENDS IncidentEngine, TLAPS

USE DEF Info, Warning, Critical, None

LEMMA AgedRange ==
  ASSUME NEW a \in Int, NEW d \in Nat, NEW cap \in Nat, a >= 0
  PROVE  Aged(a, d, cap) \in 0..cap
BY DEF Aged

LEMMA SampleShape ==
  ASSUME NEW k \in Keys, NEW x \in Samples(k)
  PROVE  x.severity \in Severities /\ x.barMet \in BOOLEAN
<1>1. Bands[k] \subseteq Severities
  BY EngineConstants DEF Severities
<1>2. (IF k \in Attributed THEN BOOLEAN ELSE {TRUE}) \subseteq BOOLEAN
  OBVIOUS
<1>3. QED
  BY <1>1, <1>2 DEF Samples, Severities

(* The samples of an evaluation, key by key.                               *)
LEMMA ObservationShape ==
  ASSUME NEW x \in Observations, NEW k \in Keys
  PROVE  x[k] \in Samples(k) /\ x[k].severity \in Severities /\ x[k].barMet \in BOOLEAN
<1>1. x[k] \in Samples(k)
  BY DEF Observations
<1>2. QED
  BY <1>1, SampleShape

LEMMA ConstantTypes ==
  /\ MaxWindow \in Nat /\ SinceCap \in Nat /\ QuietCap \in Nat
  /\ Elapsed \subseteq Nat
  /\ \A w \in Windows : w \in Nat /\ w <= MaxWindow /\ w > 0
BY EngineConstants DEF SinceCap, QuietCap

-----------------------------------------------------------------------------
(* Type correctness.                                                       *)

LEMMA InitTypeOK == Init => TypeOK
<1> SUFFICES ASSUME Init PROVE TypeOK
  OBVIOUS
<1>1. learning \in BOOLEAN /\ pendingVerdict \in BOOLEAN /\ lastVerdict \in Verdicts
  BY DEF Init, Verdicts
<1>2. QED
  BY <1>1, ConstantTypes, EngineConstants DEF Init, TypeOK, Severities

(* What Remembered and LastNotified return: memories within their periods. *)
LEMMA RememberedType ==
  ASSUME TypeOK, NEW k \in Keys, NEW d \in Elapsed
  PROVE  Remembered(k, d) \in Memories \cup {NoMemory}
<1>1. resolvedMemory[k] \in Memories \cup {NoMemory}
  BY DEF TypeOK
<1>2. CASE resolvedMemory[k] # NoMemory /\ resolvedMemory[k].age + d <= Quiet
  <2>1. resolvedMemory[k] \in Memories
    BY <1>1, <1>2
  <2>2. resolvedMemory[k].age + d \in 0..Quiet
    BY <1>2, <2>1, ConstantTypes, EngineConstants DEF Memories
  <2>3. QED
    BY <1>2, <2>1, <2>2 DEF Remembered, Memories
<1>3. QED
  BY <1>2 DEF Remembered

LEMMA LastNotifiedType ==
  ASSUME TypeOK, NEW k \in Keys, NEW x, NEW d \in Elapsed
  PROVE  LastNotified(k, x, d) \in Notified \cup {NeverNotified}
<1>1. notifyMemory[k] \in Notified \cup {NeverNotified}
  BY DEF TypeOK
<1>2. CASE notifyMemory[k] # NeverNotified
  <2>1. notifyMemory[k] \in Notified
    BY <1>1, <1>2
  <2>2. /\ notifyMemory[k].gen \in 0..MaxGen /\ notifyMemory[k].age \in 0..QuietCap
        /\ d \in Nat /\ QuietCap \in Nat
    BY <2>1, ConstantTypes DEF Notified
  <2>3. Aged(notifyMemory[k].age, d, QuietCap) \in 0..QuietCap
    BY <2>2 DEF Aged
  <2>4. QED
    BY <2>2, <2>3 DEF LastNotified, Notified
<1>3. QED
  BY <1>2 DEF LastNotified

(* An incident that is open after an evaluation has a real identity.       *)
LEMMA ReconciledType ==
  ASSUME TypeOK, NEW k \in Keys, NEW x \in Samples(k), NEW d \in Elapsed,
         OpenAfter(k, x, d), Mints(k, x, d) => minted[k] < MaxIds
  PROVE  Reconciled(k, x, d) \in Incidents
<1>1. /\ active[k] \in Incidents \cup {Closed} /\ minted[k] \in 0..MaxIds
      /\ Remembered(k, d) \in Memories \cup {NoMemory}
      /\ x.severity \in Severities
  BY RememberedType, SampleShape DEF TypeOK
<1>2. CASE Mints(k, x, d)
  <2>1. minted[k] + 1 \in 1..MaxIds
    BY <1>1, <1>2, EngineConstants
  <2>2. Reconciled(k, x, d) = [n |-> minted[k] + 1, severity |-> x.severity,
                               notify |-> FALSE, gen |-> 0]
    BY <1>2 DEF Reconciled, Mints, Reopens, Opens
  <2>3. 0 \in 0..MaxGen /\ FALSE \in BOOLEAN
    BY EngineConstants
  <2>4. QED
    BY <1>1, <2>1, <2>2, <2>3 DEF Incidents
<1>3. CASE Reopens(k, x, d)
  <2>1. Remembered(k, d) \in Memories /\ ~Mints(k, x, d)
    BY <1>1, <1>3 DEF Reopens, Mints
  <2>2. Reconciled(k, x, d) = [n |-> Remembered(k, d).n, severity |-> x.severity,
                               notify |-> FALSE, gen |-> Remembered(k, d).gen]
    BY <1>3, <2>1 DEF Reconciled, Reopens, Opens
  <2>3. Remembered(k, d).n \in 1..MaxIds /\ Remembered(k, d).gen \in 0..MaxGen
    BY <2>1 DEF Memories
  <2>4. QED
    BY <1>1, <2>2, <2>3 DEF Incidents
<1>4. CASE ~Mints(k, x, d) /\ ~Reopens(k, x, d)
  <2>1. Open(k) /\ active[k] \in Incidents
    BY <1>1, <1>4 DEF OpenAfter, Opens, Mints, Reopens, Open
  <2>2. QED
    BY <1>1, <1>4, <2>1 DEF Reconciled, Incidents
<1>5. QED
  BY <1>2, <1>3, <1>4

(* The bound on generations keeps every scored incident in range.          *)
LEMMA ScoredType ==
  ASSUME TypeOK, NEW k \in Keys, NEW x \in Samples(k), NEW d \in Elapsed,
         NEW p \in BOOLEAN, WithinBounds(k, x, d, p)
  PROVE  /\ Scored(k, x, d, p) \in Incidents \cup {Closed}
         /\ OpenAfter(k, x, d) => Scored(k, x, d, p) \in Incidents
         /\ Scored(k, x, d, p).notify = Notify(k, x, d)
<1>1. CASE OpenAfter(k, x, d)
  <2>1. Reconciled(k, x, d) \in Incidents
    BY <1>1, ReconciledType DEF WithinBounds
  <2>2. Notify(k, x, d) \in BOOLEAN
    BY DEF Notify
  <2>3. Reconciled(k, x, d).gen \in 0..MaxGen
    BY <2>1 DEF Incidents
  <2>4. (IF Bumps(k, x, d, p) THEN Reconciled(k, x, d).gen + 1
                              ELSE Reconciled(k, x, d).gen) \in 0..MaxGen
    BY <2>3, EngineConstants DEF WithinBounds
  <2>5. QED
    BY <1>1, <2>1, <2>2, <2>4 DEF Scored, Incidents
<1>2. CASE ~OpenAfter(k, x, d)
  BY <1>2 DEF Scored, Notify, Closed
<1>3. QED
  BY <1>1, <1>2

LEMMA NextAgesType ==
  ASSUME TypeOK, NEW k \in Keys, NEW x \in Samples(k), NEW d \in Elapsed
  PROVE  /\ NextStreak(k, x, d) \in 0..MaxWindow
         /\ NextSince(k, x, d) \in 0..SinceCap
         /\ NextRun(k, x) \in 0..MaxWindow
<1>1. /\ streaks[k] \in 0..MaxWindow /\ since[k] \in 0..SinceCap
      /\ run[k] \in 0..MaxWindow
      /\ d \in Nat /\ MaxWindow \in Nat /\ SinceCap \in Nat
  BY ConstantTypes DEF TypeOK
<1>2. /\ Streak(k) \in 0..MaxWindow /\ Aged(since[k], d, SinceCap) \in 0..SinceCap
      /\ Aged(run[k], 1, MaxWindow) \in 0..MaxWindow
  BY <1>1 DEF Streak, Aged
<1>3. QED
  BY <1>1, <1>2 DEF NextStreak, NextSince, NextRun

LEMMA NextClocksType ==
  ASSUME TypeOK, NEW k \in Keys, NEW x \in Samples(k), NEW d \in Elapsed
  PROVE  /\ NextBelow(k, x, d) \in 0..MaxWindow \cup {None}
         /\ NextCalm(k, x, d) \in 0..MaxWindow \cup {None}
<1>1. /\ belowFor[k] \in 0..MaxWindow \cup {None}
      /\ calm[k] \in 0..MaxWindow \cup {None}
      /\ d \in Nat /\ MaxWindow \in Nat
  BY ConstantTypes DEF TypeOK
<1>2. ExitClock(k, d) \in 0..MaxWindow
  BY <1>1 DEF ExitClock, Aged
<1>3. (IF calm[k] = None THEN 0 ELSE Aged(calm[k], d, MaxWindow)) \in 0..MaxWindow
  BY <1>1 DEF Aged
<1>4. MaxWindow \in 0..MaxWindow
  BY <1>1
<1>5. NextBelow(k, x, d) \in 0..MaxWindow \cup {None}
  BY <1>2 DEF NextBelow
<1>6. \/ NextCalm(k, x, d) = None \/ NextCalm(k, x, d) = MaxWindow
      \/ NextCalm(k, x, d) = (IF calm[k] = None THEN 0 ELSE Aged(calm[k], d, MaxWindow))
  <2>1. CASE ~Open(k)
    BY <2>1 DEF NextCalm
  <2>2. CASE Open(k) /\ x.sees \in {"gone", "recovered"}
    BY <2>2 DEF NextCalm
  <2>3. CASE Open(k) /\ x.sees = "quiet"
    BY <2>3 DEF NextCalm
  <2>4. CASE Open(k) /\ x.sees \notin {"gone", "recovered", "quiet"}
    BY <2>4 DEF NextCalm
  <2>5. QED
    BY <2>1, <2>2, <2>3, <2>4
<1>7. QED
  BY <1>3, <1>4, <1>5, <1>6

LEMMA NextTermsType ==
  ASSUME TypeOK, NEW k \in Keys, NEW x \in Samples(k), NEW d \in Elapsed
  PROVE  /\ NextWindow(k, x, d) \in Windows \cup {0}
         /\ NextGuard(k, x, d) \in Windows \cup {0}
         /\ NextReopenedFrom(k, x, d) \in Severities \cup {None}
<1>1. /\ required \in Windows /\ window[k] \in Windows \cup {0}
      /\ guards[k] \in Windows \cup {0}
      /\ reopenedFrom[k] \in Severities \cup {None}
  BY DEF TypeOK
<1>2. ReopenedFrom(k, x, d) \in Severities \cup {None}
  BY <1>1, RememberedType DEF ReopenedFrom, Reopens, Memories
<1>3. QED
  BY <1>1, <1>2 DEF NextWindow, NextGuard, NextReopenedFrom

LEMMA NextMemoriesType ==
  ASSUME TypeOK, NEW k \in Keys, NEW x \in Samples(k), NEW d \in Elapsed,
         NEW p \in BOOLEAN, WithinBounds(k, x, d, p)
  PROVE  /\ NextMemory(k, x, d) \in Memories \cup {NoMemory}
         /\ NextNotified(k, x, d, p) \in Notified \cup {NeverNotified}
<1>1. NextMemory(k, x, d) \in Memories \cup {NoMemory}
  <2>1. CASE Closes(k, x, d)
    <3>1. ~Opens(k, x) /\ active[k] \in Incidents
      BY <2>1 DEF Closes, Opens, Open, TypeOK
    <3>2. NextMemory(k, x, d) = [n |-> active[k].n, severity |-> active[k].severity,
                                 gen |-> active[k].gen, age |-> 0]
      BY <2>1, <3>1 DEF NextMemory
    <3>3. 0 \in 0..Quiet
      BY EngineConstants
    <3>4. QED
      BY <3>1, <3>2, <3>3 DEF Memories, Incidents
  <2>2. CASE ~Closes(k, x, d)
    BY <2>2, RememberedType DEF NextMemory
  <2>3. QED
    BY <2>1, <2>2
<1>2. NextNotified(k, x, d, p) \in Notified \cup {NeverNotified}
  <2>1. CASE /\ Notify(k, x, d)
             /\ LastNotified(k, x, d).gen # Scored(k, x, d, p).gen
    <3>1. Scored(k, x, d, p) \in Incidents
      BY <2>1, ScoredType DEF Notify
    <3>2. Scored(k, x, d, p).gen \in 0..MaxGen /\ 0 \in 0..QuietCap
      BY <3>1, ConstantTypes DEF Incidents
    <3>3. QED
      BY <2>1, <3>2 DEF NextNotified, Notified
  <2>2. CASE ~(/\ Notify(k, x, d)
               /\ LastNotified(k, x, d).gen # Scored(k, x, d, p).gen)
    BY <2>2, LastNotifiedType DEF NextNotified
  <2>3. QED
    BY <2>1, <2>2
<1>3. QED
  BY <1>1, <1>2

LEMMA NextAnnouncedType ==
  ASSUME TypeOK, NEW k \in Keys, NEW inc \in Incidents \cup {Closed}
  PROVE  NextAnnounced(k, inc) \in Severities \cup {None}
<1>1. announced[k] \in Severities \cup {None} /\ inc.severity \in Severities
  BY DEF TypeOK, Incidents, Closed, Severities
<1>2. QED
  BY <1>1 DEF NextAnnounced

(* An evaluation, its existential parameters named.                        *)
LEMMA EvaluateTypeOK ==
  ASSUME TypeOK, NEW x \in Observations, NEW d \in Elapsed, NEW verdict \in Verdicts,
         Evaluate(x, d, verdict)
  PROVE  TypeOK'
<1> DEFINE p == Pending(verdict)
<1>1. p \in BOOLEAN
  BY DEF Pending, Changed, TypeOK
<1>2. ASSUME NEW k \in Keys
      PROVE  x[k] \in Samples(k) /\ WithinBounds(k, x[k], d, p)
  BY ObservationShape DEF Evaluate
<1> HIDE DEF p
<1>3. \A k \in Keys : /\ NextStreak(k, x[k], d) \in 0..MaxWindow
                      /\ NextSince(k, x[k], d) \in 0..SinceCap
                      /\ NextRun(k, x[k]) \in 0..MaxWindow
  BY <1>2, NextAgesType
<1>4. \A k \in Keys : /\ NextBelow(k, x[k], d) \in 0..MaxWindow \cup {None}
                      /\ NextCalm(k, x[k], d) \in 0..MaxWindow \cup {None}
  BY <1>2, NextClocksType
<1>5. \A k \in Keys : /\ NextWindow(k, x[k], d) \in Windows \cup {0}
                      /\ NextGuard(k, x[k], d) \in Windows \cup {0}
                      /\ NextReopenedFrom(k, x[k], d) \in Severities \cup {None}
  BY <1>2, NextTermsType
<1>6. \A k \in Keys : /\ NextMemory(k, x[k], d) \in Memories \cup {NoMemory}
                      /\ NextNotified(k, x[k], d, p) \in Notified \cup {NeverNotified}
  BY <1>1, <1>2, NextMemoriesType
<1>7. \A k \in Keys : Scored(k, x[k], d, p) \in Incidents \cup {Closed}
  BY <1>1, <1>2, ScoredType
<1>8. \A k \in Keys : NextAnnounced(k, Scored(k, x[k], d, p)) \in Severities \cup {None}
  BY <1>7, NextAnnouncedType
<1>9. active' = [k \in Keys |-> Scored(k, x[k], d, p)]
  BY DEF Evaluate, p
<1>10. minted' \in [Keys -> 0..MaxIds]
  <2>1. minted \in [Keys -> 0..MaxIds] /\ MaxIds \in Nat
    BY EngineConstants DEF TypeOK
  <2>2. \A k \in Keys : Mints(k, x[k], d) => minted[k] < MaxIds
    BY <1>2 DEF WithinBounds
  <2>3. ASSUME NEW k \in Keys
        PROVE  (IF Mints(k, x[k], d) THEN minted[k] + 1 ELSE minted[k]) \in 0..MaxIds
    <3>1. minted[k] \in 0..MaxIds /\ (Mints(k, x[k], d) => minted[k] < MaxIds)
      BY <2>1, <2>2
    <3>2. QED
      BY <2>1, <3>1
  <2>4. QED
    BY <2>3 DEF Evaluate
<1>11. told' \subseteq Keys \X (1..MaxIds) \X (0..MaxGen)
  <2>1. \A k \in Keys : active'[k].notify => active'[k] \in Incidents
    BY <1>7, <1>9 DEF Closed
  <2>2. \A k \in Keys : active'[k].notify =>
          <<k, active'[k].n, active'[k].gen>> \in Keys \X (1..MaxIds) \X (0..MaxGen)
    BY <2>1 DEF Incidents
  <2>3. told' = told \cup {<<k, active'[k].n, active'[k].gen>> :
                             k \in {key \in Keys : active'[key].notify}}
    BY DEF Evaluate
  <2>4. QED
    BY <2>2, <2>3 DEF TypeOK
<1>12. lastVerdict' \in Verdicts /\ pendingVerdict' \in BOOLEAN
  BY DEF Evaluate, TypeOK
<1>13. required' \in Windows /\ learning' \in BOOLEAN
  BY DEF Evaluate, policyVars, TypeOK
<1>14. /\ streaks' \in [Keys -> 0..MaxWindow] /\ since' \in [Keys -> 0..SinceCap]
       /\ run' \in [Keys -> 0..MaxWindow]
  BY <1>3 DEF Evaluate
<1>15. /\ belowFor' \in [Keys -> 0..MaxWindow \cup {None}]
       /\ calm' \in [Keys -> 0..MaxWindow \cup {None}]
  BY <1>4 DEF Evaluate
<1>16. /\ window' \in [Keys -> Windows \cup {0}]
       /\ guards' \in [Keys -> Windows \cup {0}]
       /\ reopenedFrom' \in [Keys -> Severities \cup {None}]
  BY <1>5 DEF Evaluate
<1>17. /\ resolvedMemory' \in [Keys -> Memories \cup {NoMemory}]
       /\ notifyMemory' \in [Keys -> Notified \cup {NeverNotified}]
  BY <1>6 DEF Evaluate, p
<1>18. active' \in [Keys -> Incidents \cup {Closed}]
  BY <1>7, <1>9
<1>19. announced' \in [Keys -> Severities \cup {None}]
  BY <1>8 DEF Evaluate, p
<1>20. QED
  BY <1>10, <1>11, <1>12, <1>13, <1>14, <1>15, <1>16, <1>17, <1>18, <1>19 DEF TypeOK

LEMMA RestartTypeOK ==
  ASSUME TypeOK, NEW d \in Elapsed, Restart(d)
  PROVE  TypeOK'
<1>1. resolvedMemory' \in [Keys -> Memories \cup {NoMemory}]
  <2>1. ASSUME NEW k \in Keys
        PROVE  (IF Open(k) THEN [n |-> active[k].n, severity |-> active[k].severity,
                                 gen |-> active[k].gen, age |-> 0]
                           ELSE Remembered(k, d)) \in Memories \cup {NoMemory}
    <3>1. CASE Open(k)
      <4>1. active[k] \in Incidents /\ 0 \in 0..Quiet
        BY <3>1, EngineConstants DEF Open, TypeOK
      <4>2. QED
        BY <3>1, <4>1 DEF Incidents, Memories
    <3>2. CASE ~Open(k)
      BY <3>2, RememberedType
    <3>3. QED
      BY <3>1, <3>2
  <2>2. QED
    BY <2>1 DEF Restart
<1>2. /\ streaks' \in [Keys -> 0..MaxWindow] /\ since' \in [Keys -> 0..SinceCap]
      /\ run' \in [Keys -> 0..MaxWindow]
      /\ window' \in [Keys -> Windows \cup {0}] /\ guards' \in [Keys -> Windows \cup {0}]
      /\ belowFor' \in [Keys -> 0..MaxWindow \cup {None}]
      /\ calm' \in [Keys -> 0..MaxWindow \cup {None}]
      /\ reopenedFrom' \in [Keys -> Severities \cup {None}]
  BY ConstantTypes DEF Restart
<1>3. /\ active' \in [Keys -> Incidents \cup {Closed}]
      /\ notifyMemory' \in [Keys -> Notified \cup {NeverNotified}]
  BY DEF Restart
<1>4. lastVerdict' \in Verdicts /\ pendingVerdict' \in BOOLEAN
  BY DEF Restart, Verdicts
<1>5. /\ minted' = minted /\ told' = told /\ announced' = announced
      /\ required' = required /\ learning' = learning
  BY DEF Restart, policyVars
<1>6. QED
  BY <1>1, <1>2, <1>3, <1>4, <1>5 DEF TypeOK

LEMMA NextTypeOK == TypeOK /\ [Next]_vars => TypeOK'
<1> SUFFICES ASSUME TypeOK, [Next]_vars PROVE TypeOK'
  OBVIOUS
<1>1. ASSUME NEW x \in Observations, NEW d \in Elapsed,
             NEW verdict \in (IF Attributed = {} THEN {"none"} ELSE Verdicts),
             Evaluate(x, d, verdict)
      PROVE  TypeOK'
  <2>1. verdict \in Verdicts
    BY DEF Verdicts
  <2>2. QED
    BY <1>1, <2>1, EvaluateTypeOK
<1>2. ASSUME NEW w \in Windows, UpdateSettings(w) PROVE TypeOK'
  BY <1>2 DEF UpdateSettings, keyVars, latchVars, historyVars, TypeOK
<1>3. CASE LearningEnds
  BY <1>3 DEF LearningEnds, keyVars, latchVars, historyVars, TypeOK
<1>4. ASSUME NEW d \in Elapsed, Restart(d) PROVE TypeOK'
  BY <1>4, RestartTypeOK
<1>5. CASE UNCHANGED vars
  BY <1>5 DEF vars, policyVars, keyVars, latchVars, historyVars, TypeOK
<1>6. QED
  BY <1>1, <1>2, <1>3, <1>4, <1>5 DEF Next

(* The engine never leaves its types: in particular no streak, age or      *)
(* generation escapes its range, and no memory outlives its period.        *)
THEOREM EngineTypes == Spec => []TypeOK
<1>1. QED
  BY InitTypeOK, NextTypeOK, PTL DEF Spec

-----------------------------------------------------------------------------
(* The inductive invariant.                                                *)

(* An open value-shaped incident has an exit hold, and its exit clock has  *)
(* run no longer than its evidence has been calm.                          *)
ExitsHeld(k) ==
  Open(k) => /\ k \in Guarded => guards[k] # 0
             /\ belowFor[k] # None => calm[k] >= belowFor[k]

Sent(k, inc) == <<k, inc.n, inc.gen>> \in told

(* What the engine believes it has told the user, it has told: an incident *)
(* that notifies, a remembered one whose notification is remembered too,   *)
(* a reopened one that is still waiting, and any open one whose            *)
(* notification is recent.  A stale notification memory says nothing.      *)
BeliefsHold(k) ==
  /\ active[k].notify => Sent(k, active[k])
  /\ Open(k) => resolvedMemory[k] = NoMemory
  /\ notifyMemory[k] # NeverNotified =>
       /\ ~Open(k) => /\ resolvedMemory[k] # NoMemory
                      /\ resolvedMemory[k].age <= notifyMemory[k].age
                      /\ Sent(k, resolvedMemory[k])
       /\ Open(k) /\ reopenedFrom[k] # None => Sent(k, active[k])
       /\ Open(k) /\ notifyMemory[k].age <= Quiet => Sent(k, active[k])

StartsOver(k) ==
  ~Open(k) => /\ guards[k] = 0 /\ belowFor[k] = None /\ reopenedFrom[k] = None
              /\ streaks[k] = run[k]

Inductive ==
  /\ TypeOK
  /\ \A k \in Keys : StartsOver(k) /\ ExitsHeld(k) /\ BeliefsHold(k)

LEMMA InitInductive == Init => Inductive
<1> SUFFICES ASSUME Init PROVE Inductive
  OBVIOUS
<1>1. TypeOK
  BY InitTypeOK
<1>2. ASSUME NEW k \in Keys PROVE StartsOver(k) /\ ExitsHeld(k) /\ BeliefsHold(k)
  BY DEF Init, StartsOver, ExitsHeld, BeliefsHold, Open, Closed
<1>3. QED
  BY <1>1, <1>2 DEF Inductive

(* What an evaluation does to one key, and that the key is open afterwards *)
(* exactly when OpenAfter says so.                                         *)
LEMMA EvaluateKey ==
  ASSUME TypeOK, NEW x \in Observations, NEW d \in Elapsed, NEW verdict \in Verdicts,
         Evaluate(x, d, verdict), NEW k \in Keys
  PROVE  /\ x[k] \in Samples(k)
         /\ WithinBounds(k, x[k], d, Pending(verdict))
         /\ active'[k] = Scored(k, x[k], d, Pending(verdict))
         /\ active'[k].notify = Notify(k, x[k], d)
         /\ (active'[k] # Closed) <=> OpenAfter(k, x[k], d)
         /\ active'[k] # Closed => active'[k] \in Incidents
<1> DEFINE p == Pending(verdict)
<1>1. p \in BOOLEAN
  BY DEF Pending, Changed, TypeOK
<1>2. x[k] \in Samples(k) /\ WithinBounds(k, x[k], d, p)
  BY ObservationShape DEF Evaluate
<1>3. active'[k] = Scored(k, x[k], d, p)
  BY DEF Evaluate
<1> HIDE DEF p
<1>4. /\ OpenAfter(k, x[k], d) => Scored(k, x[k], d, p) \in Incidents
      /\ Scored(k, x[k], d, p).notify = Notify(k, x[k], d)
  BY <1>1, <1>2, ScoredType
<1>5. ~OpenAfter(k, x[k], d) => Scored(k, x[k], d, p) = Closed
  BY DEF Scored
<1>6. \A inc \in Incidents : inc # Closed
  BY DEF Incidents, Closed
<1>7. QED
  BY <1>2, <1>3, <1>4, <1>5, <1>6 DEF p

LEMMA StartsOverKept ==
  ASSUME TypeOK, NEW x \in Observations, NEW d \in Elapsed, NEW verdict \in Verdicts,
         Evaluate(x, d, verdict), NEW k \in Keys, StartsOver(k)
  PROVE  StartsOver(k)'
<1> SUFFICES ASSUME ~OpenAfter(k, x[k], d)
             PROVE  /\ NextGuard(k, x[k], d) = 0 /\ NextBelow(k, x[k], d) = None
                    /\ NextReopenedFrom(k, x[k], d) = None
                    /\ NextStreak(k, x[k], d) = NextRun(k, x[k])
  BY EvaluateKey DEF Evaluate, StartsOver, Open
<1>1. ~Sustained(k, x[k]) /\ (Open(k) => Closes(k, x[k], d))
  BY DEF OpenAfter, Opens, Closes, Sustained
<1>2. Breach(x[k]) => ~Open(k)
  BY <1>1 DEF Closes
<1>3. QED
  BY <1>1, <1>2 DEF StartsOver, NextGuard, NextBelow, NextReopenedFrom, NextStreak,
                    NextRun, Streak

LEMMA ExitsHeldKept ==
  ASSUME TypeOK, NEW x \in Observations, NEW d \in Elapsed, NEW verdict \in Verdicts,
         Evaluate(x, d, verdict), NEW k \in Keys, ExitsHeld(k), StartsOver(k)
  PROVE  ExitsHeld(k)'
<1> SUFFICES ASSUME OpenAfter(k, x[k], d)
             PROVE  /\ k \in Guarded => NextGuard(k, x[k], d) # 0
                    /\ NextBelow(k, x[k], d) # None =>
                         NextCalm(k, x[k], d) >= NextBelow(k, x[k], d)
  BY EvaluateKey DEF Evaluate, ExitsHeld, Open
<1>1. k \in Guarded => NextGuard(k, x[k], d) # 0
  <2>1. required # 0
    BY ConstantTypes DEF TypeOK
  <2>2. ~Closes(k, x[k], d)
    BY DEF OpenAfter, Closes, Opens, Sustained
  <2>3. Open(k) \/ Sustained(k, x[k])
    BY DEF OpenAfter, Opens
  <2>4. QED
    BY <2>1, <2>2, <2>3 DEF NextGuard, ExitsHeld
<1>2. ASSUME NextBelow(k, x[k], d) # None
      PROVE  NextCalm(k, x[k], d) >= NextBelow(k, x[k], d)
  <2>1. Open(k) /\ x[k].sees = "quiet" /\ NextBelow(k, x[k], d) = ExitClock(k, d)
    BY <1>2 DEF NextBelow
  <2>2. NextCalm(k, x[k], d) = IF calm[k] = None THEN 0 ELSE Aged(calm[k], d, MaxWindow)
    BY <2>1 DEF NextCalm
  <2>3. /\ belowFor[k] \in 0..MaxWindow \cup {None} /\ calm[k] \in 0..MaxWindow \cup {None}
        /\ d \in Nat /\ MaxWindow \in Nat
    BY ConstantTypes DEF TypeOK
  <2>4. belowFor[k] # None => calm[k] >= belowFor[k]
    BY <2>1 DEF ExitsHeld
  <2>5. QED
    BY <2>1, <2>2, <2>3, <2>4 DEF ExitClock, Aged
<1>3. QED
  BY <1>1, <1>2

(* Reconciliation keeps an open incident's identity and generation, and    *)
(* gives a reopened one those it resolved with.                            *)
LEMMA ReconciledIdentity ==
  ASSUME TypeOK, NEW k \in Keys, NEW x, NEW d \in Elapsed
  PROVE  /\ Open(k) => /\ Reconciled(k, x, d).n = active[k].n
                       /\ Reconciled(k, x, d).gen = active[k].gen
         /\ Reopens(k, x, d) => /\ Reconciled(k, x, d).n = resolvedMemory[k].n
                                /\ Reconciled(k, x, d).gen = resolvedMemory[k].gen
         /\ Mints(k, x, d) => /\ Reconciled(k, x, d).n = minted[k] + 1
                              /\ Reconciled(k, x, d).gen = 0
<1>1. ASSUME Open(k)
      PROVE  /\ Reconciled(k, x, d).n = active[k].n
             /\ Reconciled(k, x, d).gen = active[k].gen
  <2>1. ~Mints(k, x, d) /\ ~Reopens(k, x, d)
    BY <1>1 DEF Mints, Reopens, Opens
  <2>2. active[k] \in Incidents
    BY <1>1 DEF Open, TypeOK
  <2>3. CASE Sustained(k, x)
    <3>1. Reconciled(k, x, d) = [active[k] EXCEPT !.severity = x.severity]
      BY <1>1, <2>1, <2>3 DEF Reconciled
    <3>2. QED
      BY <2>2, <3>1 DEF Incidents
  <2>4. CASE ~Sustained(k, x)
    BY <1>1, <2>1, <2>4 DEF Reconciled
  <2>5. QED
    BY <2>3, <2>4
<1>2. ASSUME Reopens(k, x, d)
      PROVE  /\ Reconciled(k, x, d).n = resolvedMemory[k].n
             /\ Reconciled(k, x, d).gen = resolvedMemory[k].gen
  <2>1. Reconciled(k, x, d) = [n |-> Remembered(k, d).n, severity |-> x.severity,
                               notify |-> FALSE, gen |-> Remembered(k, d).gen]
    BY <1>2 DEF Reconciled, Mints, Reopens, Opens
  <2>2. resolvedMemory[k] \in Memories
    BY <1>2 DEF Reopens, Remembered, TypeOK
  <2>3. Remembered(k, d) = [resolvedMemory[k] EXCEPT !.age = @ + d]
    BY <1>2 DEF Reopens, Remembered
  <2>4. QED
    BY <2>1, <2>2, <2>3 DEF Memories
<1>3. ASSUME Mints(k, x, d)
      PROVE  /\ Reconciled(k, x, d).n = minted[k] + 1
             /\ Reconciled(k, x, d).gen = 0
  <2>1. Reconciled(k, x, d) = [n |-> minted[k] + 1, severity |-> x.severity,
                               notify |-> FALSE, gen |-> 0]
    BY <1>3 DEF Reconciled, Mints, Reopens, Opens
  <2>2. QED
    BY <2>1
<1>4. QED
  BY <1>1, <1>2, <1>3

(* What scoring leaves of the reconciled incident.                         *)
LEMMA ScoredIdentity ==
  ASSUME TypeOK, NEW k \in Keys, NEW x \in Samples(k), NEW d \in Elapsed,
         NEW p \in BOOLEAN, WithinBounds(k, x, d, p), OpenAfter(k, x, d)
  PROVE  /\ Scored(k, x, d, p).n = Reconciled(k, x, d).n
         /\ Scored(k, x, d, p).gen =
              IF Bumps(k, x, d, p) THEN Reconciled(k, x, d).gen + 1
                                   ELSE Reconciled(k, x, d).gen
<1>1. Reconciled(k, x, d) \in Incidents
  BY ReconciledType DEF WithinBounds
<1>2. QED
  BY <1>1 DEF Scored, Incidents

(* A notification remembered inside the quiet period is no older than the  *)
(* incident it belongs to, so that incident is still remembered too.       *)
LEMMA RecentMemory ==
  ASSUME TypeOK, NEW k \in Keys, NEW d \in Elapsed,
         notifyMemory[k] # NeverNotified, resolvedMemory[k] # NoMemory,
         resolvedMemory[k].age <= notifyMemory[k].age,
         Aged(notifyMemory[k].age, d, QuietCap) <= Quiet
  PROVE  /\ Remembered(k, d) # NoMemory
         /\ Remembered(k, d).n = resolvedMemory[k].n
         /\ Remembered(k, d).gen = resolvedMemory[k].gen
         /\ Remembered(k, d).age <= Aged(notifyMemory[k].age, d, QuietCap)
<1>1. resolvedMemory[k] \in Memories /\ notifyMemory[k] \in Notified
  BY DEF TypeOK
<1>2. /\ resolvedMemory[k].n \in 1..MaxIds /\ resolvedMemory[k].age \in 0..Quiet
      /\ notifyMemory[k].age \in 0..QuietCap /\ d \in Nat /\ Quiet \in Nat
      /\ QuietCap = Quiet + 1
  BY <1>1, ConstantTypes, EngineConstants DEF Memories, Notified, QuietCap
<1>3. /\ Aged(notifyMemory[k].age, d, QuietCap) = notifyMemory[k].age + d
      /\ resolvedMemory[k].age + d <= Quiet
  BY <1>2 DEF Aged
<1>4. Remembered(k, d) = [resolvedMemory[k] EXCEPT !.age = @ + d]
  BY <1>3 DEF Remembered
<1>5. /\ Remembered(k, d).n = resolvedMemory[k].n
      /\ Remembered(k, d).gen = resolvedMemory[k].gen
      /\ Remembered(k, d).age = resolvedMemory[k].age + d
  BY <1>1, <1>4 DEF Memories
<1>6. Remembered(k, d) # NoMemory
  <2>1. resolvedMemory[k].n # 0
    BY <1>2, EngineConstants
  <2>2. NoMemory.n = 0
    BY DEF NoMemory
  <2>3. QED
    BY <1>5, <2>1, <2>2
<1>7. QED
  BY <1>2, <1>3, <1>5, <1>6

LEMMA BeliefsKept ==
  ASSUME TypeOK, NEW x \in Observations, NEW d \in Elapsed, NEW verdict \in Verdicts,
         Evaluate(x, d, verdict), NEW k \in Keys, StartsOver(k), BeliefsHold(k)
  PROVE  BeliefsHold(k)'
<1> DEFINE y == x[k]
           p == Pending(verdict)
<1>1. /\ y \in Samples(k) /\ WithinBounds(k, y, d, p) /\ p \in BOOLEAN
      /\ active'[k] = Scored(k, y, d, p)
      /\ active'[k].notify = Notify(k, y, d)
      /\ (active'[k] # Closed) <=> OpenAfter(k, y, d)
  BY EvaluateKey DEF Pending, Changed, TypeOK
<1>2. told \subseteq told' /\ (Notify(k, y, d) => Sent(k, active[k])')
  BY <1>1 DEF Evaluate, Sent
<1>3. /\ resolvedMemory'[k] = NextMemory(k, y, d)
      /\ notifyMemory'[k] = NextNotified(k, y, d, p)
      /\ reopenedFrom'[k] = NextReopenedFrom(k, y, d)
  BY DEF Evaluate
<1> HIDE DEF y, p
<1>4. Open(k) => resolvedMemory[k] = NoMemory
  BY DEF BeliefsHold
<1>5. OpenAfter(k, y, d) => resolvedMemory'[k] = NoMemory
  <2>1. SUFFICES ASSUME OpenAfter(k, y, d) PROVE NextMemory(k, y, d) = NoMemory
    BY <1>3
  <2>2. ~Closes(k, y, d)
    BY <2>1 DEF OpenAfter, Closes, Opens, Sustained
  <2>3. Opens(k, y) \/ Remembered(k, d) = NoMemory
    BY <1>4, <2>1 DEF OpenAfter, Remembered
  <2>4. QED
    BY <2>2, <2>3 DEF NextMemory
(* An incident that stays untold keeps the pair it had.                    *)
<1>6. ASSUME OpenAfter(k, y, d), ~Notify(k, y, d)
      PROVE  /\ Open(k) => (Sent(k, active[k]) => Sent(k, active[k])')
             /\ Reopens(k, y, d) => (Sent(k, resolvedMemory[k]) => Sent(k, active[k])')
             /\ notifyMemory'[k] = LastNotified(k, y, d)
  <2>1. ~Bumps(k, y, d, p)
    BY <1>6 DEF Bumps
  <2>2. /\ active'[k].n = Reconciled(k, y, d).n
        /\ active'[k].gen = Reconciled(k, y, d).gen
    BY <1>1, <1>6, <2>1, ScoredIdentity
  <2>3. notifyMemory'[k] = LastNotified(k, y, d)
    BY <1>3, <1>6 DEF NextNotified
  <2>4. QED
    BY <1>2, <2>2, <2>3, ReconciledIdentity DEF Sent
<1>7. LastNotified(k, y, d) # NeverNotified =>
        /\ notifyMemory[k] # NeverNotified
        /\ LastNotified(k, y, d).age = Aged(notifyMemory[k].age, d, QuietCap)
        /\ ~OpenAfter(k, y, d) => LastNotified(k, y, d).age <= Quiet
  BY DEF LastNotified
<1>8. notifyMemory[k] # NeverNotified /\ Aged(notifyMemory[k].age, d, QuietCap) <= Quiet
        => notifyMemory[k].age <= Quiet
  <2>1. SUFFICES ASSUME notifyMemory[k] # NeverNotified,
                        Aged(notifyMemory[k].age, d, QuietCap) <= Quiet
                 PROVE  notifyMemory[k].age <= Quiet
    OBVIOUS
  <2>2. notifyMemory[k].age \in 0..QuietCap /\ d \in Nat /\ QuietCap = Quiet + 1
    BY <2>1, ConstantTypes DEF TypeOK, Notified, QuietCap
  <2>3. QED
    BY <2>1, <2>2, EngineConstants DEF Aged
<1>9. ASSUME notifyMemory'[k] # NeverNotified, ~OpenAfter(k, y, d)
      PROVE  /\ resolvedMemory'[k] # NoMemory
             /\ resolvedMemory'[k].age <= notifyMemory'[k].age
             /\ Sent(k, resolvedMemory[k])'
  <2>1. notifyMemory'[k] = LastNotified(k, y, d)
    BY <1>3, <1>9 DEF NextNotified, Notify
  <2>2. /\ notifyMemory[k] # NeverNotified
        /\ notifyMemory'[k].age = Aged(notifyMemory[k].age, d, QuietCap)
        /\ notifyMemory'[k].age <= Quiet
        /\ notifyMemory[k].age <= Quiet
    BY <1>7, <1>8, <1>9, <2>1
  <2>3. CASE Open(k)
    <3>1. Closes(k, y, d) /\ ~Opens(k, y) /\ active[k] \in Incidents
      BY <1>9, <2>3 DEF OpenAfter, Opens, Open, TypeOK
    <3>2. resolvedMemory'[k] = [n |-> active[k].n, severity |-> active[k].severity,
                                gen |-> active[k].gen, age |-> 0]
      BY <1>3, <3>1 DEF NextMemory
    <3>3. active[k].n # 0 /\ Sent(k, active[k])
      BY <2>2, <2>3, <3>1, EngineConstants DEF Incidents, BeliefsHold
    <3>4. notifyMemory'[k].age >= 0
      <4>1. notifyMemory[k].age \in Nat /\ d \in Nat /\ QuietCap \in Nat
        BY <2>2, ConstantTypes DEF TypeOK, Notified
      <4>2. QED
        BY <2>2, <4>1 DEF Aged
    <3>5. QED
      BY <1>2, <3>2, <3>3, <3>4 DEF NoMemory, Sent
  <2>4. CASE ~Open(k)
    <3>1. /\ resolvedMemory[k] # NoMemory /\ Sent(k, resolvedMemory[k])
          /\ resolvedMemory[k].age <= notifyMemory[k].age
      BY <2>2, <2>4 DEF BeliefsHold
    <3>2. /\ Remembered(k, d) # NoMemory
          /\ Remembered(k, d).n = resolvedMemory[k].n
          /\ Remembered(k, d).gen = resolvedMemory[k].gen
          /\ Remembered(k, d).age <= notifyMemory'[k].age
      BY <2>2, <3>1, RecentMemory
    <3>3. resolvedMemory'[k] = Remembered(k, d)
      BY <1>3, <1>9, <2>4 DEF NextMemory, Closes, OpenAfter
    <3>4. QED
      BY <1>2, <3>1, <3>2, <3>3 DEF Sent
  <2>5. QED
    BY <2>3, <2>4
<1>10. ASSUME notifyMemory'[k] # NeverNotified, OpenAfter(k, y, d),
              reopenedFrom'[k] # None
       PROVE  Sent(k, active[k])'
  <2>1. ~Notify(k, y, d) /\ ReopenedFrom(k, y, d) # None
    BY <1>3, <1>10 DEF NextReopenedFrom
  <2>2. notifyMemory[k] # NeverNotified
    BY <1>6, <1>7, <1>10, <2>1
  <2>3. CASE Reopens(k, y, d)
    <3>1. Sent(k, resolvedMemory[k])
      BY <2>2, <2>3 DEF Reopens, Opens, BeliefsHold
    <3>2. QED
      BY <1>6, <1>10, <2>1, <2>3, <3>1
  <2>4. CASE ~Reopens(k, y, d)
    <3>1. reopenedFrom[k] # None /\ Open(k)
      BY <2>1, <2>4 DEF ReopenedFrom, StartsOver
    <3>2. Sent(k, active[k])
      BY <2>2, <3>1 DEF BeliefsHold
    <3>3. QED
      BY <1>6, <1>10, <2>1, <3>1, <3>2
  <2>5. QED
    BY <2>3, <2>4
<1>11. ASSUME notifyMemory'[k] # NeverNotified, OpenAfter(k, y, d),
              notifyMemory'[k].age <= Quiet
       PROVE  Sent(k, active[k])'
  <2>1. CASE Notify(k, y, d)
    BY <1>2, <2>1
  <2>2. CASE ~Notify(k, y, d)
    <3>1. /\ notifyMemory[k] # NeverNotified
          /\ Aged(notifyMemory[k].age, d, QuietCap) <= Quiet
      BY <1>6, <1>7, <1>11, <2>2
    <3>2. CASE Open(k)
      <4>1. Sent(k, active[k])
        BY <1>8, <3>1, <3>2 DEF BeliefsHold
      <4>2. QED
        BY <1>6, <1>11, <2>2, <3>2, <4>1
    <3>3. CASE ~Open(k)
      <4>1. /\ resolvedMemory[k] # NoMemory /\ Sent(k, resolvedMemory[k])
            /\ resolvedMemory[k].age <= notifyMemory[k].age
        BY <3>1, <3>3 DEF BeliefsHold
      <4>2. Remembered(k, d) # NoMemory
        BY <3>1, <4>1, RecentMemory
      <4>3. Reopens(k, y, d)
        BY <1>11, <3>3, <4>2 DEF OpenAfter, Reopens
      <4>4. QED
        BY <1>6, <1>11, <2>2, <4>1, <4>3
    <3>4. QED
      BY <3>2, <3>3
  <2>3. QED
    BY <2>1, <2>2
<1>12. active'[k].notify => Sent(k, active[k])'
  BY <1>1, <1>2
<1>13. QED
  BY <1>1, <1>5, <1>9, <1>10, <1>11, <1>12 DEF BeliefsHold, Open

(* A restart leaves every key closed, its exit terms gone and nothing      *)
(* believed told.                                                          *)
LEMMA RestartInductive ==
  ASSUME NEW d \in Elapsed, Restart(d), NEW k \in Keys
  PROVE  StartsOver(k)' /\ ExitsHeld(k)' /\ BeliefsHold(k)'
BY DEF Restart, StartsOver, ExitsHeld, BeliefsHold, Open, Closed

LEMMA NextInductive == Inductive /\ [Next]_vars => Inductive'
<1> SUFFICES ASSUME Inductive, [Next]_vars PROVE Inductive'
  OBVIOUS
<1>1. TypeOK'
  BY NextTypeOK DEF Inductive
<1>2. ASSUME NEW k \in Keys PROVE StartsOver(k)' /\ ExitsHeld(k)' /\ BeliefsHold(k)'
  <2>1. TypeOK /\ StartsOver(k) /\ ExitsHeld(k) /\ BeliefsHold(k)
    BY DEF Inductive
  <2>2. ASSUME NEW x \in Observations, NEW d \in Elapsed,
               NEW verdict \in (IF Attributed = {} THEN {"none"} ELSE Verdicts),
               Evaluate(x, d, verdict)
        PROVE  StartsOver(k)' /\ ExitsHeld(k)' /\ BeliefsHold(k)'
    <3>1. verdict \in Verdicts
      BY DEF Verdicts
    <3>2. QED
      BY <2>1, <2>2, <3>1, StartsOverKept, ExitsHeldKept, BeliefsKept
  <2>3. ASSUME UNCHANGED <<keyVars, minted, historyVars>>
        PROVE  StartsOver(k)' /\ ExitsHeld(k)' /\ BeliefsHold(k)'
    BY <2>1, <2>3 DEF keyVars, historyVars, StartsOver, ExitsHeld, BeliefsHold, Sent, Open
  <2>4. ASSUME NEW w \in Windows, UpdateSettings(w)
        PROVE  StartsOver(k)' /\ ExitsHeld(k)' /\ BeliefsHold(k)'
    BY <2>3, <2>4 DEF UpdateSettings
  <2>5. CASE LearningEnds
    BY <2>3, <2>5 DEF LearningEnds
  <2>6. ASSUME NEW d \in Elapsed, Restart(d)
        PROVE  StartsOver(k)' /\ ExitsHeld(k)' /\ BeliefsHold(k)'
    BY <2>6, RestartInductive
  <2>7. CASE UNCHANGED vars
    BY <2>3, <2>7 DEF vars
  <2>8. QED
    BY <2>2, <2>4, <2>5, <2>6, <2>7 DEF Next
<1>3. QED
  BY <1>1, <1>2 DEF Inductive

LEMMA EngineInductive == Spec => []Inductive
<1>1. QED
  BY InitInductive, NextInductive, PTL DEF Spec

(* A key that is not open carries no exit hold, no exit clock and no       *)
(* reopen baseline into its next incident, and its streak is exactly the   *)
(* breaches it has just had: AlertEngine's retains miss nothing.           *)
THEOREM ClosedStartOver == Spec => []ClosedKeysStartOver
<1>1. Inductive => ClosedKeysStartOver
  BY DEF Inductive, ClosedKeysStartOver, StartsOver
<1>2. QED
  BY <1>1, EngineInductive, PTL

LEMMA OpensStep ==
  ASSUME Inductive, [Next]_vars, NEW k \in Keys, ~Open(k), Open(k)'
  PROVE  run'[k] >= required
<1>1. TypeOK /\ StartsOver(k)
  BY DEF Inductive
<1>2. ASSUME NEW x \in Observations, NEW d \in Elapsed,
             NEW verdict \in (IF Attributed = {} THEN {"none"} ELSE Verdicts),
             Evaluate(x, d, verdict)
      PROVE  run'[k] >= required
  <2>1. verdict \in Verdicts
    BY DEF Verdicts
  <2>2. OpenAfter(k, x[k], d)
    BY <1>1, <1>2, <2>1, EvaluateKey DEF Open
  <2>3. Breach(x[k]) /\ Streak(k) >= required
    BY <2>2 DEF OpenAfter, Opens, Sustained
  <2>4. run'[k] = Streak(k)
    BY <1>1, <1>2, <2>3 DEF Evaluate, NextRun, Streak, StartsOver
  <2>5. QED
    BY <2>3, <2>4
<1>3. QED
  BY <1>2 DEF Next, UpdateSettings, LearningEnds, Restart, vars, keyVars, Open

(* No incident opens on fewer unbroken breaches than settings ask for at   *)
(* that moment.                                                            *)
THEOREM OpensOnlySustained == Spec => OpensSustained
<1>1. Inductive /\ [Next]_vars =>
        [\A k \in Keys : ~Open(k) /\ Open(k)' => run'[k] >= required]_vars
  BY OpensStep
<1>2. QED
  BY <1>1, EngineInductive, PTL DEF Spec, OpensSustained

LEMMA ClosesServed ==
  ASSUME Inductive, NEW x \in Observations, NEW d \in Elapsed, NEW verdict \in Verdicts,
         Evaluate(x, d, verdict), NEW k \in Keys, Open(k), ~Open(k)'
  PROVE  calm'[k] >= guards[k]
<1>1. TypeOK /\ ExitsHeld(k)
  BY DEF Inductive
<1>2. x[k] \in Samples(k) /\ ~OpenAfter(k, x[k], d)
  BY <1>1, EvaluateKey DEF Open
<1>3. ~Breach(x[k]) /\ Clears(k, x[k], d)
  BY <1>2 DEF OpenAfter, Closes
<1>4. calm'[k] = NextCalm(k, x[k], d)
  BY DEF Evaluate
<1>5. /\ guards[k] \in Windows \cup {0} /\ calm[k] \in 0..MaxWindow \cup {None}
      /\ belowFor[k] \in 0..MaxWindow \cup {None} /\ d \in Nat /\ MaxWindow \in Nat
  BY <1>1, ConstantTypes DEF TypeOK
<1>6. CASE x[k].sees \in {"gone", "recovered"}
  <2>1. calm'[k] = MaxWindow
    BY <1>4, <1>6 DEF NextCalm
  <2>2. QED
    BY <1>5, <2>1, ConstantTypes
<1>7. CASE x[k].sees \in {"loud", "quiet"}
  <2>1. k \in Guarded
    BY <1>2, <1>3, <1>7 DEF Samples, Absent, Breach
  <2>2. x[k].sees = "quiet" /\ ExitClock(k, d) >= guards[k]
    BY <1>1, <1>3, <1>7, <2>1 DEF Clears, ExitsHeld
  <2>3. calm'[k] = IF calm[k] = None THEN 0 ELSE Aged(calm[k], d, MaxWindow)
    BY <1>4, <2>2 DEF NextCalm
  <2>4. belowFor[k] # None => calm[k] >= belowFor[k]
    BY <1>1 DEF ExitsHeld
  <2>5. calm'[k] >= ExitClock(k, d) /\ calm'[k] \in Int /\ ExitClock(k, d) \in Int
    BY <1>5, <2>3, <2>4 DEF ExitClock, Aged
  <2>6. guards[k] \in Int
    BY <1>5, ConstantTypes
  <2>7. QED
    BY <2>2, <2>5, <2>6
<1>8. QED
  BY <1>3, <1>6, <1>7 DEF Clears

(* A value-shaped incident never closes before its exit hold is served,    *)
(* whatever the settings did to the window while it was open.              *)
THEOREM HoldAlwaysServed == Spec => HoldServed
<1>1. ASSUME Inductive, [Next]_vars, NEW k \in Keys, Open(k), ~Open(k)'
      PROVE  calm'[k] >= guards[k]
  <2>1. ASSUME NEW x \in Observations, NEW d \in Elapsed,
               NEW verdict \in (IF Attributed = {} THEN {"none"} ELSE Verdicts),
               Evaluate(x, d, verdict)
        PROVE  calm'[k] >= guards[k]
    BY <1>1, <2>1, ClosesServed DEF Verdicts
  <2>2. ASSUME NEW d \in Elapsed, Restart(d) PROVE calm'[k] >= guards[k]
    <3>1. calm'[k] = MaxWindow
      BY <2>2 DEF Restart
    <3>2. guards[k] \in Windows \cup {0}
      BY <1>1 DEF Inductive, TypeOK
    <3>3. QED
      BY <3>1, <3>2, ConstantTypes
  <2>3. QED
    BY <1>1, <2>1, <2>2 DEF Next, UpdateSettings, LearningEnds, vars, keyVars, Open
<1>2. Inductive /\ [Next]_vars =>
        [\A k \in Keys : Open(k) /\ ~Open(k)' => calm'[k] >= guards[k]]_vars
  BY <1>1
<1>3. QED
  BY <1>2, EngineInductive, PTL DEF Spec, HoldServed

-----------------------------------------------------------------------------
(* The engine implements the ledger.                                       *)

Entry(inc)  == [n |-> inc.n, gen |-> inc.gen, notify |-> inc.notify]
Record(mem) == [n |-> mem.n, gen |-> mem.gen]

LEMMA EntryClosed ==
  /\ Entry(Closed) = Ledger!Closed /\ Record(NoMemory) = Ledger!Nothing
  /\ \A inc \in Incidents : Entry(inc) # Ledger!Closed
  /\ \A mem \in Memories : Record(mem) # Ledger!Nothing
<1>1. Entry(Closed) = Ledger!Closed
  BY DEF Entry, Closed, Ledger!Closed
<1>2. Record(NoMemory) = Ledger!Nothing
  BY DEF Record, NoMemory, Ledger!Nothing
<1>3. ASSUME NEW inc \in Incidents PROVE Entry(inc) # Ledger!Closed
  <2>1. inc.n # 0 /\ Entry(inc).n = inc.n /\ Ledger!Closed.n = 0
    <3>1. inc.n \in 1..MaxIds
      BY DEF Incidents
    <3>2. inc.n # 0
      BY <3>1, EngineConstants
    <3>3. QED
      BY <3>2 DEF Entry, Ledger!Closed
  <2>2. QED
    BY <2>1
<1>4. ASSUME NEW mem \in Memories PROVE Record(mem) # Ledger!Nothing
  <2>1. mem.n # 0 /\ Record(mem).n = mem.n /\ Ledger!Nothing.n = 0
    <3>1. mem.n \in 1..MaxIds
      BY DEF Memories
    <3>2. mem.n # 0
      BY <3>1, EngineConstants
    <3>3. QED
      BY <3>2 DEF Record, Ledger!Nothing
  <2>2. QED
    BY <2>1
<1>5. QED
  BY <1>1, <1>2, <1>3, <1>4

(* A generation moves only past a pair that has been told.                 *)
LEMMA BumpsTold ==
  ASSUME TypeOK, NEW k \in Keys, NEW x \in Samples(k), NEW d \in Elapsed,
         NEW p \in BOOLEAN, WithinBounds(k, x, d, p),
         StartsOver(k), BeliefsHold(k), Bumps(k, x, d, p)
  PROVE  /\ ~Mints(k, x, d)
         /\ Sent(k, Reconciled(k, x, d))
<1>1. WasNotifying(k, x, d)
  BY DEF Bumps
<1>2. CASE Reopens(k, x, d)
  <2>1. Remembered(k, d) # NoMemory /\ ~Open(k) /\ ReopenedFrom(k, x, d) = Remembered(k, d).severity
    BY <1>2 DEF Reopens, Opens, ReopenedFrom
  <2>2. Remembered(k, d).severity # None
    BY <2>1, RememberedType DEF Memories, Severities
  <2>3. notifyMemory[k] # NeverNotified
    BY <1>1, <2>1, <2>2 DEF WasNotifying, LastNotified
  <2>4. Sent(k, resolvedMemory[k])
    BY <2>1, <2>3 DEF BeliefsHold
  <2>5. QED
    BY <1>2, <2>4, ReconciledIdentity DEF Sent, Mints, Reopens
<1>3. CASE ~Reopens(k, x, d)
  <2>1. Open(k) /\ Sent(k, active[k])
    <3>1. CASE reopenedFrom[k] # None
      <4>1. Open(k) /\ notifyMemory[k] # NeverNotified
        BY <1>1, <1>3, <3>1 DEF WasNotifying, ReopenedFrom, LastNotified, StartsOver
      <4>2. QED
        BY <3>1, <4>1 DEF BeliefsHold
    <3>2. CASE reopenedFrom[k] = None
      BY <1>1, <1>3, <3>2 DEF WasNotifying, ReopenedFrom, BeliefsHold
    <3>3. QED
      BY <3>1, <3>2
  <2>2. QED
    BY <2>1, ReconciledIdentity DEF Sent, Mints, Opens
<1>4. QED
  BY <1>2, <1>3

(* What an open incident's pair may be after an evaluation.                *)
LEMMA PairMoves ==
  ASSUME TypeOK, NEW k \in Keys, NEW x \in Samples(k), NEW d \in Elapsed,
         NEW p \in BOOLEAN, WithinBounds(k, x, d, p), OpenAfter(k, x, d),
         StartsOver(k), BeliefsHold(k)
  PROVE  LET inc == Scored(k, x, d, p)
             was == Reconciled(k, x, d)
         IN  /\ inc.n = was.n
             /\ \/ inc.gen = was.gen
                \/ inc.gen = was.gen + 1 /\ inc.notify /\ Sent(k, was) /\ ~Mints(k, x, d)
<1>1. CASE Bumps(k, x, d, p)
  BY <1>1, ScoredIdentity, ScoredType, BumpsTold DEF Bumps
<1>2. CASE ~Bumps(k, x, d, p)
  BY <1>2, ScoredIdentity
<1>3. QED
  BY <1>1, <1>2

LEMMA LedgerKeyStep ==
  ASSUME Inductive, NEW x \in Observations, NEW d \in Elapsed, NEW verdict \in Verdicts,
         Evaluate(x, d, verdict), NEW k \in Keys
  PROVE  Ledger!Step(k, <<Entry(active'[k]), Record(resolvedMemory'[k]), minted'[k]>>)
<1> DEFINE y == x[k]
           p == Pending(verdict)
           o == <<Entry(active'[k]), Record(resolvedMemory'[k]), minted'[k]>>
<1>1. TypeOK /\ StartsOver(k) /\ BeliefsHold(k)
  BY DEF Inductive
<1>2. /\ y \in Samples(k) /\ WithinBounds(k, y, d, p) /\ p \in BOOLEAN
      /\ active'[k] = Scored(k, y, d, p)
      /\ active'[k].notify = Notify(k, y, d)
      /\ (active'[k] # Closed) <=> OpenAfter(k, y, d)
      /\ active'[k].notify \in BOOLEAN
  BY <1>1, EvaluateKey DEF Pending, Changed, TypeOK, Notify
<1>3. /\ resolvedMemory'[k] = NextMemory(k, y, d)
      /\ minted'[k] = IF Mints(k, y, d) THEN minted[k] + 1 ELSE minted[k]
  BY DEF Evaluate
<1>4. OpenAfter(k, y, d) => resolvedMemory'[k] = NoMemory
  BY <1>1, <1>2, BeliefsKept DEF BeliefsHold, Open
<1>5. /\ [key \in Keys |-> [n |-> active[key].n, gen |-> active[key].gen,
                            notify |-> active[key].notify]][k] = Entry(active[k])
      /\ [key \in Keys |-> [n |-> resolvedMemory[key].n,
                            gen |-> resolvedMemory[key].gen]][k] = Record(resolvedMemory[k])
  BY DEF Entry, Record
<1>6. /\ Open(k) => active[k] \in Incidents /\ Entry(active[k]) # Ledger!Closed
      /\ ~Open(k) => Entry(active[k]) = Ledger!Closed
      /\ resolvedMemory[k] # NoMemory => Record(resolvedMemory[k]) # Ledger!Nothing
  BY <1>1, EntryClosed DEF Open, TypeOK
<1>7. /\ o[1] = Entry(active'[k]) /\ o[2] = Record(resolvedMemory'[k]) /\ o[3] = minted'[k]
      /\ \A inc : /\ Entry(inc).n = inc.n /\ Entry(inc).gen = inc.gen
                  /\ Entry(inc).notify = inc.notify
      /\ \A mem : Record(mem).n = mem.n /\ Record(mem).gen = mem.gen
  BY DEF Entry, Record
<1> HIDE DEF y, p, o
<1>8. CASE ~OpenAfter(k, y, d) /\ ~Open(k)
  <2>1. active'[k] = Closed /\ minted'[k] = minted[k]
    BY <1>2, <1>3, <1>8 DEF OpenAfter, Mints
  <2>2. resolvedMemory'[k] = Remembered(k, d)
    BY <1>3, <1>8 DEF NextMemory, Closes, OpenAfter
  <2>3. Record(Remembered(k, d)) \in {Record(resolvedMemory[k]), Ledger!Nothing}
    <3>1. CASE Remembered(k, d) = NoMemory
      BY <3>1, EntryClosed
    <3>2. CASE Remembered(k, d) # NoMemory
      <4>1. /\ Remembered(k, d) = [resolvedMemory[k] EXCEPT !.age = @ + d]
            /\ resolvedMemory[k] \in Memories
        BY <1>1, <3>2 DEF Remembered, TypeOK
      <4>2. QED
        BY <4>1 DEF Record, Memories
    <3>3. QED
      BY <3>1, <3>2
  <2>4. Ledger!Stays(k, o)
    BY <1>5, <1>6, <1>7, <1>8, <2>1, <2>2, <2>3, EntryClosed DEF Ledger!Stays
  <2>5. QED
    BY <2>4 DEF Ledger!Step, o
<1>9. CASE ~OpenAfter(k, y, d) /\ Open(k)
  <2>1. Closes(k, y, d) /\ ~Opens(k, y) /\ active'[k] = Closed /\ minted'[k] = minted[k]
    BY <1>2, <1>3, <1>9 DEF OpenAfter, Mints, Opens
  <2>2. resolvedMemory'[k] = [n |-> active[k].n, severity |-> active[k].severity,
                              gen |-> active[k].gen, age |-> 0]
    BY <1>3, <2>1 DEF NextMemory
  <2>3. Record(resolvedMemory'[k]) = [n |-> Entry(active[k]).n, gen |-> Entry(active[k]).gen]
    BY <1>7, <2>2 DEF Record
  <2>4. Ledger!Closes(k, o)
    BY <1>5, <1>6, <1>7, <1>9, <2>1, <2>3, EntryClosed DEF Ledger!Closes
  <2>5. QED
    BY <2>4 DEF Ledger!Step, o
<1>10. CASE OpenAfter(k, y, d)
  <2>1. Record(resolvedMemory'[k]) = Ledger!Nothing
    BY <1>4, <1>10, EntryClosed
  <2>2. /\ active'[k].n = Reconciled(k, y, d).n
        /\ \/ active'[k].gen = Reconciled(k, y, d).gen
           \/ /\ active'[k].gen = Reconciled(k, y, d).gen + 1
              /\ active'[k].notify /\ Sent(k, Reconciled(k, y, d)) /\ ~Mints(k, y, d)
    BY <1>1, <1>2, <1>10, PairMoves
  <2>3. CASE Open(k)
    <3>1. /\ Reconciled(k, y, d).n = Entry(active[k]).n
          /\ Reconciled(k, y, d).gen = Entry(active[k]).gen
      BY <1>1, <1>7, <2>3, ReconciledIdentity
    <3>2. Ledger!Renotifies(k, Entry(active[k]).n, Entry(active[k]).gen, o[1])
      BY <1>7, <2>2, <3>1 DEF Ledger!Renotifies, Sent
    <3>3. /\ Record(resolvedMemory[k]) = Ledger!Nothing
          /\ minted'[k] = minted[k]
      BY <1>1, <1>3, <2>3, EntryClosed DEF BeliefsHold, Mints, Opens
    <3>4. Ledger!Updates(k, o)
      BY <1>5, <1>6, <1>7, <2>1, <2>3, <3>2, <3>3 DEF Ledger!Updates
    <3>5. QED
      BY <3>4 DEF Ledger!Step, o
  <2>4. CASE Mints(k, y, d)
    <3>1. active'[k].n = minted[k] + 1 /\ active'[k].gen = 0
      BY <1>1, <2>2, <2>4, ReconciledIdentity
    <3>2. Entry(active'[k]) = [n |-> minted[k] + 1, gen |-> 0, notify |-> active'[k].notify]
      BY <3>1 DEF Entry
    <3>3. Ledger!Mints(k, o)
      BY <1>2, <1>3, <1>5, <1>6, <1>7, <2>1, <2>4, <3>2 DEF Ledger!Mints, Mints, Opens
    <3>4. QED
      BY <3>3 DEF Ledger!Step, o
  <2>5. CASE Reopens(k, y, d)
    <3>1. ~Open(k) /\ resolvedMemory[k] # NoMemory /\ minted'[k] = minted[k]
      BY <1>3, <2>5 DEF Reopens, Opens, Remembered, Mints
    <3>2. /\ Reconciled(k, y, d).n = Record(resolvedMemory[k]).n
          /\ Reconciled(k, y, d).gen = Record(resolvedMemory[k]).gen
      BY <1>1, <1>7, <2>5, ReconciledIdentity
    <3>3. Ledger!Renotifies(k, Record(resolvedMemory[k]).n, Record(resolvedMemory[k]).gen, o[1])
      BY <1>7, <2>2, <3>2 DEF Ledger!Renotifies, Sent
    <3>4. Ledger!Reopens(k, o)
      BY <1>5, <1>6, <1>7, <2>1, <3>1, <3>3 DEF Ledger!Reopens
    <3>5. QED
      BY <3>4 DEF Ledger!Step, o
  <2>6. QED
    BY <1>10, <2>3, <2>4, <2>5 DEF OpenAfter, Mints, Reopens
<1>11. QED
  BY <1>8, <1>9, <1>10

(* The ledger variables, as the refinement mapping reads them.             *)
LedgerNow == [k \in Keys |-> [n |-> active[k].n, gen |-> active[k].gen,
                              notify |-> active[k].notify]]
LastNow   == [k \in Keys |-> [n |-> resolvedMemory[k].n, gen |-> resolvedMemory[k].gen]]

LEMMA LedgerEvaluates ==
  ASSUME Inductive, NEW x \in Observations, NEW d \in Elapsed, NEW verdict \in Verdicts,
         Evaluate(x, d, verdict)
  PROVE  Ledger!Evaluate
<1>1. ASSUME NEW k \in Keys
      PROVE  Ledger!Step(k, <<LedgerNow'[k], LastNow'[k], minted'[k]>>)
  <2>1. LedgerNow'[k] = Entry(active'[k]) /\ LastNow'[k] = Record(resolvedMemory'[k])
    BY DEF LedgerNow, LastNow, Entry, Record
  <2>2. QED
    BY <2>1, LedgerKeyStep
<1>2. \A k \in Keys : /\ LedgerNow'[k].n = active'[k].n /\ LedgerNow'[k].gen = active'[k].gen
                      /\ LedgerNow'[k].notify = active'[k].notify
  BY DEF LedgerNow
<1>3. told' = told \cup {<<k, LedgerNow'[k].n, LedgerNow'[k].gen>> :
                           k \in {key \in Keys : LedgerNow'[key].notify}}
  <2>1. told' = told \cup {<<k, active'[k].n, active'[k].gen>> :
                             k \in {key \in Keys : active'[key].notify}}
    BY DEF Evaluate
  <2>2. QED
    BY <1>2, <2>1
<1>4. QED
  BY <1>1, <1>3 DEF Ledger!Evaluate, LedgerNow, LastNow

LEMMA LedgerRestarts ==
  ASSUME Inductive, NEW d \in Elapsed, Restart(d)
  PROVE  Ledger!Evaluate
<1>1. \A k \in Keys : active'[k] = Closed /\ LedgerNow'[k] = Ledger!Closed
  BY EntryClosed DEF Restart, LedgerNow, Entry
<1>2. told' = told \cup {<<k, LedgerNow'[k].n, LedgerNow'[k].gen>> :
                           k \in {key \in Keys : LedgerNow'[key].notify}}
  <2>1. told' = told /\ \A k \in Keys : ~LedgerNow'[k].notify
    BY <1>1 DEF Restart, Ledger!Closed
  <2>2. QED
    BY <2>1
<1>3. ASSUME NEW k \in Keys
      PROVE  Ledger!Step(k, <<LedgerNow'[k], LastNow'[k], minted'[k]>>)
  <2> DEFINE o == <<LedgerNow'[k], LastNow'[k], minted'[k]>>
  <2>1. /\ o[1] = Ledger!Closed /\ o[2] = Record(resolvedMemory'[k]) /\ o[3] = minted[k]
        /\ LedgerNow[k] = Entry(active[k]) /\ LastNow[k] = Record(resolvedMemory[k])
    BY <1>1 DEF Restart, LedgerNow, LastNow, Entry, Record
  <2> HIDE DEF o
  <2>2. TypeOK
    BY DEF Inductive
  <2>3. CASE Open(k)
    <3>1. resolvedMemory'[k] = [n |-> active[k].n, severity |-> active[k].severity,
                                gen |-> active[k].gen, age |-> 0]
      BY <2>3 DEF Restart
    <3>2. Record(resolvedMemory'[k]) = [n |-> Entry(active[k]).n, gen |-> Entry(active[k]).gen]
      BY <3>1 DEF Record, Entry
    <3>3. Entry(active[k]) # Ledger!Closed
      BY <2>2, <2>3, EntryClosed DEF Open, TypeOK
    <3>4. Ledger!Closes(k, o)
      BY <2>1, <3>2, <3>3 DEF Ledger!Closes, LedgerNow
    <3>5. QED
      BY <3>4 DEF Ledger!Step, o
  <2>4. CASE ~Open(k)
    <3>1. resolvedMemory'[k] = Remembered(k, d)
      BY <2>4 DEF Restart
    <3>2. Record(Remembered(k, d)) \in {Record(resolvedMemory[k]), Ledger!Nothing}
      <4>1. CASE Remembered(k, d) = NoMemory
        BY <4>1, EntryClosed
      <4>2. CASE Remembered(k, d) # NoMemory
        <5>1. /\ Remembered(k, d) = [resolvedMemory[k] EXCEPT !.age = @ + d]
              /\ resolvedMemory[k] \in Memories
          BY <2>2, <4>2 DEF Remembered, TypeOK
        <5>2. QED
          BY <5>1 DEF Record, Memories
      <4>3. QED
        BY <4>1, <4>2
    <3>3. Entry(active[k]) = Ledger!Closed
      BY <2>4, EntryClosed DEF Open
    <3>4. Ledger!Stays(k, o)
      BY <2>1, <3>1, <3>2, <3>3 DEF Ledger!Stays, LedgerNow, LastNow
    <3>5. QED
      BY <3>4 DEF Ledger!Step, o
  <2>5. QED
    BY <2>3, <2>4
<1>4. QED
  BY <1>2, <1>3 DEF Ledger!Evaluate, LedgerNow, LastNow

LEMMA LedgerStutters ==
  ASSUME UNCHANGED <<active, resolvedMemory, minted, told>>
  PROVE  UNCHANGED Ledger!ledgerVars
BY DEF Ledger!ledgerVars

(* Everything downstream may rely on the ledger: one incident per          *)
(* fingerprint, identities never reused, a generation that moves by one    *)
(* and only past a pair that was published as notifiable.                  *)
THEOREM ImplementsLedger == Spec => LedgerSpec
<1>1. Init => Ledger!Init
  BY EntryClosed DEF Init, Ledger!Init, Closed, NoMemory, Ledger!Closed, Ledger!Nothing
<1>2. Inductive /\ [Next]_vars => [Ledger!Evaluate]_(Ledger!ledgerVars)
  <2> SUFFICES ASSUME Inductive, [Next]_vars
               PROVE  Ledger!Evaluate \/ UNCHANGED Ledger!ledgerVars
    OBVIOUS
  <2>1. ASSUME NEW x \in Observations, NEW d \in Elapsed,
               NEW verdict \in (IF Attributed = {} THEN {"none"} ELSE Verdicts),
               Evaluate(x, d, verdict)
        PROVE  Ledger!Evaluate
    BY <2>1, LedgerEvaluates DEF Verdicts
  <2>2. ASSUME NEW w \in Windows, UpdateSettings(w) PROVE UNCHANGED Ledger!ledgerVars
    BY <2>2, LedgerStutters DEF UpdateSettings, keyVars, historyVars
  <2>3. CASE LearningEnds
    BY <2>3, LedgerStutters DEF LearningEnds, keyVars, historyVars
  <2>4. ASSUME NEW d \in Elapsed, Restart(d) PROVE Ledger!Evaluate
    BY <2>4, LedgerRestarts
  <2>5. CASE UNCHANGED vars
    BY <2>5, LedgerStutters DEF vars, keyVars, historyVars
  <2>6. QED
    BY <2>1, <2>2, <2>3, <2>4, <2>5 DEF Next
<1>3. QED
  BY <1>1, <1>2, EngineInductive, PTL DEF Spec, LedgerSpec, Ledger!Spec
=============================================================================
