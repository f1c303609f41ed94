-------------------------- MODULE SamplingPassProofs --------------------------
(* Proofs about SamplingPass, for any findings, dumps and bounds: what each *)
(* engine keeps holds in the whole pass, and the invariants that relate the *)
(* engines to the alert table and to the snapshot.                          *)
EXTENDS SamplingPass, FiniteSetTheorems, SequenceTheorems, TLAPS

-----------------------------------------------------------------------------
(* Interrupt attribution, for any drivers and families, any set of traces, *)
(* any spacings, and rings of any (for the last theorem: any even) length. *)

(* The kernel session and the trace handle, by the point the sampling      *)
(* thread has reached.                                                     *)

CaptureInv ==
  /\ step \in Steps
  /\ trace <=> step \in {"spawn", "tracing", "join", "refused"}
  /\ step \in {"idle", "start", "join", "refused"} => kernel # "ours"

LEMMA InitCaptureInv == Init => CaptureInv
BY DEF Init, CaptureInv, Steps

LEMMA NextCaptureInv == CaptureInv /\ [Next]_rcVars => CaptureInv'
<1> SUFFICES ASSUME CaptureInv, [Next]_rcVars PROVE CaptureInv'
  OBVIOUS
<1> USE DEF CaptureInv, Steps
<1>1. ASSUME NEW ids, NEW d, Observe(ids, d) PROVE CaptureInv'
  BY <1>1 DEF Observe, NothingOpen, NotDue, CaptureDue
<1>2. CASE SessionStarts
  BY <1>2 DEF SessionStarts
<1>3. CASE SessionDenied
  BY <1>3 DEF SessionDenied, Failed
<1>4. CASE TraceOpens
  BY <1>4 DEF TraceOpens
<1>5. CASE TraceRefused
  BY <1>5 DEF TraceRefused, Failed, StopSession, StopAccepted, StopRefused
<1>6. CASE ConsumerSpawns
  BY <1>6 DEF ConsumerSpawns
<1>7. CASE ConsumerFails
  BY <1>7 DEF ConsumerFails, Failed, StopSession, StopAccepted, StopRefused
<1>8. CASE WindowEnds
  BY <1>8 DEF WindowEnds, StopAccepted, StopRefused
<1>9. ASSUME NEW t \in Traces, Decoded(t) PROVE CaptureInv'
  BY <1>9 DEF Decoded
<1>10. CASE NothingDecoded
  BY <1>10 DEF NothingDecoded
<1>11. CASE JoinFails
  BY <1>11 DEF JoinFails, Failed
<1>12. CASE StoppedByOthers
  BY <1>12 DEF StoppedByOthers
<1>13. CASE Dies
  BY <1>13 DEF Dies
<1>14. CASE UNCHANGED rcVars
  BY <1>14 DEF rcVars
<1>15. QED
  BY <1>1, <1>2, <1>3, <1>4, <1>5, <1>6, <1>7, <1>8, <1>9, <1>10, <1>11,
     <1>12, <1>13, <1>14 DEF Next, Pass, CaptureStep

(* An idle collector has no session it has not asked to stop and no handle *)
(* on one, by whichever of the five returns it left the capture.           *)
THEOREM NothingLeft == Init /\ [][Next]_rcVars => []NothingLeftRunning
<1>1. CaptureInv => NothingLeftRunning
  BY DEF CaptureInv, NothingLeftRunning
<1>2. QED
  BY <1>1, InitCaptureInv, NextCaptureInv, PTL

-----------------------------------------------------------------------------
(* Whose evidence is kept.                                                 *)

GraceInv == OnlyOpenFindingsSpeak /\ stale \subseteq DOMAIN found

LEMMA InitGraceInv == Init => GraceInv
BY DEF Init, GraceInv, OnlyOpenFindingsSpeak

LEMMA NextGraceInv == GraceInv /\ [Next]_rcVars => GraceInv'
<1> SUFFICES ASSUME GraceInv, [Next]_rcVars PROVE GraceInv'
  OBVIOUS
<1> USE DEF GraceInv, OnlyOpenFindingsSpeak
<1>1. ASSUME NEW ids, Retain(ids) PROVE GraceInv'
  BY <1>1 DEF Retain
<1>2. ASSUME NEW h, Attempted(h), UNCHANGED <<open, stale>> PROVE GraceInv'
  BY <1>2 DEF Attempted
<1>3. ASSUME NEW ids, NEW d, Observe(ids, d) PROVE GraceInv'
  BY <1>1, <1>3 DEF Observe, NothingOpen, NotDue, CaptureDue
<1>4. CASE SessionDenied \/ TraceRefused \/ ConsumerFails \/ JoinFails
  BY <1>2, <1>4 DEF SessionDenied, TraceRefused, ConsumerFails, JoinFails, Failed
<1>5. CASE NothingDecoded \/ \E t \in Traces : Decoded(t)
  BY <1>2, <1>5 DEF NothingDecoded, Decoded
<1>6. CASE \/ SessionStarts \/ TraceOpens \/ ConsumerSpawns \/ WindowEnds
           \/ StoppedByOthers \/ UNCHANGED rcVars
  BY <1>6 DEF SessionStarts, TraceOpens, ConsumerSpawns, WindowEnds,
              StoppedByOthers, rcVars
<1>7. CASE Dies
  BY <1>7 DEF Dies
<1>8. QED
  BY <1>3, <1>4, <1>5, <1>6, <1>7 DEF Next, Pass, CaptureStep

(* The verdict the policy can read is that of an open finding: what stays  *)
(* of a resolved one for its write-back is marked and never consulted.     *)
THEOREM OpenFindingsSpeak == Init /\ [][Next]_rcVars => []OnlyOpenFindingsSpeak
<1>1. GraceInv => OnlyOpenFindingsSpeak
  BY DEF GraceInv
<1>2. QED
  BY <1>1, InitGraceInv, NextGraceInv, PTL

-----------------------------------------------------------------------------
(* Capture histories. The ring keeps its bound, and two families cannot    *)
(* both lead more than half of one history.                                *)

LEMMA PushType ==
  ASSUME NEW h \in Seq(Traces), Len(h) <= History, NEW t \in Traces
  PROVE  /\ Push(h, t) \in Seq(Traces)
         /\ Len(Push(h, t)) <= History
         /\ Len(Push(h, t)) = Len(h) + 1 \/ (Len(h) = History /\ Len(Push(h, t)) = Len(h))
<1> USE RootCauseAssumption
<1>1. Append(h, t) \in Seq(Traces) /\ Len(Append(h, t)) = Len(h) + 1
  OBVIOUS
<1>2. CASE Len(Append(h, t)) > History
  <2>1. Append(h, t) # << >> /\ Len(h) = History
    BY <1>1, <1>2
  <2>2. Tail(Append(h, t)) \in Seq(Traces) /\ Len(Tail(Append(h, t))) = Len(h)
    BY <1>1, <2>1
  <2>3. QED
    BY <1>2, <2>1, <2>2 DEF Push
<1>3. CASE ~(Len(Append(h, t)) > History)
  BY <1>1, <1>3 DEF Push
<1>4. QED
  BY <1>2, <1>3

AgreeingOn(h, c) == {i \in DOMAIN h : \E d \in Leader[h[i]] : Family[d] = c}

LEMMA AgreementIsCount ==
  ASSUME NEW h \in Seq(Traces), NEW c
  PROVE  /\ IsFiniteSet(AgreeingOn(h, c))
         /\ Agreement(h, c) = Cardinality(AgreeingOn(h, c))
         /\ Agreement(h, c) \in Nat
<1>1. AgreeingOn(h, c) \subseteq 1..Len(h)
  BY DEF AgreeingOn
<1>2. IsFiniteSet(1..Len(h))
  BY FS_Interval
<1>3. IsFiniteSet(AgreeingOn(h, c))
  BY <1>1, <1>2, FS_Subset
<1>4. QED
  BY <1>3, FS_CardinalityType DEF Agreement, AgreeingOn

(* A trace has one leader at the most: ties go to the first name.          *)
LEMMA OneLeader ==
  ASSUME NEW t \in Traces, NEW d \in Leader[t], NEW e \in Leader[t]
  PROVE  d = e
<1> USE RootCauseAssumption
<1>1. /\ d \in Drivers /\ e \in Drivers
      /\ t[e] < t[d] \/ (t[e] = t[d] /\ d <= e)
      /\ t[d] < t[e] \/ (t[d] = t[e] /\ e <= d)
  BY DEF Leader
<1>2. t[d] \in Nat /\ t[e] \in Nat /\ d \in Nat /\ e \in Nat
  BY <1>1
<1>3. QED
  BY <1>1, <1>2

LEMMA OneMajority ==
  ASSUME NEW h \in Seq(Traces), NEW a, NEW b, a # b
  PROVE  Agreement(h, a) + Agreement(h, b) <= Len(h)
<1> DEFINE A == AgreeingOn(h, a)
           B == AgreeingOn(h, b)
<1>1. IsFiniteSet(A) /\ IsFiniteSet(B)
  BY AgreementIsCount
<1>2. A \cap B = {}
  <2> SUFFICES ASSUME NEW i \in A \cap B PROVE FALSE
    OBVIOUS
  <2>1. h[i] \in Traces
    BY DEF AgreeingOn
  <2>2. PICK d \in Leader[h[i]] : Family[d] = a
    BY DEF AgreeingOn
  <2>3. PICK e \in Leader[h[i]] : Family[e] = b
    BY DEF AgreeingOn
  <2>4. d = e
    BY <2>1, OneLeader
  <2>5. QED
    BY <2>2, <2>3, <2>4
<1>3. Cardinality(A \cup B) = Cardinality(A) + Cardinality(B)
  <2>1. Cardinality(A) \in Nat /\ Cardinality(B) \in Nat
    BY <1>1, FS_CardinalityType
  <2>2. Cardinality(A \cup B) = Cardinality(A) + Cardinality(B) - Cardinality(A \cap B)
    BY <1>1, FS_Union
  <2>3. Cardinality(A \cap B) = 0
    BY <1>2, FS_EmptySet
  <2>4. QED
    BY <2>1, <2>2, <2>3
<1>4. A \cup B \subseteq 1..Len(h)
  BY DEF AgreeingOn
<1>5. Cardinality(A \cup B) <= Len(h)
  <2>1. IsFiniteSet(1..Len(h)) /\ Cardinality(1..Len(h)) = Len(h)
    <3>1. Len(h) \in Nat
      OBVIOUS
    <3>2. /\ IsFiniteSet(1..Len(h))
          /\ Cardinality(1..Len(h)) = IF 1 > Len(h) THEN 0 ELSE Len(h) - 1 + 1
      BY <3>1, FS_Interval
    <3>3. QED
      BY <3>1, <3>2
  <2>2. QED
    BY <1>4, <2>1, FS_Subset
<1>6. QED
  BY <1>3, <1>5, AgreementIsCount

(* One more trace adds at most one to what agrees on a family, whether the *)
(* ring grows or drops its oldest.                                         *)
LEMMA AppendAgreement ==
  ASSUME NEW h \in Seq(Traces), NEW t \in Traces, NEW c
  PROVE  Agreement(Append(h, t), c) <= Agreement(h, c) + 1
<1> DEFINE A == AgreeingOn(h, c)
           B == AgreeingOn(Append(h, t), c)
<1>1. Append(h, t) \in Seq(Traces)
  OBVIOUS
<1>2. B \subseteq A \cup {Len(h) + 1}
  BY DEF AgreeingOn
<1>3. IsFiniteSet(A) /\ Cardinality(A) \in Nat
  BY AgreementIsCount, FS_CardinalityType
<1>4. /\ IsFiniteSet(A \cup {Len(h) + 1})
      /\ Cardinality(A \cup {Len(h) + 1}) <= Cardinality(A) + 1
  <2>1. /\ IsFiniteSet(A \cup {Len(h) + 1})
        /\ \/ Cardinality(A \cup {Len(h) + 1}) = Cardinality(A)
           \/ Cardinality(A \cup {Len(h) + 1}) = Cardinality(A) + 1
    BY <1>3, FS_AddElement
  <2>2. QED
    BY <1>3, <2>1
<1>5. Cardinality(B) <= Cardinality(A \cup {Len(h) + 1})
  BY <1>2, <1>4, FS_Subset
<1>6. Cardinality(A \cup {Len(h) + 1}) \in Nat /\ Cardinality(B) \in Nat
  BY <1>1, <1>4, FS_CardinalityType, AgreementIsCount
<1>7. Cardinality(B) <= Cardinality(A) + 1
  BY <1>3, <1>4, <1>5, <1>6
<1>8. QED
  BY <1>1, <1>7, AgreementIsCount

LEMMA TailAgreement ==
  ASSUME NEW h \in Seq(Traces), h # << >>, NEW c
  PROVE  Agreement(Tail(h), c) <= Agreement(h, c)
<1> DEFINE A == AgreeingOn(h, c)
           B == AgreeingOn(Tail(h), c)
           next == [i \in B |-> i + 1]
<1>1. Tail(h) \in Seq(Traces) /\ DOMAIN Tail(h) = 1..(Len(h) - 1)
      /\ \A i \in DOMAIN Tail(h) : i + 1 \in DOMAIN h /\ Tail(h)[i] = h[i + 1]
  OBVIOUS
<1>2. \A i \in B : i \in Nat /\ i + 1 \in A
  BY <1>1 DEF AgreeingOn
<1>3. next \in Injection(B, A)
  BY <1>2 DEF Injection, IsInjective
<1>4. Cardinality(B) <= Cardinality(A)
  BY <1>3, AgreementIsCount, FS_Injection
<1>5. QED
  BY <1>1, <1>4, AgreementIsCount

LEMMA PushAgreement ==
  ASSUME NEW h \in Seq(Traces), NEW t \in Traces, NEW c
  PROVE  Agreement(Push(h, t), c) <= Agreement(h, c) + 1
<1>1. PICK g \in Seq(Traces) : g = Append(h, t)
  <2>1. Append(h, t) \in Seq(Traces)
    OBVIOUS
  <2>2. QED
    BY <2>1, Zenon
<1>2. g # << >> /\ Tail(g) \in Seq(Traces)
  BY <1>1
<1>3. Agreement(g, c) <= Agreement(h, c) + 1
  BY <1>1, AppendAgreement
<1>4. Agreement(Tail(g), c) <= Agreement(g, c)
  BY <1>2, TailAgreement
<1>5. /\ Agreement(h, c) \in Nat /\ Agreement(g, c) \in Nat
      /\ Agreement(Tail(g), c) \in Nat
  BY <1>2, AgreementIsCount
<1>6. Push(h, t) = g \/ Push(h, t) = Tail(g)
  BY <1>1 DEF Push
<1>7. CASE Push(h, t) = g
  BY <1>3, <1>7
<1>8. CASE Push(h, t) = Tail(g)
  BY <1>3, <1>4, <1>5, <1>8
<1>9. QED
  BY <1>6, <1>7, <1>8

-----------------------------------------------------------------------------
(* What a rebuild says of a family, and the invariant the verdicts keep.   *)

Naming == {"repeatable", "changed"}

(* A record of captures names the family it last settled on, exactly when  *)
(* more than half of its history agrees on it.                             *)
Sound(s) ==
  /\ s.history \in Seq(Traces) /\ Len(s.history) <= History
  /\ s.verdict \in Verdicts
  /\ s.confident \in Families \cup {None}
  /\ IF s.verdict.kind \in Naming
     THEN /\ s.verdict.family = s.confident /\ s.confident # None
          /\ Agreement(s.history, s.confident) * 2 > Len(s.history)
     ELSE s.verdict.family = None

VerdictInv ==
  /\ DOMAIN found \subseteq Findings
  /\ \A f \in DOMAIN found : Sound(found[f])

LEMMA NoStateSound == Sound(NoState)
BY RootCauseAssumption DEF Sound, NoState, Verdicts, VerdictKinds, Naming

LEMMA RebuildSound ==
  ASSUME NEW s, Sound(s), NEW h \in Seq(Traces), Len(h) <= History
  PROVE  /\ Sound(Rebuild(s, h)) /\ Rebuild(s, h).history = h
         /\ Rebuild(s, h).verdict.kind = "changed" =>
              /\ s.confident # None /\ Rebuild(s, h).confident # s.confident
<1> DEFINE modal   == ModalDriver(h)
           settled == {Family[d] : d \in {e \in modal : SettledOn(h, e)}}
<1>1. CASE settled = {}
  <2>1. Rebuild(s, h) = [history |-> h, confident |-> s.confident,
            verdict |-> [kind |-> IF modal = {} THEN "noCapture" ELSE "single",
                         family |-> None]]
    BY <1>1 DEF Rebuild
  <2>2. QED
    BY <2>1 DEF Sound, Verdicts, VerdictKinds, Naming
<1>2. CASE settled # {}
  <2>1. PICK c : /\ c \in settled
                 /\ Rebuild(s, h) =
                      [history |-> h, confident |-> c,
                       verdict |-> [kind |-> IF s.confident \in {None, c}
                                             THEN "repeatable" ELSE "changed",
                                    family |-> c]]
    BY <1>2 DEF Rebuild
  <2>2. PICK d \in modal : Family[d] = c /\ SettledOn(h, d)
    BY <2>1
  <2>3. d \in Drivers
    BY DEF ModalDriver, Candidates
  <2>4. c \in Families /\ c # None
    BY <2>2, <2>3, RootCauseAssumption DEF Families
  <2>5. Agreement(h, c) * 2 > Len(h)
    BY <2>2 DEF SettledOn
  <2>6. QED
    BY <2>1, <2>4, <2>5 DEF Sound, Verdicts, VerdictKinds, Naming
<1>3. QED
  BY <1>1, <1>2

LEMMA InitVerdictInv == Init => VerdictInv
BY DEF Init, VerdictInv

LEMMA StateOfSound == ASSUME VerdictInv, NEW f PROVE Sound(StateOf(f))
BY NoStateSound DEF VerdictInv, StateOf

(* An attempt leaves each open finding a rebuilt record: of the history it *)
(* had, or of that and one trace.                                          *)
LEMMA AttemptRebuilds ==
  ASSUME CaptureStep
  PROVE  /\ open' = open
         /\ \/ found' = found
            \/ Attempted([f \in open |-> StateOf(f).history])
            \/ \E t \in Traces : Attempted([f \in open |-> Push(StateOf(f).history, t)])
BY DEF CaptureStep, SessionStarts, SessionDenied, TraceOpens, TraceRefused,
       ConsumerSpawns, ConsumerFails, WindowEnds, Decoded, NothingDecoded,
       JoinFails, Failed

LEMMA PassKeeps ==
  ASSUME Pass
  PROVE  /\ DOMAIN found' \subseteq DOMAIN found
         /\ \A f \in DOMAIN found' : found'[f] = found[f]
         /\ open' \subseteq Findings
BY DEF Pass, Observe, NothingOpen, NotDue, CaptureDue, Retain

RootCauseInv == VerdictInv /\ open \subseteq Findings

LEMMA NextRootCauseInv == RootCauseInv /\ [Next]_rcVars => RootCauseInv'
<1> SUFFICES ASSUME RootCauseInv, [Next]_rcVars PROVE RootCauseInv'
  OBVIOUS
<1> USE DEF RootCauseInv
<1>1. CASE Pass
  BY <1>1, PassKeeps DEF VerdictInv
<1>2. ASSUME NEW h, \A f \in open : h[f] \in Seq(Traces) /\ Len(h[f]) <= History,
             Attempted(h), open' = open
      PROVE  RootCauseInv'
  <2>1. \A f \in open : Sound(Rebuild(StateOf(f), h[f]))
    BY <1>2, StateOfSound, RebuildSound
  <2>2. QED
    BY <1>2, <2>1 DEF VerdictInv, Attempted
<1>3. CASE CaptureStep
  <2>1. CASE found' = found
    BY <1>3, <2>1, AttemptRebuilds DEF VerdictInv
  <2>2. CASE Attempted([f \in open |-> StateOf(f).history])
    <3>1. \A f \in open : StateOf(f).history \in Seq(Traces) /\ Len(StateOf(f).history) <= History
      BY StateOfSound DEF Sound
    <3>2. QED
      BY <1>2, <1>3, <2>2, <3>1, AttemptRebuilds
  <2>3. ASSUME NEW t \in Traces, Attempted([f \in open |-> Push(StateOf(f).history, t)])
        PROVE  RootCauseInv'
    <3>1. \A f \in open : StateOf(f).history \in Seq(Traces) /\ Len(StateOf(f).history) <= History
      BY StateOfSound DEF Sound
    <3>2. \A f \in open : /\ Push(StateOf(f).history, t) \in Seq(Traces)
                          /\ Len(Push(StateOf(f).history, t)) <= History
      BY <3>1, PushType
    <3>3. QED
      BY <1>2, <1>3, <2>3, <3>2, AttemptRebuilds
  <2>4. QED
    BY <1>3, <2>1, <2>2, <2>3, AttemptRebuilds
<1>4. CASE StoppedByOthers \/ UNCHANGED rcVars
  BY <1>4 DEF StoppedByOthers, rcVars, VerdictInv
<1>5. CASE Dies
  BY <1>5 DEF Dies, VerdictInv
<1>6. QED
  BY <1>1, <1>3, <1>4, <1>5 DEF Next

LEMMA RootCauseInvariant == Init /\ [][Next]_rcVars => []RootCauseInv
<1>1. Init => RootCauseInv
  BY InitVerdictInv DEF Init, RootCauseInv
<1>2. QED
  BY <1>1, NextRootCauseInv, PTL

-----------------------------------------------------------------------------
(* Two confident changes of cause never follow each other, if the ring is  *)
(* of even length: the family just settled on holds more than half of it,  *)
(* so one more trace leaves another family at most half.                   *)

LEMMA NoSwingOnOneTrace ==
  ASSUME NEW half \in Nat, History = 2 * half,
         NEW s, Sound(s), s.verdict.kind = "changed",
         NEW h \in Seq(Traces),
         h = s.history \/ \E t \in Traces : h = Push(s.history, t)
  PROVE  Rebuild(s, h).verdict.kind # "changed"
<1> SUFFICES ASSUME Rebuild(s, h).verdict.kind = "changed" PROVE FALSE
  OBVIOUS
<1> DEFINE g == s.history
           b == Rebuild(s, h).confident
<1>1. g \in Seq(Traces) /\ Len(g) <= History /\ Agreement(g, s.confident) * 2 > Len(g)
  BY DEF Sound, Naming
<1>2. /\ Len(h) <= History
      /\ h = g \/ Len(h) = Len(g) + 1 \/ (Len(g) = History /\ Len(h) = Len(g))
      /\ Agreement(h, b) <= Agreement(g, b) + 1
      /\ h = g => Agreement(h, b) = Agreement(g, b)
  <2>1. CASE h = g
    <3>1. Agreement(g, b) \in Nat
      BY <1>1, AgreementIsCount
    <3>2. QED
      BY <1>1, <2>1, <3>1
  <2>2. ASSUME NEW t \in Traces, h = Push(g, t), h # g
        PROVE  /\ Len(h) <= History
               /\ Len(h) = Len(g) + 1 \/ (Len(g) = History /\ Len(h) = Len(g))
               /\ Agreement(h, b) <= Agreement(g, b) + 1
    <3>1. /\ Len(h) <= History
          /\ Len(h) = Len(g) + 1 \/ (Len(g) = History /\ Len(h) = Len(g))
      BY <1>1, <2>2, PushType
    <3>2. Agreement(Push(g, t), b) <= Agreement(g, b) + 1
      BY <1>1, PushAgreement
    <3>3. QED
      BY <2>2, <3>1, <3>2
  <2>3. QED
    BY <2>1, <2>2
<1>3. b # s.confident /\ Agreement(h, b) * 2 > Len(h)
  BY <1>2, RebuildSound DEF Sound, Naming
<1>4. Agreement(g, s.confident) + Agreement(g, b) <= Len(g)
  BY <1>1, <1>3, OneMajority
<1>5. /\ Agreement(g, b) \in Nat /\ Agreement(h, b) \in Nat
      /\ Agreement(g, s.confident) \in Nat /\ Len(g) \in Nat /\ Len(h) \in Nat
  BY <1>1, AgreementIsCount
<1>6. QED
  BY <1>1, <1>2, <1>3, <1>4, <1>5

NoSwing(f) == found[f].verdict.kind = "changed" /\ found'[f].verdict.kind = "changed"
                => found'[f] = found[f]

LEMMA StepDoesNotSwing ==
  ASSUME NEW half \in Nat, History = 2 * half, RootCauseInv, Next,
         NEW f \in DOMAIN found \cap DOMAIN found'
  PROVE  NoSwing(f)
<1> USE DEF NoSwing
<1>1. CASE Pass
  BY <1>1, PassKeeps
<1>2. ASSUME NEW h, Attempted(h),
             \A x \in open : /\ h[x] \in Seq(Traces)
                             /\ \/ h[x] = StateOf(x).history
                                \/ \E t \in Traces : h[x] = Push(StateOf(x).history, t)
      PROVE  NoSwing(f)
  <2>1. CASE f \in open
    <3>1. StateOf(f) = found[f] /\ Sound(found[f])
      BY DEF StateOf, RootCauseInv, VerdictInv
    <3>2. found'[f] = Rebuild(found[f], h[f])
      BY <1>2, <2>1, <3>1 DEF Attempted
    <3>3. QED
      BY <1>2, <2>1, <3>1, <3>2, NoSwingOnOneTrace
  <2>2. CASE f \notin open
    BY <1>2, <2>2 DEF Attempted
  <2>3. QED
    BY <2>1, <2>2
<1>3. CASE CaptureStep
  <2>1. \A x \in open : StateOf(x).history \in Seq(Traces) /\ Len(StateOf(x).history) <= History
    BY StateOfSound DEF RootCauseInv, Sound
  <2>2. \A t \in Traces, x \in open : Push(StateOf(x).history, t) \in Seq(Traces)
    BY <2>1, PushType
  <2>3. QED
    BY <1>2, <1>3, <2>1, <2>2, AttemptRebuilds
<1>4. CASE StoppedByOthers \/ Dies
  BY <1>4 DEF StoppedByOthers, Dies
<1>5. QED
  BY <1>1, <1>3, <1>4 DEF Next

(* A confident change of cause is never followed by another on the next    *)
(* trace, for rings of any even length (CAPTURE_HISTORY is eight).         *)
THEOREM ChangesDoNotSwing ==
  ASSUME NEW half \in Nat, History = 2 * half
  PROVE  Init /\ [][Next]_rcVars => NoSwinging
<1>1. RootCauseInv /\ [Next]_rcVars =>
        [\A f \in DOMAIN found \cap DOMAIN found' :
           found[f].verdict.kind = "changed" /\ found'[f].verdict.kind = "changed"
             => found'[f] = found[f]]_rcVars
  BY StepDoesNotSwing DEF NoSwing
<1>2. QED
  BY <1>1, RootCauseInvariant, PTL DEF NoSwinging

-----------------------------------------------------------------------------
(* The event log, for logs of any length, any look-back windows, any caps  *)
(* on a poll and on its memory, and sleeps of any length.                  *)

LEMMA MinOfTwo ==
  ASSUME NEW a \in Nat, NEW b \in Nat
  PROVE  Min({a, b}) \in {a, b} /\ Min({a, b}) <= a /\ Min({a, b}) <= b
<1>1. \E x \in {a, b} : \A y \in {a, b} : x <= y
  <2>1. CASE a <= b
    BY <2>1
  <2>2. CASE b <= a
    BY <2>2
  <2>3. QED
    BY <2>1, <2>2
<1>2. /\ Min({a, b}) \in {a, b}
      /\ \A y \in {a, b} : Min({a, b}) <= y
  BY <1>1 DEF Min
<1>3. QED
  BY <1>2

(* The memory forgets its oldest, and holds nothing it was not given.      *)
LEMMA LastOfKeeps ==
  ASSUME NEW S, NEW s \in Seq(S), NEW n \in Nat
  PROVE  LastOf(s, n) \in Seq(S) /\ Range(LastOf(s, n)) \subseteq Range(s)
<1>1. CASE Len(s) <= n
  BY <1>1 DEF LastOf
<1>2. CASE ~(Len(s) <= n)
  <2> DEFINE m == Len(s) - n + 1
  <2>1. LastOf(s, n) = SubSeq(s, m, Len(s))
    BY <1>2 DEF LastOf
  <2>2. m \in 1..(Len(s) + 1) /\ Len(s) \in m-1..Len(s)
    BY <1>2
  <2>3. /\ SubSeq(s, m, Len(s)) \in Seq(S)
        /\ Len(SubSeq(s, m, Len(s))) = IF m <= Len(s) THEN Len(s) - m + 1 ELSE 0
        /\ \A i \in 1..(Len(s) - m + 1) : SubSeq(s, m, Len(s))[i] = s[m + i - 1]
    BY <2>2, SubSeqProperties
  <2>4. \A i \in DOMAIN SubSeq(s, m, Len(s)) :
          \E j \in DOMAIN s : SubSeq(s, m, Len(s))[i] = s[j]
    <3> SUFFICES ASSUME NEW i \in DOMAIN SubSeq(s, m, Len(s))
                 PROVE  \E j \in DOMAIN s : SubSeq(s, m, Len(s))[i] = s[j]
      OBVIOUS
    <3>1. DOMAIN SubSeq(s, m, Len(s)) = 1..Len(SubSeq(s, m, Len(s)))
      BY <2>3
    <3>2. i \in 1..(Len(s) - m + 1) /\ Len(s) \in Nat /\ m \in Nat
      BY <1>2, <2>2, <2>3, <3>1
    <3>3. m + i - 1 \in DOMAIN s
      BY <2>2, <3>2
    <3>4. QED
      BY <2>3, <3>2, <3>3
  <2>5. QED
    BY <2>1, <2>3, <2>4 DEF Range
<1>3. QED
  BY <1>1, <1>2

(* A poll that is not cut short has looked at everything in sight.         *)
LEMMA WholeWindow ==
  ASSUME logged \in Seq(Nat)
  PROVE  /\ Examined \subseteq InSight /\ InSight \subseteq DOMAIN logged
         /\ IsFiniteSet(InSight) /\ InSight \subseteq Nat
         /\ ~Truncated => Examined = InSight
<1> USE EventLogAssumption
<1>1. InSight \subseteq 1..Len(logged)
  BY DEF InSight
<1>2. IsFiniteSet(1..Len(logged))
  BY FS_Interval
<1>3. IsFiniteSet(InSight) /\ Cardinality(InSight) \in Nat
  BY <1>1, <1>2, FS_Subset, FS_CardinalityType
<1>4. ASSUME ~Truncated, NEW e \in InSight PROVE e \in Examined
  <2> DEFINE above == {f \in InSight : f > e}
  <2>1. Cardinality(above) <= Cardinality(InSight) /\ IsFiniteSet(above)
    BY <1>3, FS_Subset
  <2>2. Cardinality(above) \in Nat
    BY <2>1, FS_CardinalityType
  <2>3. Cardinality(above) < MaxEvents
    BY <1>3, <1>4, <2>1, <2>2 DEF Truncated
  <2>4. QED
    BY <2>3 DEF Examined
<1>5. Examined \subseteq InSight
  BY DEF Examined
<1>6. InSight \subseteq DOMAIN logged /\ InSight \subseteq Nat
  BY <1>1
<1>7. QED
  BY <1>3, <1>4, <1>5, <1>6

-----------------------------------------------------------------------------
(* What has been remembered was stored or reported; what is in sight of    *)
(* the next poll and no younger than the last one is accounted for too.    *)

Accounted == records \cup reported \cup slept

EventLogInv ==
  /\ logged \in Seq(Nat) /\ recent \in Seq(Nat)
  /\ pollDue \in BOOLEAN /\ initialPoll \in BOOLEAN
  /\ Range(recent) \subseteq records \cup reported
  /\ \A e \in DOMAIN logged : logged[e] > Lookback => e \in Accounted
  /\ ~pollDue => \A e \in DOMAIN logged : logged[e] > 0 => e \in Accounted

LEMMA InitEventLogInv == EventLogInit => EventLogInv
BY DEF EventLogInit, EventLogInv, Range

LEMMA LookbackType ==
  ASSUME initialPoll \in BOOLEAN
  PROVE  /\ Lookback \in Nat \ {0} /\ Lookback <= InitialLookback
         /\ AgeCap \in Nat
BY EventLogAssumption DEF Lookback, AgeCap

LEMMA AgesType ==
  ASSUME logged \in Seq(Nat), NEW d \in Nat
  PROVE  /\ Ages(d) \in Seq(Nat) /\ DOMAIN Ages(d) = DOMAIN logged
         /\ \A e \in DOMAIN logged : Ages(d)[e] <= logged[e] + d
<1>1. AgeCap \in Nat
  BY EventLogAssumption DEF AgeCap
<1>2. \A e \in DOMAIN logged : logged[e] + d \in Nat
  OBVIOUS
<1>3. \A e \in DOMAIN logged :
        Min({logged[e] + d, AgeCap}) \in Nat /\ Min({logged[e] + d, AgeCap}) <= logged[e] + d
  BY <1>1, <1>2, MinOfTwo
<1>4. Ages(d) \in [1..Len(logged) -> Nat]
  BY <1>3 DEF Ages
<1>5. Ages(d) \in Seq(Nat)
  <2>1. Len(logged) \in Nat
    OBVIOUS
  <2>2. QED
    BY <1>4, <2>1, SeqDef
<1>6. QED
  BY <1>3, <1>5 DEF Ages

LEMMA NextEventLogInv == EventLogInv /\ [EventLogNext]_evVars => EventLogInv'
<1> SUFFICES ASSUME EventLogInv, [EventLogNext]_evVars PROVE EventLogInv'
  OBVIOUS
<1>1. CASE PollFails
  <2>1. \A e \in DOMAIN logged : e \in InSight \/ e \in Accounted
    BY LookbackType DEF EventLogInv, InSight
  <2>2. QED
    BY <1>1, <2>1 DEF PollFails, EventLogInv, Accounted
<1>2. ASSUME NEW malformed \in SUBSET Records, NEW stored \in BOOLEAN,
             PollEvents(malformed, stored)
      PROVE  EventLogInv'
  <2> DEFINE new == Examined \ (malformed \cup Range(recent))
  <2>1. /\ IsFiniteSet(InSight) /\ InSight \subseteq Nat /\ Examined \subseteq InSight
        /\ ~Truncated => Examined = InSight
    BY WholeWindow DEF EventLogInv
  <2>2. Cardinality(new) \in Nat /\ new \subseteq Nat
    BY <2>1, FS_Subset, FS_CardinalityType
  <2>3. PICK order \in NewestFirst(new) : recent' = LastOf(recent \o order, MaxIdentities)
    BY <1>2 DEF PollEvents
  <2>4. order \in Seq(new) /\ order \in Seq(Nat) /\ Range(order) \subseteq new
    <3>1. order \in [1..Cardinality(new) -> new]
      BY DEF NewestFirst
    <3>2. order \in Seq(new)
      <4>1. \E n \in Nat : order \in [1..n -> new]
        BY <2>2, <3>1
      <4>2. QED
        BY <4>1, SeqDef, Zenon
    <3>3. QED
      BY <2>2, <3>1, <3>2, SeqMonotonic DEF Range
  <2>5. recent' \in Seq(Nat) /\ Range(recent') \subseteq Range(recent) \cup new
    <3>1. recent \o order \in Seq(Nat)
      BY <2>4, ConcatProperties DEF EventLogInv
    <3>2. Range(recent \o order) = Range(recent) \cup Range(order)
      BY <2>4, RangeConcatenation DEF EventLogInv
    <3>3. QED
      BY <2>3, <2>4, <3>1, <3>2, LastOfKeeps, EventLogAssumption
  <2>6. new \subseteq records' \cup reported'
    BY <1>2 DEF PollEvents
  <2>7. records \subseteq records' /\ reported \subseteq reported' /\ slept' = slept
    BY <1>2 DEF PollEvents
  <2>8. Range(recent') \subseteq records' \cup reported'
    BY <2>5, <2>6, <2>7 DEF EventLogInv
  <2>9. InSight \subseteq records' \cup reported'
    <3>1. CASE Truncated
      BY <1>2, <3>1 DEF PollEvents
    <3>2. CASE ~Truncated
      <4>1. malformed \subseteq reported'
        BY <1>2 DEF PollEvents
      <4>2. QED
        BY <2>1, <2>6, <2>7, <3>2, <4>1 DEF EventLogInv
    <3>3. QED
      BY <3>1, <3>2
  <2>10. \A e \in DOMAIN logged : e \in Accounted'
    BY <2>7, <2>9, LookbackType DEF EventLogInv, InSight, Accounted
  <2>11. QED
    BY <1>2, <2>5, <2>8, <2>10 DEF PollEvents, EventLogInv
<1>3. CASE EventLogged
  <2>1. /\ logged' \in Seq(Nat) /\ logged' = Append(logged, 0)
        /\ DOMAIN logged' = DOMAIN logged \cup {Len(logged) + 1}
        /\ logged'[Len(logged) + 1] = 0
        /\ \A e \in DOMAIN logged : logged'[e] = logged[e]
    BY <1>3 DEF EventLogged, EventLogInv
  <2>2. QED
    BY <1>3, <2>1, LookbackType DEF EventLogged, EventLogInv, Accounted, Lookback
<1>4. CASE HalfMinute
  <2>1. /\ logged' \in Seq(Nat) /\ DOMAIN logged' = DOMAIN logged
        /\ \A e \in DOMAIN logged : logged'[e] <= logged[e] + 1
    BY <1>4, AgesType DEF HalfMinute, EventLogInv
  <2>2. \A e \in DOMAIN logged : logged'[e] > Lookback => e \in Accounted
    <3> SUFFICES ASSUME NEW e \in DOMAIN logged, logged'[e] > Lookback
                 PROVE  e \in Accounted
      OBVIOUS
    <3>1. logged[e] \in Nat /\ logged'[e] \in Nat
      BY <2>1 DEF EventLogInv
    <3>2. Lookback \in Nat \ {0}
      BY LookbackType DEF EventLogInv
    <3>3. logged[e] > 0
      BY <2>1, <3>1, <3>2
    <3>4. QED
      BY <1>4, <3>3 DEF HalfMinute, EventLogInv
  <2>3. QED
    BY <1>4, <2>1, <2>2 DEF HalfMinute, EventLogInv, Accounted, Lookback
<1>5. ASSUME NEW d \in Naps, Suspended(d) PROVE EventLogInv'
  <2>1. logged' \in Seq(Nat) /\ DOMAIN logged' = DOMAIN logged
    BY <1>5, AgesType, EventLogAssumption DEF Suspended, EventLogInv
  <2>2. \A e \in DOMAIN logged : logged'[e] > Lookback => e \in Accounted'
    <3> SUFFICES ASSUME NEW e \in DOMAIN logged, logged'[e] > Lookback
                 PROVE  e \in Accounted'
      OBVIOUS
    <3>1. logged[e] \in Nat /\ Lookback \in Nat
      BY LookbackType DEF EventLogInv
    <3>2. CASE logged[e] > Lookback
      BY <1>5, <3>2 DEF Suspended, EventLogInv, Accounted
    <3>3. CASE logged[e] <= Lookback /\ e \notin records
      BY <1>5, <2>1, <3>3 DEF Suspended, Overslept, Accounted
    <3>4. QED
      BY <1>5, <3>1, <3>2, <3>3 DEF Suspended, Accounted
  <2>3. QED
    BY <1>5, <2>1, <2>2 DEF Suspended, EventLogInv, Lookback
<1>6. ASSUME NEW d \in Naps, BackAfter(d) PROVE EventLogInv'
  <2>1. logged' \in Seq(Nat) /\ DOMAIN logged' = DOMAIN logged
    BY <1>6, AgesType, EventLogAssumption DEF BackAfter, EventLogInv
  <2>2. \A e \in DOMAIN logged : logged'[e] > InitialLookback => e \in Accounted'
    <3> SUFFICES ASSUME NEW e \in DOMAIN logged, logged'[e] > InitialLookback
                 PROVE  e \in Accounted'
      OBVIOUS
    <3>1. logged[e] \in Nat /\ Lookback \in Nat
      BY LookbackType DEF EventLogInv
    <3>2. CASE logged[e] > Lookback
      BY <1>6, <3>2 DEF BackAfter, EventLogInv, Accounted
    <3>3. CASE logged[e] <= Lookback /\ e \notin records
      BY <1>6, <2>1, <3>3 DEF BackAfter, Overslept, Accounted
    <3>4. QED
      BY <1>6, <3>1, <3>2, <3>3 DEF BackAfter, Accounted
  <2>3. QED
    BY <1>6, <2>1, <2>2 DEF BackAfter, EventLogInv, Lookback, Range
<1>7. CASE UNCHANGED evVars
  BY <1>7 DEF evVars, EventLogInv, Accounted, Lookback
<1>8. QED
  BY <1>1, <1>2, <1>3, <1>4, <1>5, <1>6, <1>7 DEF EventLogNext

(* An event out of the reach of every later poll is stored, was in sight   *)
(* of a poll that reported trouble, or passed while nobody polled.         *)
THEOREM NothingIsLostSilently ==
  EventLogInit /\ [][EventLogNext]_evVars => []NothingLostSilently
<1>1. EventLogInv => NothingLostSilently
  BY DEF EventLogInv, NothingLostSilently, Accounted
<1>2. QED
  BY <1>1, InitEventLogInv, NextEventLogInv, PTL

-----------------------------------------------------------------------------

(* A step of the pass, by its cases.                                       *)
LEMMA PassCases ==
  ASSUME [SamplingNext]_passVars
  PROVE  \/ Begin /\ UNCHANGED <<evVars, leVars>>
         \/ DuringPass /\ UNCHANGED <<evVars, leVars>>
         \/ End /\ UNCHANGED <<evVars, leVars>>
         \/ DiskChanges /\ UNCHANGED <<evVars, leVars>>
         \/ CrashAndRestart /\ UNCHANGED <<evVars, leVars>>
         \/ /\ \E i \in Identities, archived \in BOOLEAN : ArchiveDump(i, archived)
            /\ UNCHANGED <<evVars, leVars>>
         \/ UNCHANGED vars /\ [EventLogNext]_evVars /\ UNCHANGED leVars
         \/ UNCHANGED vars /\ [LearningNext]_leVars /\ UNCHANGED evVars
BY DEF SamplingNext, DiagnosticsNext, OnlyFindings, OnlyEvents, OnlyLearning, passVars

-----------------------------------------------------------------------------
(* What is proved of the attribution engine and of the event log alone     *)
(* carries over.                                                           *)

LEMMA RootCauseStep == [SamplingNext]_passVars => [Next]_rcVars
<1> SUFFICES ASSUME [SamplingNext]_passVars PROVE [Next]_rcVars
  OBVIOUS
<1>1. CASE Begin
  BY <1>1 DEF Begin, BeginPass, Next, Pass
<1>2. CASE DuringPass
  BY <1>2 DEF DuringPass, DuringCapture, Next
<1>3. CASE End
  BY <1>3 DEF End, EndPass
<1>4. CASE DiskChanges
  BY <1>4 DEF DiskChanges
<1>5. CASE CrashAndRestart
  BY <1>5 DEF CrashAndRestart, Next
<1>6. ASSUME NEW i, NEW archived, ArchiveDump(i, archived) PROVE UNCHANGED rcVars
  BY <1>6 DEF ArchiveDump
<1>7. CASE UNCHANGED vars
  BY <1>7 DEF vars
<1>8. QED
  BY <1>1, <1>2, <1>3, <1>4, <1>5, <1>6, <1>7, PassCases

LEMMA EventLogStep == [SamplingNext]_passVars => [EventLogNext]_evVars
BY DEF SamplingNext, OnlyFindings, OnlyEvents, OnlyLearning, passVars

LEMMA LearningStep == [SamplingNext]_passVars => [LearningNext]_leVars
BY DEF SamplingNext, OnlyFindings, OnlyEvents, OnlyLearning, passVars

LEMMA Components ==
  SamplingSpec => /\ Init /\ [][Next]_rcVars
                  /\ EventLogInit /\ [][EventLogNext]_evVars
                  /\ LearningInit /\ [][LearningNext]_leVars
<1>1. SamplingInit => Init /\ EventLogInit /\ LearningInit
  BY DEF SamplingInit, DiagnosticsInit
<1>2. QED
  BY <1>1, RootCauseStep, EventLogStep, LearningStep, PTL DEF SamplingSpec

(* An idle collector has asked every session it started to stop and holds  *)
(* no trace, in the whole sampling pass: what runs on was left by a crash  *)
(* or a refused stop.                                                      *)
THEOREM SamplingLeavesNothing == SamplingSpec => []NothingLeftRunning
BY Components, NothingLeft, PTL

(* The verdict the policy reads is that of an open finding.                *)
THEOREM SamplingOpenFindingsSpeak == SamplingSpec => []OnlyOpenFindingsSpeak
BY Components, OpenFindingsSpeak, PTL

(* Two confident changes of cause never follow each other.                 *)
THEOREM SamplingDoesNotSwing ==
  ASSUME NEW half \in Nat, History = 2 * half
  PROVE  SamplingSpec => NoSwinging
BY Components, ChangesDoNotSwing, PTL

(* No event leaves the reach of the polls without a trace.                 *)
THEOREM SamplingLosesNothingSilently == SamplingSpec => []NothingLostSilently
BY Components, NothingIsLostSilently, PTL

-----------------------------------------------------------------------------
(* The learned baseline. The row lags the memory by what is unsaved.       *)

LearningInv ==
  /\ observed \in 0..LearningPeriod
  /\ row \in {NoRow} \cup 0..LearningPeriod
  /\ watched \in Nat /\ unsaved \in Nat /\ lost \in Nat /\ sleeps \in Nat
  /\ unsaved + lost <= watched
  /\ LearnedIsObserved
  /\ row = NoRow => watched - lost - unsaved = 0
  /\ row # NoRow =>
       /\ row <= watched - lost - unsaved + MaxStep * sleeps + Nominal
       /\ row >= Least(watched - lost - unsaved, LearningPeriod)

LEMMA InitLearningInv == LearningInit => LearningInv
<1> SUFFICES ASSUME LearningInit PROVE LearningInv
  OBVIOUS
<1> USE LearningAssumption
<1>1. MaxStep * sleeps = 0
  BY DEF LearningInit
<1>2. QED
  BY <1>1 DEF LearningInit, LearningInv, LearnedIsObserved, Least, NoRow

(* A start from a row that bounds what was saved.                          *)
LEMMA RestoreBounds ==
  ASSUME NEW saved \in 0..LearningPeriod, NEW kept \in Nat, NEW slack \in Nat,
         saved <= kept + slack + Nominal, saved >= Least(kept, LearningPeriod),
         Restored(saved)
  PROVE  /\ observed' \in 0..LearningPeriod
         /\ observed' <= kept + slack + Nominal
         /\ observed' >= Least(kept, LearningPeriod)
BY LearningAssumption DEF Restored, NoRow, Least

LEMMA NextLearningInv == LearningInv /\ [LearningNext]_leVars => LearningInv'
<1> SUFFICES ASSUME LearningInv, [LearningNext]_leVars PROVE LearningInv'
  OBVIOUS
<1> USE LearningAssumption
<1>1. PICK slack \in Nat : slack = MaxStep * sleeps
  BY DEF LearningInv
<1>2. ASSUME NEW gap \in Gaps, SampleTaken(gap) PROVE LearningInv'
  <2>1. CASE ~anchored
    BY <1>2, <2>1 DEF SampleTaken, Credit, LearningInv, LearnedIsObserved
  <2>2. CASE anchored /\ gap <= MaxStep
    <3>1. /\ observed' = Least(observed + gap, LearningPeriod)
          /\ watched' = watched + gap /\ unsaved' = unsaved + gap
          /\ sleeps' = sleeps /\ row' = row /\ lost' = lost
      BY <1>2, <2>2 DEF SampleTaken, Credit, Least
    <3>2. MaxStep * sleeps' = slack
      BY <1>1, <3>1
    <3>3. QED
      BY <1>1, <3>1, <3>2 DEF LearningInv, LearnedIsObserved, Least
  <2>3. CASE anchored /\ gap > MaxStep
    <3>1. /\ observed' = Least(observed + MaxStep, LearningPeriod)
          /\ watched' = watched /\ unsaved' = unsaved
          /\ sleeps' = sleeps + 1 /\ row' = row /\ lost' = lost
      BY <1>2, <2>3 DEF SampleTaken, Credit, Least
    <3>2. MaxStep * sleeps' = slack + MaxStep
      BY <1>1, <3>1 DEF LearningInv
    <3>3. QED
      BY <1>1, <3>1, <3>2 DEF LearningInv, LearnedIsObserved, Least
  <2>4. QED
    BY <2>1, <2>2, <2>3 DEF LearningInv
<1>3. CASE BaselineSaved
  BY <1>1, <1>3 DEF BaselineSaved, LearningInv, LearnedIsObserved, NoRow
<1>4. CASE StoppedCleanly
  <2>1. /\ observed' \in 0..LearningPeriod
        /\ observed' <= watched - lost + slack + Nominal
        /\ observed' >= Least(watched - lost, LearningPeriod)
    <3>1. PICK kept \in Nat : kept = watched - lost
      BY DEF LearningInv
    <3>2. /\ observed \in 0..LearningPeriod
          /\ observed <= kept + slack + Nominal /\ observed >= Least(kept, LearningPeriod)
      BY <1>1, <3>1 DEF LearningInv, LearnedIsObserved
    <3>3. Restored(observed)
      BY <1>4 DEF StoppedCleanly
    <3>4. QED
      BY <3>1, <3>2, <3>3, RestoreBounds
  <2>2. /\ row' = observed /\ unsaved' = 0
        /\ watched' = watched /\ lost' = lost /\ sleeps' = sleeps
    BY <1>4 DEF StoppedCleanly
  <2>3. QED
    BY <1>1, <2>1, <2>2 DEF LearningInv, LearnedIsObserved, NoRow
<1>5. CASE Crashed
  <2>1. /\ lost' = lost + unsaved /\ unsaved' = 0 /\ row' = row
        /\ watched' = watched /\ sleeps' = sleeps
    BY <1>5 DEF Crashed
  <2>2. /\ observed' \in 0..LearningPeriod
        /\ observed' <= watched - lost - unsaved + slack + Nominal
        /\ observed' >= Least(watched - lost - unsaved, LearningPeriod)
    <3>1. CASE row = NoRow
      BY <1>1, <1>5, <3>1 DEF Crashed, Restored, LearningInv, Least
    <3>2. CASE row # NoRow
      <4>1. PICK kept \in Nat : kept = watched - lost - unsaved
        BY DEF LearningInv
      <4>2. /\ row \in 0..LearningPeriod
            /\ row <= kept + slack + Nominal /\ row >= Least(kept, LearningPeriod)
        BY <1>1, <3>2, <4>1 DEF LearningInv
      <4>3. Restored(row)
        BY <1>5 DEF Crashed
      <4>4. QED
        BY <4>1, <4>2, <4>3, RestoreBounds
    <3>3. QED
      BY <3>1, <3>2
  <2>3. QED
    BY <1>1, <2>1, <2>2 DEF LearningInv, LearnedIsObserved
<1>6. CASE UNCHANGED leVars
  BY <1>6 DEF leVars, LearningInv, LearnedIsObserved
<1>7. QED
  BY <1>2, <1>3, <1>4, <1>5, <1>6 DEF LearningNext

(* What the baseline has learned is what was sampled, less what crashes    *)
(* took, give or take a step per sleep and one sample.                     *)
THEOREM LearningIsObservation == SamplingSpec => []LearnedIsObserved
<1>1. LearningInv => LearnedIsObserved
  BY DEF LearningInv
<1>2. QED
  BY <1>1, Components, InitLearningInv, NextLearningInv, PTL

-----------------------------------------------------------------------------
(* The leak evidence.                                                      *)

GrowthInv ==
  /\ growing \subseteq Targets
  /\ opening \in [Targets -> BOOLEAN]
  /\ BaselinesAreOwn

LEMMA InitGrowthInv == SamplingInit => GrowthInv
BY DEF SamplingInit, DiagnosticsInit, ForensicsInit, GrowthInv, BaselinesAreOwn

LEMMA CaptureKeepsGrowthInv ==
  ASSUME GrowthInv, NEW targets \in SUBSET Targets, NEW d, NEW read,
         Capture(targets, d, read)
  PROVE  GrowthInv'
<1>1. /\ growing' = targets
      /\ opening' = [f \in Targets |->
                       IF f \in targets \ growing THEN ~opening[f] ELSE opening[f]]
  BY DEF Capture
<1>2. opening' \in [Targets -> BOOLEAN]
  BY <1>1 DEF GrowthInv
<1>3. PICK S : /\ S \subseteq targets
               /\ baselines' = Over(Held(targets), [f \in S |-> opening'[f]])
  BY DEF Capture
<1>4. \A f \in DOMAIN Held(targets) : f \in targets /\ f \in growing
                                      /\ Held(targets)[f] = opening[f]
  BY DEF Held, Only, GrowthInv, BaselinesAreOwn
<1>5. \A f \in DOMAIN baselines' : f \in targets /\ baselines'[f] = opening'[f]
  <2> SUFFICES ASSUME NEW f \in DOMAIN baselines'
               PROVE  f \in targets /\ baselines'[f] = opening'[f]
    OBVIOUS
  <2>1. CASE f \in S
    BY <1>3, <2>1 DEF Over
  <2>2. CASE f \notin S
    <3>1. f \in DOMAIN Held(targets) /\ baselines'[f] = Held(targets)[f]
      BY <1>3, <2>2 DEF Over
    <3>2. QED
      BY <1>1, <1>4, <3>1
  <2>3. QED
    BY <2>1, <2>2
<1>6. QED
  BY <1>1, <1>2, <1>5 DEF GrowthInv, BaselinesAreOwn

LEMMA NextGrowthInv == GrowthInv /\ [SamplingNext]_passVars => GrowthInv'
<1> SUFFICES ASSUME GrowthInv, [SamplingNext]_passVars PROVE GrowthInv'
  OBVIOUS
<1>1. CASE Begin
  <2>1. PICK targets \in SUBSET Targets : \E d, read : ObserveGrowth(targets, d, read)
    BY <1>1 DEF Begin, BeginPass
  <2>2. CASE NoTargets(targets)
    BY <2>2 DEF NoTargets, GrowthInv, BaselinesAreOwn
  <2>3. ASSUME NEW d, NEW read, Capture(targets, d, read) PROVE GrowthInv'
    BY <2>3, CaptureKeepsGrowthInv
  <2>4. QED
    BY <2>1, <2>2, <2>3 DEF ObserveGrowth
<1>2. CASE UNCHANGED foVars
  BY <1>2 DEF foVars, GrowthInv, BaselinesAreOwn
<1>3. CASE CrashAndRestart
  BY <1>3 DEF CrashAndRestart, GrowthInv, BaselinesAreOwn
<1>4. CASE \/ DuringPass \/ End \/ DiskChanges \/ UNCHANGED vars
           \/ \E i \in Identities, archived \in BOOLEAN : ArchiveDump(i, archived)
  BY <1>2, <1>4 DEF DuringPass, DuringCapture, End, EndPass, DiskChanges, ArchiveDump, vars
<1>5. QED
  BY <1>1, <1>3, <1>4, PassCases

(* A baseline belongs to the present opening of an open finding.           *)
THEOREM BaselinesBelong == SamplingSpec => []BaselinesAreOwn
<1>1. GrowthInv => BaselinesAreOwn
  BY DEF GrowthInv
<1>2. QED
  BY <1>1, InitGrowthInv, NextGrowthInv, PTL DEF SamplingSpec

-----------------------------------------------------------------------------
(* The alert table and the snapshot. While a pass runs they may differ on  *)
(* what opened or resolved since the last one, and on nothing else.        *)

Now    == Detected \cup dumps
IsOpen(i) == i \in DOMAIN table /\ table[i].open

TableInv ==
  /\ \A i : i \notin changed => (IsOpen(i) <=> i \in Now)
  /\ stage = "asleep" => changed = {} /\ DOMAIN shown = Now

LEMMA InitTableInv == SamplingInit => TableInv
BY DEF SamplingInit, DiagnosticsInit, Init, ForensicsInit, DumpsInit, TableInv,
       Now, Detected, IsOpen

LEMMA BeginKeepsTableInv ==
  ASSUME TableInv, Begin
  PROVE  TableInv'
<1>1. PICK ids : \E targets, d, read :
             /\ stage = "asleep" /\ stage' = "observing"
             /\ Observe(ids, d) /\ ObserveGrowth(targets, d, read)
             /\ changed' = (Detected \ (ids \cup targets)) \cup ((ids \cup targets) \ Detected)
             /\ UNCHANGED <<dumps, table, shown>>
  BY DEF Begin, BeginPass, duVars
<1>2. PICK targets, d, read :
             /\ stage = "asleep" /\ stage' = "observing"
             /\ Observe(ids, d) /\ ObserveGrowth(targets, d, read)
             /\ changed' = (Detected \ (ids \cup targets)) \cup ((ids \cup targets) \ Detected)
             /\ UNCHANGED <<dumps, table, shown>>
  BY <1>1
<1>3. open' = ids
  BY <1>2 DEF Observe, NothingOpen, NotDue, CaptureDue, Retain
<1>4. growing' = targets
  BY <1>2 DEF ObserveGrowth, NoTargets, Capture
<1>5. Detected' = ids \cup targets
  BY <1>3, <1>4 DEF Detected
<1>6. \A i : i \notin changed' => (i \in Detected <=> i \in Detected')
  BY <1>2, <1>5
<1>7. QED
  BY <1>2, <1>6 DEF TableInv, Now, IsOpen

LEMMA CaptureLeavesTable ==
  ASSUME DuringPass
  PROVE  /\ UNCHANGED <<foVars, duVars, scope, stage, changed, table, shown, decided, crashes>>
         /\ open' = open
BY AttemptRebuilds DEF DuringPass, DuringCapture, StoppedByOthers

LEMMA EndKeepsTableInv ==
  ASSUME TableInv, End
  PROVE  TableInv'
<1>1. PICK d \in Elapsed : \E readable, refreshed : EndPass(d, readable, refreshed)
  BY DEF End
<1>2. PICK readable, refreshed : EndPass(d, readable, refreshed)
  BY <1>1
<1> DEFINE written == changed \cup refreshed \cup DumpsChanged(d)
<1>3. /\ table' = Stored(written) /\ changed' = {}
      /\ DOMAIN shown' = Detected \cup dumps'
      /\ Detected' = Detected
  BY <1>2 DEF EndPass, Detected, rcVars, foVars
<1>4. \A i : i \notin DumpsChanged(d) => (i \in dumps <=> i \in dumps')
  BY <1>2 DEF EndPass, NoScan, Scan, DumpsChanged
<1>5. \A i : IsOpen(i)' <=> i \in Detected \cup dumps'
  <2> SUFFICES ASSUME NEW i PROVE IsOpen(i)' <=> i \in Detected \cup dumps'
    OBVIOUS
  <2>1. CASE i \in written
    BY <1>3, <2>1 DEF Stored, IsOpen
  <2>2. CASE i \notin written
    <3>1. IsOpen(i)' <=> IsOpen(i)
      BY <1>3, <2>2 DEF Stored, IsOpen
    <3>2. IsOpen(i) <=> i \in Detected \cup dumps
      BY <2>2 DEF TableInv, Now
    <3>3. QED
      BY <1>4, <2>2, <3>1, <3>2
  <2>3. QED
    BY <2>1, <2>2
<1>6. QED
  BY <1>3, <1>5 DEF TableInv, Now

LEMMA NextTableInv == TableInv /\ [SamplingNext]_passVars => TableInv'
<1> SUFFICES ASSUME TableInv, [SamplingNext]_passVars PROVE TableInv'
  OBVIOUS
<1>1. CASE DuringPass
  BY <1>1, CaptureLeavesTable DEF TableInv, Now, Detected, IsOpen, foVars, duVars
<1>2. CASE DiskChanges
  BY <1>2 DEF DiskChanges, TableInv, Now, Detected, IsOpen, rcVars, foVars
<1>3. ASSUME NEW i, NEW archived, ArchiveDump(i, archived) PROVE TableInv'
  BY <1>3 DEF ArchiveDump, TableInv, Now, Detected, IsOpen, rcVars, foVars, duVars
<1>4. CASE CrashAndRestart
  BY <1>4 DEF CrashAndRestart, Dies, ForgetDumps, TableInv, Now, Detected, IsOpen
<1>5. CASE UNCHANGED vars
  BY <1>5 DEF vars, rcVars, foVars, duVars, TableInv, Now, Detected, IsOpen
<1>6. QED
  BY <1>1, <1>2, <1>3, <1>4, <1>5, BeginKeepsTableInv, EndKeepsTableInv, PassCases

LEMMA TableInvariant == SamplingSpec => []TableInv
BY InitTableInv, NextTableInv, PTL DEF SamplingSpec

(* Between two passes the table has open what the snapshot shows.          *)
THEOREM TableAgrees == SamplingSpec => []TableAgreesWithSnapshot
<1>1. TableInv => TableAgreesWithSnapshot
  BY DEF TableInv, TableAgreesWithSnapshot, IsOpen
<1>2. QED
  BY <1>1, TableInvariant, PTL

-----------------------------------------------------------------------------
(* Evidence of what has just resolved. Rows on display are held by their   *)
(* engine, of a finding that is open or that this pass has closed.         *)

DumpFilesInv ==
  /\ \A p \in Paths : disk[p] \in 0..MaxStamp /\ (age[p] # "gone" => disk[p] # 0)
  /\ disk \in [Paths -> Nat] /\ DOMAIN age = Paths
  /\ dumps \subseteq Identities

RowsInv ==
  /\ DOMAIN found \subseteq Findings /\ open \subseteq Findings
  /\ DOMAIN latest \subseteq Targets /\ growing \subseteq Targets
  /\ DOMAIN found \ stale \subseteq open /\ stale \cap open = {}
  /\ lapsed \cap growing = {}

EvidenceInv ==
  /\ RowsInv /\ DumpFilesInv
  /\ \A i \in DOMAIN shown : shown[i] # "none" =>
       /\ i \in DOMAIN found \cup DOMAIN latest
       /\ i \in Detected \cup changed
  /\ stage = "asleep" => changed = {}

LEMMA InitEvidenceInv == SamplingInit => EvidenceInv
BY CrashDumpsAssumption
   DEF SamplingInit, DiagnosticsInit, Init, ForensicsInit, DumpsInit,
       EvidenceInv, RowsInv, DumpFilesInv, Detected

LEMMA BeginKeepsEvidence ==
  ASSUME EvidenceInv, RowsInv', DumpFilesInv', Begin
  PROVE  EvidenceInv'
<1>1. PICK ids : \E targets, d, read :
             /\ stage = "asleep" /\ stage' = "observing"
             /\ Observe(ids, d) /\ ObserveGrowth(targets, d, read)
             /\ changed' = (Detected \ (ids \cup targets)) \cup ((ids \cup targets) \ Detected)
             /\ UNCHANGED shown
  BY DEF Begin, BeginPass
<1>2. PICK targets, d, read :
             /\ stage = "asleep" /\ stage' = "observing"
             /\ Observe(ids, d) /\ ObserveGrowth(targets, d, read)
             /\ changed' = (Detected \ (ids \cup targets)) \cup ((ids \cup targets) \ Detected)
             /\ UNCHANGED shown
  BY <1>1
<1>3. Detected' = ids \cup targets
  BY <1>2 DEF Observe, NothingOpen, NotDue, CaptureDue, Retain, ObserveGrowth,
              NoTargets, Capture, Detected
<1>4. DOMAIN found \ stale \subseteq DOMAIN found'
  BY <1>2 DEF Observe, NothingOpen, NotDue, CaptureDue, Retain
<1>5. DOMAIN latest \ lapsed \subseteq DOMAIN latest'
  BY <1>2 DEF ObserveGrowth, NoTargets, Capture, Over, Only, KeptRows
<1>6. ASSUME NEW i \in DOMAIN shown, shown[i] # "none"
      PROVE  i \in DOMAIN found' \cup DOMAIN latest' /\ i \in Detected' \cup changed'
  <2>1. i \in Detected /\ i \in DOMAIN found \cup DOMAIN latest
    BY <1>2, <1>6 DEF EvidenceInv
  <2>2. CASE i \in open
    <3>1. i \in DOMAIN found /\ i \notin stale
      BY <2>1, <2>2, DiagnosticsAssumption DEF EvidenceInv, RowsInv, Targets
    <3>2. QED
      BY <1>2, <1>3, <1>4, <2>1, <3>1
  <2>3. CASE i \in growing
    <3>1. i \in DOMAIN latest /\ i \notin lapsed
      BY <2>1, <2>3, DiagnosticsAssumption DEF EvidenceInv, RowsInv, Targets
    <3>2. QED
      BY <1>2, <1>3, <1>5, <2>1, <3>1
  <2>4. QED
    BY <2>1, <2>2, <2>3 DEF Detected
<1>7. QED
  BY <1>2, <1>6 DEF EvidenceInv

LEMMA EndKeepsEvidence ==
  ASSUME EvidenceInv, RowsInv', DumpFilesInv', End
  PROVE  EvidenceInv'
<1>1. /\ shown' = [i \in Detected \cup dumps' |-> Evidence(i)]
      /\ changed' = {} /\ Detected' = Detected
      /\ found' = found /\ latest' = latest
  BY DEF End, EndPass, Detected, rcVars, foVars
<1>2. ASSUME NEW i \in DOMAIN shown', shown'[i] # "none"
      PROVE  i \in DOMAIN found \cup DOMAIN latest /\ i \in Detected
  <2>1. i \in DOMAIN found \cup DOMAIN latest
    BY <1>1, <1>2 DEF Evidence
  <2>2. i \notin dumps'
    BY <2>1, DiagnosticsAssumption DEF EvidenceInv, RowsInv, DumpFilesInv, Targets, Identities
  <2>3. QED
    BY <1>1, <1>2, <2>1, <2>2
<1>3. QED
  BY <1>1, <1>2 DEF EvidenceInv

LEMMA NextDumpFiles == DumpFilesInv /\ [SamplingNext]_passVars => DumpFilesInv'
<1> SUFFICES ASSUME DumpFilesInv, [SamplingNext]_passVars PROVE DumpFilesInv'
  OBVIOUS
<1> USE CrashDumpsAssumption DEF DumpFilesInv
<1>1. CASE UNCHANGED duVars
  BY <1>1 DEF duVars
<1>2. CASE End
  <2>1. PICK d \in Elapsed : \E readable, refreshed : EndPass(d, readable, refreshed)
    BY <1>2 DEF End
  <2>2. PICK readable : NoScan(d) \/ Scan(d, readable)
    BY <2>1 DEF EndPass
  <2>3. Recent \subseteq Identities
    BY DEF Recent, Identities
  <2>4. QED
    BY <2>2, <2>3 DEF NoScan, Scan
<1>3. CASE DiskChanges
  <2>1. PICK p \in Paths : Written(p) \/ Deleted(p) \/ GrowsOld(p)
    BY <1>3 DEF DiskChanges
  <2>2. dumps' = dumps
    BY <1>3 DEF DiskChanges
  <2>3. QED
    BY <2>1, <2>2 DEF Written, Deleted, GrowsOld
<1>4. CASE CrashAndRestart
  BY <1>4 DEF CrashAndRestart, ForgetDumps
<1>5. QED
  BY <1>1, <1>2, <1>3, <1>4, PassCases
     DEF Begin, BeginPass, DuringPass, DuringCapture, ArchiveDump, vars

LEMMA NextRows ==
  ASSUME RowsInv, RootCauseInv', GraceInv', [SamplingNext]_passVars
  PROVE  RowsInv'
<1>1. /\ DOMAIN found' \subseteq Findings /\ open' \subseteq Findings
      /\ DOMAIN found' \ stale' \subseteq open' /\ stale' \cap open' = {}
  BY DEF RootCauseInv, VerdictInv, GraceInv, OnlyOpenFindingsSpeak
<1>2. /\ DOMAIN latest' \subseteq Targets /\ growing' \subseteq Targets
      /\ lapsed' \cap growing' = {}
  <2>1. CASE UNCHANGED foVars
    BY <2>1 DEF foVars, RowsInv
  <2>2. CASE Begin
    <3>1. PICK targets \in SUBSET Targets : \E d, read : ObserveGrowth(targets, d, read)
      BY <2>2 DEF Begin, BeginPass
    <3>2. CASE NoTargets(targets)
      BY <3>2 DEF NoTargets, Only, KeptRows, RowsInv
    <3>3. ASSUME NEW d, NEW read, Capture(targets, d, read)
          PROVE  /\ DOMAIN latest' \subseteq Targets /\ growing' = targets
                 /\ lapsed' \cap targets = {}
      <4>1. growing' = targets /\ lapsed' = KeptRows(targets) \ targets
        BY <3>3 DEF Capture
      <4>2. PICK S : /\ S \subseteq targets
                     /\ DOMAIN latest' = DOMAIN Only(latest, KeptRows(targets)) \cup S
        BY <3>3 DEF Capture, Over
      <4>3. QED
        BY <4>1, <4>2 DEF Only, RowsInv
    <3>4. QED
      BY <3>1, <3>2, <3>3 DEF ObserveGrowth
  <2>3. CASE CrashAndRestart
    BY <2>3 DEF CrashAndRestart
  <2>4. QED
    BY <2>1, <2>2, <2>3, PassCases
       DEF DuringPass, DuringCapture, End, EndPass, DiskChanges, ArchiveDump, vars
<1>3. QED
  BY <1>1, <1>2 DEF RowsInv

LEMMA NextEvidenceInv ==
  ASSUME EvidenceInv, RootCauseInv', GraceInv', [SamplingNext]_passVars
  PROVE  EvidenceInv'
<1>1. RowsInv' /\ DumpFilesInv'
  BY NextRows, NextDumpFiles DEF EvidenceInv
<1>2. CASE DuringPass
  <2>1. DOMAIN found \subseteq DOMAIN found'
    BY <1>2, AttemptRebuilds DEF DuringPass, DuringCapture, StoppedByOthers, Attempted
  <2>2. QED
    BY <1>1, <1>2, <2>1, CaptureLeavesTable DEF EvidenceInv, Detected, foVars
<1>3. CASE DiskChanges
  BY <1>1, <1>3 DEF DiskChanges, EvidenceInv, Detected, rcVars, foVars
<1>4. ASSUME NEW i, NEW archived, ArchiveDump(i, archived) PROVE EvidenceInv'
  BY <1>1, <1>4 DEF ArchiveDump, EvidenceInv, Detected, rcVars, foVars
<1>5. CASE CrashAndRestart
  BY <1>1, <1>5 DEF CrashAndRestart, EvidenceInv
<1>6. CASE UNCHANGED vars
  BY <1>1, <1>6 DEF vars, rcVars, foVars, EvidenceInv, Detected
<1>7. QED
  BY <1>1, <1>2, <1>3, <1>4, <1>5, <1>6, BeginKeepsEvidence, EndKeepsEvidence, PassCases

LEMMA EvidenceInvariant == SamplingSpec => [](EvidenceInv /\ RootCauseInv /\ GraceInv)
<1>1. SamplingSpec => [](RootCauseInv /\ GraceInv)
  BY Components, RootCauseInvariant, InitGraceInv, NextGraceInv, PTL
<1>2. EvidenceInv /\ (RootCauseInv /\ GraceInv)' /\ [SamplingNext]_passVars => EvidenceInv'
  BY NextEvidenceInv
<1>3. QED
  BY <1>1, <1>2, InitEvidenceInv, PTL DEF SamplingSpec

(* What was on display with evidence is closed with evidence in the table. *)
THEOREM ResolutionKeepsEvidence == SamplingSpec => ResolvesWithEvidence
<1>1. EvidenceInv /\ [SamplingNext]_passVars =>
        [\A i \in DOMAIN shown \ DOMAIN shown' :
           shown[i] # "none" /\ crashes' = crashes
             => ~table'[i].open /\ table'[i].rows # "none"]_vars
  <2> SUFFICES ASSUME EvidenceInv, [SamplingNext]_passVars,
                      NEW i \in DOMAIN shown \ DOMAIN shown',
                      shown[i] # "none", crashes' = crashes
               PROVE  ~table'[i].open /\ table'[i].rows # "none"
    OBVIOUS
  <2>1. CASE End
    <3>1. PICK d \in Elapsed : \E readable, refreshed : EndPass(d, readable, refreshed)
      BY <2>1 DEF End
    <3>2. PICK readable, refreshed : EndPass(d, readable, refreshed)
      BY <3>1
    <3>3. i \in DOMAIN found \cup DOMAIN latest /\ i \in Detected \cup changed
      BY DEF EvidenceInv
    <3>4. i \notin Detected \cup dumps'
      BY <3>2 DEF EndPass
    <3>5. table' = Stored(changed \cup refreshed \cup DumpsChanged(d))
      BY <3>2 DEF EndPass
    <3>6. i \in changed
      BY <3>3, <3>4
    <3>7. Evidence(i) = "rows" /\ i \in DOMAIN found \cup DOMAIN latest
      BY <3>3 DEF Evidence
    <3>8. /\ table'[i].open = (i \in Detected \cup dumps')
          /\ table'[i].rows = Evidence(i)
      BY <3>5, <3>6 DEF Stored
    <3>9. QED
      BY <3>4, <3>7, <3>8
  <2>2. CASE CrashAndRestart
    <3>1. crashes' = crashes + 1 /\ crashes < MaxCrashes
      BY <2>2 DEF CrashAndRestart
    <3>2. QED
      BY <3>1
  <2>3. CASE UNCHANGED shown
    BY <2>3
  <2>4. QED
    BY <2>1, <2>2, <2>3, PassCases
       DEF Begin, BeginPass, DuringPass, DuringCapture, DiskChanges, ArchiveDump, vars
<1>2. QED
  BY <1>1, EvidenceInvariant, PTL DEF SamplingSpec, ResolvesWithEvidence

-----------------------------------------------------------------------------
(* Types, part by part: each engine's remaining variables, then what the   *)
(* pass keeps of them.                                                     *)

ClockInv ==
  /\ since \in {Never} \cup 0..Cooldown
  /\ failed \in BOOLEAN /\ trace \in BOOLEAN
  /\ kernel \in {"none", "ours", "orphan"}

LEMMA InitClockInv == Init => ClockInv
BY DEF Init, ClockInv

LEMMA AgedType ==
  ASSUME ClockInv, NEW d \in Elapsed
  PROVE  Aged(d) \in {Never} \cup 0..Cooldown
<1>1. d \in Nat \ {0} /\ Cooldown \in Nat
  BY RootCauseAssumption
<1>2. CASE since = Never
  BY <1>2 DEF Aged
<1>3. CASE since \in 0..Cooldown
  <2>1. since # Never /\ since + d \in Nat
    BY <1>1, <1>3 DEF Never
  <2>2. Aged(d) \in 0..Cooldown
    BY <1>1, <2>1 DEF Aged
  <2>3. QED
    BY <2>2
<1>4. QED
  BY <1>2, <1>3 DEF ClockInv

LEMMA NextClockInv == ClockInv /\ [Next]_rcVars => ClockInv'
<1> SUFFICES ASSUME ClockInv, [Next]_rcVars PROVE ClockInv'
  OBVIOUS
<1>1. CASE Pass
  <2>1. PICK d \in Elapsed : \E ids : Observe(ids, d)
    BY <1>1 DEF Pass
  <2>2. Aged(d) \in {Never} \cup 0..Cooldown /\ 0 \in 0..Cooldown
    BY AgedType, RootCauseAssumption
  <2>3. QED
    BY <2>1, <2>2 DEF Observe, NothingOpen, NotDue, CaptureDue, ClockInv
<1>2. CASE CaptureStep
  BY <1>2 DEF CaptureStep, SessionStarts, SessionDenied, TraceOpens, TraceRefused,
              ConsumerSpawns, ConsumerFails, WindowEnds, Decoded, NothingDecoded,
              JoinFails, Failed, StopSession, StopAccepted, StopRefused, ClockInv
<1>3. CASE StoppedByOthers
  BY <1>3 DEF StoppedByOthers, ClockInv
<1>4. CASE Dies
  BY <1>4 DEF Dies, ClockInv
<1>5. CASE UNCHANGED rcVars
  BY <1>5 DEF rcVars, ClockInv
<1>6. QED
  BY <1>1, <1>2, <1>3, <1>4, <1>5 DEF Next

(* A verdict names a family exactly when the history settled on one.       *)
LEMMA AttributionTypes ==
  ASSUME RootCauseInv, CaptureInv, GraceInv, ClockInv
  PROVE  TypeOK
<1>1. \A f \in DOMAIN found :
        /\ found[f].history \in Seq(Traces) /\ Len(found[f].history) <= History
        /\ found[f].verdict \in Verdicts /\ found[f].confident \in Families \cup {None}
  BY DEF RootCauseInv, VerdictInv, Sound
<1>2. \A f \in DOMAIN found :
        LET v == found[f].verdict
        IN  IF v.kind \in {"repeatable", "changed"}
            THEN v.family = found[f].confident /\ v.family # None
            ELSE v.family = None
  BY DEF RootCauseInv, VerdictInv, Sound, Naming
<1>3. QED
  BY <1>1, <1>2 DEF TypeOK, RootCauseInv, VerdictInv, CaptureInv, GraceInv, ClockInv

-----------------------------------------------------------------------------
(* Leak evidence: rows, and the grace they are given.                      *)

LeakRowsInv ==
  /\ \A f \in DOMAIN latest : latest[f] \in {"delta", "degraded"}
  /\ lapsed \subseteq DOMAIN latest
  /\ captured \in {Unset} \cup 0..Minute

LEMMA OlderType ==
  ASSUME LeakRowsInv, NEW d \in Elapsed
  PROVE  Older(d) \in {Unset} \cup 0..Minute
<1>1. d \in Nat \ {0} /\ Minute \in Nat
  BY RootCauseAssumption, ForensicsAssumption
<1>2. CASE captured = Unset
  BY <1>2 DEF Older
<1>3. CASE captured \in 0..Minute
  <2>1. captured # Unset /\ captured + d \in Nat
    BY <1>1, <1>3 DEF Unset
  <2>2. Older(d) \in 0..Minute
    BY <1>1, <2>1 DEF Older
  <2>3. QED
    BY <2>2
<1>4. QED
  BY <1>2, <1>3 DEF LeakRowsInv

LEMMA CaptureKeepsLeakRows ==
  ASSUME LeakRowsInv, NEW targets, NEW d \in Elapsed, NEW read,
         Capture(targets, d, read)
  PROVE  LeakRowsInv'
<1>1. captured' \in {Unset} \cup 0..Minute
  <2>1. 0 \in 0..Minute
    BY ForensicsAssumption
  <2>2. captured' = 0 \/ captured' = Older(d)
    BY DEF Capture
  <2>3. QED
    BY <2>1, <2>2, OlderType
<1>2. \A f \in DOMAIN latest' : latest'[f] \in {"delta", "degraded"}
  BY DEF Capture, Over, Only, LeakRowsInv
<1>3. KeptRows(targets) \subseteq DOMAIN latest'
  BY DEF Capture, Over, Only, KeptRows
<1>4. lapsed' \subseteq DOMAIN latest'
  <2>1. lapsed' = KeptRows(targets) \ targets
    BY DEF Capture
  <2>2. QED
    BY <1>3, <2>1
<1>5. QED
  BY <1>1, <1>2, <1>4 DEF LeakRowsInv

LEMMA NextLeakRows == LeakRowsInv /\ [SamplingNext]_passVars => LeakRowsInv'
<1> SUFFICES ASSUME LeakRowsInv, [SamplingNext]_passVars PROVE LeakRowsInv'
  OBVIOUS
<1>1. CASE Begin
  <2>1. PICK d \in Elapsed : \E targets, read : ObserveGrowth(targets, d, read)
    BY <1>1 DEF Begin, BeginPass
  <2>2. ASSUME NEW targets, NoTargets(targets) PROVE LeakRowsInv'
    BY <2>2 DEF NoTargets, LeakRowsInv, Only, KeptRows
  <2>3. ASSUME NEW targets, NEW read, Capture(targets, d, read) PROVE LeakRowsInv'
    BY <2>3, CaptureKeepsLeakRows
  <2>4. QED
    BY <2>1, <2>2, <2>3 DEF ObserveGrowth
<1>2. CASE UNCHANGED foVars
  BY <1>2 DEF foVars, LeakRowsInv
<1>3. CASE CrashAndRestart
  BY <1>3 DEF CrashAndRestart, LeakRowsInv
<1>4. CASE \/ DuringPass \/ End \/ DiskChanges \/ UNCHANGED vars
           \/ \E i \in Identities, archived \in BOOLEAN : ArchiveDump(i, archived)
  BY <1>2, <1>4 DEF DuringPass, DuringCapture, End, EndPass, DiskChanges, ArchiveDump, vars
<1>5. QED
  BY <1>1, <1>3, <1>4, PassCases

LEMMA LeakTypes ==
  ASSUME GrowthInv, RowsInv, LeakRowsInv
  PROVE  ForensicsTypeOK
BY DEF GrowthInv, BaselinesAreOwn, RowsInv, LeakRowsInv, ForensicsTypeOK
-----------------------------------------------------------------------------
(* Crash dumps: only a file that was written is ever discovered.           *)

DumpScanInv ==
  /\ \A p \in Paths : age[p] \in {"gone", "recent", "old"}
  /\ DOMAIN triaged \subseteq Identities
  /\ \A i \in DOMAIN triaged : triaged[i] \in {"parsed", "degraded"}
  /\ nextScan \in {Unscheduled} \cup 0..ScanEvery

LEMMA DiscoveredType == DumpFilesInv => Discovered \subseteq Identities
BY CrashDumpsAssumption DEF Discovered, DumpFilesInv, Identities

LEMMA NextDumpScan ==
  ASSUME DumpScanInv, DumpFilesInv, [SamplingNext]_passVars
  PROVE  DumpScanInv'
<1> USE CrashDumpsAssumption
<1>1. CASE UNCHANGED duVars
  BY <1>1 DEF duVars, DumpScanInv
<1>2. CASE End
  <2>1. PICK d \in Elapsed : \E readable, refreshed : EndPass(d, readable, refreshed)
    BY <1>2 DEF End
  <2>2. PICK readable : NoScan(d) \/ Scan(d, readable)
    BY <2>1 DEF EndPass
  <2>3. d \in Nat
    BY RootCauseAssumption
  <2>4. CASE NoScan(d)
    <3>1. nextScan' \in {Unscheduled} \cup 0..ScanEvery
      <4>1. CASE nextScan = Unscheduled
        BY <2>4, <4>1 DEF NoScan
      <4>2. CASE nextScan # Unscheduled
        <5>1. nextScan \in 0..ScanEvery /\ nextScan > d /\ nextScan' = nextScan - d
          BY <2>3, <2>4, <4>2 DEF NoScan, ScanDue, DumpScanInv
        <5>2. QED
          BY <2>3, <5>1
      <4>3. QED
        BY <4>1, <4>2
    <3>2. QED
      BY <2>4, <3>1 DEF NoScan, DumpScanInv
  <2>5. CASE Scan(d, readable)
    <3>1. nextScan' \in 0..ScanEvery
      BY <2>5 DEF Scan
    <3>2. \A i \in DOMAIN triaged' : triaged'[i] \in {"parsed", "degraded"}
      BY <2>5 DEF Scan, DumpScanInv
    <3>3. DOMAIN triaged' \subseteq Identities
      BY <2>5, DiscoveredType DEF Scan
    <3>4. QED
      BY <2>5, <3>1, <3>2, <3>3 DEF Scan, DumpScanInv
  <2>6. QED
    BY <2>2, <2>4, <2>5
<1>3. CASE DiskChanges
  <2>1. PICK p \in Paths : Written(p) \/ Deleted(p) \/ GrowsOld(p)
    BY <1>3 DEF DiskChanges
  <2>2. \A q \in Paths : age'[q] \in {"gone", "recent", "old"}
    BY <2>1 DEF Written, Deleted, GrowsOld, DumpScanInv, DumpFilesInv
  <2>3. QED
    BY <1>3, <2>2 DEF DiskChanges, DumpScanInv
<1>4. CASE CrashAndRestart
  BY <1>4 DEF CrashAndRestart, ForgetDumps, DumpScanInv
<1>5. QED
  BY <1>1, <1>2, <1>3, <1>4, PassCases
     DEF Begin, BeginPass, DuringPass, DuringCapture, ArchiveDump, vars

AgeInv == age \in [Paths -> {"gone", "recent", "old"}] /\ disk \in [Paths -> 0..MaxStamp]

LEMMA NextAge ==
  ASSUME AgeInv, [SamplingNext]_passVars
  PROVE  AgeInv'
<1>1. CASE UNCHANGED <<disk, age>>
  BY <1>1 DEF AgeInv
<1>2. CASE DiskChanges
  <2>1. PICK p \in Paths : Written(p) \/ Deleted(p) \/ GrowsOld(p)
    BY <1>2 DEF DiskChanges
  <2>2. disk[p] < MaxStamp => disk[p] + 1 \in 0..MaxStamp
    BY CrashDumpsAssumption DEF AgeInv
  <2>3. QED
    BY <2>1, <2>2 DEF Written, Deleted, GrowsOld, AgeInv
<1>3. QED
  BY <1>1, <1>2, PassCases
     DEF Begin, BeginPass, DuringPass, DuringCapture, End, EndPass, NoScan, Scan,
         CrashAndRestart, ForgetDumps, ArchiveDump, vars, duVars

LEMMA DumpTypes ==
  ASSUME DumpFilesInv, DumpScanInv, AgeInv
  PROVE  DumpsTypeOK
BY DEF DumpFilesInv, DumpScanInv, AgeInv, DumpsTypeOK

-----------------------------------------------------------------------------
(* The table and the snapshot.                                             *)

AlertRows == [open : BOOLEAN, archived : BOOLEAN, rows : {"none", "rows"}]

PassInv ==
  /\ scope \in Scopes /\ stage \in {"asleep", "observing"}
  /\ changed \subseteq AllIds /\ DOMAIN table \subseteq AllIds /\ DOMAIN shown \subseteq AllIds
  /\ \A i \in DOMAIN table : table[i] \in AlertRows
  /\ decided \subseteq DOMAIN table /\ crashes \in 0..MaxCrashes

LEMMA DetectedType == RowsInv /\ DumpFilesInv => Detected \cup dumps \subseteq AllIds
BY DEF RowsInv, DumpFilesInv, Detected, AllIds

LEMMA EndKeepsPass ==
  ASSUME PassInv, RowsInv, DumpFilesInv, DumpFilesInv', End
  PROVE  PassInv'
<1>1. PICK d \in Elapsed, readable \in SUBSET Discovered, refreshed \in {{}, Detected} :
        EndPass(d, readable, refreshed)
  BY DEF End
<1>2. dumps \subseteq Identities /\ dumps' \subseteq Identities
  BY DEF DumpFilesInv
<1> DEFINE written == changed \cup refreshed \cup DumpsChanged(d)
<1>3. written \subseteq AllIds /\ Detected \cup dumps' \subseteq AllIds
  BY <1>2, DetectedType DEF PassInv, DumpsChanged, AllIds
<1>4. table' = Stored(written)
  BY <1>1 DEF EndPass
<1>5. DOMAIN table' = DOMAIN table \cup written
  BY <1>4 DEF Stored
<1>6. \A i \in DOMAIN table' : table'[i] \in AlertRows
  <2> SUFFICES ASSUME NEW i \in DOMAIN table' PROVE table'[i] \in AlertRows
    OBVIOUS
  <2>1. CASE i \in written
    <3>1. table'[i] = [open |-> i \in Detected \cup dumps', archived |-> FALSE,
                       rows |-> Evidence(i)]
      BY <1>4, <2>1 DEF Stored
    <3>2. Evidence(i) \in {"none", "rows"}
      BY DEF Evidence
    <3>3. QED
      BY <3>1, <3>2 DEF AlertRows
  <2>2. CASE i \notin written
    BY <1>4, <2>2 DEF Stored, PassInv
  <2>3. QED
    BY <2>1, <2>2
<1>7. DOMAIN shown' \subseteq AllIds /\ changed' = {}
  BY <1>1, <1>3 DEF EndPass
<1>8. QED
  BY <1>1, <1>3, <1>5, <1>6, <1>7 DEF EndPass, PassInv

LEMMA NextPassInv ==
  ASSUME PassInv, RowsInv, RowsInv', DumpFilesInv, DumpFilesInv', [SamplingNext]_passVars
  PROVE  PassInv'
<1>1. CASE Begin
  <2>1. PICK ids \in {{}} \cup {{f} : f \in Findings}, targets \in SUBSET Targets :
          \E d, read : BeginPass(ids, targets, d, read)
    BY <1>1 DEF Begin
  <2>2. /\ changed' = (Detected \ (ids \cup targets)) \cup ((ids \cup targets) \ Detected)
        /\ stage' = "observing" /\ UNCHANGED <<scope, table, shown, decided, crashes>>
    BY <2>1 DEF BeginPass
  <2>3. ids \cup targets \subseteq AllIds
    BY DEF AllIds
  <2>4. changed' \subseteq AllIds
    BY <2>2, <2>3, DetectedType
  <2>5. QED
    BY <2>2, <2>4 DEF PassInv, AllIds
<1>2. CASE DuringPass
  BY <1>2, CaptureLeavesTable DEF PassInv, AllIds
<1>3. CASE End
  BY <1>3, EndKeepsPass
<1>4. CASE DiskChanges \/ UNCHANGED vars
  BY <1>4 DEF DiskChanges, vars, PassInv, AllIds
<1>5. CASE CrashAndRestart
  <2>1. crashes' \in 0..MaxCrashes
    BY <1>5, DiagnosticsAssumption DEF CrashAndRestart, PassInv
  <2>2. /\ DOMAIN table' = DOMAIN table
        /\ \A i \in DOMAIN table' : table'[i] \in AlertRows
    <3>1. table' = [i \in DOMAIN table |-> [table[i] EXCEPT !.open = FALSE]]
      BY <1>5 DEF CrashAndRestart
    <3>2. QED
      BY <3>1 DEF PassInv, AlertRows
  <2>3. QED
    BY <1>5, <2>1, <2>2 DEF CrashAndRestart, PassInv, AllIds
<1>6. ASSUME NEW i, NEW archived \in BOOLEAN, ArchiveDump(i, archived) PROVE PassInv'
  <2>1. /\ DOMAIN table' = DOMAIN table
        /\ \A j \in DOMAIN table' : table'[j] \in AlertRows
    BY <1>6 DEF ArchiveDump, PassInv, AlertRows
  <2>2. QED
    BY <1>6, <2>1 DEF ArchiveDump, PassInv, AllIds
<1>7. QED
  BY <1>1, <1>2, <1>3, <1>4, <1>5, <1>6, PassCases

LEMMA PassTypes ==
  ASSUME PassInv, TypeOK, ForensicsTypeOK, DumpsTypeOK
  PROVE  DiagnosticsTypeOK
<1>1. \A i \in DOMAIN table : table[i].open \in BOOLEAN /\ table[i].archived \in BOOLEAN
  BY DEF PassInv, AlertRows
<1>2. QED
  BY <1>1 DEF PassInv, DiagnosticsTypeOK

-----------------------------------------------------------------------------
(* The event log: every sequence within its bound.                         *)

LogTypesInv ==
  /\ logged \in Seq(0..AgeCap) /\ Len(logged) <= MaxRecord
  /\ pollDue \in BOOLEAN /\ initialPoll \in BOOLEAN
  /\ recent \in Seq(Records) /\ Len(recent) <= MaxIdentities
  /\ records \subseteq DOMAIN logged
  /\ reported \subseteq DOMAIN logged /\ slept \subseteq DOMAIN logged

LEMMA BoundedType ==
  ASSUME NEW S, NEW n \in Nat, NEW s \in Seq(S), Len(s) <= n
  PROVE  s \in BoundedSeq(S, n)
<1>1. s \in [1..Len(s) -> S] /\ Len(s) \in 0..n
  OBVIOUS
<1>2. [1..Len(s) -> S] \in {[1..m -> S] : m \in 0..n}
  BY <1>1
<1>3. QED
  BY <1>1, <1>2, Zenon DEF BoundedSeq, SeqOf

LEMMA LastOfBound ==
  ASSUME NEW S, NEW s \in Seq(S), NEW n \in Nat
  PROVE  LastOf(s, n) \in Seq(S) /\ Len(LastOf(s, n)) <= n
<1>1. CASE Len(s) <= n
  BY <1>1 DEF LastOf
<1>2. CASE ~(Len(s) <= n)
  <2> DEFINE m == Len(s) - n + 1
  <2>1. m \in 1..(Len(s) + 1) /\ Len(s) \in m-1..Len(s)
    BY <1>2
  <2>2. Len(SubSeq(s, m, Len(s))) = IF m <= Len(s) THEN Len(s) - m + 1 ELSE 0
    BY <2>1, SubSeqProperties
  <2>3. Len(SubSeq(s, m, Len(s))) <= n
    BY <1>2, <2>2
  <2>4. QED
    BY <1>2, <2>3, LastOfKeeps DEF LastOf
<1>3. QED
  BY <1>1, <1>2

LEMMA AgesBound ==
  ASSUME logged \in Seq(0..AgeCap), NEW d \in Nat
  PROVE  /\ Ages(d) \in Seq(0..AgeCap) /\ Len(Ages(d)) = Len(logged)
         /\ DOMAIN Ages(d) = DOMAIN logged
<1>1. AgeCap \in Nat
  BY EventLogAssumption DEF AgeCap
<1>2. \A e \in DOMAIN logged : logged[e] + d \in Nat
  BY <1>1
<1>3. \A e \in DOMAIN logged : Min({logged[e] + d, AgeCap}) \in 0..AgeCap
  BY <1>1, <1>2, MinOfTwo
<1>4. Ages(d) \in [1..Len(logged) -> 0..AgeCap] /\ Len(logged) \in Nat
  BY <1>3 DEF Ages
<1>5. Ages(d) \in Seq(0..AgeCap)
  BY <1>4, SeqDef
<1>6. QED
  BY <1>4, <1>5

LEMMA NextLogTypes == LogTypesInv /\ [EventLogNext]_evVars => LogTypesInv'
<1> SUFFICES ASSUME LogTypesInv, [EventLogNext]_evVars PROVE LogTypesInv'
  OBVIOUS
<1>1. CASE PollFails
  BY <1>1 DEF PollFails, LogTypesInv, InSight
<1>2. ASSUME NEW malformed \in SUBSET Records, NEW stored \in BOOLEAN,
             PollEvents(malformed, stored)
      PROVE  LogTypesInv'
  <2> DEFINE new == Examined \ (malformed \cup Range(recent))
  <2>1. AgeCap \in Nat /\ MaxRecord \in Nat /\ MaxIdentities \in Nat
    BY EventLogAssumption DEF AgeCap
  <2>2. logged \in Seq(Nat)
    BY <2>1, SeqMonotonic DEF LogTypesInv
  <2>3. /\ IsFiniteSet(InSight) /\ InSight \subseteq DOMAIN logged
        /\ Examined \subseteq InSight
    BY <2>2, WholeWindow
  <2>4. Cardinality(new) \in Nat /\ new \subseteq DOMAIN logged
    BY <2>3, FS_Subset, FS_CardinalityType
  <2>5. DOMAIN logged \subseteq Records
    BY <2>1 DEF LogTypesInv, Records
  <2>6. PICK order \in NewestFirst(new) : recent' = LastOf(recent \o order, MaxIdentities)
    BY <1>2 DEF PollEvents
  <2>7. order \in Seq(Records)
    <3>1. order \in [1..Cardinality(new) -> Records]
      BY <2>4, <2>5 DEF NewestFirst
    <3>2. \E n \in Nat : order \in [1..n -> Records]
      BY <2>4, <3>1
    <3>3. QED
      BY <3>2, SeqDef, Zenon
  <2>8. recent' \in Seq(Records) /\ Len(recent') <= MaxIdentities
    <3>1. recent \o order \in Seq(Records)
      BY <2>7, ConcatProperties DEF LogTypesInv
    <3>2. QED
      BY <2>1, <2>6, <3>1, LastOfBound
  <2>9. /\ malformed \subseteq DOMAIN logged
        /\ records' \subseteq DOMAIN logged /\ reported' \subseteq DOMAIN logged
    BY <1>2, <2>3, <2>4 DEF PollEvents, LogTypesInv
  <2>10. QED
    BY <1>2, <2>8, <2>9 DEF PollEvents, LogTypesInv
<1>3. CASE EventLogged
  <2>1. 0 \in 0..AgeCap
    BY EventLogAssumption DEF AgeCap
  <2>2. /\ logged' \in Seq(0..AgeCap) /\ Len(logged') = Len(logged) + 1
        /\ DOMAIN logged \subseteq DOMAIN logged'
    BY <1>3, <2>1 DEF EventLogged, LogTypesInv
  <2>3. Len(logged') <= MaxRecord
    BY <1>3, <2>2, EventLogAssumption DEF EventLogged, LogTypesInv
  <2>4. QED
    BY <1>3, <2>2, <2>3 DEF EventLogged, LogTypesInv
<1>4. ASSUME NEW d \in Nat, logged' = Ages(d)
      PROVE  /\ logged' \in Seq(0..AgeCap) /\ Len(logged') <= MaxRecord
             /\ DOMAIN logged' = DOMAIN logged
  BY <1>4, AgesBound DEF LogTypesInv
<1>5. CASE HalfMinute
  <2>1. logged' = Ages(1)
    BY <1>5 DEF HalfMinute
  <2>2. QED
    BY <1>4, <1>5, <2>1 DEF HalfMinute, LogTypesInv
<1>6. ASSUME NEW d \in Naps, Suspended(d) \/ BackAfter(d) PROVE LogTypesInv'
  <2>1. d \in Nat /\ logged' = Ages(d)
    BY <1>6, EventLogAssumption DEF Suspended, BackAfter
  <2>2. /\ logged' \in Seq(0..AgeCap) /\ Len(logged') <= MaxRecord
        /\ DOMAIN logged' = DOMAIN logged
    BY <1>4, <2>1
  <2>3. slept' \subseteq DOMAIN logged
    BY <1>6, <2>1, <2>2 DEF Suspended, BackAfter, Overslept, LogTypesInv
  <2>4. << >> \in Seq(Records) /\ Len(<< >>) <= MaxIdentities
    BY EventLogAssumption
  <2>5. QED
    BY <1>6, <2>2, <2>3, <2>4 DEF Suspended, BackAfter, LogTypesInv
<1>7. CASE UNCHANGED evVars
  BY <1>7 DEF evVars, LogTypesInv
<1>8. QED
  BY <1>1, <1>2, <1>3, <1>5, <1>6, <1>7 DEF EventLogNext

LEMMA LogTypes == LogTypesInv => EventLogTypeOK
BY BoundedType, EventLogAssumption DEF LogTypesInv, EventLogTypeOK

-----------------------------------------------------------------------------
(* The baseline, and the types of the whole pass.                          *)

LearnedInv == anchored \in BOOLEAN /\ watched <= MaxWatched /\ sleeps <= MaxGaps

LEMMA NextLearnedInv ==
  ASSUME LearnedInv, LearningInv, [LearningNext]_leVars
  PROVE  LearnedInv'
<1>1. CASE \E gap \in Gaps : SampleTaken(gap)
  <2>1. PICK gap \in Gaps : SampleTaken(gap)
    BY <1>1
  <2>2. anchored' \in BOOLEAN
    BY <2>1 DEF SampleTaken
  <2>3. watched' <= MaxWatched
    BY <2>1 DEF SampleTaken, LearnedInv
  <2>4. sleeps' <= MaxGaps
    <3>1. \/ sleeps' = sleeps
          \/ sleeps < MaxGaps /\ sleeps' = sleeps + 1
      BY <2>1 DEF SampleTaken
    <3>2. QED
      BY <3>1, LearningAssumption DEF LearnedInv, LearningInv
  <2>5. QED
    BY <2>2, <2>3, <2>4 DEF LearnedInv
<1>2. CASE BaselineSaved \/ StoppedCleanly \/ Crashed \/ UNCHANGED leVars
  BY <1>2 DEF LearnedInv, BaselineSaved, StoppedCleanly, Crashed, Restored, leVars
<1>3. QED
  BY <1>1, <1>2 DEF LearningNext

LEMMA LearningTypes == LearnedInv /\ LearningInv => LearningTypeOK
BY LearningAssumption DEF LearnedInv, LearningInv, LearningTypeOK

TypesInv ==
  /\ ClockInv /\ LeakRowsInv /\ DumpScanInv /\ AgeInv /\ PassInv
  /\ LogTypesInv /\ LearnedInv

LEMMA InitTypes == SamplingInit => TypesInv
<1> SUFFICES ASSUME SamplingInit PROVE TypesInv
  OBVIOUS
<1> USE DEF SamplingInit, DiagnosticsInit
<1>1. ClockInv
  BY InitClockInv
<1>2. LeakRowsInv
  BY DEF ForensicsInit, LeakRowsInv
<1>3. DumpScanInv /\ AgeInv
  BY CrashDumpsAssumption DEF DumpsInit, DumpScanInv, AgeInv
<1>4. PassInv
  BY DiagnosticsAssumption DEF PassInv
<1>5. LogTypesInv
  BY EventLogAssumption DEF EventLogInit, LogTypesInv
<1>6. LearnedInv
  <2>1. anchored = FALSE /\ watched = 0 /\ sleeps = 0
    BY DEF LearningInit
  <2>2. 0 <= MaxWatched /\ 0 <= MaxGaps
    BY LearningAssumption
  <2>3. QED
    BY <2>1, <2>2 DEF LearnedInv
<1>7. QED
  BY <1>1, <1>2, <1>3, <1>4, <1>5, <1>6 DEF TypesInv

(* Types of the whole pass: among them that a dump finding is always of a  *)
(* stamp its file was written with, that rows marked as stale are still    *)
(* held, that a verdict names a family exactly when the history settled on *)
(* one, and that rings and memories stay within their caps.                *)
THEOREM SamplingTypes == SamplingSpec => []SamplingTypeOK
<1> DEFINE Engines == /\ EvidenceInv /\ RootCauseInv /\ GraceInv
                      /\ CaptureInv /\ GrowthInv /\ LearningInv
<1>1. SamplingSpec => []Engines
  BY EvidenceInvariant, Components, InitCaptureInv, NextCaptureInv,
     InitGrowthInv, NextGrowthInv, InitLearningInv, NextLearningInv, PTL DEF SamplingSpec
<1>2. Engines /\ Engines' /\ TypesInv /\ [SamplingNext]_passVars => TypesInv'
  <2> SUFFICES ASSUME Engines, Engines', TypesInv, [SamplingNext]_passVars PROVE TypesInv'
    OBVIOUS
  <2>1. ClockInv' /\ LeakRowsInv' /\ AgeInv'
    BY RootCauseStep, NextClockInv, NextLeakRows, NextAge DEF TypesInv
  <2>2. DumpScanInv'
    BY NextDumpScan DEF TypesInv, EvidenceInv
  <2>3. PassInv'
    BY NextPassInv DEF TypesInv, EvidenceInv
  <2>4. LogTypesInv' /\ LearnedInv'
    BY EventLogStep, LearningStep, NextLogTypes, NextLearnedInv DEF TypesInv
  <2>5. QED
    BY <2>1, <2>2, <2>3, <2>4 DEF TypesInv
<1>3. Engines /\ TypesInv => SamplingTypeOK
  <2> SUFFICES ASSUME Engines, TypesInv PROVE SamplingTypeOK
    OBVIOUS
  <2>1. TypeOK
    BY AttributionTypes DEF TypesInv
  <2>2. ForensicsTypeOK
    BY LeakTypes DEF TypesInv, EvidenceInv
  <2>3. DumpsTypeOK
    BY DumpTypes DEF TypesInv, EvidenceInv
  <2>4. DiagnosticsTypeOK
    BY <2>1, <2>2, <2>3, PassTypes DEF TypesInv
  <2>5. QED
    BY <2>4, LogTypes, LearningTypes DEF TypesInv, SamplingTypeOK
<1>4. QED
  BY <1>1, <1>2, <1>3, InitTypes, PTL DEF SamplingSpec
=============================================================================
