------------------------------ MODULE RootCause ------------------------------
(***************************************************************************)
(* The interrupt attribution of metrics/interrupts.rs: while a             *)
(* dpcInterrupt finding is open the sampling thread now and then stops for *)
(* a kernel trace of eight seconds, keeps the last few traces per finding, *)
(* and distils them into the verdict the notification policy waits for.    *)
(* The trace itself is a system-wide ETW session that outlives a crash.    *)
(***************************************************************************)
EXTENDS Integers, FiniteSets, Sequences, FiniteSetsExt, TLC

CONSTANTS
  Findings,         \* dpcInterrupt alert IDs
  Drivers, Family,  \* drivers as 1..n in name order, and the class of each
  Traces,           \* decoded captures: the share of each driver, percent
  History,          \* CAPTURE_HISTORY
  FastPhase,        \* FAST_PHASE_CAPTURES
  Fast, Cooldown,   \* the two spacings
  Elapsed           \* what the clock moves between two passes

None  == "none"   \* no family
Never == -1        \* no capture yet: last_capture_ms is None
Families == {Family[d] : d \in Drivers}

ASSUME RootCauseAssumption ==
  /\ Drivers \subseteq Nat
  /\ History \in Nat \ {0} /\ FastPhase \in 1..History
  /\ Fast \in Nat \ {0} /\ Cooldown \in Nat /\ Fast <= Cooldown
  /\ Elapsed \subseteq Nat \ {0}
  /\ Traces \subseteq [Drivers -> 0..100]
  /\ None \notin Families

VARIABLES
  open,    \* the findings the last evaluation left active
  found,   \* findings: per alert ID its captures, verdict and settled family
  stale,   \* findings kept for one more pass
  since,   \* time since last_capture_ms, or Never
  failed,  \* last_capture_failed
  step,    \* where the sampling thread is in WindowsInterruptSource::capture
  kernel,  \* the ETW session under our name: none, ours to stop, or orphaned by
           \* a crash or by a stop the kernel refused
  trace    \* the processing handle of OpenTrace is open

rcVars == <<open, found, stale, since, failed, step, kernel, trace>>

Steps == {"idle", "start", "attach", "spawn", "tracing", "join", "refused"}
VerdictKinds == {"noCapture", "single", "repeatable", "changed"}
Verdicts == [kind : VerdictKinds, family : Families \cup {None}]
(* Types; a family is named exactly when the verdict is an attribution, and *)
(* the family last settled on is then that one.                            *)
TypeOK ==
  /\ open \subseteq Findings /\ stale \subseteq DOMAIN found
  /\ DOMAIN found \subseteq Findings
  /\ \A f \in DOMAIN found :
       /\ found[f].history \in Seq(Traces) /\ Len(found[f].history) <= History
       /\ found[f].verdict \in Verdicts /\ found[f].confident \in Families \cup {None}
  /\ since \in {Never} \cup 0..Cooldown /\ failed \in BOOLEAN
  /\ step \in Steps /\ kernel \in {"none", "ours", "orphan"} /\ trace \in BOOLEAN
  /\ \A f \in DOMAIN found :
       LET v == found[f].verdict
       IN  IF v.kind \in {"repeatable", "changed"}
           THEN v.family = found[f].confident /\ v.family # None
           ELSE v.family = None

-----------------------------------------------------------------------------
(* The verdict of a capture history.                                       *)

(* CaptureRecord::top_driver: the largest share, ties to the first name.   *)
Leader == [t \in Traces |-> {d \in Drivers : t[d] > 0 /\ \A e \in Drivers :
                                 t[e] < t[d] \/ (t[e] = t[d] /\ d <= e)}]

Leads(h, d) == {i \in DOMAIN h : d \in Leader[h[i]]}

TotalShare(h, d) == FoldSet(LAMBDA i, sum : sum + h[i][d], 0, DOMAIN h)

(* modal_candidate: most leads, then the larger total share, then the name. *)
Candidates(h) == {d \in Drivers : Leads(h, d) # {}}

Ahead(h, d, e) ==
  LET n == Cardinality(Leads(h, d))  m == Cardinality(Leads(h, e))
      s == TotalShare(h, d)          r == TotalShare(h, e)
  IN  \/ n > m
      \/ n = m /\ s > r
      \/ n = m /\ s = r /\ d <= e

ModalDriver(h) ==
  LET candidates == Candidates(h)
  IN  {d \in candidates : \A e \in candidates : Ahead(h, d, e)}

(* assess_confidence: Medium or better. High asks for more of the same and *)
(* only changes the wording; the correlation never lifts a Low.            *)
AboveLow(h, d) ==
  LET consistent == Cardinality(Leads(h, d))
  IN  \/ consistent >= 2 /\ TotalShare(h, d) >= 30 * Len(h)
      \/ Len(h) = 1 /\ consistent = 1 /\ TotalShare(h, d) >= 60

Agreement(h, c) ==
  Cardinality({i \in DOMAIN h : \E d \in Leader[h[i]] : Family[d] = c})

(* A gate without the majority: enough agreement ever is enough.           *)
SettledOnAny(h, d) ==
  /\ Agreement(h, Family[d]) >= 2
  /\ AboveLow(h, d)

SettledOn(h, d) ==
  LET agreement == Agreement(h, Family[d])
  IN  /\ agreement >= 2               \* REPEATABLE_CAPTURES
      /\ agreement * 2 > Len(h)
      /\ AboveLow(h, d)

(* rebuild_rows, which runs after every attempt, failed ones included.     *)
Rebuild(state, h) ==
  LET modal   == ModalDriver(h)
      settled == {Family[d] : d \in {e \in modal : SettledOn(h, e)}}
  IN  IF settled = {}
      THEN [history |-> h, confident |-> state.confident,
            verdict |-> [kind |-> IF modal = {} THEN "noCapture" ELSE "single",
                         family |-> None]]
      ELSE LET c == CHOOSE f \in settled : TRUE
           IN  [history |-> h, confident |-> c,
                verdict |-> [kind |-> IF state.confident \in {None, c}
                                      THEN "repeatable" ELSE "changed",
                             family |-> c]]

-----------------------------------------------------------------------------
(* InterruptEngine::observe, up to the capture.                            *)

NoState == [history |-> <<>>, confident |-> None,
            verdict |-> [kind |-> "noCapture", family |-> None]]

StateOf(f) == IF f \in DOMAIN found THEN found[f] ELSE NoState

Aged(d) == IF since = Never THEN Never ELSE IF since + d > Cooldown THEN Cooldown ELSE since + d

(* The grace pass: a finding resolved on this pass keeps its state for the *)
(* write-back, one resolved on the pass before loses it.                   *)
Retain(ids) ==
  LET kept == {f \in DOMAIN found : f \in ids \/ f \notin stale}
  IN  /\ open' = ids
      /\ found' = [f \in kept |-> found[f]]
      /\ stale' = kept \ ids

Kept(ids) == {f \in DOMAIN found : f \in ids \/ f \notin stale}

Spacing(ids) ==
  IF failed THEN Cooldown
  ELSE IF \E f \in ids : f \notin Kept(ids) \/ Len(found[f].history) < FastPhase
       THEN Fast ELSE Cooldown

Due(ids, d) ==
  \/ Aged(d) = Never
  \/ Aged(d) >= Spacing(ids)
  \/ ids \ Kept(ids) # {}

NothingOpen(ids, d) ==
  /\ step = "idle" /\ ids = {}
  /\ Retain(ids)
  /\ since' = Never /\ failed' = FALSE
  /\ UNCHANGED <<step, kernel, trace>>

NotDue(ids, d) ==
  /\ step = "idle" /\ ids # {} /\ ~Due(ids, d)
  /\ Retain(ids)
  /\ since' = Aged(d)
  /\ UNCHANGED <<failed, step, kernel, trace>>

CaptureDue(ids, d) ==
  /\ step = "idle" /\ ids # {} /\ Due(ids, d)
  /\ Retain(ids)
  /\ since' = 0
  /\ step' = "start"
  /\ UNCHANGED <<failed, kernel, trace>>

Observe(ids, d) == NothingOpen(ids, d) \/ NotDue(ids, d) \/ CaptureDue(ids, d)

-----------------------------------------------------------------------------
(* WindowsInterruptSource::capture: one kernel session, one consumer.      *)

Attempted(histories) ==
  found' = [f \in DOMAIN found \cup open |->
              IF f \in open THEN Rebuild(StateOf(f), histories[f]) ELSE found[f]]

Failed ==
  /\ failed' = TRUE
  /\ step' = "idle"
  /\ Attempted([f \in open |-> StateOf(f).history])

(* StartTrace; a session an earlier capture left under the name is stopped *)
(* and the start tried once more.                                          *)
SessionStarts ==
  /\ step = "start"
  /\ kernel' = "ours"
  /\ step' = "attach"
  /\ UNCHANGED <<open, found, stale, since, failed, trace>>

SessionDenied ==
  /\ step = "start"
  /\ \/ kernel' = kernel              \* refused outright
     \/ kernel = "orphan" /\ kernel' = "none"  \* the retry is refused
  /\ Failed
  /\ UNCHANGED <<open, stale, since, trace>>

TraceOpens ==
  /\ step = "attach"
  /\ trace' = TRUE
  /\ step' = "spawn"
  /\ UNCHANGED <<open, found, stale, since, failed, kernel>>

(* SystemLoggerSession::stop, which asks once: an error leaves whatever    *)
(* runs to run on, and is all that a session already gone can answer.      *)
StopAccepted == kernel = "ours" /\ kernel' = "none"
StopRefused  == kernel' = IF kernel = "ours" THEN "orphan" ELSE kernel
StopSession  == StopAccepted \/ StopRefused

(* An early return that leaves the session to the kernel.                  *)
TraceRefusedLeaks ==
  /\ step = "attach"
  /\ Failed
  /\ UNCHANGED <<open, stale, since, kernel, trace>>

(* This error path and the next one do not look at the stop's status.      *)
TraceRefused ==
  /\ step = "attach"
  /\ StopSession
  /\ Failed
  /\ UNCHANGED <<open, stale, since, trace>>

ConsumerSpawns ==
  /\ step = "spawn"
  /\ step' = "tracing"
  /\ UNCHANGED <<open, found, stale, since, failed, kernel, trace>>

ConsumerFails ==
  /\ step = "spawn"
  /\ trace' = FALSE /\ StopSession
  /\ Failed
  /\ UNCHANGED <<open, stale, since>>

(* A wait that only ends with a session of our own to stop.                *)
WindowFillsUp ==
  /\ step = "tracing" /\ kernel = "ours"
  /\ \/ StopAccepted /\ step' = "join"
     \/ StopRefused /\ step' = "refused"
  /\ UNCHANGED <<open, found, stale, since, failed, trace>>

(* The window passes or the event cap is reached; session.stop(), whose    *)
(* status is looked at after the join.                                     *)
WindowEnds ==
  /\ step = "tracing"
  /\ \/ StopAccepted /\ step' = "join"
     \/ StopRefused /\ step' = "refused"
  /\ UNCHANGED <<open, found, stale, since, failed, trace>>

(* A ring nobody bounds.                                                   *)
PushAll(h, t) == Append(h, t)

Push(h, t) == LET all == Append(h, t)
              IN  IF Len(all) > History THEN Tail(all) ELSE all

(* The consumer has drained, closed its handle and joined: a decoded trace *)
(* enters the history of every open finding.                               *)
Decoded(t) ==
  /\ step = "join"
  /\ trace' = FALSE /\ failed' = FALSE /\ step' = "idle"
  /\ Attempted([f \in open |-> Push(StateOf(f).history, t)])
  /\ UNCHANGED <<open, stale, since, kernel>>

(* No event in the window, or none that decodes.                           *)
NothingDecoded ==
  /\ step = "join"
  /\ trace' = FALSE /\ failed' = FALSE /\ step' = "idle"
  /\ Attempted([f \in open |-> StateOf(f).history])
  /\ UNCHANGED <<open, stale, since, kernel>>

(* A consumer in ProcessTrace on a session that goes on: the join waits,   *)
(* with no bound, for someone else to stop it.                             *)
Blocked == step = "refused" /\ kernel = "orphan"

(* The consumer panicked, or the stop returned an error.                   *)
JoinFails ==
  /\ step \in {"join", "refused"} /\ ~Blocked
  /\ trace' = FALSE
  /\ Failed
  /\ UNCHANGED <<open, stale, since, kernel>>

CaptureStep ==
  \/ SessionStarts \/ SessionDenied \/ TraceOpens \/ TraceRefused
  \/ ConsumerSpawns \/ ConsumerFails \/ WindowEnds
  \/ (\E t \in Traces : Decoded(t)) \/ NothingDecoded \/ JoinFails

-----------------------------------------------------------------------------
(* Another tool stops the session by name, while we trace or afterwards.   *)
StoppedByOthers ==
  /\ kernel \in {"ours", "orphan"} /\ kernel' = "none"
  /\ UNCHANGED <<open, found, stale, since, failed, step, trace>>

(* The collector dies: its memory and its handles go, the session stays.   *)
Dies ==
  /\ open' = {} /\ found' = << >> /\ stale' = {}
  /\ since' = Never /\ failed' = FALSE /\ step' = "idle" /\ trace' = FALSE
  /\ kernel' = IF kernel = "ours" THEN "orphan" ELSE kernel

Init ==
  /\ open = {} /\ found = << >> /\ stale = {} /\ since = Never /\ failed = FALSE
  /\ step = "idle" /\ kernel = "none" /\ trace = FALSE

(* One detector key: at most one finding is open, and another one never    *)
(* opens on the pass that resolves it.                                     *)
Pass == \E ids \in {{}} \cup {{f} : f \in Findings}, d \in Elapsed :
          /\ open = {} \/ ids = {} \/ ids = open
          /\ Observe(ids, d)

Next == Pass \/ CaptureStep \/ StoppedByOthers \/ Dies

(* The sampling thread neither sleeps through a pass nor waits for anyone. *)
Spec == Init /\ [][Next]_rcVars /\ WF_rcVars(Pass) /\ WF_rcVars(CaptureStep)

-----------------------------------------------------------------------------
(* Every path out of a capture, the four error returns included, has asked *)
(* for the stop of the session and closed the trace it opened: whatever    *)
(* runs on over an idle collector was left by a crash or by a refused stop. *)
NothingLeftRunning ==
  step = "idle" => kernel # "ours" /\ ~trace

(* The verdict the notification policy reads between two passes is that of *)
(* a finding that is still open: what a resolved finding leaves behind for *)
(* its write-back is marked, and a marked finding is not listened to.      *)
OnlyOpenFindingsSpeak ==
  /\ DOMAIN found \ stale \subseteq open
  /\ stale \cap open = {}

(* A change of cause is confident on both sides, so two changes never      *)
(* follow each other from one trace to the next: a leader that swings with *)
(* every capture cannot ring the bell twice.                               *)
NoSwinging ==
  [][\A f \in DOMAIN found \cap DOMAIN found' :
       found[f].verdict.kind = "changed" /\ found'[f].verdict.kind = "changed"
         => found'[f] = found[f]]_rcVars

(* The sampling loop comes back from every capture, whoever stopped the    *)
(* session and whatever failed, the stop included unless the session       *)
(* survives it at the end of the window.                                   *)
CaptureReturns == step # "idle" ~> (step = "idle" \/ Blocked)
=============================================================================
