------------------------------ MODULE Forensics ------------------------------
(***************************************************************************)
(* The leak evidence of metrics/forensics.rs: for each open handle- or     *)
(* thread-growth finding a baseline taken when it opens, and rows that say *)
(* what has been added since, refreshed at most once a minute.             *)
(***************************************************************************)
EXTENDS Integers

CONSTANTS
  Handles, Threads,  \* alert IDs of the two kinds, one process each
  Minute             \* CAPTURE_INTERVAL_MS

ASSUME ForensicsAssumption ==
  Handles \cap Threads = {} /\ Minute \in Nat \ {0}

VARIABLES
  growing,    \* the findings the last evaluation left active
  opening,    \* which opening of a finding is the present one
  baselines,  \* per finding, the opening its baseline was taken in
  latest,     \* per finding, its evidence rows: "delta" or "degraded"
  lapsed,     \* stale: findings whose rows are kept for one more pass
  captured    \* time since last_capture_ms, or Unset

foVars == <<growing, opening, baselines, latest, lapsed, captured>>

Targets == Handles \cup Threads
Unset   == -1

ForensicsTypeOK ==
  /\ growing \subseteq Targets /\ opening \in [Targets -> BOOLEAN]
  /\ DOMAIN baselines \subseteq Targets /\ \A f \in DOMAIN baselines : baselines[f] \in BOOLEAN
  /\ DOMAIN latest \subseteq Targets /\ \A f \in DOMAIN latest : latest[f] \in {"delta", "degraded"}
  /\ lapsed \subseteq DOMAIN latest
  /\ captured \in {Unset} \cup 0..Minute

ForensicsInit ==
  /\ growing = {} /\ opening = [f \in Targets |-> FALSE] /\ baselines = << >>
  /\ latest = << >> /\ lapsed = {} /\ captured = Unset

Over(f, g) == [x \in DOMAIN f \cup DOMAIN g |-> IF x \in DOMAIN g THEN g[x] ELSE f[x]]
Only(f, S) == [x \in DOMAIN f \cap S |-> f[x]]

Older(d) == IF captured = Unset THEN Unset ELSE IF captured + d > Minute THEN Minute ELSE captured + d

(* observe starts by letting go of what belongs to findings that are over; *)
(* the rows of one that resolves on this pass stay for its write-back.     *)
KeptRows(targets) == {f \in DOMAIN latest : f \in targets \/ f \notin lapsed}

NoTargets(targets) ==
  /\ targets = {}
  /\ growing' = {} /\ UNCHANGED opening
  /\ baselines' = << >>
  /\ latest' = Only(latest, KeptRows({})) /\ lapsed' = KeptRows({})
  /\ captured' = Unset

(* Baselines that outlive their finding, to be taken up again.             *)
HeldKeepingBaselines(targets) == baselines

Held(targets) == Only(baselines, targets)

IsDue(d) == Older(d) \in {Unset, Minute}

(* One enumeration answers for every handle finding, and a finding without *)
(* a baseline calls for one between two captures. read says whether the    *)
(* enumeration, and each process's thread list, could be read.             *)
Capture(targets, d, read) ==
  LET held    == Held(targets)
      fresh   == targets \ DOMAIN held
      asked   == IF IsDue(d) THEN targets \cap Handles ELSE fresh \cap Handles
      readNow == {f \in asked : "handles" \in read}
                   \cup {f \in targets \cap Threads : f \in read}
      failing == IF asked # {} /\ "handles" \notin read
                 THEN targets \cap Handles \cap DOMAIN held ELSE {}
      delta   == (readNow \cap DOMAIN held)
                   \ (IF IsDue(d) THEN {} ELSE Threads)
      noted   == failing \cup (IF IsDue(d) THEN (targets \cap Threads \cap DOMAIN held) \ read
                               ELSE {})
  IN  /\ targets # {}
      /\ growing' = targets
      /\ opening' = [f \in Targets |-> IF f \in targets \ growing THEN ~opening[f] ELSE opening[f]]
      /\ baselines' = Over(held, [f \in readNow \cap fresh |-> opening'[f]])
      /\ latest' = Over(Only(latest, KeptRows(targets)),
                        [f \in delta \cup noted |-> IF f \in delta THEN "delta" ELSE "degraded"])
      /\ lapsed' = KeptRows(targets) \ targets
      /\ captured' = IF IsDue(d) THEN 0 ELSE Older(d)

ObserveGrowth(targets, d, read) == NoTargets(targets) \/ Capture(targets, d, read)

(* A row counts what was added since its own finding opened: a baseline    *)
(* belongs to the present opening of an open finding, never to one that    *)
(* resolved and came back.                                                 *)
BaselinesAreOwn ==
  \A f \in DOMAIN baselines : f \in growing /\ baselines[f] = opening[f]
=============================================================================
