----------------------------- MODULE CrashDumps -----------------------------
(***************************************************************************)
(* The crash-dump findings of metrics/dumps.rs: a slow scan of the dump    *)
(* locations, one finding per dump file and modified stamp, refreshed by   *)
(* every scan that still sees the file.                                    *)
(***************************************************************************)
EXTENDS Integers

CONSTANTS
  Paths, MaxStamp,       \* dump files, and how often one is written
  FirstScan, ScanEvery   \* FIRST_SCAN_DELAY_MS, SCAN_INTERVAL_MS

ASSUME CrashDumpsAssumption ==
  MaxStamp \in Nat /\ FirstScan \in Nat \ {0} /\ ScanEvery \in Nat \ {0}
    /\ FirstScan <= ScanEvery

VARIABLES
  disk,       \* per path: the stamp of its file, 0 before the first one
  age,        \* per path: "gone", "recent", or "old": past CRASH_COUNT_WINDOW_MS
  dumps,      \* active: the findings the engine holds, by identity
  triaged,    \* triage_cache: what the header of each dump gave
  nextScan    \* time until next_scan_ms, or Unscheduled

duVars == <<disk, age, dumps, triaged, nextScan>>

Unscheduled == -1
Identities == Paths \X (1..MaxStamp)   \* finding_id of path and stamp

DumpsTypeOK ==
  /\ disk \in [Paths -> 0..MaxStamp]
  /\ age \in [Paths -> {"gone", "recent", "old"}]
  /\ dumps \subseteq Identities
  /\ DOMAIN triaged \subseteq Identities
  /\ \A i \in DOMAIN triaged : triaged[i] \in {"parsed", "degraded"}
  /\ nextScan \in {Unscheduled} \cup 0..ScanEvery

DumpsInit ==
  /\ disk = [p \in Paths |-> 0] /\ age = [p \in Paths |-> "gone"]
  /\ dumps = {} /\ triaged = << >> /\ nextScan = Unscheduled

(* Windows: a program or the system crashes, over an earlier dump of the   *)
(* same name or not; the user cleans up; a month passes.                   *)
Written(p) ==
  /\ disk[p] < MaxStamp
  /\ disk' = [disk EXCEPT ![p] = @ + 1] /\ age' = [age EXCEPT ![p] = "recent"]

Deleted(p) ==
  /\ age[p] # "gone"
  /\ age' = [age EXCEPT ![p] = "gone"] /\ UNCHANGED disk

GrowsOld(p) ==
  /\ age[p] = "recent"
  /\ age' = [age EXCEPT ![p] = "old"] /\ UNCHANGED disk

Discovered == {<<p, disk[p]>> : p \in {q \in Paths : age[q] # "gone"}}
Recent     == {<<p, disk[p]>> : p \in {q \in Paths : age[q] = "recent"}}

ScanDue(d) == nextScan # Unscheduled /\ nextScan <= d

(* Between two scans: one comparison, nothing changed.                     *)
NoScan(d) ==
  /\ ~ScanDue(d)
  /\ nextScan' = IF nextScan = Unscheduled THEN FirstScan ELSE nextScan - d
  /\ UNCHANGED <<disk, age, dumps, triaged>>

(* scan: each dump is read once per identity, each recent one is a finding, *)
(* and a finding whose dump is not there any more, or is old, resolves.    *)
Scan(d, readable) ==
  /\ ScanDue(d)
  /\ nextScan' = ScanEvery
  /\ triaged' = [i \in Discovered |-> IF i \in DOMAIN triaged THEN triaged[i]
                                      ELSE IF i \in readable THEN "parsed" ELSE "degraded"]
  /\ dumps' = Recent
  /\ UNCHANGED <<disk, age>>

(* A scan that lets the resolved go without a word.                        *)
DumpsSeen(d) == IF ScanDue(d) THEN dumps' ELSE {}

(* What a scan hands on for storage: the refreshed and the resolved.       *)
DumpsChanged(d) == IF ScanDue(d) THEN dumps' \cup dumps ELSE {}

ForgetDumps ==
  /\ dumps' = {} /\ triaged' = << >> /\ nextScan' = Unscheduled
  /\ UNCHANGED <<disk, age>>
=============================================================================
