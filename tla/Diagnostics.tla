----------------------------- MODULE Diagnostics -----------------------------
(***************************************************************************)
(* One sampling pass of runtime.rs after the detectors have run: the three *)
(* diagnostic engines look at the findings that are open, write their      *)
(* evidence onto them, and the result goes to the alert table and to the   *)
(* snapshot the clients read. The user's requests reach the table between  *)
(* two passes, and a crash takes all but the table.                        *)
(* The engines share the list of findings and the clock, nothing else: a   *)
(* behaviour opens findings of one engine only (scope).                    *)
(***************************************************************************)
EXTENDS RootCause, Forensics, CrashDumps

CONSTANTS Scopes, MaxCrashes

ASSUME DiagnosticsAssumption ==
  /\ Findings \cap (Handles \cup Threads) = {}
  /\ (Findings \cup Handles \cup Threads) \cap (Paths \X (1..MaxStamp)) = {}
  /\ MaxCrashes \in Nat

VARIABLES
  scope,    \* "interrupts", "growth" or "dumps"
  stage,    \* the sampling thread: asleep, or past the growth engine
  changed,  \* evaluation.changed, as far as the detectors fill it
  table,    \* alerts: per ID whether open, what evidence, whether archived
  shown,    \* snapshot.active_alerts: per ID the evidence on display
  decided,  \* the archive decisions of the user the table has accepted
  crashes

vars == <<rcVars, foVars, duVars, scope, stage, changed, table, shown, decided, crashes>>

AllIds == Findings \cup Targets \cup Identities
Detected == open \cup growing

(* Types, the engines' included.                                           *)
DiagnosticsTypeOK ==
  /\ TypeOK /\ ForensicsTypeOK /\ DumpsTypeOK
  /\ scope \in Scopes /\ stage \in {"asleep", "observing"}
  /\ changed \subseteq AllIds /\ DOMAIN table \subseteq AllIds /\ DOMAIN shown \subseteq AllIds
  /\ \A i \in DOMAIN table : table[i].open \in BOOLEAN /\ table[i].archived \in BOOLEAN
  /\ decided \subseteq DOMAIN table /\ crashes \in 0..MaxCrashes

DiagnosticsInit ==
  /\ Init /\ ForensicsInit /\ DumpsInit
  /\ scope \in Scopes /\ stage = "asleep" /\ changed = {}
  /\ table = << >> /\ shown = << >> /\ decided = {} /\ crashes = 0

-----------------------------------------------------------------------------

(* The detectors' verdict on a sample, and forensics and interrupts over   *)
(* it. What opens or resolves is in changed; EndPass adds what else was    *)
(* refreshed.                                                              *)
BeginPass(ids, targets, d, read) ==
  /\ stage = "asleep" /\ stage' = "observing"
  /\ ids # {} => scope = "interrupts"
  /\ targets # {} => scope = "growth"
  /\ open = {} \/ ids = {} \/ ids = open
  /\ Observe(ids, d) /\ ObserveGrowth(targets, d, read)
  /\ changed' = LET now == ids \cup targets
                IN  (Detected \ now) \cup (now \ Detected)
  /\ UNCHANGED <<duVars, scope, table, shown, decided, crashes>>

DuringCapture ==
  /\ CaptureStep
  /\ UNCHANGED <<foVars, duVars, scope, stage, changed, table, shown, decided, crashes>>

DuringPass ==
  \/ DuringCapture
  \/ StoppedByOthers
     /\ UNCHANGED <<foVars, duVars, scope, stage, changed, table, shown, decided, crashes>>

(* forensics.decorate and interrupts.decorate.                             *)
Evidence(i) ==
  IF i \in DOMAIN found \cup DOMAIN latest THEN "rows" ELSE "none"

(* A store that leaves the evidence of a resolved finding to the engine.   *)
StoredOpenOnly(ids) ==
  [i \in DOMAIN table \cup ids |->
     IF i \in ids THEN [open |-> i \in Detected \cup dumps', archived |-> FALSE,
                        rows |-> IF i \in Detected THEN Evidence(i) ELSE "none"]
     ELSE table[i]]

(* upsert_alerts replaces the row; of a detector's finding the archive     *)
(* flag is the engine's affair (AlertService), of a dump it is build_alert's. *)
Stored(ids) ==
  [i \in DOMAIN table \cup ids |->
     IF i \in ids THEN [open |-> i \in Detected \cup dumps', archived |-> FALSE,
                        rows |-> Evidence(i)]
     ELSE table[i]]

(* dumps.observe, upsert_alerts, and the snapshot.                         *)
EndPass(d, readable, refreshed) ==
  /\ stage = "observing" /\ step = "idle" /\ stage' = "asleep"
  /\ NoScan(d) \/ Scan(d, readable)
  /\ table' = Stored(changed \cup refreshed \cup DumpsChanged(d))
  /\ shown' = [i \in Detected \cup dumps' |-> Evidence(i)]
  /\ changed' = {}
  /\ UNCHANGED <<rcVars, foVars, scope, decided, crashes>>

(* ArchiveAlert for a dump: the alert engine does not know it, the table   *)
(* takes it, the snapshot and the dump engine keep what they have.         *)
ArchiveDump(i, archived) ==
  /\ i \in DOMAIN table \cap Identities /\ i \in DOMAIN shown
  /\ table[i].archived # archived
  /\ table' = [table EXCEPT ![i].archived = archived]
  /\ decided' = IF archived THEN decided \cup {i} ELSE decided \ {i}
  /\ UNCHANGED <<rcVars, foVars, duVars, scope, stage, changed, shown, crashes>>

DiskChanges ==
  /\ scope = "dumps"
  /\ \E p \in Paths : Written(p) \/ Deleted(p) \/ GrowsOld(p)
  /\ UNCHANGED <<rcVars, foVars, dumps, triaged, nextScan,
                 scope, stage, changed, table, shown, decided, crashes>>

(* A start after a crash or a failed upsert closes what the table has open. *)
CrashAndRestart ==
  /\ crashes < MaxCrashes /\ crashes' = crashes + 1
  /\ Dies /\ ForgetDumps
  /\ growing' = {} /\ baselines' = << >> /\ latest' = << >> /\ lapsed' = {}
  /\ captured' = Unset /\ UNCHANGED opening
  /\ stage' = "asleep" /\ changed' = {} /\ shown' = << >>
  /\ table' = [i \in DOMAIN table |-> [table[i] EXCEPT !.open = FALSE]]
  /\ UNCHANGED <<scope, decided>>

Begin == \E ids \in {{}} \cup {{f} : f \in Findings}, targets \in SUBSET Targets,
            d \in Elapsed, read \in SUBSET ({"handles"} \cup Threads) :
           BeginPass(ids, targets, d, read)

End == \E d \in Elapsed, readable \in SUBSET Discovered, refreshed \in {{}, Detected} :
         EndPass(d, readable, refreshed)

DiagnosticsNext ==
  \/ Begin \/ DuringPass \/ End \/ DiskChanges \/ CrashAndRestart
  \/ \E i \in Identities, archived \in BOOLEAN : ArchiveDump(i, archived)

-----------------------------------------------------------------------------
(* Between two passes the table and the snapshot agree on what is open,    *)
(* over crashes and whichever engine a finding comes from.                 *)
TableAgreesWithSnapshot ==
  stage = "asleep" => {i \in DOMAIN table : table[i].open} = DOMAIN shown

(* A finding whose evidence was on display resolves with evidence: the row *)
(* history keeps is not emptied by the pass that closes it. The engines'   *)
(* grace pass is for this.                                                 *)
ResolvesWithEvidence ==
  [][\A i \in DOMAIN shown \ DOMAIN shown' :
       shown[i] # "none" /\ crashes' = crashes
         => ~table'[i].open /\ table'[i].rows # "none"]_vars

(* docs/detectors.md: findings can be archived, and an archived finding    *)
(* that is still active keeps updating in the archive view.                *)
ArchivedStaysArchived ==
  \A i \in decided : table[i].archived
=============================================================================
