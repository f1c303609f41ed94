--------------------------- MODULE IncidentLedger ---------------------------
(***************************************************************************)
(* What the alert engine promises to everyone downstream of it (storage,   *)
(* the snapshot, the tray): one incident per fingerprint, an identity that *)
(* survives a quiet-period reopen and is never reused, and a notification  *)
(* generation that only moves past a generation the user was told about.   *)
(* Detectors, hysteresis, scoring and time are absent: IncidentEngine has  *)
(* them and implements this module.                                        *)
(***************************************************************************)
EXTENDS Naturals

CONSTANTS
  Keys,    \* fingerprints
  MaxIds,  \* bound: incidents minted per fingerprint
  MaxGen   \* bound: notification generations per incident

VARIABLES
  ledger,  \* the incident open under each fingerprint, or Closed
  last,    \* the one that may still be reopened, or Nothing
  minted,  \* how many identities each fingerprint has used
  told     \* <<key, identity, generation>> published as notifiable

ledgerVars == <<ledger, last, minted, told>>

Closed  == [n |-> 0, gen |-> 0, notify |-> FALSE]
Nothing == [n |-> 0, gen |-> 0]

Incidents == [n : 1..MaxIds, gen : 0..MaxGen, notify : BOOLEAN]
Resolved  == [n : 1..MaxIds, gen : 0..MaxGen]

TypeOK ==
  /\ ledger \in [Keys -> Incidents \cup {Closed}]
  /\ last \in [Keys -> Resolved \cup {Nothing}]
  /\ minted \in [Keys -> 0..MaxIds]
  /\ told \subseteq Keys \X (1..MaxIds) \X (0..MaxGen)

Init ==
  /\ ledger = [k \in Keys |-> Closed]
  /\ last = [k \in Keys |-> Nothing]
  /\ minted = [k \in Keys |-> 0]
  /\ told = {}

(* What one evaluation may make of a fingerprint: o is the key's <<ledger, *)
(* last, minted>> afterwards.                                              *)
Stays(k, o) ==
  ledger[k] = Closed /\ o[1] = Closed /\ o[2] \in {last[k], Nothing} /\ o[3] = minted[k]

Mints(k, o) ==
  /\ ledger[k] = Closed
  /\ \E told1 \in BOOLEAN : o[1] = [n |-> minted[k] + 1, gen |-> 0, notify |-> told1]
  /\ o[2] = Nothing /\ o[3] = minted[k] + 1

(* A generation moves by one, and only past one that was published.        *)
Renotifies(k, n, gen, inc) ==
  /\ inc.n = n
  /\ \/ inc.gen = gen
     \/ inc.gen = gen + 1 /\ inc.notify /\ <<k, n, gen>> \in told

Reopens(k, o) ==
  /\ ledger[k] = Closed /\ last[k] # Nothing
  /\ Renotifies(k, last[k].n, last[k].gen, o[1])
  /\ o[2] = Nothing /\ o[3] = minted[k]

Updates(k, o) ==
  /\ ledger[k] # Closed
  /\ Renotifies(k, ledger[k].n, ledger[k].gen, o[1])
  /\ o[2] = last[k] /\ o[3] = minted[k]

Closes(k, o) ==
  /\ ledger[k] # Closed /\ o[1] = Closed
  /\ o[2] = [n |-> ledger[k].n, gen |-> ledger[k].gen]
  /\ o[3] = minted[k]

Step(k, o) == Stays(k, o) \/ Mints(k, o) \/ Reopens(k, o) \/ Updates(k, o) \/ Closes(k, o)

(* Every fingerprint takes its step in the same evaluation.                *)
Evaluate ==
  /\ \A k \in Keys : Step(k, <<ledger'[k], last'[k], minted'[k]>>)
  /\ told' = told \cup {<<k, ledger'[k].n, ledger'[k].gen>> :
                          k \in {key \in Keys : ledger'[key].notify}}

Spec == Init /\ [][Evaluate]_ledgerVars
=============================================================================
