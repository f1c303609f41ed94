--------------------------- MODULE MCAlertService ---------------------------
(* Model checking AlertService. An identity is what a row is filed under   *)
(* and a generation is part of its content, so a behaviour goes through    *)
(* two identities or through two renotifications of one (story).           *)
EXTENDS AlertService

VARIABLE story

Minting     == "identities"
Renotifying == "generations"

MCInit == Init /\ story \in {Minting, Renotifying}

MCNext ==
  /\ Next
  /\ \A k \in Keys : IF story = Minting THEN ledger'[k].gen = 0 ELSE minted'[k] <= 1
  /\ UNCHANGED story

MCSpec ==
  /\ MCInit /\ [][MCNext]_<<vars, story>>
  /\ WF_vars(Loop) /\ WF_vars(Handler) /\ WF_vars(Poll)
=============================================================================
