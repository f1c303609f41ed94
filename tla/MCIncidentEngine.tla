-------------------------- MODULE MCIncidentEngine --------------------------
(* Model checking IncidentEngine.                                          *)
EXTENDS IncidentEngine

(* Confidence above and below the floors, and with the rating offset at    *)
(* its upper bound.                                                        *)
OneScore == {[confidence |-> 80, offset |-> 0]}
AnyScore == {[confidence |-> 80, offset |-> 0], [confidence |-> 40, offset |-> 0]}
RaisedScore == {[confidence |-> 80, offset |-> 15]}

(* Severities of the banded detectors and of the DPC detector.             *)
AnyBand  == [k \in Keys |-> {Info, Warning, Critical}]
TwoBands == [k \in Keys |-> {Warning, Critical}]
OneBand  == [k \in Keys |-> {Warning}]
=============================================================================
