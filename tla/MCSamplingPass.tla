---------------------------- MODULE MCSamplingPass ---------------------------
(* Model checking SamplingPass: two storage drivers and a network driver,   *)
(* a handle and a thread finding, a dump file written twice.               *)
EXTENDS SamplingPass

TwoFamilies == <<"storage", "storage", "network">>
ThreeTraces == {<<70, 10, 5>>, <<10, 65, 5>>, <<10, 5, 60>>}
=============================================================================
