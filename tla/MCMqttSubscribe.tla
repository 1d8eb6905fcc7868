-------------------------- MODULE MCMqttSubscribe --------------------------
(* MqttSubscribe for TLC: threads and handlers are interchangeable, and so   *)
(* are the filters of a configuration without wildcards.                     *)
EXTENDS MqttSubscribe
Symmetry == Permutations(Apps) \cup Permutations(Handlers) \cup Permutations(Filters)
=============================================================================
