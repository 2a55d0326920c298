-------------------------- MODULE MCSizeEstimation --------------------------
(* Two blurs: the second can come while the first still measures, so its   *)
(* closure captures isMeasuring = TRUE, and the first poll can answer late. *)
EXTENDS SizeEstimation

=============================================================================
