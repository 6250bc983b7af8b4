-------------------------- MODULE MCCarrierRecorder --------------------------
(* Small instances of CarrierRecorder; controllers are interchangeable.       *)
EXTENDS CarrierRecorder, TLC

Interchangeable == Permutations(Controllers)
=============================================================================
