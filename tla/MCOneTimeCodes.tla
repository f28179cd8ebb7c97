---------------------------- MODULE MCOneTimeCodes ----------------------------
(* Instance of OneTimeCodes for TLC: requests are interchangeable.            *)
EXTENDS OneTimeCodes, TLC

RequestSymmetry == Permutations(Requests)
=============================================================================
