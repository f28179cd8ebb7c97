---------------------------- MODULE MCMaintenance ----------------------------
(* Instances of Maintenance for TLC. *)
EXTENDS Maintenance, TLC

TicketSymmetry == Permutations(Requests) \cup Permutations(People) \cup Permutations(Costs)
=============================================================================
