----------------------------- MODULE MCPayments -----------------------------
(* Instances of Payments for TLC. *)
EXTENDS Payments, TLC

\* A charge of 2 units: payments of 1 and 2 reach PARTIAL, PAID and overpaid.
TwoDue == [c \in Charges |-> 2]
SmallOpening == [b \in Boxes |-> 1]

RequestSymmetry == Permutations(Requests) \cup Permutations(Auths)

=============================================================================
