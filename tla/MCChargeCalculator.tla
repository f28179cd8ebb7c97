------------------------- MODULE MCChargeCalculator -------------------------
(* Instances of ChargeCalculator for TLC. *)
EXTENDS ChargeCalculator, TLC

Input(a, p, c) == [area |-> a, residentsCount |-> p, coefficient |-> c]

\* An empty unit, a small one and a large one, sizes that do not divide 10.
SomeInputs == {Input(0, 0, 0), Input(150, 1, 100), Input(425, 4, 250)}

Line(m, a) == [method |-> m, amount |-> a]

\* Every method alone, a pair, and no line at all; 10 and 7 leave remainders.
SomeItems ==
  {<<>>, <<Line("BY_AREA", 10), Line("BY_PERSON", 7)>>, <<Line("EQUAL", 0)>>}
    \cup {<<Line(m, 10)>> : m \in ChargeMethods}

Rates(f, a, p, k) == [fixed |-> f, perArea |-> a, perPerson |-> p, perCoefficient |-> k]

SomeFormulas == {Rates(0, 0, 0, 0), Rates(3, 0, 0, 0), Rates(2, 1, 0, 1), Rates(0, 3, 2, 1),
                 Rates(-1, 1, 1, 1)}

UnitSymmetry == Permutations(Units)
=============================================================================
