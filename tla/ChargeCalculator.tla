-------------------------- MODULE ChargeCalculator --------------------------
(***************************************************************************)
(* calculateCharges: what every unit of a building owes for a period.      *)
(*                                                                         *)
(* The calculation is a function of the units (us) and the configuration   *)
(* (cfg), and is modelled by operators.  The variables hold one call: the  *)
(* input of the preview and createPeriod endpoints and its result.  Money  *)
(* is whole rials; area and coefficient, decimals with two places in the   *)
(* database, are integers in units of 1/Scale.  Quotients are exact, as    *)
(* those of doubles are up to the rounding to a rial.                      *)
(***************************************************************************)
EXTENDS Integers, Sequences, FiniteSets, Functions

CONSTANTS
  Units,       \* identities of units
  UnitInputs,  \* [area, residentsCount, coefficient] records a unit can have
  Bases,       \* values of baseAmount
  ItemLists,   \* sequences of lines the manager can send
  Formulas,    \* [fixed, perArea, perPerson, perCoefficient] records
  Scale        \* denominator of area and coefficient

ChargeMethods ==
  {"EQUAL", "BY_AREA", "BY_PERSON", "COEFFICIENT", "FIXED", "MIXED", "CUSTOM_FORMULA"}

ASSUME UnitInputsAssumption ==
  /\ IsFiniteSet(Units)
  /\ UnitInputs \subseteq [area : Nat, residentsCount : Nat, coefficient : Nat]
ASSUME ItemsAssumption ==
  /\ Bases \subseteq Nat /\ Scale \in Nat \ {0}
  /\ ItemLists \subseteq Seq([method : ChargeMethods, amount : Nat])
ASSUME FormulasAssumption ==
  Formulas \subseteq [fixed : Int, perArea : Int, perPerson : Int, perCoefficient : Int]

VARIABLES units, config, result

vars == <<units, config, result>>

NoResult == [u \in {} |-> 0]

\* Mutant: amounts are cut off.
RoundRialDown(num, den) == num \div den

\* Math.round(num / den): to the nearest integer, a half rounded up.
RoundRial(num, den) == (2 * num + den) \div (2 * den)

SumSeq(s) == SumFunctionOnSet(s, 1..Len(s))

\* The weight a method divides a line by; every other method divides equally.
Weight(us, method, u) ==
  CASE method = "BY_AREA" -> us[u].area
    [] method = "BY_PERSON" -> us[u].residentsCount
    [] method = "COEFFICIENT" -> us[u].coefficient
    [] OTHER -> 1

\* totalArea, totalPersons, totalCoef, or n; a total of zero counts as one.
TotalWeight(us, method) ==
  LET total == SumFunction([u \in DOMAIN us |-> Weight(us, method, u)]) IN
    IF total = 0 THEN 1 ELSE total

\* Mutant: total and weight are exchanged.
ShareInverted(us, line, u) ==
  IF line.method = "FIXED" \/ Weight(us, line.method, u) = 0 THEN line.amount
  ELSE RoundRial(line.amount * TotalWeight(us, line.method), Weight(us, line.method, u))

\* The share of unit u in a line.
Share(us, line, u) ==
  IF line.method = "FIXED" THEN line.amount
  ELSE RoundRial(line.amount * Weight(us, line.method, u), TotalWeight(us, line.method))

\* The lines of the period; without items one line of the whole baseAmount.
Lines(cfg) ==
  IF cfg.items # <<>> THEN cfg.items
  ELSE << [method |-> cfg.method, amount |-> cfg.baseAmount] >>

Shares(us, cfg, u) ==
  [i \in 1..Len(Lines(cfg)) |-> Share(us, Lines(cfg)[i], u)]

\* What every unit pays before the lines.
Base(cfg) == IF cfg.method = "MIXED" THEN cfg.baseAmount ELSE 0

\* Mutant: the base is charged but not shown.
LineChargeWithoutBase(us, cfg, u) ==
  [amount |-> Base(cfg) + SumSeq(Shares(us, cfg, u)),
   breakdown |-> Shares(us, cfg, u)]

\* The base, when there is one, and the shares of the lines, in order.
LineCharge(us, cfg, u) ==
  [amount |-> Base(cfg) + SumSeq(Shares(us, cfg, u)),
   breakdown |-> (IF Base(cfg) > 0 THEN <<Base(cfg)>> ELSE <<>>) \o Shares(us, cfg, u)]

\* CUSTOM_FORMULA: the sum is rounded once, each part of the breakdown for
\* itself.  A part whose rate is zero is left out, and adds nothing here.
FormulaCharge(us, cfg, u) ==
  LET f == cfg.formula
      parts == <<f.fixed * Scale, f.perArea * us[u].area,
                 f.perPerson * us[u].residentsCount * Scale,
                 f.perCoefficient * us[u].coefficient>> IN
    [amount |-> RoundRial(SumSeq(parts), Scale),
     breakdown |-> [i \in 1..4 |-> RoundRial(parts[i], Scale)]]

CalculateCharges(us, cfg) ==
  [u \in DOMAIN us |->
     IF cfg.method = "CUSTOM_FORMULA" THEN FormulaCharge(us, cfg, u)
     ELSE LineCharge(us, cfg, u)]

-----------------------------------------------------------------------------
NoRates == [fixed |-> 0, perArea |-> 0, perPerson |-> 0, perCoefficient |-> 0]

Configs ==
  {c \in [method : ChargeMethods, baseAmount : Bases, items : ItemLists, formula : Formulas] :
     c.method # "CUSTOM_FORMULA" => c.formula = NoRates}

\* A building without units is refused before anything is calculated.
Init ==
  /\ units \in UNION {[S -> UnitInputs] : S \in (SUBSET Units) \ {{}}}
  /\ config \in Configs
  /\ result = NoResult

Calculate ==
  /\ result = NoResult
  /\ result' = CalculateCharges(units, config)
  /\ UNCHANGED <<units, config>>

\* The manager changes one unit and asks again: the result is computed anew.
Recalculate(u, input) ==
  /\ result # NoResult
  /\ u \in DOMAIN units
  /\ units' = [units EXCEPT ![u] = input]
  /\ result' = CalculateCharges(units', config)
  /\ UNCHANGED config

Next == Calculate \/ \E u \in Units, input \in UnitInputs : Recalculate(u, input)

Spec == Init /\ [][Next]_vars

-----------------------------------------------------------------------------
(* Properties *)

Done == result # NoResult

UnitCount == Cardinality(DOMAIN units)

\* Twice the distance of two amounts: half a rial is 1.
TwiceApart(x, y) == IF x >= y THEN 2 * (x - y) ELSE 2 * (y - x)

(***************************************************************************)
(* A resident can add up the breakdown and get the amount: exactly for     *)
(* lines; to half a rial for each part of a formula and half for the sum.  *)
(***************************************************************************)
BreakdownAddsUp ==
  Done => \A u \in DOMAIN units :
    IF config.method = "CUSTOM_FORMULA"
      THEN TwiceApart(result[u].amount, SumSeq(result[u].breakdown)) <= 5
      ELSE result[u].amount = SumSeq(result[u].breakdown)

\* A line that is divided by something some unit has.
Divided(line) ==
  line.method # "FIXED" /\ \E u \in DOMAIN units : Weight(units, line.method, u) > 0

\* The lines a period asks for: its items, or for a simple method without any
\* one line of the whole baseAmount; MIXED asks for its base and its items.
LinesAsked ==
  IF config.items = <<>> /\ config.method # "MIXED"
    THEN << [method |-> config.method, amount |-> config.baseAmount] >>
    ELSE config.items

(***************************************************************************)
(* The building gets what it asks for: the charges of all units add up to  *)
(* the divided lines, and to the base and the fixed lines once for each    *)
(* unit, to half a rial for each unit and line, whatever the weights are.  *)
(* A line no unit has any weight for is one exception: nobody pays it.     *)
(* The other is a MIXED period without items: it brings in the base once   *)
(* more than it asks for, and exactly once.                                *)
(***************************************************************************)
ChargesAddUpToPeriod ==
  Done /\ config.method # "CUSTOM_FORMULA" =>
    LET lines == LinesAsked
        mixed == config.method = "MIXED"
        base == IF mixed THEN config.baseAmount ELSE 0
        asked == [i \in 1..Len(lines) |->
                    IF lines[i].method = "FIXED" THEN UnitCount * lines[i].amount
                    ELSE IF Divided(lines[i]) THEN lines[i].amount ELSE 0]
        total == SumFunction([u \in DOMAIN units |-> result[u].amount]) IN
      IF mixed /\ lines = <<>>
        THEN TwiceApart(total, UnitCount * base + config.baseAmount) <= UnitCount
        ELSE TwiceApart(total, UnitCount * base + SumSeq(asked)) <= UnitCount * Len(lines)

(***************************************************************************)
(* When one unit grows and the period is computed again, no other unit     *)
(* pays more: what grows is the total its share is divided by.             *)
(***************************************************************************)
GrowingUnitSparesOthers ==
  [][\A u \in DOMAIN units :
       /\ Done
       /\ (\A f \in DOMAIN units[u] : units'[u][f] >= units[u][f])
       /\ (\A v \in DOMAIN units \ {u} : units'[v] = units[v])
       => \A v \in DOMAIN units \ {u} : result'[v].amount <= result[v].amount]_vars

=============================================================================
