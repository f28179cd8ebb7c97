----------------------- MODULE ChargeCalculatorProofs -----------------------
(***************************************************************************)
(* Theorems about the calculation of charges, for any number of units and  *)
(* lines, whatever the weights and amounts.  The arithmetic is that a      *)
(* rounded quotient lies within half of its exact value; the rest are sums *)
(* over units and lines.                                                   *)
(***************************************************************************)
EXTENDS ChargeCalculator, SumTheorems

(* Rounding *)

LEMMA DivBounds ==
  ASSUME NEW a \in Int, NEW b \in Nat \ {0}
  PROVE  /\ a \div b \in Int
         /\ b * (a \div b) <= a
         /\ a < b * (a \div b) + b
  OBVIOUS

LEMMA RoundRialBounds ==
  ASSUME NEW num \in Int, NEW den \in Nat \ {0}
  PROVE  /\ RoundRial(num, den) \in Int
         /\ (2 * den) * RoundRial(num, den) <= 2 * num + den
         /\ 2 * num + den < (2 * den) * RoundRial(num, den) + 2 * den
<1>1. 2 * num + den \in Int /\ 2 * den \in Nat \ {0}
  OBVIOUS
<1> DEFINE a == 2 * num + den
           b == 2 * den
<1> HIDE DEF a, b
<1>2. /\ a \div b \in Int
      /\ b * (a \div b) <= a
      /\ a < b * (a \div b) + b
  BY <1>1, DivBounds DEF a, b
<1> QED BY <1>2 DEF a, b, RoundRial

\* Quotients can be compared after multiplication.
LEMMA CancelLeq ==
  ASSUME NEW a \in Int, NEW b \in Int, NEW k \in Nat \ {0}, k * a <= k * b
  PROVE  a <= b
  OBVIOUS

\* Twice the error of a rounded quotient, in units of 1/den, is at most den.
LEMMA RoundRialApart ==
  ASSUME NEW num \in Int, NEW den \in Nat \ {0}
  PROVE  /\ RoundRial(num, den) \in Int
         /\ 2 * (den * RoundRial(num, den)) - 2 * num <= den
         /\ 2 * num - 2 * (den * RoundRial(num, den)) <= den
<1> DEFINE q == RoundRial(num, den)
<1>1. q \in Int /\ (2 * den) * q <= 2 * num + den /\ 2 * num + den < (2 * den) * q + 2 * den
  BY RoundRialBounds
<1> HIDE DEF q
<1>2. (2 * den) * q = 2 * (den * q) /\ den * q \in Int
  BY <1>1
<1> QED BY <1>1, <1>2 DEF q

LEMMA RoundRialOfZero ==
  ASSUME NEW den \in Nat \ {0}
  PROVE  RoundRial(0, den) = 0
<1> DEFINE q == RoundRial(0, den)
<1>1. q \in Int /\ (2 * den) * q <= den /\ den < (2 * den) * q + 2 * den
  <2>1. 2 * 0 + den = den /\ 0 \in Int
    OBVIOUS
  <2> QED BY <2>1, RoundRialBounds
<1> HIDE DEF q
<1>2. q < 1
  <2>1. ASSUME q >= 1 PROVE FALSE
    <3>1. den * q >= den * 1
      BY <1>1, <2>1
    <3> QED BY <1>1, <3>1
  <2> QED BY <1>1, <2>1
<1>3. q > -1
  <2>1. ASSUME q <= -1 PROVE FALSE
    <3>1. den * q <= den * (-1)
      BY <1>1, <2>1
    <3> QED BY <1>1, <3>1
  <2> QED BY <1>1, <2>1
<1> QED BY <1>1, <1>2, <1>3 DEF q

\* A greater denominator makes no quotient greater.
LEMMA RoundRialShrinks ==
  ASSUME NEW num \in Nat, NEW den \in Nat \ {0}, NEW more \in Nat \ {0}, den <= more
  PROVE  RoundRial(num, more) <= RoundRial(num, den)
<1> DEFINE q == RoundRial(num, den)
           p == RoundRial(num, more)
<1>1. q \in Int /\ (2 * den) * q <= 2 * num + den /\ 2 * num + den < (2 * den) * q + 2 * den
  BY RoundRialBounds
<1>2. p \in Int /\ (2 * more) * p <= 2 * num + more
  BY RoundRialBounds
<1> HIDE DEF p, q
<1>3. ASSUME q < p PROVE FALSE
  <2>1. q + 1 <= p /\ den * (q + 1) = den * q + den
    BY <1>1, <1>2, <1>3
  <2>2. 2 * num + den < 2 * (den * (q + 1))
    BY <1>1, <2>1
  <2>3. den * (q + 1) <= den * p
    BY <1>1, <1>2, <2>1
  <2>4. 2 * num < den * (2 * p - 1)
    BY <1>1, <1>2, <2>2, <2>3
  <2>5. p >= 1
    <3>1. ASSUME p <= 0 PROVE FALSE
      <4>1. \A x \in Int, d \in Nat : x <= 0 => d * x <= 0
        OBVIOUS
      <4>2. 2 * p - 1 \in Int /\ 2 * p - 1 <= 0
        BY <1>2, <3>1
      <4>3. den * (2 * p - 1) <= 0
        BY <4>1, <4>2
      <4>4. 2 * num >= 0
        OBVIOUS
      <4>5. den * (2 * p - 1) \in Int
        BY <4>2
      <4> QED BY <2>4, <4>3, <4>4, <4>5
    <3> QED BY <1>2, <3>1
  <2>6. den * (2 * p - 1) <= more * (2 * p - 1)
    BY <1>2, <2>5
  <2>7. more * (2 * p - 1) <= 2 * num
    BY <1>2
  <2> QED BY <1>2, <2>4, <2>6, <2>7
<1> QED BY <1>1, <1>2, <1>3 DEF p, q

-----------------------------------------------------------------------------
(* Weights and shares *)

\* us is the input of a building: some of the units, with what they have.
Building(us) ==
  /\ DOMAIN us \subseteq Units
  /\ us \in [DOMAIN us -> UnitInputs]

Line == [method : ChargeMethods, amount : Nat]

LEMMA BuildingIsFinite ==
  ASSUME NEW us, Building(us)
  PROVE  IsFiniteSet(DOMAIN us)
  BY UnitInputsAssumption, FS_Subset DEF Building

LEMMA WeightType ==
  ASSUME NEW us, Building(us), NEW u \in DOMAIN us, NEW method
  PROVE  Weight(us, method, u) \in Nat
<1>1. us[u] \in [area : Nat, residentsCount : Nat, coefficient : Nat]
  BY UnitInputsAssumption DEF Building
<1> QED BY <1>1 DEF Weight

\* The total is the sum of the weights, unless they are all zero.
LEMMA TotalWeightIsSum ==
  ASSUME NEW us, Building(us), NEW method
  PROVE  LET total == SumFunctionOnSet([u \in DOMAIN us |-> Weight(us, method, u)], DOMAIN us) IN
           /\ total \in Nat
           /\ TotalWeight(us, method) = IF total = 0 THEN 1 ELSE total
           /\ \A u \in DOMAIN us : Weight(us, method, u) <= total
<1> DEFINE w == [u \in DOMAIN us |-> Weight(us, method, u)]
<1>1. \A u \in DOMAIN us : w[u] \in Nat /\ w[u] = Weight(us, method, u)
  BY WeightType
<1>2. TotalWeight(us, method) =
        IF SumFunctionOnSet(w, DOMAIN us) = 0 THEN 1 ELSE SumFunctionOnSet(w, DOMAIN us)
  BY DEF TotalWeight, SumFunction
<1> HIDE DEF w
<1>3. /\ SumFunctionOnSet(w, DOMAIN us) \in Nat
      /\ \A u \in DOMAIN us : w[u] <= SumFunctionOnSet(w, DOMAIN us)
  BY <1>1, BuildingIsFinite, SumNat
<1>4. \A u \in DOMAIN us : Weight(us, method, u) <= SumFunctionOnSet(w, DOMAIN us)
  BY <1>1, <1>3
<1> QED BY <1>2, <1>3, <1>4 DEF w

LEMMA TotalWeightType ==
  ASSUME NEW us, Building(us), NEW method
  PROVE  TotalWeight(us, method) \in Nat \ {0}
<1> DEFINE total == SumFunctionOnSet([u \in DOMAIN us |-> Weight(us, method, u)], DOMAIN us)
<1>1. total \in Nat /\ TotalWeight(us, method) = IF total = 0 THEN 1 ELSE total
  BY TotalWeightIsSum
<1> HIDE DEF total
<1> QED BY <1>1

LEMMA ShareType ==
  ASSUME NEW us, Building(us), NEW u \in DOMAIN us, NEW line \in Line
  PROVE  Share(us, line, u) \in Int
<1>1. CASE line.method = "FIXED"
  BY <1>1 DEF Share, Line
<1>2. CASE line.method # "FIXED"
  <2>1. line.amount * Weight(us, line.method, u) \in Int
    BY WeightType DEF Line
  <2>2. TotalWeight(us, line.method) \in Nat \ {0}
    BY TotalWeightType
  <2> QED BY <1>2, <2>1, <2>2, RoundRialApart DEF Share
<1> QED BY <1>1, <1>2

LEMMA LinesType ==
  ASSUME NEW cfg \in Configs
  PROVE  Lines(cfg) \in Seq(Line) /\ Base(cfg) \in Nat
<1>1. cfg \in [method : ChargeMethods, baseAmount : Bases, items : ItemLists, formula : Formulas]
  BY DEF Configs
<1>2. cfg.items \in Seq(Line) /\ cfg.baseAmount \in Nat /\ cfg.method \in ChargeMethods
  BY <1>1, ItemsAssumption DEF Line
<1>3. [method |-> cfg.method, amount |-> cfg.baseAmount] \in Line
  BY <1>2 DEF Line
<1> QED BY <1>2, <1>3 DEF Lines, Base

LEMMA SharesType ==
  ASSUME NEW us, Building(us), NEW u \in DOMAIN us, NEW cfg \in Configs
  PROVE  /\ Shares(us, cfg, u) \in Seq(Int)
         /\ Len(Shares(us, cfg, u)) = Len(Lines(cfg))
         /\ \A i \in 1..Len(Lines(cfg)) : Shares(us, cfg, u)[i] = Share(us, Lines(cfg)[i], u)
<1>1. Len(Lines(cfg)) \in Nat /\ \A i \in 1..Len(Lines(cfg)) : Lines(cfg)[i] \in Line
  BY LinesType
<1>2. \A i \in 1..Len(Lines(cfg)) : Share(us, Lines(cfg)[i], u) \in Int
  BY <1>1, ShareType
<1> QED BY <1>1, <1>2 DEF Shares

-----------------------------------------------------------------------------
(* Sums of sequences *)

LEMMA SumSeqType ==
  ASSUME NEW s \in Seq(Int)
  PROVE  SumSeq(s) \in Int
<1>1. Len(s) \in Nat /\ IsFiniteSet(1..Len(s)) /\ \A i \in 1..Len(s) : s[i] \in Int
  BY FS_Interval
<1> QED BY <1>1, SumInt DEF SumSeq

LEMMA SumSeqPrepend ==
  ASSUME NEW s \in Seq(Int), NEW b \in Int
  PROVE  SumSeq(<<b>> \o s) = b + SumSeq(s)
<1> DEFINE t == <<b>> \o s
           n == Len(s)
           next == [i \in 1..n |-> i + 1]
<1>1. n \in Nat /\ Len(t) = n + 1 /\ t[1] = b /\ \A i \in 1..n : t[i + 1] = s[i]
  OBVIOUS
<1>2. IsFiniteSet(1..n) /\ \A i \in 1..n : s[i] \in Int /\ next[i] = i + 1
  BY <1>1, FS_Interval
<1>3. {next[i] : i \in 1..n} = 2..(n + 1)
  <2>1. \A j \in 2..(n + 1) : j - 1 \in 1..n /\ next[j - 1] = j
    BY <1>1
  <2>2. \A i \in 1..n : next[i] \in 2..(n + 1)
    BY <1>1
  <2> HIDE DEF next
  <2> QED BY <2>1, <2>2
<1> HIDE DEF next, t, n
<1>4. SumFunctionOnSet(s, 1..n) = SumFunctionOnSet(t, 2..(n + 1))
  <2>1. \A i, j \in 1..n : next[i] = next[j] => i = j
    BY <1>1, <1>2
  <2>2. \A i \in 1..n : s[i] \in Int /\ t[next[i]] = s[i]
    BY <1>1, <1>2
  <2> DEFINE S == 1..n
  <2>3. IsFiniteSet(S) /\ (\A i, j \in S : next[i] = next[j] => i = j)
        /\ \A i \in S : s[i] \in Int /\ t[next[i]] = s[i]
    BY <1>2, <2>1, <2>2
  <2> HIDE DEF S
  <2>4. SumFunctionOnSet(s, S) = SumFunctionOnSet(t, {next[i] : i \in S})
    BY <2>3, SumRename
  <2> QED BY <1>3, <2>4 DEF S
<1>5. SumFunctionOnSet(t, 2..(n + 1) \cup {1}) = t[1] + SumFunctionOnSet(t, 2..(n + 1))
  <2>1. IsFiniteSet(2..(n + 1)) /\ 1 \notin 2..(n + 1)
    BY <1>1, FS_Interval
  <2>2. \A j \in 2..(n + 1) : j - 1 \in 1..n /\ (j - 1) + 1 = j
    BY <1>1
  <2>3. \A j \in 2..(n + 1) : t[j] \in Int
    BY <1>1, <1>2, <2>2, ZenonT(30)
  <2> QED BY <1>1, <2>1, <2>3, SumAdd
<1>6. 2..(n + 1) \cup {1} = 1..Len(t)
  BY <1>1
<1> QED BY <1>1, <1>4, <1>5, <1>6 DEF SumSeq, t, n

-----------------------------------------------------------------------------
(* What the calculation returns *)

LEMMA TwiceApartLeq ==
  ASSUME NEW x \in Int, NEW y \in Int, NEW k \in Int,
         2 * x - 2 * y <= k, 2 * y - 2 * x <= k
  PROVE  TwiceApart(x, y) <= k
  BY DEF TwiceApart

LEMMA LineBreakdownAddsUp ==
  ASSUME NEW us, Building(us), NEW u \in DOMAIN us, NEW cfg \in Configs
  PROVE  LineCharge(us, cfg, u).amount = SumSeq(LineCharge(us, cfg, u).breakdown)
<1> DEFINE shares == Shares(us, cfg, u)
           b == Base(cfg)
<1>1. shares \in Seq(Int) /\ b \in Nat
  BY SharesType, LinesType
<1>2. /\ LineCharge(us, cfg, u).amount = b + SumSeq(shares)
      /\ LineCharge(us, cfg, u).breakdown = (IF b > 0 THEN <<b>> ELSE <<>>) \o shares
  BY DEF LineCharge
<1> HIDE DEF shares, b
<1>3. CASE b > 0
  BY <1>1, <1>2, <1>3, SumSeqPrepend
<1>4. CASE b = 0
  <2>1. <<>> \o shares = shares /\ SumSeq(shares) \in Int
    BY <1>1, SumSeqType
  <2> QED BY <1>2, <1>4, <2>1
<1> QED BY <1>1, <1>3, <1>4

\* The four parts of a formula, before they are rounded.
LEMMA FormulaParts ==
  ASSUME NEW us, Building(us), NEW u \in DOMAIN us, NEW cfg \in Configs
  PROVE  \E parts \in Seq(Int) :
           /\ Len(parts) = 4
           /\ FormulaCharge(us, cfg, u) =
                [amount |-> RoundRial(SumSeq(parts), Scale),
                 breakdown |-> [i \in 1..4 |-> RoundRial(parts[i], Scale)]]
<1> DEFINE f == cfg.formula
           parts == <<f.fixed * Scale, f.perArea * us[u].area,
                      f.perPerson * us[u].residentsCount * Scale,
                      f.perCoefficient * us[u].coefficient>>
<1>1. us[u] \in [area : Nat, residentsCount : Nat, coefficient : Nat]
  BY UnitInputsAssumption DEF Building
<1>2. f \in [fixed : Int, perArea : Int, perPerson : Int, perCoefficient : Int]
  BY FormulasAssumption DEF Configs
<1>3. Scale \in Int
  BY ItemsAssumption
<1>4. parts \in Seq(Int) /\ Len(parts) = 4
  <2>1. /\ f.fixed * Scale \in Int /\ f.perArea * us[u].area \in Int
        /\ f.perPerson * us[u].residentsCount * Scale \in Int
        /\ f.perCoefficient * us[u].coefficient \in Int
    BY <1>1, <1>2, <1>3
  <2> HIDE DEF f
  <2> QED BY <2>1
<1>5. FormulaCharge(us, cfg, u) =
        [amount |-> RoundRial(SumSeq(parts), Scale),
         breakdown |-> [i \in 1..4 |-> RoundRial(parts[i], Scale)]]
  BY DEF FormulaCharge
<1> HIDE DEF parts
<1> QED BY <1>4, <1>5

LEMMA FormulaBreakdownAddsUp ==
  ASSUME NEW us, Building(us), NEW u \in DOMAIN us, NEW cfg \in Configs
  PROVE  TwiceApart(FormulaCharge(us, cfg, u).amount,
                    SumSeq(FormulaCharge(us, cfg, u).breakdown)) <= 5
<1>1. PICK parts \in Seq(Int) :
        /\ Len(parts) = 4
        /\ FormulaCharge(us, cfg, u) =
             [amount |-> RoundRial(SumSeq(parts), Scale),
              breakdown |-> [i \in 1..4 |-> RoundRial(parts[i], Scale)]]
  BY FormulaParts
<1> DEFINE r == [i \in 1..4 |-> RoundRial(parts[i], Scale)]
           scaled == [i \in 1..4 |-> Scale * r[i]]
           exact == SumSeq(parts)
           q == RoundRial(exact, Scale)
           sum == SumSeq(r)
<1>2. Scale \in Nat \ {0} /\ IsFiniteSet(1..4) /\ Cardinality(1..4) = 4
  <2>1. 1 \in Int /\ 4 \in Int /\ ~(1 > 4) /\ 4 - 1 + 1 = 4
    OBVIOUS
  <2>2. IsFiniteSet(1..4) /\ Cardinality(1..4) = 4 - 1 + 1
    BY <2>1, FS_Interval
  <2> QED BY <2>1, <2>2, ItemsAssumption
<1>3. \A i \in 1..4 : parts[i] \in Int /\ r[i] = RoundRial(parts[i], Scale)
  <2>1. \A i \in 1..Len(parts) : parts[i] \in Int
    OBVIOUS
  <2>2. \A i \in 1..4 : r[i] = RoundRial(parts[i], Scale)
    OBVIOUS
  <2> QED BY <1>1, <2>1, <2>2
<1>4. \A i \in 1..4 : /\ r[i] \in Int
                      /\ 2 * (Scale * r[i]) - 2 * parts[i] <= Scale
                      /\ 2 * parts[i] - 2 * (Scale * r[i]) <= Scale
  BY <1>2, <1>3, RoundRialApart
<1>5. \A i \in 1..4 : scaled[i] = Scale * r[i] /\ scaled[i] \in Int
  <2>1. \A i \in 1..4 : scaled[i] = Scale * r[i]
    OBVIOUS
  <2>2. \A x \in Int : Scale * x \in Int
    BY <1>2
  <2> HIDE DEF r, scaled
  <2> QED BY <1>4, <2>1, <2>2
<1>6. exact = SumFunctionOnSet(parts, 1..4) /\ exact \in Int
  BY <1>1, SumSeqType DEF SumSeq
<1>7. sum = SumFunctionOnSet(r, 1..4) /\ sum \in Int
  <2>1. r \in Seq(Int) /\ Len(r) = 4
    <3>1. \A i \in 1..4 : RoundRial(parts[i], Scale) \in Int
      BY <1>3, <1>4
    <3> QED BY <3>1
  <2> HIDE DEF r
  <2> QED BY <2>1, SumSeqType DEF SumSeq
<1>8. /\ q \in Int
      /\ 2 * (Scale * q) - 2 * exact <= Scale
      /\ 2 * exact - 2 * (Scale * q) <= Scale
  BY <1>2, <1>6, RoundRialApart
<1> HIDE DEF r, scaled, exact, q, sum
<1> DEFINE I == 1..4
<1>I. /\ I = 1..4 /\ IsFiniteSet(I) /\ Cardinality(I) = 4 /\ Scale \in Int
      /\ exact = SumFunctionOnSet(parts, I) /\ sum = SumFunctionOnSet(r, I)
      /\ \A i \in I : /\ parts[i] \in Int /\ r[i] \in Int
                       /\ scaled[i] \in Int /\ scaled[i] = Scale * r[i]
                       /\ 2 * scaled[i] - 2 * parts[i] <= Scale
                       /\ 2 * parts[i] - 2 * scaled[i] <= Scale
  <2>1. \A i \in 1..4 : /\ 2 * scaled[i] - 2 * parts[i] <= Scale
                        /\ 2 * parts[i] - 2 * scaled[i] <= Scale
    <3> SUFFICES ASSUME NEW i \in 1..4
                 PROVE  /\ 2 * scaled[i] - 2 * parts[i] <= Scale
                        /\ 2 * parts[i] - 2 * scaled[i] <= Scale
      OBVIOUS
    <3>1. scaled[i] = Scale * r[i]
      BY <1>5
    <3>2. 2 * (Scale * r[i]) - 2 * parts[i] <= Scale /\ 2 * parts[i] - 2 * (Scale * r[i]) <= Scale
      BY <1>4
    <3> QED BY <3>1, <3>2
  <2> QED BY <1>2, <1>3, <1>4, <1>5, <1>6, <1>7, <2>1
<1> HIDE DEF I
<1>9. SumFunctionOnSet(scaled, I) = Scale * sum
  BY <1>I, SumTimes
<1>10. 2 * (Scale * sum) - 2 * exact <= 4 * Scale
  BY <1>I, <1>9, SumsApart
<1>11. 2 * exact - 2 * (Scale * sum) <= 4 * Scale
  BY <1>I, <1>9, SumsApart
<1>12. /\ Scale * (2 * q - 2 * sum) = 2 * (Scale * q) - 2 * (Scale * sum)
       /\ Scale * (2 * sum - 2 * q) = 2 * (Scale * sum) - 2 * (Scale * q)
       /\ Scale * q \in Int /\ Scale * sum \in Int
  BY <1>2, <1>7, <1>8
<1>13. Scale * (2 * q - 2 * sum) <= Scale * 5 /\ Scale * (2 * sum - 2 * q) <= Scale * 5
  <2>1. 4 * Scale + Scale = Scale * 5
    BY <1>2
  <2> DEFINE x == Scale * q
             y == Scale * sum
  <2>2. x \in Int /\ y \in Int
    BY <1>12
  <2>3. 2 * x - 2 * exact <= Scale /\ 2 * exact - 2 * x <= Scale
    BY <1>8
  <2>4. 2 * y - 2 * exact <= 4 * Scale /\ 2 * exact - 2 * y <= 4 * Scale
    BY <1>10, <1>11
  <2> HIDE DEF x, y
  <2>5. 2 * x - 2 * y <= 4 * Scale + Scale /\ 2 * y - 2 * x <= 4 * Scale + Scale
    BY <1>2, <1>6, <2>2, <2>3, <2>4, SMTT(30)
  <2> QED BY <1>12, <2>1, <2>5 DEF x, y
<1>14. 2 * q - 2 * sum <= 5 /\ 2 * sum - 2 * q <= 5
  <2>1. 2 * q - 2 * sum \in Int /\ 2 * sum - 2 * q \in Int /\ 5 \in Int
    BY <1>7, <1>8
  <2> DEFINE a == 2 * q - 2 * sum
             b == 2 * sum - 2 * q
  <2>2. Scale * a <= Scale * 5 /\ Scale * b <= Scale * 5
    BY <1>13
  <2>3. a \in Int /\ b \in Int
    BY <2>1
  <2> HIDE DEF a, b
  <2>4. a <= 5 /\ b <= 5
    BY <1>2, <2>2, <2>3, CancelLeq
  <2> QED BY <2>4 DEF a, b
<1>15. TwiceApart(q, sum) <= 5
  BY <1>7, <1>8, <1>14, TwiceApartLeq
<1>16. /\ FormulaCharge(us, cfg, u).amount = q
       /\ SumSeq(FormulaCharge(us, cfg, u).breakdown) = sum
  BY <1>1 DEF q, sum, exact, r
<1> QED BY <1>15, <1>16

-----------------------------------------------------------------------------
(* The charges of all units *)

\* What a line asks of all units together.
Asked(us, line) ==
  IF line.method = "FIXED" THEN Cardinality(DOMAIN us) * line.amount
  ELSE IF \E u \in DOMAIN us : Weight(us, line.method, u) > 0 THEN line.amount ELSE 0

LEMMA AskedType ==
  ASSUME NEW us, Building(us), NEW line \in Line
  PROVE  Asked(us, line) \in Int
<1>1. Cardinality(DOMAIN us) \in Nat
  BY BuildingIsFinite, FS_CardinalityType
<1>2. line.amount \in Nat
  BY DEF Line
<1>3. Cardinality(DOMAIN us) * line.amount \in Int
  BY <1>1, <1>2
<1> QED BY <1>2, <1>3 DEF Asked

\* The shares of a line in all units, apart from what it asks by half a rial each.
LEMMA LineIsDistributed ==
  ASSUME NEW us, Building(us), NEW line \in Line,
         NEW share, \A u \in DOMAIN us : share[u] = Share(us, line, u)
  PROVE  LET total == SumFunctionOnSet(share, DOMAIN us) IN
           /\ total \in Int
           /\ 2 * total - 2 * Asked(us, line) <= Cardinality(DOMAIN us)
           /\ 2 * Asked(us, line) - 2 * total <= Cardinality(DOMAIN us)
<1> DEFINE U == DOMAIN us
           n == Cardinality(U)
           total == SumFunctionOnSet(share, U)
           w == [u \in U |-> Weight(us, line.method, u)]
           den == TotalWeight(us, line.method)
           sum == SumFunctionOnSet(w, U)
<1>1. IsFiniteSet(U) /\ n \in Nat /\ line.amount \in Nat
  BY BuildingIsFinite, FS_CardinalityType DEF Line
<1>2. \A u \in U : share[u] \in Int
  BY ShareType
<1>3. total \in Int
  BY <1>1, <1>2, SumInt
<1>4. CASE line.method = "FIXED"
  <2>1. \A u \in U : share[u] = line.amount
    BY <1>4 DEF Share
  <2>2. line.amount \in Int
    BY <1>1
  <2>3. total = n * line.amount
    BY <1>1, <2>1, <2>2, SumConstant
  <2>4. Asked(us, line) = total
    BY <1>4, <2>3 DEF Asked
  <2> HIDE DEF total, n, U
  <2>5. 2 * total - 2 * total <= n
    BY <1>1, <1>3
  <2> QED BY <1>3, <2>4, <2>5 DEF total, n, U
<1>5. CASE line.method # "FIXED" /\ \A u \in U : ~(Weight(us, line.method, u) > 0)
  <2>1. ASSUME NEW u \in U PROVE share[u] = 0
    <3>1. Weight(us, line.method, u) = 0
      BY <1>5, WeightType
    <3>2. line.amount * Weight(us, line.method, u) = 0
      BY <1>1, <3>1
    <3>3. den \in Nat \ {0}
      BY TotalWeightType
    <3>4. share[u] = RoundRial(0, den)
      BY <1>5, <3>2 DEF Share
    <3> QED BY <3>3, <3>4, RoundRialOfZero
  <2>2. 0 \in Int
    OBVIOUS
  <2>3. total = n * 0
    BY <1>1, <2>1, <2>2, SumConstant
  <2>4. Asked(us, line) = 0
    BY <1>5 DEF Asked
  <2> HIDE DEF total, n, U
  <2>5. total = 0 /\ 2 * 0 - 2 * 0 <= n
    BY <1>1, <2>3
  <2> QED BY <2>4, <2>5 DEF total, n, U
<1>6. CASE line.method # "FIXED" /\ \E u \in U : Weight(us, line.method, u) > 0
  <2>1. den \in Nat \ {0} /\ sum = den
    <3>1. sum \in Nat /\ den = (IF sum = 0 THEN 1 ELSE sum)
          /\ \A u \in U : Weight(us, line.method, u) <= sum
      BY TotalWeightIsSum
    <3>2. PICK u \in U : Weight(us, line.method, u) > 0
      BY <1>6
    <3>3. Weight(us, line.method, u) \in Nat /\ Weight(us, line.method, u) <= sum
      BY <3>1, WeightType
    <3> HIDE DEF sum, den
    <3> QED BY <3>1, <3>2, <3>3
  <2>2. Asked(us, line) = line.amount
    BY <1>6 DEF Asked
  <2> DEFINE num == [u \in U |-> line.amount * w[u]]
             scaled == [u \in U |-> den * share[u]]
  <2>3. ASSUME NEW u \in U
        PROVE  /\ w[u] \in Int /\ num[u] = line.amount * w[u] /\ num[u] \in Int
               /\ scaled[u] = den * share[u] /\ scaled[u] \in Int
               /\ 2 * scaled[u] - 2 * num[u] <= den
               /\ 2 * num[u] - 2 * scaled[u] <= den
    <3>1. w[u] = Weight(us, line.method, u) /\ w[u] \in Nat
      BY WeightType
    <3>2. share[u] = RoundRial(line.amount * w[u], den)
      BY <1>6, <3>1 DEF Share
    <3>3. num[u] = line.amount * w[u] /\ scaled[u] = den * share[u]
      OBVIOUS
    <3> HIDE DEF num, scaled, w, den
    <3>4. num[u] \in Int /\ scaled[u] \in Int
      <4>1. share[u] \in Int
        BY <1>2
      <4>2. line.amount * w[u] \in Int /\ den * share[u] \in Int
        BY <1>1, <2>1, <3>1, <4>1
      <4> QED BY <3>3, <4>2
    <3>5. share[u] = RoundRial(num[u], den)
      BY <3>2, <3>3
    <3>6. /\ 2 * (den * share[u]) - 2 * num[u] <= den
          /\ 2 * num[u] - 2 * (den * share[u]) <= den
      BY <2>1, <3>4, <3>5, RoundRialApart
    <3> QED BY <3>1, <3>3, <3>4, <3>6
  <2> HIDE DEF num, scaled, w, den, U
  <2>4. SumFunctionOnSet(num, U) = line.amount * sum
    <3>1. line.amount \in Int
      BY <1>1
    <3> QED BY <1>1, <2>3, <3>1, SumTimes
  <2>5. SumFunctionOnSet(scaled, U) = den * total
    <3>1. den \in Int
      BY <2>1
    <3> QED BY <1>1, <1>2, <2>3, <3>1, SumTimes
  <2>6. /\ 2 * (den * total) - 2 * (line.amount * den) <= n * den
        /\ 2 * (line.amount * den) - 2 * (den * total) <= n * den
    <3>1. den \in Int
      BY <2>1
    <3>2. 2 * SumFunctionOnSet(scaled, U) - 2 * SumFunctionOnSet(num, U) <= n * den
      BY <1>1, <2>3, <3>1, SumsApart
    <3>3. 2 * SumFunctionOnSet(num, U) - 2 * SumFunctionOnSet(scaled, U) <= n * den
      BY <1>1, <2>3, <3>1, SumsApart
    <3> QED BY <2>1, <2>4, <2>5, <3>2, <3>3
  <2> HIDE DEF total, n, sum
  <2> DEFINE a == 2 * total - 2 * line.amount
             b == 2 * line.amount - 2 * total
  <2>7. a \in Int /\ b \in Int
    BY <1>1, <1>3
  <2>8. /\ den * a = 2 * (den * total) - 2 * (line.amount * den)
        /\ den * b = 2 * (line.amount * den) - 2 * (den * total)
        /\ den * n = n * den
    BY <1>1, <1>3, <2>1
  <2>9. den * a <= den * n /\ den * b <= den * n
    BY <2>6, <2>8
  <2> HIDE DEF a, b
  <2>10. a <= n /\ b <= n
    <3>1. n \in Int
      BY <1>1
    <3> QED BY <2>1, <2>7, <2>9, <3>1, CancelLeq
  <2> QED BY <1>3, <2>2, <2>10 DEF a, b, n, total, U
<1> QED BY <1>3, <1>4, <1>5, <1>6

LEMMA ChargesAddUp ==
  ASSUME NEW us, Building(us), NEW cfg \in Configs,
         NEW amount, \A u \in DOMAIN us : amount[u] = LineCharge(us, cfg, u).amount,
         NEW asked, \A i \in 1..Len(Lines(cfg)) : asked[i] = Asked(us, Lines(cfg)[i])
  PROVE  TwiceApart(SumFunctionOnSet(amount, DOMAIN us),
                    Cardinality(DOMAIN us) * Base(cfg)
                      + SumFunctionOnSet(asked, 1..Len(Lines(cfg))))
           <= Cardinality(DOMAIN us) * Len(Lines(cfg))
<1> DEFINE U == DOMAIN us
           n == Cardinality(U)
           K == 1..Len(Lines(cfg))
           l == Len(Lines(cfg))
           a == [u \in U |-> Shares(us, cfg, u)]
           base == [u \in U |-> Base(cfg)]
           ofUnit == [u \in U |-> SumSeq(a[u])]
           column == [i \in K |-> [u \in U |-> a[u][i]]]
           ofLine == [i \in K |-> SumFunctionOnSet(column[i], U)]
<1>1. IsFiniteSet(U) /\ n \in Nat
  BY BuildingIsFinite, FS_CardinalityType
<1>2. /\ l \in Nat /\ IsFiniteSet(K) /\ Cardinality(K) = l
      /\ Base(cfg) \in Int /\ \A i \in K : Lines(cfg)[i] \in Line
  <2>1. l \in Nat /\ Base(cfg) \in Int /\ \A i \in K : Lines(cfg)[i] \in Line
    BY LinesType
  <2> HIDE DEF l
  <2>2. IsFiniteSet(1..l) /\ Cardinality(1..l) = l
    BY <2>1, FS_Interval
  <2> QED BY <2>1, <2>2 DEF l
<1>3. \A u \in U : /\ a[u] \in Seq(Int) /\ Len(a[u]) = l
                   /\ \A i \in K : a[u][i] = Share(us, Lines(cfg)[i], u) /\ a[u][i] \in Int
  BY SharesType, <1>2, ShareType
<1>4. \A u \in U : /\ ofUnit[u] = SumFunctionOnSet(a[u], K) /\ ofUnit[u] \in Int
                   /\ base[u] = Base(cfg) /\ base[u] \in Int
                   /\ amount[u] = base[u] + ofUnit[u]
  <2> SUFFICES ASSUME NEW u \in U
               PROVE  /\ ofUnit[u] = SumFunctionOnSet(a[u], K) /\ ofUnit[u] \in Int
                      /\ base[u] = Base(cfg) /\ base[u] \in Int
                      /\ amount[u] = base[u] + ofUnit[u]
    OBVIOUS
  <2>1. ofUnit[u] = SumSeq(a[u]) /\ base[u] = Base(cfg)
    OBVIOUS
  <2>2. amount[u] = Base(cfg) + SumSeq(a[u])
    BY DEF LineCharge
  <2> HIDE DEF a, ofUnit, base
  <2>3. SumSeq(a[u]) = SumFunctionOnSet(a[u], K) /\ SumSeq(a[u]) \in Int
    BY <1>3, SumSeqType DEF SumSeq
  <2> QED BY <1>2, <2>1, <2>2, <2>3
<1>5. \A i \in K : /\ ofLine[i] = SumFunctionOnSet(column[i], U)
                   /\ ofLine[i] \in Int /\ asked[i] \in Int
                   /\ 2 * ofLine[i] - 2 * asked[i] <= n
                   /\ 2 * asked[i] - 2 * ofLine[i] <= n
  <2> SUFFICES ASSUME NEW i \in K
               PROVE  /\ ofLine[i] = SumFunctionOnSet(column[i], U)
                      /\ ofLine[i] \in Int /\ asked[i] \in Int
                      /\ 2 * ofLine[i] - 2 * asked[i] <= n
                      /\ 2 * asked[i] - 2 * ofLine[i] <= n
    OBVIOUS
  <2> DEFINE share == column[i]
             line == Lines(cfg)[i]
  <2>1. ofLine[i] = SumFunctionOnSet(share, U)
    OBVIOUS
  <2>2. \A u \in U : share[u] = Share(us, line, u)
    BY <1>3
  <2>3. line \in Line /\ asked[i] = Asked(us, line)
    BY <1>2
  <2> HIDE DEF share, line, ofLine
  <2>4. /\ SumFunctionOnSet(share, U) \in Int
        /\ 2 * SumFunctionOnSet(share, U) - 2 * Asked(us, line) <= n
        /\ 2 * Asked(us, line) - 2 * SumFunctionOnSet(share, U) <= n
    BY <2>2, <2>3, LineIsDistributed
  <2>5. Asked(us, line) \in Int
    BY <2>3, AskedType
  <2> QED BY <2>1, <2>3, <2>4, <2>5 DEF share
<1> DEFINE D == SumFunctionOnSet(amount, U)
           A == SumFunctionOnSet(asked, K)
           L == SumFunctionOnSet(ofLine, K)
           b == n * Base(cfg)
<1>6. IsTable(a, column, U, K)
  BY <1>3 DEF IsTable
<1> HIDE DEF a, column, base, ofUnit, ofLine, K, U, l
<1>7. SumFunctionOnSet(ofUnit, U) = L
  <2>1. AreSums(ofUnit, a, U, K) /\ AreSums(ofLine, column, K, U)
    BY <1>4, <1>5 DEF AreSums
  <2> QED BY <1>1, <1>2, <1>6, <2>1, SumSwap
<1>8. SumFunctionOnSet(base, U) = b
  BY <1>1, <1>2, <1>4, SumConstant
<1>9. D = b + L
  BY <1>1, <1>4, <1>7, <1>8, SumPlus
<1>10. 2 * L - 2 * A <= l * n /\ 2 * A - 2 * L <= l * n
  <2>1. n \in Int
    BY <1>1
  <2> QED BY <1>1, <1>2, <1>5, <2>1, SumsApart
<1>11. L \in Int /\ A \in Int /\ b \in Int
  <2>1. L \in Int /\ A \in Int
    BY <1>2, <1>5, SumInt
  <2>2. b \in Int
    BY <1>1, <1>2
  <2> QED BY <2>1, <2>2
<1> HIDE DEF D, A, L, b, n
<1>12. TwiceApart(D, b + A) <= n * l
  <2>1. D \in Int /\ b + A \in Int /\ n * l \in Int /\ n * l = l * n
    BY <1>1, <1>2, <1>9, <1>11
  <2>2. 2 * D - 2 * (b + A) <= n * l /\ 2 * (b + A) - 2 * D <= n * l
    BY <1>9, <1>10, <1>11, <2>1
  <2> QED BY <2>1, <2>2, TwiceApartLeq
<1> QED BY <1>12 DEF D, b, A, n, l, U, K

-----------------------------------------------------------------------------
(* A unit that grows *)

LEMMA TotalWeightGrows ==
  ASSUME NEW us, Building(us), NEW more, Building(more), DOMAIN more = DOMAIN us, NEW method,
         \A u \in DOMAIN us : Weight(us, method, u) <= Weight(more, method, u)
  PROVE  TotalWeight(us, method) <= TotalWeight(more, method)
<1> DEFINE U == DOMAIN us
           w == [u \in U |-> Weight(us, method, u)]
           x == [u \in U |-> Weight(more, method, u)]
           v == SumFunctionOnSet(w, U)
           y == SumFunctionOnSet(x, U)
<1>1. IsFiniteSet(U)
  BY BuildingIsFinite
<1>2. \A u \in U : w[u] \in Int /\ x[u] \in Int /\ w[u] <= x[u]
  BY WeightType
<1>3. v \in Nat /\ TotalWeight(us, method) = IF v = 0 THEN 1 ELSE v
  BY TotalWeightIsSum
<1>4. y \in Nat /\ TotalWeight(more, method) = IF y = 0 THEN 1 ELSE y
  <2> DEFINE z == SumFunctionOnSet([u \in DOMAIN more |-> Weight(more, method, u)], DOMAIN more)
  <2>1. z \in Nat /\ TotalWeight(more, method) = IF z = 0 THEN 1 ELSE z
    BY TotalWeightIsSum
  <2>2. z = y
    OBVIOUS
  <2> QED BY <2>1, <2>2
<1> HIDE DEF w, x, U
<1>5. v <= y
  BY <1>1, <1>2, SumLeq
<1> HIDE DEF v, y
<1> QED BY <1>3, <1>4, <1>5

\* No field of a unit is smaller than before, and v is as it was.
Grows(us, more, v) ==
  /\ Building(us) /\ Building(more) /\ DOMAIN more = DOMAIN us
  /\ \A u \in DOMAIN us : \A field \in {"area", "residentsCount", "coefficient"} :
       more[u][field] >= us[u][field]
  /\ v \in DOMAIN us /\ more[v] = us[v]

LEMMA WeightsGrow ==
  ASSUME NEW us, NEW more, NEW v, Grows(us, more, v), NEW method
  PROVE  \A u \in DOMAIN us : Weight(us, method, u) <= Weight(more, method, u)
<1> SUFFICES ASSUME NEW u \in DOMAIN us
             PROVE  Weight(us, method, u) <= Weight(more, method, u)
  OBVIOUS
<1>1. /\ us[u] \in [area : Nat, residentsCount : Nat, coefficient : Nat]
      /\ more[u] \in [area : Nat, residentsCount : Nat, coefficient : Nat]
  BY UnitInputsAssumption DEF Grows, Building
<1>2. /\ us[u].area <= more[u].area /\ us[u].residentsCount <= more[u].residentsCount
      /\ us[u].coefficient <= more[u].coefficient
  BY <1>1 DEF Grows
<1> QED BY <1>1, <1>2 DEF Weight

LEMMA ShareShrinks ==
  ASSUME NEW us, NEW more, NEW v, Grows(us, more, v), NEW line \in Line
  PROVE  Share(more, line, v) <= Share(us, line, v)
<1> DEFINE m == line.method
<1>0. Building(us) /\ Building(more) /\ v \in DOMAIN us /\ v \in DOMAIN more /\ more[v] = us[v]
  BY DEF Grows
<1>1. CASE m = "FIXED"
  <2>1. Share(more, line, v) = Share(us, line, v) /\ Share(us, line, v) \in Int
    BY <1>0, <1>1, ShareType DEF Share
  <2> QED BY <2>1
<1>2. CASE m # "FIXED"
  <2>1. Weight(more, m, v) = Weight(us, m, v) /\ Weight(us, m, v) \in Nat
    BY <1>0, WeightType DEF Weight
  <2>2. TotalWeight(us, m) \in Nat \ {0} /\ TotalWeight(more, m) \in Nat \ {0}
    BY <1>0, TotalWeightType
  <2>3. TotalWeight(us, m) <= TotalWeight(more, m)
    <3>1. DOMAIN more = DOMAIN us
      BY DEF Grows
    <3>2. \A u \in DOMAIN us : Weight(us, m, u) <= Weight(more, m, u)
      BY WeightsGrow
    <3> QED BY <1>0, <3>1, <3>2, TotalWeightGrows
  <2> DEFINE num == line.amount * Weight(us, m, v)
  <2>4. num \in Nat
    BY <2>1 DEF Line
  <2>5. /\ Share(us, line, v) = RoundRial(num, TotalWeight(us, m))
        /\ Share(more, line, v) = RoundRial(num, TotalWeight(more, m))
    BY <1>2, <2>1 DEF Share
  <2> HIDE DEF num, m
  <2> QED BY <2>2, <2>3, <2>4, <2>5, RoundRialShrinks
<1> QED BY <1>1, <1>2

LEMMA ChargeShrinks ==
  ASSUME NEW us, NEW more, NEW v, Grows(us, more, v), NEW cfg \in Configs
  PROVE  CalculateCharges(more, cfg)[v].amount <= CalculateCharges(us, cfg)[v].amount
<1>0. Building(us) /\ Building(more) /\ v \in DOMAIN us /\ v \in DOMAIN more /\ more[v] = us[v]
  BY DEF Grows
<1>1. CASE cfg.method = "CUSTOM_FORMULA"
  <2>1. CalculateCharges(more, cfg)[v].amount = CalculateCharges(us, cfg)[v].amount
    BY <1>0, <1>1 DEF CalculateCharges, FormulaCharge
  <2>2. CalculateCharges(us, cfg)[v].amount \in Int
    <3>1. PICK parts \in Seq(Int) :
            /\ Len(parts) = 4
            /\ FormulaCharge(us, cfg, v) =
                 [amount |-> RoundRial(SumSeq(parts), Scale),
                  breakdown |-> [i \in 1..4 |-> RoundRial(parts[i], Scale)]]
      BY <1>0, FormulaParts
    <3>2. CalculateCharges(us, cfg)[v].amount = RoundRial(SumSeq(parts), Scale)
      BY <1>0, <1>1, <3>1 DEF CalculateCharges
    <3>3. SumSeq(parts) \in Int /\ Scale \in Nat \ {0}
      BY SumSeqType, ItemsAssumption
    <3> QED BY <3>2, <3>3, RoundRialApart
  <2> QED BY <2>1, <2>2
<1>2. CASE cfg.method # "CUSTOM_FORMULA"
  <2> DEFINE old == Shares(us, cfg, v)
             new == Shares(more, cfg, v)
             K == 1..Len(Lines(cfg))
  <2>1. /\ CalculateCharges(more, cfg)[v].amount = Base(cfg) + SumSeq(new)
        /\ CalculateCharges(us, cfg)[v].amount = Base(cfg) + SumSeq(old)
    BY <1>0, <1>2 DEF CalculateCharges, LineCharge
  <2>2. \A i \in K : old[i] \in Int /\ new[i] \in Int /\ new[i] <= old[i]
    <3>1. \A i \in K : Lines(cfg)[i] \in Line
      BY LinesType
    <3>2. \A i \in K : old[i] = Share(us, Lines(cfg)[i], v) /\ new[i] = Share(more, Lines(cfg)[i], v)
      BY <1>0, SharesType
    <3> HIDE DEF old, new
    <3> QED BY <1>0, <3>1, <3>2, ShareType, ShareShrinks
  <2>3. SumSeq(old) = SumFunctionOnSet(old, K) /\ SumSeq(new) = SumFunctionOnSet(new, K)
    BY <1>0, SharesType DEF SumSeq
  <2>4. SumSeq(old) \in Int /\ SumSeq(new) \in Int
    BY <1>0, SharesType, SumSeqType
  <2>5. IsFiniteSet(K) /\ Base(cfg) \in Int
    <3>1. Len(Lines(cfg)) \in Int /\ Base(cfg) \in Int
      BY LinesType
    <3> QED BY <3>1, FS_Interval
  <2> HIDE DEF old, new, K
  <2>6. SumSeq(new) <= SumSeq(old)
    BY <2>2, <2>3, <2>5, SumLeq
  <2> QED BY <2>1, <2>4, <2>5, <2>6
<1> QED BY <1>1, <1>2

-----------------------------------------------------------------------------
(* The invariant *)

(***************************************************************************)
(* The input is one a building can have, and a result shown was computed   *)
(* from this input: no change of a unit leaves an old result behind.       *)
(***************************************************************************)
ResultInv ==
  /\ Building(units)
  /\ config \in Configs
  /\ Done => result = CalculateCharges(units, config)

LEMMA ResultInit ==
  ASSUME Init
  PROVE  ResultInv
<1>1. PICK S \in (SUBSET Units) \ {{}} : units \in [S -> UnitInputs]
  BY DEF Init
<1> QED BY <1>1 DEF Init, ResultInv, Building, Done

LEMMA ResultNext ==
  ASSUME ResultInv, [Next]_vars
  PROVE  ResultInv' /\ config' = config
<1>1. CASE Calculate
  BY <1>1 DEF Calculate, ResultInv
<1>2. ASSUME NEW u \in Units, NEW input \in UnitInputs, Recalculate(u, input)
      PROVE  ResultInv' /\ config' = config
  <2>1. Building(units')
    BY <1>2 DEF Recalculate, ResultInv, Building
  <2> QED BY <1>2, <2>1 DEF Recalculate, ResultInv
<1>3. CASE UNCHANGED vars
  BY <1>3 DEF vars, ResultInv, Done, Building
<1> QED BY <1>1, <1>2, <1>3 DEF Next

LEMMA Results == Spec => []ResultInv
<1>1. Init => ResultInv
  BY ResultInit
<1>2. ResultInv /\ [Next]_vars => ResultInv'
  BY ResultNext
<1> QED BY <1>1, <1>2, PTL DEF Spec

(***************************************************************************)
(* calculateCharges: the breakdown of a unit adds up to its amount, for    *)
(* every number of lines; of a formula, to five halves of a rial.          *)
(***************************************************************************)
THEOREM BreakdownsAddUp == Spec => []BreakdownAddsUp
<1>1. ASSUME ResultInv PROVE BreakdownAddsUp
  <2> SUFFICES ASSUME Done, NEW u \in DOMAIN units
               PROVE  IF config.method = "CUSTOM_FORMULA"
                        THEN TwiceApart(result[u].amount, SumSeq(result[u].breakdown)) <= 5
                        ELSE result[u].amount = SumSeq(result[u].breakdown)
    BY DEF BreakdownAddsUp
  <2>1. Building(units) /\ config \in Configs
    BY <1>1 DEF ResultInv
  <2>2. result[u] = IF config.method = "CUSTOM_FORMULA" THEN FormulaCharge(units, config, u)
                    ELSE LineCharge(units, config, u)
    BY <1>1 DEF ResultInv, CalculateCharges
  <2>3. CASE config.method = "CUSTOM_FORMULA"
    BY <2>1, <2>2, <2>3, FormulaBreakdownAddsUp
  <2>4. CASE config.method # "CUSTOM_FORMULA"
    BY <2>1, <2>2, <2>4, LineBreakdownAddsUp
  <2> QED BY <2>3, <2>4
<1> QED BY <1>1, Results, PTL

(***************************************************************************)
(* calculateCharges: the charges of all units add up to what the lines and *)
(* the base ask for, to half a rial for each unit and line, for every      *)
(* building and every list of lines; a MIXED period without items brings   *)
(* in its base exactly once more.                                          *)
(***************************************************************************)
THEOREM PeriodsAddUp == Spec => []ChargesAddUpToPeriod
<1>1. ASSUME ResultInv PROVE ChargesAddUpToPeriod
  <2> SUFFICES ASSUME Done, config.method # "CUSTOM_FORMULA" PROVE ChargesAddUpToPeriod
    BY DEF ChargesAddUpToPeriod
  <2> DEFINE U == DOMAIN units
             amount == [u \in U |-> result[u].amount]
             lines == Lines(config)
             asked == [i \in 1..Len(lines) |->
                         IF lines[i].method = "FIXED" THEN UnitCount * lines[i].amount
                         ELSE IF Divided(lines[i]) THEN lines[i].amount ELSE 0]
  <2>1. Building(units) /\ config \in Configs
    BY <1>1 DEF ResultInv
  <2>2. \A u \in U : amount[u] = LineCharge(units, config, u).amount
    BY <1>1 DEF ResultInv, CalculateCharges
  <2>3. \A i \in 1..Len(lines) : asked[i] = Asked(units, lines[i])
    BY DEF Asked, UnitCount, Divided
  <2>4. SumFunction(amount) = SumFunctionOnSet(amount, U)
    BY DEF SumFunction
  <2>5. Len(lines) \in Nat
    BY <2>1, LinesType
  <2>6. SumSeq(asked) = SumFunctionOnSet(asked, 1..Len(lines))
    <3>1. Len(asked) = Len(lines)
      BY <2>5
    <3> HIDE DEF asked
    <3> QED BY <3>1 DEF SumSeq
  <2> HIDE DEF amount, asked
  <2>7. TwiceApart(SumFunctionOnSet(amount, U),
                   Cardinality(U) * Base(config) + SumFunctionOnSet(asked, 1..Len(lines)))
          <= Cardinality(U) * Len(lines)
    BY <2>1, <2>2, <2>3, ChargesAddUp
  <2>8. TwiceApart(SumFunction(amount),
                   UnitCount * Base(config) + SumSeq(asked)) <= UnitCount * Len(lines)
    BY <2>4, <2>6, <2>7 DEF UnitCount
  <2>9. CASE config.method = "MIXED" /\ config.items = <<>>
    <3>1. Len(lines) = 1 /\ lines[1].method = "MIXED" /\ lines[1].amount = config.baseAmount
      BY <2>9 DEF Lines
    <3>2. Divided(lines[1])
      <4>0. result = CalculateCharges(units, config) /\ Done
        BY <1>1 DEF ResultInv
      <4>1. PICK u \in U : TRUE
        <5>1. ASSUME U = {} PROVE CalculateCharges(units, config) = NoResult
          BY <5>1 DEF CalculateCharges, NoResult
        <5> QED BY <4>0, <5>1 DEF Done
      <4>2. Weight(units, "MIXED", u) = 1
        BY DEF Weight
      <4> QED BY <3>1, <4>1, <4>2 DEF Divided
    <3>3. asked[1] = config.baseAmount /\ config.baseAmount \in Nat
      <4>1. config.baseAmount \in Nat
        BY <2>1, ItemsAssumption DEF Configs
      <4> QED BY <3>1, <3>2, <4>1 DEF asked
    <3>4. SumSeq(asked) = config.baseAmount
      <4> DEFINE none == {}
      <4>0. IsFiniteSet(none) /\ 1 \notin none /\ \A i \in none \cup {1} : asked[i] \in Int
        BY <3>3, FS_EmptySet
      <4> HIDE DEF none
      <4>1. SumFunctionOnSet(asked, none \cup {1}) = asked[1] + SumFunctionOnSet(asked, none)
        BY <4>0, SumAdd
      <4> USE DEF none
      <4>2. 1..Len(lines) = none \cup {1}
        BY <3>1
      <4>3. SumFunctionOnSet(asked, none) = 0
        BY SumEmpty
      <4>4. SumSeq(asked) = SumFunctionOnSet(asked, none \cup {1})
        BY <2>6, <4>2
      <4> HIDE DEF none, lines
      <4> QED BY <3>3, <4>1, <4>3, <4>4
    <3>5. UnitCount \in Nat
      BY <2>1, BuildingIsFinite, FS_CardinalityType DEF UnitCount
    <3>6. TwiceApart(SumFunction(amount),
                     UnitCount * config.baseAmount + config.baseAmount) <= UnitCount
      BY <2>8, <2>9, <3>1, <3>4, <3>5 DEF Base
    <3> HIDE DEF lines
    <3> QED BY <2>9, <3>6 DEF ChargesAddUpToPeriod, LinesAsked, amount
  <2>10. CASE ~(config.method = "MIXED" /\ config.items = <<>>)
    <3>1. LinesAsked = lines
      BY <2>10 DEF LinesAsked, Lines
    <3>2. ~(config.method = "MIXED" /\ LinesAsked = <<>>)
      BY <2>10 DEF LinesAsked
    <3> QED BY <2>8, <3>1, <3>2 DEF ChargesAddUpToPeriod, Base, amount, asked
  <2> QED BY <2>9, <2>10
<1> QED BY <1>1, Results, PTL

(***************************************************************************)
(* calculateCharges: when a unit grows and the period is computed again,   *)
(* no other unit of the building pays more.                                *)
(***************************************************************************)
THEOREM GrowingUnitsSpareOthers == Spec => GrowingUnitSparesOthers
<1> DEFINE Spares ==
      \A u \in DOMAIN units :
        /\ Done
        /\ (\A f \in DOMAIN units[u] : units'[u][f] >= units[u][f])
        /\ (\A v \in DOMAIN units \ {u} : units'[v] = units[v])
        => \A v \in DOMAIN units \ {u} : result'[v].amount <= result[v].amount
<1>1. ASSUME ResultInv, [Next]_vars PROVE Spares
  <2> SUFFICES ASSUME NEW u \in DOMAIN units, Done,
                      \A f \in DOMAIN units[u] : units'[u][f] >= units[u][f],
                      \A v \in DOMAIN units \ {u} : units'[v] = units[v],
                      NEW v \in DOMAIN units \ {u}
               PROVE  result'[v].amount <= result[v].amount
    OBVIOUS
  <2>1. ResultInv' /\ config' = config
    BY <1>1, ResultNext
  <2>2. Done' /\ DOMAIN units' = DOMAIN units
    <3>1. CASE Calculate
      BY <3>1 DEF Calculate, Done
    <3>2. ASSUME NEW x \in Units, NEW input \in UnitInputs, Recalculate(x, input)
          PROVE  Done' /\ DOMAIN units' = DOMAIN units
      <4>1. DOMAIN units' = DOMAIN units /\ DOMAIN units # {}
        BY <3>2 DEF Recalculate
      <4>2. DOMAIN result' = DOMAIN units
        BY <3>2, <4>1 DEF Recalculate, CalculateCharges
      <4>3. DOMAIN NoResult = {}
        BY DEF NoResult
      <4> QED BY <4>1, <4>2, <4>3 DEF Done
    <3>3. CASE UNCHANGED vars
      BY <3>3 DEF vars, Done
    <3> QED BY <1>1, <3>1, <3>2, <3>3 DEF Next
  <2>3. /\ result = CalculateCharges(units, config) /\ config \in Configs
        /\ result' = CalculateCharges(units', config)
    BY <1>1, <2>1, <2>2 DEF ResultInv
  <2>4. Building(units) /\ Building(units')
    BY <1>1, <2>1 DEF ResultInv
  <2>5. \A x \in DOMAIN units : \A field \in {"area", "residentsCount", "coefficient"} :
          units'[x][field] >= units[x][field]
    <3> SUFFICES ASSUME NEW x \in DOMAIN units, NEW field \in {"area", "residentsCount", "coefficient"}
                 PROVE  units'[x][field] >= units[x][field]
      OBVIOUS
    <3>1. /\ units[x] \in [area : Nat, residentsCount : Nat, coefficient : Nat]
          /\ units'[x] \in [area : Nat, residentsCount : Nat, coefficient : Nat]
      BY <2>2, <2>4, UnitInputsAssumption DEF Building
    <3>2. CASE x = u
      <4>1. field \in DOMAIN units[u]
        BY <3>1, <3>2
      <4> QED BY <3>2, <4>1
    <3>3. CASE x # u
      <4>1. units'[x] = units[x] /\ units[x][field] \in Nat
        BY <3>1, <3>3
      <4> QED BY <4>1
    <3> QED BY <3>2, <3>3
  <2>6. Grows(units, units', v)
    BY <2>2, <2>4, <2>5 DEF Grows
  <2> QED BY <2>3, <2>6, ChargeShrinks
<1>2. Spec => [][Spares]_vars
  BY <1>1, Results, PTL DEF Spec
<1> QED BY <1>2 DEF GrowingUnitSparesOthers

=============================================================================
