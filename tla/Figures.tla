------------------------------- MODULE Figures -------------------------------
(***************************************************************************)
(* The figures the API computes from the tables of Payments: the debts in  *)
(* ChargesService, BuildingsService and DashboardService, and the income,  *)
(* expenses and payments in ReportsService and AnalyticsService.           *)
(*                                                                         *)
(* No figure is stored.  Each is computed by a query of its own when it is *)
(* asked for, so that two screens agree only if two queries do.  They are  *)
(* operators here, over the committed rows.                                *)
(***************************************************************************)
EXTENDS Payments, Functions

CONSTANTS
  Issued,        \* the charges in the order of createdAt
  UnitOf,        \* UnitOf[c]: the unit of charge c
  CategoryOf,    \* CategoryOf[r]: the category of an expense, or None
  Latest,        \* charges the dashboard of a resident looks at (6)
  Years,         \* the Jalali years looked at
  StartOf,       \* StartOf[m]: 00:00 UTC of the first day of month m
  EndOf,         \* EndOf[m]: the midnight after its last day
  Day, Second,   \* lengths; instants count the smallest unit, a millisecond
  Noon,          \* the time of day a typed date gets (8:30 UTC)
  Zones,         \* local time minus UTC, of the servers the API may run on
  DayOf,         \* DayOf[r]: midnight of the Jalali date typed in request r, or None
  Moment         \* Moment[r]: the ISO instant typed, or the time of request r

Months == [year : Years, month : 1..12]

Before(m, n) == m.year < n.year \/ (m.year = n.year /\ m.month < n.month)

\* Tables are finite; Issued lists every charge once.
ASSUME FiguresAssumption ==
  /\ IsFiniteSet(Charges) /\ IsFiniteSet(Requests) /\ IsFiniteSet(Boxes)
  /\ Issued \in Seq(Charges) /\ Range(Issued) = Charges /\ IsInjective(Issued)
  /\ DOMAIN UnitOf = Charges
  /\ Latest \in Nat

\* The calendar (jalaali-js, external): a month ends before the next begins,
\* the years looked at hold every date, and the hour given to a typed date
\* is the same day on every server.
ASSUME CalendarAssumption ==
  /\ IsFiniteSet(Years) /\ Years \subseteq Int
  /\ Day \in Int /\ Second \in Int /\ 0 < Second /\ Second < Day
  /\ StartOf \in [Months -> Int] /\ EndOf \in [Months -> Int]
  /\ \A m \in Months : StartOf[m] + Day <= EndOf[m]
  /\ \A m, n \in Months : Before(m, n) => EndOf[m] <= StartOf[n]
  /\ Zones \subseteq Int /\ Noon \in 0..(Day - Second)
  /\ \A z \in Zones : Noon + z \in 0..(Day - 1)
  /\ \A r \in Requests :
       /\ Moment[r] \in Int
       /\ \E m \in Months : StartOf[m] <= Moment[r] /\ Moment[r] < EndOf[m]
       /\ DayOf[r] # None =>
            /\ DayOf[r] \in Int
            /\ \E m \in Months : StartOf[m] <= DayOf[r] /\ DayOf[r] + Day <= EndOf[m]

AtLeastZero(x) == IF x < 0 THEN 0 ELSE x

-----------------------------------------------------------------------------
(* Debts *)

\* Charges in PENDING, PARTIAL or OVERDUE; nothing sets OVERDUE.
Owing == {c \in Charges : status[c] # "PAID"}

Remaining(c) == Due[c] - paid[c]

\* getUnit and getResident: one sum over the charges, cut off at zero.
DebtOf(units) ==
  AtLeastZero(SumFunction([c \in {c \in Owing : UnitOf[c] \in units} |-> Remaining(c)]))

\* Mutant: what was paid is left out, as for a charge nobody has paid for.
DebtorsUnpaid ==
  LET debt == [u \in {UnitOf[c] : c \in Owing} |->
                 SumFunction([c \in {c \in Owing : UnitOf[c] = u} |-> Due[c]])]
  IN [u \in {u \in DOMAIN debt : debt[u] > 0} |-> debt[u]]

\* debtors: each charge is cut off at zero, then summed by unit.
Debtors ==
  LET debt == [u \in {UnitOf[c] : c \in Owing} |->
                 SumFunction([c \in {c \in Owing : UnitOf[c] = u} |->
                                AtLeastZero(Remaining(c))])]
  IN [u \in {u \in DOMAIN debt : debt[u] > 0} |-> debt[u]]

\* managerDashboard: the charges with a rest.
DashboardDebt ==
  LET open == {c \in Owing : Remaining(c) > 0} IN
    [units |-> {UnitOf[c] : c \in open}, total |-> SumFunction([c \in open |-> Remaining(c)])]

\* residentDashboard: only the latest charges of the units.
ResidentDebt(units) ==
  LET mine == {i \in 1..Len(Issued) : UnitOf[Issued[i]] \in units}
      shown == {Issued[i] : i \in {i \in mine : Cardinality({j \in mine : j > i}) < Latest}} IN
    AtLeastZero(SumFunction([c \in shown \cap Owing |-> Remaining(c)]))

\* unitCharges: what the panel shows to be left of each charge.
UnitCharges(u) == [c \in {c \in Charges : UnitOf[c] = u} |-> AtLeastZero(Remaining(c))]

-----------------------------------------------------------------------------
(* Dates *)

\* A date can be typed for every document but a payment through the gateway.
IsTyped(r) == DayOf[r] # None /\ job[r].kind # "verify"

\* Mutant: a typed date stands for the end of the day.
DatedAtEnd(r) == IF IsTyped(r) THEN DayOf[r] + Day - 1 ELSE Moment[r]

\* parseJalaliInput, and the dates the handlers store.
DatedAt(r) == IF IsTyped(r) THEN DayOf[r] + Noon ELSE Moment[r]

\* The month an instant lies in.
MonthAt(t) == CHOOSE m \in Months : StartOf[m] <= t /\ t < EndOf[m]

\* jalaliYearMonth and toJalali read the date in the local time of the server.
YearMonth(t, zone) == MonthAt(t + zone)

\* jalaliMonthRange: a month ends at 23:59:59.000 of its last day.
MonthRange(m) == [start |-> StartOf[m], end |-> EndOf[m] - Second]

\* The queries look from the start of a month to the end of a month, inclusive.
Within(t, first, last) == MonthRange(first).start <= t /\ t <= MonthRange(last).end

-----------------------------------------------------------------------------
(* Income, expenses and payments *)

\* Committed documents of a kind, from a month to a month.
Dated(kind, first, last) == {r \in docs : job[r].kind = kind /\ Within(DatedAt(r), first, last)}

Sum(rs) == SumFunction([r \in rs |-> job[r].amount])

\* monthlyFinance; payments of charges are not income.
MonthlyFinance(m) ==
  [income |-> Sum(Dated("income", m, m)), expense |-> Sum(Dated("expense", m, m))]

\* Mutant: the year does not change with the month.
PreviousInYear(m) ==
  IF m.month > 1 THEN [m EXCEPT !.month = @ - 1] ELSE [m EXCEPT !.month = 12]

Previous(m) ==
  IF m.month > 1 THEN [m EXCEPT !.month = @ - 1] ELSE [year |-> m.year - 1, month |-> 12]

\* incomeExpenseChart: the points of the last n months, the present one last.
Chart(now, n) ==
  LET back[i \in 0..n] == IF i = 0 THEN now ELSE Previous(back[i - 1]) IN
    [i \in 1..n |-> MonthlyFinance(back[n - i])]

ChartTotal(now, n) ==
  LET chart == Chart(now, n) IN
    [income |-> SumFunction([i \in 1..n |-> chart[i].income]),
     expense |-> SumFunction([i \in 1..n |-> chart[i].expense])]

YearlyFinance(y) ==
  LET months == [i \in 1..12 |-> MonthlyFinance([year |-> y, month |-> i])]
      income == SumFunction([i \in 1..12 |-> months[i].income])
      expense == SumFunction([i \in 1..12 |-> months[i].expense])
  IN [income |-> income, expense |-> expense, balance |-> income - expense]

\* expenseByCategory: one range for the whole year, and groups, one of them
\* for the expenses without a category.
ExpenseByCategory(y) ==
  LET es == Dated("expense", [year |-> y, month |-> 1], [year |-> y, month |-> 12]) IN
    [k \in {CategoryOf[r] : r \in es} |-> Sum({r \in es : CategoryOf[r] = k})]

\* paymentsSummary, by whether a payment came through the gateway; every
\* payment is CONFIRMED.
PaymentsSummary(m) == [kind \in {"manual", "verify"} |-> Sum(Dated(kind, m, m))]

\* cashboxBalance and the first card of managerDashboard.
CashboxTotal == SumFunction([b \in created |-> balance[b]])

-----------------------------------------------------------------------------
(* Properties *)

UnitsCharged == {UnitOf[c] : c \in Charges}

(***************************************************************************)
(* The list of debtors, the card on the dashboard, the page and the panel  *)
(* of each unit show the same debts, which are what was charged and not    *)
(* collected; a resident is never shown more, and the same when all        *)
(* charges fit.  Two queries cut off each charge, one the sum, one         *)
(* neither: they agree because a charge is PAID as soon as nothing         *)
(* remains.                                                                *)
(***************************************************************************)
DebtFiguresAgree ==
  /\ DOMAIN Debtors = DashboardDebt.units
  /\ SumFunction(Debtors) = DashboardDebt.total
  /\ \A u \in UnitsCharged :
       /\ DebtOf({u}) = IF u \in DOMAIN Debtors THEN Debtors[u] ELSE 0
       /\ DebtOf({u}) = SumFunction(UnitCharges(u))
       /\ DebtOf({u}) = SumFunction([c \in {c \in Charges : UnitOf[c] = u} |->
                                       AtLeastZero(Due[c] - collected[c])])
       /\ ResidentDebt({u}) <= DebtOf({u})
       /\ Cardinality({c \in Charges : UnitOf[c] = u}) <= Latest => ResidentDebt({u}) = DebtOf({u})

(***************************************************************************)
(* A date somebody types stays where it was put: on every server the       *)
(* document is shown under the month of that day, and the reports of that  *)
(* month and year have it, and no others, though days are read in local    *)
(* time and reports end before the month does (jalali.util.ts:81).         *)
(***************************************************************************)
TypedDatesStay ==
  \A r \in {r \in docs : IsTyped(r)} :
    LET m == MonthAt(DayOf[r]) IN
      /\ \A z \in Zones : YearMonth(DatedAt(r), z) = m
      /\ \A n \in Months : r \in Dated(job[r].kind, n, n) <=> n = m
      /\ \A y \in Years :
           r \in Dated(job[r].kind, [year |-> y, month |-> 1], [year |-> y, month |-> 12])
             <=> y = m.year

\* Documents dated after 23:59:59.000 on the last day of a month.
Lost == {r \in docs : DatedAt(r) > MonthRange(MonthAt(DatedAt(r))).end}

(***************************************************************************)
(* The chart of a year and the month after it adds up to the reports of    *)
(* both; the expenses by category of a year to its report and what was     *)
(* lost at the end of its months but the last, which are in no monthly     *)
(* report; and all years with all payments to what the cashboxes hold      *)
(* beyond their opening balances, but for what was lost.  Only the last    *)
(* second of a month is lost, and nothing is counted twice.                *)
(* (Looked at when no request is running: only a commit adds a document.)  *)
(***************************************************************************)
FinanceFiguresAgree ==
  (\A r \in Requests : pc[r] \in Resting) =>
  /\ \A y \in Years :
       LET year == YearlyFinance(y) IN
       /\ y + 1 \in Years =>
            LET farvardin == [year |-> y + 1, month |-> 1]
                next == MonthlyFinance(farvardin)
                chart == ChartTotal(farvardin, 13) IN
              /\ chart.income = year.income + next.income
              /\ chart.expense = year.expense + next.expense
       /\ SumFunction(ExpenseByCategory(y)) =
            year.expense + Sum({r \in Lost : /\ job[r].kind = "expense"
                                             /\ MonthAt(DatedAt(r)).year = y
                                             /\ MonthAt(DatedAt(r)).month < 12})
  /\ CashboxTotal - SumFunction([b \in created |-> Opening[b]]) =
       SumFunction([y \in Years |-> YearlyFinance(y).balance])
       + SumFunction([m \in Months |-> SumFunction(PaymentsSummary(m))])
       + SumFunction([r \in Lost |-> Delta(job[r])])

=============================================================================
