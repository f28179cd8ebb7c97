------------------------------ MODULE MCFigures ------------------------------
(* Instance of Figures for TLC: two charges of one unit, months of two days  *)
(* of eight instants, and documents around the turn of a year: at the very   *)
(* end of month 11, on the last day of month 12 (at its very end when the    *)
(* payment comes through the gateway), and on the first day of the new year. *)
EXTENDS Figures, MCPayments

CONSTANTS c1, c2, r1, r2, r3, u1, k1

InOrder == <<c1, c2>>
SameUnit == [c \in Charges |-> u1]
SomeCategories == [r \in Requests |-> IF r = r1 THEN k1 ELSE None]

SmallCalendar == [m \in Months |-> 16 * (12 * (m.year - 1402) + m.month - 1)]
SmallCalendarEnds == [m \in Months |-> SmallCalendar[m] + 16]
Bahman == [year |-> 1402, month |-> 11]
Esfand == [year |-> 1402, month |-> 12]

SomeDays ==
  [r \in Requests |-> CASE r = r1 -> None
                       [] r = r2 -> SmallCalendarEnds[Esfand] - 8
                       [] OTHER -> SmallCalendarEnds[Esfand]]
SomeMoments ==
  [r \in Requests |-> CASE r = r1 -> SmallCalendarEnds[Bahman] - 1
                       [] r = r2 -> SmallCalendarEnds[Esfand] - 1
                       [] OTHER -> SmallCalendarEnds[Esfand] + 7]
=============================================================================
