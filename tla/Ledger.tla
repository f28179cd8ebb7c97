------------------------------- MODULE Ledger -------------------------------
(***************************************************************************)
(* What the accounting of a building promises, with no handlers, no        *)
(* transactions and no concurrency: every cashbox carries a balance, and   *)
(* every movement is posted in one step that changes the balance by the    *)
(* amount of the movement and appends the entry that records it together   *)
(* with the balance after it.  docs/database.md describes ledger_entries   *)
(* in these words, accounting.service.ts:44-47 claims it of                *)
(* recordMovement.  Accounting and Payments are checked against it.        *)
(***************************************************************************)
EXTENDS Integers, Sequences

CONSTANTS
  Boxes,      \* identities of cashboxes
  Refs,       \* documents a movement can refer to (payment, income, expense)
  Opening,    \* Opening[b]: the initialBalance cashbox b is opened with
  SeedBoxes   \* the cashboxes that exist at the start

VARIABLES
  opened,     \* the cashboxes that exist
  balance,    \* balance[b]: the running balance of b
  book        \* book[b]: the entries of b, oldest first

ledgerVars == <<opened, balance, book>>

Init ==
  /\ opened = SeedBoxes
  /\ balance = Opening
  /\ book = [b \in Boxes |-> <<>>]

\* A new cashbox starts with its opening balance and an empty book.
Open(b) ==
  /\ b \notin opened
  /\ opened' = opened \cup {b}
  /\ UNCHANGED <<balance, book>>

\* Post a movement: the entry and the balance move together.
Post(ref, b, delta) ==
  /\ b \in opened
  /\ \A x \in Boxes : \A i \in 1..Len(book[x]) : book[x][i].ref # ref
  /\ balance' = [balance EXCEPT ![b] = @ + delta]
  /\ book' = [book EXCEPT ![b] =
                Append(@, [ref |-> ref, delta |-> delta,
                           after |-> balance[b] + delta])]
  /\ UNCHANGED opened

\* The amount posted is read off the new entry, so that the specification
\* ranges over every integer and can still be evaluated step by step.
PostSome(ref, b) ==
  /\ Len(book'[b]) = Len(book[b]) + 1
  /\ Post(ref, b, book'[b][Len(book'[b])].delta)

Next ==
  \E b \in Boxes : Open(b) \/ \E ref \in Refs : PostSome(ref, b)

Spec == Init /\ [][Next]_ledgerVars
=============================================================================
