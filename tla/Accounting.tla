----------------------------- MODULE Accounting -----------------------------
(***************************************************************************)
(* The accounting module of the API: cashboxes, their running balance, the *)
(* ledger, and the handlers that write them directly (createIncome,        *)
(* createExpense, createCashbox).  Payments extends this module with the   *)
(* handlers that reach the ledger through recordMovement.                  *)
(*                                                                         *)
(* Every HTTP request is a process that runs one handler once.  The API    *)
(* runs as several stateless instances, so requests interleave at every    *)
(* await; a database transaction runs at PostgreSQL's default level READ   *)
(* COMMITTED: a read sees the last committed row and takes no lock, an     *)
(* UPDATE takes the row lock and keeps it until the transaction ends, and  *)
(* what a transaction writes becomes visible in one step when it commits.  *)
(***************************************************************************)
EXTENDS Integers, Sequences, FiniteSets

CONSTANTS
  Requests,   \* identities of requests; a document is named by its request
  Boxes,      \* identities of cashboxes
  Charges,    \* identities of charges (used by Payments)
  Auths,      \* authorities the gateway can issue (used by Payments)
  Amounts,    \* amounts a client can send (the DTOs require at least 1)
  Opening,    \* Opening[b]: the initialBalance box b is created with
  SeedBoxes,  \* the cashboxes the building starts with
  Kinds,      \* the handlers exercised
  Serial,     \* TRUE: a request starts only when no other is in flight
  None        \* SQL NULL

AllKinds == {"income", "expense", "cashbox", "manual", "initiate", "verify"}

ASSUME AmountsAssumption == Amounts \subseteq Nat \ {0}
ASSUME BoxesAssumption ==
  /\ Opening \in [Boxes -> Int]
  /\ SeedBoxes \subseteq Boxes
  /\ None \notin Boxes
ASSUME KindsAssumption == Kinds \subseteq AllKinds /\ None \notin AllKinds /\ Serial \in BOOLEAN
ASSUME RowsAssumption ==
  /\ None \notin Charges /\ None \notin Auths /\ None \notin Requests
  /\ Boxes \cap Charges = {} /\ Boxes \cap Auths = {} /\ Charges \cap Auths = {}

VARIABLES
  pc,          \* pc[r]: the await at which request r is suspended
  job,         \* job[r]: what r works on; None where the handler has no such thing
  held,        \* held[r]: the rows whose lock the transaction of r holds
  docs,        \* requests whose document (payment, income, expense) is committed
  created,     \* cashboxes that exist
  isDefault,   \* cashboxes whose isDefault column is true
  balance,     \* balance[b]: the balance column
  ledger,      \* ledger[b]: committed ledger entries of b, in commit order
  sawBalance,  \* sawBalance[r]: the balance the transaction of r has read
  posted,      \* history: posted[b] is the sum of the committed movements of b
  overlapped   \* history: rows written while another transaction had read them

accVars == <<pc, job, held, docs, created, isDefault, balance, ledger,
             sawBalance, posted, overlapped>>

\* The committed tables of accounting, and their history.
accTables == <<docs, created, isDefault, balance, ledger, posted, overlapped>>

Rows == Boxes \cup Charges \cup Auths

\* A request that is not running: not yet arrived, answered, or given up.
Resting == {"idle", "done", "failed"}

\* The labels inside a database transaction.
InTransaction == {"lockTrx", "readCharge", "writeCharge", "readBox", "writeBox", "commit"}

Labels == Resting \cup InTransaction
            \cup {"insertBox", "insertDefault", "request", "createTrx",
                  "cancel", "askGateway", "markFailed"}

NoJob == [kind |-> None, charge |-> None, box |-> None, amount |-> 0, auth |-> None]

\* No other transaction holds the lock of this row.
Free(r, row) == \A o \in Requests \ {r} : row \notin held[o]

\* A request arrives and its handler starts.
MayStart(r, kind) ==
  /\ kind \in Kinds
  /\ pc[r] = "idle"
  /\ Serial => \A o \in Requests : pc[o] \in Resting

\* The sign a movement enters the balance with: only an expense is a DEBIT.
Delta(j) == IF j.kind = "expense" THEN -j.amount ELSE j.amount

(***************************************************************************)
(* Transactions o \in Requests that have read row x and have not ended:    *)
(* what they will write is computed from what they have read.              *)
(***************************************************************************)
HasReadBox(o, x) == pc[o] \in {"writeBox", "commit"} /\ job[o].box = x

HasReadCharge(o, x) ==
  pc[o] \in {"writeCharge", "readBox", "writeBox", "commit"} /\ job[o].charge = x

HasRead(o, x) == HasReadBox(o, x) \/ HasReadCharge(o, x)

-----------------------------------------------------------------------------
AccInit ==
  /\ pc = [r \in Requests |-> "idle"]
  /\ job = [r \in Requests |-> NoJob]
  /\ held = [r \in Requests |-> {}]
  /\ docs = {}
  /\ created = SeedBoxes
  /\ isDefault \in {d \in SUBSET SeedBoxes : SeedBoxes # {} => d # {}}
  /\ balance = Opening
  /\ ledger = [b \in Boxes |-> <<>>]
  /\ sawBalance = [r \in Requests |-> 0]
  /\ posted = [b \in Boxes |-> 0]
  /\ overlapped = {}

\* createIncome / createExpense: the cashbox named in the request or the
\* default one; without any the handler throws.
StartRecord(r, kind, b, m) ==
  /\ kind \in {"income", "expense"}
  /\ MayStart(r, kind)
  /\ b \in created
  /\ job' = [job EXCEPT ![r] = [NoJob EXCEPT !.kind = kind, !.box = b, !.amount = m]]
  /\ pc' = [pc EXCEPT ![r] = "readBox"]
  /\ UNCHANGED <<held, accTables, sawBalance>>

\* createCashbox, first await: the number of cashboxes decides isDefault.
CountBoxes(r, b) ==
  /\ MayStart(r, "cashbox")
  /\ b \notin created
  /\ \A o \in Requests : job[o].kind = "cashbox" => job[o].box # b
  /\ job' = [job EXCEPT ![r] = [NoJob EXCEPT !.kind = "cashbox", !.box = b]]
  /\ pc' = [pc EXCEPT ![r] = IF created = {} THEN "insertDefault" ELSE "insertBox"]
  /\ UNCHANGED <<held, accTables, sawBalance>>

\* createCashbox, second await: the row appears with balance = initialBalance.
InsertBox(r) ==
  /\ pc[r] \in {"insertBox", "insertDefault"}
  /\ created' = created \cup {job[r].box}
  /\ isDefault' = IF pc[r] = "insertDefault" THEN isDefault \cup {job[r].box} ELSE isDefault
  /\ balance' = [balance EXCEPT ![job[r].box] = Opening[job[r].box]]
  /\ pc' = [pc EXCEPT ![r] = "done"]
  /\ UNCHANGED <<job, held, docs, ledger, sawBalance, posted, overlapped>>

\* recordMovement reads the cashbox row.
ReadBox(r) ==
  /\ pc[r] = "readBox"
  /\ sawBalance' = [sawBalance EXCEPT ![r] = balance[job[r].box]]
  /\ pc' = [pc EXCEPT ![r] = "writeBox"]
  /\ UNCHANGED <<job, held, accTables>>

\* Mutant: the sign of a DEBIT is forgotten.
BalanceAfterUnsigned(r) == sawBalance[r] + job[r].amount

\* The balance the transaction of r has written, and put in its ledger entry.
BalanceAfter(r) == sawBalance[r] + Delta(job[r])

\* recordMovement updates the row (waiting for its lock) and inserts the entry.
WriteBox(r) ==
  /\ pc[r] = "writeBox"
  /\ Free(r, job[r].box)
  /\ held' = [held EXCEPT ![r] = @ \cup {job[r].box}]
  /\ pc' = [pc EXCEPT ![r] = "commit"]
  /\ UNCHANGED <<job, accTables, sawBalance>>

\* What the commit of r makes visible in the accounting tables.
PostMovement(r) ==
  LET b == job[r].box IN
    IF b = None
      THEN UNCHANGED <<balance, ledger, posted>>
      ELSE /\ balance' = [balance EXCEPT ![b] = BalanceAfter(r)]
           /\ ledger' = [ledger EXCEPT ![b] =
                Append(@, [ref |-> r, delta |-> Delta(job[r]), after |-> BalanceAfter(r)])]
           /\ posted' = [posted EXCEPT ![b] = @ + Delta(job[r])]

\* COMMIT: document, movement and balance appear together, the locks go.
Commit(r) ==
  /\ pc[r] = "commit"
  /\ docs' = docs \cup {r}
  /\ PostMovement(r)
  /\ overlapped' = overlapped \cup
       {x \in {job[r].box, job[r].charge} \ {None} :
          \E o \in Requests \ {r} : HasRead(o, x)}
  /\ held' = [held EXCEPT ![r] = {}]
  /\ pc' = [pc EXCEPT ![r] = "done"]
  /\ UNCHANGED <<job, created, isDefault, sawBalance>>

\* Mutant: a failed request leaves its transaction open.
FailKeepingLocks(r) ==
  /\ pc[r] \notin Resting
  /\ pc' = [pc EXCEPT ![r] = "failed"]
  /\ UNCHANGED <<job, held, accTables, sawBalance>>

\* The request ends early: an exception, a transaction timeout or a crash of
\* the instance.  An open transaction rolls back and its locks are released.
Fail(r) ==
  /\ pc[r] \notin Resting
  /\ held' = [held EXCEPT ![r] = {}]
  /\ pc' = [pc EXCEPT ![r] = "failed"]
  /\ UNCHANGED <<job, accTables, sawBalance>>

Arrive(r) ==
  \/ \E b \in Boxes, m \in Amounts, k \in {"income", "expense"} : StartRecord(r, k, b, m)
  \/ \E b \in Boxes : CountBoxes(r, b)

Movement(r) == ReadBox(r) \/ WriteBox(r)

=============================================================================
