------------------------------ MODULE Payments ------------------------------
(***************************************************************************)
(* The payments module composed with accounting: manual payments, online   *)
(* payments through the gateway, and the charges they settle.              *)
(*                                                                         *)
(* recordManual and verifyOnline are one database transaction each: insert *)
(* the payment, (verifyOnline) update the gateway transaction, read and    *)
(* update the charge, then recordMovement.  verifyOnline decides on what   *)
(* it has read before that transaction.  The gateway is external: it       *)
(* issues authorities, the user pays or not, and the callback may be       *)
(* delivered any number of times, at any time, with either status.         *)
(***************************************************************************)
EXTENDS Accounting

CONSTANT Due    \* Due[c]: amount + penaltyAmount of charge c

ASSUME DueAssumption == Due \in [Charges -> Nat]

VARIABLES
  paid,        \* paid[c]: the paidAmount column
  status,      \* status[c]: the ChargeStatus column
  trx,         \* trx[a]: the payment_transactions row of authority a
  gateway,     \* gateway[a]: what the gateway knows of authority a (external)
  sawPaid,     \* sawPaid[r]: the paidAmount the transaction of r has read
  collected    \* history: collected[c] is the sum of the committed payments of c

payVars == <<paid, status, trx, gateway, sawPaid, collected>>
vars == <<pc, job, held, docs, created, isDefault, balance, ledger, sawBalance,
          posted, overlapped, paid, status, trx, gateway, sawPaid, collected>>

NoTrx == [status |-> "NONE", amount |-> 0, charge |-> None, payment |-> None]

GatewayStates == {"unknown", "issued", "captured", "verified"}

Init ==
  /\ AccInit
  /\ paid = [c \in Charges |-> 0]
  /\ status = [c \in Charges |-> "PENDING"]
  /\ trx = [a \in Auths |-> NoTrx]
  /\ gateway = [a \in Auths |-> "unknown"]
  /\ sawPaid = [r \in Requests |-> 0]
  /\ collected = [c \in Charges |-> 0]

\* The status applyToCharge gives a charge of total t with p paid.
ChargeStatus(p, t) == IF p >= t THEN "PAID" ELSE IF p <= 0 THEN "PENDING" ELSE "PARTIAL"

\* The cashboxes findFirst can return: a default one if there is one (which
\* of several is the oldest is left open), else any, else NULL.
DefaultBoxes ==
  IF created = {} THEN {None} ELSE IF isDefault # {} THEN isDefault ELSE created

-----------------------------------------------------------------------------
(* recordManual *)

StartManual(r, c, b, m) ==
  /\ MayStart(r, "manual")
  /\ b \in created
  /\ job' = [job EXCEPT ![r] =
       [kind |-> "manual", charge |-> c, box |-> b, amount |-> m, auth |-> None]]
  /\ pc' = [pc EXCEPT ![r] = IF c = None THEN "readBox" ELSE "readCharge"]
  /\ UNCHANGED <<held, accTables, sawBalance, payVars>>

\* applyToCharge reads the charge inside the transaction.
ReadCharge(r) ==
  /\ pc[r] = "readCharge"
  /\ sawPaid' = [sawPaid EXCEPT ![r] = paid[job[r].charge]]
  /\ pc' = [pc EXCEPT ![r] = "writeCharge"]
  /\ UNCHANGED <<job, held, accTables, sawBalance, paid, status, trx, gateway, collected>>

\* Mutant: the charge is updated outside the transaction of the payment.
WriteChargeOutsideTx(r) ==
  /\ pc[r] = "writeCharge"
  /\ Free(r, job[r].charge)
  /\ paid' = [paid EXCEPT ![job[r].charge] = sawPaid[r] + job[r].amount]
  /\ held' = [held EXCEPT ![r] = @ \cup {job[r].charge}]
  /\ pc' = [pc EXCEPT ![r] = IF job[r].box = None THEN "commit" ELSE "readBox"]
  /\ UNCHANGED <<job, accTables, sawBalance, status, trx, gateway, sawPaid, collected>>

\* applyToCharge updates the charge, waiting for its row lock.
WriteCharge(r) ==
  /\ pc[r] = "writeCharge"
  /\ Free(r, job[r].charge)
  /\ held' = [held EXCEPT ![r] = @ \cup {job[r].charge}]
  /\ pc' = [pc EXCEPT ![r] = IF job[r].box = None THEN "commit" ELSE "readBox"]
  /\ UNCHANGED <<job, accTables, sawBalance, payVars>>

-----------------------------------------------------------------------------
(* initiateOnline *)

\* The amount is the client's or the rest of the charge, and must be positive.
StartInitiate(r, c, m) ==
  /\ MayStart(r, "initiate")
  /\ m > 0
  /\ m \in Amounts \/ m = Due[c] - paid[c]
  /\ job' = [job EXCEPT ![r] =
       [kind |-> "initiate", charge |-> c, box |-> None, amount |-> m, auth |-> None]]
  /\ pc' = [pc EXCEPT ![r] = "request"]
  /\ UNCHANGED <<held, accTables, sawBalance, payVars>>

\* gateway.request: the gateway issues a fresh authority.
RequestGateway(r, a) ==
  /\ pc[r] = "request"
  /\ gateway[a] = "unknown"
  /\ gateway' = [gateway EXCEPT ![a] = "issued"]
  /\ job' = [job EXCEPT ![r].auth = a]
  /\ pc' = [pc EXCEPT ![r] = "createTrx"]
  /\ UNCHANGED <<held, accTables, sawBalance, paid, status, trx, sawPaid, collected>>

\* The transaction row is created and the redirect link is answered.
CreateTrx(r) ==
  /\ pc[r] = "createTrx"
  /\ trx' = [trx EXCEPT ![job[r].auth] =
       [status |-> "PENDING", amount |-> job[r].amount,
        charge |-> job[r].charge, payment |-> None]]
  /\ pc' = [pc EXCEPT ![r] = "done"]
  /\ UNCHANGED <<job, held, accTables, sawBalance, paid, status, gateway, sawPaid, collected>>

\* External: the user follows a link that was answered and pays.
UserPays(r) ==
  /\ pc[r] = "done" /\ job[r].kind = "initiate"
  /\ gateway[job[r].auth] = "issued"
  /\ gateway' = [gateway EXCEPT ![job[r].auth] = "captured"]
  /\ UNCHANGED <<accVars, paid, status, trx, sawPaid, collected>>

-----------------------------------------------------------------------------
(* verifyOnline *)

\* Mutant: the check for a transaction that is already SUCCESS is dropped.
StartVerifyUnchecked(r, a, s) ==
  /\ MayStart(r, "verify")
  /\ gateway[a] # "unknown"
  /\ job' = [job EXCEPT ![r] =
       [kind |-> "verify", charge |-> trx[a].charge, box |-> None,
        amount |-> trx[a].amount, auth |-> a]]
  /\ pc' = [pc EXCEPT ![r] =
       IF trx[a].status = "NONE" THEN "done" ELSE IF s = "OK" THEN "askGateway" ELSE "cancel"]
  /\ UNCHANGED <<held, accTables, sawBalance, payVars>>

\* The lookup: unknown authority and SUCCESS answer at once; a status other
\* than OK cancels; OK goes on to ask the gateway with the row it has read.
StartVerify(r, a, s) ==
  /\ MayStart(r, "verify")
  /\ gateway[a] # "unknown"
  /\ job' = [job EXCEPT ![r] =
       [kind |-> "verify", charge |-> trx[a].charge, box |-> None,
        amount |-> trx[a].amount, auth |-> a]]
  /\ pc' = [pc EXCEPT ![r] =
       IF trx[a].status \in {"NONE", "SUCCESS"} THEN "done"
       ELSE IF s = "OK" THEN "askGateway" ELSE "cancel"]
  /\ UNCHANGED <<held, accTables, sawBalance, payVars>>

\* A single UPDATE outside any transaction: waits for the row, then writes.
SetTrxStatus(r, from, s) ==
  /\ pc[r] = from
  /\ Free(r, job[r].auth)
  /\ trx' = [trx EXCEPT ![job[r].auth].status = s]
  /\ pc' = [pc EXCEPT ![r] = "done"]
  /\ UNCHANGED <<job, held, accTables, sawBalance, paid, status, gateway, sawPaid, collected>>

CancelTrx(r) == SetTrxStatus(r, "cancel", "CANCELED")

MarkFailed(r) == SetTrxStatus(r, "markFailed", "FAILED")

\* Mutant: the answer of the gateway is not looked at.
GatewayConfirmsUnchecked(r, b) ==
  /\ pc[r] = "askGateway"
  /\ b \in DefaultBoxes
  /\ job' = [job EXCEPT ![r].box = b]
  /\ pc' = [pc EXCEPT ![r] = "lockTrx"]
  /\ UNCHANGED <<held, accTables, sawBalance, payVars>>

\* gateway.verify confirms: code 100 the first time, 101 from then on, both
\* success; the cashbox for the movement is chosen before the transaction.
GatewayConfirms(r, b) ==
  /\ pc[r] = "askGateway"
  /\ gateway[job[r].auth] \in {"captured", "verified"}
  /\ gateway' = [gateway EXCEPT ![job[r].auth] = "verified"]
  /\ b \in DefaultBoxes
  /\ job' = [job EXCEPT ![r].box = b]
  /\ pc' = [pc EXCEPT ![r] = "lockTrx"]
  /\ UNCHANGED <<held, accTables, sawBalance, paid, status, trx, sawPaid, collected>>

\* gateway.verify refuses: nothing was captured, or the gateway answers
\* with an error code although it was.
GatewayRefuses(r) ==
  /\ pc[r] = "askGateway"
  /\ pc' = [pc EXCEPT ![r] = "markFailed"]
  /\ UNCHANGED <<job, held, accTables, sawBalance, payVars>>

\* Inside the transaction: payment inserted, transaction row updated.
LockTrx(r) ==
  /\ pc[r] = "lockTrx"
  /\ Free(r, job[r].auth)
  /\ held' = [held EXCEPT ![r] = @ \cup {job[r].auth}]
  /\ pc' = [pc EXCEPT ![r] = "readCharge"]
  /\ UNCHANGED <<job, accTables, sawBalance, payVars>>

\* Mutant: what is paid beyond the charge is dropped.
ApplyToChargeCapped(r) ==
  LET c == job[r].charge IN
    IF c = None
      THEN UNCHANGED <<paid, status, collected>>
      ELSE LET p == IF sawPaid[r] + job[r].amount > Due[c] THEN Due[c]
                    ELSE sawPaid[r] + job[r].amount IN
           /\ paid' = [paid EXCEPT ![c] = p]
           /\ status' = [status EXCEPT ![c] = ChargeStatus(p, Due[c])]
           /\ collected' = [collected EXCEPT ![c] = @ + job[r].amount]

\* Mutant: the status looks at this payment alone.
ApplyToChargeByInstalment(r) ==
  LET c == job[r].charge IN
    IF c = None
      THEN UNCHANGED <<paid, status, collected>>
      ELSE /\ paid' = [paid EXCEPT ![c] = sawPaid[r] + job[r].amount]
           /\ status' = [status EXCEPT ![c] = ChargeStatus(job[r].amount, Due[c])]
           /\ collected' = [collected EXCEPT ![c] = @ + job[r].amount]

\* What the commit of r makes visible in charges.
ApplyToCharge(r) ==
  LET c == job[r].charge
      p == sawPaid[r] + job[r].amount IN
    IF c = None
      THEN UNCHANGED <<paid, status, collected>>
      ELSE /\ paid' = [paid EXCEPT ![c] = p]
           /\ status' = [status EXCEPT ![c] = ChargeStatus(p, Due[c])]
           /\ collected' = [collected EXCEPT ![c] = @ + job[r].amount]

\* Mutant: SUCCESS is written without the payment.
ConfirmTrxWithoutPayment(r) ==
  IF job[r].kind = "verify"
    THEN trx' = [trx EXCEPT ![job[r].auth].status = "SUCCESS"]
    ELSE UNCHANGED trx

\* What the commit of r makes visible in payment_transactions.
ConfirmTrx(r) ==
  IF job[r].kind = "verify"
    THEN trx' = [trx EXCEPT ![job[r].auth].status = "SUCCESS",
                            ![job[r].auth].payment = r]
    ELSE UNCHANGED trx

CommitAll(r) ==
  /\ Commit(r)
  /\ ApplyToCharge(r)
  /\ ConfirmTrx(r)
  /\ UNCHANGED <<gateway, sawPaid>>

\* Everything a running handler does by itself.
Progress(r) ==
  \/ (InsertBox(r) \/ Movement(r)) /\ UNCHANGED payVars
  \/ ReadCharge(r) \/ WriteCharge(r) \/ CommitAll(r)
  \/ \E a \in Auths : RequestGateway(r, a)
  \/ CreateTrx(r) \/ CancelTrx(r) \/ MarkFailed(r) \/ LockTrx(r)
  \/ \E b \in Boxes \cup {None} : GatewayConfirms(r, b)
  \/ GatewayRefuses(r)

ArriveAny(r) ==
  \/ Arrive(r) /\ UNCHANGED payVars
  \/ \E c \in Charges \cup {None}, b \in Boxes, m \in Amounts : StartManual(r, c, b, m)
  \/ \E c \in Charges : \E m \in Amounts \cup {Due[c] - paid[c]} : StartInitiate(r, c, m)
  \/ \E a \in Auths, s \in {"OK", "NOK"} : StartVerify(r, a, s)

FailAny(r) == Fail(r) /\ UNCHANGED payVars

Next ==
  \E r \in Requests : ArriveAny(r) \/ Progress(r) \/ UserPays(r) \/ FailAny(r)

Spec == Init /\ [][Next]_vars

\* A handler that can take its next step takes it: the event loop runs every
\* resumable handler and PostgreSQL grants a free row lock.  Nothing is
\* assumed of clients, users, or failures.
FairSpec == Spec /\ \A r \in Requests : WF_vars(Progress(r))

-----------------------------------------------------------------------------
(* Properties *)

JobType ==
  [kind : AllKinds \cup {None}, charge : Charges \cup {None},
   box : Boxes \cup {None}, amount : Nat, auth : Auths \cup {None}]

TrxType ==
  [status : {"NONE", "PENDING", "SUCCESS", "FAILED", "CANCELED"},
   amount : Nat, charge : Charges \cup {None}, payment : Requests \cup {None}]

\* Every variable stays within the columns and labels the code uses.
TypeOK ==
  /\ pc \in [Requests -> Labels]
  /\ job \in [Requests -> JobType]
  /\ held \in [Requests -> SUBSET Rows]
  /\ docs \subseteq Requests
  /\ created \subseteq Boxes /\ isDefault \subseteq created
  /\ balance \in [Boxes -> Int]
  /\ ledger \in [Boxes -> Seq([ref : Requests, delta : Int, after : Int])]
  /\ sawBalance \in [Requests -> Int]
  /\ posted \in [Boxes -> Int]
  /\ overlapped \subseteq Rows
  /\ paid \in [Charges -> Nat]
  /\ status \in [Charges -> {"PENDING", "PARTIAL", "PAID"}]
  /\ trx \in [Auths -> TrxType]
  /\ gateway \in [Auths -> GatewayStates]
  /\ sawPaid \in [Requests -> Nat]
  /\ collected \in [Charges -> Nat]

\* A payment exists iff its document is committed.
Payments == {r \in docs : job[r].kind \in {"manual", "verify"}}

(***************************************************************************)
(* A charge never shows more as paid than was recorded for it: whatever    *)
(* the interleaving of applyToCharge calls, updates get lost, they are     *)
(* never counted twice.                                                    *)
(***************************************************************************)
PaidNeverExceedsCollected == \A c \in Charges : paid[c] <= collected[c]

(***************************************************************************)
(* A charge is exact as long as no transaction committed on it while       *)
(* another had read it: read-modify-write of paidAmount in applyToCharge   *)
(* loses an update only by overlap, never by a failure, a rollback or a    *)
(* sequence of requests.                                                   *)
(***************************************************************************)
ChargeExactUnlessOverlapped ==
  \A c \in Charges \ overlapped : paid[c] = collected[c]

(***************************************************************************)
(* The same of the balance of a cashbox and the movements posted on it by  *)
(* recordMovement.                                                         *)
(***************************************************************************)
BoxExactUnlessOverlapped ==
  \A b \in Boxes \ overlapped : balance[b] = Opening[b] + posted[b]

(***************************************************************************)
(* A transaction row and its payment agree: every online payment is        *)
(* reachable from its transaction row through some payment of the same     *)
(* charge and amount, and SUCCESS is only shown with a payment, across     *)
(* duplicate and late callbacks of verifyOnline.                           *)
(***************************************************************************)
TrxShowsItsPayment ==
  /\ \A r \in Payments : job[r].kind = "verify" => trx[job[r].auth].payment # None
  /\ \A a \in Auths :
       /\ trx[a].status = "SUCCESS" => trx[a].payment # None
       /\ trx[a].payment # None =>
            LET p == trx[a].payment IN
              /\ p \in Payments /\ job[p].auth = a
              /\ job[p].charge = trx[a].charge /\ job[p].amount = trx[a].amount

(***************************************************************************)
(* Books follow money: an online payment is recorded only for an authority *)
(* whose money the gateway has captured and confirmed, and money is only   *)
(* captured for an authority the database knows (initiateOnline answers    *)
(* the link after the row is created, so a crash in between loses nothing).*)
(***************************************************************************)
BooksFollowMoney ==
  /\ \A r \in Payments : job[r].kind = "verify" => gateway[job[r].auth] = "verified"
  /\ \A a \in Auths : gateway[a] \in {"captured", "verified"} => trx[a].status # "NONE"

\* One payment per transaction: a callback the gateway or the browser
\* repeats is answered "already verified" (payments.service.ts:158-160).
AtMostOnePaymentPerTrx ==
  \A r, o \in Payments :
    job[r].kind = "verify" /\ job[o].kind = "verify" /\ job[r].auth = job[o].auth => r = o

Rank(s) == CASE s = "PENDING" -> 0 [] s = "PARTIAL" -> 1 [] s = "PAID" -> 2

\* A charge goes PENDING -> PARTIAL -> PAID and never back (docs/database.md).
ChargeOnlyMovesForward ==
  [][\A c \in Charges : Rank(status'[c]) >= Rank(status[c])]_vars

\* SUCCESS is where a transaction ends: no later callback changes the row.
SuccessIsFinal ==
  [][\A a \in Auths : trx[a].status = "SUCCESS" => trx'[a] = trx[a]]_vars

(***************************************************************************)
(* Every request that starts is answered: transactions take the rows they  *)
(* lock in one order (gateway transaction, charge, cashbox), so none waits *)
(* for another in a circle, and every lock is released.                    *)
(***************************************************************************)
EveryRequestEnds == \A r \in Requests : pc[r] # "idle" ~> pc[r] \in Resting

\* The accounting tables, seen through the abstract ledger.
L == INSTANCE Ledger WITH Refs <- Requests, opened <- created, book <- ledger

\* Posting through recordMovement implements the abstract ledger.
ImplementsLedger == L!Spec

=============================================================================
