--------------------------- MODULE PaymentsProofs ---------------------------
(***************************************************************************)
(* Theorems about Payments and the figures computed from its tables, for   *)
(* every set of requests, charges, cashboxes, authorities and amounts,     *)
(* serial or not. First the payments, then the cashboxes, then figures.    *)
(***************************************************************************)
EXTENDS Figures, SumTheorems, TLAPS

USE AmountsAssumption, BoxesAssumption, KindsAssumption, RowsAssumption, DueAssumption

(***************************************************************************)
(* What a request works on fits the await it is suspended at.              *)
(***************************************************************************)
Fits(l, j) ==
  /\ l \in {"readBox", "writeBox", "insertBox", "insertDefault"} => j.box \in Boxes
  /\ l \in {"readCharge", "writeCharge", "request", "createTrx", "askGateway", "lockTrx"}
       => j.charge \in Charges
  /\ l \in {"createTrx", "cancel", "askGateway", "markFailed", "lockTrx"} => j.auth \in Auths
  /\ l \in {"insertBox", "insertDefault"} => j.kind = "cashbox"
  /\ l \in {"request", "createTrx"} => j.kind = "initiate"
  /\ l \in {"cancel", "askGateway", "markFailed", "lockTrx"} => j.kind = "verify"
  /\ l \in InTransaction => j.kind \in {"income", "expense", "manual", "verify"}
  /\ l = "done" /\ j.kind = "initiate" => j.auth \in Auths
  /\ j.kind = "verify" => j.auth \in Auths

JobsFit == \A r \in Requests : Fits(pc[r], job[r])

\* A transaction row that exists names a charge.
TrxNamesCharge == \A a \in Auths : trx[a].status # "NONE" => trx[a].charge \in Charges

\* A running callback handler works on a transaction row that exists.
KnowsTrx(l, j) == j.kind = "verify" /\ l \notin Resting => trx[j.auth].status # "NONE"

CallbacksKnowTrx == \A r \in Requests : KnowsTrx(pc[r], job[r])

\* No row of payment_transactions is ever deleted.
KeepsTrx == \A a \in Auths : trx[a].status # "NONE" => trx'[a].status # "NONE"

TypeInv == TypeOK /\ JobsFit /\ TrxNamesCharge /\ CallbacksKnowTrx

LEMMA InitTypeInv == Init => TypeInv
<1> SUFFICES ASSUME Init PROVE TypeInv
  OBVIOUS
<1> USE DEF Init, AccInit
<1>1. pc \in [Requests -> Labels]
  BY DEF Labels, Resting
<1>2. job \in [Requests -> JobType]
  BY DEF NoJob, JobType
<1>3. /\ held \in [Requests -> SUBSET Rows] /\ docs \subseteq Requests
      /\ created \subseteq Boxes /\ isDefault \subseteq created
      /\ balance \in [Boxes -> Int] /\ posted \in [Boxes -> Int]
      /\ overlapped \subseteq Rows
      /\ sawBalance \in [Requests -> Int] /\ sawPaid \in [Requests -> Nat]
  OBVIOUS
<1>4. ledger \in [Boxes -> Seq([ref : Requests, delta : Int, after : Int])]
  OBVIOUS
<1>5. trx \in [Auths -> TrxType]
  BY DEF NoTrx, TrxType
<1>6. /\ paid \in [Charges -> Nat] /\ collected \in [Charges -> Nat]
      /\ status \in [Charges -> {"PENDING", "PARTIAL", "PAID"}]
      /\ gateway \in [Auths -> GatewayStates]
  BY DEF GatewayStates
<1>7. JobsFit
  BY DEF JobsFit, Fits, NoJob, AllKinds, InTransaction
<1>8. TrxNamesCharge
  BY DEF TrxNamesCharge, NoTrx
<1>9. CallbacksKnowTrx
  BY DEF CallbacksKnowTrx, KnowsTrx, Resting
<1> QED
  BY <1>1, <1>2, <1>3, <1>4, <1>5, <1>6, <1>7, <1>8, <1>9 DEF TypeInv, TypeOK

(***************************************************************************)
(* A step moves one request to a label its job fits, and may change what   *)
(* the request works on.                                                   *)
(***************************************************************************)
LEMMA OneRequestMoves ==
  ASSUME TypeInv, NEW r \in Requests, NEW l \in Labels, NEW j \in JobType,
         Fits(l, j), KnowsTrx(l, j), KeepsTrx,
         pc' = [pc EXCEPT ![r] = l],
         job' = [job EXCEPT ![r] = j]
  PROVE  /\ pc' \in [Requests -> Labels]
         /\ job' \in [Requests -> JobType]
         /\ JobsFit' /\ CallbacksKnowTrx'
<1>1. pc' \in [Requests -> Labels] /\ job' \in [Requests -> JobType]
  BY DEF TypeInv, TypeOK
<1>2. ASSUME NEW o \in Requests
      PROVE  Fits(pc'[o], job'[o]) /\ KnowsTrx(pc'[o], job'[o])
  <2>1. CASE o = r
    <3>1. pc'[o] = l /\ job'[o] = j
      BY <2>1 DEF TypeInv, TypeOK
    <3> QED BY <3>1
  <2>2. CASE o # r
    <3>1. pc'[o] = pc[o] /\ job'[o] = job[o]
      BY <2>2 DEF TypeInv, TypeOK
    <3>2. Fits(pc[o], job[o]) /\ KnowsTrx(pc[o], job[o])
      BY DEF TypeInv, JobsFit, CallbacksKnowTrx
    <3> QED BY <3>1, <3>2
  <2> QED BY <2>1, <2>2
<1>3. JobsFit'
  BY <1>2 DEF JobsFit, Fits
<1>4. CallbacksKnowTrx'
  BY <1>2 DEF CallbacksKnowTrx, KnowsTrx, KeepsTrx, Fits
<1> QED BY <1>1, <1>3, <1>4

\* The same when a running request keeps its job.
LEMMA OneRequestSteps ==
  ASSUME TypeInv, NEW r \in Requests, NEW l \in Labels, pc[r] \notin Resting,
         Fits(l, job[r]), KeepsTrx,
         pc' = [pc EXCEPT ![r] = l], UNCHANGED job
  PROVE  /\ pc' \in [Requests -> Labels]
         /\ job' \in [Requests -> JobType]
         /\ JobsFit' /\ CallbacksKnowTrx'
<1>1. job[r] \in JobType /\ job' = [job EXCEPT ![r] = job[r]]
  BY DEF TypeInv, TypeOK
<1>2. KnowsTrx(l, job[r])
  BY DEF TypeInv, CallbacksKnowTrx, KnowsTrx
<1> QED BY <1>1, <1>2, OneRequestMoves

\* The labels, without the sets they are grouped in.
LEMMA LabelSet ==
  Labels = {"idle", "done", "failed", "lockTrx", "readCharge", "writeCharge", "readBox",
            "writeBox", "commit", "insertBox", "insertDefault", "request", "createTrx",
            "cancel", "askGateway", "markFailed"}
  BY DEF Labels, Resting, InTransaction

LEMMA StartRecordType ==
  ASSUME TypeInv, NEW r \in Requests, NEW b \in Boxes, NEW m \in Amounts,
         NEW k \in {"income", "expense"}, StartRecord(r, k, b, m), UNCHANGED payVars
  PROVE  TypeInv'
<1>keep. KeepsTrx
  BY DEF KeepsTrx, StartRecord, payVars
<1> DEFINE j == [NoJob EXCEPT !.kind = k, !.box = b, !.amount = m]
<1>1. j \in JobType
  BY DEF NoJob, JobType, AllKinds
<1>2. Fits("readBox", j) /\ KnowsTrx("readBox", j)
  BY DEF Fits, NoJob, InTransaction, KnowsTrx, Resting
<1>3. pc' = [pc EXCEPT ![r] = "readBox"] /\ job' = [job EXCEPT ![r] = j]
  BY DEF StartRecord
<1>4. /\ pc' \in [Requests -> Labels] /\ job' \in [Requests -> JobType]
      /\ JobsFit' /\ CallbacksKnowTrx'
  <2> HIDE DEF j
  <2> QED BY <1>keep, <1>1, <1>2, <1>3, OneRequestMoves, LabelSet
<1>5. UNCHANGED <<held, accTables, sawBalance, payVars>>
  BY DEF StartRecord
<1> QED BY <1>4, <1>5 DEF TypeInv, TypeOK, TrxNamesCharge, payVars, accTables

LEMMA CountBoxesType ==
  ASSUME TypeInv, NEW r \in Requests, NEW b \in Boxes, CountBoxes(r, b), UNCHANGED payVars
  PROVE  TypeInv'
<1>keep. KeepsTrx
  BY DEF KeepsTrx, CountBoxes, payVars
<1> DEFINE j == [NoJob EXCEPT !.kind = "cashbox", !.box = b]
           l == IF created = {} THEN "insertDefault" ELSE "insertBox"
<1>1. j \in JobType
  BY DEF NoJob, JobType, AllKinds
<1>2. Fits(l, j) /\ KnowsTrx(l, j)
  BY DEF Fits, NoJob, InTransaction, KnowsTrx, Resting
<1>3. pc' = [pc EXCEPT ![r] = l] /\ job' = [job EXCEPT ![r] = j] /\ l \in Labels
  BY LabelSet DEF CountBoxes
<1>4. /\ pc' \in [Requests -> Labels] /\ job' \in [Requests -> JobType]
      /\ JobsFit' /\ CallbacksKnowTrx'
  <2> HIDE DEF j, l
  <2> QED BY <1>keep, <1>1, <1>2, <1>3, OneRequestMoves
<1>5. UNCHANGED <<held, accTables, sawBalance, payVars>>
  BY DEF CountBoxes
<1> QED BY <1>4, <1>5 DEF TypeInv, TypeOK, TrxNamesCharge, payVars, accTables

LEMMA StartManualType ==
  ASSUME TypeInv, NEW r \in Requests, NEW c \in Charges \cup {None}, NEW b \in Boxes,
         NEW m \in Amounts, StartManual(r, c, b, m)
  PROVE  TypeInv'
<1>keep. KeepsTrx
  BY DEF KeepsTrx, StartManual, payVars
<1> DEFINE j == [kind |-> "manual", charge |-> c, box |-> b, amount |-> m, auth |-> None]
           l == IF c = None THEN "readBox" ELSE "readCharge"
<1>1. j \in JobType
  BY DEF JobType, AllKinds
<1>2. Fits(l, j) /\ KnowsTrx(l, j)
  BY DEF Fits, InTransaction, KnowsTrx, Resting
<1>3. pc' = [pc EXCEPT ![r] = l] /\ job' = [job EXCEPT ![r] = j] /\ l \in Labels
  BY LabelSet DEF StartManual
<1>4. /\ pc' \in [Requests -> Labels] /\ job' \in [Requests -> JobType]
      /\ JobsFit' /\ CallbacksKnowTrx'
  <2> HIDE DEF j, l
  <2> QED BY <1>keep, <1>1, <1>2, <1>3, OneRequestMoves
<1>5. UNCHANGED <<held, accTables, sawBalance, payVars>>
  BY DEF StartManual
<1> QED BY <1>4, <1>5 DEF TypeInv, TypeOK, TrxNamesCharge, payVars, accTables

LEMMA StartInitiateType ==
  ASSUME TypeInv, NEW r \in Requests, NEW c \in Charges,
         NEW m \in Amounts \cup {Due[c] - paid[c]}, StartInitiate(r, c, m)
  PROVE  TypeInv'
<1>keep. KeepsTrx
  BY DEF KeepsTrx, StartInitiate, payVars
<1> DEFINE j == [kind |-> "initiate", charge |-> c, box |-> None, amount |-> m, auth |-> None]
<1>0. m \in Nat
  BY DEF StartInitiate, TypeInv, TypeOK
<1>1. j \in JobType
  BY <1>0 DEF JobType, AllKinds
<1>2. Fits("request", j) /\ KnowsTrx("request", j)
  BY DEF Fits, InTransaction, KnowsTrx, Resting
<1>3. pc' = [pc EXCEPT ![r] = "request"] /\ job' = [job EXCEPT ![r] = j]
  BY DEF StartInitiate
<1>4. /\ pc' \in [Requests -> Labels] /\ job' \in [Requests -> JobType]
      /\ JobsFit' /\ CallbacksKnowTrx'
  <2> HIDE DEF j
  <2> QED BY <1>keep, <1>1, <1>2, <1>3, OneRequestMoves, LabelSet
<1>5. UNCHANGED <<held, accTables, sawBalance, payVars>>
  BY DEF StartInitiate
<1> QED BY <1>4, <1>5 DEF TypeInv, TypeOK, TrxNamesCharge, payVars, accTables

LEMMA StartVerifyType ==
  ASSUME TypeInv, NEW r \in Requests, NEW a \in Auths, NEW s \in {"OK", "NOK"},
         StartVerify(r, a, s)
  PROVE  TypeInv'
<1>keep. KeepsTrx
  BY DEF KeepsTrx, StartVerify, payVars
<1> DEFINE j == [kind |-> "verify", charge |-> trx[a].charge, box |-> None,
                 amount |-> trx[a].amount, auth |-> a]
           l == IF trx[a].status \in {"NONE", "SUCCESS"} THEN "done"
                ELSE IF s = "OK" THEN "askGateway" ELSE "cancel"
<1>1. j \in JobType
  BY DEF JobType, AllKinds, TypeInv, TypeOK, TrxType
<1>2. Fits(l, j) /\ KnowsTrx(l, j)
  BY DEF Fits, TypeInv, TrxNamesCharge, InTransaction, KnowsTrx, Resting
<1>3. pc' = [pc EXCEPT ![r] = l] /\ job' = [job EXCEPT ![r] = j] /\ l \in Labels
  BY LabelSet DEF StartVerify
<1>4. /\ pc' \in [Requests -> Labels] /\ job' \in [Requests -> JobType]
      /\ JobsFit' /\ CallbacksKnowTrx'
  <2> HIDE DEF j, l
  <2> QED BY <1>keep, <1>1, <1>2, <1>3, OneRequestMoves
<1>5. UNCHANGED <<held, accTables, sawBalance, payVars>>
  BY DEF StartVerify
<1> QED BY <1>4, <1>5 DEF TypeInv, TypeOK, TrxNamesCharge, payVars, accTables

LEMMA ArriveType ==
  ASSUME TypeInv, NEW r \in Requests, ArriveAny(r)
  PROVE  TypeInv'
  BY StartRecordType, CountBoxesType, StartManualType, StartInitiateType, StartVerifyType
     DEF ArriveAny, Arrive

LEMMA ReadBoxType ==
  ASSUME TypeInv, NEW r \in Requests, ReadBox(r), UNCHANGED payVars
  PROVE  TypeInv'
<1>keep. KeepsTrx
  BY DEF KeepsTrx, ReadBox, payVars
<1>1. Fits("writeBox", job[r])
  BY DEF ReadBox, TypeInv, JobsFit, Fits, InTransaction
<1>2. /\ pc' \in [Requests -> Labels] /\ job' \in [Requests -> JobType]
      /\ JobsFit' /\ CallbacksKnowTrx'
  BY <1>keep, <1>1, OneRequestSteps, LabelSet DEF ReadBox, Resting
<1>3. sawBalance' \in [Requests -> Int]
  BY DEF ReadBox, TypeInv, TypeOK, JobsFit, Fits, InTransaction
<1> QED BY <1>2, <1>3 DEF ReadBox, TypeInv, TypeOK, TrxNamesCharge, payVars, accTables

LEMMA WriteBoxType ==
  ASSUME TypeInv, NEW r \in Requests, WriteBox(r), UNCHANGED payVars
  PROVE  TypeInv'
<1>keep. KeepsTrx
  BY DEF KeepsTrx, WriteBox, payVars
<1>1. Fits("commit", job[r]) /\ job[r].box \in Boxes
  BY DEF WriteBox, TypeInv, JobsFit, Fits, InTransaction
<1>2. /\ pc' \in [Requests -> Labels] /\ job' \in [Requests -> JobType]
      /\ JobsFit' /\ CallbacksKnowTrx'
  BY <1>keep, <1>1, OneRequestSteps, LabelSet DEF WriteBox, Resting
<1>3. held' \in [Requests -> SUBSET Rows]
  BY <1>1 DEF WriteBox, TypeInv, TypeOK, Rows
<1> QED BY <1>2, <1>3 DEF WriteBox, TypeInv, TypeOK, TrxNamesCharge, payVars, accTables

LEMMA InsertBoxType ==
  ASSUME TypeInv, NEW r \in Requests, InsertBox(r), UNCHANGED payVars
  PROVE  TypeInv'
<1>keep. KeepsTrx
  BY DEF KeepsTrx, InsertBox, payVars
<1>1. Fits("done", job[r]) /\ job[r].box \in Boxes
  BY DEF InsertBox, TypeInv, JobsFit, Fits, InTransaction
<1>2. /\ pc' \in [Requests -> Labels] /\ job' \in [Requests -> JobType]
      /\ JobsFit' /\ CallbacksKnowTrx'
  BY <1>keep, <1>1, OneRequestSteps, LabelSet DEF InsertBox, Resting
<1>3. created' \subseteq Boxes /\ isDefault' \subseteq created' /\ balance' \in [Boxes -> Int]
  BY <1>1 DEF InsertBox, TypeInv, TypeOK
<1> QED BY <1>2, <1>3 DEF InsertBox, TypeInv, TypeOK, TrxNamesCharge, payVars

LEMMA FailType ==
  ASSUME TypeInv, NEW r \in Requests, Fail(r), UNCHANGED payVars
  PROVE  TypeInv'
<1>keep. KeepsTrx
  BY DEF KeepsTrx, Fail, payVars
<1>1. Fits("failed", job[r])
  BY DEF TypeInv, JobsFit, Fits, InTransaction
<1>2. /\ pc' \in [Requests -> Labels] /\ job' \in [Requests -> JobType]
      /\ JobsFit' /\ CallbacksKnowTrx'
  BY <1>keep, <1>1, OneRequestSteps, LabelSet DEF Fail, Resting
<1>3. held' \in [Requests -> SUBSET Rows]
  BY DEF Fail, TypeInv, TypeOK
<1> QED BY <1>2, <1>3 DEF Fail, TypeInv, TypeOK, TrxNamesCharge, payVars, accTables

LEMMA ReadChargeType ==
  ASSUME TypeInv, NEW r \in Requests, ReadCharge(r)
  PROVE  TypeInv'
<1>keep. KeepsTrx
  BY DEF KeepsTrx, ReadCharge, payVars
<1>1. Fits("writeCharge", job[r])
  BY DEF ReadCharge, TypeInv, JobsFit, Fits, InTransaction
<1>2. /\ pc' \in [Requests -> Labels] /\ job' \in [Requests -> JobType]
      /\ JobsFit' /\ CallbacksKnowTrx'
  BY <1>keep, <1>1, OneRequestSteps, LabelSet DEF ReadCharge, Resting
<1>3. sawPaid' \in [Requests -> Nat]
  BY DEF ReadCharge, TypeInv, TypeOK, JobsFit, Fits, InTransaction
<1> QED BY <1>2, <1>3 DEF ReadCharge, TypeInv, TypeOK, TrxNamesCharge, accTables

LEMMA WriteChargeType ==
  ASSUME TypeInv, NEW r \in Requests, WriteCharge(r)
  PROVE  TypeInv'
<1>keep. KeepsTrx
  BY DEF KeepsTrx, WriteCharge, payVars
<1> DEFINE l == IF job[r].box = None THEN "commit" ELSE "readBox"
<1>1. Fits(l, job[r]) /\ job[r].charge \in Charges
  BY DEF WriteCharge, TypeInv, TypeOK, JobType, JobsFit, Fits, InTransaction
<1>2. /\ pc' \in [Requests -> Labels] /\ job' \in [Requests -> JobType]
      /\ JobsFit' /\ CallbacksKnowTrx'
  <2>1. /\ pc' = [pc EXCEPT ![r] = l] /\ l \in Labels /\ UNCHANGED job
        /\ pc[r] \notin Resting
    BY LabelSet DEF WriteCharge, Resting
  <2> HIDE DEF l
  <2> QED BY <1>keep, <1>1, <2>1, OneRequestSteps
<1>3. held' \in [Requests -> SUBSET Rows]
  BY <1>1 DEF WriteCharge, TypeInv, TypeOK, Rows
<1> QED BY <1>2, <1>3 DEF WriteCharge, TypeInv, TypeOK, TrxNamesCharge, payVars, accTables

LEMMA CommitType ==
  ASSUME TypeInv, NEW r \in Requests, CommitAll(r)
  PROVE  TypeInv'
<1>1. /\ Fits("commit", job[r]) /\ Fits("done", job[r]) /\ job[r] \in JobType
  BY DEF CommitAll, Commit, TypeInv, TypeOK, JobsFit, Fits, InTransaction
<1>keep. /\ trx' \in [Auths -> TrxType] /\ TrxNamesCharge' /\ KeepsTrx
  <2>1. CASE job[r].kind = "verify"
    <3> DEFINE a == job[r].auth
               row == [trx[a] EXCEPT !.status = "SUCCESS", !.payment = r]
    <3>1. a \in Auths /\ trx[a].status # "NONE" /\ trx[a] \in TrxType
      BY <1>1, <2>1 DEF CommitAll, Commit, Fits, KnowsTrx, Resting, CallbacksKnowTrx, TypeInv, TypeOK
    <3>2. row \in TrxType /\ row.charge = trx[a].charge /\ row.status # "NONE"
      BY <3>1 DEF TrxType
    <3>3. trx' = [trx EXCEPT ![a] = row]
      BY <2>1 DEF CommitAll, ConfirmTrx
    <3> HIDE DEF row
    <3> QED BY <3>1, <3>2, <3>3 DEF TypeInv, TypeOK, TrxNamesCharge, KeepsTrx
  <2>2. CASE job[r].kind # "verify"
    BY <2>2 DEF CommitAll, ConfirmTrx, TypeInv, TypeOK, TrxNamesCharge, KeepsTrx
  <2> QED BY <2>1, <2>2
<1>2. /\ pc' \in [Requests -> Labels] /\ job' \in [Requests -> JobType]
      /\ JobsFit' /\ CallbacksKnowTrx'
  BY <1>keep, <1>1, OneRequestSteps, LabelSet DEF CommitAll, Commit, Resting
<1>3. /\ held' \in [Requests -> SUBSET Rows] /\ docs' \subseteq Requests
      /\ overlapped' \subseteq Rows
  BY <1>1 DEF CommitAll, Commit, JobType, Rows, TypeInv, TypeOK
<1>4. Delta(job[r]) \in Int /\ BalanceAfter(r) \in Int
  BY <1>1 DEF Delta, BalanceAfter, JobType, TypeInv, TypeOK
<1>5. balance' \in [Boxes -> Int] /\ posted' \in [Boxes -> Int]
  BY <1>1, <1>4, SMTT(30) DEF CommitAll, Commit, PostMovement, JobType, TypeInv, TypeOK
<1>6. ledger' \in [Boxes -> Seq([ref : Requests, delta : Int, after : Int])]
  <2> DEFINE b == job[r].box
             e == [ref |-> r, delta |-> Delta(job[r]), after |-> BalanceAfter(r)]
  <2>1. CASE b = None
    BY <2>1 DEF CommitAll, Commit, PostMovement, TypeInv, TypeOK
  <2>2. CASE b # None
    <3>1. e \in [ref : Requests, delta : Int, after : Int] /\ b \in Boxes
      BY <1>1, <1>4, <2>2 DEF JobType
    <3>2. ledger' = [ledger EXCEPT ![b] = Append(ledger[b], e)]
      BY <2>2 DEF CommitAll, Commit, PostMovement
    <3> HIDE DEF b, e
    <3> DEFINE E == [ref : Requests, delta : Int, after : Int]
    <3>3. ledger \in [Boxes -> Seq(E)]
      BY DEF TypeInv, TypeOK
    <3> HIDE DEF E
    <3>4. e \in E
      BY <3>1 DEF E
    <3>5. Append(ledger[b], e) \in Seq(E)
      BY <3>1, <3>3, <3>4
    <3>6. ledger' \in [Boxes -> Seq(E)]
      BY <3>1, <3>2, <3>3, <3>5
    <3> QED BY <3>6 DEF E
  <2> QED BY <2>1, <2>2
<1>7. /\ paid' \in [Charges -> Nat] /\ collected' \in [Charges -> Nat]
      /\ status' \in [Charges -> {"PENDING", "PARTIAL", "PAID"}]
  <2> DEFINE c == job[r].charge
             p == sawPaid[r] + job[r].amount
  <2>1. CASE c = None
    BY <2>1 DEF CommitAll, ApplyToCharge, TypeInv, TypeOK
  <2>2. CASE c # None
    <3>1. c \in Charges /\ p \in Nat /\ job[r].amount \in Nat
      BY <1>1, <2>2 DEF JobType, TypeInv, TypeOK
    <3>2. ChargeStatus(p, Due[c]) \in {"PENDING", "PARTIAL", "PAID"}
      BY DEF ChargeStatus
    <3>3. /\ paid' = [paid EXCEPT ![c] = p]
          /\ status' = [status EXCEPT ![c] = ChargeStatus(p, Due[c])]
          /\ collected' = [collected EXCEPT ![c] = collected[c] + job[r].amount]
      BY <2>2 DEF CommitAll, ApplyToCharge
    <3> HIDE DEF c, p
    <3> QED BY <3>1, <3>2, <3>3 DEF TypeInv, TypeOK
  <2> QED BY <2>1, <2>2
<1> QED
  BY <1>2, <1>3, <1>5, <1>6, <1>7, <1>keep DEF CommitAll, Commit, TypeInv, TypeOK

LEMMA RequestGatewayType ==
  ASSUME TypeInv, NEW r \in Requests, NEW a \in Auths, RequestGateway(r, a)
  PROVE  TypeInv'
<1>keep. KeepsTrx
  BY DEF KeepsTrx, RequestGateway, payVars
<1> DEFINE j == [job[r] EXCEPT !.auth = a]
<1>0. job[r] \in JobType /\ Fits("request", job[r])
  BY DEF RequestGateway, TypeInv, TypeOK, JobsFit
<1>1. j \in JobType /\ Fits("createTrx", j) /\ KnowsTrx("createTrx", j)
  BY <1>0 DEF JobType, Fits, InTransaction, KnowsTrx
<1>2. /\ pc' \in [Requests -> Labels] /\ job' \in [Requests -> JobType]
      /\ JobsFit' /\ CallbacksKnowTrx'
  <2>1. pc' = [pc EXCEPT ![r] = "createTrx"] /\ job' = [job EXCEPT ![r] = j]
    BY DEF RequestGateway
  <2> HIDE DEF j
  <2> QED BY <1>keep, <1>1, <2>1, OneRequestMoves, LabelSet
<1>3. gateway' \in [Auths -> GatewayStates]
  BY DEF RequestGateway, TypeInv, TypeOK, GatewayStates
<1> QED BY <1>2, <1>3 DEF RequestGateway, TypeInv, TypeOK, TrxNamesCharge, accTables

LEMMA CreateTrxType ==
  ASSUME TypeInv, NEW r \in Requests, CreateTrx(r)
  PROVE  TypeInv'
<1>1. Fits("done", job[r]) /\ job[r].auth \in Auths /\ job[r].charge \in Charges
  BY DEF CreateTrx, TypeInv, JobsFit, Fits, InTransaction
<1>keep. trx' \in [Auths -> TrxType] /\ TrxNamesCharge' /\ KeepsTrx
  BY <1>1 DEF CreateTrx, TypeInv, TypeOK, TrxType, JobType, TrxNamesCharge, KeepsTrx
<1>2. /\ pc' \in [Requests -> Labels] /\ job' \in [Requests -> JobType]
      /\ JobsFit' /\ CallbacksKnowTrx'
  BY <1>keep, <1>1, OneRequestSteps, LabelSet DEF CreateTrx, Resting
<1> QED BY <1>2, <1>keep DEF CreateTrx, TypeInv, TypeOK, accTables

LEMMA SetTrxStatusType ==
  ASSUME TypeInv, NEW r \in Requests,
         NEW from \in {"cancel", "markFailed"}, NEW s \in {"CANCELED", "FAILED"},
         SetTrxStatus(r, from, s)
  PROVE  TypeInv'
<1> DEFINE a == job[r].auth
           row == [trx[a] EXCEPT !.status = s]
<1>1. /\ Fits("done", job[r]) /\ a \in Auths /\ trx[a] \in TrxType
      /\ trx[a].status # "NONE" /\ pc[r] \notin Resting
  BY DEF SetTrxStatus, TypeInv, TypeOK, JobsFit, Fits, InTransaction, CallbacksKnowTrx,
         KnowsTrx, Resting
<1>2. row \in TrxType /\ row.status # "NONE" /\ row.charge = trx[a].charge
  BY <1>1 DEF TrxType
<1>keep. trx' \in [Auths -> TrxType] /\ TrxNamesCharge' /\ KeepsTrx
  <2>1. trx' = [trx EXCEPT ![a] = row]
    BY DEF SetTrxStatus
  <2> HIDE DEF row, a
  <2> QED BY <1>1, <1>2, <2>1 DEF TypeInv, TypeOK, TrxNamesCharge, KeepsTrx
<1>3. /\ pc' \in [Requests -> Labels] /\ job' \in [Requests -> JobType]
      /\ JobsFit' /\ CallbacksKnowTrx'
  BY <1>keep, <1>1, OneRequestSteps, LabelSet DEF SetTrxStatus
<1> QED BY <1>3, <1>keep DEF SetTrxStatus, TypeInv, TypeOK, accTables

LEMMA GatewayConfirmsType ==
  ASSUME TypeInv, NEW r \in Requests, NEW b \in Boxes \cup {None}, GatewayConfirms(r, b)
  PROVE  TypeInv'
<1>keep. KeepsTrx
  BY DEF KeepsTrx, GatewayConfirms, payVars
<1> DEFINE j == [job[r] EXCEPT !.box = b]
<1>0. /\ job[r] \in JobType /\ Fits("askGateway", job[r])
      /\ KnowsTrx("askGateway", job[r])
  BY DEF GatewayConfirms, TypeInv, TypeOK, JobsFit, CallbacksKnowTrx
<1>1. j \in JobType /\ Fits("lockTrx", j) /\ KnowsTrx("lockTrx", j)
  BY <1>0 DEF JobType, Fits, InTransaction, KnowsTrx, Resting
<1>2. /\ pc' \in [Requests -> Labels] /\ job' \in [Requests -> JobType]
      /\ JobsFit' /\ CallbacksKnowTrx'
  <2>1. pc' = [pc EXCEPT ![r] = "lockTrx"] /\ job' = [job EXCEPT ![r] = j]
    BY DEF GatewayConfirms
  <2> HIDE DEF j
  <2> QED BY <1>keep, <1>1, <2>1, OneRequestMoves, LabelSet
<1>3. gateway' \in [Auths -> GatewayStates]
  BY DEF GatewayConfirms, TypeInv, TypeOK, GatewayStates
<1> QED BY <1>2, <1>3 DEF GatewayConfirms, TypeInv, TypeOK, TrxNamesCharge, accTables

LEMMA GatewayRefusesType ==
  ASSUME TypeInv, NEW r \in Requests, GatewayRefuses(r)
  PROVE  TypeInv'
<1>keep. KeepsTrx
  BY DEF KeepsTrx, GatewayRefuses, payVars
<1>1. Fits("markFailed", job[r])
  BY DEF GatewayRefuses, TypeInv, JobsFit, Fits, InTransaction
<1>2. /\ pc' \in [Requests -> Labels] /\ job' \in [Requests -> JobType]
      /\ JobsFit' /\ CallbacksKnowTrx'
  BY <1>keep, <1>1, OneRequestSteps, LabelSet DEF GatewayRefuses, Resting
<1> QED BY <1>2 DEF GatewayRefuses, TypeInv, TypeOK, TrxNamesCharge, payVars, accTables

LEMMA LockTrxType ==
  ASSUME TypeInv, NEW r \in Requests, LockTrx(r)
  PROVE  TypeInv'
<1>keep. KeepsTrx
  BY DEF KeepsTrx, LockTrx, payVars
<1>1. Fits("readCharge", job[r]) /\ job[r].auth \in Auths
  BY DEF LockTrx, TypeInv, JobsFit, Fits, InTransaction
<1>2. /\ pc' \in [Requests -> Labels] /\ job' \in [Requests -> JobType]
      /\ JobsFit' /\ CallbacksKnowTrx'
  BY <1>keep, <1>1, OneRequestSteps, LabelSet DEF LockTrx, Resting
<1>3. held' \in [Requests -> SUBSET Rows]
  BY <1>1 DEF LockTrx, TypeInv, TypeOK, Rows
<1> QED BY <1>2, <1>3 DEF LockTrx, TypeInv, TypeOK, TrxNamesCharge, payVars, accTables

LEMMA UserPaysType ==
  ASSUME TypeInv, NEW r \in Requests, UserPays(r)
  PROVE  TypeInv'
<1>1. gateway' \in [Auths -> GatewayStates]
  BY DEF UserPays, TypeInv, TypeOK, GatewayStates
<1> QED BY <1>1 DEF UserPays, TypeInv, TypeOK, JobsFit, TrxNamesCharge,
                    CallbacksKnowTrx, KnowsTrx, Fits, accVars

LEMMA TypeInvInductive == TypeInv /\ [Next]_vars => TypeInv'
<1>1. ASSUME TypeInv, UNCHANGED vars PROVE TypeInv'
  BY <1>1 DEF vars, TypeInv, TypeOK, JobsFit, Fits, TrxNamesCharge, CallbacksKnowTrx, KnowsTrx
<1>2. ASSUME TypeInv, NEW r \in Requests, Progress(r) PROVE TypeInv'
  <2> USE <1>2
  <2>1. CASE CancelTrx(r)
    BY <2>1, SetTrxStatusType DEF CancelTrx
  <2>2. CASE MarkFailed(r)
    BY <2>2, SetTrxStatusType DEF MarkFailed
  <2> QED
    BY <2>1, <2>2, ReadBoxType, WriteBoxType, InsertBoxType, ReadChargeType, WriteChargeType,
       CommitType, RequestGatewayType, CreateTrxType, LockTrxType, GatewayConfirmsType,
       GatewayRefusesType
       DEF Progress, Movement
<1> QED BY <1>1, <1>2, ArriveType, UserPaysType, FailType DEF Next, FailAny

(***************************************************************************)
(* Every request keeps to the columns and labels of the code.              *)
(***************************************************************************)
THEOREM TypeCorrect == Spec => []TypeOK
<1>1. TypeInv => TypeOK
  BY DEF TypeInv
<1> QED BY <1>1, InitTypeInv, TypeInvInductive, PTL DEF Spec

-----------------------------------------------------------------------------
(***************************************************************************)
(* The read-modify-write of a charge.  What a transaction has read never   *)
(* exceeds what is collected, and is still what the charge shows as long   *)
(* as no commit has overlapped: this is what makes the two properties of   *)
(* paidAmount inductive.                                                   *)
(***************************************************************************)
ReadsBounded(c) ==
  /\ paid[c] <= collected[c]
  /\ \A o \in Requests : HasReadCharge(o, c) => sawPaid[o] <= collected[c]

ReadsCurrent(c) ==
  c \notin overlapped =>
    /\ paid[c] = collected[c]
    /\ \A o \in Requests : HasReadCharge(o, c) => sawPaid[o] = paid[c]

ChargeInv == \A c \in Charges : ReadsBounded(c) /\ ReadsCurrent(c)

LEMMA InitChargeInv == Init => ChargeInv
  BY DEF Init, AccInit, ChargeInv, ReadsBounded, ReadsCurrent, HasReadCharge

\* Steps that touch neither charges nor what was read of them.
LEMMA ChargeFrame ==
  ASSUME ChargeInv, UNCHANGED <<paid, collected, sawPaid, overlapped>>,
         \A o \in Requests, c \in Charges : HasReadCharge(o, c)' => HasReadCharge(o, c)
  PROVE  ChargeInv'
<1>1. ASSUME NEW c \in Charges PROVE ReadsBounded(c)' /\ ReadsCurrent(c)'
  <2>1. ReadsBounded(c) /\ ReadsCurrent(c)
    BY DEF ChargeInv
  <2>2. \A o \in Requests : HasReadCharge(o, c)' => HasReadCharge(o, c)
    OBVIOUS
  <2> QED BY <2>1, <2>2 DEF ReadsBounded, ReadsCurrent
<1> QED BY <1>1 DEF ChargeInv

LEMMA ReadChargeKeepsChargeInv ==
  ASSUME TypeInv, ChargeInv, NEW r \in Requests, ReadCharge(r)
  PROVE  ChargeInv'
<1>1. ASSUME NEW c \in Charges PROVE ReadsBounded(c)' /\ ReadsCurrent(c)'
  <2>1. ReadsBounded(c) /\ ReadsCurrent(c)
    BY DEF ChargeInv
  <2>2. UNCHANGED <<paid, collected, overlapped>>
    BY DEF ReadCharge, accTables
  <2>3. ASSUME NEW o \in Requests, HasReadCharge(o, c)'
        PROVE  \/ o # r /\ HasReadCharge(o, c) /\ sawPaid'[o] = sawPaid[o]
               \/ o = r /\ sawPaid'[o] = paid[c]
    BY <2>3 DEF ReadCharge, HasReadCharge, TypeInv, TypeOK
  <2> QED BY <2>1, <2>2, <2>3 DEF ReadsBounded, ReadsCurrent
<1> QED BY <1>1 DEF ChargeInv

LEMMA CommitKeepsChargeInv ==
  ASSUME TypeInv, ChargeInv, NEW r \in Requests, CommitAll(r)
  PROVE  ChargeInv'
<1>1. ASSUME NEW c \in Charges PROVE ReadsBounded(c)' /\ ReadsCurrent(c)'
  <2>1. ReadsBounded(c) /\ ReadsCurrent(c)
    BY DEF ChargeInv
  <2>2. UNCHANGED <<job, sawPaid>> /\ pc[r] = "commit" /\ pc' = [pc EXCEPT ![r] = "done"]
    BY DEF CommitAll, Commit
  <2>3. \A o \in Requests : HasReadCharge(o, c)' => o # r /\ HasReadCharge(o, c)
    BY <2>2 DEF HasReadCharge, TypeInv, TypeOK
  <2>4. /\ paid[c] \in Nat /\ collected[c] \in Nat /\ job[r].amount \in Nat
        /\ \A o \in Requests : sawPaid[o] \in Nat
    BY DEF TypeInv, TypeOK, JobType
  <2>5. CASE job[r].charge = c
    <3>1. c # None
      OBVIOUS
    <3>2. /\ paid'[c] = sawPaid[r] + job[r].amount
          /\ collected'[c] = collected[c] + job[r].amount
      BY <2>5, <3>1 DEF CommitAll, ApplyToCharge, TypeInv, TypeOK
    <3>3. HasReadCharge(r, c)
      BY <2>2, <2>5 DEF HasReadCharge
    <3>4. c \notin overlapped' =>
            c \notin overlapped /\ \A o \in Requests \ {r} : ~HasReadCharge(o, c)
      BY <2>5, <3>1 DEF CommitAll, Commit, HasRead
    <3>5. ReadsBounded(c)'
      BY <2>1, <2>2, <2>3, <2>4, <3>2, <3>3 DEF ReadsBounded
    <3>6. ReadsCurrent(c)'
      BY <2>1, <2>2, <2>3, <2>4, <3>2, <3>3, <3>4 DEF ReadsCurrent
    <3> QED BY <3>5, <3>6
  <2>6. CASE job[r].charge # c
    <3>1. paid'[c] = paid[c] /\ collected'[c] = collected[c]
      BY <2>6 DEF CommitAll, ApplyToCharge, TypeInv, TypeOK
    <3>2. c \notin overlapped' => c \notin overlapped
      BY DEF CommitAll, Commit
    <3> QED BY <2>1, <2>2, <2>3, <3>1, <3>2 DEF ReadsBounded, ReadsCurrent
  <2> QED BY <2>5, <2>6
<1> QED BY <1>1 DEF ChargeInv

LEMMA ChargeInvInductive == TypeInv /\ ChargeInv /\ [Next]_vars => ChargeInv'
<1> SUFFICES ASSUME TypeInv, ChargeInv, [Next]_vars PROVE ChargeInv'
  OBVIOUS
<1> USE DEF HasReadCharge, TypeInv, TypeOK, payVars, accTables
<1>1. CASE UNCHANGED vars
  BY <1>1, ChargeFrame DEF vars
<1>2. ASSUME NEW r \in Requests, ArriveAny(r) PROVE ChargeInv'
  <2>1. ASSUME NEW b \in Boxes, NEW m \in Amounts, NEW k \in {"income", "expense"},
               StartRecord(r, k, b, m), UNCHANGED payVars
        PROVE  ChargeInv'
    BY <2>1, ChargeFrame DEF StartRecord, NoJob
  <2>2. ASSUME NEW b \in Boxes, CountBoxes(r, b), UNCHANGED payVars PROVE ChargeInv'
    BY <2>2, ChargeFrame DEF CountBoxes
  <2>3. ASSUME NEW c \in Charges \cup {None}, NEW b \in Boxes, NEW m \in Amounts,
               StartManual(r, c, b, m)
        PROVE  ChargeInv'
    BY <2>3, ChargeFrame DEF StartManual
  <2>4. ASSUME NEW c \in Charges, NEW m \in Amounts \cup {Due[c] - paid[c]},
               StartInitiate(r, c, m)
        PROVE  ChargeInv'
    BY <2>4, ChargeFrame DEF StartInitiate
  <2>5. ASSUME NEW a \in Auths, NEW s \in {"OK", "NOK"}, StartVerify(r, a, s)
        PROVE  ChargeInv'
    BY <2>5, ChargeFrame DEF StartVerify
  <2> HIDE DEF HasReadCharge, TypeInv, TypeOK
  <2> QED BY <1>2, <2>1, <2>2, <2>3, <2>4, <2>5 DEF ArriveAny, Arrive
<1>3. ASSUME NEW r \in Requests, Progress(r) PROVE ChargeInv'
  <2>1. CASE InsertBox(r) /\ UNCHANGED payVars
    BY <2>1, ChargeFrame DEF InsertBox
  <2>2. CASE ReadBox(r) /\ UNCHANGED payVars
    BY <2>2, ChargeFrame DEF ReadBox
  <2>3. CASE WriteBox(r) /\ UNCHANGED payVars
    BY <2>3, ChargeFrame DEF WriteBox
  <2>4. CASE ReadCharge(r)
    BY <2>4, ReadChargeKeepsChargeInv
  <2>5. CASE WriteCharge(r)
    BY <2>5, ChargeFrame DEF WriteCharge
  <2>6. CASE CommitAll(r)
    BY <2>6, CommitKeepsChargeInv
  <2>7. ASSUME NEW a \in Auths, RequestGateway(r, a) PROVE ChargeInv'
    BY <2>7, ChargeFrame DEF RequestGateway
  <2>8. CASE CreateTrx(r)
    BY <2>8, ChargeFrame DEF CreateTrx
  <2>9. CASE CancelTrx(r) \/ MarkFailed(r)
    BY <2>9, ChargeFrame DEF CancelTrx, MarkFailed, SetTrxStatus
  <2>10. CASE LockTrx(r)
    BY <2>10, ChargeFrame DEF LockTrx
  <2>11. ASSUME NEW b \in Boxes \cup {None}, GatewayConfirms(r, b) PROVE ChargeInv'
    BY <2>11, ChargeFrame DEF GatewayConfirms
  <2>12. CASE GatewayRefuses(r)
    BY <2>12, ChargeFrame DEF GatewayRefuses
  <2> HIDE DEF HasReadCharge, TypeInv, TypeOK
  <2> QED BY <1>3, <2>1, <2>2, <2>3, <2>4, <2>5, <2>6, <2>7, <2>8, <2>9, <2>10, <2>11, <2>12
          DEF Progress, Movement
<1>4. ASSUME NEW r \in Requests, UserPays(r) PROVE ChargeInv'
  BY <1>4, ChargeFrame DEF UserPays, accVars
<1>5. ASSUME NEW r \in Requests, Fail(r), UNCHANGED payVars PROVE ChargeInv'
  BY <1>5, ChargeFrame DEF Fail
<1> HIDE DEF HasReadCharge, TypeInv, TypeOK
<1> QED BY <1>1, <1>2, <1>3, <1>4, <1>5 DEF Next, FailAny

(***************************************************************************)
(* No interleaving of applyToCharge makes a charge show more than was      *)
(* recorded for it.                                                        *)
(***************************************************************************)
THEOREM PaidBounded == Spec => []PaidNeverExceedsCollected
<1>1. ChargeInv => PaidNeverExceedsCollected
  BY DEF ChargeInv, ReadsBounded, PaidNeverExceedsCollected
<1>2. Init => ChargeInv
  BY InitChargeInv
<1> QED
  BY <1>1, <1>2, InitTypeInv, TypeInvInductive, ChargeInvInductive, PTL DEF Spec

(***************************************************************************)
(* Only overlapping transactions make a charge lose a payment.             *)
(***************************************************************************)
THEOREM ChargeExact == Spec => []ChargeExactUnlessOverlapped
<1>1. ChargeInv => ChargeExactUnlessOverlapped
  BY DEF ChargeInv, ReadsCurrent, ChargeExactUnlessOverlapped
<1> QED
  BY <1>1, InitChargeInv, InitTypeInv, TypeInvInductive, ChargeInvInductive, PTL DEF Spec

-----------------------------------------------------------------------------
(***************************************************************************)
(* The link of a payment to its transaction row and to the gateway.  What  *)
(* a callback has read of its row at the lookup is still true when it      *)
(* commits, although nothing locks the row in between: a row that exists   *)
(* never changes its charge or amount, and no second initiateOnline        *)
(* writes it, because the gateway gives an authority out once.             *)
(***************************************************************************)
DocsAreDone == \A r \in docs : pc[r] = "done"

\* What request o may rely on at label l with job j.
Linked(o, l, j) ==
  /\ j.kind = "verify" /\ (l \notin Resting \/ o \in docs) =>
       /\ trx[j.auth].status # "NONE"
       /\ j.charge = trx[j.auth].charge /\ j.amount = trx[j.auth].amount
  /\ j.kind = "verify" /\ (l \in InTransaction \/ o \in docs) => gateway[j.auth] = "verified"
  /\ j.kind = "verify" /\ o \in docs => trx[j.auth].payment # None
  /\ l = "createTrx" => gateway[j.auth] = "issued" /\ trx[j.auth].status = "NONE"
  /\ l = "done" /\ j.kind = "initiate" => trx[j.auth].status # "NONE"
  /\ j.kind = "initiate" /\ j.auth # None => gateway[j.auth] # "unknown"
  /\ l = "request" => j.auth = None

RequestsLinked == \A r \in Requests : Linked(r, pc[r], job[r])

AuthorityGivenOnce ==
  \A r, o \in Requests :
    job[r].kind = "initiate" /\ job[o].kind = "initiate" /\ job[r].auth = job[o].auth =>
      r = o \/ job[r].auth = None

RowLinked(a) ==
  /\ trx[a].status \in {"NONE", "SUCCESS"} => (trx[a].payment = None <=> trx[a].status = "NONE")
  /\ gateway[a] = "unknown" => trx[a].status = "NONE"
  /\ gateway[a] \in {"captured", "verified"} => trx[a].status # "NONE"
  /\ trx[a].payment # None =>
       LET p == trx[a].payment IN
         /\ p \in docs /\ job[p].kind = "verify" /\ job[p].auth = a
         /\ job[p].charge = trx[a].charge /\ job[p].amount = trx[a].amount

RowsLinked == \A a \in Auths : RowLinked(a)

LinkInv == DocsAreDone /\ RequestsLinked /\ AuthorityGivenOnce /\ RowsLinked

LEMMA InitLinkInv == Init => LinkInv
<1> SUFFICES ASSUME Init PROVE LinkInv
  OBVIOUS
<1> USE DEF Init, AccInit
<1>1. DocsAreDone
  BY DEF DocsAreDone
<1>2. RequestsLinked
  BY DEF RequestsLinked, Linked, NoJob, AllKinds
<1>3. AuthorityGivenOnce
  BY DEF AuthorityGivenOnce, NoJob, AllKinds
<1>4. RowsLinked
  BY DEF RowsLinked, RowLinked, NoTrx
<1> QED BY <1>1, <1>2, <1>3, <1>4 DEF LinkInv

(***************************************************************************)
(* A request takes a step that writes neither documents nor transactions   *)
(* and is given no authority: the others see nothing of it.                *)
(***************************************************************************)
LEMMA LinkMoves ==
  ASSUME TypeInv, LinkInv, NEW r \in Requests, NEW l, NEW j, pc[r] # "done",
         pc' = [pc EXCEPT ![r] = l], job' = [job EXCEPT ![r] = j],
         UNCHANGED <<docs, trx, gateway>>, Linked(r, l, j),
         j.kind = "initiate" /\ j.auth # None => job[r].kind = "initiate" /\ job[r].auth = j.auth
  PROVE  LinkInv'
<1>1. /\ pc'[r] = l /\ job'[r] = j /\ r \notin docs
      /\ \A o \in Requests \ {r} : pc'[o] = pc[o] /\ job'[o] = job[o]
  BY DEF TypeInv, TypeOK, LinkInv, DocsAreDone
<1>2. DocsAreDone'
  BY <1>1 DEF LinkInv, DocsAreDone, TypeInv, TypeOK
<1>3. RequestsLinked'
  <2>1. ASSUME NEW o \in Requests PROVE Linked(o, pc'[o], job'[o])
    BY <1>1 DEF LinkInv, RequestsLinked
  <2> QED BY <2>1 DEF RequestsLinked, Linked
<1>4. AuthorityGivenOnce'
  BY <1>1 DEF LinkInv, AuthorityGivenOnce
<1>5. RowsLinked'
  BY <1>1 DEF LinkInv, RowsLinked, RowLinked, TypeInv, TypeOK
<1> QED BY <1>2, <1>3, <1>4, <1>5 DEF LinkInv

\* The same when the request keeps its job.
LEMMA LinkSteps ==
  ASSUME TypeInv, LinkInv, NEW r \in Requests, NEW l, pc[r] # "done",
         pc' = [pc EXCEPT ![r] = l], UNCHANGED <<job, docs, trx, gateway>>,
         Linked(r, l, job[r])
  PROVE  LinkInv'
<1>1. job' = [job EXCEPT ![r] = job[r]]
  BY DEF TypeInv, TypeOK
<1> QED BY <1>1, LinkMoves

LEMMA ArriveKeepsLink ==
  ASSUME TypeInv, LinkInv, NEW r \in Requests, ArriveAny(r)
  PROVE  LinkInv'
<1>1. ASSUME NEW b \in Boxes, NEW m \in Amounts, NEW k \in {"income", "expense"},
             StartRecord(r, k, b, m), UNCHANGED payVars
      PROVE  LinkInv'
  <2> DEFINE j == [NoJob EXCEPT !.kind = k, !.box = b, !.amount = m]
  <2>1. Linked(r, "readBox", j) /\ j.kind # "initiate"
    BY DEF Linked, NoJob
  <2>2. /\ pc' = [pc EXCEPT ![r] = "readBox"] /\ job' = [job EXCEPT ![r] = j]
        /\ pc[r] = "idle" /\ UNCHANGED <<docs, trx, gateway>>
    BY <1>1 DEF StartRecord, MayStart, accTables, payVars
  <2> HIDE DEF j
  <2> QED BY <2>1, <2>2, LinkMoves
<1>2. ASSUME NEW b \in Boxes, CountBoxes(r, b), UNCHANGED payVars PROVE LinkInv'
  <2> DEFINE j == [NoJob EXCEPT !.kind = "cashbox", !.box = b]
             l == IF created = {} THEN "insertDefault" ELSE "insertBox"
  <2>1. Linked(r, l, j) /\ j.kind # "initiate"
    BY DEF Linked, NoJob
  <2>2. /\ pc' = [pc EXCEPT ![r] = l] /\ job' = [job EXCEPT ![r] = j]
        /\ pc[r] = "idle" /\ UNCHANGED <<docs, trx, gateway>>
    BY <1>2 DEF CountBoxes, MayStart, accTables, payVars
  <2> HIDE DEF j, l
  <2> QED BY <2>1, <2>2, LinkMoves
<1>3. ASSUME NEW c \in Charges \cup {None}, NEW b \in Boxes, NEW m \in Amounts,
             StartManual(r, c, b, m)
      PROVE  LinkInv'
  <2> DEFINE j == [kind |-> "manual", charge |-> c, box |-> b, amount |-> m, auth |-> None]
             l == IF c = None THEN "readBox" ELSE "readCharge"
  <2>1. Linked(r, l, j) /\ j.kind # "initiate"
    BY DEF Linked
  <2>2. /\ pc' = [pc EXCEPT ![r] = l] /\ job' = [job EXCEPT ![r] = j]
        /\ pc[r] = "idle" /\ UNCHANGED <<docs, trx, gateway>>
    BY <1>3 DEF StartManual, MayStart, accTables, payVars
  <2> HIDE DEF j, l
  <2> QED BY <2>1, <2>2, LinkMoves
<1>4. ASSUME NEW c \in Charges, NEW m, StartInitiate(r, c, m) PROVE LinkInv'
  <2> DEFINE j == [kind |-> "initiate", charge |-> c, box |-> None, amount |-> m, auth |-> None]
  <2>1. Linked(r, "request", j) /\ j.auth = None
    BY DEF Linked
  <2>2. /\ pc' = [pc EXCEPT ![r] = "request"] /\ job' = [job EXCEPT ![r] = j]
        /\ pc[r] = "idle" /\ UNCHANGED <<docs, trx, gateway>>
    BY <1>4 DEF StartInitiate, MayStart, accTables, payVars
  <2> HIDE DEF j
  <2> QED BY <2>1, <2>2, LinkMoves
<1>5. ASSUME NEW a \in Auths, NEW s \in {"OK", "NOK"}, StartVerify(r, a, s) PROVE LinkInv'
  <2> DEFINE j == [kind |-> "verify", charge |-> trx[a].charge, box |-> None,
                   amount |-> trx[a].amount, auth |-> a]
             l == IF trx[a].status \in {"NONE", "SUCCESS"} THEN "done"
                  ELSE IF s = "OK" THEN "askGateway" ELSE "cancel"
  <2>1. /\ pc' = [pc EXCEPT ![r] = l] /\ job' = [job EXCEPT ![r] = j]
        /\ pc[r] = "idle" /\ UNCHANGED <<docs, trx, gateway>>
    BY <1>5 DEF StartVerify, MayStart, accTables, payVars
  <2>2. r \notin docs
    BY <2>1 DEF LinkInv, DocsAreDone
  <2>3. Linked(r, l, j) /\ j.kind # "initiate"
    BY <2>2 DEF Linked, Resting, InTransaction
  <2> HIDE DEF j, l
  <2> QED BY <2>1, <2>3, LinkMoves
<1> QED
  BY <1>1, <1>2, <1>3, <1>4, <1>5 DEF ArriveAny, Arrive

\* Steps of a running request that only move it on.
LEMMA MovesKeepLink ==
  ASSUME TypeInv, LinkInv, NEW r \in Requests,
         \/ (InsertBox(r) \/ Movement(r) \/ Fail(r)) /\ UNCHANGED payVars
         \/ ReadCharge(r) \/ WriteCharge(r) \/ LockTrx(r) \/ GatewayRefuses(r)
  PROVE  LinkInv'
<1> USE DEF accTables, payVars
<1>1. Linked(r, pc[r], job[r]) /\ Fits(pc[r], job[r])
  BY DEF LinkInv, RequestsLinked, TypeInv, JobsFit
<1>2. PICK l :
        /\ pc' = [pc EXCEPT ![r] = l] /\ pc[r] \notin Resting
        /\ UNCHANGED <<job, docs, trx, gateway>>
        /\ \/ l \in {"done", "failed"} /\ job[r].kind \notin {"verify", "initiate"}
           \/ l = "failed"
           \/ l \in InTransaction /\ (pc[r] \in InTransaction \/ job[r].kind # "verify")
           \/ l = "markFailed"
  <2>1. CASE InsertBox(r) /\ UNCHANGED payVars
    BY <1>1, <2>1 DEF InsertBox, Fits, Resting
  <2>2. CASE Movement(r) /\ UNCHANGED payVars
    BY <1>1, <2>2 DEF Movement, ReadBox, WriteBox, InTransaction, Resting
  <2>3. CASE Fail(r) /\ UNCHANGED payVars
    BY <2>3 DEF Fail, Resting
  <2>4. CASE ReadCharge(r)
    BY <2>4 DEF ReadCharge, InTransaction, Resting
  <2>5. CASE WriteCharge(r)
    BY <2>5 DEF WriteCharge, InTransaction, Resting
  <2>6. CASE LockTrx(r)
    BY <2>6 DEF LockTrx, InTransaction, Resting
  <2>7. CASE GatewayRefuses(r)
    BY <2>7 DEF GatewayRefuses, Resting
  <2> QED BY <2>1, <2>2, <2>3, <2>4, <2>5, <2>6, <2>7
<1>3. r \notin docs /\ pc[r] # "done"
  BY <1>2 DEF LinkInv, DocsAreDone, Resting
<1>4. Linked(r, l, job[r])
  BY <1>1, <1>2, <1>3 DEF Linked, Resting, InTransaction
<1> QED BY <1>2, <1>3, <1>4, LinkSteps

\* The gateway gives out an authority nobody has.
LEMMA RequestKeepsLink ==
  ASSUME TypeInv, LinkInv, NEW r \in Requests, NEW a \in Auths, RequestGateway(r, a)
  PROVE  LinkInv'
<1>1. /\ pc[r] = "request" /\ gateway[a] = "unknown"
      /\ pc'[r] = "createTrx" /\ job'[r] = [job[r] EXCEPT !.auth = a]
      /\ gateway'[a] = "issued" /\ UNCHANGED <<docs, trx>>
      /\ \A o \in Requests \ {r} : pc'[o] = pc[o] /\ job'[o] = job[o]
      /\ \A b \in Auths \ {a} : gateway'[b] = gateway[b]
  BY DEF RequestGateway, accTables, TypeInv, TypeOK
<1>2. r \notin docs /\ job[r] \in JobType /\ job[r].kind = "initiate"
  BY <1>1 DEF LinkInv, DocsAreDone, TypeInv, TypeOK, JobsFit, Fits
<1>3. job'[r].kind = "initiate" /\ job'[r].auth = a
  BY <1>1, <1>2 DEF JobType
<1>4. DocsAreDone'
  BY <1>1, <1>2 DEF LinkInv, DocsAreDone, TypeInv, TypeOK
<1>5. RequestsLinked'
  <2>1. ASSUME NEW o \in Requests PROVE Linked(o, pc[o], job[o])' /\ Linked(o, pc[o], job[o])
    <3>1. Linked(o, pc[o], job[o]) /\ Fits(pc[o], job[o]) /\ job[o].auth \in Auths \cup {None}
      BY DEF LinkInv, RequestsLinked, TypeInv, TypeOK, JobType, JobsFit
    <3>2. trx[a].status = "NONE"
      BY <1>1 DEF LinkInv, RowsLinked, RowLinked
    <3>3. CASE o = r
      BY <1>1, <1>3, <3>1, <3>2, <3>3 DEF Linked
    <3>4. CASE o # r
      <4>1. job[o].kind = "verify" => job[o].auth \in Auths
        BY <3>1 DEF Fits
      <4> QED BY <1>1, <3>1, <3>2, <3>4, <4>1 DEF Linked, Fits
    <3> QED BY <3>1, <3>3, <3>4
  <2> QED BY <2>1 DEF RequestsLinked
<1>6. AuthorityGivenOnce'
  <2>1. \A o \in Requests : job[o].kind = "initiate" /\ job[o].auth # None => job[o].auth # a
    BY <1>1 DEF LinkInv, RequestsLinked, Linked
  <2>2. ASSUME NEW p \in Requests, NEW o \in Requests, job'[p].kind = "initiate",
               job'[o].kind = "initiate", job'[p].auth = job'[o].auth, job'[p].auth # None
        PROVE  p = o
    <3>0. \A q \in Requests \ {r} : job'[q] = job[q]
      BY <1>1
    <3>1. CASE p = r \/ o = r
      BY <1>3, <2>1, <2>2, <3>0, <3>1
    <3>2. CASE p # r /\ o # r
      BY <1>1, <2>2, <3>2 DEF LinkInv, AuthorityGivenOnce
    <3> QED BY <3>1, <3>2
  <2> QED BY <2>2 DEF AuthorityGivenOnce
<1>7. RowsLinked'
  <2>1. ASSUME NEW b \in Auths PROVE RowLinked(b)'
    <3>1. RowLinked(b)
      BY DEF LinkInv, RowsLinked
    <3>2. trx[b].payment # None => trx[b].payment \in docs /\ trx[b].payment # r
      BY <1>2, <3>1 DEF RowLinked
    <3> QED BY <1>1, <3>1, <3>2 DEF RowLinked, TypeInv, TypeOK
  <2> QED BY <2>1 DEF RowsLinked
<1> QED BY <1>4, <1>5, <1>6, <1>7 DEF LinkInv

\* The row of a new transaction is written where none was.
LEMMA CreateKeepsLink ==
  ASSUME TypeInv, LinkInv, NEW r \in Requests, CreateTrx(r)
  PROVE  LinkInv'
<1> DEFINE a == job[r].auth
<1>1. /\ pc[r] = "createTrx" /\ a \in Auths /\ job[r] \in JobType
      /\ job[r].kind = "initiate" /\ a # None
      /\ gateway[a] = "issued" /\ trx[a].status = "NONE"
  BY DEF CreateTrx, TypeInv, TypeOK, JobsFit, Fits, LinkInv, RequestsLinked, Linked
<1>2. /\ pc'[r] = "done" /\ UNCHANGED <<docs, job, gateway>>
      /\ trx'[a].status = "PENDING" /\ trx'[a].payment = None
      /\ \A o \in Requests \ {r} : pc'[o] = pc[o]
      /\ \A b \in Auths \ {a} : trx'[b] = trx[b]
  BY <1>1 DEF CreateTrx, accTables, TypeInv, TypeOK
<1> HIDE DEF a
<1>3. DocsAreDone'
  BY <1>2 DEF LinkInv, DocsAreDone, TypeInv, TypeOK
<1>4. RequestsLinked'
  <2>1. ASSUME NEW o \in Requests PROVE Linked(o, pc[o], job[o])'
    <3>1. Linked(o, pc[o], job[o]) /\ Fits(pc[o], job[o])
      BY DEF LinkInv, RequestsLinked, TypeInv, JobsFit
    <3>2. r \notin docs
      BY <1>1 DEF LinkInv, DocsAreDone
    <3>3. CASE o = r
      BY <1>1, <1>2, <3>1, <3>2, <3>3 DEF Linked, Resting, InTransaction, a
    <3>4. CASE o # r
      <4>1. pc[o] = "createTrx" => job[o].auth # a
        BY <1>1, <3>1, <3>4 DEF LinkInv, AuthorityGivenOnce, Fits, a
      <4>2. pc[o] = "done" /\ job[o].kind = "initiate" => job[o].auth # a
        BY <1>1, <3>1 DEF Linked
      <4>3. job[o].kind = "verify" /\ (pc[o] \notin Resting \/ o \in docs) => job[o].auth # a
        BY <1>1, <3>1 DEF Linked
      <4>4. job[o].kind = "verify" => job[o].auth \in Auths
        BY <3>1 DEF Fits
      <4>5. /\ pc[o] = "createTrx" => job[o].auth \in Auths
            /\ pc[o] = "done" /\ job[o].kind = "initiate" => job[o].auth \in Auths
            /\ pc[o] \in InTransaction => pc[o] \notin Resting
        BY <3>1 DEF Fits, InTransaction, Resting
      <4> QED BY <1>2, <3>1, <3>4, <4>1, <4>2, <4>3, <4>4, <4>5 DEF Linked
    <3> QED BY <3>3, <3>4
  <2> QED BY <2>1 DEF RequestsLinked
<1>5. AuthorityGivenOnce'
  BY <1>2 DEF LinkInv, AuthorityGivenOnce
<1>6. RowsLinked'
  <2>1. ASSUME NEW b \in Auths PROVE RowLinked(b)'
    <3>1. RowLinked(b)
      BY DEF LinkInv, RowsLinked
    <3> QED BY <1>1, <1>2, <3>1 DEF RowLinked
  <2> QED BY <2>1 DEF RowsLinked
<1> QED BY <1>3, <1>4, <1>5, <1>6 DEF LinkInv

\* CANCELED and FAILED leave a row that exists its charge, amount and payment.
LEMMA SetStatusKeepsLink ==
  ASSUME TypeInv, LinkInv, NEW r \in Requests,
         NEW from \in {"cancel", "markFailed"}, NEW s \in {"CANCELED", "FAILED"},
         SetTrxStatus(r, from, s)
  PROVE  LinkInv'
<1> DEFINE a == job[r].auth
<1>1. /\ pc[r] = from /\ a \in Auths /\ job[r].kind = "verify" /\ trx[a].status # "NONE"
      /\ trx[a] \in TrxType
  BY DEF SetTrxStatus, TypeInv, TypeOK, JobsFit, Fits, CallbacksKnowTrx, KnowsTrx, Resting
<1>2. /\ pc'[r] = "done" /\ UNCHANGED <<docs, job, gateway>>
      /\ trx'[a].status = s /\ trx'[a].payment = trx[a].payment
      /\ trx'[a].charge = trx[a].charge /\ trx'[a].amount = trx[a].amount
      /\ \A o \in Requests \ {r} : pc'[o] = pc[o]
      /\ \A b \in Auths \ {a} : trx'[b] = trx[b]
  BY <1>1 DEF SetTrxStatus, accTables, TypeInv, TypeOK, TrxType
<1>3. r \notin docs
  BY <1>1 DEF LinkInv, DocsAreDone
<1> HIDE DEF a
<1>4. DocsAreDone'
  BY <1>2 DEF LinkInv, DocsAreDone, TypeInv, TypeOK
<1>5. RequestsLinked'
  <2>1. ASSUME NEW o \in Requests PROVE Linked(o, pc[o], job[o])'
    <3>1. Linked(o, pc[o], job[o]) /\ Fits(pc[o], job[o])
      BY DEF LinkInv, RequestsLinked, TypeInv, JobsFit
    <3>2. CASE o = r
      BY <1>1, <1>2, <1>3, <3>2 DEF Linked, Resting, InTransaction
    <3>3. CASE o # r
      <4>1. pc[o] = "createTrx" => job[o].auth # a
        BY <1>1, <3>1 DEF Linked
      <4>2. /\ pc[o] = "createTrx" => job[o].auth \in Auths
            /\ pc[o] = "done" /\ job[o].kind = "initiate" => job[o].auth \in Auths
            /\ job[o].kind = "verify" => job[o].auth \in Auths
        BY <3>1 DEF Fits
      <4> QED BY <1>1, <1>2, <3>1, <3>3, <4>1, <4>2 DEF Linked
    <3> QED BY <3>2, <3>3
  <2> QED BY <2>1 DEF RequestsLinked
<1>6. AuthorityGivenOnce'
  BY <1>2 DEF LinkInv, AuthorityGivenOnce
<1>7. RowsLinked'
  <2>1. ASSUME NEW b \in Auths PROVE RowLinked(b)'
    <3>1. RowLinked(b)
      BY DEF LinkInv, RowsLinked
    <3> QED BY <1>1, <1>2, <3>1 DEF RowLinked
  <2> QED BY <2>1 DEF RowsLinked
<1> QED BY <1>4, <1>5, <1>6, <1>7 DEF LinkInv

LEMMA ConfirmsKeepsLink ==
  ASSUME TypeInv, LinkInv, NEW r \in Requests, NEW b \in Boxes \cup {None},
         GatewayConfirms(r, b)
  PROVE  LinkInv'
<1> DEFINE a == job[r].auth
<1>0. /\ pc[r] = "askGateway" /\ gateway[a] \in {"captured", "verified"}
      /\ gateway' = [gateway EXCEPT ![a] = "verified"]
      /\ job' = [job EXCEPT ![r].box = b] /\ pc' = [pc EXCEPT ![r] = "lockTrx"]
      /\ UNCHANGED <<docs, trx>>
  BY DEF GatewayConfirms, accTables
<1>1. /\ job[r] \in JobType /\ a \in Auths /\ job[r].kind = "verify"
      /\ Linked(r, "askGateway", job[r]) /\ r \notin docs
  BY <1>0 DEF TypeInv, TypeOK, JobsFit, Fits, LinkInv, RequestsLinked, DocsAreDone
<1>2. /\ pc'[r] = "lockTrx" /\ gateway'[a] = "verified"
      /\ job'[r].kind = "verify" /\ job'[r].auth = a
      /\ job'[r].charge = job[r].charge /\ job'[r].amount = job[r].amount
      /\ \A o \in Requests \ {r} : pc'[o] = pc[o] /\ job'[o] = job[o]
      /\ \A c \in Auths \ {a} : gateway'[c] = gateway[c]
  BY <1>0, <1>1 DEF TypeInv, TypeOK, JobType
<1> HIDE DEF a
<1>3. DocsAreDone'
  BY <1>0, <1>1, <1>2 DEF LinkInv, DocsAreDone, TypeInv, TypeOK
<1>4. RequestsLinked'
  <2>1. ASSUME NEW o \in Requests PROVE Linked(o, pc[o], job[o])'
    <3>1. Linked(o, pc[o], job[o]) /\ Fits(pc[o], job[o]) /\ job[o].auth \in Auths \cup {None}
      BY DEF LinkInv, RequestsLinked, TypeInv, TypeOK, JobType, JobsFit
    <3>2. CASE o = r
      BY <1>0, <1>1, <1>2, <3>2 DEF Linked, Resting, InTransaction, a
    <3>3. CASE o # r
      <4>1. pc[o] = "createTrx" => job[o].auth # a /\ job[o].auth \in Auths
        BY <1>0, <3>1 DEF Linked, Fits
      <4>2. job[o].kind = "verify" => job[o].auth \in Auths
        BY <3>1 DEF Fits
      <4> QED BY <1>0, <1>2, <3>1, <3>3, <4>1, <4>2 DEF Linked
    <3> QED BY <3>2, <3>3
  <2> QED BY <2>1 DEF RequestsLinked
<1>5. AuthorityGivenOnce'
  BY <1>1, <1>2 DEF LinkInv, AuthorityGivenOnce
<1>6. RowsLinked'
  <2>1. ASSUME NEW c \in Auths PROVE RowLinked(c)'
    <3>1. RowLinked(c)
      BY DEF LinkInv, RowsLinked
    <3>2. trx[a].status # "NONE"
      BY <1>1 DEF Linked, Resting, a
    <3>3. trx[c].payment # None => trx[c].payment \in Requests \ {r}
      BY <1>1, <3>1 DEF RowLinked, TypeInv, TypeOK
    <3> QED BY <1>0, <1>2, <3>1, <3>2, <3>3 DEF RowLinked
  <2> QED BY <2>1 DEF RowsLinked
<1> QED BY <1>3, <1>4, <1>5, <1>6 DEF LinkInv

LEMMA UserPaysKeepsLink ==
  ASSUME TypeInv, LinkInv, NEW r \in Requests, UserPays(r)
  PROVE  LinkInv'
<1> DEFINE a == job[r].auth
<1>1. /\ a \in Auths /\ gateway[a] = "issued" /\ trx[a].status # "NONE"
      /\ gateway' = [gateway EXCEPT ![a] = "captured"]
      /\ UNCHANGED <<pc, job, docs, trx>>
  BY DEF UserPays, accVars, TypeInv, JobsFit, Fits, LinkInv, RequestsLinked, Linked
<1>2. gateway'[a] = "captured" /\ \A c \in Auths \ {a} : gateway'[c] = gateway[c]
  BY <1>1 DEF TypeInv, TypeOK
<1> HIDE DEF a
<1>3. DocsAreDone' /\ AuthorityGivenOnce'
  BY <1>1 DEF LinkInv, DocsAreDone, AuthorityGivenOnce
<1>4. RequestsLinked'
  <2>1. ASSUME NEW o \in Requests PROVE Linked(o, pc[o], job[o])'
    <3>1. Linked(o, pc[o], job[o]) /\ Fits(pc[o], job[o]) /\ job[o].auth \in Auths \cup {None}
      BY DEF LinkInv, RequestsLinked, TypeInv, TypeOK, JobType, JobsFit
    <3>2. /\ pc[o] = "createTrx" => job[o].auth # a /\ job[o].auth \in Auths
          /\ job[o].kind = "verify" => job[o].auth \in Auths
      BY <1>1, <3>1 DEF Linked, Fits
    <3> QED BY <1>1, <1>2, <3>1, <3>2 DEF Linked
  <2> QED BY <2>1 DEF RequestsLinked
<1>5. RowsLinked'
  <2>1. ASSUME NEW c \in Auths PROVE RowLinked(c)'
    <3>1. RowLinked(c)
      BY DEF LinkInv, RowsLinked
    <3> QED BY <1>1, <1>2, <3>1 DEF RowLinked
  <2> QED BY <2>1 DEF RowsLinked
<1> QED BY <1>3, <1>4, <1>5 DEF LinkInv

\* A commit of any other kind adds a document no row points to.
LEMMA OtherCommitKeepsLink ==
  ASSUME TypeInv, LinkInv, NEW r \in Requests, CommitAll(r), job[r].kind # "verify"
  PROVE  LinkInv'
<1>1. /\ pc[r] = "commit" /\ UNCHANGED <<job, trx, gateway>> /\ docs' = docs \cup {r}
      /\ pc'[r] = "done" /\ \A o \in Requests \ {r} : pc'[o] = pc[o]
      /\ job[r].kind # "initiate"
  BY DEF CommitAll, Commit, ConfirmTrx, TypeInv, TypeOK, JobsFit, Fits, InTransaction
<1>2. DocsAreDone' /\ AuthorityGivenOnce'
  BY <1>1 DEF LinkInv, DocsAreDone, AuthorityGivenOnce, TypeInv, TypeOK
<1>3. RequestsLinked'
  <2>1. ASSUME NEW o \in Requests PROVE Linked(o, pc[o], job[o])'
    <3>1. Linked(o, pc[o], job[o])
      BY DEF LinkInv, RequestsLinked
    <3> QED BY <1>1, <3>1 DEF Linked
  <2> QED BY <2>1 DEF RequestsLinked
<1>4. RowsLinked'
  BY <1>1 DEF LinkInv, RowsLinked, RowLinked
<1> QED BY <1>2, <1>3, <1>4 DEF LinkInv

\* The commit of a callback points its row at its own payment.
LEMMA VerifyCommitKeepsLink ==
  ASSUME TypeInv, LinkInv, NEW r \in Requests, CommitAll(r), job[r].kind = "verify"
  PROVE  LinkInv'
<1> DEFINE a == job[r].auth
<1>0. trx' = [trx EXCEPT ![a].status = "SUCCESS", ![a].payment = r]
  BY DEF CommitAll, ConfirmTrx
<1>1. /\ pc[r] = "commit" /\ UNCHANGED <<job, gateway>> /\ docs' = docs \cup {r}
      /\ pc'[r] = "done" /\ \A o \in Requests \ {r} : pc'[o] = pc[o]
  BY DEF CommitAll, Commit, TypeInv, TypeOK
<1>2. /\ a \in Auths /\ trx[a] \in TrxType /\ r # None
      /\ trx[a].status # "NONE" /\ gateway[a] = "verified"
      /\ job[r].charge = trx[a].charge /\ job[r].amount = trx[a].amount
  BY <1>1 DEF TypeInv, TypeOK, JobsFit, Fits, LinkInv, RequestsLinked, Linked,
              Resting, InTransaction
<1>3. /\ trx'[a].status = "SUCCESS" /\ trx'[a].payment = r
      /\ trx'[a].charge = trx[a].charge /\ trx'[a].amount = trx[a].amount
      /\ \A c \in Auths \ {a} : trx'[c] = trx[c]
  BY <1>0, <1>2 DEF TypeInv, TypeOK, TrxType
<1> HIDE DEF a
<1>4. DocsAreDone' /\ AuthorityGivenOnce'
  BY <1>1 DEF LinkInv, DocsAreDone, AuthorityGivenOnce, TypeInv, TypeOK
<1>5. RequestsLinked'
  <2>1. ASSUME NEW o \in Requests PROVE Linked(o, pc[o], job[o])'
    <3>1. Linked(o, pc[o], job[o]) /\ Fits(pc[o], job[o])
      BY DEF LinkInv, RequestsLinked, TypeInv, JobsFit
    <3>2. CASE o = r
      BY <1>1, <1>2, <1>3, <3>1, <3>2 DEF Linked, a
    <3>3. CASE o # r
      <4>1. /\ pc[o] = "createTrx" => job[o].auth # a /\ job[o].auth \in Auths
            /\ pc[o] = "done" /\ job[o].kind = "initiate" => job[o].auth \in Auths
            /\ job[o].kind = "verify" => job[o].auth \in Auths
        BY <1>2, <3>1 DEF Linked, Fits
      <4> QED BY <1>1, <1>2, <1>3, <3>1, <3>3, <4>1 DEF Linked
    <3> QED BY <3>2, <3>3
  <2> QED BY <2>1 DEF RequestsLinked
<1>6. RowsLinked'
  <2>1. ASSUME NEW c \in Auths PROVE RowLinked(c)'
    <3>1. RowLinked(c)
      BY DEF LinkInv, RowsLinked
    <3>2. CASE c = a
      BY <1>1, <1>2, <1>3, <3>2 DEF RowLinked, a
    <3>3. CASE c # a
      BY <1>1, <1>3, <3>1, <3>3 DEF RowLinked
    <3> QED BY <3>2, <3>3
  <2> QED BY <2>1 DEF RowsLinked
<1> QED BY <1>4, <1>5, <1>6 DEF LinkInv

LEMMA LinkInvInductive == TypeInv /\ LinkInv /\ [Next]_vars => LinkInv'
<1> SUFFICES ASSUME TypeInv, LinkInv, [Next]_vars PROVE LinkInv'
  OBVIOUS
<1>1. CASE UNCHANGED vars
  BY <1>1 DEF vars, LinkInv, DocsAreDone, RequestsLinked, Linked, AuthorityGivenOnce,
              RowsLinked, RowLinked
<1>2. ASSUME NEW r \in Requests, Progress(r) PROVE LinkInv'
  <2>1. CASE CancelTrx(r)
    BY <2>1, SetStatusKeepsLink DEF CancelTrx
  <2>2. CASE MarkFailed(r)
    BY <2>2, SetStatusKeepsLink DEF MarkFailed
  <2> QED
    BY <1>2, <2>1, <2>2, MovesKeepLink, OtherCommitKeepsLink, VerifyCommitKeepsLink,
       RequestKeepsLink, CreateKeepsLink, ConfirmsKeepsLink
       DEF Progress
<1> QED BY <1>1, <1>2, ArriveKeepsLink, UserPaysKeepsLink, MovesKeepLink DEF Next, FailAny

(***************************************************************************)
(* Every online payment is reachable from its transaction row, through a   *)
(* payment of the same charge and amount, and SUCCESS is shown only with   *)
(* one: for any number of callbacks of verifyOnline, in any order, with    *)
(* any status, failing anywhere.                                           *)
(***************************************************************************)
THEOREM TransactionsShowPayments == Spec => []TrxShowsItsPayment
<1>1. TypeInv /\ LinkInv => TrxShowsItsPayment
  <2> SUFFICES ASSUME TypeInv, LinkInv PROVE TrxShowsItsPayment
    OBVIOUS
  <2>1. \A r \in Payments : job[r].kind = "verify" => trx[job[r].auth].payment # None
    BY DEF Payments, LinkInv, RequestsLinked, Linked, TypeInv, TypeOK
  <2>2. \A a \in Auths : RowLinked(a)
    BY DEF LinkInv, RowsLinked
  <2> QED BY <2>1, <2>2 DEF TrxShowsItsPayment, RowLinked, Payments
<1> QED
  BY <1>1, InitTypeInv, InitLinkInv, TypeInvInductive, LinkInvInductive, PTL DEF Spec

(***************************************************************************)
(* An online payment is recorded only for money the gateway has confirmed, *)
(* and money is captured only for a transaction the database knows:        *)
(* wherever initiateOnline or verifyOnline ends, no money is out of sight. *)
(***************************************************************************)
THEOREM MoneyIsBacked == Spec => []BooksFollowMoney
<1>1. TypeInv /\ LinkInv => BooksFollowMoney
  BY DEF BooksFollowMoney, Payments, LinkInv, RequestsLinked, Linked, RowsLinked, RowLinked,
         TypeInv, TypeOK
<1> QED
  BY <1>1, InitTypeInv, InitLinkInv, TypeInvInductive, LinkInvInductive, PTL DEF Spec

-----------------------------------------------------------------------------
(***************************************************************************)
(* What holds when requests come one after the other (Serial), and what    *)
(* makes the difference: at most one handler runs, so nothing is           *)
(* overlapped, a running callback still finds its transaction open, and    *)
(* the row of a recorded callback shows its payment and no other.          *)
(***************************************************************************)
RunsAlone == \A r, o \in Requests : pc[r] \notin Resting /\ pc[o] \notin Resting => r = o

OwnsTrx(r, l, j) ==
  j.kind = "verify" =>
    /\ l \notin Resting => trx[j.auth].status # "SUCCESS"
    /\ r \in docs => trx[j.auth].status = "SUCCESS" /\ trx[j.auth].payment = r

SerialInv ==
  Serial => /\ RunsAlone
            /\ overlapped = {}
            /\ \A r \in Requests : OwnsTrx(r, pc[r], job[r])

LEMMA InitSerialInv == Init => SerialInv
  BY DEF Init, AccInit, SerialInv, RunsAlone, OwnsTrx, Resting

\* A request starts when it may, on rows it leaves alone.
LEMMA ArriveShape ==
  ASSUME TypeInv, NEW r \in Requests, ArriveAny(r)
  PROVE  /\ pc[r] = "idle" /\ (Serial => \A o \in Requests : pc[o] \in Resting)
         /\ UNCHANGED <<docs, overlapped, trx, paid, status>>
         /\ UNCHANGED <<created, balance, ledger, posted>>
         /\ \A o \in Requests \ {r} : pc'[o] = pc[o] /\ job'[o] = job[o]
         /\ job'[r].kind = "verify" /\ pc'[r] \notin Resting =>
              trx[job'[r].auth].status # "SUCCESS"
<1> USE DEF TypeInv, TypeOK, payVars, accTables, MayStart
<1>1. ASSUME NEW b \in Boxes, NEW m \in Amounts, NEW k \in {"income", "expense"},
             StartRecord(r, k, b, m), UNCHANGED payVars
      PROVE  job'[r].kind # "verify"
  BY <1>1 DEF StartRecord, NoJob
<1>2. ASSUME NEW b \in Boxes, CountBoxes(r, b) PROVE job'[r].kind # "verify"
  BY <1>2 DEF CountBoxes, NoJob
<1>3. ASSUME NEW c \in Charges \cup {None}, NEW b \in Boxes, NEW m \in Amounts,
             StartManual(r, c, b, m)
      PROVE  job'[r].kind # "verify"
  BY <1>3 DEF StartManual
<1>4. ASSUME NEW c \in Charges, NEW m \in Amounts \cup {Due[c] - paid[c]},
             StartInitiate(r, c, m)
      PROVE  job'[r].kind # "verify"
  BY <1>4 DEF StartInitiate
<1>5. ASSUME NEW a \in Auths, NEW s \in {"OK", "NOK"}, StartVerify(r, a, s)
      PROVE  pc'[r] \notin Resting => trx[job'[r].auth].status # "SUCCESS"
  BY <1>5 DEF StartVerify, Resting
<1>6. /\ pc[r] = "idle" /\ (Serial => \A o \in Requests : pc[o] \in Resting)
      /\ UNCHANGED <<docs, overlapped, trx, paid, status, created, balance, ledger, posted>>
      /\ \A o \in Requests \ {r} : pc'[o] = pc[o] /\ job'[o] = job[o]
  BY DEF ArriveAny, Arrive, StartRecord, CountBoxes, StartManual, StartInitiate, StartVerify
<1> QED BY <1>1, <1>2, <1>3, <1>4, <1>5, <1>6 DEF ArriveAny, Arrive

\* The steps of a running handler that write no committed row, save the boxes.
Quiet(r) ==
  /\ UNCHANGED <<docs, overlapped, posted, trx, paid, status>>
  /\ UNCHANGED <<created, balance, ledger>> \/ InsertBox(r)

LEMMA ProgressShape ==
  ASSUME TypeInv, NEW r \in Requests, Progress(r) \/ FailAny(r)
  PROVE  /\ pc[r] \notin Resting
         /\ \A o \in Requests \ {r} : pc'[o] = pc[o] /\ job'[o] = job[o]
         /\ job'[r].kind = job[r].kind
         /\ job[r].kind = "verify" => job'[r].auth = job[r].auth
         /\ Quiet(r) \/ CommitAll(r) \/ CreateTrx(r) \/ CancelTrx(r) \/ MarkFailed(r)
<1> USE DEF TypeInv, TypeOK, payVars, accTables
<1>0. job[r] \in JobType
  OBVIOUS
<1>1. ASSUME InsertBox(r) \/ Movement(r) \/ ReadCharge(r) \/ WriteCharge(r)
               \/ LockTrx(r) \/ GatewayRefuses(r) \/ Fail(r),
             UNCHANGED <<paid, status, trx>>
      PROVE  /\ pc[r] \notin Resting /\ UNCHANGED job /\ Quiet(r)
             /\ \A o \in Requests \ {r} : pc'[o] = pc[o]
  BY <1>1 DEF InsertBox, Movement, ReadBox, WriteBox, ReadCharge, WriteCharge, LockTrx,
              GatewayRefuses, Fail, Resting, Quiet
<1>2. ASSUME CommitAll(r) \/ CreateTrx(r) \/ CancelTrx(r) \/ MarkFailed(r)
      PROVE  /\ pc[r] \notin Resting /\ UNCHANGED job
             /\ \A o \in Requests \ {r} : pc'[o] = pc[o]
  BY <1>2 DEF CommitAll, Commit, CreateTrx, CancelTrx, MarkFailed, SetTrxStatus, Resting
<1>3. ASSUME NEW a \in Auths, RequestGateway(r, a)
      PROVE  /\ pc[r] \notin Resting /\ Quiet(r)
             /\ \A o \in Requests \ {r} : pc'[o] = pc[o] /\ job'[o] = job[o]
             /\ job'[r].kind = job[r].kind /\ job[r].kind # "verify"
  <2>1. job[r].kind = "initiate" /\ job'[r] = [job[r] EXCEPT !.auth = a]
    BY <1>3 DEF RequestGateway, JobsFit, Fits
  <2> QED BY <1>0, <1>3, <2>1 DEF RequestGateway, Quiet, Resting, JobType
<1>4. ASSUME NEW b \in Boxes \cup {None}, GatewayConfirms(r, b)
      PROVE  /\ pc[r] \notin Resting /\ Quiet(r)
             /\ \A o \in Requests \ {r} : pc'[o] = pc[o] /\ job'[o] = job[o]
             /\ job'[r].kind = job[r].kind /\ job'[r].auth = job[r].auth
  <2>1. job'[r] = [job[r] EXCEPT !.box = b]
    BY <1>4 DEF GatewayConfirms
  <2> QED BY <1>0, <1>4, <2>1 DEF GatewayConfirms, Quiet, Resting, JobType
<1>5. CASE FailAny(r)
  BY <1>1, <1>5 DEF FailAny
<1>6. CASE Progress(r)
  <2>1. CASE (InsertBox(r) \/ Movement(r)) /\ UNCHANGED payVars
    BY <1>1, <2>1
  <2>2. CASE ReadCharge(r) \/ WriteCharge(r) \/ LockTrx(r) \/ GatewayRefuses(r)
    <3>1. UNCHANGED <<paid, status, trx>>
      BY <2>2 DEF ReadCharge, WriteCharge, LockTrx, GatewayRefuses
    <3> QED BY <1>1, <2>2, <3>1
  <2> QED BY <1>2, <1>3, <1>4, <1>6, <2>1, <2>2 DEF Progress
<1> QED BY <1>5, <1>6

\* While a callback runs alone, no row that shows SUCCESS is written.
LEMMA SuccessStays ==
  ASSUME Serial, TypeInv, LinkInv, SerialInv, [Next]_vars, NEW a \in Auths,
         trx[a].status = "SUCCESS"
  PROVE  trx'[a] = trx[a]
<1>1. \A r \in Requests : pc[r] \notin Resting /\ job[r].kind = "verify" => job[r].auth # a
  BY DEF SerialInv, OwnsTrx
<1>2. ASSUME NEW r \in Requests, CreateTrx(r) PROVE trx'[a] = trx[a]
  <2>1. trx[job[r].auth].status = "NONE" /\ trx \in [Auths -> TrxType]
    BY <1>2 DEF CreateTrx, LinkInv, RequestsLinked, Linked, TypeInv, TypeOK
  <2> QED BY <1>2, <2>1 DEF CreateTrx
<1>3. ASSUME NEW r \in Requests, CancelTrx(r) \/ MarkFailed(r) PROVE trx'[a] = trx[a]
  <2>1. job[r].kind = "verify" /\ pc[r] \notin Resting /\ trx \in [Auths -> TrxType]
    BY <1>3 DEF CancelTrx, MarkFailed, SetTrxStatus, TypeInv, TypeOK, JobsFit, Fits, Resting
  <2> QED BY <1>1, <1>3, <2>1 DEF CancelTrx, MarkFailed, SetTrxStatus
<1>4. ASSUME NEW r \in Requests, CommitAll(r) PROVE trx'[a] = trx[a]
  <2>1. pc[r] \notin Resting /\ trx \in [Auths -> TrxType]
    BY <1>4 DEF CommitAll, Commit, Resting, TypeInv, TypeOK
  <2> QED BY <1>1, <1>4, <2>1 DEF CommitAll, ConfirmTrx
<1>5. ASSUME NEW r \in Requests, Progress(r) \/ FailAny(r) PROVE trx'[a] = trx[a]
  BY <1>2, <1>3, <1>4, <1>5, ProgressShape DEF Quiet
<1>6. ASSUME NEW r \in Requests, ArriveAny(r) PROVE trx'[a] = trx[a]
  BY <1>6, ArriveShape
<1>7. ASSUME NEW r \in Requests, UserPays(r) PROVE trx'[a] = trx[a]
  BY <1>7 DEF UserPays
<1> QED BY <1>5, <1>6, <1>7 DEF Next, vars

\* What the commit of a callback leaves in its row.
LEMMA CommitShape ==
  ASSUME TypeInv, NEW r \in Requests, CommitAll(r)
  PROVE  /\ pc[r] = "commit" /\ pc'[r] = "done" /\ docs' = docs \cup {r}
         /\ job' = job /\ UNCHANGED created
         /\ job[r].kind = "verify" =>
              /\ job[r].auth \in Auths
              /\ trx'[job[r].auth].status = "SUCCESS" /\ trx'[job[r].auth].payment = r
<1>1. pc[r] = "commit" /\ pc'[r] = "done" /\ docs' = docs \cup {r} /\ job' = job
      /\ UNCHANGED created
  BY DEF CommitAll, Commit, TypeInv, TypeOK
<1>2. ASSUME job[r].kind = "verify"
      PROVE  /\ job[r].auth \in Auths
             /\ trx' = [trx EXCEPT ![job[r].auth].status = "SUCCESS",
                                   ![job[r].auth].payment = r]
  BY <1>2 DEF CommitAll, ConfirmTrx, TypeInv, JobsFit, Fits
<1>3. ASSUME job[r].kind = "verify"
      PROVE  trx'[job[r].auth].status = "SUCCESS" /\ trx'[job[r].auth].payment = r
  <2>1. trx[job[r].auth] \in TrxType /\ trx \in [Auths -> TrxType]
    BY <1>2, <1>3 DEF TypeInv, TypeOK
  <2> QED BY <1>2, <1>3, <2>1 DEF TrxType
<1> QED BY <1>1, <1>2, <1>3

LEMMA SerialInvInductive == TypeInv /\ LinkInv /\ SerialInv /\ [Next]_vars => SerialInv'
<1> SUFFICES ASSUME TypeInv, LinkInv, SerialInv, [Next]_vars, Serial PROVE SerialInv'
  BY DEF SerialInv
<1>1. RunsAlone /\ overlapped = {} /\ \A r \in Requests : OwnsTrx(r, pc[r], job[r])
  BY DEF SerialInv
<1>2. \A o \in Requests : o \in docs => pc[o] = "done"
  BY DEF LinkInv, DocsAreDone
<1>3. \A o \in Requests : job[o].kind = "verify" => job[o].auth \in Auths
  BY DEF TypeInv, JobsFit, Fits
<1>4. ASSUME NEW o \in Requests, pc'[o] = pc[o] \/ pc'[o] \in Resting,
             job'[o].kind = job[o].kind, job[o].kind = "verify" => job'[o].auth = job[o].auth,
             o \in docs' => o \in docs, pc'[o] \in Resting \/ UNCHANGED trx
      PROVE  OwnsTrx(o, pc[o], job[o])'
  BY <1>1, <1>3, <1>4, SuccessStays DEF OwnsTrx
<1>5. ASSUME NEW r \in Requests, ArriveAny(r) PROVE SerialInv'
  <2>1. /\ pc[r] = "idle" /\ \A o \in Requests : pc[o] \in Resting
        /\ UNCHANGED <<docs, overlapped, trx>>
        /\ \A o \in Requests \ {r} : pc'[o] = pc[o] /\ job'[o] = job[o]
        /\ job'[r].kind = "verify" /\ pc'[r] \notin Resting =>
             trx[job'[r].auth].status # "SUCCESS"
    BY <1>5, ArriveShape
  <2>2. RunsAlone'
    BY <2>1 DEF RunsAlone
  <2>3. OwnsTrx(r, pc[r], job[r])'
    BY <1>2, <2>1 DEF OwnsTrx
  <2>4. \A o \in Requests \ {r} : OwnsTrx(o, pc[o], job[o])'
    BY <1>4, <2>1
  <2> QED BY <1>1, <2>1, <2>2, <2>3, <2>4 DEF SerialInv
<1>6. ASSUME NEW r \in Requests, Progress(r) \/ FailAny(r) PROVE SerialInv'
  <2>1. /\ pc[r] \notin Resting
        /\ \A o \in Requests \ {r} : pc'[o] = pc[o] /\ job'[o] = job[o]
        /\ job'[r].kind = job[r].kind
        /\ job[r].kind = "verify" => job'[r].auth = job[r].auth
        /\ Quiet(r) \/ CommitAll(r) \/ CreateTrx(r) \/ CancelTrx(r) \/ MarkFailed(r)
    BY <1>6, ProgressShape
  <2>2. \A o \in Requests \ {r} : pc[o] \in Resting
    BY <1>1, <2>1 DEF RunsAlone
  <2>3. RunsAlone'
    BY <2>1, <2>2 DEF RunsAlone
  <2>4. overlapped' = {}
    <3>1. CASE CommitAll(r)
      <4>1. \A o \in Requests \ {r}, x \in Rows : ~HasRead(o, x)
        BY <2>2 DEF HasRead, HasReadBox, HasReadCharge, Resting
      <4>2. {job[r].box, job[r].charge} \ {None} \subseteq Rows
        BY DEF TypeInv, TypeOK, JobType, Rows
      <4> QED BY <1>1, <3>1, <4>1, <4>2 DEF CommitAll, Commit
    <3>2. CASE Quiet(r) \/ CreateTrx(r) \/ CancelTrx(r) \/ MarkFailed(r)
      BY <1>1, <3>2 DEF Quiet, CreateTrx, CancelTrx, MarkFailed, SetTrxStatus, accTables
    <3> QED BY <2>1, <3>1, <3>2
  <2>5. OwnsTrx(r, pc[r], job[r])'
    <3>0. r \notin docs /\ OwnsTrx(r, pc[r], job[r])
      BY <1>1, <1>2, <2>1 DEF Resting
    <3>1. CASE Quiet(r)
      BY <2>1, <3>0, <3>1 DEF Quiet, OwnsTrx
    <3>2. CASE CommitAll(r)
      BY <3>2, CommitShape DEF OwnsTrx, Resting
    <3>3. CASE CreateTrx(r) \/ CancelTrx(r) \/ MarkFailed(r)
      BY <3>0, <3>3 DEF CreateTrx, CancelTrx, MarkFailed, SetTrxStatus, accTables, OwnsTrx,
         TypeInv, TypeOK, Resting
    <3> QED BY <2>1, <3>1, <3>2, <3>3
  <2>6. \A o \in Requests \ {r} : OwnsTrx(o, pc[o], job[o])'
    <3>1. \A o \in Requests \ {r} : o \in docs' => o \in docs
      BY <2>1, CommitShape DEF Quiet, CreateTrx, CancelTrx, MarkFailed, SetTrxStatus, accTables
    <3> QED BY <1>4, <2>1, <2>2, <3>1
  <2> QED BY <2>3, <2>4, <2>5, <2>6 DEF SerialInv
<1>7. ASSUME UNCHANGED <<pc, job, docs, trx, overlapped>> PROVE SerialInv'
  BY <1>7 DEF SerialInv, RunsAlone, OwnsTrx
<1>8. ASSUME NEW r \in Requests, UserPays(r) PROVE SerialInv'
  BY <1>7, <1>8 DEF UserPays, accVars
<1> QED BY <1>5, <1>6, <1>7, <1>8 DEF Next, vars

(***************************************************************************)
(* Callbacks that come one after the other never touch a transaction that  *)
(* has succeeded, whatever status they carry and wherever they fail.       *)
(***************************************************************************)
THEOREM SuccessIsFinalWhenSerial == Serial => (Spec => SuccessIsFinal)
<1> SUFFICES ASSUME Serial PROVE Spec => SuccessIsFinal
  OBVIOUS
<1>1. TypeInv /\ LinkInv /\ SerialInv /\ [Next]_vars =>
        [\A a \in Auths : trx[a].status = "SUCCESS" => trx'[a] = trx[a]]_vars
  BY SuccessStays
<1> QED
  BY <1>1, InitTypeInv, InitLinkInv, InitSerialInv, TypeInvInductive, LinkInvInductive,
     SerialInvInductive, PTL DEF Spec, SuccessIsFinal

(***************************************************************************)
(* One payment per transaction, as long as callbacks do not overlap: the   *)
(* duplicate that payments.service.ts:158-160 means to answer is recorded  *)
(* twice only when the second callback reads before the first commits.     *)
(***************************************************************************)
THEOREM OnePaymentWhenSerial == Serial => (Spec => []AtMostOnePaymentPerTrx)
<1> SUFFICES ASSUME Serial PROVE Spec => []AtMostOnePaymentPerTrx
  OBVIOUS
<1>1. TypeInv /\ SerialInv => AtMostOnePaymentPerTrx
  <2> SUFFICES ASSUME SerialInv, NEW r \in Payments, NEW o \in Payments,
                      job[r].kind = "verify", job[o].kind = "verify",
                      job[r].auth = job[o].auth, TypeInv
               PROVE  r = o
    BY DEF AtMostOnePaymentPerTrx
  <2> QED BY DEF SerialInv, OwnsTrx, Payments, TypeInv, TypeOK
<1> QED
  BY <1>1, InitTypeInv, InitLinkInv, InitSerialInv, TypeInvInductive, LinkInvInductive,
     SerialInvInductive, PTL DEF Spec

-----------------------------------------------------------------------------
(***************************************************************************)
(* The status of a charge is the one its paidAmount calls for, except that *)
(* it starts PENDING even when nothing is due.                             *)
(***************************************************************************)
StatusInv ==
  \A c \in Charges :
    \/ status[c] = "PENDING" /\ paid[c] = 0
    \/ status[c] = ChargeStatus(paid[c], Due[c])

LEMMA InitStatusInv == Init => StatusInv
  BY DEF Init, StatusInv

LEMMA MorePaidNoStepBack ==
  ASSUME NEW t \in Nat, NEW p \in Nat, NEW q \in Nat, p <= q
  PROVE  Rank(ChargeStatus(q, t)) >= Rank(ChargeStatus(p, t))
BY DEF Rank, ChargeStatus

\* What a step does to a charge: nothing, or a payment on top of what was read.
LEMMA ChargeStep ==
  ASSUME TypeInv, ChargeInv, [Next]_vars, NEW c \in Charges
  PROVE  \/ paid'[c] = paid[c] /\ status'[c] = status[c]
         \/ /\ status'[c] = ChargeStatus(paid'[c], Due[c]) /\ paid'[c] \in Nat
            /\ c \notin overlapped => paid[c] <= paid'[c]
<1>1. ASSUME NEW r \in Requests, CommitAll(r), job[r].charge = c
      PROVE  /\ status'[c] = ChargeStatus(paid'[c], Due[c]) /\ paid'[c] \in Nat
             /\ c \notin overlapped => paid[c] <= paid'[c]
  <2>1. /\ paid'[c] = sawPaid[r] + job[r].amount
        /\ status'[c] = ChargeStatus(sawPaid[r] + job[r].amount, Due[c])
    BY <1>1 DEF CommitAll, ApplyToCharge, TypeInv, TypeOK
  <2>2. c \notin overlapped => sawPaid[r] = paid[c]
    BY <1>1 DEF CommitAll, Commit, ChargeInv, ReadsCurrent, HasReadCharge
  <2>3. sawPaid[r] \in Nat /\ job[r].amount \in Nat
    BY DEF TypeInv, TypeOK, JobType
  <2> QED BY <2>1, <2>2, <2>3
<1>2. ASSUME NEW r \in Requests, CommitAll(r), job[r].charge # c
      PROVE  paid'[c] = paid[c] /\ status'[c] = status[c]
  BY <1>2 DEF CommitAll, ApplyToCharge, TypeInv, TypeOK
<1>3. ASSUME NEW r \in Requests, Quiet(r) \/ CreateTrx(r) \/ CancelTrx(r) \/ MarkFailed(r)
      PROVE  UNCHANGED <<paid, status>>
  BY <1>3 DEF Quiet, CreateTrx, CancelTrx, MarkFailed, SetTrxStatus
<1>4. ASSUME NEW r \in Requests, ArriveAny(r) \/ UserPays(r)
      PROVE  UNCHANGED <<paid, status>>
  BY <1>4, ArriveShape DEF UserPays
<1> QED BY <1>1, <1>2, <1>3, <1>4, ProgressShape DEF Next, vars

LEMMA StatusInvInductive == TypeInv /\ ChargeInv /\ StatusInv /\ [Next]_vars => StatusInv'
  BY ChargeStep DEF StatusInv

(***************************************************************************)
(* A charge that no two transactions overlap on never goes back: not by a  *)
(* failure, not by instalments, and not by being paid beyond what is due.  *)
(***************************************************************************)
THEOREM ChargeForwardUnlessOverlapped ==
  Spec => [][\A c \in Charges \ overlapped : Rank(status'[c]) >= Rank(status[c])]_vars
<1>1. ASSUME TypeInv, ChargeInv, StatusInv, [Next]_vars, NEW c \in Charges \ overlapped
      PROVE  Rank(status'[c]) >= Rank(status[c])
  <2>0. /\ paid[c] \in Nat /\ Due[c] \in Nat
        /\ \/ status[c] = "PENDING" /\ paid[c] = 0
           \/ status[c] = ChargeStatus(paid[c], Due[c])
    BY <1>1 DEF TypeInv, TypeOK, StatusInv
  <2>1. CASE status'[c] = status[c]
    BY <2>0, <2>1 DEF Rank, ChargeStatus
  <2>2. CASE status'[c] = ChargeStatus(paid'[c], Due[c]) /\ paid'[c] \in Nat /\ paid[c] <= paid'[c]
    <3>1. CASE status[c] = "PENDING"
      BY <2>0, <2>2, <3>1 DEF Rank, ChargeStatus
    <3>2. CASE status[c] = ChargeStatus(paid[c], Due[c])
      BY <2>0, <2>2, <3>2, MorePaidNoStepBack
    <3> QED BY <2>0, <3>1, <3>2
  <2> QED BY <1>1, <2>1, <2>2, ChargeStep
<1>2. TypeInv /\ ChargeInv /\ StatusInv /\ [Next]_vars =>
        [\A c \in Charges \ overlapped : Rank(status'[c]) >= Rank(status[c])]_vars
  BY <1>1
<1> QED
  BY <1>2, InitTypeInv, InitChargeInv, InitStatusInv, TypeInvInductive, ChargeInvInductive,
     StatusInvInductive, PTL DEF Spec

(***************************************************************************)
(* So when requests come one after the other no charge ever goes back.     *)
(***************************************************************************)
THEOREM ChargeForwardWhenSerial == Serial => (Spec => ChargeOnlyMovesForward)
<1> SUFFICES ASSUME Serial PROVE Spec => ChargeOnlyMovesForward
  OBVIOUS
<1>1. SerialInv => overlapped = {}
  BY DEF SerialInv
<1>2. /\ overlapped = {}
      /\ [\A c \in Charges \ overlapped : Rank(status'[c]) >= Rank(status[c])]_vars
      => [\A c \in Charges : Rank(status'[c]) >= Rank(status[c])]_vars
  OBVIOUS
<1> QED
  BY <1>1, <1>2, InitTypeInv, InitLinkInv, InitSerialInv, TypeInvInductive, LinkInvInductive,
     SerialInvInductive, ChargeForwardUnlessOverlapped, PTL DEF Spec, ChargeOnlyMovesForward

-----------------------------------------------------------------------------
(***************************************************************************)
(* Row locks are taken in one order, gateway transaction, charge, cashbox: *)
(* where a handler is tells which of them it can hold.                     *)
(***************************************************************************)
HoldsUpTo(l, rows) ==
  /\ l \notin InTransaction \/ l = "lockTrx" => rows = {}
  /\ l \in {"readCharge", "writeCharge"} => rows \subseteq Auths
  /\ l \in {"readBox", "writeBox"} => rows \subseteq Auths \cup Charges

LockInv == \A r \in Requests : HoldsUpTo(pc[r], held[r])

LEMMA InitLockInv == Init => LockInv
  BY DEF Init, AccInit, LockInv, HoldsUpTo, InTransaction

\* One handler goes to another await, holding what it may hold there.
LEMMA OneHolds ==
  ASSUME TypeInv, LockInv, NEW r \in Requests, HoldsUpTo(pc'[r], held'[r]),
         \A o \in Requests \ {r} : pc'[o] = pc[o] /\ held'[o] = held[o]
  PROVE  LockInv'
<1>1. ASSUME NEW o \in Requests PROVE HoldsUpTo(pc'[o], held'[o])
  BY <1>1 DEF LockInv
<1> QED BY <1>1 DEF LockInv, HoldsUpTo

LEMMA LockInvInductive == TypeInv /\ LockInv /\ [Next]_vars => LockInv'
<1> SUFFICES ASSUME TypeInv, LockInv, [Next]_vars PROVE LockInv'
  OBVIOUS
<1>0. ASSUME NEW r \in Requests
      PROVE  HoldsUpTo(pc[r], held[r]) /\ Fits(pc[r], job[r]) /\ job[r] \in JobType
  BY DEF LockInv, TypeInv, TypeOK, JobsFit
<1>1. ASSUME NEW r \in Requests, ArriveAny(r) PROVE LockInv'
  <2>1. held[r] = {} /\ UNCHANGED held /\ pc[r] = "idle"
    BY <1>0, <1>1 DEF ArriveAny, Arrive, StartRecord, CountBoxes, StartManual, StartInitiate,
       StartVerify, MayStart, HoldsUpTo, InTransaction
  <2>2. HoldsUpTo(pc'[r], held'[r])
    BY <2>1 DEF HoldsUpTo
  <2> QED BY <1>1, <2>1, <2>2, ArriveShape, OneHolds
<1>2. ASSUME NEW r \in Requests, Progress(r) \/ FailAny(r) PROVE LockInv'
  <2>1. HoldsUpTo(pc'[r], held'[r]) /\ \A o \in Requests \ {r} : held'[o] = held[o]
    <3> USE DEF TypeInv, TypeOK, HoldsUpTo, InTransaction, payVars, accTables
    <3>1. CASE Fail(r) \/ CommitAll(r)
      BY <3>1 DEF Fail, CommitAll, Commit
    <3>2. CASE InsertBox(r) \/ ReadBox(r) \/ WriteBox(r)
      BY <1>0, <3>2 DEF InsertBox, ReadBox, WriteBox
    <3>3. CASE ReadCharge(r) \/ WriteCharge(r)
      BY <1>0, <3>3 DEF ReadCharge, WriteCharge, Fits
    <3>4. CASE LockTrx(r)
      BY <1>0, <3>4 DEF LockTrx, Fits
    <3>5. CASE CreateTrx(r) \/ CancelTrx(r) \/ MarkFailed(r) \/ GatewayRefuses(r)
      BY <1>0, <3>5 DEF CreateTrx, CancelTrx, MarkFailed, SetTrxStatus, GatewayRefuses
    <3>6. ASSUME NEW a \in Auths, RequestGateway(r, a)
          PROVE  HoldsUpTo(pc'[r], held'[r]) /\ \A o \in Requests \ {r} : held'[o] = held[o]
      BY <1>0, <3>6 DEF RequestGateway
    <3>7. ASSUME NEW b \in Boxes \cup {None}, GatewayConfirms(r, b)
          PROVE  HoldsUpTo(pc'[r], held'[r]) /\ \A o \in Requests \ {r} : held'[o] = held[o]
      BY <1>0, <3>7 DEF GatewayConfirms
    <3> HIDE DEF TypeInv, TypeOK, HoldsUpTo
    <3> QED BY <1>2, <3>1, <3>2, <3>3, <3>4, <3>5, <3>6, <3>7 DEF Progress, Movement, FailAny
  <2> QED BY <1>2, <2>1, ProgressShape, OneHolds
<1>3. ASSUME UNCHANGED <<pc, held>> PROVE LockInv'
  BY <1>3 DEF LockInv, HoldsUpTo
<1>4. ASSUME NEW r \in Requests, UserPays(r) PROVE LockInv'
  BY <1>3, <1>4 DEF UserPays, accVars
<1> QED BY <1>1, <1>2, <1>3, <1>4 DEF Next, vars

\* The row whose lock the next statement of r has to take.
Wanted(r) ==
  CASE pc[r] \in {"lockTrx", "cancel", "markFailed"} -> job[r].auth
    [] pc[r] = "writeCharge" -> job[r].charge
    [] pc[r] = "writeBox" -> job[r].box
    [] OTHER -> None

(***************************************************************************)
(* No deadlock: as long as handlers are running, one of them waits for no  *)
(* row lock of another.  verifyOnline takes its transaction row before the *)
(* charge, applyToCharge comes before recordMovement in both handlers that *)
(* pay, and whatever ends a handler releases its rows.                     *)
(***************************************************************************)
NoDeadlock ==
  (\E r \in Requests : pc[r] \notin Resting) =>
    \E r \in Requests :
      /\ pc[r] \notin Resting
      /\ \A o \in Requests \ {r} : Wanted(r) \notin held[o]

\* Whoever holds a row another wants is running, and wants only later rows.
Class(x) == IF x \in Auths THEN 1 ELSE IF x \in Charges THEN 2 ELSE 3

LEMMA WaitsClimb ==
  ASSUME TypeInv, LockInv, NEW r \in Requests, NEW o \in Requests, Wanted(r) \in held[o]
  PROVE  /\ pc[o] \notin Resting
         /\ \A p \in Requests : Wanted(o) \in held[p] => Class(Wanted(o)) > Class(Wanted(r))
<1>0. /\ HoldsUpTo(pc[r], held[r]) /\ HoldsUpTo(pc[o], held[o]) /\ held[o] \subseteq Rows
      /\ Fits(pc[r], job[r]) /\ Fits(pc[o], job[o])
  BY DEF LockInv, TypeInv, TypeOK, JobsFit
<1>1. pc[o] \in InTransaction /\ pc[o] # "lockTrx"
  BY <1>0 DEF HoldsUpTo
<1>2. Wanted(r) \in Rows
  BY <1>0
<1>3. ASSUME NEW p \in Requests, Wanted(o) \in held[p]
      PROVE  Class(Wanted(o)) > Class(Wanted(r))
  <2>1. Wanted(o) # None
    BY <1>3 DEF TypeInv, TypeOK, Rows
  <2>2. CASE pc[o] = "writeCharge"
    <3>1. Wanted(o) \in Charges /\ Wanted(r) \in Auths
      BY <1>0, <2>2 DEF Wanted, Fits, HoldsUpTo
    <3> QED BY <3>1 DEF Class
  <2>3. CASE pc[o] = "writeBox"
    <3>1. Wanted(o) \in Boxes /\ Wanted(r) \in Auths \cup Charges
      BY <1>0, <2>3 DEF Wanted, Fits, HoldsUpTo
    <3> QED BY <3>1 DEF Class
  <2> QED BY <1>1, <2>1, <2>2, <2>3 DEF Wanted, InTransaction
<1> QED BY <1>1, <1>3 DEF InTransaction, Resting

(***************************************************************************)
(* No set of handlers, however many, waits in a circle: following who      *)
(* blocks whom climbs the three kinds of rows and so ends, at the latest   *)
(* after two steps, at a handler that can run.                             *)
(***************************************************************************)
THEOREM DeadlockFree == Spec => []NoDeadlock
<1> DEFINE Blocked(r) == \E o \in Requests \ {r} : Wanted(r) \in held[o]
<1>1. ASSUME TypeInv, LockInv, NEW r \in Requests, pc[r] \notin Resting
      PROVE  \E f \in Requests : pc[f] \notin Resting /\ ~Blocked(f)
  <2>1. ASSUME NEW p \in Requests, Blocked(p)
        PROVE  \E o \in Requests :
                 /\ pc[o] \notin Resting
                 /\ Blocked(o) => Class(Wanted(o)) > Class(Wanted(p))
    BY <1>1, <2>1, WaitsClimb
  <2>2. \A x : Class(x) \in 1..3
    BY DEF Class
  <2> HIDE DEF Blocked
  <2>3. CASE Blocked(r)
    <3>1. PICK o \in Requests : /\ pc[o] \notin Resting
                                /\ Blocked(o) => Class(Wanted(o)) > Class(Wanted(r))
      BY <2>1, <2>3
    <3>2. CASE Blocked(o)
      <4>1. PICK p \in Requests : /\ pc[p] \notin Resting
                                  /\ Blocked(p) => Class(Wanted(p)) > Class(Wanted(o))
        BY <2>1, <3>2
      <4>2. CASE Blocked(p)
        <5>1. PICK q \in Requests : /\ pc[q] \notin Resting
                                    /\ Blocked(q) => Class(Wanted(q)) > Class(Wanted(p))
          BY <2>1, <4>2
        <5>2. ~Blocked(q)
          BY <2>2, <3>1, <3>2, <4>1, <4>2, <5>1
        <5> QED BY <5>1, <5>2
      <4> QED BY <4>1, <4>2
    <3> QED BY <3>1, <3>2
  <2> QED BY <1>1, <2>3
<1>2. TypeInv /\ LockInv => NoDeadlock
  BY <1>1 DEF NoDeadlock
<1> HIDE DEF Blocked
<1> QED
  BY <1>2, InitTypeInv, InitLockInv, TypeInvInductive, LockInvInductive, PTL DEF Spec

-----------------------------------------------------------------------------
(***************************************************************************)
(* Theorems about the cashboxes of Payments: the read-modify-write of      *)
(* recordMovement, which every kind of document goes through, next to      *)
(* createCashbox, which writes the same column.                            *)
(***************************************************************************)

(***************************************************************************)
(* createCashbox writes a row nobody can have read or moved money on: the  *)
(* box is not there yet, no other request creates it, and whoever is       *)
(* about to post on a box has found it in the table.                       *)
(***************************************************************************)
Inserting(r) == pc[r] \in {"insertBox", "insertDefault"}

NewBoxesAreNew == \A r \in Requests : Inserting(r) => job[r].box \notin created

BoxesAreCreatedOnce ==
  \A r, o \in Requests :
    job[r].kind = "cashbox" /\ job[o].kind = "cashbox" /\ job[r].box = job[o].box => r = o

MovementsNameBoxes ==
  \A r \in Requests :
    job[r].kind # "cashbox" /\ job[r].box # None => job[r].box \in created

NoMoneyBefore == \A b \in Boxes \ created : posted[b] = 0

BoxesInv == NewBoxesAreNew /\ BoxesAreCreatedOnce /\ MovementsNameBoxes /\ NoMoneyBefore

LEMMA InitBoxesInv == Init => BoxesInv
<1> SUFFICES ASSUME Init PROVE BoxesInv
  OBVIOUS
<1>1. NewBoxesAreNew
  BY DEF Init, AccInit, NewBoxesAreNew, Inserting
<1>2. BoxesAreCreatedOnce /\ MovementsNameBoxes
  BY DEF Init, AccInit, NoJob, BoxesAreCreatedOnce, MovementsNameBoxes, AllKinds
<1>3. NoMoneyBefore
  BY DEF Init, AccInit, NoMoneyBefore
<1> QED BY <1>1, <1>2, <1>3 DEF BoxesInv

\* Steps after which nobody starts to insert and nobody has a new job.
LEMMA BoxesFrame ==
  ASSUME BoxesInv, UNCHANGED <<job, created, posted>>,
         \A o \in Requests : Inserting(o)' => Inserting(o)
  PROVE  BoxesInv'
<1>1. NewBoxesAreNew'
  BY DEF BoxesInv, NewBoxesAreNew
<1>2. BoxesAreCreatedOnce' /\ MovementsNameBoxes' /\ NoMoneyBefore'
  BY DEF BoxesInv, BoxesAreCreatedOnce, MovementsNameBoxes, NoMoneyBefore
<1> QED BY <1>1, <1>2 DEF BoxesInv

\* A request takes up a job that is not about a new box.
LEMMA BoxesJob ==
  ASSUME TypeInv, BoxesInv, NEW r \in Requests, NEW j,
         j.kind # "cashbox", j.box # None => j.box \in created,
         job' = [job EXCEPT ![r] = j], UNCHANGED <<created, posted>>,
         \A o \in Requests : Inserting(o)' => o # r /\ Inserting(o)
  PROVE  BoxesInv'
<1>1. job'[r] = j /\ \A o \in Requests \ {r} : job'[o] = job[o]
  BY DEF TypeInv, TypeOK
<1>2. NewBoxesAreNew'
  BY <1>1 DEF BoxesInv, NewBoxesAreNew
<1>3. BoxesAreCreatedOnce'
  BY <1>1 DEF BoxesInv, BoxesAreCreatedOnce
<1>4. MovementsNameBoxes'
  BY <1>1 DEF BoxesInv, MovementsNameBoxes
<1>5. NoMoneyBefore'
  BY DEF BoxesInv, NoMoneyBefore
<1> QED BY <1>2, <1>3, <1>4, <1>5 DEF BoxesInv

LEMMA CountBoxesKeepsBoxesInv ==
  ASSUME TypeInv, BoxesInv, NEW r \in Requests, NEW b \in Boxes, CountBoxes(r, b)
  PROVE  BoxesInv'
<1>1. /\ job'[r].kind = "cashbox" /\ job'[r].box = b /\ b \notin created
      /\ \A o \in Requests \ {r} : job'[o] = job[o]
      /\ \A o \in Requests : job[o].kind = "cashbox" => job[o].box # b
      /\ UNCHANGED <<created, posted>>
  BY DEF CountBoxes, TypeInv, TypeOK, NoJob, accTables
<1>2. \A o \in Requests : Inserting(o)' => o = r \/ Inserting(o)
  BY DEF CountBoxes, Inserting, TypeInv, TypeOK
<1>3. NewBoxesAreNew'
  BY <1>1, <1>2 DEF BoxesInv, NewBoxesAreNew
<1>4. BoxesAreCreatedOnce' /\ MovementsNameBoxes'
  BY <1>1 DEF BoxesInv, BoxesAreCreatedOnce, MovementsNameBoxes
<1>5. NoMoneyBefore'
  BY <1>1 DEF BoxesInv, NoMoneyBefore
<1> QED BY <1>3, <1>4, <1>5 DEF BoxesInv

LEMMA InsertBoxKeepsBoxesInv ==
  ASSUME TypeInv, BoxesInv, NEW r \in Requests, InsertBox(r)
  PROVE  BoxesInv'
<1>1. /\ UNCHANGED <<job, posted>> /\ created' = created \cup {job[r].box}
      /\ job[r].kind = "cashbox"
  BY DEF InsertBox, TypeInv, JobsFit, Fits
<1>2. ASSUME NEW o \in Requests, Inserting(o)' PROVE o # r /\ Inserting(o)
  BY <1>2 DEF InsertBox, Inserting, TypeInv, TypeOK
<1>3. \A o \in Requests : Inserting(o) => job[o].kind = "cashbox"
  BY DEF Inserting, TypeInv, JobsFit, Fits
<1>4. NewBoxesAreNew'
  BY <1>1, <1>2, <1>3 DEF BoxesInv, NewBoxesAreNew, BoxesAreCreatedOnce
<1>5. BoxesAreCreatedOnce' /\ MovementsNameBoxes' /\ NoMoneyBefore'
  BY <1>1 DEF BoxesInv, BoxesAreCreatedOnce, MovementsNameBoxes, NoMoneyBefore
<1> QED BY <1>4, <1>5 DEF BoxesInv

LEMMA CommitKeepsBoxesInv ==
  ASSUME TypeInv, BoxesInv, NEW r \in Requests, CommitAll(r)
  PROVE  BoxesInv'
<1>1. UNCHANGED <<job, created>> /\ \A o \in Requests : Inserting(o)' => Inserting(o)
  BY DEF CommitAll, Commit, Inserting, TypeInv, TypeOK
<1>2. job[r].box # None => job[r].box \in created
  BY DEF CommitAll, Commit, TypeInv, JobsFit, Fits, InTransaction, BoxesInv,
         MovementsNameBoxes
<1>3. \A b \in Boxes \ created : posted'[b] = posted[b]
  BY <1>2 DEF CommitAll, Commit, PostMovement, TypeInv, TypeOK
<1>4. NewBoxesAreNew' /\ NoMoneyBefore'
  BY <1>1, <1>3 DEF BoxesInv, NewBoxesAreNew, NoMoneyBefore
<1>5. BoxesAreCreatedOnce' /\ MovementsNameBoxes'
  BY <1>1 DEF BoxesInv, BoxesAreCreatedOnce, MovementsNameBoxes
<1> QED BY <1>4, <1>5 DEF BoxesInv

LEMMA BoxesInvInductive == TypeInv /\ BoxesInv /\ [Next]_vars => BoxesInv'
<1> SUFFICES ASSUME TypeInv, BoxesInv, [Next]_vars PROVE BoxesInv'
  OBVIOUS
<1> USE DEF Inserting, TypeInv, TypeOK, payVars, accTables
<1>1. CASE UNCHANGED vars
  BY <1>1, BoxesFrame DEF vars
<1>2. ASSUME NEW r \in Requests, ArriveAny(r) PROVE BoxesInv'
  <2>1. ASSUME NEW b \in Boxes, NEW m \in Amounts, NEW k \in {"income", "expense"},
               StartRecord(r, k, b, m), UNCHANGED payVars
        PROVE  BoxesInv'
    BY <2>1, BoxesJob DEF StartRecord, NoJob
  <2>2. ASSUME NEW b \in Boxes, CountBoxes(r, b), UNCHANGED payVars PROVE BoxesInv'
    BY <2>2, CountBoxesKeepsBoxesInv
  <2>3. ASSUME NEW c \in Charges \cup {None}, NEW b \in Boxes, NEW m \in Amounts,
               StartManual(r, c, b, m)
        PROVE  BoxesInv'
    BY <2>3, BoxesJob DEF StartManual
  <2>4. ASSUME NEW c \in Charges, NEW m \in Amounts \cup {Due[c] - paid[c]},
               StartInitiate(r, c, m)
        PROVE  BoxesInv'
    BY <2>4, BoxesJob DEF StartInitiate
  <2>5. ASSUME NEW a \in Auths, NEW s \in {"OK", "NOK"}, StartVerify(r, a, s)
        PROVE  BoxesInv'
    BY <2>5, BoxesJob DEF StartVerify
  <2> HIDE DEF Inserting, TypeInv, TypeOK
  <2> QED BY <1>2, <2>1, <2>2, <2>3, <2>4, <2>5 DEF ArriveAny, Arrive
<1>3. ASSUME NEW r \in Requests, Progress(r) PROVE BoxesInv'
  <2>1. CASE InsertBox(r)
    BY <2>1, InsertBoxKeepsBoxesInv
  <2>2. CASE (ReadBox(r) \/ WriteBox(r)) /\ UNCHANGED payVars
    BY <2>2, BoxesFrame DEF ReadBox, WriteBox
  <2>3. CASE ReadCharge(r) \/ WriteCharge(r) \/ LockTrx(r) \/ GatewayRefuses(r)
    BY <2>3, BoxesFrame DEF ReadCharge, WriteCharge, LockTrx, GatewayRefuses
  <2>4. CASE CommitAll(r)
    BY <2>4, CommitKeepsBoxesInv
  <2>5. CASE CreateTrx(r) \/ CancelTrx(r) \/ MarkFailed(r)
    BY <2>5, BoxesFrame DEF CreateTrx, CancelTrx, MarkFailed, SetTrxStatus
  <2>6. ASSUME NEW a \in Auths, RequestGateway(r, a) PROVE BoxesInv'
    <3> DEFINE j == [job[r] EXCEPT !.auth = a]
    <3>1. job[r] \in JobType /\ job[r].kind = "initiate"
      BY <2>6 DEF RequestGateway, JobsFit, Fits
    <3>2. j.kind # "cashbox" /\ j.box = job[r].box
      BY <3>1 DEF JobType
    <3>3. j.box # None => j.box \in created
      BY <3>1, <3>2 DEF BoxesInv, MovementsNameBoxes
    <3>4. /\ job' = [job EXCEPT ![r] = j] /\ UNCHANGED <<created, posted>>
          /\ \A o \in Requests : Inserting(o)' => o # r /\ Inserting(o)
      BY <2>6 DEF RequestGateway
    <3> HIDE DEF j
    <3> QED BY <3>2, <3>3, <3>4, BoxesJob
  <2>7. ASSUME NEW b \in Boxes \cup {None}, GatewayConfirms(r, b) PROVE BoxesInv'
    <3> DEFINE j == [job[r] EXCEPT !.box = b]
    <3>1. job[r] \in JobType /\ job[r].kind = "verify"
      BY <2>7 DEF GatewayConfirms, JobsFit, Fits
    <3>2. j.kind # "cashbox" /\ j.box = b
      BY <3>1 DEF JobType
    <3>3. b # None => b \in created
      BY <2>7 DEF GatewayConfirms, DefaultBoxes
    <3>4. /\ job' = [job EXCEPT ![r] = j] /\ UNCHANGED <<created, posted>>
          /\ \A o \in Requests : Inserting(o)' => o # r /\ Inserting(o)
      BY <2>7 DEF GatewayConfirms
    <3> HIDE DEF j
    <3> QED BY <3>2, <3>3, <3>4, BoxesJob
  <2> HIDE DEF Inserting, TypeInv, TypeOK
  <2> QED BY <1>3, <2>1, <2>2, <2>3, <2>4, <2>5, <2>6, <2>7 DEF Progress, Movement
<1>4. ASSUME NEW r \in Requests, UserPays(r) PROVE BoxesInv'
  BY <1>4, BoxesFrame DEF UserPays, accVars
<1>5. ASSUME NEW r \in Requests, Fail(r), UNCHANGED payVars PROVE BoxesInv'
  BY <1>5, BoxesFrame DEF Fail
<1> HIDE DEF Inserting, TypeInv, TypeOK
<1> QED BY <1>1, <1>2, <1>3, <1>4, <1>5 DEF Next, FailAny

-----------------------------------------------------------------------------
(***************************************************************************)
(* As long as no commit on a box has overlapped a transaction that had     *)
(* read it, whoever has read the box has read its present balance.         *)
(***************************************************************************)
BoxCurrent(b) ==
  b \notin overlapped =>
    /\ balance[b] = Opening[b] + posted[b]
    /\ \A o \in Requests : HasReadBox(o, b) => sawBalance[o] = balance[b]

BoxInv == \A b \in Boxes : BoxCurrent(b)

LEMMA InitBoxInv == Init => BoxInv
  BY DEF Init, AccInit, BoxInv, BoxCurrent, HasReadBox

\* Steps that touch neither boxes nor what was read of them.
LEMMA BoxFrame ==
  ASSUME BoxInv, UNCHANGED <<balance, posted, sawBalance, overlapped>>,
         \A o \in Requests, b \in Boxes : HasReadBox(o, b)' => HasReadBox(o, b)
  PROVE  BoxInv'
<1>1. ASSUME NEW b \in Boxes PROVE BoxCurrent(b)'
  <2>1. BoxCurrent(b) /\ \A o \in Requests : HasReadBox(o, b)' => HasReadBox(o, b)
    BY DEF BoxInv
  <2> QED BY <2>1 DEF BoxCurrent
<1> QED BY <1>1 DEF BoxInv

LEMMA ReadBoxKeepsBoxInv ==
  ASSUME TypeInv, BoxInv, NEW r \in Requests, ReadBox(r)
  PROVE  BoxInv'
<1>1. ASSUME NEW b \in Boxes PROVE BoxCurrent(b)'
  <2>1. BoxCurrent(b) /\ UNCHANGED <<balance, posted, overlapped>>
    BY DEF BoxInv, ReadBox, accTables
  <2>2. ASSUME NEW o \in Requests, HasReadBox(o, b)'
        PROVE  \/ o # r /\ HasReadBox(o, b) /\ sawBalance'[o] = sawBalance[o]
               \/ o = r /\ sawBalance'[o] = balance[b]
    BY <2>2 DEF ReadBox, HasReadBox, TypeInv, TypeOK
  <2> QED BY <2>1, <2>2 DEF BoxCurrent
<1> QED BY <1>1 DEF BoxInv

\* A new box starts at its opening balance, and nobody has read it before.
LEMMA InsertBoxKeepsBoxInv ==
  ASSUME TypeInv, BoxesInv, BoxInv, NEW r \in Requests, InsertBox(r)
  PROVE  BoxInv'
<1>1. ASSUME NEW b \in Boxes PROVE BoxCurrent(b)'
  <2>1. BoxCurrent(b) /\ UNCHANGED <<job, posted, sawBalance, overlapped>>
    BY DEF BoxInv, InsertBox
  <2>2. ASSUME NEW o \in Requests, HasReadBox(o, b)'
        PROVE  HasReadBox(o, b) /\ job[o].kind # "cashbox"
    BY <2>2 DEF InsertBox, HasReadBox, TypeInv, TypeOK, JobsFit, Fits, InTransaction
  <2>3. CASE job[r].box = b
    <3>1. b \notin created /\ balance'[b] = Opening[b]
      BY <2>3 DEF InsertBox, TypeInv, TypeOK, BoxesInv, NewBoxesAreNew, Inserting
    <3>2. posted[b] = 0
      BY <3>1 DEF BoxesInv, NoMoneyBefore
    <3>3. \A o \in Requests : ~HasReadBox(o, b)'
      BY <2>2, <3>1 DEF HasReadBox, BoxesInv, MovementsNameBoxes
    <3> QED BY <2>1, <3>1, <3>2, <3>3 DEF BoxCurrent
  <2>4. CASE job[r].box # b
    <3>1. balance'[b] = balance[b]
      BY <2>4 DEF InsertBox, TypeInv, TypeOK
    <3> QED BY <2>1, <2>2, <3>1 DEF BoxCurrent
  <2> QED BY <2>3, <2>4
<1> QED BY <1>1 DEF BoxInv

LEMMA CommitKeepsBoxInv ==
  ASSUME TypeInv, BoxInv, NEW r \in Requests, CommitAll(r)
  PROVE  BoxInv'
<1>1. ASSUME NEW b \in Boxes PROVE BoxCurrent(b)'
  <2>1. BoxCurrent(b) /\ b # None
    BY DEF BoxInv
  <2>2. UNCHANGED <<job, sawBalance>> /\ pc[r] = "commit" /\ pc' = [pc EXCEPT ![r] = "done"]
    BY DEF CommitAll, Commit
  <2>3. \A o \in Requests : HasReadBox(o, b)' => o # r /\ HasReadBox(o, b)
    BY <2>2 DEF HasReadBox, TypeInv, TypeOK
  <2>4. /\ balance[b] \in Int /\ posted[b] \in Int /\ Opening[b] \in Int
        /\ sawBalance[r] \in Int /\ Delta(job[r]) \in Int
    BY DEF TypeInv, TypeOK, JobType, Delta
  <2>5. CASE job[r].box = b
    <3>1. /\ balance'[b] = sawBalance[r] + Delta(job[r])
          /\ posted'[b] = posted[b] + Delta(job[r])
      BY <2>1, <2>5 DEF CommitAll, Commit, PostMovement, BalanceAfter, TypeInv, TypeOK
    <3>2. HasReadBox(r, b)
      BY <2>2, <2>5 DEF HasReadBox
    <3>3. b \notin overlapped' =>
            b \notin overlapped /\ \A o \in Requests \ {r} : ~HasReadBox(o, b)
      BY <2>1, <2>5 DEF CommitAll, Commit, HasRead
    <3> QED BY <2>1, <2>3, <2>4, <3>1, <3>2, <3>3 DEF BoxCurrent
  <2>6. CASE job[r].box # b
    <3>1. balance'[b] = balance[b] /\ posted'[b] = posted[b]
      BY <2>6 DEF CommitAll, Commit, PostMovement, TypeInv, TypeOK
    <3>2. b \notin overlapped' => b \notin overlapped
      BY DEF CommitAll, Commit
    <3> QED BY <2>1, <2>2, <2>3, <3>1, <3>2 DEF BoxCurrent
  <2> QED BY <2>5, <2>6
<1> QED BY <1>1 DEF BoxInv

LEMMA BoxInvInductive == TypeInv /\ BoxesInv /\ BoxInv /\ [Next]_vars => BoxInv'
<1> SUFFICES ASSUME TypeInv, BoxesInv, BoxInv, [Next]_vars PROVE BoxInv'
  OBVIOUS
<1> USE DEF HasReadBox, TypeInv, TypeOK, payVars, accTables
<1>1. CASE UNCHANGED vars
  BY <1>1, BoxFrame DEF vars
<1>2. ASSUME NEW r \in Requests, ArriveAny(r) PROVE BoxInv'
  <2>1. ASSUME NEW b \in Boxes, NEW m \in Amounts, NEW k \in {"income", "expense"},
               StartRecord(r, k, b, m), UNCHANGED payVars
        PROVE  BoxInv'
    BY <2>1, BoxFrame DEF StartRecord, NoJob
  <2>2. ASSUME NEW b \in Boxes, CountBoxes(r, b), UNCHANGED payVars PROVE BoxInv'
    BY <2>2, BoxFrame DEF CountBoxes
  <2>3. ASSUME NEW c \in Charges \cup {None}, NEW b \in Boxes, NEW m \in Amounts,
               StartManual(r, c, b, m)
        PROVE  BoxInv'
    BY <2>3, BoxFrame DEF StartManual
  <2>4. ASSUME NEW c \in Charges, NEW m \in Amounts \cup {Due[c] - paid[c]},
               StartInitiate(r, c, m)
        PROVE  BoxInv'
    BY <2>4, BoxFrame DEF StartInitiate
  <2>5. ASSUME NEW a \in Auths, NEW s \in {"OK", "NOK"}, StartVerify(r, a, s)
        PROVE  BoxInv'
    BY <2>5, BoxFrame DEF StartVerify
  <2> HIDE DEF HasReadBox, TypeInv, TypeOK
  <2> QED BY <1>2, <2>1, <2>2, <2>3, <2>4, <2>5 DEF ArriveAny, Arrive
<1>3. ASSUME NEW r \in Requests, Progress(r) PROVE BoxInv'
  <2>1. CASE InsertBox(r) \/ ReadBox(r) \/ CommitAll(r)
    BY <2>1, InsertBoxKeepsBoxInv, ReadBoxKeepsBoxInv, CommitKeepsBoxInv
  <2>2. CASE WriteBox(r) /\ UNCHANGED payVars
    BY <2>2, BoxFrame DEF WriteBox
  <2>3. CASE ReadCharge(r) \/ LockTrx(r) \/ GatewayRefuses(r)
    BY <2>3, BoxFrame DEF ReadCharge, LockTrx, GatewayRefuses
  <2>4. CASE WriteCharge(r)
    BY <2>4, BoxFrame DEF WriteCharge
  <2>5. CASE CreateTrx(r) \/ CancelTrx(r) \/ MarkFailed(r)
    BY <2>5, BoxFrame DEF CreateTrx, CancelTrx, MarkFailed, SetTrxStatus
  <2>6. ASSUME NEW a \in Auths, RequestGateway(r, a) PROVE BoxInv'
    BY <2>6, BoxFrame DEF RequestGateway
  <2>7. ASSUME NEW b \in Boxes \cup {None}, GatewayConfirms(r, b) PROVE BoxInv'
    BY <2>7, BoxFrame DEF GatewayConfirms
  <2> HIDE DEF HasReadBox, TypeInv, TypeOK
  <2> QED BY <1>3, <2>1, <2>2, <2>3, <2>4, <2>5, <2>6, <2>7 DEF Progress, Movement
<1>4. ASSUME NEW r \in Requests, UserPays(r) PROVE BoxInv'
  BY <1>4, BoxFrame DEF UserPays, accVars
<1>5. ASSUME NEW r \in Requests, Fail(r), UNCHANGED payVars PROVE BoxInv'
  BY <1>5, BoxFrame DEF Fail
<1> HIDE DEF HasReadBox, TypeInv, TypeOK
<1> QED BY <1>1, <1>2, <1>3, <1>4, <1>5 DEF Next, FailAny

(***************************************************************************)
(* The balance of a cashbox is its opening balance and the movements       *)
(* committed on it: only overlapping recordMovement calls lose one, never  *)
(* a failure, and never the creation of a cashbox at the same time.        *)
(***************************************************************************)
THEOREM BoxExact == Spec => []BoxExactUnlessOverlapped
<1>1. BoxInv => BoxExactUnlessOverlapped
  BY DEF BoxInv, BoxCurrent, BoxExactUnlessOverlapped
<1> QED
  BY <1>1, InitTypeInv, InitBoxesInv, InitBoxInv, TypeInvInductive, BoxesInvInductive,
     BoxInvInductive, PTL DEF Spec

-----------------------------------------------------------------------------
(***************************************************************************)
(* Accounting implements the abstract ledger when requests come one after  *)
(* the other: opened is created, book is ledger, and the one step of       *)
(* Ledger that posts is the commit.  An entry refers to a document that is *)
(* committed, so a posting never repeats a reference.                      *)
(***************************************************************************)
EntriesHaveDocs ==
  \A b \in Boxes : \A i \in 1..Len(ledger[b]) : ledger[b][i].ref \in docs

LEMMA InitEntries == Init => EntriesHaveDocs
  BY DEF Init, AccInit, EntriesHaveDocs

\* What the commit of a movement does to its box and its book.
Entry(r) == [ref |-> r, delta |-> Delta(job[r]), after |-> BalanceAfter(r)]

LEMMA CommitPosts ==
  ASSUME TypeInv, NEW r \in Requests, CommitAll(r)
  PROVE  /\ docs' = docs \cup {r} /\ UNCHANGED created
         /\ job[r].box = None => UNCHANGED <<balance, ledger>>
         /\ job[r].box # None =>
              /\ job[r].box \in Boxes
              /\ balance' = [balance EXCEPT ![job[r].box] = BalanceAfter(r)]
              /\ ledger' = [ledger EXCEPT ![job[r].box] = Append(@, Entry(r))]
<1>1. job[r].box \in Boxes \cup {None}
  BY DEF TypeInv, TypeOK, JobType
<1> QED BY <1>1 DEF CommitAll, Commit, PostMovement, Entry

LEMMA EntriesInductive == TypeInv /\ EntriesHaveDocs /\ [Next]_vars => EntriesHaveDocs'
<1> SUFFICES ASSUME TypeInv, EntriesHaveDocs, [Next]_vars PROVE EntriesHaveDocs'
  OBVIOUS
<1>1. ASSUME UNCHANGED <<docs, ledger>> PROVE EntriesHaveDocs'
  BY <1>1 DEF EntriesHaveDocs
<1>2. ASSUME NEW r \in Requests, CommitAll(r) PROVE EntriesHaveDocs'
  <2>1. CASE job[r].box = None
    BY <1>2, <2>1, CommitPosts DEF EntriesHaveDocs
  <2>2. CASE job[r].box # None
    <3> DEFINE b == job[r].box
               e == Entry(r)
    <3>1. b \in Boxes /\ docs' = docs \cup {r} /\ ledger' = [ledger EXCEPT ![b] = Append(@, e)]
      BY <1>2, <2>2, CommitPosts
    <3>2. e.ref = r
      BY DEF Entry
    <3>3. \A x \in Boxes : ledger[x] \in Seq([ref : Requests, delta : Int, after : Int])
      BY DEF TypeInv, TypeOK
    <3>4. ledger'[b] = Append(ledger[b], e) /\ \A x \in Boxes \ {b} : ledger'[x] = ledger[x]
      BY <3>1 DEF TypeInv, TypeOK
    <3> HIDE DEF b, e
    <3>5. ASSUME NEW x \in Boxes, NEW i \in 1..Len(ledger'[x])
          PROVE  ledger'[x][i].ref \in docs'
      <4>1. CASE x # b
        BY <3>1, <3>4, <3>5, <4>1 DEF EntriesHaveDocs
      <4>2. CASE x = b
        <5> DEFINE s == ledger[b]
        <5>0. s \in Seq([ref : Requests, delta : Int, after : Int])
          BY <3>1, <3>3
        <5>1. i \in 1..Len(s) + 1 /\ ledger'[x][i] = IF i = Len(s) + 1 THEN e ELSE s[i]
          <6> HIDE DEF s
          <6>1. i \in 1..Len(Append(s, e)) /\ ledger'[x][i] = Append(s, e)[i]
            BY <3>4, <3>5, <4>2 DEF s
          <6> QED BY <5>0, <6>1
        <5>2. Len(s) \in Nat
          BY <5>0
        <5>3. CASE i = Len(s) + 1
          BY <3>1, <3>2, <5>1, <5>3
        <5>4. CASE i # Len(s) + 1
          <6>1. i \in 1..Len(s) /\ ledger'[x][i] = s[i]
            BY <5>1, <5>2, <5>4
          <6> QED BY <3>1, <6>1 DEF EntriesHaveDocs
        <5> QED BY <5>3, <5>4
      <4> QED BY <4>1, <4>2
    <3> QED BY <3>5 DEF EntriesHaveDocs
  <2> QED BY <2>1, <2>2
<1>3. ASSUME NEW r \in Requests, Progress(r) \/ FailAny(r), ~CommitAll(r) PROVE EntriesHaveDocs'
  BY <1>1, <1>3, ProgressShape
     DEF Quiet, InsertBox, CreateTrx, CancelTrx, MarkFailed, SetTrxStatus, accTables
<1>4. ASSUME NEW r \in Requests, ArriveAny(r) \/ UserPays(r) PROVE EntriesHaveDocs'
  BY <1>1, <1>4, ArriveShape DEF UserPays, accVars
<1> QED BY <1>1, <1>2, <1>3, <1>4 DEF Next, vars

\* The commit of a movement is one posting of the ledger.
LEMMA CommitIsPost ==
  ASSUME TypeInv, LinkInv, BoxesInv, BoxInv, EntriesHaveDocs, overlapped = {},
         NEW r \in Requests, CommitAll(r), job[r].box # None
  PROVE  \E b \in Boxes : \E ref \in Requests : L!PostSome(ref, b)
<1> DEFINE b == job[r].box
           e == Entry(r)
<1>1. /\ pc[r] = "commit" /\ b \in Boxes /\ UNCHANGED created
      /\ balance' = [balance EXCEPT ![b] = BalanceAfter(r)]
      /\ ledger' = [ledger EXCEPT ![b] = Append(@, e)]
  BY CommitPosts DEF CommitAll, Commit
<1>2. b \in created
  BY <1>1 DEF BoxesInv, MovementsNameBoxes, TypeInv, JobsFit, Fits, InTransaction
<1>3. sawBalance[r] = balance[b]
  BY <1>1 DEF BoxInv, BoxCurrent, HasReadBox
<1>4. e = [ref |-> r, delta |-> Delta(job[r]), after |-> balance[b] + Delta(job[r])]
      /\ BalanceAfter(r) = balance[b] + Delta(job[r])
  BY <1>3 DEF Entry, BalanceAfter
<1>5. r \notin docs
  BY <1>1 DEF LinkInv, DocsAreDone
<1>6. ledger[b] \in Seq([ref : Requests, delta : Int, after : Int]) /\ DOMAIN ledger = Boxes
  BY <1>1 DEF TypeInv, TypeOK
<1> HIDE DEF b, e
<1>7. ledger'[b] = Append(ledger[b], e)
  BY <1>1, <1>6
<1>8. Len(ledger'[b]) = Len(ledger[b]) + 1 /\ ledger'[b][Len(ledger'[b])] = e
  <2> DEFINE s == ledger[b]
  <2>1. s \in Seq([ref : Requests, delta : Int, after : Int])
    BY <1>6
  <2> HIDE DEF s
  <2>2. Len(Append(s, e)) = Len(s) + 1 /\ Append(s, e)[Len(s) + 1] = e
    BY <2>1
  <2> QED BY <1>7, <2>2 DEF s
<1>9. ledger'[b][Len(ledger'[b])].delta = Delta(job[r])
  BY <1>4, <1>8
<1>10. \A x \in Boxes : \A i \in 1..Len(ledger[x]) : ledger[x][i].ref # r
  BY <1>5 DEF EntriesHaveDocs
<1>11. L!Post(r, b, Delta(job[r]))
  <2> DEFINE d == Delta(job[r])
  <2>1. balance' = [balance EXCEPT ![b] = balance[b] + d]
    BY <1>1, <1>4
  <2>2. ledger' = [ledger EXCEPT ![b] =
                     Append(ledger[b], [ref |-> r, delta |-> d, after |-> balance[b] + d])]
    BY <1>1, <1>4
  <2> HIDE DEF d
  <2>3. L!Post(r, b, d)
    BY <1>1, <1>2, <1>10, <2>1, <2>2 DEF L!Post
  <2> QED BY <2>3 DEF d
<1>12. L!PostSome(r, b)
  BY <1>8, <1>9, <1>11 DEF L!PostSome
<1> QED BY <1>1, <1>12

\* A new cashbox opens at its opening balance, which its column has held.
LEMMA InsertIsOpen ==
  ASSUME TypeInv, BoxesInv, BoxInv, overlapped = {}, NEW r \in Requests, InsertBox(r)
  PROVE  \E b \in Boxes : L!Open(b)
<1> DEFINE b == job[r].box
<1>1. b \in Boxes /\ b \notin created
  BY DEF InsertBox, TypeInv, JobsFit, Fits, BoxesInv, NewBoxesAreNew, Inserting
<1>2. posted[b] = 0 /\ balance[b] = Opening[b] + posted[b] /\ Opening[b] \in Int
  BY <1>1 DEF BoxesInv, NoMoneyBefore, BoxInv, BoxCurrent
<1>3. balance[b] = Opening[b]
  BY <1>2
<1>4. /\ created' = created \cup {b} /\ UNCHANGED ledger
      /\ balance' = [balance EXCEPT ![b] = Opening[b]]
      /\ balance \in [Boxes -> Int]
  BY DEF InsertBox, TypeInv, TypeOK
<1>5. UNCHANGED balance
  BY <1>3, <1>4
<1> QED BY <1>1, <1>4, <1>5 DEF L!Open

LEMMA StepIsLedgerStep ==
  ASSUME TypeInv, LinkInv, BoxesInv, BoxInv, EntriesHaveDocs, overlapped = {}, [Next]_vars
  PROVE  [L!Next]_(L!ledgerVars)
<1>1. ASSUME UNCHANGED <<created, balance, ledger>> PROVE [L!Next]_(L!ledgerVars)
  BY <1>1 DEF L!ledgerVars
<1>2. ASSUME NEW r \in Requests, Progress(r) \/ FailAny(r) PROVE [L!Next]_(L!ledgerVars)
  <2>1. CASE CommitAll(r) /\ job[r].box # None
    BY <2>1, CommitIsPost DEF L!Next
  <2>2. CASE CommitAll(r) /\ job[r].box = None
    BY <1>1, <2>2, CommitPosts
  <2>3. CASE InsertBox(r)
    BY <2>3, InsertIsOpen DEF L!Next
  <2>4. CASE CreateTrx(r) \/ CancelTrx(r) \/ MarkFailed(r)
    BY <1>1, <2>4 DEF CreateTrx, CancelTrx, MarkFailed, SetTrxStatus, accTables
  <2> QED BY <1>1, <1>2, <2>1, <2>2, <2>3, <2>4, ProgressShape DEF Quiet
<1>3. ASSUME NEW r \in Requests, ArriveAny(r) \/ UserPays(r) PROVE [L!Next]_(L!ledgerVars)
  BY <1>1, <1>3, ArriveShape DEF UserPays, accVars
<1> QED BY <1>1, <1>2, <1>3 DEF Next, vars

(***************************************************************************)
(* Requests that come one after the other post as the abstract ledger      *)
(* does: one entry per document, carrying the balance after it, with every *)
(* kind of handler, every failure, and cashboxes created on the way.       *)
(***************************************************************************)
THEOREM ImplementsLedgerWhenSerial == Serial => (Spec => ImplementsLedger)
<1> SUFFICES ASSUME Serial PROVE Spec => L!Spec
  BY DEF ImplementsLedger
<1>1. Init => L!Init
  BY DEF Init, AccInit, L!Init
<1>2. SerialInv => overlapped = {}
  BY DEF SerialInv
<1>3. /\ TypeInv /\ LinkInv /\ BoxesInv /\ BoxInv /\ EntriesHaveDocs /\ overlapped = {}
      /\ [Next]_vars
      => [L!Next]_(L!ledgerVars)
  BY StepIsLedgerStep
<1> QED
  BY <1>1, <1>2, <1>3, InitTypeInv, InitLinkInv, InitSerialInv, InitBoxesInv, InitBoxInv,
     InitEntries, TypeInvInductive, LinkInvInductive, SerialInvInductive, BoxesInvInductive,
     BoxInvInductive, EntriesInductive, PTL DEF Spec, L!Spec

-----------------------------------------------------------------------------
(***************************************************************************)
(* Figures: what the reports and screens show, computed from the tables.   *)
(***************************************************************************)

(* Debts *)

LEMMA RemainingType ==
  ASSUME TypeInv, StatusInv
  PROVE  /\ Owing \subseteq Charges /\ IsFiniteSet(Owing)
         /\ \A c \in Charges : Remaining(c) \in Int /\ AtLeastZero(Remaining(c)) \in Nat
         /\ \A c \in Owing : Remaining(c) \in Nat /\ AtLeastZero(Remaining(c)) = Remaining(c)
         /\ \A c \in Charges \ Owing : AtLeastZero(Remaining(c)) = 0
<1>1. \A c \in Charges : paid[c] \in Nat /\ Due[c] \in Nat
  BY DEF TypeInv, TypeOK
<1>2. \A c \in Charges : Remaining(c) \in Int /\ AtLeastZero(Remaining(c)) \in Nat
  BY <1>1 DEF Remaining, AtLeastZero
<1>3. ASSUME NEW c \in Charges, status[c] # "PAID" PROVE paid[c] <= Due[c]
  BY <1>1, <1>3 DEF StatusInv, ChargeStatus
<1>4. ASSUME NEW c \in Charges, status[c] = "PAID" PROVE paid[c] >= Due[c]
  BY <1>1, <1>4 DEF StatusInv, ChargeStatus
<1>5. Owing \subseteq Charges /\ IsFiniteSet(Owing)
  BY FiguresAssumption, FS_Subset DEF Owing
<1>6. \A c \in Owing : Remaining(c) \in Nat /\ AtLeastZero(Remaining(c)) = Remaining(c)
  BY <1>1, <1>3 DEF Owing, Remaining, AtLeastZero
<1>7. \A c \in Charges \ Owing : AtLeastZero(Remaining(c)) = 0
  BY <1>1, <1>4 DEF Owing, Remaining, AtLeastZero
<1> QED BY <1>2, <1>5, <1>6, <1>7

\* The rests of charges, as a function.
Rest == [c \in Charges |-> AtLeastZero(Remaining(c))]

OwedBy(u) == {c \in Owing : UnitOf[c] = u}

LEMMA RestType ==
  ASSUME TypeInv, StatusInv
  PROVE  /\ \A c \in Charges : Rest[c] \in Nat /\ Rest[c] = AtLeastZero(Remaining(c))
         /\ \A c \in Owing : Rest[c] = Remaining(c)
         /\ \A c \in Charges \ Owing : Rest[c] = 0
         /\ \A cs \in SUBSET Charges : IsFiniteSet(cs) /\ SumFunctionOnSet(Rest, cs) \in Nat
<1>1. /\ \A c \in Charges : Rest[c] \in Nat /\ Rest[c] = AtLeastZero(Remaining(c))
      /\ \A c \in Owing : Rest[c] = Remaining(c)
      /\ \A c \in Charges \ Owing : Rest[c] = 0
  BY RemainingType DEF Rest
<1>2. ASSUME NEW cs \in SUBSET Charges
      PROVE  IsFiniteSet(cs) /\ SumFunctionOnSet(Rest, cs) \in Nat
  <2>1. IsFiniteSet(cs)
    BY FiguresAssumption, FS_Subset
  <2>2. \A c \in cs : Rest[c] \in Nat
    BY <1>1
  <2> QED BY <2>1, <2>2, SumNat
<1> QED BY <1>1, <1>2

\* A sum over some of the owing charges, whether it cuts off or not.
LEMMA SumOfRests ==
  ASSUME TypeInv, StatusInv, NEW cs \in SUBSET Owing
  PROVE  /\ SumFunction([c \in cs |-> Remaining(c)]) = SumFunctionOnSet(Rest, cs)
         /\ SumFunction([c \in cs |-> AtLeastZero(Remaining(c))]) = SumFunctionOnSet(Rest, cs)
<1> DEFINE f == [c \in cs |-> Remaining(c)]
           g == [c \in cs |-> AtLeastZero(Remaining(c))]
<1>1. cs \in SUBSET Charges /\ IsFiniteSet(cs)
  BY RemainingType, RestType
<1>2. \A c \in cs : Rest[c] \in Int /\ Rest[c] = f[c] /\ Rest[c] = g[c]
  <2>1. \A c \in cs : c \in Owing /\ c \in Charges
    BY <1>1
  <2> QED BY <2>1, RestType
<1>3. DOMAIN f = cs /\ DOMAIN g = cs
  OBVIOUS
<1> HIDE DEF f, g
<1>4. /\ SumFunctionOnSet(Rest, cs) = SumFunctionOnSet(f, cs)
      /\ SumFunctionOnSet(Rest, cs) = SumFunctionOnSet(g, cs)
  BY <1>1, <1>2, SumEqual
<1>5. SumFunction(f) = SumFunctionOnSet(f, cs) /\ SumFunction(g) = SumFunctionOnSet(g, cs)
  BY <1>3 DEF SumFunction
<1> QED BY <1>4, <1>5 DEF f, g

LEMMA DebtOfUnit ==
  ASSUME TypeInv, StatusInv, NEW u
  PROVE  DebtOf({u}) = SumFunctionOnSet(Rest, OwedBy(u))
<1>1. OwedBy(u) \in SUBSET Owing /\ OwedBy(u) \in SUBSET Charges
  BY RemainingType DEF OwedBy
<1>2. {c \in Owing : UnitOf[c] \in {u}} = OwedBy(u)
  BY DEF OwedBy
<1>3. DebtOf({u}) = AtLeastZero(SumFunction([c \in OwedBy(u) |-> Remaining(c)]))
  BY <1>2 DEF DebtOf
<1>4. SumFunction([c \in OwedBy(u) |-> Remaining(c)]) = SumFunctionOnSet(Rest, OwedBy(u))
  BY <1>1, SumOfRests
<1>5. SumFunctionOnSet(Rest, OwedBy(u)) \in Nat
  BY <1>1, RestType
<1> QED BY <1>3, <1>4, <1>5 DEF AtLeastZero

\* A unit owes something iff one of its charges has a rest.
LEMMA DebtIsPositive ==
  ASSUME TypeInv, StatusInv, NEW u
  PROVE  SumFunctionOnSet(Rest, OwedBy(u)) > 0 <=> \E c \in OwedBy(u) : Remaining(c) > 0
<1>1. OwedBy(u) \subseteq Owing /\ OwedBy(u) \in SUBSET Charges /\ IsFiniteSet(OwedBy(u))
  BY RemainingType, RestType DEF OwedBy
<1>2. \A c \in OwedBy(u) : Rest[c] \in Nat /\ Rest[c] = Remaining(c)
  BY <1>1, RestType
<1>3. ASSUME NEW c \in OwedBy(u), Remaining(c) > 0
      PROVE  SumFunctionOnSet(Rest, OwedBy(u)) > 0
  <2>1. Rest[c] <= SumFunctionOnSet(Rest, OwedBy(u)) /\ SumFunctionOnSet(Rest, OwedBy(u)) \in Nat
    BY <1>1, <1>2, SumNat
  <2> QED BY <1>2, <1>3, <2>1
<1>4. ASSUME \A c \in OwedBy(u) : ~(Remaining(c) > 0)
      PROVE  SumFunctionOnSet(Rest, OwedBy(u)) = 0
  <2>1. \A c \in OwedBy(u) : Rest[c] = 0
    BY <1>2, <1>4
  <2>2. 0 \in Int
    OBVIOUS
  <2>3. SumFunctionOnSet(Rest, OwedBy(u)) = Cardinality(OwedBy(u)) * 0
    BY <1>1, <2>1, <2>2, SumConstant
  <2>4. Cardinality(OwedBy(u)) \in Nat
    BY <1>1, FS_CardinalityType
  <2> QED BY <2>3, <2>4
<1> QED BY <1>3, <1>4

LEMMA DebtorsAre ==
  ASSUME TypeInv, StatusInv
  PROVE  /\ DOMAIN Debtors = {u \in {UnitOf[c] : c \in Owing} : SumFunctionOnSet(Rest, OwedBy(u)) > 0}
         /\ \A u \in DOMAIN Debtors : Debtors[u] = SumFunctionOnSet(Rest, OwedBy(u))
<1> DEFINE us == {UnitOf[c] : c \in Owing}
           debt == [u \in us |-> SumFunction([c \in {c \in Owing : UnitOf[c] = u} |->
                                                AtLeastZero(Remaining(c))])]
<1>1. Debtors = [u \in {u \in DOMAIN debt : debt[u] > 0} |-> debt[u]]
  BY DEF Debtors
<1>2. ASSUME NEW u \in us PROVE debt[u] = SumFunctionOnSet(Rest, OwedBy(u))
  <2>1. OwedBy(u) \in SUBSET Owing
    BY DEF OwedBy
  <2>2. debt[u] = SumFunction([c \in OwedBy(u) |-> AtLeastZero(Remaining(c))])
    BY DEF OwedBy
  <2> QED BY <2>1, <2>2, SumOfRests
<1>3. DOMAIN debt = us
  OBVIOUS
<1> HIDE DEF us, debt
<1> QED BY <1>1, <1>2, <1>3 DEF us

LEMMA DebtorsAreOnDashboard ==
  ASSUME TypeInv, StatusInv
  PROVE  /\ DOMAIN Debtors = DashboardDebt.units
         /\ SumFunction(Debtors) = DashboardDebt.total
<1> DEFINE us == {UnitOf[c] : c \in Owing}
           open == {c \in Owing : Remaining(c) > 0}
           debt == [u \in us |-> SumFunctionOnSet(Rest, OwedBy(u))]
           unit == [c \in Owing |-> UnitOf[c]]
           shown == DOMAIN Debtors
<1>1. /\ DashboardDebt.units = {UnitOf[c] : c \in open}
      /\ DashboardDebt.total = SumFunction([c \in open |-> Remaining(c)])
  BY DEF DashboardDebt
<1>2. shown = {u \in us : \E c \in OwedBy(u) : Remaining(c) > 0}
  BY DebtorsAre, DebtIsPositive
<1>3. shown = DashboardDebt.units
  BY <1>1, <1>2 DEF OwedBy
<1>4. /\ IsFiniteSet(Owing) /\ IsFiniteSet(us) /\ shown \in SUBSET us
      /\ IsFiniteSet(open) /\ open \in SUBSET Owing
  <2>1. IsFiniteSet(Owing) /\ us = {unit[c] : c \in Owing}
    BY RemainingType
  <2>2. IsFiniteSet({unit[c] : c \in Owing})
    BY <2>1, ImageIsFinite
  <2>3. shown \in SUBSET us /\ open \in SUBSET Owing
    BY <1>2
  <2> HIDE DEF us, open, unit, shown
  <2> QED BY <2>1, <2>2, <2>3, FS_Subset
<1>5. \A u \in us : debt[u] = SumFunctionOnSet(Rest, {c \in Owing : unit[c] = u}) /\ debt[u] \in Nat
  <2> SUFFICES ASSUME NEW u \in us
               PROVE  /\ debt[u] = SumFunctionOnSet(Rest, {c \in Owing : unit[c] = u})
                      /\ debt[u] \in Nat
    OBVIOUS
  <2>1. {c \in Owing : unit[c] = u} = OwedBy(u) /\ OwedBy(u) \in SUBSET Charges
    BY RemainingType DEF OwedBy
  <2> QED BY <2>1, RestType
<1>d. \A u \in us : debt[u] \in Int
  <2> SUFFICES ASSUME NEW u \in us PROVE debt[u] \in Int
    OBVIOUS
  <2> HIDE DEF debt, us
  <2>1. debt[u] \in Nat
    BY <1>5
  <2> QED BY <2>1
<1>6. \A c \in Owing : unit[c] \in us /\ Rest[c] \in Int /\ c \in Charges
  BY RemainingType, RestType
<1>7. \A u \in shown : Debtors[u] = debt[u]
  BY <1>4, DebtorsAre
<1>8. \A u \in us \ shown : debt[u] = 0
  <2> SUFFICES ASSUME NEW u \in us \ shown PROVE debt[u] = 0
    OBVIOUS
  <2>1. ~(SumFunctionOnSet(Rest, OwedBy(u)) > 0) /\ debt[u] = SumFunctionOnSet(Rest, OwedBy(u))
    BY <1>2, DebtIsPositive
  <2>2. debt[u] \in Nat
    BY <1>5
  <2> HIDE DEF debt
  <2> QED BY <2>1, <2>2
<1>9. \A c \in Owing \ open : Rest[c] = 0
  BY RemainingType, RestType
<1>10. SumFunction([c \in open |-> Remaining(c)]) = SumFunctionOnSet(Rest, open)
  BY <1>4, SumOfRests
<1> HIDE DEF us, open, debt, unit
<1>11. SumFunctionOnSet(debt, us) = SumFunctionOnSet(Rest, Owing)
  BY <1>4, <1>5, <1>6, SumGroups, SMTT(30)
<1>12. SumFunctionOnSet(Rest, Owing) = SumFunctionOnSet(Rest, open)
  BY <1>4, <1>6, <1>9, SumNonzero
<1>13. SumFunctionOnSet(debt, us) = SumFunctionOnSet(debt, shown)
  BY <1>4, <1>8, <1>d, SumNonzero
<1>14. SumFunctionOnSet(debt, shown) = SumFunction(Debtors)
  <2>1. \A u \in shown : debt[u] \in Int /\ debt[u] = Debtors[u]
    BY <1>4, <1>7, <1>d
  <2>2. IsFiniteSet(shown)
    BY <1>4, FS_Subset
  <2>3. SumFunctionOnSet(debt, shown) = SumFunctionOnSet(Debtors, shown)
    BY <2>1, <2>2, SumEqual
  <2> QED BY <2>3 DEF SumFunction
<1> QED BY <1>1, <1>3, <1>10, <1>11, <1>12, <1>13, <1>14

\* A sum over more charges is no smaller.
LEMMA MoreRests ==
  ASSUME TypeInv, StatusInv, NEW some, NEW cs \in SUBSET Charges, some \subseteq cs
  PROVE  SumFunctionOnSet(Rest, some) <= SumFunctionOnSet(Rest, cs)
<1>1. some \in SUBSET Charges /\ cs \ some \in SUBSET Charges
  OBVIOUS
<1>2. /\ IsFiniteSet(some) /\ SumFunctionOnSet(Rest, some) \in Nat
      /\ IsFiniteSet(cs \ some) /\ SumFunctionOnSet(Rest, cs \ some) \in Nat
  BY <1>1, RestType
<1>3. some \cup (cs \ some) = cs /\ some \cap (cs \ some) = {}
  OBVIOUS
<1>4. \A c \in some \cup (cs \ some) : Rest[c] \in Int
  BY <1>1, RestType
<1>5. SumFunctionOnSet(Rest, cs) = SumFunctionOnSet(Rest, some) + SumFunctionOnSet(Rest, cs \ some)
  BY <1>2, <1>3, <1>4, SumUnion
<1> QED BY <1>2, <1>5

\* The resident's query looks at some charges of the unit, at all when they are few.
LEMMA ResidentDebtBounded ==
  ASSUME TypeInv, StatusInv, NEW u
  PROVE  /\ ResidentDebt({u}) <= SumFunctionOnSet(Rest, OwedBy(u))
         /\ Cardinality({c \in Charges : UnitOf[c] = u}) <= Latest
              => ResidentDebt({u}) = SumFunctionOnSet(Rest, OwedBy(u))
<1> DEFINE mine == {i \in 1..Len(Issued) : UnitOf[Issued[i]] \in {u}}
           later(i) == {j \in mine : j > i}
           shown == {Issued[i] : i \in {i \in mine : Cardinality(later(i)) < Latest}}
           cs == {c \in Charges : UnitOf[c] = u}
           seen == shown \cap Owing
<1>0. Issued \in Seq(Charges) /\ Range(Issued) = Charges /\ IsInjective(Issued)
  BY FiguresAssumption
<1>1. /\ \A i \in mine : i \in 1..Len(Issued) /\ Issued[i] \in cs
      /\ IsFiniteSet(mine) /\ mine \in SUBSET (1..Len(Issued)) /\ Len(Issued) \in Nat
  <2>1. Len(Issued) \in Nat /\ IsFiniteSet(1..Len(Issued))
    BY <1>0, FS_Interval
  <2>2. \A i \in 1..Len(Issued) : Issued[i] \in Charges
    BY <1>0
  <2> QED BY <2>1, <2>2, FS_Subset
<1>2. cs = {Issued[i] : i \in mine}
  <2>1. ASSUME NEW c \in cs PROVE c \in {Issued[i] : i \in mine}
    <3>1. PICK i \in DOMAIN Issued : c = Issued[i]
      BY <1>0 DEF Range
    <3>2. i \in mine
      BY <1>0, <3>1
    <3> QED BY <3>1, <3>2
  <2> HIDE DEF mine
  <2>2. \A i \in mine : Issued[i] \in cs
    BY <1>1
  <2> QED BY <2>1, <2>2
<1>3. Cardinality(cs) = Cardinality(mine)
  <2>1. \A i, j \in mine : Issued[i] = Issued[j] => i = j
    BY <1>0 DEF IsInjective
  <2>2. IsFiniteSet(mine)
    BY <1>1
  <2> HIDE DEF mine, cs
  <2>3. Cardinality({Issued[i] : i \in mine}) = Cardinality(mine)
    BY <2>1, <2>2, ImageIsFinite
  <2> QED BY <1>2, <2>3
<1>4. seen \subseteq OwedBy(u)
  <2> HIDE DEF mine
  <2> QED BY <1>1 DEF OwedBy
<1>5. ResidentDebt({u}) = SumFunctionOnSet(Rest, seen)
  <2>1. ResidentDebt({u}) = AtLeastZero(SumFunction([c \in seen |-> Remaining(c)]))
    BY DEF ResidentDebt
  <2> HIDE DEF shown
  <2>2. SumFunction([c \in seen |-> Remaining(c)]) = SumFunctionOnSet(Rest, seen)
    BY SumOfRests
  <2>3. SumFunctionOnSet(Rest, seen) \in Nat
    <3>1. seen \in SUBSET Charges
      BY RemainingType
    <3> QED BY <3>1, RestType
  <2> QED BY <2>1, <2>2, <2>3 DEF AtLeastZero
<1>6. ASSUME Cardinality(cs) <= Latest PROVE seen = OwedBy(u)
  <2>1. ASSUME NEW c \in OwedBy(u) PROVE c \in shown
    <3>1. c \in cs
      BY RemainingType DEF OwedBy
    <3>2. PICK i \in mine : c = Issued[i]
      BY <1>2, <3>1
    <3>3. later(i) \in SUBSET (mine \ {i})
      BY <1>1
    <3> HIDE DEF mine, later
    <3>4. IsFiniteSet(mine \ {i}) /\ Cardinality(mine \ {i}) = Cardinality(mine) - 1
      BY <1>1, FS_RemoveElement
    <3>5. /\ Cardinality(later(i)) <= Cardinality(mine \ {i})
          /\ Cardinality(later(i)) \in Nat /\ Cardinality(mine) \in Nat
      <4>1. Cardinality(later(i)) <= Cardinality(mine \ {i}) /\ IsFiniteSet(later(i))
        BY <3>3, <3>4, FS_Subset
      <4> QED BY <1>1, <4>1, FS_CardinalityType
    <3>6. Cardinality(later(i)) < Latest
      <4>1. Cardinality(mine) <= Latest /\ Latest \in Nat
        BY <1>3, <1>6, FiguresAssumption
      <4> QED BY <3>4, <3>5, <4>1
    <3> QED BY <3>2, <3>6
  <2> HIDE DEF shown
  <2>2. OwedBy(u) \subseteq Owing
    BY DEF OwedBy
  <2> QED BY <1>4, <2>1, <2>2
<1> HIDE DEF mine, shown, seen
<1>7. SumFunctionOnSet(Rest, seen) <= SumFunctionOnSet(Rest, OwedBy(u))
  <2>1. OwedBy(u) \in SUBSET Charges
    BY RemainingType DEF OwedBy
  <2> QED BY <1>4, <2>1, MoreRests
<1> QED BY <1>5, <1>6, <1>7

LEMMA DebtsAgree ==
  ASSUME TypeInv, StatusInv, \A c \in Charges : paid[c] = collected[c]
  PROVE  DebtFiguresAgree
<1>1. DOMAIN Debtors = DashboardDebt.units /\ SumFunction(Debtors) = DashboardDebt.total
  BY DebtorsAreOnDashboard
<1>2. ASSUME NEW u \in UnitsCharged
      PROVE  DebtOf({u}) = IF u \in DOMAIN Debtors THEN Debtors[u] ELSE 0
  <2>1. DebtOf({u}) = SumFunctionOnSet(Rest, OwedBy(u))
    BY DebtOfUnit
  <2>2. CASE u \in DOMAIN Debtors
    BY <2>1, <2>2, DebtorsAre
  <2>3. CASE u \notin DOMAIN Debtors
    <3>1. ~(SumFunctionOnSet(Rest, OwedBy(u)) > 0)
      <4>1. CASE OwedBy(u) = {}
        BY <4>1, SumEmpty
      <4>2. CASE OwedBy(u) # {}
        <5>1. u \in {UnitOf[c] : c \in Owing}
          BY <4>2 DEF OwedBy
        <5> QED BY <2>3, <5>1, DebtorsAre
      <4> QED BY <4>1, <4>2
    <3>2. SumFunctionOnSet(Rest, OwedBy(u)) \in Nat
      <4>1. OwedBy(u) \in SUBSET Charges
        BY RemainingType DEF OwedBy
      <4> QED BY <4>1, RestType
    <3> QED BY <2>1, <2>3, <3>1, <3>2
  <2> QED BY <2>2, <2>3
<1>3. ASSUME NEW u \in UnitsCharged
      PROVE  /\ DebtOf({u}) = SumFunction([c \in {c \in Charges : UnitOf[c] = u} |->
                                             AtLeastZero(Due[c] - collected[c])])
             /\ DebtOf({u}) = SumFunction(UnitCharges(u))
  <2> DEFINE cs == {c \in Charges : UnitOf[c] = u}
             f == [c \in cs |-> AtLeastZero(Due[c] - collected[c])]
  <2>1. cs \in SUBSET Charges /\ OwedBy(u) \in SUBSET cs
    BY RemainingType DEF OwedBy
  <2>2. \A c \in cs : f[c] = Rest[c] /\ Rest[c] \in Int
    <3>1. \A c \in cs : AtLeastZero(Due[c] - collected[c]) = AtLeastZero(Remaining(c))
      BY DEF Remaining
    <3> QED BY <3>1, RestType
  <2>3. \A c \in cs \ OwedBy(u) : Rest[c] = 0
    BY RestType DEF OwedBy
  <2>4. DOMAIN f = cs /\ IsFiniteSet(cs)
    BY <2>1, RestType
  <2>0. f = UnitCharges(u)
    BY DEF UnitCharges, Remaining
  <2> HIDE DEF f, cs
  <2>5. SumFunctionOnSet(f, cs) = SumFunctionOnSet(Rest, cs)
    BY <2>2, <2>4, SumEqual
  <2>6. SumFunctionOnSet(Rest, cs) = SumFunctionOnSet(Rest, OwedBy(u))
    BY <2>1, <2>2, <2>3, <2>4, SumNonzero
  <2>7. SumFunction(f) = DebtOf({u})
    BY <2>4, <2>5, <2>6, DebtOfUnit DEF SumFunction
  <2> QED BY <2>0, <2>7 DEF f, cs
<1>4. ASSUME NEW u \in UnitsCharged
      PROVE  /\ ResidentDebt({u}) <= DebtOf({u})
             /\ Cardinality({c \in Charges : UnitOf[c] = u}) <= Latest
                  => ResidentDebt({u}) = DebtOf({u})
  BY DebtOfUnit, ResidentDebtBounded
<1> QED BY <1>1, <1>2, <1>3, <1>4 DEF DebtFiguresAgree

(***************************************************************************)
(* The list of debtors, the dashboard, the page of a unit and that of a    *)
(* resident show the same debts, and what is not collected, as long as no  *)
(* two payments of a charge overlap: for every payment, failure and charge *)
(* paid beyond what is due.                                                *)
(***************************************************************************)
THEOREM DebtsAgreeUnlessOverlapped ==
  Spec => [](overlapped \cap Charges = {} => DebtFiguresAgree)
<1>1. ASSUME TypeInv, ChargeInv, StatusInv, overlapped \cap Charges = {}
      PROVE  DebtFiguresAgree
  <2>1. \A c \in Charges : paid[c] = collected[c]
    BY <1>1 DEF ChargeInv, ReadsCurrent
  <2> QED BY <1>1, <2>1, DebtsAgree
<1>2. TypeInv /\ ChargeInv /\ StatusInv => (overlapped \cap Charges = {} => DebtFiguresAgree)
  BY <1>1
<1> QED
  BY <1>2, InitTypeInv, InitChargeInv, InitStatusInv, TypeInvInductive, ChargeInvInductive,
     StatusInvInductive, PTL DEF Spec

(***************************************************************************)
(* So all screens agree on the debts when payments come one after another. *)
(***************************************************************************)
THEOREM DebtsAgreeWhenSerial == Serial => (Spec => []DebtFiguresAgree)
<1> SUFFICES ASSUME Serial PROVE Spec => []DebtFiguresAgree
  OBVIOUS
<1>1. SerialInv => overlapped \cap Charges = {}
  BY DEF SerialInv
<1> QED
  BY <1>1, InitTypeInv, InitLinkInv, InitSerialInv, TypeInvInductive, LinkInvInductive,
     SerialInvInductive, DebtsAgreeUnlessOverlapped, PTL DEF Spec

-----------------------------------------------------------------------------
(* Documents and the money posted *)

Recorded == {"income", "expense", "manual", "verify"}

Posted(rs) == SumFunction([r \in rs |-> Delta(job[r])])

(***************************************************************************)
(* What is posted on a cashbox is the sum of the documents that name it.   *)
(***************************************************************************)
MovementsInv ==
  /\ \A r \in docs : job[r].kind \in Recorded
  /\ \A b \in Boxes : posted[b] = Posted({r \in docs : job[r].box = b})

(***************************************************************************)
(* A building that starts with a cashbox posts every document: verifyOnline *)
(* leaves out the movement only when it finds no cashbox.                  *)
(***************************************************************************)
DocsInv ==
  SeedBoxes # {} =>
    /\ created # {}
    /\ \A r \in Requests : pc[r] \in InTransaction \/ r \in docs => job[r].box \in Boxes

\* Posted as a sum of one function, with what it ranges over.
LEMMA PostedIs ==
  ASSUME TypeInv, NEW rs \in SUBSET Requests,
         NEW f, \A r \in rs : f[r] = Delta(job[r])
  PROVE  /\ IsFiniteSet(rs) /\ \A r \in rs : f[r] \in Int
         /\ Posted(rs) = SumFunctionOnSet(f, rs)
<1> DEFINE g == [r \in rs |-> Delta(job[r])]
<1>1. \A r \in rs : f[r] \in Int
  <2>1. \A r \in rs : job[r].amount \in Nat
    BY DEF TypeInv, TypeOK, JobType
  <2> QED BY <2>1 DEF Delta
<1>2. IsFiniteSet(rs)
  BY FiguresAssumption, FS_Subset
<1>3. DOMAIN g = rs /\ \A r \in rs : f[r] = g[r]
  OBVIOUS
<1> HIDE DEF g
<1>4. SumFunctionOnSet(f, rs) = SumFunctionOnSet(g, rs)
  BY <1>1, <1>2, <1>3, SumEqual
<1> QED BY <1>1, <1>2, <1>3, <1>4 DEF Posted, SumFunction, g

LEMMA InitMovements == Init => MovementsInv
<1> SUFFICES ASSUME Init PROVE MovementsInv
  OBVIOUS
<1>1. docs = {} /\ \A b \in Boxes : posted[b] = 0
  BY DEF Init, AccInit
<1>2. \A b \in Boxes : {r \in docs : job[r].box = b} = {}
  BY <1>1
<1>3. Posted({}) = 0
  BY SumEmpty DEF Posted, SumFunction
<1> QED BY <1>1, <1>2, <1>3 DEF MovementsInv

LEMMA InitDocs == Init => DocsInv
  BY DEF Init, AccInit, DocsInv, InTransaction

\* A document does not change, and nothing is posted but by a commit.
LEMMA DocsStay ==
  ASSUME TypeInv, LinkInv, [Next]_vars
  PROVE  \/ /\ UNCHANGED <<docs, posted>>
            /\ \A r \in docs : job'[r] = job[r]
         \/ \E r \in Requests : CommitAll(r) /\ r \notin docs
<1>0. \A r \in docs : pc[r] = "done" /\ r \in Requests
  BY DEF LinkInv, DocsAreDone, TypeInv, TypeOK
<1>1. ASSUME NEW r \in Requests, ArriveAny(r)
      PROVE  UNCHANGED <<docs, posted>> /\ \A o \in docs : job'[o] = job[o]
  BY <1>0, <1>1, ArriveShape
<1>2. ASSUME NEW r \in Requests, Progress(r) \/ FailAny(r)
      PROVE  \/ UNCHANGED <<docs, posted>> /\ \A o \in docs : job'[o] = job[o]
             \/ CommitAll(r) /\ r \notin docs
  <2>1. pc[r] \notin Resting /\ \A o \in Requests \ {r} : job'[o] = job[o]
    BY <1>2, ProgressShape
  <2>2. r \notin docs
    BY <1>0, <2>1 DEF Resting
  <2>3. ASSUME Quiet(r) \/ CreateTrx(r) \/ CancelTrx(r) \/ MarkFailed(r)
        PROVE  UNCHANGED <<docs, posted>>
    BY <2>3 DEF Quiet, CreateTrx, CancelTrx, MarkFailed, SetTrxStatus, accTables
  <2> QED BY <1>0, <1>2, <2>1, <2>2, <2>3, ProgressShape
<1>3. ASSUME NEW r \in Requests, UserPays(r)
      PROVE  UNCHANGED <<docs, posted>> /\ \A o \in docs : job'[o] = job[o]
  BY <1>3 DEF UserPays, accVars
<1> QED BY <1>1, <1>2, <1>3 DEF Next, vars

LEMMA MovementsInductive ==
  TypeInv /\ TypeInv' /\ LinkInv /\ MovementsInv /\ [Next]_vars => MovementsInv'
<1> SUFFICES ASSUME TypeInv, TypeInv', LinkInv, MovementsInv, [Next]_vars PROVE MovementsInv'
  OBVIOUS
<1>1. ASSUME UNCHANGED <<docs, posted>>, \A r \in docs : job'[r] = job[r]
      PROVE  MovementsInv'
  <2>1. ASSUME NEW b \in Boxes
        PROVE  /\ {r \in docs' : job'[r].box = b} = {r \in docs : job[r].box = b}
               /\ Posted({r \in docs : job[r].box = b})' = Posted({r \in docs : job[r].box = b})
    <3>1. {r \in docs' : job'[r].box = b} = {r \in docs : job[r].box = b}
      BY <1>1
    <3>2. [r \in {r \in docs : job[r].box = b} |-> Delta(job'[r])] =
            [r \in {r \in docs : job[r].box = b} |-> Delta(job[r])]
      BY <1>1
    <3> QED BY <3>1, <3>2 DEF Posted
  <2> QED BY <1>1, <2>1 DEF MovementsInv
<1>2. ASSUME NEW r \in Requests, CommitAll(r), r \notin docs PROVE MovementsInv'
  <2>1. /\ docs' = docs \cup {r} /\ job' = job /\ docs \subseteq Requests
        /\ job[r].kind \in Recorded /\ job[r].box \in Boxes \cup {None}
        /\ posted \in [Boxes -> Int]
        /\ posted' = IF job[r].box = None THEN posted
                     ELSE [posted EXCEPT ![job[r].box] = @ + Delta(job[r])]
    BY <1>2 DEF CommitAll, Commit, PostMovement, TypeInv, TypeOK, JobType, JobsFit, Fits,
                InTransaction, Recorded
  <2>2. ASSUME NEW b \in Boxes PROVE posted'[b] = Posted({o \in docs : job[o].box = b})'
    <3> DEFINE f == [o \in Requests |-> Delta(job[o])]
               old == {o \in docs : job[o].box = b}
               new == {o \in docs' : job'[o].box = b}
    <3>1. old \in SUBSET Requests /\ new \in SUBSET Requests /\ posted[b] = Posted(old)
      BY <2>1 DEF MovementsInv
    <3>2. \A o \in Requests : f[o] = Delta(job[o]) /\ f[o] = Delta(job'[o])
      BY <2>1
    <3>3. Posted(new) = SumFunctionOnSet(f, new) /\ \A o \in new : f[o] \in Int
      BY <3>1, <3>2, PostedIs
    <3>4. Posted(old) = SumFunctionOnSet(f, old) /\ IsFiniteSet(old)
      BY <3>1, <3>2, PostedIs
    <3>5. Posted({o \in docs : job[o].box = b})' = Posted(new)
      BY <2>1 DEF Posted
    <3>6. CASE job[r].box = b
      <4>1. new = old \cup {r} /\ r \notin old
        BY <1>2, <2>1, <3>6
      <4>2. posted'[b] = posted[b] + f[r] /\ posted[b] \in Int /\ f[r] \in Int
        BY <2>1, <3>2, <3>3, <3>6, <4>1
      <4> HIDE DEF f, old, new
      <4>3. SumFunctionOnSet(f, new) = f[r] + SumFunctionOnSet(f, old)
        BY <3>3, <3>4, <4>1, SumAdd
      <4>4. posted'[b] = Posted(new)
        BY <3>1, <3>3, <3>4, <4>2, <4>3
      <4> QED BY <3>5, <4>4 DEF new
    <3>7. CASE job[r].box # b
      <4>1. new = old
        BY <2>1, <3>7
      <4>2. posted'[b] = posted[b]
        BY <2>1, <3>7
      <4> QED BY <3>1, <3>5, <4>1, <4>2
    <3> QED BY <3>6, <3>7
  <2>3. \A o \in docs' : job'[o].kind \in Recorded
    BY <2>1 DEF MovementsInv
  <2> QED BY <2>2, <2>3 DEF MovementsInv
<1> QED BY <1>1, <1>2, DocsStay

\* The request that moves is in a transaction on a box afterwards.
LEMMA ArriveNamesBox ==
  ASSUME TypeInv, NEW r \in Requests, ArriveAny(r), pc'[r] \in InTransaction
  PROVE  job'[r].box \in Boxes
<1> USE DEF TypeInv, TypeOK, InTransaction
<1>1. ASSUME NEW b \in Boxes, NEW m \in Amounts, NEW k \in {"income", "expense"},
             StartRecord(r, k, b, m)
      PROVE  job'[r].box \in Boxes
  BY <1>1 DEF StartRecord, NoJob
<1>2. ASSUME NEW b \in Boxes, CountBoxes(r, b) PROVE FALSE
  BY <1>2 DEF CountBoxes
<1>3. ASSUME NEW c \in Charges \cup {None}, NEW b \in Boxes, NEW m \in Amounts,
             StartManual(r, c, b, m)
      PROVE  job'[r].box \in Boxes
  BY <1>3 DEF StartManual
<1>4. ASSUME NEW c \in Charges, NEW m \in Amounts \cup {Due[c] - paid[c]}, StartInitiate(r, c, m)
      PROVE  FALSE
  BY <1>4 DEF StartInitiate
<1>5. ASSUME NEW a \in Auths, NEW s \in {"OK", "NOK"}, StartVerify(r, a, s) PROVE FALSE
  BY <1>5 DEF StartVerify
<1> QED BY <1>1, <1>2, <1>3, <1>4, <1>5 DEF ArriveAny, Arrive

LEMMA ProgressNamesBox ==
  ASSUME TypeInv, created # {}, NEW r \in Requests, Progress(r) \/ FailAny(r),
         pc[r] \in InTransaction => job[r].box \in Boxes
  PROVE  /\ pc'[r] \in InTransaction => job'[r].box \in Boxes
         /\ CommitAll(r) => job'[r].box \in Boxes
         /\ created \subseteq created'
<1> USE DEF TypeInv, TypeOK, payVars, accTables
<1>1. ASSUME InsertBox(r) \/ CreateTrx(r) \/ CancelTrx(r) \/ MarkFailed(r) \/ GatewayRefuses(r)
               \/ Fail(r)
      PROVE  pc'[r] \notin InTransaction /\ created \subseteq created'
  BY <1>1 DEF InsertBox, CreateTrx, CancelTrx, MarkFailed, SetTrxStatus, GatewayRefuses, Fail,
              InTransaction
<1>2. ASSUME Movement(r) \/ ReadCharge(r) \/ WriteCharge(r) \/ LockTrx(r) \/ CommitAll(r)
      PROVE  job'[r].box \in Boxes /\ created \subseteq created'
  BY <1>2 DEF Movement, ReadBox, WriteBox, ReadCharge, WriteCharge, LockTrx, CommitAll, Commit,
              InTransaction
<1>3. ASSUME NEW a \in Auths, RequestGateway(r, a)
      PROVE  pc'[r] \notin InTransaction /\ created \subseteq created'
  BY <1>3 DEF RequestGateway, InTransaction
<1>4. ASSUME NEW b \in Boxes \cup {None}, GatewayConfirms(r, b)
      PROVE  job'[r].box \in Boxes /\ created \subseteq created'
  <2>1. b \in Boxes
    BY <1>4 DEF GatewayConfirms, DefaultBoxes
  <2>2. job[r] \in JobType /\ job'[r] = [job[r] EXCEPT !.box = b] /\ created' = created
    BY <1>4 DEF GatewayConfirms
  <2> QED BY <2>1, <2>2 DEF JobType
<1>5. CommitAll(r) => job'[r].box \in Boxes
  BY <1>2
<1> HIDE DEF TypeInv, TypeOK, payVars, accTables
<1> QED BY <1>1, <1>2, <1>3, <1>4, <1>5 DEF Progress, FailAny

LEMMA DocsInductive == TypeInv /\ LinkInv /\ DocsInv /\ [Next]_vars => DocsInv'
<1> SUFFICES ASSUME TypeInv, LinkInv, DocsInv, [Next]_vars, SeedBoxes # {} PROVE DocsInv'
  BY DEF DocsInv
<1>0. /\ created # {} /\ docs \subseteq Requests
      /\ \A r \in Requests : pc[r] \in InTransaction \/ r \in docs => job[r].box \in Boxes
  BY DEF DocsInv, TypeInv, TypeOK
<1>1. ASSUME NEW r \in Requests, ArriveAny(r) PROVE DocsInv'
  <2>1. /\ UNCHANGED <<docs, created>> /\ r \notin docs
        /\ \A o \in Requests \ {r} : pc'[o] = pc[o] /\ job'[o] = job[o]
    BY <1>1, ArriveShape DEF LinkInv, DocsAreDone
  <2> QED BY <1>0, <1>1, <2>1, ArriveNamesBox DEF DocsInv
<1>2. ASSUME NEW r \in Requests, Progress(r) \/ FailAny(r) PROVE DocsInv'
  <2>1. \A o \in Requests \ {r} : pc'[o] = pc[o] /\ job'[o] = job[o]
    BY <1>2, ProgressShape
  <2>2. /\ pc'[r] \in InTransaction => job'[r].box \in Boxes
        /\ CommitAll(r) => job'[r].box \in Boxes
        /\ created \subseteq created'
    BY <1>0, <1>2, ProgressNamesBox
  <2>3. /\ r \notin docs
        /\ docs' = docs \cup (IF CommitAll(r) THEN {r} ELSE {})
    <3>1. r \notin docs
      BY <1>2, ProgressShape DEF LinkInv, DocsAreDone, Resting
    <3>2. ASSUME Quiet(r) \/ CreateTrx(r) \/ CancelTrx(r) \/ MarkFailed(r) PROVE docs' = docs
      BY <3>2 DEF Quiet, CreateTrx, CancelTrx, MarkFailed, SetTrxStatus, accTables
    <3>3. CommitAll(r) => docs' = docs \cup {r}
      BY DEF CommitAll, Commit
    <3>4. CommitAll(r) \/ Quiet(r) \/ CreateTrx(r) \/ CancelTrx(r) \/ MarkFailed(r)
      BY <1>2, ProgressShape
    <3> QED BY <3>1, <3>2, <3>3, <3>4
  <2> QED BY <1>0, <2>1, <2>2, <2>3 DEF DocsInv
<1>3. CASE UNCHANGED vars \/ \E r \in Requests : UserPays(r)
  <2>1. UNCHANGED <<docs, created, pc, job>>
    BY <1>3 DEF UserPays, accVars, vars
  <2> QED BY <1>0, <2>1 DEF DocsInv
<1> QED BY <1>1, <1>2, <1>3 DEF Next

-----------------------------------------------------------------------------
(* Income, expenses and payments *)

Amount == [r \in Requests |-> job[r].amount]

\* Sum as a sum of one function.
LEMMA SumIs ==
  ASSUME TypeInv, NEW rs \in SUBSET Requests
  PROVE  /\ IsFiniteSet(rs) /\ \A r \in rs : Amount[r] \in Nat /\ Amount[r] = job[r].amount
         /\ Sum(rs) = SumFunctionOnSet(Amount, rs) /\ Sum(rs) \in Nat
<1> DEFINE g == [r \in rs |-> job[r].amount]
<1>1. \A r \in rs : Amount[r] \in Nat /\ Amount[r] = job[r].amount
  BY DEF Amount, TypeInv, TypeOK, JobType
<1>2. IsFiniteSet(rs)
  BY FiguresAssumption, FS_Subset
<1>3. DOMAIN g = rs /\ \A r \in rs : Amount[r] \in Int /\ Amount[r] = g[r]
  BY <1>1
<1> HIDE DEF g
<1>4. SumFunctionOnSet(Amount, rs) = SumFunctionOnSet(g, rs)
  BY <1>2, <1>3, SumEqual
<1>5. SumFunctionOnSet(Amount, rs) \in Nat
  BY <1>1, <1>2, SumNat
<1> QED BY <1>1, <1>2, <1>3, <1>4, <1>5 DEF Sum, SumFunction, g

\* A sum of documents by groups.
LEMMA SumByGroup ==
  ASSUME TypeInv, NEW rs \in SUBSET Requests, NEW K, IsFiniteSet(K),
         NEW k, \A r \in rs : k[r] \in K,
         NEW total, DOMAIN total = K, \A i \in K : total[i] = Sum({r \in rs : k[r] = i})
  PROVE  SumFunction(total) = Sum(rs)
<1>1. IsFiniteSet(rs) /\ (\A r \in rs : Amount[r] \in Int) /\ Sum(rs) = SumFunctionOnSet(Amount, rs)
  BY SumIs
<1>2. \A i \in K : total[i] = SumFunctionOnSet(Amount, {r \in rs : k[r] = i})
  <2> SUFFICES ASSUME NEW i \in K
               PROVE  total[i] = SumFunctionOnSet(Amount, {r \in rs : k[r] = i})
    OBVIOUS
  <2> DEFINE is == {r \in rs : k[r] = i}
  <2>1. is \in SUBSET Requests /\ total[i] = Sum(is)
    OBVIOUS
  <2> HIDE DEF is
  <2>2. total[i] = SumFunctionOnSet(Amount, is)
    BY <2>1, SumIs
  <2> QED BY <2>2 DEF is
<1>3. SumFunctionOnSet(total, K) = SumFunctionOnSet(Amount, rs)
  BY <1>1, <1>2, SumGroups
<1> QED BY <1>1, <1>3 DEF SumFunction

LEMMA SumOfBoth ==
  ASSUME TypeInv, NEW rs \in SUBSET Requests, NEW os \in SUBSET Requests, rs \cap os = {}
  PROVE  Sum(rs \cup os) = Sum(rs) + Sum(os)
<1>1. /\ IsFiniteSet(rs) /\ Sum(rs) = SumFunctionOnSet(Amount, rs)
      /\ IsFiniteSet(os) /\ Sum(os) = SumFunctionOnSet(Amount, os)
      /\ \A r \in rs \cup os : Amount[r] \in Int
  BY SumIs
<1>2. rs \cup os \in SUBSET Requests
  OBVIOUS
<1>3. Sum(rs \cup os) = SumFunctionOnSet(Amount, rs \cup os)
  BY <1>2, SumIs
<1> QED BY <1>1, <1>3, SumUnion

LEMMA DatedType ==
  ASSUME TypeInv, NEW kind, NEW first, NEW last
  PROVE  Dated(kind, first, last) \in SUBSET Requests
  BY DEF Dated, TypeInv, TypeOK

\* The month a document is dated in.
MonthOf == [r \in Requests |-> MonthAt(DatedAt(r))]

LEMMA MonthFound ==
  ASSUME NEW t \in Int, NEW m \in Months, StartOf[m] <= t, t < EndOf[m]
  PROVE  MonthAt(t) = m
<1>1. ASSUME NEW n \in Months, StartOf[n] <= t, t < EndOf[n] PROVE n = m
  <2>1. /\ StartOf[m] \in Int /\ EndOf[m] \in Int /\ StartOf[n] \in Int /\ EndOf[n] \in Int
        /\ ~Before(m, n) /\ ~Before(n, m)
    BY <1>1, CalendarAssumption
  <2>2. m.year \in Int /\ n.year \in Int /\ m.month \in 1..12 /\ n.month \in 1..12
    BY CalendarAssumption DEF Months
  <2>3. m.year = n.year /\ m.month = n.month
    BY <2>1, <2>2 DEF Before
  <2> QED BY <2>3 DEF Months
<1> QED BY <1>1 DEF MonthAt

LEMMA DateType ==
  ASSUME NEW r \in Requests
  PROVE  /\ DatedAt(r) \in Int /\ MonthOf[r] \in Months
         /\ StartOf[MonthOf[r]] \in Int /\ EndOf[MonthOf[r]] \in Int
         /\ StartOf[MonthOf[r]] <= DatedAt(r) /\ DatedAt(r) < EndOf[MonthOf[r]]
<1>0. Day \in Int /\ Second \in Int /\ 0 < Second /\ Noon \in 0..(Day - Second)
  BY CalendarAssumption
<1>1. CASE IsTyped(r)
  <2>1. DayOf[r] \in Int /\ DatedAt(r) = DayOf[r] + Noon
    BY <1>1, CalendarAssumption DEF IsTyped, DatedAt
  <2>2. PICK m \in Months : StartOf[m] <= DayOf[r] /\ DayOf[r] + Day <= EndOf[m]
    BY <1>1, CalendarAssumption DEF IsTyped
  <2>3. StartOf[m] \in Int /\ EndOf[m] \in Int
    BY CalendarAssumption
  <2>4. DatedAt(r) \in Int /\ StartOf[m] <= DatedAt(r) /\ DatedAt(r) < EndOf[m]
    BY <1>0, <2>1, <2>2, <2>3
  <2> QED BY <2>3, <2>4, MonthFound DEF MonthOf
<1>2. CASE ~IsTyped(r)
  <2>1. DatedAt(r) \in Int /\ \E m \in Months : StartOf[m] <= DatedAt(r) /\ DatedAt(r) < EndOf[m]
    BY <1>2, CalendarAssumption DEF DatedAt
  <2>2. PICK m \in Months : StartOf[m] <= DatedAt(r) /\ DatedAt(r) < EndOf[m]
    BY <2>1
  <2>3. StartOf[m] \in Int /\ EndOf[m] \in Int
    BY CalendarAssumption
  <2> QED BY <2>1, <2>2, <2>3, MonthFound DEF MonthOf
<1> QED BY <1>1, <1>2

\* The report of a month has what is dated in it and not lost at its end.
LEMMA ReportedIn ==
  ASSUME TypeInv, NEW r \in docs, NEW m \in Months
  PROVE  Within(DatedAt(r), m, m) <=> r \notin Lost /\ MonthOf[r] = m
<1>0. r \in Requests
  BY DEF TypeInv, TypeOK
<1>1. /\ DatedAt(r) \in Int /\ MonthOf[r] \in Months /\ MonthOf[r] = MonthAt(DatedAt(r))
      /\ StartOf[MonthOf[r]] <= DatedAt(r)
  BY <1>0, DateType DEF MonthOf
<1>2. StartOf[m] \in Int /\ EndOf[m] \in Int /\ Second \in Int /\ 0 < Second
  BY CalendarAssumption
<1>3. Within(DatedAt(r), m, m) <=> StartOf[m] <= DatedAt(r) /\ DatedAt(r) <= EndOf[m] - Second
  BY DEF Within, MonthRange
<1>4. r \in Lost <=> DatedAt(r) > EndOf[MonthOf[r]] - Second
  BY <1>1 DEF Lost, MonthRange
<1>5. ASSUME Within(DatedAt(r), m, m) PROVE r \notin Lost /\ MonthOf[r] = m
  <2>1. DatedAt(r) < EndOf[m]
    BY <1>1, <1>2, <1>3, <1>5
  <2>2. MonthOf[r] = m
    BY <1>1, <1>3, <1>5, <2>1, MonthFound
  <2> QED BY <1>1, <1>2, <1>3, <1>4, <1>5, <2>2
<1>6. ASSUME r \notin Lost, MonthOf[r] = m PROVE Within(DatedAt(r), m, m)
  BY <1>1, <1>2, <1>3, <1>4, <1>6
<1> QED BY <1>5, <1>6

\* The range of a year leaves out only what is lost at its very end.
LEMMA ReportedInYear ==
  ASSUME TypeInv, NEW r \in docs, NEW y \in Years
  PROVE  Within(DatedAt(r), [year |-> y, month |-> 1], [year |-> y, month |-> 12])
           <=> MonthOf[r].year = y /\ (r \notin Lost \/ MonthOf[r].month < 12)
<1> DEFINE m == MonthOf[r]
           t == DatedAt(r)
           first == [year |-> y, month |-> 1]
           last == [year |-> y, month |-> 12]
<1>0. r \in Requests
  BY DEF TypeInv, TypeOK
<1>1. /\ t \in Int /\ m \in Months /\ m = MonthAt(t)
      /\ StartOf[m] <= t /\ t < EndOf[m]
  BY <1>0, DateType DEF MonthOf
<1>2. /\ first \in Months /\ first.year = y /\ first.month = 1
      /\ last \in Months /\ last.year = y /\ last.month = 12
      /\ m.year \in Int /\ m.month \in 1..12 /\ y \in Int
  <2>1. y \in Int /\ 1 \in 1..12 /\ 12 \in 1..12 /\ Years \subseteq Int
    BY CalendarAssumption
  <2>2. first \in Months /\ last \in Months
    BY <2>1 DEF Months
  <2>3. m.year \in Int /\ m.month \in 1..12
    <3> HIDE DEF m
    <3> QED BY <1>1, <2>1 DEF Months
  <2> QED BY <2>1, <2>2, <2>3
<1>3. /\ StartOf[m] \in Int /\ EndOf[m] \in Int /\ StartOf[first] \in Int /\ EndOf[first] \in Int
      /\ StartOf[last] \in Int /\ EndOf[last] \in Int
      /\ StartOf[first] + Day <= EndOf[first] /\ StartOf[last] + Day <= EndOf[last]
      /\ Second \in Int /\ Day \in Int /\ 0 < Second /\ Second < Day
  BY <1>1, <1>2, CalendarAssumption
<1>4. /\ Before(m, first) => EndOf[m] <= StartOf[first]
      /\ Before(first, m) => EndOf[first] <= StartOf[m]
      /\ Before(m, last) => EndOf[m] <= StartOf[last]
      /\ Before(last, m) => EndOf[last] <= StartOf[m]
  BY <1>1, <1>2, CalendarAssumption
<1>5. Within(t, first, last) <=> StartOf[first] <= t /\ t <= EndOf[last] - Second
  BY DEF Within, MonthRange
<1>6. r \in Lost <=> t > EndOf[m] - Second
  BY <1>1 DEF Lost, MonthRange
<1>7. m.year = y => (m.month = 1 => m = first) /\ (m.month = 12 => m = last)
  BY <1>1 DEF Months
<1> HIDE DEF m, t, first, last
<1>8. ASSUME Within(t, first, last) PROVE m.year = y /\ (r \notin Lost \/ m.month < 12)
  <2>1. ~Before(m, first) /\ ~Before(last, m)
    BY <1>1, <1>3, <1>4, <1>5, <1>8
  <2>2. m.year = y
    BY <1>2, <2>1 DEF Before
  <2>3. m.month = 12 => r \notin Lost
    BY <1>1, <1>3, <1>5, <1>6, <1>7, <1>8, <2>2
  <2> QED BY <1>2, <2>2, <2>3
<1>9. ASSUME m.year = y, r \notin Lost \/ m.month < 12 PROVE Within(t, first, last)
  <2>1. m.month > 1 => Before(first, m)
    BY <1>2, <1>9 DEF Before
  <2>2. StartOf[first] <= t
    BY <1>1, <1>2, <1>3, <1>4, <1>7, <1>9, <2>1
  <2>3. m.month < 12 => Before(m, last)
    BY <1>2, <1>9 DEF Before
  <2>4. t <= EndOf[last] - Second
    BY <1>1, <1>2, <1>3, <1>4, <1>6, <1>7, <1>9, <2>3
  <2> QED BY <1>5, <2>2, <2>4
<1> QED BY <1>8, <1>9 DEF m, t, first, last

\* What the monthly reports of a year have.
OfYear(kind, y) == {r \in docs \ Lost : job[r].kind = kind /\ MonthOf[r].year = y}

LEMMA MonthsOfYear ==
  ASSUME TypeInv, NEW y \in Years, NEW kind
  PROVE  SumFunction([i \in 1..12 |-> Sum(Dated(kind, [year |-> y, month |-> i],
                                                       [year |-> y, month |-> i]))])
           = Sum(OfYear(kind, y))
<1> DEFINE rs == OfYear(kind, y)
           k == [r \in Requests |-> MonthOf[r].month]
           total == [i \in 1..12 |-> Sum(Dated(kind, [year |-> y, month |-> i],
                                                      [year |-> y, month |-> i]))]
           K == 1..12
<1>1. docs \subseteq Requests /\ rs \in SUBSET Requests
  BY DEF OfYear, TypeInv, TypeOK
<1>2. \A r \in Requests : MonthOf[r] \in Months
  BY DateType
<1>3. \A r \in rs : k[r] \in K
  BY <1>1, <1>2 DEF Months
<1>4. \A i \in K : total[i] = Sum({r \in rs : k[r] = i})
  <2> SUFFICES ASSUME NEW i \in K PROVE total[i] = Sum({r \in rs : k[r] = i})
    OBVIOUS
  <2> DEFINE m == [year |-> y, month |-> i]
  <2>1. m \in Months
    BY DEF Months
  <2>2. ASSUME NEW r \in docs PROVE MonthOf[r] = m <=> MonthOf[r].year = y /\ k[r] = i
    BY <1>1, <1>2, <2>2 DEF Months
  <2>3. \A r \in docs : Within(DatedAt(r), m, m) <=> r \notin Lost /\ MonthOf[r] = m
    BY <2>1, ReportedIn
  <2> HIDE DEF m, k
  <2>4. Dated(kind, m, m) = {r \in rs : k[r] = i}
    BY <2>2, <2>3 DEF Dated, OfYear
  <2> QED BY <2>4 DEF m
<1>5. IsFiniteSet(K)
  <2>1. 1 \in Int /\ 12 \in Int
    OBVIOUS
  <2> QED BY <2>1, FS_Interval
<1>6. DOMAIN total = K
  OBVIOUS
<1> HIDE DEF rs, k, total, K
<1>7. SumFunction(total) = Sum(rs)
  BY <1>1, <1>3, <1>4, <1>5, <1>6, SumByGroup
<1> QED BY <1>7 DEF total, rs

LEMMA YearAddsUp ==
  ASSUME TypeInv, NEW y \in Years
  PROVE  /\ YearlyFinance(y).income = Sum(OfYear("income", y))
         /\ YearlyFinance(y).expense = Sum(OfYear("expense", y))
         /\ YearlyFinance(y).balance = YearlyFinance(y).income - YearlyFinance(y).expense
<1> DEFINE months == [i \in 1..12 |-> MonthlyFinance([year |-> y, month |-> i])]
<1>1. /\ YearlyFinance(y).income = SumFunction([i \in 1..12 |-> months[i].income])
      /\ YearlyFinance(y).expense = SumFunction([i \in 1..12 |-> months[i].expense])
      /\ YearlyFinance(y).balance = YearlyFinance(y).income - YearlyFinance(y).expense
  BY DEF YearlyFinance
<1>2. /\ [i \in 1..12 |-> months[i].income] =
           [i \in 1..12 |-> Sum(Dated("income", [year |-> y, month |-> i], [year |-> y, month |-> i]))]
      /\ [i \in 1..12 |-> months[i].expense] =
           [i \in 1..12 |-> Sum(Dated("expense", [year |-> y, month |-> i], [year |-> y, month |-> i]))]
  BY DEF MonthlyFinance
<1> QED BY <1>1, <1>2, MonthsOfYear

IsBack(back, now, n) ==
  back = [i \in 0..n |-> IF i = 0 THEN now ELSE Previous(back[i - 1])]

\* Going back from Farvardin of the next year passes the months of the year.
LEMMA MonthsBack ==
  ASSUME NEW y \in Int, NEW back, IsBack(back, [year |-> y + 1, month |-> 1], 13),
         NEW i \in 1..12
  PROVE  back[i] = [year |-> y, month |-> 13 - i]
<1> DEFINE Passed(n) == n \in 1..12 => back[n] = [year |-> y, month |-> 13 - n]
           N == {n \in Nat : Passed(n)}
<1>1. \A n \in 0..13 : back[n] = IF n = 0 THEN [year |-> y + 1, month |-> 1]
                                 ELSE Previous(back[n - 1])
  BY Zenon DEF IsBack
<1>2. 0 \in N
  OBVIOUS
<1>3. ASSUME NEW n \in N PROVE n + 1 \in N
  <2> SUFFICES ASSUME n + 1 \in 1..12
               PROVE  back[n + 1] = [year |-> y, month |-> 13 - (n + 1)]
    OBVIOUS
  <2>1. n \in 0..11 /\ n + 1 \in 0..13 /\ n + 1 # 0 /\ (n + 1) - 1 = n
    OBVIOUS
  <2>2. back[n + 1] = Previous(back[n])
    BY <1>1, <2>1
  <2>3. CASE n = 0
    <3>1. back[n] = [year |-> y + 1, month |-> 1]
      BY <1>1, <2>1, <2>3
    <3> HIDE DEF N
    <3> QED BY <2>2, <2>3, <3>1 DEF Previous
  <2>4. CASE n # 0
    <3>1. n \in 1..11 /\ back[n] = [year |-> y, month |-> 13 - n]
      BY <2>1, <2>4
    <3> HIDE DEF N
    <3>2. 13 - n > 1 /\ (13 - n) - 1 = 13 - (n + 1)
      BY <3>1
    <3> QED BY <2>2, <3>1, <3>2 DEF Previous
  <2> QED BY <2>3, <2>4
<1>4. N \in SUBSET Nat
  OBVIOUS
<1> HIDE DEF N
<1>5. N = Nat
  BY <1>2, <1>3, <1>4, Naturals
<1>6. i \in N
  BY <1>5
<1>7. Passed(i)
  BY <1>6 DEF N
<1> QED BY <1>7

LEMMA BackExists ==
  ASSUME NEW y \in Int
  PROVE  \E back : IsBack(back, [year |-> y + 1, month |-> 1], 13)
<1> DEFINE now == [year |-> y + 1, month |-> 1]
           back == [i \in 0..13 |-> IF i = 0 THEN now
                                    ELSE IF i = 13 THEN [year |-> y - 1, month |-> 12]
                                    ELSE [year |-> y, month |-> 13 - i]]
           next == [i \in 0..13 |-> IF i = 0 THEN now ELSE Previous(back[i - 1])]
<1>1. ASSUME NEW i \in 0..13 PROVE back[i] = IF i = 0 THEN now ELSE Previous(back[i - 1])
  <2>1. CASE i = 0
    BY <2>1
  <2>2. CASE i = 1
    <3>1. back[0] = now /\ back[1] = [year |-> y, month |-> 12]
      OBVIOUS
    <3> QED BY <2>2, <3>1 DEF Previous
  <2>3. CASE i \in 2..12
    <3>1. back[i - 1] = [year |-> y, month |-> 13 - (i - 1)]
      BY <2>3
    <3>2. back[i] = [year |-> y, month |-> 13 - i]
      BY <2>3
    <3>3. 13 - (i - 1) > 1 /\ (13 - (i - 1)) - 1 = 13 - i /\ i # 0
      BY <2>3
    <3> HIDE DEF back
    <3> QED BY <3>1, <3>2, <3>3 DEF Previous
  <2>4. CASE i = 13
    <3>1. back[12] = [year |-> y, month |-> 1] /\ back[13] = [year |-> y - 1, month |-> 12]
      OBVIOUS
    <3> QED BY <2>4, <3>1 DEF Previous
  <2> QED BY <2>1, <2>2, <2>3, <2>4
<1>2. back = next
  BY <1>1
<1> QED BY <1>2 DEF IsBack

LEMMA ChartMonths ==
  ASSUME NEW y \in Int
  PROVE  /\ Chart([year |-> y + 1, month |-> 1], 13)[13] =
              MonthlyFinance([year |-> y + 1, month |-> 1])
         /\ \A i \in 1..12 : Chart([year |-> y + 1, month |-> 1], 13)[i] =
                               MonthlyFinance([year |-> y, month |-> i])
<1> DEFINE now == [year |-> y + 1, month |-> 1]
           back == CHOOSE back : IsBack(back, now, 13)
<1>1. IsBack(back, now, 13)
  BY BackExists
<1>2. Chart(now, 13) = [i \in 1..13 |-> MonthlyFinance(back[13 - i])]
  BY DEF Chart, IsBack
<1> HIDE DEF back
<1>3. back[0] = now
  <2>1. \A n \in 0..13 : back[n] = IF n = 0 THEN now ELSE Previous(back[n - 1])
    BY <1>1, Zenon DEF IsBack
  <2>2. 0 \in 0..13
    OBVIOUS
  <2> HIDE DEF now
  <2> QED BY <2>1, <2>2
<1>4. \A i \in 1..12 : back[13 - i] = [year |-> y, month |-> i]
  <2> SUFFICES ASSUME NEW i \in 1..12 PROVE back[13 - i] = [year |-> y, month |-> i]
    OBVIOUS
  <2>1. 13 - i \in 1..12 /\ 13 - (13 - i) = i
    OBVIOUS
  <2> QED BY <1>1, <2>1, MonthsBack
<1>5. Chart(now, 13)[13] = MonthlyFinance(back[13 - 13])
  BY <1>2
<1>6. \A i \in 1..12 : Chart(now, 13)[i] = MonthlyFinance(back[13 - i])
  BY <1>2
<1>7. 13 - 13 = 0
  OBVIOUS
<1> QED BY <1>3, <1>4, <1>5, <1>6, <1>7

LEMMA ChartAddsUp ==
  ASSUME TypeInv, NEW y \in Int
  PROVE  LET farvardin == [year |-> y + 1, month |-> 1]
             chart == ChartTotal(farvardin, 13) IN
           /\ chart.income = YearlyFinance(y).income + MonthlyFinance(farvardin).income
           /\ chart.expense = YearlyFinance(y).expense + MonthlyFinance(farvardin).expense
<1> DEFINE now == [year |-> y + 1, month |-> 1]
           chart == Chart(now, 13)
           months == [i \in 1..12 |-> MonthlyFinance([year |-> y, month |-> i])]
<1>1. \A m : MonthlyFinance(m).income \in Int /\ MonthlyFinance(m).expense \in Int
  BY SumIs, DatedType DEF MonthlyFinance
<1>2. /\ ChartTotal(now, 13).income = SumFunction([i \in 1..13 |-> chart[i].income])
      /\ ChartTotal(now, 13).expense = SumFunction([i \in 1..13 |-> chart[i].expense])
      /\ YearlyFinance(y).income = SumFunction([i \in 1..12 |-> months[i].income])
      /\ YearlyFinance(y).expense = SumFunction([i \in 1..12 |-> months[i].expense])
  BY DEF ChartTotal, YearlyFinance
<1>3. /\ chart[13] = MonthlyFinance(now)
      /\ \A i \in 1..12 : chart[i] = months[i] /\ months[i] = MonthlyFinance([year |-> y, month |-> i])
  BY ChartMonths
<1> HIDE DEF chart, months, now
<1>4. ASSUME NEW f, DOMAIN f = 1..13, NEW g, DOMAIN g = 1..12,
             \A i \in 1..13 : f[i] \in Int, \A i \in 1..12 : f[i] = g[i]
      PROVE  SumFunction(f) = SumFunction(g) + f[13]
  <2> DEFINE K == 1..12
  <2>1. IsFiniteSet(K)
    <3>1. 1 \in Int /\ 12 \in Int
      OBVIOUS
    <3> QED BY <3>1, FS_Interval
  <2>2. /\ 1..13 = K \cup {13} /\ 13 \notin K
        /\ \A i \in K \cup {13} : f[i] \in Int
        /\ \A i \in K : f[i] \in Int /\ f[i] = g[i]
    BY <1>4
  <2>3. \A i \in K : g[i] \in Int
    BY <2>2
  <2>4. DOMAIN f = K \cup {13} /\ DOMAIN g = K
    BY <1>4, <2>2
  <2> HIDE DEF K
  <2>5. SumFunctionOnSet(f, K \cup {13}) = f[13] + SumFunctionOnSet(f, K)
    BY <2>1, <2>2, SumAdd
  <2>6. SumFunctionOnSet(f, K) = SumFunctionOnSet(g, K)
    BY <2>1, <2>2, SumEqual
  <2>7. SumFunctionOnSet(g, K) \in Int /\ f[13] \in Int
    BY <2>1, <2>2, <2>3, SumInt
  <2> QED BY <2>4, <2>5, <2>6, <2>7 DEF SumFunction
<1>5. \A i \in 1..13 : chart[i].income \in Int /\ chart[i].expense \in Int
  <2> SUFFICES ASSUME NEW i \in 1..13 PROVE chart[i].income \in Int /\ chart[i].expense \in Int
    OBVIOUS
  <2>1. i = 13 \/ i \in 1..12
    OBVIOUS
  <2> QED BY <1>1, <1>3, <2>1
<1>6. SumFunction([i \in 1..13 |-> chart[i].income]) =
        SumFunction([i \in 1..12 |-> months[i].income]) + MonthlyFinance(now).income
  <2> DEFINE f == [i \in 1..13 |-> chart[i].income]
             g == [i \in 1..12 |-> months[i].income]
  <2>1. /\ DOMAIN f = 1..13 /\ DOMAIN g = 1..12 /\ f[13] = MonthlyFinance(now).income
        /\ \A i \in 1..13 : f[i] \in Int
        /\ \A i \in 1..12 : f[i] = g[i]
    BY <1>3, <1>5
  <2> HIDE DEF f, g
  <2>2. SumFunction(f) = SumFunction(g) + f[13]
    BY <1>4, <2>1
  <2> QED BY <2>1, <2>2 DEF f, g
<1>7. SumFunction([i \in 1..13 |-> chart[i].expense]) =
        SumFunction([i \in 1..12 |-> months[i].expense]) + MonthlyFinance(now).expense
  <2> DEFINE f == [i \in 1..13 |-> chart[i].expense]
             g == [i \in 1..12 |-> months[i].expense]
  <2>1. /\ DOMAIN f = 1..13 /\ DOMAIN g = 1..12 /\ f[13] = MonthlyFinance(now).expense
        /\ \A i \in 1..13 : f[i] \in Int
        /\ \A i \in 1..12 : f[i] = g[i]
    BY <1>3, <1>5
  <2> HIDE DEF f, g
  <2>2. SumFunction(f) = SumFunction(g) + f[13]
    BY <1>4, <2>1
  <2> QED BY <2>1, <2>2 DEF f, g
<1> QED BY <1>2, <1>6, <1>7 DEF now

LEMMA CategoriesAddUp ==
  ASSUME TypeInv, NEW y \in Years
  PROVE  SumFunction(ExpenseByCategory(y)) =
           YearlyFinance(y).expense + Sum({r \in Lost : /\ job[r].kind = "expense"
                                                        /\ MonthAt(DatedAt(r)).year = y
                                                        /\ MonthAt(DatedAt(r)).month < 12})
<1> DEFINE es == Dated("expense", [year |-> y, month |-> 1], [year |-> y, month |-> 12])
           reported == OfYear("expense", y)
           rest == {r \in Lost : /\ job[r].kind = "expense"
                                 /\ MonthAt(DatedAt(r)).year = y
                                 /\ MonthAt(DatedAt(r)).month < 12}
           K == {CategoryOf[r] : r \in es}
           total == [k \in K |-> Sum({r \in es : CategoryOf[r] = k})]
<1>1. /\ es \in SUBSET Requests /\ reported \in SUBSET Requests /\ rest \in SUBSET Requests
      /\ docs \subseteq Requests
  BY DEF Dated, OfYear, Lost, TypeInv, TypeOK
<1>2. ExpenseByCategory(y) = total
  BY DEF ExpenseByCategory
<1>3. DOMAIN total = K /\ \A i \in K : total[i] = Sum({r \in es : CategoryOf[r] = i})
  OBVIOUS
<1>4. \A r \in es : CategoryOf[r] \in K
  OBVIOUS
<1>5. es = reported \cup rest /\ reported \cap rest = {}
  <2>1. rest = {r \in Lost : job[r].kind = "expense" /\ MonthOf[r].year = y /\ MonthOf[r].month < 12}
    BY <1>1 DEF MonthOf, Lost
  <2>2. ASSUME NEW r \in docs
        PROVE  Within(DatedAt(r), [year |-> y, month |-> 1], [year |-> y, month |-> 12])
                 <=> MonthOf[r].year = y /\ (r \notin Lost \/ MonthOf[r].month < 12)
    BY ReportedInYear
  <2> HIDE DEF rest
  <2> QED BY <2>1, <2>2 DEF Dated, OfYear, Lost
<1> HIDE DEF es, total, reported, rest
<1>6. IsFiniteSet(es)
  BY <1>1, SumIs
<1>7. IsFiniteSet(K)
  BY <1>6, ImageIsFinite
<1> HIDE DEF K
<1>8. SumFunction(total) = Sum(es)
  BY <1>1, <1>3, <1>4, <1>7, SumByGroup
<1>9. Sum(es) = Sum(reported) + Sum(rest)
  BY <1>1, <1>5, SumOfBoth
<1> QED BY <1>2, <1>8, <1>9, YearAddsUp DEF reported, rest

-----------------------------------------------------------------------------
(* The reports and the cashboxes *)

\* The documents of a kind some monthly report has, and the payments.
Of(kind) == {r \in docs \ Lost : job[r].kind = kind}

PaymentDocs == {r \in docs \ Lost : job[r].kind \in {"manual", "verify"}}

LEMMA YearsAddUp ==
  ASSUME TypeInv
  PROVE  SumFunction([y \in Years |-> YearlyFinance(y).balance])
           = Sum(Of("income")) - Sum(Of("expense"))
<1> DEFINE in == [y \in Years |-> YearlyFinance(y).income]
           out == [y \in Years |-> YearlyFinance(y).expense]
           diff == [y \in Years |-> YearlyFinance(y).balance]
           year == [r \in Requests |-> MonthOf[r].year]
<1>1. IsFiniteSet(Years) /\ \A r \in Requests : year[r] \in Years
  BY CalendarAssumption, DateType DEF Months
<1>2. ASSUME NEW y \in Years, NEW kind
      PROVE  OfYear(kind, y) = {r \in Of(kind) : year[r] = y}
  <2>1. docs \subseteq Requests
    BY DEF TypeInv, TypeOK
  <2> QED BY <2>1 DEF OfYear, Of
<1>3. Of("income") \in SUBSET Requests /\ Of("expense") \in SUBSET Requests
  BY DEF Of, TypeInv, TypeOK
<1>4. \A y \in Years : in[y] = Sum({r \in Of("income") : year[r] = y})
  <2> HIDE DEF year
  <2> QED BY <1>1, <1>2, YearAddsUp
<1>5. \A y \in Years : out[y] = Sum({r \in Of("expense") : year[r] = y})
  <2> HIDE DEF year
  <2> QED BY <1>1, <1>2, YearAddsUp
<1>6. \A y \in Years : in[y] \in Nat /\ out[y] \in Nat
  <2>1. \A y \in Years : OfYear("income", y) \in SUBSET Requests
                          /\ OfYear("expense", y) \in SUBSET Requests
    BY DEF OfYear, TypeInv, TypeOK
  <2> QED BY <2>1, YearAddsUp, SumIs
<1>7. \A y \in Years : diff[y] \in Int /\ out[y] \in Int /\ in[y] = diff[y] + out[y]
  <2>1. \A y \in Years : diff[y] = in[y] - out[y]
    BY YearAddsUp
  <2> HIDE DEF diff, in, out
  <2> QED BY <1>6, <2>1
<1>8. DOMAIN in = Years /\ DOMAIN out = Years /\ DOMAIN diff = Years
  OBVIOUS
<1> HIDE DEF in, out, diff, year
<1>9. \A r \in Requests : year[r] \in Years
  BY <1>1
<1>10. SumFunction(in) = Sum(Of("income"))
  BY <1>1, <1>3, <1>4, <1>8, <1>9, SumByGroup
<1>11. SumFunction(out) = Sum(Of("expense"))
  BY <1>1, <1>3, <1>5, <1>8, <1>9, SumByGroup
<1>12. SumFunctionOnSet(in, Years) = SumFunctionOnSet(diff, Years) + SumFunctionOnSet(out, Years)
  BY <1>1, <1>7, SumPlus
<1>13. SumFunctionOnSet(diff, Years) \in Int
  BY <1>1, <1>7, SumInt
<1>14. Sum(Of("expense")) \in Nat
  BY <1>3, SumIs
<1>15. SumFunction(diff) = Sum(Of("income")) - Sum(Of("expense"))
  BY <1>8, <1>10, <1>11, <1>12, <1>13, <1>14 DEF SumFunction
<1> QED BY <1>15 DEF diff

LEMMA MonthsFinite == IsFiniteSet(Months)
<1> DEFINE pairs == Years \X (1..12)
           f == [p \in pairs |-> [year |-> p[1], month |-> p[2]]]
<1>1. IsFiniteSet(1..12)
  <2>1. 1 \in Int /\ 12 \in Int
    OBVIOUS
  <2> QED BY <2>1, FS_Interval
<1>2. IsFiniteSet(pairs)
  BY <1>1, CalendarAssumption, FS_Product
<1>3. Months \subseteq {f[p] : p \in pairs}
  <2> SUFFICES ASSUME NEW m \in Months PROVE \E p \in pairs : m = f[p]
    OBVIOUS
  <2>1. <<m.year, m.month>> \in pairs /\ m = f[<<m.year, m.month>>]
    BY DEF Months
  <2> QED BY <2>1
<1> HIDE DEF pairs, f
<1>4. IsFiniteSet({f[p] : p \in pairs})
  BY <1>2, ImageIsFinite
<1> QED BY <1>3, <1>4, FS_Subset

LEMMA PaymentsAddUp ==
  ASSUME TypeInv
  PROVE  SumFunction([m \in Months |-> SumFunction(PaymentsSummary(m))]) = Sum(PaymentDocs)
<1> DEFINE K == {"manual", "verify"}
           kind == [r \in Requests |-> job[r].kind]
           total == [m \in Months |-> SumFunction(PaymentsSummary(m))]
<1>1. /\ PaymentDocs \in SUBSET Requests /\ \A r \in PaymentDocs : kind[r] \in K
      /\ docs \subseteq Requests
  BY DEF PaymentDocs, TypeInv, TypeOK
<1>2. IsFiniteSet(Months) /\ \A r \in Requests : MonthOf[r] \in Months
  BY MonthsFinite, DateType
<1>3. IsFiniteSet(K)
  <2>1. IsFiniteSet({"manual"}) /\ K = {"manual"} \cup {"verify"}
    BY FS_Singleton
  <2> QED BY <2>1, FS_AddElement
<1>4. ASSUME NEW m \in Months
      PROVE  total[m] = Sum({r \in PaymentDocs : MonthOf[r] = m})
  <2> DEFINE rs == {r \in PaymentDocs : MonthOf[r] = m}
             groups == PaymentsSummary(m)
  <2>1. rs \in SUBSET Requests /\ \A r \in rs : kind[r] \in K
    BY <1>1
  <2>2. DOMAIN groups = K
    BY DEF PaymentsSummary
  <2>3. \A i \in K : groups[i] = Sum({r \in rs : kind[r] = i})
    <3> SUFFICES ASSUME NEW i \in K PROVE groups[i] = Sum({r \in rs : kind[r] = i})
      OBVIOUS
    <3>1. groups[i] = Sum(Dated(i, m, m))
      BY DEF PaymentsSummary
    <3>2. \A r \in docs : Within(DatedAt(r), m, m) <=> r \notin Lost /\ MonthOf[r] = m
      BY ReportedIn
    <3>3. Dated(i, m, m) = {r \in rs : kind[r] = i}
      BY <1>1, <3>2 DEF Dated, PaymentDocs
    <3> QED BY <3>1, <3>3
  <2> HIDE DEF rs, groups, kind, K
  <2>4. SumFunction(groups) = Sum(rs)
    BY <1>3, <2>1, <2>2, <2>3, SumByGroup
  <2> QED BY <2>4 DEF groups, rs
<1>5. DOMAIN total = Months
  OBVIOUS
<1> HIDE DEF kind, total
<1>6. \A r \in PaymentDocs : MonthOf[r] \in Months
  BY <1>1, <1>2
<1>7. SumFunction(total) = Sum(PaymentDocs)
  BY <1>1, <1>2, <1>4, <1>5, <1>6, SumByGroup
<1> QED BY <1>7 DEF total

LEMMA PostedAddsUp ==
  ASSUME TypeInv, MovementsInv
  PROVE  Posted(docs \ Lost) = Sum(Of("income")) - Sum(Of("expense")) + Sum(PaymentDocs)
<1> DEFINE rs == docs \ Lost
           f == [r \in Requests |-> Delta(job[r])]
           in == Of("income")
           out == Of("expense")
           pays == PaymentDocs
<1>1. /\ docs \in SUBSET Requests /\ rs \in SUBSET Requests /\ in \in SUBSET Requests
      /\ out \in SUBSET Requests /\ pays \in SUBSET Requests
  BY DEF Of, PaymentDocs, TypeInv, TypeOK
<1>2. /\ rs = (in \cup pays) \cup out /\ (in \cup pays) \cap out = {} /\ in \cap pays = {}
  BY DEF Of, PaymentDocs, MovementsInv, Recorded
<1>3. \A r \in rs : f[r] = Delta(job[r])
  BY <1>1
<1>4. Posted(rs) = SumFunctionOnSet(f, rs) /\ \A r \in rs : f[r] \in Int
  <2> HIDE DEF f, rs
  <2> QED BY <1>1, <1>3, PostedIs
<1>5. /\ \A r \in in \cup pays : f[r] = Amount[r]
      /\ \A r \in out : f[r] = (-1) * Amount[r]
  <2>1. \A r \in docs : f[r] = IF job[r].kind = "expense" THEN -Amount[r] ELSE Amount[r]
    BY <1>1, SumIs DEF Delta
  <2>2. \A r \in docs : Amount[r] \in Nat
    BY <1>1, SumIs
  <2>3. \A r \in out : r \in docs /\ job[r].kind = "expense"
    BY DEF Of
  <2>4. \A r \in in \cup pays : r \in docs /\ job[r].kind # "expense"
    BY DEF Of, PaymentDocs
  <2>5. \A r \in in \cup pays : f[r] = Amount[r]
    BY <2>1, <2>4
  <2>6. ASSUME NEW r \in out PROVE f[r] = (-1) * Amount[r]
    <3>1. f[r] = -Amount[r] /\ Amount[r] \in Nat
      BY <2>1, <2>2, <2>3
    <3> HIDE DEF f
    <3> QED BY <3>1
  <2> HIDE DEF f, in, out, pays
  <2> QED BY <2>5, <2>6
<1>6. /\ IsFiniteSet(in) /\ Sum(in) = SumFunctionOnSet(Amount, in) /\ Sum(in) \in Nat
      /\ \A r \in in : Amount[r] \in Nat
  BY <1>1, SumIs
<1>7. /\ IsFiniteSet(out) /\ Sum(out) = SumFunctionOnSet(Amount, out) /\ Sum(out) \in Nat
      /\ \A r \in out : Amount[r] \in Nat
  BY <1>1, SumIs
<1>8. /\ IsFiniteSet(pays) /\ Sum(pays) = SumFunctionOnSet(Amount, pays) /\ Sum(pays) \in Nat
      /\ \A r \in pays : Amount[r] \in Nat
  BY <1>1, SumIs
<1> HIDE DEF f, rs, in, out, pays
<1>9. /\ \A r \in in : f[r] \in Int /\ f[r] = Amount[r]
      /\ \A r \in pays : f[r] \in Int /\ f[r] = Amount[r]
      /\ \A r \in out : Amount[r] \in Int /\ f[r] = (-1) * Amount[r]
  BY <1>5, <1>6, <1>7, <1>8
<1>10. SumFunctionOnSet(f, in) = Sum(in)
  BY <1>6, <1>9, SumEqual
<1>11. SumFunctionOnSet(f, pays) = Sum(pays)
  BY <1>8, <1>9, SumEqual
<1>12. SumFunctionOnSet(f, out) = (-1) * Sum(out)
  <2>1. -1 \in Int
    OBVIOUS
  <2> QED BY <1>7, <1>9, <2>1, SumTimes
<1>13. IsFiniteSet(in \cup pays)
  BY <1>6, <1>8, FS_Union
<1>14. SumFunctionOnSet(f, in \cup pays) = SumFunctionOnSet(f, in) + SumFunctionOnSet(f, pays)
  BY <1>2, <1>4, <1>6, <1>8, SumUnion
<1>15. SumFunctionOnSet(f, rs) = SumFunctionOnSet(f, in \cup pays) + SumFunctionOnSet(f, out)
  BY <1>2, <1>4, <1>7, <1>13, SumUnion
<1>16. Posted(rs) = Sum(in) - Sum(out) + Sum(pays)
  BY <1>4, <1>6, <1>7, <1>8, <1>10, <1>11, <1>12, <1>14, <1>15
<1> QED BY <1>16 DEF rs, in, out, pays

\* What is lost between two reports is posted all the same.
LEMMA LostIsPosted ==
  ASSUME TypeInv
  PROVE  /\ Posted(docs) = Posted(docs \ Lost) + Posted(Lost)
         /\ Posted(docs \ Lost) \in Int /\ Posted(Lost) \in Int
<1> DEFINE f == [r \in Requests |-> Delta(job[r])]
           rs == docs \ Lost
<1>1. /\ docs \in SUBSET Requests /\ rs \in SUBSET Requests /\ Lost \in SUBSET Requests
      /\ docs = rs \cup Lost /\ rs \cap Lost = {}
  BY DEF Lost, TypeInv, TypeOK
<1>2. \A r \in Requests : f[r] = Delta(job[r])
  OBVIOUS
<1> HIDE DEF f, rs
<1>3. Posted(docs) = SumFunctionOnSet(f, docs) /\ \A r \in docs : f[r] \in Int
  BY <1>1, <1>2, PostedIs
<1>4. IsFiniteSet(rs) /\ Posted(rs) = SumFunctionOnSet(f, rs) /\ \A r \in rs : f[r] \in Int
  BY <1>1, <1>2, PostedIs
<1>5. IsFiniteSet(Lost) /\ Posted(Lost) = SumFunctionOnSet(f, Lost) /\ \A r \in Lost : f[r] \in Int
  BY <1>1, <1>2, PostedIs
<1>6. Posted(docs) = Posted(rs) + Posted(Lost)
  BY <1>1, <1>3, <1>4, <1>5, SumUnion
<1>7. Posted(rs) \in Int /\ Posted(Lost) \in Int
  BY <1>4, <1>5, SumInt
<1> QED BY <1>6, <1>7 DEF rs

\* The cashboxes together hold every document.
LEMMA BoxesAddUp ==
  ASSUME TypeInv, BoxesInv, MovementsInv, DocsInv, SeedBoxes # {}
  PROVE  SumFunction([b \in created |-> posted[b]]) = Posted(docs)
<1> DEFINE f == [r \in Requests |-> Delta(job[r])]
           box == [r \in Requests |-> job[r].box]
           total == [b \in created |-> posted[b]]
<1>1. docs \in SUBSET Requests /\ created \in SUBSET Boxes
  BY DEF TypeInv, TypeOK
<1>2. \A r \in Requests : f[r] = Delta(job[r]) /\ box[r] = job[r].box
  OBVIOUS
<1>3. \A r \in docs : box[r] \in created
  <2>1. ASSUME NEW r \in docs PROVE job[r].box \in created
    <3>1. r \in Requests /\ job[r].box \in Boxes /\ job[r].kind # "cashbox"
      BY <1>1 DEF DocsInv, MovementsInv, Recorded
    <3>2. job[r].box # None
      BY <3>1
    <3> QED BY <3>1, <3>2 DEF BoxesInv, MovementsNameBoxes
  <2> QED BY <1>1, <2>1
<1>4. IsFiniteSet(created)
  BY <1>1, FiguresAssumption, FS_Subset
<1>5. DOMAIN total = created /\ \A b \in created : total[b] = posted[b]
  OBVIOUS
<1> HIDE DEF f, box, total
<1>6. /\ IsFiniteSet(docs) /\ Posted(docs) = SumFunctionOnSet(f, docs)
      /\ \A r \in docs : f[r] \in Int
  BY <1>1, <1>2, PostedIs
<1>7. ASSUME NEW b \in created
      PROVE  total[b] = SumFunctionOnSet(f, {r \in docs : box[r] = b})
  <2> DEFINE rs == {r \in docs : box[r] = b}
  <2>1. rs = {r \in docs : job[r].box = b} /\ rs \in SUBSET Requests
    BY <1>1, <1>2
  <2>2. total[b] = Posted(rs)
    BY <1>1, <1>5, <2>1 DEF MovementsInv
  <2> HIDE DEF rs
  <2>3. Posted(rs) = SumFunctionOnSet(f, rs)
    BY <1>2, <2>1, PostedIs
  <2> QED BY <2>2, <2>3 DEF rs
<1>8. SumFunctionOnSet(total, created) = SumFunctionOnSet(f, docs)
  BY <1>3, <1>4, <1>6, <1>7, SumGroups
<1> QED BY <1>5, <1>6, <1>8 DEF SumFunction, total

LEMMA FinanceAgrees ==
  ASSUME TypeInv, BoxesInv, MovementsInv, DocsInv, SeedBoxes # {},
         \A b \in Boxes : balance[b] = Opening[b] + posted[b]
  PROVE  FinanceFiguresAgree
<1> DEFINE opening == [b \in created |-> Opening[b]]
           moved == [b \in created |-> posted[b]]
           shown == [b \in created |-> balance[b]]
<1>1. IsFiniteSet(created) /\ created \in SUBSET Boxes
  BY FiguresAssumption, FS_Subset DEF TypeInv, TypeOK
<1>2. \A b \in created : /\ opening[b] \in Int /\ moved[b] \in Int
                         /\ shown[b] = opening[b] + moved[b]
  BY <1>1, BoxesAssumption DEF TypeInv, TypeOK
<1>3. DOMAIN opening = created /\ DOMAIN moved = created /\ DOMAIN shown = created
  OBVIOUS
<1>4. CashboxTotal = SumFunction(shown)
  BY DEF CashboxTotal
<1>5. /\ SumFunction(moved) =
           Sum(Of("income")) - Sum(Of("expense")) + Sum(PaymentDocs) + Posted(Lost)
      /\ Posted(Lost) \in Int
  BY BoxesAddUp, PostedAddsUp, LostIsPosted
<1> HIDE DEF opening, moved, shown
<1>6. SumFunctionOnSet(shown, created) =
        SumFunctionOnSet(opening, created) + SumFunctionOnSet(moved, created)
  BY <1>1, <1>2, SumPlus
<1>7. SumFunctionOnSet(opening, created) \in Int /\ SumFunctionOnSet(moved, created) \in Int
  BY <1>1, <1>2, SumInt
<1>8. CashboxTotal - SumFunction(opening) = SumFunction(moved)
  BY <1>3, <1>4, <1>6, <1>7 DEF SumFunction
<1>9. CashboxTotal - SumFunction([b \in created |-> Opening[b]]) =
        SumFunction([y \in Years |-> YearlyFinance(y).balance])
        + SumFunction([m \in Months |-> SumFunction(PaymentsSummary(m))])
        + SumFunction([r \in Lost |-> Delta(job[r])])
  BY <1>5, <1>8, YearsAddUp, PaymentsAddUp DEF opening, Posted
<1>10. ASSUME NEW y \in Years
       PROVE  LET year == YearlyFinance(y) IN
              /\ y + 1 \in Years =>
                   LET farvardin == [year |-> y + 1, month |-> 1]
                       next == MonthlyFinance(farvardin)
                       chart == ChartTotal(farvardin, 13) IN
                   /\ chart.income = year.income + next.income
                   /\ chart.expense = year.expense + next.expense
              /\ SumFunction(ExpenseByCategory(y)) =
                   year.expense + Sum({r \in Lost : /\ job[r].kind = "expense"
                                                    /\ MonthAt(DatedAt(r)).year = y
                                                    /\ MonthAt(DatedAt(r)).month < 12})
  <2>1. y \in Int
    BY CalendarAssumption
  <2> QED BY <2>1, ChartAddsUp, CategoriesAddUp
<1> QED BY <1>9, <1>10 DEF FinanceFiguresAgree

(***************************************************************************)
(* A date that was typed stays in its month: for every calendar, every     *)
(* zone in which the hour given to it is the same day, and every history   *)
(* of documents, it is shown there and reported there and nowhere else.    *)
(***************************************************************************)
THEOREM TypedDatesAlwaysStay == Spec => []TypedDatesStay
<1>1. ASSUME TypeInv PROVE TypedDatesStay
  <2> SUFFICES ASSUME NEW r \in docs, IsTyped(r)
               PROVE  LET m == MonthAt(DayOf[r]) IN
                      /\ \A z \in Zones : YearMonth(DatedAt(r), z) = m
                      /\ \A n \in Months : r \in Dated(job[r].kind, n, n) <=> n = m
                      /\ \A y \in Years :
                           r \in Dated(job[r].kind, [year |-> y, month |-> 1],
                                                   [year |-> y, month |-> 12])
                             <=> y = m.year
    BY DEF TypedDatesStay
  <2>1. r \in Requests /\ DayOf[r] \in Int /\ DatedAt(r) = DayOf[r] + Noon
    BY <1>1, CalendarAssumption DEF IsTyped, DatedAt, TypeInv, TypeOK
  <2>2. PICK m \in Months : StartOf[m] <= DayOf[r] /\ DayOf[r] + Day <= EndOf[m]
    BY <2>1, CalendarAssumption DEF IsTyped
  <2>3. /\ StartOf[m] \in Int /\ EndOf[m] \in Int /\ Day \in Int /\ Second \in Int
        /\ 0 < Second /\ Second < Day /\ Noon \in 0..(Day - Second)
    BY CalendarAssumption
  <2>4. MonthAt(DayOf[r]) = m
    <3>1. DayOf[r] < EndOf[m]
      BY <2>1, <2>2, <2>3
    <3> QED BY <2>1, <2>2, <3>1, MonthFound
  <2>5. ASSUME NEW z \in Zones PROVE YearMonth(DatedAt(r), z) = m
    <3>1. z \in Int /\ Noon + z \in 0..(Day - 1)
      BY CalendarAssumption
    <3>2. /\ DatedAt(r) + z \in Int
          /\ StartOf[m] <= DatedAt(r) + z /\ DatedAt(r) + z < EndOf[m]
      BY <2>1, <2>2, <2>3, <3>1
    <3> QED BY <3>2, MonthFound DEF YearMonth
  <2>6. MonthOf[r] = m /\ r \notin Lost
    <3>1. /\ DatedAt(r) \in Int /\ StartOf[m] <= DatedAt(r)
          /\ DatedAt(r) < EndOf[m] /\ ~(DatedAt(r) > EndOf[m] - Second)
      BY <2>1, <2>2, <2>3
    <3>2. MonthAt(DatedAt(r)) = m
      BY <3>1, MonthFound
    <3> QED BY <2>1, <3>1, <3>2 DEF MonthOf, Lost, MonthRange
  <2>7. \A n \in Months : r \in Dated(job[r].kind, n, n) <=> n = m
    BY <1>1, <2>6, ReportedIn DEF Dated
  <2>8. \A y \in Years :
          r \in Dated(job[r].kind, [year |-> y, month |-> 1], [year |-> y, month |-> 12])
            <=> y = m.year
    BY <1>1, <2>6, ReportedInYear DEF Dated
  <2> QED BY <2>4, <2>5, <2>7, <2>8
<1>2. TypeInv => TypedDatesStay
  BY <1>1
<1> QED BY <1>2, InitTypeInv, TypeInvInductive, PTL DEF Spec

(***************************************************************************)
(* In a building that starts with a cashbox, the chart, the reports of     *)
(* months, years and categories and the cashboxes agree as long as no two  *)
(* writes of a cashbox overlap.  A building without a cashbox may take an  *)
(* online payment that no cashbox shows: verifyOnline skips the movement.  *)
(***************************************************************************)
THEOREM FinanceAgreesUnlessOverlapped ==
  SeedBoxes # {} => (Spec => [](overlapped \cap Boxes = {} => FinanceFiguresAgree))
<1> SUFFICES ASSUME SeedBoxes # {}
             PROVE  Spec => [](overlapped \cap Boxes = {} => FinanceFiguresAgree)
  OBVIOUS
<1>1. ASSUME TypeInv, BoxesInv, BoxInv, MovementsInv, DocsInv, overlapped \cap Boxes = {}
      PROVE  FinanceFiguresAgree
  <2>1. \A b \in Boxes : balance[b] = Opening[b] + posted[b]
    BY <1>1 DEF BoxInv, BoxCurrent
  <2> QED BY <1>1, <2>1, FinanceAgrees
<1>2. TypeInv /\ BoxesInv /\ BoxInv /\ MovementsInv /\ DocsInv
        => (overlapped \cap Boxes = {} => FinanceFiguresAgree)
  BY <1>1
<1> QED
  BY <1>2, InitTypeInv, InitLinkInv, InitBoxesInv, InitBoxInv, InitMovements, InitDocs,
     TypeInvInductive, LinkInvInductive, BoxesInvInductive, BoxInvInductive, MovementsInductive,
     DocsInductive, PTL DEF Spec

(***************************************************************************)
(* So they always agree when documents are recorded one after another.     *)
(***************************************************************************)
THEOREM FinanceAgreesWhenSerial == Serial /\ SeedBoxes # {} => (Spec => []FinanceFiguresAgree)
<1> SUFFICES ASSUME Serial, SeedBoxes # {} PROVE Spec => []FinanceFiguresAgree
  OBVIOUS
<1>1. SerialInv => overlapped \cap Boxes = {}
  BY DEF SerialInv
<1> QED
  BY <1>1, InitTypeInv, InitLinkInv, InitSerialInv, TypeInvInductive, LinkInvInductive,
     SerialInvInductive, FinanceAgreesUnlessOverlapped, PTL DEF Spec

=============================================================================
