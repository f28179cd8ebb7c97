------------------------ MODULE ChargePeriodsProofs ------------------------
(***************************************************************************)
(* Theorems about ChargePeriods, for every set of requests, months and     *)
(* units, and whichever of them are reachable.                             *)
(***************************************************************************)
EXTENDS ChargePeriods, FiniteSetTheorems, TLAPS

USE UnitsAssumption, NoneAssumption

Labels == {"idle", "done", "failed", "readUnits", "insert", "approve", "notify"}

(***************************************************************************)
(* What a request works on fits its label, given the periods there are;    *)
(* a period exists only once the request that creates it has ended.        *)
(***************************************************************************)
Fits(l, j, r) ==
  /\ l \in {"readUnits", "insert"} => j.kind = "create" /\ j.month \in Months
  /\ l = "insert" => j.units # {}
  /\ l \in {"approve", "notify"} => j.kind = "approve"
  /\ j.kind = "approve" => j.period \in Requests /\ period[j.period] # "NONE"
  /\ l = "idle" => j.kind = None
  /\ period[r] # "NONE" => l = "done" /\ j.kind = "create" /\ j.month \in Months

JobsFit == \A r \in Requests : Fits(pc[r], job[r], r)

TypeInv == TypeOK /\ JobsFit

LEMMA InitTypeInv == Init => TypeInv
<1> SUFFICES ASSUME Init PROVE TypeInv
  OBVIOUS
<1>1. /\ pc \in [Requests -> Resting \cup {"readUnits", "insert", "approve", "notify"}]
      /\ job \in [Requests -> JobType]
  BY DEF Init, Resting, JobType, NoJob
<1>2. unit \in [Units -> {"unborn", "live", "removed"}]
  BY DEF Init
<1>3. /\ period \in [Requests -> {"NONE", "DRAFT", "APPROVED"}]
      /\ charges \in [Requests -> SUBSET Units]
      /\ approver \in [Requests -> Requests \cup {None}]
      /\ \A p \in Requests : approver[p] # None <=> period[p] = "APPROVED"
  BY DEF Init
<1>4. notices \in [Requests -> [Units -> Nat]]
  BY DEF Init
<1>5. JobsFit
  BY DEF Init, NoJob, JobsFit, Fits
<1> QED BY <1>1, <1>2, <1>3, <1>4, <1>5 DEF TypeInv, TypeOK

(***************************************************************************)
(* A step of one request that leaves all periods alone.                    *)
(***************************************************************************)
LEMMA OneRequestMoves ==
  ASSUME TypeInv, NEW r \in Requests, NEW l \in Labels, NEW j \in JobType,
         Fits(l, j, r), UNCHANGED period,
         pc' = [pc EXCEPT ![r] = l], job' = [job EXCEPT ![r] = j]
  PROVE  /\ pc' \in [Requests -> Resting \cup {"readUnits", "insert", "approve", "notify"}]
         /\ job' \in [Requests -> JobType] /\ JobsFit'
<1>1. pc' \in [Requests -> Resting \cup {"readUnits", "insert", "approve", "notify"}]
  BY DEF TypeInv, TypeOK, Labels, Resting
<1>2. job' \in [Requests -> JobType]
  BY DEF TypeInv, TypeOK
<1>3. ASSUME NEW o \in Requests PROVE Fits(pc[o], job[o], o)' 
  <2>1. CASE o = r
    <3>1. pc'[o] = l /\ job'[o] = j
      BY <2>1 DEF TypeInv, TypeOK
    <3> QED BY <2>1, <3>1 DEF Fits
  <2>2. CASE o # r
    <3>1. pc'[o] = pc[o] /\ job'[o] = job[o] /\ Fits(pc[o], job[o], o)
      BY <2>2 DEF TypeInv, TypeOK, JobsFit
    <3> QED BY <3>1 DEF Fits
  <2> QED BY <2>1, <2>2
<1> QED BY <1>1, <1>2, <1>3 DEF JobsFit

\* The same when the request keeps its job.
LEMMA OneRequestSteps ==
  ASSUME TypeInv, NEW r \in Requests, NEW l \in Labels, Fits(l, job[r], r),
         UNCHANGED <<job, period>>, pc' = [pc EXCEPT ![r] = l]
  PROVE  /\ pc' \in [Requests -> Resting \cup {"readUnits", "insert", "approve", "notify"}]
         /\ job' \in [Requests -> JobType] /\ JobsFit'
<1>1. job[r] \in JobType /\ job' = [job EXCEPT ![r] = job[r]]
  BY DEF TypeInv, TypeOK
<1> QED BY <1>1, OneRequestMoves

LEMMA StartType ==
  ASSUME TypeInv, NEW r \in Requests, pc[r] = "idle", UNCHANGED <<unit, period, charges, approver, notices>>,
         NEW l \in Labels, NEW j \in JobType, Fits(l, j, r),
         pc' = [pc EXCEPT ![r] = l], job' = [job EXCEPT ![r] = j]
  PROVE  TypeInv'
<1>1. /\ pc' \in [Requests -> Resting \cup {"readUnits", "insert", "approve", "notify"}]
      /\ job' \in [Requests -> JobType] /\ JobsFit'
  BY OneRequestMoves
<1> QED BY <1>1 DEF TypeInv, TypeOK

LEMMA InsertPeriodType ==
  ASSUME TypeInv, NEW r \in Requests, InsertPeriod(r)
  PROVE  TypeInv'
<1>1. /\ pc[r] = "insert" /\ Fits(pc[r], job[r], r) /\ job[r] \in JobType
      /\ period[r] = "NONE" /\ approver[r] = None
  BY DEF InsertPeriod, TypeInv, TypeOK, JobsFit, Fits
<1>2. CASE PeriodsOf(job[r].month) = {}
  <2>1. /\ period' = [period EXCEPT ![r] = "DRAFT"]
        /\ charges' = [charges EXCEPT ![r] = job[r].units]
        /\ pc' = [pc EXCEPT ![r] = "done"] /\ UNCHANGED job
    BY <1>2 DEF InsertPeriod
  <2>2. JobsFit'
    <3>1. ASSUME NEW o \in Requests PROVE Fits(pc[o], job[o], o)'
      <4>1. Fits(pc[o], job[o], o)
        BY DEF TypeInv, JobsFit
      <4>2. \A p \in Requests : period[p] # "NONE" => period'[p] # "NONE"
        BY <2>1 DEF TypeInv, TypeOK
      <4> QED BY <1>1, <2>1, <4>1, <4>2 DEF Fits, TypeInv, TypeOK
    <3> QED BY <3>1 DEF JobsFit
  <2>3. /\ period' \in [Requests -> {"NONE", "DRAFT", "APPROVED"}]
        /\ charges' \in [Requests -> SUBSET Units]
        /\ pc' \in [Requests -> Resting \cup {"readUnits", "insert", "approve", "notify"}]
    BY <1>1, <2>1 DEF TypeInv, TypeOK, JobType, Resting
  <2>4. \A p \in Requests : approver[p] # None <=> period'[p] = "APPROVED"
    BY <1>1, <2>1 DEF TypeInv, TypeOK
  <2> QED BY <2>1, <2>2, <2>3, <2>4 DEF InsertPeriod, TypeInv, TypeOK
<1>3. CASE PeriodsOf(job[r].month) # {}
  <2>1. UNCHANGED <<period, charges, job>> /\ pc' = [pc EXCEPT ![r] = "failed"]
    BY <1>3 DEF InsertPeriod
  <2>2. Fits("failed", job[r], r)
    BY <1>1 DEF Fits
  <2>3. /\ pc' \in [Requests -> Resting \cup {"readUnits", "insert", "approve", "notify"}]
        /\ job' \in [Requests -> JobType] /\ JobsFit'
    BY <2>1, <2>2, OneRequestSteps DEF Labels
  <2> QED BY <2>1, <2>3 DEF InsertPeriod, TypeInv, TypeOK
<1> QED BY <1>2, <1>3

LEMMA ApproveType ==
  ASSUME TypeInv, NEW r \in Requests, Approve(r)
  PROVE  TypeInv'
<1> DEFINE p == job[r].period
<1>1. p \in Requests /\ period[p] # "NONE" /\ job[r].kind = "approve" /\ period[r] = "NONE"
  BY DEF Approve, TypeInv, JobsFit, Fits
<1>2. /\ period' = [period EXCEPT ![p] = "APPROVED"]
      /\ approver' = [approver EXCEPT ![p] = r]
      /\ pc' = [pc EXCEPT ![r] = "notify"] /\ UNCHANGED job /\ pc[r] = "approve"
  BY DEF Approve
<1> HIDE DEF p
<1>3. \A q \in Requests : period[q] # "NONE" <=> period'[q] # "NONE"
  BY <1>1, <1>2 DEF TypeInv, TypeOK
<1>4. JobsFit'
  <2>1. ASSUME NEW o \in Requests PROVE Fits(pc[o], job[o], o)'
    <3>1. Fits(pc[o], job[o], o)
      BY DEF TypeInv, JobsFit
    <3> QED BY <1>1, <1>2, <1>3, <3>1 DEF Fits, TypeInv, TypeOK
  <2> QED BY <2>1 DEF JobsFit
<1>5. /\ period' \in [Requests -> {"NONE", "DRAFT", "APPROVED"}]
      /\ approver' \in [Requests -> Requests \cup {None}]
      /\ \A q \in Requests : approver'[q] # None <=> period'[q] = "APPROVED"
      /\ pc' \in [Requests -> Resting \cup {"readUnits", "insert", "approve", "notify"}]
  BY <1>1, <1>2 DEF TypeInv, TypeOK
<1> QED BY <1>2, <1>4, <1>5 DEF Approve, TypeInv, TypeOK

LEMMA NotifyType ==
  ASSUME TypeInv, NEW r \in Requests, Notify(r)
  PROVE  TypeInv'
<1>1. /\ pc[r] = "notify" /\ Fits(pc[r], job[r], r) /\ job[r] \in JobType
      /\ job[r].kind = "approve" /\ job[r].period \in Requests
  BY DEF Notify, TypeInv, TypeOK, JobsFit, Fits
<1>2. CASE job[r].units = {} /\ pc' = [pc EXCEPT ![r] = "done"] /\ UNCHANGED <<job, notices>>
  <2>1. Fits("done", job[r], r)
    BY <1>1 DEF Fits
  <2>2. /\ pc' \in [Requests -> Resting \cup {"readUnits", "insert", "approve", "notify"}]
        /\ job' \in [Requests -> JobType] /\ JobsFit'
    BY <1>2, <2>1, OneRequestSteps DEF Labels, Notify
  <2> QED BY <1>2, <2>2 DEF Notify, TypeInv, TypeOK
<1>3. ASSUME NEW u \in job[r].units,
             notices' = [notices EXCEPT ![job[r].period][u] = @ + 1],
             job' = [job EXCEPT ![r].units = @ \ {u}], UNCHANGED pc
      PROVE  TypeInv'
  <2> DEFINE j == [job[r] EXCEPT !.units = job[r].units \ {u}]
  <2>1. j \in JobType /\ j.kind = job[r].kind /\ j.period = job[r].period /\ j.month = job[r].month
    BY <1>1 DEF JobType
  <2>2. Fits("notify", j, r)
    BY <1>1, <2>1 DEF Fits
  <2>3. job' = [job EXCEPT ![r] = j] /\ pc' = [pc EXCEPT ![r] = "notify"] /\ UNCHANGED period
    BY <1>1, <1>3 DEF Notify, TypeInv, TypeOK
  <2>4. /\ pc' \in [Requests -> Resting \cup {"readUnits", "insert", "approve", "notify"}]
        /\ job' \in [Requests -> JobType] /\ JobsFit'
    <3> HIDE DEF j
    <3> QED BY <2>1, <2>2, <2>3, OneRequestMoves DEF Labels
  <2>5. u \in Units
    BY <1>1 DEF JobType
  <2>6. notices' \in [Requests -> [Units -> Nat]]
    BY <1>1, <1>3, <2>5 DEF TypeInv, TypeOK
  <2> QED BY <2>4, <2>6 DEF Notify, TypeInv, TypeOK
<1> QED BY <1>2, <1>3 DEF Notify

LEMMA TypeInvInductive == TypeInv /\ [Next]_vars => TypeInv'
<1> SUFFICES ASSUME TypeInv, [Next]_vars PROVE TypeInv'
  OBVIOUS
<1>1. CASE UNCHANGED vars
  BY <1>1 DEF vars, TypeInv, TypeOK, JobsFit, Fits
<1>2. ASSUME NEW u \in Units, AddUnit(u) \/ RemoveUnit(u) PROVE TypeInv'
  <2>1. unit' \in [Units -> {"unborn", "live", "removed"}]
    BY <1>2 DEF AddUnit, RemoveUnit, TypeInv, TypeOK
  <2>2. UNCHANGED <<pc, job, period, charges, approver, notices>>
    BY <1>2 DEF AddUnit, RemoveUnit
  <2>3. JobsFit'
    BY <2>2 DEF TypeInv, JobsFit, Fits
  <2> QED BY <2>1, <2>2, <2>3 DEF TypeInv, TypeOK
<1>3. ASSUME NEW r \in Requests, NEW m \in Months, StartCreate(r, m) PROVE TypeInv'
  <2> DEFINE j == [NoJob EXCEPT !.kind = "create", !.month = m]
             l == IF PeriodsOf(m) = {} THEN "readUnits" ELSE "failed"
  <2>1. pc[r] = "idle" /\ period[r] = "NONE"
    BY <1>3 DEF StartCreate, TypeInv, TypeOK, JobsFit, Fits
  <2>2. j \in JobType /\ Fits(l, j, r) /\ l \in Labels
    BY <2>1 DEF NoJob, JobType, Fits, Labels
  <2>3. pc[r] = "idle" /\ job' = [job EXCEPT ![r] = j] /\ pc' = [pc EXCEPT ![r] = l]
        /\ UNCHANGED <<unit, period, charges, approver, notices>>
    BY <1>3 DEF StartCreate
  <2> HIDE DEF j, l
  <2> QED BY <2>2, <2>3, StartType
<1>4. ASSUME NEW r \in Requests, NEW p \in Requests, StartApprove(r, p) PROVE TypeInv'
  <2> DEFINE j == [NoJob EXCEPT !.kind = "approve", !.period = p,
                     !.units = charges[p] \cap Reachable]
  <2>1. pc[r] = "idle" /\ period[r] = "NONE" /\ period[p] = "DRAFT"
    BY <1>4 DEF StartApprove, TypeInv, TypeOK, JobsFit, Fits
  <2>2. j \in JobType /\ Fits("approve", j, r)
    BY <2>1 DEF NoJob, JobType, Fits, TypeInv, TypeOK
  <2>3. pc[r] = "idle" /\ job' = [job EXCEPT ![r] = j] /\ pc' = [pc EXCEPT ![r] = "approve"]
        /\ UNCHANGED <<unit, period, charges, approver, notices>>
    BY <1>4 DEF StartApprove
  <2> HIDE DEF j
  <2> QED BY <2>2, <2>3, StartType DEF Labels
<1>5. ASSUME NEW r \in Requests, ReadUnits(r) PROVE TypeInv'
  <2> DEFINE j == [job[r] EXCEPT !.units = live]
             l == IF live = {} THEN "failed" ELSE "insert"
  <2>1. pc[r] = "readUnits" /\ Fits(pc[r], job[r], r) /\ job[r] \in JobType /\ live \subseteq Units
    BY <1>5 DEF ReadUnits, TypeInv, TypeOK, JobsFit, live
  <2>2. /\ j \in JobType /\ j.kind = job[r].kind /\ j.period = job[r].period
        /\ j.month = job[r].month /\ j.units = live
    BY <2>1 DEF JobType
  <2>3. Fits(l, j, r) /\ l \in Labels
    BY <2>1, <2>2 DEF Fits, Labels
  <2>4. job' = [job EXCEPT ![r] = j] /\ pc' = [pc EXCEPT ![r] = l] /\ UNCHANGED period
    BY <1>5 DEF ReadUnits
  <2>5. /\ pc' \in [Requests -> Resting \cup {"readUnits", "insert", "approve", "notify"}]
        /\ job' \in [Requests -> JobType] /\ JobsFit'
    <3> HIDE DEF j, l
    <3> QED BY <2>2, <2>3, <2>4, OneRequestMoves
  <2> QED BY <1>5, <2>5 DEF ReadUnits, TypeInv, TypeOK
<1>6. ASSUME NEW r \in Requests, Fail(r) PROVE TypeInv'
  <2>1. Fits("failed", job[r], r)
    BY <1>6 DEF Fail, Resting, TypeInv, JobsFit, Fits
  <2>2. /\ pc' \in [Requests -> Resting \cup {"readUnits", "insert", "approve", "notify"}]
        /\ job' \in [Requests -> JobType] /\ JobsFit'
    BY <1>6, <2>1, OneRequestSteps DEF Fail, Labels
  <2> QED BY <1>6, <2>2 DEF Fail, TypeInv, TypeOK
<1> QED
  BY <1>1, <1>2, <1>3, <1>4, <1>5, <1>6, InsertPeriodType, ApproveType, NotifyType
     DEF Next, Progress

(***************************************************************************)
(* Every handler of charge periods keeps to the columns, and a period has  *)
(* an approver exactly when it is APPROVED.                                *)
(***************************************************************************)
THEOREM TypeCorrect == Spec => []TypeOK
<1>1. TypeInv => TypeOK
  BY DEF TypeInv
<1> QED BY <1>1, InitTypeInv, TypeInvInductive, PTL DEF Spec

-----------------------------------------------------------------------------
(***************************************************************************)
(* The periods of a month.  A request that has created a period is over,   *)
(* so that what it was asked and what it read stay what they were.         *)
(***************************************************************************)
MonthsDiffer ==
  \A p, q \in Requests :
    /\ period[p] # "NONE" /\ period[q] # "NONE"
    /\ job[p].month = job[q].month
    => p = q

PeriodInv == MonthsDiffer /\ PeriodIsComplete

LEMMA InitPeriodInv == Init => PeriodInv
  BY DEF Init, PeriodInv, MonthsDiffer, PeriodIsComplete

\* Steps that create no period.
LEMMA PeriodFrame ==
  ASSUME PeriodInv,
         \A p \in Requests : period'[p] # "NONE" =>
           period[p] # "NONE" /\ job'[p] = job[p] /\ charges'[p] = charges[p]
  PROVE  PeriodInv'
  BY DEF PeriodInv, MonthsDiffer, PeriodIsComplete

LEMMA InsertKeepsPeriodInv ==
  ASSUME TypeInv, PeriodInv, NEW r \in Requests, InsertPeriod(r)
  PROVE  PeriodInv'
<1>1. CASE PeriodsOf(job[r].month) = {}
  <2>1. /\ \A p \in Requests \ {r} : period'[p] = period[p] /\ charges'[p] = charges[p]
        /\ charges'[r] = job[r].units /\ job[r].units # {} /\ UNCHANGED job
    BY <1>1 DEF InsertPeriod, TypeInv, TypeOK, JobsFit, Fits
  <2>2. \A p \in Requests : period[p] # "NONE" => job[p].month # job[r].month
    BY <1>1 DEF PeriodsOf
  <2>3. MonthsDiffer'
    BY <2>1, <2>2 DEF PeriodInv, MonthsDiffer
  <2>4. PeriodIsComplete'
    BY <2>1 DEF PeriodInv, PeriodIsComplete
  <2> QED BY <2>3, <2>4 DEF PeriodInv
<1>2. CASE PeriodsOf(job[r].month) # {}
  BY <1>2, PeriodFrame DEF InsertPeriod
<1> QED BY <1>1, <1>2

LEMMA PeriodInvInductive == TypeInv /\ PeriodInv /\ [Next]_vars => PeriodInv'
<1> SUFFICES ASSUME TypeInv, PeriodInv, [Next]_vars PROVE PeriodInv'
  OBVIOUS
<1>1. CASE UNCHANGED vars
  BY <1>1, PeriodFrame DEF vars
<1>2. ASSUME NEW u \in Units, AddUnit(u) \/ RemoveUnit(u) PROVE PeriodInv'
  BY <1>2, PeriodFrame DEF AddUnit, RemoveUnit
<1>3. ASSUME NEW r \in Requests, NEW j, pc[r] # "done",
             \/ job' = [job EXCEPT ![r] = j]
             \/ UNCHANGED job,
             UNCHANGED <<period, charges>>
      PROVE  PeriodInv'
  <2>1. period[r] = "NONE"
    BY <1>3 DEF TypeInv, JobsFit, Fits
  <2>2. \A o \in Requests \ {r} : job'[o] = job[o]
    BY <1>3 DEF TypeInv, TypeOK
  <2> QED BY <1>3, <2>1, <2>2, PeriodFrame
<1>4. ASSUME NEW r \in Requests, NEW m \in Months, StartCreate(r, m) PROVE PeriodInv'
  BY <1>3, <1>4 DEF StartCreate
<1>5. ASSUME NEW r \in Requests, NEW p \in Requests, StartApprove(r, p) PROVE PeriodInv'
  BY <1>3, <1>5 DEF StartApprove
<1>6. ASSUME NEW r \in Requests, ReadUnits(r) \/ Notify(r) \/ Fail(r) PROVE PeriodInv'
  BY <1>3, <1>6 DEF ReadUnits, Notify, Fail, Resting
<1>7. ASSUME NEW r \in Requests, Approve(r) PROVE PeriodInv'
  <2>1. job[r].period \in Requests /\ period[job[r].period] # "NONE"
    BY <1>7 DEF Approve, TypeInv, JobsFit, Fits
  <2>2. \A p \in Requests : period'[p] # "NONE" => period[p] # "NONE"
    BY <1>7, <2>1 DEF Approve, TypeInv, TypeOK
  <2> QED BY <1>7, <2>2, PeriodFrame DEF Approve
<1> QED
  BY <1>1, <1>2, <1>4, <1>5, <1>6, <1>7, InsertKeepsPeriodInv DEF Next, Progress

(***************************************************************************)
(* A building has at most one period for a month, however many requests to *)
(* create one are in flight.                                               *)
(***************************************************************************)
THEOREM OnePeriod == Spec => []OnePeriodPerMonth
<1>1. ASSUME PeriodInv, NEW m \in Months PROVE Cardinality(PeriodsOf(m)) <= 1
  <2>1. CASE PeriodsOf(m) = {}
    BY <2>1, FS_EmptySet
  <2>2. CASE PeriodsOf(m) # {}
    <3>1. PICK p : p \in PeriodsOf(m)
      BY <2>2
    <3>2. PeriodsOf(m) = {p}
      BY <1>1, <3>1 DEF PeriodsOf, PeriodInv, MonthsDiffer
    <3> QED BY <3>2, FS_Singleton
  <2> QED BY <2>1, <2>2
<1>2. PeriodInv => OnePeriodPerMonth
  BY <1>1 DEF OnePeriodPerMonth
<1> QED
  BY <1>2, InitTypeInv, InitPeriodInv, TypeInvInductive, PeriodInvInductive, PTL DEF Spec

(***************************************************************************)
(* A period charges exactly the units it was calculated for, at least one, *)
(* and approving it never changes whom it charges.                         *)
(***************************************************************************)
THEOREM PeriodComplete == Spec => []PeriodIsComplete
<1>1. PeriodInv => PeriodIsComplete
  BY DEF PeriodInv
<1> QED
  BY <1>1, InitTypeInv, InitPeriodInv, TypeInvInductive, PeriodInvInductive, PTL DEF Spec

-----------------------------------------------------------------------------
(***************************************************************************)
(* Whom an approval has still to tell: every reachable unit of its period  *)
(* is still in the loop of the approving request or has been told.  The    *)
(* charges of the period were there when they were read, and no later step *)
(* adds one.                                                               *)
(***************************************************************************)
ToldOrToTell(r) ==
  job[r].kind = "approve" =>
    /\ \A u \in charges[job[r].period] \cap Reachable :
         u \in job[r].units \/ notices[job[r].period][u] > 0
    /\ pc[r] = "done" => job[r].units = {}

NoticeInv == \A r \in Requests : ToldOrToTell(r)

LEMMA InitNoticeInv == Init => NoticeInv
  BY DEF Init, NoJob, NoticeInv, ToldOrToTell

\* Steps of r that change neither charges nor notices; the others stay.
LEMMA NoticeFrame ==
  ASSUME TypeInv, NoticeInv, NEW r \in Requests, UNCHANGED <<charges, notices>>,
         \A o \in Requests \ {r} : pc'[o] = pc[o] /\ job'[o] = job[o],
         ToldOrToTell(r)'
  PROVE  NoticeInv'
<1>1. ASSUME NEW o \in Requests \ {r} PROVE ToldOrToTell(o)'
  <2>1. ToldOrToTell(o)
    BY DEF NoticeInv
  <2> QED BY <2>1 DEF ToldOrToTell
<1> QED BY <1>1 DEF NoticeInv

LEMMA InsertKeepsNoticeInv ==
  ASSUME TypeInv, NoticeInv, NEW r \in Requests, InsertPeriod(r)
  PROVE  NoticeInv'
<1>1. ASSUME NEW o \in Requests PROVE ToldOrToTell(o)'
  <2>1. ToldOrToTell(o) /\ Fits(pc[o], job[o], o)
    BY DEF NoticeInv, TypeInv, JobsFit
  <2>2. /\ UNCHANGED <<job, notices>> /\ period[r] = "NONE" /\ job[r].kind = "create"
        /\ \A q \in Requests \ {r} : charges'[q] = charges[q] /\ pc'[q] = pc[q]
    BY DEF InsertPeriod, TypeInv, TypeOK, JobsFit, Fits
  <2> QED BY <2>1, <2>2 DEF ToldOrToTell, Fits
<1> QED BY <1>1 DEF NoticeInv

LEMMA NotifyKeepsNoticeInv ==
  ASSUME TypeInv, NoticeInv, NEW r \in Requests, Notify(r)
  PROVE  NoticeInv'
<1>1. /\ ToldOrToTell(r) /\ job[r].kind = "approve" /\ job[r].period \in Requests
      /\ job[r] \in JobType /\ pc[r] = "notify" /\ UNCHANGED charges
  BY DEF Notify, NoticeInv, TypeInv, TypeOK, JobsFit, Fits
<1>2. CASE job[r].units = {} /\ pc' = [pc EXCEPT ![r] = "done"] /\ UNCHANGED <<job, notices>>
  <2>1. ToldOrToTell(r)'
    BY <1>1, <1>2 DEF ToldOrToTell
  <2>2. \A o \in Requests \ {r} : pc'[o] = pc[o] /\ job'[o] = job[o]
    BY <1>2 DEF TypeInv, TypeOK
  <2> QED BY <1>1, <1>2, <2>1, <2>2, NoticeFrame
<1>3. ASSUME NEW u \in job[r].units,
             notices' = [notices EXCEPT ![job[r].period][u] = @ + 1],
             job' = [job EXCEPT ![r].units = @ \ {u}], UNCHANGED pc
      PROVE  NoticeInv'
  <2>1. u \in Units /\ notices[job[r].period][u] \in Nat
    BY <1>1 DEF JobType, TypeInv, TypeOK
  <2>2. \A p \in Requests, v \in Units : notices[p][v] > 0 => notices'[p][v] > 0
    BY <1>1, <1>3, <2>1 DEF TypeInv, TypeOK
  <2>3. notices'[job[r].period][u] > 0
    BY <1>1, <1>3, <2>1 DEF TypeInv, TypeOK
  <2>4. /\ job'[r].kind = job[r].kind /\ job'[r].period = job[r].period
        /\ job'[r].units = job[r].units \ {u}
        /\ \A o \in Requests \ {r} : job'[o] = job[o]
    BY <1>1, <1>3 DEF JobType, TypeInv, TypeOK
  <2>5. ToldOrToTell(r)'
    BY <1>1, <1>3, <2>2, <2>3, <2>4 DEF ToldOrToTell
  <2>6. ASSUME NEW o \in Requests \ {r} PROVE ToldOrToTell(o)'
    <3>1. ToldOrToTell(o) /\ Fits(pc[o], job[o], o)
      BY DEF NoticeInv, TypeInv, JobsFit
    <3> QED BY <1>1, <1>3, <2>2, <2>4, <3>1 DEF ToldOrToTell, Fits
  <2> QED BY <2>5, <2>6 DEF NoticeInv
<1> QED BY <1>2, <1>3 DEF Notify

LEMMA NoticeInvInductive == TypeInv /\ NoticeInv /\ [Next]_vars => NoticeInv'
<1> SUFFICES ASSUME TypeInv, NoticeInv, [Next]_vars PROVE NoticeInv'
  OBVIOUS
<1>1. CASE UNCHANGED vars
  BY <1>1 DEF vars, NoticeInv, ToldOrToTell
<1>2. ASSUME NEW u \in Units, AddUnit(u) \/ RemoveUnit(u) PROVE NoticeInv'
  BY <1>2 DEF AddUnit, RemoveUnit, NoticeInv, ToldOrToTell
<1>3. ASSUME NEW r \in Requests, NEW m \in Months, StartCreate(r, m) PROVE NoticeInv'
  <2>1. /\ UNCHANGED <<charges, notices>> /\ job'[r].kind = "create"
        /\ \A o \in Requests \ {r} : pc'[o] = pc[o] /\ job'[o] = job[o]
    BY <1>3 DEF StartCreate, NoJob, TypeInv, TypeOK
  <2> QED BY <2>1, NoticeFrame DEF ToldOrToTell
<1>4. ASSUME NEW r \in Requests, NEW p \in Requests, StartApprove(r, p) PROVE NoticeInv'
  <2>1. /\ UNCHANGED <<charges, notices>> /\ pc'[r] = "approve"
        /\ job'[r].period = p /\ job'[r].units = charges[p] \cap Reachable
        /\ \A o \in Requests \ {r} : pc'[o] = pc[o] /\ job'[o] = job[o]
    BY <1>4 DEF StartApprove, NoJob, TypeInv, TypeOK
  <2> QED BY <2>1, NoticeFrame DEF ToldOrToTell
<1>5. ASSUME NEW r \in Requests, ReadUnits(r) PROVE NoticeInv'
  <2>1. /\ UNCHANGED <<charges, notices>> /\ job'[r].kind = "create"
        /\ \A o \in Requests \ {r} : pc'[o] = pc[o] /\ job'[o] = job[o]
    BY <1>5 DEF ReadUnits, TypeInv, TypeOK, JobType, JobsFit, Fits
  <2> QED BY <2>1, NoticeFrame DEF ToldOrToTell
<1>6. ASSUME NEW r \in Requests, Approve(r) \/ Fail(r) PROVE NoticeInv'
  <2>1. /\ UNCHANGED <<job, charges, notices>> /\ pc'[r] # "done"
        /\ \A o \in Requests \ {r} : pc'[o] = pc[o] /\ job'[o] = job[o]
    BY <1>6 DEF Approve, Fail, TypeInv, TypeOK
  <2>2. ToldOrToTell(r)
    BY DEF NoticeInv
  <2> QED BY <2>1, <2>2, NoticeFrame DEF ToldOrToTell
<1> QED
  BY <1>1, <1>2, <1>3, <1>4, <1>5, <1>6, InsertKeepsNoticeInv, NotifyKeepsNoticeInv
     DEF Next, Progress

(***************************************************************************)
(* When approvePeriod answers, every resident with an account has been     *)
(* told, whatever other approvals of the period are doing.                 *)
(***************************************************************************)
THEOREM ApprovalAnnounced == Spec => []AnsweredApprovalAnnounced
<1>1. NoticeInv => AnsweredApprovalAnnounced
  BY DEF NoticeInv, ToldOrToTell, AnsweredApprovalAnnounced
<1> QED
  BY <1>1, InitTypeInv, InitNoticeInv, TypeInvInductive, NoticeInvInductive, PTL DEF Spec

=============================================================================
