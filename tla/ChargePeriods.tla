---------------------------- MODULE ChargePeriods ----------------------------
(***************************************************************************)
(* Charge periods: ChargesService.createPeriod and approvePeriod, while    *)
(* units are added to and removed from the building.                       *)
(*                                                                         *)
(* createPeriod looks for a period of the month, reads the units, computes *)
(* their charges and inserts period and charges in one transaction; the    *)
(* unique index on (buildingId, year, month) has the last word.            *)
(* approvePeriod reads the period with its charges, updates its status     *)
(* without looking again, and then notifies the residents one by one, each *)
(* notification a write of its own.                                        *)
(***************************************************************************)
EXTENDS Naturals, FiniteSets

CONSTANTS
  Requests,   \* identities of HTTP requests; a period is named by its request
  Months,     \* Jalali months a period can be for
  Units,      \* identities of units
  Reachable,  \* the units whose current resident has a user account
  None        \* SQL NULL, or a field a request does not use

ASSUME UnitsAssumption == Reachable \subseteq Units
ASSUME NoneAssumption ==
  /\ None \notin Requests /\ None \notin Months /\ None \notin {"create", "approve"}

VARIABLES
  pc,         \* pc[r]: the await at which request r is suspended
  job,        \* job[r]: what r was asked and what it has read
  unit,       \* unit[u]: "unborn", "live" or "removed" (deletedAt is set)
  period,     \* period[p]: "NONE", "DRAFT" or "APPROVED"
  charges,    \* charges[p]: the units period p has charges for
  approver,   \* approver[p]: the request approvedById and approvedAt come from
  notices     \* notices[p]: notices[p][u] notifications sent for the charge of u

vars == <<pc, job, unit, period, charges, approver, notices>>

\* units: for createPeriod the units read, for approvePeriod those whose
\* resident the loop has still to notify.
NoJob == [kind |-> None, month |-> None, period |-> None, units |-> {}]

Resting == {"idle", "done", "failed"}

Init ==
  /\ pc = [r \in Requests |-> "idle"]
  /\ job = [r \in Requests |-> NoJob]
  /\ unit \in [Units -> {"unborn", "live"}]
  /\ period = [p \in Requests |-> "NONE"]
  /\ charges = [p \in Requests |-> {}]
  /\ approver = [p \in Requests |-> None]
  /\ notices = [p \in Requests |-> [u \in Units |-> 0]]

live == {u \in Units : unit[u] = "live"}

PeriodsOf(m) == {p \in Requests : period[p] # "NONE" /\ job[p].month = m}

-----------------------------------------------------------------------------
(* Units, as the buildings module changes them *)

AddUnit(u) ==
  /\ unit[u] = "unborn"
  /\ unit' = [unit EXCEPT ![u] = "live"]
  /\ UNCHANGED <<pc, job, period, charges, approver, notices>>

\* A soft delete: the charges of the unit stay.
RemoveUnit(u) ==
  /\ unit[u] = "live"
  /\ unit' = [unit EXCEPT ![u] = "removed"]
  /\ UNCHANGED <<pc, job, period, charges, approver, notices>>

-----------------------------------------------------------------------------
(* createPeriod *)

\* A period of the month that is already there is a conflict.
StartCreate(r, m) ==
  /\ pc[r] = "idle"
  /\ job' = [job EXCEPT ![r] = [NoJob EXCEPT !.kind = "create", !.month = m]]
  /\ pc' = [pc EXCEPT ![r] = IF PeriodsOf(m) = {} THEN "readUnits" ELSE "failed"]
  /\ UNCHANGED <<unit, period, charges, approver, notices>>

\* Mutant: a building without units is not refused.
ReadUnitsUnchecked(r) ==
  /\ pc[r] = "readUnits"
  /\ job' = [job EXCEPT ![r].units = live]
  /\ pc' = [pc EXCEPT ![r] = "insert"]
  /\ UNCHANGED <<unit, period, charges, approver, notices>>

\* A building without units is refused.
ReadUnits(r) ==
  /\ pc[r] = "readUnits"
  /\ job' = [job EXCEPT ![r].units = live]
  /\ pc' = [pc EXCEPT ![r] = IF live = {} THEN "failed" ELSE "insert"]
  /\ UNCHANGED <<unit, period, charges, approver, notices>>

\* Mutant: there is no unique index on the month.
InsertPeriodAnyway(r) ==
  /\ pc[r] = "insert"
  /\ period' = [period EXCEPT ![r] = "DRAFT"]
  /\ charges' = [charges EXCEPT ![r] = job[r].units]
  /\ pc' = [pc EXCEPT ![r] = "done"]
  /\ UNCHANGED <<job, unit, approver, notices>>

\* The transaction: period, items and all charges, or a unique violation.
InsertPeriod(r) ==
  /\ pc[r] = "insert"
  /\ IF PeriodsOf(job[r].month) = {}
       THEN /\ period' = [period EXCEPT ![r] = "DRAFT"]
            /\ charges' = [charges EXCEPT ![r] = job[r].units]
            /\ pc' = [pc EXCEPT ![r] = "done"]
       ELSE /\ pc' = [pc EXCEPT ![r] = "failed"]
            /\ UNCHANGED <<period, charges>>
  /\ UNCHANGED <<job, unit, approver, notices>>

-----------------------------------------------------------------------------
(* approvePeriod *)

\* The period is read with its charges and their residents; only a draft
\* goes on.
StartApprove(r, p) ==
  /\ pc[r] = "idle"
  /\ period[p] = "DRAFT"
  /\ job' = [job EXCEPT ![r] =
       [NoJob EXCEPT !.kind = "approve", !.period = p, !.units = charges[p] \cap Reachable]]
  /\ pc' = [pc EXCEPT ![r] = "approve"]
  /\ UNCHANGED <<unit, period, charges, approver, notices>>

\* The update names the period by its id alone.
Approve(r) ==
  /\ pc[r] = "approve"
  /\ period' = [period EXCEPT ![job[r].period] = "APPROVED"]
  /\ approver' = [approver EXCEPT ![job[r].period] = r]
  /\ pc' = [pc EXCEPT ![r] = "notify"]
  /\ UNCHANGED <<job, unit, charges, notices>>

\* Mutant: the loop stops before its last charge.
NotifyAllButOne(r) ==
  /\ pc[r] = "notify"
  /\ \/ /\ Cardinality(job[r].units) <= 1
        /\ pc' = [pc EXCEPT ![r] = "done"]
        /\ UNCHANGED <<job, notices>>
     \/ \E u \in job[r].units :
          /\ Cardinality(job[r].units) > 1
          /\ notices' = [notices EXCEPT ![job[r].period][u] = @ + 1]
          /\ job' = [job EXCEPT ![r].units = @ \ {u}]
          /\ UNCHANGED pc
  /\ UNCHANGED <<unit, period, charges, approver>>

\* One turn of the loop, or its end; the rows come in no given order.
Notify(r) ==
  /\ pc[r] = "notify"
  /\ \/ /\ job[r].units = {}
        /\ pc' = [pc EXCEPT ![r] = "done"]
        /\ UNCHANGED <<job, notices>>
     \/ \E u \in job[r].units :
          /\ notices' = [notices EXCEPT ![job[r].period][u] = @ + 1]
          /\ job' = [job EXCEPT ![r].units = @ \ {u}]
          /\ UNCHANGED pc
  /\ UNCHANGED <<unit, period, charges, approver>>

-----------------------------------------------------------------------------
\* An exception or the end of the instance at any await.
Fail(r) ==
  /\ pc[r] \notin Resting
  /\ pc' = [pc EXCEPT ![r] = "failed"]
  /\ UNCHANGED <<job, unit, period, charges, approver, notices>>

Progress(r) == ReadUnits(r) \/ InsertPeriod(r) \/ Approve(r) \/ Notify(r)

Next ==
  \/ \E u \in Units : AddUnit(u) \/ RemoveUnit(u)
  \/ \E r \in Requests :
       \/ \E m \in Months : StartCreate(r, m)
       \/ \E p \in Requests : StartApprove(r, p)
       \/ Progress(r) \/ Fail(r)

Spec == Init /\ [][Next]_vars

\* The event loop resumes every handler whose await has an answer.
FairSpec == Spec /\ \A r \in Requests : WF_vars(Progress(r))

-----------------------------------------------------------------------------
(* Properties *)

JobType ==
  [kind : {None, "create", "approve"}, month : Months \cup {None},
   period : Requests \cup {None}, units : SUBSET Units]

\* Columns and labels keep their types; the columns status and approvedById
\* are written together.
TypeOK ==
  /\ pc \in [Requests -> Resting \cup {"readUnits", "insert", "approve", "notify"}]
  /\ job \in [Requests -> JobType]
  /\ unit \in [Units -> {"unborn", "live", "removed"}]
  /\ period \in [Requests -> {"NONE", "DRAFT", "APPROVED"}]
  /\ charges \in [Requests -> SUBSET Units]
  /\ approver \in [Requests -> Requests \cup {None}]
  /\ \A p \in Requests : approver[p] # None <=> period[p] = "APPROVED"
  /\ notices \in [Requests -> [Units -> Nat]]

\* The approvals of p that have got past its status check.
Approvals(p) == {r \in Requests : job[r].kind = "approve" /\ job[r].period = p}

(***************************************************************************)
(* A building has one period for a month, though two createPeriod requests *)
(* can both find none: the unique index catches the second.                *)
(***************************************************************************)
OnePeriodPerMonth == \A m \in Months : Cardinality(PeriodsOf(m)) <= 1

(***************************************************************************)
(* A period has the charges of all units its calculation was made for, and *)
(* of at least one: no failure leaves an empty or half-charged period, and *)
(* approving one never changes whom it charges.                            *)
(***************************************************************************)
PeriodIsComplete ==
  \A p \in Requests : period[p] # "NONE" => charges[p] = job[p].units /\ charges[p] # {}

(***************************************************************************)
(* An approval that was answered has announced the period: every resident  *)
(* with an account has at least one notice, whatever other approvals of    *)
(* the period do or fail to do.                                            *)
(***************************************************************************)
AnsweredApprovalAnnounced ==
  \A r \in Requests :
    job[r].kind = "approve" /\ pc[r] = "done" =>
      \A u \in charges[job[r].period] \cap Reachable : notices[job[r].period][u] > 0

(***************************************************************************)
(* A period that is once approved is announced, unless a request that      *)
(* approves it fails: the loop ends and no approval waits for another.     *)
(***************************************************************************)
ApprovalAnnounces ==
  \A p \in Requests :
    period[p] = "APPROVED" ~>
      \/ \A u \in charges[p] \cap Reachable : notices[p][u] > 0
      \/ \E r \in Approvals(p) : pc[r] = "failed"

=============================================================================
