-------------------------- MODULE MaintenanceProofs --------------------------
(***************************************************************************)
(* Theorems about Maintenance, for every set of requests, tickets, people  *)
(* and costs, and every mixture of seeded tickets.                         *)
(***************************************************************************)
EXTENDS Maintenance, FiniteSetTheorems, TLAPS

USE SeedsAssumption, NoneAssumption

(***************************************************************************)
(* What a request in flight is about to write fits what it has read: a     *)
(* status change goes along the table, from a ticket that was there.       *)
(***************************************************************************)
Fits(j) ==
  /\ j.kind \in {"change", "assign"} /\ j.ticket \in Tickets /\ j.sawStatus \in Statuses
  /\ j.kind = "change" => j.to \in Transitions[j.sawStatus]
  /\ j.kind = "assign" => j.person \in People

InFlight(r) == pc[r] \in {"write", "notify"}

JobsFit == \A r \in Requests : InFlight(r) => Fits(job[r])

TypeInv == TypeOK /\ JobsFit

LEMMA TransitionsType == Transitions \in [Statuses -> SUBSET Statuses]
  BY DEF Transitions, Statuses

\* Appending to one of several sequences.
LEMMA AppendKeepsType ==
  ASSUME NEW S, NEW f \in [Tickets -> Seq(S)], NEW t \in Tickets, NEW e \in S
  PROVE  [f EXCEPT ![t] = Append(@, e)] \in [Tickets -> Seq(S)]
<1>1. Append(f[t], e) \in Seq(S)
  OBVIOUS
<1> QED BY <1>1

LEMMA InitTypeInv == Init => TypeInv
<1> SUFFICES ASSUME Init PROVE TypeInv
  OBVIOUS
<1>1. pc \in [Requests -> Resting \cup {"write", "notify"}]
  BY DEF Init, Resting
<1>2. job \in [Requests -> JobType]
  BY DEF Init, NoJob, JobType
<1>3. status \in [Tickets -> Statuses \cup {"NONE"}]
  <2>1. status \in [Tickets -> Seeds] /\ Seeds \subseteq Statuses \cup {"NONE"}
    BY DEF Init, Statuses
  <2> QED BY <2>1
<1>7. /\ resolved \in [Tickets -> BOOLEAN]
      /\ cost \in [Tickets -> Costs \cup {None}]
      /\ overlapped \subseteq Tickets /\ crossed \in BOOLEAN
  BY DEF Init
<1>4. assignee \in [Tickets -> People \cup {None}]
  BY DEF Init
<1>5. /\ trail \in [Tickets -> Seq(EntryType)]
      /\ inbox \in [Tickets -> Seq(Statuses)]
      /\ tasks \in [Tickets -> SUBSET People]
  BY DEF Init
<1>6. JobsFit
  BY DEF Init, JobsFit, InFlight
<1> QED BY <1>1, <1>2, <1>3, <1>4, <1>5, <1>6, <1>7 DEF TypeInv, TypeOK

\* A request that keeps its job moves on: from its write to its notification,
\* or to the end.
LEMMA OneRequestSteps ==
  ASSUME TypeInv, NEW r \in Requests, UNCHANGED job,
         NEW l \in Resting \cup {"notify"}, pc' = [pc EXCEPT ![r] = l],
         l = "notify" => pc[r] = "write"
  PROVE  /\ pc' \in [Requests -> Resting \cup {"write", "notify"}]
         /\ job' \in [Requests -> JobType] /\ JobsFit'
<1>1. ASSUME NEW o \in Requests, InFlight(o)' PROVE InFlight(o)
  BY <1>1 DEF InFlight, TypeInv, TypeOK, Resting
<1> QED BY <1>1 DEF TypeInv, TypeOK, JobsFit

LEMMA StartType ==
  ASSUME TypeInv, NEW r \in Requests, NEW j \in JobType, Fits(j),
         Starts(r), job' = [job EXCEPT ![r] = j], pc' = [pc EXCEPT ![r] = "write"],
         UNCHANGED <<columns, trail, inbox, tasks, overlapped>>
  PROVE  TypeInv'
<1>1. /\ pc' \in [Requests -> Resting \cup {"write", "notify"}]
      /\ job' \in [Requests -> JobType] /\ crossed' \in BOOLEAN
  BY DEF TypeInv, TypeOK, Starts
<1>2. JobsFit'
  BY DEF TypeInv, TypeOK, JobsFit, InFlight
<1> QED BY <1>1, <1>2 DEF TypeInv, TypeOK, columns

LEMMA TypeInvInductive == TypeInv /\ [Next]_vars => TypeInv'
<1> SUFFICES ASSUME TypeInv, [Next]_vars PROVE TypeInv'
  OBVIOUS
<1> USE TransitionsType
<1>1. CASE UNCHANGED vars
  BY <1>1 DEF vars, columns, TypeInv, TypeOK, JobsFit, InFlight
<1>2. ASSUME NEW r \in Requests, NEW t \in Tickets, Create(r, t) PROVE TypeInv'
  <2>1. /\ pc' \in [Requests -> Resting \cup {"write", "notify"}]
        /\ job' \in [Requests -> JobType] /\ JobsFit'
    BY <1>2, OneRequestSteps DEF Create, Resting
  <2>2. status' \in [Tickets -> Statuses \cup {"NONE"}]
    BY <1>2 DEF Create, TypeInv, TypeOK, Statuses
  <2> QED BY <1>2, <2>1, <2>2 DEF Create, Starts, TypeInv, TypeOK
<1>3. ASSUME NEW r \in Requests, NEW t \in Tickets, AddComment(r, t) PROVE TypeInv'
  <2>1. /\ pc' \in [Requests -> Resting \cup {"write", "notify"}]
        /\ job' \in [Requests -> JobType] /\ JobsFit'
    BY <1>3, OneRequestSteps DEF AddComment, Resting
  <2>2. trail' \in [Tickets -> Seq(EntryType)]
    BY <1>3, AppendKeepsType,
       [by |-> r, from |-> None, to |-> None] \in EntryType
       DEF AddComment, EntryType, TypeInv, TypeOK
  <2> QED BY <1>3, <2>1, <2>2 DEF AddComment, Starts, columns, TypeInv, TypeOK
<1>4. ASSUME NEW r \in Requests, NEW t \in Tickets, NEW s \in Statuses,
             NEW k \in Costs \cup {None}, StartChange(r, t, s, k)
      PROVE  TypeInv'
  <2> DEFINE j == [NoJob EXCEPT !.kind = "change", !.ticket = t, !.to = s, !.cost = k,
                     !.sawStatus = status[t], !.sawResolved = resolved[t],
                     !.sawCost = cost[t]]
  <2>1. /\ status[t] \in Statuses /\ s \in Transitions[status[t]]
        /\ resolved[t] \in BOOLEAN /\ cost[t] \in Costs \cup {None}
    BY <1>4 DEF StartChange, TypeInv, TypeOK
  <2>2. j \in JobType /\ Fits(j)
    BY <2>1 DEF NoJob, JobType, Fits
  <2>3. /\ Starts(r) /\ job' = [job EXCEPT ![r] = j] /\ pc' = [pc EXCEPT ![r] = "write"]
        /\ UNCHANGED <<columns, trail, inbox, tasks, overlapped>>
    BY <1>4 DEF StartChange
  <2> HIDE DEF j
  <2> QED BY <2>2, <2>3, StartType
<1>5. ASSUME NEW r \in Requests, NEW t \in Tickets, NEW p \in People, StartAssign(r, t, p)
      PROVE  TypeInv'
  <2> DEFINE j == [NoJob EXCEPT !.kind = "assign", !.ticket = t, !.person = p,
                     !.sawStatus = status[t]]
  <2>1. status[t] \in Statuses
    BY <1>5 DEF StartAssign, TypeInv, TypeOK
  <2>2. j \in JobType /\ Fits(j)
    BY <2>1 DEF NoJob, JobType, Fits
  <2>3. /\ Starts(r) /\ job' = [job EXCEPT ![r] = j] /\ pc' = [pc EXCEPT ![r] = "write"]
        /\ UNCHANGED <<columns, trail, inbox, tasks, overlapped>>
    BY <1>5 DEF StartAssign
  <2> HIDE DEF j
  <2> QED BY <2>2, <2>3, StartType
<1>6. ASSUME NEW r \in Requests, CommitChange(r) PROVE TypeInv'
  <2>1. /\ pc' \in [Requests -> Resting \cup {"write", "notify"}]
        /\ job' \in [Requests -> JobType] /\ JobsFit'
    BY <1>6, OneRequestSteps DEF CommitChange
  <2>2. /\ job[r] \in JobType /\ job[r].ticket \in Tickets
        /\ job[r].sawStatus \in Statuses /\ job[r].to \in Statuses
    BY <1>6 DEF CommitChange, TypeInv, TypeOK, JobsFit, InFlight, Fits
  <2>3. /\ CostAfter(r) \in Costs \cup {None} /\ ResolvedAfter(r) \in BOOLEAN
        /\ Entry(r) \in EntryType
    BY <2>2 DEF CostAfter, ResolvedAfter, Entry, EntryType, JobType
  <2>4. /\ status' \in [Tickets -> Statuses \cup {"NONE"}]
        /\ cost' \in [Tickets -> Costs \cup {None}]
        /\ resolved' \in [Tickets -> BOOLEAN]
    BY <1>6, <2>2, <2>3 DEF CommitChange, TypeInv, TypeOK
  <2>5. trail' \in [Tickets -> Seq(EntryType)]
    BY <1>6, <2>2, <2>3, AppendKeepsType DEF CommitChange, TypeInv, TypeOK
  <2>6. overlapped' \subseteq Tickets
    BY <1>6, <2>2 DEF CommitChange, NoteOverlap, TypeInv, TypeOK
  <2> QED BY <1>6, <2>1, <2>4, <2>5, <2>6 DEF CommitChange, TypeInv, TypeOK
<1>7. ASSUME NEW r \in Requests, TellRequester(r) PROVE TypeInv'
  <2>1. /\ pc' \in [Requests -> Resting \cup {"write", "notify"}]
        /\ job' \in [Requests -> JobType] /\ JobsFit'
    BY <1>7, OneRequestSteps DEF TellRequester, Resting
  <2>2. job[r].ticket \in Tickets /\ job[r].to \in Statuses
    BY <1>7 DEF TellRequester, TypeInv, JobsFit, InFlight, Fits
  <2>3. inbox' \in [Tickets -> Seq(Statuses)]
    BY <1>7, <2>2 DEF TellRequester, TypeInv, TypeOK
  <2> QED BY <1>7, <2>1, <2>3 DEF TellRequester, columns, TypeInv, TypeOK
<1>8. ASSUME NEW r \in Requests, CommitAssign(r) PROVE TypeInv'
  <2>1. /\ pc' \in [Requests -> Resting \cup {"write", "notify"}]
        /\ job' \in [Requests -> JobType] /\ JobsFit'
    BY <1>8, OneRequestSteps DEF CommitAssign
  <2>2. /\ job[r].ticket \in Tickets /\ job[r].person \in People
        /\ job[r].sawStatus \in Statuses /\ "APPROVED" \in Statuses
    BY <1>8 DEF CommitAssign, TypeInv, JobsFit, InFlight, Fits, Statuses
  <2>3. /\ assignee' \in [Tickets -> People \cup {None}]
        /\ status' \in [Tickets -> Statuses \cup {"NONE"}]
    BY <1>8, <2>2 DEF CommitAssign, TypeInv, TypeOK
  <2>4. trail' \in [Tickets -> Seq(EntryType)]
    BY <1>8, <2>2, AppendKeepsType,
       [by |-> r, from |-> None, to |-> None] \in EntryType
       DEF CommitAssign, EntryType, TypeInv, TypeOK
  <2>5. overlapped' \subseteq Tickets
    BY <1>8, <2>2 DEF CommitAssign, NoteOverlap, TypeInv, TypeOK
  <2> QED BY <1>8, <2>1, <2>3, <2>4, <2>5 DEF CommitAssign, TypeInv, TypeOK
<1>9. ASSUME NEW r \in Requests, TellAssignee(r) PROVE TypeInv'
  <2>1. /\ pc' \in [Requests -> Resting \cup {"write", "notify"}]
        /\ job' \in [Requests -> JobType] /\ JobsFit'
    BY <1>9, OneRequestSteps DEF TellAssignee, Resting
  <2>2. job[r].ticket \in Tickets /\ job[r].person \in People
    BY <1>9 DEF TellAssignee, TypeInv, JobsFit, InFlight, Fits
  <2>3. tasks' \in [Tickets -> SUBSET People]
    BY <1>9, <2>2 DEF TellAssignee, TypeInv, TypeOK
  <2> QED BY <1>9, <2>1, <2>3 DEF TellAssignee, columns, TypeInv, TypeOK
<1>10. ASSUME NEW r \in Requests, Fail(r) PROVE TypeInv'
  <2>1. /\ pc' \in [Requests -> Resting \cup {"write", "notify"}]
        /\ job' \in [Requests -> JobType] /\ JobsFit'
    BY <1>10, OneRequestSteps DEF Fail, Resting
  <2> QED BY <1>10, <2>1 DEF Fail, columns, TypeInv, TypeOK
<1> QED
  BY <1>1, <1>2, <1>3, <1>4, <1>5, <1>6, <1>7, <1>8, <1>9, <1>10 DEF Next

(***************************************************************************)
(* Every handler of tickets keeps to the columns.                          *)
(***************************************************************************)
THEOREM TypeCorrect == Spec => []TypeOK
<1>1. TypeInv => TypeOK
  BY DEF TypeInv
<1> QED BY <1>1, InitTypeInv, TypeInvInductive, PTL DEF Spec

-----------------------------------------------------------------------------
(***************************************************************************)
(* As long as no write of a ticket has overlapped a request that had read  *)
(* it, every request that is about to write it has read its present row.   *)
(* Together with the meaning of a resolution date this is inductive.       *)
(***************************************************************************)
ReadsCurrent(t) ==
  \A o \in Readers(t) :
    /\ job[o].sawStatus = status[t]
    /\ job[o].kind = "change" => job[o].sawResolved = resolved[t]

TicketCurrent(t) ==
  t \notin overlapped => ReadsCurrent(t) /\ (resolved[t] <=> status[t] = "DONE")

TicketInv == \A t \in Tickets : TicketCurrent(t)

LEMMA InitTicketInv == Init => TicketInv
  BY DEF Init, TicketInv, TicketCurrent, ReadsCurrent, Readers

\* Steps that write no ticket and after which no request is a new reader.
LEMMA TicketFrame ==
  ASSUME TicketInv, UNCHANGED <<job, status, resolved, overlapped>>,
         \A t \in Tickets : Readers(t)' \subseteq Readers(t)
  PROVE  TicketInv'
<1>1. ASSUME NEW t \in Tickets PROVE TicketCurrent(t)'
  <2>1. TicketCurrent(t) /\ Readers(t)' \subseteq Readers(t)
    BY DEF TicketInv
  <2> QED BY <2>1 DEF TicketCurrent, ReadsCurrent
<1> QED BY <1>1 DEF TicketInv

\* A request that has just read a ticket has read its present row.
LEMMA StartKeepsTicketInv ==
  ASSUME TypeInv, TicketInv, NEW r \in Requests, NEW t \in Tickets, NEW j,
         j.ticket = t, j.sawStatus = status[t],
         j.kind = "change" => j.sawResolved = resolved[t],
         job' = [job EXCEPT ![r] = j], pc' = [pc EXCEPT ![r] = "write"],
         UNCHANGED <<status, resolved, overlapped>>
  PROVE  TicketInv'
<1>1. ASSUME NEW u \in Tickets PROVE TicketCurrent(u)'
  <2>1. TicketCurrent(u)
    BY DEF TicketInv
  <2>2. ASSUME NEW o \in Readers(u)'
        PROVE  \/ o \in Readers(u) /\ job'[o] = job[o]
               \/ u = t /\ job'[o] = j
    BY <2>2 DEF Readers, TypeInv, TypeOK
  <2> QED BY <2>1, <2>2 DEF TicketCurrent, ReadsCurrent
<1> QED BY <1>1 DEF TicketInv

(***************************************************************************)
(* A write of ticket t: the new row keeps the meaning of the resolution    *)
(* date, and either nobody else has read the ticket or it is overlapped.   *)
(***************************************************************************)
LEMMA WriteKeepsTicketInv ==
  ASSUME TypeInv, TicketInv, NEW r \in Requests, NEW t \in Tickets,
         job[r].ticket = t, pc[r] = "write", pc' = [pc EXCEPT ![r] = "notify"],
         UNCHANGED job, NoteOverlap(r),
         \A u \in Tickets \ {t} : status'[u] = status[u] /\ resolved'[u] = resolved[u],
         t \notin overlapped => (resolved'[t] <=> status'[t] = "DONE")
  PROVE  TicketInv'
<1>1. ASSUME NEW u \in Tickets PROVE TicketCurrent(u)'
  <2>1. TicketCurrent(u) /\ (u \notin overlapped' => u \notin overlapped)
    BY DEF TicketInv, NoteOverlap
  <2>2. Readers(u)' \subseteq Readers(u) \ {r}
    BY DEF Readers, TypeInv, TypeOK
  <2>3. CASE u = t
    <3>1. u \notin overlapped' => Readers(u)' = {}
      BY <2>2, <2>3 DEF NoteOverlap
    <3> QED BY <2>1, <2>3, <3>1 DEF TicketCurrent, ReadsCurrent
  <2>4. CASE u # t
    BY <2>1, <2>2, <2>4 DEF TicketCurrent, ReadsCurrent
  <2> QED BY <2>3, <2>4
<1> QED BY <1>1 DEF TicketInv

\* What a status change writes on a ticket nobody has overlapped.
LEMMA ChangeFollowsTable ==
  ASSUME TypeInv, TicketInv, NEW r \in Requests, NEW t \in Tickets, CommitChange(r),
         job[r].ticket = t, t \notin overlapped
  PROVE  /\ status'[t] \in Transitions[status[t]]
         /\ resolved'[t] <=> status'[t] = "DONE"
<1>1. /\ status'[t] = job[r].to /\ resolved'[t] = ResolvedAfter(r)
      /\ job[r].to \in Transitions[job[r].sawStatus] /\ job[r].kind = "change"
      /\ job[r].sawResolved \in BOOLEAN
  BY DEF CommitChange, TypeInv, TypeOK, JobsFit, InFlight, Fits, JobType
<1>2. r \in Readers(t)
  BY DEF CommitChange, Readers
<1>3. /\ job[r].sawStatus = status[t] /\ job[r].sawResolved = resolved[t]
      /\ resolved[t] <=> status[t] = "DONE"
  BY <1>1, <1>2 DEF TicketInv, TicketCurrent, ReadsCurrent
<1>4. status[t] # "DONE"
  BY <1>1, <1>3 DEF Transitions, Statuses
<1> QED BY <1>1, <1>3, <1>4 DEF ResolvedAfter

\* What an assignment writes on such a ticket.
LEMMA AssignFollowsTable ==
  ASSUME TypeInv, TicketInv, NEW r \in Requests, NEW t \in Tickets, CommitAssign(r),
         job[r].ticket = t, t \notin overlapped
  PROVE  /\ status'[t] # status[t] => status'[t] \in Transitions[status[t]]
         /\ resolved'[t] <=> status'[t] = "DONE"
<1>1. /\ status'[t] = IF job[r].sawStatus = "SUBMITTED" THEN "APPROVED" ELSE job[r].sawStatus
      /\ UNCHANGED resolved
  BY DEF CommitAssign, TypeInv, TypeOK
<1>2. r \in Readers(t)
  BY DEF CommitAssign, Readers
<1>3. job[r].sawStatus = status[t] /\ (resolved[t] <=> status[t] = "DONE")
  BY <1>2 DEF TicketInv, TicketCurrent, ReadsCurrent
<1> QED BY <1>1, <1>3 DEF Transitions, Statuses

\* Nobody is about to write a ticket that is not there yet.
LEMMA CreateKeepsTicketInv ==
  ASSUME TypeInv, TicketInv, NEW r \in Requests, NEW t \in Tickets, Create(r, t)
  PROVE  TicketInv'
<1>1. ASSUME NEW u \in Tickets PROVE TicketCurrent(u)'
  <2>1. TicketCurrent(u) /\ UNCHANGED <<job, resolved, overlapped>>
    BY DEF TicketInv, Create
  <2>2. Readers(u)' \subseteq Readers(u)
    BY DEF Create, Readers, TypeInv, TypeOK
  <2>3. CASE u = t
    <3>1. status[u] = "NONE" /\ status'[u] = "SUBMITTED"
      BY <2>3 DEF Create, TypeInv, TypeOK
    <3>2. \A o \in Readers(u) : job[o].sawStatus \in Statuses
      BY DEF Readers, TypeInv, JobsFit, InFlight, Fits
    <3> QED BY <2>1, <2>2, <3>1, <3>2 DEF TicketCurrent, ReadsCurrent, Statuses
  <2>4. CASE u # t
    <3>1. status'[u] = status[u]
      BY <2>4 DEF Create, TypeInv, TypeOK
    <3> QED BY <2>1, <2>2, <3>1 DEF TicketCurrent, ReadsCurrent
  <2> QED BY <2>3, <2>4
<1> QED BY <1>1 DEF TicketInv

LEMMA TicketInvInductive == TypeInv /\ TicketInv /\ [Next]_vars => TicketInv'
<1> SUFFICES ASSUME TypeInv, TicketInv, [Next]_vars PROVE TicketInv'
  OBVIOUS
<1> USE DEF columns
<1>1. CASE UNCHANGED vars
  BY <1>1, TicketFrame DEF vars, Readers
<1>2. ASSUME NEW r \in Requests, NEW t \in Tickets, Create(r, t) PROVE TicketInv'
  BY <1>2, CreateKeepsTicketInv
<1>3. ASSUME NEW r \in Requests,
             \/ \E t \in Tickets : AddComment(r, t)
             \/ TellRequester(r) \/ TellAssignee(r) \/ Fail(r)
      PROVE  TicketInv'
  <2>1. \A t \in Tickets : Readers(t)' \subseteq Readers(t)
    BY <1>3 DEF AddComment, TellRequester, TellAssignee, Fail, Readers, TypeInv, TypeOK
  <2>2. UNCHANGED <<job, status, resolved, overlapped>>
    BY <1>3 DEF AddComment, TellRequester, TellAssignee, Fail
  <2> QED BY <2>1, <2>2, TicketFrame
<1>4. ASSUME NEW r \in Requests, NEW t \in Tickets, NEW s \in Statuses,
             NEW k \in Costs \cup {None}, StartChange(r, t, s, k)
      PROVE  TicketInv'
  BY <1>4, StartKeepsTicketInv DEF StartChange, NoJob
<1>5. ASSUME NEW r \in Requests, NEW t \in Tickets, NEW p \in People, StartAssign(r, t, p)
      PROVE  TicketInv'
  BY <1>5, StartKeepsTicketInv DEF StartAssign, NoJob
<1>6. ASSUME NEW r \in Requests, CommitChange(r) PROVE TicketInv'
  <2> DEFINE t == job[r].ticket
  <2>1. t \in Tickets
    BY <1>6 DEF CommitChange, TypeInv, JobsFit, InFlight, Fits
  <2>2. \A u \in Tickets \ {t} : status'[u] = status[u] /\ resolved'[u] = resolved[u]
    BY <1>6 DEF CommitChange, TypeInv, TypeOK
  <2>3. t \notin overlapped => (resolved'[t] <=> status'[t] = "DONE")
    BY <1>6, <2>1, ChangeFollowsTable
  <2>4. /\ pc[r] = "write" /\ pc' = [pc EXCEPT ![r] = "notify"]
        /\ UNCHANGED job /\ NoteOverlap(r)
    BY <1>6 DEF CommitChange
  <2> QED BY <2>1, <2>2, <2>3, <2>4, WriteKeepsTicketInv
<1>7. ASSUME NEW r \in Requests, CommitAssign(r) PROVE TicketInv'
  <2> DEFINE t == job[r].ticket
  <2>1. t \in Tickets
    BY <1>7 DEF CommitAssign, TypeInv, JobsFit, InFlight, Fits
  <2>2. \A u \in Tickets \ {t} : status'[u] = status[u] /\ resolved'[u] = resolved[u]
    BY <1>7 DEF CommitAssign, TypeInv, TypeOK
  <2>3. t \notin overlapped => (resolved'[t] <=> status'[t] = "DONE")
    BY <1>7, <2>1, AssignFollowsTable
  <2>4. /\ pc[r] = "write" /\ pc' = [pc EXCEPT ![r] = "notify"]
        /\ UNCHANGED job /\ NoteOverlap(r)
    BY <1>7 DEF CommitAssign
  <2> QED BY <2>1, <2>2, <2>3, <2>4, WriteKeepsTicketInv
<1> QED BY <1>1, <1>2, <1>3, <1>4, <1>5, <1>6, <1>7 DEF Next

\* One step moves a ticket along the table unless it was, or is, overlapped.
LEMMA StepFollowsTable ==
  ASSUME TypeInv, TicketInv, [Next]_vars, NEW t \in Tickets \ overlapped'
  PROVE  MoveAllowed(t)
<1> USE DEF columns
<1>1. CASE status'[t] = status[t]
  BY <1>1 DEF MoveAllowed
<1>2. CASE status'[t] # status[t]
  <2>1. PICK r \in Requests :
          (\E u \in Tickets : Create(r, u)) \/ CommitChange(r) \/ CommitAssign(r)
    BY <1>2 DEF Next, vars, AddComment, StartChange, StartAssign, TellRequester,
                TellAssignee, Fail
  <2>2. CASE \E u \in Tickets : Create(r, u)
    BY <1>2, <2>2 DEF Create, MoveAllowed, TypeInv, TypeOK, Statuses
  <2>3. CASE CommitChange(r)
    <3>1. job[r].ticket = t
      BY <1>2, <2>3 DEF CommitChange, TypeInv, TypeOK
    <3>2. t \notin overlapped
      BY <2>3 DEF CommitChange, NoteOverlap
    <3> QED BY <2>3, <3>1, <3>2, ChangeFollowsTable DEF MoveAllowed
  <2>4. CASE CommitAssign(r)
    <3>1. job[r].ticket = t
      BY <1>2, <2>4 DEF CommitAssign, TypeInv, TypeOK
    <3>2. t \notin overlapped
      BY <2>4 DEF CommitAssign, NoteOverlap
    <3> QED BY <2>4, <3>1, <3>2, AssignFollowsTable DEF MoveAllowed
  <2> QED BY <2>1, <2>2, <2>3, <2>4
<1> QED BY <1>1, <1>2

(***************************************************************************)
(* A ticket leaves its status only along TRANSITIONS, whatever requests    *)
(* are in flight on it, unless one wrote it while another had read it:     *)
(* the check of changeStatus and the status an assignment writes back go   *)
(* wrong by overlap and in no other way.                                   *)
(***************************************************************************)
THEOREM MovesFollowTable == Spec => MovesAllowedUnlessOverlapped
<1>1. TypeInv /\ TicketInv /\ [Next]_vars => [\A t \in Tickets \ overlapped' : MoveAllowed(t)]_vars
  BY StepFollowsTable
<1> QED
  BY <1>1, InitTypeInv, InitTicketInv, TypeInvInductive, TicketInvInductive, PTL
     DEF Spec, MovesAllowedUnlessOverlapped

(***************************************************************************)
(* A ticket has a resolution date exactly when it is DONE, unless writes   *)
(* of it overlapped: an assignment that writes back a status keeps it so.  *)
(***************************************************************************)
THEOREM DoneIsResolved == Spec => []DoneIsResolvedUnlessOverlapped
<1>1. TicketInv => DoneIsResolvedUnlessOverlapped
  BY DEF TicketInv, TicketCurrent, DoneIsResolvedUnlessOverlapped
<1> QED
  BY <1>1, InitTypeInv, InitTicketInv, TypeInvInductive, TicketInvInductive, PTL DEF Spec

-----------------------------------------------------------------------------
(***************************************************************************)
(* What a comment adds to the trail of a ticket, and to the places of its  *)
(* status comments: nothing, or the new last place n.                      *)
(***************************************************************************)
LEMMA TrailGrows ==
  ASSUME TypeInv, NEW t \in Tickets, NEW e \in EntryType, NEW n, n = Len(trail[t]) + 1,
         trail'[t] = Append(trail[t], e)
  PROVE  /\ Len(trail[t]) \in Nat /\ n \in Nat
         /\ 1..Len(trail'[t]) = 1..Len(trail[t]) \cup {n}
         /\ \A i \in 1..Len(trail[t]) : trail'[t][i] = trail[t][i]
         /\ trail'[t][n] = e
         /\ \A i \in 1..Len(trail[t]) : i < n /\ After(t, i)' = After(t, i) \cup {n}
         /\ After(t, n)' = {}
<1>1. trail[t] \in Seq(EntryType)
  BY DEF TypeInv, TypeOK
<1>2. /\ Len(trail[t]) \in Nat /\ Len(trail'[t]) = n
      /\ \A i \in 1..Len(trail[t]) : trail'[t][i] = trail[t][i]
      /\ trail'[t][n] = e
  BY <1>1
<1> QED BY <1>2 DEF After

\* A comment that names no status is no move.
LEMMA CommentIsNoMove ==
  ASSUME TypeInv, NEW t \in Tickets,
         \/ trail'[t] = trail[t]
         \/ \E e \in EntryType : e.to = None /\ trail'[t] = Append(trail[t], e)
  PROVE  /\ Moves(t)' = Moves(t)
         /\ \A i \in Moves(t) :
              /\ trail'[t][i] = trail[t][i]
              /\ MovesUpTo(t, i)' = MovesUpTo(t, i)
              /\ Moves(t)' \cap After(t, i)' = Moves(t) \cap After(t, i)
<1>1. CASE trail'[t] = trail[t]
  BY <1>1 DEF Moves, MovesUpTo, After
<1>2. CASE \E e \in EntryType : e.to = None /\ trail'[t] = Append(trail[t], e)
  <2>1. PICK e \in EntryType : e.to = None /\ trail'[t] = Append(trail[t], e)
    BY <1>2
  <2> DEFINE n == Len(trail[t]) + 1
  <2>2. n = Len(trail[t]) + 1
    OBVIOUS
  <2> HIDE DEF n
  <2>3. /\ Len(trail[t]) \in Nat /\ 1..Len(trail'[t]) = 1..Len(trail[t]) \cup {n}
        /\ \A i \in 1..Len(trail[t]) : trail'[t][i] = trail[t][i]
        /\ trail'[t][n] = e
        /\ \A i \in 1..Len(trail[t]) : After(t, i)' = After(t, i) \cup {n}
    BY <2>1, <2>2, TrailGrows
  <2>4. n \notin 1..Len(trail[t])
    BY <2>2, <2>3
  <2>5. Moves(t)' = Moves(t) /\ n \notin Moves(t) /\ Moves(t) \subseteq 1..Len(trail[t])
    BY <2>1, <2>3, <2>4 DEF Moves
  <2> QED BY <2>3, <2>5 DEF MovesUpTo
<1> QED BY <1>1, <1>2

\* A status comment is the last move.
LEMMA MoveIsAdded ==
  ASSUME TypeInv, NEW t \in Tickets, NEW e \in EntryType, e.to # None,
         trail'[t] = Append(trail[t], e)
  PROVE  \E n \in Nat :
           /\ n \notin Moves(t) /\ Moves(t)' = Moves(t) \cup {n}
           /\ MovesUpTo(t, n)' = Moves(t)' /\ trail'[t][n] = e
           /\ \A i \in Moves(t) :
                /\ i < n /\ trail'[t][i] = trail[t][i]
                /\ MovesUpTo(t, i)' = MovesUpTo(t, i)
                /\ n \in Moves(t)' \cap After(t, i)'
<1> SUFFICES ASSUME NEW n \in Nat, n = Len(trail[t]) + 1
    PROVE  /\ n \notin Moves(t) /\ Moves(t)' = Moves(t) \cup {n}
           /\ MovesUpTo(t, n)' = Moves(t)' /\ trail'[t][n] = e
           /\ \A i \in Moves(t) :
                /\ i < n /\ trail'[t][i] = trail[t][i]
                /\ MovesUpTo(t, i)' = MovesUpTo(t, i)
                /\ n \in Moves(t)' \cap After(t, i)'
  <2>1. Len(trail[t]) + 1 \in Nat
    BY DEF TypeInv, TypeOK
  <2> QED BY <2>1
<1>0. /\ Len(trail[t]) \in Nat /\ n \in Nat
      /\ 1..Len(trail'[t]) = 1..Len(trail[t]) \cup {n}
      /\ \A i \in 1..Len(trail[t]) : trail'[t][i] = trail[t][i]
      /\ trail'[t][n] = e
      /\ \A i \in 1..Len(trail[t]) : i < n /\ After(t, i)' = After(t, i) \cup {n}
  BY TrailGrows
<1>1. n \notin 1..Len(trail[t])
  BY <1>0
<1>2. Moves(t)' = Moves(t) \cup {n} /\ n \notin Moves(t) /\ Moves(t) \subseteq 1..Len(trail[t])
  BY <1>0, <1>1 DEF Moves
<1>3. MovesUpTo(t, n)' = Moves(t)'
  BY <1>0, <1>2 DEF MovesUpTo
<1>4. ASSUME NEW i \in Moves(t)
      PROVE  MovesUpTo(t, i)' = MovesUpTo(t, i) /\ n \in Moves(t)' \cap After(t, i)'
  <2>1. i < n /\ ~(n <= i) /\ i \in 1..Len(trail[t])
    BY <1>0, <1>2
  <2> QED BY <1>0, <1>2, <2>1 DEF MovesUpTo
<1> QED BY <1>0, <1>2, <1>3, <1>4

(***************************************************************************)
(* Who has written a comment has read what he asked for, and never again.  *)
(***************************************************************************)
AuthorsAreThrough ==
  \A t \in Tickets : \A i \in 1..Len(trail[t]) :
    pc[trail[t][i].by] \notin {"idle", "write"}

IdleAsksNothing == \A r \in Requests : pc[r] = "idle" => job[r] = NoJob

AuthorInv == AuthorsAreThrough /\ IdleAsksNothing

LEMMA InitAuthorInv == Init => AuthorInv
  BY DEF Init, AuthorInv, AuthorsAreThrough, IdleAsksNothing

\* What the steps do to the trail and to what the requests were asked.
LEMMA TrailSteps ==
  ASSUME TypeInv, [Next]_vars
  PROVE  \/ UNCHANGED trail
         \/ \E r \in Requests, t \in Tickets, e \in EntryType :
              /\ trail' = [trail EXCEPT ![t] = Append(@, e)] /\ e.by = r
              /\ pc[r] \in {"idle", "write"} /\ pc'[r] \in {"notify", "done"}
              /\ UNCHANGED job
<1> SUFFICES ASSUME trail' # trail
    PROVE \E r \in Requests, t \in Tickets, e \in EntryType :
              /\ trail' = [trail EXCEPT ![t] = Append(@, e)] /\ e.by = r
              /\ pc[r] \in {"idle", "write"} /\ pc'[r] \in {"notify", "done"}
              /\ UNCHANGED job
  OBVIOUS
<1>1. PICK r \in Requests :
        (\E t \in Tickets : AddComment(r, t)) \/ CommitChange(r) \/ CommitAssign(r)
  BY DEF Next, vars, Create, StartChange, StartAssign, TellRequester, TellAssignee, Fail
<1>2. ASSUME NEW t \in Tickets, AddComment(r, t)
      PROVE  \E u \in Tickets, e \in EntryType :
               /\ trail' = [trail EXCEPT ![u] = Append(@, e)] /\ e.by = r
               /\ pc[r] \in {"idle", "write"} /\ pc'[r] \in {"notify", "done"}
               /\ UNCHANGED job
  <2>1. [by |-> r, from |-> None, to |-> None] \in EntryType
    BY DEF EntryType
  <2> QED BY <1>2, <2>1 DEF AddComment, Starts, TypeInv, TypeOK
<1>3. ASSUME CommitChange(r)
      PROVE  \E u \in Tickets, e \in EntryType :
               /\ trail' = [trail EXCEPT ![u] = Append(@, e)] /\ e.by = r
               /\ pc[r] \in {"idle", "write"} /\ pc'[r] \in {"notify", "done"}
               /\ UNCHANGED job
  <2>1. job[r].ticket \in Tickets /\ Entry(r) \in EntryType /\ Entry(r).by = r
    BY <1>3 DEF CommitChange, TypeInv, TypeOK, JobsFit, InFlight, Fits, Entry, EntryType, JobType
  <2> QED BY <1>3, <2>1 DEF CommitChange, TypeInv, TypeOK
<1>4. ASSUME CommitAssign(r)
      PROVE  \E u \in Tickets, e \in EntryType :
               /\ trail' = [trail EXCEPT ![u] = Append(@, e)] /\ e.by = r
               /\ pc[r] \in {"idle", "write"} /\ pc'[r] \in {"notify", "done"}
               /\ UNCHANGED job
  <2>1. [by |-> r, from |-> None, to |-> None] \in EntryType
    BY DEF EntryType
  <2>2. job[r].ticket \in Tickets
    BY <1>4 DEF CommitAssign, TypeInv, JobsFit, InFlight, Fits
  <2> QED BY <1>4, <2>1, <2>2 DEF CommitAssign, TypeInv, TypeOK
<1> QED BY <1>1, <1>2, <1>3, <1>4

\* A request that is past its write stays so, and keeps its job.
LEMMA AuthorsStayThrough ==
  ASSUME TypeInv, [Next]_vars, NEW o \in Requests, pc[o] \notin {"idle", "write"}
  PROVE  pc'[o] \notin {"idle", "write"} /\ job'[o] = job[o]
<1>1. CASE UNCHANGED vars
  BY <1>1 DEF vars
<1>2. ASSUME NEW r \in Requests,
             \/ CommitChange(r) \/ TellRequester(r) \/ CommitAssign(r) \/ TellAssignee(r)
             \/ Fail(r) \/ \E t \in Tickets : Create(r, t) \/ AddComment(r, t)
      PROVE  pc'[o] \notin {"idle", "write"} /\ job'[o] = job[o]
  BY <1>2 DEF CommitChange, TellRequester, CommitAssign, TellAssignee, Fail, Create,
              AddComment, TypeInv, TypeOK
<1>3. ASSUME NEW r \in Requests, NEW t \in Tickets,
             \/ \E s \in Statuses, k \in Costs \cup {None} : StartChange(r, t, s, k)
             \/ \E p \in People : StartAssign(r, t, p)
      PROVE  pc'[o] \notin {"idle", "write"} /\ job'[o] = job[o]
  <2>1. /\ pc[r] = "idle" /\ pc' = [pc EXCEPT ![r] = "write"]
        /\ \A q \in Requests \ {r} : job'[q] = job[q]
    BY <1>3 DEF StartChange, StartAssign, Starts, TypeInv, TypeOK
  <2> QED BY <2>1 DEF TypeInv, TypeOK
<1> QED BY <1>1, <1>2, <1>3 DEF Next

LEMMA AuthorInvInductive == TypeInv /\ AuthorInv /\ [Next]_vars => AuthorInv'
<1> SUFFICES ASSUME TypeInv, AuthorInv, [Next]_vars PROVE AuthorInv'
  OBVIOUS
<1>1. \A o \in Requests : pc[o] \notin {"idle", "write"} => pc'[o] \notin {"idle", "write"}
  BY AuthorsStayThrough
<1>2. AuthorsAreThrough'
  <2>0. \A t \in Tickets : trail[t] \in Seq(EntryType)
    BY DEF TypeInv, TypeOK
  <2>1. ASSUME NEW t \in Tickets, NEW i \in 1..Len(trail[t])
        PROVE  trail[t][i].by \in Requests /\ pc'[trail[t][i].by] \notin {"idle", "write"}
    <3>1. trail[t][i] \in EntryType
      BY <2>0
    <3>2. trail[t][i].by \in Requests /\ pc[trail[t][i].by] \notin {"idle", "write"}
      BY <3>1 DEF EntryType, AuthorInv, AuthorsAreThrough
    <3> QED BY <1>1, <3>2
  <2>2. CASE UNCHANGED trail
    BY <2>1, <2>2 DEF AuthorsAreThrough
  <2>3. ASSUME NEW r \in Requests, NEW t \in Tickets, NEW e \in EntryType,
               trail' = [trail EXCEPT ![t] = Append(@, e)], e.by = r,
               pc'[r] \in {"notify", "done"}
        PROVE  AuthorsAreThrough'
    <3> DEFINE n == Len(trail[t]) + 1
    <3>n. n = Len(trail[t]) + 1 /\ trail'[t] = Append(trail[t], e)
      BY <2>3 DEF TypeInv, TypeOK
    <3> HIDE DEF n
    <3>1. /\ 1..Len(trail'[t]) = 1..Len(trail[t]) \cup {n} /\ trail'[t][n] = e
          /\ \A i \in 1..Len(trail[t]) : trail'[t][i] = trail[t][i]
      BY <3>n, TrailGrows
    <3>2. \A u \in Tickets \ {t} : trail'[u] = trail[u]
      BY <2>3 DEF TypeInv, TypeOK
    <3>3. ASSUME NEW u \in Tickets, NEW i \in 1..Len(trail'[u])
          PROVE  pc'[trail'[u][i].by] \notin {"idle", "write"}
      BY <2>1, <2>3, <3>1, <3>2, <3>3
    <3> QED BY <3>3 DEF AuthorsAreThrough
  <2> QED BY <2>2, <2>3, TrailSteps
<1>3. IdleAsksNothing'
  <2>1. ASSUME NEW o \in Requests, pc'[o] = "idle" PROVE pc[o] = "idle" /\ job'[o] = job[o]
    <3>1. CASE UNCHANGED vars
      BY <2>1, <3>1 DEF vars
    <3>2. ASSUME NEW r \in Requests,
                 \/ CommitChange(r) \/ TellRequester(r) \/ CommitAssign(r) \/ TellAssignee(r)
                 \/ Fail(r) \/ \E t \in Tickets : Create(r, t) \/ AddComment(r, t)
          PROVE  pc[o] = "idle" /\ job'[o] = job[o]
      BY <2>1, <3>2 DEF CommitChange, TellRequester, CommitAssign, TellAssignee, Fail,
                        Create, AddComment, TypeInv, TypeOK
    <3>3. ASSUME NEW r \in Requests, NEW t \in Tickets,
                 \/ \E s \in Statuses, k \in Costs \cup {None} : StartChange(r, t, s, k)
                 \/ \E p \in People : StartAssign(r, t, p)
          PROVE  pc[o] = "idle" /\ job'[o] = job[o]
      <4>1. /\ pc' = [pc EXCEPT ![r] = "write"]
            /\ \A q \in Requests \ {r} : job'[q] = job[q]
        BY <3>3 DEF StartChange, StartAssign, TypeInv, TypeOK
      <4> QED BY <2>1, <4>1 DEF TypeInv, TypeOK
    <3> QED BY <3>1, <3>2, <3>3 DEF Next
  <2> QED BY <2>1 DEF AuthorInv, IdleAsksNothing
<1> QED BY <1>2, <1>3 DEF AuthorInv

-----------------------------------------------------------------------------
(***************************************************************************)
(* The newest assignment of a ticket, without and with its overlaps.       *)
(***************************************************************************)
NewestHolds(t) ==
  \A i \in 1..Len(trail[t]) :
    LET r == trail[t][i].by IN
      job[r].kind = "assign" /\ (\A k \in After(t, i) : job[trail[t][k].by].kind # "assign")
        => assignee[t] = job[r].person

LEMMA NewestHoldsInductive ==
  TypeInv /\ AuthorInv /\ NewestAssignmentHolds /\ [Next]_vars => NewestAssignmentHolds'
<1> SUFFICES ASSUME TypeInv, AuthorInv, [Next]_vars, NEW t \in Tickets, NewestHolds(t)
    PROVE NewestHolds(t)'
  BY DEF NewestAssignmentHolds, NewestHolds
<1>0. trail[t] \in Seq(EntryType) /\ Len(trail[t]) \in Nat
  BY DEF TypeInv, TypeOK
<1>1. \A i \in 1..Len(trail[t]) :
        trail[t][i].by \in Requests /\ job'[trail[t][i].by] = job[trail[t][i].by]
  <2>1. ASSUME NEW i \in 1..Len(trail[t])
        PROVE  trail[t][i].by \in Requests /\ pc[trail[t][i].by] \notin {"idle", "write"}
    <3>1. trail[t][i] \in EntryType
      BY <1>0
    <3> QED BY <3>1 DEF EntryType, AuthorInv, AuthorsAreThrough
  <2> QED BY <2>1, AuthorsStayThrough
<1>2. \A i \in 1..Len(trail[t]) : After(t, i) \subseteq 1..Len(trail[t])
  BY <1>0 DEF After
<1>3. CASE trail'[t] = trail[t] /\ assignee'[t] = assignee[t]
  <2>1. \A i \in 1..Len(trail[t]) : After(t, i)' = After(t, i)
    BY <1>3 DEF After
  <2> QED BY <1>1, <1>2, <1>3, <2>1 DEF NewestHolds
<1>4. ASSUME NEW e \in EntryType, trail'[t] = Append(trail[t], e),
             \/ job'[e.by].kind = "assign" /\ assignee'[t] = job'[e.by].person
             \/ job'[e.by].kind # "assign" /\ assignee'[t] = assignee[t]
      PROVE  NewestHolds(t)'
  <2> DEFINE n == Len(trail[t]) + 1
  <2>n. n = Len(trail[t]) + 1
    OBVIOUS
  <2> HIDE DEF n
  <2>1. /\ 1..Len(trail'[t]) = 1..Len(trail[t]) \cup {n}
        /\ \A i \in 1..Len(trail[t]) : trail'[t][i] = trail[t][i]
        /\ trail'[t][n] = e
        /\ \A i \in 1..Len(trail[t]) : After(t, i)' = After(t, i) \cup {n}
    BY <2>n, <1>4, TrailGrows
  <2>2. ASSUME NEW i \in 1..Len(trail[t]), job'[trail'[t][i].by].kind = "assign",
               \A k \in After(t, i)' : job'[trail'[t][k].by].kind # "assign"
        PROVE  assignee'[t] = job'[trail'[t][i].by].person
    <3>1. job'[e.by].kind # "assign" /\ assignee'[t] = assignee[t]
      BY <1>4, <2>1, <2>2
    <3>2. \A k \in After(t, i) : job[trail[t][k].by].kind # "assign"
      BY <1>1, <1>2, <2>1, <2>2
    <3> QED BY <1>1, <2>1, <2>2, <3>1, <3>2 DEF NewestHolds
  <2> QED BY <1>4, <2>1, <2>2 DEF NewestHolds
<1>5. CASE UNCHANGED vars
  BY <1>3, <1>5 DEF vars
<1>6. ASSUME NEW r \in Requests, NEW u \in Tickets, AddComment(r, u) PROVE NewestHolds(t)'
  <2> DEFINE e == [by |-> r, from |-> None, to |-> None]
  <2>1. e \in EntryType /\ e.by = r
    BY DEF EntryType
  <2>2. job'[r].kind # "assign" /\ assignee' = assignee
    BY <1>6 DEF AddComment, Starts, AuthorInv, IdleAsksNothing, NoJob, columns
  <2>3. trail' = [trail EXCEPT ![u] = Append(@, e)]
    BY <1>6 DEF AddComment
  <2> HIDE DEF e
  <2>4. trail'[t] = Append(trail[t], e) \/ trail'[t] = trail[t]
    BY <2>3 DEF TypeInv, TypeOK
  <2> QED BY <1>3, <1>4, <2>1, <2>2, <2>3, <2>4
<1>7. ASSUME NEW r \in Requests, CommitChange(r) PROVE NewestHolds(t)'
  <2>1. Entry(r) \in EntryType /\ Entry(r).by = r
    BY <1>7 DEF CommitChange, TypeInv, TypeOK, JobsFit, InFlight, Fits, Entry, EntryType, JobType
  <2>2. /\ job'[r].kind # "assign" /\ assignee' = assignee
        /\ trail' = [trail EXCEPT ![job[r].ticket] = Append(@, Entry(r))]
    BY <1>7 DEF CommitChange
  <2>3. trail'[t] = Append(trail[t], Entry(r)) \/ trail'[t] = trail[t]
    BY <2>2 DEF TypeInv, TypeOK
  <2> QED BY <1>3, <1>4, <2>1, <2>2, <2>3
<1>8. ASSUME NEW r \in Requests, CommitAssign(r) PROVE NewestHolds(t)'
  <2> DEFINE e == [by |-> r, from |-> None, to |-> None]
  <2>1. e \in EntryType /\ e.by = r
    BY DEF EntryType
  <2>2. /\ job'[r].kind = "assign" /\ job' = job
        /\ assignee' = [assignee EXCEPT ![job[r].ticket] = job[r].person]
        /\ trail' = [trail EXCEPT ![job[r].ticket] = Append(@, e)]
    BY <1>8 DEF CommitAssign
  <2> HIDE DEF e
  <2>3. CASE job[r].ticket = t
    <3>1. assignee'[t] = job'[r].person /\ trail'[t] = Append(trail[t], e)
      BY <2>2, <2>3 DEF TypeInv, TypeOK
    <3> QED BY <1>4, <2>1, <2>2, <2>3, <3>1
  <2>4. CASE job[r].ticket # t
    <3>1. trail'[t] = trail[t] /\ assignee'[t] = assignee[t]
      BY <2>2, <2>4 DEF TypeInv, TypeOK
    <3> QED BY <1>3, <3>1
  <2> QED BY <2>3, <2>4
<1>9. ASSUME NEW r \in Requests,
             \/ TellRequester(r) \/ TellAssignee(r) \/ Fail(r)
             \/ \E u \in Tickets :
                  \/ Create(r, u)
                  \/ \E s \in Statuses, k \in Costs \cup {None} : StartChange(r, u, s, k)
                  \/ \E p \in People : StartAssign(r, u, p)
      PROVE  NewestHolds(t)'
  BY <1>3, <1>9 DEF TellRequester, TellAssignee, Fail, Create, StartChange, StartAssign, columns
<1> QED BY <1>5, <1>6, <1>7, <1>8, <1>9 DEF Next

(***************************************************************************)
(* The newest assignment wins, even when it overlaps status changes and    *)
(* other assignments: handlers write back everything they have read of a   *)
(* ticket except the assignee.                                             *)
(***************************************************************************)
THEOREM NewestAssignmentWins == Spec => []NewestAssignmentHolds
<1>1. Init => NewestAssignmentHolds
  BY DEF Init, NewestAssignmentHolds
<1> QED
  BY <1>1, InitTypeInv, InitAuthorInv, TypeInvInductive, AuthorInvInductive,
     NewestHoldsInductive, PTL DEF Spec

-----------------------------------------------------------------------------
(***************************************************************************)
(* The history of a ticket: besides TrailIsHistory, no status comment ends *)
(* at SUBMITTED, where only an assignment would move the ticket without    *)
(* one, and a ticket that is not there has no comments.                    *)
(***************************************************************************)
HistoryOf(t) ==
  /\ t \notin overlapped => TrailIsHistory(t)
  /\ \A i \in Moves(t) : trail[t][i].to # "SUBMITTED"
  /\ status[t] = "NONE" => trail[t] = <<>>

HistoryInv == \A t \in Tickets : HistoryOf(t)

LEMMA InitHistoryInv == Init => HistoryInv
<1> SUFFICES ASSUME Init, NEW t \in Tickets PROVE HistoryOf(t)
  BY DEF HistoryInv
<1>1. trail[t] = <<>> /\ status[t] \in Seeds
  BY DEF Init
<1>2. Moves(t) = {}
  BY <1>1 DEF Moves
<1> QED BY <1>1, <1>2 DEF HistoryOf, TrailIsHistory, MayStartFrom

\* Steps that leave the comments of t alone, or add one that names no status.
LEMMA NoMoveKeepsHistory ==
  ASSUME TypeInv, NEW t \in Tickets, HistoryOf(t),
         \/ trail'[t] = trail[t]
         \/ \E e \in EntryType : e.to = None /\ trail'[t] = Append(trail[t], e),
         t \notin overlapped' => t \notin overlapped,
         t \notin overlapped' =>
           \/ status'[t] = status[t]
           \/ status[t] = "SUBMITTED" /\ status'[t] = "APPROVED" /\ assignee'[t] # None
           \/ trail[t] = <<>> /\ status'[t] = "SUBMITTED",
         assignee[t] # None => assignee'[t] # None,
         status'[t] = "NONE" => trail'[t] = <<>>
  PROVE  HistoryOf(t)'
<1>1. /\ Moves(t)' = Moves(t)
      /\ \A i \in Moves(t) : /\ trail'[t][i] = trail[t][i]
                             /\ MovesUpTo(t, i)' = MovesUpTo(t, i)
                             /\ Moves(t)' \cap After(t, i)' = Moves(t) \cap After(t, i)
  BY CommentIsNoMove
<1>3. ASSUME t \notin overlapped' PROVE TrailIsHistory(t)'
  <2>1. TrailIsHistory(t)
    BY <1>3 DEF HistoryOf
  <2>2. CASE status'[t] = status[t]
    BY <1>1, <2>1, <2>2 DEF TrailIsHistory, MayStartFrom
  <2>3. CASE status[t] = "SUBMITTED" /\ status'[t] = "APPROVED" /\ assignee'[t] # None
    <3>1. \A i \in Moves(t) : Moves(t) \cap After(t, i) # {}
      BY <2>1, <2>3 DEF TrailIsHistory, HistoryOf
    <3>2. MayStartFrom(t, status[t])'
      BY <2>3 DEF MayStartFrom
    <3>3. ASSUME NEW i \in Moves(t)
          PROVE  /\ Moves(t)' \cap After(t, i)' # {}
                 /\ MovesUpTo(t, i)' = {i} => MayStartFrom(t, trail[t][i].from)'
                 /\ \A k \in Moves(t) :
                      k < i /\ MovesUpTo(t, i)' = MovesUpTo(t, k)' \cup {i} =>
                        trail'[t][i].from = trail'[t][k].to
      <4>1. /\ trail'[t][i] = trail[t][i] /\ MovesUpTo(t, i)' = MovesUpTo(t, i)
            /\ Moves(t)' \cap After(t, i)' # {}
        BY <1>1, <3>1
      <4>2. MovesUpTo(t, i)' = {i} => MayStartFrom(t, trail[t][i].from)'
        BY <2>1, <2>3, <4>1 DEF TrailIsHistory, MayStartFrom
      <4>3. ASSUME NEW k \in Moves(t), k < i, MovesUpTo(t, i)' = MovesUpTo(t, k)' \cup {i}
            PROVE  trail'[t][i].from = trail'[t][k].to
        <5>1. trail'[t][k] = trail[t][k] /\ MovesUpTo(t, k)' = MovesUpTo(t, k)
          BY <1>1
        <5> QED BY <2>1, <4>1, <4>3, <5>1, ZenonT(30) DEF TrailIsHistory
      <4> QED BY <4>1, <4>2, <4>3
    <3> QED BY <1>1, <3>2, <3>3 DEF TrailIsHistory
  <2>4. CASE trail[t] = <<>> /\ status'[t] = "SUBMITTED"
    <3>1. Moves(t) = {}
      BY <2>4 DEF Moves
    <3> QED BY <1>1, <2>4, <3>1 DEF TrailIsHistory, MayStartFrom
  <2> QED BY <1>3, <2>2, <2>3, <2>4
<1> QED BY <1>1, <1>3 DEF HistoryOf

\* A status change of a ticket nobody has overlapped starts where it is.
LEMMA MoveKeepsHistory ==
  ASSUME TypeInv, NEW t \in Tickets, HistoryOf(t), NEW e \in EntryType,
         trail'[t] = Append(trail[t], e), e.to \notin {None, "SUBMITTED"},
         t \notin overlapped' => t \notin overlapped /\ e.from = status[t],
         status'[t] = e.to, assignee'[t] = assignee[t]
  PROVE  HistoryOf(t)'
<1>0. e.to # "NONE" /\ e.to # None
  BY DEF EntryType, Statuses
<1>1. PICK n \in Nat :
      /\ n \notin Moves(t) /\ Moves(t)' = Moves(t) \cup {n}
      /\ MovesUpTo(t, n)' = Moves(t)' /\ trail'[t][n] = e
      /\ \A i \in Moves(t) : /\ i < n /\ trail'[t][i] = trail[t][i]
                             /\ MovesUpTo(t, i)' = MovesUpTo(t, i)
                             /\ n \in Moves(t)' \cap After(t, i)'
  BY <1>0, MoveIsAdded
<1>3. ASSUME t \notin overlapped' PROVE TrailIsHistory(t)'
  <2>1. TrailIsHistory(t) /\ e.from = status[t]
    BY <1>3 DEF HistoryOf
  <2>2. Moves(t)' # {} /\ n \in Nat /\ Moves(t) \subseteq Nat
    BY <1>1 DEF Moves, TypeInv, TypeOK
  <2>3. /\ e.to = status'[t]
        /\ MovesUpTo(t, n)' = {n} => MayStartFrom(t, trail[t][n].from)'
    BY <1>1, <2>1 DEF TrailIsHistory, MayStartFrom
  <2>4. ASSUME NEW k \in Moves(t)', k < n, MovesUpTo(t, n)' = MovesUpTo(t, k)' \cup {n}
        PROVE  e.from = trail'[t][k].to
    <3>1. k \in Moves(t)
      BY <1>1, <2>2, <2>4
    <3>2. MovesUpTo(t, k) = Moves(t)
      BY <1>1, <2>4, <3>1 DEF MovesUpTo
    <3>3. Moves(t) \cap After(t, k) = {}
      <4>1. ASSUME NEW i \in Moves(t), i \in After(t, k) PROVE FALSE
        <5>1. i <= k
          BY <3>2 DEF MovesUpTo
        <5> QED BY <2>2, <3>1, <4>1, <5>1 DEF After
      <4> QED BY <4>1
    <3> QED BY <1>1, <2>1, <3>1, <3>3 DEF TrailIsHistory
  <2>5. ASSUME NEW i \in Moves(t)
        PROVE  /\ Moves(t)' \cap After(t, i)' # {}
               /\ MovesUpTo(t, i)' = {i} => MayStartFrom(t, trail[t][i].from)'
               /\ \A k \in Moves(t)' :
                    k < i /\ MovesUpTo(t, i)' = MovesUpTo(t, k)' \cup {i} =>
                      trail'[t][i].from = trail'[t][k].to
    <3>1. ASSUME NEW k \in Moves(t)', k < i PROVE k \in Moves(t)
      BY <1>1, <2>2, <3>1
    <3>2. n \in Moves(t)' \cap After(t, i)' /\ trail'[t][i] = trail[t][i]
      BY <1>1
    <3>3. ASSUME MovesUpTo(t, i)' = {i} PROVE MayStartFrom(t, trail[t][i].from)'
      BY <1>1, <2>1, <3>2, <3>3 DEF TrailIsHistory, MayStartFrom
    <3>4. ASSUME NEW k \in Moves(t)', k < i, MovesUpTo(t, i)' = MovesUpTo(t, k)' \cup {i}
          PROVE  trail'[t][i].from = trail'[t][k].to
      <4>1. /\ trail'[t][k] = trail[t][k]
            /\ MovesUpTo(t, i)' = MovesUpTo(t, i) /\ MovesUpTo(t, k)' = MovesUpTo(t, k)
        BY <1>1, <3>1, <3>4
      <4> QED BY <2>1, <3>1, <3>2, <3>4, <4>1 DEF TrailIsHistory
    <3> QED BY <3>2, <3>3, <3>4
  <2> QED BY <1>1, <2>2, <2>3, <2>4, <2>5 DEF TrailIsHistory
<1>4. \A i \in Moves(t)' : trail'[t][i].to # "SUBMITTED"
  BY <1>1 DEF HistoryOf
<1> QED BY <1>0, <1>3, <1>4 DEF HistoryOf

LEMMA HistoryInvInductive == TypeInv /\ TicketInv /\ HistoryInv /\ [Next]_vars => HistoryInv'
<1> SUFFICES ASSUME TypeInv, TicketInv, [Next]_vars, NEW t \in Tickets, HistoryOf(t)
    PROVE HistoryOf(t)'
  BY DEF HistoryInv
<1> DEFINE Plain(r) == [by |-> r, from |-> None, to |-> None]
<1>0. \A r \in Requests : Plain(r) \in EntryType /\ Plain(r).to = None
  BY DEF EntryType
<1>1. CASE UNCHANGED <<trail, status, assignee, overlapped>>
  BY <1>1, NoMoveKeepsHistory DEF HistoryOf
<1>2. ASSUME NEW r \in Requests, NEW u \in Tickets, Create(r, u) PROVE HistoryOf(t)'
  <2>1. /\ UNCHANGED <<trail, assignee, overlapped>>
        /\ \/ status'[t] = status[t]
           \/ status[t] = "NONE" /\ status'[t] = "SUBMITTED"
    BY <1>2 DEF Create, TypeInv, TypeOK
  <2> QED BY <2>1, NoMoveKeepsHistory DEF HistoryOf
<1>3. ASSUME NEW r \in Requests, NEW u \in Tickets, AddComment(r, u) PROVE HistoryOf(t)'
  <2>1. /\ trail' = [trail EXCEPT ![u] = Append(@, Plain(r))]
        /\ status[u] # "NONE" /\ UNCHANGED <<status, assignee, overlapped>>
    BY <1>3 DEF AddComment, columns
  <2> HIDE DEF Plain
  <2>2. \/ trail'[t] = trail[t]
        \/ trail'[t] = Append(trail[t], Plain(r)) /\ status[t] # "NONE"
    BY <2>1 DEF TypeInv, TypeOK
  <2> QED BY <1>0, <2>1, <2>2, NoMoveKeepsHistory DEF HistoryOf
<1>4. ASSUME NEW r \in Requests, CommitChange(r) PROVE HistoryOf(t)'
  <2>1. /\ job[r].ticket \in Tickets /\ Entry(r) \in EntryType
        /\ Entry(r).to = job[r].to /\ Entry(r).from = job[r].sawStatus
        /\ job[r].to \notin {None, "SUBMITTED"}
    BY <1>4 DEF CommitChange, TypeInv, TypeOK, JobsFit, InFlight, Fits, Entry, EntryType,
                JobType, Transitions, Statuses
  <2>2. CASE job[r].ticket = t
    <3>1. /\ trail'[t] = Append(trail[t], Entry(r)) /\ status'[t] = job[r].to
          /\ UNCHANGED assignee
      BY <1>4, <2>2 DEF CommitChange, TypeInv, TypeOK
    <3>2. ASSUME t \notin overlapped' PROVE t \notin overlapped /\ job[r].sawStatus = status[t]
      <4>1. t \notin overlapped
        BY <1>4, <3>2 DEF CommitChange, NoteOverlap
      <4>2. r \in Readers(t)
        BY <1>4, <2>2 DEF CommitChange, Readers
      <4> QED BY <4>1, <4>2 DEF TicketInv, TicketCurrent, ReadsCurrent
    <3> QED BY <2>1, <3>1, <3>2, MoveKeepsHistory
  <2>3. CASE job[r].ticket # t
    <3>1. /\ trail'[t] = trail[t] /\ status'[t] = status[t] /\ UNCHANGED assignee
          /\ t \notin overlapped' => t \notin overlapped
      BY <1>4, <2>3 DEF CommitChange, NoteOverlap, TypeInv, TypeOK
    <3> QED BY <3>1, NoMoveKeepsHistory DEF HistoryOf
  <2> QED BY <2>2, <2>3
<1>5. ASSUME NEW r \in Requests, CommitAssign(r) PROVE HistoryOf(t)'
  <2>1. /\ job[r].ticket \in Tickets /\ job[r].person # None
        /\ job[r].sawStatus \in Statuses
    BY <1>5 DEF CommitAssign, TypeInv, JobsFit, InFlight, Fits
  <2>2. /\ trail' = [trail EXCEPT ![job[r].ticket] = Append(@, Plain(r))]
        /\ status' = [status EXCEPT ![job[r].ticket] =
             IF job[r].sawStatus = "SUBMITTED" THEN "APPROVED" ELSE job[r].sawStatus]
        /\ assignee' = [assignee EXCEPT ![job[r].ticket] = job[r].person]
    BY <1>5 DEF CommitAssign
  <2>3. t \notin overlapped' => t \notin overlapped
    BY <1>5 DEF CommitAssign, NoteOverlap
  <2> HIDE DEF Plain
  <2>4. CASE job[r].ticket = t
    <3>1. /\ trail'[t] = Append(trail[t], Plain(r)) /\ assignee'[t] # None
          /\ status'[t] = IF job[r].sawStatus = "SUBMITTED" THEN "APPROVED" ELSE job[r].sawStatus
      BY <2>1, <2>2, <2>4 DEF TypeInv, TypeOK
    <3>2. ASSUME t \notin overlapped' PROVE job[r].sawStatus = status[t]
      <4>1. r \in Readers(t)
        BY <1>5, <2>4 DEF CommitAssign, Readers
      <4> QED BY <2>3, <3>2, <4>1 DEF TicketInv, TicketCurrent, ReadsCurrent
    <3>3. status'[t] # "NONE"
      BY <2>1, <3>1 DEF Statuses
    <3> QED BY <1>0, <2>3, <3>1, <3>2, <3>3, NoMoveKeepsHistory
  <2>5. CASE job[r].ticket # t
    <3>1. trail'[t] = trail[t] /\ status'[t] = status[t] /\ assignee'[t] = assignee[t]
      BY <2>2, <2>5 DEF TypeInv, TypeOK
    <3> QED BY <2>3, <3>1, NoMoveKeepsHistory DEF HistoryOf
  <2> QED BY <2>4, <2>5
<1>6. ASSUME NEW r \in Requests,
             \/ TellRequester(r) \/ TellAssignee(r) \/ Fail(r)
             \/ \E u \in Tickets :
                  \/ \E s \in Statuses, k \in Costs \cup {None} : StartChange(r, u, s, k)
                  \/ \E p \in People : StartAssign(r, u, p)
      PROVE  HistoryOf(t)'
  BY <1>1, <1>6 DEF TellRequester, TellAssignee, Fail, StartChange, StartAssign, columns
<1>7. CASE UNCHANGED vars
  BY <1>1, <1>7 DEF vars
<1> HIDE DEF Plain
<1> QED BY <1>2, <1>3, <1>4, <1>5, <1>6, <1>7 DEF Next

(***************************************************************************)
(* The comments tell the history of a ticket, unless writes of it have     *)
(* overlapped: each status comment continues the one before, and the last  *)
(* ends at the status of the ticket.                                       *)
(***************************************************************************)
THEOREM TrailIsComplete == Spec => []TrailIsHistoryUnlessOverlapped
<1>1. HistoryInv => TrailIsHistoryUnlessOverlapped
  BY DEF HistoryInv, HistoryOf, TrailIsHistoryUnlessOverlapped
<1> QED
  BY <1>1, InitTypeInv, InitTicketInv, InitHistoryInv, TypeInvInductive, TicketInvInductive,
     HistoryInvInductive, PTL DEF Spec

-----------------------------------------------------------------------------
(***************************************************************************)
(* Requests that come one after the other.  At most one is in flight; the  *)
(* person of an answered assignment knows it; and what the requester has   *)
(* been told is a prefix of the status comments, complete but for the one  *)
(* whose notification is still to come.                                    *)
(***************************************************************************)
Alone ==
  ~crossed => \A r, o \in Requests : pc[r] \notin Resting /\ pc[o] \notin Resting => r = o

AssigneesKnow ==
  \A t \in Tickets : \A i \in 1..Len(trail[t]) :
    LET r == trail[t][i].by IN
      job[r].kind = "assign" =>
        job[r].ticket = t /\ (pc[r] = "done" => job[r].person \in tasks[t])

\* Status changes of t that have committed and not yet told anybody.
Untold(t) == {r \in Requests : pc[r] = "notify" /\ job[r].kind = "change" /\ job[r].ticket = t}

\* The place of a status comment among the status comments.
Rank(t, i) == Cardinality(MovesUpTo(t, i))

RequesterKnows(t) ==
  /\ Untold(t) = {} => Len(inbox[t]) = Cardinality(Moves(t))
  /\ \A r \in Untold(t) :
       /\ Cardinality(Moves(t)) = Len(inbox[t]) + 1
       /\ \A i \in Moves(t) : Rank(t, i) = Cardinality(Moves(t)) => trail[t][i].to = job[r].to
  /\ \A i \in Moves(t) : Rank(t, i) <= Len(inbox[t]) => inbox[t][Rank(t, i)] = trail[t][i].to

NobodyFailed == \A r \in Requests : pc[r] # "failed"

ToldInv ==
  /\ Alone /\ AssigneesKnow
  /\ ~crossed /\ NobodyFailed => \A t \in Tickets : RequesterKnows(t)

LEMMA InitToldInv == Init => ToldInv
<1> SUFFICES ASSUME Init PROVE ToldInv
  OBVIOUS
<1>1. Alone /\ AssigneesKnow
  BY DEF Init, Alone, AssigneesKnow, Resting
<1>2. ASSUME NEW t \in Tickets PROVE RequesterKnows(t)
  <2>1. Untold(t) = {} /\ trail[t] = <<>> /\ inbox[t] = <<>>
    BY DEF Init, Untold
  <2>2. Moves(t) = {}
    BY <2>1 DEF Moves
  <2> QED BY <2>1, <2>2, FS_EmptySet DEF RequesterKnows
<1> QED BY <1>1, <1>2 DEF ToldInv

\* The status comments are finitely many, and their ranks are numbers.
LEMMA RanksAreNumbers ==
  ASSUME TypeInv, NEW t \in Tickets
  PROVE  /\ IsFiniteSet(Moves(t)) /\ Cardinality(Moves(t)) \in Nat
         /\ \A i \in Moves(t) : Rank(t, i) \in Nat \ {0} /\ Rank(t, i) <= Cardinality(Moves(t))
<1>1. Len(trail[t]) \in Nat
  BY DEF TypeInv, TypeOK
<1>2. IsFiniteSet(1..Len(trail[t])) /\ Moves(t) \in SUBSET (1..Len(trail[t]))
  BY <1>1, FS_Interval DEF Moves
<1>3. IsFiniteSet(Moves(t)) /\ Cardinality(Moves(t)) \in Nat
  BY <1>2, FS_Subset, FS_CardinalityType
<1>4. ASSUME NEW i \in Moves(t)
      PROVE  Rank(t, i) \in Nat \ {0} /\ Rank(t, i) <= Cardinality(Moves(t))
  <2>1. MovesUpTo(t, i) \in SUBSET Moves(t) /\ i \in MovesUpTo(t, i)
    BY <1>2 DEF MovesUpTo
  <2>2. IsFiniteSet(MovesUpTo(t, i)) /\ Rank(t, i) <= Cardinality(Moves(t))
    BY <1>3, <2>1, FS_Subset DEF Rank
  <2>3. Rank(t, i) \in Nat /\ Rank(t, i) # 0
    BY <2>1, <2>2, FS_CardinalityType, FS_EmptySet DEF Rank
  <2> QED BY <2>2, <2>3
<1> QED BY <1>3, <1>4

LEMMA AloneInductive == TypeInv /\ Alone /\ [Next]_vars => Alone'
<1> SUFFICES ASSUME TypeInv, Alone, [Next]_vars PROVE Alone'
  OBVIOUS
<1>1. ASSUME UNCHANGED crossed, \A o \in Requests : pc'[o] \notin Resting => pc[o] \notin Resting
      PROVE  Alone'
  BY <1>1 DEF Alone
<1>2. ASSUME NEW r \in Requests, Starts(r), NEW l, pc' = [pc EXCEPT ![r] = l] PROVE Alone'
  <2>1. ASSUME ~crossed', NEW o \in Requests, pc'[o] \notin Resting PROVE o = r
    BY <1>2, <2>1 DEF Starts, TypeInv, TypeOK
  <2> QED BY <2>1 DEF Alone
<1>3. ASSUME NEW r \in Requests,
             \/ CommitChange(r) \/ TellRequester(r) \/ CommitAssign(r) \/ TellAssignee(r)
             \/ Fail(r)
      PROVE  Alone'
  <2>1. \A o \in Requests : pc'[o] \notin Resting => pc[o] \notin Resting
    BY <1>3 DEF CommitChange, TellRequester, CommitAssign, TellAssignee, Fail, Resting,
                TypeInv, TypeOK
  <2>2. UNCHANGED crossed
    BY <1>3 DEF CommitChange, TellRequester, CommitAssign, TellAssignee, Fail
  <2> QED BY <1>1, <2>1, <2>2
<1>4. ASSUME NEW r \in Requests, NEW t \in Tickets,
             \/ Create(r, t) \/ AddComment(r, t)
             \/ \E s \in Statuses, k \in Costs \cup {None} : StartChange(r, t, s, k)
             \/ \E p \in People : StartAssign(r, t, p)
      PROVE  Alone'
  BY <1>2, <1>4 DEF Create, AddComment, StartChange, StartAssign
<1>5. CASE UNCHANGED vars
  BY <1>1, <1>5 DEF vars
<1> QED BY <1>3, <1>4, <1>5 DEF Next

\* People told of a ticket stay told, and who ends an assignment has told.
LEMMA AssigneesAreTold ==
  ASSUME TypeInv, [Next]_vars, NEW o \in Requests, pc[o] \notin {"idle", "write"},
         job[o].kind = "assign"
  PROVE  /\ \A t \in Tickets : tasks[t] \subseteq tasks'[t]
         /\ pc'[o] = "done" => \/ pc[o] = "done"
                               \/ job[o].person \in tasks'[job[o].ticket]
<1>1. CASE UNCHANGED vars
  BY <1>1 DEF vars
<1>2. ASSUME NEW r \in Requests, TellAssignee(r)
      PROVE  /\ \A t \in Tickets : tasks[t] \subseteq tasks'[t]
             /\ pc'[o] = "done" => \/ pc[o] = "done"
                                   \/ job[o].person \in tasks'[job[o].ticket]
  <2>1. job[r].ticket \in Tickets
    BY <1>2 DEF TellAssignee, TypeInv, JobsFit, InFlight, Fits
  <2> QED BY <1>2, <2>1 DEF TellAssignee, TypeInv, TypeOK
<1>3. ASSUME NEW r \in Requests,
             \/ CommitChange(r) \/ TellRequester(r) \/ CommitAssign(r) \/ Fail(r)
      PROVE  UNCHANGED tasks /\ (pc'[o] = "done" => pc[o] = "done")
  BY <1>3 DEF CommitChange, TellRequester, CommitAssign, Fail, TypeInv, TypeOK
<1>4. ASSUME NEW r \in Requests, NEW t \in Tickets,
             \/ Create(r, t) \/ AddComment(r, t)
             \/ \E s \in Statuses, k \in Costs \cup {None} : StartChange(r, t, s, k)
             \/ \E p \in People : StartAssign(r, t, p)
      PROVE  UNCHANGED tasks /\ (pc'[o] = "done" => pc[o] = "done")
  <2>1. UNCHANGED tasks /\ pc[r] = "idle" /\ \A q \in Requests \ {r} : pc'[q] = pc[q]
    BY <1>4 DEF Create, AddComment, StartChange, StartAssign, Starts, TypeInv, TypeOK
  <2> QED BY <2>1
<1> QED BY <1>1, <1>2, <1>3, <1>4 DEF Next

LEMMA AssigneesKnowInductive ==
  TypeInv /\ AuthorInv /\ AssigneesKnow /\ [Next]_vars => AssigneesKnow'
<1> SUFFICES ASSUME TypeInv, AuthorInv, AssigneesKnow, [Next]_vars, NEW t \in Tickets,
                    NEW i \in 1..Len(trail'[t]), job'[trail'[t][i].by].kind = "assign"
    PROVE  LET r == trail'[t][i].by IN
             job'[r].ticket = t /\ (pc'[r] = "done" => job'[r].person \in tasks'[t])
  BY DEF AssigneesKnow
<1> DEFINE Told(r) == job'[r].ticket = t /\ (pc'[r] = "done" => job'[r].person \in tasks'[t])
<1>0. trail[t] \in Seq(EntryType) /\ Len(trail[t]) \in Nat
  BY DEF TypeInv, TypeOK
<1>1. ASSUME i \in 1..Len(trail[t]), trail'[t][i] = trail[t][i] PROVE Told(trail'[t][i].by)
  <2> DEFINE o == trail[t][i].by
  <2>1. trail[t][i] \in EntryType
    BY <1>0, <1>1
  <2>2. o \in Requests /\ pc[o] \notin {"idle", "write"}
    BY <1>1, <2>1 DEF EntryType, AuthorInv, AuthorsAreThrough
  <2>3. job'[o] = job[o] /\ job[o].kind = "assign"
    BY <1>1, <2>2, AuthorsStayThrough
  <2>4. job[o].ticket = t /\ (pc[o] = "done" => job[o].person \in tasks[t])
    BY <1>1, <2>3 DEF AssigneesKnow
  <2>5. pc'[o] = "done" => pc[o] = "done" \/ job[o].person \in tasks'[t]
    BY <2>2, <2>3, <2>4, AssigneesAreTold
  <2>6. tasks[t] \subseteq tasks'[t]
    BY <2>2, <2>3, AssigneesAreTold
  <2> HIDE DEF o
  <2>7. Told(o)
    BY <2>3, <2>4, <2>5, <2>6
  <2> QED BY <1>1, <2>7 DEF o
<1>2. CASE trail'[t] = trail[t]
  BY <1>1, <1>2
<1>3. ASSUME NEW e \in EntryType, trail'[t] = Append(trail[t], e),
             job'[e.by].kind = "assign" => job'[e.by].ticket = t /\ pc'[e.by] # "done"
      PROVE  Told(trail'[t][i].by)
  <2>1. CASE i \in 1..Len(trail[t])
    <3>1. trail'[t][i] = trail[t][i]
      BY <1>0, <1>3, <2>1
    <3> QED BY <1>1, <2>1, <3>1
  <2>2. CASE i \notin 1..Len(trail[t])
    <3>1. trail'[t][i] = e
      BY <1>0, <1>3, <2>2
    <3> QED BY <1>3, <3>1
  <2> QED BY <2>1, <2>2
<1>4. ASSUME NEW r \in Requests, NEW u \in Tickets, AddComment(r, u)
      PROVE  Told(trail'[t][i].by)
  <2> DEFINE e == [by |-> r, from |-> None, to |-> None]
  <2>1. e \in EntryType /\ e.by = r
    BY DEF EntryType
  <2>2. job'[r].kind # "assign"
    BY <1>4 DEF AddComment, Starts, AuthorInv, IdleAsksNothing, NoJob
  <2>3. trail' = [trail EXCEPT ![u] = Append(@, e)]
    BY <1>4 DEF AddComment
  <2> HIDE DEF e, Told
  <2>4. trail'[t] = Append(trail[t], e) \/ trail'[t] = trail[t]
    BY <2>3 DEF TypeInv, TypeOK
  <2> QED BY <1>2, <1>3, <2>1, <2>2, <2>4 DEF Told
<1>5. ASSUME NEW r \in Requests, CommitChange(r) PROVE Told(trail'[t][i].by)
  <2>1. Entry(r) \in EntryType /\ Entry(r).by = r
    BY <1>5 DEF CommitChange, TypeInv, TypeOK, JobsFit, InFlight, Fits, Entry, EntryType, JobType
  <2>2. /\ job'[r].kind # "assign"
        /\ trail' = [trail EXCEPT ![job[r].ticket] = Append(@, Entry(r))]
    BY <1>5 DEF CommitChange
  <2> HIDE DEF Told
  <2>3. trail'[t] = Append(trail[t], Entry(r)) \/ trail'[t] = trail[t]
    BY <2>2 DEF TypeInv, TypeOK
  <2> QED BY <1>2, <1>3, <2>1, <2>2, <2>3 DEF Told
<1>6. ASSUME NEW r \in Requests, CommitAssign(r) PROVE Told(trail'[t][i].by)
  <2> DEFINE e == [by |-> r, from |-> None, to |-> None]
  <2>1. e \in EntryType /\ e.by = r
    BY DEF EntryType
  <2>2. job' = job /\ pc'[r] = "notify"
    BY <1>6 DEF CommitAssign, TypeInv, TypeOK
  <2>3. trail' = [trail EXCEPT ![job[r].ticket] = Append(@, e)]
    BY <1>6 DEF CommitAssign
  <2> HIDE DEF e, Told
  <2>4. \/ trail'[t] = Append(trail[t], e) /\ job[r].ticket = t
        \/ trail'[t] = trail[t]
    BY <2>3 DEF TypeInv, TypeOK
  <2> QED BY <1>2, <1>3, <2>1, <2>2, <2>4 DEF Told
<1>7. ASSUME NEW r \in Requests,
             \/ TellRequester(r) \/ TellAssignee(r) \/ Fail(r)
             \/ \E u \in Tickets :
                  \/ Create(r, u)
                  \/ \E s \in Statuses, k \in Costs \cup {None} : StartChange(r, u, s, k)
                  \/ \E p \in People : StartAssign(r, u, p)
      PROVE  trail'[t] = trail[t]
  BY <1>7 DEF TellRequester, TellAssignee, Fail, Create, StartChange, StartAssign
<1>8. CASE UNCHANGED vars
  BY <1>2, <1>8 DEF vars
<1> HIDE DEF Told
<1>9. Told(trail'[t][i].by)
  BY <1>2, <1>4, <1>5, <1>6, <1>7, <1>8 DEF Next, Told
<1> QED BY <1>9 DEF Told

\* Steps that add no status comment of t and tell its requester nothing.
LEMMA QuietKeepsRequester ==
  ASSUME TypeInv, NEW t \in Tickets, RequesterKnows(t),
         \/ trail'[t] = trail[t]
         \/ \E e \in EntryType : e.to = None /\ trail'[t] = Append(trail[t], e),
         inbox'[t] = inbox[t], Untold(t)' = Untold(t),
         \A r \in Untold(t) : job'[r] = job[r]
  PROVE  RequesterKnows(t)'
<1>1. /\ Moves(t)' = Moves(t)
      /\ \A i \in Moves(t) : trail'[t][i] = trail[t][i] /\ MovesUpTo(t, i)' = MovesUpTo(t, i)
  BY CommentIsNoMove
<1>2. \A i \in Moves(t) : Rank(t, i)' = Rank(t, i)
  BY <1>1 DEF Rank
<1>3. ASSUME NEW r \in Untold(t)
      PROVE  /\ Cardinality(Moves(t)) = Len(inbox[t]) + 1
             /\ \A i \in Moves(t) :
                  Rank(t, i)' = Cardinality(Moves(t)) => trail'[t][i].to = job'[r].to
  BY <1>1, <1>2, <1>3 DEF RequesterKnows
<1>4. ASSUME NEW i \in Moves(t), Rank(t, i)' <= Len(inbox'[t])
      PROVE  inbox'[t][Rank(t, i)'] = trail'[t][i].to
  BY <1>1, <1>2, <1>4 DEF RequesterKnows
<1>5. Untold(t) = {} => Len(inbox[t]) = Cardinality(Moves(t))
  BY DEF RequesterKnows
<1> QED BY <1>1, <1>3, <1>4, <1>5 DEF RequesterKnows

\* A status change commits: the requester has one thing left to be told.
LEMMA CommitOwesNews ==
  ASSUME TypeInv, NEW t \in Tickets, RequesterKnows(t), NEW e \in EntryType, NEW r,
         e.to # None, trail'[t] = Append(trail[t], e), inbox'[t] = inbox[t],
         Untold(t) = {}, Untold(t)' = {r}, job'[r].to = e.to
  PROVE  RequesterKnows(t)'
<1>1. PICK n \in Nat :
      /\ n \notin Moves(t) /\ Moves(t)' = Moves(t) \cup {n}
      /\ MovesUpTo(t, n)' = Moves(t)' /\ trail'[t][n] = e
      /\ \A i \in Moves(t) : /\ i < n /\ trail'[t][i] = trail[t][i]
                             /\ MovesUpTo(t, i)' = MovesUpTo(t, i)
                             /\ n \in Moves(t)' \cap After(t, i)'
  BY MoveIsAdded
<1>2. /\ Cardinality(Moves(t)) \in Nat /\ Len(inbox[t]) = Cardinality(Moves(t))
      /\ \A i \in Moves(t) : Rank(t, i) \in Nat /\ Rank(t, i) <= Cardinality(Moves(t))
  BY RanksAreNumbers DEF RequesterKnows
<1>3. Cardinality(Moves(t) \cup {n}) = Cardinality(Moves(t)) + 1
  BY <1>1, RanksAreNumbers, FS_AddElement
<1>4. Cardinality(Moves(t)') = Cardinality(Moves(t)) + 1
  BY <1>1, <1>3
<1>5. Rank(t, n)' = Cardinality(Moves(t)) + 1 /\ \A i \in Moves(t) : Rank(t, i)' = Rank(t, i)
  BY <1>1, <1>4 DEF Rank
<1>6. ASSUME NEW i \in Moves(t)', Rank(t, i)' = Cardinality(Moves(t)')
      PROVE  trail'[t][i].to = job'[r].to
  <2>1. i \notin Moves(t)
    BY <1>2, <1>4, <1>5, <1>6
  <2> QED BY <1>1, <2>1
<1>7. ASSUME NEW i \in Moves(t)', Rank(t, i)' <= Len(inbox'[t])
      PROVE  inbox'[t][Rank(t, i)'] = trail'[t][i].to
  <2>1. i \in Moves(t)
    BY <1>1, <1>2, <1>5, <1>7
  <2> QED BY <1>1, <1>5, <1>7, <2>1 DEF RequesterKnows
<1> QED BY <1>2, <1>4, <1>6, <1>7 DEF RequesterKnows

\* The requester is told: now he knows every status comment.
LEMMA NewsArrive ==
  ASSUME TypeInv, NEW t \in Tickets, RequesterKnows(t), NEW r,
         Untold(t) = {r}, Untold(t)' = {}, trail'[t] = trail[t],
         inbox'[t] = Append(inbox[t], job[r].to), job[r].to \in Statuses
  PROVE  RequesterKnows(t)'
<1>1. /\ Moves(t)' = Moves(t)
      /\ \A i \in Moves(t) : MovesUpTo(t, i)' = MovesUpTo(t, i)
  BY CommentIsNoMove
<1>2. \A i \in Moves(t) : Rank(t, i)' = Rank(t, i)
  BY <1>1 DEF Rank
<1>3. /\ inbox[t] \in Seq(Statuses) /\ Cardinality(Moves(t)) = Len(inbox[t]) + 1
      /\ Len(inbox[t]) \in Nat
  BY DEF RequesterKnows, TypeInv, TypeOK
<1>4. /\ Len(inbox'[t]) = Len(inbox[t]) + 1
      /\ \A k \in 1..Len(inbox[t]) : inbox'[t][k] = inbox[t][k]
      /\ inbox'[t][Len(inbox[t]) + 1] = job[r].to
  BY <1>3
<1>5. ASSUME NEW i \in Moves(t) PROVE inbox'[t][Rank(t, i)] = trail[t][i].to
  <2>1. Rank(t, i) \in Nat \ {0} /\ Rank(t, i) <= Cardinality(Moves(t))
    BY RanksAreNumbers
  <2>2. CASE Rank(t, i) <= Len(inbox[t])
    BY <1>3, <1>4, <2>1, <2>2 DEF RequesterKnows
  <2>3. CASE Rank(t, i) = Cardinality(Moves(t))
    BY <1>3, <1>4, <2>3 DEF RequesterKnows
  <2> QED BY <1>3, <2>1, <2>2, <2>3
<1> QED BY <1>1, <1>2, <1>3, <1>4, <1>5, ZenonT(30) DEF RequesterKnows

LEMMA RequesterKnowsInductive ==
  ASSUME TypeInv, [Next]_vars, Alone, ~crossed', NobodyFailed', NEW t \in Tickets,
         ~crossed /\ NobodyFailed => RequesterKnows(t)
  PROVE  RequesterKnows(t)'
<1>1. ASSUME NEW r \in Requests, CommitChange(r) PROVE RequesterKnows(t)'
  <2>1. ~crossed /\ NobodyFailed
    BY <1>1 DEF CommitChange, NobodyFailed, TypeInv, TypeOK
  <2>2. /\ job[r].ticket \in Tickets /\ Entry(r) \in EntryType /\ Entry(r).to = job[r].to
        /\ job[r].to # None
    BY <1>1 DEF CommitChange, TypeInv, TypeOK, JobsFit, InFlight, Fits, Entry, EntryType,
                JobType, Transitions, Statuses
  <2>3. /\ job' = job /\ inbox' = inbox /\ pc' = [pc EXCEPT ![r] = "notify"]
        /\ pc[r] = "write" /\ job[r].kind = "change"
        /\ trail' = [trail EXCEPT ![job[r].ticket] = Append(@, Entry(r))]
    BY <1>1 DEF CommitChange
  <2>4. CASE job[r].ticket = t
    <3>1. Untold(t) = {}
      BY <2>1, <2>3 DEF Alone, Untold, Resting
    <3>2. Untold(t)' = {r}
      BY <2>3, <2>4, <3>1 DEF Untold, TypeInv, TypeOK
    <3>3. trail'[t] = Append(trail[t], Entry(r))
      BY <2>3, <2>4 DEF TypeInv, TypeOK
    <3> QED BY <2>1, <2>2, <2>3, <3>1, <3>2, <3>3, CommitOwesNews
  <2>5. CASE job[r].ticket # t
    <3>1. Untold(t)' = Untold(t)
      BY <2>3, <2>5 DEF Untold, TypeInv, TypeOK
    <3>2. trail'[t] = trail[t]
      BY <2>3, <2>5 DEF TypeInv, TypeOK
    <3> QED BY <2>1, <2>3, <3>1, <3>2, QuietKeepsRequester
  <2> QED BY <2>4, <2>5
<1>2. ASSUME NEW r \in Requests, TellRequester(r) PROVE RequesterKnows(t)'
  <2>1. ~crossed /\ NobodyFailed
    BY <1>2 DEF TellRequester, NobodyFailed, TypeInv, TypeOK
  <2>2. job[r].ticket \in Tickets /\ job[r].to \in Statuses
    BY <1>2 DEF TellRequester, TypeInv, JobsFit, InFlight, Fits, Transitions, Statuses
  <2>3. /\ job' = job /\ trail' = trail /\ pc' = [pc EXCEPT ![r] = "done"]
        /\ pc[r] = "notify" /\ job[r].kind = "change"
        /\ inbox' = [inbox EXCEPT ![job[r].ticket] = Append(@, job[r].to)]
    BY <1>2 DEF TellRequester
  <2>4. CASE job[r].ticket = t
    <3>1. Untold(t) = {r}
      BY <2>1, <2>3, <2>4 DEF Alone, Untold, Resting
    <3>2. Untold(t)' = {}
      BY <2>3, <3>1 DEF Untold, TypeInv, TypeOK
    <3>3. inbox'[t] = Append(inbox[t], job[r].to)
      BY <2>3, <2>4 DEF TypeInv, TypeOK
    <3> QED BY <2>1, <2>2, <2>3, <3>1, <3>2, <3>3, NewsArrive
  <2>5. CASE job[r].ticket # t
    <3>1. Untold(t)' = Untold(t)
      BY <2>3, <2>5 DEF Untold, TypeInv, TypeOK
    <3>2. inbox'[t] = inbox[t]
      BY <2>3, <2>5 DEF TypeInv, TypeOK
    <3> QED BY <2>1, <2>3, <3>1, <3>2, QuietKeepsRequester
  <2> QED BY <2>4, <2>5
<1>3. ASSUME NEW r \in Requests, CommitAssign(r) \/ TellAssignee(r) PROVE RequesterKnows(t)'
  <2>1. ~crossed /\ NobodyFailed
    BY <1>3 DEF CommitAssign, TellAssignee, NobodyFailed, TypeInv, TypeOK
  <2>2. job' = job /\ inbox' = inbox /\ Untold(t)' = Untold(t)
    BY <1>3 DEF CommitAssign, TellAssignee, Untold, TypeInv, TypeOK
  <2>3. [by |-> r, from |-> None, to |-> None] \in EntryType
    BY DEF EntryType
  <2>4. \/ trail'[t] = trail[t]
        \/ trail'[t] = Append(trail[t], [by |-> r, from |-> None, to |-> None])
    BY <1>3 DEF CommitAssign, TellAssignee, TypeInv, TypeOK
  <2> QED BY <2>1, <2>2, <2>3, <2>4, QuietKeepsRequester
<1>4. ASSUME NEW r \in Requests, NEW u \in Tickets, Create(r, u) \/ AddComment(r, u)
      PROVE  RequesterKnows(t)'
  <2>1. ~crossed /\ NobodyFailed
    BY <1>4 DEF Create, AddComment, Starts, NobodyFailed, TypeInv, TypeOK
  <2>2. job' = job /\ inbox' = inbox /\ Untold(t)' = Untold(t)
    BY <1>4 DEF Create, AddComment, Starts, Untold, TypeInv, TypeOK
  <2>3. [by |-> r, from |-> None, to |-> None] \in EntryType
    BY DEF EntryType
  <2>4. \/ trail'[t] = trail[t]
        \/ trail'[t] = Append(trail[t], [by |-> r, from |-> None, to |-> None])
    BY <1>4 DEF Create, AddComment, TypeInv, TypeOK
  <2> QED BY <2>1, <2>2, <2>3, <2>4, QuietKeepsRequester
<1>5. ASSUME NEW r \in Requests, NEW u \in Tickets,
             \/ \E s \in Statuses, k \in Costs \cup {None} : StartChange(r, u, s, k)
             \/ \E p \in People : StartAssign(r, u, p)
      PROVE  RequesterKnows(t)'
  <2>1. /\ pc[r] = "idle" /\ pc' = [pc EXCEPT ![r] = "write"]
        /\ \A o \in Requests \ {r} : job'[o] = job[o]
        /\ crossed => crossed'
        /\ UNCHANGED <<trail, inbox>>
    BY <1>5 DEF StartChange, StartAssign, Starts, TypeInv, TypeOK
  <2>2. ~crossed /\ NobodyFailed
    BY <2>1 DEF NobodyFailed, TypeInv, TypeOK
  <2>3. Untold(t)' = Untold(t) /\ r \notin Untold(t) /\ Untold(t) \subseteq Requests
    BY <2>1 DEF Untold, TypeInv, TypeOK
  <2> QED BY <2>1, <2>2, <2>3, QuietKeepsRequester
<1>6. ASSUME NEW r \in Requests, Fail(r) PROVE FALSE
  BY <1>6 DEF Fail, NobodyFailed, TypeInv, TypeOK
<1>7. CASE UNCHANGED vars
  BY <1>7, QuietKeepsRequester DEF vars, Untold, NobodyFailed
<1> QED BY <1>1, <1>2, <1>3, <1>4, <1>5, <1>6, <1>7 DEF Next

LEMMA ToldInvInductive == TypeInv /\ AuthorInv /\ ToldInv /\ [Next]_vars => ToldInv'
<1> SUFFICES ASSUME TypeInv, AuthorInv, ToldInv, [Next]_vars PROVE ToldInv'
  OBVIOUS
<1>1. Alone' /\ AssigneesKnow'
  BY AloneInductive, AssigneesKnowInductive DEF ToldInv
<1>2. ASSUME ~crossed', NobodyFailed', NEW t \in Tickets PROVE RequesterKnows(t)'
  BY <1>2, RequesterKnowsInductive DEF ToldInv
<1> QED BY <1>1, <1>2 DEF ToldInv

(***************************************************************************)
(* When requests come one after the other and none fails, the requester of *)
(* a ticket has been told exactly the statuses its comments record, in     *)
(* their order, and everyone a ticket was assigned to has been told.       *)
(***************************************************************************)
THEOREM EveryoneIsTold == Spec => []PeopleAreTold
<1>1. ASSUME TypeInv, AuthorInv, ToldInv PROVE PeopleAreTold
  <2> SUFFICES ASSUME ~crossed, \A r \in Requests : pc[r] \in {"idle", "done"},
                      NEW t \in Tickets
      PROVE  /\ Len(inbox[t]) = Cardinality(Moves(t))
             /\ \A i \in Moves(t) : inbox[t][Cardinality(MovesUpTo(t, i))] = trail[t][i].to
             /\ \A i \in 1..Len(trail[t]) :
                  LET r == trail[t][i].by IN
                    job[r].kind = "assign" => job[r].person \in tasks[t]
    BY DEF PeopleAreTold
  <2>1. RequesterKnows(t) /\ Untold(t) = {}
    BY <1>1 DEF ToldInv, NobodyFailed, Untold
  <2>2. Len(inbox[t]) = Cardinality(Moves(t))
    BY <2>1 DEF RequesterKnows
  <2>3. ASSUME NEW i \in Moves(t)
        PROVE  inbox[t][Cardinality(MovesUpTo(t, i))] = trail[t][i].to
    <3>1. Rank(t, i) <= Len(inbox[t])
      BY <1>1, <2>2, RanksAreNumbers
    <3> QED BY <2>1, <3>1 DEF RequesterKnows, Rank
  <2>4. ASSUME NEW i \in 1..Len(trail[t]), job[trail[t][i].by].kind = "assign"
        PROVE  job[trail[t][i].by].person \in tasks[t]
    <3>1. trail[t] \in Seq(EntryType) /\ trail[t][i] \in EntryType
      BY <1>1 DEF TypeInv, TypeOK
    <3>2. trail[t][i].by \in Requests /\ pc[trail[t][i].by] # "idle"
      BY <1>1, <3>1 DEF EntryType, AuthorInv, AuthorsAreThrough
    <3> QED BY <1>1, <2>4, <3>2 DEF ToldInv, AssigneesKnow
  <2> QED BY <2>2, <2>3, <2>4
<1> QED
  BY <1>1, InitTypeInv, InitAuthorInv, InitToldInv, TypeInvInductive, AuthorInvInductive,
     ToldInvInductive, PTL DEF Spec

=============================================================================
