----------------------------- MODULE Maintenance -----------------------------
(***************************************************************************)
(* Maintenance tickets: MaintenanceService.create, changeStatus, assign    *)
(* and addComment.                                                         *)
(*                                                                         *)
(* changeStatus and assign read the ticket, decide on what they have read, *)
(* and write in a later database transaction: they write back the status,  *)
(* the cost and the resolution date they saw where the request does not    *)
(* give new ones.  The transaction updates one row and inserts one comment *)
(* and reads nothing, so it is one step.  The notification comes after it, *)
(* outside any transaction.                                                *)
(***************************************************************************)
EXTENDS Naturals, Sequences, FiniteSets

CONSTANTS
  Requests,   \* identities of HTTP requests; a comment is named by its request
  Tickets,    \* identities of maintenance_requests rows
  People,     \* users a ticket can be assigned to
  Costs,      \* costs a request can give
  Seeds,      \* the statuses a ticket can start with; "NONE": not yet created
  None        \* SQL NULL, or a field the request leaves out

Statuses == {"SUBMITTED", "REVIEWING", "APPROVED", "IN_PROGRESS", "DONE", "CANCELED"}

\* seed.ts inserts a fresh ticket and one that is assigned and in progress.
ASSUME SeedsAssumption == Seeds \subseteq {"NONE", "SUBMITTED", "IN_PROGRESS"}
ASSUME NoneAssumption ==
  /\ None \notin People \cup Costs \cup Statuses \cup {"change", "assign"}
  /\ People # {}

VARIABLES
  pc,          \* pc[r]: the await at which request r is suspended
  job,         \* job[r]: what r was asked, and the row it has read
  status,      \* status[t]: the status column; "NONE" before the row exists
  resolved,    \* resolved[t]: resolvedAt is not NULL
  cost,        \* cost[t]: the cost column
  assignee,    \* assignee[t]: the assignedToId column
  trail,       \* trail[t]: the comments of t in commit order
  inbox,       \* inbox[t]: the statuses the requester of t was told, in order
  tasks,       \* tasks[t]: the people told that t is theirs
  overlapped,  \* history: tickets written while another request had read them
  crossed      \* history: a request has started while another was in flight

columns == <<status, resolved, cost, assignee>>
vars == <<pc, job, status, resolved, cost, assignee, trail, inbox, tasks,
          overlapped, crossed>>

NoJob == [kind |-> None, ticket |-> None, to |-> None, cost |-> None, person |-> None,
          sawStatus |-> None, sawResolved |-> FALSE, sawCost |-> None]

Resting == {"idle", "done", "failed"}

\* TRANSITIONS: the moves changeStatus allows.
Transitions ==
  [s \in Statuses |->
    CASE s = "SUBMITTED" -> {"REVIEWING", "APPROVED", "CANCELED"}
      [] s = "REVIEWING" -> {"APPROVED", "CANCELED"}
      [] s = "APPROVED" -> {"IN_PROGRESS", "CANCELED"}
      [] s = "IN_PROGRESS" -> {"DONE", "CANCELED"}
      [] OTHER -> {}]

Init ==
  /\ pc = [r \in Requests |-> "idle"]
  /\ job = [r \in Requests |-> NoJob]
  /\ status \in [Tickets -> Seeds]
  /\ resolved = [t \in Tickets |-> FALSE]
  /\ cost = [t \in Tickets |-> None]
  /\ \E p \in People :
       assignee = [t \in Tickets |-> IF status[t] = "IN_PROGRESS" THEN p ELSE None]
  /\ trail = [t \in Tickets |-> <<>>]
  /\ inbox = [t \in Tickets |-> <<>>]
  /\ tasks = [t \in Tickets |-> {}]
  /\ overlapped = {}
  /\ crossed = FALSE

\* A request starts, perhaps while another is in flight.
Starts(r) ==
  /\ pc[r] = "idle"
  /\ crossed' = (crossed \/ \E o \in Requests : pc[o] \notin Resting)

-----------------------------------------------------------------------------
Create(r, t) ==
  /\ Starts(r)
  /\ status[t] = "NONE"
  /\ status' = [status EXCEPT ![t] = "SUBMITTED"]
  /\ pc' = [pc EXCEPT ![r] = "done"]
  /\ UNCHANGED <<job, resolved, cost, assignee, trail, inbox, tasks, overlapped>>

\* Mutant: the transition table is not consulted.
StartChangeUnchecked(r, t, s, k) ==
  /\ Starts(r)
  /\ status[t] # "NONE"
  /\ job' = [job EXCEPT ![r] =
       [NoJob EXCEPT !.kind = "change", !.ticket = t, !.to = s, !.cost = k,
          !.sawStatus = status[t], !.sawResolved = resolved[t], !.sawCost = cost[t]]]
  /\ pc' = [pc EXCEPT ![r] = "write"]
  /\ UNCHANGED <<columns, trail, inbox, tasks, overlapped>>

\* changeStatus reads the row; an illegal transition is refused at once.
StartChange(r, t, s, k) ==
  /\ Starts(r)
  /\ status[t] # "NONE" /\ s \in Transitions[status[t]]
  /\ job' = [job EXCEPT ![r] =
       [NoJob EXCEPT !.kind = "change", !.ticket = t, !.to = s, !.cost = k,
          !.sawStatus = status[t], !.sawResolved = resolved[t], !.sawCost = cost[t]]]
  /\ pc' = [pc EXCEPT ![r] = "write"]
  /\ UNCHANGED <<columns, trail, inbox, tasks, overlapped>>

\* assign reads the row; every status may be assigned.
StartAssign(r, t, p) ==
  /\ Starts(r)
  /\ status[t] # "NONE"
  /\ job' = [job EXCEPT ![r] =
       [NoJob EXCEPT !.kind = "assign", !.ticket = t, !.person = p, !.sawStatus = status[t]]]
  /\ pc' = [pc EXCEPT ![r] = "write"]
  /\ UNCHANGED <<columns, trail, inbox, tasks, overlapped>>

\* Requests that have read t and not yet written it.
Readers(t) == {r \in Requests : pc[r] = "write" /\ job[r].ticket = t}

\* The ticket of r is overlapped if someone else has read it when r writes.
NoteOverlap(r) ==
  overlapped' = IF Readers(job[r].ticket) \ {r} = {} THEN overlapped
                ELSE overlapped \cup {job[r].ticket}

\* Mutant: statusFrom and statusTo are exchanged.
EntryReversed(r) == [by |-> r, from |-> job[r].to, to |-> job[r].sawStatus]

\* The comment of a status change; that of an assignment names no status.
Entry(r) == [by |-> r, from |-> job[r].sawStatus, to |-> job[r].to]

\* Mutant: resolvedAt is only ever copied.
ResolvedAfterCopied(r) == job[r].sawResolved

ResolvedAfter(r) == IF job[r].to = "DONE" THEN TRUE ELSE job[r].sawResolved

CostAfter(r) == IF job[r].cost # None THEN job[r].cost ELSE job[r].sawCost

\* changeStatus: update and comment commit together.
CommitChange(r) ==
  LET t == job[r].ticket IN
    /\ pc[r] = "write" /\ job[r].kind = "change"
    /\ status' = [status EXCEPT ![t] = job[r].to]
    /\ cost' = [cost EXCEPT ![t] = CostAfter(r)]
    /\ resolved' = [resolved EXCEPT ![t] = ResolvedAfter(r)]
    /\ trail' = [trail EXCEPT ![t] = Append(@, Entry(r))]
    /\ NoteOverlap(r)
    /\ pc' = [pc EXCEPT ![r] = "notify"]
    /\ UNCHANGED <<job, assignee, inbox, tasks, crossed>>

\* Mutant: the one who is told is told of the status that was read.
TellRequesterOld(r) ==
  /\ pc[r] = "notify" /\ job[r].kind = "change"
  /\ inbox' = [inbox EXCEPT ![job[r].ticket] = Append(@, job[r].sawStatus)]
  /\ pc' = [pc EXCEPT ![r] = "done"]
  /\ UNCHANGED <<job, columns, trail, tasks, overlapped, crossed>>

\* changeStatus: the requester is told the status the request asked for.
TellRequester(r) ==
  /\ pc[r] = "notify" /\ job[r].kind = "change"
  /\ inbox' = [inbox EXCEPT ![job[r].ticket] = Append(@, job[r].to)]
  /\ pc' = [pc EXCEPT ![r] = "done"]
  /\ UNCHANGED <<job, columns, trail, tasks, overlapped, crossed>>

\* Mutant: a ticket keeps the first person it was assigned to.
CommitAssignOnce(r) ==
  LET t == job[r].ticket IN
    /\ pc[r] = "write" /\ job[r].kind = "assign"
    /\ assignee' = [assignee EXCEPT ![t] = IF @ = None THEN job[r].person ELSE @]
    /\ status' = [status EXCEPT ![t] =
         IF job[r].sawStatus = "SUBMITTED" THEN "APPROVED" ELSE job[r].sawStatus]
    /\ trail' = [trail EXCEPT ![t] = Append(@, [by |-> r, from |-> None, to |-> None])]
    /\ NoteOverlap(r)
    /\ pc' = [pc EXCEPT ![r] = "notify"]
    /\ UNCHANGED <<job, cost, resolved, inbox, tasks, crossed>>

\* assign: the status goes back as it was read, except that an assignment
\* approves a ticket it has seen SUBMITTED.
CommitAssign(r) ==
  LET t == job[r].ticket IN
    /\ pc[r] = "write" /\ job[r].kind = "assign"
    /\ assignee' = [assignee EXCEPT ![t] = job[r].person]
    /\ status' = [status EXCEPT ![t] =
         IF job[r].sawStatus = "SUBMITTED" THEN "APPROVED" ELSE job[r].sawStatus]
    /\ trail' = [trail EXCEPT ![t] = Append(@, [by |-> r, from |-> None, to |-> None])]
    /\ NoteOverlap(r)
    /\ pc' = [pc EXCEPT ![r] = "notify"]
    /\ UNCHANGED <<job, cost, resolved, inbox, tasks, crossed>>

TellAssignee(r) ==
  /\ pc[r] = "notify" /\ job[r].kind = "assign"
  /\ tasks' = [tasks EXCEPT ![job[r].ticket] = @ \cup {job[r].person}]
  /\ pc' = [pc EXCEPT ![r] = "done"]
  /\ UNCHANGED <<job, columns, trail, inbox, overlapped, crossed>>

\* addComment: rows are never deleted, so lookup and insert are one step.
AddComment(r, t) ==
  /\ Starts(r)
  /\ status[t] # "NONE"
  /\ trail' = [trail EXCEPT ![t] = Append(@, [by |-> r, from |-> None, to |-> None])]
  /\ pc' = [pc EXCEPT ![r] = "done"]
  /\ UNCHANGED <<job, columns, inbox, tasks, overlapped>>

\* An exception or the end of the instance: what has not committed is lost,
\* and so is a notification that was still to come.
Fail(r) ==
  /\ pc[r] \notin Resting
  /\ pc' = [pc EXCEPT ![r] = "failed"]
  /\ UNCHANGED <<job, columns, trail, inbox, tasks, overlapped, crossed>>

Next ==
  \E r \in Requests :
    \/ \E t \in Tickets :
         \/ Create(r, t) \/ AddComment(r, t)
         \/ \E s \in Statuses, k \in Costs \cup {None} : StartChange(r, t, s, k)
         \/ \E p \in People : StartAssign(r, t, p)
    \/ CommitChange(r) \/ TellRequester(r)
    \/ CommitAssign(r) \/ TellAssignee(r)
    \/ Fail(r)

Spec == Init /\ [][Next]_vars

-----------------------------------------------------------------------------
(* Properties *)

JobType ==
  [kind : {None, "change", "assign"}, ticket : Tickets \cup {None},
   to : Statuses \cup {None}, cost : Costs \cup {None}, person : People \cup {None},
   sawStatus : Statuses \cup {None}, sawResolved : BOOLEAN, sawCost : Costs \cup {None}]

EntryType == [by : Requests, from : Statuses \cup {None}, to : Statuses \cup {None}]

\* Every column keeps its type, and a ticket that is not there has nothing.
TypeOK ==
  /\ pc \in [Requests -> Resting \cup {"write", "notify"}]
  /\ job \in [Requests -> JobType]
  /\ status \in [Tickets -> Statuses \cup {"NONE"}]
  /\ resolved \in [Tickets -> BOOLEAN]
  /\ cost \in [Tickets -> Costs \cup {None}]
  /\ assignee \in [Tickets -> People \cup {None}]
  /\ trail \in [Tickets -> Seq(EntryType)]
  /\ inbox \in [Tickets -> Seq(Statuses)]
  /\ tasks \in [Tickets -> SUBSET People]
  /\ overlapped \subseteq Tickets /\ crossed \in BOOLEAN

\* The places of the status comments in the trail of t.
Moves(t) == {i \in 1..Len(trail[t]) : trail[t][i].to # None}

\* The status comments of t up to place i; the places after i.
MovesUpTo(t, i) == {k \in Moves(t) : k <= i}
After(t, i) == (i + 1)..Len(trail[t])

MoveAllowed(t) ==
  status[t] \in Statuses /\ status'[t] # status[t] => status'[t] \in Transitions[status[t]]

(***************************************************************************)
(* A ticket moves only along TRANSITIONS, whoever writes it, as long as no *)
(* request wrote it while another had read it: the check of changeStatus   *)
(* is stale only by overlap, and assign leaves a DONE or CANCELED ticket   *)
(* alone.                                                                  *)
(***************************************************************************)
MovesAllowedUnlessOverlapped ==
  [][\A t \in Tickets \ overlapped' : MoveAllowed(t)]_vars

\* What the first status comment of t may start from.
MayStartFrom(t, s) ==
  \/ s \in Seeds \cup {"SUBMITTED"}
  \/ s = "APPROVED" /\ assignee[t] # None

TrailIsHistory(t) ==
  /\ Moves(t) = {} => MayStartFrom(t, status[t])
  /\ \A i \in Moves(t) :
       /\ Moves(t) \cap After(t, i) = {} => trail[t][i].to = status[t]
       /\ MovesUpTo(t, i) = {i} => MayStartFrom(t, trail[t][i].from)
       /\ \A k \in Moves(t) :
            k < i /\ MovesUpTo(t, i) = MovesUpTo(t, k) \cup {i} =>
              trail[t][i].from = trail[t][k].to

(***************************************************************************)
(* The comments are the history of the ticket: each status comment starts  *)
(* where the one before ended and the last ends at the status.  The only   *)
(* move without one is the approval by an assignment, before the first.    *)
(***************************************************************************)
TrailIsHistoryUnlessOverlapped == \A t \in Tickets \ overlapped : TrailIsHistory(t)

(***************************************************************************)
(* A ticket has a resolution date exactly when it is DONE: reports of      *)
(* resolved work and the status agree unless writes overlapped.            *)
(***************************************************************************)
DoneIsResolvedUnlessOverlapped ==
  \A t \in Tickets \ overlapped : resolved[t] <=> status[t] = "DONE"

(***************************************************************************)
(* The newest assignment wins, even when it overlaps status changes: they  *)
(* write back everything they read except the assignee.                    *)
(***************************************************************************)
NewestAssignmentHolds ==
  \A t \in Tickets : \A i \in 1..Len(trail[t]) :
    LET r == trail[t][i].by IN
      job[r].kind = "assign" /\ (\A k \in After(t, i) : job[trail[t][k].by].kind # "assign")
        => assignee[t] = job[r].person

(***************************************************************************)
(* When requests come one after the other and none fails, the requester    *)
(* has been told every status the comments record, in order, and everyone  *)
(* a ticket was assigned to knows it.                                      *)
(***************************************************************************)
PeopleAreTold ==
  ~crossed /\ (\A r \in Requests : pc[r] \in {"idle", "done"}) =>
    \A t \in Tickets :
      /\ Len(inbox[t]) = Cardinality(Moves(t))
      /\ \A i \in Moves(t) : inbox[t][Cardinality(MovesUpTo(t, i))] = trail[t][i].to
      /\ \A i \in 1..Len(trail[t]) :
           LET r == trail[t][i].by IN
             job[r].kind = "assign" => job[r].person \in tasks[t]

=============================================================================
