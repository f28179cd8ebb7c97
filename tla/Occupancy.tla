------------------------------ MODULE Occupancy ------------------------------
(***************************************************************************)
(* Who lives where in one building: the units and floors of                *)
(* BuildingsService with the counts stored in the building, and the        *)
(* residents, owners and leases of ResidentsService.                       *)
(*                                                                         *)
(* createUnit, removeUnit and createFloor change a row, count the rows and *)
(* write the count into the building; createLease inserts the lease and    *)
(* then sets the resident of the unit.  None of them is a transaction.     *)
(***************************************************************************)
EXTENDS Naturals, Sequences, FiniteSets

CONSTANTS
  Requests,   \* identities of requests of several statements
  Units,      \* codes of units; a code is unique among removed units too
  Floors,     \* numbers of floors
  Residents,  \* rows of residents
  Owners,     \* rows of owners
  None        \* SQL NULL

ASSUME RowsAssumption ==
  /\ Units \cap Floors = {} /\ Residents \cap Owners = {}
  /\ IsFiniteSet(Units) /\ IsFiniteSet(Floors)
ASSUME NoneAssumption == None \notin Requests \cup Units \cup Floors \cup Residents

Rows == Units \cup Floors
People == Residents \cup Owners
Tables == {"units", "floors"}

VARIABLES
  pc,        \* pc[r]: the await at which request r is suspended
  job,       \* job[r]: the row, the resident and the count r works with
  row,       \* row[x]: "unborn", "live" or "removed" (deletedAt is set)
  stored,    \* stored[t]: unitsCount and floorsCount of the building
  person,    \* person[p]: "unborn", "live" or "removed"
  current,   \* current[u]: currentResidentId of the unit
  leases,    \* the leases with a resident and who made them, in the order of insertion
  stale,     \* history: tables whose last count was older than a change, or was never written
  entangled  \* history: units whose resident was last set by hand, or by a lease
             \* that overlapped another one of the unit

occupancyVars == <<pc, job, row, stored, person, current, leases, stale, entangled>>

\* fresh: no row of the table has changed since it was counted; of a lease, no
\* other one of its unit was being made since it was inserted.
NoJob == [row |-> None, resident |-> None, count |-> 0, fresh |-> FALSE]

Resting == {"idle", "done", "failed"}

TableOf(x) == IF x \in Floors THEN "floors" ELSE "units"

Live(t) == {x \in Rows : TableOf(x) = t /\ row[x] = "live"}

\* A building with any units, counted, without floors, that nobody lives in yet.
OccupancyInit ==
  /\ pc = [r \in Requests |-> "idle"]
  /\ job = [r \in Requests |-> NoJob]
  /\ row \in [Rows -> {"unborn", "live"}]
  /\ Live("floors") = {}
  /\ stored = [t \in Tables |-> Cardinality(Live(t))]
  /\ person = [p \in People |-> "unborn"]
  /\ current = [u \in Units |-> None]
  /\ leases = << >>
  /\ stale = {}
  /\ entangled = {}

-----------------------------------------------------------------------------
(* Units and floors *)

\* r changes row x, which makes counts taken by others old.
Change(r, x, state) ==
  /\ pc[r] = "idle"
  /\ pc' = [pc EXCEPT ![r] = "count"]
  /\ row' = [row EXCEPT ![x] = state]
  /\ job' = [o \in Requests |->
       IF o = r THEN [NoJob EXCEPT !.row = x]
       ELSE IF pc[o] = "write" /\ TableOf(job[o].row) = TableOf(x)
         THEN [job[o] EXCEPT !.fresh = FALSE] ELSE job[o]]
  /\ UNCHANGED <<stored, person, leases, stale, entangled>>

AddFloor(r, f) == row[f] = "unborn" /\ Change(r, f, "live") /\ UNCHANGED current

\* createUnit takes a resident too, or none.
AddUnit(r, u, x) ==
  /\ row[u] = "unborn"
  /\ x # None => person[x] # "unborn"
  /\ Change(r, u, "live")
  /\ current' = [current EXCEPT ![u] = x]

\* removeUnit finds removed units too, and counts again.
RemoveUnit(r, u) == row[u] # "unborn" /\ Change(r, u, "removed") /\ UNCHANGED current

\* Mutant: units are counted with the removed ones, as listBuildings does.
CountEveryRow(r) ==
  LET t == TableOf(job[r].row) IN
    /\ pc[r] = "count"
    /\ pc' = [pc EXCEPT ![r] = "write"]
    /\ job' = [job EXCEPT ![r].count = Cardinality({x \in Rows : TableOf(x) = t /\ row[x] # "unborn"}),
                          ![r].fresh = TRUE]
    /\ UNCHANGED <<row, stored, person, current, leases, stale, entangled>>

\* recountUnits and recountFloors count ...
CountRows(r) ==
  /\ pc[r] = "count"
  /\ pc' = [pc EXCEPT ![r] = "write"]
  /\ job' = [job EXCEPT ![r].count = Cardinality(Live(TableOf(job[r].row))), ![r].fresh = TRUE]
  /\ UNCHANGED <<row, stored, person, current, leases, stale, entangled>>

\* ... and write what they have counted.
WriteCount(r) ==
  LET t == TableOf(job[r].row) IN
    /\ pc[r] = "write"
    /\ pc' = [pc EXCEPT ![r] = "done"]
    /\ stored' = [stored EXCEPT ![t] = job[r].count]
    /\ stale' = IF job[r].fresh THEN stale \ {t} ELSE stale \cup {t}
    /\ UNCHANGED <<job, row, person, current, leases, entangled>>

-----------------------------------------------------------------------------
(* Residents, owners and leases *)

\* createResident, createOwner
CreatePerson(p) ==
  /\ person[p] = "unborn"
  /\ person' = [person EXCEPT ![p] = "live"]
  /\ UNCHANGED <<pc, job, row, stored, current, leases, stale, entangled>>

\* Units and leases keep pointing at a removed resident.
RemoveResident(x) ==
  /\ person[x] = "live"
  /\ person' = [person EXCEPT ![x] = "removed"]
  /\ UNCHANGED <<pc, job, row, stored, current, leases, stale, entangled>>

\* updateUnit sets any resident, or none.
UpdateUnit(u, x) ==
  /\ row[u] = "live"
  /\ x # None => person[x] # "unborn"
  /\ current' = [current EXCEPT ![u] = x]
  /\ entangled' = entangled \cup {u}
  /\ UNCHANGED <<pc, job, row, stored, person, leases, stale>>

\* r has inserted a lease of u and not yet set the resident.
Leasing(r, u) == pc[r] = "occupy" /\ job[r].row = u

\* createLease: only the foreign keys are checked; a lease without a resident
\* changes nothing else and is left out.
InsertLease(r, u, x) ==
  /\ pc[r] = "idle"
  /\ row[u] # "unborn" /\ person[x] # "unborn"
  /\ pc' = [pc EXCEPT ![r] = "occupy"]
  /\ job' = [o \in Requests |->
       IF o = r THEN [NoJob EXCEPT !.row = u, !.resident = x,
                                   !.fresh = \A q \in Requests : ~Leasing(q, u)]
       ELSE IF Leasing(o, u) THEN [job[o] EXCEPT !.fresh = FALSE] ELSE job[o]]
  /\ leases' = Append(leases, [unit |-> u, resident |-> x, by |-> r])
  /\ UNCHANGED <<row, stored, person, current, stale, entangled>>

\* Mutant: only an empty unit gets a resident.
OccupyEmpty(r) ==
  /\ pc[r] = "occupy"
  /\ pc' = [pc EXCEPT ![r] = "done"]
  /\ current' = [current EXCEPT ![job[r].row] = IF @ = None THEN job[r].resident ELSE @]
  /\ entangled' = IF job[r].fresh THEN entangled \ {job[r].row} ELSE entangled \cup {job[r].row}
  /\ UNCHANGED <<job, row, stored, person, leases, stale>>

Occupy(r) ==
  /\ pc[r] = "occupy"
  /\ pc' = [pc EXCEPT ![r] = "done"]
  /\ current' = [current EXCEPT ![job[r].row] = job[r].resident]
  /\ entangled' = IF job[r].fresh THEN entangled \ {job[r].row} ELSE entangled \cup {job[r].row}
  /\ UNCHANGED <<job, row, stored, person, leases, stale>>

\* A rejected statement or the end of the instance.
Fail(r) ==
  /\ pc[r] \notin Resting
  /\ pc' = [pc EXCEPT ![r] = "failed"]
  /\ stale' = IF pc[r] = "occupy" THEN stale ELSE stale \cup {TableOf(job[r].row)}
  /\ UNCHANGED <<job, row, stored, person, current, leases, entangled>>

OccupancyNext ==
  \/ \E r \in Requests :
       \/ \E f \in Floors : AddFloor(r, f)
       \/ \E u \in Units, x \in Residents \cup {None} : AddUnit(r, u, x)
       \/ \E u \in Units : RemoveUnit(r, u)
       \/ CountRows(r) \/ WriteCount(r)
       \/ \E u \in Units, x \in Residents : InsertLease(r, u, x)
       \/ Occupy(r) \/ Fail(r)
  \/ \E p \in People : CreatePerson(p)
  \/ \E x \in Residents : RemoveResident(x)
  \/ \E u \in Units, x \in Residents \cup {None} : UpdateUnit(u, x)

OccupancySpec == OccupancyInit /\ [][OccupancyNext]_occupancyVars

-----------------------------------------------------------------------------
(* Properties *)

OccupancyTypeOK ==
  /\ pc \in [Requests -> Resting \cup {"count", "write", "occupy"}]
  /\ job \in [Requests -> [row : Rows \cup {None}, resident : Residents \cup {None},
                           count : Nat, fresh : BOOLEAN]]
  /\ row \in [Rows -> {"unborn", "live", "removed"}]
  /\ stored \in [Tables -> Nat]
  /\ person \in [People -> {"unborn", "live", "removed"}]
  /\ current \in [Units -> Residents \cup {None}]
  /\ leases \in Seq([unit : Units, resident : Residents, by : Requests])
  /\ stale \subseteq Tables /\ entangled \subseteq Units
  /\ \A r \in Requests :
       /\ pc[r] \in {"count", "write", "occupy"} => job[r].row \in Rows
       /\ pc[r] = "occupy" => job[r].row \in Units /\ job[r].resident \in Residents

(***************************************************************************)
(* When nobody is changing a table, the building stores the number of its  *)
(* rows, unless the last count written was older than a change or a change *)
(* ended before it wrote one.  The next change that runs alone repairs the *)
(* count.                                                                  *)
(***************************************************************************)
CountsHold ==
  \A t \in Tables \ stale :
    \/ stored[t] = Cardinality(Live(t))
    \/ \E r \in Requests : pc[r] \in {"count", "write"} /\ TableOf(job[r].row) = t

\* The i-th lease has set the resident of its unit.
Finished(i) == i \in DOMAIN leases /\ pc[leases[i].by] = "done"

(***************************************************************************)
(* A unit shows the resident of its newest lease that was answered,        *)
(* whatever was set before it: a newer lease replaces an older one, and    *)
(* one that is not through, or ended between its two writes, changes       *)
(* nothing yet.  Only when the resident was then set by hand, or by two    *)
(* leases at once, may it be another one.                                  *)
(***************************************************************************)
NewestLeaseHolds ==
  \A i \in DOMAIN leases :
    LET u == leases[i].unit IN
      /\ Finished(i)
      /\ \A j \in DOMAIN leases : leases[j].unit = u /\ Finished(j) => j <= i
      /\ u \notin entangled
      => current[u] = leases[i].resident

=============================================================================
