------------------------- MODULE AnnouncementsProofs -------------------------
(***************************************************************************)
(* Theorems about the building and those who live in it: the columns that  *)
(* are derived from other rows, which are the counts stored in the         *)
(* building and the resident shown for a unit, and then whom an answered   *)
(* announcement has reached, however residents, owners and leases change   *)
(* while it is being sent.                                                 *)
(***************************************************************************)
EXTENDS Announcements, FiniteSetTheorems, SequenceTheorems, TLAPS

USE RowsAssumption, NoneAssumption, AccountsAssumption

-----------------------------------------------------------------------------
(* Types *)

JobType == [row : Rows \cup {None}, resident : Residents \cup {None}, count : Nat, fresh : BOOLEAN]

LeaseType == [unit : Units, resident : Residents, by : Requests]

LEMMA LiveIsCounted ==
  ASSUME NEW t
  PROVE  Cardinality(Live(t)) \in Nat
<1>1. IsFiniteSet(Rows)
  BY FS_Union DEF Rows
<1>2. IsFiniteSet(Live(t))
  BY <1>1, FS_Subset DEF Live
<1> QED BY <1>2, FS_CardinalityType

LEMMA InitType == OccupancyInit => OccupancyTypeOK
<1> SUFFICES ASSUME OccupancyInit PROVE OccupancyTypeOK
  OBVIOUS
<1>1. NoJob \in JobType
  BY DEF NoJob, JobType
<1>2. job \in [Requests -> JobType]
  BY <1>1 DEF OccupancyInit
<1>3. leases \in Seq(LeaseType)
  BY DEF OccupancyInit
<1>4. stored \in [Tables -> Nat]
  BY LiveIsCounted DEF OccupancyInit
<1> QED BY <1>2, <1>3, <1>4 DEF OccupancyInit, OccupancyTypeOK, JobType, LeaseType, Resting

LEMMA LeaseOfUnit ==
  ASSUME NEW s \in Seq(LeaseType), NEW i \in DOMAIN s
  PROVE  s[i].unit \in Units /\ s[i].by \in Requests
<1>1. i \in 1 .. Len(s)
  OBVIOUS
<1>2. s[i] \in LeaseType
  BY <1>1, ElementOfSeq
<1> QED BY <1>2 DEF LeaseType

LEMMA TableIsTable ==
  ASSUME NEW x
  PROVE  TableOf(x) \in Tables
BY DEF TableOf, Tables

\* What a request has counted, or what it knows of other leases, is old.
Aged(j) == [j EXCEPT !.fresh = FALSE]

\* One request gets a new job; what others have read grows old, if they are in S.
LEMMA Outdated ==
  ASSUME job \in [Requests -> JobType], NEW r \in Requests, NEW j \in JobType, NEW S,
         job' = [o \in Requests |-> job'[o]], job'[r] = j,
         \A o \in Requests \ {r} :
           job'[o] = IF o \in S THEN Aged(job[o]) ELSE job[o]
  PROVE  /\ job' \in [Requests -> JobType] /\ job'[r] = j
         /\ \A o \in Requests \ {r} :
              /\ job'[o].row = job[o].row /\ job'[o].resident = job[o].resident
              /\ job'[o].count = job[o].count
              /\ job'[o].fresh => job[o].fresh /\ o \notin S
              /\ o \notin S => job'[o] = job[o]
<1>1. ASSUME NEW o \in Requests \ {r}
      PROVE  /\ job'[o] \in JobType
             /\ job'[o].row = job[o].row /\ job'[o].resident = job[o].resident
             /\ job'[o].count = job[o].count
             /\ job'[o].fresh => job[o].fresh /\ o \notin S
             /\ o \notin S => job'[o] = job[o]
  <2>1. job[o] \in JobType
    OBVIOUS
  <2>2. CASE o \in S
    <3>1. job'[o] = [job[o] EXCEPT !.fresh = FALSE]
      BY <2>2 DEF Aged
    <3> QED BY <2>1, <2>2, <3>1 DEF JobType
  <2>3. CASE o \notin S
    <3>1. job'[o] = job[o]
      BY <2>3
    <3> QED BY <2>1, <2>3, <3>1
  <2> QED BY <2>2, <2>3
<1>2. job'[r] = j
  OBVIOUS
<1>3. job' \in [Requests -> JobType]
  <2>1. \A o \in Requests : job'[o] \in JobType
    BY <1>1, <1>2
  <2> QED BY <2>1
<1> QED BY <1>1, <1>2, <1>3

\* Who inserts a lease has a job naming it; other leases of the unit grow old.
LEMMA InsertedJob ==
  ASSUME job \in [Requests -> JobType], NEW r \in Requests, NEW u \in Units, NEW x \in Residents,
         InsertLease(r, u, x)
  PROVE  \E j \in JobType :
           /\ j.row = u /\ j.resident = x
           /\ /\ job' \in [Requests -> JobType] /\ job'[r] = j
              /\ \A o \in Requests \ {r} :
                   job'[o].row = job[o].row /\ job'[o].resident = job[o].resident
           /\ \A o \in Requests \ {r} :
                /\ job'[o].fresh => job[o].fresh /\ ~Leasing(o, u)
                /\ ~Leasing(o, u) => job'[o] = job[o]
<1>0. PICK alone \in BOOLEAN : alone = (\A q \in Requests : ~Leasing(q, u))
  OBVIOUS
<1>1. PICK j, S : /\ j = [NoJob EXCEPT !.row = u, !.resident = x, !.fresh = alone]
                  /\ S = {o \in Requests : Leasing(o, u)}
  OBVIOUS
<1>2. /\ job' = [o \in Requests |-> job'[o]] /\ job'[r] = j
      /\ \A o \in Requests \ {r} :
           job'[o] = IF o \in S THEN Aged(job[o]) ELSE job[o]
  <2>1. job' = [o \in Requests |->
          IF o = r THEN [NoJob EXCEPT !.row = u, !.resident = x,
                                      !.fresh = \A q \in Requests : ~Leasing(q, u)]
          ELSE IF Leasing(o, u) THEN [job[o] EXCEPT !.fresh = FALSE] ELSE job[o]]
    BY DEF InsertLease
  <2> QED BY <1>0, <1>1, <2>1 DEF Aged
<1>3. j \in JobType /\ j.row = u /\ j.resident = x
  BY <1>1 DEF NoJob, JobType, Rows
<1>4. /\ job' \in [Requests -> JobType] /\ job'[r] = j
      /\ \A o \in Requests \ {r} :
           /\ job'[o].row = job[o].row /\ job'[o].resident = job[o].resident
           /\ job'[o].fresh => job[o].fresh /\ o \notin S
           /\ o \notin S => job'[o] = job[o]
  BY <1>2, <1>3, Outdated
<1> QED BY <1>1, <1>3, <1>4

LEMMA StepType == OccupancyTypeOK /\ [OccupancyNext]_occupancyVars => OccupancyTypeOK'
<1> SUFFICES ASSUME OccupancyTypeOK, [OccupancyNext]_occupancyVars PROVE OccupancyTypeOK'
  OBVIOUS
<1> USE TableIsTable
<1>0. job \in [Requests -> JobType]
  BY DEF OccupancyTypeOK, JobType
<1>1. ASSUME NEW r \in Requests, NEW x \in Rows, NEW s \in {"live", "removed"}, Change(r, x, s),
             current' \in [Units -> Residents \cup {None}]
      PROVE  OccupancyTypeOK'
  <2>0. PICK j, S : /\ j = [NoJob EXCEPT !.row = x]
                    /\ S = {o \in Requests : pc[o] = "write" /\ TableOf(job[o].row) = TableOf(x)}
    OBVIOUS
  <2>1. j \in JobType /\ j.row = x
    BY <2>0 DEF NoJob, JobType
  <2>2. /\ job' = [o \in Requests |-> job'[o]] /\ job'[r] = j
        /\ \A o \in Requests \ {r} :
             job'[o] = IF o \in S THEN Aged(job[o]) ELSE job[o]
    BY <1>1, <2>0 DEF Change, Aged
  <2>3. /\ job' \in [Requests -> JobType] /\ job'[r] = j
        /\ \A o \in Requests \ {r} : job'[o].row = job[o].row /\ job'[o].resident = job[o].resident
    BY <1>0, <2>1, <2>2, Outdated
  <2>4. /\ pc' = [pc EXCEPT ![r] = "count"] /\ row' = [row EXCEPT ![x] = s]
        /\ UNCHANGED <<stored, person, leases, stale, entangled>>
    BY <1>1 DEF Change
  <2>5. ASSUME NEW o \in Requests
        PROVE  /\ pc'[o] \in {"count", "write", "occupy"} => job'[o].row \in Rows
               /\ pc'[o] = "occupy" => job'[o].row \in Units /\ job'[o].resident \in Residents
    BY <2>1, <2>3, <2>4 DEF OccupancyTypeOK
  <2>6. row' \in [Rows -> {"unborn", "live", "removed"}]
    BY <2>4 DEF OccupancyTypeOK
  <2>7. pc' \in [Requests -> Resting \cup {"count", "write", "occupy"}]
    BY <2>4 DEF OccupancyTypeOK
  <2> QED BY <1>1, <2>3, <2>4, <2>5, <2>6, <2>7 DEF OccupancyTypeOK, JobType
<1>2. ASSUME NEW r \in Requests, CountRows(r) PROVE OccupancyTypeOK'
  <2> DEFINE n == Cardinality(Live(TableOf(job[r].row)))
             j == [job[r] EXCEPT !.count = n, !.fresh = TRUE]
  <2>1. n \in Nat
    BY LiveIsCounted
  <2>2. /\ pc[r] = "count" /\ pc' = [pc EXCEPT ![r] = "write"]
        /\ job' = [job EXCEPT ![r].count = n, ![r].fresh = TRUE]
        /\ UNCHANGED <<row, stored, person, current, leases, stale, entangled>>
    BY <1>2 DEF CountRows
  <2> HIDE DEF n
  <2>3. job[r] \in JobType /\ job \in [Requests -> JobType]
    BY DEF OccupancyTypeOK, JobType
  <2>4. j \in JobType /\ j.row = job[r].row
    BY <2>1, <2>3 DEF JobType
  <2>5. job' = [job EXCEPT ![r] = j]
    BY <2>2, <2>3 DEF JobType
  <2> HIDE DEF j
  <2>6. job' \in [Requests -> JobType]
    BY <2>3, <2>4, <2>5
  <2>7. ASSUME NEW o \in Requests
        PROVE  /\ pc'[o] \in {"count", "write", "occupy"} => job'[o].row \in Rows
               /\ pc'[o] = "occupy" => job'[o].row \in Units /\ job'[o].resident \in Residents
    BY <2>2, <2>3, <2>4, <2>5 DEF OccupancyTypeOK
  <2>8. pc' \in [Requests -> Resting \cup {"count", "write", "occupy"}]
    BY <2>2 DEF OccupancyTypeOK
  <2> QED BY <2>2, <2>6, <2>7, <2>8 DEF OccupancyTypeOK, JobType
<1>3. ASSUME NEW r \in Requests, WriteCount(r) \/ Fail(r) PROVE OccupancyTypeOK'
  <2>1. job[r] \in JobType /\ UNCHANGED job
    BY <1>3 DEF WriteCount, Fail, OccupancyTypeOK, JobType
  <2>2. stored' \in [Tables -> Nat] /\ stale' \subseteq Tables
    <3>1. CASE WriteCount(r)
      <4>1. PICK t \in Tables : t = TableOf(job[r].row)
        OBVIOUS
      <4>2. job[r].count \in Nat /\ stored' = [stored EXCEPT ![t] = job[r].count]
            /\ stale' = IF job[r].fresh THEN stale \ {t} ELSE stale \cup {t}
        BY <2>1, <3>1, <4>1 DEF WriteCount, JobType
      <4> QED BY <4>2 DEF OccupancyTypeOK
    <3>2. CASE Fail(r)
      BY <3>2 DEF Fail, OccupancyTypeOK
    <3> QED BY <1>3, <3>1, <3>2
  <2>3. entangled' \subseteq Units
    BY <1>3 DEF WriteCount, Fail, OccupancyTypeOK
  <2>4. PICK l \in {"done", "failed"} : pc' = [pc EXCEPT ![r] = l]
    BY <1>3 DEF WriteCount, Fail
  <2>5. UNCHANGED <<row, person, current, leases>>
    BY <1>3 DEF WriteCount, Fail
  <2> QED BY <2>1, <2>2, <2>3, <2>4, <2>5 DEF OccupancyTypeOK, Resting
<1>4. ASSUME NEW r \in Requests, NEW u \in Units, NEW x \in Residents, InsertLease(r, u, x)
      PROVE  OccupancyTypeOK'
  <2>1. PICK j \in JobType :
          /\ j.row = u /\ j.resident = x
          /\ /\ job' \in [Requests -> JobType] /\ job'[r] = j
             /\ \A o \in Requests \ {r} :
                  job'[o].row = job[o].row /\ job'[o].resident = job[o].resident
    BY <1>0, <1>4, InsertedJob
  <2>2. pc' = [pc EXCEPT ![r] = "occupy"] /\ UNCHANGED <<row, stored, person, current, stale, entangled>>
    BY <1>4 DEF InsertLease
  <2>3. leases' \in Seq(LeaseType)
    <3>1. leases' = Append(leases, [unit |-> u, resident |-> x, by |-> r])
          /\ [unit |-> u, resident |-> x, by |-> r] \in LeaseType
      BY <1>4 DEF InsertLease, LeaseType
    <3> QED BY <3>1 DEF OccupancyTypeOK, LeaseType
  <2>4. ASSUME NEW o \in Requests
        PROVE  /\ pc'[o] \in {"count", "write", "occupy"} => job'[o].row \in Rows
               /\ pc'[o] = "occupy" => job'[o].row \in Units /\ job'[o].resident \in Residents
    BY <2>1, <2>2 DEF OccupancyTypeOK, Rows
  <2>5. pc' \in [Requests -> Resting \cup {"count", "write", "occupy"}]
    BY <2>2 DEF OccupancyTypeOK
  <2> QED BY <2>1, <2>2, <2>3, <2>4, <2>5 DEF OccupancyTypeOK, JobType, LeaseType
<1>5. ASSUME NEW r \in Requests, Occupy(r) PROVE OccupancyTypeOK'
  <2>1. pc[r] = "occupy" /\ job[r].row \in Units /\ job[r].resident \in Residents
    BY <1>5 DEF Occupy, OccupancyTypeOK
  <2>2. entangled' \subseteq Units
    BY <1>5, <2>1 DEF Occupy, OccupancyTypeOK
  <2> QED BY <1>5, <2>1, <2>2 DEF Occupy, OccupancyTypeOK, Resting
<1>6. ASSUME NEW p \in People, CreatePerson(p) \/ RemoveResident(p) PROVE OccupancyTypeOK'
  BY <1>6 DEF CreatePerson, RemoveResident, OccupancyTypeOK
<1>7. ASSUME NEW u \in Units, NEW x \in Residents \cup {None}, UpdateUnit(u, x)
      PROVE  OccupancyTypeOK'
  BY <1>7 DEF UpdateUnit, OccupancyTypeOK
<1>8. ASSUME UNCHANGED occupancyVars PROVE OccupancyTypeOK'
  BY <1>8 DEF occupancyVars, OccupancyTypeOK
<1>9. ASSUME NEW r \in Requests,
             \/ \E f \in Floors : AddFloor(r, f)
             \/ \E u \in Units, x \in Residents \cup {None} : AddUnit(r, u, x)
             \/ \E u \in Units : RemoveUnit(r, u)
      PROVE  OccupancyTypeOK'
  <2>1. current \in [Units -> Residents \cup {None}]
    BY DEF OccupancyTypeOK
  <2> QED BY <1>1, <1>9, <2>1 DEF AddFloor, AddUnit, RemoveUnit, Rows
<1> QED BY <1>2, <1>3, <1>4, <1>5, <1>6, <1>7, <1>8, <1>9
       DEF OccupancyNext, Rows, People

(***************************************************************************)
(* Every reachable state of the handlers of units, residents and leases is *)
(* well typed; in particular a handler at an await knows the row its next  *)
(* statement names.                                                        *)
(***************************************************************************)
THEOREM TypeCorrect == OccupancySpec => []OccupancyTypeOK
<1> QED BY InitType, StepType, PTL DEF OccupancySpec

-----------------------------------------------------------------------------
(* Counts *)

\* A count that is still fresh is the number of rows there are now.
FreshIsExact ==
  \A r \in Requests :
    pc[r] = "write" /\ job[r].fresh => job[r].count = Cardinality(Live(TableOf(job[r].row)))

CountsInv == OccupancyTypeOK /\ CountsHold /\ FreshIsExact

LEMMA InitCounts == OccupancyInit => CountsHold /\ FreshIsExact
<1> SUFFICES ASSUME OccupancyInit PROVE CountsHold /\ FreshIsExact
  OBVIOUS
<1>1. ASSUME NEW t \in Tables PROVE stored[t] = Cardinality(Live(t))
  BY DEF OccupancyInit
<1> QED BY <1>1 DEF CountsHold, FreshIsExact, OccupancyInit

\* Steps that change neither rows nor jobs nor who is counting.
LEMMA CountsUntouched ==
  ASSUME CountsInv, UNCHANGED <<row, stored>>, stale \subseteq stale',
         \A r \in Requests :
           pc[r] \in {"count", "write"} => pc'[r] = pc[r] /\ job'[r] = job[r],
         \A r \in Requests : pc'[r] = "write" => pc[r] = "write"
  PROVE  CountsHold' /\ FreshIsExact'
<1>1. \A t : Live(t)' = Live(t)
  BY DEF Live
<1>2. CountsHold'
  <2> SUFFICES ASSUME NEW t \in Tables, t \notin stale'
               PROVE  \/ stored'[t] = Cardinality(Live(t)')
                      \/ \E r \in Requests : pc'[r] \in {"count", "write"} /\ TableOf(job'[r].row) = t
    BY DEF CountsHold, TableOf
  <2>1. CASE stored[t] = Cardinality(Live(t))
    BY <2>1, <1>1
  <2>2. CASE \E r \in Requests : pc[r] \in {"count", "write"} /\ TableOf(job[r].row) = t
    BY <2>2
  <2> QED BY <2>1, <2>2 DEF CountsInv, CountsHold
<1>3. FreshIsExact'
  <2> SUFFICES ASSUME NEW r \in Requests, pc'[r] = "write", job'[r].fresh
               PROVE  job'[r].count = Cardinality(Live(TableOf(job[r].row))')
    BY DEF FreshIsExact
  <2> QED BY <1>1 DEF CountsInv, FreshIsExact
<1> QED BY <1>2, <1>3

LEMMA ChangeCounts ==
  ASSUME CountsInv, NEW r \in Requests, NEW x \in Rows, NEW s, Change(r, x, s)
  PROVE  CountsHold' /\ FreshIsExact'
<1>1. /\ pc[r] = "idle" /\ pc' = [pc EXCEPT ![r] = "count"] /\ row' = [row EXCEPT ![x] = s]
      /\ UNCHANGED <<stored, stale>>
  BY DEF Change
<1>2. pc'[r] = "count" /\ \A o \in Requests \ {r} : pc'[o] = pc[o]
  BY <1>1 DEF CountsInv, OccupancyTypeOK
<1>3. job'[r].row = x
  <2>1. job'[r] = [NoJob EXCEPT !.row = x]
    BY DEF Change
  <2> QED BY <2>1 DEF NoJob
<1>4. ASSUME NEW o \in Requests \ {r}
      PROVE  /\ job'[o].row = job[o].row /\ job'[o].count = job[o].count
             /\ pc[o] = "write" /\ job'[o].fresh => job[o].fresh /\ TableOf(job[o].row) # TableOf(x)
  <2>1. job[o] \in [row : Rows \cup {None}, resident : Residents \cup {None},
                    count : Nat, fresh : BOOLEAN]
    BY DEF CountsInv, OccupancyTypeOK
  <2>2. job'[o] = IF pc[o] = "write" /\ TableOf(job[o].row) = TableOf(x)
                    THEN [job[o] EXCEPT !.fresh = FALSE] ELSE job[o]
    BY DEF Change
  <2>3. CASE pc[o] = "write" /\ TableOf(job[o].row) = TableOf(x)
    <3>1. job'[o] = [job[o] EXCEPT !.fresh = FALSE]
      BY <2>2, <2>3
    <3> QED BY <3>1, <2>1
  <2>4. CASE ~(pc[o] = "write" /\ TableOf(job[o].row) = TableOf(x))
    BY <2>2, <2>4
  <2> QED BY <2>3, <2>4
<1>5. ASSUME NEW t, t # TableOf(x) PROVE Live(t)' = Live(t)
  <2>1. ASSUME NEW y \in Rows, TableOf(y) = t PROVE row'[y] = row[y]
    <3>1. y # x
      BY <1>5, <2>1
    <3> QED BY <1>1, <3>1 DEF CountsInv, OccupancyTypeOK
  <2> QED BY <2>1 DEF Live
<1>6. CountsHold'
  <2> SUFFICES ASSUME NEW t \in Tables, t \notin stale'
               PROVE  \/ stored'[t] = Cardinality(Live(t)')
                      \/ \E q \in Requests : pc'[q] \in {"count", "write"} /\ TableOf(job'[q].row) = t
    BY DEF CountsHold, TableOf
  <2>1. CASE t = TableOf(x)
    BY <1>2, <1>3, <2>1
  <2>2. CASE t # TableOf(x) /\ stored[t] = Cardinality(Live(t))
    BY <1>1, <1>5, <2>2
  <2>3. CASE \E q \in Requests : pc[q] \in {"count", "write"} /\ TableOf(job[q].row) = t
    <3>1. PICK q \in Requests : pc[q] \in {"count", "write"} /\ TableOf(job[q].row) = t
      BY <2>3
    <3>2. q # r
      BY <1>1, <3>1
    <3> QED BY <1>2, <1>4, <3>1, <3>2
  <2> QED BY <1>1, <2>1, <2>2, <2>3 DEF CountsInv, CountsHold
<1>7. FreshIsExact'
  <2> SUFFICES ASSUME NEW o \in Requests, pc'[o] = "write", job'[o].fresh
               PROVE  job'[o].count = Cardinality(Live(TableOf(job[o].row))')
    BY DEF FreshIsExact
  <2>1. o # r /\ pc[o] = "write"
    BY <1>2
  <2>2. /\ job'[o].row = job[o].row /\ job'[o].count = job[o].count
        /\ job[o].fresh /\ TableOf(job[o].row) # TableOf(x)
    BY <1>4, <2>1
  <2>3. Live(TableOf(job[o].row))' = Live(TableOf(job[o].row))
    <3> DEFINE t == TableOf(job[o].row)
    <3>1. TableOf(job'[o].row) = t
      BY <2>2
    <3>2. t # TableOf(x)
      BY <2>2
    <3>3. \A y \in Rows : TableOf(y) = t => row'[y] = row[y]
      <4>1. ASSUME NEW y \in Rows, TableOf(y) = t PROVE row'[y] = row[y]
        <5>1. y # x
          BY <3>2, <4>1
        <5> QED BY <1>1, <5>1 DEF CountsInv, OccupancyTypeOK
      <4> QED BY <4>1
    <3> QED BY <3>1, <3>3 DEF Live
  <2> QED BY <2>1, <2>2, <2>3 DEF CountsInv, FreshIsExact
<1> QED BY <1>6, <1>7

LEMMA CountRowsCounts ==
  ASSUME CountsInv, NEW r \in Requests, CountRows(r)
  PROVE  CountsHold' /\ FreshIsExact'
<1> DEFINE n == Cardinality(Live(TableOf(job[r].row)))
<1>1. /\ pc[r] = "count" /\ pc' = [pc EXCEPT ![r] = "write"]
      /\ job' = [job EXCEPT ![r].count = n, ![r].fresh = TRUE]
      /\ UNCHANGED <<row, stored, stale>>
  BY DEF CountRows
<1>2. job'[r].row = job[r].row /\ job'[r].count = n
  <2> HIDE DEF n
  <2>1. job \in [Requests -> [row : Rows \cup {None}, resident : Residents \cup {None},
                             count : Nat, fresh : BOOLEAN]]
    BY DEF CountsInv, OccupancyTypeOK
  <2> QED BY <1>1, <2>1
<1>3. \A o \in Requests \ {r} : job'[o] = job[o] /\ pc'[o] = pc[o]
  <2> HIDE DEF n
  <2> QED BY <1>1 DEF CountsInv, OccupancyTypeOK
<1>4. \A t : Live(t)' = Live(t)
  BY <1>1 DEF Live
<1>5. pc'[r] = "write"
  BY <1>1 DEF CountsInv, OccupancyTypeOK
<1>6. CountsHold'
  <2> SUFFICES ASSUME NEW t \in Tables, t \notin stale'
               PROVE  \/ stored'[t] = Cardinality(Live(t)')
                      \/ \E q \in Requests : pc'[q] \in {"count", "write"} /\ TableOf(job'[q].row) = t
    BY DEF CountsHold, TableOf
  <2>1. CASE stored[t] = Cardinality(Live(t))
    BY <2>1, <1>1, <1>4
  <2>2. CASE \E q \in Requests : pc[q] \in {"count", "write"} /\ TableOf(job[q].row) = t
    BY <2>2, <1>2, <1>3, <1>5
  <2> QED BY <1>1, <2>1, <2>2 DEF CountsInv, CountsHold
<1>7. FreshIsExact'
  <2> SUFFICES ASSUME NEW o \in Requests, pc'[o] = "write", job'[o].fresh
               PROVE  job'[o].count = Cardinality(Live(TableOf(job[o].row))')
    BY DEF FreshIsExact
  <2>1. CASE o = r
    <3>1. Live(TableOf(job[r].row))' = Live(TableOf(job[r].row))
      BY <1>1, <1>2 DEF Live
    <3> QED BY <2>1, <3>1, <1>2
  <2>2. CASE o # r
    <3>1. Live(TableOf(job[o].row))' = Live(TableOf(job[o].row))
      BY <1>1, <1>3, <2>2 DEF Live
    <3> QED BY <2>2, <3>1, <1>3 DEF CountsInv, FreshIsExact
  <2> QED BY <2>1, <2>2
<1> QED BY <1>6, <1>7

\* A request that ends leaves a count that is exact or known to be stale.
LEMMA EndCounts ==
  ASSUME CountsInv, NEW r \in Requests, WriteCount(r) \/ Fail(r), pc[r] # "occupy"
  PROVE  CountsHold' /\ FreshIsExact'
<1> DEFINE u == TableOf(job[r].row)
<1>1. UNCHANGED <<row, job>> /\ \A t : Live(t)' = Live(t)
  BY DEF WriteCount, Fail, Live
<1>2. /\ pc'[r] \in {"done", "failed"}
      /\ \A o \in Requests \ {r} : pc'[o] = pc[o]
  BY DEF WriteCount, Fail, CountsInv, OccupancyTypeOK
<1>3. u \notin stale' => /\ pc[r] = "write" /\ job[r].fresh
                         /\ stored' = [stored EXCEPT ![u] = job[r].count]
  BY DEF WriteCount, Fail
<1>4. /\ \A t \in Tables \ {u} : stored'[t] = stored[t]
      /\ \A t \in Tables \ {u} : t \notin stale' => t \notin stale
  BY DEF WriteCount, Fail, CountsInv, OccupancyTypeOK
<1>5. CountsHold'
  <2> SUFFICES ASSUME NEW t \in Tables, t \notin stale'
               PROVE  \/ stored'[t] = Cardinality(Live(t)')
                      \/ \E q \in Requests : pc'[q] \in {"count", "write"} /\ TableOf(job'[q].row) = t
    BY DEF CountsHold, TableOf
  <2>1. CASE t = u
    <3>1. stored'[t] = job[r].count
      BY <1>3, <2>1 DEF CountsInv, OccupancyTypeOK
    <3>2. job[r].count = Cardinality(Live(t))
      BY <1>3, <2>1 DEF CountsInv, FreshIsExact
    <3> QED BY <1>1, <3>1, <3>2
  <2>2. CASE t # u
    <3>1. t \notin stale /\ stored'[t] = stored[t]
      BY <1>4, <2>2
    <3>2. CASE stored[t] = Cardinality(Live(t))
      BY <1>1, <3>1, <3>2
    <3>3. CASE \E q \in Requests : pc[q] \in {"count", "write"} /\ TableOf(job[q].row) = t
      BY <1>1, <1>2, <2>2, <3>3
    <3> QED BY <3>1, <3>2, <3>3 DEF CountsInv, CountsHold
  <2> QED BY <2>1, <2>2
<1>6. FreshIsExact'
  <2> SUFFICES ASSUME NEW o \in Requests, pc'[o] = "write", job'[o].fresh
               PROVE  job'[o].count = Cardinality(Live(TableOf(job[o].row))')
    BY DEF FreshIsExact
  <2>1. pc[o] = "write" /\ job[o].fresh /\ job'[o] = job[o]
    BY <1>1, <1>2
  <2>2. Live(TableOf(job[o].row))' = Live(TableOf(job[o].row))
    BY <1>1 DEF Live
  <2> QED BY <2>1, <2>2 DEF CountsInv, FreshIsExact
<1> QED BY <1>5, <1>6

LEMMA StepCounts == CountsInv /\ [OccupancyNext]_occupancyVars => CountsHold' /\ FreshIsExact'
<1> SUFFICES ASSUME CountsInv, [OccupancyNext]_occupancyVars PROVE CountsHold' /\ FreshIsExact'
  OBVIOUS
<1>1. ASSUME NEW r \in Requests, NEW x \in Rows, NEW s, Change(r, x, s)
      PROVE  CountsHold' /\ FreshIsExact'
  BY <1>1, ChangeCounts
<1>2. ASSUME NEW r \in Requests, CountRows(r) PROVE CountsHold' /\ FreshIsExact'
  BY <1>2, CountRowsCounts
<1>3. ASSUME NEW r \in Requests, WriteCount(r) PROVE CountsHold' /\ FreshIsExact'
  <2>1. pc[r] # "occupy"
    BY <1>3 DEF WriteCount
  <2> QED BY <1>3, <2>1, EndCounts
<1>4. ASSUME NEW r \in Requests, NEW u \in Units, NEW x \in Residents, InsertLease(r, u, x)
      PROVE  CountsHold' /\ FreshIsExact'
  <2>0. job \in [Requests -> JobType]
    BY DEF CountsInv, OccupancyTypeOK, JobType
  <2>1. /\ pc[r] = "idle" /\ pc' = [pc EXCEPT ![r] = "occupy"]
        /\ \A o \in Requests \ {r} : pc[o] # "occupy" => job'[o] = job[o]
        /\ UNCHANGED <<row, stored, stale>>
    BY <1>4, <2>0, InsertedJob DEF InsertLease, Leasing
  <2>2. /\ \A o \in Requests : pc[o] \in {"count", "write"} => pc'[o] = pc[o] /\ job'[o] = job[o]
        /\ \A o \in Requests : pc'[o] = "write" => pc[o] = "write"
    BY <2>1 DEF CountsInv, OccupancyTypeOK
  <2> QED BY <2>1, <2>2, CountsUntouched
<1>5. ASSUME NEW r \in Requests, NEW l \in {"done", "failed"}, pc[r] = "occupy",
             pc' = [pc EXCEPT ![r] = l], UNCHANGED <<job, row, stored, stale>>
      PROVE  CountsHold' /\ FreshIsExact'
  <2>1. /\ \A o \in Requests : pc[o] \in {"count", "write"} => pc'[o] = pc[o] /\ job'[o] = job[o]
        /\ \A o \in Requests : pc'[o] = "write" => pc[o] = "write"
    BY <1>5 DEF CountsInv, OccupancyTypeOK
  <2>2. UNCHANGED <<row, stored>> /\ stale \subseteq stale'
    BY <1>5
  <2> QED BY <2>1, <2>2, CountsUntouched
<1>6. ASSUME UNCHANGED <<pc, job, row, stored, stale>> PROVE CountsHold' /\ FreshIsExact'
  <2>1. /\ \A o \in Requests : pc[o] \in {"count", "write"} => pc'[o] = pc[o] /\ job'[o] = job[o]
        /\ \A o \in Requests : pc'[o] = "write" => pc[o] = "write"
    BY <1>6
  <2>2. UNCHANGED <<row, stored>> /\ stale \subseteq stale'
    BY <1>6
  <2> QED BY <2>1, <2>2, CountsUntouched
<1>7. CASE \/ \E p \in People : CreatePerson(p)
           \/ \E x \in Residents : RemoveResident(x)
           \/ \E u \in Units, x \in Residents \cup {None} : UpdateUnit(u, x)
           \/ UNCHANGED occupancyVars
  <2>1. UNCHANGED <<pc, job, row, stored, stale>>
    BY <1>7 DEF CreatePerson, RemoveResident, UpdateUnit, occupancyVars
  <2> QED BY <1>6, <2>1
<1>8. ASSUME NEW r \in Requests,
             \/ \E f \in Floors : AddFloor(r, f)
             \/ \E u \in Units, x \in Residents \cup {None} : AddUnit(r, u, x)
             \/ \E u \in Units : RemoveUnit(r, u)
             \/ CountRows(r) \/ WriteCount(r)
             \/ \E u \in Units, x \in Residents : InsertLease(r, u, x)
             \/ Occupy(r) \/ Fail(r)
      PROVE  CountsHold' /\ FreshIsExact'
  <2>1. CASE \/ \E f \in Floors : AddFloor(r, f)
             \/ \E u \in Units, x \in Residents \cup {None} : AddUnit(r, u, x)
    BY <2>1, <1>1 DEF AddFloor, AddUnit, Rows
  <2>2. CASE \E u \in Units : RemoveUnit(r, u)
    BY <2>2, <1>1 DEF RemoveUnit, Rows
  <2>3. CASE \E u \in Units, x \in Residents : InsertLease(r, u, x)
    BY <2>3, <1>4
  <2>4. CASE CountRows(r)
    BY <2>4, <1>2
  <2>5. CASE WriteCount(r)
    BY <2>5, <1>3
  <2>6. CASE Occupy(r)
    BY <2>6, <1>5 DEF Occupy
  <2>7. CASE Fail(r)
    <3>1. CASE pc[r] = "occupy"
      BY <2>7, <3>1, <1>5 DEF Fail
    <3>2. CASE pc[r] # "occupy"
      BY <2>7, <3>2, EndCounts
    <3> QED BY <3>1, <3>2
  <2> QED BY <1>8, <2>1, <2>2, <2>3, <2>4, <2>5, <2>6, <2>7
<1> QED BY <1>7, <1>8 DEF OccupancyNext

(***************************************************************************)
(* For any number of requests, units and floors: unless its last count was *)
(* overtaken or never written, the building stores the number of its units *)
(* and floors whenever no request is between the change and its recount    *)
(* (recountUnits and recountFloors of BuildingsService).                   *)
(***************************************************************************)
THEOREM CountsAreExact == OccupancySpec => []CountsHold
<1>1. OccupancyInit => CountsInv
  BY InitType, InitCounts DEF CountsInv
<1>2. CountsInv /\ [OccupancyNext]_occupancyVars => CountsInv'
  BY StepType, StepCounts DEF CountsInv
<1>3. CountsInv => CountsHold
  BY DEF CountsInv
<1> QED BY <1>1, <1>2, <1>3, PTL DEF OccupancySpec

-----------------------------------------------------------------------------
(* The resident of a unit *)

\* i is the newest lease of u.
Newest(i, u) ==
  /\ i \in DOMAIN leases /\ leases[i].unit = u
  /\ \A j \in DOMAIN leases : leases[j].unit = u => j <= i

\* Every lease belongs to a request that has inserted it and to a unit there
\* is; one about to set its resident is in the list, and while it is fresh it
\* is the newest of its unit.
LeasesFit ==
  /\ \A i \in DOMAIN leases :
       /\ row[leases[i].unit] # "unborn"
       /\ pc[leases[i].by] \in {"occupy", "done", "failed"}
       /\ pc[leases[i].by] = "occupy" => job[leases[i].by].row = leases[i].unit
  /\ \A r \in Requests : pc[r] = "occupy" =>
       \E i \in DOMAIN leases :
         /\ leases[i] = [unit |-> job[r].row, resident |-> job[r].resident, by |-> r]
         /\ job[r].fresh => Newest(i, job[r].row)

LeasesInv == OccupancyTypeOK /\ NewestLeaseHolds /\ LeasesFit

LEMMA InitLeases == OccupancyInit => NewestLeaseHolds /\ LeasesFit
BY DEF OccupancyInit, NewestLeaseHolds, LeasesFit

\* Steps that leave the leases alone, those that are through, and the resident
\* of every unit with a lease that is not entangled after the step.
LEMMA LeasesUntouched ==
  ASSUME LeasesInv, UNCHANGED leases, entangled \subseteq entangled',
         \A u \in Units \ entangled' : row[u] # "unborn" => current'[u] = current[u],
         \A r \in Requests : pc'[r] = "done" => pc[r] \in {"done", "count", "write"},
         \A r \in Requests : pc[r] = "done" => pc'[r] = "done",
         \A r \in Requests : pc[r] = "occupy" => pc'[r] \in {"occupy", "failed"},
         \A r \in Requests : pc[r] = "failed" => pc'[r] = "failed",
         \A r \in Requests : pc'[r] = "occupy" => pc[r] = "occupy" /\ job'[r] = job[r],
         \A x \in Rows : row[x] # "unborn" => row'[x] # "unborn"
  PROVE  NewestLeaseHolds' /\ LeasesFit'
<1>1. leases \in Seq(LeaseType)
  BY DEF LeasesInv, OccupancyTypeOK, LeaseType
<1>2. ASSUME NEW i \in DOMAIN leases
      PROVE  /\ leases[i].unit \in Units /\ leases[i].by \in Requests
             /\ row[leases[i].unit] # "unborn"
             /\ pc[leases[i].by] \in {"occupy", "done", "failed"}
             /\ pc[leases[i].by] = "occupy" => job[leases[i].by].row = leases[i].unit
  BY <1>1, LeaseOfUnit DEF LeasesInv, LeasesFit
<1>3. \A i \in DOMAIN leases : Finished(i)' <=> Finished(i)
  BY <1>2 DEF Finished
<1>4. NewestLeaseHolds'
  <2> SUFFICES ASSUME NEW i \in DOMAIN leases, Finished(i)', leases[i].unit \notin entangled',
                      \A j \in DOMAIN leases : leases[j].unit = leases[i].unit /\ Finished(j)' => j <= i
               PROVE  current'[leases[i].unit] = leases[i].resident
    BY DEF NewestLeaseHolds
  <2>1. current[leases[i].unit] = leases[i].resident
    BY <1>3 DEF LeasesInv, NewestLeaseHolds
  <2> QED BY <1>2, <2>1
<1>5. ASSUME NEW i \in DOMAIN leases
      PROVE  /\ row'[leases[i].unit] # "unborn"
             /\ pc'[leases[i].by] \in {"occupy", "done", "failed"}
             /\ pc'[leases[i].by] = "occupy" => job'[leases[i].by].row = leases[i].unit
  BY <1>2 DEF Rows
<1>6. ASSUME NEW r \in Requests, pc'[r] = "occupy"
      PROVE  \E i \in DOMAIN leases :
               /\ leases[i] = [unit |-> job'[r].row, resident |-> job'[r].resident, by |-> r]
               /\ job'[r].fresh => Newest(i, job[r].row)'
  <2>1. pc[r] = "occupy" /\ job'[r] = job[r]
    BY <1>6
  <2>2. PICK i \in DOMAIN leases :
          /\ leases[i] = [unit |-> job[r].row, resident |-> job[r].resident, by |-> r]
          /\ job[r].fresh => Newest(i, job[r].row)
    BY <2>1 DEF LeasesInv, LeasesFit
  <2> QED BY <2>1, <2>2 DEF Newest
<1> QED BY <1>4, <1>5, <1>6 DEF LeasesFit

\* A lease inserted last is the newest of its unit, and of the other units
\* the newest stays what it was.
LEMMA AppendNewest ==
  ASSUME OccupancyTypeOK, NEW u \in Units, NEW x \in Residents, NEW r \in Requests,
         NEW n, n = Len(leases) + 1,
         leases' = Append(leases, [unit |-> u, resident |-> x, by |-> r])
  PROVE  /\ DOMAIN leases' = DOMAIN leases \cup {n} /\ n \notin DOMAIN leases
         /\ leases'[n] = [unit |-> u, resident |-> x, by |-> r]
         /\ \A i \in DOMAIN leases : leases'[i] = leases[i] /\ i <= n
         /\ n <= n
BY DEF OccupancyTypeOK

LEMMA InsertLeases ==
  ASSUME LeasesInv, NEW r \in Requests, NEW u \in Units, NEW x \in Residents, InsertLease(r, u, x)
  PROVE  NewestLeaseHolds' /\ LeasesFit'
<1>1. /\ pc[r] = "idle" /\ row[u] # "unborn" /\ pc' = [pc EXCEPT ![r] = "occupy"]
      /\ leases' = Append(leases, [unit |-> u, resident |-> x, by |-> r])
      /\ UNCHANGED <<row, current, entangled>>
  BY DEF InsertLease
<1>2. pc'[r] = "occupy" /\ \A o \in Requests \ {r} : pc'[o] = pc[o]
  BY <1>1 DEF LeasesInv, OccupancyTypeOK
<1>3. job \in [Requests -> JobType]
  BY DEF LeasesInv, OccupancyTypeOK, JobType
<1>4. /\ job'[r].row = u /\ job'[r].resident = x
      /\ \A o \in Requests \ {r} :
           /\ job'[o].row = job[o].row /\ job'[o].resident = job[o].resident
           /\ job'[o].fresh => job[o].fresh /\ ~Leasing(o, u)
  BY <1>3, InsertedJob
<1>5. PICK n : n = Len(leases) + 1
  OBVIOUS
<1>6. /\ DOMAIN leases' = DOMAIN leases \cup {n} /\ n \notin DOMAIN leases
      /\ leases'[n] = [unit |-> u, resident |-> x, by |-> r]
      /\ \A i \in DOMAIN leases : leases'[i] = leases[i] /\ i <= n
      /\ n <= n
  BY <1>1, <1>5, AppendNewest DEF LeasesInv
<1>7. ASSUME NEW i \in DOMAIN leases
      PROVE  /\ leases[i].unit \in Units /\ leases[i].by \in Requests /\ leases[i].by # r
             /\ row[leases[i].unit] # "unborn"
             /\ pc[leases[i].by] \in {"occupy", "done", "failed"}
             /\ pc[leases[i].by] = "occupy" => job[leases[i].by].row = leases[i].unit
  <2>1. leases \in Seq(LeaseType)
    BY DEF LeasesInv, OccupancyTypeOK, LeaseType
  <2> QED BY <1>1, <2>1, LeaseOfUnit DEF LeasesInv, LeasesFit
<1>8. /\ ~Finished(n)'
      /\ \A i \in DOMAIN leases : Finished(i)' <=> Finished(i)
  BY <1>2, <1>6, <1>7 DEF Finished
<1>9. NewestLeaseHolds'
  <2> SUFFICES ASSUME NEW i \in DOMAIN leases', Finished(i)', leases'[i].unit \notin entangled,
                      \A j \in DOMAIN leases' :
                        leases'[j].unit = leases'[i].unit /\ Finished(j)' => j <= i
               PROVE  current[leases'[i].unit] = leases'[i].resident
    BY <1>1 DEF NewestLeaseHolds
  <2>1. i \in DOMAIN leases
    BY <1>6, <1>8
  <2> QED BY <1>6, <1>8, <2>1 DEF LeasesInv, NewestLeaseHolds
<1>10. ASSUME NEW i \in DOMAIN leases'
       PROVE  /\ row'[leases'[i].unit] # "unborn"
              /\ pc'[leases'[i].by] \in {"occupy", "done", "failed"}
              /\ pc'[leases'[i].by] = "occupy" => job'[leases'[i].by].row = leases'[i].unit
  <2>1. CASE i = n
    BY <1>1, <1>2, <1>4, <1>6, <2>1
  <2>2. CASE i \in DOMAIN leases
    BY <1>1, <1>2, <1>4, <1>6, <1>7, <2>2
  <2> QED BY <1>6, <2>1, <2>2
<1>11. ASSUME NEW q \in Requests, pc'[q] = "occupy"
       PROVE  \E i \in DOMAIN leases' :
                /\ leases'[i] = [unit |-> job'[q].row, resident |-> job'[q].resident, by |-> q]
                /\ job'[q].fresh => Newest(i, job[q].row)'
  <2>1. CASE q = r
    <3>1. Newest(n, job[r].row)'
      BY <1>4, <1>6 DEF Newest
    <3> QED BY <1>4, <1>6, <2>1, <3>1
  <2>2. CASE q # r
    <3>1. pc[q] = "occupy"
      BY <1>2, <1>11, <2>2
    <3>2. PICK i \in DOMAIN leases :
            /\ leases[i] = [unit |-> job[q].row, resident |-> job[q].resident, by |-> q]
            /\ job[q].fresh => Newest(i, job[q].row)
      BY <3>1 DEF LeasesInv, LeasesFit
    <3>3. ASSUME job'[q].fresh PROVE Newest(i, job[q].row)'
      <4>1. job[q].fresh /\ job[q].row # u /\ job'[q].row = job[q].row
        BY <1>4, <2>2, <3>1, <3>3 DEF Leasing
      <4>2. Newest(i, job[q].row)
        BY <3>2, <4>1
      <4> QED BY <1>6, <4>1, <4>2 DEF Newest
    <3>4. leases'[i] = [unit |-> job'[q].row, resident |-> job'[q].resident, by |-> q]
      BY <1>4, <1>6, <2>2, <3>2
    <3> QED BY <1>6, <3>3, <3>4
  <2> QED BY <2>1, <2>2
<1> QED BY <1>9, <1>10, <1>11 DEF LeasesFit

LEMMA OccupyLeases ==
  ASSUME LeasesInv, NEW r \in Requests, Occupy(r)
  PROVE  NewestLeaseHolds' /\ LeasesFit'
<1>0. PICK u : u = job[r].row
  OBVIOUS
<1>1. /\ pc[r] = "occupy" /\ pc' = [pc EXCEPT ![r] = "done"]
      /\ current' = [current EXCEPT ![u] = job[r].resident]
      /\ entangled' = IF job[r].fresh THEN entangled \ {u} ELSE entangled \cup {u}
      /\ UNCHANGED <<job, row, leases>>
  BY <1>0 DEF Occupy
<1>2. /\ u \in Units /\ current'[u] = job[r].resident
      /\ \A v \in Units \ {u} : current'[v] = current[v]
      /\ pc'[r] = "done" /\ \A o \in Requests \ {r} : pc'[o] = pc[o]
  BY <1>0, <1>1 DEF LeasesInv, OccupancyTypeOK
<1>3. ASSUME NEW i \in DOMAIN leases
      PROVE  /\ leases[i].unit \in Units /\ leases[i].by \in Requests
             /\ row[leases[i].unit] # "unborn"
             /\ pc[leases[i].by] \in {"occupy", "done", "failed"}
             /\ pc[leases[i].by] = "occupy" => job[leases[i].by].row = leases[i].unit
  <2>1. leases \in Seq(LeaseType)
    BY DEF LeasesInv, OccupancyTypeOK, LeaseType
  <2> QED BY <2>1, LeaseOfUnit DEF LeasesInv, LeasesFit
<1>4. PICK n \in DOMAIN leases :
        /\ leases[n] = [unit |-> u, resident |-> job[r].resident, by |-> r]
        /\ job[r].fresh => Newest(n, u)
  BY <1>0, <1>1 DEF LeasesInv, LeasesFit
<1>5. /\ Finished(n)'
      /\ \A i \in DOMAIN leases : leases[i].unit # u => (Finished(i)' <=> Finished(i))
  <2>1. Finished(n)'
    BY <1>1, <1>2, <1>4 DEF Finished
  <2>2. ASSUME NEW i \in DOMAIN leases, leases[i].unit # u PROVE Finished(i)' <=> Finished(i)
    <3>1. leases[i].by # r
      BY <1>0, <1>1, <1>3, <2>2
    <3> QED BY <1>1, <1>2, <1>3, <3>1 DEF Finished
  <2> QED BY <2>1, <2>2
<1>6. NewestLeaseHolds'
  <2> SUFFICES ASSUME NEW i \in DOMAIN leases, Finished(i)', leases[i].unit \notin entangled',
                      \A j \in DOMAIN leases : leases[j].unit = leases[i].unit /\ Finished(j)' => j <= i
               PROVE  current'[leases[i].unit] = leases[i].resident
    BY <1>1 DEF NewestLeaseHolds
  <2>1. CASE leases[i].unit = u
    <3>1. Newest(n, u)
      BY <1>1, <1>4, <2>1
    <3>2. i <= n /\ n <= i
      BY <1>4, <1>5, <2>1, <3>1 DEF Newest
    <3>3. i \in Nat /\ n \in Nat
      <4>1. leases \in Seq(LeaseType)
        BY DEF LeasesInv, OccupancyTypeOK, LeaseType
      <4> QED BY <4>1
    <3>4. i = n
      BY <3>2, <3>3
    <3> QED BY <1>2, <1>4, <3>4
  <2>2. CASE leases[i].unit # u
    <3>1. leases[i].unit \notin entangled
      BY <1>1, <2>2
    <3>2. Finished(i) /\ \A j \in DOMAIN leases : leases[j].unit = leases[i].unit /\ Finished(j) => j <= i
      BY <1>5, <2>2
    <3>3. current[leases[i].unit] = leases[i].resident
      BY <3>1, <3>2 DEF LeasesInv, NewestLeaseHolds
    <3> QED BY <1>2, <1>3, <2>2, <3>3
  <2> QED BY <2>1, <2>2
<1>7. ASSUME NEW i \in DOMAIN leases
      PROVE  /\ row'[leases[i].unit] # "unborn"
             /\ pc'[leases[i].by] \in {"occupy", "done", "failed"}
             /\ pc'[leases[i].by] = "occupy" => job'[leases[i].by].row = leases[i].unit
  BY <1>1, <1>2, <1>3
<1>8. ASSUME NEW q \in Requests, pc'[q] = "occupy"
      PROVE  \E i \in DOMAIN leases :
               /\ leases[i] = [unit |-> job[q].row, resident |-> job[q].resident, by |-> q]
               /\ job[q].fresh => Newest(i, job[q].row)
  BY <1>2, <1>8 DEF LeasesInv, LeasesFit
<1>9. LeasesFit'
  <2>1. ASSUME NEW q \in Requests, pc'[q] = "occupy"
        PROVE  \E i \in DOMAIN leases' :
                 /\ leases'[i] = [unit |-> job'[q].row, resident |-> job'[q].resident, by |-> q]
                 /\ job'[q].fresh => Newest(i, job[q].row)'
    <3>1. PICK i \in DOMAIN leases :
            /\ leases[i] = [unit |-> job[q].row, resident |-> job[q].resident, by |-> q]
            /\ job[q].fresh => Newest(i, job[q].row)
      BY <1>8, <2>1
    <3> QED BY <1>1, <3>1 DEF Newest
  <2> QED BY <1>1, <1>7, <2>1 DEF LeasesFit
<1> QED BY <1>6, <1>9

LEMMA StepLeases ==
  LeasesInv /\ [OccupancyNext]_occupancyVars => NewestLeaseHolds' /\ LeasesFit'
<1> SUFFICES ASSUME LeasesInv, [OccupancyNext]_occupancyVars
             PROVE  NewestLeaseHolds' /\ LeasesFit'
  OBVIOUS
<1>1. ASSUME NEW r \in Requests, NEW x \in Rows, NEW s \in {"live", "removed"}, Change(r, x, s),
             \A u \in Units : row[u] # "unborn" => current'[u] = current[u]
      PROVE  NewestLeaseHolds' /\ LeasesFit'
  <2>1. /\ pc[r] = "idle" /\ pc' = [pc EXCEPT ![r] = "count"]
        /\ \A o \in Requests \ {r} : pc[o] # "write" => job'[o] = job[o]
        /\ row' = [row EXCEPT ![x] = s] /\ UNCHANGED <<leases, entangled>>
    BY <1>1 DEF Change
  <2>2. /\ pc'[r] = "count" /\ \A o \in Requests \ {r} : pc'[o] = pc[o]
        /\ \A y \in Rows : row[y] # "unborn" => row'[y] # "unborn"
    BY <2>1 DEF LeasesInv, OccupancyTypeOK
  <2> QED BY <1>1, <2>1, <2>2, LeasesUntouched
<1>2. ASSUME NEW r \in Requests, CountRows(r) \/ WriteCount(r)
      PROVE  NewestLeaseHolds' /\ LeasesFit'
  <2>1. /\ pc[r] \in {"count", "write"}
        /\ \E l \in {"write", "done"} : pc' = [pc EXCEPT ![r] = l]
        /\ UNCHANGED <<row, current, leases, entangled>>
    BY <1>2 DEF CountRows, WriteCount
  <2>2. \A o \in Requests \ {r} : job'[o] = job[o]
    BY <1>2 DEF CountRows, WriteCount, LeasesInv, OccupancyTypeOK
  <2>3. pc'[r] \in {"write", "done"} /\ \A o \in Requests \ {r} : pc'[o] = pc[o]
    BY <2>1 DEF LeasesInv, OccupancyTypeOK
  <2> QED BY <2>1, <2>2, <2>3, LeasesUntouched
<1>3. ASSUME NEW r \in Requests, Fail(r) PROVE NewestLeaseHolds' /\ LeasesFit'
  <2>1. /\ pc[r] \notin Resting /\ pc' = [pc EXCEPT ![r] = "failed"]
        /\ UNCHANGED <<job, row, current, leases, entangled>>
    BY <1>3 DEF Fail
  <2>2. pc'[r] = "failed" /\ \A o \in Requests \ {r} : pc'[o] = pc[o]
    BY <2>1 DEF LeasesInv, OccupancyTypeOK
  <2> QED BY <2>1, <2>2, LeasesUntouched DEF Resting
<1>4. ASSUME NEW u \in Units, NEW x \in Residents \cup {None}, UpdateUnit(u, x)
      PROVE  NewestLeaseHolds' /\ LeasesFit'
  <2>1. /\ entangled' = entangled \cup {u} /\ UNCHANGED <<pc, job, row, leases>>
        /\ \A v \in Units \ {u} : current'[v] = current[v]
    BY <1>4 DEF UpdateUnit, LeasesInv, OccupancyTypeOK
  <2> QED BY <2>1, LeasesUntouched
<1>5. CASE \/ \E p \in People : CreatePerson(p)
           \/ \E x \in Residents : RemoveResident(x)
           \/ UNCHANGED occupancyVars
  <2>1. UNCHANGED <<pc, job, row, current, leases, entangled>>
    BY <1>5 DEF CreatePerson, RemoveResident, occupancyVars
  <2> QED BY <2>1, LeasesUntouched
<1>6. ASSUME NEW r \in Requests,
             \/ \E f \in Floors : AddFloor(r, f)
             \/ \E u \in Units, x \in Residents \cup {None} : AddUnit(r, u, x)
             \/ \E u \in Units : RemoveUnit(r, u)
             \/ CountRows(r) \/ WriteCount(r)
             \/ \E u \in Units, x \in Residents : InsertLease(r, u, x)
             \/ Occupy(r) \/ Fail(r)
      PROVE  NewestLeaseHolds' /\ LeasesFit'
  <2>1. CASE \E f \in Floors : AddFloor(r, f)
    BY <1>1, <2>1 DEF AddFloor, Rows
  <2>2. ASSUME NEW u \in Units, NEW x \in Residents \cup {None}, AddUnit(r, u, x)
        PROVE  NewestLeaseHolds' /\ LeasesFit'
    <3>1. /\ row[u] = "unborn" /\ Change(r, u, "live")
          /\ current' = [current EXCEPT ![u] = x]
      BY <2>2 DEF AddUnit
    <3>2. \A v \in Units : row[v] # "unborn" => current'[v] = current[v]
      BY <3>1 DEF LeasesInv, OccupancyTypeOK
    <3> QED BY <1>1, <3>1, <3>2 DEF Rows
  <2>3. CASE \E u \in Units : RemoveUnit(r, u)
    BY <1>1, <2>3 DEF RemoveUnit, Rows
  <2>4. CASE \E u \in Units, x \in Residents : InsertLease(r, u, x)
    BY <2>4, InsertLeases
  <2>5. CASE CountRows(r) \/ WriteCount(r) \/ Occupy(r) \/ Fail(r)
    BY <2>5, <1>2, <1>3, OccupyLeases
  <2> QED BY <1>6, <2>1, <2>2, <2>3, <2>4, <2>5
<1> QED BY <1>4, <1>5, <1>6 DEF OccupancyNext

(***************************************************************************)
(* For any number of requests and leases: a unit shows the resident of its *)
(* newest lease that was answered, those that failed between their two     *)
(* writes and those under way having changed nothing, unless its resident  *)
(* was then set by hand or by leases that overlapped (createLease of       *)
(* ResidentsService).                                                      *)
(***************************************************************************)
THEOREM NewestLeaseIsShown == OccupancySpec => []NewestLeaseHolds
<1>1. OccupancyInit => LeasesInv
  BY InitType, InitLeases DEF LeasesInv
<1>2. LeasesInv /\ [OccupancyNext]_occupancyVars => LeasesInv'
  BY StepType, StepLeases DEF LeasesInv
<1>3. LeasesInv => NewestLeaseHolds
  BY DEF LeasesInv
<1> QED BY <1>1, <1>2, <1>3, PTL DEF OccupancySpec

-----------------------------------------------------------------------------
(***************************************************************************)
(* Announcements: whom an answered one has reached.                        *)
(***************************************************************************)

-----------------------------------------------------------------------------
(* Types *)

AddressType == [audience : Audiences \cup {None}, units : SUBSET Units, people : SUBSET People]

Stages == Resting \cup {"residents", "owners", "notify", "text"}

LEMMA InitPostType == Init => TypeOK
<1> SUFFICES ASSUME Init PROVE TypeOK
  OBVIOUS
<1>1. OccupancyTypeOK
  BY InitType DEF Init
<1> QED BY <1>1 DEF Init, TypeOK, Resting

LEMMA RequestPostType ==
  ASSUME TypeOK, NEW a \in Posts, UNCHANGED occupancyVars,
         \/ \E audience \in Audiences, units \in SUBSET Units : Post(a, audience, units)
         \/ ReadResidents(a) \/ ReadOwners(a) \/ Notify(a) \/ Text(a)
         \/ FailPost(a) \/ Retire(a)
  PROVE  TypeOK'
<1>1. OccupancyTypeOK'
  BY DEF TypeOK, occupancyVars, OccupancyTypeOK
<1>2. CASE \E audience \in Audiences, units \in SUBSET Units : Post(a, audience, units)
  BY <1>1, <1>2 DEF Post, TypeOK, Resting
<1>3. CASE ReadResidents(a)
  <2>1. ResidentsFor(a) \subseteq People
    BY DEF ResidentsFor, People
  <2> QED BY <1>1, <1>3, <2>1 DEF ReadResidents, TypeOK, Resting
<1>4. CASE ReadOwners(a)
  <2>1. OwnersFor(a) \subseteq People
    BY DEF OwnersFor, People
  <2> QED BY <1>1, <1>4, <2>1 DEF ReadOwners, TypeOK, Resting
<1>5. CASE Notify(a)
  <2> DEFINE told == [p \in People |->
               sent[a][p] + IF p \in to[a].people \cap Accounts THEN 1 ELSE 0]
  <2>1. told \in [People -> Nat]
    BY DEF TypeOK
  <2>2. sent' = [sent EXCEPT ![a] = told]
    BY <1>5 DEF Notify
  <2> HIDE DEF told
  <2>3. sent' \in [Posts -> [People -> Nat]]
    BY <2>1, <2>2 DEF TypeOK
  <2> QED BY <1>1, <1>5, <2>3 DEF Notify, TypeOK, Resting
<1>6. CASE Text(a) \/ FailPost(a) \/ Retire(a)
  BY <1>1, <1>6 DEF Text, FailPost, Retire, TypeOK, Resting
<1> QED BY <1>2, <1>3, <1>4, <1>5, <1>6

LEMMA OccupantsType == TypeOK /\ Occupants => TypeOK'
<1> SUFFICES ASSUME TypeOK, Occupants PROVE TypeOK'
  OBVIOUS
<1>1. OccupancyTypeOK'
  BY StepType DEF TypeOK, Occupants
<1>2. Touched \subseteq People
  BY DEF Touched
<1>3. moved' \in [Posts -> SUBSET People] /\ UNCHANGED <<at, to, shown, sent>>
  <2> HIDE DEF Touched
  <2> QED BY <1>2 DEF Occupants, TypeOK
<1> QED BY <1>1, <1>3 DEF TypeOK

LEMMA StepPostType == TypeOK /\ [Next]_vars => TypeOK'
<1> SUFFICES ASSUME TypeOK, [Next]_vars PROVE TypeOK'
  OBVIOUS
<1>1. CASE Occupants
  BY <1>1, OccupantsType
<1>2. ASSUME NEW a \in Posts,
             \/ \E audience \in Audiences, units \in SUBSET Units : Post(a, audience, units)
             \/ ReadResidents(a) \/ ReadOwners(a) \/ Notify(a) \/ Text(a)
             \/ FailPost(a) \/ Retire(a)
      PROVE  TypeOK'
  <2>1. UNCHANGED occupancyVars
    BY <1>2 DEF Post, ReadResidents, ReadOwners, Notify, Text, FailPost, Retire
  <2> QED BY <1>2, <2>1, RequestPostType
<1>3. CASE UNCHANGED vars
  BY <1>3 DEF vars, occupancyVars, TypeOK, OccupancyTypeOK
<1> QED BY <1>1, <1>2, <1>3 DEF Next

(***************************************************************************)
(* Every reachable state of announcements, with the units, residents and   *)
(* leases changing meanwhile, is well typed (AnnouncementsService).        *)
(***************************************************************************)
THEOREM PostsTypeCorrect == Spec => []TypeOK
<1> QED BY InitPostType, StepPostType, PTL DEF Spec

-----------------------------------------------------------------------------
(* The audience *)

\* What is known at each await about a person nothing has happened to since a
\* was accepted: found exactly when meant, and told exactly when found.
Known(a, p) ==
  /\ at[a] # "idle" => /\ to[a].audience \in Audiences
                       /\ to[a].units # {} => to[a].audience = "CUSTOM"
  /\ at[a] \in {"idle", "residents", "owners", "notify"} => sent[a][p] = 0
  /\ at[a] = "owners" => (p \in to[a].people <=> p \in ResidentsFor(a))
  /\ at[a] = "notify" => (p \in to[a].people <=> p \in ResidentsFor(a) \cup OwnersFor(a))
  /\ at[a] \in {"text", "done"} /\ p \in Accounts =>
       sent[a][p] = IF p \in ResidentsFor(a) \cup OwnersFor(a) THEN 1 ELSE 0

AudienceInv ==
  \A a \in Posts :
    /\ at[a] = "idle" => moved[a] = {}
    /\ \A p \in People \ moved[a] : Known(a, p)

\* Whom an announcement is for, audience by audience.
LEMMA KnownReached ==
  ASSUME TypeOK, NEW a \in Posts, NEW p \in Accounts, at[a] = "done", Known(a, p)
  PROVE  LET lives == p \in Residents /\ person[p] = "live"
             owns  == p \in Owners /\ person[p] = "live"
             meant == CASE to[a].audience = "ALL" -> lives \/ owns
                        [] to[a].audience = "RESIDENTS" -> lives
                        [] to[a].audience = "OWNERS" -> owns
                        [] to[a].audience = "CUSTOM" ->
                             lives /\ (to[a].units = {} \/ \E u \in to[a].units : current[u] = p)
         IN  sent[a][p] = IF meant THEN 1 ELSE 0
<1> DEFINE lives == p \in Residents /\ person[p] = "live"
           owns  == p \in Owners /\ person[p] = "live"
           meant == CASE to[a].audience = "ALL" -> lives \/ owns
                      [] to[a].audience = "RESIDENTS" -> lives
                      [] to[a].audience = "OWNERS" -> owns
                      [] to[a].audience = "CUSTOM" ->
                           lives /\ (to[a].units = {} \/ \E u \in to[a].units : current[u] = p)
           for == p \in ResidentsFor(a) \cup OwnersFor(a)
<1>1. sent[a][p] = IF for THEN 1 ELSE 0
  BY DEF Known
<1>2. /\ p \in ResidentsFor(a) <=>
           /\ lives /\ to[a].audience \in {"ALL", "RESIDENTS", "CUSTOM"}
           /\ to[a].units # {} => \E u \in to[a].units : current[u] = p
      /\ p \in OwnersFor(a) <=> owns /\ to[a].audience \in {"ALL", "OWNERS"}
  BY DEF ResidentsFor, OwnersFor
<1>3. to[a].audience \in Audiences /\ (to[a].units # {} => to[a].audience = "CUSTOM")
  BY DEF Known
<1>4. CASE to[a].audience = "ALL"
  <2>1. meant = (lives \/ owns)
    BY <1>4
  <2> QED BY <1>1, <1>2, <1>3, <1>4, <2>1
<1>5. CASE to[a].audience = "RESIDENTS"
  <2>1. meant = lives
    BY <1>5
  <2> QED BY <1>1, <1>2, <1>3, <1>5, <2>1
<1>6. CASE to[a].audience = "OWNERS"
  <2>1. meant = owns
    BY <1>6
  <2> QED BY <1>1, <1>2, <1>3, <1>6, <2>1
<1>7. CASE to[a].audience = "CUSTOM"
  <2>1. meant = (lives /\ (to[a].units = {} \/ \E u \in to[a].units : current[u] = p))
    BY <1>7
  <2> QED BY <1>1, <1>2, <1>3, <1>7, <2>1
<1> QED BY <1>3, <1>4, <1>5, <1>6, <1>7 DEF Audiences

LEMMA KnownImplies == TypeOK /\ AudienceInv => AnsweredReachedAudience
<1> SUFFICES ASSUME TypeOK, AudienceInv, NEW a \in Posts, at[a] = "done",
                    NEW p \in Accounts \ moved[a]
             PROVE  LET lives == p \in Residents /\ person[p] = "live"
                        owns  == p \in Owners /\ person[p] = "live"
                        meant == CASE to[a].audience = "ALL" -> lives \/ owns
                                   [] to[a].audience = "RESIDENTS" -> lives
                                   [] to[a].audience = "OWNERS" -> owns
                                   [] to[a].audience = "CUSTOM" ->
                                        lives /\ (to[a].units = {} \/ \E u \in to[a].units : current[u] = p)
                    IN  sent[a][p] = IF meant THEN 1 ELSE 0
  BY DEF AnsweredReachedAudience
<1>1. Known(a, p)
  BY DEF AudienceInv
<1> QED BY <1>1, KnownReached

LEMMA InitAudience == Init => AudienceInv
BY DEF Init, AudienceInv, Known

\* Nothing a step of Occupancy changes concerns a person it does not touch.
LEMMA UntouchedAudience ==
  ASSUME TypeOK, UNCHANGED to, NEW a \in Posts, NEW p \in People \ Touched
  PROVE  /\ p \in ResidentsFor(a)' <=> p \in ResidentsFor(a)
         /\ p \in OwnersFor(a)' <=> p \in OwnersFor(a)
<1>1. person'[p] = person[p]
  BY DEF Touched
<1>2. ASSUME NEW u \in Units PROVE current'[u] = p <=> current[u] = p
  BY DEF Touched
<1>3. to[a].units \subseteq Units
  BY DEF TypeOK
<1>4. (\E u \in to[a].units : current'[u] = p) <=> (\E u \in to[a].units : current[u] = p)
  BY <1>2, <1>3
<1> QED BY <1>1, <1>4 DEF ResidentsFor, OwnersFor

LEMMA OccupantsAudience == TypeOK /\ AudienceInv /\ Occupants => AudienceInv'
<1> SUFFICES ASSUME TypeOK, AudienceInv, Occupants, NEW a \in Posts
             PROVE  /\ (at[a] = "idle" => moved[a] = {})'
                    /\ \A p \in People \ moved'[a] : Known(a, p)'
  BY DEF AudienceInv
<1>1. UNCHANGED <<at, to, sent>>
  BY DEF Occupants
<1>2. moved'[a] = IF at[a] = "idle" THEN {} ELSE moved[a] \cup Touched
  BY DEF Occupants
<1>3. ASSUME NEW p \in People \ moved'[a] PROVE Known(a, p)'
  <2>1. CASE at[a] = "idle"
    <3>1. sent[a][p] = 0
      BY <2>1 DEF AudienceInv, Known
    <3> QED BY <1>1, <2>1, <3>1 DEF Known
  <2>2. CASE at[a] # "idle"
    <3>1. p \notin moved[a] /\ p \notin Touched
      BY <1>2, <1>3, <2>2
    <3>2. Known(a, p)
      BY <3>1 DEF AudienceInv
    <3>3. /\ p \in ResidentsFor(a)' <=> p \in ResidentsFor(a)
          /\ p \in OwnersFor(a)' <=> p \in OwnersFor(a)
      BY <1>1, <3>1, UntouchedAudience
    <3> QED BY <1>1, <3>2, <3>3 DEF Known
  <2> QED BY <2>1, <2>2
<1> QED BY <1>1, <1>2, <1>3

\* Steps of announcements leave those they are not about alone.
LEMMA OtherPosts ==
  ASSUME TypeOK, AudienceInv, UNCHANGED <<occupancyVars, moved>>, NEW a \in Posts,
         \A b \in Posts \ {a} : at'[b] = at[b] /\ to'[b] = to[b] /\ sent'[b] = sent[b],
         at'[a] # "idle",
         \A p \in People \ moved[a] : Known(a, p)'
  PROVE  AudienceInv'
<1>1. ASSUME NEW b \in Posts \ {a}, NEW p \in People, Known(b, p) PROVE Known(b, p)'
  <2>1. at'[b] = at[b] /\ to'[b] = to[b] /\ sent'[b] = sent[b] /\ UNCHANGED <<person, current>>
    BY DEF occupancyVars
  <2>2. ResidentsFor(b)' = ResidentsFor(b) /\ OwnersFor(b)' = OwnersFor(b)
    BY <2>1 DEF ResidentsFor, OwnersFor
  <2> QED BY <1>1, <2>1, <2>2 DEF Known
<1>2. ASSUME NEW b \in Posts \ {a}
      PROVE  /\ (at[b] = "idle" => moved[b] = {})'
             /\ \A p \in People \ moved'[b] : Known(b, p)'
  BY <1>1 DEF AudienceInv
<1>3. /\ (at[a] = "idle" => moved[a] = {})'
      /\ \A p \in People \ moved'[a] : Known(a, p)'
  OBVIOUS
<1> QED BY <1>2, <1>3 DEF AudienceInv

LEMMA RequestAudience ==
  ASSUME TypeOK, TypeOK', AudienceInv, NEW a \in Posts,
         \/ \E audience \in Audiences, units \in SUBSET Units : Post(a, audience, units)
         \/ ReadResidents(a) \/ ReadOwners(a) \/ Notify(a) \/ Text(a) \/ FailPost(a)
  PROVE  AudienceInv'
<1>1. /\ UNCHANGED <<occupancyVars, moved>>
      /\ \A b \in Posts \ {a} : at'[b] = at[b] /\ to'[b] = to[b] /\ sent'[b] = sent[b]
      /\ at'[a] # "idle"
  BY DEF Post, ReadResidents, ReadOwners, Notify, Text, FailPost, TypeOK
<1>2. UNCHANGED <<person, current>>
  BY <1>1 DEF occupancyVars
<1>3. ASSUME to'[a].audience = to[a].audience, to'[a].units = to[a].units
      PROVE  ResidentsFor(a)' = ResidentsFor(a) /\ OwnersFor(a)' = OwnersFor(a)
  BY <1>2, <1>3 DEF ResidentsFor, OwnersFor
<1>4. ASSUME NEW p \in People \ moved[a] PROVE Known(a, p)'
  <2>1. Known(a, p)
    BY DEF AudienceInv
  <2>2. ASSUME NEW audience \in Audiences, NEW units \in SUBSET Units, Post(a, audience, units)
        PROVE  Known(a, p)'
    <3>1. /\ at[a] = "idle" /\ at'[a] = "residents" /\ UNCHANGED sent
          /\ to'[a] = [audience |-> audience, units |-> units, people |-> {}]
          /\ units # {} => audience = "CUSTOM"
      BY <2>2 DEF Post, TypeOK
    <3> QED BY <2>1, <3>1 DEF Known
  <2>3. CASE ReadResidents(a)
    <3>1. /\ at[a] = "residents" /\ at'[a] = "owners" /\ UNCHANGED sent
          /\ to'[a] = [to[a] EXCEPT !.people = ResidentsFor(a)]
      BY <2>3 DEF ReadResidents, TypeOK
    <3>2. /\ to'[a].audience = to[a].audience /\ to'[a].units = to[a].units
          /\ to'[a].people = ResidentsFor(a)
      BY <3>1 DEF TypeOK
    <3> QED BY <1>3, <2>1, <3>1, <3>2 DEF Known
  <2>4. CASE ReadOwners(a)
    <3>1. /\ at[a] = "owners" /\ at'[a] = "notify" /\ UNCHANGED sent
          /\ to'[a] = [to[a] EXCEPT !.people = @ \cup OwnersFor(a)]
      BY <2>4 DEF ReadOwners, TypeOK
    <3>2. /\ to'[a].audience = to[a].audience /\ to'[a].units = to[a].units
          /\ to'[a].people = to[a].people \cup OwnersFor(a)
      BY <3>1 DEF TypeOK
    <3> QED BY <1>3, <2>1, <3>1, <3>2 DEF Known
  <2>5. CASE Notify(a)
    <3>1. /\ at[a] = "notify" /\ at'[a] = "text" /\ UNCHANGED to
          /\ sent'[a][p] = sent[a][p] + IF p \in to[a].people \cap Accounts THEN 1 ELSE 0
      BY <2>5 DEF Notify, TypeOK
    <3>2. p \in Accounts =>
            sent'[a][p] = IF p \in ResidentsFor(a) \cup OwnersFor(a) THEN 1 ELSE 0
      BY <2>1, <3>1 DEF Known
    <3> QED BY <1>3, <2>1, <3>1, <3>2 DEF Known
  <2>6. CASE Text(a)
    <3>1. at[a] = "text" /\ at'[a] = "done" /\ UNCHANGED <<to, sent>>
      BY <2>6 DEF Text, TypeOK
    <3> QED BY <1>3, <2>1, <3>1 DEF Known
  <2>7. CASE FailPost(a)
    <3>1. at[a] # "idle" /\ at'[a] = "failed" /\ UNCHANGED <<to, sent>>
      BY <2>7 DEF FailPost, TypeOK, Resting
    <3> QED BY <1>3, <2>1, <3>1 DEF Known
  <2> QED BY <2>2, <2>3, <2>4, <2>5, <2>6, <2>7
<1> QED BY <1>1, <1>4, OtherPosts

LEMMA StepAudience == TypeOK /\ TypeOK' /\ AudienceInv /\ [Next]_vars => AudienceInv'
<1> SUFFICES ASSUME TypeOK, TypeOK', AudienceInv, [Next]_vars PROVE AudienceInv'
  OBVIOUS
<1>1. CASE Occupants
  BY <1>1, OccupantsAudience
<1>2. CASE UNCHANGED <<occupancyVars, at, to, sent, moved>>
  <2>1. \A a : ResidentsFor(a)' = ResidentsFor(a) /\ OwnersFor(a)' = OwnersFor(a)
    BY <1>2 DEF ResidentsFor, OwnersFor, occupancyVars
  <2> QED BY <1>2, <2>1 DEF AudienceInv, Known
<1>3. ASSUME NEW a \in Posts,
             \/ \E audience \in Audiences, units \in SUBSET Units : Post(a, audience, units)
             \/ ReadResidents(a) \/ ReadOwners(a) \/ Notify(a) \/ Text(a)
             \/ FailPost(a) \/ Retire(a)
      PROVE  AudienceInv'
  <2>1. CASE Retire(a)
    BY <1>2, <2>1 DEF Retire
  <2>2. CASE ~Retire(a)
    BY <1>3, <2>2, RequestAudience
  <2> QED BY <2>1, <2>2
<1>4. CASE UNCHANGED vars
  BY <1>2, <1>4 DEF vars
<1> QED BY <1>1, <1>3, <1>4 DEF Next

(***************************************************************************)
(* For any building: an announcement that was answered has told everybody  *)
(* with an account who was meant all the time once, and nobody who was not *)
(* (create of AnnouncementsService), whatever units, leases and removals   *)
(* do to the others meanwhile.                                             *)
(***************************************************************************)
THEOREM AudienceIsReached == Spec => []AnsweredReachedAudience
<1>1. Init => TypeOK /\ AudienceInv
  BY InitPostType, InitAudience
<1>2. TypeOK /\ AudienceInv /\ [Next]_vars => (TypeOK /\ AudienceInv)'
  BY StepPostType, StepAudience
<1>3. TypeOK /\ AudienceInv => AnsweredReachedAudience
  BY KnownImplies
<1> QED BY <1>1, <1>2, <1>3, PTL DEF Spec

=============================================================================
