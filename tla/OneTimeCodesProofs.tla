------------------------- MODULE OneTimeCodesProofs -------------------------
(***************************************************************************)
(* Theorems about one-time codes: how often a code is used, how many wrong *)
(* ones are compared with it, how far two codes are apart, and that who    *)
(* registers gets the default role.                                        *)
(***************************************************************************)
EXTENDS OneTimeCodes, FiniteSetTheorems, SequenceTheorems, TLAPS

USE RequestAssumption, LimitsAssumption

-----------------------------------------------------------------------------
(* Types *)

\* The awaits at which a request still holds on to the code it has found.
Holding == {"consume", "count", "findOwner", "reset"}

Awaits == Resting \cup {"findRecent", "create", "send", "findUser", "createUser",
                        "giveRole", "issue"} \cup Holding

JobType == [kind : {None, "request", "verify", "reset", "register"},
            purpose : Purposes \cup {None}, code : Nat, used : BOOLEAN]

\* A request about to make a code has a purpose; one that holds a code has found it.
JobsFit ==
  \A r \in Requests :
    /\ pc[r] \in {"findRecent", "create"} => job[r].purpose \in Purposes
    /\ pc[r] \in Holding => job[r].code \in DOMAIN codes

TypeInv ==
  /\ pc \in [Requests -> Awaits] /\ job \in [Requests -> JobType]
  /\ codes \in Seq(CodeType)
  /\ user \in {"none", "live", "removed"} /\ role \in BOOLEAN
  /\ maker \in Requests \cup {None}
  /\ now \in 0..MaxTime
  /\ rushed \subseteq Purposes /\ shared \subseteq DOMAIN codes
  /\ \A r \in Requests : job[r].code # 0 => job[r].code \in DOMAIN codes
  /\ JobsFit

LEMMA TypeInvTypes == TypeInv => TypeOK
BY DEF TypeInv, TypeOK, Awaits, Holding, JobType

LEMMA InitType == Init => TypeInv
<1> SUFFICES ASSUME Init PROVE TypeInv
  OBVIOUS
<1>1. NoJob \in JobType /\ NoJob.code = 0
  BY DEF NoJob, JobType
<1>2. codes \in Seq(CodeType)
  BY DEF Init
<1> QED BY <1>1, <1>2 DEF Init, TypeInv, JobsFit, Awaits, Resting, Holding

\* A column of one row is overwritten.
LEMMA RowChanged ==
  ASSUME codes \in Seq(CodeType), NEW c \in DOMAIN codes, NEW row \in CodeType,
         codes' = [codes EXCEPT ![c] = row]
  PROVE  codes' \in Seq(CodeType) /\ DOMAIN codes' = DOMAIN codes
BY DEF CodeType

LEMMA RowAdded ==
  ASSUME codes \in Seq(CodeType), NEW row \in CodeType, codes' = Append(codes, row)
  PROVE  /\ codes' \in Seq(CodeType) /\ DOMAIN codes \subseteq DOMAIN codes'
         /\ DOMAIN codes' = DOMAIN codes \cup {Len(codes) + 1}
         /\ codes'[Len(codes) + 1] = row
         /\ \A c \in DOMAIN codes : codes'[c] = codes[c] /\ c < Len(codes) + 1
OBVIOUS

LEMMA RowType ==
  ASSUME codes \in Seq(CodeType), NEW c \in DOMAIN codes
  PROVE  codes[c] \in CodeType /\ c \in Nat \ {0}
<1>1. c \in 1 .. Len(codes)
  OBVIOUS
<1> QED BY <1>1, ElementOfSeq

\* What one request does to its own await and job, the rest of the state fitting.
LEMMA OneMoves ==
  ASSUME TypeInv, NEW r \in Requests, NEW l \in Awaits, NEW j \in JobType,
         pc' = [pc EXCEPT ![r] = l], job' = [job EXCEPT ![r] = j],
         l \in {"findRecent", "create"} => j.purpose \in Purposes,
         l \in Holding => j.code \in DOMAIN codes',
         j.code # 0 => j.code \in DOMAIN codes',
         codes' \in Seq(CodeType), DOMAIN codes \subseteq DOMAIN codes',
         user' \in {"none", "live", "removed"}, role' \in BOOLEAN,
         maker' \in Requests \cup {None}, now' = now,
         rushed' \subseteq Purposes, shared' \subseteq DOMAIN codes'
  PROVE  TypeInv'
<1>1. pc' \in [Requests -> Awaits] /\ job' \in [Requests -> JobType]
  BY DEF TypeInv
<1>2. ASSUME NEW o \in Requests
      PROVE  /\ pc'[o] \in {"findRecent", "create"} => job'[o].purpose \in Purposes
             /\ pc'[o] \in Holding => job'[o].code \in DOMAIN codes'
             /\ job'[o].code # 0 => job'[o].code \in DOMAIN codes'
  <2>1. CASE o = r
    <3>1. pc'[o] = l /\ job'[o] = j
      BY <2>1 DEF TypeInv
    <3> QED BY <3>1
  <2>2. CASE o # r
    <3>1. pc'[o] = pc[o] /\ job'[o] = job[o]
      BY <2>2 DEF TypeInv
    <3> QED BY <3>1 DEF TypeInv, JobsFit
  <2> QED BY <2>1, <2>2
<1> QED BY <1>1, <1>2 DEF TypeInv, JobsFit

\* The same for a request that keeps its job.
LEMMA OneGoesOn ==
  ASSUME TypeInv, NEW r \in Requests, NEW l \in Awaits,
         pc' = [pc EXCEPT ![r] = l], UNCHANGED job,
         l \in {"findRecent", "create"} => job[r].purpose \in Purposes,
         l \in Holding => job[r].code \in DOMAIN codes,
         codes' \in Seq(CodeType), DOMAIN codes \subseteq DOMAIN codes',
         user' \in {"none", "live", "removed"}, role' \in BOOLEAN,
         maker' \in Requests \cup {None}, now' = now,
         rushed' \subseteq Purposes, shared' \subseteq DOMAIN codes'
  PROVE  TypeInv'
<1>1. job' = [job EXCEPT ![r] = job[r]] /\ job[r] \in JobType
  BY DEF TypeInv
<1>2. job[r].code # 0 => job[r].code \in DOMAIN codes'
  BY DEF TypeInv
<1>3. l \in Holding => job[r].code \in DOMAIN codes'
  OBVIOUS
<1> QED BY <1>1, <1>2, <1>3, OneMoves

LEMMA StartType ==
  ASSUME TypeInv, NEW r \in Requests
  PROVE  /\ \A p \in Purposes : StartRequest(r, p) => TypeInv'
         /\ StartRegister(r) => TypeInv'
         /\ \A kind \in {"verify", "reset"}, p \in Purposes : \A typed :
              StartVerify(r, kind, p, typed) => TypeInv'
<1>1. ASSUME NEW kind \in {"request", "verify", "reset", "register"},
             NEW p \in Purposes \cup {None},
             NEW l \in {"findRecent", "createUser", "refused"}, Starts(r, kind, p, l),
             l = "findRecent" => p \in Purposes,
             UNCHANGED <<codes, user, role, maker, now, rushed, shared>>
      PROVE  TypeInv'
  <2> DEFINE j == [NoJob EXCEPT !.kind = kind, !.purpose = p]
  <2>1. j \in JobType /\ j.purpose = p /\ j.code = 0
    BY DEF NoJob, JobType
  <2>2. pc' = [pc EXCEPT ![r] = l] /\ job' = [job EXCEPT ![r] = j]
    BY <1>1 DEF Starts
  <2>3. l \in Awaits /\ l \notin Holding
    BY DEF Awaits, Resting, Holding
  <2> HIDE DEF j
  <2>4. l \in {"findRecent", "create"} => j.purpose \in Purposes
    BY <1>1, <2>1
  <2> QED BY <1>1, <2>1, <2>2, <2>3, <2>4, OneMoves DEF TypeInv
<1>2. ASSUME NEW p \in Purposes, StartRequest(r, p) PROVE TypeInv'
  <2>1. PICK l \in {"findRecent", "refused"} : Starts(r, "request", p, l)
    BY <1>2 DEF StartRequest
  <2> QED BY <1>1, <1>2, <2>1 DEF StartRequest
<1>3. ASSUME StartRegister(r) PROVE TypeInv'
  <2>1. PICK l \in {"createUser", "refused"} : Starts(r, "register", None, l)
    BY <1>3 DEF StartRegister
  <2> QED BY <1>1, <1>3, <2>1 DEF StartRegister
<1>4. ASSUME NEW kind \in {"verify", "reset"}, NEW p \in Purposes, NEW typed,
             StartVerify(r, kind, p, typed)
      PROVE  TypeInv'
  <2>1. CASE Starts(r, kind, p, "refused") /\ UNCHANGED shared
    BY <1>1, <1>4, <2>1 DEF StartVerify
  <2>2. ASSUME NEW c \in Open(p),
               job' = [job EXCEPT ![r] = [kind |-> kind, purpose |-> p, code |-> c, used |-> FALSE]],
               NEW l \in {"consume", "count", "findOwner", "refused"},
               pc' = [pc EXCEPT ![r] = l],
               shared' \in {shared, shared \cup {c}}
        PROVE  TypeInv'
    <3> DEFINE j == [kind |-> kind, purpose |-> p, code |-> c, used |-> FALSE]
    <3>1. c \in DOMAIN codes /\ c \in Nat
      BY <2>2, RowType DEF TypeInv, Open
    <3>2. j \in JobType /\ j.code = c /\ j.purpose = p
      BY <3>1 DEF JobType
    <3>3. l \in Awaits
      BY DEF Awaits, Resting, Holding
    <3>4. job' = [job EXCEPT ![r] = j]
      BY <2>2
    <3> HIDE DEF j
    <3>5. UNCHANGED <<codes, user, role, maker, now, rushed>>
      BY <1>4 DEF StartVerify
    <3>6. shared' \subseteq DOMAIN codes
      BY <2>2, <3>1 DEF TypeInv
    <3> QED BY <2>2, <3>1, <3>2, <3>3, <3>4, <3>5, <3>6, OneMoves DEF TypeInv
  <2>3. CASE \E c \in Open(p) :
          /\ job' = [job EXCEPT ![r] = [kind |-> kind, purpose |-> p, code |-> c, used |-> FALSE]]
          /\ \E l \in {"consume", "count", "findOwner", "refused"} : pc' = [pc EXCEPT ![r] = l]
          /\ shared' \in {shared, shared \cup {c}}
    BY <2>2, <2>3
  <2> QED BY <1>4, <2>1, <2>3 DEF StartVerify
<1> QED BY <1>2, <1>3, <1>4

\* A step that only moves a request to another await.
LEMMA MoveType ==
  ASSUME TypeInv, NEW r \in Requests,
         FindRecent(r) \/ SendCode(r) \/ FindUser(r) \/ FindOwner(r) \/ CreateUser(r)
           \/ GiveRole(r) \/ Issue(r) \/ Fail(r)
  PROVE  TypeInv'
<1>1. PICK l \in Awaits : pc' = [pc EXCEPT ![r] = l]
  BY DEF FindRecent, SendCode, FindUser, FindOwner, CreateUser, GiveRole, Issue, Fail,
         At, Awaits, Resting, Holding
<1>2. UNCHANGED <<job, codes, now, shared>>
  BY DEF FindRecent, SendCode, FindUser, FindOwner, CreateUser, GiveRole, Issue, Fail
<1>3. /\ user' \in {"none", "live", "removed"} /\ role' \in BOOLEAN
      /\ maker' \in Requests \cup {None}
  BY DEF FindRecent, SendCode, FindUser, FindOwner, CreateUser, GiveRole, Issue, Fail, TypeInv
<1>4. rushed' \subseteq Purposes
  <2>1. CASE FindRecent(r)
    BY <2>1 DEF FindRecent, At, TypeInv, JobsFit
  <2>2. CASE ~FindRecent(r)
    BY <2>2 DEF SendCode, FindUser, FindOwner, CreateUser, GiveRole, Issue, Fail, TypeInv
  <2> QED BY <2>1, <2>2
<1>5. /\ pc'[r] \in {"findRecent", "create"} => job[r].purpose \in Purposes
      /\ pc'[r] \in Holding => job[r].code \in DOMAIN codes
  BY DEF FindRecent, SendCode, FindUser, FindOwner, CreateUser, GiveRole, Issue, Fail,
         At, TypeInv, JobsFit, Holding
<1>6. pc'[r] = l
  BY <1>1 DEF TypeInv
<1> QED BY <1>1, <1>2, <1>3, <1>4, <1>5, <1>6, OneGoesOn DEF TypeInv

\* What the statements that write otp_codes do to the table.
LEMMA CodeWrites ==
  ASSUME TypeInv, NEW r \in Requests
  PROVE  /\ CreateCode(r) =>
              codes' = Append(codes, [purpose |-> job[r].purpose, at |-> now,
                                      consumed |-> FALSE, attempts |-> 0])
         /\ CountAttempt(r) \/ Consume(r) \/ Reset(r) =>
              /\ job[r].code \in DOMAIN codes
              /\ DOMAIN codes' = DOMAIN codes
              /\ \A c \in DOMAIN codes :
                   /\ codes'[c].purpose = codes[c].purpose /\ codes'[c].at = codes[c].at
                   /\ c # job[r].code => codes'[c] = codes[c]
         /\ CountAttempt(r) => /\ codes'[job[r].code].consumed = codes[job[r].code].consumed
                               /\ codes'[job[r].code].attempts = codes[job[r].code].attempts + 1
         /\ Consume(r) \/ Reset(r) =>
              /\ codes'[job[r].code].consumed
              /\ codes'[job[r].code].attempts = codes[job[r].code].attempts
<1> DEFINE c == job[r].code
<1>1. CreateCode(r) =>
        codes' = Append(codes, [purpose |-> job[r].purpose, at |-> now,
                                consumed |-> FALSE, attempts |-> 0])
  BY DEF CreateCode
<1>2. CountAttempt(r) \/ Consume(r) \/ Reset(r) => c \in DOMAIN codes
  BY DEF CountAttempt, Consume, Reset, At, TypeInv, JobsFit, Holding
<1>3. c \in DOMAIN codes => codes[c] \in CodeType
  BY RowType DEF TypeInv
<1>4. CountAttempt(r) => codes' = [codes EXCEPT ![c].attempts = @ + 1]
  BY DEF CountAttempt
<1>5. Consume(r) \/ Reset(r) => codes' = [codes EXCEPT ![c].consumed = TRUE]
  BY DEF Consume, Reset
<1> HIDE DEF c
<1>6. c \in DOMAIN codes /\ codes' = [codes EXCEPT ![c].attempts = @ + 1] =>
        /\ DOMAIN codes' = DOMAIN codes
        /\ \A d \in DOMAIN codes :
             /\ codes'[d].purpose = codes[d].purpose /\ codes'[d].at = codes[d].at
             /\ d # c => codes'[d] = codes[d]
        /\ codes'[c].consumed = codes[c].consumed /\ codes'[c].attempts = codes[c].attempts + 1
  BY <1>3 DEF CodeType
<1>7. c \in DOMAIN codes /\ codes' = [codes EXCEPT ![c].consumed = TRUE] =>
        /\ DOMAIN codes' = DOMAIN codes
        /\ \A d \in DOMAIN codes :
             /\ codes'[d].purpose = codes[d].purpose /\ codes'[d].at = codes[d].at
             /\ d # c => codes'[d] = codes[d]
        /\ codes'[c].consumed /\ codes'[c].attempts = codes[c].attempts
  BY <1>3 DEF CodeType
<1>8. CountAttempt(r) \/ Consume(r) \/ Reset(r) =>
        /\ c \in DOMAIN codes
        /\ DOMAIN codes' = DOMAIN codes
        /\ \A d \in DOMAIN codes :
             /\ codes'[d].purpose = codes[d].purpose /\ codes'[d].at = codes[d].at
             /\ d # c => codes'[d] = codes[d]
  BY <1>2, <1>4, <1>5, <1>6, <1>7
<1>9. /\ CountAttempt(r) => /\ codes'[c].consumed = codes[c].consumed
                            /\ codes'[c].attempts = codes[c].attempts + 1
      /\ Consume(r) \/ Reset(r) => codes'[c].consumed /\ codes'[c].attempts = codes[c].attempts
  BY <1>2, <1>4, <1>5, <1>6, <1>7
<1> QED BY <1>1, <1>8, <1>9 DEF c

LEMMA WriteType ==
  ASSUME TypeInv, NEW r \in Requests,
         CreateCode(r) \/ CountAttempt(r) \/ Consume(r) \/ Reset(r)
  PROVE  TypeInv'
<1> DEFINE c == job[r].code
<1>1. CASE CreateCode(r)
  <2> DEFINE new == [purpose |-> job[r].purpose, at |-> now, consumed |-> FALSE, attempts |-> 0]
  <2>1. new \in CodeType
    BY <1>1 DEF CreateCode, At, TypeInv, JobsFit, CodeType
  <2>2. codes' = Append(codes, new)
    BY <1>1 DEF CreateCode
  <2> HIDE DEF new
  <2>3. codes' \in Seq(CodeType) /\ DOMAIN codes \subseteq DOMAIN codes'
    BY <2>1, <2>2, RowAdded DEF TypeInv
  <2>4. "send" \in Awaits /\ "send" \notin Holding
    BY DEF Awaits, Holding
  <2>5. pc' = [pc EXCEPT ![r] = "send"] /\ UNCHANGED <<job, user, role, maker, now, rushed, shared>>
    BY <1>1 DEF CreateCode, At
  <2> QED BY <2>3, <2>4, <2>5, OneGoesOn DEF TypeInv
<1>2. CASE CountAttempt(r) \/ Consume(r) \/ Reset(r)
  <2>1. c \in DOMAIN codes /\ codes[c] \in CodeType
    BY <1>2, CodeWrites, RowType DEF TypeInv
  <2>2. PICK row \in CodeType : codes' = [codes EXCEPT ![c] = row]
    <3>1. CASE CountAttempt(r)
      <4>1. [codes[c] EXCEPT !.attempts = @ + 1] \in CodeType
        BY <2>1 DEF CodeType
      <4>2. codes' = [codes EXCEPT ![c] = [codes[c] EXCEPT !.attempts = @ + 1]]
        BY <3>1 DEF CountAttempt
      <4> QED BY <4>1, <4>2
    <3>2. CASE Consume(r) \/ Reset(r)
      <4>1. [codes[c] EXCEPT !.consumed = TRUE] \in CodeType
        BY <2>1 DEF CodeType
      <4>2. codes' = [codes EXCEPT ![c] = [codes[c] EXCEPT !.consumed = TRUE]]
        BY <3>2 DEF Consume, Reset
      <4> QED BY <4>1, <4>2
    <3> QED BY <1>2, <3>1, <3>2
  <2>3. codes' \in Seq(CodeType) /\ DOMAIN codes' = DOMAIN codes
    BY <2>1, <2>2, RowChanged DEF TypeInv
  <2>4. PICK l \in {"refused", "findUser", "done"} : pc' = [pc EXCEPT ![r] = l]
    BY <1>2 DEF CountAttempt, Consume, Reset, At
  <2>5. l \in Awaits /\ l \notin Holding /\ l \notin {"findRecent", "create"}
    BY DEF Awaits, Resting, Holding
  <2>6. UNCHANGED <<user, role, maker, now, rushed, shared>>
    BY <1>2 DEF CountAttempt, Consume, Reset
  <2>7. PICK b \in BOOLEAN : job' = [job EXCEPT ![r].used = b]
    <3>1. job[r].used \in BOOLEAN /\ job = [job EXCEPT ![r].used = job[r].used]
      BY DEF TypeInv, JobType
    <3>2. CASE CountAttempt(r)
      BY <3>1, <3>2 DEF CountAttempt
    <3>3. CASE Consume(r) \/ Reset(r)
      BY <3>3 DEF Consume, Reset
    <3> QED BY <1>2, <3>2, <3>3
  <2>8. /\ [job[r] EXCEPT !.used = b] \in JobType
        /\ [job[r] EXCEPT !.used = b].code = c
        /\ job' = [job EXCEPT ![r] = [job[r] EXCEPT !.used = b]]
    BY <2>7 DEF TypeInv, JobType
  <2> QED BY <2>1, <2>3, <2>4, <2>5, <2>6, <2>8, OneMoves DEF TypeInv
<1> QED BY <1>1, <1>2

LEMMA StepType == TypeInv /\ [Next]_vars => TypeInv'
<1> SUFFICES ASSUME TypeInv, [Next]_vars PROVE TypeInv'
  OBVIOUS
<1>1. ASSUME NEW r \in Requests,
             \/ \E p \in Purposes : StartRequest(r, p)
             \/ FindRecent(r) \/ CreateCode(r) \/ SendCode(r)
             \/ \E p \in Purposes, typed \in 0..Len(codes) :
                  StartVerify(r, "verify", p, typed)
             \/ \E typed \in 0..Len(codes) : StartVerify(r, "reset", "RESET_PASSWORD", typed)
             \/ CountAttempt(r) \/ Consume(r) \/ FindUser(r) \/ FindOwner(r) \/ Reset(r)
             \/ StartRegister(r) \/ CreateUser(r) \/ GiveRole(r) \/ Issue(r)
             \/ Fail(r)
      PROVE  TypeInv'
  <2>1. CASE \/ \E p \in Purposes : StartRequest(r, p)
             \/ StartRegister(r)
    BY <2>1, StartType
  <2>2. CASE \/ \E p \in Purposes, typed \in 0..Len(codes) :
                  StartVerify(r, "verify", p, typed)
             \/ \E typed \in 0..Len(codes) : StartVerify(r, "reset", "RESET_PASSWORD", typed)
    BY <2>2, StartType DEF Purposes
  <2>3. CASE \/ FindRecent(r) \/ SendCode(r) \/ FindUser(r) \/ FindOwner(r) \/ CreateUser(r)
             \/ GiveRole(r) \/ Issue(r) \/ Fail(r)
    BY <2>3, MoveType
  <2>4. CASE CreateCode(r) \/ CountAttempt(r) \/ Consume(r) \/ Reset(r)
    BY <2>4, WriteType
  <2> QED BY <1>1, <2>1, <2>2, <2>3, <2>4
<1>2. CASE AdministratorCreates \/ AdministratorRemoves
  BY <1>2 DEF AdministratorCreates, AdministratorRemoves, TypeInv, JobsFit
<1>3. CASE Tick
  BY <1>3 DEF Tick, TypeInv, JobsFit
<1>4. CASE UNCHANGED vars
  BY <1>4 DEF vars, TypeInv, JobsFit
<1> QED BY <1>1, <1>2, <1>3, <1>4 DEF Next

(***************************************************************************)
(* Every reachable state of AuthService's one-time codes is well typed; in *)
(* particular a request that holds on to a code has found a row there is.  *)
(***************************************************************************)
THEOREM TypeCorrect == Spec => []TypeOK
<1> QED BY InitType, StepType, TypeInvTypes, PTL DEF Spec

-----------------------------------------------------------------------------
(* Uses and attempts *)

\* The attempts counted for a code nobody shares stay within the limit.
CountedBounded == \A c \in DOMAIN codes \ shared : codes[c].attempts <= MaxAttempts

\* A used code is consumed, a code nobody shares has one holder at most, and
\* none any more once it was used; who is about to count a wrong code has
\* found the limit not reached.
UseInv ==
  /\ \A r \in Requests : job[r].used =>
       /\ job[r].code \in DOMAIN codes /\ codes[job[r].code].consumed
       /\ pc[r] \notin Holding
  /\ \A r, o \in Requests :
       /\ pc[r] \in Holding /\ pc[o] \in Holding /\ job[r].code = job[o].code
       /\ job[r].code \notin shared
       => r = o
  /\ \A r, o \in Requests :
       job[r].used /\ pc[o] \in Holding /\ job[o].code = job[r].code => job[r].code \in shared
  /\ \A r \in Requests :
       pc[r] = "count" /\ job[r].code \notin shared => codes[job[r].code].attempts < MaxAttempts
  /\ OneUsePerCode
  /\ CountedBounded

LEMMA InitUse == Init => UseInv
BY DEF Init, UseInv, NoJob, Holding, OneUsePerCode, CountedBounded

\* Steps of requests that do not touch the code they hold, nor take one.
LEMMA UseUntouched ==
  ASSUME TypeInv, TypeInv', UseInv, UNCHANGED shared, DOMAIN codes \subseteq DOMAIN codes',
         \A c \in DOMAIN codes : codes'[c] = codes[c],
         \A c \in DOMAIN codes' \ DOMAIN codes : codes'[c].attempts = 0,
         \A r \in Requests :
           /\ pc'[r] \in Holding => pc[r] \in Holding /\ job'[r] = job[r]
           /\ pc'[r] = "count" => pc[r] = "count"
           /\ job'[r].used => job'[r] = job[r]
  PROVE  UseInv'
<1>1. OneUsePerCode'
  BY DEF UseInv, OneUsePerCode
<1>2. CountedBounded'
  <2> SUFFICES ASSUME NEW c \in DOMAIN codes', c \notin shared
               PROVE  codes'[c].attempts <= MaxAttempts
    BY DEF CountedBounded
  <2>1. CASE c \in DOMAIN codes
    BY <2>1 DEF UseInv, CountedBounded
  <2>2. CASE c \notin DOMAIN codes
    BY <2>2
  <2> QED BY <2>1, <2>2
<1>3. \A r \in Requests : job'[r].used =>
        /\ job'[r].code \in DOMAIN codes' /\ codes'[job'[r].code].consumed
        /\ pc'[r] \notin Holding
  BY DEF UseInv
<1>4. \A r, o \in Requests :
        /\ pc'[r] \in Holding /\ pc'[o] \in Holding /\ job'[r].code = job'[o].code
        /\ job'[r].code \notin shared'
        => r = o
  BY DEF UseInv
<1>5. \A r, o \in Requests :
        job'[r].used /\ pc'[o] \in Holding /\ job'[o].code = job'[r].code => job'[r].code \in shared'
  BY DEF UseInv
<1>6. \A r \in Requests :
        pc'[r] = "count" /\ job'[r].code \notin shared' =>
          codes'[job'[r].code].attempts < MaxAttempts
  <2>1. \A r \in Requests : pc[r] = "count" => job[r].code \in DOMAIN codes
    BY DEF TypeInv, JobsFit, Holding
  <2>2. \A r \in Requests : pc'[r] = "count" => job'[r] = job[r]
    BY DEF Holding
  <2> QED BY <2>1, <2>2 DEF UseInv
<1> QED BY <1>1, <1>2, <1>3, <1>4, <1>5, <1>6 DEF UseInv

\* A request takes the newest open code.
LEMMA TakeUse ==
  ASSUME TypeInv, UseInv, NEW r \in Requests, NEW c \in DOMAIN codes,
         pc[r] = "idle", ~codes[c].consumed, UNCHANGED codes,
         NEW l \in Holding \cup {"refused"}, pc' = [pc EXCEPT ![r] = l],
         l = "count" => codes[c].attempts < MaxAttempts,
         NEW j \in JobType, j.code = c, ~j.used, job' = [job EXCEPT ![r] = j],
         shared' = IF \E o \in Requests : Holds(o, c) THEN shared \cup {c} ELSE shared
  PROVE  UseInv'
<1>1. /\ pc'[r] = l /\ job'[r] = j
      /\ \A o \in Requests \ {r} : pc'[o] = pc[o] /\ job'[o] = job[o]
  BY DEF TypeInv
<1>2. \A o \in Requests : job[o].used => job[o].code # c
  BY DEF UseInv
<1>3. /\ shared \subseteq shared'
      /\ c \notin shared' => \A o \in Requests : pc[o] \in Holding => job[o].code # c
  BY DEF Holds, Holding
<1>4. OneUsePerCode'
  BY <1>1, <1>3 DEF UseInv, OneUsePerCode
<1>5. CountedBounded'
  BY <1>3 DEF UseInv, CountedBounded
<1>6. \A q \in Requests : job'[q].used =>
        /\ job'[q].code \in DOMAIN codes' /\ codes'[job'[q].code].consumed
        /\ pc'[q] \notin Holding
  BY <1>1 DEF UseInv
<1>7. \A q, o \in Requests :
        /\ pc'[q] \in Holding /\ pc'[o] \in Holding /\ job'[q].code = job'[o].code
        /\ job'[q].code \notin shared'
        => q = o
  BY <1>1, <1>3 DEF UseInv
<1>8. \A q, o \in Requests :
        job'[q].used /\ pc'[o] \in Holding /\ job'[o].code = job'[q].code => job'[q].code \in shared'
  BY <1>1, <1>2, <1>3 DEF UseInv
<1>9. \A q \in Requests :
        pc'[q] = "count" /\ job'[q].code \notin shared' =>
          codes'[job'[q].code].attempts < MaxAttempts
  BY <1>1, <1>3 DEF UseInv
<1> QED BY <1>4, <1>5, <1>6, <1>7, <1>8, <1>9 DEF UseInv

\* The holder of a code writes to it and lets it go.
LEMMA WriteUse ==
  ASSUME TypeInv, UseInv, NEW r \in Requests, CountAttempt(r) \/ Consume(r) \/ Reset(r)
  PROVE  UseInv'
<1> DEFINE c == job[r].code
<1>1. /\ pc[r] \in Holding /\ c \in DOMAIN codes /\ UNCHANGED shared
      /\ DOMAIN codes' = DOMAIN codes
      /\ \A d \in DOMAIN codes \ {c} : codes'[d] = codes[d]
  BY CodeWrites DEF CountAttempt, Consume, Reset, At, Holding
<1>2. /\ pc'[r] \notin Holding /\ job'[r].code = c
      /\ \A o \in Requests \ {r} : pc'[o] = pc[o] /\ job'[o] = job[o]
  BY DEF CountAttempt, Consume, Reset, At, Holding, TypeInv, JobType
<1>3. \/ job'[r].used /\ codes'[c].consumed /\ codes'[c].attempts = codes[c].attempts
      \/ /\ pc[r] = "count" /\ job'[r] = job[r] /\ codes'[c].consumed = codes[c].consumed
         /\ codes'[c].attempts = codes[c].attempts + 1
  <2>1. CASE CountAttempt(r)
    BY <2>1, CodeWrites DEF CountAttempt, At
  <2>2. CASE Consume(r) \/ Reset(r)
    <3>1. job'[r].used
      BY <2>2 DEF Consume, Reset, TypeInv, JobType
    <3> QED BY <2>2, <3>1, CodeWrites
  <2> QED BY <2>1, <2>2
<1>4. ~job[r].used
  BY <1>1 DEF UseInv
<1>5. c \notin shared => \A o \in Requests \ {r} :
        /\ pc[o] \in Holding => job[o].code # c
        /\ job[o].used => job[o].code # c
  BY <1>1 DEF UseInv
<1> HIDE DEF c
<1>6. OneUsePerCode'
  <2> SUFFICES ASSUME NEW q \in Requests, NEW o \in Requests, job'[q].used, job'[o].used,
                      job'[q].code = job'[o].code, job'[q].code \notin shared
               PROVE  q = o
    BY <1>1 DEF OneUsePerCode
  <2> QED BY <1>2, <1>5 DEF UseInv, OneUsePerCode
<1>7. CountedBounded'
  <2> SUFFICES ASSUME NEW d \in DOMAIN codes, d \notin shared
               PROVE  codes'[d].attempts <= MaxAttempts
    BY <1>1 DEF CountedBounded
  <2>1. codes[d].attempts <= MaxAttempts /\ codes[d].attempts \in Nat
    BY RowType DEF UseInv, CountedBounded, TypeInv, CodeType
  <2>2. CASE d # c
    BY <1>1, <2>1, <2>2
  <2>3. CASE d = c
    BY <1>3, <2>1, <2>3 DEF UseInv, c
  <2> QED BY <2>2, <2>3
<1>8. \A q \in Requests : job'[q].used =>
        /\ job'[q].code \in DOMAIN codes' /\ codes'[job'[q].code].consumed
        /\ pc'[q] \notin Holding
  <2> SUFFICES ASSUME NEW q \in Requests, job'[q].used
               PROVE  /\ job'[q].code \in DOMAIN codes' /\ codes'[job'[q].code].consumed
                      /\ pc'[q] \notin Holding
    OBVIOUS
  <2>1. CASE q = r
    BY <1>1, <1>2, <1>3, <1>4, <2>1
  <2>2. CASE q # r
    BY <1>1, <1>2, <1>3, <2>2 DEF UseInv
  <2> QED BY <2>1, <2>2
<1>9. \A q, o \in Requests :
        /\ pc'[q] \in Holding /\ pc'[o] \in Holding /\ job'[q].code = job'[o].code
        /\ job'[q].code \notin shared'
        => q = o
  BY <1>1, <1>2 DEF UseInv
<1>10. \A q, o \in Requests :
        job'[q].used /\ pc'[o] \in Holding /\ job'[o].code = job'[q].code => job'[q].code \in shared'
  BY <1>1, <1>2, <1>5 DEF UseInv
<1>11. \A q \in Requests :
        pc'[q] = "count" /\ job'[q].code \notin shared' =>
          codes'[job'[q].code].attempts < MaxAttempts
  <2> SUFFICES ASSUME NEW q \in Requests, pc'[q] = "count", job'[q].code \notin shared
               PROVE  codes'[job'[q].code].attempts < MaxAttempts
    BY <1>1
  <2>1. q # r /\ pc[q] = "count" /\ job'[q] = job[q]
    BY <1>2 DEF Holding
  <2>2. job[q].code # c /\ job[q].code \in DOMAIN codes
    BY <1>5, <2>1 DEF Holding, TypeInv, JobsFit
  <2> QED BY <1>1, <2>1, <2>2 DEF UseInv
<1> QED BY <1>6, <1>7, <1>8, <1>9, <1>10, <1>11 DEF UseInv

LEMMA VerifyUse ==
  ASSUME TypeInv, TypeInv', UseInv, NEW r \in Requests, NEW kind \in {"verify", "reset"},
         NEW p \in Purposes, NEW typed, StartVerify(r, kind, p, typed)
  PROVE  UseInv'
<1>1. pc[r] = "idle" /\ UNCHANGED codes
  BY DEF StartVerify
<1>2. CASE Starts(r, kind, p, "refused") /\ UNCHANGED shared
  <2> DEFINE j == [NoJob EXCEPT !.kind = kind, !.purpose = p]
  <2>1. ~j.used
    BY DEF NoJob
  <2>2. pc' = [pc EXCEPT ![r] = "refused"] /\ job' = [job EXCEPT ![r] = j]
    BY <1>2 DEF Starts
  <2> HIDE DEF j
  <2>3. /\ pc'[r] = "refused" /\ job'[r] = j
        /\ \A o \in Requests \ {r} : pc'[o] = pc[o] /\ job'[o] = job[o]
    BY <2>2 DEF TypeInv
  <2>4. \A o \in Requests :
           /\ pc'[o] \in Holding => pc[o] \in Holding /\ job'[o] = job[o]
           /\ pc'[o] = "count" => pc[o] = "count"
           /\ job'[o].used => job'[o] = job[o]
    BY <2>1, <2>3 DEF Holding
  <2> QED BY <1>1, <1>2, <2>4, UseUntouched
<1>3. ASSUME NEW c \in Open(p), Usable(kind, c),
             job' = [job EXCEPT ![r] = [kind |-> kind, purpose |-> p, code |-> c, used |-> FALSE]],
             NEW l \in {"consume", "count", "findOwner", "refused"}, l = "count" => kind = "verify",
             pc' = [pc EXCEPT ![r] = l],
             shared' = IF \E o \in Requests : Holds(o, c) THEN shared \cup {c} ELSE shared
      PROVE  UseInv'
  <2> DEFINE j == [kind |-> kind, purpose |-> p, code |-> c, used |-> FALSE]
  <2>1. c \in DOMAIN codes /\ c \in Nat /\ ~codes[c].consumed
    BY RowType DEF TypeInv, Open
  <2>2. j \in JobType /\ j.code = c /\ ~j.used
    BY <2>1 DEF JobType
  <2>3. l = "count" => codes[c].attempts < MaxAttempts
    BY <1>3 DEF Usable
  <2>4. job' = [job EXCEPT ![r] = j]
    BY <1>3
  <2> HIDE DEF j
  <2>5. l \in Holding \cup {"refused"}
    BY DEF Holding
  <2> QED BY <1>1, <1>3, <2>1, <2>2, <2>3, <2>4, <2>5, TakeUse
<1>4. CASE \E c \in Open(p) :
        /\ Usable(kind, c)
        /\ job' = [job EXCEPT ![r] = [kind |-> kind, purpose |-> p, code |-> c, used |-> FALSE]]
        /\ \E l \in {"consume", "count", "findOwner", "refused"} :
             (l = "count" => kind = "verify") /\ pc' = [pc EXCEPT ![r] = l]
        /\ shared' = IF \E o \in Requests : Holds(o, c) THEN shared \cup {c} ELSE shared
  BY <1>3, <1>4
<1> QED BY <1>2, <1>4 DEF StartVerify

\* The steps of the other requests, which hold no code or only look on.
LEMMA OtherUse ==
  ASSUME TypeInv, TypeInv', UseInv, NEW r \in Requests,
         \/ StartRegister(r) \/ FindRecent(r) \/ CreateCode(r) \/ SendCode(r)
         \/ FindUser(r) \/ FindOwner(r) \/ CreateUser(r) \/ GiveRole(r) \/ Issue(r) \/ Fail(r)
         \/ \E p \in Purposes : StartRequest(r, p)
  PROVE  UseInv'
<1>1. UNCHANGED shared
  BY DEF StartRegister, FindRecent, CreateCode, SendCode, FindUser, FindOwner, CreateUser,
         GiveRole, Issue, Fail, StartRequest
<1>2. /\ DOMAIN codes \subseteq DOMAIN codes'
      /\ \A c \in DOMAIN codes : codes'[c] = codes[c]
      /\ \A c \in DOMAIN codes' \ DOMAIN codes : codes'[c].attempts = 0
  <2>1. CASE CreateCode(r)
    <3> DEFINE new == [purpose |-> job[r].purpose, at |-> now, consumed |-> FALSE, attempts |-> 0]
    <3>1. codes' = Append(codes, new) /\ new.attempts = 0 /\ codes \in Seq(CodeType)
      BY <2>1, CodeWrites DEF TypeInv
    <3> HIDE DEF new
    <3> QED BY <3>1
  <2>2. CASE UNCHANGED codes
    BY <2>2
  <2> QED BY <2>1, <2>2 DEF StartRegister, FindRecent, SendCode, FindUser, FindOwner, CreateUser,
         GiveRole, Issue, Fail, StartRequest
<1>3. /\ \A o \in Requests \ {r} : pc'[o] = pc[o] /\ job'[o] = job[o]
      /\ pc'[r] \in Holding => pc[r] = "findOwner" /\ pc'[r] = "reset"
  BY DEF StartRegister, FindRecent, CreateCode, SendCode, FindUser, FindOwner, CreateUser,
         GiveRole, Issue, Fail, StartRequest, Starts, At, Holding, TypeInv
<1>4. \/ job'[r] = job[r]
      \/ ~job'[r].used /\ pc'[r] \notin Holding
  <2>1. CASE UNCHANGED job
    BY <2>1
  <2>2. CASE StartRegister(r) \/ \E p \in Purposes : StartRequest(r, p)
    <3>1. PICK kind \in {"register", "request"}, p \in Purposes \cup {None},
               l \in {"createUser", "findRecent", "refused"} : Starts(r, kind, p, l)
      <4>1. ASSUME StartRegister(r)
            PROVE  \E l \in {"createUser", "refused"} : Starts(r, "register", None, l)
        BY <4>1 DEF StartRegister
      <4>2. ASSUME NEW p \in Purposes, StartRequest(r, p)
            PROVE  \E l \in {"findRecent", "refused"} : Starts(r, "request", p, l)
        BY <4>2 DEF StartRequest
      <4> QED BY <2>2, <4>1, <4>2
    <3>2. job'[r] = [NoJob EXCEPT !.kind = kind, !.purpose = p] /\ pc'[r] = l
      BY <3>1 DEF Starts, TypeInv
    <3> QED BY <3>2 DEF NoJob, Holding
  <2> QED BY <2>1, <2>2 DEF FindRecent, CreateCode, SendCode, FindUser, FindOwner, CreateUser,
         GiveRole, Issue, Fail
<1>5. \A o \in Requests :
        /\ pc'[o] \in Holding => pc[o] \in Holding /\ job'[o] = job[o]
        /\ pc'[o] = "count" => pc[o] = "count"
        /\ job'[o].used => job'[o] = job[o]
  BY <1>3, <1>4 DEF Holding
<1> QED BY <1>1, <1>2, <1>5, UseUntouched

LEMMA StepUse == TypeInv /\ TypeInv' /\ UseInv /\ [Next]_vars => UseInv'
<1> SUFFICES ASSUME TypeInv, TypeInv', UseInv, [Next]_vars PROVE UseInv'
  OBVIOUS
<1>1. ASSUME NEW r \in Requests,
             \/ \E p \in Purposes : StartRequest(r, p)
             \/ FindRecent(r) \/ CreateCode(r) \/ SendCode(r)
             \/ \E p \in Purposes, typed \in 0..Len(codes) :
                  StartVerify(r, "verify", p, typed)
             \/ \E typed \in 0..Len(codes) : StartVerify(r, "reset", "RESET_PASSWORD", typed)
             \/ CountAttempt(r) \/ Consume(r) \/ FindUser(r) \/ FindOwner(r) \/ Reset(r)
             \/ StartRegister(r) \/ CreateUser(r) \/ GiveRole(r) \/ Issue(r)
             \/ Fail(r)
      PROVE  UseInv'
  <2>1. CASE \/ \E p \in Purposes, typed \in 0..Len(codes) :
                  StartVerify(r, "verify", p, typed)
             \/ \E typed \in 0..Len(codes) : StartVerify(r, "reset", "RESET_PASSWORD", typed)
    BY <2>1, VerifyUse DEF Purposes
  <2>2. CASE CountAttempt(r) \/ Consume(r) \/ Reset(r)
    BY <2>2, WriteUse
  <2>3. CASE \/ StartRegister(r) \/ FindRecent(r) \/ CreateCode(r) \/ SendCode(r)
             \/ FindUser(r) \/ FindOwner(r) \/ CreateUser(r) \/ GiveRole(r) \/ Issue(r) \/ Fail(r)
             \/ \E p \in Purposes : StartRequest(r, p)
    BY <2>3, OtherUse
  <2> QED BY <1>1, <2>1, <2>2, <2>3
<1>2. CASE UNCHANGED <<pc, job, codes, shared>>
  BY <1>2, UseUntouched
<1>3. CASE AdministratorCreates \/ AdministratorRemoves \/ Tick \/ UNCHANGED vars
  <2>1. UNCHANGED <<pc, job, codes, shared>>
    BY <1>3 DEF AdministratorCreates, AdministratorRemoves, Tick, vars
  <2> QED BY <1>2, <2>1
<1> QED BY <1>1, <1>3 DEF Next

LEMMA UseHolds == Spec => [](TypeInv /\ UseInv)
<1>1. Init => TypeInv /\ UseInv
  BY InitType, InitUse
<1>2. TypeInv /\ UseInv /\ [Next]_vars => (TypeInv /\ UseInv)'
  BY StepType, StepUse
<1> QED BY <1>1, <1>2, PTL DEF Spec

(***************************************************************************)
(* For any number of requests and codes: a code logs in, makes an account  *)
(* or sets a password once, unless two requests had found it before either *)
(* was through (verifyOtp and resetPassword of AuthService).               *)
(***************************************************************************)
THEOREM CodesWorkOnce == Spec => []OneUsePerCode
<1>1. TypeInv /\ UseInv => OneUsePerCode
  BY DEF UseInv
<1> QED BY <1>1, UseHolds, PTL

\* A request that has found a code with verifyOtp and not used it is at its
\* write or has ended; the attempts of a code are those it was refused for.
MissInv ==
  /\ \A r \in Requests :
       /\ job[r].kind = "verify" /\ job[r].code # 0 /\ ~job[r].used =>
            pc[r] \in {"consume", "count", "refused", "failed"}
       /\ pc[r] = "count" => job[r].kind = "verify"
  /\ \A c \in DOMAIN codes :
       IsFiniteSet(WrongAnswers(c)) /\ Cardinality(WrongAnswers(c)) = codes[c].attempts

LEMMA InitMiss == Init => MissInv
BY DEF Init, MissInv, NoJob

\* Steps after which the same requests have been told of a wrong code.
LEMMA MissUntouched ==
  ASSUME TypeInv, MissInv, NEW r \in Requests,
         \A o \in Requests \ {r} : pc'[o] = pc[o] /\ job'[o] = job[o],
         pc[r] # "refused",
         job'[r].kind = "verify" /\ job'[r].code # 0 /\ ~job'[r].used =>
           pc'[r] \in {"consume", "count", "failed"},
         pc'[r] = "count" => job'[r].kind = "verify",
         DOMAIN codes \subseteq DOMAIN codes',
         \A c \in DOMAIN codes : codes'[c].attempts = codes[c].attempts,
         \A c \in DOMAIN codes' \ DOMAIN codes :
           codes'[c].attempts = 0 /\ c # 0 /\ \A o \in Requests : job'[o].code # c,
         \A c \in DOMAIN codes : c # 0
  PROVE  MissInv'
<1>1. ASSUME NEW o \in Requests
      PROVE  /\ job'[o].kind = "verify" /\ job'[o].code # 0 /\ ~job'[o].used =>
                  pc'[o] \in {"consume", "count", "refused", "failed"}
             /\ pc'[o] = "count" => job'[o].kind = "verify"
  BY DEF MissInv
<1>2. ASSUME NEW c \in DOMAIN codes PROVE WrongAnswers(c)' = WrongAnswers(c)
  <2>1. r \notin WrongAnswers(c) /\ r \notin WrongAnswers(c)'
    BY DEF WrongAnswers
  <2> QED BY <2>1 DEF WrongAnswers
<1>3. ASSUME NEW c \in DOMAIN codes'
      PROVE  /\ IsFiniteSet(WrongAnswers(c)')
             /\ Cardinality(WrongAnswers(c)') = codes'[c].attempts
  <2>1. CASE c \in DOMAIN codes
    BY <1>2, <2>1 DEF MissInv
  <2>2. CASE c \notin DOMAIN codes
    <3>1. WrongAnswers(c)' = {}
      BY <2>2 DEF WrongAnswers
    <3> QED BY <2>2, <3>1, FS_EmptySet
  <2> QED BY <2>1, <2>2
<1> QED BY <1>1, <1>3 DEF MissInv

LEMMA CountMiss ==
  ASSUME TypeInv, UseInv, MissInv, NEW r \in Requests, CountAttempt(r)
  PROVE  MissInv'
<1>0. PICK c : c = job[r].code
  OBVIOUS
<1>1. /\ pc[r] = "count" /\ pc'[r] = "refused" /\ job' = job
      /\ \A o \in Requests \ {r} : pc'[o] = pc[o]
  BY DEF CountAttempt, At, TypeInv
<1>2. /\ c \in DOMAIN codes /\ DOMAIN codes' = DOMAIN codes
      /\ \A d \in DOMAIN codes \ {c} : codes'[d] = codes[d]
      /\ codes'[c].attempts = codes[c].attempts + 1
  <2>1. job[r].code \in DOMAIN codes
    BY <1>1 DEF TypeInv, JobsFit, Holding
  <2> QED BY <1>0, <2>1, CodeWrites
<1>3. job[r].kind = "verify" /\ ~job[r].used
  BY <1>1 DEF MissInv, UseInv, Holding
<1>4. r \notin WrongAnswers(c) /\ WrongAnswers(c)' = WrongAnswers(c) \cup {r}
  BY <1>0, <1>1, <1>3 DEF WrongAnswers
<1>5. ASSUME NEW d \in DOMAIN codes, d # c PROVE WrongAnswers(d)' = WrongAnswers(d)
  BY <1>0, <1>1, <1>5 DEF WrongAnswers
<1>6. IsFiniteSet(WrongAnswers(c)) /\ Cardinality(WrongAnswers(c)) = codes[c].attempts
  BY <1>2 DEF MissInv
<1>7. /\ IsFiniteSet(WrongAnswers(c)')
      /\ Cardinality(WrongAnswers(c)') = codes'[c].attempts
  <2>1. IsFiniteSet(WrongAnswers(c) \cup {r})
        /\ Cardinality(WrongAnswers(c) \cup {r}) = Cardinality(WrongAnswers(c)) + 1
    BY <1>4, <1>6, FS_AddElement
  <2> QED BY <1>2, <1>4, <1>6, <2>1
<1>8. \A d \in DOMAIN codes' :
        IsFiniteSet(WrongAnswers(d)') /\ Cardinality(WrongAnswers(d)') = codes'[d].attempts
  <2> SUFFICES ASSUME NEW d \in DOMAIN codes
               PROVE  /\ IsFiniteSet(WrongAnswers(d)')
                      /\ Cardinality(WrongAnswers(d)') = codes'[d].attempts
    BY <1>2, Zenon
  <2>1. CASE d = c
    BY <1>7, <2>1
  <2>2. CASE d # c
    <3>1. codes'[d] = codes[d] /\ WrongAnswers(d)' = WrongAnswers(d)
      BY <1>2, <1>5, <2>2
    <3> QED BY <3>1 DEF MissInv
  <2> QED BY <2>1, <2>2
<1>9. \A o \in Requests :
        /\ job'[o].kind = "verify" /\ job'[o].code # 0 /\ ~job'[o].used =>
             pc'[o] \in {"consume", "count", "refused", "failed"}
        /\ pc'[o] = "count" => job'[o].kind = "verify"
  BY <1>1 DEF MissInv
<1> QED BY <1>8, <1>9 DEF MissInv

LEMMA VerifyMiss ==
  ASSUME TypeInv, MissInv, NEW r \in Requests, NEW kind \in {"verify", "reset"},
         NEW p \in Purposes, NEW typed, StartVerify(r, kind, p, typed)
  PROVE  MissInv'
<1>1. pc[r] = "idle" /\ UNCHANGED codes /\ \A c \in DOMAIN codes : c # 0
  BY RowType DEF StartVerify, TypeInv
<1>2. /\ \A o \in Requests \ {r} : pc'[o] = pc[o] /\ job'[o] = job[o]
      /\ \/ job'[r].code = 0 /\ pc'[r] = "refused"
         \/ /\ job'[r].kind = kind
            /\ pc'[r] \in IF kind = "verify" THEN {"consume", "count"} ELSE {"findOwner", "refused"}
  <2>1. CASE Starts(r, kind, p, "refused")
    <3>1. job' = [job EXCEPT ![r] = [NoJob EXCEPT !.kind = kind, !.purpose = p]]
          /\ pc' = [pc EXCEPT ![r] = "refused"]
      BY <2>1 DEF Starts
    <3>2. [NoJob EXCEPT !.kind = kind, !.purpose = p].code = 0
      BY DEF NoJob
    <3> QED BY <3>1, <3>2 DEF TypeInv
  <2>2. ASSUME NEW c,
               job' = [job EXCEPT ![r] = [kind |-> kind, purpose |-> p, code |-> c, used |-> FALSE]],
               pc' = [pc EXCEPT ![r] =
                 CASE typed = c -> IF kind = "verify" THEN "consume" ELSE "findOwner"
                   [] typed # c -> IF kind = "verify" THEN "count" ELSE "refused"]
        PROVE  /\ \A o \in Requests \ {r} : pc'[o] = pc[o] /\ job'[o] = job[o]
               /\ job'[r].kind = kind
               /\ pc'[r] \in IF kind = "verify" THEN {"consume", "count"} ELSE {"findOwner", "refused"}
    <3>1. /\ \A o \in Requests \ {r} : pc'[o] = pc[o] /\ job'[o] = job[o]
          /\ job'[r].kind = kind
      BY <2>2 DEF TypeInv
    <3>2. pc'[r] = CASE typed = c -> IF kind = "verify" THEN "consume" ELSE "findOwner"
                     [] typed # c -> IF kind = "verify" THEN "count" ELSE "refused"
      BY <2>2 DEF TypeInv
    <3>3. CASE typed = c
      BY <3>1, <3>2, <3>3
    <3>4. CASE typed # c
      BY <3>1, <3>2, <3>4
    <3> QED BY <3>3, <3>4
  <2> QED BY <2>1, <2>2 DEF StartVerify
<1> QED BY <1>1, <1>2, MissUntouched

\* The steps that tell nobody of a wrong code.
LEMMA OtherMiss ==
  ASSUME TypeInv, UseInv, MissInv, NEW r \in Requests,
         \/ StartRegister(r) \/ FindRecent(r) \/ CreateCode(r) \/ SendCode(r)
         \/ Consume(r) \/ Reset(r)
         \/ FindUser(r) \/ FindOwner(r) \/ CreateUser(r) \/ GiveRole(r) \/ Issue(r) \/ Fail(r)
         \/ \E p \in Purposes : StartRequest(r, p)
  PROVE  MissInv'
<1>1. \A c \in DOMAIN codes : c # 0
  BY RowType DEF TypeInv
<1>2. /\ DOMAIN codes \subseteq DOMAIN codes'
      /\ \A c \in DOMAIN codes : codes'[c].attempts = codes[c].attempts
      /\ \A c \in DOMAIN codes' \ DOMAIN codes :
           codes'[c].attempts = 0 /\ c # 0 /\ \A o \in Requests : job'[o].code # c
  <2>1. CASE CreateCode(r)
    <3> DEFINE new == [purpose |-> job[r].purpose, at |-> now, consumed |-> FALSE, attempts |-> 0]
    <3>1. codes' = Append(codes, new) /\ new.attempts = 0 /\ codes \in Seq(CodeType) /\ job' = job
      BY <2>1 DEF CreateCode, TypeInv
    <3> HIDE DEF new
    <3>2. /\ DOMAIN codes' = DOMAIN codes \cup {Len(codes) + 1} /\ Len(codes) + 1 # 0
          /\ codes'[Len(codes) + 1].attempts = 0
          /\ \A c \in DOMAIN codes : codes'[c] = codes[c] /\ c # Len(codes) + 1
      BY <3>1
    <3>3. \A o \in Requests : job'[o].code # Len(codes) + 1
      BY <3>1, <3>2 DEF TypeInv
    <3> QED BY <3>2, <3>3
  <2>2. CASE Consume(r) \/ Reset(r)
    <3>1. job[r].code \in DOMAIN codes
      BY <2>2 DEF Consume, Reset, At, TypeInv, JobsFit, Holding
    <3>2. /\ DOMAIN codes' = DOMAIN codes
          /\ \A c \in DOMAIN codes \ {job[r].code} : codes'[c] = codes[c]
          /\ codes'[job[r].code].attempts = codes[job[r].code].attempts
      BY <2>2, <3>1, CodeWrites
    <3> QED BY <3>2
  <2>3. CASE UNCHANGED codes
    BY <2>3
  <2> QED BY <2>1, <2>2, <2>3 DEF StartRegister, FindRecent, SendCode, FindUser, FindOwner,
         CreateUser, GiveRole, Issue, Fail, StartRequest
<1>3. /\ \A o \in Requests \ {r} : pc'[o] = pc[o] /\ job'[o] = job[o]
      /\ pc[r] # "refused" /\ pc'[r] # "count"
  BY DEF StartRegister, FindRecent, CreateCode, SendCode, Consume, Reset, FindUser, FindOwner,
     CreateUser, GiveRole, Issue, Fail, StartRequest, Starts, At, Resting, TypeInv
<1>4. job'[r].kind = "verify" /\ job'[r].code # 0 /\ ~job'[r].used => pc'[r] = "failed"
  <2>1. CASE Consume(r) \/ Reset(r)
    <3>1. job'[r].used
      BY <2>1 DEF Consume, Reset, TypeInv, JobType
    <3> QED BY <3>1
  <2>2. CASE StartRegister(r)
    <3>1. job'[r] = [NoJob EXCEPT !.kind = "register", !.purpose = None]
      BY <2>2 DEF StartRegister, Starts, TypeInv
    <3> QED BY <3>1 DEF NoJob
  <2>3. ASSUME NEW p \in Purposes, StartRequest(r, p)
        PROVE  job'[r].code = 0
    <3>1. job'[r] = [NoJob EXCEPT !.kind = "request", !.purpose = p]
      BY <2>3 DEF StartRequest, Starts, TypeInv
    <3> QED BY <3>1 DEF NoJob
  <2>4. CASE Fail(r)
    BY <2>4 DEF Fail, TypeInv
  <2>5. CASE \/ FindRecent(r) \/ CreateCode(r) \/ SendCode(r) \/ FindUser(r) \/ FindOwner(r)
             \/ CreateUser(r) \/ GiveRole(r) \/ Issue(r)
    BY <2>5 DEF FindRecent, CreateCode, SendCode, FindUser, FindOwner, CreateUser, GiveRole,
       Issue, At, MissInv
  <2> QED BY <2>1, <2>2, <2>3, <2>4, <2>5
<1> QED BY <1>1, <1>2, <1>3, <1>4, MissUntouched

LEMMA StepMiss == TypeInv /\ UseInv /\ MissInv /\ [Next]_vars => MissInv'
<1> SUFFICES ASSUME TypeInv, UseInv, MissInv, [Next]_vars PROVE MissInv'
  OBVIOUS
<1>1. ASSUME NEW r \in Requests,
             \/ \E p \in Purposes : StartRequest(r, p)
             \/ FindRecent(r) \/ CreateCode(r) \/ SendCode(r)
             \/ \E p \in Purposes, typed \in 0..Len(codes) : StartVerify(r, "verify", p, typed)
             \/ \E typed \in 0..Len(codes) : StartVerify(r, "reset", "RESET_PASSWORD", typed)
             \/ CountAttempt(r) \/ Consume(r) \/ FindUser(r) \/ FindOwner(r) \/ Reset(r)
             \/ StartRegister(r) \/ CreateUser(r) \/ GiveRole(r) \/ Issue(r)
             \/ Fail(r)
      PROVE  MissInv'
  <2>1. CASE \/ \E p \in Purposes, typed \in 0..Len(codes) : StartVerify(r, "verify", p, typed)
             \/ \E typed \in 0..Len(codes) : StartVerify(r, "reset", "RESET_PASSWORD", typed)
    BY <2>1, VerifyMiss DEF Purposes
  <2>2. CASE CountAttempt(r)
    BY <2>2, CountMiss
  <2>3. CASE \/ StartRegister(r) \/ FindRecent(r) \/ CreateCode(r) \/ SendCode(r)
             \/ Consume(r) \/ Reset(r)
             \/ FindUser(r) \/ FindOwner(r) \/ CreateUser(r) \/ GiveRole(r) \/ Issue(r) \/ Fail(r)
             \/ \E p \in Purposes : StartRequest(r, p)
    BY <2>3, OtherMiss
  <2> QED BY <1>1, <2>1, <2>2, <2>3
<1>2. CASE AdministratorCreates \/ AdministratorRemoves \/ Tick \/ UNCHANGED vars
  <2>1. UNCHANGED <<pc, job, codes>>
    BY <1>2 DEF AdministratorCreates, AdministratorRemoves, Tick, vars
  <2> QED BY <2>1 DEF MissInv, WrongAnswers
<1> QED BY <1>1, <1>2 DEF Next

(***************************************************************************)
(* For any limit and any number of requests: verifyOtp of AuthService      *)
(* tells no more requests than the limit that they typed a wrong code for  *)
(* one code, unless two had compared it at once.  A password reset looks   *)
(* at no attempts and counts none, and the theorem says nothing of it.     *)
(***************************************************************************)
THEOREM AttemptsStayBounded == Spec => []AttemptsBounded
<1>1. Init => TypeInv /\ UseInv /\ MissInv
  BY InitType, InitUse, InitMiss
<1>2. TypeInv /\ UseInv /\ MissInv /\ [Next]_vars => (TypeInv /\ UseInv /\ MissInv)'
  BY StepType, StepUse, StepMiss
<1>3. UseInv /\ MissInv => AttemptsBounded
  BY DEF UseInv, MissInv, AttemptsBounded, CountedBounded
<1> QED BY <1>1, <1>2, <1>3, PTL DEF Spec

-----------------------------------------------------------------------------
(* The distance of two codes, and the role *)

\* Whoever is about to make a code is alone with its purpose, and the open
\* codes of the purpose are old enough.
SpaceInv ==
  /\ CodesAreSpaced
  /\ \A r \in Requests : pc[r] = "create" /\ job[r].purpose \notin rushed =>
       /\ \A o \in Requests : pc[o] = "create" /\ job[o].purpose = job[r].purpose => o = r
       /\ \A c \in Open(job[r].purpose) : codes[c].at + Cooldown <= now

LEMMA InitSpace == Init => SpaceInv
BY DEF Init, SpaceInv, CodesAreSpaced

\* Steps that make no code and bring nobody to making one.
LEMMA SpaceUntouched ==
  ASSUME TypeInv, TypeInv', SpaceInv, UNCHANGED rushed, now' >= now,
         DOMAIN codes' = DOMAIN codes,
         \A c \in DOMAIN codes :
           /\ codes'[c].purpose = codes[c].purpose /\ codes'[c].at = codes[c].at
           /\ codes[c].consumed => codes'[c].consumed,
         \A r \in Requests : pc'[r] = "create" => pc[r] = "create" /\ job'[r] = job[r]
  PROVE  SpaceInv'
<1>1. CodesAreSpaced'
  BY DEF SpaceInv, CodesAreSpaced
<1>2. \A p : Open(p)' \subseteq Open(p)
  BY DEF Open
<1>3. ASSUME NEW r \in Requests, pc'[r] = "create", job'[r].purpose \notin rushed'
      PROVE  /\ \A o \in Requests : pc'[o] = "create" /\ job'[o].purpose = job'[r].purpose => o = r
             /\ \A c \in Open(job[r].purpose)' : codes'[c].at + Cooldown <= now'
  <2>1. pc[r] = "create" /\ job'[r] = job[r] /\ job[r].purpose \notin rushed
    BY <1>3
  <2>2. ASSUME NEW c \in Open(job[r].purpose)' PROVE codes'[c].at + Cooldown <= now'
    <3>1. c \in Open(job[r].purpose) /\ c \in DOMAIN codes
      BY <2>1 DEF Open
    <3>2. codes[c].at + Cooldown <= now /\ codes[c].at \in Nat /\ now \in Nat /\ now' \in Nat
      BY <2>1, <3>1, RowType, SMTT(30) DEF SpaceInv, TypeInv, CodeType
    <3> QED BY <3>1, <3>2
  <2> QED BY <2>1, <2>2 DEF SpaceInv
<1> QED BY <1>1, <1>3 DEF SpaceInv

\* Of the requests that find no recent code, the first comes alone.
LEMMA FindSpace ==
  ASSUME TypeInv, TypeInv', SpaceInv, NEW r \in Requests, FindRecent(r)
  PROVE  SpaceInv'
<1> DEFINE p == job[r].purpose
<1>1. /\ pc[r] = "findRecent" /\ UNCHANGED <<job, codes, now>>
      /\ pc' = [pc EXCEPT ![r] = IF Recent(p) = {} THEN "create" ELSE "refused"]
      /\ rushed' = IF \E o \in Requests : pc[o] = "create" /\ job[o].purpose = p
                     THEN rushed \cup {p} ELSE rushed
  BY DEF FindRecent, At
<1> HIDE DEF p
<1>2. /\ rushed \subseteq rushed'
      /\ p \notin rushed' => \A o \in Requests : pc[o] = "create" => job[o].purpose # p
  BY <1>1
<1>3. /\ \A o \in Requests \ {r} : pc'[o] = pc[o]
      /\ pc'[r] = "create" => Recent(p) = {}
  BY <1>1 DEF TypeInv
<1>4. CodesAreSpaced'
  BY <1>1, <1>2 DEF SpaceInv, CodesAreSpaced
<1>5. \A q : Open(q)' = Open(q)
  BY <1>1 DEF Open
<1>6. ASSUME NEW q \in Requests, pc'[q] = "create", job[q].purpose \notin rushed'
      PROVE  /\ \A o \in Requests : pc'[o] = "create" /\ job[o].purpose = job[q].purpose => o = q
             /\ \A c \in Open(job[q].purpose) : codes[c].at + Cooldown <= now
  <2>1. CASE q = r
    <3>1. \A c \in Open(p) : ~(codes[c].at + Cooldown > now)
      BY <1>3, <1>6, <2>1 DEF Recent
    <3>2. \A c \in Open(p) : codes[c].at \in Nat /\ now \in Nat
      BY RowType DEF TypeInv, CodeType, Open
    <3>3. \A c \in Open(p) : codes[c].at + Cooldown <= now
      BY <3>1, <3>2
    <3> QED BY <1>2, <1>3, <1>6, <2>1, <3>3 DEF p
  <2>2. CASE q # r
    <3>1. pc[q] = "create" /\ job[q].purpose \notin rushed
      BY <1>2, <1>3, <1>6, <2>2
    <3>2. job[q].purpose # p
      BY <1>2, <1>6, <3>1
    <3> QED BY <1>3, <3>1, <3>2 DEF SpaceInv, p
  <2> QED BY <2>1, <2>2
<1> QED BY <1>1, <1>4, <1>5, <1>6 DEF SpaceInv

\* The new code is later than the open ones of its purpose by the cooldown.
LEMMA CreateSpace ==
  ASSUME TypeInv, TypeInv', SpaceInv, NEW r \in Requests, CreateCode(r)
  PROVE  SpaceInv'
<1> DEFINE p == job[r].purpose
           n == Len(codes) + 1
<1>1. /\ pc[r] = "create" /\ pc' = [pc EXCEPT ![r] = "send"] /\ UNCHANGED <<job, now, rushed>>
  BY DEF CreateCode, At
<1>2. /\ DOMAIN codes' = DOMAIN codes \cup {n} /\ n \in Nat
      /\ codes'[n].purpose = p /\ codes'[n].at = now
      /\ \A c \in DOMAIN codes : codes'[c] = codes[c] /\ c < n
  <2> DEFINE new == [purpose |-> p, at |-> now, consumed |-> FALSE, attempts |-> 0]
  <2>1. codes' = Append(codes, new) /\ codes \in Seq(CodeType)
    BY CodeWrites DEF TypeInv
  <2>2. new.purpose = p /\ new.at = now
    OBVIOUS
  <2> HIDE DEF new, p
  <2> QED BY <2>1, <2>2
<1>3. /\ pc'[r] # "create"
      /\ \A o \in Requests \ {r} : pc'[o] = pc[o]
  BY <1>1 DEF TypeInv
<1> HIDE DEF n
<1>4. CodesAreSpaced'
  <2> SUFFICES ASSUME NEW i \in DOMAIN codes', NEW j \in DOMAIN codes', i < j,
                      codes'[i].purpose = codes'[j].purpose, codes'[i].purpose \notin rushed
               PROVE  codes'[i].consumed \/ codes'[i].at + Cooldown <= codes'[j].at
    BY <1>1 DEF CodesAreSpaced
  <2>1. i \in Nat /\ j \in Nat
    BY RowType DEF TypeInv
  <2>2. CASE j \in DOMAIN codes
    <3>1. i \in DOMAIN codes
      BY <1>2, <2>1, <2>2
    <3> QED BY <1>2, <2>2, <3>1 DEF SpaceInv, CodesAreSpaced
  <2>3. CASE j = n
    <3>1. i \in DOMAIN codes /\ codes[i].purpose = p /\ p \notin rushed
      BY <1>2, <2>1, <2>3
    <3>2. codes[i].consumed \/ codes[i].at + Cooldown <= now
      BY <1>1, <3>1 DEF SpaceInv, Open
    <3> QED BY <1>2, <2>3, <3>1, <3>2
  <2> QED BY <1>2, <2>2, <2>3
<1>5. ASSUME NEW q \in Requests, pc'[q] = "create", job[q].purpose \notin rushed
      PROVE  /\ \A o \in Requests : pc'[o] = "create" /\ job[o].purpose = job[q].purpose => o = q
             /\ \A c \in Open(job[q].purpose)' : codes'[c].at + Cooldown <= now
  <2>1. q # r /\ pc[q] = "create"
    BY <1>3, <1>5
  <2>2. job[q].purpose # p
    BY <1>1, <1>5, <2>1 DEF SpaceInv
  <2>3. \A c \in Open(job[q].purpose)' : c \in Open(job[q].purpose) /\ codes'[c] = codes[c]
    BY <1>1, <1>2, <2>2 DEF Open
  <2> QED BY <1>3, <1>5, <2>1, <2>3 DEF SpaceInv
<1> QED BY <1>1, <1>4, <1>5 DEF SpaceInv

\* Every other step of a request makes no code and leads to no making of one.
LEMMA OtherSpace ==
  ASSUME TypeInv, TypeInv', SpaceInv, NEW r \in Requests,
         \/ SendCode(r) \/ CountAttempt(r) \/ Consume(r) \/ FindUser(r) \/ FindOwner(r)
         \/ Reset(r) \/ StartRegister(r) \/ CreateUser(r) \/ GiveRole(r) \/ Issue(r) \/ Fail(r)
         \/ \E p \in Purposes : StartRequest(r, p)
         \/ \E kind \in {"verify", "reset"}, p \in Purposes : \E typed : StartVerify(r, kind, p, typed)
  PROVE  SpaceInv'
<1>1. /\ UNCHANGED <<rushed, now>>
      /\ \A o \in Requests \ {r} : pc'[o] = pc[o] /\ job'[o] = job[o]
      /\ pc'[r] # "create"
  <2>1. CASE \E kind \in {"verify", "reset"}, p \in Purposes : \E typed : StartVerify(r, kind, p, typed)
    <3>1. PICK kind \in {"verify", "reset"}, p \in Purposes : \E typed : StartVerify(r, kind, p, typed)
      BY <2>1
    <3>2. PICK typed : StartVerify(r, kind, p, typed)
      BY <3>1
    <3>3. \/ Starts(r, kind, p, "refused")
          \/ \E j, l : job' = [job EXCEPT ![r] = j] /\ pc' = [pc EXCEPT ![r] = l] /\ l # "create"
      BY <3>2 DEF StartVerify
    <3>4. \E j, l : job' = [job EXCEPT ![r] = j] /\ pc' = [pc EXCEPT ![r] = l] /\ l # "create"
      BY <3>3 DEF Starts
    <3>5. UNCHANGED <<rushed, now>>
      BY <3>2 DEF StartVerify
    <3> QED BY <3>4, <3>5 DEF TypeInv
  <2>2. CASE StartRegister(r) \/ \E p \in Purposes : StartRequest(r, p)
    BY <2>2 DEF StartRegister, StartRequest, Starts, TypeInv
  <2>3. CASE \/ SendCode(r) \/ CountAttempt(r) \/ Consume(r) \/ FindUser(r) \/ FindOwner(r)
             \/ Reset(r) \/ CreateUser(r) \/ GiveRole(r) \/ Issue(r) \/ Fail(r)
    BY <2>3 DEF SendCode, CountAttempt, Consume, FindUser, FindOwner, Reset, CreateUser, GiveRole,
         Issue, Fail, At, TypeInv
  <2> QED BY <2>1, <2>2, <2>3
<1>2. /\ DOMAIN codes' = DOMAIN codes
      /\ \A c \in DOMAIN codes :
           /\ codes'[c].purpose = codes[c].purpose /\ codes'[c].at = codes[c].at
           /\ codes[c].consumed => codes'[c].consumed
  <2>1. CASE CountAttempt(r) \/ Consume(r) \/ Reset(r)
    <3>1. ASSUME NEW c \in DOMAIN codes, codes[c].consumed PROVE codes'[c].consumed
      <4>1. CASE c # job[r].code
        BY <2>1, <3>1, <4>1, CodeWrites
      <4>2. CASE c = job[r].code
        BY <2>1, <3>1, <4>2, CodeWrites
      <4> QED BY <4>1, <4>2
    <3> QED BY <2>1, <3>1, CodeWrites
  <2>2. CASE UNCHANGED codes
    BY <2>2
  <2>3. CASE \/ SendCode(r) \/ FindUser(r) \/ FindOwner(r) \/ StartRegister(r)
             \/ CreateUser(r) \/ GiveRole(r) \/ Issue(r) \/ Fail(r)
             \/ \E p \in Purposes : StartRequest(r, p)
             \/ \E kind \in {"verify", "reset"}, p \in Purposes : \E typed : StartVerify(r, kind, p, typed)
    BY <2>2, <2>3 DEF SendCode, FindUser, FindOwner, StartRegister, CreateUser, GiveRole, Issue,
         Fail, StartRequest, StartVerify
  <2> QED BY <2>1, <2>3
<1>3. now' >= now
  BY <1>1 DEF TypeInv
<1>4. \A q \in Requests : pc'[q] = "create" => pc[q] = "create" /\ job'[q] = job[q]
  BY <1>1
<1>5. UNCHANGED rushed
  BY <1>1
<1> QED BY <1>2, <1>3, <1>4, <1>5, SpaceUntouched

LEMMA StepSpace == TypeInv /\ TypeInv' /\ SpaceInv /\ [Next]_vars => SpaceInv'
<1> SUFFICES ASSUME TypeInv, TypeInv', SpaceInv, [Next]_vars PROVE SpaceInv'
  OBVIOUS
<1>1. ASSUME NEW r \in Requests,
             \/ \E p \in Purposes : StartRequest(r, p)
             \/ FindRecent(r) \/ CreateCode(r) \/ SendCode(r)
             \/ \E p \in Purposes, typed \in 0..Len(codes) :
                  StartVerify(r, "verify", p, typed)
             \/ \E typed \in 0..Len(codes) : StartVerify(r, "reset", "RESET_PASSWORD", typed)
             \/ CountAttempt(r) \/ Consume(r) \/ FindUser(r) \/ FindOwner(r) \/ Reset(r)
             \/ StartRegister(r) \/ CreateUser(r) \/ GiveRole(r) \/ Issue(r)
             \/ Fail(r)
      PROVE  SpaceInv'
  <2>1. CASE \/ \E p \in Purposes, typed \in 0..Len(codes) :
                  StartVerify(r, "verify", p, typed)
             \/ \E typed \in 0..Len(codes) : StartVerify(r, "reset", "RESET_PASSWORD", typed)
    <3>1. \E kind \in {"verify", "reset"}, p \in Purposes : \E typed : StartVerify(r, kind, p, typed)
      BY <2>1 DEF Purposes
    <3> QED BY <3>1, OtherSpace
  <2>2. CASE FindRecent(r)
    BY <2>2, FindSpace
  <2>3. CASE CreateCode(r)
    BY <2>3, CreateSpace
  <2>4. CASE \/ SendCode(r) \/ CountAttempt(r) \/ Consume(r) \/ FindUser(r) \/ FindOwner(r)
             \/ Reset(r) \/ StartRegister(r) \/ CreateUser(r) \/ GiveRole(r) \/ Issue(r) \/ Fail(r)
             \/ \E p \in Purposes : StartRequest(r, p)
    BY <2>4, OtherSpace
  <2> QED BY <1>1, <2>1, <2>2, <2>3, <2>4
<1>2. CASE AdministratorCreates \/ AdministratorRemoves \/ Tick \/ UNCHANGED vars
  <2>1. UNCHANGED <<pc, job, codes, rushed>>
    BY <1>2 DEF AdministratorCreates, AdministratorRemoves, Tick, vars
  <2>2. now' >= now
    BY <1>2 DEF AdministratorCreates, AdministratorRemoves, Tick, vars, TypeInv
  <2> QED BY <2>1, <2>2, SpaceUntouched
<1> QED BY <1>1, <1>2 DEF Next

(***************************************************************************)
(* For any cooldown: two codes of a purpose lie a cooldown apart unless    *)
(* the earlier was consumed or two requests both found no recent code      *)
(* (requestOtp of AuthService).                                            *)
(***************************************************************************)
THEOREM CodesStaySpaced == Spec => []CodesAreSpaced
<1>1. Init => TypeInv /\ SpaceInv
  BY InitType, InitSpace
<1>2. TypeInv /\ SpaceInv /\ [Next]_vars => (TypeInv /\ SpaceInv)'
  BY StepType, StepSpace
<1>3. TypeInv /\ SpaceInv => CodesAreSpaced
  BY DEF SpaceInv
<1> QED BY <1>1, <1>2, <1>3, PTL DEF Spec

LEMMA StepRole == TypeInv /\ RegisteredHaveRole /\ [Next]_vars => RegisteredHaveRole'
<1> SUFFICES ASSUME TypeInv, RegisteredHaveRole, [Next]_vars PROVE RegisteredHaveRole'
  OBVIOUS
<1>1. ASSUME NEW r \in Requests, pc[r] # "giveRole", pc[r] # "failed", UNCHANGED <<role, maker>>,
             \A o \in Requests \ {r} : pc'[o] = pc[o]
      PROVE  RegisteredHaveRole'
  BY <1>1 DEF RegisteredHaveRole, TypeInv
<1>2. ASSUME NEW r \in Requests, CreateUser(r) PROVE RegisteredHaveRole'
  BY <1>2 DEF CreateUser, RegisteredHaveRole, TypeInv
<1>3. ASSUME NEW r \in Requests, GiveRole(r) \/ Fail(r) PROVE RegisteredHaveRole'
  BY <1>3 DEF GiveRole, Fail, At, RegisteredHaveRole, TypeInv
<1>4. ASSUME NEW r \in Requests,
             \/ \E p \in Purposes : StartRequest(r, p)
             \/ \E kind \in {"verify", "reset"}, p \in Purposes : \E typed : StartVerify(r, kind, p, typed)
             \/ StartRegister(r)
      PROVE  RegisteredHaveRole'
  BY <1>1, <1>4 DEF StartRequest, StartVerify, StartRegister, Starts, TypeInv
<1>5. ASSUME NEW r \in Requests,
             \/ FindRecent(r) \/ CreateCode(r) \/ SendCode(r) \/ CountAttempt(r) \/ Consume(r)
             \/ FindUser(r) \/ FindOwner(r) \/ Reset(r) \/ Issue(r)
      PROVE  RegisteredHaveRole'
  BY <1>1, <1>5 DEF FindRecent, CreateCode, SendCode, CountAttempt, Consume, FindUser, FindOwner,
     Reset, Issue, At, TypeInv
<1>6. CASE AdministratorCreates \/ AdministratorRemoves \/ Tick \/ UNCHANGED vars
  BY <1>6 DEF AdministratorCreates, AdministratorRemoves, Tick, vars, RegisteredHaveRole
<1>7. ASSUME NEW r \in Requests,
             \/ \E p \in Purposes, typed \in 0..Len(codes) :
                  StartVerify(r, "verify", p, typed)
             \/ \E typed \in 0..Len(codes) : StartVerify(r, "reset", "RESET_PASSWORD", typed)
      PROVE  RegisteredHaveRole'
  <2>1. \E kind \in {"verify", "reset"}, p \in Purposes : \E typed : StartVerify(r, kind, p, typed)
    BY <1>7 DEF Purposes
  <2> QED BY <1>4, <2>1
<1>8. ASSUME NEW r \in Requests,
             \/ \E p \in Purposes : StartRequest(r, p)
             \/ FindRecent(r) \/ CreateCode(r) \/ SendCode(r)
             \/ \E p \in Purposes, typed \in 0..Len(codes) :
                  StartVerify(r, "verify", p, typed)
             \/ \E typed \in 0..Len(codes) : StartVerify(r, "reset", "RESET_PASSWORD", typed)
             \/ CountAttempt(r) \/ Consume(r) \/ FindUser(r) \/ FindOwner(r) \/ Reset(r)
             \/ StartRegister(r) \/ CreateUser(r) \/ GiveRole(r) \/ Issue(r)
             \/ Fail(r)
      PROVE  RegisteredHaveRole'
  <2>1. CASE \/ \E p \in Purposes, typed \in 0..Len(codes) :
                  StartVerify(r, "verify", p, typed)
             \/ \E typed \in 0..Len(codes) : StartVerify(r, "reset", "RESET_PASSWORD", typed)
    BY <2>1, <1>7
  <2>2. CASE StartRegister(r) \/ \E p \in Purposes : StartRequest(r, p)
    BY <2>2, <1>4
  <2>3. CASE \/ FindRecent(r) \/ CreateCode(r) \/ SendCode(r) \/ CountAttempt(r) \/ Consume(r)
             \/ FindUser(r) \/ FindOwner(r) \/ Reset(r) \/ Issue(r)
    BY <2>3, <1>5
  <2>4. CASE CreateUser(r) \/ GiveRole(r) \/ Fail(r)
    BY <2>4, <1>2, <1>3
  <2> QED BY <1>8, <2>1, <2>2, <2>3, <2>4
<1> QED BY <1>6, <1>8 DEF Next

(***************************************************************************)
(* Whoever registered has the default role, or the request that inserted   *)
(* the user is before that statement or ended there (register and          *)
(* verifyOtp of AuthService).                                              *)
(***************************************************************************)
THEOREM RolesAreGiven == Spec => []RegisteredHaveRole
<1>1. Init => TypeInv /\ RegisteredHaveRole
  BY InitType DEF Init, RegisteredHaveRole
<1>2. TypeInv /\ RegisteredHaveRole /\ [Next]_vars => (TypeInv /\ RegisteredHaveRole)'
  BY StepType, StepRole
<1> QED BY <1>1, <1>2, PTL DEF Spec

=============================================================================
