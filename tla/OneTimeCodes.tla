---------------------------- MODULE OneTimeCodes ----------------------------
(***************************************************************************)
(* One-time codes and the account of one mobile number: AuthService        *)
(* requestOtp, verifyOtp, resetPassword and register, and what             *)
(* UsersService does to the account meanwhile.                             *)
(*                                                                         *)
(* A code is named by its place in the table otp_codes; a request that     *)
(* types code 0 types one that was never made.  verifyOtp and register are *)
(* no transactions: every statement commits by itself, and a request may   *)
(* end (Fail) at each of them.                                             *)
(***************************************************************************)
EXTENDS Naturals, Sequences, FiniteSets

CONSTANTS
  Requests,     \* identities of HTTP requests
  Cooldown,     \* time in which no second code is made (60 s)
  Ttl,          \* time a code is valid (otp.ttl, 120 s)
  MaxAttempts,  \* wrong codes after which a code is refused (5)
  MaxTime,      \* bound of the clock
  None          \* SQL NULL

ASSUME RequestAssumption == None \notin Requests
ASSUME LimitsAssumption ==
  /\ Cooldown \in Nat /\ Ttl \in Nat /\ MaxAttempts \in Nat /\ MaxTime \in Nat

VARIABLES
  pc,      \* pc[r]: the await at which request r is suspended
  job,     \* job[r]: what r was asked, the code it has found, and whether it used it
  codes,   \* the rows of otp_codes, in the order of createdAt
  user,    \* the row of the mobile in users: "none", "live" or "removed"
  role,    \* the user has the default role
  maker,   \* the request that inserted the user; None: an administrator
  now,     \* the clock
  rushed,  \* history: purposes two requests have found without a recent code at once
  shared   \* history: codes two requests have found before either was through

vars == <<pc, job, codes, user, role, maker, now, rushed, shared>>

Purposes == {"LOGIN", "REGISTER", "RESET_PASSWORD"}

NoJob == [kind |-> None, purpose |-> None, code |-> 0, used |-> FALSE]

Resting == {"idle", "done", "refused", "failed"}

Init ==
  /\ pc = [r \in Requests |-> "idle"]
  /\ job = [r \in Requests |-> NoJob]
  /\ codes = << >>
  /\ user \in {"none", "live"}
  /\ role = (user = "live")
  /\ maker = None
  /\ now = 0
  /\ rushed = {}
  /\ shared = {}

\* A request is accepted (dto.purpose is LOGIN when it is left out) and goes
\* to its first write, or is refused.
Starts(r, kind, p, at) ==
  /\ pc[r] = "idle"
  /\ job' = [job EXCEPT ![r] = [NoJob EXCEPT !.kind = kind, !.purpose = p]]
  /\ pc' = [pc EXCEPT ![r] = at]

At(r, here, next) == pc[r] = here /\ pc' = [pc EXCEPT ![r] = next]

-----------------------------------------------------------------------------
(* requestOtp *)

\* Only REGISTER does without a user.
StartRequest(r, p) ==
  /\ Starts(r, "request", p,
            IF p # "REGISTER" /\ user # "live" THEN "refused" ELSE "findRecent")
  /\ UNCHANGED <<codes, user, role, maker, now, rushed, shared>>

\* Codes of purpose p that were not consumed.
Open(p) == {c \in DOMAIN codes : codes[c].purpose = p /\ ~codes[c].consumed}

\* Mutant: the age is compared the wrong way round.
RecentOld(p) == {c \in Open(p) : codes[c].at + Cooldown < now}

Recent(p) == {c \in Open(p) : codes[c].at + Cooldown > now}

FindRecent(r) ==
  LET p == job[r].purpose IN
    /\ At(r, "findRecent", IF Recent(p) = {} THEN "create" ELSE "refused")
    /\ rushed' = IF \E o \in Requests : pc[o] = "create" /\ job[o].purpose = p
                   THEN rushed \cup {p} ELSE rushed
    /\ UNCHANGED <<job, codes, user, role, maker, now, shared>>

CreateCode(r) ==
  /\ At(r, "create", "send")
  /\ codes' = Append(codes, [purpose |-> job[r].purpose, at |-> now,
                             consumed |-> FALSE, attempts |-> 0])
  /\ UNCHANGED <<job, user, role, maker, now, rushed, shared>>

\* The panel accepts the message; when it does not, the code stays (Fail).
SendCode(r) ==
  /\ At(r, "send", "done")
  /\ UNCHANGED <<job, codes, user, role, maker, now, rushed, shared>>

-----------------------------------------------------------------------------
(* verifyOtp and resetPassword *)

\* The code looked at: the newest of the purpose that was not consumed.
Newest(c, p) == c \in Open(p) /\ \A d \in Open(p) : d <= c

\* Mutant: one attempt too many.
UsableOnceMore(kind, c) ==
  /\ codes[c].at + Ttl >= now
  /\ kind = "verify" => codes[c].attempts <= MaxAttempts

\* The code found has not expired, and for verifyOtp has attempts left.
Usable(kind, c) ==
  /\ codes[c].at + Ttl >= now
  /\ kind = "verify" => codes[c].attempts < MaxAttempts

\* Before its write r still holds on to the code it has found.
Holds(r, c) == job[r].code = c /\ pc[r] \in {"consume", "count", "findOwner", "reset"}

\* The hash is compared with what was typed; only verifyOtp counts a miss.
StartVerify(r, kind, p, typed) ==
  /\ pc[r] = "idle"
  /\ \/ /\ ~ \E c \in Open(p) : Newest(c, p) /\ Usable(kind, c)
        /\ Starts(r, kind, p, "refused")
        /\ UNCHANGED shared
     \/ \E c \in Open(p) :
          /\ Newest(c, p) /\ Usable(kind, c)
          /\ job' = [job EXCEPT ![r] = [kind |-> kind, purpose |-> p, code |-> c, used |-> FALSE]]
          /\ pc' = [pc EXCEPT ![r] =
               CASE typed = c -> IF kind = "verify" THEN "consume" ELSE "findOwner"
                 [] typed # c -> IF kind = "verify" THEN "count" ELSE "refused"]
          /\ shared' = IF \E o \in Requests : Holds(o, c) THEN shared \cup {c} ELSE shared
  /\ UNCHANGED <<codes, user, role, maker, now, rushed>>

CountAttempt(r) ==
  /\ At(r, "count", "refused")
  /\ codes' = [codes EXCEPT ![job[r].code].attempts = @ + 1]
  /\ UNCHANGED <<job, user, role, maker, now, rushed, shared>>

\* Mutant: the code is consumed only by resetPassword.
ConsumeLater(r) ==
  /\ At(r, "consume", "findUser")
  /\ job' = [job EXCEPT ![r].used = TRUE]
  /\ UNCHANGED <<codes, user, role, maker, now, rushed, shared>>

\* By its id, whatever has become of the row since it was found.
Consume(r) ==
  /\ At(r, "consume", "findUser")
  /\ job' = [job EXCEPT ![r].used = TRUE]
  /\ codes' = [codes EXCEPT ![job[r].code].consumed = TRUE]
  /\ UNCHANGED <<user, role, maker, now, rushed, shared>>

FindUser(r) ==
  /\ At(r, "findUser", IF user = "live" THEN "issue"
                       ELSE IF job[r].purpose = "REGISTER" THEN "createUser" ELSE "refused")
  /\ UNCHANGED <<job, codes, user, role, maker, now, rushed, shared>>

FindOwner(r) ==
  /\ At(r, "findOwner", IF user = "live" THEN "reset" ELSE "refused")
  /\ UNCHANGED <<job, codes, user, role, maker, now, rushed, shared>>

\* One transaction: the password, the code, and the sessions (see Sessions).
Reset(r) ==
  /\ At(r, "reset", "done")
  /\ job' = [job EXCEPT ![r].used = TRUE]
  /\ codes' = [codes EXCEPT ![job[r].code].consumed = TRUE]
  /\ UNCHANGED <<user, role, maker, now, rushed, shared>>

-----------------------------------------------------------------------------
(* The account *)

\* register asks for the mobile among removed users too.
StartRegister(r) ==
  /\ Starts(r, "register", None, IF user = "none" THEN "createUser" ELSE "refused")
  /\ UNCHANGED <<codes, user, role, maker, now, rushed, shared>>

\* The mobile is unique, removed users included.
CreateUser(r) ==
  /\ pc[r] = "createUser"
  /\ IF user = "none"
       THEN pc' = [pc EXCEPT ![r] = "giveRole"] /\ user' = "live" /\ maker' = r
       ELSE pc' = [pc EXCEPT ![r] = "failed"] /\ UNCHANGED <<user, maker>>
  /\ UNCHANGED <<job, codes, role, now, rushed, shared>>

\* Mutant: only verifyOtp assigns the role.
GiveRoleSometimes(r) ==
  /\ At(r, "giveRole", "issue")
  /\ role' = (role \/ job[r].kind = "verify")
  /\ UNCHANGED <<job, codes, user, maker, now, rushed, shared>>

GiveRole(r) ==
  /\ At(r, "giveRole", "issue")
  /\ role' = TRUE
  /\ UNCHANGED <<job, codes, user, maker, now, rushed, shared>>

\* lastLoginAt, the audit entry, and a session (see Sessions).
Issue(r) ==
  /\ At(r, "issue", "done")
  /\ UNCHANGED <<job, codes, user, role, maker, now, rushed, shared>>

\* UsersService.create assigns no role; UsersService.softDelete.
AdministratorCreates ==
  /\ user = "none"
  /\ user' = "live"
  /\ UNCHANGED <<pc, job, codes, role, maker, now, rushed, shared>>

AdministratorRemoves ==
  /\ user = "live"
  /\ user' = "removed"
  /\ UNCHANGED <<pc, job, codes, role, maker, now, rushed, shared>>

-----------------------------------------------------------------------------
\* A rejected statement or message, or the end of the instance.
Fail(r) ==
  /\ pc[r] \notin Resting
  /\ pc' = [pc EXCEPT ![r] = "failed"]
  /\ UNCHANGED <<job, codes, user, role, maker, now, rushed, shared>>

Tick ==
  /\ now < MaxTime
  /\ now' = now + 1
  /\ UNCHANGED <<pc, job, codes, user, role, maker, rushed, shared>>

Next ==
  \/ \E r \in Requests :
       \/ \E p \in Purposes : StartRequest(r, p)
       \/ FindRecent(r) \/ CreateCode(r) \/ SendCode(r)
       \/ \E p \in Purposes, typed \in 0..Len(codes) : StartVerify(r, "verify", p, typed)
       \/ \E typed \in 0..Len(codes) : StartVerify(r, "reset", "RESET_PASSWORD", typed)
       \/ CountAttempt(r) \/ Consume(r) \/ FindUser(r) \/ FindOwner(r) \/ Reset(r)
       \/ StartRegister(r) \/ CreateUser(r) \/ GiveRole(r) \/ Issue(r)
       \/ Fail(r)
  \/ AdministratorCreates \/ AdministratorRemoves \/ Tick

Spec == Init /\ [][Next]_vars

-----------------------------------------------------------------------------
(* Properties *)

CodeType == [purpose : Purposes, at : 0..MaxTime, consumed : BOOLEAN, attempts : Nat]

\* The shape of every variable; a request past its lookup holds a code there is.
TypeOK ==
  /\ pc \in [Requests -> Resting \cup
       {"findRecent", "create", "send", "consume", "count", "findUser", "findOwner",
        "reset", "createUser", "giveRole", "issue"}]
  /\ job \in [Requests -> [kind : {None, "request", "verify", "reset", "register"},
                           purpose : Purposes \cup {None}, code : Nat, used : BOOLEAN]]
  /\ codes \in Seq(CodeType)
  /\ user \in {"none", "live", "removed"} /\ role \in BOOLEAN
  /\ maker \in Requests \cup {None}
  /\ now \in 0..MaxTime
  /\ rushed \subseteq Purposes /\ shared \subseteq DOMAIN codes
  /\ \A r \in Requests : job[r].code # 0 => job[r].code \in DOMAIN codes

(***************************************************************************)
(* Two codes of one purpose are a cooldown apart, unless the earlier one   *)
(* was consumed; only two requests that both found no recent code make two *)
(* at once.                                                                *)
(***************************************************************************)
CodesAreSpaced ==
  \A i, j \in DOMAIN codes :
    /\ i < j /\ codes[i].purpose = codes[j].purpose
    /\ codes[i].purpose \notin rushed
    => codes[i].consumed \/ codes[i].at + Cooldown <= codes[j].at

(***************************************************************************)
(* A code opens one login, one account or one password: only requests that *)
(* had found it before either was through can use it twice.                *)
(***************************************************************************)
OneUsePerCode ==
  \A r, o \in Requests :
    /\ job[r].used /\ job[o].used /\ job[r].code = job[o].code
    /\ job[r].code \notin shared
    => r = o

\* Requests that verifyOtp has told that they typed a wrong code for c.
WrongAnswers(c) ==
  {r \in Requests : /\ job[r].kind = "verify" /\ job[r].code = c
                    /\ ~job[r].used /\ pc[r] = "refused"}

(***************************************************************************)
(* verifyOtp answers no more wrong codes for one code than the limit,      *)
(* except for codes two requests compared at the same time.  It says       *)
(* nothing of wrong codes typed into resetPassword, which neither looks at *)
(* the attempts of a code nor counts one.                                  *)
(***************************************************************************)
AttemptsBounded ==
  \A c \in DOMAIN codes \ shared : Cardinality(WrongAnswers(c)) <= MaxAttempts

(***************************************************************************)
(* Whoever registered has the default role, unless the request that        *)
(* inserted the user has not come to it, or ended between the two writes.  *)
(* A second attempt does not repair that: it finds the user.               *)
(***************************************************************************)
RegisteredHaveRole ==
  maker # None => role \/ pc[maker] \in {"giveRole", "failed"}

=============================================================================
