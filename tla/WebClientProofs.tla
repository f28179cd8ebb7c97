--------------------------- MODULE WebClientProofs ---------------------------
(***************************************************************************)
(* Theorems about the web client: the login sessions of a user and the     *)
(* browser that uses them, for every number of requests, calls and tabs,   *)
(* and every lifetime of the tokens; then the pages it shows, for every    *)
(* length of their use.                                                    *)
(***************************************************************************)
EXTENDS WebClient, Screens, TLAPS, FiniteSetTheorems

USE RequestsAssumption, KindsAssumption, TimesAssumption

(***************************************************************************)
(* What a request is about at each await.  The await tells what it has     *)
(* found; a row of sessions is there only when its request has answered.   *)
(***************************************************************************)
Fits(r) ==
  /\ pc[r] = "idle" => job[r].kind = None /\ job[r].token = 0 /\ root[r] = None
  /\ pc[r] = "find" => job[r].kind \in {"refresh", "logout"} /\ job[r].match = None
  /\ pc[r] = "revoke" => job[r].kind = "refresh"
  /\ pc[r] = "drop" => job[r].kind = "logout"
  /\ pc[r] \in {"revoke", "drop"} =>
       /\ job[r].match \in Requests /\ job[r].token # 0
       /\ session[job[r].match].token = job[r].token
       /\ root[r] = root[job[r].match]
  /\ pc[r] \in {"sign", "insert"} =>
       root[r] \in Requests /\ job[r].kind \in {"login", "refresh"}
  /\ pc[r] = "insert" => job[r].issued # 0
  /\ session[r].token # 0 => pc[r] = "done" /\ root[r] \in Requests
  /\ pc[r] = "done" /\ job[r].kind \in {"login", "refresh"} =>
       session[r].token = job[r].issued /\ job[r].issued # 0

RequestsFit == \A r \in Requests : Fits(r)

\* Requests are sent in the order of their numbers, and a session goes back
\* to a login that was sent.
SentInOrder ==
  /\ \A r, o \in Requests : pc[r] # "idle" /\ o < r => pc[o] # "idle"
  /\ \A r \in Requests : root[r] # None => pc[root[r]] # "idle"

SessionInv == SessionTypeOK /\ RequestsFit /\ SentInOrder

(***************************************************************************)
(* Rotation, of a login x no session of which two requests have gone on    *)
(* with: it has one heir, whoever is about to revoke has found that heir,  *)
(* and after a logout that has found it there is none.                     *)
(***************************************************************************)
GoesOn(r) == pc[r] \in {"revoke", "drop"}

LoggedOut(r) == job[r].kind = "logout" /\ pc[r] = "done" /\ job[r].match # None

OneHeir(x) ==
  /\ \A s, o \in Descent(x) : s = o
  /\ \A r \in Requests : GoesOn(r) /\ root[r] = x => Descent(x) \subseteq {job[r].match}
  /\ \A r, o \in Requests : GoesOn(r) /\ GoesOn(o) /\ root[r] = x /\ root[o] = x
                              => job[r].match = job[o].match
  /\ \A r \in Requests : LoggedOut(r) /\ root[r] = x =>
       Descent(x) = {} /\ \A o \in Requests : ~(GoesOn(o) /\ root[o] = x)

RotationInv == \A x \in Requests \ forked : OneHeir(x)

(***************************************************************************)
(* Whatever is, or may yet become, a session of a login older than a mass  *)
(* revocation was in flight at the last one.                               *)
(***************************************************************************)
RevocationInv ==
  \A r, o \in Requests :
    /\ job[r].kind = "revokeAll"
    /\ o \in Unrevoked \/ pc[o] \in {"revoke", "sign", "insert"}
    /\ root[o] < r
    => root[o] \in escaped

(***************************************************************************)
(* The browser: an open call belongs to a tab, and what a tab waits for is *)
(* a request of the right kind that no other tab waits for.                *)
(***************************************************************************)
CallsFit ==
  \A c \in Calls : call[c].at \in Open =>
    /\ call[c].tab \in Tabs /\ call[c].kind \in {"api", "logout"}
    /\ call[c].at = "served" => call[c].request \in Requests

WaitsFit ==
  /\ \A t \in Tabs : /\ refreshing[t] # None => job[refreshing[t]].kind = "refresh"
                     /\ entering[t] # None => job[entering[t]].kind = "login"
  /\ \A t, u \in Tabs :
       /\ refreshing[t] = refreshing[u] /\ refreshing[t] # None => t = u
       /\ entering[t] = entering[u] /\ entering[t] # None => t = u

ClientInv == TypeOK /\ CallsFit /\ WaitsFit

(***************************************************************************)
(* Where a token comes from and where it goes.  A token that is stored or  *)
(* presented was delivered by an answer.  Who presents one is waited for   *)
(* until the store has forgotten it, or it was signed twice; and a revoked *)
(* row was matched by the request that revoked it.                         *)
(***************************************************************************)
Pending(q) == \E t \in Tabs : refreshing[t] = q \/ entering[t] = q

Delivered(token) == \E q \in Requests : session[q].token = token /\ ~Pending(q)

Unsettled(o) ==
  \/ \E t \in Tabs : refreshing[t] = o
  \/ \E c \in Calls : call[c].at = "served" /\ call[c].request = o

SignedTwice(token) ==
  \E p, q \in Requests : p # q /\ session[p].token = token /\ session[q].token = token

TokensDelivered ==
  /\ store.refresh # 0 => Delivered(store.refresh)
  /\ \A r \in Requests : job[r].token # 0 => Delivered(job[r].token)
  /\ \A c \in Calls : call[c].body # 0 => Delivered(call[c].body)

PresentedIsForgotten ==
  \A o \in Requests : job[o].token # 0 =>
    Unsettled(o) \/ store.refresh # job[o].token \/ SignedTwice(job[o].token)

RevokedWasMatched ==
  \A s \in Requests : session[s].token # 0 /\ session[s].revoked =>
    \/ MassRevocation
    \/ \E o \in Requests : job[o].match = s /\ job[o].token = session[s].token

FewSessions == IsFiniteSet({s \in Requests : session[s].token # 0})

StoreInv == TokensDelivered /\ PresentedIsForgotten /\ RevokedWasMatched /\ FewSessions

(***************************************************************************)
(* Who presents a token.  A row of sessions lives as long as its token;    *)
(* and a tab has presented a token at most as often as the token was       *)
(* delivered, one time less as long as it may present it again.            *)
(***************************************************************************)
TimesFit ==
  /\ \A r \in Requests : job[r].issued <= now
  /\ \A s \in Requests : session[s].token # 0 =>
       session[s].token + RefreshTtl <= session[s].expires

SendersFit ==
  /\ \A r \in Requests : job[r].token # 0 <=> job[r].kind \in {"refresh", "logout"}
  /\ \A r \in Requests : IF job[r].kind = "refresh" THEN sender[r] \in Tabs ELSE sender[r] = None

DeliveriesOf(token) == {q \in Requests : session[q].token = token /\ ~Pending(q)}

PresentedBy(t, token) == {o \in Requests : job[o].token = token /\ sender[o] = t}

MayPresent(t, token) == store.refresh = token /\ refreshing[t] = None

PresentedAsDelivered ==
  \A t \in Tabs, token \in 1..MaxTime :
    /\ IsFiniteSet(PresentedBy(t, token))
    /\ Cardinality(PresentedBy(t, token)) + (IF MayPresent(t, token) THEN 1 ELSE 0)
         <= Cardinality(DeliveriesOf(token))

PresenceInv == TimesFit /\ SendersFit /\ PresentedAsDelivered

-----------------------------------------------------------------------------
(***************************************************************************)
(* The sessions by themselves: whatever the browser does, it drives them   *)
(* by these steps.                                                         *)
(***************************************************************************)
Awaits == Resting \cup {"find", "revoke", "drop", "sign", "insert"}

JobType == [kind : {None, "login", "refresh", "logout", "revokeAll"}, token : 0..MaxTime,
            match : Requests \cup {None}, issued : 0..MaxTime]

RowType == [token : 0..MaxTime, expires : Nat, revoked : BOOLEAN]

SessionStep ==
  \/ Tick
  \/ \E r \in Requests :
       \/ Handle(r) \/ Fail(r) \/ RevokeAll(r) \/ StartLogin(r)
       \/ \E kind \in {"refresh", "logout"}, token \in 1..MaxTime : Send(r, kind, token)

LEMMA InitSessionInv == Init => SessionInv
<1> SUFFICES ASSUME Init PROVE SessionInv
  OBVIOUS
<1> USE DEF Init, SessionInit
<1>1. SessionTypeOK
  BY DEF SessionTypeOK, Resting, NoJob, NoSession
<1>2. RequestsFit
  BY DEF RequestsFit, Fits, NoJob, NoSession
<1>3. SentInOrder
  BY DEF SentInOrder
<1> QED BY <1>1, <1>2, <1>3 DEF SessionInv

\* The tables and the requests, point by point.
LEMMA SessionTypes ==
  ASSUME SessionInv, NEW r \in Requests
  PROVE  /\ job[r].token \in 0..MaxTime /\ job[r].issued \in 0..MaxTime
         /\ job[r].match \in Requests \cup {None} /\ root[r] \in Requests \cup {None}
         /\ session[r].token \in 0..MaxTime
         /\ pc[r] \in {"revoke", "drop"} =>
              /\ job[r].match \in Requests /\ job[r].match # r
              /\ session[job[r].match].token # 0 /\ root[r] \in Requests
         /\ pc[r] \in {"revoke", "drop", "sign", "insert"} => root[r] \in Requests
BY DEF SessionInv, SessionTypeOK, RequestsFit, Fits

\* A new request, which matches nothing and changes no row.
LEMMA NewRequestFacts ==
  ASSUME SessionInv, NEW r \in Requests, NEW kind \in {"login", "refresh", "logout"},
         NEW token \in 0..MaxTime,
         \/ kind = "login" /\ token = 0 /\ StartLogin(r)
         \/ kind # "login" /\ token # 0 /\ Send(r, kind, token)
  PROVE  /\ IsNext(r) /\ UNCHANGED <<session, now, forked, escaped>>
         /\ job' = [job EXCEPT ![r] =
              [kind |-> kind, token |-> token, match |-> None, issued |-> 0]]
         /\ pc' = [pc EXCEPT ![r] = IF kind = "login" THEN "sign" ELSE "find"]
         /\ root' = [root EXCEPT ![r] = IF kind = "login" THEN r ELSE root[r]]
<1>1. CASE kind = "login" /\ token = 0 /\ StartLogin(r)
  <2>1. [NoJob EXCEPT !.kind = "login"] =
          [kind |-> "login", token |-> 0, match |-> None, issued |-> 0]
    BY DEF NoJob
  <2> QED BY <1>1, <2>1 DEF StartLogin
<1>2. CASE kind # "login" /\ token # 0 /\ Send(r, kind, token)
  <2>1. [NoJob EXCEPT !.kind = kind, !.token = token] =
          [kind |-> kind, token |-> token, match |-> None, issued |-> 0]
    <3>1. [NoJob EXCEPT !.kind = kind] =
            [kind |-> kind, token |-> 0, match |-> None, issued |-> 0]
      BY DEF NoJob
    <3>2. [[kind |-> kind, token |-> 0, match |-> None, issued |-> 0] EXCEPT !.token = token] =
            [kind |-> kind, token |-> token, match |-> None, issued |-> 0]
      OBVIOUS
    <3> QED BY <3>1, <3>2
  <2>2. root' = [root EXCEPT ![r] = root[r]]
    BY <1>2 DEF Send, SessionInv, SessionTypeOK
  <2> QED BY <1>2, <2>1, <2>2 DEF Send
<1> QED BY <1>1, <1>2

\* The lookup finds nothing, or one of the rows with the token of r.
LEMMA FindFacts ==
  ASSUME SessionInv, NEW r \in Requests, FindForRefresh(r) \/ FindForLogout(r)
  PROVE  /\ pc[r] = "find" /\ job[r].kind \in {"refresh", "logout"} /\ job[r].match = None
         /\ UNCHANGED <<session, now, forked, escaped>>
         /\ pc' \in [Requests -> Awaits] /\ job' \in [Requests -> JobType]
         /\ root' \in [Requests -> Requests \cup {None}]
         /\ \A o \in Requests \ {r} : pc'[o] = pc[o] /\ job'[o] = job[o] /\ root'[o] = root[o]
         /\ \/ /\ UNCHANGED <<job, root>>
               /\ \/ job[r].kind = "refresh" /\ pc'[r] = "refused"
                  \/ job[r].kind = "logout" /\ pc'[r] = "done"
            \/ \E s \in Unrevoked :
                 /\ session[s].token = job[r].token
                 /\ job'[r].match = s /\ root'[r] = root[s]
                 /\ job'[r].kind = job[r].kind /\ job'[r].token = job[r].token
                 /\ job'[r].issued = job[r].issued
                 /\ \/ job[r].kind = "refresh" /\ pc'[r] = "revoke"
                    \/ job[r].kind = "logout" /\ pc'[r] = "drop"
<1>1. pc[r] = "find" /\ UNCHANGED <<session, now, forked, escaped>>
  BY DEF FindForRefresh, FindForLogout, MatchIn
<1>2. job[r].kind \in {"refresh", "logout"} /\ job[r].match = None
  BY <1>1 DEF SessionInv, RequestsFit, Fits
<1>3. PICK next \in {"revoke", "drop"}, otherwise \in {"refused", "done"},
           kept \in SUBSET Unrevoked :
        /\ MatchIn(r, kept, next, otherwise)
        /\ \/ job[r].kind = "refresh" /\ next = "revoke" /\ otherwise = "refused"
           \/ job[r].kind = "logout" /\ next = "drop" /\ otherwise = "done"
  <2>1. {s \in Unrevoked : session[s].expires > now /\ now < job[r].token + RefreshTtl}
          \in SUBSET Unrevoked
    OBVIOUS
  <2> QED BY <2>1 DEF FindForRefresh, FindForLogout
<1> DEFINE matching == {s \in kept : session[s].token = job[r].token}
<1>4. /\ pc \in [Requests -> Awaits] /\ job \in [Requests -> JobType]
      /\ root \in [Requests -> Requests \cup {None}]
      /\ next \in Awaits /\ otherwise \in Awaits
  BY DEF SessionInv, SessionTypeOK, Awaits, JobType, Resting
<1>5. CASE matching = {}
  <2>1. pc' = [pc EXCEPT ![r] = otherwise] /\ UNCHANGED <<job, root>>
    BY <1>3, <1>5 DEF MatchIn
  <2>2. pc'[r] = otherwise /\ \A o \in Requests \ {r} : pc'[o] = pc[o]
    BY <1>4, <2>1
  <2>3. /\ \A o \in Requests \ {r} : job'[o] = job[o] /\ root'[o] = root[o]
        /\ pc' \in [Requests -> Awaits] /\ job' \in [Requests -> JobType]
        /\ root' \in [Requests -> Requests \cup {None}]
    BY <1>4, <2>1
  <2> QED BY <1>1, <1>2, <1>3, <2>1, <2>2, <2>3
<1>6. CASE matching # {}
  <2>1. PICK s \in matching :
          /\ pc' = [pc EXCEPT ![r] = next]
          /\ job' = [job EXCEPT ![r].match = s]
          /\ root' = [root EXCEPT ![r] = root[s]]
    BY <1>3, <1>6 DEF MatchIn
  <2>2. s \in Unrevoked /\ session[s].token = job[r].token
    OBVIOUS
  <2>3. /\ job'[r].match = s /\ root'[r] = root[s] /\ pc'[r] = next
        /\ job'[r].kind = job[r].kind /\ job'[r].token = job[r].token
        /\ job'[r].issued = job[r].issued
        /\ \A o \in Requests \ {r} : pc'[o] = pc[o] /\ job'[o] = job[o] /\ root'[o] = root[o]
    BY <1>4, <2>1 DEF JobType
  <2>4. \/ job[r].kind = "refresh" /\ pc'[r] = "revoke"
        \/ job[r].kind = "logout" /\ pc'[r] = "drop"
    BY <1>3, <2>3
  <2>5. /\ pc' \in [Requests -> Awaits] /\ root' \in [Requests -> Requests \cup {None}]
        /\ job' \in [Requests -> JobType]
    BY <1>4, <2>1, <2>2 DEF JobType, Unrevoked
  <2> HIDE DEF matching
  <2> QED BY <1>1, <1>2, <2>2, <2>3, <2>4, <2>5
<1> QED BY <1>5, <1>6

\* The matched session is revoked, and the request goes on or has answered.
LEMMA GoOnFacts ==
  ASSUME SessionInv, NEW r \in Requests, RevokeMatched(r) \/ DropMatched(r)
  PROVE  /\ GoesOn(r) /\ UNCHANGED <<job, now, root, escaped>>
         /\ \/ pc[r] = "revoke" /\ pc'[r] = "sign"
            \/ pc[r] = "drop" /\ pc'[r] = "done"
         /\ \A o \in Requests \ {r} : pc'[o] = pc[o]
         /\ session'[job[r].match].revoked /\ session' \in [Requests -> RowType]
         /\ \A s \in Requests : session'[s].token = session[s].token
         /\ \A s \in Requests \ {job[r].match} : session'[s] = session[s]
         /\ forked' = IF \E o \in Requests \ {r} : GoesOn(o) /\ job[o].match = job[r].match
                      THEN forked \cup {root[r]} ELSE forked
<1>1. /\ pc[r] \in {"revoke", "drop"} /\ UNCHANGED <<job, now, root, escaped>>
      /\ pc' = [pc EXCEPT ![r] = IF pc[r] = "revoke" THEN "sign" ELSE "done"]
      /\ session' = [session EXCEPT ![job[r].match].revoked = TRUE]
      /\ NoteFork(r)
  BY DEF RevokeMatched, DropMatched
<1>2. /\ job[r].match \in Requests
      /\ pc \in [Requests -> Resting \cup {"find", "revoke", "drop", "sign", "insert"}]
      /\ session \in [Requests -> [token : 0..MaxTime, expires : Nat, revoked : BOOLEAN]]
  BY <1>1, SessionTypes DEF SessionInv, SessionTypeOK
<1>3. /\ \/ pc[r] = "revoke" /\ pc'[r] = "sign"
         \/ pc[r] = "drop" /\ pc'[r] = "done"
      /\ \A o \in Requests \ {r} : pc'[o] = pc[o]
  BY <1>1, <1>2
<1>4. /\ session'[job[r].match].revoked /\ session' \in [Requests -> RowType]
      /\ \A s \in Requests : session'[s].token = session[s].token
      /\ \A s \in Requests \ {job[r].match} : session'[s] = session[s]
  <2> DEFINE m == job[r].match
  <2>1. /\ session'[m] = [session[m] EXCEPT !.revoked = TRUE]
        /\ \A s \in Requests \ {m} : session'[s] = session[s]
    BY <1>1, <1>2
  <2>2. session \in [Requests -> RowType] /\ m \in Requests
    BY <1>2 DEF RowType
  <2>3. DOMAIN session' = Requests /\ session' = [s \in Requests |-> session'[s]]
    BY <1>1, <2>2
  <2> HIDE DEF m
  <2>4. /\ session'[m].revoked = TRUE /\ session'[m].token = session[m].token
        /\ session'[m] \in RowType
    BY <2>1, <2>2 DEF RowType
  <2>5. session' \in [Requests -> RowType]
    BY <2>1, <2>2, <2>3, <2>4
  <2> QED BY <2>1, <2>4, <2>5 DEF m
<1>5. forked' = IF \E o \in Requests \ {r} : GoesOn(o) /\ job[o].match = job[r].match
                THEN forked \cup {root[r]} ELSE forked
  BY <1>1 DEF NoteFork, GoesOn
<1> QED BY <1>1, <1>3, <1>4, <1>5 DEF GoesOn

\* Tokens are signed, or a handler ends early: no row and no login changes.
LEMMA SignFacts ==
  ASSUME SessionInv, NEW r \in Requests, Sign(r) \/ Fail(r)
  PROVE  /\ pc[r] \notin Resting /\ UNCHANGED <<session, now, root, forked, escaped>>
         /\ \A o \in Requests \ {r} : pc'[o] = pc[o] /\ job'[o] = job[o]
         /\ \/ pc[r] = "sign" /\ pc'[r] = "insert" /\ job'[r].issued = now
            \/ pc'[r] = "failed" /\ job'[r].issued = job[r].issued
         /\ job'[r].kind = job[r].kind /\ job'[r].token = job[r].token
         /\ job'[r].match = job[r].match
<1>1. /\ job[r] \in [kind : {None, "login", "refresh", "logout", "revokeAll"},
                     token : 0..MaxTime, match : Requests \cup {None}, issued : 0..MaxTime]
      /\ DOMAIN pc = Requests /\ DOMAIN job = Requests
  BY DEF SessionInv, SessionTypeOK
<1>2. CASE Sign(r)
  BY <1>1, <1>2 DEF Sign, Resting
<1>3. CASE Fail(r)
  BY <1>1, <1>3 DEF Fail
<1> QED BY <1>2, <1>3

\* The row of r appears.
LEMMA InsertFacts ==
  ASSUME SessionInv, NEW r \in Requests, InsertSession(r)
  PROVE  /\ pc[r] = "insert" /\ pc'[r] = "done" /\ UNCHANGED <<job, now, root, forked, escaped>>
         /\ session[r].token = 0
         /\ session'[r].token = job[r].issued /\ ~session'[r].revoked
         /\ \A o \in Requests \ {r} : pc'[o] = pc[o] /\ session'[o] = session[o]
<1>1. /\ pc[r] = "insert" /\ pc'[r] = "done" /\ UNCHANGED <<job, now, root, forked, escaped>>
      /\ session[r].token = 0
      /\ session'[r] = [token |-> job[r].issued, expires |-> now + RefreshTtl,
                        revoked |-> FALSE]
      /\ \A o \in Requests \ {r} : pc'[o] = pc[o] /\ session'[o] = session[o]
  BY DEF InsertSession, SessionInv, SessionTypeOK, RequestsFit, Fits
<1>2. session'[r].token = job[r].issued
  BY <1>1
<1>3. session'[r].revoked = FALSE
  BY <1>1
<1> QED BY <1>1, <1>2, <1>3

\* Every row that is there is revoked; what is in flight is noted.
LEMMA RevokeAllFacts ==
  ASSUME SessionInv, NEW r \in Requests, RevokeAll(r)
  PROVE  /\ IsNext(r) /\ UNCHANGED <<now, root, forked>>
         /\ pc'[r] = "done" /\ job'[r].kind = "revokeAll" /\ job'[r].token = 0
         /\ job'[r].match = None /\ job'[r].issued = 0
         /\ \A o \in Requests \ {r} : pc'[o] = pc[o] /\ job'[o] = job[o]
         /\ \A s \in Requests : session'[s].token = session[s].token
         /\ \A s \in Requests : session'[s] \in [token : 0..MaxTime, expires : Nat,
                                                 revoked : BOOLEAN]
         /\ \A s \in Requests : s \notin Unrevoked'
         /\ DOMAIN session' = Requests
         /\ \A o \in Requests : pc[o] \in {"revoke", "sign", "insert"} => root[o] \in escaped'
         /\ escaped' \subseteq Requests
<1> USE DEF RevokeAll
<1>1. [NoJob EXCEPT !.kind = "revokeAll"] =
        [kind |-> "revokeAll", token |-> 0, match |-> None, issued |-> 0]
  BY DEF NoJob
<1>2. /\ DOMAIN pc = Requests /\ DOMAIN job = Requests
      /\ \A s \in Requests :
           session[s] \in [token : 0..MaxTime, expires : Nat, revoked : BOOLEAN]
  BY DEF SessionInv, SessionTypeOK
<1>3. ASSUME NEW s \in Requests
      PROVE  /\ session'[s].token = session[s].token
             /\ session'[s] \in [token : 0..MaxTime, expires : Nat, revoked : BOOLEAN]
             /\ s \notin Unrevoked'
  <2>1. session'[s] = IF s \in Unrevoked THEN [session[s] EXCEPT !.revoked = TRUE]
                                         ELSE session[s]
    OBVIOUS
  <2>2. CASE s \in Unrevoked
    <3>1. session'[s] = [session[s] EXCEPT !.revoked = TRUE]
      BY <2>1, <2>2
    <3>2. /\ session'[s].token = session[s].token /\ session'[s].revoked = TRUE
          /\ session'[s] \in [token : 0..MaxTime, expires : Nat, revoked : BOOLEAN]
      BY <1>2, <3>1
    <3> QED BY <3>2 DEF Unrevoked
  <2>3. CASE s \notin Unrevoked
    <3>1. session'[s] = session[s]
      BY <2>1, <2>3
    <3> QED BY <1>2, <2>3, <3>1 DEF Unrevoked
  <2> QED BY <2>2, <2>3
<1>4. ASSUME NEW o \in Requests, pc[o] \in {"revoke", "sign", "insert"}
      PROVE  root[o] \in escaped'
  BY <1>4
<1>5. escaped' \subseteq Requests
  BY SessionTypes
<1>6. DOMAIN session' = Requests
  OBVIOUS
<1>7. /\ IsNext(r) /\ UNCHANGED <<now, root, forked>>
      /\ pc'[r] = "done"
      /\ job'[r] = [kind |-> "revokeAll", token |-> 0, match |-> None, issued |-> 0]
      /\ \A o \in Requests \ {r} : pc'[o] = pc[o] /\ job'[o] = job[o]
  BY <1>1, <1>2
<1> HIDE DEF RevokeAll
<1>8. /\ job'[r].kind = "revokeAll" /\ job'[r].token = 0
      /\ job'[r].match = None /\ job'[r].issued = 0
  BY <1>7
<1> QED BY <1>3, <1>4, <1>5, <1>6, <1>7, <1>8

LEMMA SessionTypeInductive == SessionInv /\ SessionStep => SessionTypeOK'
<1> SUFFICES ASSUME SessionInv, SessionStep PROVE SessionTypeOK'
  OBVIOUS
<1> USE DEF SessionInv, SessionTypeOK
<1>1. CASE Tick
  BY <1>1 DEF Tick
<1>2. ASSUME NEW r \in Requests, FindForRefresh(r) \/ FindForLogout(r) PROVE SessionTypeOK'
  BY <1>2, FindFacts DEF Awaits, JobType
<1>3. ASSUME NEW r \in Requests, RevokeMatched(r) \/ DropMatched(r) PROVE SessionTypeOK'
  <2>1. root[r] \in Requests /\ job[r].match \in Requests
    BY <1>3, SessionTypes DEF RevokeMatched, DropMatched
  <2>2. session' \in [Requests -> [token : 0..MaxTime, expires : Nat, revoked : BOOLEAN]]
    BY <1>3, GoOnFacts DEF RowType
  <2> QED BY <1>3, <2>1, <2>2 DEF RevokeMatched, DropMatched, NoteFork, Resting
<1>4. ASSUME NEW r \in Requests, Sign(r) PROVE SessionTypeOK'
  <2>1. /\ UNCHANGED <<session, now, root, forked, escaped>>
        /\ pc' = [pc EXCEPT ![r] = "insert"]
        /\ job' = [job EXCEPT ![r].issued = now]
    BY <1>4 DEF Sign
  <2>2. job \in [Requests -> JobType] /\ now \in 0..MaxTime
    BY DEF JobType
  <2>3. job' \in [Requests -> JobType]
    BY <2>1, <2>2, SMTT(30) DEF JobType
  <2> QED BY <2>1, <2>3 DEF JobType
<1>5. ASSUME NEW r \in Requests, InsertSession(r) PROVE SessionTypeOK'
  BY <1>5 DEF InsertSession, Resting
<1>6. ASSUME NEW r \in Requests, Fail(r) PROVE SessionTypeOK'
  BY <1>6 DEF Fail, Resting
<1>7. ASSUME NEW r \in Requests, RevokeAll(r) PROVE SessionTypeOK'
  <2>1. session' \in [Requests -> [token : 0..MaxTime, expires : Nat, revoked : BOOLEAN]]
    BY <1>7, RevokeAllFacts DEF RevokeAll
  <2>2. job' \in [Requests -> [kind : {None, "login", "refresh", "logout", "revokeAll"},
                               token : 0..MaxTime, match : Requests \cup {None},
                               issued : 0..MaxTime]]
    BY <1>7 DEF RevokeAll, NoJob
  <2>3. escaped' \subseteq Requests
    BY <1>7, RevokeAllFacts
  <2> QED BY <1>7, <2>1, <2>2, <2>3 DEF RevokeAll, Resting
<1>8. ASSUME NEW r \in Requests, StartLogin(r) PROVE SessionTypeOK'
  BY <1>8 DEF StartLogin, NoJob
<1>9. ASSUME NEW r \in Requests, NEW kind \in {"refresh", "logout"},
             NEW token \in 1..MaxTime, Send(r, kind, token)
      PROVE  SessionTypeOK'
  <2>1. /\ UNCHANGED <<session, now, forked, escaped, root>>
        /\ pc' = [pc EXCEPT ![r] = "find"]
    BY <1>9 DEF Send
  <2>2. job' = [job EXCEPT ![r] =
                  [kind |-> kind, token |-> token, match |-> None, issued |-> 0]]
    BY <1>9, NewRequestFacts
  <2>3. job' \in [Requests -> [kind : {None, "login", "refresh", "logout", "revokeAll"},
                               token : 0..MaxTime, match : Requests \cup {None},
                               issued : 0..MaxTime]]
    BY <2>2
  <2> QED BY <2>1, <2>3
<1> HIDE DEF SessionInv, SessionTypeOK
<1> QED BY <1>1, <1>2, <1>3, <1>4, <1>5, <1>6, <1>7, <1>8, <1>9 DEF SessionStep, Handle

\* A request whose own entries and whose match stay as they are.
LEMMA FitsKept ==
  ASSUME SessionInv, NEW o \in Requests,
         pc'[o] = pc[o], job'[o] = job[o], root'[o] = root[o],
         \A s \in Requests : session[s].token # 0 =>
           session'[s].token = session[s].token /\ root'[s] = root[s],
         session[o].token = 0 => session'[o].token = 0
  PROVE  Fits(o)'
<1>1. Fits(o)
  BY DEF SessionInv, RequestsFit
<1>2. session'[o].token = session[o].token
  OBVIOUS
<1>3. pc[o] \in {"revoke", "drop"} =>
        /\ session'[job[o].match].token = job[o].token
        /\ root'[o] = root'[job[o].match]
  BY <1>1 DEF Fits
<1> QED BY <1>1, <1>2, <1>3 DEF Fits

LEMMA RequestsFitInductive == SessionInv /\ SessionStep => RequestsFit'
<1> SUFFICES ASSUME SessionInv, SessionStep PROVE RequestsFit'
  OBVIOUS
<1>0. /\ \A o \in Requests : Fits(o)
      /\ \A s \in Requests : session[s].token # 0 => pc[s] = "done"
  BY DEF SessionInv, RequestsFit, Fits
<1>1. CASE Tick
  BY <1>0, <1>1 DEF Tick, RequestsFit, Fits
<1>2. ASSUME NEW r \in Requests, FindForRefresh(r) \/ FindForLogout(r) PROVE RequestsFit'
  <2>0. /\ UNCHANGED session /\ pc[r] = "find" /\ job[r].kind \in {"refresh", "logout"}
        /\ \A o \in Requests \ {r} : pc'[o] = pc[o] /\ job'[o] = job[o] /\ root'[o] = root[o]
    BY <1>2, FindFacts
  <2>1. ASSUME NEW o \in Requests, o # r PROVE Fits(o)'
    <3>1. \A s \in Requests : session[s].token # 0 => s # r
      BY <1>0, <2>0
    <3> QED BY <2>0, <2>1, <3>1, FitsKept
  <2>2. Fits(r)'
    <3>1. session[r].token = 0
      BY <1>0, <2>0
    <3>2. CASE /\ UNCHANGED <<job, root>>
               /\ \/ job[r].kind = "refresh" /\ pc'[r] = "refused"
                  \/ job[r].kind = "logout" /\ pc'[r] = "done"
      BY <2>0, <3>1, <3>2 DEF Fits
    <3>3. ASSUME NEW s \in Unrevoked, session[s].token = job[r].token,
                 job'[r].match = s, root'[r] = root[s],
                 job'[r].kind = job[r].kind, job'[r].token = job[r].token,
                 \/ job[r].kind = "refresh" /\ pc'[r] = "revoke"
                 \/ job[r].kind = "logout" /\ pc'[r] = "drop"
          PROVE  Fits(r)'
      <4>1. s \in Requests /\ session[s].token # 0 /\ s # r
        BY <3>1 DEF Unrevoked
      <4>2. root'[s] = root[s]
        BY <2>0, <4>1
      <4> QED BY <2>0, <3>1, <3>3, <4>1, <4>2 DEF Fits
    <3>4. \/ /\ UNCHANGED <<job, root>>
             /\ \/ job[r].kind = "refresh" /\ pc'[r] = "refused"
                \/ job[r].kind = "logout" /\ pc'[r] = "done"
          \/ \E s \in Unrevoked :
               /\ session[s].token = job[r].token /\ job'[r].match = s /\ root'[r] = root[s]
               /\ job'[r].kind = job[r].kind /\ job'[r].token = job[r].token
               /\ \/ job[r].kind = "refresh" /\ pc'[r] = "revoke"
                  \/ job[r].kind = "logout" /\ pc'[r] = "drop"
      BY <1>2, FindFacts
    <3> QED BY <3>2, <3>3, <3>4
  <2> QED BY <2>1, <2>2 DEF RequestsFit
<1>3. ASSUME NEW r \in Requests, RevokeMatched(r) \/ DropMatched(r) PROVE RequestsFit'
  <2>1. ASSUME NEW o \in Requests, o # r PROVE Fits(o)'
    BY <1>0, <1>3, <2>1, GoOnFacts, FitsKept
  <2>2. Fits(r)'
    BY <1>0, <1>3, GoOnFacts, SessionTypes DEF Fits
  <2> QED BY <2>1, <2>2 DEF RequestsFit
<1>4. ASSUME NEW r \in Requests, Sign(r) \/ Fail(r) PROVE RequestsFit'
  <2>1. ASSUME NEW o \in Requests, o # r PROVE Fits(o)'
    BY <1>0, <1>4, <2>1, SignFacts, FitsKept DEF Resting
  <2>2. now # 0
    BY DEF SessionInv, SessionTypeOK
  <2>3. Fits(r)'
    BY <1>0, <1>4, <2>2, SignFacts DEF Fits, Resting
  <2> QED BY <2>1, <2>3 DEF RequestsFit
<1>5. ASSUME NEW r \in Requests, InsertSession(r) PROVE RequestsFit'
  <2>1. ASSUME NEW o \in Requests, o # r PROVE Fits(o)'
    BY <1>0, <1>5, <2>1, InsertFacts, FitsKept
  <2>2. session'[r].token = job[r].issued /\ job'[r] = job[r] /\ root'[r] = root[r]
    BY <1>5, InsertFacts
  <2>3. Fits(r)'
    BY <1>0, <1>5, <2>2, InsertFacts DEF Fits
  <2> QED BY <2>1, <2>3 DEF RequestsFit
<1>6. ASSUME NEW r \in Requests, RevokeAll(r) PROVE RequestsFit'
  <2>1. ASSUME NEW o \in Requests, o # r PROVE Fits(o)'
    BY <1>0, <1>6, <2>1, RevokeAllFacts, FitsKept
  <2>2. Fits(r)'
    BY <1>0, <1>6, RevokeAllFacts DEF Fits, IsNext
  <2> QED BY <2>1, <2>2 DEF RequestsFit
<1>7. ASSUME NEW r \in Requests, NEW kind \in {"login", "refresh", "logout"},
             NEW token \in 0..MaxTime,
             \/ kind = "login" /\ token = 0 /\ StartLogin(r)
             \/ kind # "login" /\ token # 0 /\ Send(r, kind, token)
      PROVE  RequestsFit'
  <2>0. /\ pc[r] = "idle" /\ UNCHANGED session
        /\ \A o \in Requests \ {r} : pc'[o] = pc[o] /\ job'[o] = job[o] /\ root'[o] = root[o]
        /\ pc'[r] = IF kind = "login" THEN "sign" ELSE "find"
        /\ root'[r] = IF kind = "login" THEN r ELSE root[r]
        /\ job'[r].kind = kind /\ job'[r].match = None
    BY <1>7, NewRequestFacts DEF IsNext, SessionInv, SessionTypeOK
  <2>1. ASSUME NEW o \in Requests, o # r PROVE Fits(o)'
    BY <1>0, <2>0, <2>1, FitsKept
  <2>2. Fits(r)'
    BY <1>0, <2>0 DEF Fits
  <2> QED BY <2>1, <2>2 DEF RequestsFit
<1>8. ASSUME NEW r \in Requests, StartLogin(r) PROVE RequestsFit'
  BY <1>7, <1>8
<1>9. ASSUME NEW r \in Requests, NEW kind \in {"refresh", "logout"},
             NEW token \in 1..MaxTime, Send(r, kind, token)
      PROVE  RequestsFit'
  BY <1>7, <1>9
<1> QED BY <1>1, <1>2, <1>3, <1>4, <1>5, <1>6, <1>8, <1>9 DEF SessionStep, Handle

LEMMA SentInOrderInductive == SessionInv /\ SessionStep => SentInOrder'
<1> SUFFICES ASSUME SessionInv, SessionStep PROVE SentInOrder'
  OBVIOUS
<1>0. /\ SentInOrder
      /\ \A o \in Requests : o \in Nat /\ root[o] \in Requests \cup {None}
  BY DEF SessionInv, SessionTypeOK
\* A request that is under way changes nothing here.
<1>1. ASSUME NEW r \in Requests, pc[r] # "idle", pc'[r] # "idle",
             \A o \in Requests \ {r} : pc'[o] = pc[o] /\ root'[o] = root[o],
             root'[r] # None => \E s \in Requests : root'[r] = root[s]
      PROVE  SentInOrder'
  <2>1. ASSUME NEW p \in Requests, NEW o \in Requests, pc'[p] # "idle", o < p
        PROVE  pc'[o] # "idle"
    BY <1>0, <1>1, <2>1 DEF SentInOrder
  <2>2. ASSUME NEW p \in Requests, root'[p] # None PROVE pc'[root'[p]] # "idle"
    <3>1. PICK s \in Requests : root'[p] = root[s]
      BY <1>1, <2>2
    <3>2. root[s] \in Requests /\ pc[root[s]] # "idle"
      BY <1>0, <2>2, <3>1 DEF SentInOrder
    <3> QED BY <1>1, <3>1, <3>2
  <2> QED BY <2>1, <2>2 DEF SentInOrder
\* The next request is the first one that was idle.
<1>2. ASSUME NEW r \in Requests, IsNext(r), pc'[r] # "idle",
             \A o \in Requests \ {r} : pc'[o] = pc[o] /\ root'[o] = root[o],
             root'[r] \in {r, root[r]}
      PROVE  SentInOrder'
  <2>1. ASSUME NEW p \in Requests, NEW o \in Requests, pc'[p] # "idle", o < p
        PROVE  pc'[o] # "idle"
    <3>1. CASE p = r
      BY <1>0, <1>2, <2>1, <3>1 DEF IsNext
    <3>2. CASE p # r
      BY <1>0, <1>2, <2>1, <3>2 DEF SentInOrder
    <3> QED BY <3>1, <3>2
  <2>2. ASSUME NEW p \in Requests, root'[p] # None PROVE pc'[root'[p]] # "idle"
    <3>1. root'[p] = r \/ root'[p] = root[p]
      BY <1>2
    <3>2. CASE root'[p] = root[p]
      <4>1. root[p] \in Requests /\ pc[root[p]] # "idle"
        BY <1>0, <2>2, <3>2 DEF SentInOrder
      <4> QED BY <1>2, <3>2, <4>1
    <3> QED BY <1>2, <3>1, <3>2
  <2> QED BY <2>1, <2>2 DEF SentInOrder
<1>3. CASE Tick
  BY <1>0, <1>3 DEF Tick, SentInOrder
<1>4. ASSUME NEW r \in Requests, Handle(r) \/ Fail(r) PROVE SentInOrder'
  <2>1. CASE FindForRefresh(r) \/ FindForLogout(r)
    <3>1. /\ pc[r] # "idle" /\ pc'[r] # "idle"
          /\ \A o \in Requests \ {r} : pc'[o] = pc[o] /\ root'[o] = root[o]
          /\ root'[r] = root[r] \/ \E s \in Unrevoked : root'[r] = root[s]
      BY <2>1, FindFacts
    <3> QED BY <1>1, <3>1 DEF Unrevoked
  <2>2. CASE RevokeMatched(r) \/ DropMatched(r)
    BY <1>1, <2>2, GoOnFacts DEF GoesOn
  <2>3. CASE Sign(r) \/ Fail(r)
    BY <1>1, <2>3, SignFacts DEF Resting
  <2>4. CASE InsertSession(r)
    BY <1>1, <2>4, InsertFacts
  <2> QED BY <1>4, <2>1, <2>2, <2>3, <2>4 DEF Handle
<1>5. ASSUME NEW r \in Requests, RevokeAll(r) PROVE SentInOrder'
  BY <1>2, <1>5, RevokeAllFacts
<1>6. ASSUME NEW r \in Requests, StartLogin(r) PROVE SentInOrder'
  BY <1>2, <1>6 DEF StartLogin, SessionInv, SessionTypeOK
<1>7. ASSUME NEW r \in Requests, NEW kind \in {"refresh", "logout"},
             NEW token \in 1..MaxTime, Send(r, kind, token)
      PROVE  SentInOrder'
  BY <1>2, <1>7 DEF Send, SessionInv, SessionTypeOK
<1> QED BY <1>3, <1>4, <1>5, <1>6, <1>7 DEF SessionStep

LEMMA SessionInvInductive == SessionInv /\ [SessionStep]_sessionVars => SessionInv'
<1>1. SessionInv /\ UNCHANGED sessionVars => SessionInv'
  BY DEF sessionVars, SessionInv, SessionTypeOK, RequestsFit, Fits, SentInOrder
<1>2. SessionInv /\ SessionStep => SessionInv'
  BY SessionTypeInductive, RequestsFitInductive, SentInOrderInductive DEF SessionInv
<1> QED BY <1>1, <1>2

-----------------------------------------------------------------------------
(* Rotation *)

LEMMA InitRotationInv == Init => RotationInv
<1> SUFFICES ASSUME Init, NEW x \in Requests PROVE OneHeir(x)
  BY DEF RotationInv
<1>1. /\ \A r \in Requests : pc[r] = "idle" /\ session[r].token = 0
  BY DEF Init, SessionInit, NoSession
<1> QED BY <1>1 DEF OneHeir, Descent, Unrevoked, GoesOn, LoggedOut

\* s is, or is about to be, a session of login x.
Heir(s, x) ==
  /\ root[s] = x
  /\ \/ session[s].token # 0 /\ ~session[s].revoked
     \/ pc[s] \in {"sign", "insert"}

LEMMA HeirsAreDescent ==
  ASSUME NEW s \in Requests, NEW x
  PROVE  s \in Descent(x) <=> Heir(s, x)
BY DEF Descent, Heir, Unrevoked

\* A step that gives login x no heir, no match and no answered logout.
LEMMA NothingNew ==
  ASSUME NEW x \in Requests, OneHeir(x),
         \A s \in Requests : Heir(s, x)' => Heir(s, x),
         \A r \in Requests : GoesOn(r)' /\ root'[r] = x =>
           GoesOn(r) /\ root[r] = x /\ job'[r].match = job[r].match,
         \A r \in Requests : LoggedOut(r)' /\ root'[r] = x => LoggedOut(r) /\ root[r] = x
  PROVE  OneHeir(x)'
<1>1. \A s \in Requests : s \in Descent(x)' => s \in Descent(x)
  BY HeirsAreDescent DEF Heir, Descent, Unrevoked
<1>2. Descent(x)' \subseteq Descent(x)
  BY <1>1 DEF Descent, Unrevoked
<1> QED BY <1>2 DEF OneHeir

\* A request finds a session of x: it is the one heir.
LEMMA FindKeepsOneHeir ==
  ASSUME SessionInv, NEW r \in Requests, FindForRefresh(r) \/ FindForLogout(r),
         NEW x \in Requests, OneHeir(x)
  PROVE  OneHeir(x)'
<1>1. /\ pc[r] = "find" /\ UNCHANGED session /\ job[r].match = None
      /\ \A o \in Requests \ {r} : pc'[o] = pc[o] /\ job'[o] = job[o] /\ root'[o] = root[o]
  BY FindFacts
<1>2. session[r].token = 0
  BY <1>1 DEF SessionInv, RequestsFit, Fits
<1>3. CASE pc'[r] \notin {"revoke", "drop"} /\ UNCHANGED <<job, root>>
  <2>1. pc'[r] \in {"refused", "done"}
    BY <1>3, FindFacts
  <2> QED BY <1>1, <1>2, <1>3, <2>1, NothingNew DEF Heir, GoesOn, LoggedOut
<1>4. ASSUME NEW s \in Unrevoked, job'[r].match = s, root'[r] = root[s],
             pc'[r] \in {"revoke", "drop"}
      PROVE  OneHeir(x)'
  <2>0. s \in Requests /\ s # r /\ session[s].token # 0
    BY <1>2 DEF Unrevoked
  <2>1. \A o \in Requests : Heir(o, x)' <=> o # r /\ Heir(o, x)
    BY <1>1, <1>2, <1>4 DEF Heir
  <2>2. CASE root[s] # x
    BY <1>1, <1>4, <2>1, <2>2, NothingNew DEF GoesOn, LoggedOut
  <2>3. CASE root[s] = x
    <3>1. Descent(x) = {s}
      <4>1. s \in Descent(x)
        BY <2>3 DEF Descent
      <4> QED BY <4>1 DEF OneHeir
    <3>2. Descent(x)' = {s}
      <4>1. \A o \in Requests : o \in Descent(x)' <=> o = s
        BY <2>0, <2>1, <3>1, HeirsAreDescent DEF Heir, Descent, Unrevoked
      <4> QED BY <2>0, <4>1 DEF Descent, Unrevoked
    <3>3. \A o \in Requests : GoesOn(o) /\ root[o] = x => job[o].match = s
      BY <3>1 DEF OneHeir
    <3>4. \A o \in Requests : ~(LoggedOut(o) /\ root[o] = x)
      BY <3>1 DEF OneHeir
    <3>5. \A o \in Requests : (GoesOn(o) /\ root[o] = x)' => job'[o].match = s
      BY <1>1, <1>4, <3>3 DEF GoesOn
    <3>6. \A o \in Requests : ~(LoggedOut(o) /\ root[o] = x)'
      BY <1>1, <1>4, <3>4 DEF LoggedOut
    <3> QED BY <3>2, <3>5, <3>6 DEF OneHeir
  <2> QED BY <2>2, <2>3
<1>5. \/ /\ UNCHANGED <<job, root>>
         /\ \/ job[r].kind = "refresh" /\ pc'[r] = "refused"
            \/ job[r].kind = "logout" /\ pc'[r] = "done"
      \/ \E s \in Unrevoked :
           /\ session[s].token = job[r].token /\ job'[r].match = s /\ root'[r] = root[s]
           /\ job'[r].kind = job[r].kind /\ job'[r].token = job[r].token
           /\ \/ job[r].kind = "refresh" /\ pc'[r] = "revoke"
              \/ job[r].kind = "logout" /\ pc'[r] = "drop"
  BY FindFacts
<1> QED BY <1>3, <1>4, <1>5

\* The heir is revoked; a refresh takes its place, a logout leaves none.
LEMMA GoOnKeepsOneHeir ==
  ASSUME SessionInv, NEW r \in Requests, RevokeMatched(r) \/ DropMatched(r),
         NEW x \in Requests \ forked', OneHeir(x)
  PROVE  OneHeir(x)'
<1> DEFINE m == job[r].match
<1>1. /\ GoesOn(r) /\ UNCHANGED <<job, root>> /\ session'[m].revoked
      /\ \/ pc[r] = "revoke" /\ pc'[r] = "sign"
         \/ pc[r] = "drop" /\ pc'[r] = "done"
      /\ \A o \in Requests \ {r} : pc'[o] = pc[o]
      /\ \A s \in Requests \ {m} : session'[s] = session[s]
  BY GoOnFacts
<1>2. m \in Requests /\ m # r /\ session[m].token # 0 /\ pc[m] = "done" /\ session[r].token = 0
  BY <1>1, SessionTypes DEF GoesOn, SessionInv, RequestsFit, Fits
<1>3. job[r].kind = IF pc[r] = "revoke" THEN "refresh" ELSE "logout"
  BY <1>1 DEF SessionInv, RequestsFit, Fits
<1>4. \A o \in Requests \ {r} : Heir(o, x)' <=> o # m /\ Heir(o, x)
  BY <1>1, <1>2 DEF Heir
<1>5. CASE root[r] # x
  <2>1. \A o \in Requests : Heir(o, x)' => Heir(o, x)
    BY <1>1, <1>4, <1>5 DEF Heir
  <2> QED BY <1>1, <1>5, <2>1, NothingNew DEF GoesOn, LoggedOut
<1>6. CASE root[r] = x
  <2>1. \A o \in Requests \ {r} : ~(GoesOn(o) /\ root[o] = x)
    <3>1. \A o \in Requests \ {r} : ~(GoesOn(o) /\ job[o].match = m)
      BY <1>6, GoOnFacts
    <3>2. \A o \in Requests : GoesOn(o) /\ root[o] = x => job[o].match = m
      BY <1>1, <1>6 DEF OneHeir
    <3> QED BY <3>1, <3>2
  <2>2. \A o \in Requests : ~(LoggedOut(o) /\ root[o] = x)
    BY <1>1, <1>6 DEF OneHeir
  <2>3. \A o \in Requests : Heir(o, x) => o = m
    BY <1>1, <1>6, HeirsAreDescent DEF OneHeir
  <2>4. \A o \in Requests : Heir(o, x)' => o = r /\ pc'[r] = "sign"
    BY <1>1, <1>2, <1>4, <2>3 DEF Heir
  <2>5. \A o \in Requests : ~(GoesOn(o) /\ root[o] = x)'
    BY <1>1, <2>1 DEF GoesOn
  <2>6. \A s \in Descent(x)' : s = r /\ pc'[r] = "sign"
    BY <2>4, HeirsAreDescent DEF Heir, Descent, Unrevoked
  <2>7. \A o \in Requests : (LoggedOut(o) /\ root[o] = x)' => pc'[r] # "sign"
    BY <1>1, <1>3, <2>2 DEF LoggedOut
  <2> QED BY <2>5, <2>6, <2>7 DEF OneHeir
<1> QED BY <1>5, <1>6

\* A new login is its own heir, and nobody goes back to it yet.
LEMMA LoginKeepsOneHeir ==
  ASSUME SessionInv, NEW r \in Requests, StartLogin(r), NEW x \in Requests, OneHeir(x)
  PROVE  OneHeir(x)'
<1>1. /\ pc[r] = "idle" /\ UNCHANGED session /\ pc'[r] = "sign" /\ root'[r] = r
      /\ \A o \in Requests \ {r} : pc'[o] = pc[o] /\ job'[o] = job[o] /\ root'[o] = root[o]
  BY DEF StartLogin, IsNext, SessionInv, SessionTypeOK
<1>2. \A o \in Requests : root[o] # r
  BY <1>1 DEF SessionInv, SentInOrder, SessionTypeOK
<1>3. CASE x # r
  BY <1>1, <1>3, NothingNew DEF Heir, GoesOn, LoggedOut
<1>4. CASE x = r
  <2>1. \A o \in Requests : root'[o] = x => o = r
    BY <1>1, <1>2, <1>4
  <2>2. \A s \in Descent(x)' : s = r
    BY <2>1 DEF Descent, Unrevoked
  <2> QED BY <1>1, <2>1, <2>2 DEF OneHeir, GoesOn, LoggedOut
<1> QED BY <1>3, <1>4

LEMMA RotationInvInductive == SessionInv /\ RotationInv /\ [SessionStep]_sessionVars => RotationInv'
<1> SUFFICES ASSUME SessionInv, RotationInv, [SessionStep]_sessionVars,
                    NEW x \in Requests \ forked'
             PROVE  OneHeir(x)'
  BY DEF RotationInv
<1>0. forked \subseteq forked'
  <2>1. ASSUME NEW r \in Requests, Handle(r) PROVE forked \subseteq forked'
    BY <2>1 DEF Handle, RevokeMatched, DropMatched, NoteFork, FindForRefresh, FindForLogout,
       MatchIn, Sign, InsertSession
  <2> QED BY <2>1 DEF sessionVars, SessionStep, Tick, Fail, RevokeAll, StartLogin, Send
<1>1. OneHeir(x)
  BY <1>0 DEF RotationInv
<1>2. CASE UNCHANGED sessionVars
  BY <1>1, <1>2, NothingNew DEF sessionVars, Heir, GoesOn, LoggedOut
<1>3. CASE Tick
  BY <1>1, <1>3, NothingNew DEF Tick, Heir, GoesOn, LoggedOut
<1>4. ASSUME NEW r \in Requests, Handle(r) \/ Fail(r) PROVE OneHeir(x)'
  <2>1. CASE Sign(r) \/ Fail(r)
    BY <1>1, <2>1, SignFacts, NothingNew DEF Heir, GoesOn, LoggedOut
  <2>2. CASE InsertSession(r)
    <3>1. LoggedOut(r)' => FALSE
      BY <2>2, InsertFacts DEF LoggedOut, SessionInv, RequestsFit, Fits
    <3>2. /\ pc[r] = "insert" /\ pc'[r] = "done" /\ UNCHANGED <<job, root>>
          /\ \A o \in Requests \ {r} : pc'[o] = pc[o] /\ session'[o] = session[o]
      BY <2>2, InsertFacts
    <3>3. ASSUME NEW s \in Requests, Heir(s, x)' PROVE Heir(s, x)
      BY <3>2, <3>3 DEF Heir
    <3>4. ASSUME NEW s \in Requests, GoesOn(s)', root'[s] = x
          PROVE  GoesOn(s) /\ root[s] = x /\ job'[s].match = job[s].match
      BY <3>2, <3>4 DEF GoesOn
    <3>5. ASSUME NEW s \in Requests, LoggedOut(s)', root'[s] = x
          PROVE  LoggedOut(s) /\ root[s] = x
      BY <3>1, <3>2, <3>5 DEF LoggedOut
    <3> QED BY <1>1, <3>3, <3>4, <3>5, NothingNew
  <2> QED
    BY <1>1, <1>4, <2>1, <2>2, FindKeepsOneHeir, GoOnKeepsOneHeir DEF Handle
<1>5. ASSUME NEW r \in Requests, RevokeAll(r) PROVE OneHeir(x)'
  <2>1. \A o \in Requests : Heir(o, x)' => Heir(o, x)
    BY <1>5, RevokeAllFacts DEF Heir, Unrevoked
  <2> QED BY <1>1, <1>5, <2>1, RevokeAllFacts, NothingNew DEF GoesOn, LoggedOut
<1>6. ASSUME NEW r \in Requests, NEW kind \in {"refresh", "logout"},
             NEW token \in 1..MaxTime, Send(r, kind, token)
      PROVE  OneHeir(x)'
  <2>1. /\ pc[r] = "idle" /\ UNCHANGED <<session, root>> /\ pc'[r] = "find"
        /\ \A o \in Requests \ {r} : pc'[o] = pc[o] /\ job'[o] = job[o]
    BY <1>6 DEF Send, IsNext, SessionInv, SessionTypeOK
  <2> QED BY <1>1, <2>1, NothingNew DEF Heir, GoesOn, LoggedOut
<1> QED
  BY <1>1, <1>2, <1>3, <1>4, <1>5, <1>6, LoginKeepsOneHeir DEF SessionStep

-----------------------------------------------------------------------------
(* Mass revocation *)

LEMMA RevocationInvInductive ==
  SessionInv /\ RevocationInv /\ [SessionStep]_sessionVars => RevocationInv'
<1> SUFFICES ASSUME SessionInv, RevocationInv, [SessionStep]_sessionVars PROVE RevocationInv'
  OBVIOUS
<1> DEFINE Live(o) == o \in Unrevoked \/ pc[o] \in {"revoke", "sign", "insert"}
\* Nothing comes alive but what goes on from a live session.
<1>1. ASSUME UNCHANGED escaped,
             \A r \in Requests : job'[r].kind = "revokeAll" => job[r].kind = "revokeAll",
             \A o \in Requests : Live(o)' => \E s \in Requests : Live(s) /\ root'[o] = root[s]
      PROVE  RevocationInv'
  BY <1>1 DEF RevocationInv
<1>2. CASE UNCHANGED sessionVars \/ Tick
  BY <1>1, <1>2 DEF sessionVars, Tick, Unrevoked
<1>3. ASSUME NEW r \in Requests, Handle(r) \/ Fail(r) PROVE RevocationInv'
  <2>0. \A s \in Requests : session[s].token # 0 => pc[s] = "done"
    BY DEF SessionInv, RequestsFit, Fits
  <2>1. CASE FindForRefresh(r) \/ FindForLogout(r)
    <3>1. \A o \in Requests \ {r} : Live(o)' => Live(o) /\ root'[o] = root[o]
      BY <2>1, FindFacts DEF Unrevoked
    <3>2. Live(r)' => \E s \in Requests : Live(s) /\ root'[r] = root[s]
      BY <2>0, <2>1, FindFacts DEF Unrevoked
    <3>3. /\ UNCHANGED escaped
          /\ \A o \in Requests : job'[o].kind = "revokeAll" => job[o].kind = "revokeAll"
      BY <2>1, FindFacts
    <3> HIDE DEF Live
    <3> QED BY <1>1, <3>1, <3>2, <3>3
  <2>2. CASE RevokeMatched(r) \/ DropMatched(r)
    <3>1. \A o \in Requests : Live(o)' => Live(o) /\ root'[o] = root[o]
      BY <2>2, GoOnFacts DEF Unrevoked
    <3> HIDE DEF Live
    <3> QED BY <1>1, <2>2, <3>1, GoOnFacts
  <2>3. CASE Sign(r) \/ Fail(r)
    <3>1. \A o \in Requests : Live(o)' => Live(o) /\ root'[o] = root[o]
      BY <2>3, SignFacts DEF Unrevoked
    <3>2. \A o \in Requests : job'[o].kind = "revokeAll" => job[o].kind = "revokeAll"
      BY <2>3, SignFacts
    <3> HIDE DEF Live
    <3> QED BY <1>1, <2>3, <3>1, <3>2, SignFacts
  <2>4. CASE InsertSession(r)
    <3>1. \A o \in Requests : Live(o)' => Live(o) /\ root'[o] = root[o]
      BY <2>4, InsertFacts DEF Unrevoked
    <3> HIDE DEF Live
    <3> QED BY <1>1, <2>4, <3>1, InsertFacts
  <2> QED BY <1>3, <2>1, <2>2, <2>3, <2>4 DEF Handle
\* What is alive after a mass revocation was in flight at it.
<1>4. ASSUME NEW r \in Requests, RevokeAll(r) PROVE RevocationInv'
  <2>1. \A o \in Requests : Live(o)' => root'[o] \in escaped'
    BY <1>4, RevokeAllFacts
  <2> QED BY <2>1 DEF RevocationInv
\* A new login is younger than every request so far.
<1>5. ASSUME NEW r \in Requests, StartLogin(r) PROVE RevocationInv'
  <2>1. /\ IsNext(r) /\ UNCHANGED <<session, escaped>>
        /\ pc'[r] = "sign" /\ root'[r] = r /\ job'[r].kind = "login"
        /\ \A o \in Requests \ {r} : pc'[o] = pc[o] /\ job'[o] = job[o] /\ root'[o] = root[o]
    BY <1>5 DEF StartLogin, NoJob, SessionInv, SessionTypeOK
  <2>2. ASSUME NEW p \in Requests, job'[p].kind = "revokeAll" PROVE ~(r < p)
    <3>1. pc[p] # "idle" /\ pc[r] = "idle"
      BY <2>1, <2>2 DEF IsNext, SessionInv, RequestsFit, Fits
    <3> QED BY <3>1 DEF SessionInv, SentInOrder
  <2>3. ASSUME NEW p \in Requests, NEW o \in Requests, job'[p].kind = "revokeAll",
               Live(o)', root'[o] < p
        PROVE  root'[o] \in escaped'
    <3>1. o # r
      BY <2>1, <2>2, <2>3
    <3>2. Live(o) /\ root[o] < p /\ job[p].kind = "revokeAll"
      BY <2>1, <2>3, <3>1 DEF Unrevoked
    <3> QED BY <2>1, <3>1, <3>2 DEF RevocationInv
  <2> QED BY <2>3 DEF RevocationInv
<1>6. ASSUME NEW r \in Requests, NEW kind \in {"refresh", "logout"},
             NEW token \in 1..MaxTime, Send(r, kind, token)
      PROVE  RevocationInv'
  <2>1. /\ UNCHANGED <<session, escaped, root>> /\ pc'[r] = "find"
        /\ \A o \in Requests \ {r} : pc'[o] = pc[o] /\ job'[o] = job[o]
        /\ job'[r].kind = kind
    <3>1. /\ UNCHANGED <<session, escaped, root>> /\ pc'[r] = "find"
          /\ \A o \in Requests \ {r} : pc'[o] = pc[o] /\ job'[o] = job[o]
      BY <1>6 DEF Send, SessionInv, SessionTypeOK
    <3>2. job' = [job EXCEPT ![r] =
                    [kind |-> kind, token |-> token, match |-> None, issued |-> 0]]
      BY <1>6, NewRequestFacts
    <3>3. job'[r].kind = kind
      BY <3>2 DEF SessionInv, SessionTypeOK
    <3> QED BY <3>1, <3>3
  <2>2. \A o \in Requests : Live(o)' => Live(o) /\ root'[o] = root[o]
    BY <2>1 DEF Unrevoked
  <2> HIDE DEF Live
  <2> QED BY <1>1, <2>1, <2>2
<1> QED BY <1>2, <1>3, <1>4, <1>5, <1>6 DEF SessionStep

-----------------------------------------------------------------------------
(* The browser *)

StoreType == [access : 0..MaxTime, refresh : 0..MaxTime]

CallType == [at : {"idle"} \cup Open, tab : Tabs \cup {None}, kind : {None, "api", "logout"},
             access : 0..MaxTime, body : 0..MaxTime, retried : BOOLEAN,
             request : Requests \cup {None}]

LEMMA ClientTypes ==
  TypeOK <=> /\ SessionTypeOK /\ store \in StoreType /\ call \in [Calls -> CallType]
             /\ refreshing \in [Tabs -> Requests \cup {None}]
             /\ entering \in [Tabs -> Requests \cup {None}]
             /\ sender \in [Requests -> Tabs \cup {None}]
BY DEF TypeOK, StoreType, CallType

(***************************************************************************)
(* Whatever the browser does to the sessions is one of their own steps.    *)
(***************************************************************************)
LEMMA BrowserUsesSessions ==
  ASSUME TypeOK, [Next]_vars
  PROVE  [SessionStep]_sessionVars
<1>1. ASSUME NEW t \in Tabs, NEW r \in Requests, LogIn(t, r) PROVE SessionStep
  BY <1>1 DEF LogIn, SessionStep
<1>2. ASSUME NEW t \in Tabs, SettleLogin(t) \/ RefreshAnswered(t) \/ RefreshRefused(t)
      PROVE  UNCHANGED sessionVars
  BY <1>2 DEF SettleLogin, RefreshAnswered, RefreshRefused
<1>3. ASSUME NEW c \in Calls, NEW t \in Tabs, NEW kind \in {"api", "logout"},
             StartCall(c, t, kind)
      PROVE  UNCHANGED sessionVars
  BY <1>3 DEF StartCall
<1>4. ASSUME NEW c \in Calls, Serve(c) PROVE [SessionStep]_sessionVars
  <2>1. CASE UNCHANGED sessionVars
    BY <2>1
  <2>2. ASSUME NEW r \in Requests, Send(r, "logout", call[c].body), call[c].body # 0
        PROVE  SessionStep
    <3>1. call[c].body \in 1..MaxTime
      BY <2>2, ClientTypes DEF CallType
    <3> QED BY <2>2, <3>1 DEF SessionStep
  <2> QED BY <1>4, <2>1, <2>2 DEF Serve
<1>5. ASSUME NEW c \in Calls, StartRefresh(c) PROVE SessionStep
  <2>1. store.refresh \in 1..MaxTime
    BY <1>5, ClientTypes DEF StoreType, StartRefresh
  <2>2. PICK r \in Requests : Send(r, "refresh", store.refresh)
    BY <1>5 DEF StartRefresh
  <2> QED BY <2>1, <2>2 DEF SessionStep
<1>6. ASSUME NEW c \in Calls,
             \/ RejectRetried(c) \/ JoinRefresh(c) \/ RefreshImpossible(c) \/ Break(c)
             \/ SettleLogout(c)
      PROVE  UNCHANGED sessionVars
  BY <1>6 DEF RejectRetried, JoinRefresh, RefreshImpossible, Break, SettleLogout
<1>7. CASE Browser
  BY <1>1, <1>2, <1>3, <1>4, <1>5, <1>6, <1>7 DEF Browser, Answer
<1>8. CASE Server \/ Tick
  BY <1>8 DEF Server, SessionStep
<1> QED BY <1>7, <1>8 DEF Next, vars

\* A request that was sent stays sent, and stays what it is.
LEMMA RequestsStay ==
  ASSUME SessionInv, [SessionStep]_sessionVars, NEW o \in Requests, pc[o] # "idle"
  PROVE  pc'[o] # "idle" /\ job'[o].kind = job[o].kind /\ job'[o].token = job[o].token
<1>1. ASSUME NEW r \in Requests, Handle(r) \/ Fail(r)
      PROVE  pc'[o] # "idle" /\ job'[o].kind = job[o].kind /\ job'[o].token = job[o].token
  BY <1>1, FindFacts, GoOnFacts, SignFacts, InsertFacts DEF Handle
<1>2. ASSUME NEW r \in Requests, RevokeAll(r)
      PROVE  pc'[o] # "idle" /\ job'[o] = job[o]
  BY <1>2, RevokeAllFacts DEF IsNext
<1>3. ASSUME NEW r \in Requests, StartLogin(r)
      PROVE  pc'[o] # "idle" /\ job'[o] = job[o]
  BY <1>3 DEF StartLogin, IsNext, SessionInv, SessionTypeOK
<1>4. ASSUME NEW r \in Requests, NEW kind \in {"refresh", "logout"},
             NEW token \in 1..MaxTime, Send(r, kind, token)
      PROVE  pc'[o] # "idle" /\ job'[o] = job[o]
  BY <1>4 DEF Send, IsNext, SessionInv, SessionTypeOK
<1> QED BY <1>1, <1>2, <1>3, <1>4 DEF SessionStep, sessionVars, Tick

\* What it has matched, it does not change.
LEMMA MatchStays ==
  ASSUME SessionInv, [SessionStep]_sessionVars, NEW o \in Requests, pc[o] # "idle",
         job[o].match # None
  PROVE  job'[o].match = job[o].match
<1>1. ASSUME NEW r \in Requests, Handle(r) \/ Fail(r) PROVE job'[o].match = job[o].match
  BY <1>1, FindFacts, GoOnFacts, SignFacts, InsertFacts DEF Handle
<1>2. ASSUME NEW r \in Requests, RevokeAll(r) PROVE job'[o] = job[o]
  BY <1>2, RevokeAllFacts DEF IsNext
<1>3. ASSUME NEW r \in Requests, StartLogin(r) PROVE job'[o] = job[o]
  BY <1>3 DEF StartLogin, IsNext, SessionInv, SessionTypeOK
<1>4. ASSUME NEW r \in Requests, NEW kind \in {"refresh", "logout"},
             NEW token \in 1..MaxTime, Send(r, kind, token)
      PROVE  job'[o] = job[o]
  BY <1>4 DEF Send, IsNext, SessionInv, SessionTypeOK
<1> QED BY <1>1, <1>2, <1>3, <1>4 DEF SessionStep, sessionVars, Tick

LEMMA SentHaveKind ==
  ASSUME SessionInv, NEW o \in Requests, job[o].kind \in {"login", "refresh", "logout"}
  PROVE  pc[o] # "idle"
BY DEF SessionInv, RequestsFit, Fits

-----------------------------------------------------------------------------
\* The calls after the tab has left, after a rejection, and after a resend.
LEMMA LeaveCalls ==
  ASSUME TypeOK, CallsFit, NEW t \in Tabs, Leave(t)
  PROVE  /\ call' \in [Calls -> CallType] /\ CallsFit'
         /\ UNCHANGED <<entering, sender>>
         /\ refreshing' \in [Tabs -> Requests \cup {None}]
         /\ refreshing'[t] = None /\ \A u \in Tabs \ {t} : refreshing'[u] = refreshing[u]
         /\ \A c \in Calls : IF c \in OpenOf(t) THEN call'[c] = NoCall ELSE call'[c] = call[c]
<1> USE DEF Leave
<1>1. call \in [Calls -> CallType] /\ refreshing \in [Tabs -> Requests \cup {None}]
  BY ClientTypes
<1>2. NoCall \in CallType /\ NoCall.at = "idle"
  BY DEF NoCall, CallType
<1>3. \A c \in Calls : IF c \in OpenOf(t) THEN call'[c] = NoCall ELSE call'[c] = call[c]
  OBVIOUS
<1>4. call' \in [Calls -> CallType]
  BY <1>1, <1>2
<1>5. CallsFit'
  BY <1>2, <1>3 DEF CallsFit, Open
<1> QED BY <1>1, <1>3, <1>4, <1>5

\* A call is rejected: either it is forgotten, or its tab has left.
LEMMA RejectedCalls ==
  ASSUME TypeOK, CallsFit, NEW c \in Calls, call[c].at \in Open, Rejected(c)
  PROVE  \/ store' = NoTokens /\ Leave(call[c].tab) /\ call[c].tab \in Tabs
         \/ /\ UNCHANGED <<store, refreshing, entering, sender>>
            /\ call' \in [Calls -> CallType] /\ CallsFit'
            /\ call'[c] = NoCall /\ \A d \in Calls \ {c} : call'[d] = call[d]
<1>1. call \in [Calls -> CallType]
  BY ClientTypes
<1>2. NoCall \in CallType /\ NoCall.at = "idle"
  BY DEF NoCall, CallType
<1>3. CASE call[c].kind = "logout"
  BY <1>3 DEF Rejected, CallsFit
<1>4. CASE call[c].kind # "logout"
  <2>1. /\ call' = [call EXCEPT ![c] = NoCall]
        /\ UNCHANGED <<store, refreshing, entering, sender>>
    BY <1>4 DEF Rejected
  <2>2. CallsFit'
    BY <1>1, <1>2, <2>1 DEF CallsFit, Open
  <2> QED BY <1>1, <1>2, <2>1, <2>2
<1> QED BY <1>3, <1>4

(***************************************************************************)
(* The steps of the browser by what they do to its state: the store is     *)
(* emptied and a tab leaves, one call changes and nothing else, a logout   *)
(* is served, or one of the four steps about a login or a refresh.         *)
(***************************************************************************)
LeavesEmpty(t) == store' = NoTokens /\ Leave(t) /\ UNCHANGED sessionVars

OneCall(c) ==
  /\ UNCHANGED <<sessionVars, store, refreshing, entering, sender>>
  /\ call' \in [Calls -> CallType] /\ CallsFit'
  /\ \A d \in Calls \ {c} : call'[d] = call[d]
  /\ \/ call[c].at = "sent" /\ call'[c] = NoCall
     \/ /\ call[c].at = "idle" /\ call'[c].at = "sent"
        /\ call'[c].body = 0 \/ call'[c].body = store.refresh
     \/ /\ call[c].at = "sent" /\ call'[c].at = "held" /\ call'[c].body = call[c].body
        /\ call'[c].tab = call[c].tab /\ refreshing[call[c].tab] # None

ServesLogout(c, r) ==
  /\ Send(r, "logout", call[c].body) /\ call[c].body \in 1..MaxTime
  /\ UNCHANGED <<store, refreshing, entering, sender>>
  /\ call' \in [Calls -> CallType] /\ CallsFit'
  /\ \A d \in Calls \ {c} : call'[d] = call[d]
  /\ call[c].at = "sent" /\ call'[c].at = "served" /\ call'[c].request = r
  /\ call'[c].body = call[c].body /\ call'[c].tab = call[c].tab

Asks(c, t, r) ==
  /\ Send(r, "refresh", store.refresh) /\ store.refresh \in 1..MaxTime
  /\ UNCHANGED <<store, entering>>
  /\ call' \in [Calls -> CallType] /\ CallsFit'
  /\ \A d \in Calls \ {c} : call'[d] = call[d]
  /\ call[c].at = "sent" /\ call'[c].at = "held" /\ call'[c].body = call[c].body
  /\ t = call[c].tab /\ t \in Tabs /\ call'[c].tab = t
  /\ refreshing' = [refreshing EXCEPT ![t] = r] /\ refreshing[t] = None
  /\ sender' = [sender EXCEPT ![r] = t]

Entered(t) ==
  /\ entering[t] # None /\ entering' = [entering EXCEPT ![t] = None]
  /\ \/ pc[entering[t]] = "done" /\ store' = Pair(entering[t])
     \/ UNCHANGED store
  /\ UNCHANGED <<sessionVars, call, refreshing, sender>>

AnswerTaken(t) ==
  /\ refreshing[t] # None /\ pc[refreshing[t]] = "done" /\ store' = Pair(refreshing[t])
  /\ refreshing' = [refreshing EXCEPT ![t] = None]
  /\ UNCHANGED <<sessionVars, entering, sender>>
  /\ call' \in [Calls -> CallType] /\ CallsFit'
  /\ \A c \in Calls :
       /\ call'[c].tab = call[c].tab /\ call'[c].body = call[c].body
       /\ call'[c].request = call[c].request
       /\ call'[c].at = IF call[c].tab = t /\ call[c].at = "held" THEN "sent" ELSE call[c].at

\* The server moves, and the browser does not notice.
ServerAlone ==
  /\ UNCHANGED clientVars
  /\ Tick \/ \E r \in Requests : Handle(r) \/ Fail(r) \/ RevokeAll(r)

\* A record of the shape of a call after five of its fields have changed.
LEMMA ChangedCall ==
  ASSUME NEW Ats, NEW Owners, NEW Kinds, NEW Times, NEW Asked,
         NEW old \in [at : Ats, tab : Owners, kind : Kinds, access : Times, body : Times,
                      retried : BOOLEAN, request : Asked],
         NEW at \in Ats, NEW tab \in Owners, NEW kind \in Kinds,
         NEW access \in Times, NEW body \in Times, NEW new,
         new = [old EXCEPT !.at = at, !.tab = tab, !.kind = kind,
                  !.access = access, !.body = body]
  PROVE  /\ new \in [at : Ats, tab : Owners, kind : Kinds, access : Times, body : Times,
                     retried : BOOLEAN, request : Asked]
         /\ new.at = at /\ new.tab = tab /\ new.kind = kind /\ new.body = body
OBVIOUS

LEMMA OneCallSteps ==
  ASSUME TypeOK, CallsFit, NEW c \in Calls,
         \/ JoinRefresh(c)
         \/ \E t \in Tabs, kind \in {"api", "logout"} : StartCall(c, t, kind)
  PROVE  OneCall(c)
<1>1. /\ call \in [Calls -> CallType] /\ store \in StoreType
      /\ call[c] \in CallType
  BY ClientTypes
<1>2. CASE JoinRefresh(c)
  <2>1. /\ call[c].at = "sent" /\ refreshing[call[c].tab] # None
        /\ UNCHANGED <<sessionVars, store, refreshing, entering, sender>>
        /\ call' = [call EXCEPT ![c].at = "held", ![c].retried = TRUE]
    BY <1>2 DEF JoinRefresh, Unauthorized, Hold
  <2>2. /\ call' \in [Calls -> CallType] /\ call'[c].at = "held"
        /\ call'[c].body = call[c].body /\ call'[c].tab = call[c].tab
        /\ call'[c].kind = call[c].kind
        /\ \A d \in Calls \ {c} : call'[d] = call[d]
    BY <1>1, <2>1 DEF CallType, Open
  <2>3. CallsFit'
    BY <2>1, <2>2 DEF CallsFit, Open
  <2> QED BY <2>1, <2>2, <2>3 DEF OneCall
<1>3. ASSUME NEW t \in Tabs, NEW kind \in {"api", "logout"}, StartCall(c, t, kind)
      PROVE  OneCall(c)
  <2> DEFINE body == IF kind = "logout" THEN store.refresh ELSE 0
             access == store.access
             n == [NoCall EXCEPT !.at = "sent", !.tab = t, !.kind = kind,
                     !.access = access, !.body = body]
  <2>1. /\ call[c].at = "idle"
        /\ UNCHANGED <<sessionVars, store, refreshing, entering, sender>>
        /\ call' = [call EXCEPT ![c] = n]
    BY <1>3 DEF StartCall
  <2>2. body \in 0..MaxTime /\ access \in 0..MaxTime /\ (body = 0 \/ body = store.refresh)
    BY <1>1 DEF StoreType
  <2> HIDE DEF body, access
  <2>3. n \in CallType /\ n.at = "sent" /\ n.tab = t /\ n.kind = kind /\ n.body = body
    <3>1. NoCall \in CallType
      BY DEF NoCall, CallType
    <3> DEFINE Times == 0..MaxTime
               Ats == {"idle"} \cup Open
               Kinds == {None, "api", "logout"}
               Owners == Tabs \cup {None}
               Asked == Requests \cup {None}
               Sent == "sent"
    <3>2. /\ CallType = [at : Ats, tab : Owners, kind : Kinds, access : Times, body : Times,
                         retried : BOOLEAN, request : Asked]
          /\ Sent \in Ats /\ t \in Owners /\ kind \in Kinds
          /\ access \in Times /\ body \in Times
      BY <2>2 DEF CallType, Open
    <3> HIDE DEF Times, Ats, Kinds, Owners, Asked, Sent
    <3>3. n = [NoCall EXCEPT !.at = Sent, !.tab = t, !.kind = kind,
                 !.access = access, !.body = body]
      BY DEF Sent
    <3> HIDE DEF n
    <3>4. n \in CallType /\ n.at = Sent /\ n.tab = t /\ n.kind = kind /\ n.body = body
      BY <3>1, <3>2, <3>3, ChangedCall
    <3> QED BY <3>4 DEF Sent
  <2> HIDE DEF n
  <2>4. /\ call' \in [Calls -> CallType] /\ call'[c] = n
        /\ \A d \in Calls \ {c} : call'[d] = call[d]
    BY <1>1, <2>1, <2>3
  <2>5. CallsFit'
    BY <2>3, <2>4 DEF CallsFit, Open
  <2> QED BY <2>1, <2>2, <2>3, <2>4, <2>5 DEF OneCall
<1> QED BY <1>2, <1>3

LEMMA ServeSteps ==
  ASSUME TypeOK, CallsFit, NEW c \in Calls, Serve(c)
  PROVE  \/ OneCall(c)
         \/ \E t \in Tabs : LeavesEmpty(t)
         \/ \E r \in Requests : ServesLogout(c, r)
<1>1. call \in [Calls -> CallType] /\ call[c] \in CallType /\ call[c].at = "sent"
  BY ClientTypes DEF Serve
<1>2. NoCall \in CallType /\ NoCall.at = "idle"
  BY DEF NoCall, CallType
<1>3. CASE /\ call' = [call EXCEPT ![c] = NoCall]
           /\ UNCHANGED <<sessionVars, store, refreshing, entering, sender>>
  <2>1. CallsFit'
    BY <1>1, <1>2, <1>3 DEF CallsFit, Open
  <2> QED BY <1>1, <1>2, <1>3, <2>1 DEF OneCall
<1>4. CASE Rejected(c) /\ UNCHANGED sessionVars
  BY <1>1, <1>4, RejectedCalls DEF OneCall, LeavesEmpty, Open
<1>5. ASSUME NEW r \in Requests, Send(r, "logout", call[c].body), call[c].body # 0,
             call' = [call EXCEPT ![c].at = "served", ![c].request = r],
             UNCHANGED <<store, refreshing, entering, sender>>
      PROVE  ServesLogout(c, r)
  <2>1. call[c].body \in 1..MaxTime
    BY <1>1, <1>5 DEF CallType
  <2>2. /\ call' \in [Calls -> CallType] /\ call'[c].at = "served" /\ call'[c].request = r
        /\ call'[c].body = call[c].body /\ call'[c].tab = call[c].tab
        /\ call'[c].kind = call[c].kind
        /\ \A d \in Calls \ {c} : call'[d] = call[d]
    BY <1>1, <1>5 DEF CallType, Open
  <2>3. CallsFit'
    BY <1>1, <2>2 DEF CallsFit, Open
  <2> QED BY <1>1, <1>5, <2>1, <2>2, <2>3 DEF ServesLogout
<1> QED BY <1>3, <1>4, <1>5 DEF Serve

LEMMA AskSteps ==
  ASSUME TypeOK, CallsFit, NEW c \in Calls, StartRefresh(c)
  PROVE  \E t \in Tabs, r \in Requests : Asks(c, t, r)
<1> DEFINE t == call[c].tab
<1>1. /\ call \in [Calls -> CallType] /\ call[c] \in CallType /\ call[c].at = "sent"
      /\ t \in Tabs /\ store.refresh \in 1..MaxTime
  BY ClientTypes DEF StartRefresh, Unauthorized, CallsFit, Open, StoreType
<1>2. call' = [call EXCEPT ![c].at = "held", ![c].retried = TRUE]
  BY DEF StartRefresh, Hold
<1>3. /\ call' \in [Calls -> CallType] /\ call'[c].at = "held"
      /\ call'[c].body = call[c].body /\ call'[c].tab = t
      /\ call'[c].kind = call[c].kind
      /\ \A d \in Calls \ {c} : call'[d] = call[d]
  BY <1>1, <1>2 DEF CallType, Open
<1>4. CallsFit'
  BY <1>1, <1>3 DEF CallsFit, Open
<1>5. PICK r \in Requests :
        /\ Send(r, "refresh", store.refresh)
        /\ refreshing' = [refreshing EXCEPT ![t] = r]
        /\ sender' = [sender EXCEPT ![r] = t]
  BY DEF StartRefresh
<1>6. refreshing[t] = None /\ UNCHANGED <<store, entering>>
  BY DEF StartRefresh
<1> HIDE DEF t
<1>7. t = call[c].tab
  BY DEF t
<1> QED BY <1>1, <1>3, <1>4, <1>5, <1>6, <1>7 DEF Asks

LEMMA AnswerSteps ==
  ASSUME TypeOK, CallsFit, NEW t \in Tabs, RefreshAnswered(t)
  PROVE  AnswerTaken(t)
<1> DEFINE r == refreshing[t]
           token == job[r].issued
<1>1. /\ r # None /\ pc[r] = "done" /\ store' = Pair(r)
      /\ refreshing' = [refreshing EXCEPT ![t] = None]
      /\ UNCHANGED <<sessionVars, entering, sender>>
      /\ Resend(t, token)
  BY DEF RefreshAnswered
<1>2. /\ call \in [Calls -> CallType] /\ token \in 0..MaxTime
  BY <1>1, ClientTypes DEF SessionTypeOK
<1> HIDE DEF r, token
<1>3. ASSUME NEW c \in Calls
      PROVE  /\ call'[c] \in CallType
             /\ call'[c].tab = call[c].tab /\ call'[c].body = call[c].body
             /\ call'[c].request = call[c].request /\ call'[c].kind = call[c].kind
             /\ call'[c].at = IF call[c].tab = t /\ call[c].at = "held"
                              THEN "sent" ELSE call[c].at
  <2>1. call'[c] = IF c \in OpenOf(t) /\ call[c].at = "held"
                   THEN [call[c] EXCEPT !.at = "sent", !.access = token] ELSE call[c]
    BY <1>1 DEF Resend
  <2>2. c \in OpenOf(t) /\ call[c].at = "held" <=> call[c].tab = t /\ call[c].at = "held"
    BY DEF OpenOf, Open
  <2> QED BY <1>2, <2>1, <2>2 DEF CallType, Open
<1>4. call' \in [Calls -> CallType]
  <2>1. call' = [c \in Calls |-> call'[c]]
    BY <1>1 DEF Resend
  <2> QED BY <1>3, <2>1
<1>5. CallsFit'
  BY <1>3 DEF CallsFit, Open
<1> QED BY <1>1, <1>3, <1>4, <1>5 DEF AnswerTaken, r

LEMMA BrowserSteps ==
  ASSUME TypeOK, CallsFit, [Next]_vars
  PROVE  \/ UNCHANGED vars
         \/ ServerAlone
         \/ \E t \in Tabs : \/ LeavesEmpty(t) \/ Entered(t) \/ AnswerTaken(t)
                            \/ \E r \in Requests : LogIn(t, r)
         \/ \E c \in Calls : \/ OneCall(c)
                             \/ \E r \in Requests : ServesLogout(c, r)
                             \/ \E t \in Tabs, r \in Requests : Asks(c, t, r)
<1>1. ASSUME NEW c \in Calls, RejectRetried(c) \/ Break(c)
      PROVE  OneCall(c) \/ \E t \in Tabs : LeavesEmpty(t)
  BY <1>1, RejectedCalls DEF RejectRetried, Break, Unauthorized, OneCall, LeavesEmpty, Open
<1>2. ASSUME NEW c \in Calls, RefreshImpossible(c) \/ SettleLogout(c)
      PROVE  \E t \in Tabs : LeavesEmpty(t)
  BY <1>2 DEF RefreshImpossible, SettleLogout, Unauthorized, LeavesEmpty, CallsFit, Open
<1>3. ASSUME NEW t \in Tabs, RefreshRefused(t) PROVE LeavesEmpty(t)
  BY <1>3 DEF RefreshRefused, LeavesEmpty
<1>4. ASSUME NEW t \in Tabs, SettleLogin(t) PROVE Entered(t)
  BY <1>4 DEF SettleLogin, Entered
<1>5. CASE (Server \/ Tick) /\ UNCHANGED clientVars
  BY <1>5 DEF Server, ServerAlone
<1>6. ASSUME NEW c \in Calls, Answer(c)
      PROVE  \/ \E t \in Tabs : LeavesEmpty(t)
             \/ OneCall(c)
             \/ \E r \in Requests : ServesLogout(c, r)
             \/ \E t \in Tabs, r \in Requests : Asks(c, t, r)
  BY <1>1, <1>2, <1>6, ServeSteps, AskSteps, OneCallSteps DEF Answer
<1>7. CASE Browser
  BY <1>3, <1>4, <1>6, <1>7, AnswerSteps, OneCallSteps DEF Browser
<1> QED BY <1>5, <1>7 DEF Next

LEMMA InitClientInv == Init => ClientInv
<1> SUFFICES ASSUME Init PROVE ClientInv
  OBVIOUS
<1>1. SessionTypeOK
  BY InitSessionInv DEF SessionInv
<1>2. /\ store = NoTokens /\ call = [c \in Calls |-> NoCall]
      /\ refreshing = [t \in Tabs |-> None] /\ entering = [t \in Tabs |-> None]
      /\ sender = [r \in Requests |-> None]
  BY DEF Init
<1>3. store \in StoreType
  BY <1>2 DEF NoTokens, StoreType
<1>4. NoCall \in CallType /\ NoCall.at = "idle"
  BY DEF NoCall, CallType
<1> QED BY <1>1, <1>2, <1>3, <1>4, ClientTypes DEF ClientInv, CallsFit, WaitsFit, Open

\* What a tab waits for is a request that was sent.
LEMMA WaitsForSent ==
  ASSUME SessionInv, ClientInv, NEW t \in Tabs
  PROVE  /\ refreshing[t] # None => /\ refreshing[t] \in Requests /\ pc[refreshing[t]] # "idle"
                                    /\ job[refreshing[t]].kind = "refresh"
         /\ entering[t] # None => /\ entering[t] \in Requests /\ pc[entering[t]] # "idle"
                                  /\ job[entering[t]].kind = "login"
BY ClientTypes, SentHaveKind DEF ClientInv, WaitsFit

\* The request that a step sends is new, to the server and to every tab.
LEMMA NewToTabs ==
  ASSUME SessionInv, ClientInv, NEW r \in Requests, IsNext(r)
  PROVE  /\ pc[r] = "idle" /\ job[r].token = 0 /\ session[r].token = 0
         /\ \A t \in Tabs : refreshing[t] # r /\ entering[t] # r
<1>1. pc[r] = "idle"
  BY DEF IsNext
<1>2. job[r].token = 0 /\ session[r].token = 0
  BY <1>1 DEF SessionInv, RequestsFit, Fits
<1> QED BY <1>1, <1>2, WaitsForSent

LEMMA WaitsFitInductive ==
  ASSUME SessionInv, ClientInv, [Next]_vars
  PROVE  WaitsFit'
<1>1. /\ SessionInv' /\ [SessionStep]_sessionVars
  BY BrowserUsesSessions, SessionInvInductive DEF ClientInv
<1>2. /\ refreshing \in [Tabs -> Requests \cup {None}]
      /\ entering \in [Tabs -> Requests \cup {None}]
  BY ClientTypes DEF ClientInv
<1>3. ASSUME NEW t \in Tabs
      PROVE  /\ refreshing[t] # None => job'[refreshing[t]].kind = "refresh"
             /\ entering[t] # None => job'[entering[t]].kind = "login"
  BY <1>1, WaitsForSent, RequestsStay
\* Nobody begins to wait, or one tab begins to wait for a new request.
<1>4. ASSUME \A t \in Tabs : refreshing'[t] = refreshing[t] \/ refreshing'[t] = None,
             \A t \in Tabs : entering'[t] = entering[t] \/ entering'[t] = None
      PROVE  WaitsFit'
  BY <1>3, <1>4 DEF WaitsFit, ClientInv
<1>5. ASSUME NEW t \in Tabs, NEW r \in Requests, LogIn(t, r)
      PROVE  WaitsFit'
  <2>1. /\ entering' = [entering EXCEPT ![t] = r] /\ UNCHANGED refreshing
        /\ StartLogin(r)
    BY <1>5 DEF LogIn
  <2>2. /\ IsNext(r)
        /\ job' = [job EXCEPT ![r] = [kind |-> "login", token |-> 0, match |-> None, issued |-> 0]]
    BY <2>1, NewRequestFacts
  <2>3. job'[r].kind = "login"
    BY <2>2 DEF SessionInv, SessionTypeOK
  <2>4. \A u \in Tabs : refreshing[u] # r /\ entering[u] # r
    BY <2>2, NewToTabs
  <2>5. entering'[t] = r /\ \A u \in Tabs \ {t} : entering'[u] = entering[u]
    BY <1>2, <2>1
  <2> QED BY <1>3, <2>1, <2>3, <2>4, <2>5 DEF WaitsFit, ClientInv
<1>6. ASSUME NEW c \in Calls, NEW t \in Tabs, NEW r \in Requests, Asks(c, t, r)
      PROVE  WaitsFit'
  <2>1. /\ refreshing' = [refreshing EXCEPT ![t] = r] /\ UNCHANGED entering
        /\ Send(r, "refresh", store.refresh) /\ store.refresh \in 1..MaxTime
    BY <1>6 DEF Asks
  <2>2. /\ IsNext(r)
        /\ job' = [job EXCEPT ![r] =
             [kind |-> "refresh", token |-> store.refresh, match |-> None, issued |-> 0]]
    BY <2>1, NewRequestFacts
  <2>3. job'[r].kind = "refresh"
    BY <2>2 DEF SessionInv, SessionTypeOK
  <2>4. \A u \in Tabs : refreshing[u] # r /\ entering[u] # r
    BY <2>2, NewToTabs
  <2>5. refreshing'[t] = r /\ \A u \in Tabs \ {t} : refreshing'[u] = refreshing[u]
    BY <1>2, <2>1
  <2> QED BY <1>3, <2>1, <2>3, <2>4, <2>5 DEF WaitsFit, ClientInv
<1>7. ASSUME NEW t \in Tabs, LeavesEmpty(t) \/ Entered(t) \/ AnswerTaken(t)
      PROVE  WaitsFit'
  <2>1. CASE LeavesEmpty(t)
    BY <1>4, <2>1, LeaveCalls DEF LeavesEmpty, ClientInv
  <2>2. CASE Entered(t)
    BY <1>2, <1>4, <2>2 DEF Entered
  <2>3. CASE AnswerTaken(t)
    BY <1>2, <1>4, <2>3 DEF AnswerTaken
  <2> QED BY <1>7, <2>1, <2>2, <2>3
<1>8. ASSUME NEW c \in Calls, OneCall(c) \/ \E r \in Requests : ServesLogout(c, r)
      PROVE  WaitsFit'
  BY <1>4, <1>8 DEF OneCall, ServesLogout
<1>9. CASE ServerAlone \/ UNCHANGED vars
  BY <1>4, <1>9 DEF ServerAlone, vars, clientVars
<1> QED BY <1>5, <1>6, <1>7, <1>8, <1>9, BrowserSteps DEF ClientInv

\* The browser's part of the invariant that concerns one state only.
BrowserShape ==
  /\ call \in [Calls -> CallType] /\ CallsFit /\ store \in StoreType
  /\ refreshing \in [Tabs -> Requests \cup {None}]
  /\ entering \in [Tabs -> Requests \cup {None}]
  /\ sender \in [Requests -> Tabs \cup {None}]

LEMMA ClientInvInductive ==
  ASSUME SessionInv, ClientInv, [Next]_vars
  PROVE  ClientInv'
<1>1. SessionTypeOK'
  BY BrowserUsesSessions, SessionInvInductive DEF ClientInv, SessionInv
<1>2. BrowserShape
  BY ClientTypes DEF ClientInv, BrowserShape
<1>3. NoTokens \in StoreType
  BY DEF NoTokens, StoreType
<1>4. ASSUME NEW r \in Requests PROVE Pair(r) \in StoreType
  BY DEF Pair, StoreType, ClientInv, TypeOK, SessionTypeOK
<1>5. ASSUME NEW t \in Tabs, LeavesEmpty(t) PROVE BrowserShape'
  BY <1>2, <1>3, <1>5, LeaveCalls DEF LeavesEmpty, ClientInv, BrowserShape
<1>6. ASSUME UNCHANGED call PROVE CallsFit'
  BY <1>2, <1>6 DEF BrowserShape, CallsFit
<1>7. ASSUME NEW t \in Tabs, Entered(t) PROVE BrowserShape'
  <2>1. /\ entering[t] \in Requests /\ entering' = [entering EXCEPT ![t] = None]
        /\ store' = Pair(entering[t]) \/ store' = store
        /\ UNCHANGED <<call, refreshing, sender>>
    BY <1>2, <1>7 DEF Entered, BrowserShape
  <2> QED BY <1>2, <1>4, <1>6, <2>1 DEF BrowserShape
<1>8. ASSUME NEW t \in Tabs, AnswerTaken(t) PROVE BrowserShape'
  BY <1>2, <1>4, <1>8 DEF AnswerTaken, BrowserShape
<1>9. ASSUME NEW t \in Tabs, NEW r \in Requests, LogIn(t, r) PROVE BrowserShape'
  BY <1>2, <1>6, <1>9 DEF LogIn, BrowserShape
<1>10. ASSUME NEW c \in Calls, OneCall(c) \/ \E r \in Requests : ServesLogout(c, r)
       PROVE  BrowserShape'
  BY <1>2, <1>10 DEF OneCall, ServesLogout, BrowserShape
<1>11. ASSUME NEW c \in Calls, NEW t \in Tabs, NEW r \in Requests, Asks(c, t, r)
       PROVE  BrowserShape'
  BY <1>2, <1>11 DEF Asks, BrowserShape
<1>12. ASSUME ServerAlone \/ UNCHANGED vars PROVE BrowserShape'
  <2>1. UNCHANGED <<call, store, refreshing, entering, sender>>
    BY <1>12 DEF ServerAlone, vars, clientVars
  <2> QED BY <1>2, <1>6, <2>1 DEF BrowserShape
<1>13. BrowserShape'
  BY <1>5, <1>7, <1>8, <1>9, <1>10, <1>11, <1>12, BrowserSteps DEF ClientInv
<1>14. TypeOK'
  BY <1>1, <1>13 DEF BrowserShape, TypeOK, StoreType, CallType
<1> QED BY <1>13, <1>14, WaitsFitInductive DEF ClientInv, BrowserShape

(***************************************************************************)
(* The invariants of every behaviour.                                      *)
(***************************************************************************)
LEMMA InitRevocationInv == Init => RevocationInv
BY KindsAssumption DEF Init, SessionInit, RevocationInv, NoJob

LEMMA Invariants == Spec => [](SessionInv /\ ClientInv)
<1>1. Init => SessionInv /\ ClientInv
  BY InitSessionInv, InitClientInv
<1>2. SessionInv /\ ClientInv /\ [Next]_vars => SessionInv' /\ ClientInv'
  BY BrowserUsesSessions, SessionInvInductive, ClientInvInductive DEF ClientInv
<1> QED BY <1>1, <1>2, PTL DEF Spec

LEMMA SessionInvariants == Spec => [](RotationInv /\ RevocationInv)
<1>1. Init => RotationInv /\ RevocationInv
  BY InitRotationInv, InitRevocationInv
<1>2. /\ SessionInv /\ ClientInv /\ RotationInv /\ RevocationInv /\ [Next]_vars
      => RotationInv' /\ RevocationInv'
  BY BrowserUsesSessions, RotationInvInductive, RevocationInvInductive DEF ClientInv
<1> QED BY <1>1, <1>2, Invariants, PTL DEF Spec

(***************************************************************************)
(* The shape of the tables, the handlers' variables and the browser's      *)
(* state is kept by every request of the modules auth and lib/api.         *)
(***************************************************************************)
THEOREM WebClientTypeCorrect == Spec => []TypeOK
BY Invariants, PTL DEF ClientInv

(***************************************************************************)
(* Refresh rotation leaves a login at most one session, in every           *)
(* interleaving of requests, as long as no two of them went on with the    *)
(* same session.                                                           *)
(***************************************************************************)
THEOREM RotationLeavesOneSession == Spec => []OneSessionPerLogin
<1>1. ASSUME RotationInv PROVE OneSessionPerLogin
  <2> SUFFICES ASSUME NEW x \in Requests \ forked PROVE Cardinality(Descent(x)) <= 1
    BY DEF OneSessionPerLogin
  <2>1. \A s, o \in Descent(x) : s = o
    BY <1>1 DEF RotationInv, OneHeir
  <2>2. CASE Descent(x) = {}
    BY <2>2, FS_EmptySet
  <2>3. CASE Descent(x) # {}
    <3>1. PICK s \in Descent(x) : TRUE
      BY <2>3
    <3>2. Descent(x) = {s}
      BY <2>1
    <3>3. Cardinality({s}) = 1
      BY FS_Singleton
    <3> QED BY <3>2, <3>3
  <2> QED BY <2>2, <2>3
<1> QED BY <1>1, SessionInvariants, PTL

(***************************************************************************)
(* After a logout that has found its session, no row and no request of     *)
(* that login is left, unless another request went on with that session.   *)
(***************************************************************************)
THEOREM LogoutLeavesNothing == Spec => []LogoutEndsLogin
<1>1. ASSUME SessionInv, RotationInv PROVE LogoutEndsLogin
  <2> SUFFICES ASSUME NEW r \in Requests, LoggedOut(r), root[r] \notin forked
               PROVE  Descent(root[r]) = {}
    BY DEF LogoutEndsLogin, LoggedOut
  <2>1. CASE root[r] \in Requests
    BY <1>1, <2>1 DEF RotationInv, OneHeir
  <2>2. CASE root[r] \notin Requests
    BY <1>1, <2>2 DEF Descent, Unrevoked, SessionInv, RequestsFit, Fits
  <2> QED BY <2>1, <2>2
<1> QED BY <1>1, SessionInvariants, Invariants, PTL

(***************************************************************************)
(* logoutAll and resetPassword: no unrevoked session is of a login older   *)
(* than the revocation, unless a request of that login was between its     *)
(* lookup and its insert at that moment.                                   *)
(***************************************************************************)
THEOREM RevocationIsComplete == Spec => []RevocationReachesAll
<1>1. RevocationInv => RevocationReachesAll
  BY DEF RevocationInv, RevocationReachesAll, Unrevoked
<1> QED BY <1>1, SessionInvariants, PTL

-----------------------------------------------------------------------------
\* Some call of tab t is held until the refresh is answered.
Waits(t) == \E c \in Calls : call[c].tab = t /\ call[c].at = "held"

LEMMA NoCallForgottenInductive ==
  ASSUME ClientInv, NoCallForgotten, [Next]_vars
  PROVE  NoCallForgotten'
<1>1. \A t \in Tabs : refreshing[t] # None <=> Waits(t)
  BY DEF NoCallForgotten, OpenOf, Open, Waits
<1> SUFFICES \A t \in Tabs : refreshing'[t] # None <=> Waits(t)'
  BY DEF NoCallForgotten, OpenOf, Open, Waits
<1>2. /\ refreshing \in [Tabs -> Requests \cup {None}] /\ TypeOK /\ CallsFit
  BY ClientTypes DEF ClientInv
<1>3. NoCall.at = "idle"
  BY DEF NoCall
<1>4. ASSUME NEW u \in Tabs, LeavesEmpty(u), NEW t \in Tabs
      PROVE  refreshing'[t] # None <=> Waits(t)'
  <2>1. /\ refreshing'[u] = None /\ \A v \in Tabs \ {u} : refreshing'[v] = refreshing[v]
        /\ \A c \in Calls : IF c \in OpenOf(u) THEN call'[c] = NoCall ELSE call'[c] = call[c]
    BY <1>2, <1>4, LeaveCalls DEF LeavesEmpty
  <2>2. CASE t = u
    BY <1>3, <2>1, <2>2 DEF Waits, OpenOf, Open
  <2>3. CASE t # u
    <3>1. \A c \in Calls : call'[c].tab = t /\ call'[c].at = "held"
                             <=> call[c].tab = t /\ call[c].at = "held"
      BY <1>3, <2>1, <2>3 DEF OpenOf
    <3> QED BY <1>1, <2>1, <2>3, <3>1 DEF Waits
  <2> QED BY <2>2, <2>3
<1>5. ASSUME NEW c \in Calls, OneCall(c) \/ \E r \in Requests : ServesLogout(c, r),
             NEW t \in Tabs
      PROVE  refreshing'[t] # None <=> Waits(t)'
  <2>1. /\ UNCHANGED refreshing /\ \A d \in Calls \ {c} : call'[d] = call[d]
        /\ call[c].at # "held"
        /\ call'[c].at = "held" => call'[c].tab = call[c].tab /\ refreshing[call[c].tab] # None
    BY <1>3, <1>5 DEF OneCall, ServesLogout
  <2>2. Waits(t) => Waits(t)'
    BY <2>1 DEF Waits
  <2>3. Waits(t)' => Waits(t) \/ refreshing[t] # None
    BY <2>1 DEF Waits
  <2> QED BY <1>1, <2>1, <2>2, <2>3
<1>6. ASSUME NEW c \in Calls, NEW u \in Tabs, NEW r \in Requests, Asks(c, u, r),
             NEW t \in Tabs
      PROVE  refreshing'[t] # None <=> Waits(t)'
  <2>1. /\ refreshing'[u] = r /\ \A v \in Tabs \ {u} : refreshing'[v] = refreshing[v]
        /\ \A d \in Calls \ {c} : call'[d] = call[d]
        /\ call[c].at = "sent" /\ call'[c].at = "held" /\ call'[c].tab = u
    BY <1>2, <1>6 DEF Asks
  <2>2. CASE t = u
    BY <2>1, <2>2, RequestsAssumption DEF Waits
  <2>3. CASE t # u
    <3>1. \A d \in Calls : call'[d].tab = t /\ call'[d].at = "held"
                             <=> call[d].tab = t /\ call[d].at = "held"
      BY <2>1, <2>3
    <3> QED BY <1>1, <2>1, <2>3, <3>1 DEF Waits
  <2> QED BY <2>2, <2>3
<1>7. ASSUME NEW u \in Tabs, AnswerTaken(u), NEW t \in Tabs
      PROVE  refreshing'[t] # None <=> Waits(t)'
  <2>1. /\ refreshing'[u] = None /\ \A v \in Tabs \ {u} : refreshing'[v] = refreshing[v]
        /\ \A c \in Calls :
             /\ call'[c].tab = call[c].tab
             /\ call'[c].at = IF call[c].tab = u /\ call[c].at = "held" THEN "sent" ELSE call[c].at
    BY <1>2, <1>7 DEF AnswerTaken
  <2>2. CASE t = u
    BY <2>1, <2>2 DEF Waits
  <2>3. CASE t # u
    <3>1. \A c \in Calls : call'[c].tab = t /\ call'[c].at = "held"
                             <=> call[c].tab = t /\ call[c].at = "held"
      BY <2>1, <2>3
    <3> QED BY <1>1, <2>1, <2>3, <3>1 DEF Waits
  <2> QED BY <2>2, <2>3
<1>8. ASSUME UNCHANGED <<call, refreshing>>, NEW t \in Tabs
      PROVE  refreshing'[t] # None <=> Waits(t)'
  BY <1>1, <1>8 DEF Waits
<1>9. ASSUME NEW u \in Tabs, Entered(u) \/ \E r \in Requests : LogIn(u, r)
      PROVE  UNCHANGED <<call, refreshing>>
  BY <1>9 DEF Entered, LogIn
<1>10. ASSUME ServerAlone \/ UNCHANGED vars PROVE UNCHANGED <<call, refreshing>>
  BY <1>10 DEF ServerAlone, vars, clientVars
<1> QED BY <1>2, <1>4, <1>5, <1>6, <1>7, <1>8, <1>9, <1>10, BrowserSteps

(***************************************************************************)
(* The promise refreshing of a tab is there exactly as long as a call of   *)
(* the tab waits for it, for every number of calls and tabs.               *)
(***************************************************************************)
THEOREM NoCallIsForgotten == Spec => []NoCallForgotten
<1>1. Init => NoCallForgotten
  BY DEF Init, NoCallForgotten, OpenOf, Open, NoCall
<1>2. ClientInv /\ NoCallForgotten /\ [Next]_vars => NoCallForgotten'
  BY NoCallForgottenInductive
<1> QED BY <1>1, <1>2, Invariants, PTL DEF Spec

-----------------------------------------------------------------------------
(***************************************************************************)
(* The stored token.  What a step of the sessions does to the tokens ...   *)
(***************************************************************************)
LEMMA TokensStay ==
  ASSUME SessionInv, [SessionStep]_sessionVars, NEW s \in Requests, session[s].token # 0
  PROVE  session'[s].token = session[s].token
<1>1. pc[s] = "done"
  BY DEF SessionInv, RequestsFit, Fits
<1>2. ASSUME NEW r \in Requests, Handle(r) \/ Fail(r)
      PROVE  session'[s].token = session[s].token
  <2>1. CASE FindForRefresh(r) \/ FindForLogout(r)
    BY <2>1, FindFacts
  <2>2. CASE RevokeMatched(r) \/ DropMatched(r)
    BY <2>2, GoOnFacts
  <2>3. CASE Sign(r) \/ Fail(r)
    BY <2>3, SignFacts
  <2>4. CASE InsertSession(r)
    BY <1>1, <2>4, InsertFacts
  <2> QED BY <1>2, <2>1, <2>2, <2>3, <2>4 DEF Handle
<1>3. ASSUME NEW r \in Requests, RevokeAll(r) PROVE session'[s].token = session[s].token
  BY <1>3, RevokeAllFacts
<1>4. ASSUME NEW r \in Requests,
             \/ StartLogin(r)
             \/ \E kind \in {"refresh", "logout"}, token \in 1..MaxTime : Send(r, kind, token)
      PROVE  UNCHANGED session
  BY <1>4 DEF StartLogin, Send
<1>5. CASE Tick \/ UNCHANGED sessionVars
  BY <1>5 DEF Tick, sessionVars
<1> QED BY <1>2, <1>3, <1>4, <1>5 DEF SessionStep

\* ... one row at most appears ...
LEMMA OneRowAppears ==
  ASSUME SessionInv, [SessionStep]_sessionVars
  PROVE  \E r : \A s \in Requests \ {r} : session'[s].token = session[s].token
<1>1. ASSUME NEW r \in Requests, Handle(r) \/ Fail(r)
      PROVE  \A s \in Requests \ {r} : session'[s].token = session[s].token
  <2>1. CASE FindForRefresh(r) \/ FindForLogout(r)
    BY <2>1, FindFacts
  <2>2. CASE RevokeMatched(r) \/ DropMatched(r)
    BY <2>2, GoOnFacts
  <2>3. CASE Sign(r) \/ Fail(r)
    BY <2>3, SignFacts
  <2>4. CASE InsertSession(r)
    BY <2>4, InsertFacts
  <2> QED BY <1>1, <2>1, <2>2, <2>3, <2>4 DEF Handle
<1>2. ASSUME NEW r \in Requests, RevokeAll(r)
      PROVE  \A s \in Requests \ {r} : session'[s].token = session[s].token
  BY <1>2, RevokeAllFacts
<1>3. ASSUME NEW r \in Requests,
             \/ StartLogin(r)
             \/ \E kind \in {"refresh", "logout"}, token \in 1..MaxTime : Send(r, kind, token)
      PROVE  UNCHANGED session
  BY <1>3 DEF StartLogin, Send
<1>4. CASE Tick \/ UNCHANGED sessionVars
  BY <1>4 DEF Tick, sessionVars
<1> QED BY <1>1, <1>2, <1>3, <1>4 DEF SessionStep

LEMMA MassRevocationStays ==
  ASSUME SessionInv, [SessionStep]_sessionVars, MassRevocation
  PROVE  MassRevocation'
<1>1. PICK r \in Requests : job[r].kind = "revokeAll"
  BY DEF MassRevocation
<1>2. pc[r] # "idle"
  BY <1>1, KindsAssumption DEF SessionInv, RequestsFit, Fits
<1> QED BY <1>1, <1>2, RequestsStay DEF MassRevocation

\* ... and who revokes a row has presented its token, unless all are revoked.
LEMMA WhoRevokes ==
  ASSUME SessionInv, [SessionStep]_sessionVars, NEW s \in Requests,
         session'[s].token # 0, session'[s].revoked
  PROVE  \/ session[s].token = session'[s].token /\ session[s].revoked
         \/ MassRevocation'
         \/ \E o \in Requests : job[o].match = s /\ job[o].token = session'[s].token
<1>1. ASSUME NEW r \in Requests, Handle(r) \/ Fail(r)
      PROVE  \/ session[s].token = session'[s].token /\ session[s].revoked
             \/ \E o \in Requests : job[o].match = s /\ job[o].token = session'[s].token
  <2>1. CASE FindForRefresh(r) \/ FindForLogout(r)
    BY <2>1, FindFacts
  <2>2. CASE RevokeMatched(r) \/ DropMatched(r)
    <3>1. /\ GoesOn(r) /\ \A p \in Requests : session'[p].token = session[p].token
          /\ \A p \in Requests \ {job[r].match} : session'[p] = session[p]
      BY <2>2, GoOnFacts
    <3>2. session[job[r].match].token = job[r].token
      BY <3>1 DEF GoesOn, SessionInv, RequestsFit, Fits
    <3> QED BY <3>1, <3>2
  <2>3. CASE Sign(r) \/ Fail(r)
    BY <2>3, SignFacts
  <2>4. CASE InsertSession(r)
    BY <2>4, InsertFacts
  <2> QED BY <1>1, <2>1, <2>2, <2>3, <2>4 DEF Handle
<1>2. ASSUME NEW r \in Requests, RevokeAll(r) PROVE MassRevocation'
  BY <1>2, RevokeAllFacts DEF MassRevocation
<1>3. ASSUME NEW r \in Requests,
             \/ StartLogin(r)
             \/ \E kind \in {"refresh", "logout"}, token \in 1..MaxTime : Send(r, kind, token)
      PROVE  UNCHANGED session
  BY <1>3 DEF StartLogin, Send
<1>4. CASE Tick \/ UNCHANGED sessionVars
  BY <1>4 DEF Tick, sessionVars
<1> QED BY <1>1, <1>2, <1>3, <1>4 DEF SessionStep

(***************************************************************************)
(* Nobody begins to wait for a request that was sent before, so that a     *)
(* delivered token stays delivered.                                        *)
(***************************************************************************)
LEMMA WaitingEnds ==
  ASSUME SessionInv, ClientInv, [Next]_vars, NEW q \in Requests, pc[q] # "idle", Pending(q)'
  PROVE  Pending(q)
<1>1. /\ refreshing \in [Tabs -> Requests \cup {None}] /\ TypeOK /\ CallsFit
      /\ entering \in [Tabs -> Requests \cup {None}]
  BY ClientTypes DEF ClientInv
<1>2. ASSUME \A t \in Tabs : refreshing'[t] \in {refreshing[t], None},
             \A t \in Tabs : entering'[t] \in {entering[t], None}
      PROVE  Pending(q)
  BY <1>2, RequestsAssumption DEF Pending
<1>3. ASSUME NEW t \in Tabs, NEW r \in Requests, LogIn(t, r) PROVE Pending(q)
  <2>1. /\ entering' = [entering EXCEPT ![t] = r] /\ UNCHANGED refreshing /\ pc[r] = "idle"
    BY <1>3 DEF LogIn, StartLogin, IsNext
  <2>2. \A u \in Tabs \ {t} : entering'[u] = entering[u] /\ entering'[t] = r
    BY <1>1, <2>1
  <2>3. entering'[t] = r /\ r # q
    BY <1>1, <2>1
  <2> QED BY <2>1, <2>2, <2>3 DEF Pending
<1>4. ASSUME NEW c \in Calls, NEW t \in Tabs, NEW r \in Requests, Asks(c, t, r)
      PROVE  Pending(q)
  <2>1. /\ refreshing' = [refreshing EXCEPT ![t] = r] /\ UNCHANGED entering /\ pc[r] = "idle"
    BY <1>4 DEF Asks, Send, IsNext
  <2>2. \A u \in Tabs \ {t} : refreshing'[u] = refreshing[u]
    BY <1>1, <2>1
  <2>3. refreshing'[t] = r /\ r # q
    BY <1>1, <2>1
  <2> QED BY <2>1, <2>2, <2>3 DEF Pending
<1>5. ASSUME NEW t \in Tabs, LeavesEmpty(t) \/ Entered(t) \/ AnswerTaken(t)
      PROVE  Pending(q)
  <2>1. CASE LeavesEmpty(t)
    BY <1>1, <1>2, <2>1, LeaveCalls DEF LeavesEmpty
  <2>2. CASE Entered(t)
    BY <1>1, <1>2, <2>2 DEF Entered
  <2>3. CASE AnswerTaken(t)
    BY <1>1, <1>2, <2>3 DEF AnswerTaken
  <2> QED BY <1>5, <2>1, <2>2, <2>3
<1>6. ASSUME NEW c \in Calls, OneCall(c) \/ \E r \in Requests : ServesLogout(c, r)
      PROVE  Pending(q)
  BY <1>2, <1>6 DEF OneCall, ServesLogout
<1>7. CASE ServerAlone \/ UNCHANGED vars
  BY <1>2, <1>7 DEF ServerAlone, vars, clientVars
<1> QED BY <1>1, <1>3, <1>4, <1>5, <1>6, <1>7, BrowserSteps

StillDelivered(token) == \E q \in Requests : session'[q].token = token /\ ~Pending(q)'

StillTwice(token) ==
  \E p, q \in Requests : p # q /\ session'[p].token = token /\ session'[q].token = token

LEMMA DeliveredStays ==
  ASSUME SessionInv, ClientInv, [Next]_vars, NEW token, token # 0
  PROVE  /\ Delivered(token) => StillDelivered(token)
         /\ SignedTwice(token) => StillTwice(token)
<1>1. [SessionStep]_sessionVars
  BY BrowserUsesSessions DEF ClientInv
<1>2. ASSUME Delivered(token) PROVE StillDelivered(token)
  <2>1. PICK q \in Requests : session[q].token = token /\ ~Pending(q)
    BY <1>2 DEF Delivered
  <2>2. pc[q] # "idle"
    BY <2>1 DEF SessionInv, RequestsFit, Fits
  <2>3. session'[q].token = token /\ ~Pending(q)'
    BY <1>1, <2>1, <2>2, TokensStay, WaitingEnds
  <2> QED BY <2>3 DEF StillDelivered
<1>3. ASSUME SignedTwice(token) PROVE StillTwice(token)
  BY <1>1, <1>3, TokensStay DEF SignedTwice, StillTwice
<1> QED BY <1>2, <1>3

\* The pair of an answer is stored: its session is there, and the tab no
\* longer waits.
Stores(q) ==
  /\ Pending(q) /\ ~Pending(q)' /\ UNCHANGED session
  /\ session[q].token = store'.refresh /\ store'.refresh # 0

LEMMA AnsweredStores ==
  ASSUME SessionInv, ClientInv, NEW q \in Requests, pc[q] = "done", store' = Pair(q),
         UNCHANGED session, NEW t \in Tabs,
         \/ refreshing[t] = q /\ entering' = entering /\ refreshing' = [refreshing EXCEPT ![t] = None]
         \/ entering[t] = q /\ refreshing' = refreshing /\ entering' = [entering EXCEPT ![t] = None]
  PROVE  Stores(q)
<1>1. /\ refreshing \in [Tabs -> Requests \cup {None}]
      /\ entering \in [Tabs -> Requests \cup {None}] /\ q # None
  BY ClientTypes, RequestsAssumption DEF ClientInv
<1>2. session[q].token = job[q].issued /\ job[q].issued # 0
  BY <1>1, WaitsForSent DEF SessionInv, RequestsFit, Fits
<1>3. store'.refresh = job[q].issued
  BY DEF Pair
<1>4. Pending(q)
  BY DEF Pending
<1>5. \A u \in Tabs : /\ refreshing[u] = q => job[q].kind = "refresh"
                      /\ entering[u] = q => job[q].kind = "login"
  BY <1>1, WaitsForSent
<1>6. CASE refreshing[t] = q /\ entering' = entering
           /\ refreshing' = [refreshing EXCEPT ![t] = None]
  <2>1. \A u \in Tabs : refreshing[u] = q => u = t
    BY <1>1, <1>6 DEF ClientInv, WaitsFit
  <2>2. \A u \in Tabs : refreshing'[u] = IF u = t THEN None ELSE refreshing[u]
    BY <1>1, <1>6
  <2>3. \A u \in Tabs : refreshing'[u] # q /\ entering'[u] # q
    BY <1>1, <1>5, <1>6, <2>1, <2>2
  <2> QED BY <1>2, <1>3, <1>4, <2>3 DEF Stores, Pending
<1>7. CASE entering[t] = q /\ refreshing' = refreshing
           /\ entering' = [entering EXCEPT ![t] = None]
  <2>1. \A u \in Tabs : entering[u] = q => u = t
    BY <1>1, <1>7 DEF ClientInv, WaitsFit
  <2>2. \A u \in Tabs : entering'[u] = IF u = t THEN None ELSE entering[u]
    BY <1>1, <1>7
  <2>3. \A u \in Tabs : refreshing'[u] # q /\ entering'[u] # q
    BY <1>1, <1>5, <1>7, <2>1, <2>2
  <2> QED BY <1>2, <1>3, <1>4, <2>3 DEF Stores, Pending
<1> QED BY <1>6, <1>7

\* The store is emptied, takes the pair of an answer, or stays as it is, and
\* then whoever presented a token is still waited for.
KeepsWaiting ==
  /\ \A o \in Requests : Unsettled(o) => Unsettled(o)'
  /\ \A t \in Tabs : refreshing[t] # None => refreshing'[t] # None

LEMMA StoreSteps ==
  ASSUME SessionInv, ClientInv, [Next]_vars
  PROVE  \/ store'.refresh = 0
         \/ \E q \in Requests : Stores(q)
         \/ UNCHANGED store /\ KeepsWaiting
<1>1. /\ refreshing \in [Tabs -> Requests \cup {None}] /\ TypeOK /\ CallsFit
      /\ entering \in [Tabs -> Requests \cup {None}]
  BY ClientTypes DEF ClientInv
<1> DEFINE Goal == \/ store'.refresh = 0
                   \/ \E q \in Requests : Stores(q)
                   \/ UNCHANGED store /\ KeepsWaiting
<1>2. ASSUME UNCHANGED <<store, call, refreshing>> PROVE Goal
  BY <1>2 DEF KeepsWaiting, Unsettled
<1>3. ASSUME NEW t \in Tabs, LeavesEmpty(t) PROVE Goal
  BY <1>3 DEF LeavesEmpty, NoTokens
<1>4. ASSUME NEW t \in Tabs, Entered(t) PROVE Goal
  <2>1. /\ entering[t] \in Requests /\ entering' = [entering EXCEPT ![t] = None]
        /\ UNCHANGED <<session, call, refreshing>>
        /\ \/ pc[entering[t]] = "done" /\ store' = Pair(entering[t])
           \/ UNCHANGED store
    BY <1>1, <1>4 DEF Entered, sessionVars
  <2>2. CASE UNCHANGED store
    BY <1>2, <2>1, <2>2
  <2>3. CASE pc[entering[t]] = "done" /\ store' = Pair(entering[t])
    <3>1. Stores(entering[t])
      BY <2>1, <2>3, AnsweredStores
    <3> QED BY <2>1, <3>1
  <2> QED BY <2>1, <2>2, <2>3
<1>5. ASSUME NEW t \in Tabs, AnswerTaken(t) PROVE Goal
  <2>1. /\ refreshing[t] \in Requests /\ refreshing' = [refreshing EXCEPT ![t] = None]
        /\ UNCHANGED <<session, entering>>
        /\ pc[refreshing[t]] = "done" /\ store' = Pair(refreshing[t])
    BY <1>1, <1>5 DEF AnswerTaken, sessionVars
  <2>2. Stores(refreshing[t])
    BY <2>1, AnsweredStores
  <2> QED BY <2>1, <2>2
<1>6. ASSUME NEW t \in Tabs, NEW r \in Requests, LogIn(t, r) PROVE Goal
  BY <1>2, <1>6 DEF LogIn
<1>7. ASSUME NEW c \in Calls, OneCall(c) \/ \E r \in Requests : ServesLogout(c, r)
      PROVE  Goal
  <2>1. /\ UNCHANGED <<store, refreshing>> /\ call[c].at # "served"
        /\ \A d \in Calls \ {c} : call'[d] = call[d]
    BY <1>7 DEF OneCall, ServesLogout
  <2> QED BY <2>1 DEF KeepsWaiting, Unsettled
<1>8. ASSUME NEW c \in Calls, NEW t \in Tabs, NEW r \in Requests, Asks(c, t, r) PROVE Goal
  <2>1. /\ UNCHANGED store /\ call[c].at # "served" /\ refreshing[t] = None
        /\ \A d \in Calls \ {c} : call'[d] = call[d]
        /\ \A u \in Tabs \ {t} : refreshing'[u] = refreshing[u]
    BY <1>1, <1>8 DEF Asks
  <2>2. \A o \in Requests : Unsettled(o) => Unsettled(o)'
    BY <2>1, RequestsAssumption DEF Unsettled
  <2>3. \A u \in Tabs : refreshing[u] # None => refreshing'[u] # None
    BY <2>1
  <2> QED BY <2>1, <2>2, <2>3 DEF KeepsWaiting
<1>9. ASSUME ServerAlone \/ UNCHANGED vars PROVE Goal
  BY <1>2, <1>9 DEF ServerAlone, vars, clientVars
<1> QED BY <1>1, <1>3, <1>4, <1>5, <1>6, <1>7, <1>8, <1>9, BrowserSteps

\* A request that this step sends: from the server, or from the browser with
\* the stored token or the body of a call.
LEMMA Newcomers ==
  ASSUME SessionInv, ClientInv, [Next]_vars, NEW o \in Requests, pc[o] = "idle"
  PROVE  \/ job'[o] = job[o] /\ sender'[o] = sender[o]
         \/ /\ job'[o].kind \in {"login", "revokeAll"} /\ job'[o].token = 0
            /\ sender'[o] = sender[o]
         \/ \E c \in Calls : /\ ServesLogout(c, o) /\ job'[o].kind = "logout"
                             /\ job'[o].token = call[c].body /\ sender'[o] = sender[o]
         \/ \E c \in Calls, t \in Tabs : /\ Asks(c, t, o) /\ job'[o].kind = "refresh"
                                         /\ job'[o].token = store.refresh /\ sender'[o] = t
<1> DEFINE Same == job'[o] = job[o] /\ sender'[o] = sender[o]
           Direct == /\ job'[o].kind \in {"login", "revokeAll"} /\ job'[o].token = 0
                     /\ sender'[o] = sender[o]
<1>1. /\ job \in [Requests -> JobType] /\ TypeOK /\ CallsFit
      /\ sender \in [Requests -> Tabs \cup {None}]
  BY ClientTypes DEF ClientInv, SessionTypeOK, JobType
<1>2. ASSUME NEW r \in Requests, Handle(r) \/ Fail(r) PROVE job'[o] = job[o]
  <2>1. CASE FindForRefresh(r) \/ FindForLogout(r)
    BY <2>1, FindFacts
  <2>2. CASE RevokeMatched(r) \/ DropMatched(r)
    BY <2>2, GoOnFacts
  <2>3. CASE Sign(r) \/ Fail(r)
    BY <2>3, SignFacts DEF Resting
  <2>4. CASE InsertSession(r)
    BY <2>4, InsertFacts
  <2> QED BY <1>2, <2>1, <2>2, <2>3, <2>4 DEF Handle
<1>3. ASSUME NEW r \in Requests, RevokeAll(r)
      PROVE  \/ job'[o] = job[o]
             \/ job'[o].kind = "revokeAll" /\ job'[o].token = 0
  <2>1. /\ job'[r].kind = "revokeAll" /\ job'[r].token = 0
        /\ \A p \in Requests \ {r} : job'[p] = job[p]
    BY <1>3, RevokeAllFacts
  <2> QED BY <2>1
<1>4. ASSUME NEW t \in Tabs, NEW r \in Requests, LogIn(t, r) PROVE Same \/ Direct
  <2>0. StartLogin(r) /\ 0 \in 0..MaxTime
    BY <1>4 DEF LogIn
  <2>1. job' = [job EXCEPT ![r] = [kind |-> "login", token |-> 0, match |-> None, issued |-> 0]]
    BY <2>0, NewRequestFacts
  <2> QED BY <1>1, <1>4, <2>1 DEF LogIn
<1>5. ASSUME NEW c \in Calls, NEW r \in Requests, ServesLogout(c, r)
      PROVE  \/ Same
             \/ /\ o = r /\ job'[o].kind = "logout" /\ job'[o].token = call[c].body
                /\ sender'[o] = sender[o]
  <2>0. Send(r, "logout", call[c].body) /\ call[c].body \in 1..MaxTime
    BY <1>5 DEF ServesLogout
  <2>1. job' = [job EXCEPT ![r] = [kind |-> "logout", token |-> call[c].body,
                                   match |-> None, issued |-> 0]]
    BY <2>0, NewRequestFacts
  <2> QED BY <1>1, <1>5, <2>1 DEF ServesLogout
<1>6. ASSUME NEW c \in Calls, NEW t \in Tabs, NEW r \in Requests, Asks(c, t, r)
      PROVE  \/ Same
             \/ /\ o = r /\ job'[o].kind = "refresh" /\ job'[o].token = store.refresh
                /\ sender'[o] = t
  <2>1. /\ Send(r, "refresh", store.refresh) /\ store.refresh \in 1..MaxTime
        /\ sender' = [sender EXCEPT ![r] = t]
    BY <1>6 DEF Asks
  <2>2. job' = [job EXCEPT ![r] = [kind |-> "refresh", token |-> store.refresh,
                                   match |-> None, issued |-> 0]]
    BY <2>1, NewRequestFacts
  <2> QED BY <1>1, <2>1, <2>2
<1>7. ASSUME NEW t \in Tabs, LeavesEmpty(t) \/ Entered(t) \/ AnswerTaken(t) PROVE Same
  BY <1>7 DEF LeavesEmpty, Leave, Entered, AnswerTaken, sessionVars
<1>8. ASSUME NEW c \in Calls, OneCall(c) PROVE Same
  BY <1>8 DEF OneCall, sessionVars
<1>9. ASSUME ServerAlone PROVE Same \/ Direct
  <2>1. sender' = sender
    BY <1>9 DEF ServerAlone, clientVars
  <2>2. CASE Tick
    BY <2>1, <2>2 DEF Tick
  <2> QED BY <1>2, <1>3, <1>9, <2>1, <2>2 DEF ServerAlone
<1>10. ASSUME UNCHANGED vars PROVE Same
  BY <1>10 DEF vars, sessionVars, clientVars
<1> QED BY <1>1, <1>4, <1>5, <1>6, <1>7, <1>8, <1>9, <1>10, BrowserSteps

LEMMA WhoPresents ==
  ASSUME SessionInv, ClientInv, [Next]_vars, NEW o \in Requests, job'[o].token # 0
  PROVE  \/ pc[o] # "idle" /\ job[o].token = job'[o].token
         \/ /\ Unsettled(o)'
            /\ \/ job'[o].token = store.refresh
               \/ \E c \in Calls : job'[o].token = call[c].body
<1>1. [SessionStep]_sessionVars /\ refreshing \in [Tabs -> Requests \cup {None}]
  BY BrowserUsesSessions, ClientTypes DEF ClientInv
<1>2. CASE pc[o] # "idle"
  BY <1>1, <1>2, RequestsStay
<1>3. CASE pc[o] = "idle"
  <2>1. job[o].token = 0
    BY <1>3 DEF SessionInv, RequestsFit, Fits
  <2>2. ASSUME NEW c \in Calls, ServesLogout(c, o) PROVE Unsettled(o)'
    BY <2>2 DEF ServesLogout, Unsettled
  <2>3. ASSUME NEW c \in Calls, NEW t \in Tabs, Asks(c, t, o) PROVE Unsettled(o)'
    BY <1>1, <2>3 DEF Asks, Unsettled
  <2> QED BY <1>3, <2>1, <2>2, <2>3, Newcomers
<1> QED BY <1>2, <1>3

LEMMA BodiesAreStored ==
  ASSUME SessionInv, ClientInv, [Next]_vars, NEW c \in Calls
  PROVE  call'[c].body \in {0, call[c].body, store.refresh}
<1>1. TypeOK /\ CallsFit /\ NoCall.body = 0
  BY DEF ClientInv, NoCall
<1>2. ASSUME NEW t \in Tabs, LeavesEmpty(t) PROVE call'[c].body \in {0, call[c].body}
  BY <1>1, <1>2, LeaveCalls DEF LeavesEmpty
<1>3. ASSUME NEW t \in Tabs, Entered(t) \/ AnswerTaken(t) \/ \E r \in Requests : LogIn(t, r)
      PROVE  call'[c].body = call[c].body
  BY <1>3 DEF Entered, AnswerTaken, LogIn
<1>4. ASSUME NEW d \in Calls, OneCall(d) PROVE call'[c].body \in {0, call[c].body, store.refresh}
  BY <1>1, <1>4 DEF OneCall
<1>5. ASSUME NEW d \in Calls, NEW r \in Requests,
             ServesLogout(d, r) \/ \E t \in Tabs : Asks(d, t, r)
      PROVE  call'[c].body = call[c].body
  BY <1>5 DEF ServesLogout, Asks
<1>6. ASSUME ServerAlone \/ UNCHANGED vars PROVE call'[c].body = call[c].body
  BY <1>6 DEF ServerAlone, vars, clientVars
<1> QED BY <1>1, <1>2, <1>3, <1>4, <1>5, <1>6, BrowserSteps

LEMMA InitStoreInv == Init => StoreInv
<1> SUFFICES ASSUME Init PROVE StoreInv
  OBVIOUS
<1>1. /\ \A r \in Requests : job[r].token = 0 /\ session[r].token = 0
      /\ \A c \in Calls : call[c].body = 0
      /\ store.refresh = 0
  BY DEF Init, SessionInit, NoJob, NoSession, NoCall, NoTokens
<1>2. {s \in Requests : session[s].token # 0} = {}
  BY <1>1
<1> QED BY <1>1, <1>2, FS_EmptySet
        DEF StoreInv, TokensDelivered, PresentedIsForgotten, RevokedWasMatched, FewSessions

LEMMA StoreInvInductive ==
  ASSUME SessionInv, ClientInv, StoreInv, [Next]_vars
  PROVE  StoreInv'
<1>1. [SessionStep]_sessionVars
  BY BrowserUsesSessions DEF ClientInv
<1>2. TokensDelivered'
  <2>1. ASSUME store'.refresh # 0 PROVE StillDelivered(store'.refresh)
    <3>1. ASSUME NEW q \in Requests, Stores(q) PROVE StillDelivered(store'.refresh)
      BY <3>1 DEF Stores, StillDelivered
    <3>2. CASE UNCHANGED store
      BY <2>1, <3>2, DeliveredStays DEF StoreInv, TokensDelivered
    <3> QED BY <2>1, <3>1, <3>2, StoreSteps
  <2>2. ASSUME NEW r \in Requests, job'[r].token # 0 PROVE StillDelivered(job'[r].token)
    <3>1. Delivered(job'[r].token)
      BY <2>2, WhoPresents DEF StoreInv, TokensDelivered
    <3> QED BY <2>2, <3>1, DeliveredStays
  <2>3. ASSUME NEW c \in Calls, call'[c].body # 0 PROVE StillDelivered(call'[c].body)
    <3>1. Delivered(call'[c].body)
      BY <2>3, BodiesAreStored DEF StoreInv, TokensDelivered
    <3> QED BY <2>3, <3>1, DeliveredStays
  <2> QED BY <2>1, <2>2, <2>3 DEF TokensDelivered, Delivered, StillDelivered
<1>3. PresentedIsForgotten'
  <2> SUFFICES ASSUME NEW o \in Requests, job'[o].token # 0
               PROVE  \/ Unsettled(o)' \/ store'.refresh # job'[o].token
                      \/ StillTwice(job'[o].token)
    BY DEF PresentedIsForgotten, SignedTwice, StillTwice
  <2> DEFINE token == job[o].token
  <2>1. CASE job[o].token = job'[o].token
    <3>1. \/ Unsettled(o) \/ store.refresh # token \/ SignedTwice(token)
      BY <2>1 DEF StoreInv, PresentedIsForgotten
    <3>2. SignedTwice(token) => StillTwice(token)
      BY <2>1, DeliveredStays
    <3>3. ASSUME NEW q \in Requests, Stores(q), store'.refresh = token
          PROVE  SignedTwice(token)
      <4>1. PICK p \in Requests : session[p].token = token /\ ~Pending(p)
        BY <2>1 DEF StoreInv, TokensDelivered, Delivered
      <4> QED BY <3>3, <4>1 DEF Stores, SignedTwice
    <3>4. token # 0 /\ token = job'[o].token
      BY <2>1
    <3> HIDE DEF token
    <3> QED BY <3>1, <3>2, <3>3, <3>4, StoreSteps DEF KeepsWaiting
  <2> QED BY <2>1, WhoPresents
<1>4. RevokedWasMatched'
  <2> SUFFICES ASSUME NEW s \in Requests, session'[s].token # 0, session'[s].revoked
               PROVE  \/ MassRevocation'
                      \/ \E o \in Requests : /\ job'[o].match = s
                                             /\ job'[o].token = session'[s].token
    BY DEF RevokedWasMatched, MassRevocation
  <2>1. \/ MassRevocation \/ MassRevocation'
        \/ \E o \in Requests : job[o].match = s /\ job[o].token = session'[s].token
    BY <1>1, WhoRevokes DEF StoreInv, RevokedWasMatched
  <2>2. ASSUME NEW o \in Requests, job[o].match = s, job[o].token = session'[s].token
        PROVE  job'[o].match = s /\ job'[o].token = session'[s].token
    <3>1. pc[o] # "idle"
      BY <2>2 DEF SessionInv, RequestsFit, Fits
    <3> QED BY <1>1, <2>2, <3>1, RequestsStay, MatchStays
  <2> QED BY <1>1, <2>1, <2>2, MassRevocationStays
<1>5. FewSessions'
  <2> DEFINE old == {s \in Requests : session[s].token # 0}
             new == {s \in Requests : session'[s].token # 0}
  <2>1. PICK r : \A s \in Requests \ {r} : session'[s].token = session[s].token
    BY <1>1, OneRowAppears
  <2>2. new \subseteq old \cup {r}
    BY <2>1
  <2>3. IsFiniteSet(old)
    BY DEF StoreInv, FewSessions
  <2> HIDE DEF old, new
  <2>4. IsFiniteSet(old \cup {r})
    BY <2>3, FS_AddElement
  <2>5. IsFiniteSet(new)
    BY <2>2, <2>4, FS_Subset
  <2> QED BY <2>5 DEF new, FewSessions
<1> QED BY <1>2, <1>3, <1>4, <1>5 DEF StoreInv

(***************************************************************************)
(* The browser at rest holds no refresh token whose session is revoked:    *)
(* lib/api stores the pair of a rotation before another call presents the  *)
(* old one, or empties the store, whatever is lost and however the tabs    *)
(* interleave, unless all sessions were revoked at once or one second has  *)
(* signed the token twice.                                                 *)
(***************************************************************************)
THEOREM StoredTokenIsLive == Spec => []StoreIsLive
<1>1. ASSUME ClientInv, StoreInv PROVE StoreIsLive
  <2> SUFFICES ASSUME AtRest, store.refresh # 0, ~MassRevocation,
                      \A s \in Unrevoked : session[s].token # store.refresh
               PROVE  Cardinality({s \in Requests : session[s].token = store.refresh}) > 1
    BY DEF StoreIsLive
  <2>1. PICK q \in Requests : session[q].token = store.refresh
    BY <1>1 DEF StoreInv, TokensDelivered, Delivered
  <2>2. session[q].revoked
    BY <2>1 DEF Unrevoked
  <2>3. PICK o \in Requests : job[o].token = store.refresh
    BY <1>1, <2>1, <2>2 DEF StoreInv, RevokedWasMatched
  <2>4. ~Unsettled(o)
    BY <1>1, RequestsAssumption DEF AtRest, Unsettled, OpenOf, Open, ClientInv, CallsFit
  <2>5. PICK p1 \in Requests, p2 \in Requests :
          p1 # p2 /\ session[p1].token = store.refresh /\ session[p2].token = store.refresh
    BY <1>1, <2>3, <2>4 DEF StoreInv, PresentedIsForgotten, SignedTwice
  <2> DEFINE signed == {s \in Requests : session[s].token = store.refresh}
  <2>6. IsFiniteSet(signed)
    <3>1. signed \in SUBSET {s \in Requests : session[s].token # 0}
      OBVIOUS
    <3> QED BY <1>1, <3>1, FS_Subset DEF StoreInv, FewSessions
  <2>7. {p1, p2} \in SUBSET signed
    BY <2>5
  <2> HIDE DEF signed
  <2>8. Cardinality({p1, p2}) = 2
    <3>1. IsFiniteSet({p1}) /\ Cardinality({p1}) = 1
      BY FS_Singleton
    <3>2. p2 \notin {p1}
      BY <2>5
    <3>4. Cardinality({p1} \cup {p2}) = 1 + 1
      BY <3>1, <3>2, FS_AddElement
    <3>3. {p1, p2} = {p1} \cup {p2}
      OBVIOUS
    <3>5. Cardinality({p1} \cup {p2}) = 2
      BY <3>4
    <3> QED BY <3>3, <3>5, Zenon
  <2>9. Cardinality({p1, p2}) <= Cardinality(signed) /\ Cardinality(signed) \in Nat
    BY <2>6, <2>7, FS_Subset, FS_CardinalityType
  <2> QED BY <2>8, <2>9 DEF signed
<1>2. Spec => []StoreInv
  <2>1. SessionInv /\ ClientInv /\ StoreInv /\ [Next]_vars => StoreInv'
    BY StoreInvInductive
  <2> QED BY <2>1, InitStoreInv, Invariants, PTL DEF Spec
<1> QED BY <1>1, <1>2, Invariants, PTL

-----------------------------------------------------------------------------
(***************************************************************************)
(* Who is thrown out.  What is issued was issued by now, and a row outlives*)
(* its token.                                                              *)
(***************************************************************************)
LEMMA ExpiryStays ==
  ASSUME SessionInv, NEW r \in Requests, RevokeMatched(r) \/ DropMatched(r) \/ RevokeAll(r),
         NEW s \in Requests
  PROVE  session'[s].expires = session[s].expires /\ session'[s].token = session[s].token
<1>1. session \in [Requests -> RowType]
  BY DEF SessionInv, SessionTypeOK, RowType
<1>2. CASE RevokeMatched(r) \/ DropMatched(r)
  <2>1. session' = [session EXCEPT ![job[r].match].revoked = TRUE]
    BY <1>2 DEF RevokeMatched, DropMatched
  <2> QED BY <1>1, <2>1 DEF RowType
<1>3. CASE RevokeAll(r)
  <2>1. session'[s] = IF s \in Unrevoked THEN [session[s] EXCEPT !.revoked = TRUE]
                                         ELSE session[s]
    BY <1>3 DEF RevokeAll
  <2> QED BY <1>1, <2>1 DEF RowType
<1> QED BY <1>2, <1>3

LEMMA TimesFitInductive ==
  ASSUME SessionInv, TimesFit, [SessionStep]_sessionVars
  PROVE  TimesFit'
<1>1. /\ now \in Nat /\ RefreshTtl \in Nat
      /\ \A o \in Requests : job[o].issued \in Nat /\ job[o].issued <= now
      /\ \A s \in Requests : session[s].token # 0 =>
           session[s].token + RefreshTtl <= session[s].expires
  BY TimesAssumption, SessionTypes DEF SessionInv, SessionTypeOK, TimesFit
\* Most steps touch neither the clock nor an expiry.
<1>2. ASSUME UNCHANGED now,
             \A o \in Requests : job'[o].issued \in {job[o].issued, 0, now},
             \A s \in Requests : session'[s].token = session[s].token
                                   /\ session'[s].expires = session[s].expires
      PROVE  TimesFit'
  BY <1>1, <1>2 DEF TimesFit
<1>3. ASSUME NEW r \in Requests, Handle(r) \/ Fail(r) PROVE TimesFit'
  <2>1. CASE FindForRefresh(r) \/ FindForLogout(r)
    <3>1. UNCHANGED <<now, session>> /\ \A o \in Requests : job'[o].issued = job[o].issued
      BY <2>1, FindFacts
    <3> QED BY <1>2, <3>1
  <2>2. CASE RevokeMatched(r) \/ DropMatched(r)
    BY <1>2, <2>2, GoOnFacts, ExpiryStays
  <2>3. CASE Sign(r) \/ Fail(r)
    <3>1. /\ UNCHANGED <<now, session>>
          /\ \A o \in Requests : job'[o].issued = job[o].issued \/ job'[o].issued = now
      BY <2>3, SignFacts
    <3> QED BY <1>2, <3>1
  <2>4. CASE InsertSession(r)
    <3>1. /\ UNCHANGED <<now, job>> /\ session'[r].token = job[r].issued
          /\ \A o \in Requests \ {r} : session'[o] = session[o]
      BY <2>4, InsertFacts
    <3>2. session'[r].expires = now + RefreshTtl
      BY <2>4 DEF InsertSession, SessionInv, SessionTypeOK
    <3>3. session'[r].token + RefreshTtl <= session'[r].expires
      <4>1. job[r].issued \in Nat /\ job[r].issued <= now
        BY <1>1
      <4> QED BY <1>1, <3>1, <3>2, <4>1
    <3> QED BY <1>1, <3>1, <3>3 DEF TimesFit
  <2> QED BY <1>3, <2>1, <2>2, <2>3, <2>4 DEF Handle
<1>4. ASSUME NEW r \in Requests, RevokeAll(r) PROVE TimesFit'
  <2>1. UNCHANGED now /\ \A o \in Requests : job'[o].issued \in {job[o].issued, 0}
    BY <1>4, RevokeAllFacts
  <2> QED BY <1>2, <1>4, <2>1, ExpiryStays
<1>5. ASSUME NEW r \in Requests, NEW kind \in {"login", "refresh", "logout"},
             NEW token \in 0..MaxTime,
             \/ kind = "login" /\ token = 0 /\ StartLogin(r)
             \/ kind # "login" /\ token # 0 /\ Send(r, kind, token)
      PROVE  TimesFit'
  <2>1. /\ UNCHANGED <<session, now>>
        /\ job' = [job EXCEPT ![r] =
             [kind |-> kind, token |-> token, match |-> None, issued |-> 0]]
    BY <1>5, NewRequestFacts
  <2>2. \A o \in Requests : job'[o].issued \in {job[o].issued, 0}
    BY <2>1 DEF SessionInv, SessionTypeOK
  <2> QED BY <1>2, <2>1, <2>2
<1>6. CASE Tick
  <2>1. now' = now + 1 /\ UNCHANGED <<job, session>>
    BY <1>6 DEF Tick
  <2>2. \A o \in Requests : job[o].issued <= now + 1
    BY <1>1
  <2> QED BY <1>1, <2>1, <2>2 DEF TimesFit
<1>7. CASE UNCHANGED sessionVars
  BY <1>2, <1>7 DEF sessionVars
<1>8. ASSUME NEW r \in Requests,
             \/ StartLogin(r)
             \/ \E kind \in {"refresh", "logout"}, token \in 1..MaxTime : Send(r, kind, token)
      PROVE  TimesFit'
  BY <1>5, <1>8, TimesAssumption
<1> QED BY <1>3, <1>4, <1>6, <1>7, <1>8 DEF SessionStep

\* The sender of a request is noted when it is sent.
LEMMA SendersStay ==
  ASSUME SessionInv, ClientInv, [Next]_vars, NEW o \in Requests, pc[o] # "idle"
  PROVE  sender'[o] = sender[o]
<1>1. TypeOK /\ CallsFit /\ sender \in [Requests -> Tabs \cup {None}]
  BY ClientTypes DEF ClientInv
<1>2. ASSUME NEW c \in Calls, NEW t \in Tabs, NEW r \in Requests, Asks(c, t, r)
      PROVE  sender'[o] = sender[o]
  <2>1. sender' = [sender EXCEPT ![r] = t] /\ pc[r] = "idle"
    BY <1>2 DEF Asks, Send, IsNext
  <2> QED BY <1>1, <2>1
<1>3. ASSUME NEW t \in Tabs,
             LeavesEmpty(t) \/ Entered(t) \/ AnswerTaken(t) \/ \E r \in Requests : LogIn(t, r)
      PROVE  UNCHANGED sender
  BY <1>3 DEF LeavesEmpty, Leave, Entered, AnswerTaken, LogIn
<1>4. ASSUME NEW c \in Calls, OneCall(c) \/ \E r \in Requests : ServesLogout(c, r)
      PROVE  UNCHANGED sender
  BY <1>4 DEF OneCall, ServesLogout
<1>5. ASSUME ServerAlone \/ UNCHANGED vars PROVE UNCHANGED sender
  BY <1>5 DEF ServerAlone, vars, clientVars
<1> QED BY <1>1, <1>2, <1>3, <1>4, <1>5, BrowserSteps

LEMMA SendersFitInductive ==
  ASSUME SessionInv, ClientInv, SendersFit, [Next]_vars
  PROVE  SendersFit'
<1>1. [SessionStep]_sessionVars
  BY BrowserUsesSessions DEF ClientInv
<1> DEFINE Fine(o) ==
      /\ job'[o].token # 0 <=> job'[o].kind \in {"refresh", "logout"}
      /\ IF job'[o].kind = "refresh" THEN sender'[o] \in Tabs ELSE sender'[o] = None
<1>2. ASSUME NEW o \in Requests, pc[o] # "idle" PROVE Fine(o)
  BY <1>1, <1>2, RequestsStay, SendersStay DEF SendersFit
<1>3. ASSUME NEW o \in Requests, pc[o] = "idle" PROVE Fine(o)
  <2>1. job[o].kind = None /\ job[o].token = 0 /\ sender[o] = None
    BY <1>3, KindsAssumption DEF SessionInv, RequestsFit, Fits, SendersFit
  <2>2. ASSUME NEW c \in Calls, ServesLogout(c, o) PROVE call[c].body # 0
    BY <2>2 DEF ServesLogout
  <2>3. ASSUME NEW c \in Calls, NEW t \in Tabs, Asks(c, t, o) PROVE store.refresh # 0
    BY <2>3 DEF Asks
  <2> QED BY <1>3, <2>1, <2>2, <2>3, Newcomers, KindsAssumption
<1> QED BY <1>2, <1>3 DEF SendersFit

(***************************************************************************)
(* Presenting: only the tab that asks, with the stored token, adds to what *)
(* it has presented.                                                       *)
(***************************************************************************)
LEMMA PresentersGrow ==
  ASSUME SessionInv, ClientInv, SendersFit, [Next]_vars, NEW t \in Tabs,
         NEW token \in 1..MaxTime
  PROVE  \/ {o \in Requests : job'[o].token = token /\ sender'[o] = t} \subseteq PresentedBy(t, token)
         \/ /\ MayPresent(t, token) /\ refreshing'[t] # None
            /\ \E r \in Requests : {o \in Requests : job'[o].token = token /\ sender'[o] = t}
                                     \subseteq PresentedBy(t, token) \cup {r}
<1>1. /\ [SessionStep]_sessionVars /\ SendersFit'
      /\ refreshing \in [Tabs -> Requests \cup {None}]
  BY BrowserUsesSessions, SendersFitInductive, ClientTypes DEF ClientInv
<1>2. ASSUME NEW o \in Requests, pc[o] # "idle", job'[o].token = token, sender'[o] = t
      PROVE  o \in PresentedBy(t, token)
  BY <1>1, <1>2, RequestsStay, SendersStay DEF PresentedBy
<1>3. ASSUME NEW o \in Requests, pc[o] = "idle", job'[o].token = token, sender'[o] = t
      PROVE  \E c \in Calls : Asks(c, t, o) /\ store.refresh = token
  <2>1. job[o].token = 0 /\ sender[o] = None
    BY <1>3, KindsAssumption DEF SessionInv, RequestsFit, Fits, SendersFit
  <2> QED BY <1>3, <2>1, Newcomers, TabsAssumption
<1>4. ASSUME NEW o \in Requests, NEW p \in Requests, NEW c \in Calls, NEW d \in Calls,
             Asks(c, t, o), Asks(d, t, p)
      PROVE  o = p
  BY <1>1, <1>4 DEF Asks
<1>5. CASE \E o \in Requests : pc[o] = "idle" /\ job'[o].token = token /\ sender'[o] = t
  <2>1. PICK r \in Requests, c \in Calls : Asks(c, t, r) /\ store.refresh = token
    BY <1>3, <1>5
  <2>2. MayPresent(t, token) /\ refreshing'[t] # None
    BY <1>1, <2>1, RequestsAssumption DEF Asks, MayPresent
  <2>3. ASSUME NEW o \in Requests, job'[o].token = token, sender'[o] = t
        PROVE  o \in PresentedBy(t, token) \cup {r}
    BY <1>2, <1>3, <1>4, <2>1, <2>3
  <2> QED BY <2>2, <2>3
<1>6. CASE ~\E o \in Requests : pc[o] = "idle" /\ job'[o].token = token /\ sender'[o] = t
  BY <1>2, <1>6
<1> QED BY <1>5, <1>6

LEMMA PresentedAsDeliveredInductive ==
  ASSUME SessionInv, ClientInv, StoreInv, SendersFit, PresentedAsDelivered, [Next]_vars
  PROVE  PresentedAsDelivered'
<1>1. StoreInv' /\ [SessionStep]_sessionVars
  BY StoreInvInductive, BrowserUsesSessions DEF ClientInv
<1> SUFFICES ASSUME NEW t \in Tabs, NEW token \in 1..MaxTime
             PROVE  /\ IsFiniteSet(PresentedBy(t, token)')
                    /\ Cardinality(PresentedBy(t, token)')
                         + (IF MayPresent(t, token)' THEN 1 ELSE 0)
                         <= Cardinality(DeliveriesOf(token)')
  BY DEF PresentedAsDelivered
<1> DEFINE P == PresentedBy(t, token)
           D == DeliveriesOf(token)
           Q == PresentedBy(t, token)'
           E == DeliveriesOf(token)'
<1>2. /\ IsFiniteSet(P)
      /\ Cardinality(P) + (IF MayPresent(t, token) THEN 1 ELSE 0) <= Cardinality(D)
  BY DEF PresentedAsDelivered
<1>3. IsFiniteSet(E) /\ Cardinality(E) \in Nat
  <2>1. IsFiniteSet({s \in Requests : session'[s].token # 0})
    BY <1>1 DEF StoreInv, FewSessions
  <2>2. E \in SUBSET {s \in Requests : session'[s].token # 0}
    BY DEF DeliveriesOf
  <2> HIDE DEF E
  <2> QED BY <2>1, <2>2, FS_Subset, FS_CardinalityType
<1>4. D \subseteq E
  <2> SUFFICES ASSUME NEW q \in Requests, session[q].token = token, ~Pending(q)
               PROVE  session'[q].token = token /\ ~Pending(q)'
    BY DEF DeliveriesOf
  <2>1. pc[q] # "idle"
    BY DEF SessionInv, RequestsFit, Fits
  <2> QED BY <1>1, <2>1, TokensStay, WaitingEnds
\* What the tab may present anew was delivered anew.
<1>5. MayPresent(t, token)' => MayPresent(t, token) \/ \E q \in E : q \notin D
  <2> SUFFICES ASSUME store'.refresh = token, refreshing'[t] = None
               PROVE  \/ store.refresh = token /\ refreshing[t] = None
                      \/ \E q \in E : q \notin D
    BY DEF MayPresent
  <2>1. ASSUME NEW q \in Requests, Stores(q) PROVE q \in E /\ q \notin D
    BY <2>1 DEF Stores, DeliveriesOf
  <2>2. CASE UNCHANGED store /\ KeepsWaiting
    BY <2>2 DEF KeepsWaiting
  <2>3. store'.refresh # 0
    OBVIOUS
  <2> HIDE DEF D, E
  <2> QED BY <2>1, <2>2, <2>3, StoreSteps
<1>6. \/ Q \subseteq P
      \/ MayPresent(t, token) /\ ~MayPresent(t, token)' /\ \E r \in Requests : Q \subseteq P \cup {r}
  <2>1. Q = {o \in Requests : job'[o].token = token /\ sender'[o] = t}
    BY DEF PresentedBy
  <2>2. refreshing'[t] # None => ~MayPresent(t, token)'
    BY DEF MayPresent
  <2> HIDE DEF P, Q
  <2> QED BY <2>1, <2>2, PresentersGrow DEF P
<1> HIDE DEF P, D, Q, E
<1>7. IsFiniteSet(D) /\ Cardinality(D) \in Nat /\ Cardinality(D) <= Cardinality(E)
  BY <1>3, <1>4, FS_Subset, FS_CardinalityType
<1>8. ASSUME NEW q \in E, q \notin D PROVE Cardinality(D) + 1 <= Cardinality(E)
  <2>1. Cardinality(D \cup {q}) = Cardinality(D) + 1
    BY <1>7, <1>8, FS_AddElement
  <2>2. D \cup {q} \in SUBSET E
    BY <1>4
  <2>3. Cardinality(D \cup {q}) <= Cardinality(E)
    BY <1>3, <2>2, FS_Subset
  <2> QED BY <2>1, <2>3
<1>9. Cardinality(P) \in Nat
  BY <1>2, FS_CardinalityType
<1>10. CASE Q \subseteq P
  <2>1. IsFiniteSet(Q) /\ Cardinality(Q) <= Cardinality(P) /\ Cardinality(Q) \in Nat
    BY <1>2, <1>10, FS_Subset, FS_CardinalityType
  <2>2. Cardinality(Q) + (IF MayPresent(t, token)' THEN 1 ELSE 0) <= Cardinality(E)
    <3>1. CASE MayPresent(t, token)' /\ ~MayPresent(t, token)
      <4>1. Cardinality(D) + 1 <= Cardinality(E)
        BY <1>5, <1>8, <3>1
      <4> QED BY <1>2, <1>3, <1>7, <1>9, <2>1, <3>1, <4>1
    <3>2. CASE ~MayPresent(t, token)'
      BY <1>2, <1>3, <1>7, <1>9, <2>1, <3>2
    <3>3. CASE MayPresent(t, token)
      BY <1>2, <1>3, <1>7, <1>9, <2>1, <3>3
    <3> QED BY <3>1, <3>2, <3>3
  <2> QED BY <2>1, <2>2 DEF Q, E
<1>11. ASSUME NEW r \in Requests, Q \subseteq P \cup {r}, MayPresent(t, token),
              ~MayPresent(t, token)'
       PROVE  /\ IsFiniteSet(Q)
              /\ Cardinality(Q) + (IF MayPresent(t, token)' THEN 1 ELSE 0) <= Cardinality(E)
  <2>1. /\ IsFiniteSet(P \cup {r}) /\ Cardinality(P \cup {r}) <= Cardinality(P) + 1
        /\ Cardinality(P \cup {r}) \in Nat
    <3>1. /\ IsFiniteSet(P \cup {r})
          /\ Cardinality(P \cup {r}) = IF r \in P THEN Cardinality(P) ELSE Cardinality(P) + 1
      BY <1>2, FS_AddElement
    <3> QED BY <1>9, <3>1
  <2>2. IsFiniteSet(Q) /\ Cardinality(Q) <= Cardinality(P \cup {r}) /\ Cardinality(Q) \in Nat
    BY <1>11, <2>1, FS_Subset, FS_CardinalityType
  <2> QED BY <1>2, <1>3, <1>7, <1>9, <1>11, <2>1, <2>2
<1> QED BY <1>6, <1>10, <1>11 DEF Q, E

(***************************************************************************)
(* A refresh is refused at its lookup only, when no row is left that it    *)
(* could match.                                                            *)
(***************************************************************************)
LEMMA RefusedAtLookup ==
  ASSUME SessionInv, [SessionStep]_sessionVars, NEW r \in Requests,
         pc[r] # "refused", pc'[r] = "refused"
  PROVE  /\ pc[r] = "find" /\ job[r].kind = "refresh" /\ job[r].match = None
         /\ UNCHANGED <<now, job>>
         /\ \A s \in Unrevoked : session[s].token = job[r].token =>
              ~(session[s].expires > now /\ now < job[r].token + RefreshTtl)
<1>1. /\ pc \in [Requests -> Awaits] /\ job \in [Requests -> JobType]
      /\ root \in [Requests -> Requests \cup {None}]
  BY DEF SessionInv, SessionTypeOK, Awaits, JobType
<1>2. ASSUME NEW o \in Requests, FindForRefresh(o) PROVE o = r
  BY <1>2, FindFacts
<1>3. ASSUME FindForRefresh(r)
      PROVE  \A s \in Unrevoked : session[s].token = job[r].token =>
               ~(session[s].expires > now /\ now < job[r].token + RefreshTtl)
  <2> DEFINE kept == {s \in Unrevoked : session[s].expires > now /\ now < job[r].token + RefreshTtl}
             matching == {s \in kept : session[s].token = job[r].token}
  <2>1. MatchIn(r, kept, "revoke", "refused")
    BY <1>3 DEF FindForRefresh
  <2>2. ASSUME NEW s \in matching, pc' = [pc EXCEPT ![r] = "revoke"] PROVE FALSE
    BY <1>1, <2>2
  <2>3. matching = {}
    BY <2>1, <2>2 DEF MatchIn
  <2> QED BY <2>3
<1>4. ASSUME NEW o \in Requests, Handle(o) \/ Fail(o), ~FindForRefresh(o) PROVE FALSE
  <2>1. CASE FindForLogout(o)
    <3>1. job[o].kind = "logout"
      BY <2>1 DEF FindForLogout
    <3> QED BY <2>1, <3>1, FindFacts
  <2>2. CASE RevokeMatched(o) \/ DropMatched(o)
    BY <2>2, GoOnFacts
  <2>3. CASE Sign(o) \/ Fail(o)
    BY <2>3, SignFacts
  <2>4. CASE InsertSession(o)
    BY <2>4, InsertFacts
  <2> QED BY <1>4, <2>1, <2>2, <2>3, <2>4 DEF Handle
<1>5. ASSUME NEW o \in Requests, RevokeAll(o) PROVE FALSE
  BY <1>5, RevokeAllFacts
<1>6. ASSUME NEW o \in Requests,
             \/ StartLogin(o)
             \/ \E kind \in {"refresh", "logout"}, token \in 1..MaxTime : Send(o, kind, token)
      PROVE  FALSE
  BY <1>1, <1>6 DEF StartLogin, Send
<1>7. FindForRefresh(r)
  BY <1>2, <1>4, <1>5, <1>6 DEF SessionStep, sessionVars, Tick
<1>8. UNCHANGED job
  BY <1>7, FindFacts
<1> QED BY <1>3, <1>7, <1>8, FindFacts DEF FindForRefresh

Excused(r) ==
  \/ now >= job[r].token + RefreshTtl
  \/ MassRevocation
  \/ \E o \in Requests \ {r} :
       job[o].kind # "login" /\ job[o].token = job[r].token /\ sender[o] # sender[r]

\* An excuse remains one.
LEMMA ExcusedStays ==
  ASSUME SessionInv, ClientInv, SendersFit, [Next]_vars, NEW r \in Requests,
         job[r].kind = "refresh", Excused(r)
  PROVE  Excused(r)'
<1>1. [SessionStep]_sessionVars
  BY BrowserUsesSessions DEF ClientInv
<1>2. pc[r] # "idle" /\ job[r].token # 0
  BY SentHaveKind DEF SendersFit
<1>3. job'[r].token = job[r].token /\ sender'[r] = sender[r]
  BY <1>1, <1>2, RequestsStay, SendersStay
<1>4. CASE now >= job[r].token + RefreshTtl
  <2>1. now' = now \/ now' = now + 1
    <3>1. ASSUME NEW o \in Requests, Handle(o) \/ Fail(o) PROVE now' = now
      BY <3>1, FindFacts, GoOnFacts, SignFacts, InsertFacts DEF Handle
    <3>2. ASSUME NEW o \in Requests,
                 \/ RevokeAll(o) \/ StartLogin(o)
                 \/ \E kind \in {"refresh", "logout"}, token \in 1..MaxTime : Send(o, kind, token)
          PROVE  now' = now
      BY <3>2 DEF RevokeAll, StartLogin, Send
    <3> QED BY <1>1, <3>1, <3>2 DEF SessionStep, sessionVars, Tick
  <2>2. now \in Nat /\ job[r].token \in Nat /\ RefreshTtl \in Nat
    BY SessionTypes, TimesAssumption DEF SessionInv, SessionTypeOK
  <2>3. now' >= job'[r].token + RefreshTtl
    BY <1>3, <1>4, <2>1, <2>2
  <2> QED BY <2>3 DEF Excused
<1>5. CASE MassRevocation
  BY <1>1, <1>5, MassRevocationStays DEF Excused
<1>6. ASSUME NEW o \in Requests \ {r}, job[o].kind # "login", job[o].token = job[r].token,
             sender[o] # sender[r]
      PROVE  Excused(r)'
  <2>1. pc[o] # "idle"
    BY <1>2, <1>6 DEF SessionInv, RequestsFit, Fits
  <2>2. job'[o].kind = job[o].kind /\ job'[o].token = job[o].token /\ sender'[o] = sender[o]
    BY <1>1, <2>1, RequestsStay, SendersStay
  <2> QED BY <1>3, <1>6, <2>2 DEF Excused
<1> QED BY <1>4, <1>5, <1>6 DEF Excused

(***************************************************************************)
(* Without an excuse each row of the token was matched by another request  *)
(* of the same tab, which has then presented the token more often than it  *)
(* was delivered.                                                          *)
(***************************************************************************)
LEMMA NobodyIsRefusedWithoutExcuse ==
  ASSUME SessionInv, ClientInv, StoreInv, PresenceInv, NEW r \in Requests,
         job[r].kind = "refresh", job[r].match = None,
         \A s \in Unrevoked : session[s].token = job[r].token =>
           ~(session[s].expires > now /\ now < job[r].token + RefreshTtl)
  PROVE  Excused(r)
<1> SUFFICES ASSUME ~Excused(r) PROVE FALSE
  OBVIOUS
<1> DEFINE token == job[r].token
           t == sender[r]
           D == DeliveriesOf(token)
           P == PresentedBy(t, token)
<1>1. /\ token \in 1..MaxTime /\ t \in Tabs /\ now \in Nat /\ RefreshTtl \in Nat
      /\ now < token + RefreshTtl
  BY SessionTypes, TimesAssumption
     DEF PresenceInv, SendersFit, SessionInv, SessionTypeOK, Excused
<1>2. ASSUME NEW q \in D
      PROVE  \E o \in P \ {r} : job[o].match = q
  <2>1. q \in Requests /\ session[q].token = token /\ token # 0
    BY <1>1 DEF DeliveriesOf
  <2>2. session[q].expires > now
    <3>1. session[q].expires \in Nat /\ token + RefreshTtl <= session[q].expires
      BY <2>1 DEF PresenceInv, TimesFit, SessionInv, SessionTypeOK
    <3> QED BY <1>1, <3>1
  <2>3. session[q].revoked
    BY <1>1, <2>1, <2>2 DEF Unrevoked
  <2>4. PICK o \in Requests : job[o].match = q /\ job[o].token = token
    <3>1. ~MassRevocation
      BY DEF Excused
    <3>2. session[q].token # 0 /\ session[q].revoked
      BY <2>1, <2>3
    <3>3. \E o \in Requests : job[o].match = q /\ job[o].token = session[q].token
      BY <2>1, <3>1, <3>2 DEF StoreInv, RevokedWasMatched
    <3> QED BY <2>1, <3>3
  <2>5. o # r
    BY <2>1, <2>4, RequestsAssumption
  <2>6. job[o].kind # "login"
    BY <2>1, <2>4 DEF PresenceInv, SendersFit
  <2>7. sender[o] = t
    BY <2>4, <2>5, <2>6 DEF Excused
  <2> QED BY <2>4, <2>5, <2>7 DEF PresentedBy
<1>3. r \in P
  BY DEF PresentedBy
<1>4. IsFiniteSet(P) /\ Cardinality(P) <= Cardinality(D)
  <2>1. /\ IsFiniteSet(P)
        /\ Cardinality(P) + (IF MayPresent(t, token) THEN 1 ELSE 0) <= Cardinality(D)
    BY <1>1 DEF PresenceInv, PresentedAsDelivered
  <2>2. D \in SUBSET {s \in Requests : session[s].token # 0}
    BY <1>1 DEF DeliveriesOf
  <2> HIDE DEF P, D
  <2>3. Cardinality(P) \in Nat /\ Cardinality(D) \in Nat
    BY <2>1, <2>2, FS_Subset, FS_CardinalityType DEF StoreInv, FewSessions
  <2> QED BY <2>1, <2>3
<1> HIDE DEF P, D
<1>5. /\ IsFiniteSet(P \ {r}) /\ Cardinality(P \ {r}) = Cardinality(P) - 1
      /\ Cardinality(P) \in Nat
  BY <1>3, <1>4, FS_RemoveElement, FS_CardinalityType
<1> DEFINE f == [q \in D |-> CHOOSE o \in P \ {r} : job[o].match = q]
<1>6. \A q \in D : f[q] \in P \ {r} /\ job[f[q]].match = q
  BY <1>2
<1>7. f \in [D -> P \ {r}]
  BY <1>6
<1> HIDE DEF f
<1>8. \A p, q \in D : f[p] = f[q] => p = q
  BY <1>6
<1>9. f \in Injection(D, P \ {r})
  BY <1>7, <1>8 DEF Injection, IsInjective
<1>10. Cardinality(D) <= Cardinality(P \ {r}) /\ Cardinality(D) \in Nat
  BY <1>5, <1>9, FS_Injection, FS_CardinalityType
<1> QED BY <1>4, <1>5, <1>10

LEMMA NotThrownOutInductive ==
  ASSUME SessionInv, ClientInv, StoreInv, PresenceInv, NotThrownOut, [Next]_vars
  PROVE  NotThrownOut'
<1>1. [SessionStep]_sessionVars /\ SendersFit
  BY BrowserUsesSessions DEF ClientInv, PresenceInv
<1> SUFFICES ASSUME NEW r \in Requests, job'[r].kind = "refresh", pc'[r] = "refused"
             PROVE  Excused(r)'
  BY DEF NotThrownOut, Excused, MassRevocation
<1>2. CASE pc[r] = "refused"
  <2>1. job[r].kind = "refresh"
    BY <1>1, <1>2, RequestsStay
  <2>2. Excused(r)
    BY <1>2, <2>1 DEF NotThrownOut, Excused
  <2> QED BY <1>1, <2>1, <2>2, ExcusedStays
<1>3. CASE pc[r] # "refused"
  <2>1. /\ job[r].kind = "refresh" /\ job[r].match = None
        /\ \A s \in Unrevoked : session[s].token = job[r].token =>
             ~(session[s].expires > now /\ now < job[r].token + RefreshTtl)
    BY <1>1, <1>3, RefusedAtLookup
  <2>2. Excused(r)
    BY <2>1, NobodyIsRefusedWithoutExcuse
  <2> QED BY <1>1, <2>1, <2>2, ExcusedStays
<1> QED BY <1>2, <1>3

LEMMA InitPresenceInv == Init => PresenceInv /\ NotThrownOut
<1> SUFFICES ASSUME Init PROVE PresenceInv /\ NotThrownOut
  OBVIOUS
<1>1. /\ \A r \in Requests : /\ job[r].token = 0 /\ session[r].token = 0 /\ job[r].issued = 0
                             /\ job[r].kind = None /\ sender[r] = None /\ pc[r] = "idle"
      /\ now = 1 /\ store.refresh = 0
  BY DEF Init, SessionInit, NoJob, NoSession, NoTokens
<1>2. TimesFit /\ SendersFit /\ NotThrownOut
  <2>1. TimesFit
    <3>1. ASSUME NEW r \in Requests PROVE job[r].issued <= now
      <4>1. job[r].issued = 0 /\ now = 1
        BY <1>1
      <4> QED BY <4>1
    <3> QED BY <1>1, <3>1 DEF TimesFit
  <2>2. SendersFit
    BY <1>1, KindsAssumption DEF SendersFit
  <2>3. NotThrownOut
    BY <1>1 DEF NotThrownOut
  <2> QED BY <2>1, <2>2, <2>3
<1>3. PresentedAsDelivered
  <2> SUFFICES ASSUME NEW t \in Tabs, NEW token \in 1..MaxTime
               PROVE  /\ IsFiniteSet(PresentedBy(t, token))
                      /\ Cardinality(PresentedBy(t, token))
                           + (IF MayPresent(t, token) THEN 1 ELSE 0)
                           <= Cardinality(DeliveriesOf(token))
    BY DEF PresentedAsDelivered
  <2>0. token # 0
    OBVIOUS
  <2>1. /\ PresentedBy(t, token) = {} /\ DeliveriesOf(token) = {} /\ ~MayPresent(t, token)
    BY <1>1, <2>0 DEF PresentedBy, DeliveriesOf, MayPresent
  <2> QED BY <2>1, FS_EmptySet
<1> QED BY <1>2, <1>3 DEF PresenceInv

(***************************************************************************)
(* The calls of one tab never throw their own user out: a refresh that is  *)
(* refused has come too late, or after a mass revocation, or with a token  *)
(* that another tab or a logout has presented as well.                     *)
(***************************************************************************)
THEOREM NoSelfLockout == Spec => []NotThrownOut
<1>1. SessionInv /\ ClientInv /\ StoreInv /\ [Next]_vars => StoreInv'
  BY StoreInvInductive
<1>2. /\ SessionInv /\ ClientInv /\ StoreInv /\ PresenceInv /\ NotThrownOut /\ [Next]_vars
      => PresenceInv' /\ NotThrownOut'
  BY BrowserUsesSessions, TimesFitInductive, SendersFitInductive,
     PresentedAsDeliveredInductive, NotThrownOutInductive DEF PresenceInv, ClientInv
<1> QED BY <1>1, <1>2, InitStoreInv, InitPresenceInv, Invariants, PTL DEF Spec

-----------------------------------------------------------------------------
(* The pages of the client: what a page asks for and what it offers *)

\* A permission that whoever is on a page has.
Gate == [
  managerDashboard |-> "report:read", residentDashboard |-> Null, settings |-> Null,
  buildings |-> "building:read", unit |-> "building:read",
  residents |-> "resident:read", owners |-> "resident:read",
  periods |-> "charge:read", debtors |-> "charge:read", period |-> "charge:read",
  incomes |-> "accounting:read", expenses |-> "accounting:read", ledger |-> "accounting:read",
  maintenance |-> "maintenance:read", ticket |-> "maintenance:read",
  announcements |-> "announcement:read", reports |-> "report:read",
  analytics |-> "analytics:query", users |-> "user:read", roles |-> "role:read",
  audit |-> "audit:read"]


-----------------------------------------------------------------------------
(* What the routes need *)

\* No route is declared twice with different permissions.
Once(routes) == \A d \in routes, e \in Declared : d.route = e.route => d.permission = e.permission

LEMMA DeclaredOnce == Once(Declared)
<1> USE DEF Once, Need, Declared, BuildingRoutes, UnitRoutes, ResidentRoutes, AccountingRoutes,
            PaymentRoutes, ChargeRoutes, MaintenanceRoutes, AnnouncementRoutes, UserRoutes,
            RbacRoutes, ReportRoutes, DashboardRoutes, AnalyticsRoutes, NotificationRoutes,
            AuditRoutes, FileRoutes, AuthRoutes
<1>1. Once(BuildingRoutes)
  OBVIOUS
<1>2. Once(UnitRoutes)
  OBVIOUS
<1>3. Once(ResidentRoutes)
  OBVIOUS
<1>4. Once(AccountingRoutes)
  OBVIOUS
<1>5. Once(PaymentRoutes)
  OBVIOUS
<1>6. Once(ChargeRoutes)
  OBVIOUS
<1>7. Once(MaintenanceRoutes)
  OBVIOUS
<1>8. Once(AnnouncementRoutes)
  OBVIOUS
<1>9. Once(UserRoutes)
  OBVIOUS
<1>10. Once(RbacRoutes)
  OBVIOUS
<1>11. Once(ReportRoutes)
  OBVIOUS
<1>12. Once(DashboardRoutes)
  OBVIOUS
<1>13. Once(AnalyticsRoutes)
  OBVIOUS
<1>14. Once(NotificationRoutes)
  OBVIOUS
<1>15. Once(AuditRoutes)
  OBVIOUS
<1>16. Once(FileRoutes)
  OBVIOUS
<1>17. Once(AuthRoutes)
  OBVIOUS
<1> HIDE DEF Need, Declared, BuildingRoutes, UnitRoutes, ResidentRoutes, AccountingRoutes,
             PaymentRoutes, ChargeRoutes, MaintenanceRoutes, AnnouncementRoutes, UserRoutes,
             RbacRoutes, ReportRoutes, DashboardRoutes, AnalyticsRoutes, NotificationRoutes,
             AuditRoutes, FileRoutes, AuthRoutes
<1> QED
  BY <1>1, <1>2, <1>3, <1>4, <1>5, <1>6, <1>7, <1>8, <1>9, <1>10, <1>11, <1>12, <1>13, <1>14,
     <1>15, <1>16, <1>17 DEF Declared

LEMMA NeedIsDeclared ==
  ASSUME NEW p, NEW routes, Need(p, routes) \subseteq Declared, NEW r \in routes
  PROVE  RouteNeeds[r] = p
<1> DEFINE d == [route |-> r, permission |-> p]
<1>1. d \in Declared
  BY DEF Need
<1>2. \A e \in Declared : e.route = r => e.permission = p
  BY <1>1, DeclaredOnce DEF Once
<1>3. (CHOOSE e \in Declared : e.route = r).permission = p
  BY <1>1, <1>2
<1> QED BY <1>1, <1>3 DEF RouteNeeds

\* The permissions of the routes the pages use.
LEMMA BuildingNeeds ==
  /\ \A r \in {"buildings.list", "floors.list"} : RouteNeeds[r] = "building:read"
  /\ RouteNeeds["buildings.create"] = "building:create"
  /\ RouteNeeds["buildings.update"] = "building:update"
  /\ \A r \in {"floors.create", "units.create"} : RouteNeeds[r] = "unit:create"
  /\ \A r \in {"units.list", "units.get"} : RouteNeeds[r] = "unit:read"
  /\ RouteNeeds["units.update"] = "unit:update"
<1>1. BuildingRoutes \subseteq Declared /\ UnitRoutes \subseteq Declared
  BY DEF Declared
<1> QED BY <1>1, NeedIsDeclared DEF BuildingRoutes, UnitRoutes

LEMMA ResidentNeeds ==
  /\ RouteNeeds["residents.list"] = "resident:read"
  /\ RouteNeeds["residents.create"] = "resident:create"
  /\ RouteNeeds["residents.update"] = "resident:update"
  /\ RouteNeeds["residents.delete"] = "resident:delete"
  /\ RouteNeeds["owners.list"] = "owner:read"
  /\ RouteNeeds["owners.create"] = "owner:create"
  /\ RouteNeeds["owners.update"] = "owner:update"
<1>1. ResidentRoutes \subseteq Declared
  BY DEF Declared
<1> QED BY <1>1, NeedIsDeclared DEF ResidentRoutes

LEMMA AccountingNeeds ==
  /\ \A r \in {"cashboxes.list", "cashboxes.balance", "categories.list", "incomes.list",
               "expenses.list", "ledger.list"} : RouteNeeds[r] = "accounting:read"
  /\ RouteNeeds["cashboxes.create"] = "cashbox:manage"
  /\ \A r \in {"categories.create", "expenses.create"} : RouteNeeds[r] = "expense:create"
  /\ RouteNeeds["incomes.create"] = "income:create"
<1>1. AccountingRoutes \subseteq Declared
  BY DEF Declared
<1> QED BY <1>1, NeedIsDeclared DEF AccountingRoutes

LEMMA ChargeNeeds ==
  /\ \A r \in {"charges.list", "charges.debtors", "charges.get", "charges.ofUnit"} :
       RouteNeeds[r] = "charge:read"
  /\ RouteNeeds["charges.approve"] = "charge:approve"
  /\ RouteNeeds["payments.manual"] = "payment:create"
<1>1. ChargeRoutes \subseteq Declared /\ PaymentRoutes \subseteq Declared
  BY DEF Declared
<1> QED BY <1>1, NeedIsDeclared DEF ChargeRoutes, PaymentRoutes

LEMMA TicketNeeds ==
  /\ \A r \in {"maintenance.list", "maintenance.get", "maintenance.comment"} :
       RouteNeeds[r] = "maintenance:read"
  /\ \A r \in {"maintenance.status", "maintenance.assign"} : RouteNeeds[r] = "maintenance:update"
  /\ RouteNeeds["announcements.list"] = "announcement:read"
  /\ RouteNeeds["announcements.create"] = "announcement:create"
  /\ RouteNeeds["announcements.delete"] = "announcement:delete"
<1>1. MaintenanceRoutes \subseteq Declared /\ AnnouncementRoutes \subseteq Declared
  BY DEF Declared
<1> QED BY <1>1, NeedIsDeclared DEF MaintenanceRoutes, AnnouncementRoutes

LEMMA UserNeeds ==
  /\ RouteNeeds["users.list"] = "user:read"
  /\ RouteNeeds["users.create"] = "user:create"
  /\ RouteNeeds["roles.list"] = "role:read"
  /\ RouteNeeds["roles.assign"] = "role:assign"
  /\ RouteNeeds["audit.list"] = "audit:read"
  /\ \A r \in {"users.profile", "auth.changePassword", "dashboard.resident"} :
       RouteNeeds[r] = Null
<1>1. /\ UserRoutes \subseteq Declared /\ RbacRoutes \subseteq Declared
      /\ AuditRoutes \subseteq Declared /\ AuthRoutes \subseteq Declared
      /\ DashboardRoutes \subseteq Declared
  BY DEF Declared
<1>2. \A r \in {"users.profile"} : RouteNeeds[r] = Null
  BY <1>1, NeedIsDeclared DEF UserRoutes
<1>3. RouteNeeds["auth.changePassword"] = Null
  BY <1>1, NeedIsDeclared DEF AuthRoutes
<1>4. RouteNeeds["dashboard.resident"] = Null
  BY <1>1, NeedIsDeclared DEF DashboardRoutes
<1> QED BY <1>1, <1>2, <1>3, <1>4, NeedIsDeclared DEF UserRoutes, RbacRoutes, AuditRoutes

LEMMA ReportNeeds ==
  /\ \A r \in {"reports.chart", "reports.byCategory", "dashboard.manager"} :
       RouteNeeds[r] = "report:read"
  /\ \A r \in {"analytics.ask", "analytics.suggestions"} : RouteNeeds[r] = "analytics:query"
<1>1. /\ ReportRoutes \subseteq Declared /\ AnalyticsRoutes \subseteq Declared
      /\ DashboardRoutes \subseteq Declared
  BY DEF Declared
<1> QED BY <1>1, NeedIsDeclared DEF ReportRoutes, AnalyticsRoutes, DashboardRoutes

-----------------------------------------------------------------------------
(* What the roles may *)

LEMMA PermissionsAreNotNull ==
  \A p \in {"report:read", "building:read", "resident:read", "charge:read", "accounting:read",
            "maintenance:read", "announcement:read", "analytics:query", "user:read", "role:read",
            "audit:read"} : p # Null
<1>1. "BUILDING_MANAGER" \in Roles
  BY DEF Roles, ROLE_PERMISSIONS
<1>2. {"report:read", "building:read", "resident:read", "charge:read", "accounting:read",
       "maintenance:read", "announcement:read", "analytics:query", "user:read", "role:read",
       "audit:read"} \subseteq ROLE_PERMISSIONS["BUILDING_MANAGER"]
  BY DEF ROLE_PERMISSIONS
<1> QED BY <1>1, <1>2, NullAssumption

LEMMA FormsAreNotNull ==
  "incomes.create" # Null /\ "expenses.create" # Null /\ "roles.assign" # Null
<1>1. /\ [route |-> "incomes.create", permission |-> "income:create"] \in AccountingRoutes
      /\ [route |-> "expenses.create", permission |-> "expense:create"] \in AccountingRoutes
      /\ [route |-> "roles.assign", permission |-> "role:assign"] \in RbacRoutes
  BY DEF AccountingRoutes, RbacRoutes, Need
<1> QED BY <1>1, NullAssumption DEF Declared

\* Whoever has permission p has permission n.
Weaker(p, n) ==
  \/ n = Null
  \/ /\ p # Null
     /\ \A role \in Roles : p \in ROLE_PERMISSIONS[role] => n \in ROLE_PERMISSIONS[role]

LEMMA WeakerIsPermitted ==
  ASSUME NEW roles \in SUBSET Roles, NEW p, NEW n, Weaker(p, n), Permits(roles, p)
  PROVE  Permits(roles, n)
  BY DEF Weaker, Permits

LEMMA WeakerPermissions ==
  /\ \A p : p # Null => Weaker(p, p)
  /\ \A p : Weaker(p, Null)
  /\ \A n \in {"unit:read", "owner:read", "resident:read", "charge:read"} :
       Weaker("building:read", n)
  /\ Weaker("resident:read", "owner:read")
  /\ Weaker("user:read", "role:read")
<1>1. ASSUME NEW role \in Roles
      PROVE  /\ "building:read" \in ROLE_PERMISSIONS[role] =>
                  /\ "unit:read" \in ROLE_PERMISSIONS[role]
                  /\ "owner:read" \in ROLE_PERMISSIONS[role]
                  /\ "resident:read" \in ROLE_PERMISSIONS[role]
                  /\ "charge:read" \in ROLE_PERMISSIONS[role]
             /\ "resident:read" \in ROLE_PERMISSIONS[role] =>
                  "owner:read" \in ROLE_PERMISSIONS[role]
             /\ "user:read" \in ROLE_PERMISSIONS[role] => "role:read" \in ROLE_PERMISSIONS[role]
  BY <1>1 DEF Roles, ROLE_PERMISSIONS
<1>2. "building:read" # Null /\ "resident:read" # Null /\ "user:read" # Null
  BY PermissionsAreNotNull
<1>3. /\ \A n \in {"unit:read", "owner:read", "resident:read", "charge:read"} :
           Weaker("building:read", n)
      /\ Weaker("resident:read", "owner:read")
      /\ Weaker("user:read", "role:read")
  BY <1>1, <1>2 DEF Weaker
<1>4. /\ \A p : p # Null => Weaker(p, p)
      /\ \A p : Weaker(p, Null)
  BY DEF Weaker
<1> QED BY <1>3, <1>4

-----------------------------------------------------------------------------
(* The pages *)

\* The keys whose answers show a table, on whatever page.
ShownIn == [
  cashbox |-> {"dashboard", "cashboxes", "balance"},
  entry |-> {"dashboard", "acc-incomes", "acc-expenses", "acc-ledger", "report-chart",
            "report-cat"},
  category |-> {"categories", "report-cat"},
  building |-> {"buildings"}, floor |-> {"floors"}, lease |-> {"unit"},
  unit_count |-> {"dashboard", "buildings"},
  unit |-> {"dashboard-resident", "units", "unit", "people-residents", "people-owners",
            "maint", "maint-detail"},
  owner |-> {"units", "owners-list", "unit", "people-owners"},
  resident |-> {"units", "residents-list", "unit", "people-residents"},
  ticket |-> {"dashboard", "dashboard-resident", "maint", "maint-detail"},
  comment |-> {"maint-detail"}, payment |-> {"dashboard"},
  period |-> {"charge-periods", "period"},
  charge |-> {"dashboard", "dashboard-resident", "unit", "unit-charges", "charge-periods",
              "debtors", "period", "report-chart"},
  announcement |-> {"dashboard-resident", "announcements"},
  user |-> {"users-tech", "users", "profile"},
  user_role |-> {"users", "roles", "profile"}, role |-> {"roles"}]

ShowsAsListed(q) ==
  /\ q.shows \subseteq DOMAIN ShownIn
  /\ \A t \in DOMAIN ShownIn : t \in q.shows <=> q.key \in ShownIn[t]

Tells(c, k) == {k, "every-key"} \cap c.tells # {}

\* A query whose page grants gate is permitted; the pages of a unit, a period
\* and a ticket have the gate of the page that links to them.
QueryFits(q, gate) ==
  /\ ShowsAsListed(q)
  /\ q.key = "users-tech" \/ Weaker(gate, RouteNeeds[q.route])
  /\ q.key = "units" => gate = "building:read"
  /\ q.key = "charge-periods" => gate = "charge:read"
  /\ q.key = "maint" => gate = "maintenance:read"

\* A control is permitted to whom it is offered.
ControlFits(c, page, gate) ==
  \/ c.route \in Unasked
  \/ RouteNeeds[c.route] = c.gate
  \/ Weaker(gate, RouteNeeds[c.route])
  \/ /\ c.inside # Null
     /\ \A d \in page.controls : d.route = c.inside => d.gate = RouteNeeds[c.route]

\* A control tells the keys that show what it writes, but for those only its
\* own form mounts and those it overlooks.
ControlTells(c, q, page) ==
  \/ q.shows \cap c.writes = {} \/ Tells(c, q.key) \/ <<c.route, q.key>> \in Overlooked
  \/ /\ c.route # Null
     /\ \A other \in page.queries : other.key = q.key => other.form = c.route

QueriesFit(page, gate) == \A q \in page.queries : QueryFits(q, gate)

ControlsFit(page, gate) == \A c \in page.controls : ControlFits(c, page, gate)

ControlsTell(page) == \A c \in page.controls, q \in page.queries : ControlTells(c, q, page)

LEMMA PagesResolved ==
  /\ Places = DOMAIN Gate
  /\ Pages["managerDashboard"] = managerDashboard
  /\ Pages["residentDashboard"] = residentDashboard
  /\ Pages["buildings"] = [queries |-> buildingsPage.queries \cup unitsPanel.queries,
                         controls |-> buildingsPage.controls \cup unitsPanel.controls]
  /\ Pages["unit"] = unitPage
  /\ Pages["residents"] = PeopleList.residents
  /\ Pages["owners"] = PeopleList.owners
  /\ Pages["periods"] = periodsTab
  /\ Pages["debtors"] = debtorsTab
  /\ Pages["period"] = periodPage
  /\ Pages["incomes"] = entriesTab("acc-incomes", "incomes.list")
  /\ Pages["expenses"] = entriesTab("acc-expenses", "expenses.list")
  /\ Pages["ledger"] = entriesTab("acc-ledger", "ledger.list")
  /\ Pages["maintenance"] = maintenancePage
  /\ Pages["ticket"] = ticketPage
  /\ Pages["announcements"] = announcementsPage
  /\ Pages["reports"] = reportsPage
  /\ Pages["analytics"] = analyticsPage
  /\ Pages["users"] = usersPage
  /\ Pages["roles"] = rolesPage
  /\ Pages["audit"] = auditPage
  /\ Pages["settings"] = settingsPage
<1>1. Places = DOMAIN Gate
  BY DEF Places, Pages, Gate
<1>2. Pages["managerDashboard"] = managerDashboard
  BY DEF Pages
<1>3. Pages["residentDashboard"] = residentDashboard
  BY DEF Pages
<1>4. Pages["buildings"] = [queries |-> buildingsPage.queries \cup unitsPanel.queries,
                             controls |-> buildingsPage.controls \cup unitsPanel.controls]
  BY DEF Pages
<1>5. Pages["unit"] = unitPage
  BY DEF Pages
<1>6. Pages["residents"] = PeopleList.residents
  BY DEF Pages
<1>7. Pages["owners"] = PeopleList.owners
  BY DEF Pages
<1>8. Pages["periods"] = periodsTab
  BY DEF Pages
<1>9. Pages["debtors"] = debtorsTab
  BY DEF Pages
<1>10. Pages["period"] = periodPage
  BY DEF Pages
<1>11. Pages["incomes"] = entriesTab("acc-incomes", "incomes.list")
  BY DEF Pages
<1>12. Pages["expenses"] = entriesTab("acc-expenses", "expenses.list")
  BY DEF Pages
<1>13. Pages["ledger"] = entriesTab("acc-ledger", "ledger.list")
  BY DEF Pages
<1>14. Pages["maintenance"] = maintenancePage
  BY DEF Pages
<1>15. Pages["ticket"] = ticketPage
  BY DEF Pages
<1>16. Pages["announcements"] = announcementsPage
  BY DEF Pages
<1>17. Pages["reports"] = reportsPage
  BY DEF Pages
<1>18. Pages["analytics"] = analyticsPage
  BY DEF Pages
<1>19. Pages["users"] = usersPage
  BY DEF Pages
<1>20. Pages["roles"] = rolesPage
  BY DEF Pages
<1>21. Pages["audit"] = auditPage
  BY DEF Pages
<1>22. Pages["settings"] = settingsPage
  BY DEF Pages
<1> QED
  BY <1>1, <1>2, <1>3, <1>4, <1>5, <1>6, <1>7, <1>8, <1>9, <1>10, <1>11, <1>12, <1>13, <1>14,
     <1>15, <1>16, <1>17, <1>18, <1>19, <1>20, <1>21, <1>22

\* What the pages make is permitted to whoever may be on them.
LEMMA QueriesAreFit ==
  \A p \in Places : QueriesFit(Pages[p], Gate[p])
<1> USE PermissionsAreNotNull, WeakerPermissions
      DEF QueriesFit, QueryFits, ShowsAsListed, ShownIn, Query
<1>1. QueriesFit(managerDashboard, "report:read")
  BY ReportNeeds DEF managerDashboard
<1>2. QueriesFit(residentDashboard, Null)
  BY UserNeeds DEF residentDashboard
<1>3. QueriesFit(Pages["buildings"], "building:read")
  BY PagesResolved, BuildingNeeds, ResidentNeeds
     DEF buildingsPage, unitsPanel, BuildingModal, UnitModal, FloorModal
<1>4. QueriesFit(unitPage, "building:read")
  BY BuildingNeeds, ChargeNeeds DEF unitPage
<1>5. QueriesFit(PeopleList.residents, "resident:read")
  BY ResidentNeeds DEF PeopleList, PersonModal
<1>6. QueriesFit(PeopleList.owners, "resident:read")
  BY ResidentNeeds DEF PeopleList, PersonModal
<1>7. QueriesFit(periodsTab, "charge:read")
  BY ChargeNeeds DEF periodsTab, createPeriod, preview
<1>8. QueriesFit(debtorsTab, "charge:read")
  BY ChargeNeeds DEF debtorsTab, createPeriod, preview
<1>9. QueriesFit(periodPage, "charge:read")
  BY ChargeNeeds DEF periodPage, PaymentModal
<1>10. QueriesFit(entriesTab("acc-incomes", "incomes.list"), "accounting:read")
  BY AccountingNeeds DEF entriesTab, accounting, EntryModal, CashboxModal, InForm, EntryForms
<1>11. QueriesFit(entriesTab("acc-expenses", "expenses.list"), "accounting:read")
  BY AccountingNeeds DEF entriesTab, accounting, EntryModal, CashboxModal, InForm, EntryForms
<1>12. QueriesFit(entriesTab("acc-ledger", "ledger.list"), "accounting:read")
  BY AccountingNeeds DEF entriesTab, accounting, EntryModal, CashboxModal, InForm, EntryForms
<1>13. QueriesFit(maintenancePage, "maintenance:read")
  BY TicketNeeds DEF maintenancePage, CreateTicket
<1>14. QueriesFit(ticketPage, "maintenance:read")
  BY TicketNeeds DEF ticketPage
<1>15. QueriesFit(announcementsPage, "announcement:read")
  BY TicketNeeds DEF announcementsPage, CreateAnnouncement
<1>16. QueriesFit(reportsPage, "report:read")
  BY ReportNeeds DEF reportsPage
<1>17. QueriesFit(analyticsPage, "analytics:query")
  BY ReportNeeds DEF analyticsPage
<1>18. QueriesFit(usersPage, "user:read")
  BY UserNeeds DEF usersPage, AssignRoleModal, CreateUserModal, InForm
<1>19. QueriesFit(rolesPage, "role:read")
  BY UserNeeds DEF rolesPage
<1>20. QueriesFit(auditPage, "audit:read")
  BY UserNeeds DEF auditPage
<1>21. QueriesFit(settingsPage, Null)
  BY UserNeeds DEF settingsPage
<1> HIDE DEF QueriesFit, QueryFits, ShowsAsListed, ShownIn, Query
<1>22. \A p \in DOMAIN Gate : QueriesFit(Pages[p], Gate[p])
  BY PagesResolved, <1>1, <1>2, <1>3, <1>4, <1>5, <1>6, <1>7, <1>8, <1>9, <1>10, <1>11, <1>12,
     <1>13, <1>14, <1>15, <1>16, <1>17, <1>18, <1>19, <1>20, <1>21 DEF Gate
<1> QED BY <1>22, PagesResolved

\* What they offer is permitted, but for what is offered without asking.
LEMMA ControlsAreFit ==
  \A p \in Places : ControlsFit(Pages[p], Gate[p])
<1> USE PermissionsAreNotNull, WeakerPermissions, FormsAreNotNull
      DEF ControlsFit, ControlFits, Unasked, Control
<1>1. ControlsFit(managerDashboard, "report:read")
  BY DEF managerDashboard
<1>2. ControlsFit(residentDashboard, Null)
  BY DEF residentDashboard
<1>3. ControlsFit(Pages["buildings"], "building:read")
  BY PagesResolved, BuildingNeeds
     DEF buildingsPage, unitsPanel, BuildingModal, UnitModal, FloorModal
<1>4. ControlsFit(unitPage, "building:read")
  BY DEF unitPage
<1>5. ControlsFit(PeopleList.residents, "resident:read")
  BY ResidentNeeds DEF PeopleList, PersonModal
<1>6. ControlsFit(PeopleList.owners, "resident:read")
  BY ResidentNeeds DEF PeopleList, PersonModal
<1>7. ControlsFit(periodsTab, "charge:read")
  BY ChargeNeeds DEF periodsTab, createPeriod, preview
<1>8. ControlsFit(debtorsTab, "charge:read")
  BY ChargeNeeds DEF debtorsTab, createPeriod, preview
<1>9. ControlsFit(periodPage, "charge:read")
  BY ChargeNeeds DEF periodPage, PaymentModal
<1>10. ControlsFit(entriesTab("acc-incomes", "incomes.list"), "accounting:read")
  BY AccountingNeeds DEF entriesTab, accounting, EntryModal, CashboxModal, InForm, EntryForms
<1>11. ControlsFit(entriesTab("acc-expenses", "expenses.list"), "accounting:read")
  BY AccountingNeeds DEF entriesTab, accounting, EntryModal, CashboxModal, InForm, EntryForms
<1>12. ControlsFit(entriesTab("acc-ledger", "ledger.list"), "accounting:read")
  BY AccountingNeeds DEF entriesTab, accounting, EntryModal, CashboxModal, InForm, EntryForms
<1>13. ControlsFit(maintenancePage, "maintenance:read")
  BY DEF maintenancePage, CreateTicket
<1>14. ControlsFit(ticketPage, "maintenance:read")
  BY TicketNeeds DEF ticketPage
<1>15. ControlsFit(announcementsPage, "announcement:read")
  BY TicketNeeds DEF announcementsPage, CreateAnnouncement
<1>16. ControlsFit(reportsPage, "report:read")
  BY DEF reportsPage
<1>17. ControlsFit(analyticsPage, "analytics:query")
  BY ReportNeeds DEF analyticsPage
<1>18. ControlsFit(usersPage, "user:read")
  BY UserNeeds DEF usersPage, AssignRoleModal, CreateUserModal, InForm
<1>19. ControlsFit(rolesPage, "role:read")
  BY DEF rolesPage
<1>20. ControlsFit(auditPage, "audit:read")
  BY DEF auditPage
<1>21. ControlsFit(settingsPage, Null)
  BY UserNeeds DEF settingsPage
<1> HIDE DEF ControlsFit, ControlFits, Unasked, Control
<1>22. \A p \in DOMAIN Gate : ControlsFit(Pages[p], Gate[p])
  BY PagesResolved, <1>1, <1>2, <1>3, <1>4, <1>5, <1>6, <1>7, <1>8, <1>9, <1>10, <1>11, <1>12,
     <1>13, <1>14, <1>15, <1>16, <1>17, <1>18, <1>19, <1>20, <1>21 DEF Gate
<1> QED BY <1>22, PagesResolved

\* What they change is told to the queries beside it.
LEMMA ControlsDoTell ==
  \A p \in Places : ControlsTell(Pages[p])
<1> USE FormsAreNotNull DEF ControlsTell, ControlTells, Tells, Overlooked, Query, Control
<1>1. ControlsTell(managerDashboard)
  BY DEF managerDashboard
<1>2. ControlsTell(residentDashboard)
  BY DEF residentDashboard
<1>3. ControlsTell(Pages["buildings"])
  BY PagesResolved DEF buildingsPage, unitsPanel, BuildingModal, UnitModal, FloorModal
<1>4. ControlsTell(unitPage)
  BY DEF unitPage
<1>5. ControlsTell(PeopleList.residents)
  BY DEF PeopleList, PersonModal
<1>6. ControlsTell(PeopleList.owners)
  BY DEF PeopleList, PersonModal
<1>7. ControlsTell(periodsTab)
  BY DEF periodsTab, createPeriod, preview
<1>8. ControlsTell(debtorsTab)
  BY DEF debtorsTab, createPeriod, preview
<1>9. ControlsTell(periodPage)
  BY DEF periodPage, PaymentModal
<1>10. ControlsTell(entriesTab("acc-incomes", "incomes.list"))
  BY DEF entriesTab, accounting, EntryModal, CashboxModal, InForm, EntryForms
<1>11. ControlsTell(entriesTab("acc-expenses", "expenses.list"))
  BY DEF entriesTab, accounting, EntryModal, CashboxModal, InForm, EntryForms
<1>12. ControlsTell(entriesTab("acc-ledger", "ledger.list"))
  BY DEF entriesTab, accounting, EntryModal, CashboxModal, InForm, EntryForms
<1>13. ControlsTell(maintenancePage)
  BY DEF maintenancePage, CreateTicket
<1>14. ControlsTell(ticketPage)
  BY DEF ticketPage
<1>15. ControlsTell(announcementsPage)
  BY DEF announcementsPage, CreateAnnouncement
<1>16. ControlsTell(reportsPage)
  BY DEF reportsPage
<1>17. ControlsTell(analyticsPage)
  BY DEF analyticsPage
<1>18. ControlsTell(usersPage)
  BY DEF usersPage, AssignRoleModal, CreateUserModal, InForm
<1>19. ControlsTell(rolesPage)
  BY DEF rolesPage
<1>20. ControlsTell(auditPage)
  BY DEF auditPage
<1>21. ControlsTell(settingsPage)
  BY DEF settingsPage
<1> HIDE DEF ControlsTell, ControlTells, Tells, Overlooked, Query, Control
<1>22. \A p \in DOMAIN Gate : ControlsTell(Pages[p])
  BY PagesResolved, <1>1, <1>2, <1>3, <1>4, <1>5, <1>6, <1>7, <1>8, <1>9, <1>10, <1>11, <1>12,
     <1>13, <1>14, <1>15, <1>16, <1>17, <1>18, <1>19, <1>20, <1>21 DEF Gate
<1> QED BY <1>22, PagesResolved


\* Two queries with one key show the same tables.
LEMMA OneKeyShowsOneWay ==
  ASSUME NEW p \in Places, NEW q \in Pages[p].queries
  PROVE  q.key \in Keys /\ QueryOf[q.key].shows = q.shows
<1>1. q \in AllQueries /\ q.key \in Keys
  BY DEF AllQueries, Keys
<1>2. \A other \in AllQueries : ShowsAsListed(other)
  BY QueriesAreFit DEF AllQueries, QueriesFit, QueryFits
<1>3. QueryOf[q.key] \in AllQueries /\ QueryOf[q.key].key = q.key
  BY <1>1 DEF QueryOf
<1> QED BY <1>1, <1>2, <1>3 DEF ShowsAsListed

\* The tabs of a page have its gate, and a query that one of them mounts
\* without a form no other mounts in a form.
LEMMA TabsAgree ==
  ASSUME NEW t \in TabGroups, NEW p \in t, NEW r \in t
  PROVE  /\ {p, r} \subseteq Places /\ Gate[p] = Gate[r]
         /\ \A a \in Pages[p].queries, b \in Pages[r].queries :
              a.key = b.key /\ b.form = Null => a.form = Null
<1>1. {p, r} \subseteq Places /\ Gate[p] = Gate[r]
  BY PagesResolved DEF TabGroups, Gate
<1>2. CASE t = {"residents", "owners"}
  <2>1. \A q \in PeopleList.residents.queries \cup PeopleList.owners.queries : q.form = Null
    BY DEF PeopleList, Query
  <2> QED BY <1>1, <1>2, <2>1, PagesResolved
<1>3. CASE t = {"periods", "debtors"}
  <2>1. \A q \in periodsTab.queries \cup debtorsTab.queries : q.form = Null
    BY DEF periodsTab, debtorsTab, Query
  <2> QED BY <1>1, <1>3, <2>1, PagesResolved
<1>4. CASE t = {"incomes", "expenses", "ledger"}
  <2>1. ASSUME NEW k \in {"acc-incomes", "acc-expenses", "acc-ledger"}, NEW route,
               NEW a \in entriesTab(k, route).queries
        PROVE  a.form = Null <=> a.key \in {"balance", "acc-incomes", "acc-expenses", "acc-ledger"}
    BY FormsAreNotNull DEF entriesTab, accounting, EntryModal, EntryForms, InForm, Query
  <2> QED BY <1>1, <1>4, <2>1, PagesResolved
<1> QED BY <1>2, <1>3, <1>4 DEF TabGroups

\* The way to a page passes its gate.
LEMMA SidebarAgrees ==
  /\ DOMAIN NAV \subseteq Places
  /\ \A p \in DOMAIN NAV : p # "managerDashboard" => Gate[p] = NAV[p]
  /\ Gate["managerDashboard"] = "report:read" /\ Gate["residentDashboard"] = Null
  BY PagesResolved DEF NAV, Gate

LEMMA LinksAgree ==
  ASSUME NEW p \in Places, NEW q \in Pages[p].queries,
         NEW linked \in DOMAIN LinkIn, LinkIn[linked] = q.key
  PROVE  linked \in Places /\ Gate[linked] = Gate[p]
<1>1. QueryFits(q, Gate[p])
  BY QueriesAreFit DEF QueriesFit
<1>2. linked \in Places
  BY PagesResolved DEF LinkIn, Gate
<1>3. /\ q.key = "units" => Gate["unit"] = Gate[p]
      /\ q.key = "charge-periods" => Gate["period"] = Gate[p]
      /\ q.key = "maint" => Gate["ticket"] = Gate[p]
  BY <1>1 DEF QueryFits, Gate
<1> QED BY <1>2, <1>3 DEF LinkIn

-----------------------------------------------------------------------------
(* The inductive invariants *)

CopyType ==
  [has : BOOLEAN, fresh : BOOLEAN, loading : {"no", "asked", "old"},
   behind : {c.route : c \in AllControls} \cup {Null}, excused : BOOLEAN]

ScreensTypeInv ==
  /\ rows \in Seq(Row)
  /\ me \in [roles : SUBSET Roles, building : BOOLEAN]
  /\ place \in Places /\ key \in Keys
  /\ copy \in CopyType
  /\ flight \in Flights \cup {Null}

(***************************************************************************)
(* The user is on a page the roles stored let him onto, and a form is open *)
(* only if its control is offered.                                         *)
(***************************************************************************)
PlaceInv ==
  /\ HasPerm(Gate[place])
  /\ form # Null => \E d \in Pages[place].controls : d.route = form /\ HasPerm(d.gate)

\* An answer that is on the screen, is not fetched again and has no excuse.
Standing == key \in MountedKeys /\ copy.has /\ copy.loading = "no" /\ ~copy.excused

\* Told by the control under way, or closed with its form, when it is answered.
Heeded(c) ==
  \/ Tells(c, key)
  \/ /\ form = c.route
     /\ key \notin {q.key : q \in Mounted(place, Null)}

(***************************************************************************)
(* The control under way heeds such an answer if it is to write what the   *)
(* answer shows; if the answer is behind a change, that to the call that   *)
(* has made it is still to come.                                           *)
(***************************************************************************)
CacheInv ==
  /\ copy.loading = "old" => copy.excused
  /\ Standing =>
       /\ flight # Null /\ flight.stage = "sent" =>
            \/ QueryOf[key].shows \cap flight.control.writes = {}
            \/ Heeded(flight.control) \/ <<flight.control.route, key>> \in Overlooked
       /\ copy.behind \notin lost \cup {Null} =>
            \/ <<copy.behind, key>> \in Overlooked
            \/ /\ flight # Null /\ flight.stage = "done"
               /\ copy.behind = flight.control.route /\ Heeded(flight.control)

(***************************************************************************)
(* No role is held twice for a building.                                   *)
(***************************************************************************)
RowsInv ==
  /\ \A i, j \in DOMAIN rows : i # j /\ rows[i] = rows[j] => rows[i].building = Null
  /\ RevokedIsGone

-----------------------------------------------------------------------------
(* Types *)

LEMMA CopyMounts ==
  ASSUME NEW c \in CopyType
  PROVE  /\ Mount(c) \in CopyType
         /\ Mount(c).loading = "old" => c.loading = "old"
         /\ Mount(c).excused \/ Mount(c).loading # "no"
         /\ c.excused => Mount(c).excused
  BY DEF CopyType, Mount

LEMMA NoAnswerYet == NoAnswer \in CopyType
  BY DEF NoAnswer, CopyType

LEMMA StoredType ==
  ASSUME rows \in Seq(Row), NEW remembered \in BOOLEAN
  PROVE  /\ Stored(remembered) \in [roles : SUBSET Roles, building : BOOLEAN]
         /\ RoleKeys \subseteq Roles
<1>1. \A i \in DOMAIN rows : rows[i] \in Row
  OBVIOUS
<1> QED BY <1>1 DEF Stored, RoleKeys, BuildingKnown, Row

LEMMA DashboardsArePlaces == \A m : DashboardOf(m) \in Places
  BY PagesResolved DEF DashboardOf, Gate

LEMMA RowsKeepType ==
  ASSUME rows \in Seq(Row)
  PROVE  /\ \A row \in Row : assignRole(row) => rows' \in Seq(Row)
         /\ \A i \in DOMAIN rows : revokeRole(i) => rows' \in Seq(Row)
<1>1. ASSUME NEW row \in Row, assignRole(row) PROVE rows' \in Seq(Row)
  BY <1>1 DEF assignRole
<1>2. ASSUME NEW i \in DOMAIN rows, revokeRole(i) PROVE rows' \in Seq(Row)
  <2>1. Len(rows) - 1 \in Nat
    BY <1>2
  <2>2. \A j \in 1..(Len(rows) - 1) : (IF j < i THEN rows[j] ELSE rows[j + 1]) \in Row
    BY <1>2
  <2> QED BY <1>2, <2>1, <2>2 DEF revokeRole
<1> QED BY <1>1, <1>2

LEMMA ScreensInitType == ScreensInit => ScreensTypeInv
<1> SUFFICES ASSUME ScreensInit PROVE ScreensTypeInv
  OBVIOUS
<1>1. rows \in Seq(Row)
  <2>1. PICK row \in Row : rows = <<row>>
    BY DEF ScreensInit, InitAccess
  <2> QED BY <2>1
<1>2. me \in [roles : SUBSET Roles, building : BOOLEAN]
  BY <1>1, StoredType DEF ScreensInit
<1>3. copy \in CopyType
  BY NoAnswerYet, CopyMounts DEF ScreensInit
<1> QED BY <1>1, <1>2, <1>3, DashboardsArePlaces DEF ScreensInit, ScreensTypeInv

LEMMA ScreensKeepType == ScreensTypeInv /\ [ScreensNext]_screenVars => ScreensTypeInv'
<1> SUFFICES ASSUME ScreensTypeInv, [ScreensNext]_screenVars PROVE ScreensTypeInv'
  OBVIOUS
<1> USE DEF ScreensTypeInv
<1>1. ASSUME NEW p \in Places, Go(p) PROVE ScreensTypeInv'
  <2>1. copy' \in CopyType
    BY <1>1, CopyMounts DEF Go, Remount
  <2> QED BY <1>1, <2>1 DEF Go
<1>2. ASSUME NEW c \in Offered, OpenForm(c.route) PROVE ScreensTypeInv'
  <2>1. copy' \in CopyType
    BY <1>2, CopyMounts DEF OpenForm, Remount
  <2> QED BY <1>2, <2>1 DEF OpenForm
<1>3. ASSUME NEW c \in Offered, Submit(c) PROVE ScreensTypeInv'
  <2>1. c \in AllControls
    BY DEF Offered, AllControls
  <2> QED BY <1>3, <2>1 DEF Submit, Flights
<1>4. ASSUME FetchAnswered PROVE ScreensTypeInv'
  BY <1>4 DEF FetchAnswered, CopyType, NoAnswer
<1>5. ASSUME FetchFailed PROVE ScreensTypeInv'
  BY <1>5 DEF FetchFailed, CopyType
<1>6. ASSUME Reload PROVE ScreensTypeInv'
  <2>1. me' \in [roles : SUBSET Roles, building : BOOLEAN] /\ place' \in Places
    BY <1>6, StoredType, DashboardsArePlaces DEF Reload
  <2>2. copy' \in CopyType
    BY <1>6, NoAnswerYet, CopyMounts DEF Reload
  <2> QED BY <1>6, <2>1, <2>2 DEF Reload
<1>7. ASSUME HalfMinute PROVE ScreensTypeInv'
  BY <1>7 DEF HalfMinute, CopyType
<1>8. ASSUME CarriedOut PROVE ScreensTypeInv'
  <2>1. flight \in Flights /\ flight' \in Flights
    BY <1>8 DEF CarriedOut, Flights
  <2>2. flight.control.route \in {c.route : c \in AllControls}
    BY <2>1 DEF Flights
  <2>3. copy' \in CopyType
    <3>1. [copy EXCEPT !.behind = flight.control.route] \in CopyType
      BY <2>2 DEF CopyType
    <3>2. [[copy EXCEPT !.behind = flight.control.route]
             EXCEPT !.loading = "old", !.excused = TRUE] \in CopyType
      BY <3>1 DEF CopyType
    <3> QED BY <1>8, <3>1, <3>2 DEF CarriedOut
  <2> QED BY <1>8, <2>1, <2>3 DEF CarriedOut
<1>9. ASSUME Answered PROVE ScreensTypeInv'
  <2>1. copy' \in CopyType
    BY <1>9 DEF Answered, Told, CopyType
  <2> QED BY <1>9, <2>1 DEF Answered
<1>10. ASSUME NotAnswered PROVE ScreensTypeInv'
  BY <1>10 DEF NotAnswered
<1>11. ASSUME NEW row \in Row, Assign(row) PROVE ScreensTypeInv'
  BY <1>11, RowsKeepType DEF Assign
<1>12. ASSUME NEW i \in DOMAIN rows, Revoke(i) PROVE ScreensTypeInv'
  BY <1>12, RowsKeepType DEF Revoke
<1>13. CASE UNCHANGED screenVars
  BY <1>13 DEF screenVars
<1> QED
  BY <1>1, <1>2, <1>3, <1>4, <1>5, <1>6, <1>7, <1>8, <1>9, <1>10, <1>11, <1>12, <1>13
     DEF ScreensNext

-----------------------------------------------------------------------------
(* The rows of the user *)

LEMMA RowsInitially == ScreensInit => RowsInv
<1> SUFFICES ASSUME ScreensInit PROVE RowsInv
  OBVIOUS
<1>1. PICK row \in Row : rows = <<row>>
  BY DEF ScreensInit, InitAccess
<1>2. expected = {row}
  BY <1>1 DEF ScreensInit, InitAccess
<1> QED BY <1>1, <1>2 DEF RowsInv, RevokedIsGone

LEMMA RowsKept ==
  ASSUME rows \in Seq(Row), RowsInv
  PROVE  /\ \A row \in Row : assignRole(row) => RowsInv'
         /\ \A i \in DOMAIN rows : revokeRole(i) => RowsInv'
<1>1. ASSUME NEW row \in Row, assignRole(row) PROVE RowsInv'
  <2>1. /\ rows' = Append(rows, row) /\ expected' = expected \cup {row}
        /\ row.building = Here => \A i \in DOMAIN rows : rows[i] # row
        /\ row.building \in {Null, Here}
    BY <1>1 DEF assignRole, Taken, Row
  <2>2. /\ DOMAIN rows' = 1..(Len(rows) + 1)
        /\ \A i \in DOMAIN rows' : \/ i \in DOMAIN rows /\ rows'[i] = rows[i]
                                   \/ i = Len(rows) + 1 /\ rows'[i] = row
    BY <2>1
  <2> QED BY <2>1, <2>2 DEF RowsInv, RevokedIsGone
<1>2. ASSUME NEW i \in DOMAIN rows, revokeRole(i) PROVE RowsInv'
  <2>1. DOMAIN rows' = 1..(Len(rows) - 1) /\ expected' = expected \ {rows[i]}
    BY <1>2 DEF revokeRole
  <2> DEFINE old(j) == IF j < i THEN j ELSE j + 1
  <2>2. \A j \in DOMAIN rows' : old(j) \in DOMAIN rows /\ old(j) # i /\ rows'[j] = rows[old(j)]
    BY <1>2, <2>1 DEF revokeRole
  <2>3. \A j, k \in DOMAIN rows' : j # k => old(j) # old(k)
    BY <2>1
  <2>4. \A k \in DOMAIN rows : k # i /\ rows[k] = rows[i] => rows[k].building = Null
    BY DEF RowsInv
  <2> HIDE DEF old
  <2>5. \A j, k \in DOMAIN rows' : j # k /\ rows'[j] = rows'[k] => rows'[j].building = Null
    BY <2>2, <2>3 DEF RowsInv
  <2>6. RevokedIsGone'
    BY <2>1, <2>2, <2>4 DEF RowsInv, RevokedIsGone
  <2> QED BY <2>5, <2>6 DEF RowsInv
<1> QED BY <1>1, <1>2

LEMMA ScreensKeepRows ==
  ScreensTypeInv /\ RowsInv /\ [ScreensNext]_screenVars => RowsInv'
<1> SUFFICES ASSUME ScreensTypeInv, RowsInv, [ScreensNext]_screenVars PROVE RowsInv'
  OBVIOUS
<1>1. rows \in Seq(Row)
  BY DEF ScreensTypeInv
<1>2. ASSUME NEW row \in Row, Assign(row) PROVE RowsInv'
  BY <1>1, <1>2, RowsKept DEF Assign
<1>3. ASSUME NEW i \in DOMAIN rows, Revoke(i) PROVE RowsInv'
  BY <1>1, <1>3, RowsKept DEF Revoke
<1>4. CASE UNCHANGED <<rows, expected>>
  BY <1>4 DEF RowsInv, RevokedIsGone
<1>5. \/ \E row \in Row : Assign(row)
      \/ \E i \in DOMAIN rows : Revoke(i)
      \/ UNCHANGED <<rows, expected>>
  BY DEF ScreensNext, screenVars, Go, OpenForm, Submit, FetchAnswered, FetchFailed, Reload,
         HalfMinute, CarriedOut, Answered, NotAnswered
<1> QED BY <1>2, <1>3, <1>4, <1>5

-----------------------------------------------------------------------------
(* The page the user is on *)

LEMMA DashboardIsGranted == \A m : Permits(m.roles, Gate[DashboardOf(m)])
  BY SidebarAgrees DEF DashboardOf, Permits

LEMMA WayIsGranted ==
  ASSUME ScreensTypeInv, PlaceInv, NEW p \in Places, CanGo(p)
  PROVE  HasPerm(Gate[p])
<1>1. CASE p \in DOMAIN NAV /\ HasPerm(NAV[p]) /\ p # "managerDashboard"
  BY <1>1, SidebarAgrees
<1>2. CASE p = "managerDashboard" /\ p = DashboardOf(me)
  BY <1>2, DashboardIsGranted DEF HasPerm
<1>3. CASE SharePage(p, place)
  <2>1. Gate[p] = Gate[place]
    BY <1>3, TabsAgree DEF SharePage
  <2> QED BY <2>1 DEF PlaceInv
<1>4. CASE p \in DOMAIN LinkIn /\ LinkIn[p] \in MountedKeys
  <2>1. PICK q \in Pages[place].queries : q.key = LinkIn[p]
    BY <1>4 DEF MountedKeys, Mounted
  <2>2. Gate[p] = Gate[place]
    BY <1>4, <2>1, LinksAgree DEF ScreensTypeInv
  <2> QED BY <2>2 DEF PlaceInv
<1> QED BY <1>1, <1>2, <1>3, <1>4 DEF CanGo

LEMMA ScreensKeepPlace ==
  ScreensTypeInv /\ PlaceInv /\ [ScreensNext]_screenVars => PlaceInv'
<1> SUFFICES ASSUME ScreensTypeInv, PlaceInv, [ScreensNext]_screenVars PROVE PlaceInv'
  OBVIOUS
<1>1. ASSUME NEW p \in Places, Go(p) PROVE PlaceInv'
  <2>1. place' = p /\ form' = Null /\ me' = me /\ HasPerm(Gate[p])
    BY <1>1, WayIsGranted DEF Go
  <2> QED BY <2>1 DEF PlaceInv, HasPerm
<1>2. ASSUME NEW c \in Offered, OpenForm(c.route) PROVE PlaceInv'
  <2>1. form' = c.route /\ place' = place /\ me' = me
    BY <1>2 DEF OpenForm
  <2>2. c \in Pages[place].controls /\ HasPerm(c.gate)
    BY DEF Offered
  <2> QED BY <2>1, <2>2 DEF PlaceInv, HasPerm
<1>3. ASSUME Reload PROVE PlaceInv'
  <2>1. place' = DashboardOf(me') /\ form' = Null
    BY <1>3 DEF Reload
  <2> QED BY <2>1, DashboardIsGranted DEF PlaceInv, HasPerm
<1>4. ASSUME Answered PROVE PlaceInv'
  <2>1. place' = place /\ me' = me /\ form' \in {Null, form}
    BY <1>4 DEF Answered
  <2> QED BY <2>1 DEF PlaceInv, HasPerm
<1>5. CASE UNCHANGED <<me, place, form>>
  BY <1>5 DEF PlaceInv, HasPerm
<1>6. \/ \E p \in Places : Go(p)
      \/ \E c \in Offered : OpenForm(c.route)
      \/ Reload \/ Answered \/ UNCHANGED <<me, place, form>>
  BY DEF ScreensNext, screenVars, Submit, FetchAnswered, FetchFailed, HalfMinute, CarriedOut,
         NotAnswered, Assign, Revoke
<1> QED BY <1>1, <1>2, <1>3, <1>4, <1>5, <1>6

-----------------------------------------------------------------------------
(* The answer in the cache *)

LEMMA MountedKeyOnPage ==
  ASSUME key \in MountedKeys
  PROVE  \E q \in Pages[place].queries : q \in Mounted(place, form) /\ q.key = key
  BY DEF MountedKeys, Mounted

LEMMA CacheInitially == ScreensInit => CacheInv
<1> SUFFICES ASSUME ScreensInit PROVE CacheInv
  OBVIOUS
<1>1. ~copy.has /\ copy.loading # "old"
  BY DEF ScreensInit, Mount, NoAnswer
<1> QED BY <1>1 DEF CacheInv, Standing

\* An answer that mounts is asked for or excused.
LEMMA MountedIsNotStanding ==
  ASSUME copy \in CopyType, CacheInv, copy' = Mount(copy)
  PROVE  CacheInv'
<1>1. copy'.excused \/ copy'.loading # "no"
  BY CopyMounts
<1>2. copy'.loading = "old" => copy'.excused
  BY CopyMounts DEF CacheInv
<1> QED BY <1>1, <1>2 DEF CacheInv, Standing

\* Nothing of the cache or the call changes, and what the page has heeded it
\* heeds still.
LEMMA StandingStays ==
  ASSUME CacheInv, UNCHANGED <<key, copy, flight, lost>>,
         Standing' => /\ Standing
                      /\ \A c : Heeded(c) => Heeded(c)'
  PROVE  CacheInv'
  BY DEF CacheInv

LEMMA GoKeepsCache ==
  ASSUME ScreensTypeInv, CacheInv, NEW p \in Places, Go(p)
  PROVE  CacheInv'
<1> USE DEF ScreensTypeInv
<1>1. CASE key \in MountedKeys' /\ (~SharePage(p, place) \/ key \notin MountedKeys)
  <2>1. copy' = Mount(copy)
    BY <1>1 DEF Go, Remount
  <2> QED BY <2>1, MountedIsNotStanding
<1>2. CASE ~(key \in MountedKeys' /\ (~SharePage(p, place) \/ key \notin MountedKeys))
  <2>1. UNCHANGED <<me, key, copy, flight, lost>> /\ place' = p /\ form' = Null
    BY <1>2 DEF Go, Remount
  <2> SUFFICES ASSUME Standing', NEW c, Heeded(c)
               PROVE  Heeded(c)'
    <3>1. Standing' => Standing
      BY <1>2, <2>1 DEF Standing
    <3> QED BY <2>1, <3>1, StandingStays
  <2>2. key \in MountedKeys' /\ key \in MountedKeys /\ SharePage(p, place)
    BY <1>2, <2>1 DEF Standing
  <2>3. PICK a \in Pages[place].queries : a \in Mounted(place, form) /\ a.key = key
    BY <2>2, MountedKeyOnPage
  <2>4. PICK b \in Pages[p].queries : b.key = key /\ b.form = Null
    BY <2>1, <2>2 DEF MountedKeys, Mounted
  <2>5. a.form = Null
    BY <2>2, <2>3, <2>4, TabsAgree DEF SharePage
  <2>6. a \in Mounted(place, Null)
    BY <2>3, <2>5 DEF Mounted
  <2>7. Tells(c, key)
    BY <2>3, <2>6 DEF Heeded
  <2> QED BY <2>1, <2>7 DEF Heeded
<1> QED BY <1>1, <1>2

LEMMA OpenFormKeepsCache ==
  ASSUME ScreensTypeInv, CacheInv, NEW route, OpenForm(route)
  PROVE  CacheInv'
<1> USE DEF ScreensTypeInv
<1>1. CASE key \in MountedKeys' /\ key \notin MountedKeys
  <2>1. copy' = Mount(copy)
    BY <1>1 DEF OpenForm, Remount
  <2> QED BY <2>1, MountedIsNotStanding
<1>2. CASE ~(key \in MountedKeys' /\ key \notin MountedKeys)
  <2>1. UNCHANGED <<me, place, key, copy, flight, lost>> /\ form = Null
    BY <1>2 DEF OpenForm, Remount
  <2> SUFFICES ASSUME Standing', NEW c, Heeded(c)
               PROVE  Heeded(c)'
    <3>1. Standing' => Standing
      BY <1>2, <2>1 DEF Standing
    <3> QED BY <2>1, <3>1, StandingStays
  <2>2. key \in MountedKeys
    BY <1>2, <2>1 DEF Standing
  <2>3. key \in {q.key : q \in Mounted(place, Null)}
    BY <2>1, <2>2 DEF MountedKeys
  <2>4. Tells(c, key)
    BY <2>3 DEF Heeded
  <2> QED BY <2>1, <2>4 DEF Heeded
<1> QED BY <1>1, <1>2

\* The control submitted tells the answer, overlooks it, closes it with its
\* form, or writes nothing that it shows.
LEMMA SubmitKeepsCache ==
  ASSUME ScreensTypeInv, CacheInv, NEW c \in Offered, Submit(c)
  PROVE  CacheInv'
<1>1. /\ UNCHANGED <<me, place, form, key, copy, lost>> /\ flight = Null
      /\ flight'.control = c /\ flight'.stage = "sent"
  BY DEF Submit
<1>2. Standing' => Standing
  BY <1>1 DEF Standing, MountedKeys, Mounted, Blank, HasPerm
<1>3. ASSUME Standing
      PROVE  \/ QueryOf[key].shows \cap c.writes = {}
             \/ Heeded(c) \/ <<c.route, key>> \in Overlooked
  <2>1. PICK q \in Pages[place].queries : q \in Mounted(place, form) /\ q.key = key
    BY <1>3, MountedKeyOnPage DEF Standing
  <2>2. QueryOf[key].shows = q.shows
    BY <2>1, OneKeyShowsOneWay DEF ScreensTypeInv
  <2>3. ControlTells(c, q, Pages[place])
    BY ControlsDoTell DEF Offered, ControlsTell, ScreensTypeInv
  <2>4. CASE /\ c.route # Null
             /\ \A other \in Pages[place].queries : other.key = key => other.form = c.route
    <3>1. form = c.route
      BY <2>1, <2>4 DEF Mounted
    <3>2. key \notin {other.key : other \in Mounted(place, Null)}
      BY <2>4 DEF Mounted
    <3> QED BY <3>1, <3>2 DEF Heeded
  <2> QED BY <2>1, <2>2, <2>3, <2>4 DEF ControlTells, Heeded
<1>4. Heeded(c) => Heeded(c)'
  BY <1>1 DEF Heeded, Mounted, Blank, HasPerm
<1> QED BY <1>1, <1>2, <1>3, <1>4 DEF CacheInv

LEMMA CarriedOutKeepsCache ==
  ASSUME ScreensTypeInv, CacheInv, CarriedOut
  PROVE  CacheInv'
<1>1. /\ UNCHANGED <<me, place, form, key, lost>>
      /\ flight # Null /\ flight.stage = "sent" /\ flight \in Flights
      /\ flight' = [flight EXCEPT !.stage = "done"]
  BY DEF CarriedOut, ScreensTypeInv
<1>2. flight'.stage = "done" /\ flight'.control = flight.control /\ flight' # Null
  <2>1. flight' \in Flights
    BY <1>1 DEF Flights
  <2> QED BY <1>1, <2>1, FlightAssumption DEF Flights
<1>3. \A c : Heeded(c) => Heeded(c)'
  BY <1>1 DEF Heeded, Mounted, Blank, HasPerm
<1>4. key \in MountedKeys' => key \in MountedKeys
  BY <1>1 DEF MountedKeys, Mounted, Blank, HasPerm
<1>5. CASE QueryOf[key].shows \cap flight.control.writes = {} /\ UNCHANGED copy
  BY <1>1, <1>2, <1>4, <1>5 DEF CacheInv, Standing
<1>6. CASE /\ QueryOf[key].shows \cap flight.control.writes # {}
           /\ copy' = IF copy.has THEN [copy EXCEPT !.behind = flight.control.route] ELSE copy
  <2>1. /\ copy'.has = copy.has /\ copy'.loading = copy.loading /\ copy'.excused = copy.excused
        /\ copy.has => copy'.behind = flight.control.route
    BY <1>6 DEF ScreensTypeInv, CopyType
  <2> QED BY <1>1, <1>2, <1>3, <1>4, <1>6, <2>1 DEF CacheInv, Standing
<1>7. CASE copy' = [[copy EXCEPT !.behind = flight.control.route]
                      EXCEPT !.loading = "old", !.excused = TRUE]
  <2>1. copy'.excused
    BY <1>7 DEF ScreensTypeInv, CopyType
  <2> QED BY <2>1 DEF CacheInv, Standing
<1> QED BY <1>5, <1>6, <1>7 DEF CarriedOut

LEMMA AnsweredKeepsCache ==
  ASSUME ScreensTypeInv, CacheInv, Answered
  PROVE  CacheInv'
<1>1. /\ UNCHANGED <<me, place, key, lost>> /\ flight' = Null
      /\ flight # Null /\ flight.stage = "done"
      /\ copy' = IF Tells(flight.control, key) THEN Told ELSE copy
      /\ form' = IF form = flight.control.route THEN Null ELSE form
  BY DEF Answered, Tells
<1>2. copy'.loading = "old" => copy'.excused
  BY <1>1 DEF CacheInv, Told, ScreensTypeInv, CopyType
<1>3. key \in MountedKeys' => key \in MountedKeys
  BY <1>1 DEF MountedKeys, Mounted, Blank, HasPerm
<1>4. CASE Tells(flight.control, key)
  <2>1. key \in MountedKeys => ~copy'.has \/ copy'.loading = "asked"
    BY <1>1, <1>4 DEF Told, ScreensTypeInv, CopyType
  <2> QED BY <1>1, <1>2, <1>3, <2>1 DEF CacheInv, Standing
<1>5. CASE ~Tells(flight.control, key)
  <2>1. Standing' => Standing
    BY <1>1, <1>3, <1>5 DEF Standing
  <2>2. Heeded(flight.control) => key \notin MountedKeys'
    BY <1>1, <1>5 DEF Heeded, MountedKeys, Mounted, Blank, HasPerm
  <2> QED BY <1>1, <1>5, <2>1, <2>2 DEF CacheInv, Standing
<1> QED BY <1>4, <1>5

LEMMA NotAnsweredKeepsCache ==
  ASSUME ScreensTypeInv, CacheInv, NotAnswered
  PROVE  CacheInv'
<1>1. /\ UNCHANGED <<me, place, form, key, copy>> /\ flight # Null /\ flight' = Null
      /\ lost' = IF flight.stage = "done" THEN lost \cup {flight.control.route} ELSE lost
  BY DEF NotAnswered
<1>2. Standing' => Standing
  BY <1>1 DEF Standing, MountedKeys, Mounted, Blank, HasPerm
<1> QED BY <1>1, <1>2 DEF CacheInv

LEMMA FetchesKeepCache ==
  ASSUME ScreensTypeInv, CacheInv, FetchAnswered \/ FetchFailed \/ HalfMinute
  PROVE  CacheInv'
<1>1. CASE FetchAnswered /\ copy.loading = "old"
  <2>1. copy'.excused
    BY <1>1 DEF FetchAnswered, CacheInv, ScreensTypeInv, CopyType
  <2> QED BY <2>1 DEF CacheInv, Standing
<1>2. CASE FetchAnswered /\ copy.loading # "old"
  <2>1. /\ copy'.loading = "no" /\ copy'.behind = Null /\ copy'.excused = (flight # Null)
        /\ flight' = flight
    BY <1>2 DEF FetchAnswered, NoAnswer
  <2> QED BY <2>1 DEF CacheInv, Standing
<1>3. CASE FetchFailed
  <2>1. copy'.excused
    BY <1>3 DEF FetchFailed, ScreensTypeInv, CopyType
  <2> QED BY <2>1 DEF CacheInv, Standing
<1>4. CASE HalfMinute
  <2>1. /\ UNCHANGED <<me, place, form, key, flight, lost>>
        /\ copy'.has = copy.has /\ copy'.loading = copy.loading
        /\ copy'.behind = copy.behind /\ copy'.excused = copy.excused
    BY <1>4 DEF HalfMinute, ScreensTypeInv, CopyType
  <2> QED BY <2>1 DEF CacheInv, Standing, Heeded, MountedKeys, Mounted, Blank, HasPerm
<1> QED BY <1>1, <1>2, <1>3, <1>4

LEMMA ScreensKeepCache ==
  ScreensTypeInv /\ CacheInv /\ [ScreensNext]_screenVars => CacheInv'
<1> SUFFICES ASSUME ScreensTypeInv, CacheInv, [ScreensNext]_screenVars PROVE CacheInv'
  OBVIOUS
<1>1. ASSUME Reload PROVE CacheInv'
  <2>1. ~copy'.has /\ copy'.loading # "old"
    BY <1>1 DEF Reload, Mount, NoAnswer
  <2> QED BY <2>1 DEF CacheInv, Standing
<1>2. CASE UNCHANGED <<me, place, form, key, copy, flight, lost>>
  BY <1>2 DEF CacheInv, Standing, Heeded, MountedKeys, Mounted, Blank, HasPerm
<1>3. \/ \E p \in Places : Go(p)
      \/ \E c \in Offered : OpenForm(c.route) \/ Submit(c)
      \/ FetchAnswered \/ FetchFailed \/ HalfMinute
      \/ Reload \/ CarriedOut \/ Answered \/ NotAnswered
      \/ UNCHANGED <<me, place, form, key, copy, flight, lost>>
  BY DEF ScreensNext, screenVars, Assign, Revoke
<1> QED
  BY <1>1, <1>2, <1>3, GoKeepsCache, OpenFormKeepsCache, SubmitKeepsCache, CarriedOutKeepsCache,
     AnsweredKeepsCache, NotAnsweredKeepsCache, FetchesKeepCache

-----------------------------------------------------------------------------
(* The theorems *)

ScreensIInv == ScreensTypeInv /\ PlaceInv /\ CacheInv /\ RowsInv

LEMMA ScreensInvariant == ScreensSpec => []ScreensIInv
<1>1. ScreensInit => ScreensIInv
  <2> SUFFICES ASSUME ScreensInit PROVE PlaceInv
    BY ScreensInitType, CacheInitially, RowsInitially DEF ScreensIInv
  <2> QED BY DashboardIsGranted DEF ScreensInit, PlaceInv, HasPerm
<1>2. ScreensIInv /\ [ScreensNext]_screenVars => ScreensIInv'
  BY ScreensKeepType, ScreensKeepPlace, ScreensKeepCache, ScreensKeepRows DEF ScreensIInv
<1> QED BY <1>1, <1>2, PTL DEF ScreensSpec

(***************************************************************************)
(* On every page the user can reach, as long as his stored roles are those *)
(* of the database, the server refuses none of the queries mounted and     *)
(* none of the controls offered, but for the four that are offered without *)
(* asking and the list of technicians.                                     *)
(***************************************************************************)
THEOREM OfferedPassesGuard == ScreensSpec => []OfferedIsPermitted
<1>1. ScreensIInv => OfferedIsPermitted
  <2> SUFFICES ASSUME ScreensTypeInv, PlaceInv, me.roles = RoleKeys
               PROVE  /\ \A q \in Mounted(place, form) :
                           Permits(RoleKeys, RouteNeeds[q.route]) \/ q.key = "users-tech"
                      /\ \A c \in Offered :
                           Permits(RoleKeys, RouteNeeds[c.route]) \/ c.route \in Unasked
    BY DEF ScreensIInv, OfferedIsPermitted
  <2>1. /\ me.roles \in SUBSET Roles /\ place \in Places
        /\ Permits(me.roles, Gate[place])
    BY DEF ScreensTypeInv, PlaceInv, HasPerm
  <2>2. ASSUME NEW q \in Mounted(place, form)
        PROVE  Permits(me.roles, RouteNeeds[q.route]) \/ q.key = "users-tech"
    <3>1. QueryFits(q, Gate[place])
      BY <2>1, <2>2, QueriesAreFit DEF Mounted, QueriesFit
    <3> QED BY <2>1, <3>1, WeakerIsPermitted DEF QueryFits
  <2>3. ASSUME NEW c \in Offered
        PROVE  Permits(me.roles, RouteNeeds[c.route]) \/ c.route \in Unasked
    <3>1. /\ ControlFits(c, Pages[place], Gate[place])
          /\ Permits(me.roles, c.gate) /\ c.inside \in {Null, form}
      BY <2>1, <2>3, ControlsAreFit DEF Offered, ControlsFit, HasPerm
    <3>2. CASE Weaker(Gate[place], RouteNeeds[c.route])
      BY <2>1, <3>2, WeakerIsPermitted
    <3>3. CASE /\ c.inside # Null
               /\ \A d \in Pages[place].controls :
                    d.route = c.inside => d.gate = RouteNeeds[c.route]
      BY <3>1, <3>3 DEF PlaceInv, HasPerm
    <3> QED BY <3>1, <3>2, <3>3 DEF ControlFits
  <2> QED BY <2>2, <2>3
<1> QED BY <1>1, ScreensInvariant, PTL

(***************************************************************************)
(* Whatever the user does, and in whatever order fetches and calls are     *)
(* answered, an answer that stays on the screen is behind none of his own  *)
(* answered changes, but for the two keys the controls overlook.           *)
(***************************************************************************)
THEOREM OwnWritesAreShown == ScreensSpec => []OwnWriteShows
<1>1. ScreensIInv => OwnWriteShows
  BY DEF ScreensIInv, CacheInv, Standing, OwnWriteShows
<1> QED BY <1>1, ScreensInvariant, PTL

(***************************************************************************)
(* However roles are assigned and taken back, only one for all buildings   *)
(* may outlive being taken back.                                           *)
(***************************************************************************)
THEOREM RevokedRolesAreGone == ScreensSpec => []RevokedIsGone
<1>1. ScreensIInv => RevokedIsGone
  BY DEF ScreensIInv, RowsInv
<1> QED BY <1>1, ScreensInvariant, PTL

=============================================================================
