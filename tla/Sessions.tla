------------------------------- MODULE Sessions -------------------------------
(***************************************************************************)
(* Login sessions of one user: AuthService.loginWithPassword, refresh,     *)
(* logout, logoutAll and resetPassword as far as they touch the table      *)
(* sessions.  WebClient extends this module with the browser.              *)
(*                                                                         *)
(* A refresh token is a JWT of the user, the second it was signed in and   *)
(* its expiry, so that it is determined by that second: two tokens signed  *)
(* in one second are the same string.  A token is modelled by its second;  *)
(* the access token is signed with it and named by the same number.  No    *)
(* handler here is a transaction: every statement commits by itself.       *)
(***************************************************************************)
EXTENDS Naturals, FiniteSets

CONSTANTS
  Requests,    \* identities of requests, numbered in the order they are sent;
               \* a session is named by the request that inserts it
  AccessTtl,   \* seconds an access token is valid
  RefreshTtl,  \* seconds a refresh token and its session are valid
  MaxTime,     \* bound of the clock
  None         \* SQL NULL

ASSUME RequestsAssumption == Requests \subseteq Nat /\ None \notin Requests
ASSUME KindsAssumption == None \notin {"login", "refresh", "logout", "revokeAll"}
ASSUME TimesAssumption ==
  /\ AccessTtl \in Nat \ {0} /\ RefreshTtl \in Nat \ {0} /\ MaxTime \in Nat \ {0}

VARIABLES
  pc,       \* pc[r]: the await at which request r is suspended
  job,      \* job[r]: the token r presents, the session it matched, the one it issues
  session,  \* session[s]: the row inserted by request s; token 0 before that
  now,      \* the clock, in seconds
  root,     \* history: root[r] is the login the session of r goes back to
  forked,   \* history: logins one session of which two requests went on with
  escaped   \* history: logins with a request in flight at the last mass revocation

sessionVars == <<pc, job, session, now, root, forked, escaped>>

NoJob == [kind |-> None, token |-> 0, match |-> None, issued |-> 0]
NoSession == [token |-> 0, expires |-> 0, revoked |-> FALSE]

Resting == {"idle", "done", "refused", "failed"}

SessionInit ==
  /\ pc = [r \in Requests |-> "idle"]
  /\ job = [r \in Requests |-> NoJob]
  /\ session = [r \in Requests |-> NoSession]
  /\ now = 1
  /\ root = [r \in Requests |-> None]
  /\ forked = {}
  /\ escaped = {}

\* r is the next request to be sent.
IsNext(r) == pc[r] = "idle" /\ \A o \in Requests : o < r => pc[o] # "idle"

\* Rows with revokedAt NULL.
Unrevoked == {s \in Requests : session[s].token # 0 /\ ~session[s].revoked}

-----------------------------------------------------------------------------
\* loginWithPassword with the right password of an active user.
StartLogin(r) ==
  /\ IsNext(r)
  /\ job' = [job EXCEPT ![r] = [NoJob EXCEPT !.kind = "login"]]
  /\ pc' = [pc EXCEPT ![r] = "sign"]
  /\ root' = [root EXCEPT ![r] = r]
  /\ UNCHANGED <<session, now, forked, escaped>>

\* A refresh or logout with a refresh token is sent.
Send(r, kind, tok) ==
  /\ IsNext(r)
  /\ job' = [job EXCEPT ![r] = [NoJob EXCEPT !.kind = kind, !.token = tok]]
  /\ pc' = [pc EXCEPT ![r] = "find"]
  /\ UNCHANGED <<session, now, root, forked, escaped>>

\* The first of these sessions whose hash matches; their order is not given.
MatchIn(r, rows, next, otherwise) ==
  LET matching == {s \in rows : session[s].token = job[r].token} IN
    /\ pc[r] = "find"
    /\ \/ /\ matching = {}
          /\ pc' = [pc EXCEPT ![r] = otherwise]
          /\ UNCHANGED <<job, root>>
       \/ \E s \in matching :
            /\ pc' = [pc EXCEPT ![r] = next]
            /\ job' = [job EXCEPT ![r].match = s]
            /\ root' = [root EXCEPT ![r] = root[s]]
    /\ UNCHANGED <<session, now, forked, escaped>>

\* refresh: a JWT that has not expired, among the sessions that are neither
\* revoked nor expired.
FindForRefresh(r) ==
  /\ job[r].kind = "refresh"
  /\ MatchIn(r, {s \in Unrevoked : session[s].expires > now /\ now < job[r].token + RefreshTtl},
             "revoke", "refused")

\* logout looks at every session that is not revoked, and always answers.
FindForLogout(r) ==
  /\ job[r].kind = "logout"
  /\ MatchIn(r, Unrevoked, "drop", "done")

\* Another request that goes on with the session r has matched.
NoteFork(r) ==
  forked' = IF \E o \in Requests \ {r} : pc[o] \in {"revoke", "drop"} /\ job[o].match = job[r].match
            THEN forked \cup {root[r]} ELSE forked

\* Mutant: rotation issues a new session and keeps the old one.
RevokeMatchedNot(r) ==
  /\ pc[r] = "revoke"
  /\ NoteFork(r)
  /\ pc' = [pc EXCEPT ![r] = "sign"]
  /\ UNCHANGED <<job, session, now, root, escaped>>

\* refresh: the matched session is revoked; the user row is only looked up,
\* isActive is not asked for.
RevokeMatched(r) ==
  /\ pc[r] = "revoke"
  /\ session' = [session EXCEPT ![job[r].match].revoked = TRUE]
  /\ NoteFork(r)
  /\ pc' = [pc EXCEPT ![r] = "sign"]
  /\ UNCHANGED <<job, now, root, escaped>>

\* Mutant: logout answers without revoking.
DropMatchedNot(r) ==
  /\ pc[r] = "drop"
  /\ NoteFork(r)
  /\ pc' = [pc EXCEPT ![r] = "done"]
  /\ UNCHANGED <<job, session, now, root, escaped>>

\* logout: the matched session is revoked.
DropMatched(r) ==
  /\ pc[r] = "drop"
  /\ session' = [session EXCEPT ![job[r].match].revoked = TRUE]
  /\ NoteFork(r)
  /\ pc' = [pc EXCEPT ![r] = "done"]
  /\ UNCHANGED <<job, now, root, escaped>>

\* issueTokens signs both tokens in the present second ...
Sign(r) ==
  /\ pc[r] = "sign"
  /\ job' = [job EXCEPT ![r].issued = now]
  /\ pc' = [pc EXCEPT ![r] = "insert"]
  /\ UNCHANGED <<session, now, root, forked, escaped>>

\* ... and inserts the session when the hash is ready, perhaps later.
InsertSession(r) ==
  /\ pc[r] = "insert"
  /\ session' = [session EXCEPT ![r] =
       [token |-> job[r].issued, expires |-> now + RefreshTtl, revoked |-> FALSE]]
  /\ pc' = [pc EXCEPT ![r] = "done"]
  /\ UNCHANGED <<job, now, root, forked, escaped>>

\* Mutant: the filter is turned round and finds only what is revoked.
RevokeAllRevoked(r) ==
  /\ IsNext(r)
  /\ job' = [job EXCEPT ![r] = [NoJob EXCEPT !.kind = "revokeAll"]]
  /\ escaped' = {root[o] : o \in {o \in Requests : pc[o] \in {"revoke", "sign", "insert"}}}
  /\ pc' = [pc EXCEPT ![r] = "done"]
  /\ UNCHANGED <<session, now, root, forked>>

\* logoutAll, and the transaction of resetPassword: every session that is
\* not revoked, in one statement.
RevokeAll(r) ==
  /\ IsNext(r)
  /\ job' = [job EXCEPT ![r] = [NoJob EXCEPT !.kind = "revokeAll"]]
  /\ session' = [s \in Requests |->
       IF s \in Unrevoked THEN [session[s] EXCEPT !.revoked = TRUE] ELSE session[s]]
  /\ escaped' = {root[o] : o \in {o \in Requests : pc[o] \in {"revoke", "sign", "insert"}}}
  /\ pc' = [pc EXCEPT ![r] = "done"]
  /\ UNCHANGED <<now, root, forked>>

\* An exception or the end of the instance at any await.
Fail(r) ==
  /\ pc[r] \notin Resting
  /\ pc' = [pc EXCEPT ![r] = "failed"]
  /\ UNCHANGED <<job, session, now, root, forked, escaped>>

Tick ==
  /\ now < MaxTime
  /\ now' = now + 1
  /\ UNCHANGED <<pc, job, session, root, forked, escaped>>

\* Everything a running handler does by itself.
Handle(r) ==
  \/ FindForRefresh(r) \/ RevokeMatched(r)
  \/ FindForLogout(r) \/ DropMatched(r)
  \/ Sign(r) \/ InsertSession(r)

-----------------------------------------------------------------------------
(* Properties *)

SessionTypeOK ==
  /\ pc \in [Requests -> Resting \cup {"find", "revoke", "drop", "sign", "insert"}]
  /\ job \in [Requests -> [kind : {None, "login", "refresh", "logout", "revokeAll"},
                           token : 0..MaxTime, match : Requests \cup {None},
                           issued : 0..MaxTime]]
  /\ session \in [Requests -> [token : 0..MaxTime, expires : Nat, revoked : BOOLEAN]]
  /\ now \in 1..MaxTime
  /\ root \in [Requests -> Requests \cup {None}]
  /\ forked \subseteq Requests /\ escaped \subseteq Requests

\* What may still be a session of login x: rows, and requests about to insert.
Descent(x) ==
  {s \in Unrevoked : root[s] = x}
    \cup {r \in Requests : pc[r] \in {"sign", "insert"} /\ root[r] = x}

(***************************************************************************)
(* Rotation: a login has at most one session at any time, however often it *)
(* is refreshed and whatever fails, unless two requests have gone on with  *)
(* the same session.                                                       *)
(***************************************************************************)
OneSessionPerLogin ==
  \A x \in Requests \ forked : Cardinality(Descent(x)) <= 1

(***************************************************************************)
(* A logout that has found its session leaves none of its login behind,    *)
(* unless another request went on with that session.                       *)
(***************************************************************************)
LogoutEndsLogin ==
  \A r \in Requests :
    /\ job[r].kind = "logout" /\ pc[r] = "done" /\ job[r].match # None
    /\ root[r] \notin forked
    => Descent(root[r]) = {}

(***************************************************************************)
(* logoutAll and resetPassword reach every session of every earlier login, *)
(* and all that later refreshes make of them; what escapes are logins with *)
(* a request between its lookup and its insert.                            *)
(***************************************************************************)
RevocationReachesAll ==
  \A s \in Unrevoked, r \in Requests :
    job[r].kind = "revokeAll" /\ root[s] < r => root[s] \in escaped

=============================================================================
