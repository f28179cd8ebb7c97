------------------------------ MODULE WebClient ------------------------------
(***************************************************************************)
(* The browser of one user against the login sessions: the axios instance  *)
(* of lib/api.ts with its two interceptors, the logout of lib/auth-store   *)
(* and the login page.  The tabs of a browser share localStorage (store)   *)
(* and each has its own variable refreshing.                               *)
(*                                                                         *)
(* The server judges a call and the answer reaches the tab in one step: an *)
(* answer that takes time is a call that stays "sent".  A login whose      *)
(* answer is lost stands for the login of another device as well.          *)
(***************************************************************************)
EXTENDS Sessions

CONSTANTS Calls, Tabs

ASSUME TabsAssumption == None \notin Tabs

VARIABLES
  store,       \* localStorage: the seconds the two stored tokens were signed in
  call,        \* call[c]: one use of the axios instance at a time
  refreshing,  \* refreshing[t]: the refresh tab t waits for
  entering,    \* entering[t]: the login tab t waits for
  sender       \* history: sender[r] is the tab that sent the refresh r

clientVars == <<store, call, refreshing, entering, sender>>
vars == <<sessionVars, clientVars>>

NoTokens == [access |-> 0, refresh |-> 0]

\* The tokens of the answer to request r, signed in one second.
Pair(r) == [access |-> job[r].issued, refresh |-> job[r].issued]

NoCall == [at |-> "idle", tab |-> None, kind |-> None, access |-> 0, body |-> 0,
           retried |-> FALSE, request |-> None]

Open == {"sent", "held", "served"}
OpenOf(t) == {c \in Calls : call[c].tab = t /\ call[c].at \in Open}

Init ==
  /\ SessionInit
  /\ store = NoTokens
  /\ call = [c \in Calls |-> NoCall]
  /\ refreshing = [t \in Tabs |-> None]
  /\ entering = [t \in Tabs |-> None]
  /\ sender = [r \in Requests |-> None]

-----------------------------------------------------------------------------
\* The login page posts; nothing else goes on in its tab.
LogIn(t, r) ==
  /\ entering[t] = None /\ OpenOf(t) = {}
  /\ StartLogin(r)
  /\ entering' = [entering EXCEPT ![t] = r]
  /\ UNCHANGED <<store, call, refreshing, sender>>

\* afterLogin stores the tokens; an error leaves the page as it is, and a
\* lost answer is an error whatever the server has done or will do.
SettleLogin(t) ==
  /\ entering[t] # None
  /\ \/ pc[entering[t]] = "done" /\ store' = Pair(entering[t])
     \/ UNCHANGED store
  /\ entering' = [entering EXCEPT ![t] = None]
  /\ UNCHANGED <<sessionVars, call, refreshing, sender>>

\* A page calls the API; the request interceptor adds the stored access
\* token.  logout puts the stored refresh token into the body.
StartCall(c, t, kind) ==
  /\ call[c].at = "idle"
  /\ entering[t] = None
  /\ call' = [call EXCEPT ![c] = [NoCall EXCEPT !.at = "sent", !.tab = t, !.kind = kind,
       !.access = store.access, !.body = IF kind = "logout" THEN store.refresh ELSE 0]]
  /\ UNCHANGED <<sessionVars, store, refreshing, entering, sender>>

\* JwtStrategy: an access token that has not expired, of an active user.  The
\* user may be deactivated and activated at any time, so that any call may be
\* unauthorized.
MayBeAuthorized(c) == call[c].access # 0 /\ now < call[c].access + AccessTtl

\* window.location.href: the tab loads the login page, what it waited for is
\* gone.
Leave(t) ==
  /\ call' = [c \in Calls |-> IF c \in OpenOf(t) THEN NoCall ELSE call[c]]
  /\ refreshing' = [refreshing EXCEPT ![t] = None]
  /\ UNCHANGED <<entering, sender>>

\* The promise of the call is rejected; for a logout that is the catch, the
\* clearing of the store and the login page.
Rejected(c) ==
  IF call[c].kind = "logout"
  THEN store' = NoTokens /\ Leave(call[c].tab)
  ELSE call' = [call EXCEPT ![c] = NoCall] /\ UNCHANGED <<store, refreshing, entering, sender>>

\* An authorized call is served.  A logout without a refresh token fails the
\* validation of RefreshDto.
Serve(c) ==
  /\ call[c].at = "sent" /\ MayBeAuthorized(c)
  /\ \/ /\ call[c].kind = "api"
        /\ call' = [call EXCEPT ![c] = NoCall]
        /\ UNCHANGED <<sessionVars, store, refreshing, entering, sender>>
     \/ /\ call[c].kind = "logout" /\ call[c].body # 0
        /\ \E r \in Requests :
             /\ Send(r, "logout", call[c].body)
             /\ call' = [call EXCEPT ![c].at = "served", ![c].request = r]
        /\ UNCHANGED <<store, refreshing, entering, sender>>
     \/ /\ call[c].kind = "logout" /\ call[c].body = 0
        /\ Rejected(c)
        /\ UNCHANGED sessionVars

Unauthorized(c) == call[c].at = "sent"

Hold(c) == call' = [call EXCEPT ![c].at = "held", ![c].retried = TRUE]

\* A second 401 of a call that was sent again is handed to the page.
RejectRetried(c) ==
  /\ Unauthorized(c) /\ call[c].retried
  /\ Rejected(c)
  /\ UNCHANGED sessionVars

\* A 401 while the tab is refreshing waits for the same promise.
JoinRefresh(c) ==
  /\ Unauthorized(c) /\ ~call[c].retried
  /\ refreshing[call[c].tab] # None
  /\ Hold(c)
  /\ UNCHANGED <<sessionVars, store, refreshing, entering, sender>>

\* Mutant: a 401 starts a refresh although the tab waits for one.
StartRefreshAgain(c) ==
  /\ Unauthorized(c) /\ ~call[c].retried /\ store.refresh # 0
  /\ \E r \in Requests :
       /\ Send(r, "refresh", store.refresh)
       /\ refreshing' = [refreshing EXCEPT ![call[c].tab] = r]
       /\ sender' = [sender EXCEPT ![r] = call[c].tab]
  /\ Hold(c)
  /\ UNCHANGED <<store, entering>>

\* doRefresh: the first 401 of the tab sends the stored refresh token.
StartRefresh(c) ==
  /\ Unauthorized(c) /\ ~call[c].retried
  /\ refreshing[call[c].tab] = None /\ store.refresh # 0
  /\ \E r \in Requests :
       /\ Send(r, "refresh", store.refresh)
       /\ refreshing' = [refreshing EXCEPT ![call[c].tab] = r]
       /\ sender' = [sender EXCEPT ![r] = call[c].tab]
  /\ Hold(c)
  /\ UNCHANGED <<store, entering>>

\* doRefresh without a token, or with one the network does not deliver:
\* the store is empty afterwards and the tab goes to the login page.
RefreshImpossible(c) ==
  /\ Unauthorized(c) /\ ~call[c].retried
  /\ refreshing[call[c].tab] = None
  /\ store' = NoTokens
  /\ Leave(call[c].tab)
  /\ UNCHANGED sessionVars

\* The connection of a call breaks: no response, so no refresh.
Break(c) ==
  /\ call[c].at = "sent"
  /\ Rejected(c)
  /\ UNCHANGED sessionVars

\* The calls that wait for the refresh of tab t are sent again; the request
\* interceptor takes the token just stored.
Resend(t, token) ==
  call' = [c \in Calls |-> IF c \in OpenOf(t) /\ call[c].at = "held"
                           THEN [call[c] EXCEPT !.at = "sent", !.access = token]
                           ELSE call[c]]

\* Mutant: the new refresh token is not stored.
RefreshAnsweredAccessOnly(t) ==
  LET r == refreshing[t] IN
    /\ r # None /\ pc[r] = "done"
    /\ store' = [store EXCEPT !.access = job[r].issued]
    /\ Resend(t, job[r].issued)
    /\ refreshing' = [refreshing EXCEPT ![t] = None]
    /\ UNCHANGED <<sessionVars, entering, sender>>

\* Mutant: only one of the waiting calls hears of the new token.
RefreshAnsweredToOne(t) ==
  LET r == refreshing[t] IN
    /\ r # None /\ pc[r] = "done"
    /\ store' = Pair(r)
    /\ \E c \in OpenOf(t) : /\ call[c].at = "held"
                            /\ call' = [call EXCEPT ![c].at = "sent", ![c].access = job[r].issued]
    /\ refreshing' = [refreshing EXCEPT ![t] = None]
    /\ UNCHANGED <<sessionVars, entering, sender>>

\* The refresh succeeds: both tokens are stored, whatever the store holds by
\* now, and the promise is forgotten.
RefreshAnswered(t) ==
  LET r == refreshing[t] IN
    /\ r # None /\ pc[r] = "done"
    /\ store' = Pair(r)
    /\ Resend(t, job[r].issued)
    /\ refreshing' = [refreshing EXCEPT ![t] = None]
    /\ UNCHANGED <<sessionVars, entering, sender>>

\* It is refused, fails or its answer is lost: the store is cleared, whatever
\* it holds by now, and the tab goes to the login page.
RefreshRefused(t) ==
  /\ refreshing[t] # None
  /\ store' = NoTokens
  /\ Leave(t)
  /\ UNCHANGED sessionVars

\* logout: whatever comes back, the store is cleared and the tab leaves.
SettleLogout(c) ==
  /\ call[c].at = "served"
  /\ store' = NoTokens
  /\ Leave(call[c].tab)
  /\ UNCHANGED sessionVars

-----------------------------------------------------------------------------
Server == \E r \in Requests : Handle(r) \/ Fail(r) \/ RevokeAll(r)
Answer(c) ==
  \/ Serve(c) \/ RejectRetried(c) \/ JoinRefresh(c) \/ StartRefresh(c)
  \/ RefreshImpossible(c) \/ Break(c) \/ SettleLogout(c)

Browser ==
  \/ \E t \in Tabs : \/ \E r \in Requests : LogIn(t, r)
                     \/ SettleLogin(t) \/ RefreshAnswered(t) \/ RefreshRefused(t)
  \/ \E c \in Calls : \/ \E t \in Tabs, kind \in {"api", "logout"} : StartCall(c, t, kind)
                      \/ Answer(c)

Next == ((Server \/ Tick) /\ UNCHANGED clientVars) \/ Browser

Spec == Init /\ [][Next]_vars

-----------------------------------------------------------------------------
(* Properties *)

\* The shape of the browser's state, with that of the sessions.
TypeOK ==
  /\ SessionTypeOK
  /\ store \in [access : 0..MaxTime, refresh : 0..MaxTime]
  /\ call \in [Calls -> [at : {"idle"} \cup Open, tab : Tabs \cup {None},
                         kind : {None, "api", "logout"}, access : 0..MaxTime, body : 0..MaxTime,
                         retried : BOOLEAN, request : Requests \cup {None}]]
  /\ refreshing \in [Tabs -> Requests \cup {None}]
  /\ entering \in [Tabs -> Requests \cup {None}]
  /\ sender \in [Requests -> Tabs \cup {None}]

AtRest ==
  /\ \A r \in Requests : pc[r] \in Resting
  /\ \A t \in Tabs : refreshing[t] = None /\ entering[t] = None /\ OpenOf(t) = {}

MassRevocation == \E r \in Requests : job[r].kind = "revokeAll"

(***************************************************************************)
(* A browser at rest holds no refresh token that the server has given up:  *)
(* its session is there, whatever was lost, failed or raced between tabs,  *)
(* unless all sessions were revoked or the same second signed it twice.    *)
(***************************************************************************)
StoreIsLive ==
  AtRest /\ store.refresh # 0 =>
    \/ \E s \in Unrevoked : session[s].token = store.refresh
    \/ MassRevocation
    \/ Cardinality({s \in Requests : session[s].token = store.refresh}) > 1

(***************************************************************************)
(* A refresh is refused only when its token has expired, all sessions were *)
(* revoked, or the token was presented by another tab or by a logout: the  *)
(* calls of one tab never throw their own user out.                        *)
(***************************************************************************)
NotThrownOut ==
  \A r \in Requests :
    job[r].kind = "refresh" /\ pc[r] = "refused" =>
      \/ now >= job[r].token + RefreshTtl
      \/ MassRevocation
      \/ \E o \in Requests \ {r} :
           job[o].kind # "login" /\ job[o].token = job[r].token /\ sender[o] # sender[r]

(***************************************************************************)
(* No call is forgotten: a tab waits for a refresh exactly as long as some *)
(* of its calls do, whichever of them joins or leaves while it is running. *)
(***************************************************************************)
NoCallForgotten ==
  \A t \in Tabs :
    refreshing[t] # None <=> \E c \in OpenOf(t) : call[c].at = "held"

(***************************************************************************)
(* What the route says it does ("log out of the current session"): when    *)
(* the logout has been answered, nothing is left of the login whose token  *)
(* the browser held when the user pressed the button.                      *)
(***************************************************************************)
LogoutEndsTheSession ==
  \A r, s \in Requests :
    /\ job[r].kind = "logout" /\ pc[r] = "done"
    /\ {o \in Requests : session[o].token = job[r].token} = {s}
    => Descent(root[s]) = {}

=============================================================================
