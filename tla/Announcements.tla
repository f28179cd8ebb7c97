---------------------------- MODULE Announcements ----------------------------
(***************************************************************************)
(* Announcements of a building: AnnouncementsService, with the residents,  *)
(* owners and units of Occupancy changing meanwhile.                       *)
(*                                                                         *)
(* create stores the announcement, reads the residents and then the owners *)
(* it is for, inserts all notifications in one statement and sends the     *)
(* messages, each of which may fail without consequence.                   *)
(***************************************************************************)
EXTENDS Occupancy

CONSTANTS
  Posts,     \* identities of announcements, and of the requests that create them
  Accounts   \* the people with a user account

ASSUME AccountsAssumption == Accounts \subseteq People

VARIABLES
  at,     \* at[a]: the await at which the request is suspended
  to,     \* to[a]: audience and units asked for, and the people found so far
  shown,  \* announcements in the list
  sent,   \* sent[a][p]: notifications of announcement a for person p
  moved   \* history: moved[a]: people whose row or unit has changed since a was accepted

vars == <<occupancyVars, at, to, shown, sent, moved>>

Audiences == {"ALL", "RESIDENTS", "OWNERS", "CUSTOM"}

Init ==
  /\ OccupancyInit
  /\ at = [a \in Posts |-> "idle"]
  /\ to = [a \in Posts |-> [audience |-> None, units |-> {}, people |-> {}]]
  /\ shown = {}
  /\ sent = [a \in Posts |-> [p \in People |-> 0]]
  /\ moved = [a \in Posts |-> {}]

\* The announcement is stored before anybody is looked for.
Post(a, audience, units) ==
  /\ at[a] = "idle"
  /\ units # {} => audience = "CUSTOM"
  /\ at' = [at EXCEPT ![a] = "residents"]
  /\ to' = [to EXCEPT ![a] = [audience |-> audience, units |-> units, people |-> {}]]
  /\ shown' = shown \cup {a}
  /\ UNCHANGED <<occupancyVars, sent, moved>>

\* Mutant: removed residents are not filtered out.
ResidentsForEver(a) ==
  {x \in Residents :
     /\ person[x] # "unborn"
     /\ to[a].audience \in {"ALL", "RESIDENTS", "CUSTOM"}
     /\ to[a].units # {} => \E u \in to[a].units : current[u] = x}

\* The residents a is for: of a CUSTOM one those of its units, of one without
\* units all.
ResidentsFor(a) ==
  {x \in Residents :
     /\ person[x] = "live"
     /\ to[a].audience \in {"ALL", "RESIDENTS", "CUSTOM"}
     /\ to[a].units # {} => \E u \in to[a].units : current[u] = x}

OwnersFor(a) == {o \in Owners : person[o] = "live" /\ to[a].audience \in {"ALL", "OWNERS"}}

ReadResidents(a) ==
  /\ at[a] = "residents"
  /\ at' = [at EXCEPT ![a] = "owners"]
  /\ to' = [to EXCEPT ![a].people = ResidentsFor(a)]
  /\ UNCHANGED <<occupancyVars, shown, sent, moved>>

ReadOwners(a) ==
  /\ at[a] = "owners"
  /\ at' = [at EXCEPT ![a] = "notify"]
  /\ to' = [to EXCEPT ![a].people = @ \cup OwnersFor(a)]
  /\ UNCHANGED <<occupancyVars, shown, sent, moved>>

\* One insert for everybody with an account; who is resident and owner is
\* told in both capacities.
Notify(a) ==
  /\ at[a] = "notify"
  /\ at' = [at EXCEPT ![a] = "text"]
  /\ sent' = [sent EXCEPT ![a] = [p \in People |->
       sent[a][p] + IF p \in to[a].people \cap Accounts THEN 1 ELSE 0]]
  /\ UNCHANGED <<occupancyVars, to, shown, moved>>

\* Messages go to all people found; a failed one is ignored.
Text(a) ==
  /\ at[a] = "text"
  /\ at' = [at EXCEPT ![a] = "done"]
  /\ UNCHANGED <<occupancyVars, to, shown, sent, moved>>

FailPost(a) ==
  /\ at[a] \notin Resting
  /\ at' = [at EXCEPT ![a] = "failed"]
  /\ UNCHANGED <<occupancyVars, to, shown, sent, moved>>

\* remove: the notifications stay.
Retire(a) ==
  /\ a \in shown
  /\ shown' = shown \ {a}
  /\ UNCHANGED <<occupancyVars, at, to, sent, moved>>

\* The people a step of Occupancy changes something about.
Touched ==
  {p \in People :
     \/ person'[p] # person[p]
     \/ \E u \in Units : current'[u] # current[u] /\ p \in {current[u], current'[u]}}

Occupants ==
  /\ OccupancyNext
  /\ moved' = [a \in Posts |-> IF at[a] = "idle" THEN {} ELSE moved[a] \cup Touched]
  /\ UNCHANGED <<at, to, shown, sent>>

Next ==
  \/ Occupants
  \/ \E a \in Posts :
       \/ \E audience \in Audiences, units \in SUBSET Units : Post(a, audience, units)
       \/ ReadResidents(a) \/ ReadOwners(a) \/ Notify(a) \/ Text(a)
       \/ FailPost(a) \/ Retire(a)

Spec == Init /\ [][Next]_vars

-----------------------------------------------------------------------------
(* Properties *)

\* The shape of every variable.
TypeOK ==
  /\ OccupancyTypeOK
  /\ at \in [Posts -> Resting \cup {"residents", "owners", "notify", "text"}]
  /\ to \in [Posts -> [audience : Audiences \cup {None}, units : SUBSET Units,
                       people : SUBSET People]]
  /\ shown \subseteq Posts
  /\ sent \in [Posts -> [People -> Nat]]
  /\ moved \in [Posts -> SUBSET People]

(***************************************************************************)
(* An announcement that was answered has told everybody with an account    *)
(* who was in its audience from its acceptance on, once, and nobody who    *)
(* was outside it all the time: no resident who had been removed before,   *)
(* and of a CUSTOM one nobody who lived in none of its units.              *)
(***************************************************************************)
AnsweredReachedAudience ==
  \A a \in Posts : at[a] = "done" =>
    \A p \in Accounts \ moved[a] :
      LET lives == p \in Residents /\ person[p] = "live"
          owns  == p \in Owners /\ person[p] = "live"
          meant == CASE to[a].audience = "ALL" -> lives \/ owns
                     [] to[a].audience = "RESIDENTS" -> lives
                     [] to[a].audience = "OWNERS" -> owns
                     [] to[a].audience = "CUSTOM" ->
                          lives /\ (to[a].units = {} \/ \E u \in to[a].units : current[u] = p)
      IN  sent[a][p] = IF meant THEN 1 ELSE 0

=============================================================================
