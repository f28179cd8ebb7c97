------------------------------ MODULE Screens ------------------------------
(***************************************************************************)
(* The pages of the web client: the queries each one shows, the buttons it *)
(* offers, and the cache of query answers behind it.                       *)
(*                                                                         *)
(* A page is translated to its queries (useQuery) and its controls (the    *)
(* handlers that call the server).  A query shows some tables; a control   *)
(* writes some and tells the cache which keys to fetch again.  One         *)
(* building, one period, one unit and one ticket; a tab with queries of    *)
(* its own is a place of its own.  The audit log is not counted among the  *)
(* tables a control writes.                                                *)
(*                                                                         *)
(* The answers in the cache do not depend on each other, so one behaviour  *)
(* follows one key, any of them.                                           *)
(***************************************************************************)
EXTENDS Access

CONSTANT MaxMoves  \* bound of what the user and the administrators do

VARIABLES
  me,      \* what loadMe has stored: the roles, and whether a building is chosen
  place,   \* the place open
  form,    \* the control whose form is open; Null
  key,     \* the query key followed
  copy,    \* the answer the cache holds for it
  flight,  \* the control whose call is under way, with its stage; Null
  lost,    \* history: controls whose call was carried out and not answered
  moves    \* what the user and the administrators have done

screenVars == <<rows, expected, me, place, form, key, copy, flight, lost, moves>>

-----------------------------------------------------------------------------
(* The pages *)

\* A query; gate is its "enabled", form the form that mounts it.
Query(k, route, shows) ==
  [key |-> k, route |-> route, shows |-> shows, gate |-> Null, form |-> Null]

InForm(f, queries) == {[q EXCEPT !.form = f] : q \in queries}

\* A control: offered with permission gate, it writes tables and tells keys;
\* inside is the form it is part of.
Control(route, gate, writes, tells) ==
  [route |-> route, gate |-> gate, writes |-> writes, tells |-> tells, inside |-> Null]

managerDashboard == [
  queries |-> {Query("dashboard", "dashboard.manager",
                     {"cashbox", "entry", "unit_count", "ticket", "payment", "charge"})},
  controls |-> {}]

\* The button is there for who lives in a unit, whatever the role.
residentDashboard == [
  queries |-> {Query("dashboard-resident", "dashboard.resident",
                     {"unit", "charge", "ticket", "announcement"})},
  controls |-> {Control("payments.initiate", Null, {"payment"}, {})}]

BuildingModal == {
  Control("buildings.create", "building:create", {"building"}, {"buildings"}),
  Control("buildings.update", "building:update", {"building"}, {"buildings"})}

buildingsPage == [
  queries |-> {Query("buildings", "buildings.list", {"building", "unit_count"})},
  controls |-> BuildingModal]

UnitModal == {
  Control("units.create", "unit:create", {"unit", "unit_count"}, {"units"}),
  Control("units.update", "unit:update", {"unit"}, {"units"})}

FloorModal == {Control("floors.create", "unit:create", {"floor"}, {"floors"})}

unitsPanel == [
  queries |-> {Query("units", "units.list", {"unit", "owner", "resident"}),
               Query("floors", "floors.list", {"floor"}),
               Query("owners-list", "owners.list", {"owner"}),
               Query("residents-list", "residents.list", {"resident"})},
  controls |-> UnitModal \cup FloorModal]

unitPage == [
  queries |-> {Query("unit", "units.get", {"unit", "owner", "resident", "lease", "charge"}),
               Query("unit-charges", "charges.ofUnit", {"charge"})},
  controls |-> {}]

PersonModal == [
  residents |->
    {Control("residents.create", "resident:create", {"resident"}, {"people-residents"}),
     Control("residents.update", "resident:update", {"resident"}, {"people-residents"})},
  owners |->
    {Control("owners.create", "owner:create", {"owner"}, {"people-owners"}),
     Control("owners.update", "owner:update", {"owner"}, {"people-owners"})}]

PeopleList == [
  residents |-> [
    queries |-> {Query("people-residents", "residents.list", {"resident", "unit"})},
    controls |-> PersonModal.residents \cup
      {Control("residents.delete", "resident:delete", {"resident"}, {"people-residents"})}],
  owners |-> [
    queries |-> {Query("people-owners", "owners.list", {"owner", "unit"})},
    controls |-> PersonModal.owners]]

createPeriod == Control("charges.create", Null, {"period", "charge"}, {"charge-periods"})

preview == Control("charges.preview", Null, {}, {})

periodsTab == [
  queries |-> {Query("charge-periods", "charges.list", {"period", "charge"})},
  controls |-> {createPeriod, preview}]

debtorsTab == [
  queries |-> {Query("debtors", "charges.debtors", {"charge"})},
  controls |-> {createPeriod, preview}]

\* A manual payment writes the books too, an approval the notifications.
PaymentModal == {Control("payments.manual", "payment:create",
                         {"payment", "charge", "cashbox", "entry"}, {"period"})}

periodPage == [
  queries |-> {Query("period", "charges.get", {"period", "charge"})},
  controls |-> PaymentModal \cup
    {Control("charges.approve", "charge:approve", {"period", "notification"}, {"period"})}]

EntryForms == {"incomes.create", "expenses.create"}

\* The forms of both kinds of entry mount queries.
EntryModal == [
  queries |->
    (UNION {InForm(f, {Query("cashboxes", "cashboxes.list", {"cashbox"})}) : f \in EntryForms})
    \cup InForm("expenses.create", {Query("categories", "categories.list", {"category"})}),
  controls |->
    {Control("incomes.create", "income:create", {"cashbox", "entry"}, {"every-key"}),
     Control("expenses.create", "expense:create", {"cashbox", "entry"}, {"every-key"}),
     [Control("categories.create", Null, {"category"}, {"categories"})
        EXCEPT !.inside = "expenses.create"]}]

CashboxModal ==
  {Control("cashboxes.create", "cashbox:manage", {"cashbox"}, {"balance", "cashboxes"})}

\* What the three tabs share.
accounting == [
  queries |-> {Query("balance", "cashboxes.balance", {"cashbox"})} \cup EntryModal.queries,
  controls |-> EntryModal.controls \cup CashboxModal]

entriesTab(k, route) ==
  [accounting EXCEPT !.queries = @ \cup {Query(k, route, {"entry"})}]

CreateTicket == {Control("maintenance.create", Null, {"ticket", "notification"}, {"maint"})}

maintenancePage == [
  queries |-> {Query("maint", "maintenance.list", {"ticket", "unit"})},
  controls |-> CreateTicket]

ticketPage == [
  queries |-> {Query("maint-detail", "maintenance.get", {"ticket", "comment", "unit"}),
               [Query("users-tech", "users.list", {"user"}) EXCEPT !.gate = "maintenance:update"]},
  controls |->
    {Control("maintenance.status", "maintenance:update",
             {"ticket", "comment", "cashbox", "entry", "notification"}, {"maint-detail"}),
     Control("maintenance.assign", "maintenance:update",
             {"ticket", "comment", "notification"}, {"maint-detail"}),
     Control("maintenance.comment", Null, {"comment"}, {"maint-detail"})}]

CreateAnnouncement == {Control("announcements.create", "announcement:create",
                               {"announcement", "notification"}, {"announcements"})}

announcementsPage == [
  queries |-> {Query("announcements", "announcements.list", {"announcement"})},
  controls |-> CreateAnnouncement \cup
    {Control("announcements.delete", "announcement:delete", {"announcement"}, {"announcements"})}]

reportsPage == [
  queries |-> {Query("report-chart", "reports.chart", {"entry", "charge"}),
               Query("report-cat", "reports.byCategory", {"entry", "category"})},
  controls |-> {}]

analyticsPage == [
  queries |-> {Query("analytics-suggestions", "analytics.suggestions", {})},
  controls |-> {Control("analytics.ask", Null, {}, {})}]

CreateUserModal == {Control("users.create", "user:create", {"user"}, {"users"})}

AssignRoleModal == [
  queries |-> InForm("roles.assign", {Query("roles", "roles.list", {"role", "user_role"})}),
  controls |-> {Control("roles.assign", "role:assign", {"user_role"}, {"users"})}]

usersPage == [
  queries |-> {Query("users", "users.list", {"user", "user_role"})} \cup AssignRoleModal.queries,
  controls |-> CreateUserModal \cup AssignRoleModal.controls]

rolesPage == [
  queries |-> {Query("roles", "roles.list", {"role", "user_role"})},
  controls |-> {}]

auditPage == [queries |-> {Query("audit", "audit.list", {})}, controls |-> {}]

settingsPage == [
  queries |-> {Query("profile", "users.profile", {"user", "user_role"})},
  controls |-> {Control("auth.changePassword", Null, {}, {})}]

Pages == [
  managerDashboard |-> managerDashboard, residentDashboard |-> residentDashboard,
  buildings |-> [queries |-> buildingsPage.queries \cup unitsPanel.queries,
                 controls |-> buildingsPage.controls \cup unitsPanel.controls],
  unit |-> unitPage, residents |-> PeopleList.residents, owners |-> PeopleList.owners,
  periods |-> periodsTab, debtors |-> debtorsTab, period |-> periodPage,
  incomes |-> entriesTab("acc-incomes", "incomes.list"),
  expenses |-> entriesTab("acc-expenses", "expenses.list"),
  ledger |-> entriesTab("acc-ledger", "ledger.list"),
  maintenance |-> maintenancePage, ticket |-> ticketPage,
  announcements |-> announcementsPage, reports |-> reportsPage,
  analytics |-> analyticsPage, users |-> usersPage, roles |-> rolesPage,
  audit |-> auditPage, settings |-> settingsPage]

Places == DOMAIN Pages

AllQueries == UNION {Pages[p].queries : p \in Places}

Keys == {q.key : q \in AllQueries}

QueryOf == [k \in Keys |-> CHOOSE q \in AllQueries : q.key = k]

AllControls == UNION {Pages[p].controls : p \in Places}

\* A call of a control, not answered yet.
Flights == [control : AllControls, stage : {"sent", "done"}]

ASSUME FlightAssumption == Null \notin Flights

-----------------------------------------------------------------------------
(* What is offered and what is mounted *)

HasPerm(p) == Permits(me.roles, p)

\* The sidebar, and the permission that shows each entry.
NAV == [
  managerDashboard |-> Null, residentDashboard |-> Null, settings |-> Null,
  buildings |-> "building:read", residents |-> "resident:read", periods |-> "charge:read",
  incomes |-> "accounting:read", maintenance |-> "maintenance:read",
  announcements |-> "announcement:read", reports |-> "report:read",
  analytics |-> "analytics:query", users |-> "user:read", roles |-> "role:read",
  audit |-> "audit:read"]

TabGroups == {{"residents", "owners"}, {"periods", "debtors"}, {"incomes", "expenses", "ledger"}}

\* Tabs of one page.
SharePage(p, q) == \E t \in TabGroups : {p, q} \subseteq t

\* The key whose rows link to a place.
LinkIn == [unit |-> "units", period |-> "charge-periods", ticket |-> "maint"]

DashboardOf(m) ==
  IF Permits(m.roles, "report:read") /\ m.building THEN "managerDashboard" ELSE "residentDashboard"

\* These show nothing before a building is chosen.
NeedsBuilding ==
  {"residents", "owners", "periods", "debtors", "incomes", "expenses", "ledger",
   "maintenance", "announcements", "reports", "analytics"}

Blank(p) == p \in NeedsBuilding /\ ~me.building

Mounted(p, f) ==
  IF Blank(p) THEN {}
  ELSE {q \in Pages[p].queries : q.form \in {Null, f} /\ HasPerm(q.gate)}

MountedKeys == {q.key : q \in Mounted(place, form)}

Offered ==
  IF Blank(place) THEN {}
  ELSE {c \in Pages[place].controls : HasPerm(c.gate) /\ c.inside \in {Null, form}}

HasForm(route) == \E q \in AllQueries : q.form = route

CanGo(p) ==
  /\ p # place
  /\ \/ /\ p \in DOMAIN NAV /\ HasPerm(NAV[p])
        /\ p \in {"managerDashboard", "residentDashboard"} => p = DashboardOf(me)
     \/ SharePage(p, place)
     \/ p \in DOMAIN LinkIn /\ LinkIn[p] \in MountedKeys

-----------------------------------------------------------------------------
(* The cache: an answer is fresh for 30 s, or until its key is told *)

NoAnswer == [has |-> FALSE, fresh |-> FALSE, loading |-> "no", behind |-> Null, excused |-> FALSE]

\* A query that mounts fetches, unless its answer is fresh or on its way.
Mount(c) ==
  IF c.has /\ c.fresh THEN [c EXCEPT !.excused = TRUE]
  ELSE IF c.loading # "no" THEN c
  ELSE [c EXCEPT !.loading = "asked"]

Move == moves < MaxMoves /\ moves' = moves + 1

Stored(remembered) == [roles |-> RoleKeys, building |-> BuildingKnown \/ remembered]

ScreensInit ==
  /\ InitAccess
  /\ \E remembered \in BOOLEAN : me = Stored(remembered)
  /\ place = DashboardOf(me) /\ form = Null
  /\ key \in Keys
  /\ copy = IF key \in MountedKeys THEN Mount(NoAnswer) ELSE NoAnswer
  /\ flight = Null /\ lost = {} /\ moves = 0

\* A key mounts when it was not mounted before.  Tabs keep what they share,
\* another page mounts its queries anew.
Remount(anew) ==
  copy' = IF key \in MountedKeys' /\ (anew \/ key \notin MountedKeys) THEN Mount(copy) ELSE copy

Go(p) ==
  /\ Move /\ CanGo(p)
  /\ place' = p /\ form' = Null
  /\ UNCHANGED <<rows, expected, me, key, flight, lost>>
  /\ Remount(~SharePage(p, place))

OpenForm(route) ==
  /\ Move
  /\ form = Null /\ HasForm(route) /\ \E c \in Offered : c.route = route
  /\ form' = route
  /\ UNCHANGED <<rows, expected, me, place, key, flight, lost>>
  /\ Remount(FALSE)

\* The browser loads the application anew; the cache is gone.
Reload ==
  /\ Move /\ flight = Null
  /\ me' = Stored(me.building)
  /\ place' = DashboardOf(me') /\ form' = Null
  /\ UNCHANGED <<rows, expected, key, flight, lost>>
  /\ copy' = IF key \in MountedKeys' THEN Mount(NoAnswer) ELSE NoAnswer

\* The rows are read now, or were read before a commit that has marked them.
FetchAnswered ==
  /\ copy.loading # "no"
  /\ Permits(RoleKeys, RouteNeeds[QueryOf[key].route])
  /\ copy' = IF copy.loading = "old"
               THEN [copy EXCEPT !.has = TRUE, !.fresh = TRUE, !.loading = "no"]
               ELSE [NoAnswer EXCEPT !.has = TRUE, !.fresh = TRUE, !.excused = flight # Null]
  /\ UNCHANGED <<rows, expected, me, place, form, key, flight, lost, moves>>

\* Refused, or lost with its retry: an earlier answer stays on the screen.
FetchFailed ==
  /\ copy.loading # "no"
  /\ copy' = [copy EXCEPT !.loading = "no", !.excused = TRUE]
  /\ UNCHANGED <<rows, expected, me, place, form, key, flight, lost, moves>>

HalfMinute ==
  /\ copy.fresh
  /\ copy' = [copy EXCEPT !.fresh = FALSE]
  /\ UNCHANGED <<rows, expected, me, place, form, key, flight, lost, moves>>

-----------------------------------------------------------------------------
(* The controls *)

\* One call at a time is an abstraction: forms disable their button while a
\* call is under way, the buttons of lists and of a ticket do not, but each
\* answered call tells its keys by itself.
Submit(c) ==
  /\ Move
  /\ flight = Null /\ c \in Offered
  /\ HasForm(c.route) => form = c.route
  /\ flight' = [control |-> c, stage |-> "sent"]
  /\ UNCHANGED <<rows, expected, me, place, form, key, copy, lost>>

\* The server carries it out; fetches under way may have read before that.
CarriedOut ==
  /\ flight # Null /\ flight.stage = "sent"
  /\ Permits(RoleKeys, RouteNeeds[flight.control.route])
  /\ flight' = [flight EXCEPT !.stage = "done"]
  /\ LET written == [copy EXCEPT !.behind = flight.control.route] IN
     IF QueryOf[key].shows \cap flight.control.writes = {} THEN UNCHANGED copy
     ELSE \/ copy' = IF copy.has THEN written ELSE copy
          \/ /\ copy.loading = "asked"
             /\ copy' = [written EXCEPT !.loading = "old", !.excused = TRUE]
  /\ UNCHANGED <<rows, expected, me, place, form, key, lost, moves>>

\* Mutant: the told key only counts as old.
ToldLater == [copy EXCEPT !.fresh = FALSE]

\* A told key that is mounted is fetched again, unless its first answer is
\* still on its way; one that is not mounted is fetched when it next mounts.
Told ==
  IF ~copy.has THEN copy
  ELSE IF key \in MountedKeys THEN [copy EXCEPT !.fresh = FALSE, !.loading = "asked"]
  ELSE [copy EXCEPT !.fresh = FALSE]

Answered ==
  /\ flight # Null /\ flight.stage = "done"
  /\ copy' = IF {key, "every-key"} \cap flight.control.tells # {} THEN Told ELSE copy
  /\ form' = IF form = flight.control.route THEN Null ELSE form
  /\ flight' = Null
  /\ UNCHANGED <<rows, expected, me, place, key, lost, moves>>

\* Refused, invalid, or the answer lost: an error is shown, no key is told.
NotAnswered ==
  /\ flight # Null
  /\ lost' = IF flight.stage = "done" THEN lost \cup {flight.control.route} ELSE lost
  /\ flight' = Null
  /\ UNCHANGED <<rows, expected, me, place, form, key, copy, moves>>

-----------------------------------------------------------------------------
(* The administrators *)

Assign(row) ==
  /\ Move /\ assignRole(row)
  /\ UNCHANGED <<me, place, form, key, copy, flight, lost>>

Revoke(i) ==
  /\ Move /\ revokeRole(i)
  /\ UNCHANGED <<me, place, form, key, copy, flight, lost>>

ScreensNext ==
  \/ \E p \in Places : Go(p)
  \/ \E c \in Offered : OpenForm(c.route) \/ Submit(c)
  \/ FetchAnswered \/ FetchFailed
  \/ Reload \/ HalfMinute \/ CarriedOut \/ Answered \/ NotAnswered
  \/ \E row \in Row : Assign(row)
  \/ \E i \in DOMAIN rows : Revoke(i)

ScreensSpec == ScreensInit /\ [][ScreensNext]_screenVars

-----------------------------------------------------------------------------
(* Properties *)

\* Offered without asking whether the user may: the button of a new period
\* and its preview, of a new ticket, of an online payment.
Unasked == {"charges.create", "charges.preview", "maintenance.create", "payments.initiate"}

(***************************************************************************)
(* What the pages, the sidebar and the controllers each say of permissions *)
(* fits together: as long as the roles are those loadMe has stored, the    *)
(* server refuses no query a page makes and no control it offers, but for  *)
(* the four controls above and the list of technicians, which asks for     *)
(* every user.                                                             *)
(***************************************************************************)
OfferedIsPermitted ==
  me.roles = RoleKeys =>
    /\ \A q \in Mounted(place, form) :
         Permits(RoleKeys, RouteNeeds[q.route]) \/ q.key = "users-tech"
    /\ \A c \in Offered : Permits(RoleKeys, RouteNeeds[c.route]) \/ c.route \in Unasked

\* Controls and the keys of their own page they forget: the number of units
\* beside the building, and the debtors of the new period.
Overlooked == {<<"units.create", "buildings">>, <<"charges.create", "debtors">>}

(***************************************************************************)
(* What a user has changed shows on the page that is open once the call    *)
(* is answered, unless the control forgets the key, the answer on the      *)
(* screen was less than 30 s old when the page opened, it was read while   *)
(* the call was under way, or the fetch has failed.                        *)
(***************************************************************************)
OwnWriteShows ==
  /\ key \in MountedKeys /\ copy.has /\ copy.loading = "no"
  /\ flight = Null /\ copy.behind \notin lost \cup {Null}
  => copy.excused \/ <<copy.behind, key>> \in Overlooked

(***************************************************************************)
(* A role that was taken back is gone; only one for all buildings may have *)
(* been given twice, and then it is still there.                           *)
(***************************************************************************)
RevokedIsGone ==
  \A i \in DOMAIN rows : rows[i] \in expected \/ rows[i].building = Null

=============================================================================
