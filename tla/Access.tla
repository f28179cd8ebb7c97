------------------------------- MODULE Access -------------------------------
(***************************************************************************)
(* Who may call what: the permission every handler declares, the           *)
(* permissions of the seeded roles, PermissionsGuard, and the rows of      *)
(* user_roles of one user.                                                 *)
(*                                                                         *)
(* A route is named after its resource and its handler.  A role is held    *)
(* for one building or, with buildingId NULL, for all of them; the         *)
(* permissions of a user are those of all rows together (JwtStrategy),     *)
(* whatever the building.                                                  *)
(***************************************************************************)
EXTENDS Naturals, Sequences

CONSTANTS
  Null,  \* no permission required; SQL NULL
  Here   \* the building

VARIABLES
  rows,      \* rows[i]: a row of user_roles, [role, building]
  expected   \* history: the assignments made and not taken back

-----------------------------------------------------------------------------
(* The routes of the controllers *)

Need(p, routes) == {[route |-> r, permission |-> p] : r \in routes}

BuildingRoutes ==
       Need("building:read", {"buildings.list", "buildings.get", "floors.list"})
  \cup Need("building:create", {"buildings.create"})
  \cup Need("building:update", {"buildings.update"})
  \cup Need("building:delete", {"buildings.delete"})
  \cup Need("unit:create", {"floors.create", "units.create"})
  \cup Need("unit:read", {"units.list"})

\* Mutant: the permission of the handler below.
UnitRoutesPasted ==
  Need("unit:update", {"units.get", "units.update"}) \cup Need("unit:delete", {"units.delete"})

UnitRoutes ==
       Need("unit:read", {"units.get"})
  \cup Need("unit:update", {"units.update"})
  \cup Need("unit:delete", {"units.delete"})

ResidentRoutes ==
       Need("resident:read", {"residents.list", "residents.get", "leases.list"})
  \cup Need("resident:create", {"residents.create", "leases.create"})
  \cup Need("resident:update", {"residents.update"})
  \cup Need("resident:delete", {"residents.delete"})
  \cup Need("owner:read", {"owners.list", "owners.get"})
  \cup Need("owner:create", {"owners.create"})
  \cup Need("owner:update", {"owners.update"})

AccountingRoutes ==
       Need("accounting:read", {"cashboxes.list", "cashboxes.balance", "categories.list",
                                "incomes.list", "expenses.list", "ledger.list"})
  \cup Need("cashbox:manage", {"cashboxes.create"})
  \cup Need("expense:create", {"categories.create", "expenses.create"})
  \cup Need("income:create", {"incomes.create"})

PaymentRoutes ==
       Need("payment:create", {"payments.manual"})
  \cup Need("payment:pay", {"payments.initiate"})
  \cup Need("payment:read", {"payments.list", "payments.get"})
  \cup Need(Null, {"payments.verify", "payments.receipt"})

ChargeRoutes ==
       Need("charge:create", {"charges.preview", "charges.create"})
  \cup Need("charge:read", {"charges.list", "charges.debtors", "charges.get", "charges.ofUnit"})
  \cup Need("charge:approve", {"charges.approve"})

MaintenanceRoutes ==
       Need("maintenance:create", {"maintenance.create"})
  \cup Need("maintenance:read", {"maintenance.list", "maintenance.get", "maintenance.comment"})
  \cup Need("maintenance:update", {"maintenance.status", "maintenance.assign"})

AnnouncementRoutes ==
       Need("announcement:create", {"announcements.create"})
  \cup Need("announcement:read", {"announcements.list", "announcements.markRead"})
  \cup Need("announcement:delete", {"announcements.delete"})

UserRoutes ==
       Need(Null, {"users.profile", "users.updateProfile"})
  \cup Need("user:read", {"users.list", "users.get"})
  \cup Need("user:create", {"users.create"})
  \cup Need("user:update", {"users.setActive"})
  \cup Need("user:delete", {"users.delete"})

RbacRoutes ==
       Need("role:read", {"roles.list", "roles.permissions"})
  \cup Need("role:assign", {"roles.assign", "roles.revoke", "roles.update"})

ReportRoutes ==
  Need("report:read", {"reports.monthly", "reports.yearly", "reports.chart",
                       "reports.byCategory", "reports.payments"})

DashboardRoutes ==
  Need("report:read", {"dashboard.manager"}) \cup Need(Null, {"dashboard.resident"})

AnalyticsRoutes == Need("analytics:query", {"analytics.ask", "analytics.suggestions"})

NotificationRoutes ==
  Need(Null, {"notifications.list", "notifications.unread", "notifications.read",
              "notifications.readAll"})

AuditRoutes == Need("audit:read", {"audit.list"})

FileRoutes == Need("file:upload", {"files.upload"}) \cup Need(Null, {"files.get"})

AuthRoutes ==
  Need(Null, {"auth.register", "auth.login", "auth.requestOtp", "auth.verifyOtp",
              "auth.refresh", "auth.resetPassword", "auth.changePassword", "auth.logout",
              "auth.logoutAll", "auth.me", "auth.sessions"})

Declared ==
  BuildingRoutes \cup UnitRoutes \cup ResidentRoutes \cup AccountingRoutes \cup PaymentRoutes
  \cup ChargeRoutes \cup MaintenanceRoutes \cup AnnouncementRoutes \cup UserRoutes
  \cup RbacRoutes \cup ReportRoutes \cup DashboardRoutes \cup AnalyticsRoutes
  \cup NotificationRoutes \cup AuditRoutes \cup FileRoutes \cup AuthRoutes

RouteNeeds ==
  [r \in {d.route : d \in Declared} |-> (CHOOSE d \in Declared : d.route = r).permission]

-----------------------------------------------------------------------------
(* The seeded roles; SUPER_ADMIN has every permission and needs none. *)

ROLE_PERMISSIONS == [
  SUPER_ADMIN |-> {},
  BUILDING_MANAGER |-> {
    "user:read", "role:read", "role:assign", "building:read", "building:update",
    "unit:read", "unit:create", "unit:update", "unit:delete",
    "resident:read", "resident:create", "resident:update", "resident:delete",
    "owner:read", "owner:create", "owner:update",
    "charge:read", "charge:create", "charge:update", "charge:approve", "charge:delete",
    "payment:read", "payment:create", "accounting:read", "income:create", "expense:create",
    "accounting:update", "cashbox:manage", "maintenance:read", "maintenance:create",
    "maintenance:update", "maintenance:delete", "announcement:read", "announcement:create",
    "announcement:delete", "report:read", "analytics:query", "file:upload", "file:read",
    "audit:read", "settings:read", "settings:update"},
  ACCOUNTANT |-> {
    "building:read", "unit:read", "resident:read", "owner:read",
    "charge:read", "charge:create", "charge:update", "payment:read", "payment:create",
    "accounting:read", "income:create", "expense:create", "accounting:update",
    "cashbox:manage", "report:read", "analytics:query", "file:upload", "file:read"},
  RESIDENT |-> {
    "charge:read", "payment:read", "payment:pay", "maintenance:read", "maintenance:create",
    "announcement:read", "file:upload", "file:read"},
  OWNER |-> {
    "unit:read", "charge:read", "payment:read", "payment:pay", "maintenance:read",
    "maintenance:create", "announcement:read", "report:read", "file:read"},
  TECHNICIAN |-> {
    "maintenance:read", "maintenance:update", "announcement:read", "file:upload", "file:read"}]

Roles == DOMAIN ROLE_PERMISSIONS

\* NULL is neither a permission nor a route.
ASSUME NullAssumption ==
  /\ \A role \in Roles : Null \notin ROLE_PERMISSIONS[role]
  /\ \A d \in Declared : d.route # Null

\* The guard, with the roles of the request's user.
Permits(roles, p) ==
  \/ p = Null
  \/ "SUPER_ADMIN" \in roles
  \/ \E role \in roles : p \in ROLE_PERMISSIONS[role]

-----------------------------------------------------------------------------
(* The rows of the user *)

Row == [role : Roles, building : {Null, Here}]

RoleKeys == {rows[i].role : i \in DOMAIN rows}

BuildingKnown == \E i \in DOMAIN rows : rows[i].building = Here

InitAccess ==
  /\ rows \in {<<row>> : row \in Row}
  /\ expected = {rows[1]}

\* Mutant: the index does not cover the building either.
TakenNever(row) == FALSE

\* The lookup of an earlier row throws when the building is NULL, which reads
\* as not found, and the unique index ignores NULL: only a row for a building
\* is refused the second time, by the lookup or by the index.
Taken(row) == row.building = Here /\ \E i \in DOMAIN rows : rows[i] = row

assignRole(row) ==
  /\ ~Taken(row)
  /\ rows' = Append(rows, row)
  /\ expected' = expected \cup {row}

\* The row is deleted by its id.
revokeRole(i) ==
  /\ rows' = [j \in 1..(Len(rows) - 1) |-> IF j < i THEN rows[j] ELSE rows[j + 1]]
  /\ expected' = expected \ {rows[i]}

=============================================================================
