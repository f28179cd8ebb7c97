# Formal models of Saman, the building management system

This directory models the API of the repository (`src/apps/api`, NestJS 10,
Prisma 5, PostgreSQL) and its web client (`src/apps/web`: the tokens, and what
the pages query, offer and refresh) in TLA+. The models are translated from the
services under `src/apps/api/src/modules` and the pages under
`src/apps/web/src/app`; TLC checks them on small instances and TLAPS proves
every safety property of payments and accounting, maintenance, charge periods,
one-time codes, occupancy, announcements, sessions and the browser's tokens for all
instances.

## 1. The system

The API is stateless and meant to run as several instances behind a load
balancer or as serverless functions (`docs/architecture.md` §8,
`api/index.js`). All state is in PostgreSQL, every request is one asynchronous
handler, and handlers of different requests interleave at every `await`. A Prisma
transaction runs at PostgreSQL's default isolation level, READ COMMITTED.

| Component | State | Operations that change it | Talks to |
|---|---|---|---|
| Payments (`payments.service.ts`) | `payments`, `payment_transactions`, `charges.paidAmount/status` | `recordManual`, `initiateOnline`, `verifyOnline`, `applyToCharge` | gateway, accounting |
| Gateway adapter (`payment-gateway.service.ts`) | none; the gateway's own state is external | `request`, `verify` | payments |
| Accounting (`accounting.service.ts`) | `cashboxes`, `ledger_entries`, `income_records`, `expense_records` | `recordMovement`, `createIncome`, `createExpense`, `createCashbox` | payments |
| Charges (`charges.service.ts`) | `charge_periods`, `charge_items`, `charges` | `createPeriod`, `approvePeriod` | calculator, units, notifications |
| Charge calculator (`charge-calculator.ts`) | none | `calculateCharges`, `calculatePenalty` | charges, seed |
| Maintenance (`maintenance.service.ts`) | `maintenance_requests`, `maintenance_comments` | `create`, `changeStatus`, `assign`, `addComment` | notifications |
| Notifications, announcements | `notifications`, `announcements`, `announcement_reads` | `create`, `createMany`, `markRead`, `markAllRead`, `remove` | called by charges, maintenance |
| Auth (`auth.service.ts`) | `sessions`, `otp_codes`, `users` | `register`, logins, `refresh`, `logout(All)`, `requestOtp`, `verifyOtp`, password changes | web client, SMS |
| Web client (`apps/web/src/lib`) | tokens in `localStorage`, one shared refresh promise per tab | interceptors, `logout` | auth |
| Pages (`apps/web/src/app`) | the roles `loadMe` has stored, the cache of query answers | queries, buttons, `invalidateQueries` | every route |
| Buildings, residents | `units`, `floors`, counts on `buildings`, `residents`, `owners`, `leases` | CRUD, `recountUnits`, `createLease` | charges, announcements |
| RBAC, users | `roles`, `role_permissions`, `user_roles`, `users` | `assignRole`, `revokeRole`, `updateRolePermissions`, `setActive` | guards |
| Audit, files, reports, dashboard, analytics, HTTP shell | insert-only rows, objects, nothing | inserts and reads | all |

What is hard about it, and what makes each part correct:

- **Read, decide, write.** Almost every handler reads rows, decides and writes
  absolute values later, without locks or versions: balances, paid amounts,
  statuses, attempts, counts. A component is correct if what it writes still fits
  what is there: balances equal the sum of movements, a charge shows what was
  paid for it, a status moves along its table.
- **Work outside transactions.** Notifications, counts, roles and the gateway
  are called between or after transactions; an instance can end in between.
  Correct: nothing is half done inside, and what was promised outside happens.
- **Messages of others.** The gateway's callback arrives zero, one or several
  times and carries a status of its own; the browser retries and has several tabs.
- **Row locks.** `verifyOnline` locks up to three rows in one transaction.
- **Arithmetic.** Shares are rounded one by one; totals of zero are replaced by one.
- **Dates.** Days are typed in the Jalali calendar, stored as instants, shown in the
  local time of the server, and asked for in ranges of UTC. Correct: a document is
  reported under the day it was entered for, and under no other.
- **Derived columns and figures.** Counts of units, the resident of a unit, debts
  and balances are computed in several places by statements of their own.
  Correct: they agree with the rows, and with each other.
- **Conventions kept by hand.** Which permission a route, a page and the sidebar name, and
  which cache keys a button must tell of what it wrote, is repeated over dozens
  of files. Correct: nobody is offered what is refused, and a change is seen.

`PROJECT.json` lists the components and, under `hazards`, each of these places
with its line and the properties that cover it; the one without a property has
a note that says why.

## 2. The modules

| Module | Models | Composes |
|---|---|---|
| `Ledger` | abstract: what the accounting of a building promises | |
| `Accounting` | requests, transactions, `createIncome`, `createExpense`, `createCashbox`, `recordMovement` | |
| `Payments` | `recordManual`, `initiateOnline`, `verifyOnline`, the gateway | extends `Accounting`, implements `Ledger` |
| `Figures` | the figures computed from those tables: debtors, debts on the dashboard and in units, reports, chart, cashboxes, and the dates they are asked by | extends `Payments` |
| `SumTheorems` | lemmas about sums over finite sets | |
| `PaymentsProofs` | theorems about charges, transactions, captured money, row locks, cashboxes, the refinement of `Ledger`, the figures and typed dates | extends `Figures`, `SumTheorems` |
| `ChargePeriods` | `createPeriod`, `approvePeriod`, with units changing | |
| `ChargePeriodsProofs` | theorems about periods | extends `ChargePeriods` |
| `ChargeCalculator` | `calculateCharges` as operators | |
| `ChargeCalculatorProofs` | theorems about the charges calculated | extends `ChargeCalculator`, `SumTheorems` |
| `Maintenance` | the ticket handlers | |
| `MaintenanceProofs` | theorems about tickets | extends `Maintenance` |
| `OneTimeCodes` | `requestOtp`, `verifyOtp`, `resetPassword`, `register`, with the clock | |
| `OneTimeCodesProofs` | theorems about codes and roles | extends `OneTimeCodes` |
| `Occupancy` | units, floors and their counts, residents, owners, leases | |
| `Announcements` | `create` with audience and fan-out, `remove` | extends `Occupancy` |
| `AnnouncementsProofs` | theorems about counts, leases, and whom an announcement reaches | extends `Announcements` |
| `Sessions` | the table `sessions`: login, rotation, logout, mass revocation | |
| `WebClient` | the axios interceptors, logout and login of the browser, several tabs | extends `Sessions` |
| `WebClientProofs` | theorems about sessions, the browser, and the pages it shows | extends `WebClient`, `Screens` |
| `Access` | the permission of every route, the seeded roles, `PermissionsGuard`, `assignRole`, `revokeRole` | |
| `Screens` | the queries, buttons and gates of every page, and the query cache | extends `Access` |
| `MC*` | instances and symmetry sets for TLC | |

### How the models represent the program

*Requests.* A request is a process `r` that runs one handler once. `pc[r]` is
the await it is suspended at, `job[r]` what it was asked for and what it has
read. An action is what happens between two awaits, so actions of different
requests interleave exactly where handlers do. A request that is refused by a
validation or not-found check changes nothing and is left out, except where the
check itself is stale later.

*Transactions (`Accounting`, `Payments`).* A read inside a transaction sees the
last committed row and takes no lock. An `UPDATE` waits for the row lock
(`Free`) and adds the row to `held[r]`. What a transaction writes is applied in one
step when it commits (`Commit`, `CommitAll`), computed from what it read
(`sawBalance`, `sawPaid`); `Fail` rolls back and releases the locks at any
await, and stands for exceptions, the 5-second limit of interactive
transactions, and the end of an instance. In `Maintenance` and `ChargePeriods` a
transaction reads nothing and updates a single row, so it is one step.
`OneTimeCodes`, `Occupancy` and `Announcements` have no transaction of several
statements but `resetPassword`, whose batch is one step.

*History variables* are written by the models only and read by no guard. `posted`
and `collected` are the sums of committed movements and payments. `overlapped`
holds the rows on which a commit happened while another request had read them;
`crossed` (`Maintenance`) tells whether a request has ever started while another
was in flight. `rushed` and `shared` (`OneTimeCodes`) hold the purposes two
requests found without a recent code at once, and the codes two requests had
found before either was through. `stale` and `entangled` (`Occupancy`) hold the
tables whose last count was overtaken or never written, and the units whose
resident was last set by hand, or by a lease that was being made at the same time
as another one of the unit. `moved` (`Announcements`) holds the people whose row or unit has
changed since the announcement was accepted. `root`
names the login a session goes back to, `forked` the logins of which two
requests went on with one session, `escaped` those with a request in flight at
the last mass revocation, `sender` the tab of a refresh. `expected` (`Access`) is
what was assigned and not taken back; `lost` and the field `excused` (`Screens`)
tell of calls whose answer was lost and of answers that may be old. Properties
that end in `Unless...`, or name one of these, are conditional on it; the
condition is the exact extent of what the code leaves open.

*Serial behaviours.* The constant `Serial` of `Accounting` and `Payments` lets a
request start only when no other is running; what the handlers promise one at
a time, and what the figures show, is checked with it.

*Codes (`OneTimeCodes`).* One mobile number. A code is named by its place in the
table `otp_codes`, and what a user types is the name of a code, or 0 for one
never made. `verifyOtp` and `register` are a chain of single statements, each of
which may be the last (`Fail`). `verifyOtp` takes a code of any purpose
(`auth.dto.ts:58`), so a code to reset a password may be used there for a login,
or in `resetPassword`, which looks at no attempts and counts none.

*Occupancy and announcements.* `Change`, `CountRows` and `WriteCount` are the
three statements of `createUnit` (`AddUnit`, with a resident or none), `removeUnit`
and `createFloor`; `InsertLease` and `Occupy` the two of `createLease`. A behaviour
starts with any units, counted, so that no request is spent on making them. `Announcements` lets every step of
`Occupancy` happen between the two reads and the insert of `create`.

*Figures.* No figure is stored. Each is an operator over the committed rows,
translated from its query; they are compared in every state of `payments_serial`. A date
is an instant. One typed (`IsTyped`) is stored as an hour of its day (`DatedAt`,
`parseJalaliInput`), any other is the moment of the request or an ISO date. Months
are asked for by `MonthRange`, which is UTC and ends at 23:59:59.000
(`jalaliMonthRange`), and shown by `YearMonth`, which adds the zone of the server
(`jalaliYearMonth`, `toJalali`). Only the table of months (`StartOf`, `EndOf`) and
the month an instant lies in are those of the library `jalaali-js`, stated in
`CalendarAssumption`. `Lost` are the documents dated after the range of their month
and before the next one's.

*Tokens (`Sessions`, `WebClient`).* A JWT consists of the user, the purpose, the
second of signing and the expiry, so it is modelled by that second: two tokens
signed in one second are one string, and either matches the session of the other.
Requests are numbered in the order they are sent; a session is named by the
request that inserts it. `call[c]` is one use of the axios instance, `refreshing[t]`
the promise that tab `t` shares among its calls, `store` the `localStorage` all
tabs share. An answer is lost when a tab settles before its request is done.

*Pages (`Screens`).* A page is a set of queries (key, route, gate, tables shown)
and of controls (route, gate, tables written, keys told); the sidebar, links and
tabs decide which place can be reached. The query library is external and
modelled by what `providers.tsx` and the pages rely on: an answer counts as fresh
for 30 seconds, a query that mounts with an older answer is fetched again, and a
told key that is mounted is fetched at once. Tabs of one page keep the queries they
share; another page mounts its queries anew (`Remount`), even one it has in common
with the page before. Answers do not depend on each other,
so one behaviour follows one key, any of them. A user carries out one call at a
time. The forms see to that by disabling their button; the buttons to approve a
period, to remove a resident or an announcement, and those of a ticket
(`charges/[id]/page.tsx:43`, `maintenance/[id]/page.tsx:99`) do not, but each
answered call tells its own keys, so that the answer to one never stands for
another. An address typed by hand is not modelled; a place may be reached by any link.

*Gateway.* `request` issues an unused authority. The user pays or not
(`UserPays`), and only after the link was answered. `verify` confirms a captured
authority each time it is asked (codes 100 and 101); it may refuse at any time.
Callbacks are `verifyOnline` requests with any known authority, `OK` or `NOK`.

*Names.* Definitions have the names of the methods or statements they model;
`PROJECT.json` `map` gives the lines. A definition whose comment starts with
"Mutant" is a variant of the next one with a plausible bug; it is used only to
test that a property can fail.

### Abstractions

Amounts are small naturals; the DTOs require at least 1 and money is whole
rials. One building. Documents are named by the request that writes them, as a
request writes at most one. Audit entries, receipts, formatting, lists and search
are left out: no other state depends on them. The penalty column is part of
`Due`; nothing in the code writes it, and `calculatePenalty` is called with a rate
of 0 only (section 5). Creation of a row is atomic with its
nested rows, as Prisma wraps nested writes in a transaction. In
`ChargePeriods` the accounts of residents are fixed (`Reachable`). Doubles in the
calculator are exact quotients, rounded as `Math.round` does. In `OneTimeCodes`
hashing and the digits of a code are left out. A lease without a resident
changes no other row and is left out. The permissions of a role are fixed in
`Access`. In `Screens` a table is a name, and an answer is known by the last
control whose effect it does not show.

## 3. The runs

All cfgs that set `CHECK_DEADLOCK FALSE` do so because requests, moves and time
are bounded and the system may come to rest when all have run.

| Run | Bounds | What it shows |
|---|---|---|
| `payments_manual` | 4 requests, 2 cashboxes (none at the start), 1 charge of 2, amounts 1 and 2 | Under every interleaving and failure: a charge never shows more than was paid, charge and box are exact unless a commit overlapped a reader. |
| `payments_online` | 3 requests, 3 authorities, 1 box, amount 2, `FairSpec` | With duplicate, late and contradictory callbacks: every online payment is reachable from its transaction, SUCCESS always has its payment, books follow captured money; and every request that starts ends: no cycle of row locks, no lock left behind. |
| `payments_serial` | 3 requests of all six kinds, 2 boxes, 1 authority, 2 charges of 2 in one unit, amount 1, `Serial`; months of 2 days of 8 instants, the last 2 of which are the last second; servers in UTC and 3 instants ahead; one document at the very end of month 11, one typed for the last day of the year (or paid at its very end), one for the first day of the next | One request at a time, but with failures at every await: charges never go back, SUCCESS is final, and accounting implements `Ledger`; debts agree on every screen and are what was charged and not collected; a typed date stays in its month on every server and in every report; chart, reports, categories and cashboxes differ by what was lost at the end of months, and by nothing else. |
| `duplicate_callback` | 3 requests | Violation: see section 5. |
| `maintenance` | 3 requests, 1 ticket that is new, SUBMITTED or IN_PROGRESS, 2 people, 2 costs | Moves, comments and resolution date are right unless writes overlapped; the newest assignment always holds; people are told everything in order unless handlers crossed. |
| `periods` | 3 requests, 1 month, 3 units of which one has no reachable resident, `FairSpec` | One complete period per month; an answered approval has told everybody; an approved period gets announced unless an approving request fails. |
| `calculator` | up to 3 units of 3 sizes (one empty), 10 item lists, 5 formulas | Breakdown and totals add up to half a rial per rounding; growing a unit costs no other unit. |
| `codes` | 3 requests of any kind, one mobile, cooldown 1, validity 2, 1 attempt, clock to 3 | Codes are spaced, used once, by `verifyOtp` or `resetPassword`, and tried in `verifyOtp` within the limit unless requests overlapped on them; who registers has a role unless the request ended between its writes. |
| `community` | 2 requests, 1 unit that is there at the start or not, 1 floor, 2 residents, 1 owner, 1 announcement | Counts hold unless overtaken or cut short; a unit shows the resident of its newest answered lease unless he was set by hand or by two leases at once; an answered announcement has reached its audience among all who did not move meanwhile. |
| `web_client` | 2 tabs, 2 calls at a time, 3 requests, access tokens of 1 second, refresh tokens of 2, clock to 3 | Rotation leaves one session per login, logout and mass revocation leave none, unless two requests share a session or one is in flight; a browser at rest holds no dead token; one tab's calls never throw their user out; no call is forgotten. |
| `screens` | 3 moves of the user or an administrator, every page, role and key | What pages offer the server permits, apart from four named buttons and one list; a change shows on its page, apart from two named keys; a role taken back is gone. |
| `web_client_logout` | smallest | Violation: see section 5. |

*Why the bounds are enough.* Every race in these handlers is between a request
that has read a row and one that commits on it; three requests give two racers
and the request that sets the stage, the fourth a third racer or a late
duplicate. A charge of 2 with payments of 1 and 2 reaches PENDING, PARTIAL, PAID
and overpaid. Two boxes let counting and default selection differ, two
authorities let callbacks mix. The calculator divides 10 and 7 by totals that
leave remainders. With one attempt allowed and a code valid for 2, three requests
reach a code that is locked, expired, replaced, and used; the third can be the
one that asks for a second code. In `community` the unit is
there at the start, so that both requests can lease it, one after the other or at
once: the newer lease replaces the older one, or ends half-way and replaces nothing;
an announcement can find the one resident and miss the other. In `payments_serial`
each of the three documents may be of any kind, so that one of each kind meets the end
of a month, the end of the year and its beginning; three payments of 1 reach PENDING,
PARTIAL, PAID and overpaid. Three moves in `screens`
are a page opened, another one with its form, and the control; the answers of the
server and the library are not counted as moves. Where a bound might hide a case,
the theorems of section 4 have none.

The three seconds of the clock in `web_client` let both kinds of token expire, and
its three requests are a login and two racers, or a login, a rotation and what
undoes it.

*Symmetry* is used for requests, authorities, people, costs, units of the
calculator, residents, tabs and calls, where no definition tells them apart. The
runs with a liveness property use none.

*Fairness.* `FairSpec` assumes weak fairness of `Progress(r)`: an awaited answer
of the database or the gateway comes eventually and the event loop resumes the
handler. Nothing is assumed of clients, users, callbacks or failures.

## 4. The theorems

Checked by TLAPS for every value of the constants. The assumptions are the `ASSUME`s
of the modules only: amounts are positive naturals, opening balances integers,
months lie one after the other in the years looked at and the hour given to a typed
date is on its day in every zone (`CalendarAssumption`), limits naturals and lifetimes of tokens positive, the rates of a formula integers;
units, floors, charges, requests and cashboxes are finite, and `Issued` lists every
charge once; `None` is neither an identity nor a kind of request, `Null` neither a
route nor a permission nor a call, and identities of different tables differ. No
theorem bounds the number of requests, tabs, calls or rows, or the length of a
behaviour: `MaxMoves` and the bounds of the clocks are any numbers.

Two theorems whose property is no passing run's are proofs only: `DeadlockFree`,
which TLC sees through `EveryRequestEnds`, and `OnePaymentWhenSerial`, the other side
of the violation `duplicate_callback` shows. The theorems whose names end in
`UnlessOverlapped` hold in every interleaving, those that end in `WhenSerial` are what
the runs with `Serial` check; the second kind follows from the first where there are
both.

| Module | Theorem | States |
|---|---|---|
| `PaymentsProofs` | `TypeCorrect` | every variable keeps its type |
| | `PaidBounded` | a charge never shows more than was recorded for it |
| | `ChargeExact` | a charge shows exactly that, unless a commit on it overlapped a reader |
| | `TransactionsShowPayments` | a recorded online payment is reachable from its transaction; SUCCESS has its payment |
| | `MoneyIsBacked` | a recorded online payment was confirmed by the gateway, captured money has a transaction row |
| | `ChargeForwardUnlessOverlapped` | only a commit that overlapped a reader takes the status of a charge back |
| | `ChargeForwardWhenSerial` | nothing does, one request at a time |
| | `SuccessIsFinalWhenSerial` | a transaction that succeeded stays so, one request at a time |
| | `OnePaymentWhenSerial` | a transaction is paid once, one request at a time |
| | `DeadlockFree` | as long as handlers run, one of them waits for no row lock of another |
| | `BoxExact` | a balance is the sum of the committed movements, unless overlapped |
| | `ImplementsLedgerWhenSerial` | one request at a time, payments and accounting implement `Ledger` |
| | `DebtsAgreeUnlessOverlapped` | every screen shows the same debts, which are what is due and not collected, while no charge is overlapped |
| | `DebtsAgreeWhenSerial` | so they do always, one request at a time |
| | `TypedDatesAlwaysStay` | a typed date is shown under the month of its day in every zone, and reported in that month and year only |
| | `FinanceAgreesUnlessOverlapped` | when no request runs, chart, reports and cashboxes differ by the documents of the last seconds of months and by nothing else, while no cashbox is overlapped and if there was one from the start |
| | `FinanceAgreesWhenSerial` | so they are always, one request at a time |
| `ChargeCalculatorProofs` | `BreakdownsAddUp` | a breakdown adds up to its amount, exactly for lines, to five halves of a rial for a formula |
| | `PeriodsAddUp` | the charges of all units add up to what lines and base ask for, to half a rial for each unit and line; a MIXED period without items brings in its base once more |
| | `GrowingUnitsSpareOthers` | when a unit grows no other unit pays more |
| `MaintenanceProofs` | `TypeCorrect` | every variable keeps its type |
| | `MovesFollowTable` | a ticket moves along `TRANSITIONS` only, unless overlapped |
| | `DoneIsResolved` | a ticket has a resolution date exactly when it is DONE, unless overlapped |
| | `NewestAssignmentWins` | the assignee is the person of the newest assignment, whatever overlaps |
| | `TrailIsComplete` | the status comments of a ticket are its history, unless overlapped |
| | `EveryoneIsTold` | when no handlers crossed and none failed, requester and assignees have been told everything in order |
| `ChargePeriodsProofs` | `TypeCorrect` | every variable keeps its type |
| | `OnePeriod` | one period per month |
| | `PeriodComplete` | a period has the charges of all units its creator read |
| | `ApprovalAnnounced` | an answered approval has been announced to all who can be reached |
| `OneTimeCodesProofs` | `TypeCorrect` | every variable keeps its type |
| | `CodesWorkOnce` | a code of any purpose is used once, unless shared |
| | `AttemptsStayBounded` | `verifyOtp` answers no more wrong codes for one code than the limit, unless shared; of `resetPassword` nothing is said |
| | `CodesStaySpaced` | codes of a purpose lie a cooldown apart, unless rushed |
| | `RolesAreGiven` | a registered user has the default role, or his request is before that write or ended there |
| `AnnouncementsProofs` | `TypeCorrect` | every variable of `Occupancy` keeps its type |
| | `CountsAreExact` | the stored counts are the numbers of rows, unless stale |
| | `NewestLeaseIsShown` | a unit shows the resident of its newest answered lease, unless entangled |
| | `PostsTypeCorrect` | every variable keeps its type |
| | `AudienceIsReached` | an answered announcement told everybody meant once and nobody else, but for those who moved |
| `WebClientProofs` | `WebClientTypeCorrect` | every variable keeps its type |
| | `RotationLeavesOneSession` | a login has one heir at most, unless forked |
| | `LogoutLeavesNothing` | a logout that matched leaves neither a row nor a request of its login |
| | `RevocationIsComplete` | a mass revocation leaves no earlier login, unless in flight at that moment |
| | `NoCallIsForgotten` | a tab waits for a refresh exactly as long as one of its calls is held |
| | `StoredTokenIsLive` | a browser at rest stores no revoked token |
| | `NoSelfLockout` | a refused refresh was late, revoked, or had its token from another tab or a logout |
| | `OfferedPassesGuard` | what a page asks for and offers the server permits, but for the four buttons and the list named |
| | `OwnWritesAreShown` | an answer that stays on the screen is behind none of the user's answered changes, but for the two keys overlooked |
| | `RevokedRolesAreGone` | only a role for all buildings outlives being taken back |

*Payments.* The type invariant is not inductive alone: the step that commits needs
to know that the rows named in `job[r]` exist. `TypeInv` adds that each label comes
with the identities its next statements use (`JobsFit`), that a transaction row
names a charge (`TrxNamesCharge`), and that a callback works on a known transaction
(`CallbacksKnowTrx`). Exactness of a charge needs one more fact: whoever has read a
charge that is not `overlapped` has read its present value, so that a commit adds
its amount to exactly what is there; a commit by another request would have put the
charge in `overlapped`. That invariant gives the two theorems on charges together.
`StatusInv` adds that a status is what `ChargeStatus` makes of the paid amount, so
it goes back only where the amount does.

*Transactions.* `LinkInv` says that a row leads to a payment of its own authority,
charge and amount exactly from its first success on, that a callback past its first
read works on the charge and amount of the row, that authorities are given once, and
what the gateway must have said at each await. `SerialInv` is about serial
behaviours: one handler runs at a time, nothing is overlapped, and a callback past
its first read works on a transaction that has not succeeded.

*Row locks.* `LockInv` says what a handler can hold at each await: nothing before
its first update, gateway transactions at most while it is at the charge, charges
besides while it is at the cashbox. So whoever holds what another waits for waits
itself only for a later kind of row (`WaitsClimb`); there are three kinds, and the
end of the chain can go on.

*Cashboxes.* The same argument (`BoxCurrent`), with boxes that come into being:
`BoxesInv` says that a box being created does not exist yet and is created by one
request only, that movements name boxes that exist, and that nothing is posted on a
box before it exists. In the refinement a cashbox is opened when it is created, and
the book is its ledger entries; a movement is one posting when its transaction
commits (`CommitPosts`), every other step opens a cashbox or is a stutter. An
entry's document is committed (`EntriesHaveDocs`), so no reference is posted twice,
and a posting starts from the last balance because `SerialInv` leaves `overlapped`
empty.

*Figures.* A sum over a finite set is a recursive function of the community modules.
The library's induction theorems take an operator, which the provers cannot
instantiate, so `SumTheorems` does the induction over sets: a set of naturals with 0
and all successors is `Nat`, a set of subsets of `S` with `{}` that is closed under
adding an element has `S`. What follows is that any element can be taken out, and so
that sums can be split, compared, renamed, grouped and swapped. The debts agree
because a charge is PAID exactly when nothing remains (`StatusInv`): then the charges
one query leaves out by their status, and another by their rest, contribute zero
(`SumNonzero`). `MovementsInv` says that what is posted on a cashbox is the sum of
the documents that name it, `DocsInv` that every document names one if the building
has a cashbox. Without a cashbox `verifyOnline` records a payment and no movement
(`payments.service.ts:211`), and the two sides differ; hence the hypothesis
`SeedBoxes # {}`. Every document that is not `Lost` is in the range of exactly one
month (`ReportedIn`), and in the range of a year exactly when it is of that year and
either not lost or of a month before the last (`ReportedInYear`): the gaps between
months lie inside the one range `expenseByCategory` asks for. Documents are grouped
by month, category and cashbox (`SumGroups`), and the points of a chart are the months of a year and the one after (`MonthsBack`,
by induction over the months gone back). A typed date has an hour that lies on its
day in every zone and before the last second of it, which is all
`TypedDatesAlwaysStay` needs of the calendar.

*Charge calculator.* A rounded quotient lies within half of its exact value, and
does not grow with its denominator (`RoundRialApart`, `RoundRialShrinks`). The shares
of one line over all units have numerators that add up to the amount times the
denominator, so their sum is off by half a rial for each unit at most; the table of
units and lines is then summed by columns instead of rows (`SumSwap`). When every
unit weighs nothing, the total is replaced by 1 and the line is paid by nobody.
`ResultInv` says that a result on display was computed from the units as they are.

*Maintenance.* A handler that works on a ticket not in `overlapped` saw the row as
it is now, so the check of `changeStatus` still holds when it writes, and the status
`assign` writes back is the present one. Together with "resolved exactly when DONE"
of the rows this is inductive. `HistoryInv` adds that no status comment ends at
SUBMITTED, where an assignment would move the ticket without a comment of that kind;
with it the comments stay a chain up to the present status. The assignee needs no
such condition: only an assignment writes the column, in one step with its comment,
and the author of a comment never writes again (`AuthorInv`). `ToldInv` counts:
while handlers have not crossed and none failed, the requester has been told the
status comments in order, all of them but the one whose notification is still to
come.

*Charge periods.* A request that has created a period is over, so what it was asked
and what it read stay what they were; with that, "no two periods of one month"
(`MonthsDiffer`) and completeness are inductive. Announcement uses `ToldOrToTell`:
for a request that approves, every reachable charge of its period has been told
or is still in the request's loop, and the loop of an answered request is empty.
No later step adds a charge to the period.

*One-time codes.* `UseInv` says what a request that still holds on to a code may
rely on: a used code is consumed, so it is never found again; a code that is not
`shared` has one holder at most, and none once it was used; and a holder about to
count a wrong code has found the limit not reached. `MissInv` adds that the attempts
of a code are the requests `verifyOtp` has told of a wrong code for it, which ties the
bound on the column to the answers people get. `SpaceInv` says that a request
about to make a code is alone with its purpose and that the open codes of the
purpose are old enough, which stays true as the clock advances.

*Occupancy.* `FreshIsExact` adds to the counts that a number read and not
overtaken is still right, so that writing it is. `LeasesFit` adds to
leases that each was made by one request, which still has its row and resident in
hand until it is through, and that one about to set its resident is the newest of its
unit as long as it has met no other; if another was being made at the same time,
setting the resident makes the unit `entangled`.

*Announcements.* `Known` says for each await of `create` what is known of a person
nothing has happened to: not yet told, found exactly when in the audience the
statements so far have read, told exactly when found. A step of `Occupancy` that
does not touch the person changes neither audience (`UntouchedAudience`).

*Sessions.* Requests are sent in the order of their numbers, and a session goes back
to a login that was sent (`SessionInv`). `RotationInv`, of a login that is not
forked: the rows and requests that descend from it are one at most, whoever is about
to revoke or delete has matched that one, and after a logout that matched there is
none. `RevocationInv`: whatever is, or may yet become, an unrevoked session of a
login older than a mass revocation is in `escaped`.

*Browser.* `ClientInv` ties each open call to a tab and each waiting tab to a
request of its own. `StoreInv` follows a token: what is stored or presented was
delivered by an answer; a revoked row was matched by a request that presented its
token, unless there was a mass revocation; and whoever presented a token is waited
for until the store has forgotten it, unless two rows have it. `PresenceInv` counts:
a tab has presented a token at most as often as the token was delivered, once less
while it may present it again. A refresh that is refused without an excuse would
have found every row of its token matched by another request of its tab, one more
than the tab can have sent.

*Pages.* `Gate` gives for each page a permission that whoever is on it has: that of
its entry in the sidebar, of the page its tab belongs to, or of the page that links to
it (`PlaceInv`). Then two facts about the tables are enough: each query of a page
needs a permission its gate implies for every seeded role (`QueriesAreFit`), and each
control needs the permission it is offered with, or such a one (`ControlsAreFit`).
These go through every page and every route once; what remains holds for a use of any
length.

*Cache.* `ControlsDoTell`: each control of a page tells each key of that page whose
query shows what the control writes, unless it overlooks it, or only its own form
mounts the query. `CacheInv` carries that through a call. An answer that is on the
screen, not fetched again, and without excuse (`Standing`) is heeded by the call
under way, if that writes what it shows, or is no longer behind. Going to another tab keeps this
because tabs mount a shared query outside forms or none does (`TabsAgree`); going to
another page mounts the query anew, so its answer is excused or asked for. The proof
of that step has corrected the model: it treated the list of roles, which two pages
have, as mounted throughout.

*Roles of a user.* `RowsInv` adds that no role is held twice for a building, so that
taking back the one row leaves no other.

*Only model-checked:* liveness (`EveryRequestEnds`, `ApprovalAnnounces`) and
everything about `ENABLED`, which are outside the prover's reach. The theorems about
serial behaviours fail without `Serial`, as section 5 tells.

## 5. Where code and documents differ

Each is a run that TLC must find violated, and an entry of `findings`:

1. `duplicate_callback`: two callbacks in flight at once record one transaction
   twice.
2. `web_client_logout`: a logout with an access token that has expired rotates
   the session and then presents the old refresh token; the new session stays.

The same models show more of what the code leaves open; the conditions of the passing
properties state it, and no run of its own repeats it:

- two overlapping movements of a cashbox lose one from the balance
  (`accounting.service.ts:45`), overlapping payments can take a charge from PAID
  to PARTIAL, and a CANCELED or FAILED transaction is taken up again by a later
  callback (it has to be for FAILED: the money may be captured);
- two approvals of one draft can both succeed, and one that ends early leaves
  residents untold for good (`charges.service.ts:149`);
- the range of a month ends at 23:59:59.000 (`jalali.util.ts:102`, there described as
  the first and last day of the month): what is dated in the 999 milliseconds after it
  is in no monthly and no yearly report, and, but at the end of a year, in the
  expenses by category only. A day typed in the Jalali calendar is never one of
  them; a payment dated by the moment it was made, or an ISO date, can be;
- a MIXED period without items charges its base again, by a line the comment before it
  makes up for the simple methods (`charge-calculator.ts:81`, and `:42`, which knows of
  the base and the items only); `ChargesAddUpToPeriod` names this as its exception;
- overlapping requests can move a ticket along a transition the table does not have;
- two requests that overlap can make two codes at once, try one past the limit,
  and use it twice; a registration cut short leaves a user without a role for good;
- `resetPassword` neither looks at the attempts of a code nor counts a wrong one
  (`auth.service.ts:202`), so that the limit is one of `verifyOtp` only;
- two changes of units at once can leave the older count, until the next change;
- a failed announcement stays published with nobody told;
- two tabs that refresh at once leave two sessions, or one of them clears the
  tokens of both;
- a role for all buildings can be assigned twice, and is then still held after it
  was taken back once (`rbac.service.ts:43`);
- a new unit does not refresh the number beside its building
  (`buildings/page.tsx:112`), nor a new period the list of debtors; four buttons
  are offered without asking whether the user may, and the list of technicians is
  asked for with a permission that does not open it.

Read in the code, without a model of it:

- the penalty said to be calculated at the time of payment (`charges.service.ts:234`)
  is calculated with a rate of 0 and not used (`payments.service.ts:124`). What is
  counted is the column `penaltyAmount`, which nothing writes; `penaltyPerDay` of a
  period, for which the form proposes 50,000 rials, is used nowhere. A charge paid late
  is settled by its amount alone;
- a typed date is stored at 8:30 UTC, where the comment says noon
  (`jalali.util.ts:81`): on a server nine or more hours west of Greenwich it is shown
  as the day before, which `CalendarAssumption` excludes. A Jalali date typed with
  dashes and two digits for month and day is taken for a Gregorian one (`:67`);
- the present month is read in the local time of the server and its report asked for
  in UTC (`dashboard.module.ts:19`, `analytics.service.ts:162`), so that they may be
  two different months for some hours; which zone a deployment has no document says;
- a bootstrap of the serverless entry that fails once stays cached as a rejected
  promise, and every later request of the warm instance fails (`api/index.js:51`).

## 6. Not modelled

- *Audit log*: inserts after the fact whose failure is swallowed; no state
  depends on them. *Files*: object storage and one row per upload. *HTTP shell*,
  formatting, receipts, shared types and visual components: no state, or a
  library's. Of the calendar only what `jalaali-js` computes is external.
- *Notifications*: the read marks, and the polled number of unread ones, are
  single updates of rows nothing else reads. The same holds for `markRead` of
  announcements.
- *`updateRolePermissions`*: no page calls it. It deletes and inserts in one
  transaction without a lock, so that two at once can leave a role with the
  permissions of both; `Access` takes the permissions of a role as fixed.
- *Analytics*: keyword matching, wording and the suggested charge; its figures
  about money are in `Figures`. Counts of tickets in reports are plain counts.
- *Forms outside `(app)`*: that of the login is in `WebClient`; registration and
  passwords only call routes of `OneTimeCodes`.
- *Updates of a building, a person or a profile*: single rows whose columns no
  other statement reads before it writes.

What could still be proved: `RevokedIsGone` for several users and buildings at once,
and that what `Screens` allows of the cache holds for several keys together; both are
products of what is proved for one.
