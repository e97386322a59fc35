# Verification of ticket-sales

TLA+ models of a multi-tenant ticket shop, the TLC runs that check them on small instances, and
theorems about them that TLAPS checks for every instance.

`src/` is a pnpm monorepo: domain logic in `packages/core/src/modules` (a service and a Prisma
repository per module), the HTTP routes, the panel and the public pages in `apps/web`
(`lib/services.ts` is the composition root), the schema in `packages/db/prisma`, clients of the
payment provider, cache, mail and image storage in `packages/adapters`. It runs on serverless
functions over one Postgres database per organization, plus a platform database for routing and
accounts.

## 1. The system

Paths are relative to `src/packages/core/src/modules` unless they start with `apps/` or `packages/`.

| Component | State | Operations | Meets |
|---|---|---|---|
| inventory | sales batches (status, total, sold, reserved), event capacity, one reservation row per order and batch | reserve, confirm, release; create and resize a batch, open, close; change the capacity | orders, staff |
| orders | `Order.status`, expiry, items, the buyer's columns | create and price, mark paid, settle a refund, expire due orders, anonymize the buyer | inventory, offers, promoters, payments, customers, jobs |
| payments | `Payment`, `PaymentEvent` | charge by Pix or card, process a webhook, reconcile | provider, orders, and through the composition root tickets, promoters, finance, customers, mail |
| tickets | `Ticket.status`, token hash | issue, block, unblock, rotate tokens, transfer, void on refund | payments, check-in, support |
| checkin | `Checkin` row per admitted ticket, operator assignments | validate, admit by hand, undo, build the offline pack, synchronize a batch | tickets, devices |
| offline check-in client | pack, used tokens and queue in `localStorage` | validate locally, fall back, synchronize | checkin |
| finance | append-only `LedgerEntry` | post a sale, reverse it, register payouts, summarize | payments, promoters |
| promoters | promoters and report tokens, assignments, links, coupons, rules, attributions, commission entries | set up, resolve a discount, attribute, accrue, reverse, report | orders, payments, finance |
| events | event status, slug, details, capacity, fee | create, edit, publish, pause, resume, close, postpone, cancel, complete, archive | routing, inventory, storefront |
| routing and tenants | `PublicRef`, `Tenant`, cached references, warm processes | reserve, resolve, build a producer's services | every public route |
| event page, storefront | `EventPage`, `OrgLandingPage`, uploads | load, edit, save, preview, upload | events, routing |
| offers | products and offers | edit, list for the checkout, resolve a selection | checkout page, orders |
| checkout page | the form's state in the browser | quantities, offers, look-up by phone, identity, coupon, order, payment screen | offers, customers, promoters, orders, payments |
| customers | `Customer` rows | record buyers and leads, recognize, opt out, segment, erase, retain | orders, fulfilment, checkout page, jobs |
| identity | memberships, invites | invite, accept, revoke, change a member's status | auth, every staff operation |
| auth | users, sessions, challenges and counters in the cache, the log-in form | log-in, federated log-in, second factors, enrolment, trusted devices, sessions | cache, identity |
| notifications, support, audit | own tables | mail, reads, append-only log | orders, payments |
| adapters, jobs, web | provider, cache, mail, storage; sweep and retention jobs; pages and routes | calls outwards; entry points | all |

How they interact. A visitor's address leads through the platform's references to a producer's
services, built once per process. The checkout page works on what it was loaded with and on a
masked answer about the buyer; the server prices the order and finds the buyer again. The order
reserves units; a charge request creates a payment at the provider; the provider notifies; the
webhook asks for the status and moves payment, order, units, commission, ledger, tickets and the
customer's row, one statement after the other and with no transaction around them. A scheduled
sweep (and, lazily, the buyer's own requests) expires orders that were not paid; a retention job
anonymizes. At the gate, devices validate online or against a downloaded pack and synchronize
later. Components share database rows; the only messages are the provider's notifications and the
devices' batches. Staff work in tabs whose pages may be old.

What makes it hard, and what correct means for each part:

* **inventory/orders**: concurrent checkouts, payments, sweeps and staff edits on shared counters;
  processes that stop between "order" and "units". Correct: counters equal the rows, no oversell,
  a hold follows its order's payment, unpaid units come back, paid units are sold.
* **payments** (with tickets, promoters and finance as one order sees them): notifications that are
  repeated, late, concurrent or out of order; requests that stop half-way; calls whose errors are
  dropped. Correct: a payment never moves back, an order is paid and has tickets only with an
  approved payment, what was acknowledged is applied, a refund reaches everything.
* **checkin/tickets/devices**: several gates, lost answers, offline admission, an undo, a refund in
  the middle. Correct: one online acceptance per undo, a row per admission, void tickets stay void,
  offline conflicts are told, offline admissions arrive.
* **finance/promoters**: balances read before they are spent, limits checked before they are
  counted, rounding line by line. Correct: every cent is somebody's, commission and ledger agree, a
  refund nets to zero, redemptions stay within their limits, and so do each person's payouts.
* **identity/auth**: check-then-act on memberships, invites, secrets and sessions. Correct: the
  last owner ends only in a race, an invite makes one member, what is enabled was proven, a killed session
  stays dead.
* **events/routing**: two databases that are never written together, unguarded status writes from
  old pages. Correct: an address leads home, what is on sale is complete.
* **editors**: edits, uploads and saves that overlap, answers that are lost. Correct: what reads as
  saved is stored.
* **checkout page**: answers that come after the question changed, prices that are old. Correct: the
  order is the one that was reviewed.
* **customers**: erasure in two writes, beside fulfilments and look-ups. Correct: what was erased
  stays away.

`PROJECT.json` lists the components with their status and, under `hazards`, each of these dangers
at the line where it bites.

## 2. Modules

| Module | Contents |
|---|---|
| `Carts` | what orders ask for; the units a set of rows amounts to |
| `Allocation` | abstract: orders take all their lines or none, then keep or return them |
| `Inventory` | orders, rows, counters, sweeps, handlers, staff requests; implements `Allocation` |
| `Sums` | lemmas on sums over finite sets |
| `CartsProofs`, `InventoryProofs` | lemmas on counting units; theorems about `Inventory` |
| `PaymentsProofs`, `CheckInProofs`, `BooksProofs`, `AccountsProofs`, `StoreProofs` | theorems about the module named, `StoreProofs` about the store's five modules together |
| `Payments` | one order's charges, notifications, fulfilment and refund settlement |
| `CheckIn` | one order's tickets at the gate: requests, devices, support operations |
| `Pricing` | percentages, discounts, totals and commission, as server and page compute them |
| `Books` | checkout amounts, attribution, commission, ledger and payouts of several orders; extends `Pricing` |
| `SignIn` | log-in, second factors, enrolment, trusted devices, sessions and the log-in form |
| `Accounts` | invites, memberships, roles and the panel's requests; extends `SignIn` |
| `Catalog` | events, slugs, references, tenants, the life cycle as the panel drives it |
| `Editors` | the page editor and the storefront editor; extends `Catalog` |
| `Promoters` | promoters, report links, coupons and rules as staff set them up; extends `Catalog` |
| `Customers` | buyers, leads, recognition, opt-out, erasure and retention; extends `Catalog` |
| `Shop` | the checkout page and the server's side of it; extends `Customers` and `Pricing` |
| `Store` | the composition of `Catalog`, `Editors`, `Promoters`, `Customers` and `Shop` |
| `MCInventory`, `MCPayments`, `MCCheckIn`, `MCBooks`, `MCAccounts`, `MCStore` | the instances TLC checks |

Definitions carry the names of the functions they translate (`createOrder`, `confirmForOrder`,
`applyEvent`, `refundTicketsForOrder`, `resolveUniqueSlug`, `anonymizeRecord` as `anonymizeBuyer`
and `anonymize`); the map in `PROJECT.json` gives the lines. Operators whose comment begins with
"Fault:" or "Mutant:" are not part of any specification: each is a wrong version of the definition
after it, with which some property fails.

### Conventions shared by the models

* **A step is a database statement or transaction.** `updateMany` with a status in its `where`, the
  conditional raw `UPDATE`s and unique keys are atomic; a transaction holds its row locks until it
  commits, so that it is one step, and one that throws has no effect. Between two statements of a
  handler everything else may happen. Two transactions that lock rows in opposite order are
  resolved by Postgres, which aborts one of them: again no effect.
* **What is read and used later is kept in the process**: the handler's order, the sweep's list, a
  staff request's reads, the provider's answer, a synchronization's item, a tab's page, a
  retention run's rows.
* **Every process may stop between two steps** (timeout, deploy, failed call), within a bound, and
  an answer may be lost on its way to a browser.
* Audit records, logs, e-mails and texts are left out: no decision in the modelled code reads them.

### Inventory

`createOrder` is the checkout from its checks to its transaction; `fits` is the `WHERE` of
`reserveOrderLines` for every line. `markOrderPaid` and `confirmForOrder` are the two statements of
the payment handler; `SweepList`, `SweepExpire`, `SweepSkip` and `releaseForOrder` those of
`expireDueOrders`; the lazy sweep of checkout and lookup is another `Sweeper`. `DueOrders` is the
list query, which returns any orders with a due ACTIVE row, at most `limit`. Staff requests read,
check and write in separate steps (`editor`). Left out: the event's status and sales window, the
per-order maximum, ticket types; prices are in `Books` and `Shop`. The schema has no CHECK
constraints, hence none here. `reserveForOrder` has no caller outside tests.

`Allocation` is its abstract specification, under `quota <- total, claim <- row`: counters,
processes, crashes and order status disappear, and what remains is that an order takes all its
lines or none, only while they fit, and gives the hold up once.

### Payments

One order. A worker is an HTTP request (a charge, a delivery, a status lookup that reconciles) at
`step`, which names its next statement; `Continue` lists them in the order of the code. `tx` and
`notice` are the provider's charge and its notifications. A notification is processed when it was
answered with 200 and may be delivered again until then, which is what the event table's states
are for. `Fails` is a failing call: `Swallowed` names the steps whose errors the code drops and
where it goes on; any other failure ends the request, with the event FAILED for a webhook. `Dies`
leaves the event RECEIVED. The confirmation of units that follows `markOrderPaid` is Inventory's;
the check-in of an issued ticket is CheckIn's. A Pix charge is not approved after the order is due,
because it is created with the order's expiry.

### CheckIn

One order's tickets. `pack`, `used` and `queue` are a device's `localStorage`; a device may at any
moment act online (a request) or offline (`scanOffline`). It stops waiting for a request when the
network drops (`loseScan`, `loseSync`), while the request goes on, and falls back to its pack then
and on any answer that is not 200. A token is a ticket and a rotation number: old copies of a QR
code may still be scanned offline. `claim` and `record` are the two statements of `admit`; the loop
of `syncOfflineBatch` is `syncFind`, `syncExisting`, `syncCreate`, `syncMark`. `accepted`, `offline`,
`told` and `undos` are history: how often operators saw a ticket accepted, whom a device let in by
itself, what a synchronization answered, how often a check-in was undone. Scans that are refused change nothing and are not steps. The manual admission
carries no device here (`Desk`); two browser tabs of one device are one device. Left out: operator
assignments, sectors, the dashboard.

### Pricing and Books

Amounts are cents, and the arithmetic is the code's: `percentageOf` rounds half up
(`shared/money.ts`), the page repeats the server's formula with its own clamps (`shownTotal`), the
most specific commission rule applies and the oldest of equals. In `Books` a worker handles one
notification of the provider, one statement a step: order, accrual, redemption, ledger, or the
settlement of a refund; `Recovery` names where a handler goes on after a call that throws, and
`settlementThrows` is the refund whose first call, the order's, throws. A payer
and a manager are staff with a request in flight. The unique keys (order and type of a commission
entry; order, account and type of a ledger entry, with `skipDuplicates`) make handling twice
harmless. Payments decides when a notification comes; here any order of approvals and refunds may.

### SignIn and Accounts

A secret is its number, a code right or wrong. A call is one action where no other request can
change what it read before it writes; enrolment, backup codes, session renewal, invites and member
status are read and written in two. `counter` is the cache's INCR with its EXPIRE, which a request
may stop before; `challenge` a one-time token, `browser` the log-in form as `login-form.tsx` holds
it, including what it keeps when a step is refused or its answer is lost. `stale` records which
writes used a value that had changed since it was read, so that a property can say exactly which
race it leaves out.

### The store

`Catalog`: slug, row and reference of an event are written one after the other (`submitNewEvent`,
`createEvent`, `routeEvent`), producers have databases of their own (`Db`), `kept` is the cache of
references and `warm` the producers each process has built services for. A tab shows an event as it
was loaded, offers what `salesActions` and `lifecycleActions` give for that status, and the request
checks the status it reads (`runConfirmed`) before it writes without a guard (`transition`).
`Editors`: a page is a row of blocks; the editor loads it once, `save` sends all of it, `updatePage`
writes it, `answer` puts what was sent on the screen; uploads come back to the section as it was
when they began. `Promoters`: a token is written, then reserved, then shown. `Customers`: a row per
e-mail, orders with their own copy of it, fulfilments and jobs as workers that have read rows and
have still to write; erasure is `anonymizeBuyer` (orders), then `anonymize` (customer). `Shop`: a
buyer's form (`buy`), its request (`req`) and payment screen (`pay`) over a `shelf` that staff
change; look-ups are in flight (`asks`) and only the one for the present phone counts. `Store`
interleaves them; `left` is a budget per kind of event that bounds them, and each scenario of
`MCStore` gives budgets to one or two kinds.

Left out: the event's sectors and texts, ticket types, participants' names, UTM parameters, ranking
and lists, the resending of tickets by the payment screen (rotation is in `CheckIn`).

## 3. Runs

| Run | Kind | Instance | Shows |
|---|---|---|---|
| `checkout` | pass | 3 orders on 2 batches, 2 handlers, 2 sweepers, 2 crashes, no edits | `CountersMatchRows`, `NoOversell`, `HoldsFollowPayment`, and the refinement `AllocationSpec` |
| `staff` | pass, fair | 2 orders, 2 handlers, 2 sweepers that take one order, 2 staff requests at the same time, a batch created later, no crash | `OverbookingBounded`, `SellsOnlyWithinTotal`, `DueHoldsEnd`, `PaidHoldsConfirmed` |
| `safety` | pass | a card charge, 2 requests, 1 crash, 1 failed call | `PaidMeansApproved`, `TicketsOnlyForPaid`, `AcknowledgedIsApplied`, `PaymentNeverRegresses` |
| `settlement` | pass, fair | 2 Pix attempts, 1 request at a time, 2 items, 1 crash | `PendingPixBounded`, `PaidGetsTickets`, `RefundReachesOrder` |
| `swallowed` | violation, fair | 1 request at a time, 1 failed call | `RefundReachesOrder`: a refund may stop half-way and be acknowledged |
| `refreshed` | violation | 2 requests for a Pix charge at the same time, nothing fails | `OnePendingPix`: two charges of one order wait to be paid |
| `gate` | pass | 2 devices and the desk, 2 requests, 3 scans, 1 undo, 1 support operation or refund, 1 crash | `AcceptedOnceOnline`, `AdmissionRecorded`, `OfflineConflictsTold`, `VoidStaysVoid` |
| `sync` | pass, fair | 2 devices, 2 scans, 1 lost answer, 1 support operation | `AdmissionsArrive` |
| `books` | pass | 2 orders, 1 promoter with a limited coupon, 3 notifications on 2 workers, 1 change, 2 payouts, 1 fault | `MoneyConserved`, `LedgerMatchesCommission`, `RefundNetsToZero`, `CouponWithinLimit`, `PaidOutWithinEarned` |
| `accounts` | pass | 2 browsers, 2 owners, an invited person, an administrator; 5 configurations of sign-in and 2 of staff work | `LastOwnerEndsInRace`, `InviteMakesOneMember`, `EnabledAfterConfirmed`, `KilledSessionStaysDead` |
| `store` | pass | 2 producers, 3 tabs, 3 events, 2 people, 2 orders, 2 workers, 1 buyer; 14 scenarios | `AddressesLeadHome`, `PublishedIsComplete`, `SavedMeansStored`, `ErasedStaysErased`, `OrderAsReviewed` |
| `returning` | violation | a contact who is erased and comes back | `RetentionReachesAll`: the second erasure is refused for good |

The passing runs whose module has one also check a type invariant (`StoreTypeOK` joins those of the
five modules of the store). Each property of a passing run has a mutant in `PROJECT.json`, a
definition of the code changed the way a mistake would change it, with which the same run fails.

**Bounds.** *Inventory*: the carts are chosen so that every pair of orders competes: two for the
first batch, all three for the second, which the first to come exhausts; one order has two lines,
so that "all or none" can fail on the second. Two handlers and two sweepers give every race of two
of a kind; a third would only repeat one. In `staff` sweeps take one order, the smallest limit and
the one under which an order can wait for others, and the two staff requests overlap in every way;
two edits are enough for both to pass the check on the same sums. *Payments* follows one order because orders meet
only in inventory; two requests give the races of card answer, webhook and reconciliation, and
`MaxAttempts` two the retry with a second key. `settlement` keeps one request at a time for its
liveness properties, so that its bound on waiting Pix charges is one there; `refreshed` has the two
requests that exceed one, and the proof any number. *CheckIn*: one ticket is enough for properties of
single tickets: tickets share only a synchronization's batch, whose items are independent. Three
scans are needed for an acceptance, an undo and two acceptances that race after it. *Books*: prices
and rates (333, 1001, 999 cents; 10 %, 10.5 %, 7.5 %) whose shares do not come out even, a fixed
coupon larger than one order's tickets, fee modes of both kinds, and three notifications, which is
an approval, its repetition and a refund. One person pays promoters, for whom the bound on payouts
is exact; the proof has any number. *Accounts*: every set of second factors, three or four
requests at the form, limits of two attempts so that they are reached; three staff requests are two
that race and one after them, and the end of an invitation, `clock`, is combined
with two. *Store*: the scenarios are families, since actions of different
modules meet only through events, customers and orders: creation with equal titles; a draft that
lacks a detail and the batch; paused and closed events with old pages; visits with suspensions;
editing with a lost answer and on a terminal event; the storefront; promoters; erasure with
fulfilments and months passing; and the checkout with phones of two people, one phone for two,
none known, beside the customers' operations and beside staff changing what is on sale. Symmetry is
used where only safety is checked, on workers, devices and tabs of one producer, which no constant
distinguishes.

**Fairness.** `Inventory`: a request that is alive goes on, and the sweep runs every minute
(`apps/web/src/app/api/jobs/sweep/route.ts`). `Payments`: time passes, the sweep runs, a worker goes
on, and the provider repeats a notification until it is answered with 200, as its contract says and
`payments/service.ts` relies on. `CheckIn`: a request goes on, and a device synchronizes when the
connection returns, when the event is opened and by a button (`checkin-console.tsx`). Weak fairness
only. Nobody is obliged to pay, refund, look up an order, scan or undo. The other modules state
none: what they promise is safety, since nothing in the code repeats a request of a browser or
finishes one that stopped.

### Where code and documents disagree

The violation runs, each with the quoted line in `findings`:

* `swallowed`: errors of the refund settlement are dropped and the event is PROCESSED, so that the
  redelivery the comment counts on does not come.
* `refreshed`: `chargePix` looks for a pending charge, asks the provider and stores the row in three
  statements. Two refreshes of the page at once both find none, and the second takes the number
  after the first one's row: two Pix charges wait, against FR-CHK-016 and the comment at
  payments/service.ts 123-127.
* `returning`: the pseudonym of an e-mail is the same at every erasure and unique per organization.
  Who left data again after an erasure cannot be erased a second time, and the retention run ends
  there, at every attempt, though it is said to be idempotent.

Seen while modelling; properties are stated so that they leave exactly these cases out and say so,
or say what holds of them, or the hazard's note tells:

* inventory: a sweep that stops after EXPIRED leaves the units on hold (orders/service.ts 491-494
  says otherwise), a handler that stops after PAID leaves them reserved (428); a resize that read
  the committed units earlier writes a total below them; two staff requests at once check the
  capacity against sums the other changes, and the batches exceed it, against FR-INV-004 and
  inventory/service.ts 115-118 (`OverbookingBounded` says by how much).
* payments: a refund overtaken by the approval of the same charge leaves the order PAID
  (payments/service.ts 473); a mail that is not retried; a card charge stored between a Pix charge
  whose answer was lost and its retry changes the key of the retry (182, 262-272), and a second Pix
  waits even if requests come one at a time.
* check-in: offline, a device lets in a ticket that it admitted online (checkin-offline.ts 90-100);
  an admission that races with an undo loses its row; an online scan between a synchronization's
  two writes.
* money: two people who pay a promoter at once, a producer's payout without a limit, a coupon
  counted by every notification of an order without commission, discounts given beyond a coupon's
  limit by orders placed meanwhile, a fulfilment that overlaps the refund; two overlapping rules
  both stay active, and two organization-wide coupons may have one code.
* accounts: two owners who deactivate each other, which leaves none (`LastOwnerEndsInRace` says that
  only this does); a revoked member cannot be invited again; a wrong
  authenticator code uses up its challenge; a counter whose request stopped before EXPIRE has no
  end; the form keeps the old challenge when a choice is made twice (login-form.tsx 116).
* events and routing: public readers ask for PUBLISHED events (events/repository.ts 243-255), so that
  pausing the sales removes the page that FR-EVT-006, events/service.ts 300 and the panel say stays;
  overlapping transitions can put a cancelled event on sale again; `resume` of a
  draft would publish without its checks, though no screen offers it; `EVENT_ID` and
  `PROMOTER_REPORT` are reserved after the row, against `ports/refs.ts`; a suspended tenant is
  served by processes that were warm.
* editors: sections edited during a save, or during an upload, go back to what they were; a lost
  answer leaves "unsaved" what is stored; two tabs overwrite each other's whole page; the
  storefront says "saved" of a form that was edited meanwhile.
* checkout: a lost answer makes a second order possible; an answer that recognizes someone takes
  back "use other data" even at review; a Pix that failed is asked for again only when the method
  is switched; a phone that several people share is theirs who has no purchase yet, as NULLs come
  first (`findByPhone`).
* customers: tickets keep the participant's name and e-mail after an erasure; a fulfilment that
  reads the order between an erasure's two writes makes the second fail for good, and one that
  stops after the tickets never records the buyer; an opt-out is forgotten when an erased person
  returns.

## 4. Proofs

Every theorem is `Spec => ...` for any value of the constants that meets the named assumption of
its module. The assumptions give the constants their types, and add what follows.

| Module | Theorem | States | Assumed beyond types |
|---|---|---|---|
| `InventoryProofs` | `TypeCorrect`, `CountersCorrect`, `HoldsCorrect` | `[]TypeOK`, `[]CountersMatchRows`, `[]HoldsFollowPayment` | finitely many orders and batches |
| | `SalesWithinTotal`, `NeverOversold` | `SellsOnlyWithinTotal`; `[]NoOversell` | the second: `Editors = {}` |
| | `OverbookingStaysBounded` | `[]OverbookingBounded` | any number of staff requests at a time, at least one; an event with a capacity, which the first totals fit (`StaffAssumption`) |
| | `ImplementsAllocation` | `AllocationSpec`, the refinement | |
| `PaymentsProofs` | `TypesHold`, `OrdersPaidByApproval`, `TicketsFollowPayment`, `AcknowledgedApprovals` | `[]TypeOK`, `[]PaidMeansApproved`, `[]TicketsOnlyForPaid`, `[]AcknowledgedIsApplied` | |
| | `PaymentsMoveForward` | `PaymentNeverRegresses` | |
| | `PendingPixStaysBounded` | `[]PendingPixBounded` | |
| `CheckInProofs` | `TypesHold`, `OneAcceptancePerUndo`, `AdmissionsHaveRows`, `ConflictsReachDevices`, `VoidTicketsStayVoid` | `[]TypeOK`, `[]AcceptedOnceOnline`, `[]AdmissionRecorded`, `[]OfflineConflictsTold`, `VoidStaysVoid` | finitely many requests at a time |
| `BooksProofs` | `TypesHold`, `CentsAccountedFor`, `CommissionInBothBooks`, `RefundsUndoSales`, `CouponsCountedOnce` | `[]TypeOK`, `[]MoneyConserved`, `[]LedgerMatchesCommission`, `[]RefundNetsToZero`, `[]CouponWithinLimit` | finitely many orders and promoters |
| | `PayoutsBounded` | `[]PaidOutWithinEarned` | finitely many payers |
| `AccountsProofs` | `TypesHold`, `LastOwnerCounted`, `OneMemberPerInvite`, `FactorsConfirmed`, `SessionsStayDead` | `[]TypeOK`, `LastOwnerEndsInRace`, `[]InviteMakesOneMember`, `[]EnabledAfterConfirmed`, `KilledSessionStaysDead` | an active owner at first |
| `StoreProofs` | `TypesHold` | `[]StoreTypeOK` | all that follows |
| | `OnSaleIsComplete`, `AddressesLead` | `[]PublishedIsComplete`, `[]AddressesLeadHome` | first events that are well formed |
| | `SavedIsStored` | `[]SavedMeansStored` | |
| | `ErasedStays` | `[]ErasedStaysErased` | finitely many people, with ids of their own |
| | `OrderIsAsReviewed` | `OrderAsReviewed` | finitely many orders, a fee of at most 10 000 basis points (`events/schemas.ts` 90) |
| `Sums`, `CartsProofs` | `SumChanges`, `SumOfSums`, `SumAtMost` and lemmas | sums over finite sets; units of carts | |

`Invariant` (inventory) and `Invariance` (elsewhere) are the inductive invariants as theorems. Each
was checked by TLC on its run before it was proved. Why the invariants are what they are:

**Inventory.** `CountersMatchRows` is not inductive alone: a release must know that the rows it
claims are ACTIVE and that no paid order is in a sweeper's hands. The invariant adds
`RowsFollowOrder` (the rows of an order are what its status allows) and `HandsOnDecided` (an order
in a handler's hands was paid, one in a sweeper's hands expired). Counters are cardinalities of sets
of units (`Carts!UnitsOf`); `CartsProofs` proves how such a set changes when the lines of one order
move, which replaces sums by disjoint unions. The refinement maps `createOrder` to `Hold`,
`confirmForOrder` to `Keep`, `releaseForOrder` to `Return`, a quantity write to `Resize` and the
rest to stuttering; it needs that what Allocation counts as taken is what the code calls committed
(`TakenIsCommitted`). The bound on overbooking is about what the totals may become, not what they
are: `MayBecome` gives each batch its total or one that a request is about to write, and
`ExcessBounded` says that every such choice stays within the highest capacity times the number of
requests. A request that passes its check adds a total that fits beside the totals it read; of the
others, each may add one more, and it counts once whatever it chose, so that no number of edits one
after the other adds to the excess. `NeverOversold` asks for no resizing at all,
because a resize that read the committed units earlier may write a total below them.

**Payments.** A payment's status says what its charge went through at the provider
(`PaymentsFollowProvider`); what a request saw there is still so or was followed by a refund
(`SawTruth`), as the provider never takes an approval back otherwise; each stage of a request may
rely on what the stages before it did (`StageOK`); and one request applies the answer of a card
charge, while nobody has moved its payment to PROCESSING (`CardAnsweredOnce`). The waiting
Pix charges are those the shop has stored and those it has not. Of the first, no request opens one
while another waits, so that together with the requests that have begun to ask they are not more
than the requests at a time (`RoomLeft`). Of the second, a key is the number of rows when the
request counted them, never more than their number now (`KeysBehind`); the charge with that number
is the one the next request is answered with, and one with a lower number was left behind when a
row with its number was stored, which was a card's (`LeftBehind`). So the bound has one for each
request at a time and one for each stored card, and both are needed: `refreshed` shows the first,
the proof found the second.

**Check-in.** `RequestsKnow` and `DevicesKnow`: who was told that it admitted a ticket has the
ticket's row until an undo, and a device that let somebody in offline still has the scan queued or
was told what became of it. "Once per undo" counts: acceptances given, requests between claim and
record, and the ticket if it can still be claimed never exceed one plus the undos
(`AcceptancesCounted`).

**Books.** For every order: its total, its accrual, the rows posted for it and the rows that undo
them (`OrderInv`); for every request, the rows it is about to write (`WorkerInv`), for any worker
between its reads and its writes. What a refund posts depends on the sale and the commission alone
(`Undo`), so that two handlers of one refund write the same. `FlowInv` says what still happens: a
refund that met no fulfilment and no failure is carried through, accrued commission reaches the
ledger. `CouponInv` counts the orders a coupon was counted for. `PayoutsCovered` bounds what a promoter
was paid together with what has passed the check and is still to be entered: a check compares with
what was paid already, and each of the other people adds at most one such amount, which was within
the commission earned when it was checked, so that the whole stays within the commission times the
number of people. Sums over orders are changed one order at a time with `Sums`. The proof
corrected `MoneyConserved`: four notifications, one more than the run gives, let a refund meet
an unfinished fulfilment and two refund handlers read different balances (finance/service.ts
117-158); as each account's row is unique, the rows kept may come from either, and they need not
sum to zero. The property excepts the reversed orders in `overlap`.

**Accounts.** Requests in flight name rows that exist (`RequestsKnown`), a member's invite is
accepted or about to be (`InvitesJoin`), a change of status that ends an owner counted another.
When the last active owner ends, that other one must have ended since (`LastOwnerNext`): the request
counted owners that the organization no longer has, or there was none when it looked. `stale`
carries the exceptions of the other properties, such as an invite's status that had changed since it
was read.

**The store.** `CatalogInv` states what a tab or a request in flight may rely on, however old: the
event it shows exists; if it shows it on sale or paused, the event is complete, for details and
batches are never taken away. `PromotersInv`: tokens are apart, and one that was handed over is
reserved for its promoter's employer. `EditorsInv`: what an editor believes stored is stored if no
write came since (`Current`), and what was sent names its first hero's cover as banner, so that the
preview of the seeded page is the page. `CustomersInv`: the rows an erasure has still to write are
those the person has, and once its orders are done none is left; an id is never used twice.
`OrderIsAsReviewed` joins `DataInv` (a pseudonym has no phone) and `ShopInv`: a tab has one look-up
at most on its way, for the phone it shows; while it has one it recognizes nobody; and while no
customer was written it recognizes whom the server would find, who is one person or nobody. That
the total is no more than the one shown is arithmetic: page and server round the same sums
(`ShownWith`, `ShownWithout`), and a discount taken off first never raises a rounded fee
(`DiscountTakesOff`). `TypesHold` joins these invariants with four small ones: `FrontInv` and
`UploadInv` (what a storefront's form sends has no blank item; an upload is never for a list),
`LinksInv` (a coupon is compared with those of its event when it is written, not only when its code
is looked for) and `WarmInv`. Its hard part is that a page that was no problem when it was sent is
none when the server has it: blank items are dropped from its lists, and `BlanksAreGone` shows that
a list that keeps an item keeps it when it is read again. Dropping is defined by counting the
places that are not blank (`Editors!withoutBlanks`), since a recursion over sequences would need
an induction.

**Induction over data.** A sum of the community modules is a recursive function, found by CHOOSE.
`Sums` shows that it exists and what it computes by taking a smallest counterexample among the
subsets of a finite set (strict inclusion is well founded there). The amounts of a cart are sums
over the positions of its lines, so the same lemmas serve them.

**What stays with TLC.** Liveness under fairness, which the prover cannot do (`DueHoldsEnd`,
`PaidHoldsConfirmed`, `PaidGetsTickets`, `RefundReachesOrder`, `AdmissionsArrive`). No theorem is
stated of the violation runs' properties.

## 5. Plan

All the modules of section 2 are written and their runs pass; the theorems of section 4 state every
safety invariant and action property of the passing runs. To come, in order of worth: the mail with
the ticket links and a device's pack of used tokens (the two hazards without a property), and the
parts listed below.

## 6. Not modelled

* Rendering, lists, exports, forms' wording, serialization, image storage and mail: nothing modelled
  reads what they produce. Of `notifications` only the call that may fail is in `Payments`.
* `support`, `audit`: reads and an append-only log.
* Cryptography (hashing, tokens, authenticator codes): a token is a value nobody else has, a code is
  right or wrong.
* The provider beyond its charge, its notifications and its answers; signatures of webhooks.
* The loop of the jobs over tenants: tenants share nothing but its order.
* Details of modelled operations that no property depends on: the reads of batch and event by which
  `updateBatchQuantity` begins (inventory/service.ts 189-191) are one step; a slug that is taken a
  hundred times becomes a random one (events/service.ts 125); a checkout is also refused for the
  event's status and window, a batch's window and the units per order (orders/service.ts 150-152,
  169-214), without which the model places more orders than the code.
* Creating an organization, its profile and settings; operator assignments and the dashboards.
