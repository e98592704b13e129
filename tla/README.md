# Formal models of the coffee-shop POS

The repository is a point-of-sale system for a coffee shop: a NestJS back end
over MySQL (`backend/`), a React front end (`frontend/`), SePay for bank
transfers and immudb as an append-only copy of the transaction log. This
directory holds TLA+ models of it, the TLC runs that check them on small
instances and proofs that TLAPS checks for every instance.

## The system

| Part | Where | State | Operations | Talks to | Module |
| --- | --- | --- | --- | --- | --- |
| Payments | `backend/src/payments` | `payment_requests` | create (QR code), verify, mark-manual | orders, transactions, settings, SePay | `Payments`, `Ledger` |
| Orders | `backend/src/orders` | `orders`, `order_items` | create, update, add/update/remove item, remove | tables, menu, users | `Occupancy`, `OrderItems` |
| Tables | `backend/src/tables` | `tables` | create, update, remove | orders (foreign key) | `Occupancy` |
| Menu | `backend/src/menus`, `menu-items` | `categories`, `products` | CRUD | order items (foreign key) | `Catalog` |
| Transactions | `backend/src/transactions` | `transactions`, immudb entries | log, list, find, reverify | immudb, SePay | `Transactions` |
| Settings | `backend/src/settings` | `settings` (API key encrypted) | get, set, remove, SePay status | SePay, payments | `Settings` |
| Accounts | `backend/src/auth`, `users`, `employees`, `main.ts` | `users`, `employees` | register, password, CRUD, admin bootstrap | orders (foreign key) | `Accounts` |
| Payment dialog | `frontend/src/components/payment` | step, payment, timers | cash, transfer, poll, confirm, retry, close | orders, payments | `PaymentDialog` |
| Tables page | `frontend/src/pages/TablesPage.tsx` | orders, selection, split | load, pay, complete | dialog, orders | `TablesPage` |
| Management pages | `frontend/src/pages` | a list, a form, a panel | CRUD, reset password, reverify | services | `ListPages` |
| Settings page | `frontend/src/pages/SettingsPage.tsx` | SePay form | key, account | settings | `SettingsPage` |
| POS page, cart | `frontend/src/pages/POSPage.tsx`, `hooks/useCart.ts` | cart, selected table | add, change, remove, submit | dialog | `PaymentDialog` (partly) |
| Dashboard | `frontend/src/hooks/useDashboardStats.ts` | statistics | compute | orders | none |

What is hard here: the back end is one Node process, and every `await` of a
database or remote call lets other requests run. Handlers read an entity, wait,
and save it; TypeORM's `save` is itself a SELECT and a later write of the
columns that differ, or an INSERT when the row is gone. Nearly nothing runs in a
database transaction. In the browser every click starts a handler that awaits one
or two answers while the page goes on. So the hazards are stale entities, saves
that interleave, several saves of which only some happen, rows that vanish under
a handler and come back, and answers that arrive late, in another order or never.
`PROJECT.json` lists them with their lines.

What makes each part correct:

- Payments: what is logged was settled, what is settled is logged or its loss
  has a cause, a settlement is final, its evidence belongs to the payment, and
  it reaches the order.
- Orders and tables: no table stays occupied with nobody at it, the table of a
  new order is shown as in use while the order is active, the total is the sum
  of the lines, and lines and status are those last asked for.
- Menu: what a line refers to is kept.
- Transactions: an id in MySQL means an entry in immudb, an entry without its id
  has a cause, a reverification stays, immudb alone can list what it holds.
- Settings: each key has the value last written, readers get it, the account
  belongs to the key.
- Accounts: names and emails are unique, columns keep what was asked for, an
  account without its employee has a cause.
- Payment dialog: one payment at a time, no success without settlement or
  confirmation of what the dialog was opened for, no timer outlives the dialog, no cart is ordered twice.
- Pages: staff sees its own changes, a form makes one row, a panel is one
  employee's, a payment completes only what was billed.

Several of these hold with exceptions only: the code has a race and the property
names it. Such a property has the form "it is so, or this is on record", where a
history variable records the one step that breaks it. The exceptions are part of
what the models say: no other way exists.

## Modules

In the back-end modules a request is an identity that is used once: `pc[r]` is
the call it awaits and `req[r]` (or `entity[r]`, `held[r]`) what its closure
holds. One action is one database or remote call with the synchronous code up to
the next `await`. `save` is two actions, one that reads the row and computes the
difference (`Reload...`) and one that writes it (`Write...`, `Update...`, or
`Insert...` when the row was gone). `Stop` is an exception or a crash at any call.
Operators marked "Variant" belong to no specification: each is its neighbour with a
plausible mistake, and checking the model with it in place shows that a property
notices.

### Payments and Ledger

| Code | Actions |
| --- | --- |
| `create` | `CreateLoad`, `CreateInsert` |
| `verify` | `VerifyLoad`, `SepayMatches`, `SepayHasNoMatch`, `SepayFails`, `Reread` |
| `markManual` | `ManualLoad` |
| `save(payment)` | `ReloadPayment`, then `UpdatePayment` or `ReinsertPayment` |
| `findOne(order)`, `save(order)` | `LoadOrder`, `ReloadOrder`, `WriteOrder` |
| `logTransaction` | `LogRow`, `LogFails`, `Audit`, `ReloadRow`, `ReinsertRow` |
| last read | `Final` |
| around it | `Stop`, `Pay` (a transfer arrives), `PatchOrder`, `DeleteOrder`, `RestoreOrder` (the order service) |

Data kept out: amounts, QR codes and settings (a missing API key is one way for
`SepayFails`), the users of orders, timestamps, the id immudb returns. A transfer
is known by the payment whose code it carries; SePay's list may leave it out.
`Ledger` is what the service promises, without requests or saves: a payment is
issued, opened and settled, entries are added for settled payments only, and only
the deletion of the order takes anything back. `Payments` implements it under the
mapping `LedgerState`.

### Occupancy

`OrdersService` and `TableService`: statuses, tables and their locks. `create`
runs in a MySQL transaction (REPEATABLE READ), so its reads are one snapshot
(`CreateRead`), its order becomes visible with the table's status at the end
(`CreateCommit`), and inserting the order holds a shared lock on the table row
meanwhile (`Locks`); writers of the row wait for it, and two transactions that
wait for each other lose one of them (`Deadlock`). The others: `UpdateLoad`,
`UpdateFindTable`, `ReloadOrder`, `UpdateOrder`, `ReinsertOrder`, then `Count` and
the release (`FindRelease`, `ReloadTable`, `UpdateTable`, `ReinsertTable`).
`ItemLoad` stands for the three item handlers, which save the whole order they
read. `Settle` is what a payment does to an order. `update` takes any status of any
order, so a completed one can be opened again. `came` records how an order came to be
active at its table: seated by `create`, moved, reopened, restored by a stale save,
committed too late for a release that had already counted, or at a table whose status
the staff have set since.

### Catalog and OrderItems

`Catalog` is `MenuService` and `MenuItemService`: edits of categories and products
that read, look up and save, deletions that cascade, INSERTs that bring a deleted
row back. `OrderItems` adds the lines and the total of an order over it:

| Code | Actions |
| --- | --- |
| `create` | `CreateRead`, `CreateInsert` (its transaction) |
| `update`, `remove` | `Update` (a status), `Move` (a table), `Remove`, `DeleteOrder` |
| `addItem` | `AddItem`, `FindProduct` |
| `updateItem` | `UpdateItem`, `ReloadItem`, `WriteItem` or `InsertItem` |
| `removeItem` | `RemoveItem`, `DeleteItem` |
| `save(order)` | `Reload`, `Write` |
| around it | `Settle` (a payment), `Stop`, `CatalogNext` |

The entity a request holds has a status, a total and a quantity per line. `Write`
is one MySQL transaction: columns that differed, INSERTs of lines that have no row
(refused when their product is gone), and `order_id := NULL` for rows the entity
does not list, which is what TypeORM does with a one-to-many without
`orphanedRowAction`. The tables of orders are `Occupancy`'s subject and do not
appear; a PATCH that only moves an order saves the order it read all the same. `missed` and `split` record what others changed since a request's read and
since its save's SELECT; `causes` what that did to an order.

### Transactions

`logTransaction` (`LogStart`, `LogInsert`, `LogTxnKey`, `LogOrderKey`, `LogReload`,
`LogWrite` or `LogReinsert`, `LogFails`), the reverify route (`VerifyFind`,
`SepayMatches`, `VerifyFindRow`, `VerifyReload`, `VerifyWrite` or `VerifyReinsert`,
`VerifyEnds`), the cascade of a deleted order, an order and payment that stale saves
bring back (`RestoreOrder`, as in `Payments`), and a restart, which may connect to
immudb or not and may come with an empty immudb. A save writes the columns that
differed at its SELECT (`plan`, `diff`), so two overlapping reverifications can leave
the time of one with the id of the other; `answered` is the id that the last one to
store had found itself, and `crossed` has what went wrong with a row since.
`FindAllFromImmudb` is the listing when MySQL does not answer, as an operator over the
state: keys are scanned in their own order (`rank`), cut at the limit and at `ScanCap`
(2500 in the code), then filtered and sorted by date.

### Settings and SettingsPage

`Settings` is `get`, `set` and `delete` call by call, for every route and every
reader in other services; a handler takes its keys one by one (`todo`). The bank's
bin and the account's holder follow the bank's name in every list and are left out.
`suspect` are keys that overlapping or stopped writers left behind, `disturbed` the
handlers that overlapped a writer of their keys. `get` takes the environment's value
(`Env`: `EnvKey`, `EnvAccount`) for a key that is not stored, and also for one whose
query fails, the API key included. `SettingsPage` puts the page's handlers on top: a
mount loads the configuration, every writer loads it again, and the two Cancel buttons
are never disabled. `causes` records what can part key and account: a key saved while
the page did not know of the one there is, a page left or a request failed in the
middle, and a list made with the environment's key because the stored one could not be
read (`Server`).

### Accounts

`register`, the bootstrap of the administrator and `EmployeeService.create` check
and then insert (`FindAll`, `FindName`, `FindEmail`, `InsertUser`,
`InsertEmployee`); the others read, save or remove (`SetRole`, `SetPassword`,
`ReloadUser`, `WriteUser`, `SetEmail`, `Link`, `ReloadEmployee`, `WriteEmployee`,
`InsertAgain`, `Fire`, `DeleteEmployee`). A user's password column is never selected, so
a save writes it only when the request set it.

### PaymentDialog

`PaymentModal` with the pages around it. The POS page keeps one dialog mounted
(`open` changes, `resetting` is the 300 ms timer); the tables page mounts a new one
each time (`mount`, `fresh`), and computes the order to pay anew at every rendering: the
open dialog has no key, so when its order leaves the list it goes on with the next one,
or disappears while there is none (`CompleteAnswer`, `Appear`, `Disappear`). `left` are
the orders that went away under the mounted dialog. A call `c` is one invocation of an asynchronous
handler: `at[c]` is the request it awaits, `about[c]` what its closure holds,
`answer[c]` what has come back.

| Code | Actions |
| --- | --- |
| `handleBankTransfer` | `ChooseTransfer`, `OrderAnswer`, `PayAnswer`, `CreatingFailed` |
| `handleCashPayment` | `ChooseCash`, `CashAnswer`, `CreatingFailed` |
| `startPolling` (interval and timeout of an instance: `poller`) | `Tick`, `PollCompleted`, `PollAgain`, `Timeout` |
| mark as paid | `AskConfirm`, `CancelConfirm`, `Confirm`, `MarkAnswer` |
| `handleRetry`, `handleCloseSuccess`, closing | `Retry`, `Done`, `Close`, `Reset` |
| the pages | `ChooseSale`, `OpenDialog`, `MarkCompleted`, `CompleteAnswer` |
| back end, network, customer | `ServeOrder`, `ServePay`, `ServeVerify`, `ServeMark`, `Lose`, `Pay` |

The back end settles a payment in one step here: what it does in between is
`Payments`' subject. `orders`, `cash`, `confirmed`, `gaveUp` and `left` only record what
happened; `done` are the carts that are finished and the orders whose completion was
asked for, which may fail and be asked for again. Left out: the check that somebody is logged in (both pages are
behind the login), texts, amounts, and the poll counter.

### ListPages, TablesPage and Pages

`ListPages` is the five pages that manage a list. They share one shape: a handler
sends a change, reads the list again and closes its form; the actions are named for
what the staff does (`Submit`, `Delete`, `Select`, `AskForPanel`, `Reverify`) and for
what answers do (`Changed`, `Listed`, `Replaced`, `Selected`, `PasswordReset`,
`Failed`). Where the pages differ the action says so: which of them hide while they
load (`Hiding`), which close the form when the list could not be read, and which
buttons stay enabled. A list has all rows: the range of dates and the limit of 100 of
the transaction history are left out. A row is a version number that grows with each change.
`TablesPage` is the page of tables with active orders: what it derives from its
state (`Group`, `PayOrder`, `PayTotal`), loading, selecting, splitting, completing by
parallel PATCHes (`Complete`) and paying in a dialog that mounts with the total of
that moment (`Remount`). An amount is the set of orders it is the total of. `Pages`
joins both: one page at a time is mounted and each mount starts anew.

`MC*.tla` give TLC its instances, `*Proofs.tla` hold the proofs.

## Runs

| Run | Checks | Instance |
| --- | --- | --- |
| `payments` | `TypeOK`, `LoggedIsSettled`, `EvidenceIsGenuine`, `UnloggedIsExplained`, `CompletedIsFinal`, `ImplementsLedger` | 2 payments of 2 orders, 2 requests, 2 transfers |
| `payments_fair` | `CompletionReachesOrder`, `NeverReopened` | 1 payment, 2 requests |
| `occupancy_serve` | `NoStuckTable`, `TablesAreReleased`, `RequestsAreAnswered` | 1 table, 3 orders, 3 requests |
| `occupancy_all` | `SeatedOrderIsSeen`, `LeftTableIsExplained` | 2 tables, 2 orders, 4 requests |
| `order_items` | `TypeOK`, `TotalMatchesLines`, `LinesAreKept`, `StatusIsKept`, `ReferencesHold` | 1 order, 2 lines, 2 requests, 1 edit, 1 product, 2 categories |
| `transactions` | `TypeOK`, `IdMeansEntry`, `MissingIdIsExplained`, `ReverifyIsKept` | 2 transactions, 2 reverifications, 2 SePay ids |
| `transactions_fallback` | refutes `LogSurvivesMysqlLoss` | 2 transactions, 1 reverification, a cap of 2 |
| `settings` | `TypeOK`, `SettingsAreLastWritten`, `AccountBelongsToKey`, `ReadsFollowWrites` | 4 requests, 2 keys, 2 accounts; the environment has one of each |
| `accounts` | `TypeOK`, `ColumnsAreKept`, `HiredAccountsAreExplained` | 2 users, 2 employees, 3 requests |
| `dialog` | `TypeOK`, `SuccessIsEarned`, `ShownQrIsPolled`, `OrderedTwiceOnRequest`, `PollersStop`, `CreatingEnds` | 2 sales, 2 payments, 2 instances, 2 calls |
| `pages` | `TypeOK`, `OwnChangesShow`, `FormMakesOneRow`, `PanelIsOneEmployees`, `CompletedWereBilled` | 2 rows, 4 calls; 3 orders at 2 tables, 2 jobs |
| `tables_unpaid` | refutes `CompletedWerePaid` | as `pages` |

**Two findings.** On the tables page a table with two orders is paid by transfer for
the newest of them alone (`payOrderId`), and the success of that payment completes
all of them. The panel's button offers to pay the total of the table.
`CompletedWerePaid` states that a payment completes only orders it covers and
`tables_unpaid` shows the counterexample; what does hold is `CompletedWereBilled`.

The log in immudb "survives MySQL loss" (the README of the repository, line 64), but
its listing does not show what survived: `findAllFromImmudb` cuts the entries at the
limit in the order of their random ids and looks at their dates afterwards.
`LogSurvivesMysqlLoss` asks for every entry of a period that has no more of them than
the limit, and `transactions_fallback` shows one that is missing.

A third thing the models showed is no disagreement with a document, so it is stated as
the exception of a property: on the tables page a dialog whose order leaves the list
goes on with the table's next order. It may then show the QR code or the success of the
order that is gone, and Done completes the next one unpaid (`left` in `SuccessIsEarned`
and `ShownQrIsPolled`, without which TLC refutes both).

**Exceptions.** What the properties of the two runs with the most of them excuse:

- `LeftTableIsExplained`: a payment completes the order and leaves the table; a PATCH
  moves the order away; a PATCH or DELETE read it before it was moved here; an item edit
  saves an older, ended status; a release stops or falls to a deadlock; the staff set
  OCCUPIED. `SeatedOrderIsSeen`: the order's table was being released when `create`
  committed, the order came there by a move, a reopening or a stale save, or the staff
  have set the table's status since.
- `ReverifyIsKept`: the logging request saves the row as it had inserted it; two
  reverifications that found different ids overlap. `MissingIdIsExplained`: a call or
  the process stopped, or a reverification saved the row as it had read it.

**Bounds.** A request is used once, so the number of requests bounds a behaviour.
Ids are not reused: MySQL gives a new one to each row. Two requests overlap in every
way two handlers can; a stale entity takes one reader and one writer. Where a third
matters there is one: two creates and the end of an order (`occupancy_serve`), an
account made while another request links it and a third fires its employee
(`accounts`). `occupancy_all` needs four, since two orders are created, and one is
changed while a table is edited; clients send it PENDING, which reopens, and COMPLETED,
which ends, the other statuses being like one of them. `OrderItems` starts with an order of
one line already there, so that both requests can be edits of it, and a payment
(`Settle`) is a third actor; `NewLines` bounds the lines of a new order. In
`Transactions` two entries are what a scan with a limit needs to leave one out, in
any order of keys and dates, and two ids what two reverifications can mix up. In
`settings` the environment's key belongs to another account than the stored one may. In the dialog two instances are one that is gone and its
successor; two calls are a late answer and a current one. Calls of `ListPages`
and jobs of `TablesPage` are numbered in the order they start, which is not a
restriction but saves permutations; four calls are the first load, two changes and
one more load. Version numbers end at `Gone`, which no run of calls can reach by
changes. Two tables, one with two orders, are what the selection can mistake.

Two bounds of `SettingsPage` deserve a word. `Page` is guarded by `causes = {}`: the
page is followed until key and account may have come apart, and only when no
other client is at work ("other" is chosen at the start); what its requests do among
others' is what theirs do. `ClientCalls` bounds the requests of other clients, 3 in the
run. The proofs of `SettingsProofs` do not depend on either.

Requests, orders, tables, rows and transfers are interchangeable, so safety runs
use symmetry; runs of liveness properties do not. Deadlock checking is off because
a behaviour ends when all requests are used.

**Fairness.** The event loop serves every request and MySQL answers every query, so
each request's own steps (`Proceed`) are weakly fair; SePay calls have a timeout of
10 s, after which `SepayFails`. immudb calls have none: the fairness of `Audit` is an
assumption about immudb that the code does not enforce, and a request whose `Audit`
never comes is never answered. New requests, customers, staff and failures are
never fair. `CompletionReachesOrder` therefore holds with failures and edits
enabled, except for the requests that a failure stopped (`lost`); the code has
nothing that would repair those. In the dialog timers fire and every request is
answered or fails, since the browser ends a `fetch` when the connection does; the
staff and the customer are never fair. Ticks need no fairness: the timeout alone ends
a polling. The other modules make no liveness claim and their specifications have no
fairness.

**Restrictions.** `SuccessIsEarned` and `ShownQrIsPolled` are stated for the tables
page. On the POS page they do not hold: a late answer changes the closed dialog, and
opening it again within 300 ms cancels its reset. `occupancy_serve` leaves out
failures, moves of orders, item edits, edits of a table and payments (`ServeNext`): with
them the properties do not hold, since the code compensates for none of them. They are
all part of `occupancy_all`. `AccountBelongsToKey` is about the page used alone, without
failures, without leaving it while it waits, and without saving a key before the page
knows of the one there is. `PanelIsOneEmployees` says that no click of the staff brings
the panel, the edit form and a new password of different employees together; the answer
to an earlier click, edit or toggle does (`swapped`).

## Proofs

All theorems are about the specifications TLC checks, for any constants that meet
their assumptions: each payment belongs to an order, clients store known statuses,
quantities are positive, there is a price, there are finitely many item ids, the
transactions are finitely many, the orders of `TablesPage` are numbered from 1, a row's id is none of the marks that stand
for "no row". TLC evaluates the assumptions in each run. Each module proves
`Init => IInv` and `IInv /\ [Next]_vars => IInv'` for an inductive `IInv`, one lemma
per action or kind of step, and reads its theorems off it.

| Module | Theorems (property) | What the invariant needs beyond the property |
| --- | --- | --- |
| `PaymentsProofs` | types, `LoggedIsSettled`, `EvidenceIsGenuine`, `UnloggedIsExplained`, `CompletedIsFinal`, `NeverReopened`, `ImplementsLedger` | `FreshOK`: while a payment is about to be inserted nobody else has got past `findById` with it, so the late INSERT never overwrites a settlement; `PaidOK`: past its save a request's payment is COMPLETED or gone; `EntityOK` |
| `OccupancyProofs` | types, `NoStuckTable` under `ServeSpec`, `SeatedOrderIsSeen` and `LeftTableIsExplained` under `Spec` | a create never commits without the table's status being OCCUPIED or being written by it, which only its lock ensures; `RolesOK`: which handler runs at each call, and that a release writes EMPTY; `CountedOK`: no order that create seated is active at a table for which a release has counted none |
| `OrderItemsProofs` | types, `ReferencesHold`, `StatusIsKept`, `LinesAreKept`, `TotalMatchesLines` | `LinesOK`, `NewOK`: requests that know a common line are about the same order, and a line that is being made is known to nobody else; `FreshStatus`, `FreshLines`: what a request has read and not missed is still so, hence what its save writes is what is there; `AddsUp`: an entity has the total of its own lines; `Compared`: what its save found different is all that differs, so the rows it writes are the entity's |
| `TransactionsProofs` | types, `IdMeansEntry`, `MissingIdIsExplained`, `ReverifyIsKept` | `LogOK`: which keys exist at which call of a log request; `RequestsOK`: an entity with an immudb id was read when its entry existed; `WritesOK`: a reverification that will not write its id leaves it in the row all the same, or the mixture is recorded |
| `SettingsProofs` | types, `SettingsAreLastWritten`, `ReadsFollowWrites`, `AccountBelongsToKey` | `Overlap`: who overlaps a writer of a common key is disturbed; `Written`, `Got`: who is not finds what it has written, and has got what was written last; `PageAlone`: while nothing has gone wrong only the awaited request writes, listed accounts are those of the key until the page hears of its removal, and a key is saved only where there is no account; where nothing is stored the key may also be the environment's (`NoKey`, `KeyFor`) |
| `AccountsProofs` | types with unique names and emails, `ColumnsAreKept`, `HiredAccountsAreExplained` | `Fits`: what a request holds at each call; what its save will write is what was asked for, or is recorded as stale |
| `PaymentDialogProofs` | types, `SuccessIsEarned`, `ShownQrIsPolled`, `OrderedTwiceOnRequest`, `SpinnerIsAwaited` | every call in flight of the mounted instance is about the order of the dialog or one that left the list under it (`SameSale`), a call knows a payment of its order (`CallOK`), an instance is used once (`MountOK`), and `OrderOnce` counts a cart's order together with the requests for it |
| `PagesProofs` | types, `OwnChangesShow`, `FormMakesOneRow`, `PanelIsOneEmployees`, `CompletedWereBilled` | `CallsOK`: an answer says what was so, and rows never get older; `FormOK`, `PanelOK`: which calls can still put a row into the panel; `ReadersOK`: a list that is read after a change has it; on the tables page `BillOK`, `OneOK`, `Numbered`: while the dialog is mounted, what it will complete is in its bill, because loading hides it and new orders are shown only by a load |

Examples of why a property alone is not inductive: `LoggedIsSettled` needs
`PaidOK`, which needs `FreshOK`; `LinesAreKept` needs that the lines an entity lists
and the lines the order has are the same unless `missed` says otherwise, at every call
between the read and the write; `CompletedWereBilled` needs that the orders shown
cannot grow under a mounted dialog.

Only model-checked:

- liveness (`CompletionReachesOrder`, `TablesAreReleased`, `RequestsAreAnswered`,
  `PollersStop`, `CreatingEnds`), since fairness and ENABLED are out of the prover's
  reach.

Every safety invariant and action property of the passing runs is a theorem as well.

**Sums.** An order's total is a sum over its items (`SumFunction`, a fold over a finite
set), and the induction theorems of the library cannot be used here. `OrderItemsProofs`
proves what it needs of sums by a smallest counterexample instead: the sets for which a
law fails are mapped to their cardinalities, `NatLessThanWellFounded` gives a set of least
cardinality among them, and the definition of the fold relates its sum to the sum over
one element less. So a sum is an integer, changes by the difference when one amount
changes, and depends on nothing but the amounts. This is where the items must be finitely
many, which `ItemAssumption` says.

`Occupancy`'s type invariant and `SpinnerIsAwaited`, the safety half of
`CreatingEnds` (a mounted dialog that shows the spinner has a call of its own in
flight), are theorems that no run repeats.

## Not modelled

- Dashboard statistics: sums over one answer, computed when it arrives.
- The cart's lines (`useCart`): arithmetic on one list inside one component; opening
  the dialog for a cart and clearing it afterwards are part of `PaymentDialog`.
- Logging in, refreshing tokens and the guards: they read and sign, and change no row.
  A token is read from storage for each request and no page's state depends on it.
- The contents of forms, texts, layout, styles, translations, charts.
- Build and deployment files, test data, the HTTP filter, Swagger.

What could follow: a composition of `TablesPage` with `PaymentDialog` and `Payments` in
which an amount is money; an abstract register that `Settings` implements for requests
that do not overlap.
