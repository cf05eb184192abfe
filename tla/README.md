# O'Food backend: a verification project

O'Food is a NestJS backend for ordering food in Senegal: clients order dishes,
pay by Orange Money, Wave, Free Money, cash or a wallet of their own,
restaurants prepare the orders, couriers deliver them and everybody rates.
All state is in PostgreSQL (through Prisma) and, for what expires, in Redis.
Handlers are `async` functions: every `await` is a point where another request,
or another instance of the server, may run.

This directory holds TLA+ models of the parts of that backend that move money,
orders, deliveries and accounts; the TLC runs that check them; and proofs that
TLAPS checks. `PROJECT.json` maps every definition to the lines it models.

## 1. Inventory

| Component | State | Operations | Hard behaviour | Modelled |
|---|---|---|---|---|
| Payments (`payments/`) | `orders.status`, `paymentStatus`; rows of `transactions` | `initiatePayment`, `confirmPayment`, redirect and webhook of Orange Money, `verifyPayment`, `confirmPaymentFromCallback` | two notifications of one payment; writes from old reads; retries after a lost acknowledgement; partial writes | `PaymentsService`, `Store` |
| Orange Money (`strategies/`) | QR codes, outside | create a QR, verify one | notifications late, twice or never; errors reported as refusals | `OrangeMoney` (the service itself is external) |
| Orders (`orders/`) | `orders`, `order_items` | `create`, `updateStatus`, the owner's lists | owner's transitions race payments and deliveries; dishes looked up before the insert | `OrdersService`, `DeliveryService`, `Catalogue` |
| Client wallet (`wallet/`) | `wallets`, `wallet_transactions` | `recharge`, `payWithWallet` | balance read before the transaction that writes it | `WalletService` |
| Administration (`admin/`) | none of its own | `manuallyValidateTransaction`, toggles, reports | validates what a notification is confirming | `AdminService` (validation), `RestaurantsService` (toggles) |
| Delivery (`delivery/delivery.service.ts`) | `deliveries`, `couriers`, `courier_transactions` | register, verify, toggle, locate, create, accept, reject, pick up, confirm, cash out, rate | writes by id after a check made earlier | `DeliveryService` |
| Dispatch (`delivery/dispatch.service.ts`) | Redis keys `rejected`, `pending_acceptance` | `dispatchDelivery` | two searches find one courier; nothing happens when a key expires | `DeliveryService` |
| Authentication (`auth/`) | `users`, `otp_codes`, Redis black list | register, verify the code, login, refresh, logout | registration in four separate writes; refresh against logout | `AuthService` |
| Ratings (`ratings/`, `rateDelivery`) | `ratings`, averages of restaurants and couriers | `create`, `rateDelivery` | averages updated from old reads and rounded each time | `RatingsService` |
| Restaurants (`restaurants/`) | `restaurants` | create with a logo, update, toggles of the administrator | two creations at once; an upload between check and insert | `RestaurantsService` |
| Dishes (`dishes/`) | `dishes`, photos | create, update, remove | photo deleted before the row, which foreign keys may keep; updates of one photo race | `DishesService` |
| Menus (`menus/`) | `menus`, `menu_items` | `setWeeklyMenu`, `toggleMenuItem` | transactions that wait for each other, do not see each other's rows, roll back, deadlock | `MenusService` |
| Storage (`storage/`) | files of a bucket | upload, delete | uploads throw, deletions fail silently | `CatalogueStore` |
| Users, push, SMS, gateways, guards | little or none | I/O, single-row writes, broadcasts | none that other parts depend on | no |

How they interact. All parts share the database; there are no queues and no
transactions that span requests. Payments, orders, wallet and administration
write the same order, and four of them credit the restaurants, each in a block
of its own. A delivery overwrites its order's status beside the owner.
Payments wait for Orange Money twice: by the answer of its API, and by what it
sends later. Orders refer to dishes, which keeps those from being deleted, and are
checked against a catalogue that owners and administrators change meanwhile. `createDeliveryForOrder` is called by no code in the repository:
the model lets a request call it.

## 2. Modules

| Module | What it is |
|---|---|
| `Store` | the rows, QR codes and requests that the payment side shares |
| `OrangeMoney` | life of a QR code, and what `verifyPayment` may report of it |
| `PaymentsService`, `OrdersService`, `WalletService`, `AdminService` | one per service: its handlers, step by step |
| `OrderStatuses` | the statuses of an order, the owner's transitions and his two lists |
| `PaymentLife` | abstract specification: how an order comes to be paid, its restaurants credited and a wallet used |
| `Checkout` | composes the payment side; specification and properties, and the mapping to `PaymentLife` |
| `MCCheckout` | values of the constants for TLC, symmetry |
| `DeliveryLife` | abstract specification: what a delivery, a courier and his balance go through |
| `DeliveryService`, `MCDelivery` | `DeliveryService` and `DispatchService` in detail beside the owner's `updateStatus` and the writes of payments (`PaymentWrites`), and the mapping to `DeliveryLife` |
| `AuthService`, `MCAuth` | accounts, codes and refresh tokens |
| `RatingsService`, `MCRatings` | the running averages |
| `CatalogueStore` | the rows, files and requests that the catalogue shares; `StorageService` |
| `RestaurantsService`, `DishesService`, `MenusService` | one per service of the catalogue |
| `Catalogue`, `MCCatalogue` | composes these four with `OrdersService.create`; specification and properties |
| `CheckoutProofs` | lemmas on frames, rows and types used by the two modules below |
| `PaymentProofs` | types, online credits rest on accepted payments, requests run out of steps |
| `LedgerProofs` | wallets are not overdrawn; PAID and credited go together; `Checkout` implements `PaymentLife`; requests one at a time credit once, reset nothing and keep the wallets' books |
| `DeliveryLifeProofs` | a courier carries one delivery, in the abstract specification |
| `DeliveryProofs` | couriers are vetted and paid, requests run out of steps; requests one at a time implement `DeliveryLife` and keep the couriers' books |
| `CatalogueProofs` | menus, dishes, owners and photos of the catalogue; its requests run out of steps |
| `AuthProofs` | wallets of active accounts, tokens that were revoked |
| `RatingsProofs` | the range of averages, and the ratings they stand for |

**State and actions.** A request is a handler suspended at an `await`.
`req[w]` is the frame of the request in slot `w`: the step it takes next (`pc`)
and the values it read and still carries. An arrival (`Begin`) runs a handler
to its first write or call; each following action is one statement against
the database, Redis or Orange Money, with the guards the code evaluates after
it. What a handler read in one step and uses in a later one is exactly
what may have become stale. Mutated forms of definitions, kept beside them and used
by no specification, say what bug each property would notice.

Conventions the modules share:

- A call that the code rejects changes nothing: it is left out (a stutter).
- PostgreSQL runs READ COMMITTED. One Prisma call is one step, `include`
  reads counted with it. An interactive `$transaction` that reads a row is a
  step for the read and one for the commit of its writes; a write before the
  read locks its row (`Unlocked`, the wait in `InsertRating`, and in the catalogue
  `Held`: what a weekly menu has deleted and not committed).
- `Abort` ends a request at any `await` when `Faulty`: a failed call or a stopped
  process. A restart is an `Abort` of every slot, in any order.
- Times are left out: a code, a key or a QR may expire at any moment after it was
  made. Two durations matter and are kept as order: a black list key outlives
  its token (both last 7 days, the key from later on), by more than a request
  takes (`ExpireBlacklist`).
- Amounts are what the properties tell apart. Restaurant balances are counted as
  rounds of credits (`credits[o][origin]`): every block credits the restaurants
  of the order by the same subtotals. The rows of a wallet or of a courier are kept as
  the amount they add up to (`ledger`), which each block that inserts one changes. `frozenAmount` is always 0: no code writes it.
- A transaction row and the QR code it refers to share one id; Orange Money's
  answer always carries a QR id.
- Orange Money. Its webhook and the two pages its browser redirect leads to are public routes.
  The pages name an order only, and `Redirect` lets anybody load either of them at any time, for
  any order and whatever became of its QR code. `Webhook` is posted by Orange Money only, late,
  again or never, and tells the truth or carries no status the code knows: that is an assumption
  about the environment, since the code checks no signature and nothing proved here
  holds of a notification that somebody else makes up. `ClientVerify` asks about a reference the
  client chooses, as `payments.service.ts:561` does: a QR code of another order may be quoted, and
  `quotedFor` remembers for which orders a paid one was. A payment is *accepted* for an order when
  a QR code made for it, or quoted for it, is paid (`Accepted`); no action reads `quotedFor`.
- `WAVE` stands for both providers of the mock strategy. The delay between two
  confirmation attempts has no effect but the interleaving it allows.
- Dispatch: positions and scores are left open, so that any candidate may be
  preferred and any radius may find nobody. The keys of the candidates are
  checked in one step.
- Deliveries: the payments of `Checkout` are there as what they write to the order,
  `PaymentWrites`: PENDING, AWAITING_PAYMENT or PAID at any moment, whatever the order has
  become, on every order but those in `CashOrders`, which nobody began to pay
  otherwise. At the start orders are in one of the statuses `Accepted`, PREPARING or READY.
- Authentication: no code makes an active user inactive, hence `refresh`'s two
  reads (black list, user) are one step. An error of Redis in `logout` is
  swallowed and answered like a success: `SetBlacklistFails`, then the same `AnswerLogout`.
  `loggedOut` and `unheard` remember whose logout was answered, and for whom Redis took no key;
  no action reads either.
- Catalogue: a transaction that waits for rows another one deleted goes on without
  them, and does not see those inserted meanwhile (`DeleteMenus`, `WaitMenus`); so
  two submissions collide on the unique key of a day, or both stay if their days
  differ. `overlapped` remembers where that happened, `by` which submission a row
  is of. Each constraint of the schema that decides an outcome is there: unique
  owners and days, cascades, the reference an order item keeps to its dish.
  A file has a name of its own; deleting it may fail silently, uploading it
  throws. `forsaken` remembers the files deleted by requests that then failed.
- Ratings: arithmetic is exact, except that half-way cases may be rounded
  either way, as floating point may. `create` is a transaction: a request that
  dies in it leaves nothing, and counts as one that never came. A courier's ratings
  overwrite each other on the delivery's row: `given` remembers how many of each there
  were, and no action reads it.

## 3. Runs

`CHECK_DEADLOCK FALSE` everywhere: the number of requests that ever arrive is bounded
(`MaxRequests`), and a system that has answered them all stops. That no
request in flight is stuck is what `RequestsEnd` checks.

### Payment side (`Checkout`)

| Run | Bounds | Shows |
|---|---|---|
| `CheckoutConcurrent` | 1 order, 2 rows, 2 slots, 4 requests, fairness | `TypeOK`, `OnlineCreditBacked`, `PaidMeansCredited`, `WalletNeverNegative` and `ImplementsLife` (refinement of `PaymentLife`) under every interleaving; `RequestsEnd`, and `StepsRunOut`, why they do |
| `CheckoutSerial` | 2 orders, 2 rows, 1 slot, 5 requests, faults | `CreditsCovered`, `WalletLedger`, `PaidOrderNotReset` when requests do not overlap but may die anywhere; `OnlineCreditBacked` over two orders, so that the QR code of one may be quoted for the other |
| `CheckoutCalm` | 2 orders, 3 rows, 1 slot, 5 requests, no faults | `OnePendingRow`, `CreditedPerPayment` across retries by the client, who may quote the QR code of his other order |

Faults are requests that die (`Faulty`); a commit that fails or whose
acknowledgement is lost, and the retries this causes, are part of every run. Requests
that die beside others are not in `CheckoutConcurrent`, whose safety properties are
all proved with them (section 4), but in `CheckoutSerial`.

Two slots are enough for the races here, which are between the read and the write
of one request and the whole of another; two rows are a payment and its
retry. Two orders of one client share his wallet, and the QR codes he may quote for
either; orders share nothing else. One recharge pays one order, so that balance and price meet exactly.

### Delivery, authentication, ratings, catalogue

| Run | Bounds | Shows |
|---|---|---|
| `DeliveryConcurrent` | 1 delivery, 2 couriers (1 at work, 1 who may sign up), 2 slots, 5 requests, faults, fairness | `TypeOK`, `CouriersVetted`, `DeliveredPaid` under every interleaving; `RequestsEnd`: a search ends after the third radius; `StepsRunOut`, why |
| `DeliverySerial` | 2 deliveries (1 of a cash order, 1 paid online), 2 couriers at work, 1 slot, 5 requests, faults | `ImplementsLife` (refinement of `DeliveryLife`), `OneActiveDelivery`, `OrderFollowsDelivery`, `RejectedNotReassigned`, `CourierLedger` |
| `AuthSessions` | 2 phones, 3 tokens, 2 slots, 7 requests, faults | `ActiveHasWallet`, `RevokedNotRefreshed`, with codes, tokens and keys expiring and Redis failing |
| `Ratings` | 3 orders, 2 slots, 5 ratings | `TypeOK` (averages stay within 1 to 5 stars), `AveragesStandForRatings` |
| `Catalogue` | 2 owners, 3 restaurants, 2 dishes, 2 plans of different days, 3 files, 2 slots, 3 requests, faults, fairness | `MenuDishesOwned`, `OrderedDishKept`, `OneRestaurantPerOwner`, `WeekOfOneSubmission`, `PhotoMissingOnlyAfterFailure` under every interleaving; `RequestsEnd`: no transaction waits for ever; `StepsRunOut` |

Five requests are a whole delivery (create, accept, pick up, confirm, cash out),
or less of it and what upsets it: a refusal, the next delivery, the owner. The writes of
payments are not counted: they come at any time. In
`Catalogue` one restaurant starts with a dish, its photo and its menu, so
that three requests are two that race and the third that shows what
they left; the two submissions the run offers may overlap with each other, with the
deletion of a dish of theirs, or with an order of it.

### Runs that find a violation

Each checks one statement of the documents, comments or messages of the repository.

| Run | Property | What happens |
|---|---|---|
| `DoubleCredit` | `CreditedPerPayment` | one payment credits the restaurants twice, in one of two equally short ways (TLC reports either): two notifications both read the order before either writes PAID; or an acknowledgement is lost, the owner moves the order from PAID to PREPARING, and the retry credits again |
| `OrphanedSuccess` | `SuccessMeansCredited` | a webhook sets the row SUCCESS, its three attempts to confirm fail, the order still awaits the payment and nobody takes over |
| `AcceptanceTimeout` | `AcceptanceTimesOut` | the key expires, the delivery stays with a silent courier |
| `CashDelivery` | `CashDeliveryCredited` | a courier delivers a cash order; restaurants never credited |

The properties of the runs with one slot (`CheckoutSerial`, `CheckoutCalm`,
`DeliverySerial`) speak of what the code achieves when requests do not overlap. With
`Workers = {w1, w2}` TLC finds how each of the following breaks; the code has
no lock and no conditional update that would prevent it:

- `CreditsCovered`: a cancel page fails the row an administrator has just validated; two confirmations
  of one row both credit;
- `PaidOrderNotReset`: a refusal decided while the order awaited payment resets it once PAID;
- `WalletLedger`: two recharges read one balance, and one is lost;
- `CourierLedger`: two cash-outs at once both pay the balance they read;
- `OneActiveDelivery`: two searches choose the same courier;
- `ImplementsLife`: an acceptance checked earlier is written after the pick-up, a pick-up
  after a refusal;
- `OrderFollowsDelivery`: the owner's READY, checked earlier, is written over PICKED_UP.

With one slot but faults, `CreditedPerPayment` (`CheckoutCalm`) breaks too: an
initiation dies between its row and the status of the order, so that the next one leaves
that row PENDING; the repeated notification of the payment finds it when the
order is already PREPARING, and credits again.

`SuccessMeansCredited` speaks of orders that are payable: one its owner has moved on by hand is no
longer waiting for its payment, whatever became of the money.

Two things are so for requests one at a time and without faults, and the properties are worded
around them:

- One paid QR code may settle several orders. `verifyPayment` compares the reference the client
  sends with that of the row nowhere (`payments.service.ts:561`), so that a client with a paid QR
  code can have any of his PENDING payments confirmed by it. `OnlineCreditBacked`,
  `CreditedPerPayment` and `ImplementsLife` therefore count accepted payments, not money received.
- A token may be renewed after a logout was answered, if Redis failed in it
  (`auth.service.ts:236-241`), though the route is summarised as "Déconnexion — invalide le refresh
  token" (`auth.controller.ts:64`). `RevokedNotRefreshed` excepts these logouts, and only these.

Other behaviour a reader should know of, each visible in one definition: `VerifyOutcomes` reports
every error as a refusal, where the caller's comment leaves errors to the webhook, but HTTP 404, whatever
the QR code, as pending;
a late notification or a cancel page moves an order paid online to PAID or PENDING while a courier carries it,
which is why `OrderFollowsDelivery` speaks of cash orders;
the seed's administrator is an active user without a wallet, outside the registrations `ActiveHasWallet` speaks of;
`VALID_TRANSITIONS` lets an owner declare an unpaid order PAID, which the
notification of the payment then ignores; after `ExpireOtp` an account can be neither
activated nor registered again. `VALID_TRANSITIONS` and `ActiveList`, `HistoryList` leave out
PICKED_UP, so that the owner loses sight of an order while a courier carries it. A
refusal of a row that is still PENDING resets an order the owner already prepares
(`PaidOrderNotReset` speaks of status PAID). `setWeeklyMenu` replaces "les anciens menus", but
of two submissions at once with different days both stay. `RemoveDish` deletes the photo
of a dish that orders keep.

### Fairness

`FairSpec` asks weak fairness of each slot's `Step`: Node.js resumes a handler whose
`await` is over, and every `await` ends (HTTP calls and Prisma have
timeouts by default). In `Catalogue` a statement that waits for a lock is granted it
when the other transaction is over, and PostgreSQL ends one of two that wait for each other
(`Deadlock`). Nothing is asked of arrivals, clients, owners, couriers or Orange
Money. In `DeliveryService` Redis also drops a key when its time is up
(`ExpirePending`); it makes the counterexample of `AcceptanceTimeout` one in which the timeout
did run out. Symmetry is used only in runs without fairness.

## 4. Proofs

Every theorem holds for every value of the constants under the assumption of its
module (`StoreAssumption`, `DeliveryAssumption`, `CatalogueAssumption`, and those of `AuthService` and
`RatingsService`): any number of rows, users, files, slots and requests, with faults
and without. The assumptions say that ids differ from `None`, that bounds are natural
numbers, that prices and shares are positive, and in `Catalogue` that the rows the model starts with
respect the constraints of the schema.

- **`TypeCorrect`** and **`OnlineCreditsBacked`** (`PaymentProofs`). `TypeOK` and
  `OnlineCreditBacked` are proved together by the inductive invariant
  `PaymentInv`. `OnlineCreditBacked` alone is not inductive: a confirmation in
  flight credits without looking at the QR code. `RequestBacked` adds that such a
  request got there because a QR code of its order, or one its client quoted, was paid, which no later
  step undoes. This rests on truthful notifications (section 2): a webhook that says paid is believed
  without being verified. That in turn needs the row a request holds to belong to the order
  it holds, and to agree with its QR code (`RowsAgree`).
- **`WalletsNotOverdrawn`** (`LedgerProofs`). The balance is written from a value
  read two steps earlier. `WalletInv` adds that the value still carried covers the
  price when the check has been passed, and is not negative: enough, though the
  balance may meanwhile be anything. So updates can be lost, but
  never overdraw.
- **`PaidOrdersCredited`** (`LedgerProofs`). `CreditInv` adds that no row and no request
  refers to an order that does not exist, so that `Create` starts from an order never credited.
- **`PaymentsImplementLife`** (`LedgerProofs`), whatever interleaves. Every step of every handler maps to
  one of `PaymentLife` or to none: the step that settles an order is the one that credits its
  restaurants, no other undoes it (`ResetOrder` writes its status, not its payment status), an online
  credit finds a payment accepted, and a wallet's rows change by a recharge or by a price paid together with
  a settlement. `LifeInv` adds what this needs beside `PaymentInv` and `CreditInv`: QR codes
  are of orders that exist and quoted with success only once they are paid, rows of the mock provider are never anything but SUCCESS, and a
  request pays from the wallet of the order's own client. The abstraction lets an order be settled
  again: with overlapping notifications the code does that (`DoubleCredit`).
- **`RequestsRunOut`** (`PaymentProofs`, `DeliveryProofs`, `CatalogueProofs`), whatever interleaves:
  `StepsLeft` of a frame is a natural number that each step of its request makes smaller (a
  frame belongs to its slot: no other request writes it). With the fairness of section 3 and a
  `Step` that is never blocked for good (in `Catalogue` one may wait for a lock), it is why
  `RequestsEnd` holds; that last inference is about `ENABLED` and stays with TLC.
- **`SerialWalletLedger`** (`LedgerProofs`) and **`SerialCourierLedger`** (`DeliveryProofs`) assume one slot and
  hold with crashes. A balance is written from the one that was read before, so each is what the
  rows add up to as long as the balance read is still there: `BalanceHolds` in
  `LedgerInv` for the wallet, and `ReadHolds` in `SerialInv` for the courier.
- **`SerialCreditsCovered`, `SerialPaidNotReset`** (`LedgerProofs`; the second: a PAID order becomes neither
  PENDING nor AWAITING_PAYMENT, the statuses `initiatePayment` accepts) assume that there is one slot and
  that there are finitely many rows, whatever their number, and hold with crashes between any two steps. `SerialInv`
  adds `RequestAlone`: the row the request works on is still unsettled and its order not PAID,
  and a confirmation has a SUCCESS row that nobody was credited for. An acknowledgement that is
  lost makes the order PAID, which the next attempt reads.
- **`CalmOnePendingRow`, `CalmCreditedPerPayment`** (`LedgerProofs`) assume besides that no request
  dies (`~Faulty`): one that dies between the row of its retry and the order's
  status leaves a row that no later retry fails. `CalmInv` adds where an order stands while one request goes
  through it: a PENDING row means that it awaits payment or is about to (`OrderCalm`), a payable order was
  never credited, and a request that confirms or resets has left no PENDING row
  (`RequestCalm`). What is counted is payments accepted: a QR code that was quoted counts for both its orders.
- **`CouriersAreVetted`, `DeliveriesPaid`, `DeliveryTyped`** (`DeliveryProofs`), whatever interleaves, by
  `VetInv`. A search works on couriers it found earlier: `VetInv` says that
  those it still holds, and the one it is about to assign, are vetted, which no step takes back
  (nobody is unverified again or loses his position). A toggle writes the opposite of an old
  read, but only starts with a verified courier.
- **`SerialImplementsLife`, `SerialOneActive`, `SerialOrderFollows`, `SerialRejections`**
  (`DeliveryProofs`) assume `Serial`, that there is one slot, and hold with crashes between any
  two steps. `SerialInv` adds `ReadHolds`: what the one request in flight read is still so when it
  writes. That is exactly what fails with two slots, and the theorems are false there. Payments write
  the orders paid online at any time, even here: `SerialOrderFollows` is of cash orders. With it
  every step maps to a step of `DeliveryLife` or leaves its variables alone.
- **`LifeOneActiveDelivery`** (`DeliveryLifeProofs`). In the abstract
  specification a courier never carries two deliveries.
- **`MenusShowDishes`, `OrderedDishesKept`, `OwnersHaveOne`, `PhotosMissingExplained`**
  (`CatalogueProofs`) by `CatalogueInv`. The first three are inductive beside the types of frames: the
  constraints are evaluated again by the statement that writes. The fourth needs `PhotoNames` (a file
  belongs to one row, and an uploaded one is known to its request alone)
  and `PhotoAnswered`: a photo that is missing is that of a request which failed or is
  about to replace it.
- **`WeeksReplaced`** adds `Submissions`: the submissions in flight are different ones, and two of
  one restaurant make it `overlapped`, so that one alone has found every row of the week when it
  deletes.
- **`ActiveUsersHaveWallets`, `RevokedTokensRefused`** (`AuthProofs`) by `AuthInv`. `Registrations`
  says how far the request of an account has come when its rows are as they are;
  `Revocations` that the token of a logout that was answered, and whose key Redis took, stays on the
  black list until it has expired itself.
- **`AveragesInRange`** (`RatingsProofs`). The average is computed from values read before, so
  `RatingsInv` adds that what a request has read is in range; `RoundedBetween` bounds the rounding.
- **`AveragesAreMeans`** (`RatingsProofs`) assumes that there are finitely many orders. An average with
  its count is, within the rounding errors added up, the mean of some of the ratings given, as many as it
  counts (`MeanOfSome`). `MeansInv` says so of what each request has read, too, and that a
  restaurant rating is committed once: a lost update then leaves an average that
  stands for fewer ratings, never one that stands for ratings nobody gave.

Each proof has a lemma per service, one step per action under it, and one per conjunct
the action can disturb; `CheckoutProofs` holds the facts all of them use (what
`Begin`, `Goto`, `Return` do to a frame, that a typed row stays typed). Steps that write nothing an
invariant speaks of are dealt with by one lemma each.

Only model-checked: the liveness properties (`RequestsEnd` of the three compositions), which are out of
the prover's reach, and the runs that find a violation. Every invariant, action property and
refinement that a passing run checks is a theorem. Sums and counts over rows are fields of the
state (`ledger`, `given`, `credits`), changed by the steps that insert those rows, so that no
proof needs an induction over a set.

## 5. Not modelled

- Rejected requests, validation of DTOs, guards and roles: they change nothing.
- Users (`getMe`, `updateMe`): a row only its own user writes, in columns no other part decides on.
- Push: subscriptions and a log on a best-effort basis; nobody waits for it or reads
  its state. A subscription renewed while its old one is answered with 410 is deactivated.
- SMS, gateways: I/O and broadcasts; that an SMS fails is part of `AuthService`.
- `AdminService.updateRestaurant`, which writes columns no model has, and the reports, which
  read.
- In the catalogue: names, prices, categories, positions, `dailyCapacity` (compared by no code),
  a photo given as a URL instead of a file, a day or a dish named twice in one plan, deadlocks of
  three transactions (their victim is an `Abort`). `isVerified` is kept, though `create` of an
  order does not look at it.
- Quantities, prices and the restaurants of an order are not in both `Catalogue` and `Checkout`: an
  order is a cart in one and a payment in the other, which share no step but its
  insert.
- `refundPayment` is called by nobody.

## 6. What could follow

1. The theorems that assume one slot, from less: which handlers may overlap before each of them fails
   (`WalletLedger` needs only that no two requests of one wallet do).
2. `Checkout` and `DeliveryService` in one specification, over the order they both write;
   today each has the owner's `updateStatus` in it and `OrderStatuses` in common, and the second has the
   writes of the first, without what guards them.
