# A TLA+ model of EBDentalAPI

EBDentalAPI is the FastAPI/PostgreSQL back end of a dental equipment shop:
staff and customer accounts, a catalogue (products, brands, promotions,
configurable sets), carts priced on the server, payment by KHQR code, alerts
to a Telegram chat, and a script that copies two product catalogues out of
SAP.  This directory holds TLA+ modules of it, configurations for TLC, and
proofs for TLAPS.

    tlc -workers 2 -config checkout_manual.cfg MCCheckout
    tlc -workers 2 -config back_office.cfg MCBackOffice
    tlapm CheckoutProofs.tla

`PROJECT.json` lists the runs, the mutants that each property catches, the
source lines each definition stands for, the hazards and the theorems.

## 1. Inventory

What runs where matters to everything below.  `async def` handlers and the
background sweep are coroutines of ONE event loop: between two `await`s no
other coroutine runs, but the wait for a payment provider or for Telegram is
such a gap.  Plain `def` handlers run on a thread pool and interleave with
everything.  Every request has a session of its own (`database.py`), at READ
COMMITTED, whose identity map keeps the values of a row's first read until a
commit or rollback.

| component | state | operations | talks to | hard part |
|---|---|---|---|---|
| checkout to order (`routers/orders.py`, `services/checkout_sweep.py`) | `pending_checkouts`, `orders`, id sequence | create, poll, sweep, prune, confirm by hand, delete order | provider's check API, alerts, pricing | three writers, one payment; stale identity map; order numbers; restarts |
| payment columns of an order (`routers/orders.py`, `telegram_webhook.py`) | `status`, `payment_*`, `paid_at`, `refunded_at`, `khqr_*`, totals | edit, refund, delete, counter QR, poll, Telegram button | provider, Telegram | no row lock: lost and mixed updates |
| order alerts (`services/telegram.py`) | a dict of futures, one per order | register, upload of the browser's PDF, send, retry | Telegram, browser | shared slot, lost answers, last resort |
| order pricing and bundles (`routers/orders.py`, `core/bundles.py`, `promotions.py`, `sets.py`) | products, promotions, sets, order lines | quote, checkout snapshot and restore, re-price on edit; staff changing the catalogue | checkout | snapshots against foreign keys, deals and discounts, rounding |
| SAP sync runner (`services/sap_sync_runner.py`) | the record of the run in flight, thread, watchdog | start, spawn, time out, reap, conclude | child process | watchdog racing a finishing child |
| SAP catalogue sync (`scripts/sap_sync.py`) | products of two sections, `delisted_at` | read, create/update, hide, show, commit per catalogue | SAP, the nightly task | truncated extracts, two runs at once |
| settings store (`services/app_settings.py`) | `app_settings`, in each process a cache with a TTL of 30 s | get, save, reset, invalidate | everything configurable | cache and expiry are two globals read without the lock; loads in flight across a save |
| sign-in throttle (`core/ratelimit.py`) | failures and lock-outs per address and name, in memory | check, record, forget, prune | the sign-in routes | the window, the lock-out and the prune meet at their ends |
| accounts (`auth.py`, `customer_auth.py`, `users.py`, `customers.py`, `deps.py`, `create_admin.py`) | users, customers, links by mail, tokens | register, confirm, reset, sign in, grant, deactivate, delete | e-mail, Google | requests that loaded a row before another changed it |
| payment QR (`services/khqr.py`) | none: a text | build from an account or a bank's static code, read back | order payment, banks | two-digit lengths |
| reading the catalogue (`products.py`) | none | list, count, facets | browsers | pages and facets are separate queries; masked prices |
| editing the catalogue and site content (`products.py`, `brands.py`, `categories.py`, `promotions.py`, `sets.py`, `manuals.py`, `hero_slides.py`, `qr_codes.py`) | fourteen tables and their files | create, edit, reprice, picture, replace contents, delete | pricing, activity log | prices held three times, cascades, two flushes in one transaction |
| activity log (`core/activity.py`, `core/audit.py`) | `activity_log`, what a session has collected | collect before a flush, file after it | every write | failed flushes, children told under a parent, ids known only afterwards |
| reports, PDFs, e-mail, bot, metrics, migrations, seeds | none | rendering, I/O | | little: see section 7 |

What makes each right:

* checkout: one payment, one order; no order without payment; the order
  survives browsers, restarts and competing actors; numbers are unique; the
  prune removes no sale.
* payment columns: the columns agree with each other; a settled row has
  evidence; whoever moves the total or the QR leaves them matching on the row it
  read.  The code also means a refund to stand, a paid order to move only
  forward, a cancelled one to take no money and a QR never to ask for another
  sum than the row's; overlaps and the Telegram button break each (section 6).
* alerts: an alert is repeated only when an answer was lost.  One that cannot
  be sent as a document is to be tried as text, and is not (section 6).
* pricing: what is charged is what was shown and paid; totals follow the lines;
  a deal is not discounted again while its promotion or set exists.
* sync: no run hides more than its share or another section's products, or
  files goods under the wrong group; the record is true, refuses a second run,
  and ends.
* settings: an answer was once saved, as a whole, and is not much older than
  the TTL; every process comes to the last save.
* accounts: what was replaced or taken away does not come back with a request
  that was under way; the last user manager is lost only through a request of
  his own or of one who is a manager no more; a link proves the address it
  stands for.
* throttle: guesses per window are bounded, and nobody is locked out early.
* catalogue: pages partition the selection, a facet's number is what a click
  yields, masked prices leave no trace; a list price covers the price; what is
  written is told, and what is told was written.

## 2. Modules

| module | models | composed with |
|---|---|---|
| `Purchase` | abstract: a checkout has no order or one, a dropped one gets none | refined by `Checkout` |
| `Checkout`, `MCCheckout` | checkouts, actors, orders table | `KeepsPurchase` = `Purchase` under a refinement mapping |
| `CheckoutProofs` | theorems of `Checkout` | |
| `OrderPayment`, `MCOrderPayment` | one orders row and its unlocked writers | starts from what `Checkout` and quotes leave |
| `OrderAlert` | the alert tasks of one order | `MCBackOffice` |
| `OrderPaymentProofs` | theorems of `OrderPayment`, of `OrderAlert` and of `Khqr` | the row, the alerts and the QR of one order |
| `Pricing`, `MCPricing`, `PricingProofs` | one purchase over a changing catalogue | its `checkout` is a row of `Checkout` with its cart |
| `CatalogueSync` | processes that run the sync script | extended by the next |
| `SapSyncRunner`, `MCSapSyncRunner`, `SapSyncProofs` | button, watchdog and nightly task over `CatalogueSync` | composition of both; the proofs are about the composition |
| `SettingsCache`, `MCSettingsCache`, `SettingsCacheProofs` | table, caches and threads of several processes | |
| `Accounts` | both kinds of account, links, sessions, requests in flight | `MCBackOffice` |
| `LoginThrottle` | the map of failures under a clock | `MCBackOffice` |
| `AccountsProofs` | theorems of `Accounts` and of `LoginThrottle` | who may sign in, and how often he may try |
| `Khqr` | the text of a payment QR and its readers | `MCBackOffice`; `OrderPayment` holds such a QR as a value |
| `Listing` | pages, counts and facets over a fixed catalogue | `MCBackOffice` |
| `ActivityLog` | operators: what a unit of work files | extended by the next |
| `Catalogue` | the tables staff edit, units of work, the log | `MCBackOffice` |
| `MCBackOffice` | one instance each of `OrderAlert`, `Accounts`, `LoginThrottle`, `Khqr`, `Listing`, `Catalogue` | they share no state: a behaviour is one desk |
| `CatalogueProofs` | theorems of `Catalogue` with `ActivityLog`, and of `Listing` | the products as staff write and customers read them |
| `Sums` | lemmas: induction on finite sets, counting, least and greatest numbers, sums | cited by `PricingProofs`, `AccountsProofs`, `CatalogueProofs`, `OrderPaymentProofs` |

### Checkout

`stage`, `age`, `link`, `lock` are the columns and row lock of
`pending_checkouts`; `orders`, `nextId` the table and its sequence; `at[a]` is
an actor's session.  `seen` in it is the copy of `order_id` the identity map
holds: `check_checkout_payment` reads the row, awaits the provider, and locks
the row with `with_for_update()` through the same session, so what it tests at
line 799 is the value of its first read.  `Confirm` locks on its first read,
so for it the two are the same.  The sweep loads all its rows at once, and
only its own commits and rollbacks (`expired`) make it read them again.

A write takes two steps, `BeginWrite` (number read, locks taken) and `Insert`
or `InsertRefused`, because `_next_order_number` reads the last id with no
lock.  A blocked row lock is a disabled guard.  `Settle` may happen until the
grace period is over; `age` is where the clock stands against `expires_at`,
`GRACE_MINUTES` and `RETAIN_HOURS`.  Clock skew is left out.  `BankReports =
FALSE` is the installation without a Bakong token, in which the check API
always answers "unknown" and staff confirm by hand.

### OrderPayment

Every request is `Load` (decide on what was read) and `Commit`.  SQLAlchemy's
UPDATE names only the columns that differ from what was loaded; `Changes` and
`Merged` are that, and overlapping requests leave rows nobody decided on.  The
poll's wait lies between `PollAsk` and `PollYes`.  A request keeps the QR and the
total it read, so that `Crosses` can say whether they moved under it.  Free-text statuses are the
ladder and `cancelled`; an edit of lines or of the discount is the total it
arrives at (module `Pricing` says which).

### OrderAlert

`slot` is the dict entry of the order, `handed` the futures that are done.
Two alerts of one order (the quote's and the payment's) share the slot.  The
outer `except` is reached after the last transport failure, and when the server's
own PDF cannot be built (`BuildFails`: before the first call).  It calls the
text-only sender with the caption string instead of the alert
(`telegram.py:334`); the call raises before anything is sent, and `GiveUp` models
that.  Only Telegram's refusal of a document leads to a text.

### Pricing

Money is cents, a discount before rounding ten-thousandths of a cent, and
`Stored` PostgreSQL's rounding of a numeric(10, 2).  A line is a snapshot plus
`linked`, its foreign key (ON DELETE SET NULL in an order).  A checkout's
snapshot is JSON, which no foreign key protects, hence `Restorable`.  One
promotion, one set and one purchase are followed: carts do not share state.
Option group ids are renewed on each replacement, as `replace_option_groups`
does, and its choices are numbered by `sort_order`.  `FreeItems` are the freebies
a product still has: they go with either product (`models.py:508-516`).  Product
list price and a product's own discount are left out (they only affect the "was"
price of a product line), and so is stock.

### CatalogueSync, SapSyncRunner

A process works through its catalogues.  `Ask` puts the query where SQL Server
reads it: a file of its own on the server, or over ssh one fixed file
(`script`) that the next remote process overwrites.  `Decide` is the rest of
`sync` (read, match, create, delist) in the session, `Commit` its transaction.
`RailTrips` is the rail, `Num / Den` its share (default 0.10, `sap_sync.py:116`); an
extract may be cut short or hold nothing.  The runner is `run` (the record), `thread` and `timer`; the watchdog may fire at
any moment before it is cancelled, also after the child has ended.  Brands,
names, prices and stock numbers are left out; staff who edit or move products
during a sync are not modelled.  A brand-name conflict at commit ends a run as
`CommitRefused` does.

### SettingsCache

`log` is every state `app_settings` has had.  A request is a thread of one
process and stops at each read and write of the two globals: `ReadCache`,
`CheckExpiry`, `Load`, `StoreValues`, `StoreExpiry`; a save is `ReadExisting`,
`SaveCommit`, `ForgetValues`, `ForgetExpiry` and a load with `fresh=True`.  Only
the writers hold `lock`.  `Coerced` is `coerce`, by the kind of setting; a value
equal to its default deletes its row.  `torn` marks an answer taken between
another thread's two writes.

### Accounts

A request in flight (`req`) is what it decided: target row, the columns it
writes, what it read (`was`), and what its sender might do.  `Commit` writes the
columns that differ from `was`, as the ORM does, then mails; `Fail` is any
failure after the decision.  Passwords and links are numbers, so `retired` can
remember what was replaced.  Whether a password is typed right or a link has
expired is free.  An address is compared as stored, and as folded where the
code folds it.

### LoginThrottle

Both sign-in routes are coroutines and await nothing between the check and the
record, so an attempt is one step; there is no race.  Instants are ages in
ticks, forgotten beyond `Horizon`, the largest age any test distinguishes.  A
record's timestamps are only filtered, counted and asked for their last, so
they are kept as how many failures there are of each age.

### Khqr

Texts are sequences of code points and `Tlv`, `ParseTlv` the format; tags, amount,
currency, expiry and the private tags of a static code are built as
`build_khqr` does.  The checksum is blank.  `NewQr` keeps a stored QR while it
has not expired, as the counter does.

### Listing, Catalogue, ActivityLog

`Listing` answers one question page by page; `Orders` is every order the
database may return (an id breaks ties), so a page is taken from any of them.
In `Catalogue` a request is a sequence of units of work, one per flush: rows
added, columns assigned, rows deleted or orphaned, beside what it loaded.
`CommitWork` applies them with foreign keys (`AndDependants`: cascades; `Flushed`
nulls), unique names and codes, or `WorkFails`.  Ids are drawn at the flush, one
after another and never twice (`LastId`), and lost with it.  `ActivityLog` is the listener: `Collected` before the flush,
`Entries` after it.  Text, badges, dates and audit columns are left out of rows;
`log` keeps the entries of the last commit, which is all the properties need.

## 3. Runs

| run | bounds | shows |
|---|---|---|
| `checkout_manual` | 2 checkouts, 2 staff, 3 ids, no provider | by-hand confirmation: one order per payment, the tables refine `Purchase` |
| `checkout_all_actors` | 2 checkouts, 1 browser, sweep, 1 staff, 3 ids, 1 restart | numbers free, confirmations exclusive, orders paid |
| `checkout_sweep_liveness` | 1 checkout, 1 browser, 1 staff, 4 ids, 1 restart | a settled payment becomes an order |
| `order_overlap` | 1 browser, 2 admins, bot, 1 QR, over one total; or 2 admins, 1 QR, 2 totals | columns agree and settled rows have evidence under every overlap; whoever moves QR or total leaves them matching, unless one moved under the request |
| `pricing` | 2 products, 2 carts, 3 discount values, 2 catalogue changes | totals, deals, snapshot, advertised price, contents of a set |
| `sap_sync` | 3 codes, 2 processes (one remote), ratio 1/2 | what a commit may hide, where goods go, the record tells the truth and ends |
| `settings` | 2 processes, 2 threads, 2 settings, 2 commits, TTL 2 | answers are saves, recent, and in the end current |
| `back_office` | below | accounts, passwords, throttle, listing, QR, alerts, and the four desks of the catalogue |
| `finding_*` | the smallest that shows it, or as above | section 6 |

Why the bounds are enough.  Two checkouts let one row's order disturb the
other's number; three ids allow a deletion followed by a new number and two
overlapping writers.  Two requests are what a lost update needs; the third
writer (poll, bot) is there as well.  `MCOrderPayment` has two parts, chosen at
the start: every actor over one total (`OneTotal`), and the staff whose requests
move QR and total, with the workflow status left alone (`StaffOfSums`); polls,
refunds and the button write neither of the two columns.  Two catalogue changes allow a product to
be repriced and then deleted around one cart; the two products of the instance
are each other's upgrade, and the discount values reach a half cent and the
100% and more-than-the-base ends.  In `sap_sync` three codes in two groups and
a ratio of one half let a run hide one of two rows but not both, and let two
processes race over an insert and over a section.  The script's default ratio
is 0.10, which needs ten rows before a single one may be hidden; the arithmetic
is the same.

In `settings` a TTL of 2 and requests that last at most a tick leave room for a
load to begin before a save, be stored after it, and expire; two commits are
what an answer could mix, and each process has a thread of its own or both.

`back_office` lets TLC choose a desk at the start and explores each alone: the
modules share no variable, so their product would add states and no behaviour.

* accounts, passwords: 2 staff, 1 customer, two spellings of one address, two
  overlapping requests, 4 requests and 2 links in all.  A lost write needs one
  request within another; the remaining two set the scene and use the result.
* throttle: 2 sources, 3 attempts, window and lock-out of 2 ticks, prune at 2
  records.
* listing: every catalogue of 3 products from 4 kinds, two of which tie on
  every key; pages of 1 and 2.
* qr: account parts that just fit, that do not, and static codes with and
  without a private tag; amounts of 3 and 9 characters.
* alerts: the two alerts of one order, quote and payment.
* prices, gallery, bundles, shelves: two overlapping editors and 3 requests;
  2 where the desk has most screens (`ShortDesks`).

`RoomToBegin` and `MaxId` bound the ids, `MaxCrashes` restarts, `MaxQr` QRs,
`MaxChanges` catalogue changes, `MaxSaves` commits of settings, `Span` the
length of a request, `MaxLinks`, `MaxRequests` and `MaxEdits` those of the back
office.  Deadlock checking is off where the system may stop for good: an order
row that was deleted (`order_overlap`), alerts that are over
(`finding_alert_silent`), a bounded catalogue with one purchase whose
product is gone (`pricing`), and a desk whose requests are used up or whose
last page was read (`back_office`).

Symmetry is declared only for runs without liveness, over actors and values
the modules never tell apart: `Permutations({r1, r2})` for the requests of
`back_office`, which each start idle.

## 4. Fairness

`checkout_sweep_liveness`: `run_checkout_sweep` loops for ever and logs
whatever a pass raises, so its steps are weakly fair; a transaction that holds
a lock runs to its end (weak fairness of `Insert \/ InsertRefused`); a
provider asked again and again about a settled payment says yes in the end
(strong fairness of `SweepYes`).  Nothing is assumed of browsers or staff.
The clock may overtake the sweep - a server down, or a provider silent, past
the grace period - and `PaidIsOrdered` excepts exactly that.  It also assumes
that the cart's products still exist: see `finding_checkout_stuck`.

`sap_sync`: threads run and timers fire; the child itself may hang for ever.
`RunEnds` rests on the watchdog.

`settings`: a thread that has begun a request goes on (`Steps`, for each), and
time passes.  Nothing makes anybody read or save; a lock is held across no
wait, so weak fairness suffices.  The back office is checked for safety only.

## 5. Proofs

For every number of checkouts, browsers, staff, ids and restarts
(`CheckoutProofs`, from the assumptions in `Checkout`):

* `Sound` is the inductive invariant: types; no order numbered above its id
  and every number in flight at most the next id (`Numbered`: why "last id
  plus one" is safe after deletions and rollbacks); staff about to write hold
  the lock of an unlinked open row (`Locked`); and a writing coroutine has
  heard yes about its checkout (`Told`).  From it `TypeCorrect`,
  `NextNumberAlwaysFree`, `ConfirmAlwaysExclusive`, `OrdersArePaid`; with
  `LinkSound`, itself inductive relative to it, `LinkAlwaysSound`.
* With `~BankReports`, `OneEach` (no coroutine ever writes, the link is
  complete, no pruned row has an order) is inductive relative to `Sound`,
  which gives `ManualLinkComplete`, `ManualPruneSafe` and `ManualOneOrder`,
  and step by step that `Checkout` implements `Purchase`
  (`ManualKeepsPurchase`).  With a provider that answers these do not hold:
  that is `finding_two_orders`.

For any number of overlapping requests, QRs and totals (`OrderPaymentProofs`):

* `Agreed` strengthens `ColumnsAgree` by what a pending UPDATE may say
  (`AllSane`: whoever writes a settled state writes its dates or leaves them
  set).  It is needed because what a request decided may be committed over a
  row that has changed since.
* `Proven` (`SettledAlwaysHasEvidence`): as well, only an edit, which vouches
  as it commits, is still to write `paid`, and a refund still to be written was
  decided when there was evidence (`Founded`).  Evidence is never taken back,
  so it is still there when the write lands.
* `Following` (`QrAlwaysFollowsTotal`): a pending UPDATE that writes QR or total
  leaves the two matching on top of the row its request read (`FollowsRead`), and
  one that writes neither was decided to.  Nothing is assumed about turns:
  `QrFollowsTotal` excepts only the request under which one of the two moved
  (`Crosses`), and `QrMatchesTotal`, which has no exception, is refuted by
  that case (section 6).

For any number of alerts of one order (`OrderPaymentProofs`): `Alerting`.  That
the future in the slot belongs to a waiting alert is inductive as it stands;
the statements about the chat are not, and `Counted` ties the calls, posts and
lost answers of an alert to the step it is at.

For every catalogue, ratio and group assignment (`SapSyncProofs`; `Codes` is
finite, because `HidesFew` counts):

* `Pending`, for `NeverHidesMany` and `HidesOwnRowsOnly`: what a process that
  is `ready` will hide lies in its own section and is within the rail's share
  of that section with what it will create (`Railed`).  Another process may
  commit in between; it can only add rows to the section, which leaves the
  share within the rail.
* `Sourced`, for `GoodsAlwaysGoToTheirGroup`: at most one process is remote
  (`OneRemote`), so the fixed script file holds that one's own query while it
  waits for the extract.  With two it is false (section 6).
* `Recorded`, for `AlwaysBusyWhileAlive` and `SuccessIsAlwaysComplete`: what
  thread, timer and child may be in each state of the record (`Watched`), and
  that wrote and left of the child add up to what was asked (`Account`).

For any number of processes, threads, settings and saves and every `TTL` and
`Span` (`SettingsCacheProofs`): `Sound` says that every copy - in a cache, in a
thread, in an answer - is `Merged(log[i])` for some `i`, and how old `log[i]`
may be by the step the thread stands at (`Fine`, `Cached`).  The two globals
are written one after the other, so `Cached` has a case for the moment between
the writes, which is the one `torn` marks.

For every set of staff, customers, addresses and overlapping requests
(`AccountsProofs`): `Kept`.  Rows change under a request that has decided, so
the invariant says what each request in flight carries: its link and its
password are its own, in no row, no other request and not among the retired
(`OwnLinks`, `OwnPasswords`); what was given out bounds both (`AllGiven`,
`UsedUp`); and a flag it sets was let in by the guards of its endpoint
(`Guarded`).  From it `LinkAlwaysMatchesAddress`, `ReplacedIsNeverRestored`,
`FlagsAlwaysFollowTheirKeepers`, `LastManagerAlwaysGoesByItsOwnHand`.  `Kept`
was explored with TLC on the accounts desk before the proof.

For any products, prices, promotion, set and carts (`PricingProofs`): `Booked`.
It says of every order and waiting checkout that its totals are those of its
lines (`Balanced`, `Parked`): subtotal the sum, the total `Stored` of what the
discount leaves.  An edit re-prices from the lines as they are stored, and the
foreign keys of lines go with what staff delete (`UnlinkOK`), so both have to be
inductive with the lines left free.  `OnlyOrphansAreEverDiscounted` is about one
step: a sum over the lines is the sum of the deals and that of the rest
(`SumSplit` in `Sums`), so a discount whose base is the rest leaves the deals
their price.  That base is the rest whenever a cart is priced (`PricingLeavesDeals`),
and in an edit of the discount alone while every deal is linked
(`EditLeavesDeals`).  `AdvertisedIsCharged` and `UpgradeReplaces` are about every
set the catalogue can come to hold and follow from its types.

For every window, lock-out, limit and prune threshold (`AccountsProofs`):
`Guarding`.  A key is locked out or watched: what the property counts since the
last right password is then bounded by what the record still holds
(`Watching`), or is older than the lock-out (`LockedOut`); a pruned record holds
nothing that a window starting now can see.

For every catalogue, filter and page size (`CatalogueProofs`): `Paged`.  `Comes`
is a strict total order (`ComesOrders`: the id decides ties), so every ordering
the database may return puts a row at the same place, the number of rows that
come before it (`PlaceIsRank`); slices of such orderings partition the rows.
`FacetsAlwaysPromiseTruly` compares the counts of two queries, and
`MaskedAlwaysLearnNothing` shows that filter, order and output of the two
catalogues agree when prices are masked.

For any forms, opening tables and overlapping edits (`CatalogueProofs`):
`Shelved`, for `ListAlwaysCoversPrice`.  A request in flight that rewrites a price
carries both columns of the row it read, and what it writes over that row is
covered (`Fair`); a row that no longer is what was read is what `Crosses`
records.  Requests of two flushes rewrite no price (`Planned`).

For the same (`CatalogueProofs`): `Filed`, for `EntriesAreAlwaysTrue` and
`EveryWriteIsAlwaysTold`.  An entry is computed from a request's unit of work and
the rows it had loaded; the rows are whatever the database holds when the unit
is flushed, after others committed.  The invariant ties the two, by what a flush
can rely on although nothing is locked:

* a number is drawn once (`Drawn`): a row a request adds is in no table and in
  no other request (`NewBy`), and a row it loaded was there (`LoadedBy`);
* a row with a parent never changes it (`SameParents`), so a row the request did
  not know of is still told under the right parent; a choice has its group in
  the table beside it (`Joined`);
* a unit of work either saves or removes (`Saving`, `Removing`); requests of two
  flushes have one of the known shapes (`Twofold`), so that what the second adds
  or drops fits what the first left.

That each finished unit of a request shows in its outcome (`Rendered`) is a lemma
about commits.  An entry that the listener leaves out (`Structural`) is left out only where the
create or the delete of its parent is filed by the same request; that is the
case analysis `EveryWriteIsTold` asks for.  TLC explored `Filed` before the proof.

For every setup, amount, order number and moment (`OrderPaymentProofs`):
`QrAlwaysReadsBack`.  The invariant, that the QR was built (`Issued`), is plain; the
work is in what its readers make of a text of any length.  Numbers, fields and the
payee's tags are made and read by recursive functions.  `Climb`, counting up to a
bound by a least counterexample, shows that each of them has a value (`FromExists`,
for the reader, counts from the end of the text, as a field says how far the next
one is), and what the value is.  A text is `Whole` if it can be read and whatever
follows it is read as if it stood alone (`ReadingMoves`).  A field is whole and so is one whole
text after another, so a QR is read a field at a time, in the order it was built:
`Adds` says what the next field changes.  Lengths fit two digits because the parts
are cut, the amount is a `numeric(10, 2)` and a time has 13 digits
(`QrAssumption`); the account that does not fit is the case the property excepts.

The sums and counts of `Pricing`, throttle and listing are folds over sets.  `Sums` proves an
induction on finite sets from the well-foundedness of the naturals, with a set
of sets where the library has an operator, and from it what a sum over a set
is, when two agree, and how it grows.

Steps are split one per action, and actions that leave the relevant variables
alone go through one lemma (`QuietKeeps`, `AsideOK`; in `AccountsProofs` every
handler is a request admitted, a commit, a departure or a session, with one
lemma for each).

What the proofs assume of the constants, each an `ASSUME` that TLC evaluates:
bounds are naturals; actors of different kinds are different; `Codes` is a
finite set, as are `Products` and the rows of a listing; prices of products are
positive cents and those of bundles not negative, carts hold whole quantities
(`schemas.py`); a lock-out lasts at least a window (`ratelimit.py:40-46`); a
product of a listing has a brand (NOT NULL) that is neither of the two words
the filters use for none and all; a new product comes with a price and a
discount that are not negative (`schemas.py:552-562`), and the shop opens with
list prices that cover the prices; the forms of a request are finitely many and
those of a product name no parent and no member (`FormsAssumption`); the tables
the shop opens with are finite and keep the foreign keys of `models.py`, whose
parents of parts are NOT NULL, and None is nobody's key (`StoreroomsAssumption`); a
note told in the log is not None (`NotesAssumption`); texts are made of code
points, amounts have two decimals and at most ten digits, and times of a QR thirteen, as
they have until 2286 (`QrAssumption`); `Nobody`, the free lock, is not a thread,
and `NoEntry` not an alert; the rows a behaviour of `Accounts` may open with
are those of a database with no link pending (`SettledStaff`,
`SettledCustomers`); and a manager's edit of a staff row has only the fields of
`UserUpdateByAdmin` (`schemas.py:206-218`): permissions and `is_active`, no
address and no credential.

The type invariants and `LinkAlwaysSound`, `ManualLinkComplete` and
`ManualPruneSafe` establish invariants that no run repeats: each was explored
with TLC before its proof, and the proof covers every instance.  Those of
`SettingsCache`, `Accounts` and `LoginThrottle` are stated in the proof modules.

Only model-checked: liveness (`PaidIsOrdered`, `RunEnds`, `EveryProcessCatchesUp`),
which is outside the prover's reach.  Every invariant and action property of the
passing runs is stated by a theorem.

## 6. Where code and documents disagree

Shown by a run:

* `finding_two_orders`: two confirmations that overlap each write an order,
  because the locked re-read keeps the first read's `order_id`
  (`orders.py:799`; "one payment must produce one order", `:797`).
* `finding_poll_erases_refund`: a poll that waited across a refund writes
  `paid` over it ("must never flip it back", `orders.py:27-29`).
* `finding_checkout_stuck`: a product deleted during the payment keeps the
  paid order from being inserted, on every retry.
* `finding_alert_silent`: when the server's PDF cannot be built, or no
  `sendDocument` goes through, the text-only fallback is called with the caption,
  a string, and dies before anything is sent (`telegram.py:334`; "never silently
  invisible", `:366-370`).

Refuted by TLC, and not given a run of their own.  Each property is in its
module, and is violated when its name is put into the configuration:

| property (configuration) | what the code does | what it says |
|---|---|---|
| `QrMatchesTotal` (`order_overlap`) | a QR stored after an edit of the total loaded its row survives the edit, because clearing a NULL is no change (`orders.py:1422`) | "would collect the wrong sum" (`orders.py:1418-1421`) |
| `PaidMovesForward` (`order_overlap`) | the Telegram button cancels a paid order (`telegram_webhook.py:105`) | "may only move forward" (`orders.py:20-21`) |
| `NoMoneyAgainstCancelled` (`order_overlap`) | a PUT that cancels and one that records a payment overlap and merge | "money can't be recorded against a cancelled sale" (`orders.py:1338-1341`) |
| `NoQrOnceSettled` (`order_overlap`) | a counter QR decided on an old read writes `unpaid` over a payment (`orders.py:1172`) | "would let the customer pay a second time" (`orders.py:1134-1136`) |
| `DealsKeepTheirPrice` (`pricing`) | deleting a promotion or a set nulls the line's key, and a later edit of the discount alone discounts the deal (`orders.py:397`) | "outside the order-level discount's base" (`orders.py:386-389`) |
| `OneActionable` (`back_office`) | a call whose answer was lost is retried, and the alert is in the chat twice (`telegram.py:303`) | "exactly one message per order is actionable" (`telegram.py:345-346`) |
| `UploadFindsTheWaiting` (`back_office`) | the first of two alerts to stop waiting pops the other's slot (`telegram.py:131`) | "a no-op if nothing is waiting" (`telegram.py:102-104`) |
| `OnlyManyRefused` (`sap_sync`) | the rail counts rows hidden before, so withdrawals accumulate and later runs refuse although each hides little (`sap_sync.py:471-480`) | "that a single run may hide" (`sap_sync.py:113-115`) |
| `SavedIsShown` (`settings`, one process) | a load from before a save is stored after it (`app_settings.py:70`) | "sees it on the next page load" (`app_settings.py:10-15`) |
| `PickedUpWithinTheTtl` (`settings`) | values and expiry are read without the lock, between two writes of another thread (`app_settings.py:57`) | "within the TTL" (`app_settings.py:10-15`) |
| `NobodyDropsTheLastAdmin` (`back_office`) | the count of other holders is a check-then-act (`users.py:184`): a revocation of oneself overlaps the deactivation of the other | "the last holder revoking it" is refused (`users.py:179-181`) |
| `PayeeReadsBack` (`back_office`) | three account parts within their limits of 32 make 108 characters, whose length takes three digits (`khqr.py:192`) | "the inverse of _tlv()" (`khqr.py:93`) |

Met while modelling:

* The prune deletes paid checkouts whose order staff deleted: SET NULL makes
  them look unpaid (`checkout_sweep.py:44-46` says a paid one "is excluded").
* The admin gate of a delete is tested on an unlocked read.
* `_SNAPSHOT_LINE_FIELDS` (`orders.py:468-481`) leaves out `set_options`, so
  the order of a paid checkout forgets its configuration
  (`models.py:1018-1023` says it must travel with the line).
* Discount and total are rounded apart and may exceed the subtotal by a cent
  (`models.py:846-849`); `AddsUp` says so.
* "Nothing was written" in the time-out message (`sap_sync_runner.py:213-214`)
  is wrong if the first catalogue had been committed, or if the watchdog fired
  after the child's normal exit.
* The button's busy test does not see the nightly task.  Over ssh both copy
  their query to one file (`sap_db_pull.py:310`), and one may execute the
  other's; `GoodsGoToTheirGroup` holds with at most one remote process, and is
  violated with two.
* After staff delete the order of a paid checkout, the next poll or sweep
  writes another (`DeletedStaysDeleted` in `Checkout` does not hold).
* Settings: `NaN` and infinities leave `coerce` as an uncaught error, and two
  saves that insert one key make the second a 500.
* Accounts: two managers who revoke one another's `user_management` at once
  leave none, and no guard is about that (`LastManagerGoesByItsOwnHand` excepts
  it); PUT with `is_active` false passes the guard that deactivation of oneself
  has; staff who mistype their own new address, and customers who sign in by
  Google, cannot recover it; a manager's change of a customer's address keeps
  `is_verified` and any pending link; reset links survive a change of address,
  and sessions survive a new password; two threads may spend one reset link;
  `create_admin` leaves `admin` false.
* Catalogue: two overlapping edits of a price may leave the list price below
  it; a discount of 150 percent alone is stored; explicit nulls for a price, a
  discount type or a promotion's start are a 500; promotions and sets are
  listed with no tie-break; a picture is stored under the row's name, so
  products with one name share a file; two deletions at once are both filed.
* Activity log: rows the database removes or nulls by foreign key are not
  filed, though `activity.py:17-21` names only two exceptions; options under a
  replaced group are not either; old values may be stale when edits overlap.
  A session that goes on after a failed flush keeps what it collected: the
  sweep does (`checkout_sweep.py:96`), and no session of the model does.
* A code built from a static template carries no expiry and never counts as
  expired.

## 7. Not modelled

* PDF and Telegram texts, HTTP clients, image conversion, the object store,
  e-mail, metrics, reports: I/O and layout, whose outcomes are choices of the
  models.
* PayWay in `OrderPayment`: it asks by `tran_id`, one per order number, where
  Bakong asks by md5.
* The status page, the bot's login and refund messages, the items follow-up of
  an alert, the runner's list of past runs.
* The listings of promotions and sets, the reading of the activity log, its
  labels and redaction, and its entries about orders, accounts and settings:
  the listener is the same for every table, and `Catalogue` has those with
  children, cascades and two flushes.
* Names, telephone numbers, pictures and descriptions: columns no decision
  reads.
* Migrations and seeds, run once by hand (`create_admin.py` is `Bootstrap`).

## 8. Plan

Done, in this order: `Checkout` with `Purchase` and its proofs, `OrderPayment`
and its proofs, `OrderAlert`, `CatalogueSync` with `SapSyncRunner`, `Pricing`;
then `SettingsCache`, `LoginThrottle`, `Accounts`, `Listing`, `Catalogue` with
`ActivityLog`, `Khqr`.

Proved: the invariants and action properties of all of the above.
