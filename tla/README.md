# Formal models of the booking backend

TLA+ models of the NestJS backend in this repository (`src/src`): a delivery-booking service on
Postgres (TypeORM), Redis, Bull queues and Socket.IO, with payments by HDFC, Cashfree and Razorpay and
drivers' wallets paid out by Cashfree. The models cover the parts where state is shared between
asynchronous handlers, and where a bug is an interleaving or a failure rather than a wrong line.

    tlc -workers 2 -config Dispatch_safe.cfg MCDispatch.tla     # one run; each .cfg is a run
    tlapm DispatchProofs.tla       # proofs; also Trip-, Payouts-, Topups-, Settlement-, Accounts-,
                                   # Ledgers- and ServicesProofs

`PROJECT.json` lists runs, the definition-to-source map, hazards, findings and theorems.

## 1. The system

Node runs handlers one at a time and switches between them at every `await`. Nothing locks except
where the code says so: Redis `SET NX` for the two accept locks, `SELECT ... FOR UPDATE` inside
`adjustWallet` and `recordUsage`, conditional `UPDATE`s, and unique columns. Every other
read-then-write is a race window, and `save` of an entity read before it writes back every column
that differs from the row.

| Component | State | Operations | Talks to | What is hard |
|---|---|---|---|---|
| Offers and dispatch (`booking.service`, `booking.processor`) | Redis `offer:ID`, `:offer`, `:excluded`, `:broadcast`, `:broadcast_drivers`, `:accepting`, `offer:accepted:ID`; Bull jobs | create, updateOfferFare, retrySearch, cancelOffer, search, prompt, broadcast, timeouts, reject, accept | coins, bookings table, gateway | stale reads across awaits, jobs of an earlier search, TTLs, two drivers at once, restarts |
| Trip (`booking.service`, `admin.service`) | row in `bookings` | startTrip, completeTrip, cancel, admin cancel and reassign | wallet, rewards, payments | `save` writes back the whole row that was read |
| Handoff (`booking.service`) | `handoff:ID`, its lock, `handoff_expiry` jobs, `handoff_count` | request, accept, cancel, expire | trip | request read before the lock, jobs of an earlier request |
| Abandonment guards and incidents (`booking.gateway`, `booking.processor`, `driver-fraud`) | grace key, cancel marker, ghost and SLA jobs, `is_flagged`, incidents, `wallet_frozen` | disconnect, reconnect, ghost check, SLA breach, GPS cron, confirm, clear | trip, wallet | three guards and an admin at once, a marker shared by several checks |
| Withdrawals (`driver.service`, `admin.service`, `driver-wallet`, `cashfree-payout`) | withdrawal rows, wallet balance and entries | request, approve, reject, webhook | Cashfree | a bank transfer that can time out, a webhook that can be lost, early, late or repeated, an admin acting meanwhile |
| Top-ups (`driver.service`, `admin.service`, `payment.controller`) | `driver_topup_requests`, wallet | submit, verify, polls, webhook, admin decisions | Razorpay, Cashfree | credited exactly once by four kinds of caller |
| Payments and settlement (`payment.service`, `completeTrip`, `driver-wallet`) | payment rows, booking, customer's and driver's wallets | initiate, redirect, poll, webhook, cash, earnings, commission | HDFC, Cashfree | callbacks late, repeated, superseded, while the trip completes |
| Pricing (`booking.service`, `admin.service`) | `pricing_rules`, quotes in offers | seeding at every start, edits, estimateFare, surge, completeTrip's fare | offers | a restart must keep what admins set; rounding in several places |
| Coins and referrals | `users.coins`, `coin_transactions`, `referrals` | award, credit, redeem, transfer, apply, reward | bookings | two statements per change, a claim taken back after a partial failure |
| Coupons, shield fund | counters and ledgers | validate, record, edit; contribute, withdraw | bookings | limits checked outside locks, rows saved without one |
| Accounts and sessions (`auth.service`, `driver.service`, `admin.service`) | `users`, `driver_profiles`, `refresh_tokens` | logins, refresh, logout, deletion, profile, review, availability, suspension | dispatch (who is online) | whole rows saved after several awaits |
| Bank accounts (`driver.service`) | rows, Cashfree beneficiaries | add, remove, set primary | withdrawals | which is primary, when two calls overlap |
| Customer fraud rules (`fraud.service`) | reports, blocks, appeals, `users.is_active` | checks after a cancellation, drivers' reports, resolution; block, appeal, decision, hourly job | cancel | checks of two cancellations at once; a block must end |
| Ratings, support tickets, system settings | own tables, the settings' caches | rate; create, answer, close; read, update | | numbers and averages made of counts read before, caches refilled by older reads |
| Customer profile, vehicles, notifications, transaction log, health, external clients, guards, utilities, seeds, scripts | own tables or none | CRUD, reports, HTTP | | little or no interaction |

What makes each correct: an offer ends in at most one booking and its search ends; coins are neither
lost nor minted; a delivery is handed over once, ends once, and is never left unwatched; an
abandonment is investigated; a withdrawal's money is in one place and its status says where; the
wallet is not overdrawn by withdrawals; every credit (trip, top-up, reward) happens exactly once; a
payment row is completed only by money; restarts keep the quotes; limits of a coupon hold; a driver
who is online can be reached; a suspension ends.
`PROJECT.json` lists what can go wrong against these, line by line, under `hazards`.

## 2. Modules

| Module | Models | State and grain |
|---|---|---|
| `Dispatch` | offers from creation to acceptance | one variable per Redis key; `jobs` are due or delayed Bull jobs and calls that have not begun, `tasks` the handlers between read and write, `call[d][o]` the stage of `acceptBooking(o)` by driver `d` |
| `Trip` | trip, handoff, guards, incidents | `row` is the bookings table, `calls` are handlers with the row they read (`snap`); `sla`, `ghost`, `expiry` pending jobs; `grace` and `marker` the two keys by which a reconnection cancels a ghost check |
| `Payouts` | withdrawals | `request` the table, `transfer` Cashfree's view, `hooks` webhook events under way, `manual` transfers an admin makes by hand, `refunds` the refund entries |
| `Custody` | what withdrawals promise | where each amount is, and the balance |
| `PayoutsCustody` | `Payouts` implements `Custody` | the refinement mapping |
| `Topups` | top-ups of the driver's wallet | `row` per reference, `credits` the wallet entries, `calls` the handlers between flip and credit |
| `Payments` | payment rows of one booking and of the customer's wallet top-up | the sequence of rows, `paid` what the gateway has, handlers between read and save |
| `Settlement` | `completeTrip`'s money; extends `Payments` | earnings and commission entries, while the payments of the same booking go on |
| `Coins` | coins, referrals | a balance, its entries, referral rows; every statement a step |
| `Coupons`, `Shield` | coupon limits, the fund | row, usages or entries, the rows that calls have read |
| `Pricing` | rules, seeding, estimates, the fare and money of a trip | the table, seeders part-way, one quoted trip; amounts in paise, as the code rounds them |
| `Accounts` | users, driver profiles, sessions of one person | two rows, the phone's tokens, handlers with the rows they read |
| `BankAccounts` | a driver's accounts and beneficiaries | rows in order of creation, handlers |
| `Reports`, `Blocks` | customer fraud rules | bookings, each with how long ago it was created and updated (a few classes of age), unresolved reports; blocks, `users.is_active` |
| `Ratings`, `Support`, `Settings` | the services of that name | rows, what calls have read; the two caches |
| `Services` | `Accounts` and an instance of `Payouts`, `Settlement`, `Shield`, `Coupons`, `Coins`, `Pricing`, `Ratings`, `BankAccounts`, `Reports` and `Support` side by side | their variables, and `at_work` (see below) |

`MCDispatch`, `MCTrip`, `MCPayouts` and `MCServices` give `Dispatch`, `Trip`, `PayoutsCustody` and `Services` the sets
TLC needs; `MCLive` joins four models for their liveness. The theorems are in

- `DispatchProofs`, `TripProofs`, `PayoutsProofs`, `TopupsProofs`, `SettlementProofs` and `AccountsProofs`, about the modules of
  those names (`SettlementProofs` about `Payments` too, `PayoutsProofs` about `PayoutsCustody`);
- `LedgersProofs`, about `Shield`, `Coupons`, `Coins`, `Ratings` and `Reports`;
- `ServicesProofs`, about `Support`, `BankAccounts` and `Pricing`, and about `Services` as a whole.

**Composition.** `Settlement` is composed with `Payments`: one row of bookings and one table of payments,
written by `completeTrip` and by customer, driver and gateways. `Dispatch` calls coins itself.
Otherwise the modules meet where one over-approximates the other: `Trip!Init` is what
`acceptBooking` leaves, `Dispatch` sees of a trip only that it ends (`TripEnds`, any time), `Payouts` sees a
wallet that may be frozen (`Freeze`) and that trips and top-ups move (`Move`) at any time, `Coupons`
and `Ratings` see bookings that are accepted and completed, `Accounts` sees a wallet that is credited.

**Several modules in one run.** `Services` and `MCLive` put modules together that share no state here. A variable
`at_work`, chosen at the start, says which of them takes the steps; the others stay in their initial
states. The behaviours are those of the modules, side by side and not interleaved: as no variable is
shared, an interleaving of two of them would satisfy and violate just what its parts do. The number of
states is then the sum, not the product.

**Grain.** A handler is one step up to its first await after a read and another one from there;
what it has read is carried by a record (`tasks`, `calls`) or in a stage (`call`, `snap`). A run of
writes with no read between them is one step, except where the properties tell the
difference and the models split it (`startTrip`'s save and its job, `requestHandoff`'s key and its job,
`acceptHandoff`'s save and each of its deletes, the keys and jobs of a connection, freeze and insert of an
incident, each write of a decision on it, the catch block of `acceptBooking`, the creation of the fund's row, every
step of a withdrawal, a top-up, a settlement, a coin change, a referral, a login, a block).
`cancelOffer` and `handleBroadcastTimeout` read the offer only to look whether it is there: their deletes may come at any time
after it was made, also when it is gone or was made again by then, and read and deletes are one step without that condition.
`Repository.update` writes the columns it names; `save` looks at the row again and writes the columns that differ from what it
finds: all that was read, or the changed columns only when the other write comes after that look. `Shield`, `Coupons`,
`Accounts` and `Blocks` have both outcomes; `Trip` has the first, which loses more.

**Queries that never come back empty.** On Postgres `manager.query` answers an `UPDATE ... RETURNING` with the pair of rows and
count (`admin.service` 2789 reads `result[1]`). `coin.service` tests the length of that answer (249, 304), which is 2
whatever was updated: a redemption or a transfer of coins that are not there takes none, is taken for done and gets
its entry. `Dispatch` and `Coins` model the answer as it is.

**Disturbances.** Several properties exempt what `disturbed`, `revived`, `raced`, `barred`, `overlapped`, `doubled` or `lost` record: history
variables that no guard of the code reads. This is not a way out but the content of the property:
the code does not keep the unconditional statement, and the property says that these events, and
nothing else, break it.

- `Dispatch`: a search in flight wrote a prompt or a broadcast after the first booking; a call
  after the INSERT threw; a restart cut an accept after its INSERT; the lock expired under an
  accept. `revived`: a fare update wrote back an offer that had ended or timed out. `unfounded` counts the redemptions whose
  UPDATE threw, after which coins are given back that were not taken.
- `Trip`: a handler saved a row that had changed since it was read, or a restart came between a save and its job. For incidents,
  each apart: `doubled`, two guards looked for an open incident before either inserted its own (the docstring of
  `createIncidentAndFreezeWallet` calls it idempotent, nothing makes it so); `unattended`, a restart cut a guard short between
  flag and incident, or the only incident a guard found was about to be saved as cleared. Guards that overlap in other ways,
  with each other, with admins and with restarts, are not exempt.
- `Payouts`: two handlers on one withdrawal, a decision while Cashfree is paying, a webhook older
  than the transfer's state, a `createTransfer` that threw although it was taken, a restart in a handler.
- `Topups`: an admin decided while another handler worked on the row, or a restart cut a handler short.
- `Settlement`: two completions at once, a restart during one. `Shield`: two transactions or two contributions of a booking at
  once, or zeros saved over a row that was made after `getOrCreateLedger` looked.
- `Coins`: two applies on one phone at once, a restart between a claim and the end of its credits. `drift` is a count, not an exemption: how far
  failures have put a balance above its entries (a spend of coins that were not there, a refund, a statement that threw
  after the other, a restart between the two).
- `Coupons`: `overlapped`, a customer with two offers that may both still use the coupon (open, or in an accept that
  a cancellation does not stop), or an offer that two accepts booked; `lost`, an update that wrote back an older count.
- `Accounts`, `BankAccounts`: a handler wrote on the strength of something that no longer was so: a row, a
  review, a session or a guard. Their histories end there, which is a bound.
- `Reports`: two checks at once (`raced`). `Ratings`: two submissions for a booking at once (`doubled`), two that overlap.
- `Blocks`: the panel keeps the customer out, a restart between the end of the block and that of the
  suspension, or a deactivation that comes after both (`barred`).

**Faulty definitions.** `FaultyX` next to `X` is `X` with one plausible mistake. No specification uses
it. Substituted for `X` it makes TLC violate the property `PROJECT.json` names, which shows that the
property can see that mistake.

## 3. Runs

| Run | Instance | Distinct states | Question |
|---|---|---|---|
| `Dispatch_safe` | 1 offer, 2 drivers, 1 attempt, coins 1 of 2, insert and publish may fail, a redemption may throw, lock may expire under an accept, no accept begins after the first row, 1 restart | 1.4 M | do two drivers, timers, faults and a restart keep acceptance exclusive, bookings single, coins conserved, searches bounded? |
| `Dispatch_live` | 1 offer, 1 driver, 1 retry | 0.11 M | does every search and every prompt end, though jobs of the first search act on the second? |
| `Dispatch_fare` | 1 offer, 1 driver, fares 1..2, 1 restart | 0.10 M | the same under fare updates; is the lock always freed? |
| `Dispatch_v_twice` | 1 offer, 2 drivers | finding | one booking per offer |
| `Dispatch_v_discount` | 2 offers, 1 driver, coins for one | finding | a discount is paid for in coins |
| `Trip_handoff` | 1 booking, 2 drivers, 2 calls at once, 1 transfer, no guards firing, 1 restart | 1.9 M | is a delivery handed over once, and do ended deliveries stay ended? |
| `Trip_guards` | 1 booking, 1 driver whose socket may drop, 1 call, 1 ghost check, 1 incident | 0.76 M | do guards and incidents agree, and is no delivery left unattended? |
| `Trip_v_reconnected` | 2 ghost checks | finding | a reconnected driver is not flagged |
| `Payouts_live` | 1 request, 3 handlers, 1 other movement, repeated webhooks, reversal, restart | 0.41 M | do withdrawals implement `Custody`, do money and status agree, are failures refunded? |
| `Payouts_v_paid` | 1 request, 1 handler at a time | finding | what the webhook finalizes has not been refunded |
| `Services` | `Accounts`: 2 logins, 2 calls, 1 credit. `Payouts`: 2 requests of 1 on a balance of 1, 2 handlers, lost webhooks. `Settlement`: 2 rows, 2 calls, 1 restart. `Shield`: 2 bookings, 3 calls, 1 withdrawn. `Coupons`: 2 offers, 2 customers, 2 accepts of each. `Coins`: 2 referees with 2 rides and 1, 2 calls, 1 error. `Pricing`: 2 rules, 1 trip, 2 cities. `Ratings`: 2 bookings, 2 calls. `BankAccounts`: 2 accounts, 2 calls. `Reports`: 2 to 5 bookings, 2 calls. `Support`: 2 tickets, 2 calls, 1 reset | 2.1 M | is each of these safe under overlapping calls, failures and restarts: is the wallet covered, are trips settled and rewards paid once, do restarts keep quotes, do ledgers and averages agree with their rows? |
| `Live` | `Trip`: 2 drivers, 1 call, 2 transfers, 1 restart. `Topups`: 1 row of any kind, 3 calls, 1 restart. `Blocks`: 2 blocks, 2 calls, 1 restart. `Settings`: 2 values, 2 reads, 1 update, 2 failures | 0.16 M | do handoffs end and free their lock, does a paid top-up reach the wallet (once), does a suspension end, do the settings in use catch up? |

**Bounds.** They limit actors and repetitions, not orders: within them all interleavings are
explored. Two drivers are enough to race, since a third meets the same lock and the same keys;
the theorems of section 5 remove such bounds from every safety property of a passing run. One attempt makes the
search pass through prompt, exhaustion and broadcast. One retry gives two generations of jobs. One
transfer is what the code allows (`handoff_count`): a second handoff is tried and refused. Two
requests of 1 on a balance of 1 are the overdraft case. Two calls at once are what each race of
the services takes; `Shield` and `Topups` have three, since a third party (another booking, the webhook) can follow two
that overlap; one unit withdrawn from the fund (`MaxPaidOut`) is one row to be stale. Two accepts of an offer with a coupon
(`MaxAccepts`) are a double booking, two offers with a limit of one for each customer the case of a cancelled one that is
booked. `MaxRides` lets one referee end two rides at once. One redemption that throws (`MaxRedeemFaults`) and one error of coins
(`MaxErrors`: a failed statement, a short spend or a restart) each meet every other step. In `Dispatch_safe` no accept begins once a
row is there (`MaxBookings` is 1); those that had begun go on, so a second row is in reach, and the mutant that needs one finds it.
`Reports` takes the least number of bookings at which each rule fires, and time in which those within the hour and within 7
days leave their windows; the window of 30 days slides in no run. `MaxIncidents` and
"one call per guard" in `Trip` keep guards from firing for ever; the three guards still overlap at every statement, two of them
opening an incident each included, since the bound is on beginning. `MaxCalls` of `Trip` is on requests, cron and sockets, not on
jobs, and on decisions: in `Trip_guards` admins decide one incident at a time, while decisions that overlap are in the theorem only.
The constants named `Max...`, `RetryEarly`, and `Edited`, `Kms` and the like in `Pricing` have no counterpart in the code; those of
`Services` are given in `Services.cfg` and `MCServices`. What the bounds hide:
`Dispatch_live` has no fare update and `Dispatch_fare` no retry, because both together are beyond
TLC's reach in reasonable time; liveness of `Dispatch` is checked with one driver; guards and a
restart meet in no run of `Trip` (the theorems about it have both), and in `Live` a restart meets one call of a trip at
a time; with two logins of `Services`, no one who was a driver, then a customer, becomes a driver again. Three logins
pass too when `Accounts` is checked alone (3.7 M states), and the theorems hold for any number.

**Types.** `TypesOK` of `Services` is the type invariant of the module at work. The types of all models in a passing run for safety are
proved, those of `Services` as `TypesKept`; those of `Blocks` and `Settings` are stated and not in a run.

**Deadlock** is not checked: offers end, trips end and clients may stop calling.

**Fairness.** Weak fairness of due Bull jobs (Bull polls and re-runs stalled jobs), of a handler that
has awaited (Postgres, Redis and Cashfree answer or throw, and the handler goes on), of the TTL of the two locks and of
the settings' caches, of the delivery of a webhook in `Payouts` and `Topups`, and of the end of a block's time. The hourly job of `Blocks`
has strong fairness: requests come and go, and do not crowd it out for ever. Nothing is assumed of customers, drivers, admins, ends of trips, faults, or
other TTLs: `SearchEnds`, `PromptWithdrawn` and `HandoffEnds` therefore say that the jobs do the work, not
that the key expires. A restart drops HTTP handlers and un-awaited calls; jobs that were running come
back, as Bull does with stalled jobs.

**Refinement.** `Custody` says what a withdrawal is to driver and bank: its amount is in the wallet, held, paid or
returned, moves one step at a time, and the balance moves by just that. `WithdrawalsKept` is
`Custody!Spec` under the mapping of `PayoutsCustody`, which takes the place of an amount from the ledger
and the bank and never from the status of the request; `Payouts_live` checks it over every handler,
webhook and restart. A disturbed withdrawal maps to "unknown", where it may move its amount again
and again: the others must keep the promise all the same.

## 4. What the runs found

The four `violation` runs each refute a statement in a comment of the code; `findings` quotes them.

- `Dispatch_v_twice`: the accept lock excludes concurrent accepts but is freed, so a search that was
  in flight lets a second driver book the offer.
- `Dispatch_v_discount`: a redemption "atomically" checks and deducts, but what it checks is never empty: a customer with coins for
  one of two open offers has both booked with the discount.
- `Trip_v_reconnected`: two disconnections, one cancel marker: a connected driver is flagged.
- `Payouts_v_paid`: a withdrawal rejected while its transfer is under way is refunded, then paid, then finalized by the webhook.

Seen while modelling, without a run of their own (a comment that claims otherwise was not found, or the models' properties exempt them):
a driver can accept two offers at once (the lock is per offer), and `offer:accepted` may then name the
other booking; a broadcast may start after the search timed out (`booking.service` 844); `retrySearch`
has no limit though its comment says three; an offer cancelled during an accept is booked (695); a
fare update may overwrite a newer fare; the SLA job names the driver from before a handoff (2039); a concurrent webhook and
rejection refund twice; a top-up that an admin approves while a verify call flips it is credited
twice, and one cut by a restart between flip and credit is never credited; two completions settle a
trip twice; a cash trip completed by its offer's id is charged the commission although the customer has paid online, as the look at the
payments and the cash row have that id (2244, 2261), and its app gets an error; coins are given back that were not taken when the UPDATE of a redemption throws (1930), and given back
without an entry when the INSERT fails; a restart between flag and incident leaves a delivery flagged, which every guard returns on, with no
incident, and so does a guard that finds an incident which is being cleared; two guards open two incidents
(`driver-fraud` 67); a restart between claim and credits of a referral leaves it rewarded and unpaid (`referral.service` 208); zeros saved by
`getOrCreateLedger` over a row of the meantime empty the fund (`zipto-shield.service` 39); a limit of one use per customer does not
stop one who cancels an offer during its accept from using the coupon again; a redirect completes a paid top-up of the customer's wallet without crediting it, after which
verify and webhook find it done (`payment.service` 489); a ticket deleted with a driver's data can make the next number collide for ever
(`support.service` 28); `total_trips` of a driver is overwritten with the number of ratings (`rating.service` 145); an HDFC redirect of a
customer's wallet top-up that is repeated concurrently can credit it twice (`payment.service` 957, not modelled).

One was found by a proof: a customer becomes a driver again, and `verifyOtp` reads the review, not yet decided
(`auth.service` 260). An admin approves before it saves the user: `is_verified` is set, which in a customer's row it was
already, so the row is as the login read it. The login then saves it with the review it read, and an approved driver
stays unverified. It takes three logins, and the run has two, so TLC had not seen it; `ReviewAndWalletKept` could not be
proved until `Outdated` made it a disturbance.

## 5. What is proved

`DispatchProofs` proves for every value of the constants allowed by `ConstantsAssumption` (a finite set
of drivers, an absent-key value that is neither a driver nor an offer, natural bounds, any subset of the
faults):

- `TypeCorrect`: `Spec => []TypeOK`. Its invariant `Typed` adds that `bookings` is finite (a row's id
  is the number of rows plus one) and that tasks of the kinds that write the offer back carry an offer.
- `AcceptsExclude`: `Spec => []AcceptExclusive`, and `OneBooking`: `Spec => []OneBookingUnlessDisturbed`.
  Neither is inductive. Exclusion needs that a call past the lock owns it (`LockOwned`). One booking
  needs that, once an undisturbed offer has a row, no other call is past the guard and no prompt and no
  broadcast is left unless the accept is still to clean up (`BookedIsClosed`): a driver then fails the
  guard although the lock is free. `AcceptInv` is the conjunction. Most steps neither touch calls, lock and rows nor
  open a prompt; they are one lemma (`QuietStep`). A prompt or a broadcast is the other (an offer
  with a row becomes disturbed).
- `SearchBounded`: `Spec => []SearchIsBounded`, by `SearchInv`, which extends the equation between
  attempt and excluded drivers to the handlers under way.

`PayoutsProofs`, for every finite set of withdrawals, positive amounts, opening balance and faults
(`PayoutsAssumption`):

- `TypeCorrect`: `Spec => []TypeOK`, inductive as it stands.
- `WalletCovered`: `Spec => []NoOverdraft`, inductive with `TypeOK`. Only `Debit` and `Move` lower the
  balance: the first reads it again under its lock, the second is counted.
- `MoneyAgrees`: `Spec => []MoneyMatchesStatus`. Not inductive: while a handler is at work money and status
  disagree. `MoneyInv` says for each stage of each handler where the money of its withdrawal is (`Busy`), that an
  undisturbed withdrawal with no handler is as its status says (`Idle`), and that webhooks under way tell what
  Cashfree decided (`Told`). A handler leaves the other withdrawals alone (`OthersSame`, `SameKept`), so each step is
  argued for its own.
- `ImplementsCustody`: `Spec => WithdrawalsKept`, the refinement. `CustodyInit` maps the initial states;
  `CustodyNext` every step to a step of `Custody` or a stutter, under `MoneyInv`, which rules out that a
  withdrawal is paid and given back.

`TripProofs`, for all sets of bookings and drivers and all bounds (`TripAssumption`):

- `TypeCorrect`: `Spec => []TypeOK`, with what a handler has checked before its save and that incidents are finite in
  number (`Formed`).
- `HandedOverOnce`: `Spec => []OneTransfer`. `HandoffInv` has that a call past the handoff lock owns it, so that one is,
  and that the column `handoff_count`, which is read again under the lock, counts the transfers of an undisturbed booking.
- `EndedStays`: `Spec => EndedStaysEnded`, an action property, from `Formed` and a table of what each writing step does to a row
  that stays undisturbed (`UndisturbedRowNext`).
- `DeliveriesWatched`: `Spec => []OngoingWatched`. The guards that a call stands for are not inductive, since a
  restart drops calls: `WatchInv` names those that a restart either spares (a job's) or records as a disturbance.
- `FlaggedInvestigated`: `Spec => []FlaggedIsInvestigated`. `CaseInv` counts: for a booking not `doubled` there is one case at most, a call
  between its look for an open incident and its insert or a suspected incident (`OneCase`). `PursuedInv` says that a flagged booking is
  followed up by a call that will see to its incident, or by an incident that is not cleared and that no admin is about to save as cleared
  (`Standing`), whatever guards and admins do meanwhile; where a restart or an admin past unflagging defeats it, `unattended` has the booking.
  That decisions leave other incidents alone needs that each has its own id and that an admin decides on one that is filed (`Filed`).

`TopupsProofs`, for any set of references and any number of handlers:

- `TypeCorrect`: `Spec => []TypeOK`, inductive as it stands.
- `CreditsOnce`: `Spec => []CreditedOnce`. Not inductive: between the flip of a row and its credit a handler
  is on its way that nobody may double. `Owed` says that an approved row has been credited or has exactly one
  such handler, and any other row none; `Undivided` that whoever inserts, links or decides is alone with
  an undisturbed row, so that its unconditional write undoes nothing; `PaidThrough` that a link cannot be confirmed before its
  id is stored. What a step does to other rows is one lemma (`Elsewhere`).

`SettlementProofs`, for any numbers of rows, calls and restarts (`Bounds`: the first two are naturals):

- `TypeCorrect`: `Spec => []TypeOK`, inductive as it stands, and with it the types of `Payments`.
- `CompletedPaid`: `Spec => []CompletedWasPaid`. `PaidInv` adds that a call about to complete a row has seen it paid
  and that a credited row is no longer pending. `TableStep` is all that a step may do to the table.
- `SettlesOnce`: `Spec => []SettledOnce`. `SettledInv` has what the one completion under way has done at
  each of its stages, and that a trip not completed has moved no money.

`AccountsProofs`, for any numbers of logins, handlers and credits (`AccountsAssumption`):

- `TypeCorrect`: `Spec => []TypeOK`. It is not inductive: that the wallet stays within its bound needs that it is what was
  earned, and that needs that no handler saves an older row.
- `OnlineSignedIn`, `SessionsFollow`, `ReviewKept`: `Spec => []P` for `OnlineIsSignedIn`, `SessionsFollowLogins` and
  `ReviewAndWalletKept`. All hold when no handler is under way, so the invariant `AccountInv` says what each handler is
  about to mend: `OnlineInv` that a driver online is signed in or some handler will take the driver
  offline, and so it is before every new session; `SessionInv` that the session ids of a driver still to be stored are
  on no phone, later than the last change of the role, and each in one handler's hands; `ReviewInv` that one admin at
  most is between the two rows. `ReadOK` says how what a handler will save may differ from what it read.

`DispatchProofs` also has `CoinsKept`: `Spec => []CoinsConserved`, for a finite set of offers. `CoinsInv` says that as many times
the coins of an offer have left the balance as there are rows, calls about to insert one and calls about to give the coins back, not
counting those an UPDATE that threw gives back for nothing, or more if a restart came: a restart drops calls and gives nothing back. That a row takes the place of its call needs `AcceptInv` and that row ids are 1, 2, 3 ...
(`RowsNumbered`).

`LedgersProofs`, for each service first alone and then as part of `Services`:

- `ShieldAddsUp` (`FundAddsUp`), for any bookings and bounds. `FundsInv`: the balance a transaction has read covers what it will
  take (so the fund is never negative, even when an older row is saved), and, undisturbed, the calls of a booking are
  one, which found no entry. A call that found no fund and saves its zeros over one that was made meanwhile is a disturbance.
- `CouponKeepsLimits` (`CouponLimits`), for any limits (`CouponsAssumption`). `UsesInv`: the coupon counts its rows, an offer has no more uses than bookings
  and none before it is made (`RowsCounted`, `OffersGrow`), and a customer never `overlapped` has room for the use of the one offer open
  (`UsesFit`); an offer booked twice, or after it was dropped and another was opened, is such an overlap.
- `ReferralsPayOnce` (`ReferralPaysOnce`), `BalancesMatch` (`CoinsMatchEntries`) and `RewardsTyped`. `CoinsInv` has three parts. `CoinsBalances`: the
  entries, corrected by what failures and restarts have left (`drift`), are ahead of a balance by just the calls between the two statements, at
  every moment; the property is the case of none. `CoinsBonuses`: one call at most credits a referral, each stage of it has credited what it should, a claim that is
  taken back is counted, and a claim that a restart cut off may have credited too little, never too much. `CoinsPhone`: one account of a phone applies at a time and finds none before it.
- `ProfileAgrees` (`RatingsAgree`) and `ReviewsTypeCorrect`, for stars from 1 to 5 (`RatingsAssumption`). `RatingsInv`: a booking not doubled has one
  rating or one on its way; what a submission that is alone has read is what the ratings say.
- `OffendersAre` (`OffendersReported`). `ChecksInv`: who broke a rule by a cancellation, and still does, is reported or some check is on
  its way to do it, whatever other bookings do meanwhile; alone, a check that will report has found no report.

`ServicesProofs`:

- `TicketsKeepOrder` (`TicketsInOrder`). `DeskInv`: while nothing was cleared, ticket t has number t and an insertion under way
  carries the next number or an older one, which fails; an answer that would take a ticket up has not
  read it since it was settled.
- `PrimaryIsOne` (`OnePrimary`). `BanksInv`: undisturbed, two accounts are never primary, and none is only while some call is choosing one
  (`Choosing`); what each call means to save is what it read but for the one column.
- `CashNets` (`CashNetsEarnings`) and `RestartKeeps` (`RestartKeepsQuotes`), for all fares, discounts, rates and taxes
  (`PricingAssumption`). The products are left alone: they are whole numbers, and what is recovered is the cash less the earnings,
  rounded once, to within half a rupee (`RecoveryNear`, `RoundsNear`). For the restart: a default that is filled in is the newest rule, so
  never the oldest of a type that had one (`InsertKeepsQuotes`), and only retired types are switched off (`RetireKeepsQuotes`).
- `WalletKept`, `SettledKept` and `PaidKept` carry `WalletCovered`, `SettlesOnce` and `CompletedPaid` to `Services`, by a second instance
  (`WalletFacts`, `EndFacts`) of the modules that prove them: its definitions are equal to those of the instance in `Services`, one by one.
- `TypesKept` (`TypesOK`), for all services. `BanksBounded`, `DeskBounded` and `RulesBounded` are the bounds of the types, which the invariants
  above do without.

What holds of a service holds of `Services`, since a step of `Services` is one of the service at work and leaves the variables of the others:
one lemma each (`ShieldRuns`, `CouponRuns`, `RewardsRun` and so on). The assumptions of `Services` are those of its parts, with
`ServicesBounds` for those that have none of their own.

Every invariant and every action property of a passing run is stated by one of these theorems. Only model-checked are

- the liveness properties (`SearchEnds`, `PromptWithdrawn`, `LockReleased`, `DeliveryEndsOrIsFlagged`, `FailureIsRefunded`,
  `HandoffEnds`, `HandoffLockReleased`, `PaidIsCredited`, `SuspensionEnds`, `SettingsCatchUp`): fairness and `ENABLED` are beyond the prover.
  `Blocks` and `Settings`, which state little else, have no proofs.
- the counterexamples of section 4, which are violations on an instance by nature.

What a recursive definition computes cannot be proved either (induction over data), so the models count with `Cardinality` and
never fold: `Stellar`, the sum of the stars, counts the pairs of a rating and one of its tenths of a star.

## 6. What is left

1. An abstract specification of acceptance (an offer is open, then booked by one driver or closed) that
   `Dispatch` implements for undisturbed offers.
2. `Trip` composed with `Settlement`: one row, the handoff's driver is who is credited.
3. The HDFC top-up of the customer's wallet (`markWalletPaymentComplete`).

## 7. Not modelled

Listings, reports, formatting, geography (which driver is near is any choice among free drivers),
distances, OTP checks (an action is what happens after the right one), the content of notifications, signatures, and
time as such: a delay or a TTL is an event that may come at any time, except where a TTL outlasts what
it guards (the comment at the action says so). The endpoint `test/fire-offer` and the branch of
`acceptBooking` for rows already PENDING (`booking.service` 1690-1711) are left out, as nothing creates such rows; so is the insert of
a payment row when an HDFC response finds none (`payment.service` 856-868), as the row is saved before the app hears where to pay.
A scheduled offer is made like any other and gets no search: nothing but its TTL or its customer ends it, unless `retrySearch` begins one. Failing database
calls are modelled in `acceptBooking`, in coins and referral bonuses, in settings, in the checks of a customer
and in the creation of tickets, and a failing bank in withdrawals and beneficiaries; elsewhere calls succeed.

Customer profiles and vehicles are one handler and one row each; notifications, the transaction log
and health probes have no effect on anything else; the clients of maps, OTP, mail, push and storage
are HTTP wrappers without state. Guards, filters, pipes, utilities, configuration, seeds and scripts
are framework wiring. `PROJECT.json` has a line on each.
