------------------------------ MODULE Services -------------------------------
(***************************************************************************)
(* The services together: Accounts and an instance of each other module.   *)
(* They share no state here, so a behaviour is about one of them, the one  *)
(* at work; the rest stay as they start, where their invariants hold.      *)
(***************************************************************************)
EXTENDS Accounts

CONSTANTS
  \* Payouts
  Withdrawals, Amount, InitialBalance, MaxMoves, Delivery, Reversals, MaxRestarts,
  \* Settlement
  MaxRows, MaxCrashes,
  \* Shield
  Trips, MaxTransactions, MaxPaidOut,
  \* Coupons
  Offers, Customers, Cap, PerUser, FirstRide, MaxAccepts, MaxEdits,
  \* BankAccounts
  Numbers, MaxAccounts,
  \* Reports
  MaxBookings, MaxReports, MaxAged,
  \* Support
  MaxTickets, MaxResets,
  \* Pricing
  Public, Legacy, Cities, Home, States, NoState, Seeded, Edited, Settings, Kms, Hours, Demands,
  Discounts, Tolls, MaxRules, MaxTrips,
  \* Coins
  Referees, Referrer, MaxRides, MaxErrors,
  \* Ratings
  Bookings, Stars

VARIABLES
  at_work,
  \* Payouts
  balance, frozen, moves, request, debited, refunds, transfer, hooks, manual, payout_calls,
  payout_crashes, payout_disturbed,
  \* Settlement
  trip, via, status, paid, credited, trip_calls, trip_crashes, earnings, charged, trip_disturbed,
  \* Shield
  fund, contributed, paidOut, shield_calls, shield_disturbed,
  \* Coupons
  coupon, usages, riders, offer, edit, edits, lost, overlapped,
  \* BankAccounts
  account, account_count, beneficiary, bank_calls, bank_disturbed,
  \* Reports
  kind, rows, open, checks, aged, raced, due,
  \* Support
  ticket, ticket_calls, resets, settled, reopened,
  \* Pricing
  rule, rule_count, seeders, initialized, quoted_trip, trips,
  \* Coins
  coins, coin_entries, referral, bonus, reverts, coin_rides, coin_calls, errors, drift,
  coin_disturbed,
  \* Ratings
  ratings, driver_profile, rating_calls, doubled, rating_disturbed

\* A constant of the same name is substituted for each of theirs.
Wallets == INSTANCE Payouts WITH
  MaxCrashes <- MaxRestarts,
  calls <- payout_calls, crashes <- payout_crashes, disturbed <- payout_disturbed

Ends == INSTANCE Settlement WITH
  calls <- trip_calls, crashes <- trip_crashes, earned <- earnings, disturbed <- trip_disturbed

Funds == INSTANCE Shield WITH
  MaxCalls <- MaxTransactions, calls <- shield_calls, disturbed <- shield_disturbed

Uses == INSTANCE Coupons WITH rides <- riders

Banks == INSTANCE BankAccounts WITH
  issued <- account_count, calls <- bank_calls, disturbed <- bank_disturbed

Checks == INSTANCE Reports WITH rule <- kind, bookings <- rows, calls <- checks

Desk == INSTANCE Support WITH calls <- ticket_calls

Rules == INSTANCE Pricing WITH issued <- rule_count, trip <- quoted_trip

Rewards == INSTANCE Coins WITH
  entries <- coin_entries, rides <- coin_rides, calls <- coin_calls, disturbed <- coin_disturbed

Reviews == INSTANCE Ratings WITH
  profile <- driver_profile, calls <- rating_calls, disturbed <- rating_disturbed

ASSUME ServicesBounds == MaxRows \in Nat /\ MaxRestarts \in Nat /\ MaxMoves \in Nat

ASSUME WithdrawalsAssumption ==
  /\ Wallets!IsFiniteSet(Withdrawals) /\ Amount \in [Withdrawals -> Nat \ {0}]
  /\ InitialBalance \in Nat /\ Delivery \subseteq {"lost", "repeated"} /\ Reversals \in BOOLEAN

\* max_uses_total and max_uses_per_user.
ASSUME CouponsAssumption == Cap \in Nat /\ PerUser \in Nat

ASSUME BanksAssumption == MaxAccounts \in Nat

ASSUME SupportAssumption == MaxTickets \in Nat /\ MaxResets \in Nat

\* submitRating takes 1 to 5 stars.
ASSUME RatingsAssumption == Stars \subseteq 10..50

\* No retired vehicle type has a default rule; the defaults are for a city.
ASSUME PricingAssumption ==
  /\ Home \in Cities /\ Public \cap Legacy = {} /\ MaxRules \in Nat /\ MaxTrips \in Nat
  /\ {Seeded, Edited} \subseteq Rules!Rate /\ Settings \subseteq [fee : Int, gst : Int]
  /\ Kms \cup Hours \cup Demands \cup Discounts \cup Tolls \subseteq Int

Parts ==
  {"accounts", "payouts", "settlement", "shield", "coupons", "banks", "reports", "support",
   "pricing", "coins", "ratings"}

\* Which customers make the offers varies in Coupons alone, the kind of report in
\* Reports.
ServicesInit ==
  /\ at_work \in Parts
  /\ Init /\ Wallets!Init /\ Ends!Init /\ Funds!Init /\ Uses!Init /\ Banks!Init
  /\ Checks!Init /\ Desk!Init /\ Rules!Init /\ Rewards!Init /\ Reviews!Init
  /\ at_work # "reports" => kind = "driver"
  /\ at_work # "coupons" => \A o \in Offers : offer[o].by = (CHOOSE u \in Customers : TRUE)

wallets == <<balance, frozen, moves, request, debited, refunds, transfer, hooks, manual,
             payout_calls, payout_crashes, payout_disturbed>>
ends == <<trip, via, status, paid, credited, trip_calls, trip_crashes, earnings, charged, trip_disturbed>>
funds == <<fund, contributed, paidOut, shield_calls, shield_disturbed>>
uses == <<coupon, usages, riders, offer, edit, edits, lost, overlapped>>
banks == <<account, account_count, beneficiary, bank_calls, bank_disturbed>>
reports == <<kind, rows, open, checks, aged, raced, due>>
desk == <<ticket, ticket_calls, resets, settled, reopened>>
rules == <<rule, rule_count, seeders, initialized, quoted_trip, trips>>
rewards == <<coins, coin_entries, referral, bonus, reverts, coin_rides, coin_calls, errors, drift,
             coin_disturbed>>
reviews == <<ratings, driver_profile, rating_calls, doubled, rating_disturbed>>

ServicesNext ==
  /\ UNCHANGED at_work
  /\ IF at_work = "accounts" THEN Next ELSE UNCHANGED vars
  /\ IF at_work = "payouts" THEN Wallets!Next ELSE UNCHANGED wallets
  /\ IF at_work = "settlement" THEN Ends!Next ELSE UNCHANGED ends
  /\ IF at_work = "shield" THEN Funds!Next ELSE UNCHANGED funds
  /\ IF at_work = "coupons" THEN Uses!Next ELSE UNCHANGED uses
  /\ IF at_work = "banks" THEN Banks!Next ELSE UNCHANGED banks
  /\ IF at_work = "reports" THEN Checks!Next ELSE UNCHANGED reports
  /\ IF at_work = "support" THEN Desk!Next ELSE UNCHANGED desk
  /\ IF at_work = "pricing" THEN Rules!Next ELSE UNCHANGED rules
  /\ IF at_work = "coins" THEN Rewards!Next ELSE UNCHANGED rewards
  /\ IF at_work = "ratings" THEN Reviews!Next ELSE UNCHANGED reviews

ServicesSpec ==
  /\ ServicesInit
  /\ [][ServicesNext]_<<at_work, vars, wallets, ends, funds, uses, banks, reports, desk,
                         rules, rewards, reviews>>

\* The variables of every service have their types.
TypesOK ==
  CASE at_work = "accounts" -> TypeOK
    [] at_work = "payouts" -> Wallets!TypeOK
    [] at_work = "settlement" -> Ends!TypeOK
    [] at_work = "shield" -> Funds!TypeOK
    [] at_work = "coupons" -> Uses!TypeOK
    [] at_work = "banks" -> Banks!TypeOK
    [] at_work = "reports" -> Checks!TypeOK
    [] at_work = "support" -> Desk!TypeOK
    [] at_work = "pricing" -> Rules!TypeOK
    [] at_work = "coins" -> Rewards!TypeOK
    [] at_work = "ratings" -> Reviews!TypeOK

\* No withdrawal takes more than the wallet holds.
NoOverdraft == at_work = "payouts" => Wallets!NoOverdraft
\* A trip is settled with its driver once.
SettledOnce == at_work = "settlement" => Ends!SettledOnce
\* A completed payment was paid, a wallet top-up credited at most once.
CompletedWasPaid == at_work = "settlement" => Ends!CompletedWasPaid
\* The shield's ledger row tells what its entries add up to.
FundAddsUp == at_work = "shield" => Funds!FundAddsUp
\* A coupon is used within its limits.
CouponLimits == at_work = "coupons" => Uses!CouponLimits
\* Customers who break a rule are reported, once.
OffendersReported == at_work = "reports" => Checks!OffendersReported
\* A driver with bank accounts has one primary account.
OnePrimary == at_work = "banks" => Banks!OnePrimary
\* Tickets are numbered in order, settled ones stay settled.
TicketsInOrder == at_work = "support" => Desk!TicketsInOrder
\* A restart keeps the quotes.
RestartKeepsQuotes == Rules!RestartKeepsQuotes
\* The driver of a cash trip nets the earnings.
CashNetsEarnings == at_work = "pricing" => Rules!CashNetsEarnings
\* A referral pays both sides once.
ReferralPaysOnce == at_work = "coins" => Rewards!ReferralPaysOnce
\* A coin balance is what its entries add up to, and what failures left.
CoinsMatchEntries == at_work = "coins" => Rewards!CoinsMatchEntries
\* A driver's profile agrees with the ratings.
RatingsAgree == at_work = "ratings" => Reviews!RatingsAgree
=============================================================================
