------------------------------- MODULE Pricing -------------------------------
(***************************************************************************)
(* The table of pricing rules, the fare and the earnings quoted from it,   *)
(* and what completeTrip makes of them.  A rule with a state is for that   *)
(* state, one without is a default; each also names a city.  Money is in   *)
(* paise, rules in the order of created_at.                                *)
(***************************************************************************)
EXTENDS Integers, FiniteSets

CONSTANTS
  Public, Legacy,  \* vehicle types with a default rule, and retired ones
  Cities, Home,    \* DEFAULT_PRICING_CITY is Home
  States, NoState,
  Seeded, Edited,  \* rates: of the defaults, and an admin's
  Settings,        \* platform fee in rupees, GST percent
  Kms,             \* lengths of a trip
  Hours, Demands,  \* surge of the hour, of the live bookings, in tenths
  Discounts, Tolls,
  MaxRules,        \* bound: rules ever added
  MaxTrips         \* bound: trips quoted

VARIABLES
  rule,        \* table pricing_rules
  issued,      \* rules added so far: 1..issued
  seeders,     \* syncDefaultPricingRules and seedPricingRules under way
  initialized, \* pricingRulesInitialized of the process
  trip,        \* one offer, its booking, and the money of its completion
  trips        \* trips quoted so far

table == <<rule, issued>>
vars == <<rule, issued, seeders, initialized, trip, trips>>

Types == Public \cup Legacy
Ids == 1..MaxRules
\* base_fare, per_km_rate in rupees; base_distance_km; commission_percent.
Rate == [base : Nat, free : Nat, perKm : Nat, pct : 0..100]
Rule == [type : Types, city : Cities, state : States \cup {NoState}, active : BOOLEAN, rate : {Seeded, Edited}]
NoRule == [type |-> "none"]
\* seeders: who seeds, the types left, the type found missing.
NoTrip == [at |-> "none"]

Init ==
  /\ rule = [i \in Ids |-> NoRule] /\ issued = 0
  /\ seeders = {} /\ initialized = FALSE
  /\ trip = NoTrip /\ trips = 0

Rules == {i \in Ids : rule[i] # NoRule}
First(ids) == CHOOSE i \in ids : \A j \in ids : i <= j
Put(i, r) == rule' = [rule EXCEPT ![i] = r]
Insert(r) == /\ issued < MaxRules /\ issued' = issued + 1
             /\ Put(issued + 1, r)
Retire(i) == [rule[i] EXCEPT !.active = @ /\ ~(rule[i].city = Home /\ rule[i].type \in Legacy)]

(***************************************************************************)
(* Defaults: filled in once by each process, and again by an admin.        *)
(***************************************************************************)

\* ensureDefaultPricingRules: one sync, which every caller awaits.
Ensure ==
  /\ ~initialized /\ \A s \in seeders : s.who # "process"
  /\ seeders' = seeders \cup {[who |-> "process", left |-> Public, insert |-> NoState]}
  /\ UNCHANGED <<table, initialized, trip, trips>>

SeedPricingRules ==
  /\ \A s \in seeders : s.who # "admin"
  /\ seeders' = seeders \cup {[who |-> "admin", left |-> Public, insert |-> NoState]}
  /\ UNCHANGED <<table, initialized, trip, trips>>

Seed(type) == [type |-> type, city |-> Home, state |-> NoState, active |-> TRUE, rate |-> Seeded]

FaultySeedFind(s, type) ==  \* the process resets what is there, as the admin's endpoint does
  /\ s \in seeders /\ type \in s.left /\ s.insert = NoState
  /\ LET found == {i \in Rules : rule[i].type = type /\ rule[i].city = Home}
     IN IF found = {}
        THEN seeders' = (seeders \ {s}) \cup {[s EXCEPT !.insert = type]} /\ UNCHANGED table
        ELSE /\ seeders' = (seeders \ {s}) \cup {[s EXCEPT !.left = @ \ {type}]}
             /\ \E i \in found : Put(i, [Seed(type) EXCEPT !.state = rule[i].state])
             /\ UNCHANGED issued
  /\ UNCHANGED <<initialized, trip, trips>>

\* The rule of this type and city: left alone, or by the admin set back to the
\* default rates, all but its state.
SeedFind(s, type) ==
  /\ s \in seeders /\ type \in s.left /\ s.insert = NoState
  /\ LET found == {i \in Rules : rule[i].type = type /\ rule[i].city = Home}
     IN IF found = {}
        THEN seeders' = (seeders \ {s}) \cup {[s EXCEPT !.insert = type]} /\ UNCHANGED table
        ELSE /\ seeders' = (seeders \ {s}) \cup {[s EXCEPT !.left = @ \ {type}]}
             /\ IF s.who = "process" THEN UNCHANGED rule
                ELSE \E i \in found : Put(i, [Seed(type) EXCEPT !.state = rule[i].state])
             /\ UNCHANGED issued
  /\ UNCHANGED <<initialized, trip, trips>>

SeedInsert(s) ==
  /\ s \in seeders /\ s.insert # NoState
  /\ Insert(Seed(s.insert))
  /\ seeders' = (seeders \ {s}) \cup {[s EXCEPT !.left = @ \ {s.insert}, !.insert = NoState]}
  /\ UNCHANGED <<initialized, trip, trips>>

\* Finally the rules of retired types in this city are deactivated.
SeedRetire(s) ==
  /\ s \in seeders /\ s.left = {}
  /\ rule' = [i \in Ids |-> IF i \in Rules THEN Retire(i) ELSE NoRule]
  /\ seeders' = seeders \ {s}
  /\ initialized' = (initialized \/ s.who = "process")
  /\ UNCHANGED <<issued, trip, trips>>

Restart ==
  /\ initialized' = FALSE /\ seeders' = {}
  /\ UNCHANGED <<table, trip, trips>>

(***************************************************************************)
(* An admin's createPricingRule, updatePricingRule, deletePricingRule.     *)
(***************************************************************************)

Create(type, city, state) ==
  /\ ~\E i \in Rules : rule[i].type = type /\ rule[i].state = state /\ rule[i].active
  /\ Insert([type |-> type, city |-> city, state |-> state, active |-> TRUE, rate |-> Edited])
  /\ UNCHANGED <<seeders, initialized, trip, trips>>

\* Whatever other rules there are.
Update(i, city, state, active) ==
  /\ i \in Rules
  /\ Put(i, [rule[i] EXCEPT !.city = city, !.state = state, !.active = active, !.rate = Edited])
  /\ UNCHANGED <<issued, seeders, initialized, trip, trips>>

Delete(i) ==
  /\ i \in Rules
  /\ Put(i, NoRule)
  /\ UNCHANGED <<issued, seeders, initialized, trip, trips>>

(***************************************************************************)
(* resolvePricingRule and estimateFare.                                    *)
(***************************************************************************)

Active(type, state) == {i \in Rules : rule[i].active /\ rule[i].type = type /\ rule[i].state = state}

\* The rules a quote may use: one of the state's, else the oldest default.
Resolve(type, state) ==
  IF state # NoState /\ Active(type, state) # {} THEN Active(type, state)
  ELSE LET ids == Active(type, NoState) IN {i \in ids : \A j \in ids : i <= j}

\* Math.round, of n / d.
Round(n, d) == (2 * n + d) \div (2 * d)
Ceil(n, d) == -((-n) \div d)
NonNeg(n) == IF n < 0 THEN 0 ELSE n
ShieldFee == 100
\* calculateSurgeMultiplier: the higher of the two, at most 1.6.
Surge(hour, demand) == LET s == IF hour > demand THEN hour ELSE demand IN IF s > 16 THEN 16 ELSE s

\* Whole rupees, by a surge of tenths; platform fee and both halves of the GST
\* on top.
Transport(rate, km, surge) == Round((rate.base + NonNeg(km - rate.free) * rate.perKm) * surge, 10)
Fare(delivery, set) ==
  LET taxable == 100 * (delivery + set.fee) IN taxable + 2 * Round(taxable * set.gst, 200)
Earnings(delivery, pct) == 100 * delivery - delivery * pct - ShieldFee

\* estimateFare and create: the discount counts against the fare only.  The
\* state is what the pickup is found to be in, if it is found.
Quote(type, state, km, surge, discount, set) ==
  /\ initialized /\ trip = NoTrip /\ trips < MaxTrips
  /\ \E i \in Resolve(type, state) :
       LET d == Transport(rule[i].rate, km, surge)
       IN trip' = [at |-> "offer", delivery |-> d, fare |-> NonNeg(Fare(d, set) - discount),
                   quoted |-> Earnings(d, rule[i].rate.pct)]
  /\ trips' = trips + 1
  /\ UNCHANGED <<table, seeders, initialized>>

\* updateOfferFare and retrySearch: the breakdown stays.
Raise ==
  /\ trip.at = "offer"
  /\ trip' = [trip EXCEPT !.at = "raised", !.fare = @ + 1000]
  /\ UNCHANGED <<table, seeders, initialized, trips>>

(***************************************************************************)
(* completeTrip: the rule of the vehicle's type and the booking's city.    *)
(***************************************************************************)

Collect(fare) == 100 * Ceil(fare, 100)

FaultyRecovery(fare, earnings) ==  \* of the fare, not of the cash
  100 * Round(fare - earnings, 100)

\* deductCashCommission: whole rupees.
Recovery(fare, earnings) == 100 * Round(Collect(fare) - earnings, 100)

Completed(type, city) == {i \in Rules : rule[i].active /\ rule[i].type = type /\ rule[i].city = city}

\* Any approved vehicle of the driver may have been used.
Complete(type, city, toll) ==
  /\ initialized /\ trip.at \in {"offer", "raised"}
  /\ \E pct \in IF Completed(type, city) = {} THEN {25} ELSE {rule[i].rate.pct : i \in Completed(type, city)} :
       LET earnings == Earnings(trip.delivery, pct) + toll
           fare == trip.fare + toll
       IN trip' = [at |-> "completed", quoted |-> trip.quoted, toll |-> toll, earnings |-> earnings,
                   cash |-> Collect(fare), recovered |-> Recovery(fare, earnings)]
  /\ UNCHANGED <<table, seeders, initialized, trips>>

Done == /\ trip.at = "completed" /\ trip' = NoTrip
        /\ UNCHANGED <<table, seeders, initialized, trips>>

SeedStep(s) == SeedInsert(s) \/ SeedRetire(s) \/ \E type \in Public : SeedFind(s, type)

Next ==
  \/ Ensure \/ SeedPricingRules \/ Restart \/ Raise \/ Done
  \/ \E s \in seeders : SeedStep(s)
  \/ \E i \in Ids : Delete(i)
  \/ \E city \in Cities, state \in States \cup {NoState} :
       \/ \E type \in Types : Create(type, city, state)
       \/ \E i \in Ids, active \in BOOLEAN : Update(i, city, state, active)
  \/ \E type \in Types, state \in States \cup {NoState}, km \in Kms, hour \in Hours, demand \in Demands,
        discount \in Discounts, set \in Settings :
       Quote(type, state, km, Surge(hour, demand), discount, set)
  \/ \E type \in Types, city \in Cities, toll \in Tolls : Complete(type, city, toll)

Spec == Init /\ [][Next]_vars

(***************************************************************************)
(* Properties.                                                             *)
(***************************************************************************)

\* Every variable has its type.
TypeOK ==
  /\ rule \in [Ids -> Rule \cup {NoRule}] /\ issued \in 0..MaxRules
  /\ seeders \subseteq [who : {"process", "admin"}, left : SUBSET Public, insert : Public \cup {NoState}]
  /\ initialized \in BOOLEAN /\ trips \in 0..MaxTrips
  /\ trip.at \in {"none", "offer", "raised", "completed"}

\* "must never touch an existing row, or every server restart would silently
\* wipe out admin-configured rates": whatever the admin made of the rules, the
\* defaults a restart fills in never change the rule a quote of a current type
\* uses, if there is one.
RestartKeepsQuotes ==
  [][(\E s \in seeders : s.who = "process" /\ SeedStep(s)) =>
       \A type \in Public, state \in States \cup {NoState} :
         Resolve(type, state) # {} =>
           /\ Resolve(type, state)' = Resolve(type, state)
           /\ \A i \in Resolve(type, state) : rule'[i] = rule[i]]_vars

\* The driver of a cash trip nets the earnings, to half a rupee: the cash less
\* what is recovered from the wallet, also if the discounts exceed Zipto's share.
CashNetsEarnings ==
  trip.at = "completed" =>
    LET net == trip.cash - trip.recovered IN net - trip.earnings \in -50..50
=============================================================================
