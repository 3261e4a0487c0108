-------------------------------- MODULE Coins --------------------------------
(***************************************************************************)
(* Coins and referrals.  A balance is a column of users, and its history   *)
(* the rows of coin_transactions: every change is two statements, the row  *)
(* and the column, in one order or the other.  New customers who share a   *)
(* phone apply one referrer's code; the first ride a referee completes     *)
(* pays a bonus to both.  A customer moves coins to the wallet or redeems  *)
(* them on a booking.                                                      *)
(*                                                                         *)
(* Awards, bonuses and what is spent are all of 1.                         *)
(***************************************************************************)
EXTENDS Integers, FiniteSets

CONSTANTS
  Referees,   \* customers on one phone, none of them with a ride yet
  Referrer,   \* the customer whose code they apply
  MaxRides,   \* bound: rides each completes, of every referee
  MaxCalls,   \* bound: handlers in flight at once
  MaxErrors   \* bound: statements that fail, spends of coins that are not there, restarts

VARIABLES
  coins,      \* users.coins
  entries,    \* what the rows of coin_transactions add up to
  referral,   \* row of each referee: "none", "pending", "rewarded"
  bonus,      \* bonus rows made for each referral, to the referee and the referrer
  reverts,    \* claims taken back, of each referral
  rides,      \* completed rides of each referee
  calls,      \* handlers that have awaited
  errors,     \* failures so far
  drift,      \* for properties only: how far failures have put a balance above its entries
  disturbed   \* for properties only: see Apply and Restart

vars == <<coins, entries, referral, bonus, reverts, rides, calls, errors, drift, disturbed>>

Users == Referees \cup {Referrer}
\* What a call awaits: its next statement.
Op == {"insert", "award", "award_inc", "find", "claim", "referee", "referee_inc",
       "referrer", "referrer_inc", "revert", "spend", "refund"}
Call == [op : Op, u : Users, n : 1..MaxCalls]

Init ==
  /\ coins = [u \in Users |-> 0] /\ entries = coins
  /\ referral = [u \in Referees |-> "none"]
  /\ bonus = [u \in Referees |-> [referee |-> 0, referrer |-> 0]]
  /\ reverts = [u \in Referees |-> 0] /\ rides = reverts
  /\ drift = coins
  /\ calls = {} /\ errors = 0 /\ disturbed = {}

CallsOf(u) == {c \in calls : c.u = u}
\* The least number that is free tells the calls apart.
Start(op, u) ==
  \E n \in 1..MaxCalls :
    /\ \A m \in 1..n : (\E c \in calls : c.n = m) <=> m # n
    /\ calls' = calls \cup {[op |-> op, u |-> u, n |-> n]}
Continue(c, op) == calls' = (calls \ {c}) \cup {[c EXCEPT !.op = op]}
Return(c) == calls' = calls \ {c}
Add(table, u, k) == [table EXCEPT ![u] = @ + k]
Error == errors < MaxErrors /\ errors' = errors + 1

(***************************************************************************)
(* A code is applied.                                                      *)
(***************************************************************************)

\* applyCode reads: no referral of this customer, no completed ride, none of
\* this phone.  The phone is disturbed by an apply while another is under way.
Apply(u) ==
  /\ rides[u] = 0
  /\ \A w \in Referees : referral[w] = "none"
  /\ Start("insert", u)
  /\ disturbed' = IF \E c \in calls : c.op = "insert" THEN disturbed \cup {"phone"} ELSE disturbed
  /\ UNCHANGED <<coins, entries, referral, bonus, reverts, rides, errors, drift>>

\* referee_id is unique, device_id is not.
InsertReferral(c) ==
  /\ c \in calls /\ c.op = "insert"
  /\ referral' = IF referral[c.u] = "none" THEN [referral EXCEPT ![c.u] = "pending"] ELSE referral
  /\ Return(c)
  /\ UNCHANGED <<coins, entries, bonus, reverts, rides, errors, drift, disturbed>>

(***************************************************************************)
(* A ride is completed: awardCoins, then onFirstCompletedRide.             *)
(***************************************************************************)

CompleteRide(u) ==
  /\ rides[u] < MaxRides[u] /\ rides' = Add(rides, u, 1)
  /\ Start("award", u)
  /\ UNCHANGED <<coins, entries, referral, bonus, reverts, errors, drift, disturbed>>

AwardEntry(c) ==
  /\ c \in calls /\ c.op = "award"
  /\ entries' = Add(entries, c.u, 1)
  /\ Continue(c, "award_inc")
  /\ UNCHANGED <<coins, referral, bonus, reverts, rides, errors, drift, disturbed>>

AwardCoins(c) ==
  /\ c \in calls /\ c.op = "award_inc"
  /\ coins' = Add(coins, c.u, 1)
  /\ Continue(c, "find")
  /\ UNCHANGED <<entries, referral, bonus, reverts, rides, errors, drift, disturbed>>

\* awardCoins throws, and completeTrip with it.
AwardFails(c) ==
  /\ c \in calls /\ c.op \in {"award", "award_inc"}
  /\ Error /\ Return(c)
  /\ drift' = IF c.op = "award_inc" THEN Add(drift, c.u, -1) ELSE drift
  /\ UNCHANGED <<coins, entries, referral, bonus, reverts, rides, disturbed>>

\* The program may be switched off by now.
FindReferral(c) ==
  /\ c \in calls /\ c.op = "find"
  /\ \/ referral[c.u] = "pending" /\ Continue(c, "claim")
     \/ Return(c)
  /\ UNCHANGED <<coins, entries, referral, bonus, reverts, rides, errors, drift, disturbed>>

FaultyClaim(c) ==  \* updates whatever the status
  /\ c \in calls /\ c.op = "claim"
  /\ referral' = [referral EXCEPT ![c.u] = "rewarded"] /\ Continue(c, "referee")
  /\ UNCHANGED <<coins, entries, bonus, reverts, rides, errors, drift, disturbed>>

\* "only the transition pending to rewarded that affects a row wins".
Claim(c) ==
  /\ c \in calls /\ c.op = "claim"
  /\ \/ /\ referral[c.u] = "pending"
        /\ referral' = [referral EXCEPT ![c.u] = "rewarded"] /\ Continue(c, "referee")
     \/ referral[c.u] # "pending" /\ UNCHANGED referral /\ Return(c)
  /\ UNCHANGED <<coins, entries, bonus, reverts, rides, errors, drift, disturbed>>

\* creditCoins, for the referee and then for the referrer.
RefereeEntry(c) ==
  /\ c \in calls /\ c.op = "referee"
  /\ entries' = Add(entries, c.u, 1)
  /\ bonus' = [bonus EXCEPT ![c.u].referee = @ + 1]
  /\ Continue(c, "referee_inc")
  /\ UNCHANGED <<coins, referral, reverts, rides, errors, drift, disturbed>>

RefereeCoins(c) ==
  /\ c \in calls /\ c.op = "referee_inc"
  /\ coins' = Add(coins, c.u, 1)
  /\ Continue(c, "referrer")
  /\ UNCHANGED <<entries, referral, bonus, reverts, rides, errors, drift, disturbed>>

ReferrerEntry(c) ==
  /\ c \in calls /\ c.op = "referrer"
  /\ entries' = Add(entries, Referrer, 1)
  /\ bonus' = [bonus EXCEPT ![c.u].referrer = @ + 1]
  /\ Continue(c, "referrer_inc")
  /\ UNCHANGED <<coins, referral, reverts, rides, errors, drift, disturbed>>

ReferrerCoins(c) ==
  /\ c \in calls /\ c.op = "referrer_inc"
  /\ coins' = Add(coins, Referrer, 1)
  /\ Return(c)
  /\ UNCHANGED <<entries, referral, bonus, reverts, rides, errors, drift, disturbed>>

\* A statement fails and the claim is taken back, "so it can be retried on a
\* later ride"; what was credited stays.
Fail(c) ==
  /\ c \in calls /\ c.op \in {"referee", "referee_inc", "referrer", "referrer_inc"}
  /\ Error /\ Continue(c, "revert")
  /\ drift' = CASE c.op = "referee_inc" -> Add(drift, c.u, -1)
                [] c.op = "referrer_inc" -> Add(drift, Referrer, -1)
                [] OTHER -> drift
  /\ UNCHANGED <<coins, entries, referral, bonus, reverts, rides, disturbed>>

Revert(c) ==
  /\ c \in calls /\ c.op = "revert"
  /\ referral' = [referral EXCEPT ![c.u] = "pending"]
  /\ reverts' = Add(reverts, c.u, 1)
  /\ Return(c)
  /\ UNCHANGED <<coins, entries, bonus, rides, errors, drift, disturbed>>

(***************************************************************************)
(* Coins are spent: transferToWallet, and redeemCoins for acceptBooking.   *)
(***************************************************************************)

FaultySpend(u) ==  \* the balance is not part of the UPDATE's condition
  /\ coins' = Add(coins, u, -1) /\ Start("spend", u)
  /\ UNCHANGED <<entries, referral, bonus, reverts, rides, errors, drift, disturbed>>

\* One conditional UPDATE, then the entry.  The query of an UPDATE answers
\* [rows, count], which is never empty: one that found too few coins, and took
\* none, is taken for done and its entry made.
Spend(u) ==
  /\ IF coins[u] >= 1
     THEN coins' = Add(coins, u, -1) /\ UNCHANGED <<errors, drift>>
     ELSE Error /\ drift' = Add(drift, u, 1) /\ UNCHANGED coins
  /\ Start("spend", u)
  /\ UNCHANGED <<entries, referral, bonus, reverts, rides, disturbed>>

\* The booking's INSERT, which touches nothing here, follows a redemption; when
\* it fails acceptBooking's catch gives the coins back, and the entry stays.
SpendEntry(c) ==
  /\ c \in calls /\ c.op = "spend"
  /\ entries' = Add(entries, c.u, -1)
  /\ \/ Return(c) /\ UNCHANGED <<errors, drift>>
     \/ Error /\ Continue(c, "refund") /\ drift' = Add(drift, c.u, 1)
  /\ UNCHANGED <<coins, referral, bonus, reverts, rides, disturbed>>

\* acceptBooking gives the coins back, transferToWallet does not.
SpendEntryFails(c) ==
  /\ c \in calls /\ c.op = "spend" /\ Error
  /\ \/ Continue(c, "refund") /\ UNCHANGED drift
     \/ Return(c) /\ drift' = Add(drift, c.u, -1)
  /\ UNCHANGED <<coins, entries, referral, bonus, reverts, rides, disturbed>>

\* The UPDATE itself throws: coins are given back that were not taken.
RedeemFails(u) ==
  /\ Error /\ Start("refund", u) /\ drift' = Add(drift, u, 1)
  /\ UNCHANGED <<coins, entries, referral, bonus, reverts, rides, disturbed>>

Refund(c) ==
  /\ c \in calls /\ c.op = "refund"
  /\ coins' = Add(coins, c.u, 1)
  /\ Return(c)
  /\ UNCHANGED <<entries, referral, bonus, reverts, rides, errors, drift, disturbed>>

(***************************************************************************)
(* A restart ends every handler where it is.                               *)
(***************************************************************************)

\* A call between the two statements of a change to u's balance, all of which
\* leave the entries ahead of it; and between a claim and the end of its credits.
Owes(c, u) ==
  \/ c.op \in {"award_inc", "referee_inc", "spend", "refund"} /\ c.u = u
  \/ c.op = "referrer_inc" /\ u = Referrer
Pending(u) == {c \in calls : Owes(c, u)}
Rewarding == {"referee", "referee_inc", "referrer", "referrer_inc", "revert"}

\* A referral that was being credited stays rewarded.
Restart ==
  /\ Error /\ calls # {} /\ calls' = {}
  /\ drift' = [u \in Users |-> drift[u] - Cardinality(Pending(u))]
  /\ disturbed' = disturbed \cup {u \in Referees : \E c \in CallsOf(u) : c.op \in Rewarding}
  /\ UNCHANGED <<coins, entries, referral, bonus, reverts, rides>>

CallStep(c) ==
  \/ InsertReferral(c)
  \/ AwardEntry(c) \/ AwardCoins(c) \/ AwardFails(c) \/ FindReferral(c) \/ Claim(c)
  \/ RefereeEntry(c) \/ RefereeCoins(c) \/ ReferrerEntry(c) \/ ReferrerCoins(c)
  \/ Fail(c) \/ Revert(c)
  \/ SpendEntry(c) \/ SpendEntryFails(c) \/ Refund(c)

Next ==
  \/ \E u \in Referees : Apply(u) \/ CompleteRide(u)
  \/ \E u \in Users : Spend(u) \/ RedeemFails(u)
  \/ \E c \in calls : CallStep(c)
  \/ Restart

Spec == Init /\ [][Next]_vars

(***************************************************************************)
(* Properties.                                                             *)
(***************************************************************************)

\* Every variable has its type.
TypeOK ==
  /\ coins \in [Users -> Int] /\ entries \in [Users -> Int] /\ drift \in [Users -> Int]
  /\ referral \in [Referees -> {"none", "pending", "rewarded"}]
  /\ bonus \in [Referees -> [referee : Nat, referrer : Nat]]
  /\ reverts \in [Referees -> Nat] /\ rides \in [Referees -> Nat]
  /\ calls \subseteq Call /\ errors \in Nat
  /\ disturbed \subseteq Referees \cup {"phone"}

\* "credit both parties exactly once": a referral that is rewarded, and not being
\* credited, has paid both sides, unless a restart ended its credits; however many
\* rides are completed at once, none is paid twice, save for one more time after
\* each claim that a failure took back.  "The same physical device can only ever be
\* a referee once", unless two of its accounts apply at the same time.
ReferralPaysOnce ==
  /\ \A u \in Referees :
       /\ bonus[u].referee <= 1 + reverts[u] /\ bonus[u].referrer <= 1 + reverts[u]
       /\ referral[u] = "rewarded" /\ (\A c \in CallsOf(u) : c.op \notin Rewarding) =>
            u \in disturbed \/ (bonus[u].referee >= 1 /\ bonus[u].referrer >= 1)
  /\ "phone" \notin disturbed => Cardinality({u \in Referees : referral[u] # "none"}) <= 1

\* However the handlers interleave, a balance is never negative and, between them,
\* is what the history adds up to, but for what failures are known to leave: 1
\* above it for each spend of coins that were not there and each refund of coins
\* whose entry stays or that were never taken, 1 below it for each entry of an
\* increment that failed and each transfer whose entry did, and what was between
\* its two statements at a restart.
CoinsMatchEntries ==
  /\ \A u \in Users : coins[u] >= 0
  /\ calls = {} => \A u \in Users : coins[u] = entries[u] + drift[u]
=============================================================================
