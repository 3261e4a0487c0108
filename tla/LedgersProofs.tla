---------------------------- MODULE LedgersProofs ----------------------------
(***************************************************************************)
(* Proofs about the services that keep a ledger or a count: the shield's   *)
(* fund, the coupon, coins and referrals, ratings, reports of customers.   *)
(* Of each: an invariant of its module, which every action keeps, and the  *)
(* property it gives; then the same of the services together.              *)
(***************************************************************************)
EXTENDS Services, Sequences, FiniteSetTheorems, SequenceTheorems, TLAPS

(***************************************************************************)
(* The Zipto Shield fund.                                                  *)
(***************************************************************************)

\* Bookings whose contribution is in the ledger.
Contributed == {t \in Trips : contributed[t] = 1}

\* What a transaction in flight has seen of the balance.
SnapsCovered ==
  \A c \in shield_calls :
    /\ c.op = "contribute" => c.snap.balance >= 0
    /\ c.op = "withdraw" => c.snap.balance >= 1

\* A booking contributes through one call, which finds no entry of its own.
Contribution == {"begin", "contribute"}
ContributesAlone ==
  \A c \in shield_calls : c.op \in Contribution =>
    /\ contributed[c.by] = 0
    /\ \A d \in shield_calls : d.op \in Contribution /\ d.by = c.by => d = c

RowTells ==
  /\ \A t \in Trips : contributed[t] <= 1
  /\ fund.total_contributed = Cardinality(Contributed)
  /\ fund.total_withdrawn = paidOut
  /\ fund.balance = fund.total_contributed - fund.total_withdrawn

FundsInv ==
  /\ Funds!TypeOK
  /\ fund.balance >= 0
  /\ SnapsCovered
  /\ IsFiniteSet(Contributed)
  /\ ~shield_disturbed => ContributesAlone /\ RowTells

LEMMA FundsStart == Funds!Init => FundsInv
<1> SUFFICES ASSUME Funds!Init PROVE FundsInv
  OBVIOUS
<1>1. Contributed = {}
  BY DEF Contributed, Funds!Init
<1>2. IsFiniteSet(Contributed) /\ Cardinality(Contributed) = 0
  BY <1>1, FS_EmptySet
<1>3. Funds!NoFund \in Funds!Fund
  BY DEF Funds!NoFund, Funds!Fund
<1>4. contributed \in [Trips -> Nat]
  BY DEF Funds!Init
<1>5. Funds!TypeOK
  BY <1>3, <1>4 DEF Funds!Init, Funds!TypeOK
<1> QED
  BY <1>2, <1>5 DEF Funds!Init, FundsInv, SnapsCovered, ContributesAlone, RowTells, Funds!NoFund

\* What is known of a call, by its kind.
LEMMA FundsCall ==
  ASSUME Funds!TypeOK, NEW c \in shield_calls
  PROVE  /\ c.op \in {"begin", "contribute", "create", "created", "withdraw"}
         /\ c.snap \in Funds!Fund
         /\ c.op \in Contribution => c.by \in Trips /\ c.n \in 1..2
  BY DEF Funds!TypeOK, Funds!Call, Contribution

LEMMA FundsCreateLedger == FundsInv /\ Funds!CreateLedger => FundsInv'
<1> SUFFICES ASSUME FundsInv, Funds!CreateLedger PROVE FundsInv'
  OBVIOUS
<1> DEFINE e == [op |-> "create", snap |-> Funds!NoFund]
<1>1. /\ UNCHANGED <<fund, contributed, paidOut, shield_disturbed>>
      /\ shield_calls' = shield_calls \cup {e}
  BY DEF Funds!CreateLedger
<1>2. e \in Funds!Call /\ e.op = "create"
  BY DEF Funds!Call, Funds!NoFund, Funds!Fund
<1> HIDE DEF e
<1>3. Contributed' = Contributed
  BY <1>1 DEF Contributed
<1>4. Funds!TypeOK'
  BY <1>1, <1>2 DEF FundsInv, Funds!TypeOK
<1>5. SnapsCovered'
  BY <1>1, <1>2 DEF FundsInv, SnapsCovered
<1>6. ~shield_disturbed => ContributesAlone' /\ RowTells'
  BY <1>1, <1>2, <1>3 DEF FundsInv, ContributesAlone, RowTells, Contribution
<1> QED
  BY <1>1, <1>3, <1>4, <1>5, <1>6 DEF FundsInv

LEMMA FundsCreateLook ==
  ASSUME NEW c \in shield_calls, FundsInv, Funds!CreateLook(c)
  PROVE  FundsInv'
<1> DEFINE e == [c EXCEPT !.op = "created", !.snap = fund]
<1>1. /\ UNCHANGED <<fund, contributed, paidOut, shield_disturbed>>
      /\ shield_calls' = (shield_calls \ {c}) \cup {e}
      /\ c.op = "create"
  BY DEF Funds!CreateLook
<1>2. fund \in Funds!Fund /\ c \in Funds!Call
  BY DEF FundsInv, Funds!TypeOK
<1>3. e \in Funds!Call /\ e.op = "created"
  BY <1>1, <1>2 DEF Funds!Call
<1> HIDE DEF e
<1>4. Contributed' = Contributed
  BY <1>1 DEF Contributed
<1>5. Funds!TypeOK'
  BY <1>1, <1>3 DEF FundsInv, Funds!TypeOK
<1>6. SnapsCovered'
  BY <1>1, <1>3 DEF FundsInv, SnapsCovered
<1>7. ~shield_disturbed => ContributesAlone'
  BY <1>1, <1>3 DEF FundsInv, ContributesAlone, Contribution
<1>8. ~shield_disturbed => RowTells'
  BY <1>1, <1>4 DEF FundsInv, RowTells
<1> QED
  BY <1>1, <1>4, <1>5, <1>6, <1>7, <1>8 DEF FundsInv

LEMMA FundsCreateSave ==
  ASSUME NEW c \in shield_calls, FundsInv, Funds!CreateSave(c)
  PROVE  FundsInv'
<1>1. /\ c.op = "created" /\ UNCHANGED <<contributed, paidOut>>
      /\ shield_calls' = shield_calls \ {c}
      /\ shield_disturbed' = (shield_disturbed \/ c.snap.exists)
  BY DEF Funds!CreateSave
<1>2. Funds!TypeOK /\ fund \in Funds!Fund /\ fund.balance >= 0 /\ c.snap.exists \in BOOLEAN
  <2>1. c.snap \in Funds!Fund
    BY FundsCall DEF FundsInv
  <2> QED
    BY <2>1 DEF FundsInv, Funds!TypeOK, Funds!Fund
<1>3. /\ fund' \in Funds!Fund /\ fund'.balance >= 0
      /\ ~c.snap.exists => /\ fund'.balance = fund.balance
                           /\ fund'.total_contributed = fund.total_contributed
                           /\ fund'.total_withdrawn = fund.total_withdrawn
  <2>1. CASE ~c.snap.exists
    <3>1. fund' = [fund EXCEPT !.exists = TRUE]
      BY <2>1 DEF Funds!CreateSave
    <3> QED
      BY <1>2, <3>1 DEF Funds!Fund
  <2>2. CASE c.snap.exists
    <3> DEFINE kept(col) == c.snap[col] = Funds!NoFund[col] \/ col = "exists"
    <3>1. fund' = [col \in DOMAIN fund |-> IF kept(col) THEN fund[col] ELSE 0]
      BY <2>2 DEF Funds!CreateSave
    <3>2. kept("exists")
      OBVIOUS
    <3> HIDE DEF kept
    <3>3. DOMAIN fund = {"exists", "balance", "total_contributed", "total_withdrawn"}
      BY <1>2 DEF Funds!Fund
    <3>4. fund'.exists \in BOOLEAN
      BY <1>2, <3>1, <3>2, <3>3 DEF Funds!Fund
    <3>5. fund'.balance \in Int /\ fund'.balance >= 0
      BY <1>2, <3>1, <3>3 DEF Funds!Fund
    <3>6. fund'.total_contributed \in Int /\ fund'.total_withdrawn \in Int
      BY <1>2, <3>1, <3>3 DEF Funds!Fund
    <3>7. fund' = [exists |-> fund'.exists, balance |-> fund'.balance,
                   total_contributed |-> fund'.total_contributed,
                   total_withdrawn |-> fund'.total_withdrawn]
      BY <3>1, <3>3
    <3>8. fund' \in Funds!Fund
      BY <3>4, <3>5, <3>6, <3>7 DEF Funds!Fund
    <3> QED
      BY <2>2, <3>5, <3>8
  <2> QED
    BY <1>2, <2>1, <2>2
<1>4. Contributed' = Contributed
  BY <1>1 DEF Contributed
<1>5. shield_disturbed' \in BOOLEAN
  BY <1>1, <1>2 DEF Funds!TypeOK
<1>6. Funds!TypeOK'
  BY <1>1, <1>2, <1>3, <1>5 DEF Funds!TypeOK
<1>7. SnapsCovered'
  BY <1>1 DEF FundsInv, SnapsCovered
<1>8. ASSUME ~shield_disturbed' PROVE ContributesAlone' /\ RowTells'
  <2>1. ~shield_disturbed /\ ~c.snap.exists
    BY <1>1, <1>8
  <2> QED
    BY <1>1, <1>3, <1>4, <2>1 DEF FundsInv, ContributesAlone, RowTells
<1> QED
  BY <1>3, <1>4, <1>6, <1>7, <1>8 DEF FundsInv

LEMMA FundsContribute ==
  ASSUME NEW t \in Trips, NEW n \in 1..2, FundsInv, Funds!Contribute(t, n)
  PROVE  FundsInv'
<1> DEFINE e == [op |-> "begin", by |-> t, n |-> n, snap |-> Funds!NoFund]
<1>1. /\ UNCHANGED <<fund, contributed, paidOut>>
      /\ shield_calls' = shield_calls \cup {e}
      /\ shield_disturbed' = (shield_disturbed \/ Funds!Contributing(t) # {})
      /\ contributed[t] = 0
  BY DEF Funds!Contribute
<1>2. e \in Funds!Call /\ e.op = "begin" /\ e.by = t
  BY DEF Funds!Call, Funds!NoFund, Funds!Fund
<1> HIDE DEF e
<1>3. shield_disturbed' \in BOOLEAN
  BY <1>1 DEF FundsInv, Funds!TypeOK
<1>4. Funds!TypeOK'
  BY <1>1, <1>2, <1>3 DEF FundsInv, Funds!TypeOK
<1>5. Contributed' = Contributed
  BY <1>1 DEF Contributed
<1>6. SnapsCovered'
  BY <1>1, <1>2 DEF FundsInv, SnapsCovered
<1>7. ASSUME ~shield_disturbed' PROVE ContributesAlone' /\ RowTells'
  <2>1. ~shield_disturbed /\ Funds!Contributing(t) = {}
    BY <1>1, <1>7
  <2>2. \A c \in shield_calls : c.op \in Contribution => c.by # t
    BY <2>1 DEF Funds!Contributing, Contribution
  <2>3. ContributesAlone'
    BY <1>1, <1>2, <2>1, <2>2 DEF FundsInv, ContributesAlone, Contribution
  <2> QED
    BY <1>1, <1>5, <2>1, <2>3 DEF FundsInv, RowTells
<1> QED
  BY <1>1, <1>4, <1>5, <1>6, <1>7 DEF FundsInv

LEMMA FundsWithdraw ==
  ASSUME NEW n \in 1..MaxTransactions, FundsInv, Funds!Withdraw(n)
  PROVE  FundsInv'
<1> DEFINE e == [op |-> "withdraw", n |-> n, snap |-> fund]
<1>1. /\ UNCHANGED <<fund, contributed, paidOut, shield_disturbed>>
      /\ shield_calls' = shield_calls \cup {e}
      /\ fund.balance >= 1
  BY DEF Funds!Withdraw
<1>2. e \in Funds!Call /\ e.op = "withdraw" /\ e.snap = fund
  BY DEF Funds!Call, FundsInv, Funds!TypeOK
<1> HIDE DEF e
<1>3. Contributed' = Contributed
  BY <1>1 DEF Contributed
<1>4. Funds!TypeOK'
  BY <1>1, <1>2 DEF FundsInv, Funds!TypeOK
<1>5. SnapsCovered'
  BY <1>1, <1>2 DEF FundsInv, SnapsCovered
<1>6. ~shield_disturbed => ContributesAlone' /\ RowTells'
  BY <1>1, <1>2, <1>3 DEF FundsInv, ContributesAlone, RowTells, Contribution
<1> QED
  BY <1>1, <1>3, <1>4, <1>5, <1>6 DEF FundsInv

LEMMA FundsReadLedger ==
  ASSUME NEW c \in shield_calls, FundsInv, Funds!ReadLedger(c)
  PROVE  FundsInv'
<1> DEFINE e == [c EXCEPT !.op = "contribute", !.snap = fund]
<1>1. /\ UNCHANGED <<fund, contributed, paidOut, shield_disturbed>>
      /\ shield_calls' = (shield_calls \ {c}) \cup {e}
      /\ c.op = "begin"
  BY DEF Funds!ReadLedger
<1>2. fund \in Funds!Fund /\ c \in Funds!Call
  BY DEF FundsInv, Funds!TypeOK
<1>3. e \in Funds!Call /\ e.op = "contribute" /\ e.by = c.by /\ e.snap = fund
  BY <1>1, <1>2 DEF Funds!Call
<1> HIDE DEF e
<1>4. Contributed' = Contributed
  BY <1>1 DEF Contributed
<1>5. Funds!TypeOK'
  BY <1>1, <1>3 DEF FundsInv, Funds!TypeOK
<1>6. SnapsCovered'
  BY <1>1, <1>3 DEF FundsInv, SnapsCovered
<1>7. ~shield_disturbed => ContributesAlone'
  BY <1>1, <1>3 DEF FundsInv, ContributesAlone, Contribution
<1>8. ~shield_disturbed => RowTells'
  BY <1>1, <1>4 DEF FundsInv, RowTells
<1> QED
  BY <1>1, <1>4, <1>5, <1>6, <1>7, <1>8 DEF FundsInv

\* A save writes the row it was asked to when no other transaction has come between.
LEMMA FundsSave ==
  ASSUME NEW old \in Funds!Fund, NEW new \in Funds!Fund, fund \in Funds!Fund, Funds!Save(old, new)
  PROVE  /\ fund' \in Funds!Fund
         /\ fund'.balance = new.balance
         /\ old = fund => /\ fund'.total_contributed = new.total_contributed
                          /\ fund'.total_withdrawn = new.total_withdrawn
<1>1. CASE fund' = new
  BY <1>1
<1>2. CASE fund' # new
  <2> DEFINE tc == IF new.total_contributed = old.total_contributed
                     THEN fund.total_contributed ELSE new.total_contributed
             tw == IF new.total_withdrawn = old.total_withdrawn
                     THEN fund.total_withdrawn ELSE new.total_withdrawn
  <2>1. fund' = [exists |-> TRUE, balance |-> new.balance,
                 total_contributed |-> tc, total_withdrawn |-> tw]
    BY <1>2 DEF Funds!Save
  <2>2. tc \in Int /\ tw \in Int /\ new.balance \in Int
    BY DEF Funds!Fund
  <2>3. old = fund => tc = new.total_contributed /\ tw = new.total_withdrawn
    OBVIOUS
  <2> HIDE DEF tc, tw
  <2> QED
    BY <2>1, <2>2, <2>3 DEF Funds!Fund
<1> QED
  BY <1>1, <1>2

LEMMA FundsContributeSave ==
  ASSUME NEW c \in shield_calls, FundsInv, Funds!ContributeSave(c)
  PROVE  FundsInv'
<1> DEFINE new == [exists |-> TRUE, balance |-> c.snap.balance + 1,
                   total_contributed |-> c.snap.total_contributed + 1,
                   total_withdrawn |-> c.snap.total_withdrawn]
<1>1. /\ c.op = "contribute" /\ paidOut' = paidOut
      /\ Funds!Save(c.snap, new)
      /\ contributed' = [contributed EXCEPT ![c.by] = @ + 1]
      /\ shield_calls' = shield_calls \ {c}
      /\ shield_disturbed' = (shield_disturbed \/ c.snap # fund)
  BY DEF Funds!ContributeSave, Funds!Disturb
<1>2. Funds!TypeOK /\ fund \in Funds!Fund /\ contributed \in [Trips -> Nat] /\ paidOut \in Nat
  BY DEF FundsInv, Funds!TypeOK
<1>3. c.snap \in Funds!Fund /\ c.by \in Trips /\ c.snap.balance >= 0
  BY <1>1, <1>2, FundsCall DEF FundsInv, SnapsCovered, Contribution
<1>4. /\ new \in Funds!Fund
      /\ new.balance = c.snap.balance + 1
      /\ new.total_contributed = c.snap.total_contributed + 1
      /\ new.total_withdrawn = c.snap.total_withdrawn
  BY <1>3 DEF Funds!Fund
<1> HIDE DEF new
<1>5. /\ fund' \in Funds!Fund
      /\ fund'.balance = new.balance
      /\ c.snap = fund => /\ fund'.total_contributed = new.total_contributed
                          /\ fund'.total_withdrawn = new.total_withdrawn
  BY <1>1, <1>2, <1>3, <1>4, FundsSave
<1>6. contributed' \in [Trips -> Nat] /\ contributed'[c.by] = contributed[c.by] + 1
  BY <1>1, <1>2, <1>3
<1>7. \A t \in Trips : t # c.by => contributed'[t] = contributed[t]
  BY <1>1, <1>2, <1>3
<1>8. shield_disturbed' \in BOOLEAN
  BY <1>1, <1>2 DEF Funds!TypeOK
<1>9. Funds!TypeOK'
  BY <1>1, <1>2, <1>5, <1>6, <1>8 DEF Funds!TypeOK
<1>10. fund'.balance >= 0
  BY <1>3, <1>4, <1>5 DEF Funds!Fund
<1>11. SnapsCovered'
  BY <1>1 DEF FundsInv, SnapsCovered
<1>12. Contributed' \subseteq Contributed \cup {c.by}
  BY <1>7 DEF Contributed
<1>13. IsFiniteSet(Contributed')
  <2>1. IsFiniteSet(Contributed \cup {c.by})
    BY FS_AddElement DEF FundsInv
  <2> QED
    BY <1>12, <2>1, FS_Subset
<1>14. ASSUME ~shield_disturbed' PROVE ContributesAlone' /\ RowTells'
  <2>1. ~shield_disturbed /\ c.snap = fund
    BY <1>1, <1>14
  <2>2. contributed[c.by] = 0 /\ \A d \in shield_calls : d.op \in Contribution /\ d.by = c.by => d = c
    BY <1>1, <2>1 DEF FundsInv, ContributesAlone, Contribution
  <2>3. ContributesAlone'
    <3> SUFFICES ASSUME NEW d \in shield_calls', d.op \in Contribution
                 PROVE  /\ contributed'[d.by] = 0
                        /\ \A a \in shield_calls' : a.op \in Contribution /\ a.by = d.by => a = d
      BY DEF ContributesAlone
    <3>1. d \in shield_calls /\ d # c
      BY <1>1
    <3>2. d.by \in Trips /\ d.by # c.by
      BY <1>2, <2>2, <3>1, FundsCall
    <3> QED
      BY <1>1, <1>7, <2>1, <3>1, <3>2 DEF FundsInv, ContributesAlone
  <2>4. Contributed' = Contributed \cup {c.by} /\ c.by \notin Contributed
    BY <1>3, <1>6, <1>7, <2>2 DEF Contributed
  <2>5. Cardinality(Contributed') = Cardinality(Contributed) + 1
    BY <2>4, FS_AddElement DEF FundsInv
  <2>6. Cardinality(Contributed) \in Nat
    BY FS_CardinalityType DEF FundsInv
  <2>7. RowTells
    BY <2>1 DEF FundsInv
  <2>8. \A t \in Trips : contributed'[t] <= 1
    BY <1>6, <1>7, <2>2, <2>7 DEF RowTells
  <2>9. RowTells'
    BY <1>1, <1>2, <1>4, <1>5, <2>1, <2>5, <2>6, <2>7, <2>8 DEF RowTells
  <2> QED
    BY <2>3, <2>9
<1> QED
  BY <1>9, <1>10, <1>11, <1>13, <1>14 DEF FundsInv

LEMMA FundsWithdrawSave ==
  ASSUME NEW c \in shield_calls, FundsInv, Funds!WithdrawSave(c)
  PROVE  FundsInv'
<1> DEFINE new == [c.snap EXCEPT !.balance = @ - 1, !.total_withdrawn = @ + 1]
<1>1. /\ c.op = "withdraw" /\ paidOut' = paidOut + 1
      /\ Funds!Save(c.snap, new)
      /\ contributed' = contributed
      /\ shield_calls' = shield_calls \ {c}
      /\ shield_disturbed' = (shield_disturbed \/ c.snap # fund)
  BY DEF Funds!WithdrawSave, Funds!Disturb
<1>2. Funds!TypeOK /\ fund \in Funds!Fund /\ contributed \in [Trips -> Nat] /\ paidOut \in Nat
  BY DEF FundsInv, Funds!TypeOK
<1>3. c.snap \in Funds!Fund /\ c.snap.balance >= 1
  BY <1>1, <1>2, FundsCall DEF FundsInv, SnapsCovered
<1>4. /\ new \in Funds!Fund
      /\ new.balance = c.snap.balance - 1
      /\ new.total_contributed = c.snap.total_contributed
      /\ new.total_withdrawn = c.snap.total_withdrawn + 1
  <2> DEFINE s == c.snap
  <2>1. s \in Funds!Fund /\ new = [s EXCEPT !.balance = @ - 1, !.total_withdrawn = @ + 1]
    BY <1>3
  <2> HIDE DEF s, new
  <2>2. new \in Funds!Fund
    <3>1. s.balance - 1 \in Int /\ s.total_withdrawn + 1 \in Int
      BY <2>1 DEF Funds!Fund
    <3> QED
      BY <2>1, <3>1 DEF Funds!Fund
  <2>3. new.balance = s.balance - 1
    BY <2>1 DEF Funds!Fund
  <2>4. new.total_contributed = s.total_contributed
    BY <2>1 DEF Funds!Fund
  <2>5. new.total_withdrawn = s.total_withdrawn + 1
    BY <2>1 DEF Funds!Fund
  <2> QED
    BY <2>2, <2>3, <2>4, <2>5 DEF s
<1> HIDE DEF new
<1>5. /\ fund' \in Funds!Fund
      /\ fund'.balance = new.balance
      /\ c.snap = fund => /\ fund'.total_contributed = new.total_contributed
                          /\ fund'.total_withdrawn = new.total_withdrawn
  BY <1>1, <1>2, <1>3, <1>4, FundsSave
<1>6. shield_disturbed' \in BOOLEAN
  BY <1>1, <1>2 DEF Funds!TypeOK
<1>7. Funds!TypeOK'
  BY <1>1, <1>2, <1>5, <1>6 DEF Funds!TypeOK
<1>8. fund'.balance >= 0
  BY <1>3, <1>4, <1>5 DEF Funds!Fund
<1>9. SnapsCovered'
  BY <1>1 DEF FundsInv, SnapsCovered
<1>10. Contributed' = Contributed
  BY <1>1 DEF Contributed
<1>11. ASSUME ~shield_disturbed' PROVE ContributesAlone' /\ RowTells'
  <2>1. ~shield_disturbed /\ c.snap = fund
    BY <1>1, <1>11
  <2>2. ContributesAlone'
    BY <1>1, <2>1 DEF FundsInv, ContributesAlone
  <2>3. Cardinality(Contributed) \in Nat
    BY FS_CardinalityType DEF FundsInv
  <2>4. RowTells'
    BY <1>1, <1>2, <1>4, <1>5, <1>10, <2>1, <2>3 DEF FundsInv, RowTells
  <2> QED
    BY <2>2, <2>4
<1> QED
  BY <1>7, <1>8, <1>9, <1>10, <1>11 DEF FundsInv

LEMMA FundsContributeFails ==
  ASSUME NEW c \in shield_calls, FundsInv, Funds!ContributeFails(c)
  PROVE  FundsInv'
<1>1. /\ UNCHANGED <<fund, contributed, paidOut, shield_disturbed>>
      /\ shield_calls' = shield_calls \ {c}
  BY DEF Funds!ContributeFails
<1>2. Contributed' = Contributed
  BY <1>1 DEF Contributed
<1>3. Funds!TypeOK' /\ SnapsCovered'
  BY <1>1 DEF FundsInv, Funds!TypeOK, SnapsCovered
<1>4. ~shield_disturbed => ContributesAlone' /\ RowTells'
  BY <1>1, <1>2 DEF FundsInv, ContributesAlone, RowTells
<1> QED
  BY <1>1, <1>2, <1>3, <1>4 DEF FundsInv

LEMMA FundsInvNext == FundsInv /\ [Funds!Next]_(Funds!vars) => FundsInv'
<1> SUFFICES ASSUME FundsInv, [Funds!Next]_(Funds!vars) PROVE FundsInv'
  OBVIOUS
<1>1. CASE UNCHANGED Funds!vars
  BY <1>1 DEF Funds!vars, FundsInv, Funds!TypeOK, SnapsCovered, ContributesAlone, RowTells, Contributed
<1>2. CASE Funds!Next
  <2>1. CASE Funds!CreateLedger
    BY <2>1, FundsCreateLedger
  <2>2. CASE \E t \in Trips, n \in 1..2 : Funds!Contribute(t, n)
    BY <2>2, FundsContribute
  <2>3. CASE \E n \in 1..MaxTransactions : Funds!Withdraw(n)
    BY <2>3, FundsWithdraw
  <2>4. CASE \E c \in shield_calls : Funds!CallStep(c)
    BY <2>4, FundsCreateLook, FundsCreateSave, FundsReadLedger, FundsContributeSave,
       FundsContributeFails, FundsWithdrawSave DEF Funds!CallStep
  <2> QED
    BY <1>2, <2>1, <2>2, <2>3, <2>4 DEF Funds!Next
<1> QED
  BY <1>1, <1>2

LEMMA FundsInvGives == FundsInv => Funds!FundAddsUp
<1> SUFFICES ASSUME FundsInv PROVE Funds!FundAddsUp
  OBVIOUS
<1>1. Funds!Cardinality(Contributed) = Cardinality(Contributed)
  BY DEF Funds!Cardinality, Cardinality
<1>2. Funds!Cardinality({t \in Trips : contributed[t] = 1}) = Cardinality(Contributed)
  BY <1>1 DEF Contributed
<1> QED
  BY <1>2 DEF FundsInv, RowTells, Funds!FundAddsUp

\* Unless two transactions, two contributions of a booking, or the creation of the
\* row and a contribution overlap, the ledger row of the fund tells what its entries
\* add up to; it is never negative.
THEOREM ShieldAddsUp == Funds!Spec => []Funds!FundAddsUp
  BY FundsStart, FundsInvNext, FundsInvGives, PTL DEF Funds!Spec

\* Of the services together, this one alone moves the shield's variables.
LEMMA ShieldRuns == ServicesSpec => Funds!Spec
<1>1. ServicesInit => Funds!Init
  BY DEF ServicesInit
<1>2. [ServicesNext]_<<at_work, vars, wallets, ends, funds, uses, banks, reports, desk,
                         rules, rewards, reviews>> => [Funds!Next]_(Funds!vars)
  BY DEF ServicesNext, funds, Funds!vars
<1> QED
  BY <1>1, <1>2, PTL DEF ServicesSpec, Funds!Spec

\* The fund's row tells what its entries add up to, in the services together.
THEOREM ShieldKept == ServicesSpec => []FundAddsUp
<1>1. Funds!FundAddsUp => FundAddsUp
  BY DEF FundAddsUp
<1> QED
  BY <1>1, ShieldRuns, ShieldAddsUp, PTL

(***************************************************************************)
(* The coupon.                                                             *)
(***************************************************************************)

\* Rows are of bookings whose use is recorded, and as many as the coupon counts.
RowsCounted ==
  /\ \A r \in usages : r[2] < offer[r[1]].settled
  /\ coupon.exists /\ ~lost => coupon.used <= Cap /\ coupon.used = Cardinality(usages)

\* Uses are recorded of bookings, and bookings made of offers.
OffersGrow ==
  \A o \in Offers :
    /\ offer[o].settled <= offer[o].booked
    /\ offer[o].stage = "none" => offer[o].accepts = 0 /\ offer[o].booked = 0

\* A customer with one offer open at a time, booked once, has room for its use.
UsesFit(u) ==
  /\ Cardinality(Uses!UsagesOf(u)) <= PerUser
  /\ \A o \in Offers : offer[o].by = u => offer[o].booked <= 1
  /\ \A o \in Uses!OpenOffers(u) :
       /\ Cardinality(Uses!UsagesOf(u)) < PerUser
       /\ Uses!OpenOffers(u) = {o}

UsesInv ==
  /\ Uses!TypeOK
  /\ IsFiniteSet(usages)
  /\ RowsCounted
  /\ OffersGrow
  /\ \A u \in Customers \ overlapped : UsesFit(u)

LEMMA UsesCardinality == ASSUME NEW S PROVE Uses!Cardinality(S) = Cardinality(S)
  BY DEF Uses!Cardinality, Cardinality

LEMMA UsesCounted ==
  ASSUME UsesInv, NEW u
  PROVE  /\ IsFiniteSet(Uses!UsagesOf(u)) /\ Cardinality(Uses!UsagesOf(u)) \in Nat
         /\ Cardinality(usages) \in Nat
<1>1. Uses!UsagesOf(u) \subseteq usages
  BY DEF Uses!UsagesOf
<1> QED
  BY <1>1, FS_Subset, FS_CardinalityType DEF UsesInv

LEMMA UsesStart == Uses!Init => UsesInv
<1> SUFFICES ASSUME Uses!Init PROVE UsesInv
  OBVIOUS
<1>1. PICK whose \in [Offers -> Customers] :
        offer = [o \in Offers |->
                   [by |-> whose[o], stage |-> "none", accepts |-> 0, booked |-> 0, settled |-> 0]]
  BY DEF Uses!Init
<1>2. offer \in [Offers -> Uses!Offer]
  BY <1>1 DEF Uses!Offer
<1>3. \A o \in Offers : /\ offer[o].stage = "none" /\ offer[o].accepts = 0
                        /\ offer[o].booked = 0 /\ offer[o].settled = 0
  BY <1>1
<1>4. /\ coupon = [exists |-> TRUE, active |-> TRUE, used |-> 0]
      /\ usages = {} /\ riders = {} /\ edit = Uses!NoEdit /\ edits = 0
      /\ lost = FALSE /\ overlapped = {}
  BY DEF Uses!Init
<1>5. coupon \in Uses!Coupon /\ edit \in Uses!Coupon
  BY <1>4 DEF Uses!Coupon, Uses!NoEdit
<1>6. Uses!TypeOK
  BY <1>2, <1>4, <1>5 DEF Uses!TypeOK
<1>7. IsFiniteSet(usages) /\ Cardinality(usages) = 0
  BY <1>4, FS_EmptySet
<1>8. RowsCounted
  BY <1>4, <1>7, CouponsAssumption DEF RowsCounted, CouponsAssumption
<1>9. OffersGrow
  BY <1>3 DEF OffersGrow
<1>10. ASSUME NEW u PROVE UsesFit(u)
  <2>1. Uses!UsagesOf(u) = {}
    BY <1>4 DEF Uses!UsagesOf
  <2>2. Uses!OpenOffers(u) = {}
    BY <1>3 DEF Uses!OpenOffers, Uses!Usable
  <2> QED
    BY <1>3, <1>4, <1>7, <2>1, <2>2, CouponsAssumption DEF UsesFit, CouponsAssumption
<1> QED
  BY <1>6, <1>7, <1>8, <1>9, <1>10 DEF UsesInv

\* The rows stay where an offer moves on with as many uses recorded, or more.
LEMMA UsagesStay ==
  ASSUME UsesInv, NEW o \in Offers, usages' = usages,
         offer'[o].by = offer[o].by, offer'[o].settled \in Nat, offer[o].settled <= offer'[o].settled,
         \A a \in Offers : a # o => offer'[a] = offer[a]
  PROVE  /\ \A u : Uses!UsagesOf(u)' = Uses!UsagesOf(u)
         /\ \A r \in usages' : r[2] < offer'[r[1]].settled
<1>1. usages \subseteq Offers \X Nat /\ \A a \in Offers : offer[a].settled \in Nat
  BY DEF UsesInv, Uses!TypeOK, Uses!Offer
<1>2. \A a \in Offers : offer'[a].by = offer[a].by
  OBVIOUS
<1>3. ASSUME NEW u PROVE Uses!UsagesOf(u)' = Uses!UsagesOf(u)
  <2>1. \A r \in usages : r[1] \in Offers
    BY <1>1
  <2> QED
    BY <1>2, <2>1 DEF Uses!UsagesOf
<1>4. ASSUME NEW r \in usages PROVE r[2] < offer'[r[1]].settled
  <2>1. r[1] \in Offers /\ r[2] \in Nat /\ r[2] < offer[r[1]].settled
    BY <1>1 DEF UsesInv, RowsCounted
  <2>2. CASE r[1] = o
    BY <1>1, <2>1, <2>2
  <2>3. CASE r[1] # o
    BY <2>1, <2>3
  <2> QED
    BY <2>2, <2>3
<1> QED
  BY <1>3, <1>4

LEMMA UsesValidate ==
  ASSUME UsesInv, NEW o \in Offers, Uses!Validate(o)
  PROVE  UsesInv'
<1> DEFINE u == offer[o].by
<1>1. /\ offer[o].stage = "none"
      /\ Cardinality(Uses!UsagesOf(u)) < PerUser
      /\ offer' = [offer EXCEPT ![o].stage = "open"]
      /\ overlapped' = IF Uses!OpenOffers(u) # {} THEN overlapped \cup {u} ELSE overlapped
      /\ UNCHANGED <<coupon, usages, riders, edit, edits, lost>>
  BY UsesCardinality DEF Uses!Validate
<1>2. Uses!TypeOK /\ u \in Customers /\ offer \in [Offers -> Uses!Offer]
  BY DEF UsesInv, Uses!TypeOK, Uses!Offer
<1> HIDE DEF u
<1>3. /\ offer[o].accepts = 0 /\ offer[o].booked = 0 /\ offer[o].settled = 0
      /\ offer[o] \in Uses!Offer
  BY <1>1, <1>2 DEF UsesInv, OffersGrow, Uses!Offer
<1>4. /\ offer' \in [Offers -> Uses!Offer]
      /\ offer'[o].stage = "open" /\ offer'[o].by = offer[o].by /\ offer'[o].accepts = 0
      /\ offer'[o].booked = 0 /\ offer'[o].settled = 0
      /\ \A a \in Offers : a # o => offer'[a] = offer[a]
  BY <1>1, <1>2, <1>3 DEF Uses!Offer
<1>5. Uses!TypeOK'
  BY <1>1, <1>2, <1>4 DEF Uses!TypeOK
<1>6. /\ \A v : Uses!UsagesOf(v)' = Uses!UsagesOf(v)
      /\ \A r \in usages' : r[2] < offer'[r[1]].settled
  BY <1>1, <1>3, <1>4, UsagesStay
<1>7. RowsCounted'
  BY <1>1, <1>6 DEF UsesInv, RowsCounted
<1>8. OffersGrow'
  BY <1>4 DEF UsesInv, OffersGrow
<1>9. ASSUME NEW v \in Customers \ overlapped' PROVE UsesFit(v)'
  <2>1. v \in Customers \ overlapped
    BY <1>1, <1>9
  <2>2. UsesFit(v)
    BY <2>1 DEF UsesInv
  <2>3. \A a \in Offers : offer'[a].by = v => offer'[a].booked <= 1
    BY <1>4, <2>2 DEF UsesFit
  <2>4. CASE v # u
    <3>1. Uses!OpenOffers(v)' = Uses!OpenOffers(v)
      BY <1>1, <1>4, <2>4 DEF Uses!OpenOffers, Uses!Usable, u
    <3> QED
      BY <1>6, <2>2, <2>3, <3>1 DEF UsesFit
  <2>5. CASE v = u
    <3>1. Uses!OpenOffers(u) = {}
      BY <1>1, <1>9, <2>5
    <3>2. Uses!OpenOffers(v)' = {o}
      BY <1>1, <1>4, <2>5, <3>1 DEF Uses!OpenOffers, Uses!Usable, u
    <3> QED
      BY <1>1, <1>6, <2>2, <2>3, <2>5, <3>2 DEF UsesFit
  <2> QED
    BY <2>4, <2>5
<1> QED
  BY <1>1, <1>5, <1>7, <1>8, <1>9 DEF UsesInv

\* An offer that moves on without a use recorded becomes usable no more.
LEMMA UsesOnwards ==
  ASSUME UsesInv, NEW o \in Offers, offer[o].stage # "none",
         UNCHANGED <<coupon, usages, riders, edit, edits, lost>>,
         overlapped' \in SUBSET Customers, overlapped \subseteq overlapped',
         offer' \in [Offers -> Uses!Offer], \A a \in Offers : a # o => offer'[a] = offer[a],
         offer'[o].by = offer[o].by, offer'[o].stage # "none",
         offer[o].settled <= offer'[o].settled, offer'[o].settled <= offer'[o].booked,
         offer[o].by \notin overlapped' =>
           /\ offer'[o].booked <= 1 \/ offer'[o].booked = offer[o].booked
           /\ Uses!Usable(o)' => Uses!Usable(o)
  PROVE  UsesInv'
<1>1. Uses!TypeOK /\ offer'[o].settled \in Nat
  BY DEF UsesInv, Uses!Offer
<1>2. Uses!TypeOK'
  BY <1>1 DEF Uses!TypeOK
<1>3. /\ \A u : Uses!UsagesOf(u)' = Uses!UsagesOf(u)
      /\ \A r \in usages' : r[2] < offer'[r[1]].settled
  BY <1>1, UsagesStay
<1>4. RowsCounted'
  BY <1>3 DEF UsesInv, RowsCounted
<1>5. OffersGrow'
  BY DEF UsesInv, OffersGrow
<1>6. ASSUME NEW u \in Customers \ overlapped' PROVE UsesFit(u)'
  <2>1. UsesFit(u)
    BY <1>6 DEF UsesInv
  <2>2. \A a \in Offers : offer'[a].by = u => offer'[a].booked <= 1
    BY <1>6, <2>1 DEF UsesFit
  <2>3. Uses!OpenOffers(u)' \subseteq Uses!OpenOffers(u)
    <3>1. \A a \in Offers : offer'[a].by = u /\ Uses!Usable(a)' => offer[a].by = u /\ Uses!Usable(a)
      BY <1>6 DEF Uses!Usable
    <3> QED
      BY <3>1 DEF Uses!OpenOffers
  <2> QED
    BY <1>3, <2>1, <2>2, <2>3 DEF UsesFit
<1> QED
  BY <1>2, <1>4, <1>5, <1>6 DEF UsesInv

LEMMA UsesMoves ==
  ASSUME UsesInv, NEW o \in Offers,
         \/ Uses!Drop(o) \/ Uses!Accept(o) \/ Uses!AcceptFails(o) \/ Uses!Book(o)
         \/ Uses!UsageNotRecorded(o)
  PROVE  UsesInv'
<1>1. /\ Uses!TypeOK /\ offer \in [Offers -> Uses!Offer] /\ offer[o] \in Uses!Offer
      /\ offer[o].accepts \in Nat /\ offer[o].booked \in Nat /\ offer[o].settled \in Nat
      /\ offer[o].settled <= offer[o].booked /\ overlapped \subseteq Customers
      /\ offer[o].by \in Customers
  BY DEF UsesInv, Uses!TypeOK, Uses!Offer, OffersGrow
<1>2. offer[o].stage = "none" => offer[o].accepts = 0 /\ offer[o].booked = 0
  BY DEF UsesInv, OffersGrow
<1>3. CASE Uses!Drop(o)
  <2>1. /\ offer[o].stage = "open" /\ offer' = [offer EXCEPT ![o].stage = "over"]
        /\ UNCHANGED <<coupon, usages, riders, edit, edits, lost, overlapped>>
    BY <1>3 DEF Uses!Drop
  <2>2. /\ offer' \in [Offers -> Uses!Offer] /\ \A a \in Offers : a # o => offer'[a] = offer[a]
        /\ offer'[o].by = offer[o].by /\ offer'[o].stage = "over"
        /\ offer'[o].accepts = offer[o].accepts /\ offer'[o].booked = offer[o].booked
        /\ offer'[o].settled = offer[o].settled
    BY <1>1, <2>1 DEF Uses!Offer
  <2>3. Uses!Usable(o)' => Uses!Usable(o)
    BY <2>2 DEF Uses!Usable
  <2> QED
    BY <1>1, <2>1, <2>2, <2>3, UsesOnwards
<1>4. CASE Uses!Accept(o)
  <2>1. /\ offer[o].stage = "open" /\ offer' = [offer EXCEPT ![o].accepts = @ + 1]
        /\ UNCHANGED <<coupon, usages, riders, edit, edits, lost, overlapped>>
    BY <1>4 DEF Uses!Accept
  <2>2. /\ offer' \in [Offers -> Uses!Offer] /\ \A a \in Offers : a # o => offer'[a] = offer[a]
        /\ offer'[o].by = offer[o].by /\ offer'[o].stage = "open"
        /\ offer'[o].booked = offer[o].booked /\ offer'[o].settled = offer[o].settled
    BY <1>1, <2>1 DEF Uses!Offer
  <2>3. Uses!Usable(o)' => Uses!Usable(o)
    BY <2>1, <2>2 DEF Uses!Usable
  <2> QED
    BY <1>1, <2>1, <2>2, <2>3, UsesOnwards
<1>5. CASE Uses!AcceptFails(o)
  <2>1. /\ offer[o].accepts > 0 /\ offer' = [offer EXCEPT ![o].accepts = @ - 1]
        /\ UNCHANGED <<coupon, usages, riders, edit, edits, lost, overlapped>>
    BY <1>5 DEF Uses!AcceptFails
  <2>2. /\ offer' \in [Offers -> Uses!Offer] /\ \A a \in Offers : a # o => offer'[a] = offer[a]
        /\ offer'[o].by = offer[o].by /\ offer'[o].stage = offer[o].stage
        /\ offer'[o].booked = offer[o].booked /\ offer'[o].settled = offer[o].settled
    BY <1>1, <2>1 DEF Uses!Offer
  <2>3. Uses!Usable(o)' => Uses!Usable(o)
    BY <2>1, <2>2 DEF Uses!Usable
  <2>4. offer[o].stage # "none"
    BY <1>2, <2>1
  <2> QED
    BY <1>1, <2>1, <2>2, <2>3, <2>4, UsesOnwards
<1>6. CASE Uses!Book(o)
  <2>1. /\ offer[o].accepts > 0
        /\ offer' = [offer EXCEPT ![o].accepts = @ - 1, ![o].booked = @ + 1]
        /\ overlapped' = IF offer[o].booked > 0 THEN overlapped \cup {offer[o].by} ELSE overlapped
        /\ UNCHANGED <<coupon, usages, riders, edit, edits, lost>>
    BY <1>6 DEF Uses!Book
  <2>2. /\ offer' \in [Offers -> Uses!Offer] /\ \A a \in Offers : a # o => offer'[a] = offer[a]
        /\ offer'[o].by = offer[o].by /\ offer'[o].stage = offer[o].stage
        /\ offer'[o].booked = offer[o].booked + 1 /\ offer'[o].settled = offer[o].settled
    BY <1>1, <2>1 DEF Uses!Offer
  <2>3. offer[o].stage # "none"
    BY <1>2, <2>1
  <2>4. overlapped' \in SUBSET Customers /\ overlapped \subseteq overlapped'
    BY <1>1, <2>1
  <2>5. offer[o].by \notin overlapped' => offer'[o].booked <= 1
    BY <1>1, <2>1, <2>2
  <2>6. CASE offer[o].booked = 0
    <3>1. Uses!Usable(o)
      BY <2>1, <2>6 DEF Uses!Usable
    <3> QED
      BY <1>1, <2>1, <2>2, <2>3, <2>4, <2>5, <3>1, UsesOnwards
  <2>7. CASE offer[o].booked > 0
    <3>1. offer[o].by \in overlapped'
      BY <2>1, <2>7
    <3> QED
      BY <1>1, <2>1, <2>2, <2>3, <2>4, <3>1, UsesOnwards
  <2> QED
    BY <1>1, <2>6, <2>7
<1>7. CASE Uses!UsageNotRecorded(o)
  <2>1. /\ offer[o].booked > offer[o].settled /\ offer' = [offer EXCEPT ![o].settled = @ + 1]
        /\ UNCHANGED <<coupon, usages, riders, edit, edits, lost, overlapped>>
    BY <1>7 DEF Uses!UsageNotRecorded
  <2>2. /\ offer' \in [Offers -> Uses!Offer] /\ \A a \in Offers : a # o => offer'[a] = offer[a]
        /\ offer'[o].by = offer[o].by /\ offer'[o].stage = offer[o].stage
        /\ offer'[o].booked = offer[o].booked /\ offer'[o].settled = offer[o].settled + 1
    BY <1>1, <2>1 DEF Uses!Offer
  <2>3. Uses!Usable(o)' => Uses!Usable(o)
    BY <2>1 DEF Uses!Usable
  <2>4. offer[o].stage # "none"
    BY <1>1, <1>2, <2>1
  <2> QED
    BY <1>1, <2>1, <2>2, <2>3, <2>4, UsesOnwards
<1> QED
  BY <1>3, <1>4, <1>5, <1>6, <1>7

LEMMA UsesRecordUsage ==
  ASSUME UsesInv, NEW o \in Offers, Uses!RecordUsage(o)
  PROVE  UsesInv'
<1> DEFINE row == <<o, offer[o].settled>>
<1>1. /\ offer[o].booked > offer[o].settled /\ coupon.exists /\ coupon.used < Cap
      /\ coupon' = [coupon EXCEPT !.used = @ + 1]
      /\ usages' = usages \cup {row}
      /\ offer' = [offer EXCEPT ![o].settled = @ + 1]
      /\ UNCHANGED <<riders, edit, edits, lost, overlapped>>
  BY DEF Uses!RecordUsage
<1>2. /\ Uses!TypeOK /\ coupon \in Uses!Coupon /\ usages \subseteq Offers \X Nat
      /\ offer \in [Offers -> Uses!Offer] /\ offer[o].settled \in Nat /\ offer[o].booked \in Nat
  BY DEF UsesInv, Uses!TypeOK, Uses!Offer
<1>3. row[1] = o /\ row[2] = offer[o].settled /\ row \in Offers \X Nat
  BY <1>2
<1>4. coupon.used \in Nat
  BY <1>2 DEF Uses!Coupon
<1>5. coupon' \in Uses!Coupon
  BY <1>1, <1>2, <1>4 DEF Uses!Coupon
<1>6. coupon'.used = coupon.used + 1 /\ coupon'.exists = coupon.exists
  BY <1>1, <1>2 DEF Uses!Coupon
<1>7. /\ offer' \in [Offers -> Uses!Offer] /\ \A a \in Offers : a # o => offer'[a] = offer[a]
      /\ offer'[o].by = offer[o].by /\ offer'[o].stage = offer[o].stage
      /\ offer'[o].accepts = offer[o].accepts
      /\ offer'[o].booked = offer[o].booked /\ offer'[o].settled = offer[o].settled + 1
  BY <1>1, <1>2 DEF Uses!Offer
<1>8. row \notin usages
  BY <1>2, <1>3 DEF UsesInv, RowsCounted
<1>9. IsFiniteSet(usages') /\ Cardinality(usages') = Cardinality(usages) + 1
  BY <1>1, <1>8, FS_AddElement DEF UsesInv
<1>10. Cardinality(usages) \in Nat
  BY UsesCounted
<1> HIDE DEF row
<1>11. Uses!TypeOK'
  BY <1>1, <1>2, <1>3, <1>5, <1>7 DEF Uses!TypeOK
<1>12. RowsCounted'
  <2>1. ASSUME NEW r \in usages' PROVE r[2] < offer'[r[1]].settled
    <3>1. CASE r = row
      BY <1>2, <1>3, <1>7, <3>1
    <3>2. CASE r # row
      <4>1. r[1] \in Offers /\ r[2] \in Nat /\ r[2] < offer[r[1]].settled
        BY <1>1, <1>2, <2>1, <3>2 DEF UsesInv, RowsCounted
      <4>2. CASE r[1] = o
        BY <1>2, <1>7, <4>1, <4>2
      <4>3. CASE r[1] # o
        BY <1>7, <4>1, <4>3
      <4> QED
        BY <4>2, <4>3
    <3> QED
      BY <3>1, <3>2
  <2>2. ASSUME ~lost PROVE coupon'.used <= Cap /\ coupon'.used = Cardinality(usages')
    <3>1. coupon.used = Cardinality(usages)
      BY <1>1, <2>2 DEF UsesInv, RowsCounted
    <3> QED
      BY <1>1, <1>4, <1>6, <1>9, <3>1, CouponsAssumption DEF CouponsAssumption
  <2> QED
    BY <1>1, <2>1, <2>2 DEF RowsCounted
<1>13. OffersGrow'
  <2>1. offer[o].stage # "none"
    BY <1>1, <1>2 DEF UsesInv, OffersGrow
  <2> QED
    BY <1>1, <1>2, <1>7, <2>1 DEF UsesInv, OffersGrow
<1>14. ASSUME NEW u \in Customers \ overlapped PROVE UsesFit(u)'
  <2>1. UsesFit(u)
    BY DEF UsesInv
  <2>2. \A r \in usages : r[1] \in Offers
    BY <1>2
  <2>3. \A a \in Offers : offer'[a].by = offer[a].by
    BY <1>7
  <2>4. \A a \in Offers : offer'[a].by = u => offer'[a].booked <= 1
    BY <1>7, <2>1 DEF UsesFit
  <2>5. CASE offer[o].by # u
    <3>1. Uses!UsagesOf(u)' = Uses!UsagesOf(u)
      BY <1>1, <1>3, <2>2, <2>3, <2>5 DEF Uses!UsagesOf
    <3>2. Uses!OpenOffers(u)' = Uses!OpenOffers(u)
      BY <1>7, <2>5 DEF Uses!OpenOffers, Uses!Usable
    <3> QED
      BY <2>1, <2>4, <3>1, <3>2 DEF UsesFit
  <2>6. CASE offer[o].by = u
    <3>1. o \in Uses!OpenOffers(u)
      BY <1>1, <2>6 DEF Uses!OpenOffers, Uses!Usable
    <3>2. Uses!OpenOffers(u) = {o} /\ Cardinality(Uses!UsagesOf(u)) < PerUser
      BY <2>1, <3>1 DEF UsesFit
    <3>3. offer'[o].booked = 1 /\ offer'[o].settled = 1
      BY <1>1, <1>2, <1>7, <2>1, <2>6 DEF UsesFit
    <3>4. ~Uses!Usable(o)'
      BY <3>3 DEF Uses!Usable
    <3>5. \A a \in Offers : a # o => (Uses!Usable(a)' <=> Uses!Usable(a))
      BY <1>7 DEF Uses!Usable
    <3>6. Uses!OpenOffers(u)' = {}
      BY <2>3, <3>2, <3>4, <3>5 DEF Uses!OpenOffers
    <3>7. Uses!UsagesOf(u)' = Uses!UsagesOf(u) \cup {row}
      BY <1>1, <1>3, <2>2, <2>3, <2>6 DEF Uses!UsagesOf
    <3>8. row \notin Uses!UsagesOf(u)
      BY <1>8 DEF Uses!UsagesOf
    <3>9. Cardinality(Uses!UsagesOf(u) \cup {row}) = Cardinality(Uses!UsagesOf(u)) + 1
      BY <3>8, UsesCounted, FS_AddElement
    <3>10. Cardinality(Uses!UsagesOf(u)) + 1 <= PerUser
      BY <3>2, UsesCounted, CouponsAssumption DEF CouponsAssumption
    <3> QED
      BY <2>4, <3>6, <3>7, <3>9, <3>10 DEF UsesFit
  <2> QED
    BY <2>5, <2>6
<1> QED
  BY <1>9, <1>11, <1>12, <1>13, <1>14, <1>1 DEF UsesInv

LEMMA UsesCompleteRide ==
  ASSUME UsesInv, NEW o \in Offers, Uses!CompleteRide(o)
  PROVE  UsesInv'
<1>1. riders' = riders \cup {offer[o].by} /\ UNCHANGED <<coupon, usages, offer, edit, edits, lost, overlapped>>
  BY DEF Uses!CompleteRide
<1>2. Uses!TypeOK'
  BY <1>1 DEF UsesInv, Uses!TypeOK, Uses!Offer
<1>3. \A u : UsesFit(u) => UsesFit(u)'
  BY <1>1 DEF UsesFit, Uses!UsagesOf, Uses!OpenOffers, Uses!Usable
<1> QED
  BY <1>1, <1>2, <1>3 DEF UsesInv, RowsCounted, OffersGrow

LEMMA UsesEdit ==
  ASSUME UsesInv, Uses!EditRead \/ Uses!EditSave
  PROVE  UsesInv'
<1>1. CASE Uses!EditRead
  <2>1. /\ edit' = coupon /\ edits' = edits + 1
        /\ UNCHANGED <<coupon, usages, riders, offer, lost, overlapped>>
    BY <1>1 DEF Uses!EditRead
  <2>2. Uses!TypeOK'
    BY <2>1 DEF UsesInv, Uses!TypeOK
  <2>3. \A u : UsesFit(u) => UsesFit(u)'
    BY <2>1 DEF UsesFit, Uses!UsagesOf, Uses!OpenOffers, Uses!Usable
  <2> QED
    BY <2>1, <2>2, <2>3 DEF UsesInv, RowsCounted, OffersGrow
<1>2. CASE Uses!EditSave
  <2>1. PICK active \in BOOLEAN,
             used \in {edit.used} \cup (IF coupon.exists THEN {coupon.used} ELSE {}) :
          /\ coupon' = [exists |-> TRUE, active |-> active, used |-> used]
          /\ lost' = (lost \/ ~coupon.exists \/ used # coupon.used)
    BY <1>2 DEF Uses!EditSave
  <2>2. edit' = Uses!NoEdit /\ UNCHANGED <<usages, riders, offer, edits, overlapped>>
    BY <1>2 DEF Uses!EditSave
  <2>3. Uses!TypeOK /\ coupon \in Uses!Coupon /\ edit \in Uses!Coupon /\ lost \in BOOLEAN
    BY DEF UsesInv, Uses!TypeOK
  <2>4. used \in Nat /\ coupon.exists \in BOOLEAN
    BY <2>1, <2>3 DEF Uses!Coupon
  <2>5. coupon' \in Uses!Coupon /\ Uses!NoEdit \in Uses!Coupon
    BY <2>1, <2>4 DEF Uses!Coupon, Uses!NoEdit
  <2>6. lost' \in BOOLEAN
    BY <2>1, <2>3
  <2>7. Uses!TypeOK'
    BY <2>2, <2>3, <2>5, <2>6 DEF Uses!TypeOK
  <2>8. coupon'.used = used
    BY <2>1
  <2>9. ~lost' => ~lost /\ coupon.exists /\ used = coupon.used
    BY <2>1
  <2>10. RowsCounted'
    BY <2>2, <2>8, <2>9 DEF UsesInv, RowsCounted
  <2>11. \A u : UsesFit(u) => UsesFit(u)'
    BY <2>2 DEF UsesFit, Uses!UsagesOf, Uses!OpenOffers, Uses!Usable
  <2> QED
    BY <2>2, <2>7, <2>10, <2>11 DEF UsesInv, OffersGrow
<1> QED
  BY <1>1, <1>2

LEMMA UsesRemove == UsesInv /\ Uses!Remove => UsesInv'
<1> SUFFICES ASSUME UsesInv, Uses!Remove PROVE UsesInv'
  OBVIOUS
<1>1. /\ coupon' = [Uses!NoEdit EXCEPT !.used = 0] /\ usages' = {}
      /\ UNCHANGED <<riders, offer, edit, edits, lost, overlapped>>
  BY DEF Uses!Remove
<1>2. coupon' \in Uses!Coupon /\ ~coupon'.exists
  BY <1>1 DEF Uses!Coupon, Uses!NoEdit
<1>3. Uses!TypeOK'
  BY <1>1, <1>2 DEF UsesInv, Uses!TypeOK
<1>4. IsFiniteSet({}) /\ Cardinality({}) = 0
  BY FS_EmptySet
<1>5. RowsCounted'
  BY <1>1, <1>2 DEF RowsCounted
<1>6. ASSUME NEW u \in Customers \ overlapped PROVE UsesFit(u)'
  <2>1. UsesFit(u)
    BY DEF UsesInv
  <2>2. Uses!UsagesOf(u)' = {} /\ Uses!OpenOffers(u)' = Uses!OpenOffers(u)
    BY <1>1 DEF Uses!UsagesOf, Uses!OpenOffers, Uses!Usable
  <2>3. Cardinality(Uses!UsagesOf(u)) \in Nat
    BY UsesCounted
  <2> QED
    BY <1>1, <1>4, <2>1, <2>2, <2>3, CouponsAssumption DEF UsesFit, CouponsAssumption
<1> QED
  BY <1>1, <1>3, <1>4, <1>5, <1>6 DEF UsesInv, OffersGrow

LEMMA UsesInvNext == UsesInv /\ [Uses!Next]_(Uses!vars) => UsesInv'
<1> SUFFICES ASSUME UsesInv, [Uses!Next]_(Uses!vars) PROVE UsesInv'
  OBVIOUS
<1>1. CASE UNCHANGED Uses!vars
  <2>1. UNCHANGED <<coupon, usages, riders, offer, edit, edits, lost, overlapped>>
    BY <1>1 DEF Uses!vars
  <2>2. Uses!TypeOK' /\ IsFiniteSet(usages)' /\ RowsCounted' /\ OffersGrow'
    BY <2>1 DEF UsesInv, Uses!TypeOK, RowsCounted, OffersGrow
  <2>3. \A u : UsesFit(u) => UsesFit(u)'
    BY <2>1 DEF UsesFit, Uses!UsagesOf, Uses!OpenOffers, Uses!Usable
  <2> QED
    BY <2>1, <2>2, <2>3 DEF UsesInv
<1>2. ASSUME NEW o \in Offers, Uses!Validate(o) PROVE UsesInv'
  BY <1>2, UsesValidate
<1>3. ASSUME NEW o \in Offers,
             \/ Uses!Drop(o) \/ Uses!Accept(o) \/ Uses!AcceptFails(o) \/ Uses!Book(o)
             \/ Uses!UsageNotRecorded(o)
      PROVE  UsesInv'
  BY <1>3, UsesMoves
<1>4. ASSUME NEW o \in Offers, Uses!RecordUsage(o) PROVE UsesInv'
  BY <1>4, UsesRecordUsage
<1>5. ASSUME NEW o \in Offers, Uses!CompleteRide(o) PROVE UsesInv'
  BY <1>5, UsesCompleteRide
<1>6. CASE Uses!EditRead \/ Uses!EditSave
  BY <1>6, UsesEdit
<1>7. CASE Uses!Remove
  BY <1>7, UsesRemove
<1> QED
  BY <1>1, <1>2, <1>3, <1>4, <1>5, <1>6, <1>7 DEF Uses!Next

LEMMA UsesInvGives == UsesInv => Uses!CouponLimits
  BY UsesCardinality DEF UsesInv, RowsCounted, UsesFit, Uses!CouponLimits

\* A coupon is used no more than max_uses_total allows, nor by one customer more
\* than max_uses_per_user, unless an edit lost uses, the customer's offers overlapped
\* or one of them was booked twice.
THEOREM CouponKeepsLimits == Uses!Spec => []Uses!CouponLimits
  BY UsesStart, UsesInvNext, UsesInvGives, PTL DEF Uses!Spec

LEMMA CouponRuns == ServicesSpec => Uses!Spec
<1>1. ServicesInit => Uses!Init
  BY DEF ServicesInit
<1>2. [ServicesNext]_<<at_work, vars, wallets, ends, funds, uses, banks, reports, desk,
                         rules, rewards, reviews>> => [Uses!Next]_(Uses!vars)
  BY DEF ServicesNext, uses, Uses!vars
<1> QED
  BY <1>1, <1>2, PTL DEF ServicesSpec, Uses!Spec

\* The coupon's limits hold in the services together.
THEOREM CouponKept == ServicesSpec => []CouponLimits
<1>1. Uses!CouponLimits => CouponLimits
  BY DEF CouponLimits
<1> QED
  BY <1>1, CouponRuns, CouponKeepsLimits, PTL

(***************************************************************************)
(* Coins and referrals.                                                    *)
(***************************************************************************)

\* Calls are told apart by their numbers; only spending is for any user.
CoinsBase ==
  /\ Rewards!TypeOK
  /\ IsFiniteSet(coin_calls)
  /\ \A c, d \in coin_calls : c.n = d.n => c = d
  /\ \A c \in coin_calls : c.op \notin {"spend", "refund"} => c.u \in Referees

\* What c has still to add to u's balance, or to take from its entries.
Owed(c, u) == IF Rewards!Owes(c, u) THEN 1 ELSE 0

\* The entries are ahead of the balance by the changes under way.
CoinsBalances ==
  /\ \A u \in Rewards!Users : coins[u] >= 0
  /\ \A u \in Rewards!Users :
       coin_entries[u] + drift[u] - coins[u] = Cardinality(Rewards!Pending(u))

\* The calls that are crediting u's referral, and what they have credited.
RewardsOf(u) == {c \in coin_calls : c.u = u /\ c.op \in Rewards!Rewarding}
Credited(u, op) ==
  /\ bonus[u].referee <= 1 + reverts[u] /\ bonus[u].referrer <= 1 + reverts[u]
  /\ op = "referee" => bonus[u].referee <= reverts[u]
  /\ op \in {"referee", "referee_inc", "referrer"} => bonus[u].referrer <= reverts[u]
  /\ op \in {"referee_inc", "referrer", "referrer_inc", "done"} => bonus[u].referee >= 1
  /\ op \in {"referrer_inc", "done"} => bonus[u].referrer >= 1

\* One call at a time credits a referral, which is rewarded meanwhile.
BonusFits(u) ==
  /\ referral[u] # "rewarded" =>
       /\ RewardsOf(u) = {}
       /\ bonus[u].referee <= reverts[u] /\ bonus[u].referrer <= reverts[u]
  /\ \A c \in RewardsOf(u) : RewardsOf(u) = {c} /\ Credited(u, c.op)
  /\ referral[u] = "rewarded" /\ RewardsOf(u) = {} =>
       Credited(u, "lost") /\ (u \notin coin_disturbed => Credited(u, "done"))
CoinsBonuses == \A u \in Referees : BonusFits(u)

Inserts == {c \in coin_calls : c.op = "insert"}
Referred == {u \in Referees : referral[u] # "none"}

\* One account of a phone at a time applies a code, and finds none before it.
CoinsPhone ==
  "phone" \notin coin_disturbed =>
    /\ \A c \in Inserts : Inserts = {c} /\ Referred = {}
    /\ \A u \in Referred : Referred = {u}

CoinsInv == CoinsBase /\ CoinsBalances /\ CoinsBonuses /\ CoinsPhone

LEMMA CoinsStart == Rewards!Init => CoinsInv
<1> SUFFICES ASSUME Rewards!Init PROVE CoinsInv
  OBVIOUS
<1>1. /\ coins = [u \in Rewards!Users |-> 0] /\ coin_entries = coins
      /\ referral = [u \in Referees |-> "none"]
      /\ bonus = [u \in Referees |-> [referee |-> 0, referrer |-> 0]]
      /\ reverts = [u \in Referees |-> 0] /\ coin_rides = reverts /\ drift = coins
      /\ coin_calls = {} /\ errors = 0 /\ coin_disturbed = {}
  BY DEF Rewards!Init
<1>2. /\ coins \in [Rewards!Users -> Int] /\ coin_entries \in [Rewards!Users -> Int]
      /\ drift \in [Rewards!Users -> Int]
      /\ referral \in [Referees -> {"none", "pending", "rewarded"}]
      /\ bonus \in [Referees -> [referee : Nat, referrer : Nat]]
      /\ reverts \in [Referees -> Nat] /\ coin_rides \in [Referees -> Nat]
  BY <1>1
<1>3. Rewards!TypeOK
  BY <1>1, <1>2 DEF Rewards!TypeOK
<1>4. IsFiniteSet({}) /\ Cardinality({}) = 0
  BY FS_EmptySet
<1>5. \A u : Rewards!Pending(u) = {} /\ RewardsOf(u) = {}
  BY <1>1 DEF Rewards!Pending, RewardsOf
<1>6. Inserts = {} /\ Referred = {}
  BY <1>1 DEF Inserts, Referred
<1>7. CoinsBase
  BY <1>1, <1>3, <1>4 DEF CoinsBase
<1>8. CoinsBalances
  BY <1>1, <1>4, <1>5 DEF CoinsBalances
<1>9. CoinsBonuses
  BY <1>1, <1>5 DEF CoinsBonuses, BonusFits
<1> QED
  BY <1>6, <1>7, <1>8, <1>9 DEF CoinsInv, CoinsPhone

(***************************************************************************)
(* What a handler does to the calls in flight.                             *)
(***************************************************************************)

LEMMA CoinsStarts ==
  ASSUME CoinsBase, NEW op \in Rewards!Op, NEW u \in Rewards!Users, Rewards!Start(op, u)
  PROVE  \E e \in Rewards!Call : /\ e.op = op /\ e.u = u
                                 /\ coin_calls' = coin_calls \cup {e}
                                 /\ \A c \in coin_calls : c.n # e.n
<1>1. PICK n \in 1..MaxCalls :
        /\ \A m \in 1..n : (\E c \in coin_calls : c.n = m) <=> m # n
        /\ coin_calls' = coin_calls \cup {[op |-> op, u |-> u, n |-> n]}
  BY DEF Rewards!Start
<1>2. n \in 1..n
  BY <1>1
<1>3. \A c \in coin_calls : c.n # n
  BY <1>1, <1>2
<1>4. [op |-> op, u |-> u, n |-> n] \in Rewards!Call
  BY <1>1 DEF Rewards!Call
<1> QED
  BY <1>1, <1>3, <1>4

LEMMA CoinsContinues ==
  ASSUME CoinsBase, NEW c \in coin_calls, NEW op \in Rewards!Op, Rewards!Continue(c, op)
  PROVE  \E e \in Rewards!Call : /\ e.op = op /\ e.u = c.u /\ e.n = c.n
                                 /\ coin_calls' = (coin_calls \ {c}) \cup {e}
                                 /\ e \notin coin_calls \ {c}
<1> DEFINE e == [c EXCEPT !.op = op]
<1>1. c \in Rewards!Call
  BY DEF CoinsBase, Rewards!TypeOK
<1>2. e \in Rewards!Call /\ e.op = op /\ e.u = c.u /\ e.n = c.n
  BY <1>1 DEF Rewards!Call
<1>3. coin_calls' = (coin_calls \ {c}) \cup {e}
  BY DEF Rewards!Continue
<1> HIDE DEF e
<1>4. e \notin coin_calls \ {c}
  BY <1>2 DEF CoinsBase
<1> QED
  BY <1>2, <1>3, <1>4

LEMMA CoinsCall ==
  ASSUME Rewards!TypeOK, NEW c \in coin_calls
  PROVE  c \in Rewards!Call /\ c.op \in Rewards!Op /\ c.u \in Rewards!Users
  BY DEF Rewards!TypeOK, Rewards!Call

\* Adding to one place of a table.
LEMMA CoinsAdd ==
  ASSUME NEW S, NEW table \in [S -> Int], NEW w \in S, NEW k \in Int
  PROVE  /\ Rewards!Add(table, w, k) \in [S -> Int]
         /\ Rewards!Add(table, w, k)[w] = table[w] + k
         /\ \A u \in S : u # w => Rewards!Add(table, w, k)[u] = table[u]
  BY DEF Rewards!Add

LEMMA CoinsAddNat ==
  ASSUME NEW S, NEW table \in [S -> Nat], NEW w \in S
  PROVE  /\ Rewards!Add(table, w, 1) \in [S -> Nat]
         /\ Rewards!Add(table, w, 1)[w] = table[w] + 1
         /\ \A u \in S : u # w => Rewards!Add(table, w, 1)[u] = table[u]
  BY DEF Rewards!Add

\* The base is kept by whatever starts, continues or ends a call.
LEMMA CoinsBaseStarts ==
  ASSUME CoinsBase, NEW e \in Rewards!Call, coin_calls' = coin_calls \cup {e},
         \A c \in coin_calls : c.n # e.n, Rewards!TypeOK', e.op \notin {"spend", "refund"} => e.u \in Referees
  PROVE  CoinsBase'
<1>1. IsFiniteSet(coin_calls')
  BY FS_AddElement DEF CoinsBase
<1> QED
  BY <1>1 DEF CoinsBase

LEMMA CoinsBaseContinues ==
  ASSUME CoinsBase, NEW c \in coin_calls, NEW e \in Rewards!Call,
         coin_calls' = (coin_calls \ {c}) \cup {e}, e.n = c.n, e.u = c.u,
         e.op \notin {"spend", "refund"} => c.op \notin {"spend", "refund"},
         Rewards!TypeOK'
  PROVE  CoinsBase'
<1>1. IsFiniteSet(coin_calls \ {c})
  BY FS_RemoveElement DEF CoinsBase
<1>2. IsFiniteSet(coin_calls')
  BY <1>1, FS_AddElement
<1> QED
  BY <1>2 DEF CoinsBase

LEMMA CoinsBaseReturns ==
  ASSUME CoinsBase, NEW c \in coin_calls, coin_calls' = coin_calls \ {c}, Rewards!TypeOK'
  PROVE  CoinsBase'
<1>1. IsFiniteSet(coin_calls')
  BY FS_RemoveElement DEF CoinsBase
<1> QED
  BY <1>1 DEF CoinsBase

(***************************************************************************)
(* Balances.                                                               *)
(***************************************************************************)

LEMMA CoinsPending ==
  ASSUME CoinsBase, NEW u
  PROVE  IsFiniteSet(Rewards!Pending(u)) /\ Cardinality(Rewards!Pending(u)) \in Nat
<1>1. Rewards!Pending(u) \subseteq coin_calls
  BY DEF Rewards!Pending
<1> QED
  BY <1>1, FS_Subset, FS_CardinalityType DEF CoinsBase

LEMMA CoinsOwedStarts ==
  ASSUME CoinsBase, NEW e, coin_calls' = coin_calls \cup {e}, e \notin coin_calls, NEW u
  PROVE  Cardinality(Rewards!Pending(u)') = Cardinality(Rewards!Pending(u)) + Owed(e, u)
<1>1. IsFiniteSet(Rewards!Pending(u)) /\ Cardinality(Rewards!Pending(u)) \in Nat
  BY CoinsPending
<1>2. CASE Rewards!Owes(e, u)
  <2>1. Rewards!Pending(u)' = Rewards!Pending(u) \cup {e} /\ e \notin Rewards!Pending(u)
    BY <1>2 DEF Rewards!Pending, Rewards!Owes
  <2> QED
    BY <1>1, <1>2, <2>1, FS_AddElement DEF Owed
<1>3. CASE ~Rewards!Owes(e, u)
  <2>1. Rewards!Pending(u)' = Rewards!Pending(u)
    BY <1>3 DEF Rewards!Pending, Rewards!Owes
  <2> QED
    BY <1>1, <1>3, <2>1 DEF Owed
<1> QED
  BY <1>2, <1>3

LEMMA CoinsOwedReturns ==
  ASSUME CoinsBase, NEW c \in coin_calls, coin_calls' = coin_calls \ {c}, NEW u
  PROVE  Cardinality(Rewards!Pending(u)') = Cardinality(Rewards!Pending(u)) - Owed(c, u)
<1>1. IsFiniteSet(Rewards!Pending(u)) /\ Cardinality(Rewards!Pending(u)) \in Nat
  BY CoinsPending
<1>2. CASE Rewards!Owes(c, u)
  <2>1. Rewards!Pending(u)' = Rewards!Pending(u) \ {c} /\ c \in Rewards!Pending(u)
    BY <1>2 DEF Rewards!Pending, Rewards!Owes
  <2> QED
    BY <1>1, <1>2, <2>1, FS_RemoveElement DEF Owed
<1>3. CASE ~Rewards!Owes(c, u)
  <2>1. Rewards!Pending(u)' = Rewards!Pending(u)
    BY <1>3 DEF Rewards!Pending, Rewards!Owes
  <2> QED
    BY <1>1, <1>3, <2>1 DEF Owed
<1> QED
  BY <1>2, <1>3

LEMMA CoinsOwedContinues ==
  ASSUME CoinsBase, NEW c \in coin_calls, NEW e, e \notin coin_calls \ {c},
         coin_calls' = (coin_calls \ {c}) \cup {e}, NEW u
  PROVE  Cardinality(Rewards!Pending(u)') = Cardinality(Rewards!Pending(u)) - Owed(c, u) + Owed(e, u)
<1>1. IsFiniteSet(Rewards!Pending(u)) /\ Cardinality(Rewards!Pending(u)) \in Nat
  BY CoinsPending
<1> DEFINE Rest == {d \in coin_calls \ {c} : Rewards!Owes(d, u)}
<1>2. IsFiniteSet(Rest) /\ Cardinality(Rest) \in Nat /\ Cardinality(Rest) = Cardinality(Rewards!Pending(u)) - Owed(c, u)
  <2>1. CASE Rewards!Owes(c, u)
    <3>1. Rest = Rewards!Pending(u) \ {c} /\ c \in Rewards!Pending(u)
      BY <2>1 DEF Rewards!Pending
    <3> QED
      BY <1>1, <2>1, <3>1, FS_RemoveElement, FS_CardinalityType DEF Owed
  <2>2. CASE ~Rewards!Owes(c, u)
    <3>1. Rest = Rewards!Pending(u)
      BY <2>2 DEF Rewards!Pending
    <3> QED
      BY <1>1, <2>2, <3>1 DEF Owed
  <2> QED
    BY <2>1, <2>2
<1>3. CASE Rewards!Owes(e, u)
  <2>1. Rewards!Pending(u)' = Rest \cup {e} /\ e \notin Rest
    BY <1>3 DEF Rewards!Pending, Rewards!Owes
  <2> QED
    BY <1>2, <1>3, <2>1, FS_AddElement DEF Owed
<1>4. CASE ~Rewards!Owes(e, u)
  <2>1. Rewards!Pending(u)' = Rest
    BY <1>4 DEF Rewards!Pending, Rewards!Owes
  <2> QED
    BY <1>2, <1>4, <2>1 DEF Owed
<1> QED
  BY <1>3, <1>4

(***************************************************************************)
(* Referrals: what is left alone.                                          *)
(***************************************************************************)

LEMMA CoinsBonusStays ==
  ASSUME NEW u, BonusFits(u), referral'[u] = referral[u], bonus'[u] = bonus[u],
         reverts'[u] = reverts[u], RewardsOf(u)' = RewardsOf(u),
         coin_disturbed \subseteq coin_disturbed'
  PROVE  BonusFits(u)'
<1>1. \A op : Credited(u, op)' <=> Credited(u, op)
  BY DEF Credited
<1> QED
  BY <1>1 DEF BonusFits

LEMMA CoinsBonusesStay ==
  ASSUME CoinsBonuses, UNCHANGED <<referral, bonus, reverts>>,
         \A u \in Referees : RewardsOf(u)' = RewardsOf(u), coin_disturbed \subseteq coin_disturbed'
  PROVE  CoinsBonuses'
<1>1. ASSUME NEW u \in Referees PROVE BonusFits(u)'
  BY CoinsBonusStays DEF CoinsBonuses
<1> QED
  BY <1>1 DEF CoinsBonuses

LEMMA CoinsPhoneStays ==
  ASSUME CoinsPhone, Inserts' \subseteq Inserts, Referred' = Referred,
         coin_disturbed \subseteq coin_disturbed'
  PROVE  CoinsPhone'
  BY DEF CoinsPhone

LEMMA CoinsBalanced ==
  ASSUME CoinsBase, CoinsBase', CoinsBalances,
         \A u \in Rewards!Users : coins'[u] >= 0,
         \A u \in Rewards!Users :
           coin_entries'[u] + drift'[u] - coins'[u]
             = coin_entries[u] + drift[u] - coins[u] + (Cardinality(Rewards!Pending(u)') - Cardinality(Rewards!Pending(u)))
  PROVE  CoinsBalances'
<1> SUFFICES ASSUME NEW u \in Rewards!Users
             PROVE  coin_entries'[u] + drift'[u] - coins'[u] = Cardinality(Rewards!Pending(u)')
  BY DEF CoinsBalances
<1>1. Cardinality(Rewards!Pending(u)) \in Nat
  BY CoinsPending
<1>2. Cardinality(Rewards!Pending(u)') \in Nat
  <2>1. Rewards!Pending(u)' \subseteq coin_calls'
    BY DEF Rewards!Pending
  <2>2. IsFiniteSet(coin_calls')
    BY DEF CoinsBase
  <2> QED
    BY <2>1, <2>2, FS_Subset, FS_CardinalityType
<1>3. coin_entries[u] + drift[u] - coins[u] = Cardinality(Rewards!Pending(u))
  BY DEF CoinsBalances
<1> QED
  BY <1>1, <1>2, <1>3

\* A step that changes no balance and no entry, and owes nothing.
LEMMA CoinsBalancesStay ==
  ASSUME CoinsBalances, UNCHANGED <<coins, coin_entries, drift>>,
         \A u : Rewards!Pending(u)' = Rewards!Pending(u)
  PROVE  CoinsBalances'
  BY DEF CoinsBalances

(***************************************************************************)
(* A code is applied.                                                      *)
(***************************************************************************)

LEMMA CoinsApply ==
  ASSUME CoinsInv, NEW u \in Referees, Rewards!Apply(u)
  PROVE  CoinsInv'
<1>1. /\ \A w \in Referees : referral[w] = "none"
      /\ Rewards!Start("insert", u)
      /\ coin_disturbed' = IF \E c \in coin_calls : c.op = "insert"
                           THEN coin_disturbed \cup {"phone"} ELSE coin_disturbed
      /\ UNCHANGED <<coins, coin_entries, referral, bonus, reverts, coin_rides, errors, drift>>
  BY DEF Rewards!Apply
<1>2. CoinsBase /\ Rewards!TypeOK
  BY DEF CoinsInv, CoinsBase
<1>3. u \in Rewards!Users /\ "insert" \in Rewards!Op
  BY DEF Rewards!Users, Rewards!Op
<1>4. PICK e \in Rewards!Call : /\ e.op = "insert" /\ e.u = u
                                /\ coin_calls' = coin_calls \cup {e}
                                /\ \A c \in coin_calls : c.n # e.n
  BY <1>1, <1>2, <1>3, CoinsStarts
<1>5. coin_disturbed' \subseteq Referees \cup {"phone"} /\ coin_disturbed \subseteq coin_disturbed'
  BY <1>1, <1>2 DEF Rewards!TypeOK
<1>6. Rewards!TypeOK'
  BY <1>1, <1>2, <1>4, <1>5 DEF Rewards!TypeOK
<1>7. CoinsBase'
  BY <1>2, <1>4, <1>6, CoinsBaseStarts
<1>8. CoinsBalances'
  <2>1. \A w : Rewards!Pending(w)' = Rewards!Pending(w)
    BY <1>4 DEF Rewards!Pending, Rewards!Owes
  <2> QED
    BY <1>1, <1>5, <2>1, CoinsBalancesStay DEF CoinsInv
<1>9. CoinsBonuses'
  <2>1. \A w \in Referees : RewardsOf(w)' = RewardsOf(w)
    BY <1>4 DEF RewardsOf, Rewards!Rewarding
  <2> QED
    BY <1>1, <1>5, <2>1, CoinsBonusesStay DEF CoinsInv
<1>10. ASSUME "phone" \notin coin_disturbed'
       PROVE  /\ \A c \in Inserts' : Inserts' = {c} /\ Referred' = {}
              /\ \A w \in Referred' : Referred' = {w}
  <2>1. ~\E c \in coin_calls : c.op = "insert"
    BY <1>1, <1>10
  <2>2. Inserts' = {e}
    BY <1>4, <2>1 DEF Inserts
  <2>3. Referred' = {}
    BY <1>1 DEF Referred
  <2> QED
    BY <2>2, <2>3
<1> QED
  BY <1>7, <1>8, <1>9, <1>10 DEF CoinsInv, CoinsPhone

LEMMA CoinsInsertReferral ==
  ASSUME CoinsInv, NEW c \in coin_calls, Rewards!InsertReferral(c)
  PROVE  CoinsInv'
<1>1. /\ c.op = "insert"
      /\ referral' = IF referral[c.u] = "none" THEN [referral EXCEPT ![c.u] = "pending"] ELSE referral
      /\ coin_calls' = coin_calls \ {c}
      /\ UNCHANGED <<coins, coin_entries, bonus, reverts, coin_rides, errors, drift, coin_disturbed>>
  BY DEF Rewards!InsertReferral, Rewards!Return
<1>2. CoinsBase /\ Rewards!TypeOK
  BY DEF CoinsInv, CoinsBase
<1>3. c.u \in Referees /\ referral \in [Referees -> {"none", "pending", "rewarded"}]
  BY <1>1, <1>2 DEF CoinsBase, Rewards!TypeOK
<1>4. referral' \in [Referees -> {"none", "pending", "rewarded"}]
  BY <1>1, <1>3
<1>5. /\ \A w \in Referees : w # c.u => referral'[w] = referral[w]
      /\ referral'[c.u] = IF referral[c.u] = "none" THEN "pending" ELSE referral[c.u]
  BY <1>1, <1>3
<1>6. Rewards!TypeOK'
  BY <1>1, <1>2, <1>4 DEF Rewards!TypeOK
<1>7. CoinsBase'
  BY <1>1, <1>2, <1>6, CoinsBaseReturns
<1>8. CoinsBalances'
  <2>1. \A w : Rewards!Pending(w)' = Rewards!Pending(w)
    BY <1>1 DEF Rewards!Pending, Rewards!Owes
  <2> QED
    BY <1>1, <2>1, CoinsBalancesStay DEF CoinsInv
<1>9. \A w \in Referees : RewardsOf(w)' = RewardsOf(w)
  BY <1>1 DEF RewardsOf, Rewards!Rewarding
<1>10. ASSUME NEW w \in Referees PROVE BonusFits(w)'
  <2>1. BonusFits(w)
    BY DEF CoinsInv, CoinsBonuses
  <2>2. CASE referral'[w] = referral[w]
    BY <1>1, <1>9, <2>1, <2>2, CoinsBonusStays
  <2>3. CASE referral'[w] # referral[w]
    <3>1. referral[w] = "none" /\ referral'[w] = "pending"
      BY <1>5, <2>3
    <3> QED
      BY <1>1, <1>9, <2>1, <3>1 DEF BonusFits
  <2> QED
    BY <2>2, <2>3
<1>11. CoinsPhone'
  <2> SUFFICES ASSUME "phone" \notin coin_disturbed
               PROVE  Inserts' = {} /\ Referred' = {c.u}
    BY <1>1 DEF CoinsPhone
  <2>1. c \in Inserts
    BY <1>1 DEF Inserts
  <2>2. Inserts = {c} /\ Referred = {}
    BY <2>1 DEF CoinsInv, CoinsPhone
  <2>3. Inserts' = {}
    BY <1>1, <2>2 DEF Inserts
  <2>4. referral[c.u] = "none" /\ \A w \in Referees : referral[w] = "none"
    BY <1>3, <2>2 DEF Referred
  <2>5. Referred' = {c.u}
    BY <1>3, <1>5, <2>4 DEF Referred
  <2> QED
    BY <2>3, <2>5
<1> QED
  BY <1>7, <1>8, <1>10, <1>11 DEF CoinsInv, CoinsBonuses

\* A step of a handler that is not about a referral.
LEMMA CoinsReferralsStay ==
  ASSUME CoinsInv, UNCHANGED <<referral, bonus, reverts>>,
         \A w : RewardsOf(w)' = RewardsOf(w), Inserts' \subseteq Inserts,
         coin_disturbed \subseteq coin_disturbed'
  PROVE  CoinsBonuses' /\ CoinsPhone'
<1>1. Referred' = Referred
  BY DEF Referred
<1> QED
  BY <1>1, CoinsBonusesStay, CoinsPhoneStays DEF CoinsInv

LEMMA CoinsAddAt ==
  ASSUME NEW S, NEW table \in [S -> Int], NEW w \in S, NEW k \in {-1, 1}
  PROVE  /\ Rewards!Add(table, w, k) \in [S -> Int]
         /\ \A u \in S : Rewards!Add(table, w, k)[u] = table[u] + (IF u = w THEN k ELSE 0)
<1>1. k \in Int
  OBVIOUS
<1>2. /\ Rewards!Add(table, w, k) \in [S -> Int]
      /\ Rewards!Add(table, w, k)[w] = table[w] + k
      /\ \A u \in S : u # w => Rewards!Add(table, w, k)[u] = table[u]
  BY <1>1, CoinsAdd
<1>3. \A u \in S : table[u] \in Int
  OBVIOUS
<1> QED
  BY <1>2, <1>3

\* The balance or the entries of w change by k.
LEMMA CoinsPlus ==
  ASSUME Rewards!TypeOK, NEW w \in Rewards!Users, NEW k \in {-1, 1}
  PROVE  /\ coins' = Rewards!Add(coins, w, k) =>
              /\ coins' \in [Rewards!Users -> Int]
              /\ \A u \in Rewards!Users : coins'[u] = coins[u] + (IF u = w THEN k ELSE 0)
         /\ coin_entries' = Rewards!Add(coin_entries, w, k) =>
              /\ coin_entries' \in [Rewards!Users -> Int]
              /\ \A u \in Rewards!Users :
                   coin_entries'[u] = coin_entries[u] + (IF u = w THEN k ELSE 0)
         /\ drift' = Rewards!Add(drift, w, k) =>
              /\ drift' \in [Rewards!Users -> Int]
              /\ \A u \in Rewards!Users : drift'[u] = drift[u] + (IF u = w THEN k ELSE 0)
         /\ \A u \in Rewards!Users : coins[u] \in Int /\ coin_entries[u] \in Int /\ drift[u] \in Int
<1>1. coins \in [Rewards!Users -> Int]
  BY DEF Rewards!TypeOK
<1>2. coin_entries \in [Rewards!Users -> Int]
  BY DEF Rewards!TypeOK
<1>3. drift \in [Rewards!Users -> Int]
  BY DEF Rewards!TypeOK
<1>4. \A u \in Rewards!Users : coins[u] \in Int /\ coin_entries[u] \in Int /\ drift[u] \in Int
  BY <1>1, <1>2, <1>3
<1>5. /\ Rewards!Add(coins, w, k) \in [Rewards!Users -> Int]
      /\ \A u \in Rewards!Users : Rewards!Add(coins, w, k)[u] = coins[u] + (IF u = w THEN k ELSE 0)
  BY <1>1, CoinsAddAt
<1>6. /\ Rewards!Add(coin_entries, w, k) \in [Rewards!Users -> Int]
      /\ \A u \in Rewards!Users :
           Rewards!Add(coin_entries, w, k)[u] = coin_entries[u] + (IF u = w THEN k ELSE 0)
  BY <1>2, CoinsAddAt
<1>7. /\ Rewards!Add(drift, w, k) \in [Rewards!Users -> Int]
      /\ \A u \in Rewards!Users : Rewards!Add(drift, w, k)[u] = drift[u] + (IF u = w THEN k ELSE 0)
  BY <1>3, CoinsAddAt
<1> QED
  BY <1>4, <1>5, <1>6, <1>7

LEMMA CoinsBalancedOn ==
  ASSUME CoinsInv, CoinsBase', NEW c \in coin_calls, NEW e, e \notin coin_calls \ {c},
         coin_calls' = (coin_calls \ {c}) \cup {e},
         \A u \in Rewards!Users : coins'[u] >= 0,
         \A u \in Rewards!Users :
           coin_entries'[u] + drift'[u] - coins'[u] = coin_entries[u] + drift[u] - coins[u] + Owed(e, u) - Owed(c, u)
  PROVE  CoinsBalances'
<1>1. CoinsBase /\ CoinsBalances
  BY DEF CoinsInv
<1>2. ASSUME NEW u \in Rewards!Users
      PROVE  coin_entries'[u] + drift'[u] - coins'[u]
               = coin_entries[u] + drift[u] - coins[u] + (Cardinality(Rewards!Pending(u)') - Cardinality(Rewards!Pending(u)))
  <2>1. Cardinality(Rewards!Pending(u)') = Cardinality(Rewards!Pending(u)) - Owed(c, u) + Owed(e, u)
    BY <1>1, CoinsOwedContinues
  <2>2. Cardinality(Rewards!Pending(u)) \in Nat
    BY <1>1, CoinsPending
  <2>3. coin_entries'[u] + drift'[u] - coins'[u] = coin_entries[u] + drift[u] - coins[u] + Owed(e, u) - Owed(c, u)
    OBVIOUS
  <2>4. coin_entries[u] \in Int /\ coins[u] \in Int /\ drift[u] \in Int /\ Owed(c, u) \in Int /\ Owed(e, u) \in Int
    BY <1>1 DEF CoinsBase, Rewards!TypeOK, Owed
  <2> QED
    BY <2>1, <2>2, <2>3, <2>4
<1> QED
  BY <1>1, <1>2, CoinsBalanced

LEMMA CoinsBalancedOff ==
  ASSUME CoinsInv, CoinsBase', NEW c \in coin_calls, coin_calls' = coin_calls \ {c},
         \A u \in Rewards!Users : coins'[u] >= 0,
         \A u \in Rewards!Users :
           coin_entries'[u] + drift'[u] - coins'[u] = coin_entries[u] + drift[u] - coins[u] - Owed(c, u)
  PROVE  CoinsBalances'
<1>1. CoinsBase /\ CoinsBalances
  BY DEF CoinsInv
<1>2. ASSUME NEW u \in Rewards!Users
      PROVE  coin_entries'[u] + drift'[u] - coins'[u]
               = coin_entries[u] + drift[u] - coins[u] + (Cardinality(Rewards!Pending(u)') - Cardinality(Rewards!Pending(u)))
  <2>1. Cardinality(Rewards!Pending(u)') = Cardinality(Rewards!Pending(u)) - Owed(c, u)
    BY <1>1, CoinsOwedReturns
  <2>2. Cardinality(Rewards!Pending(u)) \in Nat
    BY <1>1, CoinsPending
  <2>3. coin_entries'[u] + drift'[u] - coins'[u] = coin_entries[u] + drift[u] - coins[u] - Owed(c, u)
    OBVIOUS
  <2>4. coin_entries[u] \in Int /\ coins[u] \in Int /\ drift[u] \in Int /\ Owed(c, u) \in Int
    BY <1>1 DEF CoinsBase, Rewards!TypeOK, Owed
  <2> QED
    BY <2>1, <2>2, <2>3, <2>4
<1> QED
  BY <1>1, <1>2, CoinsBalanced

(***************************************************************************)
(* A ride is completed.                                                    *)
(***************************************************************************)

LEMMA CoinsCompleteRide ==
  ASSUME CoinsInv, NEW u \in Referees, Rewards!CompleteRide(u)
  PROVE  CoinsInv'
<1>1. /\ coin_rides' = Rewards!Add(coin_rides, u, 1) /\ Rewards!Start("award", u)
      /\ UNCHANGED <<coins, coin_entries, referral, bonus, reverts, errors, drift, coin_disturbed>>
  BY DEF Rewards!CompleteRide
<1>2. CoinsBase /\ Rewards!TypeOK
  BY DEF CoinsInv, CoinsBase
<1>3. u \in Rewards!Users /\ "award" \in Rewards!Op
  BY DEF Rewards!Users, Rewards!Op
<1>4. PICK e \in Rewards!Call : /\ e.op = "award" /\ e.u = u
                                /\ coin_calls' = coin_calls \cup {e}
                                /\ \A c \in coin_calls : c.n # e.n
  BY <1>1, <1>2, <1>3, CoinsStarts
<1>5. coin_rides' \in [Referees -> Nat]
  BY <1>1, <1>2, CoinsAddNat DEF Rewards!TypeOK
<1>6. Rewards!TypeOK'
  BY <1>1, <1>2, <1>4, <1>5 DEF Rewards!TypeOK
<1>7. CoinsBase'
  BY <1>2, <1>4, <1>6, CoinsBaseStarts
<1>8. \A w : Rewards!Pending(w)' = Rewards!Pending(w) /\ RewardsOf(w)' = RewardsOf(w)
  BY <1>4 DEF Rewards!Pending, Rewards!Owes, RewardsOf, Rewards!Rewarding
<1>9. Inserts' = Inserts
  BY <1>4 DEF Inserts
<1>10. CoinsBalances'
  BY <1>1, <1>8, CoinsBalancesStay DEF CoinsInv
<1>11. CoinsBonuses' /\ CoinsPhone'
  BY <1>1, <1>8, <1>9, CoinsReferralsStay
<1> QED
  BY <1>7, <1>10, <1>11 DEF CoinsInv

LEMMA CoinsAwardEntry ==
  ASSUME CoinsInv, NEW c \in coin_calls, Rewards!AwardEntry(c)
  PROVE  CoinsInv'
<1>1. /\ c.op = "award" /\ coin_entries' = Rewards!Add(coin_entries, c.u, 1)
      /\ Rewards!Continue(c, "award_inc")
      /\ UNCHANGED <<coins, referral, bonus, reverts, coin_rides, errors, drift, coin_disturbed>>
  BY DEF Rewards!AwardEntry
<1>2. CoinsBase /\ Rewards!TypeOK /\ CoinsBalances
  BY DEF CoinsInv, CoinsBase
<1>3. "award_inc" \in Rewards!Op /\ c.u \in Rewards!Users
  BY <1>2, CoinsCall DEF Rewards!Op
<1>4. PICK e \in Rewards!Call : /\ e.op = "award_inc" /\ e.u = c.u /\ e.n = c.n
                                /\ coin_calls' = (coin_calls \ {c}) \cup {e}
                                /\ e \notin coin_calls \ {c}
  BY <1>1, <1>2, <1>3, CoinsContinues
<1>5. /\ coin_entries' \in [Rewards!Users -> Int]
      /\ \A u \in Rewards!Users :
           coin_entries'[u] = coin_entries[u] + (IF u = c.u THEN 1 ELSE 0)
      /\ \A u \in Rewards!Users : coins[u] \in Int /\ coin_entries[u] \in Int /\ drift[u] \in Int
  BY <1>1, <1>2, <1>3, CoinsPlus
<1>6. Rewards!TypeOK'
  BY <1>1, <1>2, <1>4, <1>5 DEF Rewards!TypeOK
<1>7. CoinsBase'
  BY <1>1, <1>2, <1>4, <1>6, CoinsBaseContinues
<1>8. (\A w : RewardsOf(w)' = RewardsOf(w)) /\ Inserts' = Inserts
  BY <1>1, <1>4 DEF RewardsOf, Rewards!Rewarding, Inserts
<1>9. CoinsBonuses' /\ CoinsPhone'
  BY <1>1, <1>8, CoinsReferralsStay
<1>10. \A u : Owed(c, u) = 0 /\ Owed(e, u) = IF u = c.u THEN 1 ELSE 0
  BY <1>1, <1>4 DEF Owed, Rewards!Owes
<1>11. \A u \in Rewards!Users :
         coin_entries'[u] + drift'[u] - coins'[u] = coin_entries[u] + drift[u] - coins[u] + Owed(e, u) - Owed(c, u)
  BY <1>1, <1>5, <1>10
<1>12. CoinsBalances'
  BY <1>1, <1>2, <1>4, <1>7, <1>11, CoinsBalancedOn DEF CoinsBalances
<1> QED
  BY <1>7, <1>9, <1>12 DEF CoinsInv

LEMMA CoinsAwardCoins ==
  ASSUME CoinsInv, NEW c \in coin_calls, Rewards!AwardCoins(c)
  PROVE  CoinsInv'
<1>1. /\ c.op = "award_inc" /\ coins' = Rewards!Add(coins, c.u, 1)
      /\ Rewards!Continue(c, "find")
      /\ UNCHANGED <<coin_entries, referral, bonus, reverts, coin_rides, errors, drift, coin_disturbed>>
  BY DEF Rewards!AwardCoins
<1>2. CoinsBase /\ Rewards!TypeOK /\ CoinsBalances
  BY DEF CoinsInv, CoinsBase
<1>3. "find" \in Rewards!Op /\ c.u \in Rewards!Users
  BY <1>2, CoinsCall DEF Rewards!Op
<1>4. PICK e \in Rewards!Call : /\ e.op = "find" /\ e.u = c.u /\ e.n = c.n
                                /\ coin_calls' = (coin_calls \ {c}) \cup {e}
                                /\ e \notin coin_calls \ {c}
  BY <1>1, <1>2, <1>3, CoinsContinues
<1>5. /\ coins' \in [Rewards!Users -> Int]
      /\ \A u \in Rewards!Users : coins'[u] = coins[u] + (IF u = c.u THEN 1 ELSE 0)
      /\ \A u \in Rewards!Users : coins[u] \in Int /\ coin_entries[u] \in Int /\ drift[u] \in Int
  BY <1>1, <1>2, <1>3, CoinsPlus
<1>6. Rewards!TypeOK'
  BY <1>1, <1>2, <1>4, <1>5 DEF Rewards!TypeOK
<1>7. CoinsBase'
  BY <1>1, <1>2, <1>4, <1>6, CoinsBaseContinues
<1>8. (\A w : RewardsOf(w)' = RewardsOf(w)) /\ Inserts' = Inserts
  BY <1>1, <1>4 DEF RewardsOf, Rewards!Rewarding, Inserts
<1>9. CoinsBonuses' /\ CoinsPhone'
  BY <1>1, <1>8, CoinsReferralsStay
<1>10. \A u : Owed(e, u) = 0 /\ Owed(c, u) = IF u = c.u THEN 1 ELSE 0
  BY <1>1, <1>4 DEF Owed, Rewards!Owes
<1>11. \A u \in Rewards!Users :
         coin_entries'[u] + drift'[u] - coins'[u] = coin_entries[u] + drift[u] - coins[u] + Owed(e, u) - Owed(c, u)
  BY <1>1, <1>5, <1>10
<1>12. \A u \in Rewards!Users : coins'[u] >= 0
  BY <1>2, <1>5 DEF CoinsBalances
<1>13. CoinsBalances'
  BY <1>1, <1>4, <1>7, <1>11, <1>12, CoinsBalancedOn
<1> QED
  BY <1>7, <1>9, <1>13 DEF CoinsInv

\* A step that leaves the referrals to the others, and to c the balances.
LEMMA CoinsMoneyOn ==
  ASSUME CoinsInv, NEW c \in coin_calls, NEW op \in Rewards!Op, Rewards!Continue(c, op),
         {c.op, op} \subseteq {"spend", "refund"},
         coins' \in [Rewards!Users -> Int], coin_entries' \in [Rewards!Users -> Int],
         drift' \in [Rewards!Users -> Int], errors' \in Nat,
         UNCHANGED <<referral, bonus, reverts, coin_rides, coin_disturbed>>,
         \A u \in Rewards!Users : coins'[u] >= 0,
         \A u \in Rewards!Users :
           coin_entries'[u] + drift'[u] - coins'[u] = coin_entries[u] + drift[u] - coins[u]
  PROVE  CoinsInv'
<1>1. CoinsBase /\ Rewards!TypeOK
  BY DEF CoinsInv, CoinsBase
<1>2. PICK e \in Rewards!Call : /\ e.op = op /\ e.u = c.u /\ e.n = c.n
                                /\ coin_calls' = (coin_calls \ {c}) \cup {e}
                                /\ e \notin coin_calls \ {c}
  BY <1>1, CoinsContinues
<1>3. Rewards!TypeOK'
  BY <1>1, <1>2 DEF Rewards!TypeOK
<1>4. CoinsBase'
  BY <1>1, <1>2, <1>3, CoinsBaseContinues
<1>5. (\A w : RewardsOf(w)' = RewardsOf(w)) /\ Inserts' = Inserts
  BY <1>2 DEF RewardsOf, Rewards!Rewarding, Inserts
<1>6. CoinsBonuses' /\ CoinsPhone'
  BY <1>5, CoinsReferralsStay
<1>7. \A u : Owed(e, u) = Owed(c, u) /\ Owed(c, u) \in Int
  BY <1>2 DEF Owed, Rewards!Owes
<1>8. \A u \in Rewards!Users : coins[u] \in Int /\ coin_entries[u] \in Int /\ drift[u] \in Int
  BY <1>1 DEF Rewards!TypeOK
<1>9. \A u \in Rewards!Users :
        coin_entries'[u] + drift'[u] - coins'[u]
          = coin_entries[u] + drift[u] - coins[u] + Owed(e, u) - Owed(c, u)
  BY <1>7, <1>8
<1>10. CoinsBalances'
  BY <1>2, <1>4, <1>9, CoinsBalancedOn
<1> QED
  BY <1>4, <1>6, <1>10 DEF CoinsInv

\* A step that ends c, and is not about a referral.
LEMMA CoinsMoneyOff ==
  ASSUME CoinsInv, NEW c \in coin_calls, c.op \notin Rewards!Rewarding,
         coin_calls' = coin_calls \ {c},
         coins' \in [Rewards!Users -> Int], coin_entries' \in [Rewards!Users -> Int],
         drift' \in [Rewards!Users -> Int], errors' \in Nat,
         UNCHANGED <<referral, bonus, reverts, coin_rides, coin_disturbed>>,
         \A u \in Rewards!Users : coins'[u] >= 0,
         \A u \in Rewards!Users :
           coin_entries'[u] + drift'[u] - coins'[u]
             = coin_entries[u] + drift[u] - coins[u] - Owed(c, u)
  PROVE  CoinsInv'
<1>1. CoinsBase /\ Rewards!TypeOK
  BY DEF CoinsInv, CoinsBase
<1>2. Rewards!TypeOK'
  BY <1>1 DEF Rewards!TypeOK
<1>3. CoinsBase'
  BY <1>1, <1>2, CoinsBaseReturns
<1>4. (\A w : RewardsOf(w)' = RewardsOf(w)) /\ Inserts' \subseteq Inserts
  BY DEF RewardsOf, Inserts
<1>5. CoinsBonuses' /\ CoinsPhone'
  BY <1>4, CoinsReferralsStay
<1>6. CoinsBalances'
  BY <1>3, CoinsBalancedOff
<1> QED
  BY <1>3, <1>5, <1>6 DEF CoinsInv

\* A step that starts a spend or a refund for u.
LEMMA CoinsMoneyStarts ==
  ASSUME CoinsInv, NEW u \in Rewards!Users, NEW op \in {"spend", "refund"}, Rewards!Start(op, u),
         coins' \in [Rewards!Users -> Int], drift' \in [Rewards!Users -> Int], errors' \in Nat,
         UNCHANGED <<coin_entries, referral, bonus, reverts, coin_rides, coin_disturbed>>,
         \A w \in Rewards!Users : coins'[w] >= 0,
         \A w \in Rewards!Users :
           drift'[w] - coins'[w] = drift[w] - coins[w] + (IF w = u THEN 1 ELSE 0)
  PROVE  CoinsInv'
<1>1. CoinsBase /\ Rewards!TypeOK /\ CoinsBalances
  BY DEF CoinsInv, CoinsBase
<1>2. op \in Rewards!Op
  BY DEF Rewards!Op
<1>3. PICK e \in Rewards!Call : /\ e.op = op /\ e.u = u
                                /\ coin_calls' = coin_calls \cup {e}
                                /\ \A c \in coin_calls : c.n # e.n
  BY <1>1, <1>2, CoinsStarts
<1>4. Rewards!TypeOK'
  BY <1>1, <1>3 DEF Rewards!TypeOK
<1>5. CoinsBase'
  BY <1>1, <1>3, <1>4, CoinsBaseStarts
<1>6. (\A w : RewardsOf(w)' = RewardsOf(w)) /\ Inserts' = Inserts
  BY <1>3 DEF RewardsOf, Rewards!Rewarding, Inserts
<1>7. CoinsBonuses' /\ CoinsPhone'
  BY <1>6, CoinsReferralsStay
<1>8. ASSUME NEW w \in Rewards!Users
      PROVE  coin_entries'[w] + drift'[w] - coins'[w]
               = coin_entries[w] + drift[w] - coins[w]
                   + (Cardinality(Rewards!Pending(w)') - Cardinality(Rewards!Pending(w)))
  <2>1. Owed(e, w) = IF w = u THEN 1 ELSE 0
    BY <1>3 DEF Owed, Rewards!Owes
  <2>2. e \notin coin_calls
    BY <1>3
  <2>3. Cardinality(Rewards!Pending(w)') = Cardinality(Rewards!Pending(w)) + (IF w = u THEN 1 ELSE 0)
    BY <1>1, <1>3, <2>1, <2>2, CoinsOwedStarts
  <2>4. Cardinality(Rewards!Pending(w)) \in Nat
    BY <1>1, CoinsPending
  <2>5. /\ coins[w] \in Int /\ coin_entries[w] \in Int /\ drift[w] \in Int
        /\ coins'[w] \in Int /\ drift'[w] \in Int
    BY <1>1 DEF Rewards!TypeOK
  <2> QED
    BY <2>3, <2>4, <2>5
<1>9. CoinsBalances'
  BY <1>1, <1>5, <1>8, CoinsBalanced
<1> QED
  BY <1>5, <1>7, <1>9 DEF CoinsInv

LEMMA CoinsError ==
  ASSUME Rewards!TypeOK
  PROVE  /\ errors \in Nat /\ (Rewards!Error => errors' \in Nat)
         /\ coins \in [Rewards!Users -> Int] /\ coin_entries \in [Rewards!Users -> Int]
         /\ drift \in [Rewards!Users -> Int]
  BY DEF Rewards!TypeOK, Rewards!Error

LEMMA CoinsSpend ==
  ASSUME CoinsInv, NEW u \in Rewards!Users, Rewards!Spend(u)
  PROVE  CoinsInv'
<1>1. Rewards!TypeOK /\ CoinsBalances
  BY DEF CoinsInv, CoinsBase
<1>2. /\ Rewards!Start("spend", u)
      /\ UNCHANGED <<coin_entries, referral, bonus, reverts, coin_rides, coin_disturbed>>
  BY DEF Rewards!Spend
<1>3. CASE coins[u] >= 1 /\ coins' = Rewards!Add(coins, u, -1) /\ UNCHANGED <<errors, drift>>
  <2>1. /\ coins' \in [Rewards!Users -> Int]
        /\ \A w \in Rewards!Users : coins'[w] = coins[w] + (IF w = u THEN -1 ELSE 0)
        /\ \A w \in Rewards!Users : coins[w] \in Int /\ coin_entries[w] \in Int /\ drift[w] \in Int
    BY <1>1, <1>3, CoinsPlus
  <2>2. \A w \in Rewards!Users : coins'[w] >= 0
    BY <1>1, <1>3, <2>1 DEF CoinsBalances
  <2>3. \A w \in Rewards!Users :
          drift'[w] - coins'[w] = drift[w] - coins[w] + (IF w = u THEN 1 ELSE 0)
    BY <1>3, <2>1
  <2>9. /\ errors' \in Nat /\ coins' \in [Rewards!Users -> Int]
        /\ coin_entries' \in [Rewards!Users -> Int] /\ drift' \in [Rewards!Users -> Int]
    BY <1>1, <1>2, <1>3, <2>1, <2>2, <2>3, CoinsError
  <2> QED
    BY <1>1, <1>2, <1>3, <2>1, <2>2, <2>3, <2>9, CoinsMoneyStarts
<1>4. CASE Rewards!Error /\ drift' = Rewards!Add(drift, u, 1) /\ UNCHANGED coins
  <2>1. /\ drift' \in [Rewards!Users -> Int]
        /\ \A w \in Rewards!Users : drift'[w] = drift[w] + (IF w = u THEN 1 ELSE 0)
        /\ \A w \in Rewards!Users : coins[w] \in Int /\ coin_entries[w] \in Int /\ drift[w] \in Int
    BY <1>1, <1>4, CoinsPlus
  <2>2. \A w \in Rewards!Users :
          drift'[w] - coins'[w] = drift[w] - coins[w] + (IF w = u THEN 1 ELSE 0)
    BY <1>4, <2>1
  <2>3. (\A w \in Rewards!Users : coins'[w] >= 0) /\ coins' \in [Rewards!Users -> Int]
    BY <1>1, <1>4, CoinsError DEF CoinsBalances
  <2>9. /\ errors' \in Nat /\ coins' \in [Rewards!Users -> Int]
        /\ coin_entries' \in [Rewards!Users -> Int] /\ drift' \in [Rewards!Users -> Int]
    BY <1>1, <1>2, <1>4, <2>1, <2>2, <2>3, CoinsError
  <2> QED
    BY <1>1, <1>2, <1>4, <2>1, <2>2, <2>3, <2>9, CoinsMoneyStarts
<1> QED
  BY <1>3, <1>4 DEF Rewards!Spend

LEMMA CoinsRedeemFails ==
  ASSUME CoinsInv, NEW u \in Rewards!Users, Rewards!RedeemFails(u)
  PROVE  CoinsInv'
<1>1. Rewards!TypeOK /\ CoinsBalances
  BY DEF CoinsInv, CoinsBase
<1>2. /\ Rewards!Start("refund", u) /\ Rewards!Error /\ drift' = Rewards!Add(drift, u, 1)
      /\ UNCHANGED <<coins, coin_entries, referral, bonus, reverts, coin_rides, coin_disturbed>>
  BY DEF Rewards!RedeemFails
<1>3. /\ drift' \in [Rewards!Users -> Int]
      /\ \A w \in Rewards!Users : drift'[w] = drift[w] + (IF w = u THEN 1 ELSE 0)
      /\ \A w \in Rewards!Users : coins[w] \in Int /\ coin_entries[w] \in Int /\ drift[w] \in Int
  BY <1>1, <1>2, CoinsPlus
<1>4. \A w \in Rewards!Users :
        drift'[w] - coins'[w] = drift[w] - coins[w] + (IF w = u THEN 1 ELSE 0)
  BY <1>2, <1>3
<1>5. (\A w \in Rewards!Users : coins'[w] >= 0) /\ coins' \in [Rewards!Users -> Int]
  BY <1>1, <1>2, CoinsError DEF CoinsBalances
<1>9. /\ errors' \in Nat /\ coins' \in [Rewards!Users -> Int]
      /\ coin_entries' \in [Rewards!Users -> Int] /\ drift' \in [Rewards!Users -> Int]
  BY <1>1, <1>2, <1>3, <1>4, <1>5, CoinsError
<1> QED
  BY <1>1, <1>2, <1>3, <1>4, <1>5, <1>9, CoinsMoneyStarts

LEMMA CoinsSpendEntry ==
  ASSUME CoinsInv, NEW c \in coin_calls, Rewards!SpendEntry(c)
  PROVE  CoinsInv'
<1>1. /\ c.op = "spend" /\ coin_entries' = Rewards!Add(coin_entries, c.u, -1)
      /\ UNCHANGED <<coins, referral, bonus, reverts, coin_rides, coin_disturbed>>
  BY DEF Rewards!SpendEntry
<1>2. Rewards!TypeOK /\ CoinsBalances /\ c.u \in Rewards!Users
  BY CoinsCall DEF CoinsInv, CoinsBase
<1>3. /\ coin_entries' \in [Rewards!Users -> Int]
      /\ \A u \in Rewards!Users :
           coin_entries'[u] = coin_entries[u] + (IF u = c.u THEN -1 ELSE 0)
      /\ \A u \in Rewards!Users : coins[u] \in Int /\ coin_entries[u] \in Int /\ drift[u] \in Int
  BY <1>1, <1>2, CoinsPlus
<1>4. (\A u \in Rewards!Users : coins'[u] >= 0) /\ coins' \in [Rewards!Users -> Int]
  BY <1>1, <1>2, CoinsError DEF CoinsBalances
<1>5. CASE coin_calls' = coin_calls \ {c} /\ UNCHANGED <<errors, drift>>
  <2>1. \A u : Owed(c, u) = IF u = c.u THEN 1 ELSE 0
    BY <1>1 DEF Owed, Rewards!Owes
  <2>2. \A u \in Rewards!Users :
          coin_entries'[u] + drift'[u] - coins'[u]
            = coin_entries[u] + drift[u] - coins[u] - Owed(c, u)
    BY <1>1, <1>3, <1>5, <2>1
  <2>9. /\ errors' \in Nat /\ coins' \in [Rewards!Users -> Int]
        /\ coin_entries' \in [Rewards!Users -> Int] /\ drift' \in [Rewards!Users -> Int]
    BY <1>1, <1>2, <1>3, <1>4, <1>5, <2>2, CoinsError
  <2> QED
    BY <1>1, <1>2, <1>3, <1>4, <1>5, <2>2, <2>9, CoinsMoneyOff DEF Rewards!Rewarding
<1>6. CASE Rewards!Error /\ Rewards!Continue(c, "refund") /\ drift' = Rewards!Add(drift, c.u, 1)
  <2>1. /\ drift' \in [Rewards!Users -> Int]
        /\ \A u \in Rewards!Users : drift'[u] = drift[u] + (IF u = c.u THEN 1 ELSE 0)
    BY <1>2, <1>6, CoinsPlus
  <2>2. \A u \in Rewards!Users :
          coin_entries'[u] + drift'[u] - coins'[u] = coin_entries[u] + drift[u] - coins[u]
    BY <1>1, <1>3, <2>1
  <2>3. "refund" \in Rewards!Op
    BY DEF Rewards!Op
  <2>9. /\ errors' \in Nat /\ coins' \in [Rewards!Users -> Int]
        /\ coin_entries' \in [Rewards!Users -> Int] /\ drift' \in [Rewards!Users -> Int]
    BY <1>1, <1>2, <1>3, <1>4, <1>6, <2>1, <2>2, <2>3, CoinsError
  <2> QED
    BY <1>1, <1>2, <1>3, <1>4, <1>6, <2>1, <2>2, <2>3, <2>9, CoinsMoneyOn
<1> QED
  BY <1>5, <1>6 DEF Rewards!SpendEntry, Rewards!Return

LEMMA CoinsSpendEntryFails ==
  ASSUME CoinsInv, NEW c \in coin_calls, Rewards!SpendEntryFails(c)
  PROVE  CoinsInv'
<1>1. /\ c.op = "spend" /\ Rewards!Error
      /\ UNCHANGED <<coins, coin_entries, referral, bonus, reverts, coin_rides, coin_disturbed>>
  BY DEF Rewards!SpendEntryFails
<1>2. Rewards!TypeOK /\ CoinsBalances /\ c.u \in Rewards!Users
  BY CoinsCall DEF CoinsInv, CoinsBase
<1>3. /\ \A u \in Rewards!Users : coins'[u] >= 0
      /\ coins' \in [Rewards!Users -> Int] /\ coin_entries' \in [Rewards!Users -> Int]
  BY <1>1, <1>2, CoinsError DEF CoinsBalances
<1>4. CASE Rewards!Continue(c, "refund") /\ UNCHANGED drift
  <2>1. \A u \in Rewards!Users :
          coin_entries'[u] + drift'[u] - coins'[u] = coin_entries[u] + drift[u] - coins[u]
    BY <1>1, <1>4
  <2>2. "refund" \in Rewards!Op
    BY DEF Rewards!Op
  <2>9. /\ errors' \in Nat /\ coins' \in [Rewards!Users -> Int]
        /\ coin_entries' \in [Rewards!Users -> Int] /\ drift' \in [Rewards!Users -> Int]
    BY <1>1, <1>2, <1>3, <1>4, <2>1, <2>2, CoinsError
  <2> QED
    BY <1>1, <1>2, <1>3, <1>4, <2>1, <2>2, <2>9, CoinsMoneyOn
<1>5. CASE coin_calls' = coin_calls \ {c} /\ drift' = Rewards!Add(drift, c.u, -1)
  <2>1. /\ drift' \in [Rewards!Users -> Int]
        /\ \A u \in Rewards!Users : drift'[u] = drift[u] + (IF u = c.u THEN -1 ELSE 0)
        /\ \A u \in Rewards!Users : coins[u] \in Int /\ coin_entries[u] \in Int /\ drift[u] \in Int
    BY <1>2, <1>5, CoinsPlus
  <2>2. \A u : Owed(c, u) = IF u = c.u THEN 1 ELSE 0
    BY <1>1 DEF Owed, Rewards!Owes
  <2>3. \A u \in Rewards!Users :
          coin_entries'[u] + drift'[u] - coins'[u]
            = coin_entries[u] + drift[u] - coins[u] - Owed(c, u)
    BY <1>1, <2>1, <2>2
  <2>9. /\ errors' \in Nat /\ coins' \in [Rewards!Users -> Int]
        /\ coin_entries' \in [Rewards!Users -> Int] /\ drift' \in [Rewards!Users -> Int]
    BY <1>1, <1>2, <1>3, <1>5, <2>1, <2>3, CoinsError
  <2> QED
    BY <1>1, <1>2, <1>3, <1>5, <2>1, <2>3, <2>9, CoinsMoneyOff DEF Rewards!Rewarding
<1> QED
  BY <1>4, <1>5 DEF Rewards!SpendEntryFails, Rewards!Return

LEMMA CoinsRefund ==
  ASSUME CoinsInv, NEW c \in coin_calls, Rewards!Refund(c)
  PROVE  CoinsInv'
<1>1. /\ c.op = "refund" /\ coins' = Rewards!Add(coins, c.u, 1) /\ coin_calls' = coin_calls \ {c}
      /\ UNCHANGED <<coin_entries, referral, bonus, reverts, coin_rides, errors, drift, coin_disturbed>>
  BY DEF Rewards!Refund, Rewards!Return
<1>2. Rewards!TypeOK /\ CoinsBalances /\ c.u \in Rewards!Users
  BY CoinsCall DEF CoinsInv, CoinsBase
<1>3. /\ coins' \in [Rewards!Users -> Int]
      /\ \A u \in Rewards!Users : coins'[u] = coins[u] + (IF u = c.u THEN 1 ELSE 0)
      /\ \A u \in Rewards!Users : coins[u] \in Int /\ coin_entries[u] \in Int /\ drift[u] \in Int
  BY <1>1, <1>2, CoinsPlus
<1>4. \A u \in Rewards!Users : coins'[u] >= 0
  BY <1>2, <1>3 DEF CoinsBalances
<1>5. \A u : Owed(c, u) = IF u = c.u THEN 1 ELSE 0
  BY <1>1 DEF Owed, Rewards!Owes
<1>6. \A u \in Rewards!Users :
        coin_entries'[u] + drift'[u] - coins'[u]
          = coin_entries[u] + drift[u] - coins[u] - Owed(c, u)
  BY <1>1, <1>3, <1>5
<1>9. /\ errors' \in Nat /\ coins' \in [Rewards!Users -> Int]
      /\ coin_entries' \in [Rewards!Users -> Int] /\ drift' \in [Rewards!Users -> Int]
  BY <1>1, <1>2, <1>3, <1>4, <1>6, CoinsError
<1> QED
  BY <1>1, <1>2, <1>3, <1>4, <1>6, <1>9, CoinsMoneyOff DEF Rewards!Rewarding

LEMMA CoinsAwardFails ==
  ASSUME CoinsInv, NEW c \in coin_calls, Rewards!AwardFails(c)
  PROVE  CoinsInv'
<1>1. /\ c.op \in {"award", "award_inc"} /\ Rewards!Error /\ coin_calls' = coin_calls \ {c}
      /\ drift' = IF c.op = "award_inc" THEN Rewards!Add(drift, c.u, -1) ELSE drift
      /\ UNCHANGED <<coins, coin_entries, referral, bonus, reverts, coin_rides, coin_disturbed>>
  BY DEF Rewards!AwardFails, Rewards!Return
<1>2. Rewards!TypeOK /\ CoinsBalances /\ c.u \in Rewards!Users
  BY CoinsCall DEF CoinsInv, CoinsBase
<1>3. /\ \A u \in Rewards!Users : coins'[u] >= 0
      /\ coins' \in [Rewards!Users -> Int] /\ coin_entries' \in [Rewards!Users -> Int]
  BY <1>1, <1>2, CoinsError DEF CoinsBalances
<1>4. /\ drift' \in [Rewards!Users -> Int]
      /\ \A u \in Rewards!Users :
           drift'[u] = drift[u] + (IF c.op = "award_inc" /\ u = c.u THEN -1 ELSE 0)
      /\ \A u \in Rewards!Users : coins[u] \in Int /\ coin_entries[u] \in Int /\ drift[u] \in Int
  BY <1>1, <1>2, CoinsPlus, CoinsError
<1>5. \A u : Owed(c, u) = IF c.op = "award_inc" /\ u = c.u THEN 1 ELSE 0
  BY <1>1 DEF Owed, Rewards!Owes
<1>6. \A u \in Rewards!Users :
        coin_entries'[u] + drift'[u] - coins'[u]
          = coin_entries[u] + drift[u] - coins[u] - Owed(c, u)
  BY <1>1, <1>4, <1>5
<1>9. /\ errors' \in Nat /\ coins' \in [Rewards!Users -> Int]
      /\ coin_entries' \in [Rewards!Users -> Int] /\ drift' \in [Rewards!Users -> Int]
  BY <1>1, <1>2, <1>3, <1>4, <1>6, CoinsError
<1> QED
  BY <1>1, <1>2, <1>3, <1>4, <1>6, <1>9, CoinsMoneyOff DEF Rewards!Rewarding

LEMMA CoinsFindReferral ==
  ASSUME CoinsInv, NEW c \in coin_calls, Rewards!FindReferral(c)
  PROVE  CoinsInv'
<1>1. /\ c.op = "find"
      /\ Rewards!Continue(c, "claim") \/ coin_calls' = coin_calls \ {c}
      /\ UNCHANGED <<coins, coin_entries, referral, bonus, reverts, coin_rides, errors, drift, coin_disturbed>>
  BY DEF Rewards!FindReferral, Rewards!Return
<1>2. CoinsBase /\ Rewards!TypeOK /\ CoinsBalances
  BY DEF CoinsInv, CoinsBase
<1>3. "claim" \in Rewards!Op
  BY DEF Rewards!Op
<1>4. CASE Rewards!Continue(c, "claim")
  <2>1. PICK e \in Rewards!Call : /\ e.op = "claim" /\ e.u = c.u /\ e.n = c.n
                                  /\ coin_calls' = (coin_calls \ {c}) \cup {e}
                                  /\ e \notin coin_calls \ {c}
    BY <1>2, <1>3, <1>4, CoinsContinues
  <2>2. Rewards!TypeOK'
    BY <1>1, <1>2, <2>1 DEF Rewards!TypeOK
  <2>3. CoinsBase'
    BY <1>1, <1>2, <2>1, <2>2, CoinsBaseContinues
  <2>4. (\A w : RewardsOf(w)' = RewardsOf(w)) /\ Inserts' = Inserts
    BY <1>1, <2>1 DEF RewardsOf, Rewards!Rewarding, Inserts
  <2>5. \A w : Rewards!Pending(w)' = Rewards!Pending(w)
    BY <1>1, <2>1 DEF Rewards!Pending, Rewards!Owes
  <2> QED
    BY <1>1, <1>2, <2>3, <2>4, <2>5, CoinsReferralsStay, CoinsBalancesStay DEF CoinsInv
<1>5. CASE coin_calls' = coin_calls \ {c}
  <2>1. Rewards!TypeOK'
    BY <1>1, <1>2, <1>5 DEF Rewards!TypeOK
  <2>2. CoinsBase'
    BY <1>2, <1>5, <2>1, CoinsBaseReturns
  <2>3. (\A w : RewardsOf(w)' = RewardsOf(w)) /\ Inserts' = Inserts
    BY <1>1, <1>5 DEF RewardsOf, Rewards!Rewarding, Inserts
  <2>4. \A w : Rewards!Pending(w)' = Rewards!Pending(w)
    BY <1>1, <1>5 DEF Rewards!Pending, Rewards!Owes
  <2> QED
    BY <1>1, <1>2, <2>2, <2>3, <2>4, CoinsReferralsStay, CoinsBalancesStay DEF CoinsInv
<1> QED
  BY <1>1, <1>4, <1>5

(***************************************************************************)
(* A referral is claimed and credited.                                     *)
(***************************************************************************)

\* The call that credits c's referral goes on, or ends.
LEMMA CoinsBonusOn ==
  ASSUME CoinsInv, NEW c \in coin_calls, c.op \in Rewards!Rewarding, c.u \in Referees,
         NEW e, e.u = c.u, e.op \in Rewards!Rewarding,
         coin_calls' = (coin_calls \ {c}) \cup {e},
         UNCHANGED <<referral, reverts, coin_disturbed>>,
         \A w \in Referees : w # c.u => bonus'[w] = bonus[w],
         Credited(c.u, c.op) => Credited(c.u, e.op)'
  PROVE  CoinsBonuses'
<1>1. CoinsBonuses
  BY DEF CoinsInv
<1>2. ASSUME NEW w \in Referees, w # c.u PROVE BonusFits(w)'
  <2>1. RewardsOf(w)' = RewardsOf(w)
    BY <1>2 DEF RewardsOf
  <2> QED
    BY <1>1, <1>2, <2>1, CoinsBonusStays DEF CoinsBonuses
<1>3. c \in RewardsOf(c.u)
  BY DEF RewardsOf
<1>4. RewardsOf(c.u) = {c} /\ Credited(c.u, c.op) /\ referral[c.u] = "rewarded"
  BY <1>1, <1>3 DEF CoinsBonuses, BonusFits
<1>5. RewardsOf(c.u)' = {e}
  BY <1>4 DEF RewardsOf
<1>6. BonusFits(c.u)'
  BY <1>4, <1>5 DEF BonusFits
<1> QED
  BY <1>2, <1>6 DEF CoinsBonuses

LEMMA CoinsPhoneRewards ==
  ASSUME CoinsInv, Inserts' = Inserts, coin_disturbed \subseteq coin_disturbed',
         NEW u \in Referees, referral[u] # "none", referral'[u] # "none",
         \A w \in Referees : w # u => referral'[w] = referral[w]
  PROVE  CoinsPhone'
<1>1. Referred' = Referred
  BY DEF Referred
<1> QED
  BY <1>1, CoinsPhoneStays DEF CoinsInv

LEMMA CoinsClaim ==
  ASSUME CoinsInv, NEW c \in coin_calls, Rewards!Claim(c)
  PROVE  CoinsInv'
<1>1. /\ c.op = "claim"
      /\ UNCHANGED <<coins, coin_entries, bonus, reverts, coin_rides, errors, drift, coin_disturbed>>
  BY DEF Rewards!Claim
<1>2. CoinsBase /\ Rewards!TypeOK /\ CoinsBalances /\ CoinsBonuses
  BY DEF CoinsInv, CoinsBase
<1>3. "referee" \in Rewards!Op /\ c.u \in Referees
  BY <1>1, <1>2 DEF Rewards!Op, CoinsBase
<1>4. CASE referral[c.u] = "pending" /\ referral' = [referral EXCEPT ![c.u] = "rewarded"]
           /\ Rewards!Continue(c, "referee")
  <2>1. PICK e \in Rewards!Call : /\ e.op = "referee" /\ e.u = c.u /\ e.n = c.n
                                  /\ coin_calls' = (coin_calls \ {c}) \cup {e}
                                  /\ e \notin coin_calls \ {c}
    BY <1>2, <1>3, <1>4, CoinsContinues
  <2>2. /\ referral' \in [Referees -> {"none", "pending", "rewarded"}]
        /\ referral'[c.u] = "rewarded"
        /\ \A w \in Referees : w # c.u => referral'[w] = referral[w]
    BY <1>2, <1>3, <1>4 DEF Rewards!TypeOK
  <2>3. Rewards!TypeOK'
    BY <1>1, <1>2, <2>1, <2>2 DEF Rewards!TypeOK
  <2>4. CoinsBase'
    BY <1>1, <1>2, <2>1, <2>3, CoinsBaseContinues
  <2>5. \A w : Rewards!Pending(w)' = Rewards!Pending(w)
    BY <1>1, <2>1 DEF Rewards!Pending, Rewards!Owes
  <2>6. CoinsBalances'
    BY <1>1, <1>2, <2>5, CoinsBalancesStay
  <2>7. Inserts' = Inserts
    BY <1>1, <2>1 DEF Inserts
  <2>8. CoinsPhone'
    BY <1>1, <1>3, <1>4, <2>2, <2>7, CoinsPhoneRewards
  <2>9. ASSUME NEW w \in Referees, w # c.u PROVE BonusFits(w)'
    <3>1. RewardsOf(w)' = RewardsOf(w)
      BY <1>1, <2>1, <2>9 DEF RewardsOf, Rewards!Rewarding
    <3> QED
      BY <1>1, <1>2, <2>2, <2>9, <3>1, CoinsBonusStays DEF CoinsBonuses
  <2>10. BonusFits(c.u)'
    <3>1. /\ RewardsOf(c.u) = {}
          /\ bonus[c.u].referee <= reverts[c.u] /\ bonus[c.u].referrer <= reverts[c.u]
      BY <1>2, <1>3, <1>4 DEF CoinsBonuses, BonusFits
    <3>2. RewardsOf(c.u)' = {e}
      BY <1>1, <2>1, <3>1 DEF RewardsOf, Rewards!Rewarding
    <3>3. bonus[c.u].referee \in Nat /\ bonus[c.u].referrer \in Nat /\ reverts[c.u] \in Nat
      BY <1>2, <1>3 DEF Rewards!TypeOK
    <3>4. Credited(c.u, e.op)'
      BY <1>1, <2>1, <3>1, <3>3 DEF Credited
    <3> QED
      BY <2>2, <3>2, <3>4 DEF BonusFits
  <2> QED
    BY <2>4, <2>6, <2>8, <2>9, <2>10 DEF CoinsInv, CoinsBonuses
<1>5. CASE UNCHANGED referral /\ coin_calls' = coin_calls \ {c}
  <2>1. Rewards!TypeOK'
    BY <1>1, <1>2, <1>5 DEF Rewards!TypeOK
  <2>2. CoinsBase'
    BY <1>2, <1>5, <2>1, CoinsBaseReturns
  <2>3. (\A w : RewardsOf(w)' = RewardsOf(w)) /\ Inserts' = Inserts
    BY <1>1, <1>5 DEF RewardsOf, Rewards!Rewarding, Inserts
  <2>4. \A w : Rewards!Pending(w)' = Rewards!Pending(w)
    BY <1>1, <1>5 DEF Rewards!Pending, Rewards!Owes
  <2> QED
    BY <1>1, <1>2, <1>5, <2>2, <2>3, <2>4, CoinsReferralsStay, CoinsBalancesStay DEF CoinsInv
<1> QED
  BY <1>4, <1>5 DEF Rewards!Claim, Rewards!Return

\* The entry of a bonus, to the referee or to the referrer.
LEMMA CoinsRefereeEntry ==
  ASSUME CoinsInv, NEW c \in coin_calls, Rewards!RefereeEntry(c)
  PROVE  CoinsInv'
<1>1. /\ c.op = "referee" /\ coin_entries' = Rewards!Add(coin_entries, c.u, 1)
      /\ bonus' = [bonus EXCEPT ![c.u].referee = @ + 1]
      /\ Rewards!Continue(c, "referee_inc")
      /\ UNCHANGED <<coins, referral, reverts, coin_rides, errors, drift, coin_disturbed>>
  BY DEF Rewards!RefereeEntry
<1>2. CoinsBase /\ Rewards!TypeOK /\ CoinsBalances /\ CoinsBonuses
  BY DEF CoinsInv, CoinsBase
<1>3. "referee_inc" \in Rewards!Op /\ c.u \in Referees /\ c.u \in Rewards!Users
  BY <1>1, <1>2, CoinsCall DEF Rewards!Op, CoinsBase
<1>4. PICK e \in Rewards!Call : /\ e.op = "referee_inc" /\ e.u = c.u /\ e.n = c.n
                                /\ coin_calls' = (coin_calls \ {c}) \cup {e}
                                /\ e \notin coin_calls \ {c}
  BY <1>1, <1>2, <1>3, CoinsContinues
<1>5. /\ coin_entries' \in [Rewards!Users -> Int]
      /\ \A u \in Rewards!Users :
           coin_entries'[u] = coin_entries[u] + (IF u = c.u THEN 1 ELSE 0)
      /\ \A u \in Rewards!Users : coins[u] \in Int /\ coin_entries[u] \in Int /\ drift[u] \in Int
  BY <1>1, <1>2, <1>3, CoinsPlus
<1>6. bonus \in [Referees -> [referee : Nat, referrer : Nat]]
  BY <1>2 DEF Rewards!TypeOK
<1>7. bonus' \in [Referees -> [referee : Nat, referrer : Nat]]
  BY <1>1, <1>3, <1>6
<1>8. /\ bonus'[c.u].referee = bonus[c.u].referee + 1
      /\ bonus'[c.u].referrer = bonus[c.u].referrer
      /\ \A w \in Referees : w # c.u => bonus'[w] = bonus[w]
  BY <1>1, <1>3, <1>6
<1>9. Rewards!TypeOK'
  BY <1>1, <1>2, <1>4, <1>5, <1>7 DEF Rewards!TypeOK
<1>10. CoinsBase'
  BY <1>1, <1>2, <1>4, <1>9, CoinsBaseContinues
<1>11. Inserts' = Inserts
  BY <1>1, <1>4 DEF Inserts
<1>12. CoinsPhone'
  <2>1. Referred' = Referred
    BY <1>1 DEF Referred
  <2> QED
    BY <1>1, <1>11, <2>1, CoinsPhoneStays DEF CoinsInv
<1>13. Credited(c.u, c.op) => Credited(c.u, e.op)'
  <2>1. bonus[c.u].referee \in Nat /\ bonus[c.u].referrer \in Nat /\ reverts[c.u] \in Nat
    BY <1>2, <1>3 DEF Rewards!TypeOK
  <2> QED
    BY <1>1, <1>4, <1>8, <2>1 DEF Credited
<1>14. CoinsBonuses'
  BY <1>1, <1>3, <1>4, <1>8, <1>13, CoinsBonusOn DEF Rewards!Rewarding
<1>15. \A u : Owed(c, u) = 0 /\ Owed(e, u) = IF u = c.u THEN 1 ELSE 0
  BY <1>1, <1>4 DEF Owed, Rewards!Owes
<1>16. \A u \in Rewards!Users :
         coin_entries'[u] + drift'[u] - coins'[u] = coin_entries[u] + drift[u] - coins[u] + Owed(e, u) - Owed(c, u)
  BY <1>1, <1>5, <1>15
<1>17. CoinsBalances'
  BY <1>1, <1>2, <1>4, <1>10, <1>16, CoinsBalancedOn DEF CoinsBalances
<1> QED
  BY <1>10, <1>12, <1>14, <1>17 DEF CoinsInv

LEMMA CoinsReferrerEntry ==
  ASSUME CoinsInv, NEW c \in coin_calls, Rewards!ReferrerEntry(c)
  PROVE  CoinsInv'
<1>1. /\ c.op = "referrer" /\ coin_entries' = Rewards!Add(coin_entries, Referrer, 1)
      /\ bonus' = [bonus EXCEPT ![c.u].referrer = @ + 1]
      /\ Rewards!Continue(c, "referrer_inc")
      /\ UNCHANGED <<coins, referral, reverts, coin_rides, errors, drift, coin_disturbed>>
  BY DEF Rewards!ReferrerEntry
<1>2. CoinsBase /\ Rewards!TypeOK /\ CoinsBalances /\ CoinsBonuses
  BY DEF CoinsInv, CoinsBase
<1>3. "referrer_inc" \in Rewards!Op /\ c.u \in Referees /\ Referrer \in Rewards!Users
  BY <1>1, <1>2 DEF Rewards!Op, CoinsBase, Rewards!Users
<1>4. PICK e \in Rewards!Call : /\ e.op = "referrer_inc" /\ e.u = c.u /\ e.n = c.n
                                /\ coin_calls' = (coin_calls \ {c}) \cup {e}
                                /\ e \notin coin_calls \ {c}
  BY <1>1, <1>2, <1>3, CoinsContinues
<1>5. /\ coin_entries' \in [Rewards!Users -> Int]
      /\ \A u \in Rewards!Users :
           coin_entries'[u] = coin_entries[u] + (IF u = Referrer THEN 1 ELSE 0)
      /\ \A u \in Rewards!Users : coins[u] \in Int /\ coin_entries[u] \in Int /\ drift[u] \in Int
  BY <1>1, <1>2, <1>3, CoinsPlus
<1>6. bonus \in [Referees -> [referee : Nat, referrer : Nat]]
  BY <1>2 DEF Rewards!TypeOK
<1>7. bonus' \in [Referees -> [referee : Nat, referrer : Nat]]
  BY <1>1, <1>3, <1>6
<1>8. /\ bonus'[c.u].referrer = bonus[c.u].referrer + 1
      /\ bonus'[c.u].referee = bonus[c.u].referee
      /\ \A w \in Referees : w # c.u => bonus'[w] = bonus[w]
  BY <1>1, <1>3, <1>6
<1>9. Rewards!TypeOK'
  BY <1>1, <1>2, <1>4, <1>5, <1>7 DEF Rewards!TypeOK
<1>10. CoinsBase'
  BY <1>1, <1>2, <1>4, <1>9, CoinsBaseContinues
<1>11. Inserts' = Inserts
  BY <1>1, <1>4 DEF Inserts
<1>12. CoinsPhone'
  <2>1. Referred' = Referred
    BY <1>1 DEF Referred
  <2> QED
    BY <1>1, <1>11, <2>1, CoinsPhoneStays DEF CoinsInv
<1>13. Credited(c.u, c.op) => Credited(c.u, e.op)'
  <2>1. bonus[c.u].referee \in Nat /\ bonus[c.u].referrer \in Nat /\ reverts[c.u] \in Nat
    BY <1>2, <1>3 DEF Rewards!TypeOK
  <2> QED
    BY <1>1, <1>4, <1>8, <2>1 DEF Credited
<1>14. CoinsBonuses'
  BY <1>1, <1>3, <1>4, <1>8, <1>13, CoinsBonusOn DEF Rewards!Rewarding
<1>15. \A u : Owed(c, u) = 0 /\ Owed(e, u) = IF u = Referrer THEN 1 ELSE 0
  BY <1>1, <1>4 DEF Owed, Rewards!Owes
<1>16. \A u \in Rewards!Users :
         coin_entries'[u] + drift'[u] - coins'[u] = coin_entries[u] + drift[u] - coins[u] + Owed(e, u) - Owed(c, u)
  BY <1>1, <1>5, <1>15
<1>17. CoinsBalances'
  BY <1>1, <1>2, <1>4, <1>10, <1>16, CoinsBalancedOn DEF CoinsBalances
<1> QED
  BY <1>10, <1>12, <1>14, <1>17 DEF CoinsInv

LEMMA CoinsRefereeCoins ==
  ASSUME CoinsInv, NEW c \in coin_calls, Rewards!RefereeCoins(c)
  PROVE  CoinsInv'
<1>1. /\ c.op = "referee_inc" /\ coins' = Rewards!Add(coins, c.u, 1)
      /\ Rewards!Continue(c, "referrer")
      /\ UNCHANGED <<coin_entries, referral, bonus, reverts, coin_rides, errors, drift, coin_disturbed>>
  BY DEF Rewards!RefereeCoins
<1>2. CoinsBase /\ Rewards!TypeOK /\ CoinsBalances /\ CoinsBonuses
  BY DEF CoinsInv, CoinsBase
<1>3. "referrer" \in Rewards!Op /\ c.u \in Referees /\ c.u \in Rewards!Users
  BY <1>1, <1>2, CoinsCall DEF Rewards!Op, CoinsBase
<1>4. PICK e \in Rewards!Call : /\ e.op = "referrer" /\ e.u = c.u /\ e.n = c.n
                                /\ coin_calls' = (coin_calls \ {c}) \cup {e}
                                /\ e \notin coin_calls \ {c}
  BY <1>1, <1>2, <1>3, CoinsContinues
<1>5. /\ coins' \in [Rewards!Users -> Int]
      /\ \A u \in Rewards!Users : coins'[u] = coins[u] + (IF u = c.u THEN 1 ELSE 0)
      /\ \A u \in Rewards!Users : coins[u] \in Int /\ coin_entries[u] \in Int /\ drift[u] \in Int
  BY <1>1, <1>2, <1>3, CoinsPlus
<1>6. Rewards!TypeOK'
  BY <1>1, <1>2, <1>4, <1>5 DEF Rewards!TypeOK
<1>7. CoinsBase'
  BY <1>1, <1>2, <1>4, <1>6, CoinsBaseContinues
<1>8. Inserts' = Inserts /\ Referred' = Referred
  BY <1>1, <1>4 DEF Inserts, Referred
<1>9. CoinsPhone'
  BY <1>1, <1>8, CoinsPhoneStays DEF CoinsInv
<1>10. Credited(c.u, c.op) => Credited(c.u, e.op)'
  BY <1>1, <1>4 DEF Credited
<1>11. CoinsBonuses'
  BY <1>1, <1>3, <1>4, <1>10, CoinsBonusOn DEF Rewards!Rewarding
<1>12. \A u : Owed(e, u) = 0 /\ Owed(c, u) = IF u = c.u THEN 1 ELSE 0
  BY <1>1, <1>4 DEF Owed, Rewards!Owes
<1>13. \A u \in Rewards!Users :
         coin_entries'[u] + drift'[u] - coins'[u] = coin_entries[u] + drift[u] - coins[u] + Owed(e, u) - Owed(c, u)
  BY <1>1, <1>5, <1>12
<1>14. \A u \in Rewards!Users : coins'[u] >= 0
  BY <1>2, <1>5 DEF CoinsBalances
<1>15. CoinsBalances'
  BY <1>1, <1>4, <1>7, <1>13, <1>14, CoinsBalancedOn
<1> QED
  BY <1>7, <1>9, <1>11, <1>15 DEF CoinsInv

LEMMA CoinsReferrerCoins ==
  ASSUME CoinsInv, NEW c \in coin_calls, Rewards!ReferrerCoins(c)
  PROVE  CoinsInv'
<1>1. /\ c.op = "referrer_inc" /\ coins' = Rewards!Add(coins, Referrer, 1)
      /\ coin_calls' = coin_calls \ {c}
      /\ UNCHANGED <<coin_entries, referral, bonus, reverts, coin_rides, errors, drift, coin_disturbed>>
  BY DEF Rewards!ReferrerCoins, Rewards!Return
<1>2. CoinsBase /\ Rewards!TypeOK /\ CoinsBalances /\ CoinsBonuses
  BY DEF CoinsInv, CoinsBase
<1>3. c.u \in Referees /\ Referrer \in Rewards!Users
  BY <1>1, <1>2 DEF CoinsBase, Rewards!Users
<1>4. /\ coins' \in [Rewards!Users -> Int]
      /\ \A u \in Rewards!Users : coins'[u] = coins[u] + (IF u = Referrer THEN 1 ELSE 0)
      /\ \A u \in Rewards!Users : coins[u] \in Int /\ coin_entries[u] \in Int /\ drift[u] \in Int
  BY <1>1, <1>2, <1>3, CoinsPlus
<1>5. Rewards!TypeOK'
  BY <1>1, <1>2, <1>4 DEF Rewards!TypeOK
<1>6. CoinsBase'
  BY <1>1, <1>2, <1>5, CoinsBaseReturns
<1>7. Inserts' = Inserts /\ Referred' = Referred
  BY <1>1 DEF Inserts, Referred
<1>8. CoinsPhone'
  BY <1>1, <1>7, CoinsPhoneStays DEF CoinsInv
<1>9. CoinsBonuses'
  <2>1. ASSUME NEW w \in Referees, w # c.u PROVE BonusFits(w)'
    <3>1. RewardsOf(w)' = RewardsOf(w)
      BY <1>1, <2>1 DEF RewardsOf
    <3> QED
      BY <1>1, <1>2, <3>1, CoinsBonusStays DEF CoinsBonuses
  <2>2. c \in RewardsOf(c.u)
    BY <1>1 DEF RewardsOf, Rewards!Rewarding
  <2>3. RewardsOf(c.u) = {c} /\ Credited(c.u, c.op) /\ referral[c.u] = "rewarded"
    BY <1>2, <1>3, <2>2 DEF CoinsBonuses, BonusFits
  <2>4. RewardsOf(c.u)' = {}
    BY <1>1, <2>3 DEF RewardsOf
  <2>5. Credited(c.u, "done")' /\ Credited(c.u, "lost")'
    BY <1>1, <2>3 DEF Credited
  <2>6. BonusFits(c.u)'
    BY <1>1, <2>3, <2>4, <2>5 DEF BonusFits
  <2> QED
    BY <2>1, <2>6 DEF CoinsBonuses
<1>10. \A u : Owed(c, u) = IF u = Referrer THEN 1 ELSE 0
  BY <1>1 DEF Owed, Rewards!Owes
<1>11. \A u \in Rewards!Users :
         coin_entries'[u] + drift'[u] - coins'[u] = coin_entries[u] + drift[u] - coins[u] - Owed(c, u)
  BY <1>1, <1>4, <1>10
<1>12. \A u \in Rewards!Users : coins'[u] >= 0
  BY <1>2, <1>4 DEF CoinsBalances
<1>13. CoinsBalances'
  BY <1>1, <1>6, <1>11, <1>12, CoinsBalancedOff
<1> QED
  BY <1>6, <1>8, <1>9, <1>13 DEF CoinsInv

LEMMA CoinsFail ==
  ASSUME CoinsInv, NEW c \in coin_calls, Rewards!Fail(c)
  PROVE  CoinsInv'
<1>1. /\ c.op \in {"referee", "referee_inc", "referrer", "referrer_inc"}
      /\ Rewards!Error /\ Rewards!Continue(c, "revert")
      /\ drift' = CASE c.op = "referee_inc" -> Rewards!Add(drift, c.u, -1)
                    [] c.op = "referrer_inc" -> Rewards!Add(drift, Referrer, -1)
                    [] OTHER -> drift
      /\ UNCHANGED <<coins, coin_entries, referral, bonus, reverts, coin_rides, coin_disturbed>>
  BY DEF Rewards!Fail
<1>2. CoinsBase /\ Rewards!TypeOK /\ CoinsBalances /\ CoinsBonuses
  BY DEF CoinsInv, CoinsBase
<1>3. "revert" \in Rewards!Op /\ c.u \in Referees /\ c.u \in Rewards!Users /\ Referrer \in Rewards!Users
  BY <1>1, <1>2, CoinsCall DEF Rewards!Op, CoinsBase, Rewards!Users
<1>4. PICK e \in Rewards!Call : /\ e.op = "revert" /\ e.u = c.u /\ e.n = c.n
                                /\ coin_calls' = (coin_calls \ {c}) \cup {e}
                                /\ e \notin coin_calls \ {c}
  BY <1>1, <1>2, <1>3, CoinsContinues
<1>5. \A u : /\ Owed(e, u) = 0
             /\ Owed(c, u) = CASE c.op = "referee_inc" -> IF u = c.u THEN 1 ELSE 0
                               [] c.op = "referrer_inc" -> IF u = Referrer THEN 1 ELSE 0
                               [] OTHER -> 0
  BY <1>1, <1>4 DEF Owed, Rewards!Owes
<1>6. /\ drift' \in [Rewards!Users -> Int]
      /\ \A u \in Rewards!Users : drift'[u] = drift[u] - Owed(c, u)
      /\ \A u \in Rewards!Users : coins[u] \in Int /\ coin_entries[u] \in Int /\ drift[u] \in Int
  <2>1. CASE c.op = "referee_inc"
    <3>1. drift' = Rewards!Add(drift, c.u, -1) /\ \A u : Owed(c, u) = IF u = c.u THEN 1 ELSE 0
      BY <1>1, <1>5, <2>1
    <3> QED
      BY <1>2, <1>3, <3>1, CoinsPlus
  <2>2. CASE c.op = "referrer_inc"
    <3>1. drift' = Rewards!Add(drift, Referrer, -1) /\ \A u : Owed(c, u) = IF u = Referrer THEN 1 ELSE 0
      BY <1>1, <1>5, <2>2
    <3> QED
      BY <1>2, <1>3, <3>1, CoinsPlus
  <2>3. CASE c.op \notin {"referee_inc", "referrer_inc"}
    <3>1. drift' = drift /\ \A u : Owed(c, u) = 0
      BY <1>1, <1>5, <2>3
    <3> QED
      BY <1>2, <3>1 DEF Rewards!TypeOK
  <2> QED
    BY <2>1, <2>2, <2>3
<1>7. Rewards!TypeOK'
  BY <1>1, <1>2, <1>4, <1>6, CoinsError DEF Rewards!TypeOK
<1>8. CoinsBase'
  BY <1>1, <1>2, <1>4, <1>7, CoinsBaseContinues
<1>9. Inserts' = Inserts /\ Referred' = Referred
  BY <1>1, <1>4 DEF Inserts, Referred
<1>10. CoinsPhone'
  BY <1>1, <1>9, CoinsPhoneStays DEF CoinsInv
<1>11. Credited(c.u, c.op) => Credited(c.u, e.op)'
  BY <1>1, <1>4 DEF Credited
<1>12. CoinsBonuses'
  BY <1>1, <1>3, <1>4, <1>11, CoinsBonusOn DEF Rewards!Rewarding
<1>13. \A u : Owed(c, u) \in Int
  BY DEF Owed
<1>14. \A u \in Rewards!Users :
         coin_entries'[u] + drift'[u] - coins'[u]
           = coin_entries[u] + drift[u] - coins[u] + Owed(e, u) - Owed(c, u)
  BY <1>1, <1>5, <1>6, <1>13
<1>15. CoinsBalances'
  BY <1>1, <1>2, <1>4, <1>8, <1>14, CoinsBalancedOn DEF CoinsBalances
<1> QED
  BY <1>8, <1>10, <1>12, <1>15 DEF CoinsInv

LEMMA CoinsRevert ==
  ASSUME CoinsInv, NEW c \in coin_calls, Rewards!Revert(c)
  PROVE  CoinsInv'
<1>1. /\ c.op = "revert"
      /\ referral' = [referral EXCEPT ![c.u] = "pending"]
      /\ reverts' = Rewards!Add(reverts, c.u, 1)
      /\ coin_calls' = coin_calls \ {c}
      /\ UNCHANGED <<coins, coin_entries, bonus, coin_rides, errors, drift, coin_disturbed>>
  BY DEF Rewards!Revert, Rewards!Return
<1>2. CoinsBase /\ Rewards!TypeOK /\ CoinsBalances /\ CoinsBonuses
  BY DEF CoinsInv, CoinsBase
<1>3. c.u \in Referees
  BY <1>1, <1>2 DEF CoinsBase
<1>4. /\ referral' \in [Referees -> {"none", "pending", "rewarded"}]
      /\ referral'[c.u] = "pending"
      /\ \A w \in Referees : w # c.u => referral'[w] = referral[w]
  BY <1>1, <1>2, <1>3 DEF Rewards!TypeOK
<1>5. /\ reverts' \in [Referees -> Nat]
      /\ reverts'[c.u] = reverts[c.u] + 1
      /\ \A w \in Referees : w # c.u => reverts'[w] = reverts[w]
  <2>1. reverts \in [Referees -> Nat]
    BY <1>2 DEF Rewards!TypeOK
  <2> QED
    BY <1>1, <1>3, <2>1, CoinsAddNat
<1>6. Rewards!TypeOK'
  BY <1>1, <1>2, <1>4, <1>5 DEF Rewards!TypeOK
<1>7. CoinsBase'
  BY <1>1, <1>2, <1>6, CoinsBaseReturns
<1>8. \A w : Rewards!Pending(w)' = Rewards!Pending(w)
  BY <1>1 DEF Rewards!Pending, Rewards!Owes
<1>9. CoinsBalances'
  BY <1>1, <1>2, <1>8, CoinsBalancesStay
<1>10. c \in RewardsOf(c.u)
  BY <1>1 DEF RewardsOf, Rewards!Rewarding
<1>11. RewardsOf(c.u) = {c} /\ Credited(c.u, c.op) /\ referral[c.u] = "rewarded"
  BY <1>2, <1>3, <1>10 DEF CoinsBonuses, BonusFits
<1>12. Inserts' = Inserts
  BY <1>1 DEF Inserts
<1>13. CoinsPhone'
  BY <1>1, <1>3, <1>4, <1>11, <1>12, CoinsPhoneRewards
<1>14. ASSUME NEW w \in Referees, w # c.u PROVE BonusFits(w)'
  <2>1. RewardsOf(w)' = RewardsOf(w)
    BY <1>1, <1>14 DEF RewardsOf
  <2> QED
    BY <1>1, <1>2, <1>4, <1>5, <1>14, <2>1, CoinsBonusStays DEF CoinsBonuses
<1>15. BonusFits(c.u)'
  <2>1. RewardsOf(c.u)' = {}
    BY <1>1, <1>11 DEF RewardsOf
  <2>2. bonus[c.u].referee \in Nat /\ bonus[c.u].referrer \in Nat /\ reverts[c.u] \in Nat
    BY <1>2, <1>3 DEF Rewards!TypeOK
  <2>3. bonus[c.u].referee <= 1 + reverts[c.u] /\ bonus[c.u].referrer <= 1 + reverts[c.u]
    BY <1>11 DEF Credited
  <2>4. bonus'[c.u].referee <= reverts'[c.u] /\ bonus'[c.u].referrer <= reverts'[c.u]
    BY <1>1, <1>5, <2>2, <2>3
  <2> QED
    BY <1>4, <2>1, <2>4 DEF BonusFits
<1> QED
  BY <1>7, <1>9, <1>13, <1>14, <1>15 DEF CoinsInv, CoinsBonuses

LEMMA CoinsRestart ==
  ASSUME CoinsInv, Rewards!Restart
  PROVE  CoinsInv'
<1>1. /\ Rewards!Error /\ coin_calls' = {}
      /\ drift' = [u \in Rewards!Users |-> drift[u] - Rewards!Cardinality(Rewards!Pending(u))]
      /\ coin_disturbed' = coin_disturbed \cup
           {u \in Referees : \E c \in Rewards!CallsOf(u) : c.op \in Rewards!Rewarding}
      /\ UNCHANGED <<coins, coin_entries, referral, bonus, reverts, coin_rides>>
  BY DEF Rewards!Restart
<1>2. CoinsBase /\ Rewards!TypeOK /\ CoinsBalances /\ CoinsBonuses
  BY DEF CoinsInv, CoinsBase
<1>3. \A S : Rewards!Cardinality(S) = Cardinality(S)
  BY DEF Rewards!Cardinality, Cardinality
<1>4. \A u \in Rewards!Users : /\ Cardinality(Rewards!Pending(u)) \in Nat
                              /\ coins[u] \in Int /\ coin_entries[u] \in Int /\ drift[u] \in Int
  BY <1>2, CoinsPending DEF Rewards!TypeOK
<1>5. \A u \in Rewards!Users : drift'[u] = drift[u] - Cardinality(Rewards!Pending(u))
  BY <1>1, <1>3
<1>6. drift' \in [Rewards!Users -> Int]
  BY <1>1, <1>3, <1>4
<1>7. Rewards!TypeOK'
  BY <1>1, <1>2, <1>6, CoinsError DEF Rewards!TypeOK
<1>8. CoinsBase'
  BY <1>1, <1>7, FS_EmptySet DEF CoinsBase
<1>9. CoinsBalances'
  <2>1. \A u : Rewards!Pending(u)' = {}
    BY <1>1 DEF Rewards!Pending
  <2>2. \A u : Cardinality(Rewards!Pending(u)') = 0
    BY <2>1, FS_EmptySet
  <2> QED
    BY <1>1, <1>2, <1>4, <1>5, <2>2 DEF CoinsBalances
<1>10. ASSUME NEW u \in Referees PROVE BonusFits(u)'
  <2>1. BonusFits(u) /\ RewardsOf(u)' = {}
    BY <1>1, <1>2, <1>10 DEF CoinsBonuses, RewardsOf
  <2>2. CASE RewardsOf(u) = {}
    BY <1>1, <2>1, <2>2, CoinsBonusStays
  <2>3. CASE RewardsOf(u) # {}
    <3>1. PICK c \in RewardsOf(u) : Credited(u, c.op)
      BY <2>1, <2>3 DEF BonusFits
    <3>2. u \in coin_disturbed'
      BY <1>1, <3>1 DEF RewardsOf, Rewards!CallsOf
    <3>3. Credited(u, "lost")'
      BY <1>1, <3>1 DEF Credited
    <3>4. referral[u] = "rewarded"
      BY <2>1, <2>3 DEF BonusFits
    <3> QED
      BY <1>1, <2>1, <3>2, <3>3, <3>4 DEF BonusFits
  <2> QED
    BY <2>2, <2>3
<1>11. CoinsPhone'
  <2>1. Inserts' \subseteq Inserts /\ Referred' = Referred
    BY <1>1 DEF Inserts, Referred
  <2> QED
    BY <1>1, <2>1, CoinsPhoneStays DEF CoinsInv
<1> QED
  BY <1>8, <1>9, <1>10, <1>11 DEF CoinsInv, CoinsBonuses

LEMMA CoinsInvNext == CoinsInv /\ [Rewards!Next]_(Rewards!vars) => CoinsInv'
<1> SUFFICES ASSUME CoinsInv, [Rewards!Next]_(Rewards!vars) PROVE CoinsInv'
  OBVIOUS
<1>1. CASE UNCHANGED Rewards!vars
  <2>1. UNCHANGED <<coins, coin_entries, referral, bonus, reverts, coin_rides, coin_calls, errors,
                    drift, coin_disturbed>>
    BY <1>1 DEF Rewards!vars
  <2>2. (\A u : Rewards!Pending(u)' = Rewards!Pending(u) /\ RewardsOf(u)' = RewardsOf(u)) /\ Inserts' = Inserts
    BY <2>1 DEF Rewards!Pending, RewardsOf, Inserts
  <2>3. CoinsBase'
    BY <2>1 DEF CoinsInv, CoinsBase, Rewards!TypeOK
  <2>4. CoinsBalances'
    BY <2>1, <2>2, CoinsBalancesStay DEF CoinsInv
  <2>5. CoinsBonuses' /\ CoinsPhone'
    BY <2>1, <2>2, CoinsReferralsStay
  <2> QED
    BY <2>3, <2>4, <2>5 DEF CoinsInv
<1>2. ASSUME NEW u \in Referees, Rewards!Apply(u) \/ Rewards!CompleteRide(u) PROVE CoinsInv'
  BY <1>2, CoinsApply, CoinsCompleteRide
<1>3. ASSUME NEW u \in Rewards!Users, Rewards!Spend(u) \/ Rewards!RedeemFails(u) PROVE CoinsInv'
  BY <1>3, CoinsSpend, CoinsRedeemFails
<1>4. ASSUME NEW c \in coin_calls, Rewards!CallStep(c) PROVE CoinsInv'
  BY <1>4, CoinsInsertReferral, CoinsAwardEntry, CoinsAwardCoins, CoinsFindReferral, CoinsClaim,
     CoinsRefereeEntry, CoinsRefereeCoins, CoinsReferrerEntry, CoinsReferrerCoins, CoinsFail,
     CoinsRevert, CoinsSpendEntry, CoinsSpendEntryFails, CoinsRefund, CoinsAwardFails
     DEF Rewards!CallStep
<1> QED
  BY <1>1, <1>2, <1>3, <1>4, CoinsRestart DEF Rewards!Next

LEMMA CoinsInvGives == CoinsInv => Rewards!ReferralPaysOnce /\ Rewards!CoinsMatchEntries
<1> SUFFICES ASSUME CoinsInv PROVE Rewards!ReferralPaysOnce /\ Rewards!CoinsMatchEntries
  OBVIOUS
<1>1. ASSUME NEW u \in Referees
      PROVE  /\ bonus[u].referee <= 1 + reverts[u] /\ bonus[u].referrer <= 1 + reverts[u]
             /\ referral[u] = "rewarded" /\ (\A c \in Rewards!CallsOf(u) : c.op \notin Rewards!Rewarding)
                  => u \in coin_disturbed \/ (bonus[u].referee >= 1 /\ bonus[u].referrer >= 1)
  <2>1. BonusFits(u)
    BY DEF CoinsInv, CoinsBonuses
  <2>2. bonus[u].referee \in Nat /\ bonus[u].referrer \in Nat /\ reverts[u] \in Nat
    BY DEF CoinsInv, CoinsBase, Rewards!TypeOK
  <2>3. (\A c \in Rewards!CallsOf(u) : c.op \notin Rewards!Rewarding) => RewardsOf(u) = {}
    BY DEF Rewards!CallsOf, RewardsOf
  <2>4. CASE referral[u] # "rewarded"
    BY <2>1, <2>2, <2>4 DEF BonusFits
  <2>5. CASE referral[u] = "rewarded" /\ RewardsOf(u) = {}
    BY <2>1, <2>5 DEF BonusFits, Credited
  <2>6. CASE referral[u] = "rewarded" /\ RewardsOf(u) # {}
    <3>1. PICK c \in RewardsOf(u) : Credited(u, c.op)
      BY <2>1, <2>6 DEF BonusFits
    <3> QED
      BY <2>3, <2>6, <3>1 DEF Credited
  <2> QED
    BY <2>4, <2>5, <2>6
<1>2. ASSUME "phone" \notin coin_disturbed
      PROVE  Rewards!Cardinality({u \in Referees : referral[u] # "none"}) <= 1
  <2>1. Rewards!Cardinality(Referred) = Cardinality(Referred)
    BY DEF Rewards!Cardinality, Cardinality
  <2>2. Cardinality(Referred) <= 1
    <3>1. CASE Referred = {}
      BY <3>1, FS_EmptySet
    <3>2. CASE Referred # {}
      <4>1. PICK u : Referred = {u}
        BY <1>2, <3>2 DEF CoinsInv, CoinsPhone
      <4>2. Cardinality({u}) = 1
        BY FS_Singleton
      <4> QED
        BY <4>1, <4>2
    <3> QED
      BY <3>1, <3>2
  <2>3. Referred = {u \in Referees : referral[u] # "none"}
    BY DEF Referred
  <2> QED
    BY <2>1, <2>2, <2>3
<1>3. Rewards!ReferralPaysOnce
  BY <1>1, <1>2 DEF Rewards!ReferralPaysOnce
<1>4. Rewards!CoinsMatchEntries
  <2>1. ASSUME coin_calls = {}, NEW u \in Rewards!Users
        PROVE  coins[u] = coin_entries[u] + drift[u]
    <3>1. Rewards!Pending(u) = {}
      BY <2>1 DEF Rewards!Pending
    <3>2. Cardinality(Rewards!Pending(u)) = 0
      BY <3>1, FS_EmptySet
    <3>3. coins[u] \in Int /\ coin_entries[u] \in Int /\ drift[u] \in Int
      BY DEF CoinsInv, CoinsBase, Rewards!TypeOK
    <3> QED
      BY <3>2, <3>3 DEF CoinsInv, CoinsBalances
  <2> QED
    BY <2>1 DEF CoinsInv, CoinsBalances, Rewards!CoinsMatchEntries
<1> QED
  BY <1>3, <1>4

\* Every variable of the coins and referrals has its type.
THEOREM RewardsTyped == Rewards!Spec => []Rewards!TypeOK
<1>1. CoinsInv => Rewards!TypeOK
  BY DEF CoinsInv, CoinsBase
<1> QED
  BY <1>1, CoinsStart, CoinsInvNext, PTL DEF Rewards!Spec

\* A referral pays the referee and the referrer once each, whichever of the rides
\* that end at the same time finds it pending.
THEOREM ReferralsPayOnce == Rewards!Spec => []Rewards!ReferralPaysOnce
  BY CoinsStart, CoinsInvNext, CoinsInvGives, PTL DEF Rewards!Spec

\* A balance of coins is never negative, and once the handlers are done is what its
\* entries add up to and what failed statements, short spends, refunds and restarts
\* left between the two.
THEOREM BalancesMatch == Rewards!Spec => []Rewards!CoinsMatchEntries
  BY CoinsStart, CoinsInvNext, CoinsInvGives, PTL DEF Rewards!Spec

LEMMA RewardsRun == ServicesSpec => Rewards!Spec
<1>1. ServicesInit => Rewards!Init
  BY DEF ServicesInit
<1>2. [ServicesNext]_<<at_work, vars, wallets, ends, funds, uses, banks, reports, desk,
                         rules, rewards, reviews>> => [Rewards!Next]_(Rewards!vars)
  BY DEF ServicesNext, rewards, Rewards!vars
<1> QED
  BY <1>1, <1>2, PTL DEF ServicesSpec, Rewards!Spec

\* A referral pays each side once, in the services together.
THEOREM ReferralsKept == ServicesSpec => []ReferralPaysOnce
<1>1. Rewards!ReferralPaysOnce => ReferralPaysOnce
  BY DEF ReferralPaysOnce
<1> QED
  BY <1>1, RewardsRun, ReferralsPayOnce, PTL

\* A balance of coins is what its entries add up to and what failures left, in the
\* services together.
THEOREM BalancesKept == ServicesSpec => []CoinsMatchEntries
<1>1. Rewards!CoinsMatchEntries => CoinsMatchEntries
  BY DEF CoinsMatchEntries
<1> QED
  BY <1>1, RewardsRun, BalancesMatch, PTL

(***************************************************************************)
(* Ratings.                                                                *)
(***************************************************************************)

RatingRow == [by : Bookings, stars : Stars]
\* What the proofs use of the types; the average is left out.
RatingsTyped ==
  /\ ratings \in Seq(RatingRow)
  /\ \A c \in rating_calls : /\ DOMAIN c = {"op", "by", "stars", "n", "found"}
                             /\ c.by \in Bookings /\ c.stars \in Stars
  /\ rating_disturbed \in BOOLEAN

Saves(b) == {c \in rating_calls : c.op = "save" /\ c.by = b}

\* A booking has one rating, or one on its way.
RatedOnce(b) ==
  /\ \A i, j \in DOMAIN ratings : ratings[i].by = b /\ ratings[j].by = b => i = j
  /\ \A c \in Saves(b) : Saves(b) = {c} /\ ~Reviews!Rated(b)

\* What is or will be written to the profile counts no more ratings than there are.
CountsNoMore ==
  /\ driver_profile.total <= Len(ratings)
  /\ \A c \in rating_calls : c.op = "profile" => c.found.total \in Int /\ c.found.total <= Len(ratings)

\* A submission that is alone writes what the ratings say.
WritesAll ==
  /\ \A c \in rating_calls : /\ rating_calls = {c}
                             /\ c.op = "profile" => c.found = Reviews!Statistics(ratings)
  /\ rating_calls = {} /\ ratings # <<>> => driver_profile = Reviews!Statistics(ratings)

RatingsInv ==
  /\ RatingsTyped
  /\ \A b \in Bookings \ doubled : RatedOnce(b)
  /\ driver_profile.total \in Int /\ CountsNoMore
  /\ ~rating_disturbed => WritesAll

LEMMA RatingsStart == Reviews!Init => RatingsInv
<1> SUFFICES ASSUME Reviews!Init PROVE RatingsInv
  OBVIOUS
<1>1. /\ ratings = <<>> /\ driver_profile = Reviews!NoProfile
      /\ rating_calls = {} /\ doubled = {} /\ rating_disturbed = FALSE
  BY DEF Reviews!Init
<1>2. ratings \in Seq(RatingRow) /\ Len(ratings) = 0 /\ DOMAIN ratings = {}
  BY <1>1
<1>3. driver_profile.total = 0
  BY <1>1 DEF Reviews!NoProfile
<1>4. \A b : RatedOnce(b)
  BY <1>1, <1>2 DEF RatedOnce, Saves
<1>5. RatingsTyped
  BY <1>1, <1>2 DEF RatingsTyped
<1>6. CountsNoMore
  BY <1>1, <1>2, <1>3 DEF CountsNoMore
<1>7. ~rating_disturbed => WritesAll
  BY <1>1 DEF WritesAll
<1> QED
  BY <1>3, <1>4, <1>5, <1>6, <1>7 DEF RatingsInv

LEMMA RatingsTotal == ASSUME NEW table PROVE Reviews!Statistics(table).total = Len(table)
  BY DEF Reviews!Statistics

LEMMA RatingsSubmit ==
  ASSUME RatingsInv, NEW b \in Bookings, NEW stars \in Stars, NEW n, Reviews!SubmitRating(b, stars, n)
  PROVE  RatingsInv'
<1> DEFINE e == [op |-> "save", by |-> b, stars |-> stars, n |-> n, found |-> Reviews!NoProfile]
<1>1. /\ ~Reviews!Rated(b) /\ rating_calls' = rating_calls \cup {e}
      /\ doubled' = IF \E c \in rating_calls : c.op = "save" /\ c.by = b
                    THEN doubled \cup {b} ELSE doubled
      /\ rating_disturbed' = (rating_calls # {})
      /\ UNCHANGED <<ratings, driver_profile>>
  BY DEF Reviews!SubmitRating, Reviews!Begin
<1>2. /\ e.op = "save" /\ e.by = b /\ e.stars = stars
      /\ DOMAIN e = {"op", "by", "stars", "n", "found"}
  OBVIOUS
<1> HIDE DEF e
<1>3. RatingsTyped'
  BY <1>1, <1>2 DEF RatingsInv, RatingsTyped
<1>4. ASSUME NEW a \in Bookings \ doubled' PROVE RatedOnce(a)'
  <2>1. RatedOnce(a)
    BY <1>1 DEF RatingsInv
  <2>2. Reviews!Rated(a)' <=> Reviews!Rated(a)
    BY <1>1 DEF Reviews!Rated
  <2>3. CASE a # b
    <3>1. Saves(a)' = Saves(a)
      BY <1>1, <1>2, <2>3 DEF Saves
    <3> QED
      BY <1>1, <2>1, <2>2, <3>1 DEF RatedOnce
  <2>4. CASE a = b
    <3>1. Saves(a)' = {e}
      BY <1>1, <1>2, <1>4, <2>4 DEF Saves
    <3> QED
      BY <1>1, <2>1, <2>2, <2>4, <3>1 DEF RatedOnce
  <2> QED
    BY <2>3, <2>4
<1>5. CountsNoMore'
  BY <1>1, <1>2 DEF RatingsInv, CountsNoMore
<1>6. ~rating_disturbed' => WritesAll'
  BY <1>1, <1>2 DEF WritesAll
<1> QED
  BY <1>1, <1>3, <1>4, <1>5, <1>6 DEF RatingsInv

\* A call that goes on: what it awaits and what it has found change.
LEMMA RatingsContinue ==
  ASSUME RatingsTyped, NEW c \in rating_calls, NEW op, NEW found, Reviews!Continue(c, op, found)
  PROVE  \E e : /\ e.op = op /\ e.found = found /\ e.by = c.by /\ e.stars = c.stars
                /\ DOMAIN e = {"op", "by", "stars", "n", "found"}
                /\ rating_calls' = (rating_calls \ {c}) \cup {e}
<1> DEFINE e == [c EXCEPT !.op = op, !.found = found]
<1>1. DOMAIN c = {"op", "by", "stars", "n", "found"}
  BY DEF RatingsTyped
<1>2. /\ e.op = op /\ e.found = found /\ e.by = c.by /\ e.stars = c.stars
      /\ DOMAIN e = {"op", "by", "stars", "n", "found"}
  BY <1>1
<1>3. rating_calls' = (rating_calls \ {c}) \cup {e}
  BY DEF Reviews!Continue
<1> HIDE DEF e
<1> QED
  BY <1>2, <1>3

LEMMA RatingsSave ==
  ASSUME RatingsInv, NEW c \in rating_calls, Reviews!SaveRating(c)
  PROVE  RatingsInv'
<1> DEFINE row == [by |-> c.by, stars |-> c.stars]
<1>1. /\ c.op = "save" /\ ratings' = Append(ratings, row)
      /\ Reviews!Continue(c, "aggregate", Reviews!NoProfile)
      /\ UNCHANGED <<driver_profile, doubled, rating_disturbed>>
  BY DEF Reviews!SaveRating
<1>2. RatingsTyped
  BY DEF RatingsInv
<1>3. PICK e : /\ e.op = "aggregate" /\ e.by = c.by /\ e.stars = c.stars
               /\ DOMAIN e = {"op", "by", "stars", "n", "found"}
               /\ rating_calls' = (rating_calls \ {c}) \cup {e}
  BY <1>1, <1>2, RatingsContinue
<1>4. row \in RatingRow /\ row.by = c.by
  BY <1>2 DEF RatingsTyped, RatingRow
<1> HIDE DEF row
<1>5. ratings \in Seq(RatingRow) /\ ratings' \in Seq(RatingRow)
  BY <1>1, <1>2, <1>4 DEF RatingsTyped
<1>6. /\ Len(ratings) \in Nat /\ Len(ratings') = Len(ratings) + 1
      /\ DOMAIN ratings = 1..Len(ratings) /\ DOMAIN ratings' = 1..(Len(ratings) + 1)
      /\ ratings'[Len(ratings) + 1] = row
      /\ \A i \in 1..Len(ratings) : ratings'[i] = ratings[i]
  BY <1>1, <1>4, <1>5
<1>7. RatingsTyped'
  BY <1>1, <1>2, <1>3, <1>5 DEF RatingsTyped
<1>8. ASSUME NEW b \in Bookings \ doubled PROVE RatedOnce(b)'
  <2>1. RatedOnce(b)
    BY DEF RatingsInv
  <2>2. CASE b # c.by
    <3>1. Saves(b)' = Saves(b)
      BY <1>1, <1>3, <2>2 DEF Saves
    <3>2. Reviews!Rated(b)' <=> Reviews!Rated(b)
      BY <1>4, <1>6, <2>2 DEF Reviews!Rated
    <3>3. \A i \in DOMAIN ratings' : ratings'[i].by = b => i \in DOMAIN ratings /\ ratings[i].by = b
      BY <1>4, <1>6, <2>2
    <3> QED
      BY <2>1, <3>1, <3>2, <3>3 DEF RatedOnce
  <2>3. CASE b = c.by
    <3>1. c \in Saves(b)
      BY <1>1, <2>3 DEF Saves
    <3>2. Saves(b) = {c} /\ ~Reviews!Rated(b)
      BY <2>1, <3>1 DEF RatedOnce
    <3>3. Saves(b)' = {}
      BY <1>3, <3>2 DEF Saves
    <3>4. \A i \in DOMAIN ratings' : ratings'[i].by = b => i = Len(ratings) + 1
      BY <1>6, <3>2 DEF Reviews!Rated
    <3> QED
      BY <3>3, <3>4 DEF RatedOnce
  <2> QED
    BY <2>2, <2>3
<1>9. driver_profile.total \in Int /\ CountsNoMore'
  BY <1>1, <1>3, <1>6 DEF RatingsInv, CountsNoMore
<1>10. ~rating_disturbed => WritesAll'
  BY <1>1, <1>3 DEF RatingsInv, WritesAll
<1> QED
  BY <1>1, <1>7, <1>8, <1>9, <1>10 DEF RatingsInv

LEMMA RatingsAggregate ==
  ASSUME RatingsInv, NEW c \in rating_calls, Reviews!Aggregate(c)
  PROVE  RatingsInv'
<1>1. /\ c.op = "aggregate" /\ Reviews!Continue(c, "profile", Reviews!Statistics(ratings))
      /\ UNCHANGED <<ratings, driver_profile, doubled, rating_disturbed>>
  BY DEF Reviews!Aggregate
<1>2. RatingsTyped
  BY DEF RatingsInv
<1>3. PICK e : /\ e.op = "profile" /\ e.found = Reviews!Statistics(ratings)
               /\ e.by = c.by /\ e.stars = c.stars
               /\ DOMAIN e = {"op", "by", "stars", "n", "found"}
               /\ rating_calls' = (rating_calls \ {c}) \cup {e}
  BY <1>1, <1>2, RatingsContinue
<1>4. RatingsTyped'
  BY <1>1, <1>2, <1>3 DEF RatingsTyped
<1>5. ASSUME NEW b \in Bookings \ doubled PROVE RatedOnce(b)'
  <2>1. RatedOnce(b)
    BY DEF RatingsInv
  <2>2. Saves(b)' = Saves(b) /\ (Reviews!Rated(b)' <=> Reviews!Rated(b))
    BY <1>1, <1>3 DEF Saves, Reviews!Rated
  <2> QED
    BY <1>1, <2>1, <2>2 DEF RatedOnce
<1>6. e.found.total = Len(ratings) /\ Len(ratings) \in Int
  BY <1>2, <1>3, RatingsTotal DEF RatingsTyped
<1>7. CountsNoMore'
  BY <1>1, <1>3, <1>6 DEF RatingsInv, CountsNoMore
<1>8. ~rating_disturbed => WritesAll'
  BY <1>1, <1>3 DEF RatingsInv, WritesAll
<1> QED
  BY <1>1, <1>4, <1>5, <1>7, <1>8 DEF RatingsInv

\* The last statement of a submission, or the end of one that fails.
LEMMA RatingsEnd ==
  ASSUME RatingsInv, NEW c \in rating_calls, Reviews!SaveProfile(c) \/ Reviews!Stop(c)
  PROVE  RatingsInv'
<1>1. rating_calls' = rating_calls \ {c} /\ UNCHANGED <<ratings, doubled>>
  BY DEF Reviews!SaveProfile, Reviews!Stop
<1>2. \/ /\ c.op = "profile" /\ driver_profile' = c.found /\ UNCHANGED rating_disturbed
      \/ rating_disturbed' = TRUE /\ UNCHANGED driver_profile
  BY DEF Reviews!SaveProfile, Reviews!Stop
<1>3. RatingsTyped'
  BY <1>1, <1>2 DEF RatingsInv, RatingsTyped
<1>4. ASSUME NEW b \in Bookings \ doubled PROVE RatedOnce(b)'
  <2>1. RatedOnce(b)
    BY DEF RatingsInv
  <2>2. Saves(b)' \subseteq Saves(b) /\ (Reviews!Rated(b)' <=> Reviews!Rated(b))
    BY <1>1 DEF Saves, Reviews!Rated
  <2> QED
    BY <1>1, <2>1, <2>2 DEF RatedOnce
<1>5. driver_profile'.total \in Int /\ CountsNoMore'
  BY <1>1, <1>2 DEF RatingsInv, CountsNoMore
<1>6. ~rating_disturbed' => WritesAll'
  BY <1>1, <1>2 DEF RatingsInv, WritesAll
<1> QED
  BY <1>1, <1>3, <1>4, <1>5, <1>6 DEF RatingsInv

LEMMA RatingsInvNext == RatingsInv /\ [Reviews!Next]_(Reviews!vars) => RatingsInv'
<1> SUFFICES ASSUME RatingsInv, [Reviews!Next]_(Reviews!vars) PROVE RatingsInv'
  OBVIOUS
<1>1. CASE UNCHANGED Reviews!vars
  <2>1. UNCHANGED <<ratings, driver_profile, rating_calls, doubled, rating_disturbed>>
    BY <1>1 DEF Reviews!vars
  <2>2. \A b : Saves(b)' = Saves(b) /\ (Reviews!Rated(b)' <=> Reviews!Rated(b))
    BY <2>1 DEF Saves, Reviews!Rated
  <2> QED
    BY <2>1, <2>2 DEF RatingsInv, RatingsTyped, RatedOnce, CountsNoMore, WritesAll
<1>2. ASSUME NEW b \in Bookings, NEW stars \in Stars, NEW n \in 1..MaxCalls,
             Reviews!SubmitRating(b, stars, n)
      PROVE  RatingsInv'
  BY <1>2, RatingsSubmit
<1>3. ASSUME NEW c \in rating_calls,
             Reviews!SaveRating(c) \/ Reviews!Aggregate(c) \/ Reviews!SaveProfile(c) \/ Reviews!Stop(c)
      PROVE  RatingsInv'
  BY <1>3, RatingsSave, RatingsAggregate, RatingsEnd
<1> QED
  BY <1>1, <1>2, <1>3 DEF Reviews!Next

LEMMA RatingsInvGives == RatingsInv => Reviews!RatingsAgree
<1> SUFFICES ASSUME RatingsInv PROVE Reviews!RatingsAgree
  OBVIOUS
<1>1. \A i \in DOMAIN ratings : ratings[i].by \in Bookings
  <2>1. ratings \in Seq(RatingRow)
    BY DEF RatingsInv, RatingsTyped
  <2>2. \A i \in DOMAIN ratings : ratings[i] \in RatingRow
    BY <2>1
  <2> QED
    BY <2>2 DEF RatingRow
<1>2. \A i, j \in DOMAIN ratings :
        ratings[i].by = ratings[j].by /\ ratings[i].by \notin doubled => i = j
  BY <1>1 DEF RatingsInv, RatedOnce
<1> QED
  BY <1>2 DEF RatingsInv, CountsNoMore, WritesAll, Reviews!RatingsAgree

\* A booking is rated once, and a driver's profile agrees with the ratings, unless
\* submissions overlapped.
THEOREM ProfileAgrees == Reviews!Spec => []Reviews!RatingsAgree
  BY RatingsStart, RatingsInvNext, RatingsInvGives, PTL DEF Reviews!Spec

LEMMA ReviewsRun == ServicesSpec => Reviews!Spec
<1>1. ServicesInit => Reviews!Init
  BY DEF ServicesInit
<1>2. [ServicesNext]_<<at_work, vars, wallets, ends, funds, uses, banks, reports, desk,
                         rules, rewards, reviews>> => [Reviews!Next]_(Reviews!vars)
  BY DEF ServicesNext, reviews, Reviews!vars
<1> QED
  BY <1>1, <1>2, PTL DEF ServicesSpec, Reviews!Spec

\* A driver's profile agrees with the ratings, in the services together.
THEOREM ProfileKept == ServicesSpec => []RatingsAgree
<1>1. Reviews!RatingsAgree => RatingsAgree
  BY DEF RatingsAgree
<1> QED
  BY <1>1, ReviewsRun, ProfileAgrees, PTL

\* An average of ratings is a natural number of hundredths.
LEMMA QuotientNatural == ASSUME NEW a \in Nat, NEW b \in Nat \ {0} PROVE a \div b \in Nat
  OBVIOUS

LEMMA StatisticsTyped ==
  ASSUME NEW table \in Seq(RatingRow), table # <<>>
  PROVE  Reviews!Statistics(table) \in Reviews!Profile
<1> DEFINE n == Len(table)
           P == {p \in (1..n) \X (1..50) : p[2] <= table[p[1]].stars}
<1>1. n \in Nat \ {0}
  OBVIOUS
<1>2. IsFiniteSet(1..n)
  BY <1>1, FS_Interval
<1>3. IsFiniteSet(1..50)
  <2>1. 1 \in Int /\ 50 \in Int
    OBVIOUS
  <2> QED
    BY <2>1, FS_Interval, Zenon
<1>4. IsFiniteSet(P)
  <2>1. P \subseteq (1..n) \X (1..50)
    OBVIOUS
  <2>2. IsFiniteSet((1..n) \X (1..50))
    BY <1>2, <1>3, FS_Product, Zenon
  <2> QED
    BY <2>1, <2>2, FS_Subset
<1>5. Cardinality(P) \in Nat
  BY <1>4, FS_CardinalityType
<1>6. Reviews!Stellar(table) = Cardinality(P)
  BY DEF Reviews!Stellar, Reviews!Cardinality, Cardinality
<1>7. Reviews!Stellar(table) \in Nat
  BY <1>5, <1>6
<1> HIDE DEF n, P
<1> DEFINE a == 20 * Reviews!Stellar(table) + n
           b == 2 * n
<1>8. a \in Nat /\ b \in Nat \ {0}
  BY <1>1, <1>7
<1>9. Reviews!Statistics(table) = [average |-> a \div b, total |-> n]
  BY DEF Reviews!Statistics, n
<1> HIDE DEF a, b
<1> QED
  BY <1>1, <1>8, <1>9, QuotientNatural DEF Reviews!Profile

\* A submission that has saved its rating finds some to average.
ReviewsTyped ==
  /\ Reviews!TypeOK
  /\ \A c \in rating_calls : c.op = "aggregate" => ratings # <<>>

LEMMA ReviewsTypedInit == Reviews!Init => ReviewsTyped
<1> SUFFICES ASSUME Reviews!Init PROVE ReviewsTyped
  OBVIOUS
<1>1. /\ ratings = <<>> /\ driver_profile = Reviews!NoProfile
      /\ rating_calls = {} /\ doubled = {} /\ rating_disturbed = FALSE
  BY DEF Reviews!Init
<1>2. Reviews!NoProfile \in Reviews!Profile
  BY DEF Reviews!NoProfile, Reviews!Profile
<1>3. ratings \in Seq(RatingRow)
  BY <1>1
<1> QED
  BY <1>1, <1>2, <1>3 DEF ReviewsTyped, Reviews!TypeOK, RatingRow

\* A call that goes on is a call.
LEMMA ReviewGoesOn ==
  ASSUME ReviewsTyped, NEW c \in rating_calls, NEW op \in {"save", "aggregate", "profile"},
         NEW found \in Reviews!Profile, Reviews!Continue(c, op, found)
  PROVE  \E e \in Reviews!Call : e.op = op /\ rating_calls' = (rating_calls \ {c}) \cup {e}
<1> DEFINE e == [c EXCEPT !.op = op, !.found = found]
<1>1. c \in Reviews!Call
  BY DEF ReviewsTyped, Reviews!TypeOK
<1>2. e \in Reviews!Call /\ e.op = op
  BY <1>1 DEF Reviews!Call
<1>3. rating_calls' = (rating_calls \ {c}) \cup {e}
  BY DEF Reviews!Continue
<1> HIDE DEF e
<1> QED
  BY <1>2, <1>3

LEMMA ReviewsTypedNext == ReviewsTyped /\ [Reviews!Next]_(Reviews!vars) => ReviewsTyped'
<1> SUFFICES ASSUME ReviewsTyped, [Reviews!Next]_(Reviews!vars) PROVE ReviewsTyped'
  OBVIOUS
<1>1. /\ ratings \in Seq(RatingRow) /\ driver_profile \in Reviews!Profile
      /\ rating_calls \subseteq Reviews!Call
      /\ doubled \subseteq Bookings /\ rating_disturbed \in BOOLEAN
  BY DEF ReviewsTyped, Reviews!TypeOK, RatingRow
<1>2. Reviews!NoProfile \in Reviews!Profile
  BY DEF Reviews!NoProfile, Reviews!Profile
<1>3. CASE UNCHANGED Reviews!vars
  BY <1>3 DEF Reviews!vars, ReviewsTyped, Reviews!TypeOK
<1>4. ASSUME NEW b \in Bookings, NEW stars \in Stars, NEW n \in 1..MaxCalls,
             Reviews!SubmitRating(b, stars, n)
      PROVE  ReviewsTyped'
  <2> DEFINE e == [op |-> "save", by |-> b, stars |-> stars, n |-> n, found |-> Reviews!NoProfile]
  <2>1. e \in Reviews!Call /\ e.op = "save"
    BY <1>2 DEF Reviews!Call
  <2>2. /\ rating_calls' = rating_calls \cup {e} /\ UNCHANGED <<ratings, driver_profile>>
        /\ doubled' \subseteq doubled \cup {b} /\ rating_disturbed' \in BOOLEAN
    BY <1>4 DEF Reviews!SubmitRating, Reviews!Begin
  <2> HIDE DEF e
  <2> QED
    BY <1>1, <2>1, <2>2 DEF ReviewsTyped, Reviews!TypeOK
<1>5. ASSUME NEW c \in rating_calls, Reviews!SaveRating(c) PROVE ReviewsTyped'
  <2> DEFINE row == [by |-> c.by, stars |-> c.stars]
  <2>1. row \in RatingRow
    BY <1>1 DEF Reviews!Call, RatingRow
  <2>2. /\ ratings' = Append(ratings, row) /\ Reviews!Continue(c, "aggregate", Reviews!NoProfile)
        /\ UNCHANGED <<driver_profile, doubled, rating_disturbed>>
    BY <1>5 DEF Reviews!SaveRating
  <2>3. PICK e \in Reviews!Call : rating_calls' = (rating_calls \ {c}) \cup {e}
    BY <1>2, <2>2, ReviewGoesOn
  <2> HIDE DEF row
  <2>4. ratings' \in Seq(RatingRow) /\ ratings' # <<>>
    BY <1>1, <2>1, <2>2
  <2> QED
    BY <1>1, <2>2, <2>3, <2>4 DEF ReviewsTyped, Reviews!TypeOK, RatingRow
<1>6. ASSUME NEW c \in rating_calls, Reviews!Aggregate(c) PROVE ReviewsTyped'
  <2>1. /\ c.op = "aggregate" /\ Reviews!Continue(c, "profile", Reviews!Statistics(ratings))
        /\ UNCHANGED <<ratings, driver_profile, doubled, rating_disturbed>>
    BY <1>6 DEF Reviews!Aggregate
  <2>2. Reviews!Statistics(ratings) \in Reviews!Profile
    BY <1>1, <2>1, StatisticsTyped DEF ReviewsTyped
  <2>3. PICK e \in Reviews!Call : e.op = "profile" /\ rating_calls' = (rating_calls \ {c}) \cup {e}
    BY <2>1, <2>2, ReviewGoesOn
  <2> QED
    BY <1>1, <2>1, <2>3 DEF ReviewsTyped, Reviews!TypeOK
<1>7. ASSUME NEW c \in rating_calls, Reviews!SaveProfile(c) \/ Reviews!Stop(c) PROVE ReviewsTyped'
  <2>1. /\ rating_calls' = rating_calls \ {c} /\ UNCHANGED <<ratings, doubled>>
        /\ driver_profile' \in {driver_profile, c.found} /\ rating_disturbed' \in BOOLEAN
    BY <1>1, <1>7 DEF Reviews!SaveProfile, Reviews!Stop
  <2>2. c.found \in Reviews!Profile
    BY <1>1 DEF Reviews!Call
  <2> QED
    BY <1>1, <2>1, <2>2 DEF ReviewsTyped, Reviews!TypeOK
<1> QED
  BY <1>3, <1>4, <1>5, <1>6, <1>7 DEF Reviews!Next

\* Every variable of the ratings has its type, the average of the profile too.
THEOREM ReviewsTypeCorrect == Reviews!Spec => []Reviews!TypeOK
<1>1. ReviewsTyped => Reviews!TypeOK
  BY DEF ReviewsTyped
<1> QED
  BY <1>1, ReviewsTypedInit, ReviewsTypedNext, PTL DEF Reviews!Spec

(***************************************************************************)
(* Reports of customers.                                                   *)
(***************************************************************************)

\* A check that goes on to make a report if the rule still holds.
Reporting(c) == c.op = "rate" => c.total >= 5 /\ c.total <= Checks!Total(rows)

\* Who broke a rule, and still does, is reported or about to be.
OffenderNoticed ==
  due => /\ Checks!Offends(rows)
         /\ Checks!Opened > 0 \/ \E c \in checks : Reporting(c)

\* With one check or report at a time none is made twice.
OneAtATime ==
  /\ \A c, d \in checks : c = d
  /\ kind # "driver" =>
       Checks!Opened <= 1 /\ \A c \in checks : c.op = "save" => Checks!Opened = 0
  /\ kind = "driver" =>
       open["medium"] <= 2 /\ \A c \in checks : c.severity = "medium" => Checks!Opened <= 1

ChecksInv ==
  /\ Checks!TypeOK
  /\ kind = "driver" => \A c \in checks : c.op = "save"
  /\ OffenderNoticed
  /\ ~raced => OneAtATime

LEMMA ChecksStart == Checks!Init => ChecksInv
<1> SUFFICES ASSUME Checks!Init PROVE ChecksInv
  OBVIOUS
<1>1. /\ kind \in Checks!Rules /\ rows = <<>> /\ open = [s \in Checks!Severity |-> 0]
      /\ checks = {} /\ aged = 0 /\ raced = FALSE /\ due = FALSE
  BY DEF Checks!Init
<1>2. Checks!Opened = 0 /\ open["medium"] = 0
  BY <1>1 DEF Checks!Opened, Checks!Severity
<1>3. rows \in Seq(Checks!Row) /\ open \in [Checks!Severity -> Nat] /\ aged \in Nat
  BY <1>1
<1>4. Checks!TypeOK
  BY <1>1, <1>3 DEF Checks!TypeOK
<1> QED
  BY <1>1, <1>2, <1>4 DEF ChecksInv, OffenderNoticed, OneAtATime

\* The reports that are open.
LEMMA OpenedCounts ==
  ASSUME Checks!TypeOK
  PROVE  /\ \A s \in Checks!Severity : open[s] \in Nat /\ open[s] <= Checks!Opened
         /\ Checks!Opened \in Nat
<1>1. open["low"] \in Nat /\ open["medium"] \in Nat /\ open["high"] \in Nat
  BY DEF Checks!TypeOK, Checks!Severity
<1> QED
  BY <1>1 DEF Checks!Opened, Checks!Severity

\* The bookings a rule counts, however many there are.
LEMMA TotalCounts ==
  ASSUME NEW s \in Seq(Checks!Row)
  PROVE  /\ IsFiniteSet({i \in DOMAIN s : s[i].created <= 2})
         /\ Checks!Total(s) = Cardinality({i \in DOMAIN s : s[i].created <= 2})
         /\ Checks!Total(s) \in Nat /\ Checks!Cancelled(s) \in Nat
<1>1. IsFiniteSet(DOMAIN s)
  <2>1. DOMAIN s = 1..Len(s) /\ Len(s) \in Nat
    BY LenProperties
  <2> QED
    BY <2>1, FS_Interval
<1>2. \A S : Checks!Cardinality(S) = Cardinality(S)
  BY DEF Checks!Cardinality, Cardinality
<1>3. /\ IsFiniteSet({i \in DOMAIN s : s[i].created <= 2})
      /\ IsFiniteSet({i \in DOMAIN s : s[i].cancelled /\ Checks!Counts(s[i])})
  BY <1>1, FS_Subset
<1>4. Checks!Total(s) = Cardinality({i \in DOMAIN s : s[i].created <= 2})
  BY <1>2 DEF Checks!Total
<1>5. Checks!Cancelled(s) = Cardinality({i \in DOMAIN s : s[i].cancelled /\ Checks!Counts(s[i])})
  BY <1>2 DEF Checks!Cancelled
<1> QED
  BY <1>3, <1>4, <1>5, FS_CardinalityType

\* A booking that is added, or one whose age stays, makes the total no less.
LEMMA TotalGrows ==
  ASSUME NEW s \in Seq(Checks!Row), NEW t \in Seq(Checks!Row), DOMAIN s \subseteq DOMAIN t,
         \A i \in DOMAIN s : t[i].created = s[i].created
  PROVE  Checks!Total(s) <= Checks!Total(t)
<1> DEFINE S == {i \in DOMAIN s : s[i].created <= 2}
           T == {i \in DOMAIN t : t[i].created <= 2}
<1>1. /\ IsFiniteSet(T) /\ Checks!Total(s) = Cardinality(S) /\ Checks!Total(t) = Cardinality(T)
  BY TotalCounts
<1>2. S \subseteq T
  OBVIOUS
<1> HIDE DEF S, T
<1> QED
  BY <1>1, <1>2, FS_Subset

\* Whatever cancellation and total a rule compares.
LEMMA HoldsForLess ==
  ASSUME NEW n \in Nat, NEW total \in Nat, NEW less \in Nat, Checks!Holds(n, total), kind \in Checks!Rules
  PROVE  /\ kind # "driver"
         /\ kind = "rate" => total >= 5
         /\ (kind = "rate" => less >= 5 /\ less <= total) => Checks!Holds(n, less)
<1>1. CASE kind = "post_accept"
  BY <1>1 DEF Checks!Holds
<1>2. CASE kind = "rate"
  BY <1>2 DEF Checks!Holds
<1>3. CASE kind = "rapid"
  BY <1>3 DEF Checks!Holds
<1>4. CASE kind = "driver"
  BY <1>4 DEF Checks!Holds
<1> QED
  BY <1>1, <1>2, <1>3, <1>4 DEF Checks!Rules

\* The bookings change, but nobody's age, and no call moves.
LEMMA ChecksRows ==
  ASSUME ChecksInv, UNCHANGED <<kind, open, checks, aged, raced>>, rows' \in Seq(Checks!Row),
         DOMAIN rows \subseteq DOMAIN rows', \A i \in DOMAIN rows : rows'[i].created = rows[i].created,
         due' = (due /\ Checks!Offends(rows'))
  PROVE  ChecksInv'
<1>1. Checks!Opened' = Checks!Opened
  BY DEF Checks!Opened
<1>2. /\ Checks!Total(rows) \in Nat /\ Checks!Total(rows') \in Nat
      /\ Checks!Total(rows) <= Checks!Total(rows')
  BY TotalCounts, TotalGrows DEF ChecksInv, Checks!TypeOK
<1>3. Checks!Offends(rows)' = Checks!Offends(rows')
  BY DEF Checks!Offends, Checks!Holds, Checks!Cancelled, Checks!Total, Checks!Counts
<1>4. Checks!Total(rows)' = Checks!Total(rows')
  BY DEF Checks!Total
<1>5. Checks!TypeOK'
  <2>1. due' \in BOOLEAN
    BY DEF ChecksInv, Checks!TypeOK
  <2> QED
    BY <2>1 DEF ChecksInv, Checks!TypeOK
<1>6. \A c \in checks : Reporting(c) => Reporting(c)'
  <2>1. \A c \in checks : c.total \in Nat
    BY DEF ChecksInv, Checks!TypeOK, Checks!Call
  <2> QED
    BY <1>2, <1>4, <2>1 DEF Reporting
<1>7. OffenderNoticed'
  BY <1>1, <1>3, <1>6 DEF ChecksInv, OffenderNoticed
<1>8. ~raced' => OneAtATime'
  BY <1>1 DEF ChecksInv, OneAtATime
<1> QED
  BY <1>5, <1>7, <1>8 DEF ChecksInv

LEMMA ChecksBook == ChecksInv /\ Checks!Book => ChecksInv'
<1> SUFFICES ASSUME ChecksInv, Checks!Book PROVE ChecksInv'
  OBVIOUS
<1>1. /\ rows' = Append(rows, Checks!New) /\ rows \in Seq(Checks!Row) /\ Checks!New \in Checks!Row
      /\ due' = (due /\ Checks!Offends(rows')) /\ UNCHANGED <<kind, open, checks, aged, raced>>
  BY DEF Checks!Book, ChecksInv, Checks!TypeOK, Checks!New, Checks!Row, Checks!Age
<1>2. /\ rows' \in Seq(Checks!Row) /\ DOMAIN rows \subseteq DOMAIN rows'
      /\ \A i \in DOMAIN rows : rows'[i] = rows[i]
  BY <1>1, AppendProperties
<1> QED
  BY <1>1, <1>2, ChecksRows

\* A booking is cancelled, or handed to another driver.
LEMMA RowsWritten ==
  ASSUME rows \in Seq(Checks!Row), NEW i \in DOMAIN rows, Checks!CancelRow(i) \/ Checks!Reassign(i)
  PROVE  /\ rows' \in Seq(Checks!Row) /\ DOMAIN rows \subseteq DOMAIN rows'
         /\ \A j \in DOMAIN rows : rows'[j].created = rows[j].created
<1>1. rows[i] \in Checks!Row
  BY ElementOfSeq
<1>2. \E row \in Checks!Row : row.created = rows[i].created /\ rows' = [rows EXCEPT ![i] = row]
  <2>1. CASE Checks!CancelRow(i)
    <3> DEFINE row == [rows[i] EXCEPT !.cancelled = TRUE, !.updated = 0]
    <3>1. 0 \in Checks!Age
      BY DEF Checks!Age
    <3>2. row \in Checks!Row /\ row.created = rows[i].created
      BY <1>1, <3>1 DEF Checks!Row
    <3>3. rows' = [rows EXCEPT ![i] = row]
      BY <2>1 DEF Checks!CancelRow
    <3> HIDE DEF row
    <3> QED
      BY <3>2, <3>3
  <2>2. CASE Checks!Reassign(i)
    <3> DEFINE row == [rows[i] EXCEPT !.cancelled = FALSE, !.updated = rows[i].created]
    <3>1. row \in Checks!Row /\ row.created = rows[i].created
      BY <1>1 DEF Checks!Row
    <3>2. rows' = [rows EXCEPT ![i] = row]
      BY <2>2 DEF Checks!Reassign
    <3> HIDE DEF row
    <3> QED
      BY <3>1, <3>2
  <2> QED
    BY <2>1, <2>2
<1>3. PICK row \in Checks!Row : row.created = rows[i].created /\ rows' = [rows EXCEPT ![i] = row]
  BY <1>2
<1>4. i \in 1..Len(rows) /\ DOMAIN rows = 1..Len(rows)
  BY LenProperties
<1>5. /\ rows' \in Seq(Checks!Row) /\ Len(rows') = Len(rows)
      /\ \A j \in 1..Len(rows) : rows'[j] = IF j = i THEN row ELSE rows[j]
  BY <1>3, <1>4, ExceptSeq
<1>6. DOMAIN rows' = 1..Len(rows')
  BY <1>5, LenProperties
<1> QED
  BY <1>3, <1>4, <1>5, <1>6

LEMMA ChecksCancelElsewhere ==
  ASSUME ChecksInv, NEW i \in DOMAIN rows, Checks!AdminCancel(i) \/ Checks!Reassign(i)
  PROVE  ChecksInv'
<1>1. Checks!CancelRow(i) \/ Checks!Reassign(i)
  BY DEF Checks!AdminCancel
<1>2. /\ UNCHANGED <<kind, open, checks, aged, raced>>
      /\ due' = (due /\ Checks!Offends(rows'))
  BY DEF Checks!AdminCancel, Checks!Reassign
<1> QED
  BY <1>1, <1>2, RowsWritten, ChecksRows DEF ChecksInv, Checks!TypeOK

\* A check or a report begins.
LEMMA ChecksBegins ==
  ASSUME ChecksInv, NEW op \in {"count", "save"}, NEW severity \in Checks!Severity,
         Checks!Begin(op, severity), UNCHANGED <<kind, open, aged>>,
         rows' \in Seq(Checks!Row), due' \in BOOLEAN, due' => Checks!Offends(rows'),
         kind = "driver" => op = "save" /\ (severity = "medium" => Checks!Opened <= 1),
         kind # "driver" => op = "count"
  PROVE  ChecksInv'
<1>1. PICK n \in 1..MaxCalls :
        checks' = checks \cup {[op |-> op, n |-> n, total |-> 0, severity |-> severity]}
  BY DEF Checks!Begin
<1> DEFINE e == [op |-> op, n |-> n, total |-> 0, severity |-> severity]
<1>2. e \in Checks!Call /\ e.op = op /\ e.severity = severity /\ checks' = checks \cup {e}
  BY <1>1 DEF Checks!Call
<1>3. raced' = (checks # {} \/ (raced /\ Checks!Opened > 1))
  BY DEF Checks!Begin
<1> HIDE DEF e
<1>4. Checks!Opened' = Checks!Opened /\ Checks!Opened \in Nat
  BY OpenedCounts DEF ChecksInv, Checks!Opened
<1>5. Checks!TypeOK'
  <2>1. raced' \in BOOLEAN
    BY <1>3
  <2> QED
    BY <1>2, <2>1 DEF ChecksInv, Checks!TypeOK
<1>6. OffenderNoticed'
  <2>1. Checks!Offends(rows)' = Checks!Offends(rows')
    BY DEF Checks!Offends, Checks!Holds, Checks!Cancelled, Checks!Total, Checks!Counts
  <2>2. Reporting(e)'
    BY <1>2 DEF Reporting
  <2> QED
    BY <1>2, <2>1, <2>2 DEF OffenderNoticed
<1>7. kind = "driver" => \A c \in checks' : c.op = "save"
  BY <1>2 DEF ChecksInv
<1>8. ASSUME ~raced' PROVE OneAtATime'
  <2>1. checks = {} /\ ~(raced /\ Checks!Opened > 1)
    BY <1>3, <1>8
  <2>2. checks' = {e}
    BY <1>2, <2>1
  <2>3. kind # "driver" => Checks!Opened <= 1
    BY <1>4, <2>1 DEF ChecksInv, OneAtATime
  <2>4. open["medium"] <= 2
    <3>1. open["medium"] \in Nat /\ open["medium"] <= Checks!Opened
      BY OpenedCounts DEF ChecksInv, Checks!Severity
    <3>2. CASE raced
      BY <1>4, <2>1, <3>1, <3>2
    <3>3. CASE ~raced /\ kind = "driver"
      BY <3>3 DEF ChecksInv, OneAtATime
    <3>4. CASE ~raced /\ kind # "driver"
      BY <1>4, <2>3, <3>1, <3>4
    <3> QED
      BY <3>2, <3>3, <3>4
  <2> QED
    BY <1>2, <1>4, <2>2, <2>3, <2>4 DEF OneAtATime
<1> QED
  BY <1>5, <1>6, <1>7, <1>8 DEF ChecksInv

LEMMA ChecksCancel ==
  ASSUME ChecksInv, NEW i \in DOMAIN rows, Checks!Cancel(i)
  PROVE  ChecksInv'
<1>1. /\ kind # "driver" /\ Checks!CancelRow(i) /\ Checks!Begin("count", "low")
      /\ due' = Checks!Offends(rows') /\ UNCHANGED <<kind, open, aged>>
  BY DEF Checks!Cancel
<1>2. rows' \in Seq(Checks!Row) /\ rows \in Seq(Checks!Row)
  BY <1>1, RowsWritten DEF ChecksInv, Checks!TypeOK
<1>3. Checks!Offends(rows') \in BOOLEAN
  <2>1. Checks!Total(rows') \in Nat /\ Checks!Cancelled(rows') \in Nat /\ kind \in Checks!Rules
    BY <1>2, TotalCounts DEF ChecksInv, Checks!TypeOK
  <2>2. CASE kind = "post_accept"
    BY <2>1, <2>2 DEF Checks!Offends, Checks!Holds
  <2>3. CASE kind = "rate"
    BY <2>1, <2>3 DEF Checks!Offends, Checks!Holds
  <2>4. CASE kind = "rapid"
    BY <2>1, <2>4 DEF Checks!Offends, Checks!Holds
  <2> QED
    BY <1>1, <2>1, <2>2, <2>3, <2>4 DEF Checks!Rules
<1>4. "low" \in Checks!Severity
  BY DEF Checks!Severity
<1> QED
  BY <1>1, <1>2, <1>3, <1>4, ChecksBegins

LEMMA ChecksReportCustomer == ChecksInv /\ Checks!ReportCustomer => ChecksInv'
<1> SUFFICES ASSUME ChecksInv, Checks!ReportCustomer PROVE ChecksInv'
  OBVIOUS
<1>1. /\ kind = "driver" /\ UNCHANGED <<kind, rows, open, aged, due>>
      /\ Checks!Begin("save", IF Checks!Opened >= 2 THEN "high" ELSE "medium")
  BY DEF Checks!ReportCustomer
<1>2. PICK severity \in Checks!Severity :
        /\ severity = (IF Checks!Opened >= 2 THEN "high" ELSE "medium")
        /\ Checks!Begin("save", severity)
  BY <1>1 DEF Checks!Severity
<1>3. severity = "medium" => Checks!Opened <= 1
  BY <1>2, OpenedCounts DEF ChecksInv
<1>4. due' \in BOOLEAN /\ rows' \in Seq(Checks!Row) /\ (due' => Checks!Offends(rows'))
  BY <1>1 DEF ChecksInv, Checks!TypeOK, OffenderNoticed
<1> QED
  BY <1>1, <1>2, <1>3, <1>4, ChecksBegins

LEMMA ChecksSlide == ChecksInv /\ Checks!Slide => ChecksInv'
<1> SUFFICES ASSUME ChecksInv, Checks!Slide PROVE ChecksInv'
  OBVIOUS
<1>1. /\ aged' = aged + 1 /\ due' = FALSE
      /\ rows' = [i \in DOMAIN rows |-> Checks!Older(rows[i])]
      /\ UNCHANGED <<kind, open, checks, raced>>
  BY DEF Checks!Slide
<1>2. \A row \in Checks!Row : Checks!Older(row) \in Checks!Row
  <2> SUFFICES ASSUME NEW row \in Checks!Row PROVE Checks!Older(row) \in Checks!Row
    OBVIOUS
  <2>1. row.created \in 0..3 /\ row.updated \in 0..3
    BY DEF Checks!Row, Checks!Age
  <2>2. PICK created \in Checks!Age : created = IF row.created = 3 THEN 3 ELSE row.created + 1
    BY <2>1 DEF Checks!Age
  <2>3. PICK updated \in Checks!Age : updated = IF row.updated = 3 THEN 3 ELSE row.updated + 1
    BY <2>1 DEF Checks!Age
  <2>4. Checks!Older(row) = [row EXCEPT !.created = created, !.updated = updated]
    BY <2>2, <2>3 DEF Checks!Older
  <2> QED
    BY <2>4 DEF Checks!Row
<1>3. rows \in Seq(Checks!Row) /\ Len(rows) \in Nat /\ DOMAIN rows = 1..Len(rows)
      /\ \A i \in DOMAIN rows : rows[i] \in Checks!Row
  BY LenProperties, ElementOfSeq DEF ChecksInv, Checks!TypeOK
<1>4. rows' \in [1..Len(rows) -> Checks!Row]
  BY <1>1, <1>2, <1>3
<1>5. rows' \in Seq(Checks!Row)
  BY <1>3, <1>4, SeqDef
<1>6. Checks!Opened' = Checks!Opened
  BY <1>1 DEF Checks!Opened
<1>7. Checks!TypeOK'
  <2>1. aged' \in Nat
    BY <1>1 DEF ChecksInv, Checks!TypeOK
  <2> QED
    BY <1>1, <1>5, <2>1 DEF ChecksInv, Checks!TypeOK
<1> QED
  BY <1>1, <1>6, <1>7 DEF ChecksInv, OffenderNoticed, OneAtATime

\* A check goes on.
LEMMA ChecksContinues ==
  ASSUME ChecksInv, NEW c \in checks, NEW op \in {"count", "rate", "find", "save"}, NEW total \in Nat,
         NEW severity \in Checks!Severity, Checks!Continue(c, op, total, severity)
  PROVE  \E e \in Checks!Call : /\ e.op = op /\ e.total = total /\ e.severity = severity
                                /\ checks' = (checks \ {c}) \cup {e}
<1> DEFINE e == [c EXCEPT !.op = op, !.total = total, !.severity = severity]
<1>1. c \in Checks!Call
  BY DEF ChecksInv, Checks!TypeOK
<1>2. e \in Checks!Call /\ e.op = op /\ e.total = total /\ e.severity = severity
  BY <1>1 DEF Checks!Call
<1>3. checks' = (checks \ {c}) \cup {e}
  BY DEF Checks!Continue
<1> HIDE DEF e
<1> QED
  BY <1>2, <1>3

\* What a step of a check does to the invariant: it returns having seen a
\* reason not to report, or goes on to report.
LEMMA ChecksSteps ==
  ASSUME ChecksInv, NEW c \in checks, kind # "driver",
         UNCHANGED <<kind, rows, open, aged, raced, due>>,
         \/ checks' = checks \ {c} /\ (due => Checks!Opened > 0 \/ ~Reporting(c))
         \/ \E e \in Checks!Call : /\ checks' = (checks \ {c}) \cup {e}
                                   /\ Reporting(c) /\ due => Reporting(e)
                                   /\ e.op = "save" => Checks!Opened = 0
  PROVE  ChecksInv'
<1>1. Checks!Opened' = Checks!Opened /\ Checks!Offends(rows)' = Checks!Offends(rows)
  BY DEF Checks!Opened, Checks!Offends, Checks!Holds, Checks!Cancelled, Checks!Total, Checks!Counts
<1>2. \A d : Reporting(d)' <=> Reporting(d)
  BY DEF Reporting, Checks!Total
<1>3. CASE checks' = checks \ {c} /\ (due => Checks!Opened > 0 \/ ~Reporting(c))
  <2>1. Checks!TypeOK'
    BY <1>3 DEF ChecksInv, Checks!TypeOK
  <2>2. OffenderNoticed'
    BY <1>1, <1>2, <1>3 DEF ChecksInv, OffenderNoticed
  <2>3. ~raced' => OneAtATime'
    BY <1>1, <1>3 DEF ChecksInv, OneAtATime
  <2> QED
    BY <2>1, <2>2, <2>3 DEF ChecksInv
<1>4. ASSUME NEW e \in Checks!Call, checks' = (checks \ {c}) \cup {e},
             Reporting(c) /\ due => Reporting(e), e.op = "save" => Checks!Opened = 0
      PROVE  ChecksInv'
  <2>1. Checks!TypeOK'
    BY <1>4 DEF ChecksInv, Checks!TypeOK
  <2>2. OffenderNoticed'
    BY <1>1, <1>2, <1>4 DEF ChecksInv, OffenderNoticed
  <2>3. ~raced' => OneAtATime'
    BY <1>1, <1>4 DEF ChecksInv, OneAtATime
  <2> QED
    BY <2>1, <2>2, <2>3 DEF ChecksInv
<1> QED
  BY <1>3, <1>4

\* What is known of a check, and of the bookings it counts.
LEMMA ChecksKnown ==
  ASSUME ChecksInv, NEW c \in checks
  PROVE  /\ c \in Checks!Call /\ c.total \in Nat /\ c.severity \in Checks!Severity
         /\ Checks!Total(rows) \in Nat /\ Checks!Cancelled(rows) \in Nat /\ kind \in Checks!Rules
         /\ kind = "driver" => c.op = "save"
<1>1. c \in Checks!Call /\ rows \in Seq(Checks!Row) /\ kind \in Checks!Rules
  BY DEF ChecksInv, Checks!TypeOK
<1> QED
  BY <1>1, TotalCounts DEF ChecksInv, Checks!Call

LEMMA ChecksCountTotal ==
  ASSUME ChecksInv, NEW c \in checks, Checks!CountTotal(c)
  PROVE  ChecksInv'
<1>1. /\ c.op = "count" /\ kind = "rate" /\ UNCHANGED <<kind, rows, open, aged, raced, due>>
      /\ IF Checks!Total(rows) < 5 THEN Checks!Return(c)
         ELSE Checks!Continue(c, "rate", Checks!Total(rows), "low")
  BY DEF Checks!CountTotal
<1>2. Checks!Total(rows) \in Nat /\ Checks!Cancelled(rows) \in Nat /\ kind \in Checks!Rules
  BY ChecksKnown
<1>3. CASE Checks!Total(rows) < 5
  <2>1. ~due
    <3> SUFFICES ASSUME due PROVE FALSE
      OBVIOUS
    <3>1. Checks!Holds(Checks!Cancelled(rows), Checks!Total(rows))
      BY DEF ChecksInv, OffenderNoticed, Checks!Offends
    <3>2. Checks!Total(rows) >= 5
      BY <1>1, <1>2, <3>1, HoldsForLess
    <3> QED
      BY <1>2, <1>3, <3>2
  <2> QED
    BY <1>1, <1>3, <2>1, ChecksSteps DEF Checks!Return
<1>4. CASE ~(Checks!Total(rows) < 5)
  <2>1. "low" \in Checks!Severity
    BY DEF Checks!Severity
  <2>2. PICK e \in Checks!Call : /\ e.op = "rate" /\ e.total = Checks!Total(rows)
                                 /\ checks' = (checks \ {c}) \cup {e}
    BY <1>1, <1>2, <1>4, <2>1, ChecksContinues
  <2>3. Reporting(e)
    BY <1>2, <1>4, <2>2 DEF Reporting
  <2> QED
    BY <1>1, <2>2, <2>3, ChecksSteps
<1> QED
  BY <1>3, <1>4

LEMMA ChecksCountCancelled ==
  ASSUME ChecksInv, NEW c \in checks, Checks!CountCancelled(c)
  PROVE  ChecksInv'
<1> DEFINE cancelled == Checks!Cancelled(rows)
<1>1. /\ c.op = (IF kind = "rate" THEN "rate" ELSE "count")
      /\ UNCHANGED <<kind, rows, open, aged, raced, due>>
      /\ IF Checks!Holds(cancelled, c.total)
         THEN Checks!Continue(c, "find", 0, Checks!SeverityOf(cancelled, c.total))
         ELSE Checks!Return(c)
  BY DEF Checks!CountCancelled
<1>2. /\ Checks!Total(rows) \in Nat /\ cancelled \in Nat /\ kind \in Checks!Rules /\ c.total \in Nat
      /\ kind # "driver"
  BY <1>1, ChecksKnown
<1>3. ASSUME due, Reporting(c) PROVE Checks!Holds(cancelled, c.total)
  <2>1. Checks!Holds(cancelled, Checks!Total(rows))
    BY <1>3 DEF ChecksInv, OffenderNoticed, Checks!Offends
  <2>2. kind = "rate" => c.total >= 5 /\ c.total <= Checks!Total(rows)
    BY <1>1, <1>3 DEF Reporting
  <2> HIDE DEF cancelled
  <2> QED
    BY <1>2, <2>1, <2>2, HoldsForLess
<1> HIDE DEF cancelled
<1>4. CASE Checks!Holds(cancelled, c.total)
  <2>1. Checks!SeverityOf(cancelled, c.total) \in Checks!Severity
    <3>1. CASE kind = "post_accept"
      BY <3>1 DEF Checks!SeverityOf, Checks!Severity
    <3>2. CASE kind = "rate"
      BY <3>2 DEF Checks!SeverityOf, Checks!Severity
    <3>3. CASE kind = "rapid"
      BY <3>3 DEF Checks!SeverityOf, Checks!Severity
    <3> QED
      BY <1>2, <3>1, <3>2, <3>3 DEF Checks!Rules
  <2>2. PICK e \in Checks!Call : e.op = "find" /\ checks' = (checks \ {c}) \cup {e}
    BY <1>1, <1>4, <2>1, ChecksContinues
  <2>3. Reporting(e)
    BY <2>2 DEF Reporting
  <2> QED
    BY <1>1, <1>2, <2>2, <2>3, ChecksSteps
<1>5. CASE ~Checks!Holds(cancelled, c.total)
  BY <1>1, <1>2, <1>3, <1>5, ChecksSteps DEF Checks!Return
<1> QED
  BY <1>4, <1>5

LEMMA ChecksFindExisting ==
  ASSUME ChecksInv, NEW c \in checks, Checks!FindExisting(c)
  PROVE  ChecksInv'
<1>1. /\ c.op = "find" /\ UNCHANGED <<kind, rows, open, aged, raced, due>>
      /\ IF Checks!Opened > 0 THEN Checks!Return(c) ELSE Checks!Continue(c, "save", 0, c.severity)
  BY DEF Checks!FindExisting
<1>2. kind # "driver" /\ c.severity \in Checks!Severity /\ Checks!Opened \in Nat
  BY <1>1, ChecksKnown, OpenedCounts DEF ChecksInv
<1>3. CASE Checks!Opened > 0
  BY <1>1, <1>2, <1>3, ChecksSteps DEF Checks!Return
<1>4. CASE ~(Checks!Opened > 0)
  <2>1. PICK e \in Checks!Call : e.op = "save" /\ checks' = (checks \ {c}) \cup {e}
    BY <1>1, <1>2, <1>4, ChecksContinues
  <2>2. Reporting(e) /\ Checks!Opened = 0
    BY <1>2, <1>4, <2>1 DEF Reporting
  <2> QED
    BY <1>1, <1>2, <2>1, <2>2, ChecksSteps
<1> QED
  BY <1>3, <1>4

LEMMA ChecksSaveReport ==
  ASSUME ChecksInv, NEW c \in checks, Checks!SaveReport(c)
  PROVE  ChecksInv'
<1>1. /\ c.op = "save" /\ open' = [open EXCEPT ![c.severity] = @ + 1] /\ checks' = checks \ {c}
      /\ UNCHANGED <<kind, rows, aged, raced, due>>
  BY DEF Checks!SaveReport, Checks!Return
<1>2. /\ c.severity \in Checks!Severity /\ Checks!Opened \in Nat
      /\ \A s \in Checks!Severity : open[s] \in Nat /\ open[s] <= Checks!Opened
  BY ChecksKnown, OpenedCounts DEF ChecksInv
<1>3. /\ open' \in [Checks!Severity -> Nat]
      /\ \A s \in Checks!Severity : open'[s] = IF s = c.severity THEN open[s] + 1 ELSE open[s]
  BY <1>1, <1>2 DEF ChecksInv, Checks!TypeOK
<1>4. Checks!Opened' = Checks!Opened + 1
  BY <1>2, <1>3 DEF Checks!Opened, Checks!Severity
<1>5. Checks!TypeOK'
  BY <1>1, <1>3 DEF ChecksInv, Checks!TypeOK
<1>6. OffenderNoticed'
  <2>1. Checks!Offends(rows)' = Checks!Offends(rows)
    BY <1>1 DEF Checks!Offends, Checks!Holds, Checks!Cancelled, Checks!Total, Checks!Counts
  <2>2. Checks!Opened' > 0
    BY <1>2, <1>4
  <2> QED
    BY <1>1, <2>1, <2>2 DEF ChecksInv, OffenderNoticed
<1>7. ASSUME ~raced' PROVE OneAtATime'
  <2>1. OneAtATime /\ checks' = {}
    BY <1>1, <1>7 DEF ChecksInv, OneAtATime
  <2>2. kind # "driver" => Checks!Opened' <= 1
    BY <1>1, <1>4, <2>1 DEF OneAtATime
  <2>3. kind = "driver" => open'["medium"] <= 2
    <3>1. CASE c.severity = "medium" /\ kind = "driver"
      <4>1. open["medium"] <= Checks!Opened /\ Checks!Opened <= 1 /\ open["medium"] \in Nat
        BY <1>2, <2>1, <3>1 DEF OneAtATime
      <4> QED
        BY <1>2, <1>3, <3>1, <4>1
    <3>2. CASE c.severity # "medium"
      BY <1>3, <2>1, <3>2 DEF OneAtATime, Checks!Severity
    <3> QED
      BY <3>1, <3>2
  <2> QED
    BY <1>1, <2>1, <2>2, <2>3 DEF OneAtATime
<1> QED
  BY <1>1, <1>5, <1>6, <1>7 DEF ChecksInv

LEMMA ChecksFail ==
  ASSUME ChecksInv, NEW c \in checks, Checks!Fail(c)
  PROVE  ChecksInv'
<1>1. checks' = checks \ {c} /\ due' = FALSE /\ UNCHANGED <<kind, rows, open, aged, raced>>
  BY DEF Checks!Fail, Checks!Return
<1>2. Checks!Opened' = Checks!Opened
  BY <1>1 DEF Checks!Opened
<1> QED
  BY <1>1, <1>2 DEF ChecksInv, Checks!TypeOK, OffenderNoticed, OneAtATime

LEMMA ChecksResolve ==
  ASSUME ChecksInv, NEW s \in Checks!Severity, Checks!ResolveReport(s)
  PROVE  ChecksInv'
<1>1. /\ open[s] > 0 /\ open' = [open EXCEPT ![s] = @ - 1] /\ due' = FALSE
      /\ UNCHANGED <<kind, rows, checks, aged, raced>>
  BY DEF Checks!ResolveReport
<1>2. \A t \in Checks!Severity : open[t] \in Nat /\ open[t] <= Checks!Opened
  BY OpenedCounts DEF ChecksInv
<1>3. /\ open' \in [Checks!Severity -> Nat]
      /\ \A t \in Checks!Severity : open'[t] = IF t = s THEN open[t] - 1 ELSE open[t]
  BY <1>1, <1>2 DEF ChecksInv, Checks!TypeOK
<1>4. Checks!Opened' = Checks!Opened - 1 /\ Checks!Opened \in Nat /\ Checks!Opened > 0
  BY <1>1, <1>2, <1>3 DEF Checks!Opened, Checks!Severity
<1>5. Checks!TypeOK'
  BY <1>1, <1>3 DEF ChecksInv, Checks!TypeOK
<1>6. open'["medium"] <= open["medium"] /\ open["medium"] \in Nat /\ open'["medium"] \in Nat
  BY <1>2, <1>3 DEF Checks!Severity
<1>7. ASSUME ~raced' PROVE OneAtATime'
  <2>1. OneAtATime
    BY <1>1, <1>7 DEF ChecksInv
  <2> QED
    BY <1>1, <1>4, <1>6, <2>1 DEF OneAtATime
<1> QED
  BY <1>1, <1>5, <1>7 DEF ChecksInv, OffenderNoticed

LEMMA ChecksInvNext == ChecksInv /\ [Checks!Next]_(Checks!vars) => ChecksInv'
<1> SUFFICES ASSUME ChecksInv, [Checks!Next]_(Checks!vars) PROVE ChecksInv'
  OBVIOUS
<1>1. CASE UNCHANGED Checks!vars
  <2>1. UNCHANGED <<kind, rows, open, checks, aged, raced, due>>
    BY <1>1 DEF Checks!vars
  <2>2. Checks!Opened' = Checks!Opened /\ Checks!Offends(rows)' = Checks!Offends(rows)
    BY <2>1 DEF Checks!Opened, Checks!Offends, Checks!Holds, Checks!Cancelled, Checks!Total, Checks!Counts
  <2>3. \A c : Reporting(c)' <=> Reporting(c)
    BY <2>1 DEF Reporting, Checks!Total
  <2>4. Checks!TypeOK'
    BY <2>1 DEF ChecksInv, Checks!TypeOK
  <2> QED
    BY <2>1, <2>2, <2>3, <2>4 DEF ChecksInv, OffenderNoticed, OneAtATime
<1>2. ASSUME NEW i \in DOMAIN rows, Checks!Cancel(i) \/ Checks!AdminCancel(i) \/ Checks!Reassign(i)
      PROVE  ChecksInv'
  BY <1>2, ChecksCancel, ChecksCancelElsewhere
<1>3. ASSUME NEW c \in checks, Checks!CallStep(c) PROVE ChecksInv'
  BY <1>3, ChecksCountTotal, ChecksCountCancelled, ChecksFindExisting, ChecksSaveReport, ChecksFail
     DEF Checks!CallStep
<1> QED
  BY <1>1, <1>2, <1>3, ChecksBook, ChecksSlide, ChecksReportCustomer, ChecksResolve DEF Checks!Next

LEMMA ChecksInvGives == ChecksInv => Checks!OffendersReported
  BY DEF ChecksInv, OffenderNoticed, OneAtATime, Checks!OffendersReported

\* Unless two checks overlap no offence is reported twice; and who breaks a
\* rule by a cancellation is reported when the checks are over.
THEOREM OffendersAre == Checks!Spec => []Checks!OffendersReported
  BY ChecksStart, ChecksInvNext, ChecksInvGives, PTL DEF Checks!Spec

LEMMA ChecksRun == ServicesSpec => Checks!Spec
<1>1. ServicesInit => Checks!Init
  BY DEF ServicesInit
<1>2. [ServicesNext]_<<at_work, vars, wallets, ends, funds, uses, banks, reports, desk,
                         rules, rewards, reviews>> => [Checks!Next]_(Checks!vars)
  BY DEF ServicesNext, reports, Checks!vars
<1> QED
  BY <1>1, <1>2, PTL DEF ServicesSpec, Checks!Spec

\* Who breaks a rule is reported, and once, in the services together.
THEOREM OffendersKept == ServicesSpec => []OffendersReported
<1>1. Checks!OffendersReported => OffendersReported
  BY DEF OffendersReported
<1> QED
  BY <1>1, ChecksRun, OffendersAre, PTL
==============================================================================
