---------------------------- MODULE TopupsProofs -----------------------------
(* Theorems about Topups, for every value of its constants. *)
EXTENDS Topups, TLAPS

\* At start every variable has its type.
LEMMA TypedInit == Init => TypeOK
  BY DEF Init, TypeOK, Status

\* No step of a driver, a gateway, an admin or a restart spoils a type.
LEMMA TypedNext == TypeOK /\ [Next]_vars => TypeOK'
  <1> SUFFICES ASSUME TypeOK, [Next]_vars PROVE TypeOK'
    OBVIOUS
  <1> USE DEF TypeOK, Status, Op, Call, CallsOn
  <1>1. ASSUME NEW r \in Refs, Submit(r)
        PROVE  TypeOK'
    BY <1>1 DEF Submit, Start
  <1>2. ASSUME NEW r \in Refs, PlaceLink(r)
        PROVE  TypeOK'
    BY <1>2 DEF PlaceLink, Start
  <1>3. ASSUME NEW r \in Refs, Pay(r)
        PROVE  TypeOK'
    BY <1>3 DEF Pay
  <1>4. ASSUME NEW r \in Refs, Verify(r)
        PROVE  TypeOK'
    BY <1>4 DEF Verify, Start
  <1>5. ASSUME NEW r \in Refs, Webhook(r)
        PROVE  TypeOK'
    BY <1>5 DEF Webhook, Start
  <1>6. ASSUME NEW r \in Refs, NEW op \in Decision, Decide(op, r)
        PROVE  TypeOK'
    BY <1>6 DEF Decide, Decision, Start
  <1>7. ASSUME NEW c \in calls, InsertApproved(c)
        PROVE  TypeOK'
    BY <1>7 DEF InsertApproved, Continue
  <1>8. ASSUME NEW c \in calls, InsertPending(c)
        PROVE  TypeOK'
    BY <1>8 DEF InsertPending, Return
  <1>9. ASSUME NEW c \in calls, LinkCreated(c)
        PROVE  TypeOK'
    BY <1>9 DEF LinkCreated, Continue
  <1>10. ASSUME NEW c \in calls, SaveLink(c)
         PROVE  TypeOK'
    BY <1>10 DEF SaveLink, Return
  <1>11. ASSUME NEW c \in calls, RemoveLink(c)
         PROVE  TypeOK'
    BY <1>11 DEF RemoveLink, Return
  <1>12. ASSUME NEW c \in calls, Flip(c)
         PROVE  TypeOK'
    BY <1>12 DEF Flip, Continue
  <1>13. ASSUME NEW c \in calls, FlippedBefore(c)
         PROVE  TypeOK'
    BY <1>13 DEF FlippedBefore, Return
  <1>14. ASSUME NEW c \in calls, Credit(c)
         PROVE  TypeOK'
    BY <1>14 DEF Credit, Return
  <1>15. ASSUME NEW c \in calls, approveTopupRequest(c)
         PROVE  TypeOK'
    BY <1>15 DEF approveTopupRequest, Continue
  <1>16. ASSUME NEW c \in calls, rejectTopupRequest(c)
         PROVE  TypeOK'
    BY <1>16 DEF rejectTopupRequest, Return
  <1>17. ASSUME Crash
         PROVE  TypeOK'
    BY <1>17 DEF Crash
  <1>18. CASE UNCHANGED vars
    BY <1>18 DEF vars
  <1> QED
    BY <1>1, <1>2, <1>3, <1>4, <1>5, <1>6, <1>7, <1>8, <1>9, <1>10, <1>11, <1>12,
       <1>13, <1>14, <1>15, <1>16, <1>17, <1>18
    DEF Next, CallStep

\* Every reachable state is well typed: rows, references, credits and handlers.
THEOREM TypeCorrect == Spec => []TypeOK
  BY TypedInit, TypedNext, PTL DEF Spec

-----------------------------------------------------------------------------
(***************************************************************************)
(* A row is credited at most once.  That is not inductive: a handler about *)
(* to credit must be the only one, and whoever inserts, links or decides   *)
(* must be alone with the row.                                             *)
(***************************************************************************)

Linking == {"create_link", "save_link", "remove"}
Alone == {"insert"} \cup Linking \cup Decision

\* An approved row has been credited, or one handler is about to; others were
\* not and are not.
Owed(r) ==
  /\ row[r] # "approved" => credits[r] = 0 /\ \A c \in CallsOn(r) : c.op # "credit"
  /\ row[r] = "approved" =>
       \/ credits[r] = 1 /\ \A c \in CallsOn(r) : c.op # "credit"
       \/ credits[r] = 0 /\ \E c \in CallsOn(r) :
            c.op = "credit" /\ \A e \in CallsOn(r) : e.op = "credit" => e = c

\* Who makes the row or decides on it is alone with it.
Undivided(r) ==
  \A c \in CallsOn(r) : c.op \in Alone =>
    /\ CallsOn(r) = {c}
    /\ row[r] = IF c.op = "insert" THEN "none" ELSE "pending"
    /\ c.op \in Linking => via[r] = "link" /\ r \notin linked

\* A link is stored with a row and paid once it is stored, and only Cashfree calls
\* the webhook.
PaidThrough ==
  \A r \in Refs : /\ r \in linked => row[r] # "none"
                  /\ r \in paid /\ via[r] = "link" => r \in linked
                  /\ r \in hooks => via[r] = "cashfree"

Kept(r) == r \notin disturbed => Owed(r) /\ Undivided(r)

CreditInv == TypeOK /\ PaidThrough /\ \A r \in Refs : Kept(r)

\* What is kept of a row is kept by steps that do not concern it.
LEMMA Elsewhere ==
  ASSUME NEW r \in Refs, Kept(r), disturbed \subseteq disturbed', via' = via,
         row'[r] = row[r], credits'[r] = credits[r], CallsOn(r)' = CallsOn(r),
         r \in linked' => r \in linked
  PROVE  Kept(r)'
  BY DEF Kept, Owed, Undivided

\* How the handlers of a row change when one begins, goes on or returns.
LEMMA CallsStart ==
  ASSUME NEW op, NEW s \in Refs, NEW r \in Refs, Start(op, s)
  PROVE  /\ disturbed \subseteq disturbed'
         /\ r # s => CallsOn(r)' = CallsOn(r)
         /\ r = s => \E e : e.op = op /\ e.r = s /\ CallsOn(r)' = CallsOn(r) \cup {e}
  <1>1. PICK n \in (1..MaxCalls) \ {c.n : c \in CallsOn(s)} :
          calls' = calls \cup {[op |-> op, r |-> s, n |-> n]}
    BY DEF Start
  <1>2. disturbed \subseteq disturbed'
    BY DEF Start
  <1>3. r # s => CallsOn(r)' = CallsOn(r)
    BY <1>1 DEF CallsOn
  <1>4. ASSUME r = s
        PROVE  CallsOn(r)' = CallsOn(r) \cup {[op |-> op, r |-> s, n |-> n]}
    BY <1>1, <1>4 DEF CallsOn
  <1>5. [op |-> op, r |-> s, n |-> n].op = op /\ [op |-> op, r |-> s, n |-> n].r = s
    OBVIOUS
  <1> QED BY <1>2, <1>3, <1>4, <1>5

LEMMA CallsContinue ==
  ASSUME calls \subseteq Call, NEW c \in calls, NEW op, NEW r \in Refs, Continue(c, op)
  PROVE  /\ r # c.r => CallsOn(r)' = CallsOn(r)
         /\ r = c.r => \E e : e.op = op /\ e.r = r /\ CallsOn(r)' = (CallsOn(r) \ {c}) \cup {e}
  <1>1. [c EXCEPT !.op = op].r = c.r /\ [c EXCEPT !.op = op].op = op
    BY DEF Call
  <1> QED BY <1>1 DEF Continue, CallsOn

LEMMA CallsReturn ==
  ASSUME NEW c \in calls, NEW r \in Refs, Return(c)
  PROVE  CallsOn(r)' = CallsOn(r) \ {c}
  BY DEF Return, CallsOn

\* A payment goes through a stored link, a webhook comes from Cashfree.
LEMMA PaidNext == TypeOK /\ PaidThrough /\ [Next]_vars => PaidThrough'
  <1> SUFFICES ASSUME TypeOK, PaidThrough, [Next]_vars PROVE PaidThrough'
    OBVIOUS
  <1> USE DEF PaidThrough
  <1>0. row \in [Refs -> Status] /\ \A c \in calls : c.r \in Refs
    BY DEF TypeOK, Call
  <1>1. ASSUME NEW r \in Refs,
               Submit(r) \/ Verify(r) \/ Webhook(r) \/ \E op \in Decision : Decide(op, r)
        PROVE  PaidThrough'
    BY <1>1 DEF Submit, Verify, Webhook, Decide
  <1>2. ASSUME NEW r \in Refs, PlaceLink(r)
        PROVE  PaidThrough'
    BY <1>0, <1>2 DEF PlaceLink
  <1>3. ASSUME NEW r \in Refs, Pay(r)
        PROVE  PaidThrough'
    BY <1>3 DEF Pay
  <1>4. ASSUME NEW c \in calls, InsertApproved(c) \/ InsertPending(c) \/ SaveLink(c) \/ RemoveLink(c)
        PROVE  PaidThrough'
    BY <1>0, <1>4 DEF InsertApproved, InsertPending, SaveLink, RemoveLink
  <1>5. ASSUME NEW c \in calls, Flip(c) \/ approveTopupRequest(c) \/ rejectTopupRequest(c)
        PROVE  PaidThrough'
    BY <1>0, <1>5 DEF Flip, approveTopupRequest, rejectTopupRequest
  <1>6. ASSUME NEW c \in calls, LinkCreated(c) \/ FlippedBefore(c) \/ Credit(c)
        PROVE  PaidThrough'
    BY <1>6 DEF LinkCreated, FlippedBefore, Credit
  <1>7. CASE Crash \/ UNCHANGED vars
    BY <1>7 DEF Crash, vars
  <1> QED BY <1>1, <1>2, <1>3, <1>4, <1>5, <1>6, <1>7 DEF Next, CallStep

\* A handler that works on a row another is working on alone disturbs it.
LEMMA DecidedAlone ==
  ASSUME NEW op, NEW r \in Refs, Start(op, r), r \notin disturbed'
  PROVE  /\ \A c \in CallsOn(r) : c.op \notin Decision
         /\ op \in Decision => CallsOn(r) = {}
  BY DEF Start

\* No step leaves a row credited twice, or credited and not approved, or approved
\* and never to be credited.
LEMMA KeptNext == CreditInv /\ [Next]_vars => \A r \in Refs : Kept(r)'
  <1> SUFFICES ASSUME CreditInv, [Next]_vars, NEW r \in Refs
               PROVE  Kept(r)'
    OBVIOUS
  <1>0. Kept(r) /\ PaidThrough /\ calls \subseteq Call /\ \A c \in calls : c.r \in Refs
    BY DEF CreditInv, TypeOK, Call
  <1>t. row \in [Refs -> Status] /\ credits \in [Refs -> Nat]
    BY DEF CreditInv, TypeOK
  <1>1. ASSUME NEW s \in Refs, Submit(s)
        PROVE  Kept(r)'
    <2>1. CASE r # s
      BY <1>0, <1>1, <2>1, CallsStart, Elsewhere DEF Submit
    <2>2. CASE r = s
      <3>1. PICK e : e.op = "insert" /\ e.r = r /\ CallsOn(r)' = {e}
        BY <1>1, <2>2, CallsStart DEF Submit
      <3> QED BY <1>0, <1>1, <2>2, <3>1, CallsStart DEF Submit, Kept, Owed, Undivided, Linking
    <2> QED BY <2>1, <2>2
  <1>2. ASSUME NEW s \in Refs, PlaceLink(s)
        PROVE  Kept(r)'
    <2>1. CASE r # s
      BY <1>0, <1>2, <1>t, <2>1, CallsStart, Elsewhere DEF PlaceLink
    <2>2. CASE r = s
      <3>1. PICK e : e.op = "create_link" /\ e.r = r /\ CallsOn(r)' = {e}
        BY <1>2, <2>2, CallsStart DEF PlaceLink
      <3> QED BY <1>0, <1>2, <1>t, <2>2, <3>1, CallsStart
          DEF PlaceLink, PaidThrough, Kept, Owed, Undivided, Linking
    <2> QED BY <2>1, <2>2
  <1>3. ASSUME NEW s \in Refs, Pay(s)
        PROVE  Kept(r)'
    BY <1>0, <1>3, Elsewhere DEF Pay, CallsOn
  <1>4. ASSUME NEW s \in Refs, Verify(s)
        PROVE  Kept(r)'
    <2>1. CASE r # s
      BY <1>0, <1>4, <2>1, CallsStart, Elsewhere DEF Verify
    <2>2. ASSUME r = s, r \notin disturbed'
          PROVE  Owed(r)' /\ Undivided(r)'
      <3>1. PICK e : e.op = "flip" /\ e.r = r /\ CallsOn(r)' = CallsOn(r) \cup {e}
        BY <1>4, <2>2, CallsStart DEF Verify
      <3>2. Owed(r) /\ Undivided(r)
        BY <1>0, <1>4, <2>2, CallsStart DEF Verify, Kept
      <3>3. \A c \in CallsOn(r) : c.op \notin Alone
        BY <1>0, <1>4, <2>2, <3>2, DecidedAlone DEF Verify, Undivided, PaidThrough, Alone
      <3> QED BY <1>4, <2>2, <3>1, <3>2, <3>3 DEF Verify, Owed, Undivided, Alone, Linking, Decision
    <2> QED BY <2>1, <2>2 DEF Kept
  <1>5. ASSUME NEW s \in Refs, Webhook(s)
        PROVE  Kept(r)'
    <2>0. CASE UNCHANGED <<calls, disturbed>>
      BY <1>0, <1>5, <2>0, Elsewhere DEF Webhook, CallsOn
    <2>1. CASE Start("flip", s) /\ r # s
      BY <1>0, <1>5, <2>1, CallsStart, Elsewhere DEF Webhook
    <2>2. ASSUME row[s] \in {"pending", "rejected"}, Start("flip", s), r = s, r \notin disturbed'
          PROVE  Owed(r)' /\ Undivided(r)'
      <3>1. PICK e : e.op = "flip" /\ e.r = r /\ CallsOn(r)' = CallsOn(r) \cup {e}
        BY <2>2, CallsStart
      <3>2. Owed(r) /\ Undivided(r)
        BY <1>0, <2>2, CallsStart DEF Kept
      <3>3. \A c \in CallsOn(r) : c.op \notin Alone
        BY <1>0, <1>5, <2>2, <3>2, DecidedAlone DEF Webhook, Undivided, PaidThrough, Alone
      <3> QED BY <1>5, <2>2, <3>1, <3>2, <3>3 DEF Webhook, Owed, Undivided, Alone, Linking, Decision
    <2> QED BY <1>5, <2>0, <2>1, <2>2 DEF Webhook, Kept
  <1>6. ASSUME NEW s \in Refs, NEW op \in Decision, Decide(op, s)
        PROVE  Kept(r)'
    <2>1. CASE r # s
      BY <1>0, <1>6, <2>1, CallsStart, Elsewhere DEF Decide
    <2>2. ASSUME r = s, r \notin disturbed'
          PROVE  Owed(r)' /\ Undivided(r)'
      <3>1. PICK e : e.op = op /\ e.r = r /\ CallsOn(r)' = {e}
        BY <1>6, <2>2, CallsStart, DecidedAlone DEF Decide
      <3>2. Owed(r)
        BY <1>0, <1>6, <2>2, CallsStart DEF Decide, Kept
      <3> QED BY <1>6, <2>2, <3>1, <3>2 DEF Decide, Owed, Undivided, Linking, Decision
    <2> QED BY <2>1, <2>2 DEF Kept
  <1>7. ASSUME NEW c \in calls, InsertApproved(c)
        PROVE  Kept(r)'
    <2>1. CASE r # c.r
      BY <1>0, <1>t, <1>7, <2>1, CallsContinue, Elsewhere DEF InsertApproved
    <2>2. ASSUME r = c.r, r \notin disturbed'
          PROVE  Owed(r)' /\ Undivided(r)'
      <3>1. PICK e : e.op = "credit" /\ e.r = r /\ CallsOn(r)' = (CallsOn(r) \ {c}) \cup {e}
        BY <1>0, <1>7, <2>2, CallsContinue DEF InsertApproved
      <3>2. Owed(r) /\ Undivided(r) /\ c \in CallsOn(r)
        BY <1>0, <1>7, <2>2 DEF InsertApproved, Kept, CallsOn
      <3> QED BY <1>t, <1>7, <2>2, <3>1, <3>2 DEF InsertApproved, Owed, Undivided, Alone, Linking, Decision
    <2> QED BY <2>1, <2>2 DEF Kept
  <1>8. ASSUME NEW c \in calls, InsertPending(c)
        PROVE  Kept(r)'
    <2>1. CASE r # c.r
      BY <1>0, <1>t, <1>8, <2>1, CallsReturn, Elsewhere DEF InsertPending, CallsOn
    <2>2. ASSUME r = c.r, r \notin disturbed'
          PROVE  Owed(r)' /\ Undivided(r)'
      <3>1. CallsOn(r)' = CallsOn(r) \ {c}
        BY <1>8, CallsReturn DEF InsertPending
      <3>2. Owed(r) /\ Undivided(r) /\ c \in CallsOn(r)
        BY <1>0, <1>8, <2>2 DEF InsertPending, Kept, CallsOn
      <3> QED BY <1>t, <1>8, <2>2, <3>1, <3>2 DEF InsertPending, Owed, Undivided, Alone, Linking, Decision
    <2> QED BY <2>1, <2>2 DEF Kept
  <1>9. ASSUME NEW c \in calls, NEW op \in {"save_link", "remove"}, c.op = "create_link", Continue(c, op),
               UNCHANGED <<via, row, linked, credits, disturbed>>
        PROVE  Kept(r)'
    <2>1. CASE r # c.r
      BY <1>0, <1>9, <2>1, CallsContinue, Elsewhere
    <2>2. ASSUME r = c.r, r \notin disturbed
          PROVE  Owed(r)' /\ Undivided(r)'
      <3>1. PICK e : e.op = op /\ e.r = r /\ CallsOn(r)' = (CallsOn(r) \ {c}) \cup {e}
        BY <1>0, <1>9, <2>2, CallsContinue
      <3>2. Owed(r) /\ Undivided(r) /\ c \in CallsOn(r)
        BY <1>0, <2>2 DEF Kept, CallsOn
      <3>3. CallsOn(r) = {c} /\ row[r] = "pending" /\ via[r] = "link" /\ r \notin linked
        BY <1>9, <3>2 DEF Undivided, Alone, Linking
      <3>4. CallsOn(r)' = {e} /\ e.op \in {"save_link", "remove"}
        BY <3>1, <3>3
      <3>5. Owed(r)'
        BY <1>9, <3>2, <3>3, <3>4 DEF Owed
      <3> QED BY <1>9, <3>3, <3>4, <3>5 DEF Undivided, Alone, Linking
    <2> QED BY <1>9, <2>1, <2>2 DEF Kept
  <1>10. ASSUME NEW c \in calls, SaveLink(c)
        PROVE  Kept(r)'
    <2>1. CASE r # c.r
      BY <1>0, <1>t, <1>10, <2>1, CallsReturn, Elsewhere DEF SaveLink, CallsOn
    <2>2. ASSUME r = c.r, r \notin disturbed'
          PROVE  Owed(r)' /\ Undivided(r)'
      <3>1. CallsOn(r)' = CallsOn(r) \ {c}
        BY <1>10, CallsReturn DEF SaveLink
      <3>2. Owed(r) /\ Undivided(r) /\ c \in CallsOn(r)
        BY <1>0, <1>10, <2>2 DEF SaveLink, Kept, CallsOn
      <3> QED BY <1>t, <1>10, <2>2, <3>1, <3>2 DEF SaveLink, Owed, Undivided, Alone, Linking, Decision
    <2> QED BY <2>1, <2>2 DEF Kept
  <1>11. ASSUME NEW c \in calls, RemoveLink(c)
        PROVE  Kept(r)'
    <2>1. CASE r # c.r
      BY <1>0, <1>t, <1>11, <2>1, CallsReturn, Elsewhere DEF RemoveLink, CallsOn
    <2>2. ASSUME r = c.r, r \notin disturbed'
          PROVE  Owed(r)' /\ Undivided(r)'
      <3>1. CallsOn(r)' = CallsOn(r) \ {c}
        BY <1>11, CallsReturn DEF RemoveLink
      <3>2. Owed(r) /\ Undivided(r) /\ c \in CallsOn(r)
        BY <1>0, <1>11, <2>2 DEF RemoveLink, Kept, CallsOn
      <3> QED BY <1>t, <1>11, <2>2, <3>1, <3>2 DEF RemoveLink, Owed, Undivided, Alone, Linking, Decision
    <2> QED BY <2>1, <2>2 DEF Kept
  <1>12. ASSUME NEW c \in calls, Flip(c)
        PROVE  Kept(r)'
    <2>1. CASE r # c.r
      BY <1>0, <1>t, <1>12, <2>1, CallsContinue, Elsewhere DEF Flip
    <2>2. ASSUME r = c.r, r \notin disturbed'
          PROVE  Owed(r)' /\ Undivided(r)'
      <3>1. PICK e : e.op = "credit" /\ e.r = r /\ CallsOn(r)' = (CallsOn(r) \ {c}) \cup {e}
        BY <1>0, <1>12, <2>2, CallsContinue DEF Flip
      <3>2. Owed(r) /\ Undivided(r) /\ c \in CallsOn(r)
        BY <1>0, <1>12, <2>2 DEF Flip, Kept, CallsOn
      <3> QED BY <1>t, <1>12, <2>2, <3>1, <3>2 DEF Flip, Owed, Undivided, Alone, Linking, Decision
    <2> QED BY <2>1, <2>2 DEF Kept
  <1>13. ASSUME NEW c \in calls, FlippedBefore(c)
        PROVE  Kept(r)'
    <2>1. CASE r # c.r
      BY <1>0, <1>t, <1>13, <2>1, CallsReturn, Elsewhere DEF FlippedBefore, CallsOn
    <2>2. ASSUME r = c.r, r \notin disturbed'
          PROVE  Owed(r)' /\ Undivided(r)'
      <3>1. CallsOn(r)' = CallsOn(r) \ {c}
        BY <1>13, CallsReturn DEF FlippedBefore
      <3>2. Owed(r) /\ Undivided(r) /\ c \in CallsOn(r)
        BY <1>0, <1>13, <2>2 DEF FlippedBefore, Kept, CallsOn
      <3> QED BY <1>t, <1>13, <2>2, <3>1, <3>2 DEF FlippedBefore, Owed, Undivided, Alone, Linking, Decision
    <2> QED BY <2>1, <2>2 DEF Kept
  <1>14. ASSUME NEW c \in calls, Credit(c)
        PROVE  Kept(r)'
    <2>1. CASE r # c.r
      BY <1>0, <1>t, <1>14, <2>1, CallsReturn, Elsewhere DEF Credit, CallsOn
    <2>2. ASSUME r = c.r, r \notin disturbed'
          PROVE  Owed(r)' /\ Undivided(r)'
      <3>1. CallsOn(r)' = CallsOn(r) \ {c}
        BY <1>14, CallsReturn DEF Credit
      <3>2. Owed(r) /\ Undivided(r) /\ c \in CallsOn(r)
        BY <1>0, <1>14, <2>2 DEF Credit, Kept, CallsOn
      <3> QED BY <1>t, <1>14, <2>2, <3>1, <3>2 DEF Credit, Owed, Undivided, Alone, Linking, Decision
    <2> QED BY <2>1, <2>2 DEF Kept
  <1>15. ASSUME NEW c \in calls, approveTopupRequest(c)
        PROVE  Kept(r)'
    <2>1. CASE r # c.r
      BY <1>0, <1>t, <1>15, <2>1, CallsContinue, Elsewhere DEF approveTopupRequest
    <2>2. ASSUME r = c.r, r \notin disturbed'
          PROVE  Owed(r)' /\ Undivided(r)'
      <3>1. PICK e : e.op = "credit" /\ e.r = r /\ CallsOn(r)' = (CallsOn(r) \ {c}) \cup {e}
        BY <1>0, <1>15, <2>2, CallsContinue DEF approveTopupRequest
      <3>2. Owed(r) /\ Undivided(r) /\ c \in CallsOn(r)
        BY <1>0, <1>15, <2>2 DEF approveTopupRequest, Kept, CallsOn
      <3> QED BY <1>t, <1>15, <2>2, <3>1, <3>2 DEF approveTopupRequest, Owed, Undivided, Alone, Linking, Decision
    <2> QED BY <2>1, <2>2 DEF Kept
  <1>16. ASSUME NEW c \in calls, rejectTopupRequest(c)
        PROVE  Kept(r)'
    <2>1. CASE r # c.r
      BY <1>0, <1>t, <1>16, <2>1, CallsReturn, Elsewhere DEF rejectTopupRequest, CallsOn
    <2>2. ASSUME r = c.r, r \notin disturbed'
          PROVE  Owed(r)' /\ Undivided(r)'
      <3>1. CallsOn(r)' = CallsOn(r) \ {c}
        BY <1>16, CallsReturn DEF rejectTopupRequest
      <3>2. Owed(r) /\ Undivided(r) /\ c \in CallsOn(r)
        BY <1>0, <1>16, <2>2 DEF rejectTopupRequest, Kept, CallsOn
      <3> QED BY <1>t, <1>16, <2>2, <3>1, <3>2 DEF rejectTopupRequest, Owed, Undivided, Alone, Linking, Decision
    <2> QED BY <2>1, <2>2 DEF Kept
  <1>17. CASE Crash
    <2>1. r \notin disturbed' => r \notin disturbed /\ CallsOn(r) = {}
      BY <1>17 DEF Crash, CallsOn
    <2> QED BY <1>0, <1>17, <2>1 DEF Crash, Kept, Owed, Undivided, CallsOn
  <1>18. CASE UNCHANGED vars
    BY <1>0, <1>18, Elsewhere DEF vars, CallsOn
  <1>19. ASSUME NEW c \in calls, LinkCreated(c)
         PROVE  Kept(r)'
    BY <1>9, <1>19 DEF LinkCreated
  <1> QED
    BY <1>1, <1>2, <1>3, <1>4, <1>5, <1>6, <1>7, <1>8, <1>10, <1>11, <1>12,
       <1>13, <1>14, <1>15, <1>16, <1>17, <1>18, <1>19
    DEF Next, CallStep

\* Credited once: whatever confirms a top-up, in whatever order and however often,
\* and for any number of rows, the wallet is credited once for an approved row and
\* not at all otherwise, unless an admin or a restart disturbed the row.
THEOREM CreditsOnce == Spec => []CreditedOnce
  <1>1. Init => CreditInv
    BY TypedInit DEF Init, CreditInv, PaidThrough, Kept, Owed, Undivided, CallsOn
  <1>2. CreditInv /\ [Next]_vars => CreditInv'
    BY TypedNext, PaidNext, KeptNext DEF CreditInv
  <1>3. CreditInv => CreditedOnce
    BY DEF CreditInv, TypeOK, Kept, Owed, CreditedOnce
  <1> QED BY <1>1, <1>2, <1>3, PTL DEF Spec
=============================================================================
