--------------------------- MODULE AccountsProofs ----------------------------
(* Theorems about Accounts, for every value of its constants. *)
EXTENDS Accounts, TLAPS

\* The bounds are numbers.
LEMMA Bounds == MaxLogins \in Nat /\ MaxCalls \in Nat /\ MaxEarnings \in Nat
  BY AccountsAssumption DEF AccountsAssumption

-----------------------------------------------------------------------------
(***************************************************************************)
(* Rows: what a save leaves, and what a handler makes of the row it read.   *)
(***************************************************************************)

LEMMA UserColumns ==
  ASSUME NEW u
  PROVE  u \in User <=>
           /\ DOMAIN u = {"role", "active", "verified", "deleted", "sid"}
           /\ u = [role |-> u.role, active |-> u.active, verified |-> u.verified, deleted |-> u.deleted, sid |-> u.sid]
           /\ u.role \in {"none", "customer", "driver"} /\ u.active \in BOOLEAN /\ u.verified \in BOOLEAN
           /\ u.deleted \in BOOLEAN /\ u.sid \in 0..MaxLogins
  BY DEF User

LEMMA ProfileColumns ==
  ASSUME NEW p
  PROVE  p \in Profile <=>
           /\ DOMAIN p = {"status", "online", "wallet"}
           /\ p = [status |-> p.status, online |-> p.online, wallet |-> p.wallet]
           /\ p.status \in {"none", "pending", "approved", "rejected"} /\ p.online \in BOOLEAN
           /\ p.wallet \in 0..MaxEarnings
  BY DEF Profile

LEMMA Nobody == NoUser \in User /\ NoProfile \in Profile
  BY Bounds DEF NoUser, NoProfile, User, Profile

\* A save of a row as it was read writes what the handler made of it.
LEMMA SavedUser ==
  ASSUME NEW row \in User, NEW was \in User, NEW new \in User, NEW u \in Saved(row, was, new)
  PROVE  u \in User /\ (row = was => u = new)
  <1>1. CASE u = new
    BY <1>1
  <1>2. CASE u = [f \in DOMAIN row |-> IF new[f] = was[f] THEN row[f] ELSE new[f]]
    <2>1. DOMAIN row = {"role", "active", "verified", "deleted", "sid"} /\ DOMAIN u = DOMAIN row
      BY <1>2, UserColumns
    <2>2. /\ u.role \in {row.role, new.role} /\ u.active \in {row.active, new.active}
          /\ u.verified \in {row.verified, new.verified} /\ u.deleted \in {row.deleted, new.deleted}
          /\ u.sid \in {row.sid, new.sid}
      BY <1>2, <2>1
    <2>3. u = [role |-> u.role, active |-> u.active, verified |-> u.verified, deleted |-> u.deleted, sid |-> u.sid]
      BY <1>2, <2>1, Zenon
    <2>4. u \in User
      BY <2>2, <2>3 DEF User
    <2>5. ASSUME row = was
          PROVE  u = new
      <3>1. \A f \in DOMAIN row : u[f] = new[f]
        BY <1>2, <2>5
      <3>2. DOMAIN new = DOMAIN row
        BY <2>1, UserColumns
      <3> QED BY <1>2, <2>1, <3>1, <3>2, UserColumns
    <2> QED BY <2>4, <2>5
  <1> QED BY <1>1, <1>2 DEF Saved

LEMMA SavedProfile ==
  ASSUME NEW row \in Profile, NEW was \in Profile, NEW new \in Profile, NEW p \in Saved(row, was, new)
  PROVE  p \in Profile /\ (row = was => p = new)
  <1>1. CASE p = new
    BY <1>1
  <1>2. CASE p = [f \in DOMAIN row |-> IF new[f] = was[f] THEN row[f] ELSE new[f]]
    <2>1. DOMAIN row = {"status", "online", "wallet"} /\ DOMAIN p = DOMAIN row
      BY <1>2, ProfileColumns
    <2>2. p.status \in {row.status, new.status} /\ p.online \in {row.online, new.online}
          /\ p.wallet \in {row.wallet, new.wallet}
      BY <1>2, <2>1
    <2>3. p = [status |-> p.status, online |-> p.online, wallet |-> p.wallet]
      BY <1>2, <2>1, Zenon
    <2>4. p \in Profile
      BY <2>2, <2>3 DEF Profile
    <2>5. ASSUME row = was
          PROVE  p = new
      <3>1. \A f \in DOMAIN row : p[f] = new[f]
        BY <1>2, <2>5
      <3>2. DOMAIN new = DOMAIN row
        BY <2>1, ProfileColumns
      <3> QED BY <1>2, <2>1, <3>1, <3>2, ProfileColumns
    <2> QED BY <2>4, <2>5
  <1> QED BY <1>1, <1>2 DEF Saved

-----------------------------------------------------------------------------
(***************************************************************************)
(* Calls: one begins, goes on, or returns.                                 *)
(***************************************************************************)

LEMMA Begun ==
  ASSUME TypeOK, NEW op \in Op, NEW s \in 0..MaxLogins, NEW wu \in User, NEW u \in User,
         NEW wp \in Profile, NEW p \in Profile, Begin(op, s, wu, u, wp, p)
  PROVE  \E e \in Call : /\ calls' = calls \cup {e} /\ e.op = op /\ e.s = s
                         /\ e.wasUser = wu /\ e.user = u /\ e.wasProfile = wp /\ e.profile = p
  <1>1. PICK n \in 1..MaxCalls :
          calls' = calls \cup {[op |-> op, s |-> s, n |-> n,
                                wasUser |-> wu, user |-> u, wasProfile |-> wp, profile |-> p]}
    BY DEF Begin
  <1> DEFINE e == [op |-> op, s |-> s, n |-> n, wasUser |-> wu, user |-> u, wasProfile |-> wp, profile |-> p]
  <1>2. e \in Call
    BY DEF Call
  <1>3. /\ e.op = op /\ e.s = s
        /\ e.wasUser = wu /\ e.user = u /\ e.wasProfile = wp /\ e.profile = p
    OBVIOUS
  <1>4. calls' = calls \cup {e}
    BY <1>1
  <1> HIDE DEF e
  <1> QED BY <1>2, <1>3, <1>4

LEMMA Started ==
  ASSUME TypeOK, NEW op \in Op, NEW s \in 0..MaxLogins, Start(op, s)
  PROVE  \E e \in Call : calls' = calls \cup {e} /\ e.op = op /\ e.s = s
  BY Begun, Nobody DEF Start

LEMMA Continued ==
  ASSUME TypeOK, NEW c \in calls, NEW op \in Op, Continue(c, op)
  PROVE  \E e \in Call : /\ calls' = (calls \ {c}) \cup {e} /\ e.op = op /\ e.s = c.s
                         /\ e.wasUser = c.wasUser /\ e.user = c.user
                         /\ e.wasProfile = c.wasProfile /\ e.profile = c.profile
  <1> DEFINE e == [c EXCEPT !.op = op]
  <1>1. c \in Call /\ e \in Call
    BY DEF TypeOK, Call
  <1>2. /\ e.op = op /\ e.s = c.s /\ e.wasUser = c.wasUser /\ e.user = c.user
        /\ e.wasProfile = c.wasProfile /\ e.profile = c.profile
    BY <1>1 DEF Call
  <1>3. calls' = (calls \ {c}) \cup {e}
    BY DEF Continue
  <1> HIDE DEF e
  <1> QED BY <1>1, <1>2, <1>3

\* A fresh driver's review is noted ...
LEMMA ReviewRead ==
  ASSUME TypeOK, NEW c \in calls, ReadReview(c)
  PROVE  \E e \in Call : /\ calls' = (calls \ {c}) \cup {e} /\ e.op = "save_user" /\ e.s = c.s
                         /\ e.wasUser = c.wasUser /\ e.user.role = c.user.role /\ e.user.active = c.user.active
                         /\ e.user.sid = c.user.sid /\ e.user.verified = (profile.status = "approved")
  <1>1. c \in Call /\ c.user \in User
    BY DEF TypeOK, Call
  <1>2. ASSUME NEW v \in BOOLEAN, NEW u, u = [c.user EXCEPT !.verified = v],
               NEW e, e = [c EXCEPT !.op = "save_user", !.user.verified = v]
        PROVE  /\ e \in Call /\ e.op = "save_user" /\ e.s = c.s /\ e.wasUser = c.wasUser
               /\ e.user.role = c.user.role /\ e.user.active = c.user.active
               /\ e.user.sid = c.user.sid /\ e.user.verified = v
    <2>1. u \in User /\ u.role = c.user.role /\ u.active = c.user.active /\ u.sid = c.user.sid /\ u.verified = v
      BY <1>1, <1>2 DEF User
    <2>2. DOMAIN e = {"op", "s", "n", "wasUser", "user", "wasProfile", "profile"}
      BY <1>1, <1>2 DEF Call
    <2>3. /\ e.op = "save_user" /\ e.s = c.s /\ e.n = c.n /\ e.wasUser = c.wasUser /\ e.user = u
          /\ e.wasProfile = c.wasProfile /\ e.profile = c.profile
      BY <1>1, <1>2 DEF Call
    <2>4. e = [op |-> "save_user", s |-> c.s, n |-> c.n, wasUser |-> c.wasUser, user |-> u,
               wasProfile |-> c.wasProfile, profile |-> c.profile]
      BY <1>2, <2>2, <2>3, Zenon
    <2>5. e \in Call
      BY <1>1, <2>1, <2>4 DEF Call, Op
    <2> QED BY <2>1, <2>3, <2>5
  <1> DEFINE v == profile.status = "approved"
             e == [c EXCEPT !.op = "save_user", !.user.verified = v]
  <1>3. calls' = (calls \ {c}) \cup {e}
    BY DEF ReadReview
  <1>4. v \in BOOLEAN
    OBVIOUS
  <1> HIDE DEF v
  <1>5. /\ e \in Call /\ e.op = "save_user" /\ e.s = c.s /\ e.wasUser = c.wasUser
        /\ e.user.role = c.user.role /\ e.user.active = c.user.active
        /\ e.user.sid = c.user.sid /\ e.user.verified = v
    BY <1>2, <1>4
  <1> HIDE DEF e
  <1> QED BY <1>3, <1>5 DEF v

\* ... the user's row is saved ...
LEMMA UserSaved ==
  ASSUME TypeOK, NEW c \in calls, SaveUser(c)
  PROVE  /\ user' \in User /\ (user = c.wasUser => user' = c.user)
         /\ \E e \in Call : /\ calls' = (calls \ {c}) \cup {e} /\ e.s = c.s
                            /\ e.op = (IF "driver" \in {c.wasUser.role, c.user.role} THEN "offline" ELSE "rotate")
  <1> DEFINE op == IF "driver" \in {c.wasUser.role, c.user.role} THEN "offline" ELSE "rotate"
             e == [c EXCEPT !.op = op, !.wasUser = NoUser, !.user = NoUser]
  <1>1. c \in Call /\ c.user \in User /\ c.wasUser \in User /\ user \in User /\ op \in Op
    BY DEF TypeOK, Call, Op
  <1>2. calls' = (calls \ {c}) \cup {e} /\ user' \in Saved(user, c.wasUser, c.user)
    BY DEF SaveUser
  <1> HIDE DEF op
  <1>3. e.op = op /\ e.s = c.s /\ e.wasUser = NoUser /\ e.user = NoUser
    BY <1>1 DEF Call
  <1>4. e \in Call
    BY <1>1, Nobody DEF Call
  <1> HIDE DEF e
  <1> QED BY <1>1, <1>2, <1>3, <1>4, SavedUser DEF op

\* ... and a session begins.
LEMMA SessionRotated ==
  ASSUME TypeOK, NEW c \in calls, RotateSession(c)
  PROVE  /\ minted + 1 \in 0..MaxLogins
         /\ user' \in User /\ user'.sid = minted + 1 /\ user'.role = user.role /\ user'.active = user.active
         /\ user'.verified = user.verified
         /\ \E e \in Call : calls' = (calls \ {c}) \cup {e} /\ e.op = "token" /\ e.s = minted + 1
  <1> DEFINE e == [c EXCEPT !.op = "token", !.s = minted + 1]
  <1>1. minted + 1 \in 0..MaxLogins /\ c \in Call /\ user \in User
    BY Bounds DEF RotateSession, TypeOK
  <1>2. /\ user' \in User /\ user'.sid = minted + 1 /\ user'.role = user.role /\ user'.active = user.active
        /\ user'.verified = user.verified
    BY <1>1 DEF RotateSession, User
  <1>3. calls' = (calls \ {c}) \cup {e}
    BY DEF RotateSession
  <1>4. e.op = "token" /\ e.s = minted + 1 /\ e \in Call
    BY <1>1 DEF Call, Op
  <1> HIDE DEF e
  <1> QED BY <1>1, <1>2, <1>3, <1>4

\* A profile goes online or offline, or gets a status; a user a flag.
LEMMA OnlineSet ==
  ASSUME NEW p \in Profile, NEW b \in BOOLEAN
  PROVE  LET q == [p EXCEPT !.online = b]
         IN  q \in Profile /\ q.online = b /\ q.status = p.status /\ q.wallet = p.wallet
  BY DEF Profile

LEMMA StatusSet ==
  ASSUME NEW p \in Profile, NEW s \in {"pending", "approved", "rejected"}
  PROVE  LET q == [p EXCEPT !.status = s]
         IN  q \in Profile /\ q.online = p.online /\ q.status = s /\ q.wallet = p.wallet
  BY DEF Profile

LEMMA ActiveSet ==
  ASSUME NEW w \in User, NEW b \in BOOLEAN
  PROVE  LET u == [w EXCEPT !.active = b]
         IN  u \in User /\ u.role = w.role /\ u.verified = w.verified /\ u.active = b /\ u.sid = w.sid
  BY DEF User

LEMMA VerifiedSet ==
  ASSUME NEW w \in User, NEW b \in BOOLEAN
  PROVE  LET u == [w EXCEPT !.verified = b]
         IN  u \in User /\ u.role = w.role /\ u.verified = b /\ u.active = w.active /\ u.sid = w.sid
  BY DEF User


-----------------------------------------------------------------------------
(***************************************************************************)
(* The inductive invariant.                                                *)
(***************************************************************************)

\* What a handler read of the two rows, and what it will save: only the role,
\* the review flag and the status of the documents can differ.
ReadOK(c) ==
  /\ c.op = "edit_user" => c.user = c.wasUser
  /\ c.op \in {"revoke", "review", "save_user"} =>
       /\ c.user.role # "none" /\ c.user.sid = c.wasUser.sid /\ c.user.active = c.wasUser.active
       /\ c.user.role = c.wasUser.role => c.op = "save_user"
       /\ c.user.role = "driver" /\ c.wasUser.role = "driver" => c.user.verified = c.wasUser.verified
  /\ c.op \in {"onboard", "edit_profile"} =>
       /\ c.profile.wallet = c.wasProfile.wallet /\ c.profile.online = c.wasProfile.online
       /\ \/ c.profile.status = c.wasProfile.status
          \/ c.wasProfile.status # "approved" /\ c.profile.status = "pending"

\* The sessions: the row names the latest; a session whose token is still to be
\* saved, or whose logout is still to be noted, is on no phone, and no two
\* handlers have the same one; a login between a change of the role and its own
\* session is the only reason why the latest session of a driver has no refresh
\* token.
Renewing == \E c \in calls : c.op \in {"review", "save_user", "offline", "rotate"}
Leaving(c) == c.op \in {"token", "logout"}
SessionInv ==
  /\ user.sid = minted /\ held \subseteq 1..minted /\ switched <= minted
  /\ \A c \in calls : Leaving(c) => c.s \in 1..minted /\ c.s \notin held
  /\ \A c \in calls : c.op = "token" => c.s > switched
  /\ \A c, d \in calls : c.op = "token" /\ Leaving(d) /\ c.s = d.s => c = d
  /\ user.role = "driver" /\ user.sid \in held => user.sid \in sessions \/ Renewing
  /\ \A s \in sessions : s > switched

\* A driver who is online is signed in, or some handler is about to take the
\* driver offline; so it is wherever a session is about to be renewed.
Good == user.role = "driver" /\ user.active /\ user.sid \in held
LeavingIt == \E c \in calls : c.op \in {"offline", "logout", "logout_offline", "scrub", "suspend"}
OnlineInv ==
  /\ profile.online => Good \/ LeavingIt
  /\ profile.online /\ (\E c \in calls : c.op = "rotate") => LeavingIt

\* One admin at most is between the two rows of a review, and the profile has
\* what that admin decided.
Deciding(c) == c.op \in {"verify", "unverify"}
ReviewInv ==
  /\ profile.wallet = earned
  /\ user.role = "none" => /\ profile.status = "none"
                           /\ \A c \in calls : c.op \notin {"onboard", "edit_profile"}
  /\ \A c \in calls : Deciding(c) => (c.op = "verify" <=> profile.status = "approved")
  /\ \A c, d \in calls : Deciding(c) /\ Deciding(d) => c = d
  /\ Reviewing \/ (user.role = "driver" => (user.verified <=> profile.status = "approved"))

AccountInv ==
  /\ TypeOK
  /\ \A c \in calls : ReadOK(c)
  /\ ~disturbed => SessionInv /\ OnlineInv /\ ReviewInv

LEMMA InitInv ==
  Init => AccountInv
  <1> SUFFICES ASSUME Init
               PROVE  AccountInv
    OBVIOUS
  <1>1. TypeOK
    <2>1. user \in User /\ profile \in Profile
      BY Nobody DEF Init
    <2>2. /\ sessions \subseteq 1..MaxLogins /\ held \subseteq 1..MaxLogins
          /\ minted \in 0..MaxLogins /\ earned \in 0..MaxEarnings /\ switched \in 0..MaxLogins
      BY Bounds DEF Init
    <2>3. calls \subseteq Call /\ disturbed \in BOOLEAN
      BY DEF Init
    <2> QED BY <2>1, <2>2, <2>3 DEF TypeOK
  <1>2. SessionInv /\ OnlineInv /\ ReviewInv
    BY DEF Init, NoUser, NoProfile, SessionInv, OnlineInv, ReviewInv
  <1>3. \A c \in calls : ReadOK(c)
    BY DEF Init
  <1> QED BY <1>1, <1>2, <1>3 DEF AccountInv

-----------------------------------------------------------------------------
(***************************************************************************)
(* Steps that only begin a handler.                                        *)
(***************************************************************************)

Rows == <<user, profile, sessions, held, minted, earned, switched, disturbed>>

\* A handler that has only read leaves the invariant, unless it is one that
\* others must know of.
LEMMA StartKeeps ==
  ASSUME AccountInv, ~disturbed, UNCHANGED Rows,
         NEW e \in Call, calls' = calls \cup {e}, ReadOK(e),
         ~Leaving(e), ~Deciding(e),
         e.op = "rotate" => user.role # "driver",
         e.op \in {"onboard", "edit_profile"} => user.role # "none"
  PROVE  AccountInv'
  <1>1. TypeOK'
    BY DEF AccountInv, TypeOK, Rows
  <1>2. \A c \in calls' : ReadOK(c)
    BY DEF AccountInv
  <1>3. SessionInv'
    <2>1. SessionInv
      BY DEF AccountInv
    <2> QED BY <2>1 DEF SessionInv, Rows, Renewing, Leaving
  <1>4. OnlineInv'
    <2>1. OnlineInv
      BY DEF AccountInv
    <2> QED BY <2>1 DEF OnlineInv, Good, Rows, LeavingIt
  <1>5. ReviewInv'
    <2>1. ReviewInv
      BY DEF AccountInv
    <2> QED BY <2>1 DEF ReviewInv, Rows, Deciding, Reviewing
  <1> QED BY <1>1, <1>2, <1>3, <1>4, <1>5 DEF AccountInv, ReadOK

LEMMA VerifyOtpKeeps ==
  ASSUME AccountInv, ~disturbed, NEW role \in {"customer", "driver"}, VerifyOtp(role)
  PROVE  AccountInv'
  <1>1. TypeOK /\ user \in User /\ UNCHANGED Rows /\ user.verified \in BOOLEAN
    BY DEF AccountInv, TypeOK, VerifyOtp, Rows, User
  <1> DEFINE op == IF role # user.role THEN "revoke" ELSE "save_user"
             v == user.verified \/ role = "customer"
             u == [user EXCEPT !.role = role, !.verified = v]
  <1>2. v \in BOOLEAN /\ op \in Op /\ 0 \in 0..MaxLogins
    BY Bounds DEF Op
  <1>3. u \in User /\ u.role = role /\ u.verified = v /\ u.active = user.active /\ u.sid = user.sid
    <2>1. u = [user EXCEPT !.role = role, !.verified = v]
      OBVIOUS
    <2>2. ASSUME NEW x \in BOOLEAN, NEW w, w = [user EXCEPT !.role = role, !.verified = x]
          PROVE  w \in User /\ w.role = role /\ w.verified = x /\ w.active = user.active /\ w.sid = user.sid
      <3>1. DOMAIN w = {"role", "active", "verified", "deleted", "sid"}
        BY <1>1, <2>2 DEF User
      <3>2. /\ w.role = role /\ w.verified = x /\ w.active = user.active
            /\ w.deleted = user.deleted /\ w.sid = user.sid
        BY <1>1, <2>2 DEF User
      <3>3. w = [role |-> role, active |-> user.active, verified |-> x, deleted |-> user.deleted, sid |-> user.sid]
        BY <2>2, <3>1, <3>2, Zenon
      <3> QED BY <1>1, <3>2, <3>3 DEF User
    <2> HIDE DEF u, v
    <2> QED BY <1>2, <2>1, <2>2
  <1>4. Begin(op, 0, user, u, NoProfile, NoProfile)
    BY DEF VerifyOtp, StartWithUser
  <1> HIDE DEF u
  <1>5. PICK e \in Call : calls' = calls \cup {e} /\ e.op = op /\ e.wasUser = user /\ e.user = u
    <2> HIDE DEF op
    <2> QED BY <1>1, <1>2, <1>3, <1>4, Nobody, Begun
  <1>6. ReadOK(e)
    BY <1>1, <1>3, <1>5 DEF ReadOK
  <1> QED BY <1>1, <1>5, <1>6, StartKeeps DEF Leaving, Deciding

LEMMA EmailLoginKeeps ==
  ASSUME AccountInv, ~disturbed, EmailLogin
  PROVE  AccountInv'
  <1>1. TypeOK /\ UNCHANGED Rows /\ 0 \in 0..MaxLogins
    BY Bounds DEF AccountInv, EmailLogin, Rows
  <1>2. PICK e \in Call : /\ calls' = calls \cup {e}
                          /\ e.op = (IF user.role = "driver" THEN "offline" ELSE "rotate")
    BY <1>1, Started DEF EmailLogin, Op
  <1>3. ReadOK(e)
    BY <1>2 DEF ReadOK
  <1> QED BY <1>1, <1>2, <1>3, StartKeeps DEF Leaving, Deciding

LEMMA EditUserKeeps ==
  ASSUME AccountInv, ~disturbed, NEW s \in held, EditUser(s)
  PROVE  AccountInv'
  <1>1. TypeOK /\ user \in User /\ UNCHANGED Rows /\ s \in 0..MaxLogins
    BY Bounds DEF AccountInv, TypeOK, EditUser, Rows
  <1>2. PICK e \in Call : calls' = calls \cup {e} /\ e.op = "edit_user" /\ e.wasUser = user /\ e.user = user
    BY <1>1, Nobody, Begun DEF EditUser, StartWithUser, Op
  <1>3. ReadOK(e)
    BY <1>2 DEF ReadOK
  <1> QED BY <1>1, <1>2, <1>3, StartKeeps DEF Leaving, Deciding

LEMMA GoOnlineKeeps ==
  ASSUME AccountInv, ~disturbed, NEW s \in held, GoOnline(s)
  PROVE  AccountInv'
  <1>1. TypeOK /\ UNCHANGED Rows /\ s \in 0..MaxLogins
    BY Bounds DEF AccountInv, TypeOK, GoOnline, Rows
  <1>2. PICK e \in Call : calls' = calls \cup {e} /\ e.op = "online"
    BY <1>1, Started DEF GoOnline, Op
  <1>3. ReadOK(e)
    BY <1>2 DEF ReadOK
  <1> QED BY <1>1, <1>2, <1>3, StartKeeps DEF Leaving, Deciding

LEMMA ReadProfileKeeps ==
  ASSUME AccountInv, ~disturbed, NEW s \in held, NEW op \in {"onboard", "edit_profile"}, ReadProfile(op, s)
  PROVE  AccountInv'
  <1>1. /\ TypeOK /\ profile \in Profile /\ UNCHANGED Rows /\ s \in 0..MaxLogins
        /\ op \in Op /\ user.role = "driver"
    BY Bounds DEF AccountInv, TypeOK, ReadProfile, Rows, Op
  <1> DEFINE p == IF op = "onboard" /\ profile.status # "approved"
                  THEN [profile EXCEPT !.status = "pending"] ELSE profile
  <1>2. /\ p \in Profile /\ p.wallet = profile.wallet /\ p.online = profile.online
        /\ p.status # profile.status => profile.status # "approved" /\ p.status = "pending"
    <2>1. CASE op = "onboard" /\ profile.status # "approved"
      <3> DEFINE q == [profile EXCEPT !.status = "pending"]
      <3>1. q \in Profile /\ q.online = profile.online /\ q.status = "pending" /\ q.wallet = profile.wallet
        BY <1>1, StatusSet
      <3>2. p = q
        BY <2>1
      <3> HIDE DEF p, q
      <3> QED BY <2>1, <3>1, <3>2
    <2>2. CASE ~(op = "onboard" /\ profile.status # "approved")
      BY <1>1, <2>2
    <2> QED BY <2>1, <2>2
  <1>3. Begin(op, s, NoUser, NoUser, profile, p)
    BY DEF ReadProfile, StartWithProfile
  <1> HIDE DEF p
  <1>4. PICK e \in Call : calls' = calls \cup {e} /\ e.op = op /\ e.wasProfile = profile /\ e.profile = p
    BY <1>1, <1>2, <1>3, Nobody, Begun
  <1>5. ReadOK(e)
    BY <1>2, <1>4 DEF ReadOK
  <1> QED BY <1>1, <1>4, <1>5, StartKeeps DEF Leaving, Deciding

-----------------------------------------------------------------------------
(***************************************************************************)
(* Steps of the person and of the admins that write a row.                 *)
(***************************************************************************)

LEMMA RegisterKeeps ==
  ASSUME AccountInv, ~disturbed, NEW role \in {"customer", "driver"}, Register(role)
  PROVE  AccountInv'
  <1>1. /\ TypeOK /\ SessionInv /\ OnlineInv /\ ReviewInv
        /\ user \in User /\ profile \in Profile /\ user.role = "none" /\ profile.status = "none"
        /\ UNCHANGED <<sessions, held, minted, earned, switched, disturbed>>
    BY DEF AccountInv, TypeOK, Register, ReviewInv
  <1>2. /\ user' \in User /\ user'.role = role /\ user'.verified = (role # "driver")
        /\ user'.active /\ user'.sid = user.sid
    <2>1. ASSUME NEW v \in BOOLEAN, NEW u, u = [user EXCEPT !.role = role, !.active = TRUE, !.verified = v]
          PROVE  u \in User /\ u.role = role /\ u.verified = v /\ u.active /\ u.sid = user.sid
      <3>1. DOMAIN u = {"role", "active", "verified", "deleted", "sid"}
        BY <1>1, <2>1 DEF User
      <3>2. /\ u.role = role /\ u.verified = v /\ u.active = TRUE
            /\ u.deleted = user.deleted /\ u.sid = user.sid
        BY <1>1, <2>1 DEF User
      <3>3. u = [role |-> role, active |-> TRUE, verified |-> v, deleted |-> user.deleted, sid |-> user.sid]
        BY <2>1, <3>1, <3>2, Zenon
      <3> QED BY <1>1, <3>2, <3>3 DEF User
    <2> DEFINE v == role # "driver"
    <2>2. v \in BOOLEAN /\ user' = [user EXCEPT !.role = role, !.active = TRUE, !.verified = v]
      BY DEF Register
    <2> HIDE DEF v
    <2>3. user' \in User /\ user'.role = role /\ user'.verified = v /\ user'.active /\ user'.sid = user.sid
      BY <2>1, <2>2
    <2> QED BY <2>3 DEF v
  <1>3. /\ profile' \in Profile /\ profile'.online = profile.online /\ profile'.wallet = profile.wallet
        /\ profile'.status \in {"none", "pending"}
    <2>1. CASE profile' = profile
      BY <1>1, <2>1
    <2>2. CASE profile' = [profile EXCEPT !.status = "pending"]
      BY <1>1, <2>2, StatusSet
    <2> QED BY <2>1, <2>2 DEF Register
  <1>4. PICK e \in Call : calls' = calls \cup {e} /\ e.op = "rotate"
    BY <1>1, Bounds, Started DEF Register, Op
  <1>5. TypeOK'
    BY <1>1, <1>2, <1>3, <1>4 DEF TypeOK
  <1>6. \A c \in calls' : ReadOK(c)
    BY <1>4 DEF AccountInv, ReadOK
  <1>7. SessionInv'
    BY <1>1, <1>2, <1>4 DEF SessionInv, Renewing, Leaving
  <1>8. OnlineInv'
    BY <1>1, <1>3, <1>4 DEF OnlineInv, Good, LeavingIt
  <1>9. ReviewInv'
    BY <1>1, <1>2, <1>3, <1>4 DEF ReviewInv, Deciding, Reviewing
  <1> QED BY <1>5, <1>6, <1>7, <1>8, <1>9 DEF AccountInv, ReadOK

LEMMA LogoutKeeps ==
  ASSUME AccountInv, ~disturbed, NEW s \in held, Logout(s)
  PROVE  AccountInv'
  <1>1. /\ TypeOK /\ SessionInv /\ OnlineInv /\ ReviewInv /\ s \in 0..MaxLogins /\ held' = held \ {s}
        /\ UNCHANGED <<user, profile, sessions, minted, earned, switched, disturbed>>
    BY Bounds DEF AccountInv, TypeOK, Logout
  <1>2. PICK e \in Call : calls' = calls \cup {e} /\ e.op = "logout" /\ e.s = s
    BY <1>1, Started DEF Logout, Op
  <1>3. TypeOK'
    BY <1>1, <1>2 DEF TypeOK
  <1>4. \A c \in calls' : ReadOK(c)
    BY <1>2 DEF AccountInv, ReadOK
  <1>5. SessionInv'
    BY <1>1, <1>2 DEF SessionInv, Renewing, Leaving
  <1>6. OnlineInv'
    BY <1>1, <1>2 DEF OnlineInv, LeavingIt
  <1>7. ReviewInv'
    BY <1>1, <1>2 DEF ReviewInv, Deciding, Reviewing
  <1> QED BY <1>3, <1>4, <1>5, <1>6, <1>7 DEF AccountInv, ReadOK

LEMMA DeleteAccountKeeps ==
  ASSUME AccountInv, ~disturbed, NEW s \in held, DeleteAccount(s)
  PROVE  AccountInv'
  <1>1. /\ TypeOK /\ SessionInv /\ OnlineInv /\ ReviewInv /\ s \in 0..MaxLogins /\ held' = held \ {s}
        /\ UNCHANGED <<user, profile, sessions, minted, earned, switched, disturbed>>
    BY Bounds DEF AccountInv, TypeOK, DeleteAccount
  <1>2. PICK e \in Call : calls' = calls \cup {e} /\ e.op = (IF user.role = "driver" THEN "scrub" ELSE "erase")
    BY <1>1, Started DEF DeleteAccount, Op
  <1>3. TypeOK'
    BY <1>1, <1>2 DEF TypeOK
  <1>4. \A c \in calls' : ReadOK(c)
    BY <1>2 DEF AccountInv, ReadOK
  <1>5. SessionInv'
    BY <1>1, <1>2 DEF SessionInv, Renewing, Leaving
  <1>6. OnlineInv'
    BY <1>1, <1>2 DEF OnlineInv, Good, LeavingIt
  <1>7. ReviewInv'
    BY <1>1, <1>2 DEF ReviewInv, Deciding, Reviewing
  <1> QED BY <1>3, <1>4, <1>5, <1>6, <1>7 DEF AccountInv, ReadOK

LEMMA GoOfflineKeeps ==
  ASSUME AccountInv, ~disturbed, NEW s \in held, GoOffline(s)
  PROVE  AccountInv'
  <1>1. /\ TypeOK /\ SessionInv /\ OnlineInv /\ ReviewInv /\ profile \in Profile
        /\ profile' = [profile EXCEPT !.online = FALSE]
        /\ UNCHANGED <<user, sessions, held, minted, earned, calls, switched, disturbed>>
    BY DEF AccountInv, TypeOK, GoOffline
  <1>2. /\ profile' \in Profile /\ ~profile'.online
        /\ profile'.status = profile.status /\ profile'.wallet = profile.wallet
    BY <1>1, OnlineSet
  <1>3. TypeOK'
    BY <1>1, <1>2 DEF TypeOK
  <1>4. \A c \in calls' : ReadOK(c)
    BY <1>1 DEF AccountInv
  <1>5. SessionInv'
    BY <1>1 DEF SessionInv, Renewing
  <1>6. OnlineInv'
    BY <1>2 DEF OnlineInv
  <1>7. ReviewInv'
    BY <1>1, <1>2 DEF ReviewInv, Reviewing
  <1> QED BY <1>3, <1>4, <1>5, <1>6, <1>7 DEF AccountInv, ReadOK

LEMMA ReviewKeeps ==
  ASSUME AccountInv, ~disturbed, NEW status \in {"approved", "rejected"}, Review(status)
  PROVE  AccountInv'
  <1>1. /\ TypeOK /\ SessionInv /\ OnlineInv /\ ReviewInv /\ profile \in Profile
        /\ profile.status # "none" /\ profile' = [profile EXCEPT !.status = status]
        /\ UNCHANGED <<user, sessions, held, minted, earned, switched>>
    BY DEF AccountInv, TypeOK, Review
  <1>2. /\ profile' \in Profile /\ profile'.online = profile.online
        /\ profile'.status = status /\ profile'.wallet = profile.wallet
    BY <1>1, StatusSet
  <1>3. PICK e \in Call : calls' = calls \cup {e} /\ e.op = (IF status = "approved" THEN "verify" ELSE "unverify")
    BY <1>1, Bounds, Started DEF Review, Op
  <1>4. TypeOK'
    <2>1. disturbed' \in BOOLEAN
      BY DEF Review, Upset
    <2> QED BY <1>1, <1>2, <1>3, <2>1 DEF TypeOK
  <1>5. \A c \in calls' : ReadOK(c)
    BY <1>3 DEF AccountInv, ReadOK
  <1>6. SessionInv'
    BY <1>1, <1>3 DEF SessionInv, Renewing, Leaving
  <1>7. OnlineInv'
    BY <1>1, <1>2, <1>3 DEF OnlineInv, Good, LeavingIt
  <1>8. ~disturbed' => ReviewInv'
    <2>1. ~disturbed' => ~Reviewing
      BY DEF Review, Upset
    <2> QED BY <1>1, <1>2, <1>3, <2>1 DEF ReviewInv, Deciding, Reviewing
  <1> QED BY <1>4, <1>5, <1>6, <1>7, <1>8 DEF AccountInv, ReadOK

LEMMA DeactivateKeeps ==
  ASSUME AccountInv, ~disturbed, Deactivate
  PROVE  AccountInv'
  <1>1. /\ TypeOK /\ SessionInv /\ OnlineInv /\ ReviewInv /\ user \in User
        /\ user' = [user EXCEPT !.active = FALSE]
        /\ UNCHANGED <<profile, sessions, held, minted, earned, switched, disturbed>>
    BY DEF AccountInv, TypeOK, Deactivate
  <1>2. user' \in User /\ user'.role = user.role /\ user'.verified = user.verified /\ user'.sid = user.sid
    BY <1>1, ActiveSet
  <1>3. CASE user.role = "customer" /\ UNCHANGED calls
    <2>1. TypeOK'
      BY <1>1, <1>2, <1>3 DEF TypeOK
    <2>2. SessionInv'
      BY <1>1, <1>2, <1>3 DEF SessionInv, Renewing
    <2>3. OnlineInv'
      BY <1>1, <1>3 DEF OnlineInv, Good, LeavingIt
    <2>4. ReviewInv'
      BY <1>1, <1>2, <1>3 DEF ReviewInv, Reviewing
    <2> QED BY <1>3, <2>1, <2>2, <2>3, <2>4 DEF AccountInv, ReadOK
  <1>4. CASE Start("suspend", 0)
    <2>1. PICK e \in Call : calls' = calls \cup {e} /\ e.op = "suspend"
      BY <1>1, <1>4, Bounds, Started DEF Op
    <2>2. TypeOK'
      BY <1>1, <1>2, <2>1 DEF TypeOK
    <2>3. \A c \in calls' : ReadOK(c)
      BY <2>1 DEF AccountInv, ReadOK
    <2>4. SessionInv'
      BY <1>1, <1>2, <2>1 DEF SessionInv, Renewing, Leaving
    <2>5. OnlineInv'
      BY <2>1 DEF OnlineInv, LeavingIt
    <2>6. ReviewInv'
      BY <1>1, <1>2, <2>1 DEF ReviewInv, Deciding, Reviewing
    <2> QED BY <2>2, <2>3, <2>4, <2>5, <2>6 DEF AccountInv, ReadOK
  <1> QED BY <1>3, <1>4 DEF Deactivate

LEMMA ActivateKeeps ==
  ASSUME AccountInv, ~disturbed, Activate
  PROVE  AccountInv'
  <1>1. /\ TypeOK /\ SessionInv /\ OnlineInv /\ ReviewInv /\ user \in User
        /\ user' = [user EXCEPT !.active = TRUE]
        /\ UNCHANGED <<profile, sessions, held, minted, earned, calls, switched, disturbed>>
    BY DEF AccountInv, TypeOK, Activate
  <1>2. /\ user' \in User /\ user'.role = user.role /\ user'.active
        /\ user'.verified = user.verified /\ user'.sid = user.sid
    BY <1>1, ActiveSet
  <1>3. TypeOK'
    BY <1>1, <1>2 DEF TypeOK
  <1>4. SessionInv'
    BY <1>1, <1>2 DEF SessionInv, Renewing
  <1>5. OnlineInv'
    BY <1>1, <1>2 DEF OnlineInv, Good, LeavingIt
  <1>6. ReviewInv'
    BY <1>1, <1>2 DEF ReviewInv, Reviewing
  <1> QED BY <1>1, <1>3, <1>4, <1>5, <1>6 DEF AccountInv, ReadOK

LEMMA EarnKeeps ==
  ASSUME AccountInv, ~disturbed, Earn
  PROVE  AccountInv'
  <1>1. /\ TypeOK /\ SessionInv /\ OnlineInv /\ ReviewInv /\ profile \in Profile
        /\ profile.wallet = earned /\ earned < MaxEarnings /\ earned' = earned + 1
        /\ profile' = [profile EXCEPT !.wallet = profile.wallet + 1]
        /\ UNCHANGED <<user, sessions, held, minted, calls, switched, disturbed>>
    BY DEF AccountInv, TypeOK, Earn, ReviewInv
  <1>2. earned + 1 \in 0..MaxEarnings
    BY <1>1, Bounds DEF TypeOK
  <1>3. /\ profile' \in Profile /\ profile'.online = profile.online
        /\ profile'.status = profile.status /\ profile'.wallet = earned + 1
    BY <1>1, <1>2 DEF Profile
  <1>4. TypeOK'
    BY <1>1, <1>2, <1>3 DEF TypeOK
  <1>5. SessionInv'
    BY <1>1 DEF SessionInv, Renewing
  <1>6. OnlineInv'
    BY <1>1, <1>3 DEF OnlineInv, Good, LeavingIt
  <1>7. ReviewInv'
    BY <1>1, <1>3 DEF ReviewInv, Reviewing
  <1> QED BY <1>1, <1>4, <1>5, <1>6, <1>7 DEF AccountInv, ReadOK

-----------------------------------------------------------------------------
(***************************************************************************)
(* Steps of a login.                                                       *)
(***************************************************************************)

LEMMA RevokeAllKeeps ==
  ASSUME AccountInv, ~disturbed, NEW c \in calls, RevokeAll(c)
  PROVE  AccountInv'
  <1>1. /\ TypeOK /\ SessionInv /\ OnlineInv /\ ReviewInv /\ c.op = "revoke" /\ ReadOK(c)
        /\ sessions' = {} /\ switched' = minted
        /\ UNCHANGED <<user, profile, held, minted, earned>>
    BY DEF AccountInv, RevokeAll
  <1>2. PICK e \in Call : /\ calls' = (calls \ {c}) \cup {e} /\ e.wasUser = c.wasUser /\ e.user = c.user
                          /\ e.op = (IF c.user.role = "driver" THEN "review" ELSE "save_user")
    BY <1>1, Continued DEF RevokeAll, Op
  <1>3. TypeOK'
    <2>1. disturbed' \in BOOLEAN
      BY DEF RevokeAll, Upset
    <2> QED BY <1>1, <1>2, <2>1 DEF TypeOK
  <1>4. \A d \in calls' : ReadOK(d)
    <2>1. ReadOK(e)
      BY <1>1, <1>2 DEF ReadOK
    <2> QED BY <1>2, <2>1 DEF AccountInv
  <1>5. ~disturbed' => SessionInv'
    <2>1. ~disturbed' => ~BeginningSession
      BY DEF RevokeAll, Upset
    <2>2. user \in User /\ minted \in Nat
      BY <1>1, Bounds DEF TypeOK
    <2> QED BY <1>1, <1>2, <2>1, <2>2 DEF SessionInv, Renewing, Leaving, BeginningSession
  <1>6. OnlineInv'
    BY <1>1, <1>2 DEF OnlineInv, Good, LeavingIt
  <1>7. ReviewInv'
    BY <1>1, <1>2 DEF ReviewInv, Deciding, Reviewing
  <1> QED BY <1>3, <1>4, <1>5, <1>6, <1>7 DEF AccountInv, ReadOK

LEMMA ReadReviewKeeps ==
  ASSUME AccountInv, ~disturbed, NEW c \in calls, ReadReview(c)
  PROVE  AccountInv'
  <1>1. /\ TypeOK /\ SessionInv /\ OnlineInv /\ ReviewInv /\ c.op = "review" /\ ReadOK(c)
        /\ UNCHANGED Rows
    BY DEF AccountInv, ReadReview, Rows
  <1>2. PICK e \in Call : /\ calls' = (calls \ {c}) \cup {e} /\ e.op = "save_user"
                          /\ e.wasUser = c.wasUser /\ e.user.role = c.user.role /\ e.user.active = c.user.active
                          /\ e.user.sid = c.user.sid
    BY <1>1, ReviewRead
  <1>3. TypeOK'
    BY <1>1, <1>2 DEF TypeOK, Rows
  <1>4. \A d \in calls' : ReadOK(d)
    <2>1. ReadOK(e)
      BY <1>1, <1>2 DEF ReadOK
    <2> QED BY <1>2, <2>1 DEF AccountInv
  <1>5. SessionInv'
    BY <1>1, <1>2 DEF SessionInv, Renewing, Leaving, Rows
  <1>6. OnlineInv'
    BY <1>1, <1>2 DEF OnlineInv, Good, LeavingIt, Rows
  <1>7. ReviewInv'
    BY <1>1, <1>2 DEF ReviewInv, Deciding, Reviewing, Rows
  <1> QED BY <1>3, <1>4, <1>5, <1>6, <1>7 DEF AccountInv, ReadOK

LEMMA SaveUserKeeps ==
  ASSUME AccountInv, ~disturbed, NEW c \in calls, SaveUser(c)
  PROVE  AccountInv'
  <1>1. /\ TypeOK /\ SessionInv /\ OnlineInv /\ ReviewInv /\ c.op = "save_user" /\ ReadOK(c)
        /\ UNCHANGED <<profile, sessions, held, minted, earned, switched>>
    BY DEF AccountInv, SaveUser
  <1>2. user' \in User /\ (user = c.wasUser => user' = c.user)
    BY <1>1, UserSaved
  <1>3. PICK e \in Call : /\ calls' = (calls \ {c}) \cup {e}
                          /\ e.op = (IF "driver" \in {c.wasUser.role, c.user.role} THEN "offline" ELSE "rotate")
    BY <1>1, UserSaved
  <1>4. TypeOK'
    <2>1. disturbed' \in BOOLEAN
      BY DEF SaveUser, Upset
    <2> QED BY <1>1, <1>2, <1>3, <2>1 DEF TypeOK
  <1>5. \A d \in calls' : ReadOK(d)
    BY <1>3 DEF AccountInv, ReadOK
  <1>6. ASSUME ~disturbed'
        PROVE  SessionInv' /\ OnlineInv' /\ ReviewInv'
    <2>1. user = c.wasUser /\ user' = c.user /\ ~Outdated(c)
      BY <1>2, <1>6 DEF SaveUser, Upset
    <2>2. /\ user'.role # "none" /\ user'.sid = user.sid /\ user'.active = user.active
          /\ user'.role = "driver" /\ user.role = "driver" => user'.verified = user.verified
      BY <1>1, <2>1 DEF ReadOK
    <2>3. SessionInv'
      BY <1>1, <1>3, <2>2 DEF SessionInv, Renewing, Leaving
    <2>4. OnlineInv'
      BY <1>1, <1>3, <2>1, <2>2 DEF OnlineInv, Good, LeavingIt
    <2>5. ReviewInv'
      BY <1>1, <1>3, <2>1, <2>2 DEF ReviewInv, Deciding, Reviewing, Outdated
    <2> QED BY <2>3, <2>4, <2>5
  <1> QED BY <1>4, <1>5, <1>6 DEF AccountInv, ReadOK

LEMMA TakeOfflineKeeps ==
  ASSUME AccountInv, ~disturbed, NEW c \in calls, TakeOffline(c)
  PROVE  AccountInv'
  <1>1. /\ TypeOK /\ SessionInv /\ OnlineInv /\ ReviewInv /\ c.op = "offline" /\ profile \in Profile
        /\ profile' = [profile EXCEPT !.online = FALSE]
        /\ UNCHANGED <<user, sessions, held, minted, earned, switched, disturbed>>
    BY DEF AccountInv, TypeOK, TakeOffline
  <1>2. PICK e \in Call : calls' = (calls \ {c}) \cup {e} /\ e.op = "rotate"
    BY <1>1, Continued DEF TakeOffline, Op
  <1>3. /\ profile' \in Profile /\ ~profile'.online
        /\ profile'.status = profile.status /\ profile'.wallet = profile.wallet
    BY <1>1, OnlineSet
  <1>4. TypeOK'
    BY <1>1, <1>2, <1>3 DEF TypeOK
  <1>5. \A d \in calls' : ReadOK(d)
    BY <1>2 DEF AccountInv, ReadOK
  <1>6. SessionInv'
    BY <1>1, <1>2 DEF SessionInv, Renewing, Leaving
  <1>7. OnlineInv'
    BY <1>3 DEF OnlineInv
  <1>8. ReviewInv'
    BY <1>1, <1>2, <1>3 DEF ReviewInv, Deciding, Reviewing
  <1> QED BY <1>4, <1>5, <1>6, <1>7, <1>8 DEF AccountInv, ReadOK

LEMMA RotateSessionKeeps ==
  ASSUME AccountInv, ~disturbed, NEW c \in calls, RotateSession(c)
  PROVE  AccountInv'
  <1>1. /\ TypeOK /\ SessionInv /\ OnlineInv /\ ReviewInv /\ c.op = "rotate" /\ minted' = minted + 1
        /\ UNCHANGED <<profile, sessions, held, earned, switched, disturbed>>
    BY DEF AccountInv, RotateSession
  <1>2. /\ minted + 1 \in 0..MaxLogins
        /\ user' \in User /\ user'.sid = minted + 1 /\ user'.role = user.role
        /\ user'.verified = user.verified
    BY <1>1, SessionRotated
  <1>3. PICK e \in Call : calls' = (calls \ {c}) \cup {e} /\ e.op = "token" /\ e.s = minted + 1
    BY <1>1, SessionRotated
  <1>4. minted \in Nat /\ switched \in Nat /\ \A d \in calls : d.s \in Nat
    BY <1>1, Bounds DEF TypeOK, Call
  <1>5. TypeOK'
    BY <1>1, <1>2, <1>3 DEF TypeOK
  <1>6. \A d \in calls' : ReadOK(d)
    BY <1>3 DEF AccountInv, ReadOK
  <1>7. SessionInv'
    BY <1>1, <1>2, <1>3, <1>4 DEF SessionInv, Leaving
  <1>8. OnlineInv'
    BY <1>1, <1>3 DEF OnlineInv, LeavingIt
  <1>9. ReviewInv'
    BY <1>1, <1>2, <1>3 DEF ReviewInv, Deciding, Reviewing
  <1> QED BY <1>5, <1>6, <1>7, <1>8, <1>9 DEF AccountInv, ReadOK

\* A handler that returns leaves what the others have read.
LEMMA Returned ==
  ASSUME AccountInv, NEW c \in calls, Return(c)
  PROVE  (\A d \in calls' : ReadOK(d)) /\ calls' \subseteq Call /\ calls' = calls \ {c} /\ c \in Call
  BY DEF AccountInv, Return, TypeOK

LEMMA SaveTokenKeeps ==
  ASSUME AccountInv, ~disturbed, NEW c \in calls, SaveToken(c)
  PROVE  AccountInv'
  <1>1. /\ TypeOK /\ SessionInv /\ OnlineInv /\ ReviewInv /\ c.op = "token" /\ Return(c)
        /\ sessions' = sessions \cup {c.s} /\ held' = held \cup {c.s}
        /\ UNCHANGED <<user, profile, minted, earned, switched, disturbed>>
    BY DEF AccountInv, SaveToken
  <1>2. calls' = calls \ {c} /\ calls' \subseteq Call
    BY <1>1, Returned
  <1>3. c.s \in 1..minted /\ c.s > switched /\ c.s \in 1..MaxLogins
    BY <1>1, Bounds DEF SessionInv, Leaving, TypeOK
  <1>4. TypeOK'
    BY <1>1, <1>2, <1>3 DEF TypeOK
  <1>5. SessionInv'
    BY <1>1, <1>2, <1>3 DEF SessionInv, Renewing, Leaving
  <1>6. OnlineInv'
    BY <1>1, <1>2 DEF OnlineInv, Good, LeavingIt
  <1>7. ReviewInv'
    BY <1>1, <1>2 DEF ReviewInv, Deciding, Reviewing
  <1> QED BY <1>1, <1>4, <1>5, <1>6, <1>7, Returned DEF AccountInv, ReadOK

-----------------------------------------------------------------------------
(***************************************************************************)
(* Steps of the other handlers.                                            *)
(***************************************************************************)

LEMMA EditUserSaveKeeps ==
  ASSUME AccountInv, ~disturbed, NEW c \in calls, EditUserSave(c)
  PROVE  AccountInv'
  <1>1. /\ TypeOK /\ SessionInv /\ OnlineInv /\ ReviewInv /\ c.op = "edit_user" /\ ReadOK(c) /\ Return(c)
        /\ UNCHANGED <<profile, sessions, held, minted, earned, switched>>
    BY DEF AccountInv, EditUserSave
  <1>2. calls' = calls \ {c} /\ calls' \subseteq Call /\ c \in Call
    BY <1>1, Returned
  <1>3. user' \in User /\ (user = c.wasUser => user' = c.user)
    <2>1. user \in User /\ c.wasUser \in User /\ c.user \in User
      BY <1>1, <1>2 DEF TypeOK, Call
    <2> QED BY <2>1, SavedUser DEF EditUserSave
  <1>4. TypeOK'
    <2>1. disturbed' \in BOOLEAN
      BY DEF EditUserSave, Upset
    <2> QED BY <1>1, <1>2, <1>3, <2>1 DEF TypeOK
  <1>5. ASSUME ~disturbed'
        PROVE  SessionInv' /\ OnlineInv' /\ ReviewInv'
    <2>1. user' = user
      BY <1>1, <1>3, <1>5 DEF EditUserSave, Upset, ReadOK
    <2>2. SessionInv'
      BY <1>1, <1>2, <2>1 DEF SessionInv, Renewing, Leaving
    <2>3. OnlineInv'
      BY <1>1, <1>2, <2>1 DEF OnlineInv, Good, LeavingIt
    <2>4. ReviewInv'
      BY <1>1, <1>2, <2>1 DEF ReviewInv, Deciding, Reviewing
    <2> QED BY <2>2, <2>3, <2>4
  <1> QED BY <1>1, <1>4, <1>5, Returned DEF AccountInv, ReadOK

LEMMA LogoutRevokeKeeps ==
  ASSUME AccountInv, ~disturbed, NEW c \in calls, LogoutRevoke(c)
  PROVE  AccountInv'
  <1>1. /\ TypeOK /\ SessionInv /\ OnlineInv /\ ReviewInv /\ c.op = "logout" /\ sessions' = {}
        /\ UNCHANGED <<user, profile, held, minted, earned, switched>>
    BY DEF AccountInv, LogoutRevoke
  <1>2. PICK e \in Call : calls' = (calls \ {c}) \cup {e} /\ e.op = "logout_offline"
    BY <1>1, Continued DEF LogoutRevoke, Op
  <1>3. TypeOK'
    <2>1. disturbed' \in BOOLEAN
      BY DEF LogoutRevoke, Upset
    <2> QED BY <1>1, <1>2, <2>1 DEF TypeOK
  <1>4. \A d \in calls' : ReadOK(d)
    BY <1>2 DEF AccountInv, ReadOK
  <1>5. ~disturbed' => SessionInv'
    <2>1. ~disturbed' => ~BeginningSession /\ (user.role = "driver" => user.sid = c.s)
      BY DEF LogoutRevoke, Upset
    <2> QED BY <1>1, <1>2, <2>1 DEF SessionInv, Leaving, BeginningSession
  <1>6. OnlineInv'
    BY <1>1, <1>2 DEF OnlineInv, LeavingIt
  <1>7. ReviewInv'
    BY <1>1, <1>2 DEF ReviewInv, Deciding, Reviewing
  <1> QED BY <1>3, <1>4, <1>5, <1>6, <1>7 DEF AccountInv, ReadOK

LEMMA ScrubProfileKeeps ==
  ASSUME AccountInv, ~disturbed, NEW c \in calls, ScrubProfile(c)
  PROVE  AccountInv'
  <1>1. /\ TypeOK /\ SessionInv /\ OnlineInv /\ ReviewInv /\ c.op = "scrub" /\ profile \in Profile
        /\ profile' = [profile EXCEPT !.online = FALSE]
        /\ UNCHANGED <<user, sessions, held, minted, earned, switched, disturbed>>
    BY DEF AccountInv, TypeOK, ScrubProfile
  <1>2. PICK e \in Call : calls' = (calls \ {c}) \cup {e} /\ e.op = "erase"
    BY <1>1, Continued DEF ScrubProfile, Op
  <1>3. /\ profile' \in Profile /\ ~profile'.online
        /\ profile'.status = profile.status /\ profile'.wallet = profile.wallet
    BY <1>1, OnlineSet
  <1>4. TypeOK'
    BY <1>1, <1>2, <1>3 DEF TypeOK
  <1>5. \A d \in calls' : ReadOK(d)
    BY <1>2 DEF AccountInv, ReadOK
  <1>6. SessionInv'
    BY <1>1, <1>2 DEF SessionInv, Renewing, Leaving
  <1>7. OnlineInv'
    BY <1>3 DEF OnlineInv
  <1>8. ReviewInv'
    BY <1>1, <1>2, <1>3 DEF ReviewInv, Deciding, Reviewing
  <1> QED BY <1>4, <1>5, <1>6, <1>7, <1>8 DEF AccountInv, ReadOK

LEMMA EraseUserKeeps ==
  ASSUME AccountInv, ~disturbed, NEW c \in calls, EraseUser(c)
  PROVE  AccountInv'
  <1>1. /\ TypeOK /\ SessionInv /\ OnlineInv /\ ReviewInv /\ c.op = "erase" /\ user \in User /\ Return(c)
        /\ user' = [user EXCEPT !.deleted = TRUE, !.active = FALSE]
        /\ UNCHANGED <<profile, sessions, held, minted, earned, switched>>
    BY DEF AccountInv, TypeOK, EraseUser
  <1>2. calls' = calls \ {c} /\ calls' \subseteq Call
    BY <1>1, Returned
  <1>3. user' \in User /\ user'.role = user.role /\ user'.verified = user.verified /\ user'.sid = user.sid
    <2>1. ASSUME NEW u, u = [user EXCEPT !.deleted = TRUE, !.active = FALSE]
          PROVE  u \in User /\ u.role = user.role /\ u.verified = user.verified /\ u.sid = user.sid
      <3>1. DOMAIN u = {"role", "active", "verified", "deleted", "sid"}
        BY <1>1, <2>1 DEF User
      <3>2. /\ u.role = user.role /\ u.verified = user.verified /\ u.active = FALSE
            /\ u.deleted = TRUE /\ u.sid = user.sid
        BY <1>1, <2>1 DEF User
      <3>3. u = [role |-> user.role, active |-> FALSE, verified |-> user.verified, deleted |-> TRUE,
                 sid |-> user.sid]
        BY <2>1, <3>1, <3>2, Zenon
      <3> QED BY <1>1, <3>2, <3>3 DEF User
    <2> QED BY <1>1, <2>1
  <1>4. TypeOK'
    <2>1. disturbed' \in BOOLEAN
      BY DEF EraseUser, Upset
    <2> QED BY <1>1, <1>2, <1>3, <2>1 DEF TypeOK
  <1>5. SessionInv'
    BY <1>1, <1>2, <1>3 DEF SessionInv, Renewing, Leaving
  <1>6. ~disturbed' => OnlineInv'
    BY <1>1 DEF OnlineInv, EraseUser, Upset
  <1>7. ReviewInv'
    BY <1>1, <1>2, <1>3 DEF ReviewInv, Deciding, Reviewing
  <1> QED BY <1>1, <1>4, <1>5, <1>6, <1>7, Returned DEF AccountInv, ReadOK

LEMMA SetOnlineKeeps ==
  ASSUME AccountInv, ~disturbed, NEW c \in calls, SetOnline(c)
  PROVE  AccountInv'
  <1>1. /\ TypeOK /\ SessionInv /\ OnlineInv /\ ReviewInv /\ c.op = "online" /\ profile \in Profile /\ Return(c)
        /\ UNCHANGED <<user, sessions, held, minted, earned, switched>>
    BY DEF AccountInv, TypeOK, SetOnline
  <1>2. calls' = calls \ {c} /\ calls' \subseteq Call
    BY <1>1, Returned
  <1>3. profile' \in Profile /\ profile'.status = profile.status /\ profile'.wallet = profile.wallet
    <2> DEFINE b == profile.status # "none"
    <2>1. b \in BOOLEAN /\ profile' = [profile EXCEPT !.online = b]
      BY DEF SetOnline
    <2> HIDE DEF b
    <2> QED BY <1>1, <2>1, OnlineSet
  <1>4. TypeOK'
    <2>1. disturbed' \in BOOLEAN
      BY DEF SetOnline, Upset
    <2> QED BY <1>1, <1>2, <1>3, <2>1 DEF TypeOK
  <1>5. SessionInv'
    BY <1>1, <1>2 DEF SessionInv, Renewing, Leaving
  <1>6. ASSUME ~disturbed'
        PROVE  OnlineInv'
    <2>1. SignedIn(c.s) /\ user.role = "driver" /\ ~\E d \in calls \ {c} : d.op = "rotate"
      BY <1>6 DEF SetOnline, Upset
    <2>2. user.sid = c.s /\ Good
      <3>1. c.s \in 1..minted /\ user.sid = minted
        BY <1>1, <2>1 DEF SignedIn, SessionInv
      <3>2. minted \in Nat
        BY <1>1, Bounds DEF TypeOK
      <3>3. user.sid # 0
        BY <3>1, <3>2
      <3> QED BY <2>1, <3>3 DEF SignedIn, Accepted, Good
    <2> QED BY <1>1, <1>2, <2>1, <2>2 DEF OnlineInv, Good
  <1>7. ReviewInv'
    BY <1>1, <1>2, <1>3 DEF ReviewInv, Deciding, Reviewing
  <1> QED BY <1>1, <1>4, <1>5, <1>6, <1>7, Returned DEF AccountInv, ReadOK

LEMMA SaveProfileKeeps ==
  ASSUME AccountInv, ~disturbed, NEW c \in calls, SaveProfile(c)
  PROVE  AccountInv'
  <1>1. /\ TypeOK /\ SessionInv /\ OnlineInv /\ ReviewInv /\ ReadOK(c) /\ c \in Call
        /\ c.op \in {"onboard", "edit_profile"} /\ profile \in Profile
        /\ UNCHANGED <<user, sessions, held, minted, earned, switched>>
    BY DEF AccountInv, TypeOK, SaveProfile
  <1>2. \/ Return(c)
        \/ \E e \in Call : /\ calls' = (calls \ {c}) \cup {e} /\ e.op = "edit_profile"
                            /\ e.wasProfile = e.profile
    <2> DEFINE e == [c EXCEPT !.op = "edit_profile", !.wasProfile = c.profile]
    <2>1. e \in Call /\ e.op = "edit_profile" /\ e.wasProfile = c.profile /\ e.profile = c.profile
      BY <1>1 DEF Call, Op
    <2>2. Return(c) \/ calls' = (calls \ {c}) \cup {e}
      BY DEF SaveProfile
    <2> HIDE DEF e
    <2> QED BY <2>1, <2>2
  <1>7. /\ calls' \subseteq Call
        /\ \A d \in calls' : ReadOK(d)
        /\ \A d \in calls \ {c} : d \in calls'
        /\ \A d \in calls' : d \in calls \/ d.op = "edit_profile"
    <2>1. CASE Return(c)
      BY <1>1, <2>1, Returned DEF AccountInv, Return
    <2>2. ASSUME NEW e \in Call, calls' = (calls \ {c}) \cup {e}, e.op = "edit_profile", e.wasProfile = e.profile
          PROVE  ReadOK(e)
      BY <2>2 DEF ReadOK
    <2> QED BY <1>1, <1>2, <2>1, <2>2 DEF AccountInv, TypeOK
  <1>3. profile' \in Profile /\ (profile = c.wasProfile => profile' = c.profile)
    <2>1. CASE c.wasProfile.status = "none" /\ profile.status # "none"
      BY <1>1, <2>1 DEF SaveProfile
    <2>2. CASE profile' \in Saved(profile, c.wasProfile, c.profile)
      <3>1. c.wasProfile \in Profile /\ c.profile \in Profile
        BY <1>1 DEF Call
      <3> QED BY <1>1, <2>2, <3>1, SavedProfile
    <2> QED BY <2>1, <2>2 DEF SaveProfile
  <1>4. TypeOK'
    <2>1. disturbed' \in BOOLEAN
      BY DEF SaveProfile, Upset
    <2> QED BY <1>1, <1>3, <1>7, <2>1 DEF TypeOK
  <1>5. SessionInv'
    BY <1>1, <1>7 DEF SessionInv, Renewing, Leaving
  <1>6. ASSUME ~disturbed'
        PROVE  OnlineInv' /\ ReviewInv'
    <2>1. profile = c.wasProfile /\ profile' = c.profile
      BY <1>3, <1>6 DEF SaveProfile, Upset
    <2>2. /\ profile'.online = profile.online /\ profile'.wallet = profile.wallet
          /\ profile'.status # profile.status => profile.status # "approved" /\ profile'.status = "pending"
      BY <1>1, <2>1 DEF ReadOK
    <2>3. OnlineInv'
      BY <1>1, <1>7, <2>2 DEF OnlineInv, Good, LeavingIt
    <2>4. ReviewInv'
      BY <1>1, <1>7, <2>2 DEF ReviewInv, Deciding, Reviewing
    <2> QED BY <2>3, <2>4
  <1> QED BY <1>4, <1>5, <1>6, <1>7 DEF AccountInv, ReadOK

LEMMA SetVerifiedKeeps ==
  ASSUME AccountInv, ~disturbed, NEW c \in calls, SetVerified(c)
  PROVE  AccountInv'
  <1>1. /\ TypeOK /\ SessionInv /\ OnlineInv /\ ReviewInv /\ Deciding(c) /\ user \in User /\ Return(c)
        /\ UNCHANGED <<profile, sessions, held, minted, earned, switched, disturbed>>
    BY DEF AccountInv, TypeOK, SetVerified, Deciding
  <1>2. calls' = calls \ {c} /\ calls' \subseteq Call
    BY <1>1, Returned
  <1>3. /\ user' \in User /\ user'.role = user.role /\ user'.verified = (c.op = "verify")
        /\ user'.active = user.active /\ user'.sid = user.sid
    <2> DEFINE b == c.op = "verify"
    <2>1. b \in BOOLEAN /\ user' = [user EXCEPT !.verified = b]
      BY DEF SetVerified
    <2> HIDE DEF b
    <2>2. /\ user' \in User /\ user'.role = user.role /\ user'.verified = b
          /\ user'.active = user.active /\ user'.sid = user.sid
      BY <1>1, <2>1, VerifiedSet
    <2> QED BY <2>2 DEF b
  <1>4. TypeOK'
    BY <1>1, <1>2, <1>3 DEF TypeOK
  <1>5. SessionInv'
    BY <1>1, <1>2, <1>3 DEF SessionInv, Renewing, Leaving, Deciding
  <1>6. OnlineInv'
    BY <1>1, <1>2, <1>3 DEF OnlineInv, Good, LeavingIt, Deciding
  <1>7. ReviewInv'
    BY <1>1, <1>2, <1>3 DEF ReviewInv, Deciding
  <1> QED BY <1>1, <1>4, <1>5, <1>6, <1>7, Returned DEF AccountInv, ReadOK

LEMMA LogoutOfflineKeeps ==
  ASSUME AccountInv, ~disturbed, NEW c \in calls, LogoutOffline(c)
  PROVE  AccountInv'
  <1>1. /\ TypeOK /\ SessionInv /\ OnlineInv /\ ReviewInv /\ c.op = "logout_offline" /\ Return(c)
        /\ profile \in Profile /\ profile' = [profile EXCEPT !.online = FALSE]
        /\ UNCHANGED <<user, sessions, held, minted, earned, switched, disturbed>>
    BY DEF AccountInv, TypeOK, LogoutOffline
  <1>2. calls' = calls \ {c} /\ calls' \subseteq Call
    BY <1>1, Returned
  <1>3. /\ profile' \in Profile /\ ~profile'.online
        /\ profile'.status = profile.status /\ profile'.wallet = profile.wallet
    BY <1>1, OnlineSet
  <1>4. TypeOK'
    BY <1>1, <1>2, <1>3 DEF TypeOK
  <1>5. SessionInv'
    BY <1>1, <1>2 DEF SessionInv, Renewing, Leaving
  <1>6. OnlineInv'
    BY <1>3 DEF OnlineInv
  <1>7. ReviewInv'
    BY <1>1, <1>2, <1>3 DEF ReviewInv, Deciding, Reviewing
  <1> QED BY <1>1, <1>4, <1>5, <1>6, <1>7, Returned DEF AccountInv, ReadOK

LEMMA SuspendOfflineKeeps ==
  ASSUME AccountInv, ~disturbed, NEW c \in calls, SuspendOffline(c)
  PROVE  AccountInv'
  <1>1. /\ TypeOK /\ SessionInv /\ OnlineInv /\ ReviewInv /\ c.op = "suspend" /\ Return(c)
        /\ profile \in Profile /\ profile' = [profile EXCEPT !.online = FALSE]
        /\ UNCHANGED <<user, sessions, held, minted, earned, switched, disturbed>>
    BY DEF AccountInv, TypeOK, SuspendOffline
  <1>2. calls' = calls \ {c} /\ calls' \subseteq Call
    BY <1>1, Returned
  <1>3. /\ profile' \in Profile /\ ~profile'.online
        /\ profile'.status = profile.status /\ profile'.wallet = profile.wallet
    BY <1>1, OnlineSet
  <1>4. TypeOK'
    BY <1>1, <1>2, <1>3 DEF TypeOK
  <1>5. SessionInv'
    BY <1>1, <1>2 DEF SessionInv, Renewing, Leaving
  <1>6. OnlineInv'
    BY <1>3 DEF OnlineInv
  <1>7. ReviewInv'
    BY <1>1, <1>2, <1>3 DEF ReviewInv, Deciding, Reviewing
  <1> QED BY <1>1, <1>4, <1>5, <1>6, <1>7, Returned DEF AccountInv, ReadOK

-----------------------------------------------------------------------------
(***************************************************************************)
(* The theorems.                                                           *)
(***************************************************************************)

LEMMA NextInv ==
  AccountInv /\ [Next]_vars => AccountInv'
  <1> SUFFICES ASSUME AccountInv, [Next]_vars
               PROVE  AccountInv'
    OBVIOUS
  <1>1. ASSUME Next
        PROVE  AccountInv'
    <2>1. ~disturbed /\ Step
      BY <1>1 DEF Next
    <2>2. CASE \E role \in {"customer", "driver"} : Register(role) \/ VerifyOtp(role)
      BY <2>1, <2>2, RegisterKeeps, VerifyOtpKeeps
    <2>3. CASE EmailLogin
      BY <2>1, <2>3, EmailLoginKeeps
    <2>4. ASSUME NEW s \in held,
                 \/ EditUser(s) \/ Logout(s) \/ DeleteAccount(s) \/ GoOnline(s) \/ GoOffline(s)
                 \/ \E op \in {"onboard", "edit_profile"} : ReadProfile(op, s)
          PROVE  AccountInv'
      BY <2>1, <2>4, EditUserKeeps, LogoutKeeps, DeleteAccountKeeps, GoOnlineKeeps, GoOfflineKeeps,
         ReadProfileKeeps
    <2>5. CASE (\E status \in {"approved", "rejected"} : Review(status)) \/ Deactivate \/ Activate \/ Earn
      BY <2>1, <2>5, ReviewKeeps, DeactivateKeeps, ActivateKeeps, EarnKeeps
    <2>6. ASSUME NEW c \in calls, LoginStep(c)
          PROVE  AccountInv'
      BY <2>1, <2>6, RevokeAllKeeps, ReadReviewKeeps, SaveUserKeeps, TakeOfflineKeeps, RotateSessionKeeps,
         SaveTokenKeeps DEF LoginStep
    <2>7. ASSUME NEW c \in calls, CallStep(c), ~LoginStep(c)
          PROVE  AccountInv'
      BY <2>1, <2>7, EditUserSaveKeeps, LogoutRevokeKeeps, LogoutOfflineKeeps, ScrubProfileKeeps,
         EraseUserKeeps, SetOnlineKeeps, SaveProfileKeeps, SetVerifiedKeeps, SuspendOfflineKeeps DEF CallStep
    <2> QED BY <2>1, <2>2, <2>3, <2>4, <2>5, <2>6, <2>7 DEF Step
  <1>2. ASSUME UNCHANGED vars
        PROVE  AccountInv'
    <2>1. TypeOK'
      BY <1>2 DEF AccountInv, TypeOK, vars
    <2>2. \A c \in calls' : ReadOK(c)
      BY <1>2 DEF AccountInv, vars
    <2>3. SessionInv => SessionInv'
      BY <1>2 DEF SessionInv, vars, Renewing
    <2>4. OnlineInv => OnlineInv'
      BY <1>2 DEF OnlineInv, vars, Good, LeavingIt
    <2>5. ReviewInv => ReviewInv'
      BY <1>2 DEF ReviewInv, vars, Reviewing
    <2> QED BY <1>2, <2>1, <2>2, <2>3, <2>4, <2>5 DEF AccountInv, ReadOK, vars
  <1> QED BY <1>1, <1>2

LEMMA Invariant == Spec => []AccountInv
  <1> QED BY InitInv, NextInv, PTL DEF Spec

\* Every variable keeps its type; that the wallet stays a number of credits
\* needs that it is what was earned.
THEOREM TypeCorrect == Spec => []TypeOK
  <1>1. AccountInv => TypeOK
    BY DEF AccountInv
  <1> QED BY <1>1, Invariant, PTL

\* With no handler under way, a driver who is online is signed in, active and a
\* driver, however many phones, logins and handlers came before.
THEOREM OnlineSignedIn == Spec => []OnlineIsSignedIn
  <1>1. AccountInv => OnlineIsSignedIn
    <2> SUFFICES ASSUME AccountInv, Settled, profile.online
                 PROVE  Good
      BY DEF OnlineIsSignedIn, Good
    <2> QED BY DEF AccountInv, Settled, OnlineInv, LeavingIt
  <1> QED BY <1>1, Invariant, PTL

\* With no handler under way, the driver of the latest login has a refresh token
\* and no session from before a change of the role is left.
THEOREM SessionsFollow == Spec => []SessionsFollowLogins
  <1>1. AccountInv => SessionsFollowLogins
    BY DEF AccountInv, SessionsFollowLogins, Settled, SessionInv, Renewing
  <1> QED BY <1>1, Invariant, PTL

\* With no handler under way both rows of a driver say what the admins decided,
\* and the wallet always holds what was earned.
THEOREM ReviewKept == Spec => []ReviewAndWalletKept
  <1>1. AccountInv => ReviewAndWalletKept
    BY DEF AccountInv, ReviewAndWalletKept, Settled, ReviewInv, Reviewing
  <1> QED BY <1>1, Invariant, PTL
=============================================================================
