------------------------------ MODULE Accounts -------------------------------
(***************************************************************************)
(* One person's account: the row of users, the driver profile that hangs   *)
(* off it, and the sessions.  Logins from several phones, a change of the  *)
(* role, logout, deletion, edits of either row, the review of the driver's *)
(* documents, suspension and the wallet all write these two rows, some a   *)
(* column at a time, some by saving the whole row they read before.        *)
(***************************************************************************)
EXTENDS Integers, FiniteSets

CONSTANTS
  MaxLogins,   \* bound: sessions ever begun
  MaxCalls,    \* bound: handlers in flight at once
  MaxEarnings  \* bound: credits of 1 to the driver's wallet

VARIABLES
  user,        \* the row of users; sid is active_session_id, 0 if null
  profile,     \* the row of driver_profiles, status "none" if there is none
  sessions,    \* rows of refresh_tokens, by session id
  held,        \* sessions whose tokens a phone still has
  minted,      \* session ids so far: 1..minted
  earned,      \* entries in driver_wallet_transactions
  calls,       \* handlers that have awaited
  switched,    \* for properties only: minted when the role last changed
  disturbed    \* for properties only: see Upset

vars == <<user, profile, sessions, held, minted, earned, calls, switched, disturbed>>

User == [role : {"none", "customer", "driver"}, active : BOOLEAN, verified : BOOLEAN,
         deleted : BOOLEAN, sid : 0..MaxLogins]
Profile == [status : {"none", "pending", "approved", "rejected"}, online : BOOLEAN,
            wallet : 0..MaxEarnings]
Op == {"revoke", "review", "save_user", "offline", "rotate", "token", "edit_user",
       "logout", "logout_offline", "scrub", "erase", "online", "onboard", "edit_profile",
       "verify", "unverify", "suspend"}
\* s: whose request it is, or the session it begins; what it read and will save.
Call == [op : Op, s : 0..MaxLogins, n : 1..MaxCalls,
         wasUser : User, user : User, wasProfile : Profile, profile : Profile]

ASSUME AccountsAssumption == MaxLogins \in Nat /\ MaxCalls \in Nat /\ MaxEarnings \in Nat

NoUser == [role |-> "none", active |-> FALSE, verified |-> FALSE, deleted |-> FALSE, sid |-> 0]
NoProfile == [status |-> "none", online |-> FALSE, wallet |-> 0]

Init ==
  /\ user = NoUser /\ profile = NoProfile
  /\ sessions = {} /\ held = {} /\ minted = 0 /\ earned = 0
  /\ calls = {} /\ switched = 0 /\ disturbed = FALSE

\* A handler has the least n that is free: it tells apart calls at one point.
Begin(op, s, wu, u, wp, p) ==
  \E n \in 1..MaxCalls :
    /\ \A m \in 1..n : (\E c \in calls : c.n = m) <=> m # n
    /\ calls' = calls \cup {[op |-> op, s |-> s, n |-> n,
                             wasUser |-> wu, user |-> u, wasProfile |-> wp, profile |-> p]}
Start(op, s) == Begin(op, s, NoUser, NoUser, NoProfile, NoProfile)
StartWithUser(op, s, u) == Begin(op, s, user, u, NoProfile, NoProfile)
StartWithProfile(op, s, p) == Begin(op, s, NoUser, NoUser, profile, p)
Continue(c, op) == calls' = (calls \ {c}) \cup {[c EXCEPT !.op = op]}
Return(c) == calls' = calls \ {c}
\* The account is disturbed when a handler writes on the strength of something
\* that no longer is so.  Histories are followed up to there (a bound).
Upset(when) == disturbed' = (disturbed \/ when)

\* JwtStrategy.validate (and refreshToken, for a session with its row).
Accepted(s) == user.active /\ (user.role = "driver" /\ user.sid # 0 => user.sid = s)
SignedIn(s) == s \in held /\ Accepted(s)

\* save reads the row again and writes the columns that differ from what it
\* finds: all that was read before, or, where another write comes after that
\* look, only what the handler changed.
Saved(row, was, new) ==
  {new, [f \in DOMAIN row |-> IF new[f] = was[f] THEN row[f] ELSE new[f]]}

(***************************************************************************)
(* Logins.                                                                 *)
(***************************************************************************)

\* verifyOtp for a new number, customerEmailRegister, driverEmailRegister; the
\* last makes a profile too.
Register(role) ==
  /\ user.role = "none"
  /\ user' = [user EXCEPT !.role = role, !.active = TRUE, !.verified = (role # "driver")]
  /\ profile' \in IF role = "driver" THEN {profile, [profile EXCEPT !.status = "pending"]} ELSE {profile}
  /\ Start("rotate", 0)
  /\ UNCHANGED <<sessions, held, minted, earned, switched, disturbed>>

\* verifyOtp for a number with a row: the code was right, and a change of the
\* role confirmed.
VerifyOtp(role) ==
  /\ user.role # "none" /\ ~user.deleted /\ user.active
  /\ StartWithUser(IF role # user.role THEN "revoke" ELSE "save_user", 0,
                   [user EXCEPT !.role = role, !.verified = @ \/ role = "customer"])
  /\ UNCHANGED <<user, profile, sessions, held, minted, earned, switched, disturbed>>

\* customerEmailLogin, driverEmailLogin.
EmailLogin ==
  /\ user.role # "none" /\ ~user.deleted /\ user.active
  /\ Start(IF user.role = "driver" THEN "offline" ELSE "rotate", 0)
  /\ UNCHANGED <<user, profile, sessions, held, minted, earned, switched, disturbed>>

BeginningSession == \E c \in calls : c.op = "token"

FaultyRevokeAll(c) ==  \* the refresh tokens stay
  /\ c \in calls /\ c.op = "revoke"
  /\ switched' = minted
  /\ Continue(c, IF c.user.role = "driver" THEN "review" ELSE "save_user")
  /\ Upset(BeginningSession)
  /\ UNCHANGED <<user, profile, sessions, held, minted, earned>>

\* revokeAllSessions, on a change of the role.
RevokeAll(c) ==
  /\ c \in calls /\ c.op = "revoke"
  /\ sessions' = {} /\ switched' = minted
  /\ Continue(c, IF c.user.role = "driver" THEN "review" ELSE "save_user")
  /\ Upset(BeginningSession)
  /\ UNCHANGED <<user, profile, held, minted, earned>>

\* A fresh driver is verified if the profile is approved.
ReadReview(c) ==
  /\ c \in calls /\ c.op = "review"
  /\ calls' = (calls \ {c}) \cup
       {[c EXCEPT !.op = "save_user", !.user.verified = (profile.status = "approved")]}
  /\ UNCHANGED <<user, profile, sessions, held, minted, earned, switched, disturbed>>

\* A fresh driver's review was read before it changed.
Outdated(c) ==
  /\ c.user.role = "driver" /\ c.wasUser.role # "driver"
  /\ c.user.verified # (profile.status = "approved")

SaveUser(c) ==
  /\ c \in calls /\ c.op = "save_user"
  /\ user' \in Saved(user, c.wasUser, c.user)
  /\ calls' = (calls \ {c}) \cup
       {[c EXCEPT !.op = IF "driver" \in {c.wasUser.role, c.user.role} THEN "offline" ELSE "rotate",
                  !.wasUser = NoUser, !.user = NoUser]}
  /\ Upset(user # c.wasUser \/ Outdated(c))
  /\ UNCHANGED <<profile, sessions, held, minted, earned, switched>>

\* "Force drivers offline on every login", and on a change away from driver.
TakeOffline(c) ==
  /\ c \in calls /\ c.op = "offline"
  /\ profile' = [profile EXCEPT !.online = FALSE]
  /\ Continue(c, "rotate")
  /\ UNCHANGED <<user, sessions, held, minted, earned, switched, disturbed>>

\* generateTokens: active_session_id, then the row of the refresh token.
RotateSession(c) ==
  /\ c \in calls /\ c.op = "rotate"
  /\ minted < MaxLogins /\ minted' = minted + 1
  /\ user' = [user EXCEPT !.sid = minted + 1]
  /\ calls' = (calls \ {c}) \cup {[c EXCEPT !.op = "token", !.s = minted + 1]}
  /\ UNCHANGED <<profile, sessions, held, earned, switched, disturbed>>

SaveToken(c) ==
  /\ c \in calls /\ c.op = "token"
  /\ sessions' = sessions \cup {c.s} /\ held' = held \cup {c.s}
  /\ Return(c)
  /\ UNCHANGED <<user, profile, minted, earned, switched, disturbed>>

(***************************************************************************)
(* The person signed in.                                                   *)
(***************************************************************************)

\* auth's updateProfile saves the row it read.
EditUser(s) ==
  /\ SignedIn(s) /\ StartWithUser("edit_user", s, user)
  /\ UNCHANGED <<user, profile, sessions, held, minted, earned, switched, disturbed>>

EditUserSave(c) ==
  /\ c \in calls /\ c.op = "edit_user"
  /\ user' \in Saved(user, c.wasUser, c.user)
  /\ Return(c)
  /\ Upset(user # c.wasUser)
  /\ UNCHANGED <<profile, sessions, held, minted, earned, switched>>

\* The phone forgets its tokens.
Logout(s) ==
  /\ SignedIn(s) /\ held' = held \ {s}
  /\ Start("logout", s)
  /\ UNCHANGED <<user, profile, sessions, minted, earned, switched, disturbed>>

LogoutRevoke(c) ==
  /\ c \in calls /\ c.op = "logout"
  /\ sessions' = {}
  /\ Continue(c, "logout_offline")
  /\ Upset(BeginningSession \/ (user.role = "driver" /\ user.sid # c.s))
  /\ UNCHANGED <<user, profile, held, minted, earned, switched>>

FaultyLogoutOffline(c) ==  \* the driver stays online
  /\ c \in calls /\ c.op = "logout_offline"
  /\ Return(c)
  /\ UNCHANGED <<user, profile, sessions, held, minted, earned, switched, disturbed>>

LogoutOffline(c) ==
  /\ c \in calls /\ c.op = "logout_offline"
  /\ profile' = [profile EXCEPT !.online = FALSE]
  /\ Return(c)
  /\ UNCHANGED <<user, sessions, held, minted, earned, switched, disturbed>>

\* deleteAccount, with no booking under way.
DeleteAccount(s) ==
  /\ SignedIn(s) /\ held' = held \ {s}
  /\ Start(IF user.role = "driver" THEN "scrub" ELSE "erase", s)
  /\ UNCHANGED <<user, profile, sessions, minted, earned, switched, disturbed>>

ScrubProfile(c) ==
  /\ c \in calls /\ c.op = "scrub"
  /\ profile' = [profile EXCEPT !.online = FALSE]
  /\ Continue(c, "erase")
  /\ UNCHANGED <<user, sessions, held, minted, earned, switched, disturbed>>

EraseUser(c) ==
  /\ c \in calls /\ c.op = "erase"
  /\ user' = [user EXCEPT !.deleted = TRUE, !.active = FALSE]
  /\ Return(c)
  /\ Upset(profile.online)
  /\ UNCHANGED <<profile, sessions, held, minted, earned, switched>>

\* updateAvailability: the guards and the look at is_active come before the
\* update.
GoOnline(s) ==
  /\ SignedIn(s) /\ user.role = "driver"
  /\ Start("online", s)
  /\ UNCHANGED <<user, profile, sessions, held, minted, earned, switched, disturbed>>

SetOnline(c) ==
  /\ c \in calls /\ c.op = "online"
  /\ profile' = [profile EXCEPT !.online = (profile.status # "none")]
  /\ Return(c)
  /\ Upset(~SignedIn(c.s) \/ user.role # "driver" \/ \E d \in calls \ {c} : d.op = "rotate")
  /\ UNCHANGED <<user, sessions, held, minted, earned, switched>>

GoOffline(s) ==
  /\ SignedIn(s) /\ user.role = "driver"
  /\ profile' = [profile EXCEPT !.online = FALSE]
  /\ UNCHANGED <<user, sessions, held, minted, earned, calls, switched, disturbed>>

\* onboardDriver and the driver's updateProfile read the profile; onboardDriver
\* uploads up to five documents before it saves.
ReadProfile(op, s) ==
  /\ SignedIn(s) /\ user.role = "driver"
  /\ op = "edit_profile" => profile.status # "none"
  /\ StartWithProfile(op, s, IF op = "onboard" /\ profile.status # "approved"
                             THEN [profile EXCEPT !.status = "pending"] ELSE profile)
  /\ UNCHANGED <<user, profile, sessions, held, minted, earned, switched, disturbed>>

FaultySaveProfile(c) ==  \* onboardDriver does not see that the driver is approved
  /\ c \in calls /\ c.op \in {"onboard", "edit_profile"}
  /\ profile' \in {[p EXCEPT !.status = "pending"] : p \in Saved(profile, c.wasProfile, c.profile)}
  /\ Return(c)
  /\ Upset(profile # c.wasProfile)
  /\ UNCHANGED <<user, sessions, held, minted, earned, switched>>

\* onboardDriver saves the row again when it has saved a vehicle that is not yet
\* in it.
SaveProfile(c) ==
  /\ c \in calls /\ c.op \in {"onboard", "edit_profile"}
  /\ IF c.wasProfile.status = "none" /\ profile.status # "none"
     THEN UNCHANGED profile /\ Return(c)  \* user_id is unique
     ELSE /\ profile' \in Saved(profile, c.wasProfile, c.profile)
          /\ \/ Return(c)
             \/ /\ c.op = "onboard"
                /\ calls' = (calls \ {c}) \cup {[c EXCEPT !.op = "edit_profile", !.wasProfile = c.profile]}
  /\ Upset(profile # c.wasProfile)
  /\ UNCHANGED <<user, sessions, held, minted, earned, switched>>

(***************************************************************************)
(* Admins, and the wallet.                                                 *)
(***************************************************************************)

Reviewing == \E c \in calls : c.op \in {"verify", "unverify"}

\* approveDriver, rejectDriver: the profile first, users.is_verified at the end.
Review(status) ==
  /\ profile.status # "none"
  /\ profile' = [profile EXCEPT !.status = status]
  /\ Start(IF status = "approved" THEN "verify" ELSE "unverify", 0)
  /\ Upset(Reviewing)
  /\ UNCHANGED <<user, sessions, held, minted, earned, switched>>

SetVerified(c) ==
  /\ c \in calls /\ c.op \in {"verify", "unverify"}
  /\ user' = [user EXCEPT !.verified = (c.op = "verify")]
  /\ Return(c)
  /\ UNCHANGED <<profile, sessions, held, minted, earned, switched, disturbed>>

\* suspendDriver; blockCustomer touches the user only.
Deactivate ==
  /\ user.role # "none"
  /\ user' = [user EXCEPT !.active = FALSE]
  /\ \/ profile.status # "none" /\ Start("suspend", 0)
     \/ user.role = "customer" /\ UNCHANGED calls
  /\ UNCHANGED <<profile, sessions, held, minted, earned, switched, disturbed>>

SuspendOffline(c) ==
  /\ c \in calls /\ c.op = "suspend"
  /\ profile' = [profile EXCEPT !.online = FALSE]
  /\ Return(c)
  /\ UNCHANGED <<user, sessions, held, minted, earned, switched, disturbed>>

\* activateDriver, unblockCustomer; a deleted account too.
Activate ==
  /\ user.role = "customer" \/ profile.status # "none"
  /\ user' = [user EXCEPT !.active = TRUE]
  /\ UNCHANGED <<profile, sessions, held, minted, earned, calls, switched, disturbed>>

\* A row-locked read and write of wallet_balance, with its entry.
Earn ==
  /\ profile.status # "none" /\ earned < MaxEarnings
  /\ earned' = earned + 1 /\ profile' = [profile EXCEPT !.wallet = @ + 1]
  /\ UNCHANGED <<user, sessions, held, minted, calls, switched, disturbed>>

LoginStep(c) ==
  \/ RevokeAll(c) \/ ReadReview(c) \/ SaveUser(c) \/ TakeOffline(c) \/ RotateSession(c) \/ SaveToken(c)

CallStep(c) ==
  \/ LoginStep(c)
  \/ EditUserSave(c) \/ LogoutRevoke(c) \/ LogoutOffline(c) \/ ScrubProfile(c) \/ EraseUser(c)
  \/ SetOnline(c) \/ SaveProfile(c) \/ SetVerified(c) \/ SuspendOffline(c)

Step ==
  \/ \E role \in {"customer", "driver"} : Register(role) \/ VerifyOtp(role)
  \/ EmailLogin
  \/ \E s \in held :
       \/ EditUser(s) \/ Logout(s) \/ DeleteAccount(s) \/ GoOnline(s) \/ GoOffline(s)
       \/ \E op \in {"onboard", "edit_profile"} : ReadProfile(op, s)
  \/ (\E status \in {"approved", "rejected"} : Review(status)) \/ Deactivate \/ Activate \/ Earn
  \/ \E c \in calls : CallStep(c)

Next == ~disturbed /\ Step

Spec == Init /\ [][Next]_vars

(***************************************************************************)
(* Properties.                                                             *)
(***************************************************************************)

\* Every variable has its type.
TypeOK ==
  /\ user \in User /\ profile \in Profile
  /\ sessions \subseteq 1..MaxLogins /\ held \subseteq 1..MaxLogins
  /\ minted \in 0..MaxLogins /\ earned \in 0..MaxEarnings /\ switched \in 0..MaxLogins
  /\ calls \subseteq Call /\ disturbed \in BOOLEAN

Settled == calls = {} /\ ~disturbed

\* "a logged-out driver stays online and keeps receiving booking offers": a
\* driver who is online is a driver, not suspended or deleted, and the phone of
\* the latest login has not logged out; unless the request to go online was past
\* its guards when that changed, or a whole row was saved over a newer one.
OnlineIsSignedIn ==
  Settled /\ profile.online =>
    user.role = "driver" /\ user.active /\ user.sid \in held

\* The driver of the latest login can refresh the session, and a change of the
\* role ends every session begun before it, unless logins, logouts and changes
\* of the role overlapped.
SessionsFollowLogins ==
  Settled =>
    /\ user.role = "driver" /\ user.active /\ user.sid \in held => user.sid \in sessions
    /\ \A s \in sessions : s > switched

\* What approval decided is what both rows say of a driver, and the wallet holds
\* what was earned: changes of the role, documents sent again, edits and
\* suspensions keep that, unless a whole row is saved over a newer one, a login
\* as a driver saves a review that has changed since it was read, or two admins
\* decide at once.
ReviewAndWalletKept ==
  /\ Settled /\ user.role = "driver" =>
       (user.verified <=> profile.status = "approved")
  /\ ~disturbed => profile.wallet = earned
=============================================================================
