------------------------------ MODULE Sessions ------------------------------
(***************************************************************************)
(* The life of a session: every AuthService and RbacService method that    *)
(* creates, rotates or revokes refresh tokens, run by concurrent requests  *)
(* of any number of server instances over one Postgres database.           *)
(*                                                                         *)
(* A handler awaits the database between statements, and each statement    *)
(* commits on its own (no handler opens a transaction), so one action is   *)
(* the code from one await to the next.  A request keeps what it read in   *)
(* its own record; nothing in the code reads it again.                     *)
(***************************************************************************)
EXTENDS RefreshTokenRepo, FiniteSets

CONSTANTS
  Handlers,     \* workers: each serves one HTTP request at a time
  Flows,        \* the kinds of request that clients send
  RefreshTtl,   \* refreshTokenTtlDays, in ticks of the clock
  ChallengeTtl, \* MFA_TTL, in ticks of the clock
  Fragile,      \* the points between two awaits where a request may die
  MaxClock,     \* bound: the clock stops here
  MaxPasswords  \* bound: password changes per user

AllFlows == {"login", "completeMfaLogin", "refresh", "logout", "changePassword",
             "resetPassword", "verifyEmail", "disable", "enable"}

ASSUME FlowsAssumption == Flows \subseteq AllFlows
ASSUME TtlAssumption == RefreshTtl \in Nat \ {0} /\ ChallengeTtl \in Nat \ {0}
ASSUME BoundsAssumption ==
  MaxClock \in Nat /\ MaxPasswords \in Nat

VARIABLES
  users,   \* table users: status, email_verified, which password, verify link
  rt,      \* table refresh_tokens
  req,     \* what each worker's current request holds between two awaits
  clock,   \* clock.now(), the same on every instance
  challenges,  \* the MFA tokens signed so far, which clients hold and may send
  origin,  \* history: the token, worker and password each row came from
  ended    \* history: the sessions a logout or a reuse detection ended

vars == <<users, rt, req, clock, challenges, origin, ended>>

Status == {"pending", "active", "disabled"}

(* passwordAt is history: when the password was stored. *)
UserRow == [status: Status, verified: BOOLEAN, password: Nat, passwordAt: Nat,
            link: BOOLEAN]

Pc == {"idle", "issue", "challenge", "find", "user", "consume", "revokeFamily",
       "logout", "setPassword", "resetUpdate", "verifyConsume", "activate",
       "disable", "enable", "revokeAll"}

ASSUME FragileAssumption == Fragile \subseteq Pc \ {"idle"}

Request == [pc: Pc, user: Users \cup {None}, tok: Tokens \cup {None},
            now: Nat, password: Nat]

Origin == [parent: Tokens \cup {None}, by: Handlers \cup {None}, password: Nat]

(* password is history: the token only names the user and its time. *)
Challenge == [user: Users, password: Nat, at: Nat]

Ending == [family: Tokens, cause: {"reuse", "logout"}, quiet: BOOLEAN]

Idle == [pc |-> "idle", user |-> None, tok |-> None, now |-> 0, password |-> 0]

StoreTypeOK ==
  /\ users \in [Users -> UserRow]
  /\ rt \in [Tokens -> Row]
  /\ req \in [Handlers -> Request]
  /\ clock \in Nat
  /\ origin \in [Tokens -> Origin]
  /\ ended \subseteq Ending

TypeOK == StoreTypeOK /\ challenges \subseteq Challenge

(* An account as register stores it, its verify link mailed, and the same  *)
(* account once the link has been used.                                    *)
Registered == [status |-> "pending", verified |-> FALSE, password |-> 0,
               passwordAt |-> 0, link |-> TRUE]
Verified == [Registered EXCEPT !.status = "active", !.verified = TRUE, !.link = FALSE]

Init ==
  /\ users \in [Users -> {Registered, Verified}]
  /\ rt = [t \in Tokens |-> NoRow]
  /\ req = [h \in Handlers |-> Idle]
  /\ clock = 0
  /\ challenges = {}
  /\ origin = [t \in Tokens |-> [parent |-> None, by |-> None, password |-> 0]]
  /\ ended = {}

-----------------------------------------------------------------------------
Free == Tokens \ Stored(rt)

(* Requests that may still insert a row, and those that may set a password. *)
Issuers == {h \in Handlers : req[h].pc \in {"find", "user", "consume", "issue"}}
Setters == {h \in Handlers : req[h].pc \in {"setPassword", "resetUpdate"}}

(* Bounds: no request starts that could find no free token or password.    *)
Room == Cardinality(Free) > Cardinality(Issuers)
RoomForPassword(u) == users[u].password + Cardinality(Setters) < MaxPasswords

Accept(h, flow) == req[h].pc = "idle" /\ flow \in Flows

At(h, pc) == req[h].pc = pc

Become(h, r) == req' = [req EXCEPT ![h] = r]

Goto(h, pc) == req' = [req EXCEPT ![h].pc = pc]

Done(h) == Become(h, Idle)

(* The checks of login after the password matched: disabled, then unverified *)
(* or pending accounts are turned away.                                     *)
MayLogin(row) == row.verified /\ row.status = "active"

(* A request that has accepted a token of family f and may still add a row. *)
Redeeming(f) ==
  \E h \in Handlers : /\ req[h].pc \in {"user", "consume", "issue"}
                      /\ req[h].tok # None
                      /\ rt[req[h].tok].family = f

Unspent(t) == t \in Stored(rt) /\ ~Spent(rt[t])

-----------------------------------------------------------------------------
(* login, once the lockout check has let it through: findByEmail, then the *)
(* password and status checks on the row it returned.  A failed check ends *)
(* the request with nothing stored here.  Whether the row has the second    *)
(* factor on is left open, here and in CompleteFind: module Mfa says when   *)
(* it may be switched.                                                      *)
LoginFind(h) ==
  /\ Accept(h, "login")
  /\ Room
  /\ \E u \in Users, step \in {"issue", "challenge"} :
       /\ MayLogin(users[u])
       /\ step = "challenge" => "completeMfaLogin" \in Flows
       /\ Become(h, [Idle EXCEPT !.pc = step, !.user = u,
                                 !.password = users[u].password])
  /\ UNCHANGED <<users, rt, clock, challenges, origin, ended>>

(* Mutant of SignChallenge: the lifetime is counted twice. *)
SignChallengeLong(h) ==
  /\ At(h, "challenge")
  /\ challenges' = challenges \cup {[user |-> req[h].user, at |-> clock + ChallengeTtl,
                                     password |-> req[h].password]}
  /\ Done(h)
  /\ UNCHANGED <<users, rt, clock, origin, ended>>

(* The first half of a login with a second factor: no session yet. *)
SignChallenge(h) ==
  /\ At(h, "challenge")
  /\ challenges' = challenges \cup {[user |-> req[h].user, at |-> clock,
                                     password |-> req[h].password]}
  /\ Done(h)
  /\ UNCHANGED <<users, rt, clock, origin, ended>>

Live(c) == clock < c.at + ChallengeTtl

(* completeMfaLogin, with a right code: the token's time is checked, and the *)
(* account as it is now, not the password it had when the token was signed. *)
CompleteFind(h) ==
  /\ Accept(h, "completeMfaLogin")
  /\ Room
  /\ \E u \in Users :
       /\ \E c \in challenges : c.user = u /\ Live(c)
       /\ users[u].status = "active"
       /\ Become(h, [Idle EXCEPT !.pc = "issue", !.user = u,
                                 !.password = users[u].password])
  /\ UNCHANGED <<users, rt, clock, challenges, origin, ended>>

FamilyFor(h, t) == IF req[h].tok = None THEN t ELSE rt[req[h].tok].family

(* issueSession: a fresh random token, expiring RefreshTtl from this moment, *)
(* in a new family after login and in the presented token's after refresh.  *)
Issue(h) ==
  /\ At(h, "issue")
  /\ \E t \in Free :
       /\ rt' = Create(rt, t, req[h].user, FamilyFor(h, t), clock + RefreshTtl)
       /\ origin' = [origin EXCEPT ![t] = [parent |-> req[h].tok, by |-> h,
                                           password |-> req[h].password]]
  /\ Done(h)
  /\ UNCHANGED <<users, clock, challenges, ended>>

-----------------------------------------------------------------------------
(* refresh.  The time is read first and used after the awaits that follow. *)
RefreshStart(h) ==
  /\ Accept(h, "refresh")
  /\ \E t \in Stored(rt) :
       /\ Room \/ Spent(rt[t])
       /\ Become(h, [Idle EXCEPT !.pc = "find", !.tok = t, !.now = clock])
  /\ UNCHANGED <<users, rt, clock, challenges, origin, ended>>

(* Mutant of Verdict: no reuse detection. *)
VerdictNoReuse(row, now) == IF Expired(row, now) THEN "idle" ELSE "user"

(* Where refresh goes with the row it found: reuse, expired, or accepted. *)
Verdict(row, now) == IF Spent(row) THEN "revokeFamily"
                     ELSE IF Expired(row, now) THEN "idle" ELSE "user"

RefreshFind(h) ==
  /\ At(h, "find")
  /\ LET t == req[h].tok
         verdict == Verdict(rt[t], req[h].now)
     IN  IF verdict = "idle" THEN Done(h)
         ELSE Become(h, [req[h] EXCEPT !.pc = verdict, !.user = rt[t].user,
                                       !.password = origin[t].password])
  /\ UNCHANGED <<users, rt, clock, challenges, origin, ended>>

(* Mutant of RefreshUser: the account is not looked at. *)
RefreshUserUnchecked(h) ==
  /\ At(h, "user") /\ Goto(h, "consume")
  /\ UNCHANGED <<users, rt, clock, challenges, origin, ended>>

RefreshUser(h) ==
  /\ At(h, "user")
  /\ Goto(h, IF users[req[h].user].status = "disabled" THEN "revokeFamily"
                                                      ELSE "consume")
  /\ UNCHANGED <<users, rt, clock, challenges, origin, ended>>

(* Mutant of RefreshConsume: the presented token stays current. *)
RefreshNoConsume(h) ==
  /\ At(h, "consume") /\ Goto(h, "issue")
  /\ UNCHANGED <<users, rt, clock, challenges, origin, ended>>

RefreshConsume(h) ==
  /\ At(h, "consume")
  /\ rt' = MarkConsumed(rt, req[h].tok)
  /\ Goto(h, "issue")
  /\ UNCHANGED <<users, clock, challenges, origin, ended>>

(* A spent token, or one of a disabled user, takes its whole family along. *)
RefreshRevokeFamily(h) ==
  /\ At(h, "revokeFamily")
  /\ LET f == rt[req[h].tok].family
     IN  /\ rt' = RevokeFamily(rt, f)
         /\ ended' = ended \cup {[family |-> f, cause |-> "reuse",
                                  quiet |-> ~Redeeming(f)]}
  /\ Done(h)
  /\ UNCHANGED <<users, clock, challenges, origin>>

-----------------------------------------------------------------------------
LogoutFind(h) ==
  /\ Accept(h, "logout")
  /\ \E t \in Stored(rt) : /\ ~rt[t].revoked
                           /\ Become(h, [Idle EXCEPT !.pc = "logout", !.tok = t])
  /\ UNCHANGED <<users, rt, clock, challenges, origin, ended>>

(* Only the presented row is revoked.  It was the session's current token   *)
(* when it is still unspent at this moment.                                 *)
LogoutRevoke(h) ==
  /\ At(h, "logout")
  /\ LET t == req[h].tok
         f == rt[t].family
         alone == \A s \in OfFamily(rt, f) \ {t} : Spent(rt[s])
     IN  /\ rt' = Revoke(rt, t)
         /\ ended' = IF Unspent(t)
                       THEN ended \cup {[family |-> f, cause |-> "logout",
                                         quiet |-> alone /\ ~Redeeming(f)]}
                       ELSE ended
  /\ Done(h)
  /\ UNCHANGED <<users, clock, challenges, origin>>

-----------------------------------------------------------------------------
(* changePassword: the caller proved an access token, so has had a session, *)
(* and gave the current password.                                           *)
ChangeFind(h) ==
  /\ Accept(h, "changePassword")
  /\ \E u \in Users :
       /\ OfUser(rt, u) # {}
       /\ RoomForPassword(u)
       /\ Become(h, [Idle EXCEPT !.pc = "setPassword", !.user = u])
  /\ UNCHANGED <<users, rt, clock, challenges, origin, ended>>

(* The new hash; passwords are numbered in the order they are stored. *)
NewPassword(row) == [row EXCEPT !.password = @ + 1, !.passwordAt = clock]

(* Mutant of SetPassword: the sessions are left as they are. *)
SetPasswordOnly(h) ==
  /\ At(h, "setPassword")
  /\ users' = [users EXCEPT ![req[h].user] = NewPassword(@)]
  /\ Done(h)
  /\ UNCHANGED <<rt, clock, challenges, origin, ended>>

SetPassword(h) ==
  /\ At(h, "setPassword")
  /\ users' = [users EXCEPT ![req[h].user] = NewPassword(@)]
  /\ Goto(h, "revokeAll")
  /\ UNCHANGED <<rt, clock, challenges, origin, ended>>

(* resetPassword, from a live reset link, which forgotPassword mails for    *)
(* any account at any time, to the update of the account.                   *)
ResetFind(h) ==
  /\ Accept(h, "resetPassword")
  /\ \E u \in Users :
       /\ RoomForPassword(u)
       /\ Become(h, [Idle EXCEPT !.pc = "resetUpdate", !.user = u])
  /\ UNCHANGED <<users, rt, clock, challenges, origin, ended>>

ResetUpdate(h) ==
  /\ At(h, "resetUpdate")
  /\ users' = [users EXCEPT ![req[h].user] =
                 [NewPassword(@) EXCEPT !.status = "active", !.verified = TRUE]]
  /\ Goto(h, "revokeAll")
  /\ UNCHANGED <<rt, clock, challenges, origin, ended>>

(* The last statement of changePassword, resetPassword and disabling. *)
RevokeAll(h) ==
  /\ At(h, "revokeAll")
  /\ rt' = RevokeAllForUser(rt, req[h].user)
  /\ Done(h)
  /\ UNCHANGED <<users, clock, challenges, origin, ended>>

-----------------------------------------------------------------------------
VerifyFind(h) ==
  /\ Accept(h, "verifyEmail")
  /\ \E u \in Users : /\ users[u].link
                      /\ Become(h, [Idle EXCEPT !.pc = "verifyConsume", !.user = u])
  /\ UNCHANGED <<users, rt, clock, challenges, origin, ended>>

VerifyConsume(h) ==
  /\ At(h, "verifyConsume")
  /\ users' = [users EXCEPT ![req[h].user].link = FALSE]
  /\ Goto(h, "activate")
  /\ UNCHANGED <<rt, clock, challenges, origin, ended>>

Activate(h) ==
  /\ At(h, "activate")
  /\ users' = [users EXCEPT ![req[h].user].status = "active",
                            ![req[h].user].verified = TRUE]
  /\ Done(h)
  /\ UNCHANGED <<rt, clock, challenges, origin, ended>>

-----------------------------------------------------------------------------
(* setUserEnabled: requireUser, then the update, then (disabling only) the *)
(* revocation.                                                             *)
SetEnabledFind(h, flow) ==
  /\ Accept(h, flow)
  /\ \E u \in Users : Become(h, [Idle EXCEPT !.pc = flow, !.user = u])
  /\ UNCHANGED <<users, rt, clock, challenges, origin, ended>>

(* Mutant of Disable: the sessions are left as they are. *)
DisableOnly(h) ==
  /\ At(h, "disable")
  /\ users' = [users EXCEPT ![req[h].user].status = "disabled"]
  /\ Done(h)
  /\ UNCHANGED <<rt, clock, challenges, origin, ended>>

Disable(h) ==
  /\ At(h, "disable")
  /\ users' = [users EXCEPT ![req[h].user].status = "disabled"]
  /\ Goto(h, "revokeAll")
  /\ UNCHANGED <<rt, clock, challenges, origin, ended>>

Enable(h) ==
  /\ At(h, "enable")
  /\ users' = [users EXCEPT ![req[h].user].status = "active"]
  /\ Done(h)
  /\ UNCHANGED <<rt, clock, challenges, origin, ended>>

-----------------------------------------------------------------------------
(* The process dies, or a statement is refused: the request is over and     *)
(* what it had stored stays.                                                *)
Abort(h) ==
  /\ req[h].pc \in Fragile
  /\ Done(h)
  /\ UNCHANGED <<users, rt, clock, challenges, origin, ended>>

Tick ==
  /\ clock < MaxClock
  /\ clock' = clock + 1
  /\ UNCHANGED <<users, rt, req, challenges, origin, ended>>

(* A client sends a request. *)
Start(h) ==
  \/ LoginFind(h) \/ CompleteFind(h) \/ RefreshStart(h) \/ LogoutFind(h)
  \/ ChangeFind(h) \/ ResetFind(h) \/ VerifyFind(h)
  \/ SetEnabledFind(h, "disable") \/ SetEnabledFind(h, "enable")

(* A server carries a request it has accepted one statement further. *)
Progress(h) ==
  \/ Issue(h) \/ SignChallenge(h)
  \/ RefreshFind(h) \/ RefreshUser(h) \/ RefreshConsume(h) \/ RefreshRevokeFamily(h)
  \/ LogoutRevoke(h)
  \/ SetPassword(h) \/ ResetUpdate(h) \/ RevokeAll(h)
  \/ VerifyConsume(h) \/ Activate(h)
  \/ Disable(h) \/ Enable(h)

Next ==
  \/ \E h \in Handlers : Start(h) \/ Progress(h) \/ Abort(h)
  \/ Tick

Spec == Init /\ [][Next]_vars

(* The event loop and the database run every accepted request to its end;   *)
(* nobody has to send a request and the clock needs no promise.             *)
FairSpec == Spec /\ \A h \in Handlers : WF_vars(Progress(h))

-----------------------------------------------------------------------------
(* What holds however requests interleave and wherever they die.           *)

(* A refresh token is redeemed at most once by each worker: redemptions of  *)
(* one token are never more than the requests that ran at the same time     *)
(* (refresh reads the row, and consumes it two awaits later).               *)
RedemptionsBounded ==
  \A s, t \in Stored(rt) :
    /\ origin[s].parent = origin[t].parent
    /\ origin[s].parent # None
    /\ origin[s].by = origin[t].by
    => s = t

(* A session ended by logout or by reuse detection while no refresh of it   *)
(* was under way, and with no second current token, has no usable token     *)
(* ever again (refresh, logout).                                            *)
QuietEndingsLast ==
  \A e \in ended : e.quiet => ~\E t \in OfFamily(rt, e.family) : Unspent(t)

Issuing(u) == \E h \in Handlers : /\ req[h].user = u
                                  /\ req[h].pc \in {"consume", "issue"}

(* While an account stays disabled and no request of it is past its status  *)
(* check, none gets past it and no token is issued to it (login, refresh).  *)
DrainedAccountsStayOut ==
  [][\A u \in Users :
       /\ users[u].status = "disabled" /\ users'[u].status = "disabled"
       /\ ~Issuing(u)
       => ~Issuing(u)' /\ OfUser(rt, u)' = OfUser(rt, u)]_vars

(* A request whose time for token t was before its expiry, and that still    *)
(* may redeem it.                                                           *)
InTime(t) ==
  \E h \in Handlers :
    /\ req[h].tok = t
    /\ \/ req[h].pc \in {"user", "consume", "issue"}
       \/ req[h].pc = "find" /\ req[h].now < rt[t].expiresAt

(* From the moment a token expires it is not redeemed, but by the requests  *)
(* that had read an earlier time (refresh).                                 *)
LapsedTokensStayOut ==
  [][\A t \in Stored(rt) :
       rt[t].expiresAt <= clock /\ ~InTime(t) => ~InTime(t)']_vars

TokenState(t) == IF rt[t].user = None THEN "absent"
                 ELSE IF Spent(rt[t]) THEN "spent" ELSE "usable"

Ledger == INSTANCE SessionLedger WITH
            state <- [t \in Tokens |-> TokenState(t)],
            family <- [t \in Tokens |-> rt[t].family],
            parent <- [t \in Tokens |-> origin[t].parent],
            by <- [t \in Tokens |-> origin[t].by],
            closed <- {e.family : e \in {x \in ended : x.quiet}}

(* The table, seen as a ledger of tokens, changes only as SessionLedger     *)
(* allows: rotation inside a family, no way back for a spent token, none    *)
(* out of a family that ended quietly (login, refresh, logout and every     *)
(* revocation).                                                             *)
ImplementsLedger == Ledger!Spec

-----------------------------------------------------------------------------
(* What holds when one request runs at a time.                             *)

(* A refresh token is exchanged at most once, even by requests that die on *)
(* the way (refresh).                                                      *)
SingleUse ==
  \A s, t \in Stored(rt) :
    origin[s].parent = origin[t].parent /\ origin[s].parent # None => s = t

(* A session has at most one usable token (refresh rotates it).            *)
OneCurrentToken ==
  \A s, t \in Stored(rt) :
    Unspent(s) /\ Unspent(t) /\ rt[s].family = rt[t].family => s = t

EndingsLast(cause) ==
  \A e \in ended :
    e.cause = cause => ~\E t \in OfFamily(rt, e.family) : Unspent(t)

(* Once reuse of a token was detected its family has no usable token.      *)
ReuseEndsFamily == EndingsLast("reuse")

(* Once its current token was logged out a session has no usable token.    *)
LogoutEndsSession == EndingsLast("logout")

RevokingAll(u) == \E h \in Handlers : At(h, "revokeAll") /\ req[h].user = u

(* A disabled account has no usable token, but while it is being disabled  *)
(* (setUserEnabled).                                                       *)
DisableEndsSessions ==
  \A u \in Users : \A t \in OfUser(rt, u) :
    users[u].status = "disabled" /\ Unspent(t) => RevokingAll(u)

(* No usable token is of a session opened under an earlier password, but    *)
(* while the password is being replaced (changePassword, resetPassword).    *)
PasswordChangeEndsSessions ==
  \A u \in Users : \A t \in OfUser(rt, u) :
    origin[t].password # users[u].password /\ Unspent(t) => RevokingAll(u)

(* An MFA token signed for an earlier password still opens a session, but   *)
(* no later than its own lifetime after that password was replaced (login,  *)
(* completeMfaLogin, changePassword, resetPassword).                        *)
ChallengesOutdated ==
  \A c \in challenges :
    /\ Live(c)
    /\ c.password # users[c.user].password
    => clock < users[c.user].passwordAt + ChallengeTtl

-----------------------------------------------------------------------------
(* What is promised of a request that does not die.                        *)

(* A request is about to revoke all of a user's tokens, t among them, or has *)
(* been presented a spent token of the family of t.                         *)
Doomed(t) ==
  \E h \in Handlers :
    \/ At(h, "revokeAll") /\ t \in OfUser(rt, req[h].user)
    \/ At(h, "find") /\ LET s == req[h].tok
                       IN  Spent(rt[s]) /\ t \in OfFamily(rt, rt[s].family)

(* Every token a user holds when a request comes to revoke them all is      *)
(* revoked in the end (changePassword, resetPassword, setUserEnabled), and  *)
(* so is every token of a family of which refresh is presented a spent one. *)
RevocationReaches == \A t \in Tokens : Doomed(t) ~> rt[t].revoked
=============================================================================
