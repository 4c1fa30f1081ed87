------------------------------ MODULE Accounts ------------------------------
(***************************************************************************)
(* Registration, the links mailed to an address, and the status and the    *)
(* default role that they and administrators give an account, by           *)
(* concurrent requests over the Postgres tables users, user_roles and      *)
(* email_tokens.                                                           *)
(*                                                                         *)
(* An action is the code from one await to the next.  A link stands for a  *)
(* random token, its hash and the id of its row.  The default role is a    *)
(* system role, so assigning it by name always finds it.                   *)
(***************************************************************************)
EXTENDS Naturals, FiniteSets

CONSTANTS
  Emails, Users, Links, None,
  Handlers,  \* workers: each serves one HTTP request at a time
  LinkTtl,   \* emailTokenTtlMinutes, in ticks of the clock
  Fragile,   \* the points between two awaits where a request may die
  MaxClock   \* bound: the clock stops here

Pc == {"idle", "insert", "role", "invalidate", "link", "mail", "consume", "apply"}

ASSUME AccountsAssumption ==
  /\ None \notin Emails \cup Users \cup Links
  /\ LinkTtl \in Nat \ {0} /\ MaxClock \in Nat
  /\ Fragile \subseteq Pc \ {"idle"}
  /\ IsFiniteSet(Handlers) /\ Handlers # {}

VARIABLES
  accounts,  \* table users, and its default role in user_roles
  links,     \* table email_tokens
  mailed,    \* the links that have left by mail
  req,       \* what each worker's current request holds between two awaits
  clock,     \* clock.now()
  uses       \* history: how often each link has changed its account

vars == <<accounts, links, mailed, req, clock, uses>>

Purpose == {"verify_email", "password_reset"}

(* The row of user_roles is there when role is "held"; whether there was one *)
(* before is history.                                                       *)
Account == [email: Emails \cup {None}, status: {"pending", "active", "disabled"},
            verified: BOOLEAN, role: {"never", "held", "withdrawn"}]

NoAccount == [email |-> None, status |-> "pending", verified |-> FALSE, role |-> "never"]

Link == [user: Users \cup {None}, purpose: Purpose, expiresAt: Nat, consumed: BOOLEAN]

NoLink == [user |-> None, purpose |-> "verify_email", expiresAt |-> 0, consumed |-> FALSE]

Request == [pc: Pc, email: Emails \cup {None}, user: Users \cup {None},
            link: Links \cup {None}, purpose: Purpose]

Idle == [pc |-> "idle", email |-> None, user |-> None, link |-> None,
         purpose |-> "verify_email"]

TypeOK ==
  /\ accounts \in [Users -> Account]
  /\ links \in [Links -> Link]
  /\ mailed \subseteq Links
  /\ req \in [Handlers -> Request]
  /\ clock \in Nat
  /\ uses \in [Links -> Nat]

Init ==
  /\ accounts = [u \in Users |-> NoAccount]
  /\ links = [l \in Links |-> NoLink]
  /\ mailed = {}
  /\ req = [h \in Handlers |-> Idle]
  /\ clock = 0
  /\ uses = [l \in Links |-> 0]

-----------------------------------------------------------------------------
Registered == {u \in Users : accounts[u].email # None}
Created == {l \in Links : links[l].user # None}
Taken(e) == \E u \in Users : accounts[u].email = e

(* Bounds: no request starts that could find no free row.                  *)
RoomForUser == Cardinality(Users \ Registered)
                 > Cardinality({h \in Handlers : req[h].pc = "insert"})
RoomForLink ==
  Cardinality(Links \ Created)
    > Cardinality({h \in Handlers : req[h].pc \in {"insert", "role", "invalidate", "link"}})

At(h, pc) == req[h].pc = pc
Become(h, r) == req' = [req EXCEPT ![h] = r]
Goto(h, pc) == req' = [req EXCEPT ![h].pc = pc]
Done(h) == Become(h, Idle)

-----------------------------------------------------------------------------
(* register.  An address that is taken ends the request with nothing done. *)
RegisterFind(h) ==
  /\ At(h, "idle") /\ RoomForUser /\ RoomForLink
  /\ \E e \in Emails : ~Taken(e) /\ Become(h, [Idle EXCEPT !.pc = "insert", !.email = e])
  /\ UNCHANGED <<accounts, links, mailed, clock, uses>>

(* Mutant of Refused: a store without the UNIQUE constraint. *)
RefusedNever(e) == FALSE

(* users.email is UNIQUE: the second INSERT of an address fails. *)
Refused(e) == Taken(e)

Insert(h) ==
  /\ At(h, "insert")
  /\ LET e == req[h].email
     IN  \/ Refused(e) /\ Done(h) /\ UNCHANGED accounts
         \/ /\ ~Refused(e)
            /\ \E u \in Users \ Registered :
                 /\ accounts' = [accounts EXCEPT ![u] = [NoAccount EXCEPT !.email = e]]
                 /\ Become(h, [req[h] EXCEPT !.pc = "role", !.user = u])
  /\ UNCHANGED <<links, mailed, clock, uses>>

(* Mutant of AssignRole: the role is left for later. *)
AssignNothing(h) ==
  /\ At(h, "role") /\ Goto(h, "link")
  /\ UNCHANGED <<accounts, links, mailed, clock, uses>>

AssignRole(h) ==
  /\ At(h, "role")
  /\ accounts' = [accounts EXCEPT ![req[h].user].role = "held"]
  /\ Goto(h, "link")
  /\ UNCHANGED <<links, mailed, clock, uses>>

-----------------------------------------------------------------------------
(* forgotPassword.  An unknown address ends the request. *)
ForgotFind(h) ==
  /\ At(h, "idle") /\ RoomForLink
  /\ \E u \in Registered :
       Become(h, [Idle EXCEPT !.pc = "invalidate", !.user = u,
                              !.purpose = "password_reset"])
  /\ UNCHANGED <<accounts, links, mailed, clock, uses>>

ResetLinks(u) == {l \in Created : /\ links[l].user = u
                                  /\ links[l].purpose = "password_reset"}

(* Mutant of Invalidate: the links mailed before stay good. *)
InvalidateNothing(h) ==
  /\ At(h, "invalidate") /\ Goto(h, "link")
  /\ UNCHANGED <<accounts, links, mailed, clock, uses>>

(* invalidateForUser *)
Invalidate(h) ==
  /\ At(h, "invalidate")
  /\ links' = [l \in Links |-> IF l \in ResetLinks(req[h].user)
                                 THEN [links[l] EXCEPT !.consumed = TRUE] ELSE links[l]]
  /\ Goto(h, "link")
  /\ UNCHANGED <<accounts, mailed, clock, uses>>

(* Mutant of NewLink: two columns swapped. *)
NewLinkSwapped(u, purpose) ==
  [user |-> purpose, purpose |-> u, expiresAt |-> clock + LinkTtl, consumed |-> FALSE]

NewLink(u, purpose) ==
  [user |-> u, purpose |-> purpose, expiresAt |-> clock + LinkTtl, consumed |-> FALSE]

(* The fresh link of register and of forgotPassword, and its mail, which may *)
(* be refused: the request then dies with the link stored and unsent.       *)
CreateLink(h) ==
  /\ At(h, "link")
  /\ \E l \in Links \ Created :
       /\ links' = [links EXCEPT ![l] = NewLink(req[h].user, req[h].purpose)]
       /\ Become(h, [req[h] EXCEPT !.pc = "mail", !.link = l])
  /\ UNCHANGED <<accounts, mailed, clock, uses>>

Mail(h) ==
  /\ At(h, "mail")
  /\ mailed' = mailed \cup {req[h].link}
  /\ Done(h)
  /\ UNCHANGED <<accounts, links, clock, uses>>

-----------------------------------------------------------------------------
(* verifyEmail or resetPassword, by the purpose of the link presented.     *)
Usable(l) == ~links[l].consumed /\ links[l].expiresAt > clock

UseFind(h) ==
  /\ At(h, "idle")
  /\ \E l \in mailed :
       /\ Usable(l)
       /\ Become(h, [Idle EXCEPT !.pc = "consume", !.user = links[l].user, !.link = l,
                                 !.purpose = links[l].purpose])
  /\ UNCHANGED <<accounts, links, mailed, clock, uses>>

(* Mutant of Consume: the link stays good. *)
ConsumeNothing(h) ==
  /\ At(h, "consume") /\ Goto(h, "apply")
  /\ UNCHANGED <<accounts, links, mailed, clock, uses>>

Consume(h) ==
  /\ At(h, "consume")
  /\ links' = [links EXCEPT ![req[h].link].consumed = TRUE]
  /\ Goto(h, "apply")
  /\ UNCHANGED <<accounts, mailed, clock, uses>>

(* The update of the account: both handlers write status and email_verified, *)
(* resetPassword the new hash as well (Sessions follows it from there).     *)
Apply(h) ==
  /\ At(h, "apply")
  /\ accounts' = [accounts EXCEPT ![req[h].user].status = "active",
                                  ![req[h].user].verified = TRUE]
  /\ uses' = [uses EXCEPT ![req[h].link] = @ + 1]
  /\ Done(h)
  /\ UNCHANGED <<links, mailed, clock>>

-----------------------------------------------------------------------------
(* setUserEnabled.  Rows of users are never deleted, so requireUser tells   *)
(* nothing the update could find changed.                                   *)
Disable(u) ==
  /\ u \in Registered
  /\ accounts' = [accounts EXCEPT ![u].status = "disabled"]
  /\ UNCHANGED <<links, mailed, req, clock, uses>>

(* Mutant of Enable: the address counts as verified. *)
EnableVerified(u) ==
  /\ u \in Registered
  /\ accounts' = [accounts EXCEPT ![u].status = "active", ![u].verified = TRUE]
  /\ UNCHANGED <<links, mailed, req, clock, uses>>

Enable(u) ==
  /\ u \in Registered
  /\ accounts' = [accounts EXCEPT ![u].status = "active"]
  /\ UNCHANGED <<links, mailed, req, clock, uses>>

(* assignRolesToUser and revokeRoleFromUser, for the default role. *)
AssignAgain(u) ==
  /\ u \in Registered
  /\ accounts' = [accounts EXCEPT ![u].role = "held"]
  /\ UNCHANGED <<links, mailed, req, clock, uses>>

Withdraw(u) ==
  /\ u \in Registered /\ accounts[u].role = "held"
  /\ accounts' = [accounts EXCEPT ![u].role = "withdrawn"]
  /\ UNCHANGED <<links, mailed, req, clock, uses>>

Abort(h) ==
  /\ req[h].pc \in Fragile
  /\ Done(h)
  /\ UNCHANGED <<accounts, links, mailed, clock, uses>>

Tick ==
  /\ clock < MaxClock
  /\ clock' = clock + 1
  /\ UNCHANGED <<accounts, links, mailed, req, uses>>

Next ==
  \/ \E h \in Handlers :
       \/ RegisterFind(h) \/ Insert(h) \/ AssignRole(h)
       \/ ForgotFind(h) \/ Invalidate(h) \/ CreateLink(h) \/ Mail(h)
       \/ UseFind(h) \/ Consume(h) \/ Apply(h)
       \/ Abort(h)
  \/ \E u \in Users : Disable(u) \/ Enable(u) \/ AssignAgain(u) \/ Withdraw(u)
  \/ Tick

Spec == Init /\ [][Next]_vars

-----------------------------------------------------------------------------
(* However registrations race, an address has one account (register).      *)
UniqueEmails ==
  \A u, v \in Registered : accounts[u].email = accounts[v].email => u = v

Presenters(l) == {h \in Handlers : req[h].link = l /\ req[h].pc \in {"consume", "apply"}}

(* A mailed link changes its account at most once (verifyEmail,             *)
(* resetPassword).                                                          *)
SingleUseLinks == \A l \in Links : uses[l] <= 1

(* What the code keeps of that: as often as requests presented the link at  *)
(* the same time, so once when they come one at a time (verifyEmail,        *)
(* resetPassword).                                                          *)
LinkUses ==
  \A l \in Links : uses[l] + Cardinality(Presenters(l)) <= Cardinality(Handlers)

LiveResets(u) == {l \in ResetLinks(u) : ~links[l].consumed}

Resetting(u) == {h \in Handlers : /\ req[h].pc = "link" /\ req[h].user = u
                                  /\ req[h].purpose = "password_reset"}

(* An account has at most as many unconsumed reset links as requests asked  *)
(* for one at the same time, however many it has been mailed: the newest    *)
(* only, when they come one at a time (forgotPassword).                     *)
LiveResetLinks ==
  \A u \in Users :
    Cardinality(LiveResets(u)) + Cardinality(Resetting(u)) <= Cardinality(Handlers)

(* An account is verified only through a link mailed to its address, which  *)
(* is then consumed, whatever administrators do (verifyEmail,               *)
(* resetPassword, setUserEnabled).                                          *)
VerifiedByMail ==
  \A u \in Users : accounts[u].verified =>
    \E l \in mailed : links[l].user = u /\ links[l].consumed

(* Whoever can log in was given the default role, so has it unless an       *)
(* administrator took it away, but while the registration is about to       *)
(* assign it (register, revokeRoleFromUser).                                *)
VerifiedHasRole ==
  \A u \in Users : accounts[u].verified =>
    \/ accounts[u].role # "never"
    \/ \E h \in Handlers : At(h, "role") /\ req[h].user = u
=============================================================================
