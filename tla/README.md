# Verification of Saim-AUS

Saim-AUS is an authentication and authorisation service: a Fastify HTTP server
over a Postgres database (or, for development and tests, over maps in memory).
This directory holds TLA+ models of its core, the TLC configurations that check
them and TLAPS proofs about them. Paths below are relative to the repository's
`src/`.

Every model answers the same kind of question. The handlers of the service are
`async` functions that await one SQL statement after another; none opens a
transaction around its work (only `recoveryCodes.replaceForUser` has one of its
own); any number of requests, on any number of instances, run at the same time;
and a process can die, or a statement be refused, between any two awaits. What
can be promised of sessions, accounts, lockout, the second factor and roles when
handlers interleave and stop like that, and what can be promised only when they
do not?

## Inventory

| Part | Code | State it keeps | Operations | Module |
|---|---|---|---|---|
| Refresh-token sessions | `core/authn/authService.ts`, `refreshTokens` of `storage/postgres/postgresStorage.ts` | table `refresh_tokens`: owner, family, expiry, consumed, revoked | issueSession, refresh (rotation, reuse detection), logout, revocation of a family or of a user | `RefreshTokenRepo`, `Sessions`, `SessionLedger`, `SessionsProofs` |
| Account lockout | `login`, `loginAttempts` | recorded failures with their times | count, record, clear | `Lockout`, `LockoutProofs` |
| Accounts and mailed links | `register`, `verifyEmail`, `forgotPassword`, `resetPassword`, `setUserEnabled` | `users` (address, status, verified, hash), `email_tokens`, the default role in `user_roles` | register, mail and redeem a link, enable, disable, assign and revoke the default role | `Accounts`, `AccountsProofs` (status also in `Sessions`) |
| Second factor | `core/mfa/mfaService.ts`, `login`, `completeMfaLogin` | `mfa_enabled`, `mfa_secret`, `mfa_recovery_codes`; a signed challenge held by the client | begin, confirm, disable, verify a code, challenge and complete a login | `Mfa`, `MfaProofs` |
| Roles and permissions | `core/authz/rbacService.ts`, `roles` and `audit` of the storage | `roles`, `permissions`, `role_permissions`, `user_roles`, `audit_log` | create, rename, delete, attach, detach, assign, revoke; an audit record after each | `Rbac`, `RbacProofs` |
| Access tokens | `core/tokens/tokenService.ts`, `api/authGuard.ts` | none on the server; signing and verification keys from the configuration | sign, verify, require a permission; the operator rotates the keys, instance by instance | `AccessTokens`, `AccessTokensProofs` |
| HTTP surface | `api/` | none on the server; the refresh cookie, at the client | every route that ends in `AuthService` or in `setUserEnabled`, with the refresh cookie; the other routes, CSRF guard, schemas, error mapping | `Clients`, `ClientsProofs`: the routes that change sessions, the cookie, the 500 answer |
| Memory storage | `storage/memory/memoryStorage.ts` | the same tables as maps of one process, with indexes by name | those of the Postgres storage | `MemoryRoles`, `MemoryRolesProofs`: roles and permissions |
| Passwords, encryption, mail | `core/password/`, `infra/encryption.ts`, `infra/crypto.ts`, `infra/smtpMailer.ts` | none | hash, verify, encrypt, generate, send | what they promise, inside the other models |
| Configuration, start-up, tools | `config/`, `index.ts`, `cli/`, `migrate.ts` | none at run time | load, start, grant-admin, migrate | not modelled, but for grant-admin's assignment (`Rbac`) and the restart of an instance (`AccessTokens`) |

How they interact: routes call services; services call the repositories of one
`Storage`; nothing calls back, and no service keeps state between requests. All
coupling is through rows. `users` is written by accounts, the second factor and
administration and read by every login; `refresh_tokens` is written by sessions
and by every handler that ends them; access tokens copy roles and permissions
at the moment a session is issued and are not looked up again.

What is hard, and where the properties come from:

* *Interleaving.* A handler tests a row it read one or more awaits ago. `refresh`
  reads, checks the account, then consumes with an unconditional UPDATE; `login`
  counts failures before the password check and records one after it; `register`
  looks an address up and inserts it later; `confirmEnrollment` checks a code
  against a secret and then enables whatever secret is there.
* *Partial failure.* A handler that dies leaves what its earlier statements
  stored: a consumed token with no successor, a new password with the old
  sessions, half a list of grants with no audit record.
* *Ordering.* Revocation is a statement over the rows of one moment; a row
  inserted after it, by a request already past its checks, is not revoked.
* *Staleness.* An access token carries the permissions that were read before it
  was signed, and is accepted until it expires, by instances that change their
  signing secret one after the other.
* *Delivery.* A refresh changes the token on both sides. Two tabs share one
  cookie, an answer gets lost after the rotation, or comes after the answer to a
  logout; a refresh whose INSERT is refused is answered 500, with the client's
  token already consumed.
* *Hand-kept constraints.* What UNIQUE and foreign keys guarantee in Postgres, the
  memory storage owes to indexes and sets that every method keeps in step.
* *Liveness.* A revocation must reach every row that was there, and a lockout
  must end although clients keep trying.

`PROJECT.json` lists each such place with its line and the properties that cover
it.

## Modules

Each module is a state machine whose variables are tables, what each worker's
request holds between two awaits, and (where a property needs them) history
variables. One action is the code from one await to the next: usually one SQL
statement together with the tests of its result. A worker (`Handlers`) serves one
request at a time, so the number of workers is the number of requests that can
run at once, on all instances together. `Abort` ends a request where it stands:
the process died, or the statement was refused. The constant `Fragile` names the
points where this may happen, so that a run can say exactly which deaths a
property survives.

### `RefreshTokenRepo` and `Sessions`

`RefreshTokenRepo` is the table: a function from tokens to rows, with one operator
per repository method. A token stands for the random string, its hash and its
row's id; fresh tokens are never repeated (`generateToken`). A family is named by
the token that opened it. `consumed_at` and `revoked_at` are Booleans, since the
code only tests them for null.

`Sessions` composes that table with the accounts. Its actions, by handler:

| Handler | Actions |
|---|---|
| login | `LoginFind` (password and status checks on the row read), then `Issue`, or `SignChallenge` if the second factor is on |
| completeMfaLogin | `CompleteFind` (the challenge's lifetime, the account as it is now), `Issue` |
| refresh | `RefreshStart` (the clock is read before the first await), `RefreshFind` (reuse, expiry), `RefreshUser`, `RefreshConsume`, `Issue`, or `RefreshRevokeFamily` |
| logout | `LogoutFind`, `LogoutRevoke` |
| changePassword | `ChangeFind`, `SetPassword`, `RevokeAll` |
| resetPassword | `ResetFind`, `ResetUpdate`, `RevokeAll` |
| verifyEmail | `VerifyFind`, `VerifyConsume`, `Activate` |
| setUserEnabled | `SetEnabledFind`, `Disable`, `RevokeAll`, or `Enable` |

`origin` and `ended` are history: which token, worker and password a row came
from, and which families a logout or a detected reuse ended (`quiet` when no
refresh of the family was past its check at that moment, and the family had no
other current token). A challenge is the user it names and the time it was signed,
with the user's password at that moment as history. The update of `lastLoginAt`, the audit records and the
queries for roles and permissions are left out: nothing here reads them.

### `SessionLedger`

What a client may rely on, without tables and requests: a token is absent, usable
or spent, in this order and for good; it opens a family or succeeds a spent token
of its family; a worker gives a token at most one successor; a closed family has
no usable token and gets no other one. `Promise` says what a client concludes from
that. `Sessions` implements it
(`ImplementsLedger`) under the mapping that reads the state of a token from its
row, its parent and worker from `origin`, and the closed families from the
endings in `ended` that were quiet. The hypothesis "quiet" is where the code's
races show: a family that is revoked, or logged out, while a refresh of it is past
its check is not closed.

### `Clients`

`Sessions` composed with what is on the other side of its routes: the refresh token
each client holds (`jar`), and its calls under way (`call`). Every handler of
`Sessions` is called from here: `Login` is `/login` and `/mfa/verify`, which end in
the same `sendSession`; `Refresh` and `Logout` are the routes of those names;
`Account` is every other one (a verified address, a changed or reset password, an
account disabled or enabled), sent by any client, since an administrator is one.
The worker of `Sessions` belongs to a call from its sending until the answer has
arrived. `Send` starts the handler with the token that `readRefreshToken` finds
(`Presented`), or with an older one the client was given, which a backup or a thief
may present; `Serve` is a step of the handler, and when it was the last one the
answer is made: a new cookie, a cleared one, or (an error) none; `Receive` is when
the cookie changes. Answers arrive in any order.

Three things can go wrong under a call. `Refuse`: a statement is refused, the error
handler answers 500 (`api/errorHandler.ts:48`), and the client receives it and
keeps what it held, though `refresh` may have consumed that already. `RefuseLate`:
the refused statement is one that `login` or `completeMfaLogin` runs after the
INSERT, and the new token is nobody's. `Die` and `Lose`: the process dies with the
connection, or the answer is lost; a client that gives up waiting and tries again
is one with two calls under way.

Three variables are history. `orderly` holds the clients that have made one call at
a time, missed no answer, presented no old copy, and logged in only when they held
nothing or a spent token. `owner` is the client that a token was answered to.
`spoiled` holds the tokens that the service took from their clients: all tokens of
an account whose password was set by `changePassword` or `resetPassword`, or that
was disabled; the token of a refresh that found the account disabled; the token that
a refresh had consumed before its INSERT was refused. `refresh` takes whoever
presents such a token for a thief (`authService.ts:240` looks at `revokedAt` too),
however orderly; what can be promised is that there is no other reason.

The CSRF guard is left out, since it refuses a call before anything has changed, and
so is the clock: a cookie is set after its row is written and for as many days, so
it never expires first.

### `Lockout`

One identifier, since every query is restricted to one. Time is kept as ages, so
the state space is finite without a clock that stops: `age[a]` is how long ago a
failure was recorded, `lag` how long ago a request computed `since`, and the
sliding window is the comparison of the two. `loginAttempts` of the storage is
modelled as the code uses it; no migration of the repository creates its table.

### `Accounts`

Addresses, accounts, and links from `register`'s INSERT to the update that a
redeemed link makes. A mail may be refused: the link is then stored and unsent.
`UseFind`, `Consume` and `Apply` are the common shape of `verifyEmail` and
`resetPassword`, which differ in the purpose of the link and in the hash, which
is followed in `Sessions`. Enabling and disabling are one step, their look-up
being of a row that is never deleted. Of the roles of an account the default one is
followed, with every writer it has: `register` assigns it, and administrators assign
it again (`AssignAgain`) or revoke it (`Withdraw`). A role is never held, held, or
withdrawn; the last two tell whoever was given the role from whoever was not.

### `Mfa`

One account. A secret stands for the TOTP seed and for the codes an
authenticator derives from it; verification is "a code of that secret". Recovery
codes are rows that are fresh, live, consumed or deleted. `replaceForUser` is one
step because it is one transaction. The challenge of a two-step login is a
Boolean the client holds until `Expire`.

### `Rbac`

Roles, permissions, grants and assignments, with the UNIQUE and FOREIGN KEY
constraints of the migration and ON DELETE CASCADE. Handlers that take a list
(`attachPermissions`, `assignRolesToUser`) loop over it with an await per entry
(two for an assignment); the order in which a list is worked through is left
open. `dirty` marks a request that has changed a table and has not written its
audit record. Descriptions are left out, so an `updateRole` that only changes the
description is no step here. Names are compared without case everywhere, so a name
stands for all its spellings. A rename to another spelling of the same name passes
`updateRole` without the checks of a system role and of a clash
(`core/authz/rbacService.ts:131`); here it is a rename of any role to the name it has
(`UpdateFind`), and the two roles that the service relies on keep their names up to
case. `MaxRows` bounds the grants and assignments that are asked for.

### `MemoryRoles`

The same service over the storage that `createStorage` chooses when the process
starts: Postgres, or the maps of `createMemoryStorage`. The variables of `Rbac`
then stand for `rolesById`, `permsById`, `rolePerms` and `userRoles`; the indexes
`roleIdByName` and `permIdByName` are added, and every method that reads or writes
an index, or that leans on a constraint in Postgres, has an action of its own.

Nothing keeps requests over the maps apart. Every await of an RbacService method is
there a promise that is resolved already, and so is that of the guard before it
(the lockfile pins jose 5.10.0, which verifies HS256 with a synchronous HMAC), so two
requests begun in one turn of the event loop interleave at each await. Two
`createRole` of one name then both pass the look-up and both store a role, the
second taking the index entry. `overlap` is history: two requests over the maps were
under way at once. Until then the refinement is by identity: `MirrorsPostgres` says
that every step is one of `Rbac`, and `StoredNamesUnique` and `StoredRowsHold` are
what follows for the tables. What survives every interleaving is `SystemRolesStay`
and the one half of `IndexTrue` that the look-ups rely on: an entry leads to a row of
that name. (The other half, that every row has its entry, is lost with the second
`createRole`.) Ids are random, so those of roles are assumed to differ from those of
users and permissions (`IdsDiffer`).

### `AccessTokens`

The one module about several instances, since here what an instance read when it
started matters: `config[i]` holds the secret it signs with and the previous ones
it accepts, `env` what an instance would read if it started now. A token is the
record that was signed, with its kind (`access` or `mfa`), key, permissions and
age. `Load` and `SignAccess` are the two awaits of `issueSession` that make an
access token, at an instance that may restart in between (`Restart`, for a
rotation or after a crash); `SignMfa` is the challenge of `login`.
`VerifyWithAnyKey`, `VerifyAccessToken` and `RequirePermission` are the functions
of the same names, what a route guarded by a permission runs. `held` is what the
query for permissions returns for the one user, changed by whatever an
administrator does in `Rbac`; `lost` is history.

`Rotate` and `RemovePrevious` are the operator's, who follows section 8 of
`docs/guides/Deployment.md` and waits `Pause` ticks, counted from when every
instance signs with the new secret (`settled`), before a previous secret is
removed or pushed out by the next rotation. The guide says "≥ access TTL" for the
wait. It counts from when the old tokens were signed, so on several instances it
is from the restart of the last one; the challenges of `login`, five minutes, are
covered only if access tokens live at least as long, as by default (15 minutes).

Time is kept as ages, as in `Lockout`, on one clock. `Tick` waits for a request
that has held the permissions it read for `Latency` ticks: the code sets no such
limit, and without one no bound on staleness can be given. `Tokens` bounds the
unexpired tokens there can be at once; a new token takes the place of an expired
one, which would be refused whatever it carries. Roles in a token and `permVer`
(always 1) are left out: no guard reads them.

The `MC` modules only add symmetry sets.

## Runs

Twelve runs. Those that pass:

| Run | Workers and bounds | Question and answer |
|---|---|---|
| `SessionsRotation` | 2 workers, 3 tokens, any request may die anywhere | Whatever interleaves, the table implements the ledger (`ImplementsLedger`), one worker redeems a token at most once (`RedemptionsBounded`), and a session that ended while nothing of it was under way never has a usable token again (`QuietEndingsLast`). |
| `SessionsAccounts` | 2 workers, 2 tokens, logins with and without a second factor, refreshes and everything that changes an account; accepted requests run on | While an account stays disabled and its accepted requests are done, nothing passes its status check and no token is issued to it (`DrainedAccountsStayOut`); every token present when a revocation begins, or when a spent token of its family is presented, is revoked in the end (`RevocationReaches`). |
| `SessionsSequential` | 1 worker, 3 tokens, clock 0..1, all flows, death anywhere but just before a revocation | What the documentation promises holds when requests come one at a time: `SingleUse`, `OneCurrentToken`, `ReuseEndsFamily`, `LogoutEndsSession`, `DisableEndsSessions`, `PasswordChangeEndsSessions`. A challenge that was signed under an earlier password still opens a session, but no later than its own lifetime after the change (`ChallengesOutdated`). A token that has expired is redeemed only by a request that had read an earlier time (`LapsedTokensStayOut`); a second worker would add nothing to that, and `LapsedTokens` proves it for any number. |
| `Clients` | a browser and a native client, 2 concurrent calls, 2 tokens; logins, refreshes, logouts, disabling; answers in any order, lost, or 500 because the INSERT was refused | An orderly client is taken for a thief only over a token that the service took from it (`ThiefOrSpoiled`), whatever the other does. An orderly browser holds, between two calls, the only usable token it was ever given (`BrowsersHoldAll`): so when it has logged out there is none. Without the condition both are false: two tabs that refresh at once, or one lost answer, leave the browser with a spent cookie, and a refresh answered after a logout sets the cookie again. |
| `LockoutWindow` | 2 workers, limit 2, window 2 ticks, latency up to 1 tick | A window holds fewer failures than the limit plus the number of workers (`FailuresBounded`); a locked identifier is let in again although clients never stop trying (`AutoUnlock`). |
| `AccountsLinks` | 2 workers, 1 address, 2 accounts, 4 links, clock 0..1, death anywhere but before the role is assigned | `UniqueEmails`; a link and the live reset links are bounded by the number of workers (`LinkUses`, `LiveResetLinks`); nobody is verified but by mail, administrators included (`VerifiedByMail`); whoever can log in was given the default role, and has it unless an administrator took it away (`VerifiedHasRole`). |
| `MfaEnrolment` | 2 workers, 3 secrets, 4 codes in batches of 2, death anywhere but before the codes are written or deleted | `RecoveryCodeOnce` always; while enrolment requests do not overlap, the factor is on only with a confirmed secret, keeps its full batch of codes and goes off only after a verified code (`OrderlyEnrolment`, `CodesFollowEnrolment`, `StaysEnabled`). Without that condition all three are false: a second enrolment may replace the secret between the check of a code and the update that enables the factor, although `core/mfa/mfaService.ts:66` says that MFA stays disabled until a code is confirmed. |
| `RbacTables` | 2 workers, 1 system role, 2 other roles and names, 2 permissions, no further grant or assignment asked for while there is one, either storage, death anywhere but before the audit record | Over Postgres in every interleaving, and over the memory storage until two requests overlap: one role per name (`StoredNamesUnique`), no row that refers to nothing (`StoredRowsHold`), and the memory storage does nothing that Postgres would not (`MirrorsPostgres`). In every interleaving over both: the system roles stay (`SystemRolesStay`) and an index entry leads to a row of its name (`IndexTrue`); when nobody dies with the audit record still to be written, only the two handlers with lists can change a table unrecorded (`OnlyListsGoUnaudited`). |
| `AccessTokensRotation` | 2 instances, 2 workers, 2 tokens, 1 permission, lifetimes 2 and 1, latency 1, pause 2, 3 secrets | A withdrawn permission stops working everywhere within the lifetime of an access token and the latency of a request (`PermissionsFresh`); two rotations, restarting instance by instance, refuse no unexpired token, but for those signed with a newer secret than the verifying instance has yet (`RotationKeepsTokens`). With a pause of 1 the second is violated. |

Those that show where the code and what it says of itself part:

| Run | Statement | Counterexample |
|---|---|---|
| `SessionsDoubleRedeem` | `docs/design/03-API-Contract.md:76`: the refresh token is "single-use" | Two refreshes read the token unspent, both consume it and both answer. The session has two current tokens, and neither use is detected as reuse. |
| `AccountsDoubleUse` | `docs/SRS-Requirements.md:174`: reset and verification tokens are "single-use" | Two requests that present one mailed link read it unconsumed, both mark it and both update the account (`authService.ts:304`, `:311`): one reset link sets two passwords. |
| `RbacAudit` | `core/authz/rbacService.ts:8`: every mutating operation is recorded | A list whose second entry is unknown: the first is written, the audit record is not. |

Why the bounds are enough for what the runs ask. The races are between two
handlers, each of which tests a row and later writes one, so two workers and one
user show every order of two such pairs; rows of other users, identifiers and
accounts are never touched by a statement about this one. Three tokens are a
login, its successor and a fork of it, or a second session. `Clients` has two: a
session of each client, or a token of one and its successor, which is as far as a
client and an answer it has not received can be apart. One tick of the clock is enough for a token
or link of lifetime one to be valid and then expired, and two ticks of window
with one of latency separate a failure inside the window, at its edge and
outside. Three secrets make two rotations overlap as far as the operator lets
them. `Room...` conditions keep a request from starting when it could find no
free row, so the bounds never block a handler half-way; they are the only guards
that are not the code's. Where the properties are also theorems, the bounds do
not matter.

Deadlock is checked in every passing run. The other runs stop at
their counterexample, on instances that may run out of fresh rows, and do not
check it.

One mutant per property of a passing run is kept beside the definition it
changes: a dropped check, a swapped pair of columns, a statement that reaches too
little. TLC finds the property violated under each.

## Fairness

`Sessions` and `Lockout` have liveness properties. They assume weak fairness of
`Progress(h)` for every worker: a request that was accepted gets its next
statement executed, which is what the event loop and an answering database do.
Nothing is assumed of clients (no `Start` or `LoginStart` has to happen), and
the runs that check liveness let no request die where the promise would fail
with it: `SessionsAccounts` has `Fragile = {}`. `Lockout` assumes in addition
that time passes (`WF(Tick)`), and checks `AutoUnlock` with requests that may die.
The other modules have no liveness property: their handlers are straight lines.

## Proofs

Checked by TLAPS for every value of the constants, under the modules' named
assumptions only (`NoneIsNew`, `TtlAssumption`, `BoundsAssumption`,
`LockoutAssumption`, ...), which TLC evaluates in the runs.

`SessionsProofs`:

* `TypeCorrect`. The inductive invariant is `Base`: besides types, the family of a
  stored row is stored, what a request holds is stored (and consumed, before
  `Issue` of a refresh), and every ended family is stored. Types alone are not
  inductive, because what `Issue` inserts comes from what a request holds.
* `Redemptions`: `RedemptionsBounded` in every interleaving. The strengthening is
  `Lineage`: a row that came from token p proves p consumed and the worker that
  issued it no longer holding p past the check. A worker can come to hold p only
  by finding it unspent (`HoldsSource`), and rows never go back to unspent
  (`Kept`). `SequentialSingleUse` is the same fact for one worker: single use, the
  documented promise, needs one request at a time and nothing else.
  `RedemptionCount` counts: the successors of a token map one to one to workers, so
  they are no more than the requests that can run at once.
* `QuietEndings`: a family that is `Over` (nothing usable, nobody past the check)
  stays over, because only a request past the check inserts into it.
* `DrainedAccounts`: an action property, from `PassingSource`: the only way to get
  past the status check is an account that is not disabled at that moment.
* `SequentialDisable`, `SequentialPasswordChange`: with one worker whose requests
  do not die with the revocation still to come, from `Undisturbed`: unless a
  revocation is about to run, every usable token of a user agrees with the
  account. The two hypotheses are needed: with one more worker, a login that read
  the account before it was disabled inserts its token after `revokeAllForUser`
  (it is refused as long as the account stays disabled, `DrainedAccountsStayOut`,
  and accepted once it is enabled again), and a death between the update and the
  revocation leaves the old sessions valid with nothing to retry it.
* `LastingDisable`, `LastingPasswordChange`: what the same revocations achieve with
  any number of requests. If, at the moment `revokeAllForUser` runs, no request of the
  disabled account is past its status check (none that began under an earlier password
  is past its checks), then no token (of an earlier password) is usable, and none
  becomes so before the account's status (its password) changes again. Both are action
  properties; `DisablingLasts` rests on the step of `DrainedAccounts`,
  `PasswordChangeLasts` on `OutdatedSource`: a request takes an earlier password only
  from a usable token that has it. The hypotheses are what is left of the hazards:
  `DisableEndsSessions` and `PasswordChangeEndsSessions` fail only because of
  such a request, or of a death before the revocation.
* `SequentialRotation`, `SequentialReuse`, `SequentialLogout`: with one worker, from
  `Rotated` (a usable token is the only one of its family, and while a refresh of
  the family is past its check there is none) every ending is quiet, so the last
  two follow from `QuietEndings`.
* `SequentialChallenges`, from `Dated`: a challenge for an earlier password was
  signed no later than the password was replaced. With more workers a login that
  read the old password may sign its challenge after that.
* `LapsedTokens`: an action property; a request comes to hold a token in time only
  by reading the clock before the expiry.
* `Implementation`: `Sessions` implements `SessionLedger` in every interleaving.
  `Issue` is `Open` or `Succeed`, with the invariant of `Redemptions` for the one
  successor and that of `QuietEndings` for the closed family; the statements that
  mark rows are `Retire`; every other step stutters. `Open` needs that no family is
  closed before it is opened, which is `EndedOK` of `Base`.
* `LedgerKeepsPromise`: a behaviour of the ledger keeps `Promise`, by the ledger's own
  actions and nothing of `Sessions`: the abstract specification is strong enough for
  what it is there to say. The step is proved of any values of the ledger's variables
  (`PromisedEntered`, `PromisedRetired`).
* `DueRevocations`: the safe half of `RevocationReaches`. Unless requests die there
  (`Fragile` without `revokeAll`, `find` and `revokeFamily`), a request that has come
  to revoke a token goes on to do so: nothing that others do takes the token out of
  what it is to revoke (`DueKept`), and its own steps lead only to the revocation
  (`DueMade`). Fairness has only to let the request run.

`ClientsProofs`:

* `Composition`: `Clients` takes only steps of `Sessions`, so every theorem above
  holds in the presence of clients, and its invariants are used in what follows.
* `BlamedForCause`, `BrowsersHold` and `OrderlyOnce`: an orderly client is taken for a
  thief only over a spoiled token, its tokens are redeemed once, and, if it is a
  browser, its cookie is the only usable token it was ever given; whatever the other
  clients do, whichever routes they call and wherever statements are refused or
  requests die. The single use that `SessionsDoubleRedeem` refutes for clients in
  general is thus a matter of the client's own order. The invariant has two parts.
  `ClientsBase` says whose token is whose: a family, its tokens, the cookies they are
  in and the calls that present or answer them have one client (`Owned`), and a worker
  runs a request exactly while its call waits for the answer (`Paired`). `Tidiness`
  says of each orderly client that what it holds, or is about to be answered, is
  unspent or spoiled (`Good`), and where its usable token is (`Due`): with the client,
  with the request until it has consumed it, nowhere until the successor is issued, in
  the answer until it is received. A step for one client leaves the rows of all others
  as they are, except that what it marks as spent is then spoiled (`ServeUntouched`),
  which is why nothing has to be assumed of them. The properties of the run `Clients`
  are not inductive by themselves: they say nothing of a call under way.
* `WithoutLogout`: while nobody calls `/logout`, `LogoutRevokes` holds of native
  clients too. With it, it does not: `/logout` reads the cookie only (see below), so
  that route alone leaves the token of a native client usable.

`LockoutProofs`: `FailureBound` is inductive as it stands, together with types and
the finiteness of the recorded failures; `SequentialLimit` follows for one worker:
never more failures in a window than `loginMaxAttempts`. `LockNotProlonged` is the
safe half of `AutoUnlock`: while the identifier is locked and nobody is past the
count, nobody gets past it and nothing is recorded, because a request's window
covers the present one however late it counts (`CountsRecent`). The cardinality
facts come from `FiniteSetTheorems`.

`AccountsProofs`:

* `TypeCorrect`, `OneAccountPerEmail`, `VerifiedThroughMail`. The inductive
  invariant is `Base`: rows refer to rows, a link that was used is consumed, a
  verified account has a consumed link that was mailed, and a request holds what
  its earlier statements established (`Grounded`: a registered user, a mailed link
  of that user, consumed before `Apply`).
* `RoleForAll`, when no registration dies before it assigns the role
  (`"role" \notin Fragile`): from `Enrolled`, every account was given the role or the
  request that made it is about to assign it; so whoever can log in has it unless
  `revokeRoleFromUser` took it. Without the hypothesis it is false: nothing in the code
  retries the assignment.
* `UsesBounded`: `LinkUses` is inductive with `Base`. A link is found only while
  unconsumed, hence unused, and from then on each worker that holds it uses it
  once.
* `ResetLinksBounded`: `LiveResetLinks` together with the finiteness of the sets
  it counts. A new reset link takes the place of a request that has ended the old
  ones.
* `SequentialLinks`: with one worker the last two give `SingleUseLinks`, the documented
  promise that `AccountsDoubleUse` refutes for two, and of the reset links only the
  newest is good.
* `DeadLinks`: an action property: a link that is consumed or expired, and that no
  request past its check holds, is dead for good. The condition is needed:
  `consume` is an unconditional `UPDATE`, so a request that found the link good uses
  it even if another one has consumed it, or its time has passed, since.

`MfaProofs`:

* `TypeCorrect` and `RecoveryCodesOnce`, from `Base`: a code that is still fresh or
  live was never accepted, and none was accepted twice.
* `GoneCodes`: an action property with no such condition: `consume` reports whether it
  found an unconsumed row, so a code accepted, replaced or deleted in the meantime is
  refused even to a request let in before.
* `ConfirmedEnrolment` and `EnrolmentStays`, from `Orderly`: as long as enrolment
  requests have not overlapped, at most one of them is past its first statement
  (`Alone`), and what it found in the row still holds (`Steady`). The condition is
  needed: `confirmEnrollment` enables whatever secret the row holds by then, and an
  overlapping `beginEnrollment` has put another one there.
* `CodesFollow`, when no request dies with the codes still to be written or
  deleted, from `CodesOK`, which says which codes are live at each point of the
  one enrolment request.

`RbacProofs`:

* `TypeCorrect`, `UniqueNames`, `RowsHold`, `SystemRolesHold`, in every
  interleaving and wherever requests die. The invariant is one part about the
  tables and one about what each request holds; names stay unique and rows stay
  attached because of the constraints of the tables, never because of what a
  handler found earlier.
* `UnauditedOnlyLists`, when no request dies at `audit`: from `AllRecording`, a
  request that has changed a table is either at its audit record or works through
  a list. A process that dies there leaves any change unrecorded, so the hypothesis
  is needed.

`MemoryRolesProofs`:

* `Mirrors`, that until two requests overlap the service over either storage takes only
  steps of `Rbac`. The invariant, over the maps, is that at most one request is under
  way, that what it looked up still stands (`Serial`), and that the indexes agree with
  the rows both ways; then the look-ups by name find what a SELECT would, and no write
  meets a constraint that Postgres would have raised.
* `NamesInBoth` and `RowsInBoth`: what `RbacProofs` shows of the tables, for either
  storage, until requests over the maps overlap.
* `IndexStaysTrue` and `SystemRolesInBoth` go through every interleaving, on a second
  invariant (`Anyhow`) that leans on no look-up of another request: an index entry leads
  to a row of its name, the entry of a system role to that role, and a request about to
  write a name does not hold a system role's, unless it renames that role to another
  spelling of its own name.

`AccessTokensProofs`:

* `TypeCorrect`, and `StalenessBounded`: `PermissionsFresh` for every lifetime and
  latency. The invariant is `FreshOK`: what a request holds was held no longer ago
  than it was read, and what a live token carries no longer ago than the age of the
  token and the latency together.
* `NoForcedLogout`: `RotationKeepsTokens` when the pause is at least both lifetimes,
  for any number of instances, tokens and rotations. The invariant is `KeysOK`: an
  instance, and a live token, has the newest secret or the one before, which is then
  accepted wherever the newest is (`InUse`), and a live token of the one before has
  aged since the roll-out was complete. So when the pause is over none is left
  (`PauseExpires`), and the previous secret may go.

Only model-checked: liveness (`RevocationReaches`, `AutoUnlock`), which is outside
what this prover does. Every other property of a passing run is a theorem
(`TypeOK` and `OnlyListsGoUnaudited` of `RbacTables` over Postgres only). The
constants `Fragile` of the runs satisfy the hypotheses of the theorems about the same
properties. TLC found the inductive invariants of `Clients`, and the action properties
stated only in the proof modules (`DisablingLasts`, `PasswordChangeLasts`,
`LockedRecordsNothing`, `RevocationsStayDue`, `DeadLinksStay`, `GoneCodesStay`) and
the ledger's `Promise`, to hold on the instances of the runs before they were proved.

## Not modelled, and why

* Whether an account has the second factor on is left open in `Sessions`, and the
  session it opens is left out of `Mfa`: the two meet in `CompleteFind`.
* The rest of the HTTP layer: stateless mappings of requests to handlers. The rate
  limiter is a library plugin.
* No run of its own, but in the model: `docs/design/03-API-Contract.md:84` says that
  logout revokes the current refresh token, and `api/csrfGuard.ts:20` that native
  clients send it in the body; `/logout` reads the cookie only
  (`api/routes/auth.ts:89`; `/refresh` also reads the body), so a native client is
  answered 204 and its token can still be refreshed. `Presented` has this,
  `LogoutRevokes` is the promise, and `WithoutLogout` shows that it holds but for that
  route.
* Cryptography, TOTP arithmetic and mail: only what they promise. In particular
  `Mfa` does not say which key encrypts a stored seed: `index.ts:40` takes
  `JWT_SECRET` where `MFA_SECRET_KEY` is unset, and a rotation would then leave
  the seeds unreadable.
* A token signed by an instance that has restarted in a rotation is refused by one
  that has not; `AccessTokens` has the step, and `RotationKeepsTokens` leaves it out.
* Clocks are the same on all instances. The code compares times written by one
  instance with the clock of another; skew would act like a longer or shorter
  lifetime.
* The rest of the memory storage. Its other maps are read and written as the rows
  are, but for the UNIQUE constraint on addresses: two registrations that hash their
  passwords at the same time make two accounts of one address there, as the mutant
  `RefusedNever` of `Accounts` does. Its audit log is empty by design, so what
  `RbacTables` says of audit records is about the calls, and a restart loses
  everything.
* A disabled account that redeems a mailed link is active again, as `Accounts`
  models; no document says whether it should be.

## Plan

Done, the core first: `RefreshTokenRepo`, `Sessions`, `Lockout`, `Accounts`, `Mfa`,
`Rbac`, `AccessTokens`, then `SessionLedger`, `Clients` and `MemoryRoles`, each with
its runs; the proofs above.

Left:

1. The other maps of the memory storage, as a second store of `Accounts` and
   `RefreshTokenRepo`.
2. `Mfa` and `Sessions` composed, so that `CompleteFind` depends on the factor.
