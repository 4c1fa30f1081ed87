---------------------------- MODULE AccessTokens ----------------------------
(***************************************************************************)
(* The signed tokens that several instances issue and accept while the     *)
(* operator rotates the signing secret, and the permissions of one user    *)
(* that access tokens carry.                                               *)
(*                                                                         *)
(* The secrets are numbered in the order they are rolled out.  A token is  *)
(* the record that was signed: signatures are not forged and verify only   *)
(* with the secret that made them.  Time is kept as ages.                  *)
(***************************************************************************)
EXTENDS Naturals

CONSTANTS
  Instances,  \* the processes behind the load balancer
  Handlers,   \* workers: each serves one request at a time, on some instance
  Tokens,     \* bound: the unexpired tokens there can be at once
  Perms,
  AccessTtl, MfaTtl,  \* accessTokenTtl and MFA_TTL, in ticks
  Latency,    \* bound: how long a request holds the permissions it read
  Pause,      \* how long the operator waits once a new secret is everywhere
  MaxSecret   \* bound: the last secret rolled out

ASSUME AccessTokensAssumption ==
  /\ Instances # {}
  /\ AccessTtl \in Nat \ {0} /\ MfaTtl \in Nat \ {0}
  /\ Latency \in Nat /\ Pause \in Nat /\ MaxSecret \in Nat \ {0}

VARIABLES
  env,      \* the environment that a starting instance reads
  config,   \* what each instance read when it started
  settled,  \* how long every instance has signed with the newest secret
  tokens,   \* the tokens that clients hold
  held,     \* the permissions that the roles of the user grant now
  lost,     \* history: how long ago the user last had each permission
  req       \* what each worker's call of issueSession holds

vars == <<env, config, settled, tokens, held, lost, req>>

Config == [secret: Nat, previous: SUBSET Nat]

Kind == {"none", "access", "mfa"}

Jwt == [kind: Kind, key: Nat, perms: SUBSET Perms, age: Nat]

NoToken == [kind |-> "none", key |-> 0, perms |-> {}, age |-> 0]

Request == [pc: {"idle", "sign"}, at: Instances, perms: SUBSET Perms, age: Nat]

TypeOK ==
  /\ env \in Config
  /\ config \in [Instances -> Config]
  /\ settled \in Nat
  /\ tokens \in [Tokens -> Jwt]
  /\ held \subseteq Perms
  /\ lost \in [Perms -> Nat]
  /\ req \in [Handlers -> Request]

Init ==
  /\ env = [secret |-> 1, previous |-> {}]
  /\ config = [i \in Instances |-> env]
  /\ settled = 0
  /\ tokens = [t \in Tokens |-> NoToken]
  /\ held = {}
  /\ lost = [p \in Perms |-> AccessTtl + Latency]
  /\ \E i \in Instances :
       req = [h \in Handlers |-> [pc |-> "idle", at |-> i, perms |-> {}, age |-> 0]]

-----------------------------------------------------------------------------
Ttl(kind) == IF kind = "mfa" THEN MfaTtl ELSE AccessTtl

Lifetime(t) == Ttl(tokens[t].kind)

(* Mutant of Expired: the exp claim is not looked at. *)
ExpiredNever(t) == FALSE

Expired(t) == tokens[t].age >= Lifetime(t)

Live(t) == tokens[t].kind # "none" /\ tokens[t].age < Lifetime(t)

(* Mutant of VerifyKeys: the secret before is not accepted any more. *)
VerifyKeysNewest(c) == {c.secret}

VerifyKeys(c) == {c.secret} \cup c.previous

VerifyWithAnyKey(i, t) ==
  /\ tokens[t].kind # "none"
  /\ tokens[t].key \in VerifyKeys(config[i])
  /\ ~Expired(t)

VerifyAccessToken(i, t) == VerifyWithAnyKey(i, t) /\ tokens[t].kind # "mfa"

RequirePermission(i, t, p) == VerifyAccessToken(i, t) /\ p \in tokens[t].perms

(* Mutant of Signed: the time of issue is rounded up. *)
SignedAhead(kind, i, perms) ==
  [kind |-> kind, key |-> config[i].secret, perms |-> perms, age |-> 0 - 1]

Signed(kind, i, perms) ==
  [kind |-> kind, key |-> config[i].secret, perms |-> perms, age |-> 0]

(* A new token.  Nothing is lost with the expired one whose place it takes. *)
Issue(kind, i, perms) ==
  \E t \in Tokens : ~Live(t) /\ tokens' = [tokens EXCEPT ![t] = Signed(kind, i, perms)]

-----------------------------------------------------------------------------
(* issueSession, reached by login, completeMfaLogin and refresh: the query  *)
(* for the permissions, and the signature once the roles are there too.     *)
Load(h, i) ==
  /\ req[h].pc = "idle"
  /\ req' = [req EXCEPT ![h] = [pc |-> "sign", at |-> i, perms |-> held, age |-> 0]]
  /\ UNCHANGED <<env, config, settled, tokens, held, lost>>

SignAccess(h) ==
  /\ req[h].pc = "sign"
  /\ Issue("access", req[h].at, req[h].perms)
  /\ req' = [req EXCEPT ![h].pc = "idle", ![h].perms = {}]
  /\ UNCHANGED <<env, config, settled, held, lost>>

(* The challenge that login signs when the second factor is on. *)
SignMfa(i) ==
  /\ Issue("mfa", i, {})
  /\ UNCHANGED <<env, config, settled, held, lost, req>>

(* Whatever an administrator does to the roles of the user, or to what they *)
(* grant.                                                                   *)
Grant(p) ==
  /\ p \in Perms \ held
  /\ held' = held \cup {p} /\ lost' = [lost EXCEPT ![p] = 0]
  /\ UNCHANGED <<env, config, settled, tokens, req>>

Withdraw(p) ==
  /\ p \in held
  /\ held' = held \ {p}
  /\ UNCHANGED <<env, config, settled, tokens, lost, req>>

-----------------------------------------------------------------------------
(* The rotation of the deployment guide.                                   *)
RolledOut == \A i \in Instances : config[i].secret = env.secret

(* Steps 1 and 2: the secret becomes the previous one of a new one. *)
Rotate ==
  /\ RolledOut /\ (env.previous = {} \/ settled >= Pause)
  /\ env.secret < MaxSecret
  /\ env' = [secret |-> env.secret + 1, previous |-> {env.secret}]
  /\ settled' = 0
  /\ UNCHANGED <<config, tokens, held, lost, req>>

(* An instance starts, for the rotation or after a crash; its requests die. *)
Restart(i) ==
  /\ config' = [config EXCEPT ![i] = env]
  /\ settled' = IF RolledOut THEN settled ELSE 0
  /\ req' = [h \in Handlers |->
               IF req[h].at = i THEN [req[h] EXCEPT !.pc = "idle", !.perms = {}] ELSE req[h]]
  /\ UNCHANGED <<env, tokens, held, lost>>

(* Step 4: the previous secret is removed when its tokens have expired. *)
RemovePrevious ==
  /\ RolledOut /\ env.previous # {} /\ settled >= Pause
  /\ env' = [env EXCEPT !.previous = {}]
  /\ UNCHANGED <<config, settled, tokens, held, lost, req>>

Tick ==
  /\ \A h \in Handlers : req[h].pc = "sign" => req[h].age < Latency
  /\ settled' = IF RolledOut /\ settled < Pause THEN settled + 1 ELSE settled
  /\ tokens' = [t \in Tokens |-> IF Live(t) THEN [tokens[t] EXCEPT !.age = @ + 1] ELSE tokens[t]]
  /\ lost' = [p \in Perms |-> IF p \notin held /\ lost[p] < AccessTtl + Latency
                                THEN lost[p] + 1 ELSE lost[p]]
  /\ req' = [h \in Handlers |-> IF req[h].pc = "sign" THEN [req[h] EXCEPT !.age = @ + 1]
                                                      ELSE [req[h] EXCEPT !.age = 0]]
  /\ UNCHANGED <<env, config, held>>

Next ==
  \/ \E h \in Handlers : SignAccess(h) \/ \E i \in Instances : Load(h, i)
  \/ \E i \in Instances : SignMfa(i) \/ Restart(i)
  \/ \E p \in Perms : Grant(p) \/ Withdraw(p)
  \/ Rotate \/ RemovePrevious \/ Tick

Spec == Init /\ [][Next]_vars

-----------------------------------------------------------------------------
(* A permission that was withdrawn stops working everywhere within the      *)
(* lifetime of an access token and the time that a request may hold what it *)
(* read (issueSession, signAccessToken, requirePermission).                 *)
PermissionsFresh ==
  \A i \in Instances, t \in Tokens, p \in Perms :
    RequirePermission(i, t, p) => lost[p] < AccessTtl + Latency

(* A rotation refuses no token before it expires, but for the new ones at   *)
(* an instance that has not restarted yet (verifyWithAnyKey).               *)
RotationKeepsTokens ==
  \A i \in Instances, t \in Tokens :
    Live(t) /\ tokens[t].key <= config[i].secret => VerifyWithAnyKey(i, t)
=============================================================================
