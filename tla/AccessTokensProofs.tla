------------------------- MODULE AccessTokensProofs -------------------------
(***************************************************************************)
(* Theorems about AccessTokens, for any sets of instances, workers, tokens *)
(* and permissions, any lifetimes and any number of rotations.             *)
(***************************************************************************)
EXTENDS AccessTokens, TLAPS

(* What a token or a request carries was held not long ago.                *)
TokenFresh(t) ==
  \A p \in tokens[t].perms :
    tokens[t].kind = "access" /\ tokens[t].age < AccessTtl => lost[p] <= tokens[t].age + Latency

RequestFresh(h) == req[h].pc = "sign" => /\ req[h].age <= Latency
                                         /\ \A p \in req[h].perms : lost[p] <= req[h].age

FreshOK == /\ \A p \in held : lost[p] = 0
           /\ \A t \in Tokens : TokenFresh(t)
           /\ \A h \in Handlers : RequestFresh(h)

LEMMA SignedType ==
  ASSUME TypeOK, NEW kind \in {"access", "mfa"}, NEW i \in Instances, NEW perms \in SUBSET Perms
  PROVE  Signed(kind, i, perms) \in Jwt
  BY DEF TypeOK, Config, Jwt, Kind, Signed

LEMMA IssueType ==
  ASSUME TypeOK, NEW kind \in {"access", "mfa"}, NEW i \in Instances, NEW perms \in SUBSET Perms,
         Issue(kind, i, perms)
  PROVE  /\ tokens' \in [Tokens -> Jwt]
         /\ \E t \in Tokens : /\ ~Live(t) /\ tokens'[t] = Signed(kind, i, perms)
                              /\ \A s \in Tokens \ {t} : tokens'[s] = tokens[s]
  <1>1. PICK t \in Tokens : ~Live(t) /\ tokens' = [tokens EXCEPT ![t] = Signed(kind, i, perms)]
    BY DEF Issue
  <1>2. Signed(kind, i, perms) \in Jwt
    BY SignedType
  <1> QED
    BY <1>1, <1>2 DEF TypeOK

LEMMA LifetimeType == \A t \in Tokens : Lifetime(t) \in Nat \ {0}
  BY AccessTokensAssumption DEF Lifetime, Ttl

LEMMA TickType ==
  ASSUME TypeOK, Tick
  PROVE  /\ settled' \in Nat
         /\ tokens' \in [Tokens -> Jwt]
         /\ \A t \in Tokens : /\ tokens'[t].kind = tokens[t].kind
                              /\ tokens'[t].key = tokens[t].key
                              /\ tokens'[t].perms = tokens[t].perms
                              /\ tokens'[t].age = IF Live(t) THEN tokens[t].age + 1 ELSE tokens[t].age
         /\ lost' \in [Perms -> Nat]
         /\ \A p \in Perms : /\ lost'[p] <= lost[p] + 1
                             /\ p \in held => lost'[p] = lost[p]
         /\ req' \in [Handlers -> Request]
         /\ \A h \in Handlers : /\ req'[h].pc = req[h].pc /\ req'[h].at = req[h].at
                                /\ req'[h].perms = req[h].perms
                                /\ req[h].pc = "sign" => /\ req'[h].age = req[h].age + 1
                                                         /\ req[h].age < Latency
  <1> USE DEF TypeOK
  <1>1. settled' \in Nat
    BY AccessTokensAssumption DEF Tick
  <1>2. ASSUME NEW t \in Tokens
        PROVE  /\ [tokens[t] EXCEPT !.age = @ + 1] \in Jwt
               /\ tokens[t] \in Jwt
    BY DEF Jwt
  <1>3. tokens' = [t \in Tokens |-> IF Live(t) THEN [tokens[t] EXCEPT !.age = @ + 1] ELSE tokens[t]]
    BY DEF Tick
  <1>4. tokens' \in [Tokens -> Jwt]
    BY <1>2, <1>3
  <1>5. \A t \in Tokens : /\ tokens'[t].kind = tokens[t].kind
                          /\ tokens'[t].key = tokens[t].key
                          /\ tokens'[t].perms = tokens[t].perms
                          /\ tokens'[t].age = IF Live(t) THEN tokens[t].age + 1 ELSE tokens[t].age
    BY <1>2, <1>3 DEF Jwt
  <1>6. /\ lost' \in [Perms -> Nat]
        /\ \A p \in Perms : /\ lost'[p] <= lost[p] + 1
                            /\ p \in held => lost'[p] = lost[p]
    BY DEF Tick
  <1>7. \A h \in Handlers : /\ [req[h] EXCEPT !.age = @ + 1] \in Request
                            /\ [req[h] EXCEPT !.age = 0] \in Request
                            /\ req[h] \in Request
    BY DEF Request
  <1>8. req' = [h \in Handlers |-> IF req[h].pc = "sign" THEN [req[h] EXCEPT !.age = @ + 1]
                                                         ELSE [req[h] EXCEPT !.age = 0]]
        /\ \A h \in Handlers : req[h].pc = "sign" => req[h].age < Latency
    BY DEF Tick
  <1>9. req' \in [Handlers -> Request]
    BY <1>7, <1>8
  <1>10. \A h \in Handlers : /\ req'[h].pc = req[h].pc /\ req'[h].at = req[h].at
                             /\ req'[h].perms = req[h].perms
                             /\ req[h].pc = "sign" => req'[h].age = req[h].age + 1
    BY <1>7, <1>8 DEF Request
  <1> QED
    BY <1>1, <1>4, <1>5, <1>6, <1>8, <1>9, <1>10

LEMMA RestartRequests ==
  ASSUME TypeOK, NEW i \in Instances, Restart(i)
  PROVE  /\ req' \in [Handlers -> Request]
         /\ \A h \in Handlers : req'[h].pc = "sign" => req'[h] = req[h]
  <1>1. \A h \in Handlers : /\ [req[h] EXCEPT !.pc = "idle", !.perms = {}] \in Request
                            /\ [req[h] EXCEPT !.pc = "idle", !.perms = {}].pc = "idle"
                            /\ req[h] \in Request
    BY DEF TypeOK, Request
  <1> QED
    BY <1>1 DEF Restart

LEMMA NextType == TypeOK /\ [Next]_vars => TypeOK'
  <1> SUFFICES ASSUME TypeOK, [Next]_vars PROVE TypeOK'
    OBVIOUS
  <1>1. ASSUME NEW h \in Handlers, SignAccess(h) PROVE TypeOK'
    <2>1. req[h] \in Request /\ [req[h] EXCEPT !.pc = "idle", !.perms = {}] \in Request
      BY DEF TypeOK, Request
    <2>2. req' = [req EXCEPT ![h] = [req[h] EXCEPT !.pc = "idle", !.perms = {}]]
      BY <1>1, <2>1 DEF SignAccess, TypeOK, Request
    <2>3. req' \in [Handlers -> Request]
      BY <2>1, <2>2 DEF TypeOK
    <2>4. tokens' \in [Tokens -> Jwt]
      BY <1>1, <2>1, IssueType DEF SignAccess, Request
    <2> QED
      BY <1>1, <2>3, <2>4 DEF SignAccess, TypeOK
  <1>2. ASSUME NEW h \in Handlers, NEW i \in Instances, Load(h, i) PROVE TypeOK'
    <2>1. [pc |-> "sign", at |-> i, perms |-> held, age |-> 0] \in Request
      BY DEF TypeOK, Request
    <2> QED
      BY <1>2, <2>1 DEF Load, TypeOK
  <1>3. ASSUME NEW i \in Instances, SignMfa(i) PROVE TypeOK'
    <2>1. tokens' \in [Tokens -> Jwt]
      BY <1>3, IssueType DEF SignMfa
    <2> QED
      BY <1>3, <2>1 DEF SignMfa, TypeOK
  <1>4. ASSUME NEW i \in Instances, Restart(i) PROVE TypeOK'
    BY <1>4, RestartRequests DEF Restart, TypeOK
  <1>5. ASSUME NEW p \in Perms, Grant(p) \/ Withdraw(p) PROVE TypeOK'
    BY <1>5 DEF Grant, Withdraw, TypeOK
  <1>6. CASE Rotate \/ RemovePrevious
    BY <1>6 DEF Rotate, RemovePrevious, TypeOK, Config
  <1>7. CASE Tick
    BY <1>7, TickType DEF Tick, TypeOK
  <1>8. CASE UNCHANGED vars
    BY <1>8 DEF vars, TypeOK
  <1> QED
    BY <1>1, <1>2, <1>3, <1>4, <1>5, <1>6, <1>7, <1>8 DEF Next

LEMMA InitType == Init => TypeOK
  BY AccessTokensAssumption DEF Init, TypeOK, Config, Jwt, Kind, NoToken, Request

(* Every reachable state is well typed.                                    *)
THEOREM TypeCorrect == Spec => []TypeOK
  BY InitType, NextType, PTL DEF Spec

-----------------------------------------------------------------------------
(* Permissions.                                                            *)

LEMMA NextFresh == TypeOK /\ FreshOK /\ [Next]_vars => FreshOK'
  <1> SUFFICES ASSUME TypeOK, FreshOK, [Next]_vars PROVE FreshOK'
    OBVIOUS
  <1>1. ASSUME NEW kind \in {"access", "mfa"}, NEW i \in Instances, NEW perms \in SUBSET Perms,
               Issue(kind, i, perms), \A p \in perms : lost[p] <= Latency, lost' = lost
        PROVE  \A t \in Tokens : TokenFresh(t)'
    <2>1. PICK t \in Tokens : /\ tokens'[t] = Signed(kind, i, perms)
                              /\ \A s \in Tokens \ {t} : tokens'[s] = tokens[s]
      BY <1>1, IssueType
    <2>2. TokenFresh(t)'
      BY <1>1, <2>1, AccessTokensAssumption DEF TokenFresh, Signed, TypeOK
    <2>3. ASSUME NEW s \in Tokens \ {t} PROVE TokenFresh(s)'
      BY <1>1, <2>1 DEF TokenFresh, FreshOK
    <2> QED
      BY <2>2, <2>3
  <1>2. ASSUME NEW h \in Handlers, SignAccess(h) PROVE FreshOK'
    <2>1. req[h] \in Request /\ req[h].pc = "sign" /\ Issue("access", req[h].at, req[h].perms)
          /\ UNCHANGED <<held, lost>>
      BY <1>2 DEF SignAccess, TypeOK
    <2>2. \A p \in req[h].perms : lost[p] \in Nat /\ lost[p] <= Latency
      BY <2>1, AccessTokensAssumption DEF FreshOK, RequestFresh, TypeOK, Request
    <2>3. \A t \in Tokens : TokenFresh(t)'
      BY <1>1, <2>1, <2>2 DEF Request
    <2>4. req'[h].pc = "idle" /\ \A g \in Handlers \ {h} : req'[g] = req[g]
      BY <1>2, <2>1 DEF SignAccess, TypeOK, Request
    <2>5. \A g \in Handlers : RequestFresh(g)'
      BY <2>1, <2>4 DEF RequestFresh, FreshOK
    <2> QED
      BY <2>1, <2>3, <2>5 DEF FreshOK
  <1>3. ASSUME NEW h \in Handlers, NEW i \in Instances, Load(h, i) PROVE FreshOK'
    <2>1. /\ req'[h] = [pc |-> "sign", at |-> i, perms |-> held, age |-> 0]
          /\ \A g \in Handlers \ {h} : req'[g] = req[g]
          /\ UNCHANGED <<tokens, held, lost>>
      BY <1>3 DEF Load, TypeOK
    <2>2. RequestFresh(h)'
      BY <2>1, AccessTokensAssumption DEF RequestFresh, FreshOK
    <2>3. \A g \in Handlers \ {h} : RequestFresh(g)'
      BY <2>1 DEF RequestFresh, FreshOK
    <2> QED
      BY <2>1, <2>2, <2>3 DEF FreshOK, TokenFresh
  <1>4. ASSUME NEW i \in Instances, SignMfa(i) PROVE FreshOK'
    <2>1. Issue("mfa", i, {}) /\ UNCHANGED <<held, lost, req>>
      BY <1>4 DEF SignMfa
    <2>2. \A t \in Tokens : TokenFresh(t)'
      BY <1>1, <2>1
    <2> QED
      BY <2>1, <2>2 DEF FreshOK, RequestFresh
  <1>5. ASSUME NEW i \in Instances, Restart(i) PROVE FreshOK'
    <2>1. UNCHANGED <<tokens, held, lost>>
      BY <1>5 DEF Restart
    <2>2. \A h \in Handlers : RequestFresh(h)'
      BY <1>5, <2>1, RestartRequests DEF RequestFresh, FreshOK
    <2> QED
      BY <2>1, <2>2 DEF FreshOK, TokenFresh
  <1>6. ASSUME NEW p \in Perms, Grant(p) PROVE FreshOK'
    <2>1. /\ held' = held \cup {p} /\ lost' \in [Perms -> Nat] /\ lost'[p] = 0
          /\ \A q \in Perms \ {p} : lost'[q] = lost[q]
          /\ UNCHANGED <<tokens, req>>
      BY <1>6 DEF Grant, TypeOK
    <2>2. \A q \in Perms : lost'[q] <= lost[q] /\ lost[q] \in Nat /\ lost'[q] \in Nat
      BY <2>1 DEF TypeOK
    <2>3. \A q \in held' : lost'[q] = 0
      BY <2>1 DEF FreshOK, TypeOK
    <2>4. ASSUME NEW t \in Tokens PROVE TokenFresh(t)'
      <3>1. tokens[t].perms \subseteq Perms /\ tokens[t].age \in Nat
        BY DEF TypeOK, Jwt
      <3>2. TokenFresh(t)
        BY DEF FreshOK
      <3> QED
        BY <2>1, <2>2, <3>1, <3>2, AccessTokensAssumption DEF TokenFresh
    <2>5. ASSUME NEW h \in Handlers PROVE RequestFresh(h)'
      <3>1. req[h].perms \subseteq Perms /\ req[h].age \in Nat
        BY DEF TypeOK, Request
      <3>2. RequestFresh(h)
        BY DEF FreshOK
      <3> QED
        BY <2>1, <2>2, <3>1, <3>2 DEF RequestFresh
    <2> QED
      BY <2>3, <2>4, <2>5 DEF FreshOK
  <1>7. ASSUME NEW p \in Perms, Withdraw(p) PROVE FreshOK'
    BY <1>7 DEF Withdraw, FreshOK, TokenFresh, RequestFresh
  <1>8. CASE Rotate \/ RemovePrevious
    BY <1>8 DEF Rotate, RemovePrevious, FreshOK, TokenFresh, RequestFresh
  <1>9. CASE Tick
    <2>1. held' = held
      BY <1>9 DEF Tick
    <2>2. \A p \in held' : lost'[p] = 0
      BY <1>9, <2>1, TickType DEF FreshOK, TypeOK
    <2>3. ASSUME NEW t \in Tokens PROVE TokenFresh(t)'
      <3> SUFFICES ASSUME NEW p \in tokens'[t].perms,
                          tokens'[t].kind = "access", tokens'[t].age < AccessTtl
                   PROVE  lost'[p] <= tokens'[t].age + Latency
        BY DEF TokenFresh
      <3>1. /\ p \in tokens[t].perms /\ p \in Perms /\ tokens[t].kind = "access"
            /\ tokens[t].age \in Nat /\ lost[p] \in Nat /\ lost'[p] \in Nat
            /\ lost'[p] <= lost[p] + 1
            /\ tokens'[t].age = IF Live(t) THEN tokens[t].age + 1 ELSE tokens[t].age
        BY <1>9, TickType DEF TypeOK, Jwt
      <3>2. tokens[t].age < AccessTtl
        BY <3>1, AccessTokensAssumption
      <3>3. Live(t)
        BY <3>1, <3>2 DEF Live, Lifetime, Ttl
      <3>4. lost[p] <= tokens[t].age + Latency
        BY <3>1, <3>2 DEF FreshOK, TokenFresh
      <3> QED
        BY <3>1, <3>3, <3>4, AccessTokensAssumption
    <2>4. ASSUME NEW h \in Handlers PROVE RequestFresh(h)'
      <3>1. /\ req'[h].pc = req[h].pc /\ req'[h].perms = req[h].perms
            /\ req[h].perms \subseteq Perms /\ req[h].age \in Nat
            /\ req[h].pc = "sign" => req'[h].age = req[h].age + 1 /\ req[h].age < Latency
        BY <1>9, TickType DEF TypeOK, Request
      <3>2. \A p \in Perms : lost'[p] <= lost[p] + 1 /\ lost[p] \in Nat /\ lost'[p] \in Nat
        BY <1>9, TickType DEF TypeOK
      <3>3. RequestFresh(h)
        BY DEF FreshOK
      <3> QED
        BY <3>1, <3>2, <3>3, AccessTokensAssumption DEF RequestFresh
    <2> QED
      BY <2>2, <2>3, <2>4 DEF FreshOK
  <1>10. CASE UNCHANGED vars
    BY <1>10 DEF vars, FreshOK, TokenFresh, RequestFresh
  <1> QED
    BY <1>2, <1>3, <1>4, <1>5, <1>6, <1>7, <1>8, <1>9, <1>10 DEF Next

(* A permission that was withdrawn stops working everywhere within the      *)
(* lifetime of an access token and the latency of a request (issueSession,  *)
(* requirePermission).                                                      *)
THEOREM StalenessBounded == Spec => []PermissionsFresh
  <1>1. Init => FreshOK
    BY DEF Init, FreshOK, TokenFresh, RequestFresh, NoToken
  <1>2. TypeOK /\ FreshOK => PermissionsFresh
    <2> SUFFICES ASSUME TypeOK, FreshOK, NEW i \in Instances, NEW t \in Tokens, NEW p \in Perms,
                        RequirePermission(i, t, p)
                 PROVE  lost[p] < AccessTtl + Latency
      BY DEF PermissionsFresh
    <2>1. /\ tokens[t].kind \in Kind /\ tokens[t].kind # "mfa" /\ tokens[t].kind # "none"
          /\ p \in tokens[t].perms /\ ~(tokens[t].age >= Lifetime(t)) /\ tokens[t].age \in Nat
      BY DEF TypeOK, Jwt, RequirePermission, VerifyAccessToken, VerifyWithAnyKey, Expired
    <2>2. tokens[t].kind = "access" /\ tokens[t].age < AccessTtl
      BY <2>1, AccessTokensAssumption DEF Kind, Lifetime, Ttl
    <2>3. lost[p] <= tokens[t].age + Latency /\ lost[p] \in Nat
      BY <2>1, <2>2 DEF FreshOK, TokenFresh, TypeOK
    <2> QED
      BY <2>1, <2>2, <2>3, AccessTokensAssumption
  <1> QED
    BY <1>1, <1>2, InitType, NextType, NextFresh, PTL DEF Spec

-----------------------------------------------------------------------------
(* Rotations.                                                              *)

(* The secret before the newest one, still accepted wherever the newest is.*)
InUse(k) == /\ k \in env.previous /\ k + 1 = env.secret
            /\ \A j \in Instances : config[j].secret = env.secret => k \in config[j].previous

InstanceKey(i) == config[i].secret = env.secret \/ InUse(config[i].secret)

(* A live token of the secret before is at least as old as the roll-out.   *)
TokenKey(t) ==
  Live(t) => /\ tokens[t].key = env.secret \/ InUse(tokens[t].key)
             /\ RolledOut /\ tokens[t].key # env.secret => tokens[t].age >= settled

KeysOK == (\A i \in Instances : InstanceKey(i)) /\ (\A t \in Tokens : TokenKey(t))

LEMMA TokensSigned ==
  ASSUME TypeOK, KeysOK, NEW kind \in {"access", "mfa"}, NEW i \in Instances,
         NEW perms \in SUBSET Perms, Issue(kind, i, perms), UNCHANGED <<env, config, settled>>
  PROVE  KeysOK'
  <1>1. PICK t \in Tokens : /\ tokens'[t] = Signed(kind, i, perms)
                            /\ \A s \in Tokens \ {t} : tokens'[s] = tokens[s]
    BY IssueType
  <1>2. tokens'[t].key = config[i].secret
    BY <1>1 DEF Signed
  <1>3. \A j \in Instances : InstanceKey(j)'
    BY DEF KeysOK, InstanceKey, InUse
  <1>4. TokenKey(t)'
    BY <1>2 DEF KeysOK, InstanceKey, InUse, TokenKey, RolledOut
  <1>5. ASSUME NEW s \in Tokens \ {t} PROVE TokenKey(s)'
    BY <1>1 DEF KeysOK, InUse, TokenKey, RolledOut, Live, Lifetime
  <1> QED
    BY <1>3, <1>4, <1>5 DEF KeysOK

(* Nothing signed with the secret before is live when its pause has passed.*)
LEMMA PauseExpires ==
  ASSUME TypeOK, KeysOK, AccessTtl <= Pause, MfaTtl <= Pause,
         RolledOut, env.previous = {} \/ settled >= Pause,
         NEW t \in Tokens, Live(t)
  PROVE  tokens[t].key = env.secret
  <1>1. tokens[t].age \in Nat /\ tokens[t].age < Lifetime(t)
    BY DEF TypeOK, Jwt, Live
  <1>2. Lifetime(t) <= Pause /\ Lifetime(t) \in Nat
    BY AccessTokensAssumption DEF Lifetime, Ttl
  <1>3. SUFFICES ASSUME tokens[t].key # env.secret PROVE FALSE
    OBVIOUS
  <1>4. InUse(tokens[t].key) /\ tokens[t].age >= settled
    BY <1>3 DEF KeysOK, TokenKey
  <1>5. settled >= Pause
    BY <1>4 DEF InUse
  <1> QED
    BY <1>1, <1>2, <1>4, <1>5, AccessTokensAssumption DEF TypeOK

LEMMA NextKeys ==
  ASSUME AccessTtl <= Pause, MfaTtl <= Pause, TypeOK, KeysOK, [Next]_vars
  PROVE  KeysOK'
  <1>1. ASSUME NEW h \in Handlers, SignAccess(h) PROVE KeysOK'
    <2>1. req[h] \in Request
      BY DEF TypeOK
    <2> QED
      BY <1>1, <2>1, TokensSigned DEF SignAccess, Request
  <1>2. ASSUME NEW i \in Instances, SignMfa(i) PROVE KeysOK'
    BY <1>2, TokensSigned DEF SignMfa
  <1>3. ASSUME UNCHANGED <<env, config, settled, tokens>> PROVE KeysOK'
    BY <1>3 DEF KeysOK, InstanceKey, TokenKey, InUse, RolledOut, Live, Lifetime
  <1>4. ASSUME NEW i \in Instances, Restart(i) PROVE KeysOK'
    <2>1. /\ env' = env /\ tokens' = tokens
          /\ config'[i] = env /\ \A j \in Instances \ {i} : config'[j] = config[j]
          /\ settled' = IF RolledOut THEN settled ELSE 0
      BY <1>4 DEF Restart, TypeOK
    <2>2. \A k : InUse(k) => InUse(k)'
      BY <2>1 DEF InUse
    <2>3. \A j \in Instances : InstanceKey(j)'
      BY <2>1, <2>2 DEF KeysOK, InstanceKey
    <2>4. ASSUME NEW t \in Tokens, Live(t)' PROVE TokenKey(t)'
      <3>1. Live(t) /\ tokens[t].age \in Nat /\ tokens'[t] = tokens[t]
        BY <2>1, <2>4 DEF Live, Lifetime, TypeOK, Jwt
      <3>2. (tokens[t].key = env.secret \/ InUse(tokens[t].key))'
        BY <2>1, <2>2, <3>1 DEF KeysOK, TokenKey
      <3>3. RolledOut /\ tokens'[t].key # env'.secret => tokens'[t].age >= settled'
        BY <2>1, <3>1 DEF KeysOK, TokenKey
      <3>4. ~RolledOut => tokens'[t].age >= settled'
        BY <2>1, <3>1
      <3> QED
        BY <3>2, <3>3, <3>4 DEF TokenKey
    <2> QED
      BY <2>3, <2>4 DEF KeysOK, TokenKey
  <1>5. CASE Rotate
    <2>1. /\ RolledOut /\ (env.previous = {} \/ settled >= Pause)
          /\ env' = [secret |-> env.secret + 1, previous |-> {env.secret}]
          /\ UNCHANGED <<config, tokens>> /\ env.secret \in Nat
      BY <1>5 DEF Rotate, TypeOK, Config
    <2>2. \A j \in Instances : config'[j].secret = env.secret /\ config'[j].secret # env'.secret
      BY <2>1 DEF RolledOut
    <2>3. \A k : k = env.secret => InUse(k)'
      BY <2>1, <2>2 DEF InUse
    <2>4. ~RolledOut'
      BY <2>2, AccessTokensAssumption DEF RolledOut
    <2>5. ASSUME NEW t \in Tokens, Live(t)' PROVE tokens'[t].key = env.secret
      BY <2>1, <2>5, PauseExpires DEF Live, Lifetime
    <2> QED
      BY <2>2, <2>3, <2>4, <2>5 DEF KeysOK, InstanceKey, TokenKey
  <1>6. CASE RemovePrevious
    <2>1. /\ RolledOut /\ settled >= Pause /\ env'.secret = env.secret
          /\ UNCHANGED <<config, tokens>>
      BY <1>6 DEF RemovePrevious, TypeOK, Config
    <2>2. ASSUME NEW t \in Tokens, Live(t)' PROVE tokens'[t].key = env'.secret
      BY <2>1, <2>2, PauseExpires DEF Live, Lifetime
    <2>3. \A j \in Instances : config'[j].secret = env'.secret
      BY <2>1 DEF RolledOut
    <2> QED
      BY <2>2, <2>3 DEF KeysOK, InstanceKey, TokenKey
  <1>7. CASE Tick
    <2>1. /\ UNCHANGED <<env, config>> /\ settled \in Nat
          /\ settled' = IF RolledOut /\ settled < Pause THEN settled + 1 ELSE settled
      BY <1>7 DEF Tick, TypeOK
    <2>2. \A k : InUse(k) => InUse(k)'
      BY <2>1 DEF InUse
    <2>3. \A j \in Instances : InstanceKey(j)'
      BY <2>1, <2>2 DEF KeysOK, InstanceKey
    <2>4. ASSUME NEW t \in Tokens, Live(t)' PROVE TokenKey(t)'
      <3>1. /\ tokens'[t].kind = tokens[t].kind /\ tokens'[t].key = tokens[t].key
            /\ tokens'[t].age = IF Live(t) THEN tokens[t].age + 1 ELSE tokens[t].age
            /\ tokens[t].age \in Nat
        BY <1>7, TickType DEF TypeOK, Jwt
      <3>2. Live(t)
        BY <2>4, <3>1 DEF Live, Lifetime
      <3>3. tokens[t].key = env.secret \/ InUse(tokens[t].key)
        BY <3>2 DEF KeysOK, TokenKey
      <3>4. RolledOut /\ tokens[t].key # env.secret => tokens[t].age >= settled
        BY <3>2 DEF KeysOK, TokenKey
      <3>5. RolledOut' = RolledOut
        BY <2>1 DEF RolledOut
      <3>6. tokens'[t].age = tokens[t].age + 1 /\ settled' <= settled + 1
        BY <2>1, <3>1, <3>2, AccessTokensAssumption
      <3>7. tokens[t].age >= settled => tokens'[t].age >= settled'
        BY <2>1, <3>1, <3>6
      <3> QED
        BY <2>1, <2>2, <3>1, <3>3, <3>4, <3>5, <3>7 DEF TokenKey
    <2> QED
      BY <2>3, <2>4 DEF KeysOK, TokenKey
  <1> QED
    BY <1>1, <1>2, <1>3, <1>4, <1>5, <1>6, <1>7
    DEF Next, Load, Grant, Withdraw, vars

(* When the operator waits for as long as the longest-lived token, however  *)
(* the instances restart, no rotation refuses a token before it expires but *)
(* the new ones at an instance still to be restarted (verifyWithAnyKey).    *)
THEOREM NoForcedLogout ==
  ASSUME AccessTtl <= Pause, MfaTtl <= Pause
  PROVE  Spec => []RotationKeepsTokens
  <1>1. Init => KeysOK
    BY DEF Init, KeysOK, InstanceKey, TokenKey, Live, NoToken
  <1>2. TypeOK /\ KeysOK /\ [Next]_vars => KeysOK'
    BY NextKeys
  <1>3. TypeOK /\ KeysOK => RotationKeepsTokens
    <2> SUFFICES ASSUME TypeOK, KeysOK, NEW i \in Instances, NEW t \in Tokens,
                        Live(t), tokens[t].key <= config[i].secret
                 PROVE  VerifyWithAnyKey(i, t)
      BY DEF RotationKeepsTokens
    <2>1. tokens[t].kind # "none" /\ ~Expired(t)
      BY LifetimeType DEF Live, Expired, TypeOK, Jwt
    <2>2. /\ tokens[t].key \in Nat /\ config[i].secret \in Nat /\ env.secret \in Nat
          /\ tokens[t].key = env.secret \/ InUse(tokens[t].key)
          /\ InstanceKey(i)
      BY DEF TypeOK, Jwt, Config, KeysOK, TokenKey
    <2>3. tokens[t].key = config[i].secret \/ tokens[t].key \in config[i].previous
      BY <2>2 DEF InstanceKey, InUse
    <2> QED
      BY <2>1, <2>3 DEF VerifyWithAnyKey, VerifyKeys
  <1> QED
    BY <1>1, <1>2, <1>3, InitType, NextType, PTL DEF Spec
=============================================================================
