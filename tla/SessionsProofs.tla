--------------------------- MODULE SessionsProofs ---------------------------
(***************************************************************************)
(* Theorems about Sessions, for any number of users, tokens and workers,   *)
(* any clock and any interleaving.                                         *)
(***************************************************************************)
EXTENDS Sessions, FiniteSetTheorems, TLAPS

(* Rows point at stored rows: the family at the token that opened it.      *)
RowsOK ==
  \A t \in Stored(rt) : rt[t].family \in Stored(rt)

(* What a request holds is what its earlier statements established.        *)
Grounded(r, table) ==
  /\ r.pc \in {"find", "user", "consume", "revokeFamily", "logout"}
       => r.tok \in Stored(table)
  /\ r.pc = "issue" /\ r.tok # None
       => r.tok \in Stored(table) /\ table[r.tok].consumed
  /\ r.pc \notin {"idle", "find", "logout"} => r.user \in Users

RequestsOK == \A h \in Handlers : Grounded(req[h], rt)

EndedOK == \A e \in ended : e.family \in Stored(rt)

Base == StoreTypeOK /\ RowsOK /\ RequestsOK /\ EndedOK

-----------------------------------------------------------------------------
(* The repository's operators keep the table a table.                      *)

LEMMA NoneIsNoUser == None \notin Users /\ None \notin Tokens
  BY NoneIsNew

LEMMA CreateType ==
  ASSUME NEW table \in [Tokens -> Row], NEW t \in Tokens, NEW u \in Users,
         NEW f \in Tokens, NEW e \in Nat
  PROVE  /\ Create(table, t, u, f, e) \in [Tokens -> Row]
         /\ Stored(Create(table, t, u, f, e)) = Stored(table) \cup {t}
         /\ \A s \in Tokens \ {t} : Create(table, t, u, f, e)[s] = table[s]
         /\ Create(table, t, u, f, e)[t].user = u
         /\ Create(table, t, u, f, e)[t].family = f
         /\ ~Spent(Create(table, t, u, f, e)[t])
  BY NoneIsNoUser DEF Create, Row, Stored, Spent

LEMMA MarkConsumedType ==
  ASSUME NEW table \in [Tokens -> Row], NEW t \in Tokens
  PROVE  /\ MarkConsumed(table, t) \in [Tokens -> Row]
         /\ Stored(MarkConsumed(table, t)) = Stored(table)
         /\ \A s \in Tokens :
              /\ MarkConsumed(table, t)[s].family = table[s].family
              /\ MarkConsumed(table, t)[s].expiresAt = table[s].expiresAt
              /\ MarkConsumed(table, t)[s].user = table[s].user
              /\ MarkConsumed(table, t)[s].revoked = table[s].revoked
              /\ table[s].consumed => MarkConsumed(table, t)[s].consumed
         /\ MarkConsumed(table, t)[t].consumed
  BY DEF MarkConsumed, Row, Stored

LEMMA RevokeType ==
  ASSUME NEW table \in [Tokens -> Row], NEW t \in Tokens
  PROVE  Revoke(table, t) = RevokeWhere(table, {t})
  BY DEF Revoke, RevokeWhere, Row

LEMMA RevokeWhereType ==
  ASSUME NEW table \in [Tokens -> Row], NEW Picked
  PROVE  /\ RevokeWhere(table, Picked) \in [Tokens -> Row]
         /\ Stored(RevokeWhere(table, Picked)) = Stored(table)
         /\ \A s \in Tokens :
              /\ RevokeWhere(table, Picked)[s].family = table[s].family
              /\ RevokeWhere(table, Picked)[s].expiresAt = table[s].expiresAt
              /\ RevokeWhere(table, Picked)[s].user = table[s].user
              /\ RevokeWhere(table, Picked)[s].consumed = table[s].consumed
              /\ table[s].revoked => RevokeWhere(table, Picked)[s].revoked
              /\ s \in Picked => RevokeWhere(table, Picked)[s].revoked
  BY DEF RevokeWhere, Row, Stored

(* What one step may do to the table: nothing, insert one row, or mark rows *)
(* spent.  Rows never change owner, family or go back to unspent.           *)
Kept(old, new) ==
  \A s \in Stored(old) :
    /\ s \in Stored(new)
    /\ new[s].family = old[s].family
    /\ new[s].user = old[s].user
    /\ old[s].consumed => new[s].consumed
    /\ old[s].revoked => new[s].revoked

-----------------------------------------------------------------------------
(* Type correctness, with what requests and rows refer to.                 *)

LEMMA InitBase == Init => Base
  <1> SUFFICES ASSUME Init PROVE Base
    OBVIOUS
  <1> USE NoneIsNoUser DEF Init
  <1>1. users \in [Users -> UserRow]
    <2>1. Registered \in UserRow /\ Verified \in UserRow
      BY DEF UserRow, Status, Registered, Verified
    <2> QED
      BY <2>1
  <1>2. rt \in [Tokens -> Row] /\ Stored(rt) = {}
    BY DEF Row, NoRow, Stored
  <1>3. req \in [Handlers -> Request]
    BY DEF Request, Idle, Pc
  <1>4. origin \in [Tokens -> Origin]
    BY DEF Origin
  <1>5. RequestsOK
    BY DEF RequestsOK, Grounded, Idle
  <1> QED
    BY <1>1, <1>2, <1>3, <1>4, <1>5 DEF Base, StoreTypeOK, RowsOK, EndedOK

(* A step that touches only requests, or accounts and requests.            *)
LEMMA BaseKept ==
  ASSUME Base, users' \in [Users -> UserRow], req' \in [Handlers -> Request],
         clock' \in Nat, UNCHANGED <<rt, origin, ended>>,
         RequestsOK'
  PROVE  Base'
  BY DEF Base, StoreTypeOK, RowsOK, EndedOK, Stored

(* A request that was just accepted.                                       *)
Fresh(r) ==
  /\ r \in Request
  /\ Grounded(r, rt)
  /\ r.pc \notin {"user", "consume", "revokeFamily", "revokeAll"}
  /\ r.pc = "find" => r.now = clock
  /\ r.pc \in {"issue", "challenge"} => /\ r.tok = None
                                        /\ r.user \in Users
                                        /\ users[r.user].status = "active"
                                        /\ r.password = users[r.user].password

LEMMA StartFresh ==
  ASSUME Base, NEW h \in Handlers, Start(h)
  PROVE  \E r : Fresh(r) /\ Become(h, r)
  <1> USE DEF Base, StoreTypeOK, Grounded, Fresh
  <1>1. CASE LoginFind(h) \/ CompleteFind(h)
    <2>1. PICK u \in Users, step \in {"issue", "challenge"} :
            /\ users[u].status = "active"
            /\ Become(h, [Idle EXCEPT !.pc = step, !.user = u,
                                      !.password = users[u].password])
      BY <1>1 DEF LoginFind, CompleteFind, MayLogin
    <2>2. users[u].password \in Nat
      BY DEF UserRow
    <2> QED
      BY <2>1, <2>2 DEF Request, Idle, Pc
  <1>2. CASE RefreshStart(h)
    <2>1. PICK t \in Stored(rt) :
            Become(h, [Idle EXCEPT !.pc = "find", !.tok = t, !.now = clock])
      BY <1>2 DEF RefreshStart
    <2> QED
      BY <2>1 DEF Request, Idle, Pc, Stored
  <1>3. CASE LogoutFind(h)
    <2>1. PICK t \in Stored(rt) : Become(h, [Idle EXCEPT !.pc = "logout", !.tok = t])
      BY <1>3 DEF LogoutFind
    <2> QED
      BY <2>1 DEF Request, Idle, Pc, Stored
  <1>4. CASE \/ ChangeFind(h) \/ ResetFind(h) \/ VerifyFind(h)
             \/ SetEnabledFind(h, "disable") \/ SetEnabledFind(h, "enable")
    <2>1. PICK u \in Users, pc \in {"setPassword", "resetUpdate", "verifyConsume",
                                    "disable", "enable"} :
            Become(h, [Idle EXCEPT !.pc = pc, !.user = u])
      BY <1>4 DEF ChangeFind, ResetFind, VerifyFind, SetEnabledFind
    <2> QED
      BY <2>1 DEF Request, Idle, Pc
  <1> QED
    BY <1>1, <1>2, <1>3, <1>4 DEF Start

LEMMA StartStores ==
  ASSUME NEW h \in Handlers, Start(h)
  PROVE  UNCHANGED <<users, rt, clock, challenges, origin, ended>>
  BY DEF Start, LoginFind, CompleteFind, RefreshStart, LogoutFind, ChangeFind, ResetFind,
         VerifyFind, SetEnabledFind

LEMMA StartBase ==
  ASSUME Base, NEW h \in Handlers, Start(h)
  PROVE  Base'
  <1>1. UNCHANGED <<users, rt, clock, origin, ended>>
    BY StartStores
  <1>2. PICK r \in Request : Grounded(r, rt) /\ Become(h, r)
    BY StartFresh DEF Fresh
  <1>3. req' \in [Handlers -> Request]
    BY <1>2 DEF Become, Base, StoreTypeOK
  <1>4. \A g \in Handlers : Grounded(req'[g], rt)
    BY <1>2 DEF Become, RequestsOK, Base, StoreTypeOK
  <1>5. RequestsOK'
    BY <1>1, <1>4 DEF RequestsOK, Stored
  <1> QED
    BY <1>1, <1>3, <1>5, BaseKept DEF Base, StoreTypeOK

LEMMA GotoType ==
  ASSUME StoreTypeOK, NEW h \in Handlers, NEW pc \in Pc, Goto(h, pc)
  PROVE  /\ req' \in [Handlers -> Request]
         /\ req'[h].pc = pc /\ req'[h].user = req[h].user /\ req'[h].tok = req[h].tok
         /\ req'[h].password = req[h].password /\ req'[h].now = req[h].now
         /\ \A g \in Handlers \ {h} : req'[g] = req[g]
  BY DEF StoreTypeOK, Goto, Request

LEMMA DoneType ==
  ASSUME StoreTypeOK, NEW h \in Handlers, Done(h)
  PROVE  /\ req' \in [Handlers -> Request]
         /\ req'[h].pc = "idle" /\ req'[h].user = None /\ req'[h].tok = None
         /\ \A g \in Handlers \ {h} : req'[g] = req[g]
  BY DEF StoreTypeOK, Done, Become, Request, Idle, Pc

(* A change of the table that keeps its rows, by a request that is grounded *)
(* afterwards, leaves every other request grounded.                         *)
LEMMA GroundedKept ==
  ASSUME Base, StoreTypeOK', NEW h \in Handlers, Kept(rt, rt'),
         \A g \in Handlers \ {h} : req'[g] = req[g],
         req'[h].pc = "idle" \/ Grounded(req'[h], rt')
  PROVE  RequestsOK'
  <1>1. ASSUME NEW r, Grounded(r, rt) PROVE Grounded(r, rt')
    <2>1. \A s \in Stored(rt) : s \in Stored(rt') /\ (rt[s].consumed => rt'[s].consumed)
      BY DEF Kept
    <2> QED
      BY <1>1, <2>1 DEF Grounded
  <1>2. ASSUME NEW g \in Handlers PROVE Grounded(req'[g], rt')
    <2>1. CASE g = h
      BY <2>1 DEF Grounded
    <2>2. CASE g # h
      BY <1>1, <2>2 DEF Base, RequestsOK
    <2> QED
      BY <2>1, <2>2
  <1> QED
    BY <1>2 DEF RequestsOK, Grounded, Stored

(* The row that Issue inserts.                                             *)
Inserted(h, t) ==
  /\ t \in Tokens \ Stored(rt)
  /\ rt' \in [Tokens -> Row]
  /\ Stored(rt') = Stored(rt) \cup {t}
  /\ \A s \in Tokens \ {t} : rt'[s] = rt[s]
  /\ rt'[t].user = req[h].user
  /\ ~Spent(rt'[t])
  /\ rt'[t].family = FamilyFor(h, t)
  /\ FamilyFor(h, t) \in Stored(rt) \cup {t}
  /\ origin' \in [Tokens -> Origin]
  /\ \A s \in Tokens \ {t} : origin'[s] = origin[s]
  /\ origin'[t] = [parent |-> req[h].tok, by |-> h, password |-> req[h].password]

LEMMA IssueRow ==
  ASSUME Base, NEW h \in Handlers, Issue(h)
  PROVE  /\ \E t : Inserted(h, t)
         /\ req[h].pc = "issue" /\ req[h].user \in Users
         /\ Done(h) /\ UNCHANGED <<users, clock, ended>>
  <1> USE DEF Base
  <1>1. PICK t \in Free :
          /\ rt' = Create(rt, t, req[h].user, FamilyFor(h, t), clock + RefreshTtl)
          /\ origin' = [origin EXCEPT ![t] = [parent |-> req[h].tok, by |-> h,
                                              password |-> req[h].password]]
    BY DEF Issue
  <1>2. UNCHANGED <<users, clock, ended>> /\ Done(h) /\ req[h].pc = "issue"
    BY DEF Issue, At
  <1>3. t \in Tokens \ Stored(rt) /\ req[h].user \in Users /\ clock + RefreshTtl \in Nat
    BY <1>2, TtlAssumption DEF RequestsOK, Grounded, Free, StoreTypeOK
  <1>4. FamilyFor(h, t) \in Stored(rt) \cup {t} /\ FamilyFor(h, t) \in Tokens
    BY <1>2, <1>3 DEF FamilyFor, RequestsOK, Grounded, RowsOK, Stored
  <1>5. /\ rt' \in [Tokens -> Row]
        /\ Stored(rt') = Stored(rt) \cup {t}
        /\ \A s \in Tokens \ {t} : rt'[s] = rt[s]
        /\ rt'[t].user = req[h].user
        /\ ~Spent(rt'[t])
        /\ rt'[t].family = FamilyFor(h, t)
    BY <1>1, <1>3, <1>4, CreateType DEF StoreTypeOK
  <1>6. /\ origin' \in [Tokens -> Origin]
        /\ \A s \in Tokens \ {t} : origin'[s] = origin[s]
        /\ origin'[t] = [parent |-> req[h].tok, by |-> h, password |-> req[h].password]
    BY <1>1, <1>3 DEF StoreTypeOK, Origin, Request
  <1> QED
    BY <1>2, <1>3, <1>4, <1>5, <1>6 DEF Inserted

LEMMA IssueBase ==
  ASSUME Base, NEW h \in Handlers, Issue(h)
  PROVE  Base' /\ Kept(rt, rt')
  <1> USE DEF Base
  <1>1. PICK t : Inserted(h, t)
    BY IssueRow
  <1>2. UNCHANGED <<users, clock, ended>> /\ Done(h)
    BY IssueRow
  <1>3. t \in Tokens \ Stored(rt)
    BY <1>1 DEF Inserted
  <1>5. /\ rt' \in [Tokens -> Row]
        /\ Stored(rt') = Stored(rt) \cup {t}
        /\ \A s \in Tokens \ {t} : rt'[s] = rt[s]
        /\ rt'[t].family \in Stored(rt')
    BY <1>1 DEF Inserted
  <1>6. Kept(rt, rt')
    BY <1>3, <1>5 DEF Kept, Stored
  <1>7. origin' \in [Tokens -> Origin]
    BY <1>1 DEF Inserted
  <1>8. StoreTypeOK'
    BY <1>2, <1>5, <1>7, DoneType DEF StoreTypeOK
  <1>9. RowsOK' /\ EndedOK'
    BY <1>2, <1>3, <1>5 DEF RowsOK, EndedOK, Stored
  <1>10. RequestsOK'
    BY <1>2, <1>6, <1>8, DoneType, GroundedKept
  <1> QED
    BY <1>6, <1>8, <1>9, <1>10

LEMMA RefreshFindBase ==
  ASSUME Base, NEW h \in Handlers, RefreshFind(h)
  PROVE  Base'
  <1> DEFINE t == req[h].tok
             verdict == Verdict(rt[t], req[h].now)
             found == [req[h] EXCEPT !.pc = verdict, !.user = rt[t].user,
                                     !.password = origin[t].password]
  <1> USE DEF Base
  <1>1. req[h].pc = "find" /\ UNCHANGED <<users, rt, clock, origin, ended>>
    BY DEF RefreshFind, At
  <1>2. t \in Stored(rt) /\ t \in Tokens /\ rt[t].user \in Users
    BY <1>1 DEF RequestsOK, Grounded, StoreTypeOK, Row, Stored
  <1>3. verdict \in {"idle", "revokeFamily", "user"}
    BY DEF Verdict
  <1>4. CASE Done(h)
    BY <1>1, <1>4, DoneType, GroundedKept, BaseKept DEF Kept, StoreTypeOK
  <1>5. CASE Become(h, found) /\ verdict # "idle"
    <2>1. found \in Request
      BY <1>2, <1>3 DEF StoreTypeOK, Request, Pc, Origin
    <2>2. req' = [req EXCEPT ![h] = found]
      BY <1>5 DEF Become
    <2>3. Grounded(found, rt)
      BY <1>2, <1>3, <2>1, <1>5 DEF Grounded, StoreTypeOK, Request
    <2>4. req' \in [Handlers -> Request] /\ req'[h] = found
          /\ \A g \in Handlers \ {h} : req'[g] = req[g]
      BY <2>1, <2>2 DEF StoreTypeOK
    <2>5. Kept(rt, rt') /\ StoreTypeOK'
      BY <1>1, <2>4 DEF Kept, StoreTypeOK
    <2>6. Grounded(req'[h], rt')
      BY <1>1, <2>3, <2>4
    <2>7. RequestsOK'
      BY <2>4, <2>5, <2>6, GroundedKept
    <2> QED
      BY <1>1, <2>4, <2>7, BaseKept DEF StoreTypeOK
  <1> QED
    BY <1>4, <1>5 DEF RefreshFind

(* Steps that end a request or send it on, leaving the table alone.        *)
LEMMA AccountBase ==
  ASSUME Base, NEW h \in Handlers, UNCHANGED <<rt, clock, origin, ended>>,
         users' \in [Users -> UserRow],
         \/ Done(h)
         \/ /\ \E pc \in {"consume", "revokeFamily"} : Goto(h, pc)
            /\ req[h].pc = "user"
         \/ /\ \E pc \in {"activate", "revokeAll"} : Goto(h, pc)
            /\ req[h].pc \notin {"idle", "find", "logout"}
  PROVE  Base'
  <1> USE DEF Base
  <1>1. Kept(rt, rt')
    BY DEF Kept
  <1>2. CASE Done(h)
    <2>1. /\ req' \in [Handlers -> Request] /\ req'[h].pc = "idle"
          /\ \A g \in Handlers \ {h} : req'[g] = req[g]
      BY <1>2, DoneType
    <2>2. StoreTypeOK'
      BY <2>1 DEF StoreTypeOK
    <2> QED
      BY <1>1, <2>1, <2>2, GroundedKept, BaseKept DEF StoreTypeOK
  <1>3. ASSUME NEW pc \in {"consume", "revokeFamily", "activate", "revokeAll"},
               Goto(h, pc), req[h].pc \notin {"idle", "find", "logout"},
               pc \in {"consume", "revokeFamily"} => req[h].pc = "user"
        PROVE  Base'
    <2>1. pc \in Pc
      BY DEF Pc
    <2>2. /\ req' \in [Handlers -> Request]
          /\ req'[h].pc = pc /\ req'[h].user = req[h].user /\ req'[h].tok = req[h].tok
          /\ \A g \in Handlers \ {h} : req'[g] = req[g]
      BY <1>3, <2>1, GotoType
    <2>3. Grounded(req'[h], rt')
      BY <1>3, <2>2 DEF Grounded, RequestsOK
    <2>4. StoreTypeOK'
      BY <2>2 DEF StoreTypeOK
    <2> QED
      BY <1>1, <2>2, <2>3, <2>4, GroundedKept, BaseKept DEF StoreTypeOK
  <1> QED
    BY <1>2, <1>3

(* Steps that mark rows spent.                                             *)
LEMMA MarkBase ==
  ASSUME Base, NEW h \in Handlers, UNCHANGED <<users, clock, origin>>,
         rt' \in [Tokens -> Row], Stored(rt') = Stored(rt), Kept(rt, rt'),
         req' \in [Handlers -> Request],
         \A g \in Handlers \ {h} : req'[g] = req[g],
         req'[h].pc = "idle" \/ Grounded(req'[h], rt'),
         ended' \subseteq ended \cup [family: Stored(rt), cause: {"reuse", "logout"},
                                      quiet: BOOLEAN]
  PROVE  Base'
  <1> USE DEF Base
  <1>1. ended' \subseteq Ending
    BY DEF StoreTypeOK, Ending, Stored
  <1>2. StoreTypeOK'
    BY <1>1 DEF StoreTypeOK
  <1>3. RequestsOK'
    BY <1>2, GroundedKept
  <1>4. RowsOK'
    BY DEF RowsOK, Kept
  <1>5. EndedOK'
    BY DEF EndedOK
  <1> QED
    BY <1>2, <1>3, <1>4, <1>5

LEMMA RefreshConsumeBase ==
  ASSUME Base, NEW h \in Handlers, RefreshConsume(h)
  PROVE  Base' /\ Kept(rt, rt')
  <1> USE DEF Base
  <1>1. /\ req[h].pc = "consume" /\ Goto(h, "issue")
        /\ rt' = MarkConsumed(rt, req[h].tok)
        /\ UNCHANGED <<users, clock, origin, ended>>
    BY DEF RefreshConsume, At
  <1>2. req[h].tok \in Stored(rt) /\ req[h].tok \in Tokens /\ req[h].user \in Users
    BY <1>1 DEF RequestsOK, Grounded, Stored
  <1>3. /\ rt' \in [Tokens -> Row] /\ Stored(rt') = Stored(rt) /\ Kept(rt, rt')
        /\ rt'[req[h].tok].consumed
    BY <1>1, <1>2, MarkConsumedType DEF StoreTypeOK, Kept, Stored
  <1>4. "issue" \in Pc
    BY DEF Pc
  <1>5. /\ req' \in [Handlers -> Request]
        /\ req'[h].pc = "issue" /\ req'[h].user = req[h].user /\ req'[h].tok = req[h].tok
        /\ \A g \in Handlers \ {h} : req'[g] = req[g]
    BY <1>1, <1>4, GotoType
  <1>6. Grounded(req'[h], rt')
    BY <1>2, <1>3, <1>5 DEF Grounded
  <1> QED
    BY <1>1, <1>3, <1>5, <1>6, MarkBase

LEMMA RevokeBase ==
  ASSUME Base, NEW h \in Handlers,
         RefreshRevokeFamily(h) \/ LogoutRevoke(h) \/ RevokeAll(h)
  PROVE  /\ Base' /\ Kept(rt, rt')
         /\ \A t \in Tokens : rt'[t].consumed = rt[t].consumed
  <1> USE DEF Base
  <1>1. /\ Done(h) /\ UNCHANGED <<users, clock, origin>>
        /\ \E Picked : rt' = RevokeWhere(rt, Picked)
        /\ ended' \subseteq ended \cup [family: Stored(rt), cause: {"reuse", "logout"},
                                        quiet: BOOLEAN]
    <2>1. CASE RefreshRevokeFamily(h)
      <3>1. req[h].tok \in Stored(rt)
        BY <2>1 DEF RefreshRevokeFamily, At, RequestsOK, Grounded
      <3>2. rt[req[h].tok].family \in Stored(rt)
        BY <3>1 DEF RowsOK
      <3>3. \E q \in BOOLEAN :
              ended' = ended \cup {[family |-> rt[req[h].tok].family, cause |-> "reuse",
                                    quiet |-> q]}
        <4>1. (~Redeeming(rt[req[h].tok].family)) \in BOOLEAN
          OBVIOUS
        <4> QED
          BY <2>1, <4>1 DEF RefreshRevokeFamily
      <3>4. \E Picked : rt' = RevokeWhere(rt, Picked)
        BY <2>1 DEF RefreshRevokeFamily, RevokeFamily
      <3> QED
        BY <2>1, <3>2, <3>3, <3>4 DEF RefreshRevokeFamily
    <2>2. CASE LogoutRevoke(h)
      <3>1. req[h].tok \in Stored(rt) /\ req[h].tok \in Tokens
        BY <2>2 DEF LogoutRevoke, At, RequestsOK, Grounded, Stored
      <3>2. rt[req[h].tok].family \in Stored(rt)
        BY <3>1 DEF RowsOK
      <3>3. Revoke(rt, req[h].tok) = RevokeWhere(rt, {req[h].tok})
        BY <3>1, RevokeType DEF StoreTypeOK
      <3>4. \E q \in BOOLEAN :
              \/ ended' = ended
              \/ ended' = ended \cup {[family |-> rt[req[h].tok].family, cause |-> "logout",
                                       quiet |-> q]}
        <4>1. ((\A s \in OfFamily(rt, rt[req[h].tok].family) \ {req[h].tok} : Spent(rt[s]))
               /\ ~Redeeming(rt[req[h].tok].family)) \in BOOLEAN
          OBVIOUS
        <4> QED
          BY <2>2, <4>1 DEF LogoutRevoke
      <3>5. rt' = RevokeWhere(rt, {req[h].tok})
        BY <2>2, <3>3 DEF LogoutRevoke
      <3> QED
        BY <2>2, <3>2, <3>4, <3>5 DEF LogoutRevoke
    <2>3. CASE RevokeAll(h)
      BY <2>3 DEF RevokeAll, RevokeAllForUser
    <2> QED
      BY <2>1, <2>2, <2>3
  <1>2. PICK Picked : rt' = RevokeWhere(rt, Picked)
    BY <1>1
  <1>3. /\ rt' \in [Tokens -> Row] /\ Stored(rt') = Stored(rt) /\ Kept(rt, rt')
        /\ \A t \in Tokens : rt'[t].consumed = rt[t].consumed
    BY <1>2, RevokeWhereType DEF StoreTypeOK, Kept, Stored
  <1>4. /\ req' \in [Handlers -> Request] /\ req'[h].pc = "idle"
        /\ \A g \in Handlers \ {h} : req'[g] = req[g]
    BY <1>1, DoneType
  <1> QED
    BY <1>1, <1>3, <1>4, MarkBase

LEMMA NewPasswordType ==
  ASSUME NEW row \in UserRow, clock \in Nat
  PROVE  /\ NewPassword(row) \in UserRow
         /\ NewPassword(row).status = row.status
         /\ NewPassword(row).password = row.password + 1
         /\ NewPassword(row).passwordAt = clock
  <1> DEFINE counted == [row EXCEPT !.password = row.password + 1]
  <1>1. /\ counted \in UserRow /\ counted.status = row.status
        /\ counted.password = row.password + 1
    BY DEF UserRow
  <1>2. NewPassword(row) = [counted EXCEPT !.passwordAt = clock]
    BY DEF NewPassword
  <1> HIDE DEF counted
  <1> QED
    BY <1>1, <1>2 DEF UserRow

LEMMA UsersType ==
  ASSUME Base, NEW h \in Handlers,
         \/ SetPassword(h) \/ ResetUpdate(h) \/ VerifyConsume(h) \/ Activate(h)
         \/ Disable(h) \/ Enable(h)
  PROVE  users' \in [Users -> UserRow]
  <1> DEFINE u == req[h].user
  <1> USE DEF Base
  <1>1. u \in Users
    BY DEF SetPassword, ResetUpdate, VerifyConsume, Activate, Disable, Enable, At,
           RequestsOK, Grounded
  <1>2. \E row \in UserRow : users' = [users EXCEPT ![u] = row]
    <2>1. users[u] \in UserRow /\ clock \in Nat
      BY <1>1 DEF StoreTypeOK
    <2>2. CASE SetPassword(h)
      BY <2>1, <2>2, NewPasswordType DEF SetPassword
    <2>3. CASE ResetUpdate(h)
      <3>1. [NewPassword(users[u]) EXCEPT !.status = "active", !.verified = TRUE] \in UserRow
        BY <2>1, NewPasswordType DEF UserRow, Status
      <3> QED
        BY <2>3, <3>1 DEF ResetUpdate
    <2>4. CASE VerifyConsume(h)
      <3>1. [users[u] EXCEPT !.link = FALSE] \in UserRow
        BY <2>1 DEF UserRow
      <3> QED
        BY <2>4, <3>1 DEF VerifyConsume
    <2>5. CASE Activate(h)
      <3>1. [users[u] EXCEPT !.status = "active", !.verified = TRUE] \in UserRow
        BY <2>1 DEF UserRow, Status
      <3>2. users' = [users EXCEPT ![u] = [users[u] EXCEPT !.status = "active",
                                                           !.verified = TRUE]]
        BY <2>5, <1>1 DEF Activate, StoreTypeOK
      <3> QED
        BY <3>1, <3>2
    <2>6. CASE Disable(h)
      <3>1. [users[u] EXCEPT !.status = "disabled"] \in UserRow
        BY <2>1 DEF UserRow, Status
      <3> QED
        BY <2>6, <3>1 DEF Disable
    <2>7. CASE Enable(h)
      <3>1. [users[u] EXCEPT !.status = "active"] \in UserRow
        BY <2>1 DEF UserRow, Status
      <3> QED
        BY <2>7, <3>1 DEF Enable
    <2> QED
      BY <2>2, <2>3, <2>4, <2>5, <2>6, <2>7
  <1> QED
    BY <1>1, <1>2 DEF StoreTypeOK

LEMMA ProgressBase ==
  ASSUME Base, NEW h \in Handlers, Progress(h)
  PROVE  Base'
  <1>1. CASE Issue(h)
    BY <1>1, IssueBase
  <1>2. CASE RefreshFind(h)
    BY <1>2, RefreshFindBase
  <1>3. CASE RefreshUser(h)
    <2>1. users' \in [Users -> UserRow]
      BY <1>3 DEF RefreshUser, Base, StoreTypeOK
    <2>2. req[h].pc = "user" /\ \E pc \in {"consume", "revokeFamily"} : Goto(h, pc)
      BY <1>3 DEF RefreshUser, At
    <2> QED
      BY <1>3, <2>1, <2>2, AccountBase DEF RefreshUser
  <1>4. CASE RefreshConsume(h)
    BY <1>4, RefreshConsumeBase
  <1>5. CASE RefreshRevokeFamily(h) \/ LogoutRevoke(h) \/ RevokeAll(h)
    BY <1>5, RevokeBase
  <1>6. CASE SignChallenge(h)
    <2>1. users' \in [Users -> UserRow]
      BY <1>6 DEF SignChallenge, Base, StoreTypeOK
    <2> QED
      BY <1>6, <2>1, AccountBase DEF SignChallenge
  <1>7. CASE \/ SetPassword(h) \/ ResetUpdate(h) \/ VerifyConsume(h)
             \/ Activate(h) \/ Disable(h) \/ Enable(h)
    <2>1. users' \in [Users -> UserRow]
      BY <1>7, UsersType
    <2>2. UNCHANGED <<rt, clock, origin, ended>>
      BY <1>7 DEF SetPassword, ResetUpdate, VerifyConsume, Activate, Disable, Enable
    <2>3. \/ Done(h)
          \/ /\ \E pc \in {"activate", "revokeAll"} : Goto(h, pc)
             /\ req[h].pc \notin {"idle", "find", "logout"}
      BY <1>7 DEF SetPassword, ResetUpdate, VerifyConsume, Activate, Disable, Enable, At
    <2> QED
      BY <2>1, <2>2, <2>3, AccountBase
  <1> QED
    BY <1>1, <1>2, <1>3, <1>4, <1>5, <1>6, <1>7 DEF Progress

LEMMA NextBase == Base /\ [Next]_vars => Base'
  <1> SUFFICES ASSUME Base, [Next]_vars PROVE Base'
    OBVIOUS
  <1>1. ASSUME NEW h \in Handlers, Start(h) PROVE Base'
    BY <1>1, StartBase
  <1>2. ASSUME NEW h \in Handlers, Progress(h) PROVE Base'
    BY <1>2, ProgressBase
  <1>3. ASSUME NEW h \in Handlers, Abort(h) PROVE Base'
    <2>1. users' \in [Users -> UserRow] /\ Done(h) /\ UNCHANGED <<rt, clock, origin, ended>>
      BY <1>3 DEF Abort, Base, StoreTypeOK
    <2> QED
      BY <2>1, AccountBase
  <1>4. CASE Tick
    BY <1>4 DEF Tick, Base, StoreTypeOK, RowsOK, RequestsOK, EndedOK, Stored
  <1>5. CASE UNCHANGED vars
    BY <1>5 DEF vars, Base, StoreTypeOK, RowsOK, RequestsOK, EndedOK, Stored
  <1> QED
    BY <1>1, <1>2, <1>3, <1>4, <1>5 DEF Next

THEOREM BaseAlways == Spec => []Base
  <1> QED
    BY InitBase, NextBase, PTL DEF Spec

(* Only signing writes the challenges.                                     *)
LEMMA ChallengeSteps ==
  [Next]_vars => UNCHANGED challenges \/ \E h \in Handlers : SignChallenge(h)
  <1> SUFFICES ASSUME [Next]_vars, ~\E h \in Handlers : SignChallenge(h)
               PROVE  UNCHANGED challenges
    OBVIOUS
  <1>1. ASSUME NEW h \in Handlers, Start(h) PROVE UNCHANGED challenges
    BY <1>1, StartStores
  <1>2. ASSUME NEW h \in Handlers, Progress(h) PROVE UNCHANGED challenges
    BY <1>2 DEF Progress, Issue, RefreshFind, RefreshUser, RefreshConsume,
                RefreshRevokeFamily, LogoutRevoke, SetPassword, ResetUpdate, RevokeAll,
                VerifyConsume, Activate, Disable, Enable
  <1>3. ASSUME NEW h \in Handlers, Abort(h) PROVE UNCHANGED challenges
    BY <1>3 DEF Abort
  <1>4. CASE Tick \/ UNCHANGED vars
    BY <1>4 DEF Tick, vars
  <1> QED
    BY <1>1, <1>2, <1>3, <1>4 DEF Next

(* Every reachable state is well typed, whatever requests run (Sessions).   *)
THEOREM TypeCorrect == Spec => []TypeOK
  <1>1. Init => challenges \subseteq Challenge
    BY DEF Init
  <1>2. Base /\ challenges \subseteq Challenge /\ [Next]_vars
          => (challenges \subseteq Challenge)'
    <2> SUFFICES ASSUME Base, challenges \subseteq Challenge, [Next]_vars,
                        UNCHANGED challenges \/ \E h \in Handlers : SignChallenge(h)
                 PROVE  challenges' \subseteq Challenge
      BY ChallengeSteps
    <2>1. ASSUME NEW h \in Handlers, SignChallenge(h)
          PROVE  challenges' \subseteq Challenge
      <3>1. req[h] \in Request /\ req[h].user \in Users /\ clock \in Nat
        BY <2>1 DEF Base, StoreTypeOK, RequestsOK, Grounded, SignChallenge, At
      <3>2. [user |-> req[h].user, at |-> clock, password |-> req[h].password] \in Challenge
        BY <3>1 DEF Challenge, Request
      <3> QED
        BY <2>1, <3>2 DEF SignChallenge
    <2> QED
      BY <2>1
  <1>3. Base /\ challenges \subseteq Challenge => TypeOK
    BY DEF Base, TypeOK
  <1> QED
    BY <1>1, <1>2, <1>3, BaseAlways, PTL DEF Spec

-----------------------------------------------------------------------------
(* Redemption of a token.                                                  *)

PastCheck == {"user", "consume", "issue"}

Holds(r, t) == r.pc \in PastCheck /\ r.tok = t

(* A row that came from token p proves p consumed, and its worker done with *)
(* p: that worker cannot redeem p again, for it would find p spent.         *)
Descended(s) ==
  origin[s].parent # None =>
    /\ origin[s].parent \in Stored(rt)
    /\ rt[origin[s].parent].consumed
    /\ origin[s].by \in Handlers
    /\ ~Holds(req[origin[s].by], origin[s].parent)

LineageOK == \A s \in Stored(rt) : Descended(s)

Lineage == LineageOK /\ RedemptionsBounded

(* Any step but Issue: no row is inserted, and a request that comes to hold *)
(* a token past the check found it unspent.                                 *)
LEMMA LineageKept ==
  ASSUME Base, Base', Lineage, UNCHANGED origin,
         Stored(rt') = Stored(rt), Kept(rt, rt'),
         \A h \in Handlers, t \in Tokens :
           Holds(req'[h], t) => Holds(req[h], t) \/ (t \in Stored(rt) /\ ~rt[t].consumed)
  PROVE  Lineage'
  <1>1. RedemptionsBounded'
    BY DEF Lineage, RedemptionsBounded
  <1>2. ASSUME NEW s \in Stored(rt), origin[s].parent # None
        PROVE  Descended(s)'
    <2> DEFINE p == origin[s].parent
               h == origin[s].by
    <2>1. p \in Stored(rt) /\ rt[p].consumed /\ h \in Handlers /\ ~Holds(req[h], p)
      BY <1>2 DEF Lineage, LineageOK, Descended
    <2>2. p \in Stored(rt') /\ rt'[p].consumed
      BY <2>1 DEF Kept
    <2>3. p \in Tokens
      BY <2>1 DEF Stored
    <2>4. ~Holds(req'[h], p)
      BY <2>1, <2>3
    <2> QED
      BY <2>1, <2>2, <2>4 DEF Descended, Stored
  <1>3. LineageOK'
    BY <1>2 DEF LineageOK, Descended, Stored
  <1> QED
    BY <1>1, <1>3 DEF Lineage

LEMMA LineageIssue ==
  ASSUME Base, Base', Lineage, NEW h \in Handlers, Issue(h)
  PROVE  Lineage'
  <1> DEFINE p == req[h].tok
  <1>1. req[h].pc = "issue" /\ Done(h) /\ Kept(rt, rt')
    BY IssueBase, IssueRow
  <1>2. PICK t : Inserted(h, t)
    BY IssueRow
  <1>3. /\ t \in Tokens /\ t \notin Stored(rt)
        /\ Stored(rt') = Stored(rt) \cup {t}
    BY <1>2 DEF Inserted
  <1>4. /\ req'[h].pc = "idle" /\ \A g \in Handlers \ {h} : req'[g] = req[g]
    BY <1>1, DoneType DEF Base
  <1>5. /\ origin'[t].parent = p /\ origin'[t].by = h
        /\ \A s \in Tokens \ {t} : origin'[s] = origin[s]
    BY <1>2 DEF Inserted
  <1>6. p # None => p \in Stored(rt) /\ rt[p].consumed /\ Holds(req[h], p)
    BY <1>1 DEF Base, RequestsOK, Grounded, Holds, PastCheck
  <1>7. LineageOK'
    <2> SUFFICES ASSUME NEW s \in Stored(rt'), origin'[s].parent # None
                 PROVE  Descended(s)'
      BY DEF LineageOK, Descended
    <2>1. CASE s = t
      <3>1. p \in Stored(rt') /\ rt'[p].consumed
        BY <1>1, <1>5, <1>6, <2>1 DEF Kept
      <3>2. ~Holds(req'[h], p)
        BY <1>4 DEF Holds, PastCheck
      <3> QED
        BY <1>5, <2>1, <3>1, <3>2 DEF Descended
    <2>2. CASE s # t
      <3>1. s \in Stored(rt) /\ s \in Tokens
        BY <1>3, <2>2 DEF Stored
      <3>2. origin'[s] = origin[s]
        BY <1>5, <2>2, <3>1
      <3>3. Descended(s)
        BY <3>1 DEF Lineage, LineageOK
      <3> DEFINE q == origin[s].parent
                 g == origin[s].by
      <3>4. q \in Stored(rt) /\ rt[q].consumed /\ g \in Handlers /\ ~Holds(req[g], q)
        BY <3>2, <3>3 DEF Descended
      <3>5. q \in Stored(rt') /\ rt'[q].consumed
        BY <1>1, <3>4 DEF Kept
      <3>6. ~Holds(req'[g], q)
        BY <1>4, <3>4 DEF Holds, PastCheck
      <3> QED
        BY <3>2, <3>4, <3>5, <3>6 DEF Descended
    <2> QED
      BY <2>1, <2>2
  <1>8. ASSUME NEW s \in Stored(rt), origin[s].parent = p, p # None
        PROVE  origin[s].by # h
    BY <1>6, <1>8 DEF Lineage, LineageOK, Descended
  <1>9. RedemptionsBounded'
    <2> SUFFICES ASSUME NEW s \in Stored(rt'), NEW r \in Stored(rt'),
                        origin'[s].parent = origin'[r].parent,
                        origin'[s].parent # None,
                        origin'[s].by = origin'[r].by
                 PROVE  s = r
      BY DEF RedemptionsBounded
    <2>1. CASE s = t
      BY <1>3, <1>5, <1>8, <2>1 DEF Stored
    <2>2. CASE r = t
      BY <1>3, <1>5, <1>8, <2>2 DEF Stored
    <2>3. CASE s # t /\ r # t
      <3>1. s \in Stored(rt) /\ r \in Stored(rt) /\ s \in Tokens /\ r \in Tokens
        BY <1>3, <2>3 DEF Stored
      <3> QED
        BY <1>5, <2>3, <3>1 DEF Lineage, RedemptionsBounded
    <2> QED
      BY <2>1, <2>2, <2>3
  <1> QED
    BY <1>7, <1>9 DEF Lineage

(* Which tokens a step can bring past the check of reuse detection.        *)
LEMMA HoldsSource ==
  ASSUME Base, [Next]_vars, NEW g \in Handlers, NEW t \in Tokens, Holds(req'[g], t)
  PROVE  Holds(req[g], t) \/ (t \in Stored(rt) /\ ~Spent(rt[t]))
  <1> USE DEF Base, StoreTypeOK
  <1>1. ASSUME NEW h \in Handlers, Start(h) PROVE Holds(req[g], t)
    <2>1. PICK r : Fresh(r) /\ Become(h, r)
      BY <1>1, StartFresh
    <2> QED
      BY <2>1, NoneIsNoUser DEF Fresh, Become, Holds, PastCheck
  <1>2. ASSUME NEW h \in Handlers, Done(h) PROVE Holds(req[g], t)
    BY <1>2, DoneType DEF Holds, PastCheck
  <1>3. ASSUME NEW h \in Handlers, NEW pc \in Pc, Goto(h, pc),
               pc \in PastCheck => req[h].pc \in PastCheck
        PROVE  Holds(req[g], t)
    BY <1>3, GotoType DEF Holds
  <1>4. ASSUME NEW h \in Handlers, Progress(h)
        PROVE  Holds(req[g], t) \/ (t \in Stored(rt) /\ ~Spent(rt[t]))
    <2>1. CASE RefreshFind(h)
      <3> DEFINE p == req[h].tok
                 verdict == Verdict(rt[p], req[h].now)
      <3>1. CASE verdict = "idle"
        BY <2>1, <3>1, <1>2 DEF RefreshFind
      <3>2. CASE verdict # "idle"
        <4>1. p \in Stored(rt) /\ p \in Tokens
          BY <2>1 DEF RefreshFind, At, RequestsOK, Grounded, Stored
        <4>2. req' = [req EXCEPT ![h] = [req[h] EXCEPT !.pc = verdict, !.user = rt[p].user,
                                                       !.password = origin[p].password]]
          BY <2>1, <3>2 DEF RefreshFind, Become
        <4>3. req'[h].pc = verdict /\ req'[h].tok = p
              /\ \A f \in Handlers \ {h} : req'[f] = req[f]
          BY <4>2 DEF Request
        <4>4. CASE g = h
          BY <4>1, <4>3, <4>4 DEF Holds, PastCheck, Verdict
        <4>5. CASE g # h
          BY <4>3, <4>5 DEF Holds
        <4> QED
          BY <4>4, <4>5
      <3> QED
        BY <3>1, <3>2
    <2>2. CASE \/ Issue(h) \/ SignChallenge(h) \/ RefreshRevokeFamily(h)
               \/ LogoutRevoke(h) \/ RevokeAll(h) \/ Activate(h) \/ Enable(h)
      BY <2>2, <1>2 DEF Issue, SignChallenge, RefreshRevokeFamily, LogoutRevoke,
                        RevokeAll, Activate, Enable
    <2>3. CASE RefreshUser(h) \/ RefreshConsume(h)
      BY <2>3, <1>3 DEF RefreshUser, RefreshConsume, At, Pc, PastCheck
    <2>4. CASE SetPassword(h) \/ ResetUpdate(h) \/ VerifyConsume(h) \/ Disable(h)
      BY <2>4, <1>3 DEF SetPassword, ResetUpdate, VerifyConsume, Disable, Pc, PastCheck
    <2> QED
      BY <1>4, <2>1, <2>2, <2>3, <2>4 DEF Progress
  <1>5. ASSUME NEW h \in Handlers, Abort(h) PROVE Holds(req[g], t)
    BY <1>5, <1>2 DEF Abort
  <1>6. CASE Tick \/ UNCHANGED vars
    BY <1>6 DEF Tick, vars, Holds
  <1> QED
    BY <1>1, <1>4, <1>5, <1>6 DEF Next

(* Which steps write the table.                                            *)
LEMMA TableSteps ==
  ASSUME Base, [Next]_vars, ~\E h \in Handlers : Issue(h)
  PROVE  /\ UNCHANGED origin /\ Stored(rt') = Stored(rt) /\ Kept(rt, rt')
         /\ \A s \in Tokens : /\ rt'[s].family = rt[s].family
                               /\ rt'[s].expiresAt = rt[s].expiresAt
  <1> USE DEF Base, StoreTypeOK
  <1>1. CASE UNCHANGED <<rt, origin>>
    BY <1>1 DEF Kept, Stored
  <1>2. ASSUME NEW h \in Handlers, RefreshConsume(h)
        PROVE  /\ UNCHANGED origin /\ Stored(rt') = Stored(rt) /\ Kept(rt, rt')
               /\ \A s \in Tokens : /\ rt'[s].family = rt[s].family
                               /\ rt'[s].expiresAt = rt[s].expiresAt
    <2>1. req[h].tok \in Tokens
      BY <1>2 DEF RefreshConsume, At, RequestsOK, Grounded, Stored
    <2> QED
      BY <1>2, <2>1, RefreshConsumeBase, MarkConsumedType DEF RefreshConsume
  <1>3. ASSUME NEW h \in Handlers,
               RefreshRevokeFamily(h) \/ LogoutRevoke(h) \/ RevokeAll(h)
        PROVE  /\ UNCHANGED origin /\ Stored(rt') = Stored(rt) /\ Kept(rt, rt')
               /\ \A s \in Tokens : /\ rt'[s].family = rt[s].family
                               /\ rt'[s].expiresAt = rt[s].expiresAt
    <2>1. \E Picked : rt' = RevokeWhere(rt, Picked)
      <3>1. CASE RefreshRevokeFamily(h)
        BY <3>1 DEF RefreshRevokeFamily, RevokeFamily
      <3>2. CASE LogoutRevoke(h)
        <4>1. req[h].tok \in Tokens
          BY <3>2 DEF LogoutRevoke, At, RequestsOK, Grounded, Stored
        <4> QED
          BY <3>2, <4>1, RevokeType DEF LogoutRevoke
      <3>3. CASE RevokeAll(h)
        BY <3>3 DEF RevokeAll, RevokeAllForUser
      <3> QED
        BY <1>3, <3>1, <3>2, <3>3
    <2> QED
      BY <1>3, <2>1, RevokeBase, RevokeWhereType
         DEF RefreshRevokeFamily, LogoutRevoke, RevokeAll
  <1>4. ASSUME NEW h \in Handlers, Start(h) PROVE UNCHANGED <<rt, origin>>
    BY <1>4, StartStores
  <1>5. ASSUME NEW h \in Handlers, Progress(h), ~Issue(h), ~RefreshConsume(h),
               ~RefreshRevokeFamily(h), ~LogoutRevoke(h), ~RevokeAll(h)
        PROVE  UNCHANGED <<rt, origin>>
    BY <1>5 DEF Progress, SignChallenge, RefreshFind, RefreshUser, SetPassword, ResetUpdate,
                VerifyConsume, Activate, Disable, Enable
  <1>6. ASSUME NEW h \in Handlers, Abort(h) PROVE UNCHANGED <<rt, origin>>
    BY <1>6 DEF Abort
  <1>7. CASE Tick \/ UNCHANGED vars
    BY <1>7, <1>1 DEF Tick, vars
  <1> QED
    BY <1>1, <1>2, <1>3, <1>4, <1>5, <1>6, <1>7 DEF Next

LEMMA LineageNext == Base /\ Lineage /\ [Next]_vars => Lineage'
  <1> SUFFICES ASSUME Base, Lineage, [Next]_vars PROVE Lineage'
    OBVIOUS
  <1>1. Base'
    BY NextBase
  <1>2. CASE \E h \in Handlers : Issue(h)
    BY <1>1, <1>2, LineageIssue
  <1>3. CASE ~\E h \in Handlers : Issue(h)
    <2>1. UNCHANGED origin /\ Stored(rt') = Stored(rt) /\ Kept(rt, rt')
      BY <1>3, TableSteps
    <2>2. \A h \in Handlers, t \in Tokens :
            Holds(req'[h], t) => Holds(req[h], t) \/ (t \in Stored(rt) /\ ~rt[t].consumed)
      BY HoldsSource DEF Spent
    <2> QED
      BY <1>1, <2>1, <2>2, LineageKept
  <1> QED
    BY <1>2, <1>3

LEMMA LineageAlways == Spec => []Lineage
  <1>1. Init => Lineage
    BY DEF Init, Lineage, LineageOK, RedemptionsBounded, Stored, NoRow
  <1> QED
    BY <1>1, LineageNext, BaseAlways, PTL DEF Spec

(* A token is redeemed at most once by each worker, whatever interleaves    *)
(* (refresh).                                                               *)
THEOREM Redemptions == Spec => []RedemptionsBounded
  <1>1. Lineage => RedemptionsBounded
    BY DEF Lineage
  <1> QED
    BY <1>1, LineageAlways, PTL

Successors(t) == {s \in Stored(rt) : origin[s].parent = t}

(* The tokens that one token was redeemed for, in every interleaving, are    *)
(* no more than the requests the service can run at once (refresh).         *)
SuccessorsBounded ==
  \A t \in Stored(rt) : /\ IsFiniteSet(Successors(t))
                        /\ Cardinality(Successors(t)) <= Cardinality(Handlers)

(* Each successor has a worker of its own.                                  *)
LEMMA SuccessorsCounted ==
  ASSUME Base, Lineage, IsFiniteSet(Handlers), NEW t \in Stored(rt)
  PROVE  /\ IsFiniteSet(Successors(t))
         /\ Cardinality(Successors(t)) <= Cardinality(Handlers)
  <1> DEFINE S == Successors(t)
             worker == [s \in S |-> origin[s].by]
  <1>1. t # None
    BY NoneIsNoUser DEF Stored
  <1>2. worker \in [S -> Handlers]
    BY <1>1 DEF Successors, Lineage, LineageOK, Descended
  <1>3. ASSUME NEW r \in S, NEW s \in S, worker[r] = worker[s] PROVE r = s
    BY <1>1, <1>3 DEF Successors, Lineage, RedemptionsBounded
  <1>4. worker \in Injection(S, Handlers)
    <2> HIDE DEF worker, S
    <2> QED
      BY <1>2, <1>3 DEF Injection, IsInjective
  <1> HIDE DEF worker
  <1> QED
    BY <1>4, FS_Injection

(* SuccessorsBounded, for any finite number of workers (refresh).            *)
THEOREM RedemptionCount ==
  ASSUME IsFiniteSet(Handlers)
  PROVE  Spec => []SuccessorsBounded
  <1>1. Base /\ Lineage => SuccessorsBounded
    BY SuccessorsCounted DEF SuccessorsBounded
  <1> QED
    BY <1>1, BaseAlways, LineageAlways, PTL

(* With one worker a token is redeemed once, whoever dies when (refresh).   *)
THEOREM SequentialSingleUse ==
  ASSUME NEW h0, Handlers = {h0}
  PROVE  Spec => []SingleUse
  <1>1. Lineage => SingleUse
    BY DEF Lineage, LineageOK, Descended, RedemptionsBounded, SingleUse
  <1> QED
    BY <1>1, LineageAlways, PTL

-----------------------------------------------------------------------------
(* Ended sessions.                                                         *)

(* Nothing usable, and nobody about to make something usable.              *)
Over(f) ==
  /\ \A t \in Stored(rt) : rt[t].family = f => Spent(rt[t])
  /\ \A h \in Handlers, t \in Stored(rt) : Holds(req[h], t) => rt[t].family # f

QuietOK == \A e \in ended : e.quiet => Over(e.family)

LEMMA HeldStored ==
  ASSUME Base, NEW h \in Handlers, NEW t, Holds(req[h], t), t # None
  PROVE  t \in Stored(rt) /\ t \in Tokens
  BY DEF Base, RequestsOK, Grounded, Holds, PastCheck, Stored

(* A family that is over stays over.                                       *)
LEMMA OverKept ==
  ASSUME Base, [Next]_vars, NEW f \in Stored(rt), Over(f)
  PROVE  Over(f)'
  <1>1. CASE ~\E h \in Handlers : Issue(h)
    <2>1. Stored(rt') = Stored(rt) /\ Kept(rt, rt')
      BY <1>1, TableSteps
    <2>2. ASSUME NEW t \in Stored(rt'), rt'[t].family = f
          PROVE  Spent(rt'[t])
      BY <2>1, <2>2 DEF Over, Kept, Spent
    <2>3. ASSUME NEW h \in Handlers, NEW t \in Stored(rt'), Holds(req'[h], t)
          PROVE  rt'[t].family # f
      <3>1. t \in Stored(rt) /\ t \in Tokens /\ rt'[t].family = rt[t].family
        BY <2>1 DEF Kept, Stored
      <3>2. Holds(req[h], t) \/ ~Spent(rt[t])
        BY <2>3, <3>1, HoldsSource
      <3> QED
        BY <3>1, <3>2 DEF Over
    <2> QED
      BY <2>2, <2>3 DEF Over, Stored
  <1>2. ASSUME NEW h \in Handlers, Issue(h) PROVE Over(f)'
    <2>1. PICK t : Inserted(h, t)
      BY <1>2, IssueRow
    <2>2. Kept(rt, rt') /\ req[h].pc = "issue"
      BY <1>2, IssueBase, IssueRow
    <2>3. rt'[t].family # f
      <3>1. CASE req[h].tok = None
        BY <2>1, <3>1 DEF Inserted, FamilyFor
      <3>2. CASE req[h].tok # None
        <4>1. Holds(req[h], req[h].tok)
          BY <2>2 DEF Holds, PastCheck
        <4>2. rt[req[h].tok].family # f
          BY <3>2, <4>1, HeldStored DEF Over
        <4> QED
          BY <2>1, <3>2, <4>2 DEF Inserted, FamilyFor
      <3> QED
        BY <3>1, <3>2
    <2>4. ASSUME NEW s \in Stored(rt'), s # t
          PROVE  s \in Stored(rt) /\ s \in Tokens /\ rt'[s] = rt[s]
      BY <2>1, <2>4 DEF Inserted, Stored
    <2>5. ASSUME NEW s \in Stored(rt'), rt'[s].family = f PROVE Spent(rt'[s])
      BY <2>3, <2>4, <2>5 DEF Over
    <2>6. ASSUME NEW g \in Handlers, NEW s \in Stored(rt'), Holds(req'[g], s)
          PROVE  rt'[s].family # f
      BY <2>3, <2>4, <2>6, HoldsSource DEF Over
    <2> QED
      BY <2>5, <2>6 DEF Over, Stored
  <1> QED
    BY <1>1, <1>2

(* Every session is over when it is entered in ended as quiet.             *)
LEMMA EndedQuietly ==
  ASSUME Base, NEW h \in Handlers, RefreshRevokeFamily(h) \/ LogoutRevoke(h),
         NEW e \in ended', e \notin ended, e.quiet
  PROVE  Over(e.family)'
  <1> DEFINE p == req[h].tok
             f == rt[p].family
             alone == \A s \in OfFamily(rt, f) \ {p} : Spent(rt[s])
  <1> USE DEF Base
  <1>1. Done(h) /\ p \in Stored(rt) /\ p \in Tokens
    BY DEF RefreshRevokeFamily, LogoutRevoke, At, RequestsOK, Grounded, Stored
  <1>2. e.family = f /\ ~Redeeming(f) /\ (LogoutRevoke(h) => alone)
    <2>1. CASE RefreshRevokeFamily(h)
      <3>1. e = [family |-> f, cause |-> "reuse", quiet |-> ~Redeeming(f)]
        BY <2>1 DEF RefreshRevokeFamily
      <3>2. e.family = f /\ e.quiet = (~Redeeming(f))
        BY <3>1
      <3>3. ~LogoutRevoke(h)
        BY <2>1 DEF RefreshRevokeFamily, LogoutRevoke, At
      <3> QED
        BY <3>2, <3>3
    <2>2. CASE LogoutRevoke(h)
      <3>1. e = [family |-> f, cause |-> "logout", quiet |-> alone /\ ~Redeeming(f)]
        BY <2>2 DEF LogoutRevoke
      <3> HIDE DEF alone
      <3>2. e.family = f /\ e.quiet = (alone /\ ~Redeeming(f))
        BY <3>1
      <3> QED
        BY <3>2
    <2> QED
      BY <2>1, <2>2
  <1>3. Kept(rt, rt') /\ rt' \in [Tokens -> Row] /\ Stored(rt') = Stored(rt)
    <2>1. CASE RefreshRevokeFamily(h)
      <3>1. rt' = RevokeWhere(rt, OfFamily(rt, f))
        BY <2>1 DEF RefreshRevokeFamily, RevokeFamily
      <3> QED
        BY <2>1, <3>1, RevokeBase, RevokeWhereType DEF StoreTypeOK
    <2>2. CASE LogoutRevoke(h)
      <3>1. rt' = RevokeWhere(rt, {p})
        BY <2>2, <1>1, RevokeType DEF LogoutRevoke, StoreTypeOK
      <3> QED
        BY <2>2, <3>1, RevokeBase, RevokeWhereType DEF StoreTypeOK
    <2> QED
      BY <2>1, <2>2
  <1>4. ASSUME NEW t \in Stored(rt), rt[t].family = f PROVE Spent(rt'[t])
    <2>1. t \in Tokens
      BY DEF Stored
    <2>2. CASE RefreshRevokeFamily(h)
      <3>1. t \in OfFamily(rt, f)
        BY <1>4 DEF OfFamily
      <3>2. rt' = RevokeWhere(rt, OfFamily(rt, f))
        BY <2>2 DEF RefreshRevokeFamily, RevokeFamily
      <3>3. rt'[t].revoked
        BY <2>1, <3>1, <3>2, RevokeWhereType DEF StoreTypeOK
      <3> QED
        BY <3>3 DEF Spent
    <2>3. CASE LogoutRevoke(h) /\ t = p
      <3>1. rt' = RevokeWhere(rt, {p})
        BY <2>3, <1>1, RevokeType DEF LogoutRevoke, StoreTypeOK
      <3>2. rt'[t].revoked
        BY <2>1, <2>3, <3>1, RevokeWhereType DEF StoreTypeOK
      <3> QED
        BY <3>2 DEF Spent
    <2>4. CASE LogoutRevoke(h) /\ t # p
      <3>2. Spent(rt[t])
        BY <1>2, <1>4, <2>4 DEF OfFamily
      <3> QED
        BY <1>3, <3>2 DEF Spent, Kept
    <2> QED
      BY <2>2, <2>3, <2>4
  <1>5. ASSUME NEW g \in Handlers, NEW t \in Stored(rt), Holds(req'[g], t)
        PROVE  rt[t].family # f
    <2>1. Holds(req[g], t)
      BY <1>1, <1>5, DoneType DEF Holds, PastCheck
    <2>2. t # None
      BY NoneIsNoUser DEF Stored
    <2> QED
      BY <1>2, <2>1, <2>2 DEF Holds, PastCheck, Redeeming
  <1>6. \A t \in Stored(rt) : rt'[t].family = rt[t].family
    BY <1>3 DEF Kept
  <1> QED
    BY <1>2, <1>3, <1>4, <1>5, <1>6 DEF Over, Stored

LEMMA EndedSteps ==
  ASSUME [Next]_vars, ended' # ended
  PROVE  \E h \in Handlers : RefreshRevokeFamily(h) \/ LogoutRevoke(h)
  <1>1. ASSUME NEW h \in Handlers, Start(h) PROVE FALSE
    BY <1>1, StartStores
  <1>2. ASSUME NEW h \in Handlers, Abort(h) PROVE FALSE
    BY <1>2 DEF Abort
  <1>3. CASE Tick \/ UNCHANGED vars
    BY <1>3 DEF Tick, vars
  <1>4. ASSUME NEW h \in Handlers, Progress(h)
        PROVE  RefreshRevokeFamily(h) \/ LogoutRevoke(h)
    BY <1>4 DEF Progress, Issue, SignChallenge, RefreshFind, RefreshUser, RefreshConsume, SetPassword,
                ResetUpdate, RevokeAll, VerifyConsume, Activate, Disable, Enable
  <1> QED
    BY <1>1, <1>2, <1>3, <1>4 DEF Next

LEMMA QuietAlways == Spec => []QuietOK
  <1>1. Init => QuietOK
    BY DEF Init, QuietOK
  <1>2. Base /\ QuietOK /\ [Next]_vars => QuietOK'
    <2> SUFFICES ASSUME Base, QuietOK, [Next]_vars, NEW e \in ended', e.quiet
                 PROVE  Over(e.family)'
      BY DEF QuietOK
    <2>1. CASE e \in ended
      BY <2>1, OverKept DEF QuietOK, Base, EndedOK
    <2>2. CASE e \notin ended
      BY <2>2, EndedSteps, EndedQuietly
    <2> QED
      BY <2>1, <2>2
  <1> QED
    BY <1>1, <1>2, BaseAlways, PTL DEF Spec

(* A session that ended with nothing of it under way has no usable token    *)
(* ever again (refresh, logout).                                            *)
THEOREM QuietEndings == Spec => []QuietEndingsLast
  <1>1. QuietOK => QuietEndingsLast
    BY DEF QuietOK, Over, QuietEndingsLast, OfFamily, Unspent
  <1> QED
    BY <1>1, QuietAlways, PTL

-----------------------------------------------------------------------------
(* Disabled accounts.                                                      *)

Passing(r, u) == r.user = u /\ r.pc \in {"consume", "issue"}

(* Only a request that saw the account not disabled gets past its check.   *)
LEMMA PassingSource ==
  ASSUME Base, [Next]_vars, NEW g \in Handlers, NEW u \in Users, Passing(req'[g], u)
  PROVE  Passing(req[g], u) \/ users[u].status # "disabled"
  <1> USE DEF Base, StoreTypeOK
  <1>1. ASSUME NEW h \in Handlers, Start(h)
        PROVE  Passing(req[g], u) \/ users[u].status # "disabled"
    <2>1. PICK r : Fresh(r) /\ Become(h, r)
      BY <1>1, StartFresh
    <2>2. CASE g = h
      BY <2>1, <2>2 DEF Become, Fresh, Passing
    <2>3. CASE g # h
      BY <2>1, <2>3 DEF Become, Passing
    <2> QED
      BY <2>2, <2>3
  <1>2. ASSUME NEW h \in Handlers, Done(h) PROVE Passing(req[g], u)
    BY <1>2, DoneType DEF Passing
  <1>3. ASSUME NEW h \in Handlers, NEW pc \in Pc \ {"consume", "issue"}, Goto(h, pc)
        PROVE  Passing(req[g], u)
    BY <1>3, GotoType DEF Passing
  <1>4. ASSUME NEW h \in Handlers, Progress(h)
        PROVE  Passing(req[g], u) \/ users[u].status # "disabled"
    <2>1. CASE RefreshFind(h)
      <3> DEFINE p == req[h].tok
                 verdict == Verdict(rt[p], req[h].now)
      <3>1. CASE verdict = "idle"
        BY <2>1, <3>1, <1>2 DEF RefreshFind
      <3>2. CASE verdict # "idle"
        <4>1. req' = [req EXCEPT ![h] = [req[h] EXCEPT !.pc = verdict, !.user = rt[p].user,
                                                       !.password = origin[p].password]]
          BY <2>1, <3>2 DEF RefreshFind, Become
        <4>2. req'[h].pc = verdict /\ \A f \in Handlers \ {h} : req'[f] = req[f]
          BY <4>1 DEF Request
        <4> QED
          BY <4>2 DEF Passing, Verdict
      <3> QED
        BY <3>1, <3>2
    <2>2. CASE \/ Issue(h) \/ SignChallenge(h) \/ RefreshRevokeFamily(h)
               \/ LogoutRevoke(h) \/ RevokeAll(h) \/ Activate(h) \/ Enable(h)
      BY <2>2, <1>2 DEF Issue, SignChallenge, RefreshRevokeFamily, LogoutRevoke,
                        RevokeAll, Activate, Enable
    <2>3. CASE RefreshUser(h)
      <3>1. CASE users[req[h].user].status = "disabled"
        BY <2>3, <3>1, <1>3 DEF RefreshUser, Pc
      <3>2. CASE users[req[h].user].status # "disabled"
        <4>1. Goto(h, "consume") /\ "consume" \in Pc
          BY <2>3, <3>2 DEF RefreshUser, Pc
        <4> QED
          BY <3>2, <4>1, GotoType DEF Passing
      <3> QED
        BY <3>1, <3>2
    <2>4. CASE RefreshConsume(h)
      <3>1. Goto(h, "issue") /\ "issue" \in Pc /\ req[h].pc = "consume"
        BY <2>4 DEF RefreshConsume, At, Pc
      <3> QED
        BY <3>1, GotoType DEF Passing
    <2>5. CASE SetPassword(h) \/ ResetUpdate(h) \/ VerifyConsume(h) \/ Disable(h)
      BY <2>5, <1>3 DEF SetPassword, ResetUpdate, VerifyConsume, Disable, Pc
    <2> QED
      BY <1>4, <2>1, <2>2, <2>3, <2>4, <2>5 DEF Progress
  <1>5. ASSUME NEW h \in Handlers, Abort(h) PROVE Passing(req[g], u)
    BY <1>5, <1>2 DEF Abort
  <1>6. CASE Tick \/ UNCHANGED vars
    BY <1>6 DEF Tick, vars, Passing
  <1> QED
    BY <1>1, <1>4, <1>5, <1>6 DEF Next

LEMMA DrainedStep ==
  ASSUME Base, [Next]_vars, NEW u \in Users, users[u].status = "disabled", ~Issuing(u)
  PROVE  ~Issuing(u)' /\ OfUser(rt, u)' = OfUser(rt, u)
  <1>1. \A g \in Handlers : ~Passing(req[g], u)
    BY DEF Issuing, Passing
  <1>2. \A g \in Handlers : ~Passing(req'[g], u)
    BY <1>1, PassingSource
  <1>3. ~Issuing(u)'
    BY <1>2 DEF Issuing, Passing
  <1>4. CASE ~\E h \in Handlers : Issue(h)
    <2>1. Stored(rt') = Stored(rt) /\ Kept(rt, rt')
      BY <1>4, TableSteps
    <2> QED
      BY <1>3, <2>1 DEF OfUser, Kept
  <1>5. ASSUME NEW h \in Handlers, Issue(h)
        PROVE  OfUser(rt, u)' = OfUser(rt, u)
    <2>1. PICK t : Inserted(h, t)
      BY <1>5, IssueRow
    <2>2. req[h].user # u
      BY <1>1, <1>5, IssueRow DEF Passing
    <2>3. Stored(rt') = Stored(rt) \cup {t} /\ rt'[t].user # u
          /\ \A s \in Stored(rt) : rt'[s].user = rt[s].user
      BY <2>1, <2>2 DEF Inserted, Stored
    <2> QED
      BY <2>1, <2>3 DEF OfUser, Inserted
  <1> QED
    BY <1>3, <1>4, <1>5

(* While an account stays disabled and no request of it is past its status  *)
(* check, none gets past it and no token is issued (login, refresh).        *)
THEOREM DrainedAccounts == Spec => DrainedAccountsStayOut
  <1>1. Base /\ [Next]_vars =>
          [\A u \in Users :
             /\ users[u].status = "disabled" /\ users'[u].status = "disabled"
             /\ ~Issuing(u)
             => ~Issuing(u)' /\ OfUser(rt, u)' = OfUser(rt, u)]_vars
    BY DrainedStep
  <1> QED
    BY <1>1, BaseAlways, PTL DEF Spec, DrainedAccountsStayOut

-----------------------------------------------------------------------------
(* Expired tokens.                                                         *)

Timely(r, t) ==
  /\ r.tok = t
  /\ r.pc \in PastCheck \/ (r.pc = "find" /\ r.now < rt[t].expiresAt)

(* After the expiry of t only a request that had an earlier time goes on.  *)
LEMMA TimelySource ==
  ASSUME Base, [Next]_vars, NEW g \in Handlers, NEW t \in Stored(rt),
         rt[t].expiresAt <= clock, Timely(req'[g], t)
  PROVE  Timely(req[g], t)
  <1> USE DEF Base, StoreTypeOK
  <1>1. t \in Tokens /\ rt[t].expiresAt \in Nat /\ t # None
    BY NoneIsNoUser DEF Stored, Row
  <1>2. ASSUME NEW h \in Handlers, Start(h) PROVE Timely(req[g], t)
    <2>1. PICK r : Fresh(r) /\ Become(h, r)
      BY <1>2, StartFresh
    <2>2. CASE g = h
      <3>1. req'[g] = r
        BY <2>1, <2>2 DEF Become
      <3>2. r.pc = "find" /\ r.now < rt[t].expiresAt
        BY <1>1, <2>1, <3>1 DEF Timely, Fresh, PastCheck
      <3> QED
        BY <1>1, <2>1, <3>2 DEF Fresh
    <2>3. CASE g # h
      BY <2>1, <2>3 DEF Become, Timely
    <2> QED
      BY <2>2, <2>3
  <1>3. ASSUME NEW h \in Handlers, Done(h) PROVE Timely(req[g], t)
    BY <1>3, DoneType DEF Timely, PastCheck
  <1>4. ASSUME NEW h \in Handlers, NEW pc \in Pc, Goto(h, pc), pc # "find",
               pc \in PastCheck => req[h].pc \in PastCheck
        PROVE  Timely(req[g], t)
    BY <1>4, GotoType DEF Timely
  <1>5. ASSUME NEW h \in Handlers, Progress(h) PROVE Timely(req[g], t)
    <2>1. CASE RefreshFind(h)
      <3> DEFINE p == req[h].tok
                 verdict == Verdict(rt[p], req[h].now)
      <3>1. CASE verdict = "idle"
        BY <2>1, <3>1, <1>3 DEF RefreshFind
      <3>2. CASE verdict # "idle"
        <4>1. req' = [req EXCEPT ![h] = [req[h] EXCEPT !.pc = verdict, !.user = rt[p].user,
                                                       !.password = origin[p].password]]
          BY <2>1, <3>2 DEF RefreshFind, Become
        <4>2. req'[h].pc = verdict /\ req'[h].tok = p /\ req[h].pc = "find"
              /\ \A f \in Handlers \ {h} : req'[f] = req[f]
          BY <2>1, <4>1 DEF Request, RefreshFind, At
        <4>3. CASE g = h
          <5>1. p = t /\ verdict = "user"
            BY <4>2, <4>3 DEF Timely, PastCheck, Verdict
          <5>2. ~Expired(rt[t], req[h].now) /\ req[h].now \in Nat
            BY <5>1 DEF Verdict, Request
          <5> QED
            BY <1>1, <4>2, <4>3, <5>1, <5>2 DEF Timely, Expired
        <4>4. CASE g # h
          BY <4>2, <4>4 DEF Timely
        <4> QED
          BY <4>3, <4>4
      <3> QED
        BY <3>1, <3>2
    <2>2. CASE \/ Issue(h) \/ SignChallenge(h) \/ RefreshRevokeFamily(h)
               \/ LogoutRevoke(h) \/ RevokeAll(h) \/ Activate(h) \/ Enable(h)
      BY <2>2, <1>3 DEF Issue, SignChallenge, RefreshRevokeFamily, LogoutRevoke,
                        RevokeAll, Activate, Enable
    <2>3. CASE RefreshUser(h) \/ RefreshConsume(h)
      BY <2>3, <1>4 DEF RefreshUser, RefreshConsume, At, Pc, PastCheck
    <2>4. CASE SetPassword(h) \/ ResetUpdate(h) \/ VerifyConsume(h) \/ Disable(h)
      BY <2>4, <1>4 DEF SetPassword, ResetUpdate, VerifyConsume, Disable, Pc, PastCheck
    <2> QED
      BY <1>5, <2>1, <2>2, <2>3, <2>4 DEF Progress
  <1>6. ASSUME NEW h \in Handlers, Abort(h) PROVE Timely(req[g], t)
    BY <1>6, <1>3 DEF Abort
  <1>7. CASE Tick \/ UNCHANGED vars
    BY <1>7 DEF Tick, vars, Timely
  <1> QED
    BY <1>2, <1>5, <1>6, <1>7 DEF Next

(* From the moment a token expires it is not redeemed, but by the requests  *)
(* that had read an earlier time (refresh).                                 *)
THEOREM LapsedTokens == Spec => LapsedTokensStayOut
  <1> DEFINE Lapsed(t) == rt[t].expiresAt <= clock /\ ~InTime(t) => ~InTime(t)'
  <1>1. ASSUME Base, [Next]_vars, NEW t \in Stored(rt) PROVE Lapsed(t)
    <2> SUFFICES ASSUME rt[t].expiresAt <= clock,
                        NEW g \in Handlers, req'[g].tok = t,
                        \/ req'[g].pc \in {"user", "consume", "issue"}
                        \/ req'[g].pc = "find" /\ req'[g].now < rt'[t].expiresAt
                 PROVE  InTime(t)
      BY DEF InTime
    <2>1. rt'[t].expiresAt = rt[t].expiresAt
      <3>1. CASE ~\E h \in Handlers : Issue(h)
        BY <1>1, <3>1, TableSteps DEF Stored
      <3>2. CASE \E h \in Handlers : Issue(h)
        BY <1>1, <3>2, IssueRow DEF Inserted, Stored
      <3> QED
        BY <3>1, <3>2
    <2>2. Timely(req'[g], t)
      BY <2>1 DEF Timely, PastCheck
    <2> QED
      BY <1>1, <2>2, TimelySource DEF Timely, PastCheck, InTime
  <1>2. Base /\ [Next]_vars => [\A t \in Stored(rt) : Lapsed(t)]_vars
    BY <1>1
  <1> QED
    BY <1>2, BaseAlways, PTL DEF Spec, LapsedTokensStayOut

-----------------------------------------------------------------------------
(* One request at a time; none dies with the revocation still to come.     *)

(* Every usable token of the user goes back to a login with the current     *)
(* password, and the account is not disabled.                               *)
Settled(u) ==
  \A t \in Stored(rt) : rt[t].user = u /\ ~Spent(rt[t]) =>
    /\ users[u].status # "disabled"
    /\ origin[t].password = users[u].password

(* A request past its checks still agrees with the account it checked.     *)
Current(r) ==
  /\ r.pc \in {"consume", "issue"} => users[r.user].status # "disabled"
  /\ r.pc \in PastCheck => r.password = users[r.user].password

Undisturbed ==
  /\ \A u \in Users : RevokingAll(u) \/ Settled(u)
  /\ \A h \in Handlers : Current(req[h])

(* A step that inserts no row and leaves the account alone.                *)
LEMMA SettledKept ==
  ASSUME NEW u \in Users, Settled(u), users'[u] = users[u], UNCHANGED origin,
         Stored(rt') = Stored(rt), Kept(rt, rt')
  PROVE  Settled(u)'
  BY DEF Settled, Kept, Spent, Stored

LEMMA UndisturbedStart ==
  ASSUME Base, Undisturbed, NEW h, Handlers = {h}, Start(h)
  PROVE  Undisturbed'
  <1>1. UNCHANGED <<users, rt, clock, origin, ended>>
    BY StartStores
  <1>2. PICK r : Fresh(r) /\ req' = [req EXCEPT ![h] = r]
    BY StartFresh DEF Become
  <1>3. req'[h] = r
    BY <1>2 DEF Base, StoreTypeOK
  <1>4. req[h].pc = "idle"
    BY DEF Start, LoginFind, CompleteFind, RefreshStart, LogoutFind, ChangeFind,
           ResetFind, VerifyFind, SetEnabledFind, Accept
  <1>5. \A u \in Users : Settled(u)
    BY <1>4 DEF Undisturbed, RevokingAll, At
  <1>6. \A u \in Users : Settled(u)'
    BY <1>1, <1>5 DEF Settled, Stored
  <1>7. Current(req[h])'
    BY <1>1, <1>3, <1>2 DEF Fresh, Current, PastCheck
  <1> QED
    BY <1>6, <1>7 DEF Undisturbed

LEMMA UndisturbedIssue ==
  ASSUME Base, Undisturbed, NEW h, Handlers = {h}, Issue(h)
  PROVE  Undisturbed'
  <1>1. PICK t : Inserted(h, t)
    BY IssueRow
  <1>2. req[h].pc = "issue" /\ req[h].user \in Users /\ UNCHANGED users /\ req'[h].pc = "idle"
    BY IssueRow, DoneType DEF Base
  <1>3. \A u \in Users : Settled(u)
    BY <1>2 DEF Undisturbed, RevokingAll, At
  <1>4. Current(req[h])
    BY DEF Undisturbed
  <1>5. ASSUME NEW u \in Users PROVE Settled(u)'
    <2> SUFFICES ASSUME NEW s \in Stored(rt'), rt'[s].user = u, ~Spent(rt'[s])
                 PROVE  /\ users'[u].status # "disabled"
                        /\ origin'[s].password = users'[u].password
      BY DEF Settled, Stored
    <2>1. CASE s = t
      <3>1. rt'[t].user = req[h].user /\ origin'[t].password = req[h].password
        BY <1>1 DEF Inserted
      <3> QED
        BY <1>2, <1>4, <2>1, <3>1 DEF Current, PastCheck
    <2>2. CASE s # t
      <3>1. s \in Stored(rt) /\ rt'[s] = rt[s] /\ origin'[s] = origin[s]
        BY <1>1, <2>2 DEF Inserted, Stored
      <3> QED
        BY <1>2, <1>3, <3>1 DEF Settled
    <2> QED
      BY <2>1, <2>2
  <1>6. Current(req[h])'
    BY <1>2 DEF Current, PastCheck
  <1> QED
    BY <1>5, <1>6 DEF Undisturbed

(* The account is written, and its sessions are next.                      *)
LEMMA UndisturbedAccount ==
  ASSUME Base, Undisturbed, NEW h, Handlers = {h},
         \/ SetPassword(h) \/ ResetUpdate(h) \/ VerifyConsume(h) \/ Activate(h)
         \/ Disable(h) \/ Enable(h)
  PROVE  Undisturbed'
  <1> DEFINE u0 == req[h].user
  <1> USE DEF Base
  <1>1. /\ UNCHANGED <<rt, origin>> /\ u0 \in Users
        /\ req[h].pc \in {"setPassword", "resetUpdate", "verifyConsume", "activate",
                          "disable", "enable"}
    BY DEF SetPassword, ResetUpdate, VerifyConsume, Activate, Disable, Enable, At,
           RequestsOK, Grounded
  <1>2. \A u \in Users : Settled(u)
    BY <1>1 DEF Undisturbed, RevokingAll, At
  <1>3. \A u \in Users \ {u0} : users'[u] = users[u]
    BY DEF SetPassword, ResetUpdate, VerifyConsume, Activate, Disable, Enable, StoreTypeOK
  <1>4. \A u \in Users \ {u0} : Settled(u)'
    BY <1>1, <1>2, <1>3 DEF Settled, Stored
  <1>5. CASE SetPassword(h) \/ ResetUpdate(h) \/ Disable(h)
    <2>1. Goto(h, "revokeAll") /\ "revokeAll" \in Pc
      BY <1>5 DEF SetPassword, ResetUpdate, Disable, Pc
    <2>2. req'[h].pc = "revokeAll" /\ req'[h].user = u0
      BY <2>1, GotoType
    <2>4. Current(req[h])'
      BY <2>2 DEF Current, PastCheck
    <2>5. ASSUME NEW u \in Users PROVE RevokingAll(u)' \/ Settled(u)'
      <3>1. CASE u = u0
        BY <2>2, <3>1 DEF RevokingAll, At
      <3>2. CASE u # u0
        BY <1>4, <3>2
      <3> QED
        BY <3>1, <3>2
    <2> QED
      BY <2>4, <2>5 DEF Undisturbed
  <1>6. CASE VerifyConsume(h) \/ Activate(h) \/ Enable(h)
    <2>1. req'[h].pc \in {"idle", "activate"}
      <3>1. CASE VerifyConsume(h)
        <4>1. Goto(h, "activate") /\ "activate" \in Pc
          BY <3>1 DEF VerifyConsume, Pc
        <4> QED
          BY <4>1, GotoType
      <3>2. CASE Activate(h) \/ Enable(h)
        BY <3>2, DoneType DEF Activate, Enable
      <3> QED
        BY <1>6, <3>1, <3>2
    <2>2. /\ users'[u0].password = users[u0].password
          /\ users'[u0].status \in {users[u0].status, "active"}
      <3>1. users[u0] \in UserRow /\ users \in [Users -> UserRow]
        BY <1>1 DEF StoreTypeOK
      <3>2. CASE VerifyConsume(h)
        BY <1>1, <3>1, <3>2 DEF VerifyConsume, UserRow
      <3>3. CASE Activate(h)
        <4>1. users' = [users EXCEPT ![u0] = [users[u0] EXCEPT !.status = "active",
                                                               !.verified = TRUE]]
          BY <1>1, <3>1, <3>3 DEF Activate
        <4> QED
          BY <1>1, <3>1, <4>1 DEF UserRow
      <3>4. CASE Enable(h)
        BY <1>1, <3>1, <3>4 DEF Enable, UserRow
      <3> QED
        BY <1>6, <3>2, <3>3, <3>4
    <2>3. ASSUME NEW u \in Users PROVE Settled(u)'
      <3>1. CASE u = u0
        <4>1. /\ users'[u].password = users[u].password
              /\ users'[u].status \in {users[u].status, "active"}
          BY <2>2, <3>1
        <4> QED
          BY <1>1, <1>2, <4>1 DEF Settled, Stored
      <3>2. CASE u # u0
        BY <1>4, <3>2
      <3> QED
        BY <3>1, <3>2
    <2>4. Current(req[h])'
      BY <2>1 DEF Current, PastCheck
    <2> QED
      BY <2>3, <2>4 DEF Undisturbed
  <1> QED
    BY <1>5, <1>6

LEMMA UndisturbedRefresh ==
  ASSUME Base, Undisturbed, NEW h, Handlers = {h},
         RefreshFind(h) \/ RefreshUser(h) \/ RefreshConsume(h)
  PROVE  Undisturbed'
  <1> DEFINE p == req[h].tok
  <1> USE DEF Base, StoreTypeOK
  <1>1. /\ UNCHANGED <<users, origin>> /\ Stored(rt') = Stored(rt) /\ Kept(rt, rt')
        /\ req[h].pc \in {"find", "user", "consume"} /\ p \in Stored(rt) /\ p \in Tokens
    <2>1. req[h].pc \in {"find", "user", "consume"}
      BY DEF RefreshFind, RefreshUser, RefreshConsume, At
    <2>2. p \in Stored(rt) /\ p \in Tokens
      BY <2>1 DEF RequestsOK, Grounded, Stored
    <2>3. UNCHANGED <<users, origin>> /\ (RefreshConsume(h) \/ UNCHANGED rt)
      BY DEF RefreshFind, RefreshUser, RefreshConsume
    <2>4. CASE UNCHANGED rt
      BY <2>1, <2>2, <2>3, <2>4 DEF Kept, Stored
    <2>5. CASE RefreshConsume(h)
      <3>1. Stored(rt') = Stored(rt)
        BY <2>2, <2>5, MarkConsumedType DEF RefreshConsume
      <3> QED
        BY <2>1, <2>2, <2>3, <2>5, <3>1, RefreshConsumeBase
    <2> QED
      BY <2>3, <2>4, <2>5
  <1>2. \A u \in Users : Settled(u)
    BY <1>1 DEF Undisturbed, RevokingAll, At
  <1>3. \A u \in Users : Settled(u)'
    BY <1>1, <1>2, SettledKept
  <1>4. Current(req[h])
    BY DEF Undisturbed
  <1>5. Current(req[h])'
    <2>1. CASE RefreshFind(h)
      <3> DEFINE verdict == Verdict(rt[p], req[h].now)
      <3>1. CASE verdict = "idle"
        <4>1. req'[h].pc = "idle"
          BY <2>1, <3>1, DoneType DEF RefreshFind
        <4> QED
          BY <4>1 DEF Current, PastCheck
      <3>2. CASE verdict # "idle"
        <4>1. req' = [req EXCEPT ![h] = [req[h] EXCEPT !.pc = verdict, !.user = rt[p].user,
                                                       !.password = origin[p].password]]
          BY <2>1, <3>2 DEF RefreshFind, Become
        <4>2. /\ req'[h].pc = verdict /\ req'[h].user = rt[p].user
              /\ req'[h].password = origin[p].password
          BY <4>1 DEF Request
        <4>3. CASE Spent(rt[p])
          BY <4>2, <4>3 DEF Current, PastCheck, Verdict
        <4>4. CASE ~Spent(rt[p])
          <5>1. rt[p].user \in Users
            BY <1>1 DEF Stored, Row
          <5>2. origin[p].password = users[rt[p].user].password
            BY <1>1, <1>2, <4>4, <5>1 DEF Settled
          <5>3. req'[h].pc \notin {"consume", "issue"}
            BY <4>2 DEF Verdict
          <5> QED
            BY <1>1, <4>2, <5>2, <5>3 DEF Current
        <4> QED
          BY <4>3, <4>4
      <3> QED
        BY <3>1, <3>2
    <2>2. CASE RefreshUser(h)
      <3>1. CASE users[req[h].user].status = "disabled"
        <4>1. Goto(h, "revokeFamily") /\ "revokeFamily" \in Pc
          BY <2>2, <3>1 DEF RefreshUser, Pc
        <4>2. req'[h].pc = "revokeFamily"
          BY <4>1, GotoType
        <4> QED
          BY <4>2 DEF Current, PastCheck
      <3>2. CASE users[req[h].user].status # "disabled"
        <4>1. Goto(h, "consume") /\ "consume" \in Pc /\ req[h].pc = "user"
          BY <2>2, <3>2 DEF RefreshUser, At, Pc
        <4>2. /\ req'[h].pc = "consume" /\ req'[h].user = req[h].user
              /\ req'[h].password = req[h].password
          BY <4>1, GotoType
        <4> QED
          BY <1>1, <1>4, <3>2, <4>1, <4>2 DEF Current, PastCheck
      <3> QED
        BY <3>1, <3>2
    <2>3. CASE RefreshConsume(h)
      <3>1. Goto(h, "issue") /\ "issue" \in Pc /\ req[h].pc = "consume"
        BY <2>3 DEF RefreshConsume, At, Pc
      <3>2. /\ req'[h].pc = "issue" /\ req'[h].user = req[h].user
            /\ req'[h].password = req[h].password
        BY <3>1, GotoType
      <3> QED
        BY <1>1, <1>4, <3>1, <3>2 DEF Current, PastCheck
    <2> QED
      BY <2>1, <2>2, <2>3
  <1> QED
    BY <1>3, <1>5 DEF Undisturbed, Current

LEMMA UndisturbedRevoke ==
  ASSUME Base, Undisturbed, NEW h, Handlers = {h},
         RefreshRevokeFamily(h) \/ LogoutRevoke(h) \/ RevokeAll(h)
  PROVE  Undisturbed'
  <1> USE DEF Base, StoreTypeOK
  <1>1. UNCHANGED <<users, origin>> /\ Stored(rt') = Stored(rt) /\ Kept(rt, rt')
    <2>1. ~Issue(h)
      BY DEF RefreshRevokeFamily, LogoutRevoke, RevokeAll, Issue, At
    <2>2. Next
      BY DEF Next, Progress
    <2>3. ~\E g \in Handlers : Issue(g)
      BY <2>1
    <2> QED
      BY <2>2, <2>3, TableSteps DEF RefreshRevokeFamily, LogoutRevoke, RevokeAll
  <1>2. req'[h].pc = "idle"
    BY DoneType DEF RefreshRevokeFamily, LogoutRevoke, RevokeAll
  <1>3. Current(req[h])'
    BY <1>2 DEF Current, PastCheck
  <1>4. ASSUME NEW u \in Users PROVE Settled(u)'
    <2>1. CASE Settled(u)
      BY <1>1, <2>1, SettledKept
    <2>2. CASE ~Settled(u)
      <3>1. RevokeAll(h) /\ req[h].user = u
        BY <2>2 DEF Undisturbed, RevokingAll, At, RefreshRevokeFamily, LogoutRevoke
      <3>2. rt' = RevokeWhere(rt, OfUser(rt, u))
        BY <3>1 DEF RevokeAll, RevokeAllForUser
      <3>3. ASSUME NEW t \in Stored(rt'), rt'[t].user = u PROVE Spent(rt'[t])
        <4>1. t \in OfUser(rt, u) /\ t \in Tokens
          BY <1>1, <3>3 DEF OfUser, Kept, Stored
        <4>2. rt'[t].revoked
          BY <3>2, <4>1, RevokeWhereType
        <4> QED
          BY <4>2 DEF Spent
      <3> QED
        BY <3>3 DEF Settled, Stored
    <2> QED
      BY <2>1, <2>2
  <1> QED
    BY <1>3, <1>4 DEF Undisturbed, Current

LEMMA UndisturbedNext ==
  ASSUME NEW h, Handlers = {h}, "revokeAll" \notin Fragile
  PROVE  Base /\ Undisturbed /\ [Next]_vars => Undisturbed'
  <1> SUFFICES ASSUME Base, Undisturbed, [Next]_vars PROVE Undisturbed'
    OBVIOUS
  <1>1. CASE Start(h)
    BY <1>1, UndisturbedStart
  <1>2. CASE SignChallenge(h)
    <2>1. UNCHANGED <<users, rt, origin>> /\ req[h].pc = "challenge" /\ Done(h)
      BY <1>2 DEF SignChallenge, At
    <2>2. req'[h].pc = "idle"
      BY <2>1, DoneType DEF Base
    <2> QED
      BY <2>1, <2>2 DEF Undisturbed, Settled, RevokingAll, Current, At, Stored, PastCheck
  <1>3. CASE Progress(h)
    BY <1>3, <1>2, UndisturbedIssue, UndisturbedAccount, UndisturbedRefresh, UndisturbedRevoke
       DEF Progress
  <1>4. CASE Tick \/ UNCHANGED vars
    BY <1>4 DEF Tick, vars, Undisturbed, Settled, RevokingAll, Current, At, Stored
  <1>5. CASE Abort(h)
    <2>1. UNCHANGED <<users, rt, origin>> /\ req[h].pc # "revokeAll"
      BY <1>5 DEF Abort
    <2>2. req'[h].pc = "idle"
      BY <1>5, DoneType DEF Abort, Base
    <2> QED
      BY <2>1, <2>2 DEF Undisturbed, Settled, RevokingAll, Current, At, Stored, PastCheck
  <1> QED
    BY <1>1, <1>3, <1>4, <1>5 DEF Next

LEMMA UndisturbedAlways ==
  ASSUME NEW h, Handlers = {h}, "revokeAll" \notin Fragile
  PROVE  Spec => []Undisturbed
  <1>1. Init => Undisturbed
    BY DEF Init, Undisturbed, Settled, Current, Stored, NoRow, Idle, PastCheck
  <1>2. Base /\ Undisturbed /\ [Next]_vars => Undisturbed'
    BY UndisturbedNext
  <1> QED
    BY <1>1, <1>2, BaseAlways, PTL DEF Spec

(* One request at a time, none dying before its revocation (requests may    *)
(* die anywhere else): a disabled account has no usable token once          *)
(* setUserEnabled is through.                                               *)
THEOREM SequentialDisable ==
  ASSUME NEW h, Handlers = {h}, "revokeAll" \notin Fragile
  PROVE  Spec => []DisableEndsSessions
  <1>1. Undisturbed => DisableEndsSessions
    BY DEF Undisturbed, Settled, DisableEndsSessions, OfUser, Unspent
  <1> QED
    BY <1>1, UndisturbedAlways, PTL

(* One request at a time, none dying before its revocation (requests may    *)
(* die anywhere else): no usable token outlives the password                *)
(* its session logged in with (changePassword, resetPassword).              *)
THEOREM SequentialPasswordChange ==
  ASSUME NEW h, Handlers = {h}, "revokeAll" \notin Fragile
  PROVE  Spec => []PasswordChangeEndsSessions
  <1>1. Undisturbed => PasswordChangeEndsSessions
    BY DEF Undisturbed, Settled, PasswordChangeEndsSessions, OfUser, Unspent
  <1> QED
    BY <1>1, UndisturbedAlways, PTL

-----------------------------------------------------------------------------
(* Any number of requests: what a revocation achieves, and when.           *)

RevokesAll(u) == \E h \in Handlers : RevokeAll(h) /\ req[h].user = u

NoneUsable(u) == \A t \in OfUser(rt, u) : ~Unspent(t)

(* When no request of the account is past its status check at the moment    *)
(* of the revocation, a disabled account has no usable token, and gets none *)
(* before its status changes (setUserEnabled).                              *)
DisablingLasts ==
  [][\A u \in Users :
       /\ users[u].status = "disabled" /\ users'[u].status = "disabled"
       /\ ~Issuing(u)
       /\ NoneUsable(u) \/ RevokesAll(u)
       => ~Issuing(u)' /\ NoneUsable(u)']_vars

(* The request would answer with a token of a session that was opened under *)
(* an earlier password of user u.                                           *)
Outdated(r, u) ==
  r.user = u /\ r.pc \in PastCheck /\ r.password # users[u].password

NoneOutdated(u) == \A h \in Handlers : ~Outdated(req[h], u)

AllCurrent(u) ==
  \A t \in OfUser(rt, u) : Unspent(t) => origin[t].password = users[u].password

(* When no request that began under an earlier password is past its checks  *)
(* at the moment of the revocation, no token of an earlier password is      *)
(* usable, and none becomes so before the password changes again            *)
(* (changePassword, resetPassword).                                         *)
PasswordChangeLasts ==
  [][\A u \in Users :
       /\ users'[u].password = users[u].password
       /\ NoneOutdated(u)
       /\ AllCurrent(u) \/ RevokesAll(u)
       => NoneOutdated(u)' /\ AllCurrent(u)']_vars

LEMMA RowsKept == ASSUME Base, [Next]_vars PROVE Kept(rt, rt')
  <1>1. ASSUME NEW h \in Handlers, Issue(h) PROVE Kept(rt, rt')
    <2>1. PICK t : Inserted(h, t)
      BY <1>1, IssueRow
    <2>2. \A s \in Stored(rt) : s \in Stored(rt') /\ rt'[s] = rt[s]
      BY <2>1 DEF Inserted, Stored
    <2> QED
      BY <2>2 DEF Kept
  <1>2. CASE ~\E h \in Handlers : Issue(h)
    BY <1>2, TableSteps
  <1> QED
    BY <1>1, <1>2

(* The statement spends every row of the user, and inserts none.            *)
LEMMA RevokesThem ==
  ASSUME Base, NEW u \in Users, NEW h \in Handlers, RevokeAll(h), req[h].user = u
  PROVE  /\ NoneUsable(u)' /\ UNCHANGED <<users, origin>>
         /\ req'[h].pc = "idle" /\ \A g \in Handlers \ {h} : req'[g] = req[g]
  <1>1. rt' = RevokeWhere(rt, OfUser(rt, u)) /\ Done(h) /\ UNCHANGED <<users, origin>>
    BY DEF RevokeAll, RevokeAllForUser
  <1>2. rt \in [Tokens -> Row]
    BY DEF Base, StoreTypeOK
  <1>3. /\ Stored(rt') = Stored(rt)
        /\ \A s \in Tokens : /\ rt'[s].user = rt[s].user
                             /\ s \in OfUser(rt, u) => rt'[s].revoked
    BY <1>1, <1>2, RevokeWhereType
  <1>4. ASSUME NEW t \in OfUser(rt', u) PROVE rt'[t].revoked
    BY <1>3 DEF OfUser, Stored
  <1>5. NoneUsable(u)'
    BY <1>4 DEF NoneUsable, Unspent, Spent
  <1> QED
    BY <1>1, <1>5, DoneType DEF Base

THEOREM LastingDisable == Spec => DisablingLasts
  <1> DEFINE Lasts(u) ==
        /\ users[u].status = "disabled" /\ users'[u].status = "disabled"
        /\ ~Issuing(u)
        /\ NoneUsable(u) \/ RevokesAll(u)
        => ~Issuing(u)' /\ NoneUsable(u)'
  <1>1. ASSUME Base, [Next]_vars, NEW u \in Users PROVE Lasts(u)
    <2> SUFFICES ASSUME users[u].status = "disabled", users'[u].status = "disabled",
                        ~Issuing(u), NoneUsable(u) \/ RevokesAll(u)
                 PROVE  ~Issuing(u)' /\ NoneUsable(u)'
      OBVIOUS
    <2>1. ~Issuing(u)' /\ OfUser(rt, u)' = OfUser(rt, u)
      BY <1>1, DrainedStep
    <2>2. CASE NoneUsable(u)
      <3>1. ASSUME NEW t \in OfUser(rt, u) PROVE ~Unspent(t)'
        <4>1. t \in Stored(rt) /\ Spent(rt[t])
          BY <2>2 DEF NoneUsable, Unspent, OfUser
        <4> QED
          BY <1>1, <4>1, RowsKept DEF Kept, Spent, Unspent
      <3> QED
        BY <2>1, <3>1 DEF NoneUsable
    <2>3. CASE RevokesAll(u)
      BY <1>1, <2>1, <2>3, RevokesThem DEF RevokesAll
    <2> QED
      BY <2>1, <2>2, <2>3
  <1>2. Base /\ [Next]_vars => [\A u \in Users : Lasts(u)]_vars
    BY <1>1
  <1> QED
    BY <1>2, BaseAlways, PTL DEF Spec, DisablingLasts

(* While every usable token of the user is of the current password, no      *)
(* request comes to issue one of an earlier password.                       *)
LEMMA OutdatedSource ==
  ASSUME Base, [Next]_vars, NEW g \in Handlers, NEW u \in Users, AllCurrent(u),
         Outdated(req'[g], u)
  PROVE  Outdated(req[g], u)
  <1> USE DEF Base, StoreTypeOK
  <1>1. ASSUME NEW h \in Handlers, Start(h) PROVE Outdated(req[g], u)
    <2>1. PICK r : Fresh(r) /\ Become(h, r)
      BY <1>1, StartFresh
    <2>2. ~Outdated(r, u)
      BY <2>1 DEF Fresh, Outdated, PastCheck
    <2>3. req'[h] = r /\ \A f \in Handlers \ {h} : req'[f] = req[f]
      BY <2>1 DEF Become
    <2> QED
      BY <2>2, <2>3
  <1>2. ASSUME NEW h \in Handlers, Done(h) PROVE Outdated(req[g], u)
    <2>1. req'[h].pc = "idle" /\ \A f \in Handlers \ {h} : req'[f] = req[f]
      BY <1>2, DoneType
    <2> QED
      BY <2>1 DEF Outdated, PastCheck
  <1>3. ASSUME NEW h \in Handlers, NEW pc \in Pc, Goto(h, pc),
               pc \notin PastCheck \/ req[h].pc \in PastCheck
        PROVE  Outdated(req[g], u)
    <2>1. /\ req'[h].pc = pc /\ req'[h].user = req[h].user
          /\ req'[h].password = req[h].password
          /\ \A f \in Handlers \ {h} : req'[f] = req[f]
      BY <1>3, GotoType
    <2> QED
      BY <1>3, <2>1 DEF Outdated
  <1>4. ASSUME NEW h \in Handlers, RefreshFind(h) PROVE Outdated(req[g], u)
    <2> DEFINE p == req[h].tok
               verdict == Verdict(rt[p], req[h].now)
    <2>1. CASE Done(h)
      BY <1>2, <2>1
    <2>2. CASE ~Done(h)
      <3>1. /\ verdict # "idle"
            /\ Become(h, [req[h] EXCEPT !.pc = verdict, !.user = rt[p].user,
                                        !.password = origin[p].password])
        BY <1>4, <2>2 DEF RefreshFind
      <3>2. /\ req'[h].pc = verdict /\ req'[h].user = rt[p].user
            /\ req'[h].password = origin[p].password
            /\ \A f \in Handlers \ {h} : req'[f] = req[f]
        BY <3>1 DEF Become, Request
      <3>3. p \in Stored(rt)
        BY <1>4 DEF RefreshFind, At, RequestsOK, Grounded
      <3>4. verdict \in PastCheck => Unspent(p)
        BY <3>3 DEF Verdict, PastCheck, Unspent
      <3>5. ~Outdated(req'[h], u)
        BY <3>2, <3>3, <3>4 DEF Outdated, AllCurrent, OfUser
      <3> QED
        BY <3>2, <3>5
    <2> QED
      BY <2>1, <2>2
  <1>5. ASSUME NEW h \in Handlers, Progress(h) PROVE Outdated(req[g], u)
    <2>1. CASE \/ Issue(h) \/ SignChallenge(h) \/ RefreshRevokeFamily(h)
               \/ LogoutRevoke(h) \/ RevokeAll(h) \/ Activate(h) \/ Enable(h)
      BY <2>1, <1>2 DEF Issue, SignChallenge, RefreshRevokeFamily, LogoutRevoke,
                        RevokeAll, Activate, Enable
    <2>2. CASE RefreshUser(h)
      <3>1. req[h].pc = "user" /\ (Goto(h, "consume") \/ Goto(h, "revokeFamily"))
        BY <2>2 DEF RefreshUser, At
      <3> QED
        BY <1>3, <3>1 DEF PastCheck, Pc
    <2>3. CASE RefreshConsume(h)
      <3>1. req[h].pc = "consume" /\ Goto(h, "issue")
        BY <2>3 DEF RefreshConsume, At
      <3> QED
        BY <1>3, <3>1 DEF PastCheck, Pc
    <2>4. CASE SetPassword(h) \/ ResetUpdate(h) \/ VerifyConsume(h) \/ Disable(h)
      <3>1. Goto(h, "revokeAll") \/ Goto(h, "activate")
        BY <2>4 DEF SetPassword, ResetUpdate, VerifyConsume, Disable
      <3> QED
        BY <1>3, <3>1 DEF PastCheck, Pc
    <2> QED
      BY <1>4, <1>5, <2>1, <2>2, <2>3, <2>4 DEF Progress
  <1>6. ASSUME NEW h \in Handlers, Abort(h) PROVE Outdated(req[g], u)
    BY <1>6, <1>2 DEF Abort
  <1>7. CASE Tick \/ UNCHANGED vars
    BY <1>7 DEF Tick, vars
  <1> QED
    BY <1>1, <1>5, <1>6, <1>7 DEF Next

(* Nor does a token of an earlier password become usable.                   *)
LEMMA CurrentStays ==
  ASSUME Base, [Next]_vars, NEW u \in Users, users'[u].password = users[u].password,
         NoneOutdated(u), AllCurrent(u)
  PROVE  AllCurrent(u)'
  <1> SUFFICES ASSUME NEW s \in OfUser(rt', u), Unspent(s)'
               PROVE  origin'[s].password = users[u].password
    BY DEF AllCurrent
  <1>1. CASE ~\E h \in Handlers : Issue(h)
    <2>1. UNCHANGED origin /\ Stored(rt') = Stored(rt) /\ Kept(rt, rt')
      BY <1>1, TableSteps
    <2>2. s \in OfUser(rt, u) /\ Unspent(s)
      BY <2>1 DEF OfUser, Kept, Unspent, Spent
    <2> QED
      BY <2>1, <2>2 DEF AllCurrent
  <1>2. ASSUME NEW h \in Handlers, Issue(h)
        PROVE  origin'[s].password = users[u].password
    <2>1. PICK t : Inserted(h, t)
      BY <1>2, IssueRow
    <2>2. CASE s = t
      <3>1. req[h].user = u /\ origin'[t].password = req[h].password
        BY <2>1, <2>2 DEF Inserted, OfUser
      <3>2. req[h].pc = "issue"
        BY <1>2, IssueRow
      <3> QED
        BY <2>2, <3>1, <3>2 DEF NoneOutdated, Outdated, PastCheck
    <2>3. CASE s # t
      <3>1. s \in Stored(rt) /\ rt'[s] = rt[s] /\ origin'[s] = origin[s]
        BY <2>1, <2>3 DEF Inserted, OfUser, Stored
      <3> QED
        BY <3>1 DEF AllCurrent, OfUser, Unspent
    <2> QED
      BY <2>2, <2>3
  <1> QED
    BY <1>1, <1>2

THEOREM LastingPasswordChange == Spec => PasswordChangeLasts
  <1> DEFINE Lasts(u) ==
        /\ users'[u].password = users[u].password
        /\ NoneOutdated(u)
        /\ AllCurrent(u) \/ RevokesAll(u)
        => NoneOutdated(u)' /\ AllCurrent(u)'
  <1>1. ASSUME Base, [Next]_vars, NEW u \in Users PROVE Lasts(u)
    <2> SUFFICES ASSUME users'[u].password = users[u].password, NoneOutdated(u),
                        AllCurrent(u) \/ RevokesAll(u)
                 PROVE  NoneOutdated(u)' /\ AllCurrent(u)'
      OBVIOUS
    <2>1. CASE AllCurrent(u)
      <3>1. AllCurrent(u)'
        BY <1>1, <2>1, CurrentStays
      <3>2. \A h \in Handlers : ~Outdated(req'[h], u)
        BY <1>1, <2>1, OutdatedSource DEF NoneOutdated
      <3> QED
        BY <3>1, <3>2 DEF NoneOutdated, Outdated
    <2>2. CASE RevokesAll(u)
      <3>1. PICK h \in Handlers : RevokeAll(h) /\ req[h].user = u
        BY <2>2 DEF RevokesAll
      <3>2. /\ NoneUsable(u)' /\ req'[h].pc = "idle"
            /\ \A g \in Handlers \ {h} : req'[g] = req[g]
        BY <1>1, <3>1, RevokesThem
      <3>3. AllCurrent(u)'
        BY <3>2 DEF AllCurrent, NoneUsable
      <3>4. NoneOutdated(u)'
        BY <3>2 DEF NoneOutdated, Outdated, PastCheck
      <3> QED
        BY <3>3, <3>4
    <2> QED
      BY <2>1, <2>2
  <1>2. Base /\ [Next]_vars => [\A u \in Users : Lasts(u)]_vars
    BY <1>1
  <1> QED
    BY <1>2, BaseAlways, PTL DEF Spec, PasswordChangeLasts

-----------------------------------------------------------------------------
(* One request at a time, dying anywhere: one usable token per session.    *)

(* A refresh past its check holds the session's usable token, and once it   *)
(* has consumed it the session has none.                                    *)
Rotating(r) ==
  /\ r.pc \in {"user", "consume"} => ~Spent(rt[r.tok])
  /\ r.pc = "issue" /\ r.tok # None =>
       \A s \in Stored(rt) : rt[s].family = rt[r.tok].family => Spent(rt[s])

Rotated == OneCurrentToken /\ \A h \in Handlers : Rotating(req[h])

LEMMA CurrentKept ==
  ASSUME OneCurrentToken, Stored(rt') = Stored(rt), Kept(rt, rt')
  PROVE  OneCurrentToken'
  BY DEF OneCurrentToken, Unspent, Kept, Spent

LEMMA RotatedIssue ==
  ASSUME Base, Rotated, NEW h, Handlers = {h}, Issue(h)
  PROVE  Rotated'
  <1>1. PICK t : Inserted(h, t)
    BY IssueRow
  <1>2. req[h].pc = "issue" /\ req'[h].pc = "idle" /\ Kept(rt, rt')
    BY IssueRow, IssueBase, DoneType DEF Base
  <1>3. ASSUME NEW s \in Stored(rt), rt[s].family = FamilyFor(h, t)
        PROVE  Spent(rt[s])
    <2>1. CASE req[h].tok = None
      BY <1>1, <1>3, <2>1 DEF FamilyFor, Inserted, Base, RowsOK
    <2>2. CASE req[h].tok # None
      BY <1>2, <1>3, <2>2 DEF FamilyFor, Rotated, Rotating
    <2> QED
      BY <2>1, <2>2
  <1>4. ASSUME NEW s \in Stored(rt'), s # t
        PROVE  s \in Stored(rt) /\ rt'[s] = rt[s]
    BY <1>1, <1>4 DEF Inserted, Stored
  <1>5. ASSUME NEW s \in Stored(rt'), s # t, rt'[s].family = rt'[t].family
        PROVE  Spent(rt'[s])
    BY <1>1, <1>3, <1>4, <1>5 DEF Inserted
  <1>6. OneCurrentToken'
    <2> SUFFICES ASSUME NEW a \in Stored(rt'), NEW b \in Stored(rt'),
                        ~Spent(rt'[a]), ~Spent(rt'[b]),
                        rt'[a].family = rt'[b].family
                 PROVE  a = b
      BY DEF OneCurrentToken, Unspent
    <2>1. CASE a = t \/ b = t
      BY <1>5, <2>1
    <2>2. CASE a # t /\ b # t
      BY <1>4, <2>2 DEF Rotated, OneCurrentToken, Unspent
    <2> QED
      BY <2>1, <2>2
  <1> QED
    BY <1>2, <1>6 DEF Rotated, Rotating

LEMMA RotatedRefresh ==
  ASSUME Base, Rotated, NEW h, Handlers = {h}, Next,
         RefreshFind(h) \/ RefreshUser(h) \/ RefreshConsume(h)
  PROVE  Rotated'
  <1> DEFINE p == req[h].tok
  <1> USE DEF Base, StoreTypeOK
  <1>1. ~\E g \in Handlers : Issue(g)
    BY DEF RefreshFind, RefreshUser, RefreshConsume, Issue, At
  <1>2. Stored(rt') = Stored(rt) /\ Kept(rt, rt')
    BY <1>1, TableSteps
  <1>3. OneCurrentToken'
    BY <1>2, CurrentKept DEF Rotated
  <1>4. p \in Stored(rt) /\ p \in Tokens
    BY DEF RefreshFind, RefreshUser, RefreshConsume, At, RequestsOK, Grounded, Stored
  <1>5. Rotating(req[h])
    BY DEF Rotated
  <1>6. Rotating(req[h])'
    <2>1. CASE RefreshFind(h)
      <3> DEFINE verdict == Verdict(rt[p], req[h].now)
      <3>1. CASE verdict = "idle"
        <4>1. req'[h].pc = "idle"
          BY <2>1, <3>1, DoneType DEF RefreshFind
        <4> QED
          BY <4>1 DEF Rotating
      <3>2. CASE verdict # "idle"
        <4>1. req' = [req EXCEPT ![h] = [req[h] EXCEPT !.pc = verdict, !.user = rt[p].user,
                                                       !.password = origin[p].password]]
          BY <2>1, <3>2 DEF RefreshFind, Become
        <4>2. req'[h].pc = verdict /\ req'[h].tok = p /\ rt' = rt
          BY <2>1, <4>1 DEF Request, RefreshFind
        <4> QED
          BY <4>2 DEF Rotating, Verdict
      <3> QED
        BY <3>1, <3>2
    <2>2. CASE RefreshUser(h)
      <3>1. PICK pc \in {"consume", "revokeFamily"} : Goto(h, pc)
        BY <2>2 DEF RefreshUser
      <3>2. pc \in Pc /\ rt' = rt /\ req[h].pc = "user"
        BY <2>2 DEF Pc, RefreshUser, At
      <3>3. req'[h].pc = pc /\ req'[h].tok = p
        BY <3>1, <3>2, GotoType
      <3> QED
        BY <1>5, <3>2, <3>3 DEF Rotating
    <2>3. CASE RefreshConsume(h)
      <3>1. Goto(h, "issue") /\ "issue" \in Pc /\ req[h].pc = "consume"
            /\ rt' = MarkConsumed(rt, p)
        BY <2>3 DEF RefreshConsume, At, Pc
      <3>2. req'[h].pc = "issue" /\ req'[h].tok = p
        BY <3>1, GotoType
      <3>3. ASSUME NEW s \in Stored(rt'), rt'[s].family = rt'[p].family
            PROVE  Spent(rt'[s])
        <4>1. s \in Stored(rt) /\ rt[s].family = rt[p].family
          BY <1>2, <1>4, <3>3 DEF Kept
        <4>2. s = p \/ Spent(rt[s])
          BY <1>4, <1>5, <3>1, <4>1 DEF Rotated, OneCurrentToken, Unspent, Rotating
        <4>3. rt'[p].consumed
          BY <1>4, <3>1, MarkConsumedType
        <4> QED
          BY <1>2, <4>1, <4>2, <4>3 DEF Kept, Spent
      <3> QED
        BY <3>2, <3>3 DEF Rotating
    <2> QED
      BY <2>1, <2>2, <2>3
  <1> QED
    BY <1>3, <1>6 DEF Rotated

(* Every other step leaves its worker outside refresh.                     *)
LEMMA LeavesRefresh ==
  ASSUME Base, NEW h \in Handlers,
         \/ Abort(h)
         \/ /\ Progress(h) /\ ~Issue(h)
            /\ ~RefreshFind(h) /\ ~RefreshUser(h) /\ ~RefreshConsume(h)
  PROVE  req'[h].pc \in {"idle", "revokeAll", "activate"}
  <1>1. CASE \/ Abort(h) \/ SignChallenge(h) \/ RefreshRevokeFamily(h)
             \/ LogoutRevoke(h) \/ RevokeAll(h) \/ Activate(h) \/ Enable(h)
    BY <1>1, DoneType DEF Base, Abort, SignChallenge, RefreshRevokeFamily,
                          LogoutRevoke, RevokeAll, Activate, Enable
  <1>2. CASE SetPassword(h) \/ ResetUpdate(h) \/ VerifyConsume(h) \/ Disable(h)
    <2>1. PICK pc \in {"revokeAll", "activate"} : Goto(h, pc)
      BY <1>2 DEF SetPassword, ResetUpdate, VerifyConsume, Disable
    <2>2. pc \in Pc
      BY DEF Pc
    <2> QED
      BY <2>1, <2>2, GotoType DEF Base
  <1> QED
    BY <1>1, <1>2 DEF Progress

LEMMA RotatedNext ==
  ASSUME NEW h, Handlers = {h}
  PROVE  Base /\ Rotated /\ [Next]_vars => Rotated'
  <1> SUFFICES ASSUME Base, Rotated, [Next]_vars PROVE Rotated'
    OBVIOUS
  <1>1. CASE Start(h)
    <2>1. UNCHANGED rt
      BY <1>1, StartStores
    <2>2. PICK r : Fresh(r) /\ req' = [req EXCEPT ![h] = r]
      BY <1>1, StartFresh DEF Become
    <2>3. req'[h] = r
      BY <2>2 DEF Base, StoreTypeOK
    <2>4. Rotating(req[h])'
      BY <2>2, <2>3 DEF Fresh, Rotating
    <2> QED
      BY <2>1, <2>4 DEF Rotated, OneCurrentToken, Unspent, Stored
  <1>2. CASE Issue(h)
    BY <1>2, RotatedIssue
  <1>3. CASE Next /\ (RefreshFind(h) \/ RefreshUser(h) \/ RefreshConsume(h))
    BY <1>3, RotatedRefresh
  <1>4. CASE /\ Next /\ ~Issue(h)
             /\ \/ Abort(h)
                \/ /\ Progress(h)
                   /\ ~RefreshFind(h) /\ ~RefreshUser(h) /\ ~RefreshConsume(h)
    <2>1. req'[h].pc \in {"idle", "revokeAll", "activate"}
      BY <1>4, LeavesRefresh
    <2>2. Stored(rt') = Stored(rt) /\ Kept(rt, rt')
      BY <1>4, TableSteps
    <2>3. OneCurrentToken'
      BY <2>2, CurrentKept DEF Rotated
    <2> QED
      BY <2>1, <2>3 DEF Rotated, Rotating
  <1>5. CASE Tick \/ UNCHANGED vars
    BY <1>5 DEF Tick, vars, Rotated, Rotating, OneCurrentToken, Unspent, Stored
  <1> QED
    BY <1>1, <1>2, <1>3, <1>4, <1>5 DEF Next, Abort, Issue, At

LEMMA RotatedAlways ==
  ASSUME NEW h, Handlers = {h}
  PROVE  Spec => []Rotated
  <1>1. Init => Rotated
    BY DEF Init, Rotated, Rotating, OneCurrentToken, Stored, NoRow, Idle
  <1>2. Base /\ Rotated /\ [Next]_vars => Rotated'
    BY RotatedNext
  <1> QED
    BY <1>1, <1>2, BaseAlways, PTL DEF Spec

(* One request at a time, dying anywhere: a session has at most one usable  *)
(* token (refresh).                                                         *)
THEOREM SequentialRotation ==
  ASSUME NEW h, Handlers = {h}
  PROVE  Spec => []OneCurrentToken
  <1>1. Rotated => OneCurrentToken
    BY DEF Rotated
  <1> QED
    BY <1>1, RotatedAlways, PTL

(* With one worker nothing else of a session is ever under way when it ends, *)
(* and its current token is its only one.                                   *)
LEMMA EndingsQuiet ==
  ASSUME NEW h, Handlers = {h}
  PROVE  Spec => [](\A e \in ended : e.quiet)
  <1> DEFINE Quiet == \A e \in ended : e.quiet
  <1>1. Init => Quiet
    BY DEF Init
  <1>2. Base /\ Rotated /\ Quiet /\ [Next]_vars => Quiet'
    <2> SUFFICES ASSUME Base, Rotated, Quiet, [Next]_vars,
                        NEW e \in ended', e \notin ended
                 PROVE  e.quiet
      OBVIOUS
    <2> DEFINE p == req[h].tok
               f == rt[p].family
               alone == \A s \in OfFamily(rt, f) \ {p} : Spent(rt[s])
    <2>1. RefreshRevokeFamily(h) \/ LogoutRevoke(h)
      BY EndedSteps
    <2>2. ~Redeeming(f)
      BY <2>1 DEF Redeeming, RefreshRevokeFamily, LogoutRevoke, At
    <2>3. CASE RefreshRevokeFamily(h)
      <3>1. e = [family |-> f, cause |-> "reuse", quiet |-> ~Redeeming(f)]
        BY <2>3 DEF RefreshRevokeFamily
      <3>2. e.quiet = (~Redeeming(f))
        BY <3>1
      <3> QED
        BY <2>2, <3>2
    <2>4. CASE LogoutRevoke(h)
      <3>1. /\ Unspent(p)
            /\ e = [family |-> f, cause |-> "logout", quiet |-> alone /\ ~Redeeming(f)]
        BY <2>4 DEF LogoutRevoke
      <3>2. alone
        BY <3>1 DEF Rotated, OneCurrentToken, OfFamily, Unspent
      <3> HIDE DEF alone
      <3>3. e.quiet = (alone /\ ~Redeeming(f))
        BY <3>1
      <3> QED
        BY <2>2, <3>2, <3>3
    <2> QED
      BY <2>1, <2>3, <2>4
  <1> QED
    BY <1>1, <1>2, BaseAlways, RotatedAlways, PTL DEF Spec

(* One request at a time, dying anywhere: a session whose token was reused  *)
(* has no usable token (refresh).                                           *)
THEOREM SequentialReuse ==
  ASSUME NEW h, Handlers = {h}
  PROVE  Spec => []ReuseEndsFamily
  <1>1. QuietEndingsLast /\ (\A e \in ended : e.quiet) => ReuseEndsFamily
    BY DEF QuietEndingsLast, ReuseEndsFamily, EndingsLast
  <1> QED
    BY <1>1, QuietEndings, EndingsQuiet, PTL

(* One request at a time, dying anywhere: a session whose current token was *)
(* logged out has no usable token (logout).                                 *)
THEOREM SequentialLogout ==
  ASSUME NEW h, Handlers = {h}
  PROVE  Spec => []LogoutEndsSession
  <1>1. QuietEndingsLast /\ (\A e \in ended : e.quiet) => LogoutEndsSession
    BY DEF QuietEndingsLast, LogoutEndsSession, EndingsLast
  <1> QED
    BY <1>1, QuietEndings, EndingsQuiet, PTL

-----------------------------------------------------------------------------
(* One request at a time, dying anywhere: challenges of an old password.   *)

(* A password is stored after every challenge that was signed for an older  *)
(* one, and a login in progress has the account's password.                 *)
Dated ==
  /\ \A u \in Users : users[u].passwordAt <= clock
  /\ \A c \in challenges :
       /\ c \in Challenge /\ c.at <= clock
       /\ c.password # users[c.user].password => c.at <= users[c.user].passwordAt
  /\ \A h \in Handlers :
       At(h, "challenge") => req[h].password = users[req[h].user].password

(* A step that replaces no password, or replaces one now.                  *)
Redated(u) ==
  \/ /\ users'[u].password = users[u].password
     /\ users'[u].passwordAt = users[u].passwordAt
  \/ users'[u].passwordAt = clock

LEMMA DatedKept ==
  ASSUME StoreTypeOK, Dated, NEW h, Handlers = {h}, UNCHANGED challenges,
         clock' \in Nat, clock <= clock',
         \A u \in Users : Redated(u) /\ users'[u] \in UserRow,
         req'[h].pc = "challenge" =>
           req'[h].user \in Users /\ req'[h].password = users'[req'[h].user].password
  PROVE  Dated'
  <1> USE DEF StoreTypeOK
  <1>1. ASSUME NEW u \in Users PROVE users'[u].passwordAt <= clock'
    BY DEF Dated, Redated, UserRow
  <1>2. ASSUME NEW c \in challenges
        PROVE  /\ c \in Challenge /\ c.at <= clock'
               /\ c.password # users'[c.user].password => c.at <= users'[c.user].passwordAt
    <2>1. c.at \in Nat /\ c.user \in Users /\ c.at <= clock /\ c \in Challenge
      BY DEF Dated, Challenge
    <2> QED
      BY <2>1, <1>2 DEF Dated, Redated
  <1> QED
    BY <1>1, <1>2 DEF Dated, At

LEMMA AccountRedated ==
  ASSUME Base, NEW h \in Handlers,
         \/ SetPassword(h) \/ ResetUpdate(h) \/ VerifyConsume(h) \/ Activate(h)
         \/ Disable(h) \/ Enable(h)
  PROVE  \A u \in Users : Redated(u)
  <1> DEFINE u0 == req[h].user
  <1> USE DEF Base, StoreTypeOK
  <1>1. u0 \in Users /\ users[u0] \in UserRow /\ clock \in Nat
    BY DEF SetPassword, ResetUpdate, VerifyConsume, Activate, Disable, Enable, At,
           RequestsOK, Grounded
  <1>2. \A u \in Users \ {u0} : users'[u] = users[u]
    BY DEF SetPassword, ResetUpdate, VerifyConsume, Activate, Disable, Enable
  <1>3. Redated(u0)
    <2>1. CASE SetPassword(h)
      <3>1. users'[u0] = NewPassword(users[u0])
        BY <1>1, <2>1 DEF SetPassword
      <3> QED
        BY <1>1, <3>1, NewPasswordType DEF Redated
    <2>2. CASE ResetUpdate(h)
      <3> DEFINE row == NewPassword(users[u0])
      <3>1. users'[u0] = [row EXCEPT !.status = "active", !.verified = TRUE]
        BY <1>1, <2>2 DEF ResetUpdate
      <3>2. row \in UserRow /\ row.passwordAt = clock
        BY <1>1, NewPasswordType
      <3> HIDE DEF row
      <3> QED
        BY <3>1, <3>2 DEF Redated, UserRow
    <2>3. CASE VerifyConsume(h)
      BY <1>1, <2>3 DEF VerifyConsume, Redated, UserRow
    <2>4. CASE Activate(h)
      <3>1. users' = [users EXCEPT ![u0] = [users[u0] EXCEPT !.status = "active",
                                                             !.verified = TRUE]]
        BY <1>1, <2>4 DEF Activate
      <3> QED
        BY <1>1, <3>1 DEF Redated, UserRow
    <2>5. CASE Disable(h)
      BY <1>1, <2>5 DEF Disable, Redated, UserRow
    <2>6. CASE Enable(h)
      BY <1>1, <2>6 DEF Enable, Redated, UserRow
    <2> QED
      BY <2>1, <2>2, <2>3, <2>4, <2>5, <2>6
  <1> QED
    BY <1>2, <1>3 DEF Redated

LEMMA DatedSign ==
  ASSUME Base, Dated, NEW h, Handlers = {h}, SignChallenge(h)
  PROVE  Dated'
  <1> DEFINE c0 == [user |-> req[h].user, at |-> clock, password |-> req[h].password]
  <1>1. /\ req[h].user \in Users /\ req[h] \in Request /\ clock \in Nat
        /\ req[h].password = users[req[h].user].password
    BY DEF SignChallenge, At, Base, StoreTypeOK, RequestsOK, Grounded, Dated
  <1>2. c0 \in Challenge
    BY <1>1 DEF Challenge, Request
  <1>3. challenges' = challenges \cup {c0} /\ UNCHANGED <<users, clock>>
        /\ req'[h].pc = "idle"
    BY DoneType DEF SignChallenge, Base
  <1>4. c0.at <= clock /\ c0.password = users[c0.user].password
    BY <1>1
  <1> HIDE DEF c0
  <1> QED
    BY <1>2, <1>3, <1>4 DEF Dated, At

LEMMA DatedNext ==
  ASSUME NEW h, Handlers = {h}
  PROVE  Base /\ Dated /\ [Next]_vars => Dated'
  <1> SUFFICES ASSUME Base, Dated, [Next]_vars PROVE Dated'
    OBVIOUS
  <1> USE DEF Base, StoreTypeOK
  <1>1. Base'
    BY NextBase
  <1>2. \A u \in Users : users'[u] \in UserRow
    BY <1>1
  <1>3. CASE Start(h)
    <2>1. UNCHANGED <<users, challenges, clock>>
      BY <1>3, StartStores
    <2>2. PICK r : Fresh(r) /\ req' = [req EXCEPT ![h] = r]
      BY <1>3, StartFresh DEF Become
    <2>3. req'[h] = r
      BY <2>2
    <2>4. req'[h].pc = "challenge" =>
            req'[h].user \in Users /\ req'[h].password = users'[req'[h].user].password
      BY <2>1, <2>2, <2>3 DEF Fresh
    <2>5. \A u \in Users : Redated(u)
      BY <2>1 DEF Redated
    <2> QED
      BY <1>2, <2>1, <2>4, <2>5, DatedKept
  <1>4. CASE SignChallenge(h)
    BY <1>4, DatedSign
  <1>5. CASE Tick \/ UNCHANGED vars
    <2>1. UNCHANGED <<users, challenges, req>> /\ clock' \in Nat /\ clock <= clock'
      BY <1>5 DEF Tick, vars
    <2>2. req'[h].pc = "challenge" =>
            req'[h].user \in Users /\ req'[h].password = users'[req'[h].user].password
      BY <2>1 DEF RequestsOK, Grounded, Dated, At
    <2> QED
      BY <1>2, <2>1, <2>2, DatedKept DEF Redated
  <1>6. CASE ~SignChallenge(h) /\ (Progress(h) \/ Abort(h))
    <2>1. UNCHANGED <<challenges, clock>>
      BY <1>6 DEF Progress, Abort, Issue, RefreshFind, RefreshUser, RefreshConsume,
                  RefreshRevokeFamily, LogoutRevoke, SetPassword, ResetUpdate, RevokeAll,
                  VerifyConsume, Activate, Disable, Enable
    <2>2. \A u \in Users : Redated(u)
      <3>1. CASE \/ SetPassword(h) \/ ResetUpdate(h) \/ VerifyConsume(h) \/ Activate(h)
                 \/ Disable(h) \/ Enable(h)
        BY <3>1, AccountRedated
      <3>2. CASE UNCHANGED users
        BY <3>2 DEF Redated
      <3> QED
        BY <1>6, <3>1, <3>2 DEF Progress, Abort, Issue, RefreshFind, RefreshUser,
                  RefreshConsume, RefreshRevokeFamily, LogoutRevoke, RevokeAll
    <2>3. req'[h].pc # "challenge"
      <3>1. CASE Issue(h)
        BY <3>1, IssueRow, DoneType
      <3>2. CASE RefreshFind(h)
        <4>1. CASE Done(h)
          BY <4>1, DoneType
        <4>2. CASE ~Done(h)
          <5> DEFINE t == req[h].tok
                     verdict == Verdict(rt[t], req[h].now)
          <5>1. req' = [req EXCEPT ![h] = [req[h] EXCEPT !.pc = verdict,
                          !.user = rt[t].user, !.password = origin[t].password]]
            BY <3>2, <4>2 DEF RefreshFind, Become
          <5>2. req'[h].pc = verdict
            BY <5>1 DEF Request
          <5> QED
            BY <5>2 DEF Verdict
        <4> QED
          BY <4>1, <4>2
      <3>3. CASE RefreshUser(h) \/ RefreshConsume(h)
        <4>1. PICK pc \in {"consume", "revokeFamily", "issue"} : Goto(h, pc)
          BY <3>3 DEF RefreshUser, RefreshConsume
        <4>2. pc \in Pc
          BY DEF Pc
        <4> QED
          BY <4>1, <4>2, GotoType
      <3> QED
        BY <1>6, <3>1, <3>2, <3>3, LeavesRefresh
    <2> QED
      BY <1>2, <2>1, <2>2, <2>3, DatedKept
  <1> QED
    BY <1>3, <1>4, <1>5, <1>6 DEF Next

(* One request at a time, dying anywhere: an MFA token signed for an earlier *)
(* password is good no longer than its lifetime after that password was     *)
(* replaced (login, completeMfaLogin, changePassword, resetPassword).       *)
THEOREM SequentialChallenges ==
  ASSUME NEW h, Handlers = {h}
  PROVE  Spec => []ChallengesOutdated
  <1>1. Init => Dated
    <2> SUFFICES ASSUME Init PROVE Dated
      OBVIOUS
    <2>1. Registered.passwordAt = 0 /\ Verified.passwordAt = 0
      BY DEF Registered, Verified
    <2>2. \A u \in Users : users[u].passwordAt = 0
      BY <2>1 DEF Init
    <2>3. challenges = {} /\ clock = 0 /\ \A g \in Handlers : req[g].pc = "idle"
      BY DEF Init, Idle
    <2> QED
      BY <2>2, <2>3 DEF Dated, At
  <1>2. Base /\ Dated /\ [Next]_vars => Dated'
    BY DatedNext
  <1>3. Base /\ Dated => ChallengesOutdated
    <2> SUFFICES ASSUME Base, Dated, NEW c \in challenges, Live(c),
                        c.password # users[c.user].password
                 PROVE  clock < users[c.user].passwordAt + ChallengeTtl
      BY DEF ChallengesOutdated
    <2>1. c.at \in Nat /\ c.user \in Users /\ c.at <= users[c.user].passwordAt
      BY DEF Dated, Challenge
    <2>2. users[c.user].passwordAt \in Nat /\ clock \in Nat /\ ChallengeTtl \in Nat
      BY <2>1, TtlAssumption DEF Base, StoreTypeOK, UserRow
    <2> QED
      BY <2>1, <2>2 DEF Live
  <1> QED
    BY <1>1, <1>2, <1>3, BaseAlways, PTL DEF Spec

-----------------------------------------------------------------------------
(* What a request has come to revoke.                                      *)

(* The request of h is to revoke t: it revokes all of a user's tokens, or   *)
(* found a spent token of the family of t, or holds one it has yet to find. *)
DueBy(h, t) ==
  \/ At(h, "revokeAll") /\ t \in OfUser(rt, req[h].user)
  \/ At(h, "revokeFamily") /\ t \in OfFamily(rt, rt[req[h].tok].family)
  \/ /\ At(h, "find") /\ Spent(rt[req[h].tok])
     /\ t \in OfFamily(rt, rt[req[h].tok].family)

(* A revocation that is due stays due, with the same request, until that    *)
(* request has made it, and is then never undone (changePassword,           *)
(* resetPassword, setUserEnabled, refresh).                                 *)
RevocationsStayDue ==
  [][\A t \in Tokens :
       /\ \A h \in Handlers : DueBy(h, t) => DueBy(h, t)' \/ rt'[t].revoked
       /\ t \in Stored(rt) /\ rt[t].revoked => rt'[t].revoked]_vars

(* A step is of one worker, or touches no request.                         *)
LEMMA OneMoves ==
  ASSUME Base, [Next]_vars
  PROVE  \/ UNCHANGED req
         \/ \E h \in Handlers : /\ Start(h) \/ Progress(h) \/ Abort(h)
                                /\ \A g \in Handlers \ {h} : req'[g] = req[g]
  <1>1. ASSUME NEW h \in Handlers,
               \/ Done(h)
               \/ \E pc : Goto(h, pc)
               \/ \E r : Become(h, r)
        PROVE  \A g \in Handlers \ {h} : req'[g] = req[g]
    BY <1>1 DEF Done, Goto, Become, Base, StoreTypeOK
  <1>2. ASSUME NEW h \in Handlers, Start(h) PROVE \E r : Become(h, r)
    BY <1>2, StartFresh DEF Base
  <1>3. ASSUME NEW h \in Handlers, Progress(h) \/ Abort(h)
        PROVE  \/ Done(h)
               \/ \E pc : Goto(h, pc)
               \/ \E r : Become(h, r)
    <2>1. CASE RefreshFind(h)
      BY <2>1 DEF RefreshFind
    <2>2. CASE ~RefreshFind(h)
      BY <1>3, <2>2 DEF Progress, Abort, Issue, SignChallenge, RefreshUser, RefreshConsume,
         RefreshRevokeFamily, LogoutRevoke, SetPassword, ResetUpdate, RevokeAll,
         VerifyConsume, Activate, Disable, Enable
    <2> QED
      BY <2>1, <2>2
  <1> QED
    BY <1>1, <1>2, <1>3 DEF Next, Tick, vars

(* What the other workers do leaves a revocation due.                       *)
LEMMA DueKept ==
  ASSUME Base, [Next]_vars, NEW h \in Handlers, NEW t \in Tokens, DueBy(h, t),
         req'[h] = req[h]
  PROVE  DueBy(h, t)'
  <1>1. Kept(rt, rt')
    BY RowsKept
  <1>2. CASE At(h, "revokeAll")
    BY <1>1, <1>2 DEF DueBy, At, OfUser, Kept, Stored
  <1>3. CASE At(h, "revokeFamily") \/ At(h, "find")
    <2>1. req[h].tok \in Stored(rt)
      BY <1>3 DEF Base, RequestsOK, Grounded, At
    <2> DEFINE s == req[h].tok
    <2>2. rt'[s].family = rt[s].family /\ (Spent(rt[s]) => Spent(rt'[s]))
      BY <1>1, <2>1 DEF Kept, Spent
    <2>3. t \in OfFamily(rt, rt[s].family) => t \in OfFamily(rt', rt[s].family)
      BY <1>1 DEF Kept, OfFamily, Stored
    <2> QED
      BY <1>3, <2>2, <2>3 DEF DueBy, At
  <1> QED
    BY <1>2, <1>3 DEF DueBy

(* The request itself does nothing but make it.                             *)
LEMMA DueMade ==
  ASSUME Base, NEW h \in Handlers, NEW t \in Tokens, DueBy(h, t),
         Start(h) \/ Progress(h) \/ Abort(h),
         Fragile \cap {"revokeAll", "find", "revokeFamily"} = {}
  PROVE  DueBy(h, t)' \/ rt'[t].revoked
  <1>1. req[h].pc \in {"revokeAll", "revokeFamily", "find"}
    BY DEF DueBy, At
  <1>2. ~Abort(h) /\ ~Start(h)
    BY <1>1 DEF Abort, Start, LoginFind, CompleteFind, RefreshStart, LogoutFind, ChangeFind,
                ResetFind, VerifyFind, SetEnabledFind, Accept
  <1>3. RevokeAll(h) \/ RefreshRevokeFamily(h) \/ RefreshFind(h)
    BY <1>1, <1>2 DEF Progress, Issue, SignChallenge, RefreshUser, RefreshConsume,
       LogoutRevoke, SetPassword, ResetUpdate, VerifyConsume, Activate, Disable, Enable, At
  <1>4. rt \in [Tokens -> Row]
    BY DEF Base, StoreTypeOK
  <1>5. CASE RevokeAll(h)
    <2>1. t \in OfUser(rt, req[h].user) /\ rt' = RevokeWhere(rt, OfUser(rt, req[h].user))
      BY <1>5 DEF RevokeAll, RevokeAllForUser, DueBy, At
    <2> QED
      BY <1>4, <2>1, RevokeWhereType
  <1>6. CASE RefreshRevokeFamily(h)
    <2> DEFINE fam == OfFamily(rt, rt[req[h].tok].family)
    <2>1. t \in fam /\ rt' = RevokeWhere(rt, fam)
      BY <1>6 DEF RefreshRevokeFamily, RevokeFamily, DueBy, At
    <2> QED
      BY <1>4, <2>1, RevokeWhereType
  <1>7. CASE RefreshFind(h)
    <2> DEFINE s == req[h].tok
               r == [req[h] EXCEPT !.pc = "revokeFamily", !.user = rt[s].user,
                                   !.password = origin[s].password]
    <2>1. Spent(rt[s]) /\ t \in OfFamily(rt, rt[s].family)
      BY <1>7 DEF RefreshFind, DueBy, At
    <2>2. Become(h, r) /\ UNCHANGED rt
      BY <1>7, <2>1 DEF RefreshFind, Verdict
    <2>3. req'[h].pc = "revokeFamily" /\ req'[h].tok = s
      BY <2>2 DEF Become, Base, StoreTypeOK, Request
    <2> QED
      BY <2>1, <2>2, <2>3 DEF DueBy, At
  <1> QED
    BY <1>3, <1>5, <1>6, <1>7

(* Unless a request may die just there, whatever other requests do, a token *)
(* that is due to be revoked stays due until it is (changePassword,         *)
(* resetPassword, setUserEnabled, refresh): the safety that RevocationReaches *)
(* needs besides fairness.                                                  *)
THEOREM DueRevocations ==
  ASSUME Fragile \cap {"revokeAll", "find", "revokeFamily"} = {}
  PROVE  Spec => RevocationsStayDue
  <1> DEFINE Stays(t) ==
        /\ \A h \in Handlers : DueBy(h, t) => DueBy(h, t)' \/ rt'[t].revoked
        /\ t \in Stored(rt) /\ rt[t].revoked => rt'[t].revoked
  <1>1. ASSUME Base, [Next]_vars, NEW t \in Tokens PROVE Stays(t)
    <2>1. ASSUME NEW h \in Handlers, DueBy(h, t) PROVE DueBy(h, t)' \/ rt'[t].revoked
      <3>1. CASE req'[h] = req[h]
        BY <1>1, <2>1, <3>1, DueKept
      <3>2. CASE req'[h] # req[h]
        <4>1. Start(h) \/ Progress(h) \/ Abort(h)
          BY <1>1, <3>2, OneMoves
        <4> QED
          BY <1>1, <2>1, <4>1, DueMade
      <3> QED
        BY <3>1, <3>2
    <2>2. t \in Stored(rt) /\ rt[t].revoked => rt'[t].revoked
      BY <1>1, RowsKept DEF Kept
    <2> QED
      BY <2>1, <2>2
  <1>2. Base /\ [Next]_vars => [\A t \in Tokens : Stays(t)]_vars
    BY <1>1
  <1> QED
    BY <1>2, BaseAlways, PTL DEF Spec, RevocationsStayDue

-----------------------------------------------------------------------------
(* Sessions implements SessionLedger: the table of refresh tokens changes   *)
(* as the ledger allows, in every interleaving and wherever requests die.   *)

LEMMA TokenStates ==
  ASSUME NEW t \in Tokens
  PROVE  /\ TokenState(t) = "absent" <=> t \notin Stored(rt)
         /\ TokenState(t) = "spent" <=> t \in Stored(rt) /\ Spent(rt[t])
         /\ TokenState(t) = "usable" <=> t \in Stored(rt) /\ ~Spent(rt[t])
  BY DEF TokenState, Stored

LEMMA TokenStatesNext ==
  ASSUME NEW t \in Tokens
  PROVE  /\ TokenState(t)' = "absent" <=> t \notin Stored(rt')
         /\ TokenState(t)' = "spent" <=> t \in Stored(rt') /\ Spent(rt'[t])
         /\ TokenState(t)' = "usable" <=> t \in Stored(rt') /\ ~Spent(rt'[t])
  BY DEF TokenState, Stored

LEMMA InitLedger == Init => Ledger!Init
  <1> SUFFICES ASSUME Init PROVE Ledger!Init
    OBVIOUS
  <1>1. \A t \in Tokens : TokenState(t) = "absent"
    BY DEF Init, NoRow, TokenState
  <1>2. \A t \in Tokens : rt[t].family = None
    BY DEF Init, NoRow
  <1>3. \A t \in Tokens : origin[t].parent = None /\ origin[t].by = None
    BY DEF Init
  <1>4. {e.family : e \in {x \in ended : x.quiet}} = {}
    BY DEF Init
  <1> QED
    BY <1>1, <1>2, <1>3, <1>4 DEF Ledger!Init

(* The steps that insert no row retire tokens and close families, or do     *)
(* nothing the ledger sees.                                                 *)
LEMMA RetireStep ==
  ASSUME Base, QuietOK, [Next]_vars, ~\E h \in Handlers : Issue(h)
  PROVE  Ledger!Retire
  <1>1. /\ UNCHANGED origin /\ Stored(rt') = Stored(rt) /\ Kept(rt, rt')
        /\ \A s \in Tokens : rt'[s].family = rt[s].family
    BY TableSteps
  <1>2. ASSUME NEW t \in Tokens
        PROVE  \/ TokenState(t)' = TokenState(t)
               \/ TokenState(t) = "usable" /\ TokenState(t)' = "spent"
    BY <1>1, TokenStates, TokenStatesNext DEF Kept, Spent, TokenState
  <1>3. ended \subseteq ended'
    <2>1. CASE ended' = ended
      BY <2>1
    <2>2. CASE \E h \in Handlers : RefreshRevokeFamily(h) \/ LogoutRevoke(h)
      BY <2>2 DEF RefreshRevokeFamily, LogoutRevoke
    <2> QED
      BY <2>1, <2>2, EndedSteps
  <1>4. ASSUME NEW e \in ended', e.quiet, e \notin ended,
               NEW t \in Tokens, TokenState(t) # "absent", rt[t].family = e.family
        PROVE  TokenState(t)' = "spent"
    <2>1. Over(e.family)'
      BY <1>4, EndedSteps, EndedQuietly
    <2>2. t \in Stored(rt') /\ rt'[t].family = e.family
      BY <1>1, <1>4, TokenStates
    <2>3. Spent(rt'[t])
      BY <2>1, <2>2 DEF Over
    <2> QED
      BY <2>2, <2>3, TokenStatesNext
  <1> DEFINE shut == {e.family : e \in {x \in ended : x.quiet}}
  <1>5. shut \subseteq shut'
    BY <1>3
  <1>6. ASSUME NEW f \in shut' \ shut, NEW t \in Tokens,
               TokenState(t) # "absent", rt[t].family = f
        PROVE  TokenState(t)' = "spent"
    <2>1. PICK e \in ended' : e.quiet /\ e.family = f
      OBVIOUS
    <2>2. e \notin ended
      BY <1>6, <2>1
    <2> QED
      BY <1>4, <1>6, <2>1, <2>2
  <1>7. [t \in Tokens |-> rt[t].family]' = [t \in Tokens |-> rt[t].family]
    BY <1>1
  <1>8. [t \in Tokens |-> TokenState(t)']
          \in [Tokens -> {"absent", "usable", "spent"}]
    BY DEF TokenState
  <1> HIDE DEF shut
  <1> QED
    BY <1>1, <1>2, <1>5, <1>6, <1>7, <1>8 DEF Ledger!Retire, Ledger!Entered, shut

(* Inserting a row opens a family or succeeds a spent token.               *)
LEMMA EnterStep ==
  ASSUME Base, Lineage, QuietOK, NEW h \in Handlers, Issue(h)
  PROVE  Ledger!Next
  <1> DEFINE p == req[h].tok
  <1>1. PICK t : Inserted(h, t)
    BY IssueRow
  <1>2. req[h].pc = "issue" /\ req[h].user \in Users /\ UNCHANGED ended
    BY IssueRow
  <1>3. t \in Tokens /\ t \notin Stored(rt)
    BY <1>1 DEF Inserted
  <1>4. TokenState(t) = "absent" /\ TokenState(t)' = "usable"
    <2>1. t \in Stored(rt') /\ ~Spent(rt'[t])
      BY <1>1 DEF Inserted
    <2> QED
      BY <1>3, <2>1, TokenStates, TokenStatesNext
  <1>5. ASSUME NEW s \in Tokens, s # t
        PROVE  /\ TokenState(s)' = TokenState(s)
               /\ rt'[s] = rt[s] /\ origin'[s] = origin[s]
    <2>1. rt'[s] = rt[s] /\ origin'[s] = origin[s]
      BY <1>1, <1>5 DEF Inserted
    <2> QED
      BY <2>1 DEF TokenState
  <1>6. /\ rt'[t].family = FamilyFor(h, t)
        /\ origin'[t].parent = p /\ origin'[t].by = h
    BY <1>1 DEF Inserted
  <1>7. Ledger!Enter(t, FamilyFor(h, t), p, h)
    <2>1. [s \in Tokens |-> TokenState(s)']
            = [[s \in Tokens |-> TokenState(s)] EXCEPT ![t] = "usable"]
      BY <1>4, <1>5
    <2>2. [s \in Tokens |-> rt'[s].family]
            = [[s \in Tokens |-> rt[s].family] EXCEPT ![t] = FamilyFor(h, t)]
      BY <1>5, <1>6
    <2>3. [s \in Tokens |-> origin'[s].parent]
            = [[s \in Tokens |-> origin[s].parent] EXCEPT ![t] = p]
      BY <1>5, <1>6
    <2>4. [s \in Tokens |-> origin'[s].by]
            = [[s \in Tokens |-> origin[s].by] EXCEPT ![t] = h]
      BY <1>5, <1>6
    <2> QED
      BY <1>2, <1>3, <1>4, <2>1, <2>2, <2>3, <2>4 DEF Ledger!Enter
  <1>8. CASE p = None
    <2>1. \A e \in ended : e.family # t
      BY <1>3 DEF Base, EndedOK
    <2>2. Ledger!Open(t, h)
      BY <1>7, <1>8, <2>1 DEF Ledger!Open, FamilyFor
    <2> QED
      BY <1>3, <2>2 DEF Ledger!Next
  <1>9. CASE p # None
    <2>1. p \in Stored(rt) /\ p \in Tokens /\ rt[p].consumed /\ Holds(req[h], p)
      BY <1>2, <1>9 DEF Base, RequestsOK, Grounded, Stored, Holds, PastCheck
    <2>2. TokenState(p) = "spent"
      BY <2>1, TokenStates DEF Spent
    <2>3. ~\E e \in ended : e.quiet /\ e.family = rt[p].family
      BY <2>1 DEF QuietOK, Over
    <2>4. ASSUME NEW s \in Tokens, TokenState(s) # "absent"
          PROVE  ~(origin[s].parent = p /\ origin[s].by = h)
      <3>1. s \in Stored(rt)
        BY <2>4, TokenStates
      <3>2. Descended(s)
        BY <3>1 DEF Lineage, LineageOK
      <3> QED
        BY <1>9, <2>1, <3>2 DEF Descended
    <2>5. FamilyFor(h, t) = rt[p].family
      BY <1>9 DEF FamilyFor
    <2>6. Ledger!Succeed(t, p, h)
      BY <1>7, <2>1, <2>2, <2>3, <2>4, <2>5 DEF Ledger!Succeed, Ledger!Entered
    <2> QED
      BY <1>3, <2>1, <2>6 DEF Ledger!Next
  <1> QED
    BY <1>8, <1>9

(* Every behaviour of Sessions is one of SessionLedger (login, refresh,     *)
(* logout and every revocation).                                            *)
THEOREM Implementation == Spec => ImplementsLedger
  <1>1. Base /\ Lineage /\ QuietOK /\ [Next]_vars => Ledger!Next
    BY EnterStep, RetireStep DEF Ledger!Next
  <1>2. Spec => Ledger!Init
    BY InitLedger DEF Spec
  <1>3. Spec => [][Ledger!Next]_(Ledger!vars)
    BY <1>1, BaseAlways, LineageAlways, QuietAlways, PTL DEF Spec
  <1> QED
    BY <1>2, <1>3 DEF ImplementsLedger, Ledger!Spec

(* The promise of the ledger, of the values its variables have.             *)
Promised(state, family, parent, by, closed) ==
  LET entered == {t \in Tokens : state[t] # "absent"}
  IN  /\ \A t \in entered : family[t] \in closed => state[t] = "spent"
      /\ \A t \in entered : parent[t] # None =>
           /\ parent[t] \in Tokens
           /\ state[parent[t]] = "spent" /\ family[parent[t]] = family[t]
      /\ \A s, t \in entered :
           parent[s] # None /\ parent[s] = parent[t] /\ by[s] = by[t] => s = t

(* A row entered leaves the promise true, whatever the values.              *)
LEMMA PromisedEntered ==
  ASSUME NEW state, NEW family, NEW parent, NEW by, NEW closed,
         state \in [Tokens -> {"absent", "usable", "spent"}],
         family = [t \in Tokens |-> family[t]],
         parent = [t \in Tokens |-> parent[t]],
         by = [t \in Tokens |-> by[t]],
         Promised(state, family, parent, by, closed),
         NEW t \in Tokens, state[t] = "absent",
         NEW f, f \notin closed, NEW p, NEW h,
         p # None => /\ p \in Tokens /\ state[p] = "spent" /\ f = family[p]
                     /\ ~\E s \in Tokens : /\ state[s] # "absent"
                                           /\ parent[s] = p /\ by[s] = h
  PROVE  Promised([state EXCEPT ![t] = "usable"], [family EXCEPT ![t] = f],
                  [parent EXCEPT ![t] = p], [by EXCEPT ![t] = h], closed)
  <1> DEFINE state2 == [state EXCEPT ![t] = "usable"]
             family2 == [family EXCEPT ![t] = f]
             parent2 == [parent EXCEPT ![t] = p]
             by2 == [by EXCEPT ![t] = h]
  <1>1. /\ state2[t] = "usable" /\ family2[t] = f /\ parent2[t] = p /\ by2[t] = h
        /\ \A s \in Tokens \ {t} : /\ state2[s] = state[s] /\ family2[s] = family[s]
                                   /\ parent2[s] = parent[s] /\ by2[s] = by[s]
    OBVIOUS
  <1> HIDE DEF state2, family2, parent2, by2
  <1>2. ASSUME NEW s \in Tokens, state2[s] # "absent", family2[s] \in closed
        PROVE  state2[s] = "spent"
    BY <1>1, <1>2 DEF Promised
  <1>3. ASSUME NEW s \in Tokens, state2[s] # "absent", parent2[s] # None
        PROVE  /\ parent2[s] \in Tokens
               /\ state2[parent2[s]] = "spent" /\ family2[parent2[s]] = family2[s]
    <2> DEFINE q == parent2[s]
    <2>1. q \in Tokens /\ state[q] = "spent" /\ family[q] = family2[s]
      BY <1>1, <1>3 DEF Promised
    <2>2. q # t
      BY <2>1
    <2> QED
      BY <1>1, <2>1, <2>2
  <1>4. ASSUME NEW s \in Tokens, state2[s] # "absent",
               NEW r \in Tokens, state2[r] # "absent",
               parent2[s] # None, parent2[s] = parent2[r], by2[s] = by2[r]
        PROVE  s = r
    BY <1>1, <1>4 DEF Promised
  <1>5. Promised(state2, family2, parent2, by2, closed)
    BY <1>2, <1>3, <1>4 DEF Promised
  <1> QED
    BY <1>5 DEF state2, family2, parent2, by2

(* So do tokens that are spent and families that are closed.                *)
LEMMA PromisedRetired ==
  ASSUME NEW state, NEW family, NEW parent, NEW by, NEW closed,
         Promised(state, family, parent, by, closed),
         NEW state2, NEW closed2,
         \A t \in Tokens : \/ state2[t] = state[t]
                           \/ state[t] = "usable" /\ state2[t] = "spent",
         \A f \in closed2 \ closed, t \in Tokens :
           state[t] # "absent" /\ family[t] = f => state2[t] = "spent"
  PROVE  Promised(state2, family, parent, by, closed2)
  <1>1. \A t \in Tokens : state2[t] # "absent" => state[t] # "absent"
    OBVIOUS
  <1>2. \A t \in Tokens : state2[t] # "absent" /\ family[t] \in closed2
                           => state2[t] = "spent"
    BY <1>1 DEF Promised
  <1> QED
    BY <1>1, <1>2 DEF Promised

(* What the ledger allows keeps what clients conclude from it: a closed      *)
(* family is without a usable token, an exchanged token is spent, and no    *)
(* worker exchanges a token twice (login, refresh, logout).                 *)
THEOREM LedgerKeepsPromise == Ledger!Spec => []Ledger!Promise
  <1> DEFINE state == [t \in Tokens |-> TokenState(t)]
             family == [t \in Tokens |-> rt[t].family]
             parent == [t \in Tokens |-> origin[t].parent]
             by == [t \in Tokens |-> origin[t].by]
             closed == {e.family : e \in {x \in ended : x.quiet}}
             Kept2 == Promised(state, family, parent, by, closed)
  <1>1. Ledger!Promise <=> Kept2
    BY DEF Ledger!Promise, Ledger!Entered, Promised
  <1>2. Ledger!Init => Kept2
    <2> SUFFICES ASSUME Ledger!Init PROVE Kept2
      OBVIOUS
    <2>1. state = [t \in Tokens |-> "absent"]
      BY DEF Ledger!Init
    <2> HIDE DEF state, family, parent, by, closed
    <2> QED
      BY <2>1 DEF Promised
  <1>3. Kept2 /\ [Ledger!Next]_(Ledger!vars) => Kept2'
    <2> SUFFICES ASSUME Kept2, [Ledger!Next]_(Ledger!vars) PROVE Kept2'
      OBVIOUS
    <2>1. /\ state \in [Tokens -> {"absent", "usable", "spent"}]
          /\ family = [t \in Tokens |-> family[t]]
          /\ parent = [t \in Tokens |-> parent[t]]
          /\ by = [t \in Tokens |-> by[t]]
      BY DEF TokenState
    <2>2. CASE UNCHANGED Ledger!vars
      <3>1. /\ state' = state /\ family' = family /\ parent' = parent
            /\ by' = by /\ closed' = closed
        BY <2>2 DEF Ledger!vars
      <3> HIDE DEF state, family, parent, by, closed
      <3> QED
        BY <3>1
    <2>3. CASE Ledger!Retire
      <3>1. /\ family' = family /\ parent' = parent /\ by' = by
            /\ \A t \in Tokens : \/ state'[t] = state[t]
                                 \/ state[t] = "usable" /\ state'[t] = "spent"
            /\ \A f \in closed' \ closed, t \in Tokens :
                 state[t] # "absent" /\ family[t] = f => state'[t] = "spent"
        BY <2>3 DEF Ledger!Retire, Ledger!Entered
      <3> HIDE DEF state, family, parent, by, closed
      <3> QED
        BY <3>1, PromisedRetired
    <2>4. ASSUME NEW t \in Tokens, NEW f, NEW p, NEW h,
                 Ledger!Enter(t, f, p, h), f \notin closed,
                 p # None => /\ p \in Tokens /\ state[p] = "spent" /\ f = family[p]
                             /\ ~\E s \in Tokens : /\ state[s] # "absent"
                                                   /\ parent[s] = p /\ by[s] = h
          PROVE  Kept2'
      <3>1. /\ state[t] = "absent" /\ state' = [state EXCEPT ![t] = "usable"]
            /\ family' = [family EXCEPT ![t] = f]
            /\ parent' = [parent EXCEPT ![t] = p]
            /\ by' = [by EXCEPT ![t] = h] /\ closed' = closed
        BY <2>4 DEF Ledger!Enter
      <3> HIDE DEF state, family, parent, by, closed
      <3> QED
        BY <2>1, <2>4, <3>1, PromisedEntered
    <2>5. ASSUME NEW t \in Tokens, NEW h \in Handlers, Ledger!Open(t, h)
          PROVE  Kept2'
      <3>1. t \notin closed /\ Ledger!Enter(t, t, None, h)
        BY <2>5 DEF Ledger!Open
      <3> HIDE DEF state, family, parent, by, closed, Kept2
      <3> QED
        BY <2>4, <3>1
    <2>6. ASSUME NEW t \in Tokens, NEW h \in Handlers, NEW p \in Tokens,
                 Ledger!Succeed(t, p, h)
          PROVE  Kept2'
      <3>1. /\ state[p] = "spent" /\ family[p] \notin closed
            /\ ~\E s \in Tokens : state[s] # "absent" /\ parent[s] = p /\ by[s] = h
            /\ Ledger!Enter(t, family[p], p, h)
        BY <2>6 DEF Ledger!Succeed, Ledger!Entered
      <3> HIDE DEF state, family, parent, by, closed, Kept2
      <3> QED
        BY <2>4, <3>1
    <2> HIDE DEF Kept2
    <2> QED
      BY <2>2, <2>3, <2>5, <2>6 DEF Ledger!Next
  <1> QED
    BY <1>1, <1>2, <1>3, PTL DEF Ledger!Spec
=============================================================================
