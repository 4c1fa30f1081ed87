-------------------------- MODULE RefreshTokenRepo --------------------------
(***************************************************************************)
(* The refresh_tokens table, and what each method of the RefreshTokenRepo  *)
(* interface does to it.  Every method is one SQL statement, so every      *)
(* operator below is one atomic step of the request that calls it.         *)
(*                                                                         *)
(* A table is a function on Tokens: a row whose user is None has not been  *)
(* inserted yet.  No method deletes a row.  A random token, its hash and   *)
(* the id of its row are one value of Tokens; a family id (randomUUID) is  *)
(* the token that opened the family.  Dates in consumed_at and revoked_at  *)
(* are only ever tested for NULL, so each is a Boolean.                    *)
(***************************************************************************)
EXTENDS Naturals

CONSTANTS Users, Tokens, None

ASSUME NoneIsNew == None \notin Users \cup Tokens

Row == [user: Users \cup {None}, family: Tokens \cup {None},
        expiresAt: Nat, consumed: BOOLEAN, revoked: BOOLEAN]

NoRow == [user |-> None, family |-> None, expiresAt |-> 0,
          consumed |-> FALSE, revoked |-> FALSE]

Stored(table) == {t \in Tokens : table[t].user # None}

(* rec.consumedAt || rec.revokedAt, the test of reuse detection *)
Spent(row) == row.consumed \/ row.revoked

(* Mutant of Expired: good until the moment of expiry, and in it. *)
ExpiredAfter(row, now) == row.expiresAt < now

Expired(row, now) == row.expiresAt <= now

(* Mutant of Create: two columns of the INSERT swapped. *)
CreateSwapped(table, t, u, f, exp) ==
  [table EXCEPT ![t] = [NoRow EXCEPT !.user = f, !.family = u, !.expiresAt = exp]]

Create(table, t, u, f, exp) ==
  [table EXCEPT ![t] = [user |-> u, family |-> f, expiresAt |-> exp,
                        consumed |-> FALSE, revoked |-> FALSE]]

MarkConsumed(table, t) == [table EXCEPT ![t].consumed = TRUE]

(* Mutant of Revoke: the row is looked up by the family's id. *)
RevokeRoot(table, t) == [table EXCEPT ![table[t].family].revoked = TRUE]

Revoke(table, t) == [table EXCEPT ![t].revoked = TRUE]

RevokeWhere(table, Picked) ==
  [t \in Tokens |-> IF t \in Picked THEN [table[t] EXCEPT !.revoked = TRUE]
                                    ELSE table[t]]

OfFamily(table, f) == {t \in Stored(table) : table[t].family = f}

OfUser(table, u) == {t \in Stored(table) : table[t].user = u}

(* Mutants of the next two: only consumed rows match. *)
RevokeConsumedOfFamily(table, f) ==
  RevokeWhere(table, {t \in OfFamily(table, f) : table[t].consumed})
RevokeConsumedOfUser(table, u) ==
  RevokeWhere(table, {t \in OfUser(table, u) : table[t].consumed})

RevokeFamily(table, f) == RevokeWhere(table, OfFamily(table, f))

RevokeAllForUser(table, u) == RevokeWhere(table, OfUser(table, u))
=============================================================================
