----------------------------- MODULE RbacProofs -----------------------------
(***************************************************************************)
(* Theorems about Rbac, for any sets of users, roles, names, permissions   *)
(* and workers.  No action relies on what another request holds, so the    *)
(* invariant is a part about the tables and a part about each request.     *)
(***************************************************************************)
EXTENDS Rbac, TLAPS

(* What a request holds was chosen by its first statement. *)
Grounded(r) ==
  /\ r.pc \in {"createRole", "clash", "rename"} => r.name \in Names
  /\ r.pc \in {"clash", "delete"} => r.role \in CustomRoles
  /\ r.pc = "rename" => r.role \in CustomRoles \/ (r.role \in SystemRoles /\ r.name = r.role)
  /\ r.pc = "createPermission" => r.name \in PermNames
  /\ r.pc = "attach" => r.role \in Roles /\ r.todo \subseteq Perms
  /\ r.pc \in {"assign", "assignInsert"} => r.user \in Users /\ r.todo \subseteq Roles
  /\ r.pc = "assignInsert" => r.role \in Roles

RequestsOK == req \in [Handlers -> Request] /\ \A h \in Handlers : Grounded(req[h])

TablesType ==
  /\ roles \in [Roles -> Names \cup {None}]
  /\ made \subseteq Roles
  /\ perms \in [Perms -> PermNames \cup {None}]

(* System roles keep their names; an id that is in use has been made. *)
RolesOK ==
  /\ \A n \in SystemRoles : roles[n] = n
  /\ Existing \subseteq made

TablesOK == TablesType /\ RolesOK /\ NamesUnique /\ NoDanglingRows

Base == TablesOK /\ RequestsOK

LEMMA NoneIsNew ==
  /\ None \notin Users /\ None \notin Roles /\ None \notin Names
  /\ None \notin Perms /\ None \notin PermNames
  /\ SystemRoles \cap CustomRoles = {}
  BY RbacAssumption

LEMMA BaseType == Base => TypeOK
  <1> SUFFICES ASSUME Base PROVE TypeOK
    OBVIOUS
  <1>1. grants \subseteq Roles \X Perms /\ assigned \subseteq Users \X Roles
    BY DEF Base, TablesOK, NoDanglingRows, Existing, Known
  <1> QED
    BY <1>1 DEF Base, TablesOK, TablesType, RequestsOK, TypeOK

-----------------------------------------------------------------------------
(* Requests.                                                               *)

LEMMA IdleType == Idle \in Request /\ Grounded(Idle)
  BY DEF Idle, Request, Grounded, Pc, Flow

LEMMA BecomeKeeps ==
  ASSUME RequestsOK, NEW h \in Handlers, NEW r \in Request, Grounded(r), Become(h, r)
  PROVE  RequestsOK'
  BY DEF RequestsOK, Become, Grounded

LEMMA FailKeeps ==
  ASSUME RequestsOK, NEW h \in Handlers, Fail(h)
  PROVE  RequestsOK'
  <1> DEFINE kept == [Idle EXCEPT !.flow = req[h].flow, !.dirty = TRUE]
  <1>1. req[h].flow \in Flow
    BY DEF RequestsOK, Request
  <1>2. kept \in Request /\ Grounded(kept)
    BY <1>1 DEF Idle, Request, Grounded, Pc
  <1> QED
    BY <1>2, IdleType, BecomeKeeps DEF Fail

LEMMA WrittenKeeps ==
  ASSUME RequestsOK, NEW h \in Handlers, Written(h)
  PROVE  RequestsOK'
  <1> DEFINE r == [req[h] EXCEPT !.pc = "audit", !.dirty = TRUE]
  <1>1. req[h] \in Request
    BY DEF RequestsOK
  <1>2. r \in Request
    BY <1>1 DEF Request, Pc
  <1>3. Grounded(r)
    BY <1>1 DEF Grounded, Request
  <1> QED
    BY <1>2, <1>3, BecomeKeeps DEF Written

(* A request starts with what its flow chose, nothing written. *)
LEMMA StartKeeps ==
  ASSUME RequestsOK, NEW h \in Handlers, NEW flow \in Flow, NEW r \in Request,
         Grounded(r), Start(h, flow, r)
  PROVE  RequestsOK'
  <1> DEFINE s == [r EXCEPT !.flow = flow]
  <1>1. s \in Request /\ Grounded(s)
    BY DEF Request, Grounded
  <1> QED
    BY <1>1, BecomeKeeps DEF Start

LEMMA FindKeeps ==
  ASSUME TablesType, RolesOK, RequestsOK, NEW h \in Handlers,
         \/ CreateRoleFind(h) \/ UpdateFind(h) \/ DeleteFind(h) \/ CreatePermissionFind(h)
         \/ AttachFind(h) \/ DetachFind(h) \/ AssignFind(h) \/ Revoke(h)
  PROVE  RequestsOK'
  <1>1. CASE CreateRoleFind(h)
    <2>1. PICK n \in Names :
            Start(h, "createRole", [Idle EXCEPT !.pc = "createRole", !.name = n])
      BY <1>1 DEF CreateRoleFind
    <2>2. [Idle EXCEPT !.pc = "createRole", !.name = n] \in Request
          /\ Grounded([Idle EXCEPT !.pc = "createRole", !.name = n])
      BY DEF Idle, Request, Grounded, Pc, Flow
    <2> QED
      BY <2>1, <2>2, StartKeeps DEF Flow
  <1>2. CASE UpdateFind(h)
    <2>1. PICK r \in Existing, n \in Names :
            /\ MayEdit(r) \/ n = roles[r]
            /\ Start(h, "updateRole",
                     [Idle EXCEPT !.pc = IF n = roles[r] THEN "rename" ELSE "clash",
                                  !.role = r, !.name = n])
      BY <1>2 DEF UpdateFind
    <2>2. r \in Roles
      BY DEF Existing
    <2>3. CASE n = roles[r]
      <3>1. r \in CustomRoles \/ (r \in SystemRoles /\ n = r)
        BY <2>2, <2>3 DEF Roles, RolesOK
      <3>2. [Idle EXCEPT !.pc = "rename", !.role = r, !.name = n] \in Request
            /\ Grounded([Idle EXCEPT !.pc = "rename", !.role = r, !.name = n])
        BY <2>2, <3>1 DEF Idle, Request, Grounded, Pc, Flow
      <3> QED
        BY <2>1, <2>3, <3>2, StartKeeps DEF Flow
    <2>4. CASE n # roles[r]
      <3>1. r \in CustomRoles
        BY <2>1, <2>4 DEF MayEdit, Existing, Roles
      <3>2. [Idle EXCEPT !.pc = "clash", !.role = r, !.name = n] \in Request
            /\ Grounded([Idle EXCEPT !.pc = "clash", !.role = r, !.name = n])
        BY <2>2, <3>1 DEF Idle, Request, Grounded, Pc, Flow
      <3> QED
        BY <2>1, <2>4, <3>2, StartKeeps DEF Flow
    <2> QED
      BY <2>3, <2>4
  <1>3. CASE DeleteFind(h)
    <2>1. PICK r \in Roles :
            /\ MayEdit(r)
            /\ Start(h, "deleteRole", [Idle EXCEPT !.pc = "delete", !.role = r])
      BY <1>3 DEF DeleteFind
    <2>2. r \in CustomRoles
      BY <2>1 DEF MayEdit, Existing, Roles
    <2>3. [Idle EXCEPT !.pc = "delete", !.role = r] \in Request
          /\ Grounded([Idle EXCEPT !.pc = "delete", !.role = r])
      BY <2>2 DEF Idle, Request, Grounded, Pc, Flow, Roles
    <2> QED
      BY <2>1, <2>3, StartKeeps DEF Flow
  <1>4. CASE CreatePermissionFind(h)
    <2>1. PICK n \in PermNames :
            Start(h, "createPermission", [Idle EXCEPT !.pc = "createPermission", !.name = n])
      BY <1>4 DEF CreatePermissionFind
    <2>2. [Idle EXCEPT !.pc = "createPermission", !.name = n] \in Request
          /\ Grounded([Idle EXCEPT !.pc = "createPermission", !.name = n])
      BY DEF Idle, Request, Grounded, Pc, Flow
    <2> QED
      BY <2>1, <2>2, StartKeeps DEF Flow
  <1>5. CASE AttachFind(h)
    <2>1. PICK r \in Existing, list \in SUBSET Perms :
            Start(h, "attachPermissions",
                  [Idle EXCEPT !.pc = "attach", !.role = r, !.todo = list])
      BY <1>5 DEF AttachFind
    <2>2. [Idle EXCEPT !.pc = "attach", !.role = r, !.todo = list] \in Request
          /\ Grounded([Idle EXCEPT !.pc = "attach", !.role = r, !.todo = list])
      BY DEF Idle, Request, Grounded, Pc, Flow, Existing
    <2> QED
      BY <2>1, <2>2, StartKeeps DEF Flow
  <1>6. CASE DetachFind(h)
    <2>1. PICK r \in Existing, p \in Perms :
            Start(h, "detachPermission",
                  [Idle EXCEPT !.pc = "detach", !.role = r, !.perm = p])
      BY <1>6 DEF DetachFind
    <2>2. [Idle EXCEPT !.pc = "detach", !.role = r, !.perm = p] \in Request
          /\ Grounded([Idle EXCEPT !.pc = "detach", !.role = r, !.perm = p])
      BY DEF Idle, Request, Grounded, Pc, Flow, Existing
    <2> QED
      BY <2>1, <2>2, StartKeeps DEF Flow
  <1>7. CASE AssignFind(h)
    <2>1. PICK u \in Users, list \in SUBSET Roles :
            Start(h, "assignRolesToUser",
                  [Idle EXCEPT !.pc = "assign", !.user = u, !.todo = list])
      BY <1>7 DEF AssignFind
    <2>2. [Idle EXCEPT !.pc = "assign", !.user = u, !.todo = list] \in Request
          /\ Grounded([Idle EXCEPT !.pc = "assign", !.user = u, !.todo = list])
      BY DEF Idle, Request, Grounded, Pc, Flow
    <2> QED
      BY <2>1, <2>2, StartKeeps DEF Flow
  <1>8. CASE Revoke(h)
    <2>1. [Idle EXCEPT !.pc = "audit", !.dirty = TRUE] \in Request
          /\ Grounded([Idle EXCEPT !.pc = "audit", !.dirty = TRUE])
      BY DEF Idle, Request, Grounded, Pc, Flow
    <2> QED
      BY <1>8, <2>1, StartKeeps DEF Revoke, Flow
  <1> QED
    BY <1>1, <1>2, <1>3, <1>4, <1>5, <1>6, <1>7, <1>8

LEMMA StepKeeps ==
  ASSUME RequestsOK, NEW h \in Handlers,
         \/ UpdateClash(h) \/ AttachNext(h) \/ AssignNext(h) \/ AssignInsert(h) \/ ListDone(h)
  PROVE  RequestsOK'
  <1>1. req[h] \in Request /\ Grounded(req[h])
    BY DEF RequestsOK
  <1>2. CASE UpdateClash(h)
    <2>1. [req[h] EXCEPT !.pc = "rename"] \in Request
          /\ Grounded([req[h] EXCEPT !.pc = "rename"])
      BY <1>1, <1>2 DEF UpdateClash, At, Request, Grounded, Pc
    <2> QED
      BY <1>2, <2>1, FailKeeps, BecomeKeeps DEF UpdateClash
  <1>3. CASE AttachNext(h)
    <2>1. PICK p \in req[h].todo :
            \/ Fail(h)
            \/ Become(h, [req[h] EXCEPT !.todo = @ \ {p}, !.dirty = TRUE])
      BY <1>3 DEF AttachNext
    <2>2. [req[h] EXCEPT !.todo = @ \ {p}, !.dirty = TRUE] \in Request
          /\ Grounded([req[h] EXCEPT !.todo = @ \ {p}, !.dirty = TRUE])
      BY <1>1, <1>3 DEF AttachNext, At, Request, Grounded
    <2> QED
      BY <2>1, <2>2, FailKeeps, BecomeKeeps
  <1>4. CASE AssignNext(h)
    <2>1. PICK r \in req[h].todo :
            \/ Fail(h)
            \/ Become(h, [req[h] EXCEPT !.pc = "assignInsert", !.role = r, !.todo = @ \ {r}])
      BY <1>4 DEF AssignNext
    <2>2. r \in Roles /\ req[h].user \in Users /\ req[h].todo \subseteq Roles
      BY <1>1, <1>4, <2>1 DEF AssignNext, At, Grounded
    <2> DEFINE next == [req[h] EXCEPT !.pc = "assignInsert", !.role = r, !.todo = @ \ {r}]
    <2>3. next \in Request
      BY <1>1, <2>2 DEF Request, Pc
    <2>4. Grounded(next)
      BY <1>1, <2>2 DEF Grounded, Request
    <2> QED
      BY <2>1, <2>3, <2>4, FailKeeps, BecomeKeeps
  <1>5. CASE AssignInsert(h)
    <2>1. [req[h] EXCEPT !.pc = "assign", !.dirty = TRUE] \in Request
          /\ Grounded([req[h] EXCEPT !.pc = "assign", !.dirty = TRUE])
      BY <1>1, <1>5 DEF AssignInsert, At, Request, Grounded, Pc
    <2> QED
      BY <1>5, <2>1, FailKeeps, BecomeKeeps DEF AssignInsert
  <1>6. CASE ListDone(h)
    <2>1. [req[h] EXCEPT !.pc = "audit"] \in Request
          /\ Grounded([req[h] EXCEPT !.pc = "audit"])
      BY <1>1 DEF Request, Grounded, Pc
    <2> QED
      BY <1>6, <2>1, BecomeKeeps DEF ListDone
  <1> QED
    BY <1>2, <1>3, <1>4, <1>5, <1>6

LEMMA NextRequests == Base /\ [Next]_vars => RequestsOK'
  <1> SUFFICES ASSUME Base, [Next]_vars PROVE RequestsOK'
    OBVIOUS
  <1> USE DEF Base
  <1>1. ASSUME NEW h \in Handlers,
               \/ CreateRole(h) \/ Rename(h) \/ DeleteRole(h) \/ CreatePermission(h)
               \/ Detach(h)
        PROVE  RequestsOK'
    BY <1>1, FailKeeps, WrittenKeeps
       DEF CreateRole, Rename, DeleteRole, CreatePermission, Detach
  <1>2. ASSUME NEW h \in Handlers, Audit(h) \/ Abort(h)
        PROVE  RequestsOK'
    BY <1>2, FailKeeps, BecomeKeeps, IdleType DEF Audit, Abort
  <1>3. ASSUME NEW n \in SystemRoles, AssignByName(n)
        PROVE  RequestsOK'
    BY <1>3 DEF AssignByName, RequestsOK, Grounded
  <1>4. CASE UNCHANGED vars
    BY <1>4 DEF vars, RequestsOK, Grounded
  <1> QED
    BY <1>1, <1>2, <1>3, <1>4, FindKeeps, StepKeeps DEF Next, TablesOK

-----------------------------------------------------------------------------
(* Tables.                                                                 *)

(* A role of a new name, or an old one renamed: r is a new id or not a      *)
(* system role's, and nobody else has the name.                             *)
LEMMA NamedRole ==
  ASSUME Base, NEW r \in Roles \ SystemRoles, NEW n \in Names,
         \A s \in Roles \ {r} : roles[s] # n,
         roles' = [roles EXCEPT ![r] = n], made' = made \cup {r},
         UNCHANGED <<perms, grants, assigned>>
  PROVE  TablesOK'
  <1> USE DEF Base, TablesOK
  <1>1. TablesType'
    BY DEF TablesType
  <1>2. RolesOK'
    BY DEF TablesType, RolesOK, Existing, Roles
  <1>3. NamesUnique'
    BY DEF TablesType, NamesUnique, Existing, Known
  <1>4. Existing \subseteq Existing' /\ Known' = Known
    BY NoneIsNew DEF TablesType, Existing, Known
  <1>5. NoDanglingRows'
    BY <1>4 DEF NoDanglingRows
  <1> QED
    BY <1>1, <1>2, <1>3, <1>5

LEMMA RoleTables ==
  ASSUME Base, NEW h \in Handlers, CreateRole(h) \/ Rename(h) \/ DeleteRole(h)
  PROVE  TablesOK'
  <1> USE DEF Base, TablesOK
  <1>1. Grounded(req[h])
    BY DEF RequestsOK
  <1>2. CASE UNCHANGED Tables
    BY <1>2 DEF Tables, TablesType, RolesOK, NamesUnique, NoDanglingRows, Existing, Known
  <1>3. CASE CreateRole(h) /\ ~UNCHANGED Tables
    <2>1. ~RoleNamed(req[h].name)
      BY <1>3 DEF CreateRole, Refused, Tables
    <2>2. PICK r \in Roles \ made : roles' = [roles EXCEPT ![r] = req[h].name]
                                    /\ made' = made \cup {r}
      BY <1>3, <2>1 DEF CreateRole, Refused
    <2>3. req[h].name \in Names
      BY <1>1, <1>3 DEF CreateRole, At, Grounded
    <2>4. r \notin SystemRoles
      BY NoneIsNew, <2>2 DEF RolesOK, Existing, Roles, Names
    <2> QED
      BY <1>3, <2>1, <2>2, <2>3, <2>4, NamedRole DEF CreateRole, RoleNamed
  <1>4. CASE Rename(h) /\ ~UNCHANGED Tables
    <2> DEFINE r == req[h].role
               n == req[h].name
    <2>2. /\ r \in Existing /\ \A s \in Roles \ {r} : roles[s] # n
          /\ roles' = [roles EXCEPT ![r] = n]
      BY <1>4 DEF Rename, Refused, Tables
    <2>1. r \in CustomRoles /\ n \in Names
      <3>1. n \in Names /\ (r \in CustomRoles \/ (r \in SystemRoles /\ n = r))
        BY <1>1, <1>4 DEF Rename, At, Grounded
      <3>2. ASSUME r \in SystemRoles, n = r PROVE FALSE
        <4>1. roles' = roles
          BY <2>2, <3>2 DEF RolesOK, TablesType
        <4> QED
          BY <1>4, <4>1 DEF Rename, Tables
      <3> QED
        BY <3>1, <3>2
    <2>3. made' = made \cup {r}
      BY <1>4, <2>2 DEF Rename, RolesOK
    <2>4. r \in Roles \ SystemRoles
      BY <2>1, NoneIsNew DEF Roles
    <2> QED
      BY <1>4, <2>1, <2>2, <2>3, <2>4, NamedRole DEF Rename
  <1>5. CASE DeleteRole(h)
    <2> DEFINE r == req[h].role
    <2>1. r \in Roles \ SystemRoles
      BY <1>1, <1>5, NoneIsNew DEF DeleteRole, At, Grounded, Roles
    <2>2. /\ roles' = [roles EXCEPT ![r] = None]
          /\ grants' = Cascade(grants, r) /\ assigned' = Cascade(assigned, r)
          /\ UNCHANGED <<made, perms>>
      BY <1>5 DEF DeleteRole
    <2>3. TablesType'
      BY <2>1, <2>2 DEF TablesType
    <2>4. Existing' = Existing \ {r} /\ Known' = Known
      BY <2>1, <2>2 DEF TablesType, Existing, Known
    <2>5. RolesOK'
      BY <2>1, <2>2, <2>4 DEF TablesType, RolesOK, Roles
    <2>6. NamesUnique'
      BY <2>1, <2>2, <2>4 DEF TablesType, NamesUnique, Existing
    <2>7. grants' \subseteq Existing' \X Known'
      BY <2>2, <2>4 DEF NoDanglingRows, Cascade
    <2>8. assigned' \subseteq Users \X Existing'
      BY <2>2, <2>4 DEF NoDanglingRows, Cascade
    <2> QED
      BY <2>3, <2>5, <2>6, <2>7, <2>8 DEF NoDanglingRows
  <1> QED
    BY <1>2, <1>3, <1>4, <1>5

LEMMA PermissionTables ==
  ASSUME Base, NEW h \in Handlers, CreatePermission(h)
  PROVE  TablesOK'
  <1> USE DEF Base, TablesOK
  <1>1. CASE UNCHANGED Tables
    BY <1>1 DEF Tables, TablesType, RolesOK, NamesUnique, NoDanglingRows, Existing, Known
  <1>2. CASE ~UNCHANGED Tables
    <2> DEFINE n == req[h].name
    <2>1. ~PermNamed(n) /\ UNCHANGED <<roles, made, grants, assigned>>
      BY <1>2 DEF CreatePermission, Refused, Tables
    <2>2. PICK p \in Perms \ Known : perms' = [perms EXCEPT ![p] = n]
      BY <1>2, <2>1 DEF CreatePermission, Refused
    <2>3. n \in PermNames
      BY DEF CreatePermission, At, RequestsOK, Grounded
    <2>4. TablesType' /\ RolesOK'
      BY <2>1, <2>2, <2>3 DEF TablesType, RolesOK, Existing
    <2>5. Known \subseteq Known' /\ Existing' = Existing
      BY <2>1, <2>2, <2>3, NoneIsNew DEF TablesType, Known, Existing
    <2>6. NamesUnique'
      BY <2>1, <2>2, <2>3 DEF TablesType, NamesUnique, PermNamed, Known, Existing
    <2>7. NoDanglingRows'
      BY <2>1, <2>5 DEF NoDanglingRows
    <2> QED
      BY <2>4, <2>6, <2>7
  <1> QED
    BY <1>1, <1>2

(* Grants and assignments: roles and permissions stay, and a row is added   *)
(* only for those that are there.                                           *)
LEMMA PairTables ==
  ASSUME Base, UNCHANGED <<roles, made, perms>>,
         grants' \subseteq grants \cup (Existing \X Known),
         assigned' \subseteq assigned \cup (Users \X Existing)
  PROVE  TablesOK'
  BY DEF Base, TablesOK, TablesType, RolesOK, NamesUnique, NoDanglingRows, Existing, Known

LEMMA GrantTables ==
  ASSUME Base, NEW h \in Handlers,
         AttachNext(h) \/ Detach(h) \/ AssignInsert(h) \/ Revoke(h)
  PROVE  TablesOK'
  <1>1. Grounded(req[h])
    BY DEF Base, RequestsOK
  <1>2. CASE AttachNext(h)
    <2>1. PICK p \in req[h].todo :
            \/ UNCHANGED grants
            \/ /\ p \in Known /\ req[h].role \in Existing
               /\ grants' = grants \cup {Granted(req[h].role, p)}
      BY <1>2 DEF AttachNext
    <2>2. grants' \subseteq grants \cup (Existing \X Known)
      BY <2>1 DEF Granted
    <2>3. UNCHANGED <<roles, made, perms, assigned>>
      BY <1>2 DEF AttachNext
    <2> QED
      BY <2>2, <2>3, PairTables
  <1>3. CASE AssignInsert(h)
    <2>1. req[h].user \in Users
      BY <1>1, <1>3 DEF AssignInsert, At, Grounded
    <2> QED
      BY <1>3, <2>1, PairTables DEF AssignInsert
  <1>4. CASE Detach(h) \/ Revoke(h)
    BY <1>4, PairTables DEF Detach, Revoke
  <1> QED
    BY <1>2, <1>3, <1>4

LEMMA NextTables == Base /\ [Next]_vars => TablesOK'
  <1> SUFFICES ASSUME Base, [Next]_vars PROVE TablesOK'
    OBVIOUS
  <1>1. CASE UNCHANGED Tables
    BY <1>1, PairTables DEF Tables
  <1>2. ASSUME NEW h \in Handlers,
               \/ CreateRoleFind(h) \/ UpdateFind(h) \/ UpdateClash(h) \/ DeleteFind(h)
               \/ CreatePermissionFind(h) \/ AttachFind(h) \/ DetachFind(h)
               \/ AssignFind(h) \/ AssignNext(h) \/ ListDone(h) \/ Audit(h) \/ Abort(h)
        PROVE  UNCHANGED Tables
    BY <1>2 DEF CreateRoleFind, UpdateFind, UpdateClash, DeleteFind, CreatePermissionFind,
                AttachFind, DetachFind, AssignFind, AssignNext, ListDone, Audit, Abort
  <1>3. ASSUME NEW n \in SystemRoles, AssignByName(n)
        PROVE  TablesOK'
    <2>1. n # None
      BY <1>3, RbacAssumption DEF Names
    <2>2. PICK u \in Users, r \in Existing : assigned' = assigned \cup {<<u, r>>}
      BY <1>3, <2>1 DEF AssignByName, Existing
    <2> QED
      BY <1>3, <2>2, PairTables DEF AssignByName
  <1>4. CASE UNCHANGED vars
    BY <1>4, <1>1 DEF vars, Tables
  <1> QED
    BY <1>1, <1>2, <1>3, <1>4, RoleTables, PermissionTables, GrantTables DEF Next

LEMMA InitBase == Init => Base
  <1> SUFFICES ASSUME Init PROVE Base
    OBVIOUS
  <1>1. TablesType
    BY DEF Init, TablesType, Roles, Names
  <1>2. Existing = SystemRoles /\ Known = {}
    BY NoneIsNew DEF Init, Existing, Known, Roles, Names
  <1>3. RolesOK /\ NamesUnique /\ NoDanglingRows
    BY <1>2 DEF Init, RolesOK, NamesUnique, NoDanglingRows, Roles
  <1>4. RequestsOK
    BY IdleType DEF Init, RequestsOK
  <1> QED
    BY <1>1, <1>3, <1>4 DEF Base, TablesOK

LEMMA BaseAlways == Spec => []Base
  <1>1. Base /\ [Next]_vars => Base'
    BY NextRequests, NextTables DEF Base
  <1> QED
    BY <1>1, InitBase, PTL DEF Spec

(* Every reachable state is well typed.                                    *)
THEOREM TypeCorrect == Spec => []TypeOK
  BY BaseAlways, BaseType, PTL

(* A name belongs to one role, and to one permission, however creations and *)
(* renamings race (createRole, updateRole, createPermission).               *)
THEOREM UniqueNames == Spec => []NamesUnique
  <1>1. Base => NamesUnique
    BY DEF Base, TablesOK
  <1> QED
    BY <1>1, BaseAlways, PTL

(* No grant or assignment refers to a role that is gone or a permission     *)
(* that never was (deleteRole, attachPermissions, assignRolesToUser).       *)
THEOREM RowsHold == Spec => []NoDanglingRows
  <1>1. Base => NoDanglingRows
    BY DEF Base, TablesOK
  <1> QED
    BY <1>1, BaseAlways, PTL

(* The system roles are always there, each the only one of its name         *)
(* (updateRole, deleteRole).                                                *)
THEOREM SystemRolesHold == Spec => []SystemRolesStay
  <1>1. Base => SystemRolesStay
    BY NoneIsNew DEF Base, TablesOK, RolesOK, NamesUnique, SystemRolesStay, Existing,
                     Roles, Names
  <1> QED
    BY <1>1, BaseAlways, PTL

-----------------------------------------------------------------------------
(* The audit record.                                                       *)

Lists == {"attachPermissions", "assignRolesToUser"}

(* A change is on its way to its record, or made by a handler with a list. *)
Recording(r) ==
  /\ r.dirty => r.pc = "audit" \/ r.flow \in Lists
  /\ r.pc \in {"attach", "assign", "assignInsert"} => r.flow \in Lists

AllRecording == \A h \in Handlers : Recording(req[h])

LEMMA BecomeRecording ==
  ASSUME RequestsOK, AllRecording, NEW h \in Handlers, NEW r, Recording(r), Become(h, r)
  PROVE  AllRecording'
  BY DEF RequestsOK, AllRecording, Recording, Become

LEMMA FailRecording ==
  ASSUME RequestsOK, AllRecording, NEW h \in Handlers, req[h].pc # "audit", Fail(h)
  PROVE  AllRecording'
  <1>1. Recording(Idle)
    BY DEF Recording, Idle
  <1>2. CASE req[h].dirty
    <2>1. Recording([Idle EXCEPT !.flow = req[h].flow, !.dirty = TRUE])
      BY <1>2 DEF AllRecording, Recording, Idle
    <2> QED
      BY <1>2, <2>1, BecomeRecording DEF Fail
  <1>3. CASE ~req[h].dirty
    BY <1>1, <1>3, BecomeRecording DEF Fail
  <1> QED
    BY <1>2, <1>3

LEMMA WrittenRecording ==
  ASSUME RequestsOK, AllRecording, NEW h \in Handlers, Written(h)
  PROVE  AllRecording'
  <1>1. Recording([req[h] EXCEPT !.pc = "audit", !.dirty = TRUE])
    BY DEF RequestsOK, Request, Recording
  <1> QED
    BY <1>1, BecomeRecording DEF Written

(* "audit" \notin Fragile: nobody dies with the record still to be written. *)
LEMMA NextRecording ==
  ASSUME "audit" \notin Fragile, Base, AllRecording, [Next]_vars
  PROVE  AllRecording'
  <1> USE DEF Base
  <1>1. \A h \in Handlers : req[h] \in Request /\ Recording(req[h])
    BY DEF RequestsOK, AllRecording
  <1>2. ASSUME NEW h \in Handlers,
               \/ CreateRoleFind(h) \/ UpdateFind(h) \/ DeleteFind(h)
               \/ CreatePermissionFind(h) \/ DetachFind(h)
               \/ AttachFind(h) \/ AssignFind(h) \/ Revoke(h)
        PROVE  AllRecording'
    <2>1. PICK r : Recording(r) /\ Become(h, r)
      <3>1. CASE CreateRoleFind(h)
        BY <3>1 DEF CreateRoleFind, Start, Idle, Recording
      <3>2. CASE UpdateFind(h)
        BY <3>2 DEF UpdateFind, Start, Idle, Recording
      <3>3. CASE DeleteFind(h)
        BY <3>3 DEF DeleteFind, Start, Idle, Recording
      <3>4. CASE CreatePermissionFind(h)
        BY <3>4 DEF CreatePermissionFind, Start, Idle, Recording
      <3>5. CASE DetachFind(h)
        BY <3>5 DEF DetachFind, Start, Idle, Recording
      <3>6. CASE AttachFind(h)
        BY <3>6 DEF AttachFind, Start, Idle, Recording, Lists
      <3>7. CASE AssignFind(h)
        BY <3>7 DEF AssignFind, Start, Idle, Recording, Lists
      <3>8. CASE Revoke(h)
        BY <3>8 DEF Revoke, Start, Idle, Recording
      <3> QED
        BY <1>2, <3>1, <3>2, <3>3, <3>4, <3>5, <3>6, <3>7, <3>8
    <2> QED
      BY <2>1, BecomeRecording
  <1>3. ASSUME NEW h \in Handlers,
               \/ CreateRole(h) \/ Rename(h) \/ DeleteRole(h) \/ CreatePermission(h)
               \/ Detach(h)
        PROVE  AllRecording'
    <2>1. req[h].pc # "audit"
      BY <1>3 DEF CreateRole, Rename, DeleteRole, CreatePermission, Detach, At
    <2>2. Fail(h) \/ Written(h)
      BY <1>3 DEF CreateRole, Rename, DeleteRole, CreatePermission, Detach
    <2> QED
      BY <2>1, <2>2, FailRecording, WrittenRecording
  <1>4. ASSUME NEW h \in Handlers,
               \/ UpdateClash(h) \/ AttachNext(h) \/ AssignNext(h) \/ AssignInsert(h)
               \/ ListDone(h)
        PROVE  AllRecording'
    <2>1. req[h].pc # "audit"
      BY <1>4 DEF UpdateClash, AttachNext, AssignNext, AssignInsert, ListDone, At
    <2>2. Fail(h) \/ \E r : Recording(r) /\ Become(h, r)
      <3>1. CASE UpdateClash(h)
        <4>1. Recording([req[h] EXCEPT !.pc = "rename"])
          BY <1>1, <2>1 DEF Recording, Request
        <4> QED
          BY <3>1, <4>1 DEF UpdateClash
      <3>2. CASE AttachNext(h)
        <4>1. PICK p : \/ Fail(h)
                       \/ Become(h, [req[h] EXCEPT !.todo = @ \ {p}, !.dirty = TRUE])
          BY <3>2 DEF AttachNext
        <4>2. Recording([req[h] EXCEPT !.todo = @ \ {p}, !.dirty = TRUE])
          BY <1>1, <3>2 DEF AttachNext, At, Recording, Request
        <4> QED
          BY <4>1, <4>2
      <3>3. CASE AssignNext(h)
        <4>1. PICK r : \/ Fail(h)
                       \/ Become(h, [req[h] EXCEPT !.pc = "assignInsert", !.role = r,
                                                   !.todo = @ \ {r}])
          BY <3>3 DEF AssignNext
        <4>2. Recording([req[h] EXCEPT !.pc = "assignInsert", !.role = r, !.todo = @ \ {r}])
          BY <1>1, <3>3 DEF AssignNext, At, Recording, Request
        <4> QED
          BY <4>1, <4>2
      <3>4. CASE AssignInsert(h)
        <4>1. Recording([req[h] EXCEPT !.pc = "assign", !.dirty = TRUE])
          BY <1>1, <3>4 DEF AssignInsert, At, Recording, Request
        <4> QED
          BY <3>4, <4>1 DEF AssignInsert
      <3>5. CASE ListDone(h)
        <4>1. Recording([req[h] EXCEPT !.pc = "audit"])
          BY <1>1, <3>5 DEF Recording, Request
        <4> QED
          BY <3>5, <4>1 DEF ListDone
      <3> QED
        BY <1>4, <3>1, <3>2, <3>3, <3>4, <3>5
    <2> QED
      BY <2>1, <2>2, FailRecording, BecomeRecording
  <1>5. ASSUME NEW h \in Handlers, Audit(h)
        PROVE  AllRecording'
    <2>1. Recording(Idle)
      BY DEF Recording, Idle
    <2> QED
      BY <1>5, <2>1, BecomeRecording DEF Audit
  <1>6. ASSUME NEW h \in Handlers, Abort(h)
        PROVE  AllRecording'
    BY <1>6, FailRecording DEF Abort
  <1>7. ASSUME NEW n \in SystemRoles, AssignByName(n)
        PROVE  AllRecording'
    BY <1>7 DEF AssignByName, AllRecording, Recording
  <1>8. CASE UNCHANGED vars
    BY <1>8 DEF vars, AllRecording, Recording
  <1> QED
    BY <1>2, <1>3, <1>4, <1>5, <1>6, <1>7, <1>8 DEF Next

(* When no request dies with its record still to be written, only those    *)
(* that work through a list can change a table unrecorded                  *)
(* (attachPermissions, assignRolesToUser).                                 *)
THEOREM UnauditedOnlyLists ==
  ASSUME "audit" \notin Fragile
  PROVE  Spec => []OnlyListsGoUnaudited
  <1>1. Init => AllRecording
    BY DEF Init, AllRecording, Recording, Idle
  <1>2. Base /\ AllRecording /\ [Next]_vars => AllRecording'
    BY NextRecording
  <1>3. AllRecording => OnlyListsGoUnaudited
    BY DEF AllRecording, Recording, OnlyListsGoUnaudited, Unaudited, At, Lists
  <1> QED
    BY <1>1, <1>2, <1>3, BaseAlways, PTL DEF Spec
=============================================================================
