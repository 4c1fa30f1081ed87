------------------------- MODULE MemoryRolesProofs -------------------------
(***************************************************************************)
(* The memory storage does what Postgres would, until two requests          *)
(* overlap.  While they come one at a time, what a request looked up still  *)
(* stands when it writes (Stands) and no constraint is missed; and the      *)
(* index finds what a SELECT by name would, as it agrees with the rows      *)
(* (RoleIndex, PermIndex).  Of that Anyhow is what no interleaving breaks:  *)
(* an entry leads to a row of the name, and nobody takes a system role's.   *)
(***************************************************************************)
EXTENDS MemoryRoles, RbacProofs

RoleIndex ==
  /\ roleIdByName \in [Names -> Roles \cup {None}]
  /\ \A n \in Names, r \in Roles : roleIdByName[n] = r <=> roles[r] = n

PermIndex ==
  /\ permIdByName \in [PermNames -> Perms \cup {None}]
  /\ \A n \in PermNames, p \in Perms : permIdByName[n] = p <=> perms[p] = n

Free(r, n) == \A s \in Roles \ {r} : roles[s] # n

(* What the request with record r looked up still stands. *)
Stands(r) ==
  /\ r.pc \in {"clash", "rename", "delete", "attach", "assignInsert"} => r.role \in Existing
  /\ r.pc = "createRole" => ~RoleNamed(r.name)
  /\ r.pc = "rename" => Free(r.role, r.name)
  /\ r.pc = "createPermission" => ~PermNamed(r.name)

Serial ==
  /\ \A g, h \in Handlers : ~At(g, "idle") /\ ~At(h, "idle") => g = h
  /\ \A h \in Handlers : Stands(req[h])

Memory == Serial /\ RoleIndex /\ PermIndex

RoleSound ==
  /\ roleIdByName \in [Names -> Roles \cup {None}]
  /\ \A n \in Names, r \in Roles : roleIdByName[n] = r => roles[r] = n

PermSound ==
  /\ permIdByName \in [PermNames -> Perms \cup {None}]
  /\ \A n \in PermNames, p \in Perms : permIdByName[n] = p => perms[p] = n

SystemSole ==
  \A n \in SystemRoles :
    roleIdByName[n] = n /\ \A r \in Roles : roles[r] = n => r = n

(* The request with record r will not take the name of a system role. *)
Respects(r) ==
  r.pc \in {"createRole", "rename"} =>
    r.name \notin SystemRoles \/ (r.pc = "rename" /\ r.role = r.name)

NamesOK == TablesType /\ RolesOK /\ RoleSound /\ PermSound /\ SystemSole

Anyhow == NamesOK /\ RequestsOK /\ \A h \in Handlers : Respects(req[h])

StoreInv ==
  /\ store \in Stores
  /\ overlap \in BOOLEAN
  /\ store = "postgres" => Base /\ ~overlap
  /\ store = "memory" => Anyhow
  /\ store = "memory" /\ ~overlap => Base /\ Memory

LEMMA FoundRole ==
  ASSUME TablesOK, RoleIndex, NEW n \in Names
  PROVE  /\ FindRole(n) = None => ~RoleNamed(n)
         /\ FindRole(n) # None => FindRole(n) \in Roles /\ roles[FindRole(n)] = n
  BY NoneIsNew DEF TablesOK, TablesType, RoleIndex, FindRole, RoleNamed, Existing

LEMMA FoundPerm ==
  ASSUME TablesOK, PermIndex, NEW n \in PermNames, FindPerm(n) = None
  PROVE  ~PermNamed(n)
  BY NoneIsNew DEF TablesOK, TablesType, PermIndex, FindPerm, PermNamed, Known

(* A step of the only request: the others hold nothing. *)
LEMMA Moves ==
  ASSUME RequestsOK, Serial, NEW h \in Handlers, Alone(h), NEW r, Become(h, r),
         Stands(req[h])'
  PROVE  Serial'
  <1>1. \A g \in Handlers \ {h} : req'[g] = req[g] /\ req[g].pc = "idle"
    BY DEF RequestsOK, Become, Alone, At
  <1>2. \A g \in Handlers \ {h} : Stands(req[g])'
    BY <1>1 DEF Stands
  <1> QED
    BY <1>1, <1>2 DEF Serial, At

LEMMA Became ==
  ASSUME RequestsOK, NEW h \in Handlers, NEW r, Become(h, r)
  PROVE  req'[h] = r
  BY DEF RequestsOK, Become

(* A request that ends or comes to its record holds nothing more. *)
LEMMA Finishes ==
  ASSUME RequestsOK, Serial, NEW h \in Handlers, Alone(h),
         Fail(h) \/ Written(h) \/ Audit(h) \/ ListDone(h)
  PROVE  Serial'
  <1>1. req[h] \in Request
    BY DEF RequestsOK
  <1>2. ASSUME NEW r, Become(h, r), r.pc \in {"idle", "audit"}
        PROVE  Serial'
    <2>1. Stands(req[h])'
      BY <1>2, Became DEF Stands
    <2> QED
      BY <1>2, <2>1, Moves
  <1> DEFINE kept == [Idle EXCEPT !.flow = req[h].flow, !.dirty = TRUE]
             written == [req[h] EXCEPT !.pc = "audit", !.dirty = TRUE]
             done == [req[h] EXCEPT !.pc = "audit"]
  <1>3. kept.pc = "idle" /\ Idle.pc = "idle"
    BY DEF Idle
  <1>4. written.pc = "audit" /\ done.pc = "audit"
    BY <1>1 DEF Request
  <1>5. Become(h, kept) \/ Become(h, Idle) \/ Become(h, written) \/ Become(h, done)
    BY DEF Fail, Written, Audit, ListDone
  <1> HIDE DEF kept, written, done
  <1> QED
    BY <1>2, <1>3, <1>4, <1>5

-----------------------------------------------------------------------------
(* Each step over the maps is one of Rbac, and keeps the index true.       *)

Goal == Next /\ Memory'

LEMMA CreateRoleSteps ==
  ASSUME Base, Memory, NEW h \in Handlers, Alone(h),
         MemCreateRoleFind(h) \/ MemCreateRole(h)
  PROVE  Goal
  <1> USE DEF Base, Memory
  <1>1. CASE MemCreateRoleFind(h)
    <2>1. PICK n \in Names :
            /\ FindRole(n) = None
            /\ Start(h, "createRole", [Idle EXCEPT !.pc = "createRole", !.name = n])
      BY <1>1 DEF MemCreateRoleFind
    <2>2. ~RoleNamed(n) /\ UNCHANGED Tables /\ UNCHANGED index
      BY <1>1, <2>1, FoundRole DEF MemCreateRoleFind
    <2>3. CreateRoleFind(h)
      BY <1>1, <2>1, <2>2 DEF MemCreateRoleFind, CreateRoleFind
    <2> DEFINE r == [[Idle EXCEPT !.pc = "createRole", !.name = n] EXCEPT !.flow = "createRole"]
    <2>4. Become(h, r) /\ r.pc = "createRole" /\ r.name = n
      BY <2>1 DEF Start, Idle
    <2> HIDE DEF r
    <2>5. Stands(req[h])'
      BY <2>2, <2>4, Became DEF Stands, RoleNamed, Tables
    <2>6. RoleIndex' /\ PermIndex'
      BY <2>2 DEF RoleIndex, PermIndex, Tables, index
    <2> QED
      BY <2>3, <2>4, <2>5, <2>6, Moves DEF Goal, Next
  <1>2. CASE MemCreateRole(h)
    <2> DEFINE n == req[h].name
    <2>1. ~RoleNamed(n) /\ n \in Names
      BY <1>2 DEF MemCreateRole, At, Serial, Stands, RequestsOK, Grounded
    <2>2. PICK r \in Roles \ made :
            /\ roles' = [roles EXCEPT ![r] = n]
            /\ made' = made \cup {r}
            /\ roleIdByName' = [roleIdByName EXCEPT ![n] = r]
      BY <1>2 DEF MemCreateRole
    <2>3. CreateRole(h)
      BY <1>2, <2>1, <2>2 DEF MemCreateRole, CreateRole, Refused
    <2>4. roles[r] = None
      BY <2>2 DEF TablesOK, RolesOK, Existing
    <2>5. RoleIndex'
      BY <2>1, <2>2, <2>4, NoneIsNew DEF RoleIndex, RoleNamed, TablesOK, TablesType
    <2>6. PermIndex'
      BY <1>2 DEF MemCreateRole, PermIndex
    <2> QED
      BY <1>2, <2>3, <2>5, <2>6, Finishes DEF MemCreateRole, Goal, Next
  <1> QED
    BY <1>1, <1>2

LEMMA RenameSteps ==
  ASSUME Base, Memory, NEW h \in Handlers, Alone(h),
         MemUpdateClash(h) \/ MemRename(h)
  PROVE  Goal
  <1> USE DEF Base, Memory
  <1>0. /\ req[h].pc \in {"clash", "rename"} /\ req[h].name \in Names
        /\ req[h].role \in Existing /\ req[h] \in Request
    BY DEF MemUpdateClash, MemRename, At, Serial, Stands, RequestsOK, Grounded
  <1>r. PICK r \in Roles, n \in Names : r = req[h].role /\ n = req[h].name
    BY <1>0 DEF Existing
  <1>1. r \in Existing /\ req[h] \in Request /\ r = req[h].role /\ n = req[h].name
    BY <1>0, <1>r
  <1>2. CASE MemUpdateClash(h)
    <2>1. FindRole(n) \notin {None, r} <=> ~Free(r, n)
      BY <1>1, FoundRole DEF Free, RoleNamed, RoleIndex
    <2>2. UpdateClash(h) /\ UNCHANGED Tables /\ UNCHANGED index
      BY <1>1, <1>2, <2>1 DEF MemUpdateClash, UpdateClash, Free
    <2>3. RoleIndex' /\ PermIndex'
      BY <2>2 DEF RoleIndex, PermIndex, Tables, index
    <2>4. CASE Fail(h)
      BY <2>2, <2>3, <2>4, Finishes DEF Goal, Next
    <2>5. CASE ~Fail(h)
      <3> DEFINE s == [req[h] EXCEPT !.pc = "rename"]
      <3>1. Become(h, s) /\ Free(r, n)
        BY <1>1, <1>2, <2>1, <2>5 DEF MemUpdateClash
      <3>2. s.pc = "rename" /\ s.role = r /\ s.name = n
        BY <1>1 DEF Request
      <3> HIDE DEF s
      <3>3. req'[h].pc = "rename" /\ req'[h].role = r /\ req'[h].name = n
        BY <3>1, <3>2, Became
      <3>4. r \in Existing' /\ Free(r, n)'
        BY <1>1, <2>2, <3>1 DEF Free, Existing, Tables
      <3>5. Stands(req[h])'
        BY <3>3, <3>4 DEF Stands
      <3> QED
        BY <2>2, <2>3, <3>1, <3>5, Moves DEF Goal, Next
    <2> QED
      BY <2>4, <2>5
  <1>3. CASE MemRename(h)
    <2>1. Free(r, n)
      BY <1>1, <1>3 DEF MemRename, At, Serial, Stands
    <2>2. Written(h) /\ roles' = [roles EXCEPT ![r] = n]
      BY <1>1, <1>3 DEF MemRename, TablesOK, TablesType
    <2>3. Rename(h)
      BY <1>1, <1>3, <2>1, <2>2 DEF MemRename, Rename, Refused, Free
    <2>4. ASSUME roles[r] = n PROVE RoleIndex'
      <3>1. roles' = roles /\ roleIdByName' = roleIdByName
        BY <1>1, <1>3, <2>2, <2>4 DEF MemRename, TablesOK, TablesType
      <3> QED
        BY <3>1 DEF RoleIndex
    <2>5. ASSUME roles[r] # n PROVE RoleIndex'
      <3>1. roleIdByName' = [roleIdByName EXCEPT ![roles[r]] = None, ![n] = r]
        BY <1>1, <1>3, <2>5 DEF MemRename, Reindexed
      <3>2. roles[r] \in Names
        BY <1>1 DEF Existing, TablesOK, TablesType
      <3> QED
        BY <1>1, <2>1, <2>2, <2>5, <3>1, <3>2, NoneIsNew
           DEF RoleIndex, Free, TablesOK, TablesType
    <2>6. PermIndex'
      BY <1>3 DEF MemRename, PermIndex
    <2> QED
      BY <2>2, <2>3, <2>4, <2>5, <2>6, Finishes DEF Goal, Next
  <1> QED
    BY <1>2, <1>3

LEMMA DeleteStep ==
  ASSUME Base, Memory, NEW h \in Handlers, Alone(h), MemDeleteRole(h)
  PROVE  Goal
  <1> USE DEF Base, Memory
  <1> DEFINE r == req[h].role
  <1>1. r \in Existing /\ r \in Roles
    BY DEF MemDeleteRole, At, Serial, Stands, Existing
  <1>2. /\ roles' = [roles EXCEPT ![r] = None]
        /\ roleIdByName' = [roleIdByName EXCEPT ![roles[r]] = None]
        /\ grants' = {g \in grants : g[1] # r}
        /\ assigned' = {a \in assigned : a[2] # r}
        /\ Written(h)
    BY <1>1 DEF MemDeleteRole
  <1>3. \A g \in grants : g[2] # r
    BY <1>1, IdsDiffer DEF TablesOK, NoDanglingRows, Known
  <1>4. \A a \in assigned : a[1] # r
    BY <1>1, IdsDiffer DEF TablesOK, NoDanglingRows
  <1>5. grants' = Cascade(grants, r) /\ assigned' = Cascade(assigned, r)
    BY <1>2, <1>3, <1>4 DEF Cascade
  <1>6. DeleteRole(h)
    BY <1>2, <1>5 DEF MemDeleteRole, DeleteRole
  <1>7. roles[r] \in Names
    BY <1>1 DEF Existing, TablesOK, TablesType
  <1>8. RoleIndex'
    BY <1>1, <1>2, <1>7, NoneIsNew DEF RoleIndex, TablesOK, TablesType
  <1>9. PermIndex'
    BY DEF MemDeleteRole, PermIndex
  <1> QED
    BY <1>2, <1>6, <1>8, <1>9, Finishes DEF Goal, Next

LEMMA CreatePermissionSteps ==
  ASSUME Base, Memory, NEW h \in Handlers, Alone(h),
         MemCreatePermissionFind(h) \/ MemCreatePermission(h)
  PROVE  Goal
  <1> USE DEF Base, Memory
  <1>1. CASE MemCreatePermissionFind(h)
    <2>1. PICK n \in PermNames :
            /\ FindPerm(n) = None
            /\ Start(h, "createPermission",
                     [Idle EXCEPT !.pc = "createPermission", !.name = n])
      BY <1>1 DEF MemCreatePermissionFind
    <2>2. ~PermNamed(n) /\ UNCHANGED Tables /\ UNCHANGED index
      BY <1>1, <2>1, FoundPerm DEF MemCreatePermissionFind
    <2>3. CreatePermissionFind(h)
      BY <1>1, <2>1, <2>2 DEF MemCreatePermissionFind, CreatePermissionFind
    <2> DEFINE r == [[Idle EXCEPT !.pc = "createPermission", !.name = n]
                       EXCEPT !.flow = "createPermission"]
    <2>4. Become(h, r) /\ r.pc = "createPermission" /\ r.name = n
      BY <2>1 DEF Start, Idle
    <2> HIDE DEF r
    <2>5. Stands(req[h])'
      BY <2>2, <2>4, Became DEF Stands, PermNamed, Tables
    <2>6. RoleIndex' /\ PermIndex'
      BY <2>2 DEF RoleIndex, PermIndex, Tables, index
    <2> QED
      BY <2>3, <2>4, <2>5, <2>6, Moves DEF Goal, Next
  <1>2. CASE MemCreatePermission(h)
    <2> DEFINE n == req[h].name
    <2>1. ~PermNamed(n) /\ n \in PermNames
      BY <1>2 DEF MemCreatePermission, At, Serial, Stands, RequestsOK, Grounded
    <2>2. PICK p \in Perms \ Known :
            /\ perms' = [perms EXCEPT ![p] = n]
            /\ permIdByName' = [permIdByName EXCEPT ![n] = p]
      BY <1>2 DEF MemCreatePermission
    <2>3. CreatePermission(h)
      BY <1>2, <2>1, <2>2 DEF MemCreatePermission, CreatePermission, Refused
    <2>4. PermIndex'
      BY <2>1, <2>2, NoneIsNew DEF PermIndex, PermNamed, Known, TablesOK, TablesType
    <2>5. RoleIndex'
      BY <1>2 DEF MemCreatePermission, RoleIndex
    <2> QED
      BY <1>2, <2>3, <2>4, <2>5, Finishes DEF MemCreatePermission, Goal, Next
  <1> QED
    BY <1>1, <1>2

-----------------------------------------------------------------------------
(* The lists, and the steps that both storages share.                      *)

SameNames == UNCHANGED <<roles, perms, roleIdByName, permIdByName>>

LEMMA IndexKept ==
  ASSUME RoleIndex, PermIndex, SameNames
  PROVE  RoleIndex' /\ PermIndex'
  BY DEF RoleIndex, PermIndex, SameNames

LEMMA ListSteps ==
  ASSUME Base, Memory, NEW h \in Handlers, Alone(h),
         MemAttachNext(h) \/ MemAssignInsert(h)
  PROVE  Goal
  <1> USE DEF Base, Memory
  <1>1. req[h] \in Request /\ req[h].role \in Existing
    BY DEF MemAttachNext, MemAssignInsert, At, Serial, Stands, RequestsOK
  <1>2. SameNames
    BY DEF MemAttachNext, MemAssignInsert, SameNames, index
  <1>3. CASE MemAttachNext(h)
    <2>1. AttachNext(h)
      BY <1>1, <1>3 DEF MemAttachNext, AttachNext, Granted
    <2>2. CASE Fail(h)
      BY <1>2, <2>1, <2>2, Finishes, IndexKept DEF Goal, Next
    <2>3. CASE ~Fail(h)
      <3>1. PICK p \in req[h].todo :
              Become(h, [req[h] EXCEPT !.todo = @ \ {p}, !.dirty = TRUE])
        BY <1>3, <2>3 DEF MemAttachNext
      <3> DEFINE s == [req[h] EXCEPT !.todo = @ \ {p}, !.dirty = TRUE]
      <3>2. s.pc = "attach" /\ s.role = req[h].role
        BY <1>1, <1>3 DEF MemAttachNext, At, Request
      <3> HIDE DEF s
      <3>3. req'[h] = s
        BY <3>1, Became DEF s
      <3>4. Stands(req[h])'
        BY <1>1, <1>2, <3>2, <3>3 DEF Stands, SameNames, Existing
      <3>5. Become(h, s)
        BY <3>1 DEF s
      <3> QED
        BY <1>2, <2>1, <3>4, <3>5, Moves, IndexKept DEF Goal, Next
    <2> QED
      BY <2>2, <2>3
  <1>4. CASE MemAssignInsert(h)
    <2>1. AssignInsert(h)
      BY <1>1, <1>4 DEF MemAssignInsert, AssignInsert, Added, index
    <2> DEFINE s == [req[h] EXCEPT !.pc = "assign", !.dirty = TRUE]
    <2>2. Become(h, s) /\ s.pc = "assign"
      BY <1>1, <1>4 DEF MemAssignInsert, Request
    <2> HIDE DEF s
    <2>3. Stands(req[h])'
      BY <2>2, Became DEF Stands
    <2> QED
      BY <1>2, <2>1, <2>2, <2>3, Moves, IndexKept DEF Goal, Next
  <1> QED
    BY <1>3, <1>4

LEMMA SharedSteps ==
  ASSUME Base, Memory, NEW h \in Handlers, Alone(h), Shared(h), UNCHANGED index
  PROVE  Goal
  <1> USE DEF Base, Memory
  <1>1. SameNames
    BY DEF Shared, SameNames, index, Tables, UpdateFind, DeleteFind, AttachFind,
           DetachFind, Detach, AssignFind, AssignNext, ListDone, Revoke, Audit
  <1>2. Next
    BY DEF Shared, Next
  <1>3. ASSUME NEW r, Become(h, r),
               \/ r.pc \in {"clash", "delete", "attach"} /\ r.role \in Existing
               \/ r.pc = "rename" /\ r.role \in Existing /\ Free(r.role, r.name)
               \/ r.pc \in {"detach", "assign", "audit"}
        PROVE  Goal
    <2>1. Stands(req[h])'
      BY <1>1, <1>3, Became DEF Stands, SameNames, Existing, Free
    <2> QED
      BY <1>1, <1>2, <1>3, <2>1, Moves, IndexKept DEF Goal
  <1>4. CASE \/ UpdateFind(h) \/ DeleteFind(h) \/ AttachFind(h)
             \/ DetachFind(h) \/ AssignFind(h) \/ Revoke(h)
    <2>1. CASE UpdateFind(h)
      <3>1. PICK r \in Existing, n \in Names :
              /\ MayEdit(r) \/ n = roles[r]
              /\ Start(h, "updateRole",
                       [Idle EXCEPT !.pc = IF n = roles[r] THEN "rename" ELSE "clash",
                                    !.role = r, !.name = n])
        BY <2>1 DEF UpdateFind
      <3> DEFINE s == [[Idle EXCEPT !.pc = IF n = roles[r] THEN "rename" ELSE "clash",
                                    !.role = r, !.name = n]
                         EXCEPT !.flow = "updateRole"]
      <3>2. /\ Become(h, s) /\ s.role = r /\ s.name = n
            /\ s.pc = IF n = roles[r] THEN "rename" ELSE "clash"
        BY <3>1 DEF Start, Idle
      <3>3. n = roles[r] => Free(r, n)
        BY DEF TablesOK, NamesUnique, Free, Existing
      <3> HIDE DEF s
      <3> QED
        BY <1>3, <3>2, <3>3
    <2>2. CASE DeleteFind(h)
      <3>1. PICK r \in Roles :
              /\ MayEdit(r)
              /\ Start(h, "deleteRole", [Idle EXCEPT !.pc = "delete", !.role = r])
        BY <2>2 DEF DeleteFind
      <3> DEFINE s == [[Idle EXCEPT !.pc = "delete", !.role = r] EXCEPT !.flow = "deleteRole"]
      <3>2. Become(h, s) /\ s.pc = "delete" /\ s.role \in Existing
        BY <3>1 DEF Start, Idle, MayEdit
      <3> QED
        BY <1>3, <3>2
    <2>3. CASE AttachFind(h)
      <3>1. PICK r \in Existing, list \in SUBSET Perms :
              Start(h, "attachPermissions",
                    [Idle EXCEPT !.pc = "attach", !.role = r, !.todo = list])
        BY <2>3 DEF AttachFind
      <3> DEFINE s == [[Idle EXCEPT !.pc = "attach", !.role = r, !.todo = list]
                         EXCEPT !.flow = "attachPermissions"]
      <3>2. Become(h, s) /\ s.pc = "attach" /\ s.role \in Existing
        BY <3>1 DEF Start, Idle
      <3> QED
        BY <1>3, <3>2
    <2>4. CASE DetachFind(h)
      <3>1. PICK r \in Existing, p \in Perms :
              Start(h, "detachPermission",
                    [Idle EXCEPT !.pc = "detach", !.role = r, !.perm = p])
        BY <2>4 DEF DetachFind
      <3> DEFINE s == [[Idle EXCEPT !.pc = "detach", !.role = r, !.perm = p]
                         EXCEPT !.flow = "detachPermission"]
      <3>2. Become(h, s) /\ s.pc = "detach"
        BY <3>1 DEF Start, Idle
      <3> QED
        BY <1>3, <3>2
    <2>5. CASE AssignFind(h)
      <3>1. PICK u \in Users, list \in SUBSET Roles :
              Start(h, "assignRolesToUser",
                    [Idle EXCEPT !.pc = "assign", !.user = u, !.todo = list])
        BY <2>5 DEF AssignFind
      <3> DEFINE s == [[Idle EXCEPT !.pc = "assign", !.user = u, !.todo = list]
                         EXCEPT !.flow = "assignRolesToUser"]
      <3>2. Become(h, s) /\ s.pc = "assign"
        BY <3>1 DEF Start, Idle
      <3> QED
        BY <1>3, <3>2
    <2>6. CASE Revoke(h)
      <3> DEFINE s == [[Idle EXCEPT !.pc = "audit", !.dirty = TRUE]
                         EXCEPT !.flow = "revokeRoleFromUser"]
      <3>1. Become(h, s) /\ s.pc = "audit"
        BY <2>6 DEF Revoke, Start, Idle
      <3> QED
        BY <1>3, <3>1
    <2> QED
      BY <1>4, <2>1, <2>2, <2>3, <2>4, <2>5, <2>6
  <1>5. CASE Detach(h) \/ ListDone(h) \/ Audit(h)
    BY <1>1, <1>2, <1>5, Finishes, IndexKept DEF Detach, Goal
  <1>6. CASE AssignNext(h)
    <2>1. CASE Fail(h)
      BY <1>1, <1>2, <2>1, Finishes, IndexKept DEF Goal
    <2>2. CASE ~Fail(h)
      <3>1. PICK r \in req[h].todo :
              /\ r \in Existing
              /\ Become(h, [req[h] EXCEPT !.pc = "assignInsert", !.role = r, !.todo = @ \ {r}])
        BY <1>6, <2>2 DEF AssignNext
      <3> DEFINE s == [req[h] EXCEPT !.pc = "assignInsert", !.role = r, !.todo = @ \ {r}]
      <3>2. req[h] \in Request
        BY DEF RequestsOK
      <3>3. s.pc = "assignInsert" /\ s.role = r
        BY <3>2 DEF Request
      <3>4. Become(h, s)
        BY <3>1
      <3> HIDE DEF s
      <3>5. Stands(req[h])'
        BY <1>1, <3>1, <3>3, <3>4, Became DEF Stands, SameNames, Existing
      <3> QED
        BY <1>1, <1>2, <3>4, <3>5, Moves, IndexKept DEF Goal
    <2> QED
      BY <2>1, <2>2
  <1> QED
    BY <1>4, <1>5, <1>6 DEF Shared

LEMMA AssignByNameStep ==
  ASSUME Base, Memory, NEW n \in SystemRoles, MemAssignByName(n)
  PROVE  Goal
  <1> USE DEF Base, Memory
  <1>1. n \in Names
    BY DEF Names
  <1>2. roleIdByName[n] \in Roles /\ roles[roleIdByName[n]] = n
    BY <1>1 DEF RoleIndex, MemAssignByName
  <1>3. AssignByName(n)
    BY <1>2 DEF MemAssignByName, AssignByName, Added
  <1>4. SameNames /\ req' = req
    BY DEF MemAssignByName, SameNames, index
  <1>5. Serial'
    BY <1>4 DEF Serial, At, Stands, SameNames, Existing, RoleNamed, PermNamed, Free
  <1> QED
    BY <1>3, <1>4, <1>5, IndexKept DEF Goal, Next

-----------------------------------------------------------------------------
LEMMA MemorySteps ==
  ASSUME Base, Memory, MemNext, ~overlap'
  PROVE  Next /\ Base' /\ Memory'
  <1>1. ASSUME NEW h \in Handlers, MemStep(h), Alone(h)
        PROVE  Goal
    BY <1>1, CreateRoleSteps, RenameSteps, DeleteStep, CreatePermissionSteps, ListSteps,
       SharedSteps DEF MemStep
  <1>2. Goal
    BY <1>1, AssignByNameStep DEF MemNext
  <1> QED
    BY <1>2, NextRequests, NextTables DEF Goal, Base

-----------------------------------------------------------------------------
(* What no interleaving breaks.                                            *)

LEMMA NamesKept ==
  ASSUME NamesOK, UNCHANGED <<roles, made, perms, index>>
  PROVE  NamesOK'
  BY DEF NamesOK, TablesType, RolesOK, RoleSound, PermSound, SystemSole, Existing, index

LEMMA BecomeRespects ==
  ASSUME Anyhow, NEW h \in Handlers, NEW r, Respects(r), Become(h, r)
  PROVE  \A g \in Handlers : Respects(req'[g])
  BY DEF Anyhow, RequestsOK, Become

LEMMA EndRespects ==
  ASSUME Anyhow, NEW h \in Handlers, Fail(h) \/ Written(h)
  PROVE  RequestsOK' /\ \A g \in Handlers : Respects(req'[g])
  <1> DEFINE kept == [Idle EXCEPT !.flow = req[h].flow, !.dirty = TRUE]
             written == [req[h] EXCEPT !.pc = "audit", !.dirty = TRUE]
  <1>1. kept.pc = "idle" /\ Idle.pc = "idle"
    BY DEF Idle
  <1>2. written.pc = "audit"
    BY DEF Anyhow, RequestsOK, Request
  <1>3. Respects(kept) /\ Respects(Idle) /\ Respects(written)
    BY <1>1, <1>2 DEF Respects
  <1>4. Become(h, kept) \/ Become(h, Idle) \/ Become(h, written)
    BY DEF Fail, Written
  <1> HIDE DEF kept, written
  <1> QED
    BY <1>3, <1>4, BecomeRespects, FailKeeps, WrittenKeeps DEF Anyhow

LEMMA FoundSystem ==
  ASSUME NamesOK, NEW n \in SystemRoles
  PROVE  FindRole(n) = n
  BY NoneIsNew DEF NamesOK, SystemSole, RolesOK, FindRole, Existing, Roles, Names

LEMMA AnyCreateRole ==
  ASSUME Anyhow, NEW h \in Handlers, MemCreateRoleFind(h) \/ MemCreateRole(h)
  PROVE  Anyhow'
  <1> USE DEF Anyhow
  <1>1. CASE MemCreateRoleFind(h)
    <2>1. PICK n \in Names :
            /\ FindRole(n) = None
            /\ Start(h, "createRole", [Idle EXCEPT !.pc = "createRole", !.name = n])
      BY <1>1 DEF MemCreateRoleFind
    <2>2. n \notin SystemRoles
      BY <2>1, FoundSystem, NoneIsNew DEF Names
    <2> DEFINE r == [Idle EXCEPT !.pc = "createRole", !.name = n]
    <2>3. r \in Request /\ Grounded(r)
      BY DEF Idle, Request, Grounded, Pc, Flow
    <2>4. RequestsOK'
      BY <2>1, <2>3, StartKeeps DEF Flow
    <2>5. Respects([r EXCEPT !.flow = "createRole"])
      BY <2>2 DEF Respects, Idle
    <2>6. \A g \in Handlers : Respects(req'[g])
      BY <2>1, <2>5, BecomeRespects DEF Start
    <2> QED
      BY <1>1, <2>4, <2>6, NamesKept DEF MemCreateRoleFind, Tables, index
  <1>2. CASE MemCreateRole(h)
    <2> DEFINE n == req[h].name
    <2>1. n \in Names /\ n \notin SystemRoles
      BY <1>2 DEF MemCreateRole, At, RequestsOK, Grounded, Respects
    <2>2. PICK r \in Roles \ made :
            /\ roles' = [roles EXCEPT ![r] = n]
            /\ made' = made \cup {r}
            /\ roleIdByName' = [roleIdByName EXCEPT ![n] = r]
            /\ perms' = perms /\ permIdByName' = permIdByName
      BY <1>2 DEF MemCreateRole
    <2>3. roles[r] = None /\ r \notin SystemRoles
      BY <2>2, NoneIsNew DEF NamesOK, RolesOK, Existing, Roles, Names
    <2>4. TablesType' /\ PermSound'
      BY <2>1, <2>2 DEF NamesOK, TablesType, PermSound
    <2>5. RolesOK'
      BY <2>2, <2>3 DEF NamesOK, TablesType, RolesOK, Existing
    <2>6. RoleSound'
      BY <2>1, <2>2, <2>3, NoneIsNew DEF NamesOK, TablesType, RoleSound
    <2>7. SystemSole'
      BY <2>1, <2>2, <2>3 DEF NamesOK, TablesType, RoleSound, SystemSole, Names
    <2> QED
      BY <1>2, <2>4, <2>5, <2>6, <2>7, EndRespects DEF MemCreateRole, NamesOK
  <1> QED
    BY <1>1, <1>2

(* A custom role leaves its name, for one that no system role has.         *)
LEMMA AnyRenamed ==
  ASSUME NamesOK, NEW r \in Existing \ SystemRoles, NEW n \in (Names \ SystemRoles) \cup {None},
         roles' = [roles EXCEPT ![r] = n],
         \/ n = None /\ roleIdByName' = [roleIdByName EXCEPT ![roles[r]] = None]
         \/ /\ n # None /\ roles[r] # n
            /\ roleIdByName' = [roleIdByName EXCEPT ![roles[r]] = None, ![n] = r],
         UNCHANGED <<made, perms, permIdByName>>
  PROVE  NamesOK'
  <1> USE DEF NamesOK
  <1>1. r \in Roles /\ roles[r] \in Names \ SystemRoles
    BY DEF Existing, TablesType, SystemSole
  <1>2. TablesType' /\ PermSound'
    BY DEF TablesType, PermSound
  <1>3. RolesOK'
    BY <1>1 DEF TablesType, RolesOK, Existing
  <1>4. RoleSound'
    <2>1. roleIdByName' \in [Names -> Roles \cup {None}]
      BY <1>1 DEF RoleSound
    <2>2. \A m \in Names, s \in Roles : roleIdByName'[m] = s => roles'[s] = m
      BY <1>1, NoneIsNew DEF TablesType, RoleSound
    <2> QED
      BY <2>1, <2>2 DEF RoleSound
  <1>5. SystemSole'
    BY <1>1, NoneIsNew DEF TablesType, RoleSound, SystemSole, Names
  <1> QED
    BY <1>2, <1>3, <1>4, <1>5

LEMMA AnyRename ==
  ASSUME Anyhow, NEW h \in Handlers, MemUpdateClash(h) \/ MemRename(h)
  PROVE  Anyhow'
  <1> USE DEF Anyhow
  <1>0. req[h] \in Request /\ Grounded(req[h]) /\ Respects(req[h])
    BY DEF RequestsOK
  <1>1. CASE MemUpdateClash(h)
    <2>1. NamesOK'
      BY <1>1, NamesKept DEF MemUpdateClash, Tables, index
    <2>2. CASE Fail(h)
      BY <2>1, <2>2, EndRespects
    <2>3. CASE ~Fail(h)
      <3> DEFINE s == [req[h] EXCEPT !.pc = "rename"]
      <3>1. Become(h, s) /\ FindRole(req[h].name) \in {None, req[h].role}
        BY <1>1, <2>3 DEF MemUpdateClash
      <3>2. /\ s.pc = "rename" /\ s.role = req[h].role /\ s.name = req[h].name
            /\ s \in Request /\ Grounded(s)
        BY <1>0, <1>1 DEF MemUpdateClash, At, Request, Grounded, Pc
      <3>3. Respects(s)
        BY <3>1, <3>2, FoundSystem, NoneIsNew DEF Respects, Names
      <3> HIDE DEF s
      <3> QED
        BY <2>1, <3>1, <3>2, <3>3, BecomeRespects, BecomeKeeps
    <2> QED
      BY <2>2, <2>3
  <1>2. CASE MemRename(h)
    <2>1. PICK r, n : r = req[h].role /\ n = req[h].name
      OBVIOUS
    <2>2. Fail(h) \/ Written(h)
      BY <1>2 DEF MemRename
    <2>3. CASE UNCHANGED <<roles, roleIdByName>>
      BY <1>2, <2>2, <2>3, NamesKept, EndRespects DEF MemRename, index
    <2>4. CASE ~UNCHANGED <<roles, roleIdByName>>
      <3>1. /\ r \in Existing /\ roles[r] # n
            /\ roleIdByName' = [roleIdByName EXCEPT ![roles[r]] = None, ![n] = r]
            /\ roles' = [roles EXCEPT ![r] = n]
            /\ UNCHANGED <<made, perms, permIdByName>>
        BY <1>2, <2>1, <2>4 DEF MemRename, Reindexed
      <3>2. n \in Names /\ (n \notin SystemRoles \/ r = n)
        BY <1>0, <1>2, <2>1 DEF MemRename, At, Grounded, Respects
      <3>3. r \notin SystemRoles
        BY <1>0, <1>2, <2>1, <3>1, NoneIsNew DEF MemRename, At, Grounded, NamesOK, RolesOK
      <3>4. n \notin SystemRoles
        BY <3>2, <3>3
      <3>5. NamesOK'
        BY <3>1, <3>2, <3>3, <3>4, NoneIsNew, AnyRenamed
      <3> QED
        BY <2>2, <3>5, EndRespects
    <2> QED
      BY <2>3, <2>4
  <1> QED
    BY <1>1, <1>2

LEMMA AnyDelete ==
  ASSUME Anyhow, NEW h \in Handlers, MemDeleteRole(h)
  PROVE  Anyhow'
  <1> USE DEF Anyhow
  <1>1. PICK r : r = req[h].role
    OBVIOUS
  <1>2. r \in CustomRoles
    BY <1>1 DEF MemDeleteRole, At, RequestsOK, Grounded
  <1>3. NamesOK'
    <2>1. CASE r \notin Existing
      BY <1>1, <2>1, NamesKept DEF MemDeleteRole, index
    <2>2. CASE r \in Existing
      <3>1. r \in Existing \ SystemRoles
        BY <1>2, <2>2, NoneIsNew
      <3> QED
        BY <1>1, <3>1, AnyRenamed DEF MemDeleteRole
    <2> QED
      BY <2>1, <2>2
  <1> QED
    BY <1>3, EndRespects DEF MemDeleteRole

LEMMA AnyCreatePermission ==
  ASSUME Anyhow, NEW h \in Handlers, MemCreatePermissionFind(h) \/ MemCreatePermission(h)
  PROVE  Anyhow'
  <1> USE DEF Anyhow
  <1>1. CASE MemCreatePermissionFind(h)
    <2>1. PICK n \in PermNames :
            Start(h, "createPermission", [Idle EXCEPT !.pc = "createPermission", !.name = n])
      BY <1>1 DEF MemCreatePermissionFind
    <2> DEFINE r == [Idle EXCEPT !.pc = "createPermission", !.name = n]
    <2>2. r \in Request /\ Grounded(r)
      BY DEF Idle, Request, Grounded, Pc, Flow
    <2>3. RequestsOK'
      BY <2>1, <2>2, StartKeeps DEF Flow
    <2>4. Respects([r EXCEPT !.flow = "createPermission"])
      BY DEF Respects, Idle
    <2>5. \A g \in Handlers : Respects(req'[g])
      BY <2>1, <2>4, BecomeRespects DEF Start
    <2> QED
      BY <1>1, <2>3, <2>5, NamesKept DEF MemCreatePermissionFind, Tables, index
  <1>2. CASE MemCreatePermission(h)
    <2> DEFINE n == req[h].name
    <2>1. n \in PermNames
      BY <1>2 DEF MemCreatePermission, At, RequestsOK, Grounded
    <2>2. PICK p \in Perms \ Known :
            /\ perms' = [perms EXCEPT ![p] = n]
            /\ permIdByName' = [permIdByName EXCEPT ![n] = p]
            /\ UNCHANGED <<roles, made, roleIdByName>>
      BY <1>2 DEF MemCreatePermission
    <2>3. TablesType' /\ RolesOK' /\ RoleSound' /\ SystemSole'
      BY <2>1, <2>2 DEF NamesOK, TablesType, RolesOK, RoleSound, SystemSole, Existing
    <2>4. PermSound'
      BY <2>1, <2>2, NoneIsNew DEF NamesOK, TablesType, PermSound, Known
    <2> QED
      BY <1>2, <2>3, <2>4, EndRespects DEF MemCreatePermission, NamesOK
  <1> QED
    BY <1>1, <1>2

LEMMA AnyOther ==
  ASSUME Anyhow, NEW h \in Handlers,
         \/ MemAttachNext(h) \/ MemAssignInsert(h)
         \/ Shared(h) /\ UNCHANGED index
  PROVE  Anyhow'
  <1> USE DEF Anyhow
  <1>0. req[h] \in Request /\ Grounded(req[h])
    BY DEF RequestsOK
  <1>1. NamesOK'
    BY NamesKept DEF MemAttachNext, MemAssignInsert, Shared, Tables, index, UpdateFind,
          DeleteFind, AttachFind, DetachFind, Detach, AssignFind, AssignNext, ListDone,
          Revoke, Audit
  <1>2. CASE MemAttachNext(h)
    <2>1. PICK p \in req[h].todo :
            \/ Fail(h)
            \/ Become(h, [req[h] EXCEPT !.todo = @ \ {p}, !.dirty = TRUE])
      BY <1>2 DEF MemAttachNext
    <2> DEFINE r == [req[h] EXCEPT !.todo = @ \ {p}, !.dirty = TRUE]
    <2>2. r \in Request /\ Grounded(r) /\ r.pc = "attach"
      BY <1>0, <1>2 DEF MemAttachNext, At, Request, Grounded
    <2> HIDE DEF r
    <2>3. Respects(r)
      BY <2>2 DEF Respects
    <2>4. CASE Fail(h)
      BY <1>1, <2>4, EndRespects
    <2>5. CASE Become(h, r)
      BY <1>1, <2>2, <2>3, <2>5, BecomeKeeps, BecomeRespects
    <2> QED
      BY <2>1, <2>4, <2>5 DEF r
  <1>3. CASE MemAssignInsert(h)
    <2> DEFINE r == [req[h] EXCEPT !.pc = "assign", !.dirty = TRUE]
    <2>1. r \in Request /\ Grounded(r) /\ r.pc = "assign" /\ Become(h, r)
      BY <1>0, <1>3 DEF MemAssignInsert, At, Request, Grounded, Pc
    <2> HIDE DEF r
    <2>2. Respects(r)
      BY <2>1 DEF Respects
    <2> QED
      BY <1>1, <2>1, <2>2, BecomeKeeps, BecomeRespects
  <1>4. CASE Shared(h)
    <2>1. RequestsOK'
      BY <1>4, FindKeeps, StepKeeps, WrittenKeeps, BecomeKeeps, IdleType
         DEF Shared, NamesOK, Detach, Audit
    <2>2. PICK r : Become(h, r) /\ Respects(r)
      <3>1. CASE UpdateFind(h)
        <4>1. PICK r \in Existing, n \in Names :
                Start(h, "updateRole",
                      [Idle EXCEPT !.pc = IF n = roles[r] THEN "rename" ELSE "clash",
                                   !.role = r, !.name = n])
          BY <3>1 DEF UpdateFind
        <4> DEFINE s == [[Idle EXCEPT !.pc = IF n = roles[r] THEN "rename" ELSE "clash",
                                      !.role = r, !.name = n]
                           EXCEPT !.flow = "updateRole"]
        <4>2. /\ Become(h, s) /\ s.role = r /\ s.name = n
              /\ s.pc = IF n = roles[r] THEN "rename" ELSE "clash"
          BY <4>1 DEF Start, Idle
        <4>3. n = roles[r] /\ n \in SystemRoles => r = n
          BY DEF NamesOK, SystemSole, Existing
        <4>4. Respects(s)
          BY <4>2, <4>3 DEF Respects
        <4> QED
          BY <4>2, <4>4
      <3>2. CASE DeleteFind(h) \/ AttachFind(h) \/ DetachFind(h) \/ AssignFind(h) \/ Revoke(h)
        <4>1. ASSUME NEW r, NEW flow, Start(h, flow, r), r.pc \notin {"createRole", "rename"},
                     r \in Request
              PROVE  Become(h, [r EXCEPT !.flow = flow]) /\ Respects([r EXCEPT !.flow = flow])
          BY <4>1 DEF Start, Respects, Request
        <4>2. CASE DeleteFind(h)
          <5>1. PICK r \in Roles :
                  Start(h, "deleteRole", [Idle EXCEPT !.pc = "delete", !.role = r])
            BY <4>2 DEF DeleteFind
          <5>2. /\ [Idle EXCEPT !.pc = "delete", !.role = r] \in Request
                /\ [Idle EXCEPT !.pc = "delete", !.role = r].pc = "delete"
            BY DEF Idle, Request, Pc, Flow
          <5> QED
            BY <4>1, <5>1, <5>2
        <4>3. CASE AttachFind(h)
          <5>1. PICK r \in Existing, list \in SUBSET Perms :
                  Start(h, "attachPermissions",
                        [Idle EXCEPT !.pc = "attach", !.role = r, !.todo = list])
            BY <4>3 DEF AttachFind
          <5>2. /\ [Idle EXCEPT !.pc = "attach", !.role = r, !.todo = list] \in Request
                /\ [Idle EXCEPT !.pc = "attach", !.role = r, !.todo = list].pc = "attach"
            BY DEF Idle, Request, Pc, Flow, Existing
          <5> QED
            BY <4>1, <5>1, <5>2
        <4>4. CASE DetachFind(h)
          <5>1. PICK r \in Existing, p \in Perms :
                  Start(h, "detachPermission",
                        [Idle EXCEPT !.pc = "detach", !.role = r, !.perm = p])
            BY <4>4 DEF DetachFind
          <5>2. /\ [Idle EXCEPT !.pc = "detach", !.role = r, !.perm = p] \in Request
                /\ [Idle EXCEPT !.pc = "detach", !.role = r, !.perm = p].pc = "detach"
            BY DEF Idle, Request, Pc, Flow, Existing
          <5> QED
            BY <4>1, <5>1, <5>2
        <4>5. CASE AssignFind(h)
          <5>1. PICK u \in Users, list \in SUBSET Roles :
                  Start(h, "assignRolesToUser",
                        [Idle EXCEPT !.pc = "assign", !.user = u, !.todo = list])
            BY <4>5 DEF AssignFind
          <5>2. /\ [Idle EXCEPT !.pc = "assign", !.user = u, !.todo = list] \in Request
                /\ [Idle EXCEPT !.pc = "assign", !.user = u, !.todo = list].pc = "assign"
            BY DEF Idle, Request, Pc, Flow
          <5> QED
            BY <4>1, <5>1, <5>2
        <4>6. CASE Revoke(h)
          <5>1. /\ [Idle EXCEPT !.pc = "audit", !.dirty = TRUE] \in Request
                /\ [Idle EXCEPT !.pc = "audit", !.dirty = TRUE].pc = "audit"
            BY DEF Idle, Request, Pc, Flow
          <5> QED
            BY <4>1, <4>6, <5>1 DEF Revoke
        <4> QED
          BY <3>2, <4>2, <4>3, <4>4, <4>5, <4>6
      <3>3. CASE AssignNext(h)
        <4>1. CASE Fail(h)
          <5>1. /\ Respects(Idle)
                /\ Respects([Idle EXCEPT !.flow = req[h].flow, !.dirty = TRUE])
            BY DEF Respects, Idle
          <5> QED
            BY <4>1, <5>1 DEF Fail
        <4>2. CASE ~Fail(h)
          <5>1. PICK q : Become(h, [req[h] EXCEPT !.pc = "assignInsert", !.role = q,
                                                  !.todo = @ \ {q}])
            BY <3>3, <4>2 DEF AssignNext
          <5>2. Respects([req[h] EXCEPT !.pc = "assignInsert", !.role = q, !.todo = @ \ {q}])
            BY <1>0 DEF Respects, Request
          <5> QED
            BY <5>1, <5>2
        <4> QED
          BY <4>1, <4>2
      <3>4. CASE Detach(h) \/ ListDone(h) \/ Audit(h)
        <4>1. /\ Respects([req[h] EXCEPT !.pc = "audit", !.dirty = TRUE])
              /\ Respects([req[h] EXCEPT !.pc = "audit"])
              /\ Respects(Idle)
          BY <1>0 DEF Respects, Request, Idle
        <4> QED
          BY <3>4, <4>1 DEF Detach, ListDone, Audit, Written
      <3> QED
        BY <1>4, <3>1, <3>2, <3>3, <3>4 DEF Shared
    <2> QED
      BY <1>1, <2>1, <2>2, BecomeRespects
  <1> QED
    BY <1>2, <1>3, <1>4

LEMMA AnySteps ==
  ASSUME Anyhow, MemNext
  PROVE  Anyhow'
  <1>1. ASSUME NEW n \in SystemRoles, MemAssignByName(n)
        PROVE  Anyhow'
    BY <1>1, NamesKept DEF MemAssignByName, Anyhow, RequestsOK, index
  <1> QED
    BY <1>1, AnyCreateRole, AnyRename, AnyDelete, AnyCreatePermission, AnyOther
       DEF MemNext, MemStep

-----------------------------------------------------------------------------
LEMMA StoreStep ==
  ASSUME StoreInv, [StoreNext]_storeVars
  PROVE  StoreInv' /\ (overlap' \/ [Next]_vars)
  <1>1. CASE store = "postgres" /\ Next /\ UNCHANGED <<index, overlap, store>>
    BY <1>1, NextRequests, NextTables DEF StoreInv, Base, Stores
  <1>2. CASE store = "memory" /\ MemNext /\ UNCHANGED store
    <2>1. overlap' \in BOOLEAN /\ (overlap => overlap')
      BY <1>2 DEF StoreInv, MemNext
    <2>2. Anyhow'
      BY <1>2, AnySteps DEF StoreInv
    <2>3. ~overlap' => Next /\ Base' /\ Memory'
      BY <1>2, <2>1, MemorySteps DEF StoreInv
    <2> QED
      BY <1>2, <2>1, <2>2, <2>3 DEF StoreInv, Stores
  <1>3. CASE UNCHANGED storeVars
    <2>1. UNCHANGED <<vars, index, store, overlap>>
      BY <1>3 DEF storeVars
    <2>2. Memory => Memory'
      BY <2>1 DEF Memory, Serial, RoleIndex, PermIndex, vars, index, At, Stands,
                  Existing, RoleNamed, PermNamed, Free
    <2>3. Base => Base'
      BY <2>1, NextRequests, NextTables DEF Base
    <2>4. Anyhow => Anyhow'
      BY <2>1, NamesKept DEF Anyhow, vars, index, RequestsOK
    <2> QED
      BY <2>1, <2>2, <2>3, <2>4 DEF StoreInv
  <1> QED
    BY <1>1, <1>2, <1>3 DEF StoreNext

LEMMA StoreInitial == StoreInit => StoreInv
  <1> SUFFICES ASSUME StoreInit PROVE StoreInv
    OBVIOUS
  <1>1. Base
    BY InitBase DEF StoreInit
  <1>2. RoleIndex
    BY NoneIsNew DEF StoreInit, Init, RoleIndex, Roles, Names
  <1>3. PermIndex
    BY NoneIsNew DEF StoreInit, Init, PermIndex
  <1>4. Serial
    BY DEF StoreInit, Init, Serial, At, Stands, Idle
  <1>5. SystemSole
    BY NoneIsNew DEF StoreInit, Init, SystemSole, Roles, Names
  <1>6. Anyhow
    BY <1>1, <1>2, <1>3, <1>5
       DEF Base, TablesOK, Anyhow, NamesOK, RoleSound, PermSound, RoleIndex, PermIndex,
           StoreInit, Init, Respects, Idle
  <1> QED
    BY <1>1, <1>2, <1>3, <1>4, <1>6 DEF StoreInit, StoreInv, Memory

LEMMA StoreAlways == StoreSpec => []StoreInv
  <1>1. StoreInv /\ [StoreNext]_storeVars => StoreInv'
    BY StoreStep
  <1> QED
    BY <1>1, StoreInitial, PTL DEF StoreSpec

(* Whichever storage was chosen, every step of the service is one that Rbac  *)
(* allows over Postgres, until two requests over the maps overlap            *)
(* (createMemoryStorage).                                                   *)
THEOREM Mirrors == StoreSpec => MirrorsPostgres
  <1>1. StoreInit => Init
    BY DEF StoreInit
  <1>2. StoreInv /\ [StoreNext]_storeVars => [overlap' \/ Next]_vars
    BY StoreStep
  <1> QED
    BY <1>1, <1>2, StoreAlways, PTL DEF StoreSpec, MirrorsPostgres

(* However requests interleave, the indexes of the memory storage lead to    *)
(* rows of the name, and until two requests overlap to every such row        *)
(* (createRole, updateRole, deleteRole, createPermission).                   *)
THEOREM IndexStaysTrue == StoreSpec => []IndexTrue
  <1>1. StoreInv => IndexTrue
    BY DEF StoreInv, Memory, Anyhow, NamesOK, RoleSound, PermSound, RoleIndex, PermIndex,
           IndexTrue
  <1> QED
    BY <1>1, StoreAlways, PTL

(* A name belongs to one role, and to one permission, over either storage,   *)
(* but for requests over the maps that overlap (createRole, updateRole,      *)
(* createPermission).                                                       *)
THEOREM NamesInBoth == StoreSpec => []StoredNamesUnique
  <1>1. StoreInv => StoredNamesUnique
    BY DEF StoreInv, Stores, Base, TablesOK, StoredNamesUnique
  <1> QED
    BY <1>1, StoreAlways, PTL

(* No row refers to a role that is gone or a permission that never was, over *)
(* either storage, but for requests over the maps that overlap (deleteRole,  *)
(* attachPermissions, assignRolesToUser).                                    *)
THEOREM RowsInBoth == StoreSpec => []StoredRowsHold
  <1>1. StoreInv => StoredRowsHold
    BY DEF StoreInv, Stores, Base, TablesOK, StoredRowsHold
  <1> QED
    BY <1>1, StoreAlways, PTL

(* The system roles stay over either storage, each the only one of its name, *)
(* however requests interleave (createRole, updateRole, deleteRole).         *)
THEOREM SystemRolesInBoth == StoreSpec => []SystemRolesStay
  <1>1. Base => SystemRolesStay
    BY NoneIsNew DEF Base, TablesOK, RolesOK, NamesUnique, SystemRolesStay, Existing,
                     Roles, Names
  <1>2. Anyhow => SystemRolesStay
    BY DEF Anyhow, NamesOK, RolesOK, SystemSole, SystemRolesStay, Roles
  <1>3. StoreInv => SystemRolesStay
    BY <1>1, <1>2 DEF StoreInv, Stores
  <1> QED
    BY <1>3, StoreAlways, PTL
=============================================================================
