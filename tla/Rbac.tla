-------------------------------- MODULE Rbac --------------------------------
(***************************************************************************)
(* Roles, permissions, grants and assignments, as concurrent requests of   *)
(* administrators change them in Postgres, and the audit record that each  *)
(* of those requests ends with.                                            *)
(*                                                                         *)
(* An action is the code from one await to the next.  Names are compared   *)
(* without case, so a name stands for all its spellings; a system role's   *)
(* name stands for its id as well.  Users are never deleted and            *)
(* permissions are neither deleted nor renamed, so a check that one exists *)
(* is merged with the statement it guards.                                 *)
(***************************************************************************)
EXTENDS Naturals, FiniteSets

CONSTANTS
  Users, SystemRoles, CustomRoles, CustomNames, Perms, PermNames, None,
  Handlers,  \* workers: each serves one HTTP request at a time
  Fragile,   \* the points between two awaits where a request may die
  MaxRows    \* bound: grants and assignments beyond which none is asked for

Roles == SystemRoles \cup CustomRoles
Names == SystemRoles \cup CustomNames

Pc == {"idle", "createRole", "clash", "rename", "delete", "createPermission",
       "attach", "detach", "assign", "assignInsert", "audit"}

ASSUME RbacAssumption ==
  /\ None \notin Users \cup Roles \cup Names \cup Perms \cup PermNames
  /\ SystemRoles \cap CustomRoles = {} /\ SystemRoles \cap CustomNames = {}
  /\ Fragile \subseteq Pc \ {"idle"}
  /\ MaxRows \in Nat

VARIABLES
  roles,     \* table roles: the name of each row, None where there is none
  made,      \* the ids of roles inserted so far, which randomness never repeats
  perms,     \* table permissions: the name of each row
  grants,    \* table role_permissions
  assigned,  \* table user_roles
  req        \* what each worker's current request holds between two awaits

vars == <<roles, made, perms, grants, assigned, req>>

Flow == {"none", "createRole", "updateRole", "deleteRole", "createPermission",
         "attachPermissions", "detachPermission", "assignRolesToUser",
         "revokeRoleFromUser"}

(* todo: what is left of the list of a request; dirty: a table has changed   *)
(* and the audit record is not written yet (an idle worker keeps the flow    *)
(* and the mark of a request that ended so).                                 *)
Request == [pc: Pc, flow: Flow, role: Roles \cup {None}, perm: Perms \cup {None},
            user: Users \cup {None}, name: Names \cup PermNames \cup {None},
            todo: SUBSET (Roles \cup Perms), dirty: BOOLEAN]

Idle == [pc |-> "idle", flow |-> "none", role |-> None, perm |-> None, user |-> None,
         name |-> None, todo |-> {}, dirty |-> FALSE]

TypeOK ==
  /\ roles \in [Roles -> Names \cup {None}]
  /\ made \subseteq Roles
  /\ perms \in [Perms -> PermNames \cup {None}]
  /\ grants \subseteq Roles \X Perms
  /\ assigned \subseteq Users \X Roles
  /\ req \in [Handlers -> Request]

(* The seed of the first migration; the grants it makes are left out, as no *)
(* operation treats them apart.                                             *)
Init ==
  /\ roles = [r \in Roles |-> IF r \in SystemRoles THEN r ELSE None]
  /\ made = SystemRoles
  /\ perms = [p \in Perms |-> None]
  /\ grants = {}
  /\ assigned = {}
  /\ req = [h \in Handlers |-> Idle]

-----------------------------------------------------------------------------
Existing == {r \in Roles : roles[r] # None}
Known == {p \in Perms : perms[p] # None}
RoleNamed(n) == \E r \in Roles : roles[r] = n
PermNamed(n) == \E p \in Perms : perms[p] = n

At(h, pc) == req[h].pc = pc
Become(h, r) == req' = [req EXCEPT ![h] = r]
Start(h, flow, r) == At(h, "idle") /\ Become(h, [r EXCEPT !.flow = flow])

(* Mutant of Written: no audit record. *)
WrittenOnly(h) == Become(h, [req[h] EXCEPT !.pc = "idle", !.dirty = TRUE])

(* The request has written: its audit record is next. *)
Written(h) == Become(h, [req[h] EXCEPT !.pc = "audit", !.dirty = TRUE])

(* The request ends with an error, or dies, before its audit record. *)
Fail(h) == Become(h, IF req[h].dirty THEN [Idle EXCEPT !.flow = req[h].flow, !.dirty = TRUE]
                                     ELSE Idle)

Tables == <<roles, made, perms, grants, assigned>>

(* Bounds: no request starts that would find no fresh id, or too many rows. *)
RoomForRole == Cardinality(Roles \ made)
                 > Cardinality({h \in Handlers : At(h, "createRole")})
RoomForPerm == Cardinality(Perms \ Known)
                 > Cardinality({h \in Handlers : At(h, "createPermission")})
RoomForRows == Cardinality(grants) + Cardinality(assigned) < MaxRows

-----------------------------------------------------------------------------
(* Mutant of Refused: a store without the UNIQUE constraint. *)
RefusedNever(taken) == FALSE

(* roles.name and permissions.name are UNIQUE. *)
Refused(taken) == taken

CreateRoleFind(h) ==
  /\ RoomForRole
  /\ \E n \in Names : /\ ~RoleNamed(n)
                      /\ Start(h, "createRole", [Idle EXCEPT !.pc = "createRole", !.name = n])
  /\ UNCHANGED Tables

CreateRole(h) ==
  /\ At(h, "createRole")
  /\ IF Refused(RoleNamed(req[h].name)) THEN Fail(h) /\ UNCHANGED <<roles, made>>
     ELSE /\ \E r \in Roles \ made : /\ roles' = [roles EXCEPT ![r] = req[h].name]
                                     /\ made' = made \cup {r}
          /\ Written(h)
  /\ UNCHANGED <<perms, grants, assigned>>

(* Mutant of MayEdit: system roles are like any other. *)
MayEditAny(r) == r \in Existing

(* System roles are neither renamed nor deleted. *)
MayEdit(r) == r \in Existing \ SystemRoles

(* updateRole with a name, from requireRole on.  A new one is looked up; the *)
(* same one in another spelling goes straight to the UPDATE, for any role.   *)
(* (A patch without a name changes nothing here.)                           *)
UpdateFind(h) ==
  /\ \E r \in Existing, n \in Names :
       /\ MayEdit(r) \/ n = roles[r]
       /\ Start(h, "updateRole", [Idle EXCEPT !.pc = IF n = roles[r] THEN "rename" ELSE "clash",
                                              !.role = r, !.name = n])
  /\ UNCHANGED Tables

UpdateClash(h) ==
  /\ At(h, "clash")
  /\ IF \E r \in Roles \ {req[h].role} : roles[r] = req[h].name
       THEN Fail(h)
       ELSE Become(h, [req[h] EXCEPT !.pc = "rename"])
  /\ UNCHANGED Tables

(* The UPDATE finds no row, or a name that was taken meanwhile, or renames. *)
Rename(h) ==
  /\ At(h, "rename")
  /\ LET r == req[h].role
         taken == \E s \in Roles \ {r} : roles[s] = req[h].name
     IN  IF r \notin Existing \/ Refused(taken) THEN Fail(h) /\ UNCHANGED roles
         ELSE /\ roles' = [roles EXCEPT ![r] = req[h].name]
              /\ Written(h)
  /\ UNCHANGED <<made, perms, grants, assigned>>

DeleteFind(h) ==
  /\ \E r \in Roles : /\ MayEdit(r)
                      /\ Start(h, "deleteRole", [Idle EXCEPT !.pc = "delete", !.role = r])
  /\ UNCHANGED Tables

(* ON DELETE CASCADE: the rows that refer to the role go with it. *)
Cascade(table, r) == {pair \in table : r \notin {pair[1], pair[2]}}

DeleteRole(h) ==
  /\ At(h, "delete")
  /\ LET r == req[h].role
     IN  /\ roles' = [roles EXCEPT ![r] = None]
         /\ grants' = Cascade(grants, r)
         /\ assigned' = Cascade(assigned, r)
  /\ Written(h)
  /\ UNCHANGED <<made, perms>>

CreatePermissionFind(h) ==
  /\ RoomForPerm
  /\ \E n \in PermNames :
       /\ ~PermNamed(n)
       /\ Start(h, "createPermission",
                [Idle EXCEPT !.pc = "createPermission", !.name = n])
  /\ UNCHANGED Tables

CreatePermission(h) ==
  /\ At(h, "createPermission")
  /\ IF Refused(PermNamed(req[h].name)) THEN Fail(h) /\ UNCHANGED perms
     ELSE /\ \E p \in Perms \ Known : perms' = [perms EXCEPT ![p] = req[h].name]
          /\ Written(h)
  /\ UNCHANGED <<roles, made, grants, assigned>>

-----------------------------------------------------------------------------
(* attachPermissions: the role is looked up once, then every permission of  *)
(* the list in turn.  An unknown permission, or a role deleted meanwhile    *)
(* (the foreign key refuses the row), ends the request where it stands.     *)
AttachFind(h) ==
  /\ RoomForRows
  /\ \E r \in Existing, list \in (SUBSET Perms) \ {{}} :
       Start(h, "attachPermissions", [Idle EXCEPT !.pc = "attach", !.role = r, !.todo = list])
  /\ UNCHANGED Tables

(* Mutant of Granted: two columns swapped. *)
GrantedSwapped(r, p) == <<p, r>>

Granted(r, p) == <<r, p>>

AttachNext(h) ==
  /\ At(h, "attach")
  /\ \E p \in req[h].todo :
       IF p \notin Known \/ req[h].role \notin Existing THEN Fail(h) /\ UNCHANGED grants
       ELSE /\ grants' = grants \cup {Granted(req[h].role, p)}
            /\ Become(h, [req[h] EXCEPT !.todo = @ \ {p}, !.dirty = TRUE])
  /\ UNCHANGED <<roles, made, perms, assigned>>

DetachFind(h) ==
  /\ \E r \in Existing, p \in Perms :
       Start(h, "detachPermission",
             [Idle EXCEPT !.pc = "detach", !.role = r, !.perm = p])
  /\ UNCHANGED Tables

Detach(h) ==
  /\ At(h, "detach")
  /\ grants' = grants \ {<<req[h].role, req[h].perm>>}
  /\ Written(h)
  /\ UNCHANGED <<roles, made, perms, assigned>>

(* assignRolesToUser: every role of the list is looked up, then assigned.  *)
AssignFind(h) ==
  /\ RoomForRows
  /\ \E u \in Users, list \in (SUBSET Roles) \ {{}} :
       Start(h, "assignRolesToUser", [Idle EXCEPT !.pc = "assign", !.user = u, !.todo = list])
  /\ UNCHANGED Tables

AssignNext(h) ==
  /\ At(h, "assign")
  /\ \E r \in req[h].todo :
       IF r \notin Existing THEN Fail(h)
       ELSE /\ Become(h, [req[h] EXCEPT !.pc = "assignInsert", !.role = r, !.todo = @ \ {r}])
  /\ UNCHANGED Tables

(* Mutant of AssignInsert: a store without the foreign key. *)
AssignUnchecked(h) ==
  /\ At(h, "assignInsert")
  /\ assigned' = assigned \cup {<<req[h].user, req[h].role>>}
  /\ Become(h, [req[h] EXCEPT !.pc = "assign", !.dirty = TRUE])
  /\ UNCHANGED <<roles, made, perms, grants>>

(* A role deleted since it was looked up: the foreign key refuses the row. *)
AssignInsert(h) ==
  /\ At(h, "assignInsert")
  /\ IF req[h].role \notin Existing THEN Fail(h) /\ UNCHANGED assigned
     ELSE /\ assigned' = assigned \cup {<<req[h].user, req[h].role>>}
          /\ Become(h, [req[h] EXCEPT !.pc = "assign", !.dirty = TRUE])
  /\ UNCHANGED <<roles, made, perms, grants>>

(* The list is done: the audit record is next. *)
ListDone(h) ==
  /\ req[h].pc \in {"attach", "assign"} /\ req[h].todo = {}
  /\ Become(h, [req[h] EXCEPT !.pc = "audit"])
  /\ UNCHANGED Tables

(* revokeRoleFromUser: the role itself is not looked up. *)
Revoke(h) ==
  /\ \E u \in Users, r \in Roles :
       /\ Start(h, "revokeRoleFromUser", [Idle EXCEPT !.pc = "audit", !.dirty = TRUE])
       /\ assigned' = assigned \ {<<u, r>>}
  /\ UNCHANGED <<roles, made, perms, grants>>

-----------------------------------------------------------------------------
(* register and the grant-admin tool assign a system role by its name. *)
AssignByName(n) ==
  /\ \E u \in Users, r \in Roles : /\ roles[r] = n
                                   /\ assigned' = assigned \cup {<<u, r>>}
  /\ UNCHANGED <<roles, made, perms, grants, req>>

Audit(h) ==
  /\ At(h, "audit")
  /\ Become(h, Idle)
  /\ UNCHANGED Tables

Abort(h) ==
  /\ req[h].pc \in Fragile
  /\ Fail(h)
  /\ UNCHANGED Tables

Next ==
  \/ \E h \in Handlers :
       \/ CreateRoleFind(h) \/ CreateRole(h)
       \/ UpdateFind(h) \/ UpdateClash(h) \/ Rename(h)
       \/ DeleteFind(h) \/ DeleteRole(h)
       \/ CreatePermissionFind(h) \/ CreatePermission(h)
       \/ AttachFind(h) \/ AttachNext(h) \/ DetachFind(h) \/ Detach(h)
       \/ AssignFind(h) \/ AssignNext(h) \/ AssignInsert(h) \/ ListDone(h) \/ Revoke(h)
       \/ Audit(h) \/ Abort(h)
  \/ \E n \in SystemRoles : AssignByName(n)

Spec == Init /\ [][Next]_vars

-----------------------------------------------------------------------------
(* However creations and renamings race, a name belongs to one role, and to *)
(* one permission (createRole, updateRole, createPermission).               *)
NamesUnique ==
  /\ \A r, s \in Existing : roles[r] = roles[s] => r = s
  /\ \A p, q \in Known : perms[p] = perms[q] => p = q

(* However deletions race with grants and assignments, no row refers to a  *)
(* role that is gone or a permission that never was (deleteRole,           *)
(* attachPermissions, assignRolesToUser).                                  *)
NoDanglingRows ==
  /\ grants \subseteq Existing \X Known
  /\ assigned \subseteq Users \X Existing

(* The roles that register and grant-admin assign by name are always there, *)
(* each the only one of its name (updateRole, deleteRole).                  *)
SystemRolesStay ==
  \A n \in SystemRoles : {r \in Roles : roles[r] = n} = {n}

Unaudited == {h \in Handlers : At(h, "idle") /\ req[h].dirty}

(* When no request dies with its audit record still to be written, only one *)
(* that works through a list can change a table and end without its record  *)
(* (attachPermissions, assignRolesToUser).                                  *)
OnlyListsGoUnaudited ==
  \A h \in Unaudited : req[h].flow \in {"attachPermissions", "assignRolesToUser"}

(* Every mutating operation is recorded in the audit log. *)
EveryChangeAudited == Unaudited = {}
=============================================================================
