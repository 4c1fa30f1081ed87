---------------------------- MODULE MemoryRoles ----------------------------
(***************************************************************************)
(* The service of module Rbac over either storage that createStorage can   *)
(* choose: Postgres, or the maps of one process, which know neither UNIQUE *)
(* nor foreign keys and find a role or permission by its name through an   *)
(* index kept beside the rows.                                             *)
(*                                                                         *)
(* Over the maps roles stands for rolesById, perms for permsById, grants   *)
(* for rolePerms and assigned for userRoles.  Nothing keeps two requests   *)
(* apart there either: at each await of an RbacService method the next     *)
(* step may be another request's, if both were begun in one turn of the    *)
(* event loop.  What the maps promise only to requests that did not        *)
(* overlap is stated with overlap.  A restart, which loses everything, is  *)
(* left out.                                                               *)
(***************************************************************************)
EXTENDS Rbac

(* Ids are random, so no role has the id of a user or of a permission. *)
ASSUME IdsDiffer == Roles \cap (Users \cup Perms) = {}

VARIABLES
  store,         \* the storage this process was configured with
  overlap,       \* history: two requests over the maps were under way at once
  roleIdByName,  \* the index of rolesById, None where a name has no entry
  permIdByName   \* the index of permsById

index == <<roleIdByName, permIdByName>>

Stores == {"postgres", "memory"}

StoreInit ==
  /\ Init
  /\ store \in Stores
  /\ overlap = FALSE
  /\ roleIdByName = [n \in Names |-> IF n \in SystemRoles THEN n ELSE None]
  /\ permIdByName = [n \in PermNames |-> None]

-----------------------------------------------------------------------------
(* getRoleByName and getPermissionByName: through the index, to the row. *)
FindRole(n) ==
  LET id == roleIdByName[n]
  IN  IF id # None /\ id \in Existing THEN id ELSE None

FindPerm(n) ==
  LET id == permIdByName[n]
  IN  IF id # None /\ id \in Known THEN id ELSE None

MemCreateRoleFind(h) ==
  /\ RoomForRole
  /\ \E n \in Names : /\ FindRole(n) = None
                      /\ Start(h, "createRole", [Idle EXCEPT !.pc = "createRole", !.name = n])
  /\ UNCHANGED <<Tables, index>>

MemCreateRole(h) ==
  /\ At(h, "createRole")
  /\ \E r \in Roles \ made :
       /\ roles' = [roles EXCEPT ![r] = req[h].name]
       /\ made' = made \cup {r}
       /\ roleIdByName' = [roleIdByName EXCEPT ![req[h].name] = r]
  /\ Written(h)
  /\ UNCHANGED <<perms, grants, assigned, permIdByName>>

MemUpdateClash(h) ==
  /\ At(h, "clash")
  /\ IF FindRole(req[h].name) \notin {None, req[h].role}
       THEN Fail(h)
       ELSE Become(h, [req[h] EXCEPT !.pc = "rename"])
  /\ UNCHANGED <<Tables, index>>

(* Mutant of Reindexed: the old entry stays. *)
ReindexedOnly(old, new, r) == [roleIdByName EXCEPT ![new] = r]

Reindexed(old, new, r) == [roleIdByName EXCEPT ![old] = None, ![new] = r]

MemRename(h) ==
  /\ At(h, "rename")
  /\ LET r == req[h].role
         n == req[h].name
     IN  CASE r \notin Existing -> Fail(h) /\ UNCHANGED <<roles, roleIdByName>>
           [] r \in Existing /\ roles[r] = n ->
                Written(h) /\ UNCHANGED <<roles, roleIdByName>>
           [] r \in Existing /\ roles[r] # n ->
                /\ roleIdByName' = Reindexed(roles[r], n, r)
                /\ roles' = [roles EXCEPT ![r] = n]
                /\ Written(h)
  /\ UNCHANGED <<made, perms, grants, assigned, permIdByName>>

MemDeleteRole(h) ==
  /\ At(h, "delete")
  /\ LET r == req[h].role
     IN  IF r \notin Existing THEN UNCHANGED <<roles, grants, assigned, roleIdByName>>
         ELSE /\ roles' = [roles EXCEPT ![r] = None]
              /\ roleIdByName' = [roleIdByName EXCEPT ![roles[r]] = None]
              /\ grants' = {g \in grants : g[1] # r}
              /\ assigned' = {a \in assigned : a[2] # r}
  /\ Written(h)
  /\ UNCHANGED <<made, perms, permIdByName>>

MemCreatePermissionFind(h) ==
  /\ RoomForPerm
  /\ \E n \in PermNames :
       /\ FindPerm(n) = None
       /\ Start(h, "createPermission", [Idle EXCEPT !.pc = "createPermission", !.name = n])
  /\ UNCHANGED <<Tables, index>>

MemCreatePermission(h) ==
  /\ At(h, "createPermission")
  /\ \E p \in Perms \ Known :
       /\ perms' = [perms EXCEPT ![p] = req[h].name]
       /\ permIdByName' = [permIdByName EXCEPT ![req[h].name] = p]
  /\ Written(h)
  /\ UNCHANGED <<roles, made, grants, assigned, roleIdByName>>

(* No constraint looks at the role again. *)
MemAttachNext(h) ==
  /\ At(h, "attach")
  /\ \E p \in req[h].todo :
       IF p \notin Known THEN Fail(h) /\ UNCHANGED grants
       ELSE /\ grants' = grants \cup {<<req[h].role, p>>}
            /\ Become(h, [req[h] EXCEPT !.todo = @ \ {p}, !.dirty = TRUE])
  /\ UNCHANGED <<roles, made, perms, assigned, index>>

(* Mutant of Added: the user's set is made anew. *)
AddedAnew(u, r) == {a \in assigned : a[1] # u} \cup {<<u, r>>}

Added(u, r) == assigned \cup {<<u, r>>}

MemAssignInsert(h) ==
  /\ At(h, "assignInsert")
  /\ assigned' = Added(req[h].user, req[h].role)
  /\ Become(h, [req[h] EXCEPT !.pc = "assign", !.dirty = TRUE])
  /\ UNCHANGED <<roles, made, perms, grants, index>>

(* The id comes from the index alone. *)
MemAssignByName(n) ==
  /\ roleIdByName[n] # None
  /\ \E u \in Users : assigned' = Added(u, roleIdByName[n])
  /\ UNCHANGED <<roles, made, perms, grants, req, index>>

(* The steps of Rbac that neither look a name up nor lean on a constraint. *)
Shared(h) ==
  \/ UpdateFind(h) \/ DeleteFind(h) \/ AttachFind(h) \/ DetachFind(h) \/ Detach(h)
  \/ AssignFind(h) \/ AssignNext(h) \/ ListDone(h) \/ Revoke(h) \/ Audit(h)

Alone(h) == \A g \in Handlers \ {h} : At(g, "idle")

MemStep(h) ==
  \/ MemCreateRoleFind(h) \/ MemCreateRole(h)
  \/ MemUpdateClash(h) \/ MemRename(h) \/ MemDeleteRole(h)
  \/ MemCreatePermissionFind(h) \/ MemCreatePermission(h)
  \/ MemAttachNext(h) \/ MemAssignInsert(h)
  \/ Shared(h) /\ UNCHANGED index

MemNext ==
  \/ \E h \in Handlers : MemStep(h) /\ overlap' = (overlap \/ ~Alone(h))
  \/ \E n \in SystemRoles : MemAssignByName(n) /\ UNCHANGED overlap

StoreNext ==
  /\ \/ store = "postgres" /\ Next /\ UNCHANGED <<index, overlap>>
     \/ store = "memory" /\ MemNext
  /\ UNCHANGED store

storeVars == <<vars, index, store, overlap>>

StoreSpec == StoreInit /\ [][StoreNext]_storeVars

-----------------------------------------------------------------------------
(* Over the maps the service behaves as over Postgres, until two requests    *)
(* overlap: every step up to then is one that Rbac allows, constraints and   *)
(* cascades included (createMemoryStorage).                                 *)
MirrorsPostgres == Init /\ [][overlap' \/ Next]_vars

(* However requests interleave, an entry of an index leads to a row that has *)
(* the name, and until two overlap every row can be found by its name        *)
(* (createRole, updateRole, deleteRole, createPermission).                   *)
IndexTrue ==
  store = "memory" =>
    /\ \A n \in Names, r \in Roles :
         /\ roleIdByName[n] = r => roles[r] = n
         /\ roles[r] = n => overlap \/ roleIdByName[n] = r
    /\ \A n \in PermNames, p \in Perms :
         /\ permIdByName[n] = p => perms[p] = n
         /\ perms[p] = n => overlap \/ permIdByName[n] = p

(* NamesUnique however requests race over Postgres, and over the maps until  *)
(* two of them overlap (createRole, updateRole, createPermission).           *)
StoredNamesUnique == overlap \/ NamesUnique

(* NoDanglingRows likewise (deleteRole, attachPermissions, assignRolesToUser). *)
StoredRowsHold == overlap \/ NoDanglingRows
=============================================================================
