CONSTANTS
  None = None
  Users = {u1}
  SystemRoles = {user}
  CustomRoles = {r1, r2}
  CustomNames = {n1, n2}
  Perms = {p1, p2}
  PermNames = {m1}
  Handlers = {h1, h2}
  Fragile = {"createRole", "clash", "rename", "delete", "createPermission", "attach", "detach", "assign", "assignInsert"}
  MaxRows = 1
SPECIFICATION StoreSpec
SYMMETRY Symmetry
INVARIANTS TypeOK StoredNamesUnique StoredRowsHold SystemRolesStay OnlyListsGoUnaudited IndexTrue
PROPERTIES MirrorsPostgres
