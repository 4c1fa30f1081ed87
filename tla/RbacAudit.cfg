CONSTANTS
  None = None
  Users = {u1}
  SystemRoles = {user}
  CustomRoles = {r1}
  CustomNames = {n1}
  Perms = {p1, p2}
  PermNames = {m1}
  Handlers = {h1}
  Fragile = {}
  MaxRows = 2
SPECIFICATION Spec
INVARIANTS EveryChangeAudited
CHECK_DEADLOCK FALSE
