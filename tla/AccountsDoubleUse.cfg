CONSTANTS
  None = None
  Emails = {e1}
  Users = {u1}
  Links = {l1}
  Handlers = {h1, h2}
  LinkTtl = 1
  Fragile = {}
  MaxClock = 0
SPECIFICATION Spec
INVARIANTS SingleUseLinks
CHECK_DEADLOCK FALSE
