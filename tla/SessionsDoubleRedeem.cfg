CONSTANTS
  None = None
  Users = {u1}
  Tokens = {t1, t2, t3}
  Handlers = {h1, h2}
  Flows = {"login", "refresh"}
  RefreshTtl = 1
  ChallengeTtl = 1
  Fragile = {}
  MaxClock = 0
  MaxPasswords = 0
SPECIFICATION Spec
INVARIANTS SingleUse
CHECK_DEADLOCK FALSE
