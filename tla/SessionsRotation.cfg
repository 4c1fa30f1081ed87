CONSTANTS
  None = None
  Users = {u1}
  Tokens = {t1, t2, t3}
  Handlers = {h1, h2}
  Flows = {"login", "refresh", "logout", "enable"}
  RefreshTtl = 1
  ChallengeTtl = 1
  Fragile = {"find", "user", "consume", "issue", "revokeFamily", "logout"}
  MaxClock = 0
  MaxPasswords = 0
SPECIFICATION Spec
SYMMETRY Symmetry
INVARIANTS RedemptionsBounded QuietEndingsLast
PROPERTIES ImplementsLedger
