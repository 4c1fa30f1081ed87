CONSTANTS
  None = None
  Users = {u1}
  Tokens = {t1, t2}
  Handlers = {h1, h2}
  Flows = {"login", "completeMfaLogin", "refresh", "resetPassword", "verifyEmail", "disable", "enable"}
  RefreshTtl = 1
  ChallengeTtl = 1
  Fragile = {}
  MaxClock = 0
  MaxPasswords = 1
SPECIFICATION FairSpec
INVARIANTS TypeOK
PROPERTIES DrainedAccountsStayOut RevocationReaches
