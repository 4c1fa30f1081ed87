CONSTANTS
  None = None
  Users = {u1}
  Tokens = {t1, t2, t3}
  Handlers = {h1}
  Flows = {"login", "completeMfaLogin", "refresh", "logout", "changePassword", "resetPassword", "verifyEmail", "disable", "enable"}
  RefreshTtl = 1
  ChallengeTtl = 1
  Fragile = {"challenge", "find", "user", "consume", "issue", "revokeFamily", "logout", "setPassword", "resetUpdate", "verifyConsume", "activate", "disable", "enable"}
  MaxClock = 1
  MaxPasswords = 1
SPECIFICATION Spec
SYMMETRY Symmetry
INVARIANTS SingleUse OneCurrentToken ReuseEndsFamily LogoutEndsSession
           DisableEndsSessions PasswordChangeEndsSessions ChallengesOutdated
PROPERTIES LapsedTokensStayOut
