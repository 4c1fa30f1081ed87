CONSTANTS
  None = None
  Users = {u1}
  Tokens = {t1, t2}
  Handlers = {h1, h2}
  Clients = {web, app}
  Native = {app}
  Flows = {"login", "refresh", "logout", "disable"}
  RefreshTtl = 1
  ChallengeTtl = 1
  Fragile = {"issue"}
  MaxClock = 0
  MaxPasswords = 0
SPECIFICATION ClientsSpec
SYMMETRY Symmetry
INVARIANTS ThiefOrSpoiled BrowsersHoldAll
