CONSTANTS
  Handlers = {h1, h2}
  Attempts = {a1, a2, a3, a4, a5}
  MaxAttempts = 2
  Window = 2
  MaxLag = 1
  MayAbort = TRUE
SPECIFICATION FairSpec
INVARIANTS TypeOK FailuresBounded
PROPERTIES AutoUnlock
