CONSTANTS
  None = None
  Secrets = {s1, s2, s3}
  Codes = {c1, c2, c3, c4}
  CodeCount = 2
  Handlers = {h1, h2}
  Fragile = {"store", "enable", "recover", "clear"}
SPECIFICATION Spec
SYMMETRY Symmetry
INVARIANTS TypeOK RecoveryCodeOnce OrderlyEnrolment CodesFollowEnrolment
PROPERTIES StaysEnabled
