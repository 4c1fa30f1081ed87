CONSTANTS
  Instances = {i1, i2}
  Handlers = {h1, h2}
  Tokens = {t1, t2}
  Perms = {p1}
  AccessTtl = 2
  MfaTtl = 1
  Latency = 1
  Pause = 2
  MaxSecret = 3
SPECIFICATION Spec
SYMMETRY Symmetry
INVARIANTS TypeOK PermissionsFresh RotationKeepsTokens
