CONSTANTS
  None = None
  Emails = {e1}
  Users = {u1, u2}
  Links = {l1, l2, l3, l4}
  Handlers = {h1, h2}
  LinkTtl = 1
  Fragile = {"insert", "invalidate", "link", "mail", "consume", "apply"}
  MaxClock = 1
SPECIFICATION Spec
SYMMETRY Symmetry
INVARIANTS TypeOK UniqueEmails LinkUses LiveResetLinks VerifiedByMail VerifiedHasRole
