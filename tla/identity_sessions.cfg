CONSTANTS
  Clients = {t1, t2}
  Sessions = {s1, s2, s3}
  NoSession = NoSession
  Account = Account
  MaxChanges = 1
SPECIFICATION Spec
SYMMETRY Symmetric
INVARIANTS TypeOK ChangesEndSessions RotatedOnce
