CONSTANTS
  Askers = {a1, a2}
  Users = {x, y}
  MaxRotations = 1
  None = None
SPECIFICATION Spec
SYMMETRY Symmetry
INVARIANTS TypeOK PrivateIsOwners ReplayOnlyAfterLoss ReadyIsRecent
PROPERTY SignedOutIsRevoked
