CONSTANTS
  Clients = {t1, t2}
  NoClient = NoClient
  Uploads = {u1, u2, u3, u4}
  Assets = {a1, a2}
  short = short
  long = long
  Contents = {short, long}
  Candles <- Lengths
  MaxPerUser = 3
  MaxPerAsset = 2
  MaxRowsPerUser = 5
SPECIFICATION Spec
SYMMETRY Symmetric
INVARIANTS TypeOK LimitsHold StoredOnce DeletedIsGone
PROPERTY ImplementsLedger
