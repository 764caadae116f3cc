SPECIFICATION Spec
CONSTANTS
  Records = {r1}
  Documents = {d1}
  Genuine = {d1}
  Ciphers = {c1}
  Workers = {w1, w2}
  Payloads <- MCPayloads
  TxIds = {t1}
  None = None
  Retention = 0
  LeaseTime = 0
  ReceiptLife = 1
  MaxTime = 2
  CertEnd = 2
  Lenient = Lenient
  Strict = Strict
  Foreign = Foreign
  Void = Void
  Bundles = {Lenient, Strict, Foreign, Void}
  Approving = {Lenient, Strict, Void}
  BundleEnd <- MCBundleEnd
  Harmless = Harmless
  Banned = Banned
  Parameters <- MCParameters
  Inventory <- MCInventory
  MaxTree = 1
  MaxFaults = 2
SYMMETRY Symmetry
INVARIANTS TypeOK VerdictFollowsPolicy EvidenceSupportsReceipt NoOrphanedClaim
PROPERTIES CommitRevalidated
CHECK_DEADLOCK FALSE
