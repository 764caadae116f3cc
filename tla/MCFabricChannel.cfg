SPECIFICATION Spec
CONSTANTS
  Records = {r1}
  Vendors = {v1}
  WorkerKeys = {k1}
  EvidenceKeys = {k2}
  Policies = {d1}
  PublicKeys = {p1, p2}
  Intervals <- MCIntervals
  HardenedReceipts <- MCHardenedReceipts
  EvidenceReceipts <- MCEvidenceReceipts
  Stamps <- MCStamps
  TxIds = {t1, t2, t3, t4, t5}
  Admins = {a}
  Submitters = {s}
  Others = {o}
  ClockSkew = 1
  MaxLife = 1
  None = None
SYMMETRY Symmetry
INVARIANTS TypeOK RecordsVerifiable
PROPERTIES ForwardOnly RevocationHolds Serializable
CHECK_DEADLOCK FALSE
