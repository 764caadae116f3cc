SPECIFICATION Spec
CONSTANTS
  Records = {r1}
  Documents = {d1}
  Clean = {d1}
  Uploaders = {u1, u2}
  Ciphers = {u1, u2}
  Reconcilers = {}
  Policies = {h1}
  Payloads <- MCPayloads
  TxIds = {t1, t2}
  None = None
  Retention = 1
  LeaseTime = 0
  ReceiptLife = 1
  MaxTime = 2
  Faults = {"store_ack"}
  MaxFaults = 1
SYMMETRY Symmetry
INVARIANT EvidenceRetained
CHECK_DEADLOCK FALSE
