SPECIFICATION RetrySpec
CONSTANTS
  Records = {r1, r2}
  Documents = {d1}
  Clean = {d1}
  Uploaders = {u1, u2}
  Ciphers = {u1, u2}
  Reconcilers = {}
  Policies = {h1}
  Payloads <- MCPayloads
  TxIds = {t1, t2}
  None = None
  Retention = 1
  LeaseTime = 0
  ReceiptLife = 1
  MaxTime = 1
  Faults = {}
  MaxFaults = 0
INVARIANT EvidenceRetained
PROPERTY RetriedUploadIsStored
CHECK_DEADLOCK FALSE
