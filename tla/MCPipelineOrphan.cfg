SPECIFICATION RetrySpec
CONSTANTS
  Records = {r1}
  Documents = {d1}
  Clean = {d1}
  Uploaders = {u1}
  Ciphers = {u1}
  Reconcilers = {}
  Policies = {h1}
  Payloads <- MCPayloads
  TxIds = {t1, t2}
  None = None
  Retention = 0
  LeaseTime = 0
  ReceiptLife = 1
  MaxTime = 1
  Faults = {"crash"}
  MaxFaults = 1
PROPERTY RetriedUploadIsStored
CHECK_DEADLOCK FALSE
