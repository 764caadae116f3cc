SPECIFICATION Spec
CONSTANTS
  Records = {r1}
  Documents = {d1, d2}
  Clean = {d1, d2}
  Uploaders = {u1, u2}
  Ciphers = {u1, u2}
  Reconcilers = {}
  Policies = {h1}
  Payloads <- MCPayloads
  TxIds = {t1, t2}
  None = None
  Retention = 0
  LeaseTime = 0
  ReceiptLife = 1
  MaxTime = 2
  Faults = {"crash", "worker", "ledger", "store", "store_ack"}
  MaxFaults = 2
SYMMETRY Symmetry
INVARIANTS TypeOK LedgerWriteAhead AckTruthful FinishSucceeds
CHECK_DEADLOCK FALSE
