SPECIFICATION FairSpec
CONSTANTS
  Records = {r1}
  Documents = {d1}
  Clean = {d1}
  Uploaders = {u1}
  Ciphers = {u1, q1}
  Reconcilers = {q1}
  Policies = {h1, h2}
  Payloads <- MCPayloads
  TxIds = {t1, t2}
  None = None
  Retention = 0
  LeaseTime = 0
  ReceiptLife = 1
  MaxTime = 2
  Faults = {"crash", "ledger", "store", "policy", "revocation"}
  MaxFaults = 2
INVARIANTS CommittedIsLedgered ReportTruthful CountedForCause
PROPERTIES ImplementsProtocol LostAckReconciles
CHECK_DEADLOCK FALSE
