SPECIFICATION Spec
CONSTANTS
  Records = {r1, r2, r3}
  Documents = {d1, d2}
  Ciphers = {c1}
  Payloads = {x1, x2}
  TxIds = {t1, t2}
  None = None
  Retention = 2
  LeaseTime = 1
  MaxTime = 4
SYMMETRY Symmetry
INVARIANTS TypeOK FencedPrepare FencedFailure OutboxInStep ReplayWindow
PROPERTY OnlyForward
CHECK_DEADLOCK FALSE
