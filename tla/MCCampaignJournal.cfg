SPECIFICATION FairSpec
CONSTANTS
  t1 = t1
  t2 = t2
  Tasks = {t1, t2}
  Warmups = 1
  Trials = 2
  Comparisons <- MCComparisons
  Values = {1, 2, 3}
  Behaviours <- MCBehaviours
  None = None
  MaxDamage = 2
INVARIANTS TypeOK VerifiedIsGenuine RecordsAheadOfJournal RecoveryTraceable
PROPERTIES LostLinesRecover
CHECK_DEADLOCK FALSE
