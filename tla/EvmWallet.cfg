\* Three concurrent callers, two wallet objects, one key.
SPECIFICATION FairSpec
CONSTANTS
  t1 = t1
  t2 = t2
  t3 = t3
  cctp = cctp
  settlement = settlement
  Tasks = {t1, t2, t3}
  MaxCalls = 2
  WalletOf <- TwoWallets
INVARIANTS
  TypeOK
  LockProtects
PROPERTIES
  CallsReturn
CHECK_DEADLOCK FALSE
