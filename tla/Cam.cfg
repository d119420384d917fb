CONSTANTS
  m1 = m1
  o1 = o1
  r1 = r1
  Nobody = Nobody
  Manager = m1
  Others = {o1}
  Returners = {r1}
  Slots = {1}
  MaxOpens = 2
  MaxHdl = 2
SPECIFICATION FairSpec
CHECK_DEADLOCK FALSE
INVARIANT TypeOK
INVARIANT NoUseAfterFree
INVARIANT NoUseAfterDelete
INVARIANT RefsCounted
INVARIANT NoCircularWait
PROPERTY EveryCallReturns
