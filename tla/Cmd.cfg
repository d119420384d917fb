CONSTANTS
  MaxSupers = 2
  poll_thread = poll_thread
  caller = caller
  m1 = m1
  m2 = m2
  m3 = m3
  Senders = {poll_thread, caller}
  Msgs = {m1, m2, m3}
  Failures <- MayFail
SPECIFICATION FairSpec
INVARIANT TypeOK
INVARIANT NoLostWakeup
PROPERTY IsMailbox
