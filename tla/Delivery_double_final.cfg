\* Only ONE final delivery wins via CAS (models/delivery-record.ts).
CONSTANTS
  t1 = t1
  t2 = t2
  m1 = m1
  Turns = {t1}
  Msgs = {m1}
  MsgOf <- MCMsgOf
  MaxLlmAttempts = 2
  MaxProviderAttempts = 2
  FallbackConfigured = TRUE
  MaxFaults = 0
  MaxExpiries = 0
SPECIFICATION Spec
INVARIANTS OneFinalDelivery
CHECK_DEADLOCK FALSE
