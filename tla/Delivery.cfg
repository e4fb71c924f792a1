\* The channel sends one message twice, within the dedup key's life or after it; one fault.
CONSTANTS
  t1 = t1
  t2 = t2
  m1 = m1
  Turns = {t1, t2}
  Msgs = {m1}
  MsgOf <- MCMsgOf
  MaxLlmAttempts = 2
  MaxProviderAttempts = 3
  FallbackConfigured = TRUE
  MaxFaults = 1
  MaxExpiries = 1
SPECIFICATION FairSpec
ACTION_CONSTRAINT ExpiresBehind
INVARIANTS TypeOK LedgerIsTrue DedupWindow
PROPERTIES ImplementsLedger EveryCallAccounted
CHECK_DEADLOCK FALSE
