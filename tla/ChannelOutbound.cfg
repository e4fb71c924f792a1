\* Any adapter, two channels, two entries, two faults; the consumer ends at the second.
SPECIFICATION OutboundSpec
CONSTANTS
  c1 = c1  c2 = c2
  Channels = {c1, c2}
  Last = 2
  BatchSize = 2
  MaxRetries = 2
  MaxFaults = 2
  MaxIdle = 1
SYMMETRY Symmetry
INVARIANTS OutboundTypeOK SentAndAcked
PROPERTIES InOrder
CHECK_DEADLOCK FALSE
