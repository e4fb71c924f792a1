\* An answer acknowledged by its own channel was sent: not as ioredis gives the fields.
SPECIFICATION OutboundSpec
CONSTANTS
  c1 = c1  c2 = c2
  Channels = {c1, c2}
  Last = 2
  BatchSize = 2
  MaxRetries = 2
  MaxFaults = 2
  MaxIdle = 1
SYMMETRY Symmetry
INVARIANTS AckedIsSent
CHECK_DEADLOCK FALSE
