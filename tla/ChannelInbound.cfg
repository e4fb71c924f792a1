\* Any adapter, a text and a message of any class, two handlers, two faults.
SPECIFICATION FairSpec
CONSTANTS
  m1 = m1  m2 = m2  s1 = s1  s2 = s2  NoMsg = NoMsg
  Msgs = {m1, m2}
  Texts = {m1}
  Slots = {s1, s2}
  MaxFaults = 2
INVARIANTS TypeOK StreamIsExact
PROPERTIES EventuallyQueued
CHECK_DEADLOCK FALSE
