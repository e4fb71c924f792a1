\* Three calls of any tools under two keys, two faults.
CONSTANTS
  c1 = c1  c2 = c2  c3 = c3  k1 = k1  k2 = k2
  book = book  lookup = lookup  wipe = wipe  pay = pay  ghost = ghost  shell = shell
  Calls = {c1, c2, c3}
  Keys = {k1, k2}
  Tools = {book, lookup, wipe, pay, ghost, shell}
  Registered = {book, lookup, wipe, pay}
  Writes = {book, wipe, pay}
  Allowed = {book, lookup, wipe, pay, ghost}
  MayWrite = {book, pay}
  Confirmed = {pay}
  MaxFaults = 2
SPECIFICATION GatewaySpec
SYMMETRY Symmetry
INVARIANTS GatewayTypeOK WritesAreTrue
PROPERTIES ImplementsOnceCell
CHECK_DEADLOCK FALSE
