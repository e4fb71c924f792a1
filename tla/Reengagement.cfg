\* One rule with a budget of two, two scans, two workers, a reply and a crash.
CONSTANTS
  r1 = r1  s1 = s1  s2 = s2  w1 = w1  w2 = w2
  NoAttempt = NoAttempt  UserTurn = UserTurn  ChatAnswer = ChatAnswer
  Rules = {r1}
  Scanners = {s1, s2}
  Workers = {w1, w2}
  MaxAttempts <- Two
  MaxReplies = 1
  MaxFaults = 1
SPECIFICATION FairSpec
INVARIANTS TypeOK TableIsTrue
PROPERTIES IntervalKept AttemptsEnd
CHECK_DEADLOCK FALSE
