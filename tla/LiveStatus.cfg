CONSTANTS
  t1 = t1
  s1 = s1
  s2 = s2
  Pages = {t1}
  Sockets = {s1, s2}
  Limit = 1
  MaxChanges = 2
  MaxFaults = 1
  Hello = Hello
  Asked = Asked
  None = None
SPECIFICATION FairSpec
INVARIANTS NoGap
PROPERTIES Converges ComesBack
CHECK_DEADLOCK FALSE
