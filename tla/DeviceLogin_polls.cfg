CONSTANTS
  g1 = g1
  g2 = g2
  p1 = p1
  p2 = p2
  t1 = t1
  t2 = t2
  Grants = {g1, g2}
  Polls = {p1, p2}
  Tabs = {t1}
  Interval = 2
  MaxFaults = 1
SPECIFICATION FairSpec
INVARIANTS OneTokenPerGrant LossesAreDrops
PROPERTIES TerminalIsFinal ApprovedIsClaimed
