SPECIFICATION FairSpec
CONSTANTS
  h1 = h1
  h2 = h2
  Hashes <- AllHashes
  Figures <- TwoFigures
  Interval = 1
  Margin = 0
  Timeout = 1
  MaxLate = 1
  MaxId = 2
  Arrivals <- FirstIsH1
INVARIANT UnhealthyMeansOverdue
PROPERTIES HeartbeatsGoOn FiguresSettle
