SPECIFICATION FairSpec
CONSTANTS
  Saver = {s1, s2}
  Process = {p1}
  ProcessOf <- MCProcessOf
  Source = {"tag"}
  Scratch = {"copy"}
  Tag = {good, bad}
  BigEndian = {bad}
  Unreadable = {bad}
  Parts = 2
  Attempts = 2
  MaxFaults = 2
INVARIANTS SaveInv TempsAreApart BadEncodeNeverLands LeftoversNeedFaults
PROPERTY SaveReturns
CHECK_DEADLOCK FALSE
