SPECIFICATION Spec
CONSTANTS
  Saver = {s1}
  Process = {p1}
  ProcessOf <- MCProcessOf
  Source = {"tag"}
  Scratch = {"copy"}
  Tag = {good, swapped, bad}
  BigEndian = {swapped}
  Unreadable = {bad}
  Parts = 2
  Attempts = 2
  MaxFaults = 1
INVARIANT FailureLeavesATag
CHECK_DEADLOCK FALSE
