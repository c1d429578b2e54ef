CONSTANTS
  Job = {j1}
  Unprintable = {}
  Pings = 2
  None = None
SPECIFICATION ClamavSpec
CHECK_DEADLOCK FALSE
INVARIANT UnscannedIsTold
