\* Two threads in NewPage at once: does the loop visit every instance?
SPECIFICATION Spec
CONSTANTS
  Threads = {t1, t2}
  NumInstances = 2
  PoolSize = 1
  MaxCalls = 4
  MaxPins = 1
  Data = {zero, a}
  Zero = zero
  Absent = Absent
INVARIANT NullMeansAllRefused
