\* Two threads in NewPage or FlushAllPages at once, two instances of one frame.
SPECIFICATION Spec
CONSTANTS
  Threads = {t1, t2}
  NumInstances = 2
  PoolSize = 1
  MaxCalls = 3
  MaxPins = 1
  Data = {zero, a}
  Zero = zero
  Absent = Absent
INVARIANTS
  TypeOK
  OneCopy
PROPERTIES
  IsPageStore
  FlushAllSaves
  CallsReturn
