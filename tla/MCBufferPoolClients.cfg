\* Two threads, two frames, three pages.  A thread pins a page once, so
\* MaxPins = 2 never refuses a fetch.
SPECIFICATION ClientsSpec
CONSTANTS
  PoolSize = 2
  NumInstances = 1
  InstanceIndex = 0
  MaxPageId = 2
  MaxPins = 2
  Data = {zero, a}
  Zero = zero
  Unwritten = Unwritten
  NoFrame = NoFrame
  Threads = {t1, t2}
  MaxHeld = 1
SYMMETRY ThreadSymmetry
INVARIANTS
  PinsMatchHandles
  HandlesValid
  CleanIsOnDisk
PROPERTY IsDurableStore
