\* Two frames and three pages (1, 3 and 5): every frame changes hands.
SPECIFICATION Spec
CONSTANTS
  PoolSize = 2
  NumInstances = 2
  InstanceIndex = 1
  MaxPageId = 5
  MaxPins = 2
  Data = {zero, a}
  Zero = zero
  Unwritten = Unwritten
  NoFrame = NoFrame
INVARIANTS
  TypeOK
  FramesAccounted
  PageTableExact
  FreshIdsUnused
  NoSelfDeadlock
PROPERTIES
  PinnedFrameStable
  DirtyPageSaved
