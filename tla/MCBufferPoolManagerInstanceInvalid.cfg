\* The same pool, asked about the id that names no page.
SPECIFICATION Spec
CONSTANTS
  PoolSize = 2
  NumInstances = 2
  InstanceIndex = 1
  MaxPageId = 5
  MaxPins = 2
  Data = {zero, a}
  Zero = zero
  Unwritten = Unwritten
  NoFrame = NoFrame
INVARIANT InvalidIdNeverWritten
