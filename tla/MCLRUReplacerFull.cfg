\* As many frames as num_pages: the list can be full when Unpin runs.
SPECIFICATION Spec
CONSTANTS
  Threads = {t1, t2}
  Frames = {f1, f2, f3}
  NumPages = 3
  NoFrame = NoFrame
  Free = Free
INVARIANT NoSelfLock
