\* More frames than num_pages.  A thread that meets the full list stops the
\* others for ever, so the behaviour may end.
SPECIFICATION Spec
CONSTANTS
  Threads = {t1, t2}
  Frames = {f1, f2, f3, f4}
  NumPages = 3
  NoFrame = NoFrame
  Free = Free
INVARIANTS
  TypeOK
  MapMatchesList
  WithinCapacity
PROPERTIES
  LatchReleased
  FollowsPolicy
CHECK_DEADLOCK FALSE
