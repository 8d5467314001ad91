\* Two threads, one or two buckets of one pair, keys 0 and 2, which collide, a
\* pool of three frames, any of which others use at times: the program may end.
SPECIFICATION Spec
CONSTANTS
  MaxDepth = 1
  BucketIds = {1, 2}
  Threads = {t1, t2}
  Keys = {0, 2}
  Values = {v}
  Hash <- HashOf
  BucketSize = 1
  PoolSize = 3
  OtherPins = 3
  NoCall = NoCall
  Pending = Pending
INVARIANT ChangesAreMarked
PROPERTY CallsReturn
