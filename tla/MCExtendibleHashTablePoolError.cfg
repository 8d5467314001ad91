\* A thread, one or two buckets of one pair, where keys 0 and 2 collide, a pool
\* of three frames, one of which others use at times.
SPECIFICATION Spec
CONSTANTS
  MaxDepth = 1
  BucketIds = {1, 2}
  Threads = {t1}
  Keys = {0, 1, 2}
  Values = {v}
  Hash <- HashOf
  BucketSize = 1
  PoolSize = 3
  OtherPins = 1
  NoCall = NoCall
  Pending = Pending
PROPERTY PoolErrorFailsInsert
