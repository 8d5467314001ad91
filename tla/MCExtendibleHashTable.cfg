\* Two threads, up to four buckets of one pair, as many frames as needed.
SPECIFICATION Spec
CONSTANTS
  MaxDepth = 2
  BucketIds = {1, 2, 3, 4}
  Threads = {t1, t2}
  Keys = {0, 1, 4}
  Values = {v}
  Hash <- HashOf
  BucketSize = 1
  PoolSize = 3
  OtherPins = 0
  NoCall = NoCall
  Pending = Pending
SYMMETRY ThreadSymmetry
INVARIANTS
  TypeOK
  PageIdIsCurrent
  PairsAreFindable
  PinsAreReturned
  AbortsOnlyWhenExhausted
PROPERTY IsPairStore
