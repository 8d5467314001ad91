\* Three slots in bitmaps of two bytes, and four pairs: tombstones before and
\* behind any pair, and a last byte that is used in part.
SPECIFICATION Spec
CONSTANTS
  Keys = {0, 1}
  Values = {0, 1}
  BucketArraySize = 3
  ByteBits = 2
  ZeroPair <- MCZeroPair
INVARIANTS
  TypeOK
  ScansSeeEverything
  StoredOnce
  QueriesAgree
PROPERTIES
  IsBucketSet
