\* Up to eight entries and six buckets of depths 0 to 3.
SPECIFICATION Spec
CONSTANTS
  MaxDepth = 3
  BucketIds = {b1, b2, b3, b4, b5, b6}
INVARIANTS
  TypeOK
  Integrity
  AssertionsHold
  NoLargerThanNeeded
PROPERTIES
  OthersStay
  IsTrie
