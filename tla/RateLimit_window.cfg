CONSTANTS
  k1 = k1
  k2 = k2
  Keys = {k1, k2}
  WindowMs = 3
  MaxRequests = 2
  Horizon = 7
SPECIFICATION Spec
INVARIANTS
  TypeOK
  
  BucketsPruned
  RefusedOnlyWhenUsed
