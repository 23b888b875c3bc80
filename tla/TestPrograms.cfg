CONSTANTS
  Strings = {n1, n2, n3, n4}
  Ints = {i1, i2, i3, i4}
  MaxCalls = 6
  Names <- MCNames
  Descriptors <- MCDescriptors
  to_string <- MCto_string
  code <- MCcode
  IntRange = 4
  MaxVector = 2
  Main = main
  w1 = w1
  w2 = w2
  c1 = c1
  c2 = c2
  c3 = c3
  Waits <- MCWaits
  Checks <- MCChecks
  Unknown = {u1, u2, u3, u4}
  num_ones = 3
  num_twos = 1
  Servers = {0, 1, 10}
  main_thread = main_thread
  Workers = {s1, s2, s3}
  Segmentations <- MCSegmentations
SPECIFICATION Spec
INVARIANTS MutuallyInverse VectorComesBack OrderDecides BarriersHold TestsPass
PROPERTIES ImplementsBijection TestsEnd
CHECK_DEADLOCK FALSE
