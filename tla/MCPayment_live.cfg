\* No call fails and no process dies; one source is not supported.
CONSTANTS
  Tx = {t1, t2}
  Sources = {s1, s2, s3}
  Cards = {s2}
  Supported = {s1, s2}
  Charges = {c1, c2}
  Foreign = {}
  Hooks = {h1}
  SingleUse = TRUE
  Faults = FALSE
  Null = Null
  Keep = Keep
  Envelopes <- OnlyComplete
SPECIFICATION FairSpec
INVARIANTS
  RecordedIsCredited
PROPERTIES
  FoundIsCredited
  PaidIsCredited
CHECK_DEADLOCK FALSE
