\* A webhook that is faster than the charge's own save.
CONSTANTS
  Tx = {t1}
  Sources = {s1}
  Cards = {}
  Supported = {s1}
  Charges = {c1}
  Foreign = {}
  Hooks = {h1}
  SingleUse = TRUE
  Faults = FALSE
  Null = Null
  Keep = Keep
  Envelopes <- OnlyComplete
SPECIFICATION Spec
INVARIANTS
  UncreditedIsReported
CHECK_DEADLOCK FALSE
