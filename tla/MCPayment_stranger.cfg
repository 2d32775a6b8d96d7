\* The webhook of a charge of another program.
CONSTANTS
  Tx = {t1}
  Sources = {s1}
  Cards = {}
  Supported = {s1}
  Charges = {c1}
  Foreign = {f1}
  Hooks = {h1}
  SingleUse = TRUE
  Faults = FALSE
  Null = Null
  Keep = Keep
  Envelopes <- OnlyComplete
SPECIFICATION Spec
PROPERTIES
  StrangersAreUnmatched
CHECK_DEADLOCK FALSE
