\* One transaction charged from two sources, and two deliveries.
CONSTANTS
  Tx = {t1}
  Sources = {s1, s2}
  Cards = {s2}
  Supported = {s1, s2}
  Charges = {c1, c2}
  Foreign = {}
  Hooks = {h1, h2}
  SingleUse = TRUE
  Faults = TRUE
  Null = Null
  Keep = Keep
  Envelopes <- OnlyComplete
SPECIFICATION Spec
SYMMETRY Names
INVARIANTS
  CreditedIsRecorded
  StatusIsLogged
  RowMatchesCharge
PROPERTIES
  NeverUntied
  ImplementsLedger
CHECK_DEADLOCK FALSE
