\* Two transactions, each of which can be charged, and one delivery.
CONSTANTS
  Tx = {t1, t2}
  Sources = {s1, s2}
  Cards = {s2}
  Supported = {s1, s2}
  Charges = {c1, c2}
  Foreign = {}
  Hooks = {h1}
  SingleUse = TRUE
  Faults = TRUE
  Null = Null
  Keep = Keep
  Envelopes <- OnlyComplete
SPECIFICATION Spec
SYMMETRY Names
INVARIANTS
  CreditsOwnPayment
  StatusIsReal
  LogsOfOwnCharges
  AnsweredIsFindable
  NoSaveConflicts
CHECK_DEADLOCK FALSE
