\* Two transactions with one source, which may be charged again, a charge of
\* another program and every kind of envelope.
CONSTANTS
  Tx = {t1, t2}
  Sources = {s1}
  Cards = {}
  Supported = {s1}
  Charges = {c1, c2}
  Foreign = {f1}
  Hooks = {h1}
  SingleUse = FALSE
  Faults = TRUE
  Null = Null
  Keep = Keep
  Envelopes <- AllKinds
SPECIFICATION Spec
SYMMETRY Names
INVARIANTS
  TypeOK
  
  NoticeFollowsCredit
  RecordedIsCredited
CHECK_DEADLOCK FALSE
