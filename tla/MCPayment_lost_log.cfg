\* Two webhooks that save the same transaction.
CONSTANTS
  Tx = {t1}
  Sources = {s1}
  Cards = {}
  Supported = {s1}
  Charges = {c1}
  Foreign = {}
  Hooks = {h1, h2}
  SingleUse = TRUE
  Faults = FALSE
  Null = Null
  Keep = Keep
  Envelopes <- OnlyComplete
SPECIFICATION Spec
PROPERTIES
  WebhookOnlyAddsLogs
CHECK_DEADLOCK FALSE
