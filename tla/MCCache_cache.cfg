\* One key of data that change once, two callers that call again and again.
CONSTANTS
  Keys = {k1}
  Callers = {a, b}
  Default = 4
  Redis = TRUE
  Faults = TRUE
  MaxVersion = 1
  CacheAll = CacheAll
  Undefined = Undefined
  None = None
  Ttls <- SomeTtls
SPECIFICATION FairSpec
INVARIANTS
  CacheTypeOK
  
  ClearedStaysCleared
  IgnoreCacheIsCurrent
PROPERTIES
  FreshInTheEnd
  ImplementsContract
