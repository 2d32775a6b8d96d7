\* Two requests, one of them without a trace id.
CONSTANTS
  Requests = {r1, r2}
  Traced = {r1}
  Dash = Dash
  NoHeader = NoHeader
SPECIFICATION FairSpec
INVARIANTS
  PipelineTypeOK
  AnswerTellsOutcome
  AnswersInLanguage
  
  
  TraceIsNotOlder
PROPERTIES
  EveryRequestEnds
