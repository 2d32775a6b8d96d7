\* One probe, and services that come and go.
CONSTANTS
  Requests = {r1}
  Traced = {r1}
  Dash = Dash
  NoHeader = NoHeader
SPECIFICATION Spec
INVARIANT
  ProbeSeesFailure
