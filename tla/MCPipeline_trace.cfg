\* Two requests that overlap.
CONSTANTS
  Requests = {r1, r2}
  Traced = {r1}
  Dash = Dash
  NoHeader = NoHeader
SPECIFICATION Spec
INVARIANT
  OwnTrace
