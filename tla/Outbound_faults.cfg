\* The endpoint cannot be read once.
CONSTANTS
  Errors = {1}
  Issues = {}
  Tests = {}
  Endpoints = {e1}
  Operator = operator
  NtfyEnabled = TRUE
  MaxEndpoints = 1
  Workers = {w1}
  MaxAttempts = 2
  MaxDisruptions = 1
SPECIFICATION Spec
INVARIANT DoneWasReceived
