SPECIFICATION Spec
CONSTANTS
  Units <- MCUnits
  Requests <- MCRequests
  NoRequest = NoRequest
INVARIANT UncertainNotPresented
