SPECIFICATION Spec
CONSTANTS
  Units <- MCUnits
  Requests <- MCRequests
  NoRequest = NoRequest
INVARIANTS
  TypeOK
  PayloadWhitelisted
  OfferedIsAccepted
PROPERTIES
  KeepsContract
  StoredIsShown
