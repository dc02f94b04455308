SPECIFICATION Spec
INVARIANTS
  SetsAgree
  WhitelistExact
