SPECIFICATION Spec
CONSTANTS
  Entries = {e1, e2}
  Coordinators = {c1, c2}
  Calls = {k1}
  Units = {u1, u2}
  Flows = {f1, f2}
  Submissions = {s1, s2}
  None = None
  Malformed = Malformed
SYMMETRY Symmetry
INVARIANTS TypeOK ServiceServes UnloadedQuiet OneEntryPerUnit EntryVerified UnitOwner
CHECK_DEADLOCK FALSE
