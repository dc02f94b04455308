SPECIFICATION Spec
CONSTANTS
  OptionsToggle = TRUE
  Maintenance = TRUE
  Writes = TRUE
  Unloads = TRUE
INVARIANTS TypeOK ExclusiveLink MaintenanceQuiet StoppedQuiet LiveLoopRuns
PROPERTIES KeepsAccess FreshSuccess
