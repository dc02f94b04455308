SPECIFICATION FairSpec
CONSTANTS
  OptionsToggle = FALSE
  Maintenance = TRUE
  Writes = TRUE
  Unloads = TRUE
PROPERTIES StopTerminates PauseReturns PollingContinues
