SPECIFICATION FairSpec
CONSTANTS
  OptionsToggle = TRUE
  Maintenance = FALSE
  Writes = TRUE
  Unloads = TRUE
PROPERTIES WriteAnswered LiveRecovers PollingResumes
