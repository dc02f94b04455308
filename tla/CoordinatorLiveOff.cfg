SPECIFICATION FairSpec
CONSTANTS
  OptionsToggle = TRUE
  Maintenance = FALSE
  Writes = FALSE
  Unloads = FALSE
PROPERTY LiveOffResumes
