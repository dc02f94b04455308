SPECIFICATION Spec
CONSTANTS
  Intervals = {1, 2, 5}
  MinInterval = 2
  LiveIntervals = {1, 4}
  MaxBackoff = 3
  FailureCap = 2
  ImageAge = 3
  ImageRetry = 3
  MaxIO = 1
  MaxAge = 4
  None = None
INVARIANTS TypeOK PolledOnTime NoConnectStorm PausePrompt
PROPERTIES NeverHurried PollingBySwitchOnly
