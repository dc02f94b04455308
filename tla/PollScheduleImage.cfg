SPECIFICATION Spec
CONSTANTS
  Intervals = {1, 2, 5}
  MinInterval = 2
  LiveIntervals = {1}
  MaxBackoff = 3
  FailureCap = 2
  ImageAge = 3
  ImageRetry = 3
  MaxIO = 1
  MaxAge = 6
  None = None
INVARIANT LiveImageFresh
