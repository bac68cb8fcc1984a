SPECIFICATION Spec
CONSTANTS
  Callback = {cb1}
  NoCallback = NoCallback
  MaxSamples = 1
PROPERTIES DtorReturns
CHECK_DEADLOCK FALSE
