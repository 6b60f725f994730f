CONSTANTS
  Config <- Calibration
  Received = {}
  MaxReceived = 0
  OtherDevices = FALSE
SPECIFICATION FairSpec
PROPERTIES DestroyReturns
CHECK_DEADLOCK FALSE
