CONSTANTS
  Config <- Calibration
  Received = {}
  MaxReceived = 0
  OtherDevices = FALSE
SPECIFICATION FairSpec
PROPERTIES PublishesAttached
CHECK_DEADLOCK FALSE
