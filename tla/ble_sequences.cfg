CONSTANTS
  Config <- Calibration
  Received = {}
  MaxReceived = 0
  OtherDevices = FALSE
SPECIFICATION FairSpec
PROPERTIES SequencesRun
CHECK_DEADLOCK FALSE
