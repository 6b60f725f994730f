CONSTANTS
  Config <- Plain
  Received = {"read_once", "write_at_exit"}
  MaxReceived = 2
  OtherDevices = TRUE
SPECIFICATION FairSpec
INVARIANTS LifetimeInv ExitWritesFirst OnlyKnownCrashes
PROPERTIES InstructionsRun DestroyReturnsUnlessQuitLost
CHECK_DEADLOCK FALSE
