SPECIFICATION Spec
CONSTANTS
    Nothing = Nothing
    Transports = {"AMQP", "MQTT"}
    MaxPersonalities = 2
    MaxBegun = 2
    Configurations <- MCConfigurations
    TelemetryMacs <- MCTelemetryMacs
INVARIANTS
    PathInv
    RoutesAgree
    OnlyKnownWindows
PROPERTIES
    EventuallyRegistered
    DestroyReturns
CHECK_DEADLOCK FALSE
