SPECIFICATION Spec
CONSTANTS
    Nothing = Nothing
    Transports = {"AMQP"}
    MaxPersonalities = 2
    MaxBegun = 1
    Configurations <- MCConfigurations
    TelemetryMacs <- MCTelemetryMacs
PROPERTY
    PublishesWithBroker
CHECK_DEADLOCK FALSE
