-------------------------- MODULE MCSensorReadings --------------------------
(* One configuration for each case the modules tell apart.                  *)
EXTENDS SensorReadings

Tag(addr, chip, sensors) == [addr |-> addr, upper |-> TRUE, chip |-> chip, sensors |-> sensors]
InLowerCase(tag) == [tag EXCEPT !.upper = FALSE]

Warm(addr) == Tag(addr, "cc2541", {"temperature", "humidity"})
Barometer == Tag(1, "cc2541", {"temperature", "pressure"})
Light(addr) == Tag(addr, "cc2650", {"temperature", "brightness"})

Resolver(chip, tags) == [kind |-> chip, filters |-> <<tags>>]
Filter(filters) == [kind |-> "filter", filters |-> filters]

WithCalibration == {Resolver("cc2541", <<Barometer>>)}
BigTag == {Resolver("cc2650", <<Light(1)>>)}
ThreeFilters == {Filter(<<<<Light(1)>>, <<Light(2)>>, <<Light(3)>>>>)}

MCConfigurations ==
    WithCalibration \cup BigTag \cup ThreeFilters \cup
    {Resolver("cc2541", <<Warm(1)>>), Resolver("cc2541", <<Warm(1), Warm(2)>>),
     Filter(<<<<Light(1), InLowerCase(Light(2))>>, <<Warm(3)>>>>)}
=============================================================================
