SPECIFICATION UsageSpec
CONSTANTS
    Zones <- ZonesDayApart
    Day = 4
    Limit = 2
    MaxClock = 9
PROPERTY NoFreshDay
CHECK_DEADLOCK FALSE
