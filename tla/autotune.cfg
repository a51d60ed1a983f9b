SPECIFICATION AutotuneSpec
CONSTANTS
    MaxCommands = 4
    Points = 2
    EnoughPoints = 1
    MaxCurve = 2
    MinCurve = 2
    Typed <- MCTyped
INVARIANTS
    QuietWhileDriven
    SessionGivenBack
    TrIsNotTheTypedOne
PROPERTIES
    FailedTestKeepsResults
    GainsOfThePresentMotor
    CommandsEnd
