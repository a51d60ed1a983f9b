SPECIFICATION MapSpec
CONSTANTS
    Rows <- MCRows
    Axes <- MCAxes
    Coords <- MCCoords
    DeadTimes <- MCDeadTimes
    Uploads <- MCUploads
    ShrinkSteps <- MCShrinkSteps
    NoMap = NoMap
INVARIANTS
    VectorIsMeasured
PROPERTIES
    RefusedUploadIsHarmless
    MapInForceSpec
