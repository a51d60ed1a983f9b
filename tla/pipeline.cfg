SPECIFICATION PipeSpec
CONSTANTS
    Truths <- MCTruths
    Excitation <- MCExcitation
    StartVectors <- MCStartVectors
    Errors <- MCErrors
    FlawedSamples <- MCFlawedSamples
    FlawedCells <- MCFlawedCells
    MaxFlaws = 1
    NoMap = NoMap
    MinSamples = 8
    MaxSamples = 64
    MadLimit = 2
    KclLimit = 1
    MinMargin = 2
    Holdout = 2
    RmsLimit = 2
    MaxLimit = 4
    BiasLimit = 2
    HoldoutLimit = 2
    KclRmsLimit = 1
    MaxCondition = 1000
    MinDeterminant = 100
    MinDiagonal = 5
    CoeffScale = 1000
    DetScale = 10000
    MinValidCells = 4
    Guard = 1
    Tolerance = 800
INVARIANTS
    CleanCampaignLoads
    MatrixIsNearTruth
    BoxIsTested
    NoFrameTwice
    CleanRowsAreExact
CHECK_DEADLOCK FALSE
