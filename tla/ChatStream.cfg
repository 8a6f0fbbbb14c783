\* Three pieces of text, blank or not; two lines and two frames on their way.
SPECIFICATION StreamFairSpec
CONSTANTS
    MaxPieces = 3
    InFlight = 2
INVARIANTS
    NeverMalformed
    TextIsTrue
    FinishedIsFinished
PROPERTIES
    AllStagesEnd
