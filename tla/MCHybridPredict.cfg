SPECIFICATION PredictSpec
CONSTANTS
    NumClasses = 5
    NormalIdx = 2
    CodeMap <- MCCodeMap
    Scores <- MCScores
    Probabilities <- MCProbabilities
    Gap = 2
    Forms <- MCForms
    Noise = 1
    Threshold = 4
CHECK_DEADLOCK FALSE
INVARIANTS
    AgreesUpToRounding
