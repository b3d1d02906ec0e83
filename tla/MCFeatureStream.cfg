SPECIFICATION Spec
CONSTANTS
    Window = 3
    NumIds = 16
    CallerIds <- MCCallerIds
    Length = 2
    Payload <- MCPayload
    ZeroPayload <- MCZeroPayload
    Distance <- MCDistance
PROPERTIES
    ImplementsPython
