\* One page of the playground: edits, stops, failures, reloads and long streams.
SPECIFICATION FairSpec
CONSTANTS
    MaxGens = 3
    MaxChunks = 3
    MaxLives = 2
    Setups <- MCSetups
INVARIANTS
    NoForeignText
    SettledMessages
    AllTextShown
PROPERTIES
    GenerationEnds
CHECK_DEADLOCK FALSE
