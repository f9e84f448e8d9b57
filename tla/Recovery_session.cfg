CONSTANTS
    Slots = {"A"}
    Goals = {"upload", "factory"}
    Client = "protocol"
    MaxFails = 2
    SlowFrom = 2
    DigestUnits = 2
    ChunkUnits = 1
    NChunks = 1
    MaxRuns = 3
    MaxTrouble = 1
SPECIFICATION Spec
INVARIANTS
    TypeOK
    OneAnswerPerChallenge
    WrongAnswersBounded
    SuccessIsTrue
PROPERTIES
    
    ClientCompletes
CHECK_DEADLOCK FALSE
