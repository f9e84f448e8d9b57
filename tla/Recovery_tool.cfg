CONSTANTS
    Slots = {"A", "B"}
    Goals = {"ping", "upload", "boot", "factory", "reset"}
    Client = "tool"
    MaxFails = 2
    SlowFrom = 2
    DigestUnits = 2
    ChunkUnits = 1
    NChunks = 1
    MaxRuns = 2
    MaxTrouble = 0
SPECIFICATION Spec
PROPERTIES
    ClientCompletes
CHECK_DEADLOCK FALSE
