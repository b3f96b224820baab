SPECIFICATION MCSpec
CONSTANTS
    reader = reader
    writerProcess = writerProcess
    older = older
    NoFile = NoFile
    NoInode = NoInode
    Process <- TheProcesses
    Binary <- TheBinary
    Commands <- TheCommands
    Identity = {a, b}
    Inode = {a, b, c, d}
    MaxWrites = 3
INVARIANTS
    RunsOnOwnSchema
    AckedSurvives
PROPERTIES
    ImplementsRegister

