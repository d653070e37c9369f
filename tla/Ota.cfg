SPECIFICATION FairOtaSpec
CONSTANTS
    Clients = {"run"}
    ClientAddress <- FromPi
    Addresses = {"pi", "other"}
    Data = {"a", "b", "f"}
    StagedFiles <- MCStagedFiles
    FactoryImage <- MCFactory
    MaxChunks = 2
    Token = "right"
    Tokens = {"right", "wrong"}
    Window = 2
    OtaEvents = {"stage", "break", "reset", "flash", "source", "key"}
INVARIANTS
    OtaTypeOK
    SuccessMeansStored
PROPERTIES
    UpdateIsAtomic
    AcceptedRuns
    ClientEnds
