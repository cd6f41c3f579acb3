CONSTANTS
    Backends = {"eql", "live", "test"}
    MaxGeneration = 2
    MaxPending = 1
    LootIds = {1, 2}
SPECIFICATION Spec
INVARIANTS
    HostReadsWhatTheSessionEmitted
    RowsLeaveWithTheirEvents
    ResetAnnouncedBeforeItsCause
    BatchNamesAGenerationOfItsCall
    
