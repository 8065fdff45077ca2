SPECIFICATION Spec
CONSTANTS
    Shas = {s1, s2, s3}
    Absent = Absent
INVARIANTS
    TypeOK
    ServingSlotsRun
    ReleaseRuns
    MarkerCoversDoubt
    NextRunAccepted
    PlainFailureUnblocked
    FallbackRuns
    SuccessMeansCutover
    NoOrphanObservers
PROPERTIES
    CommitIsFinal
    ImplementsRecordedRelease
    RunSettles
