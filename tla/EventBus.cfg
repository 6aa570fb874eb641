SPECIFICATION Spec
CONSTANTS
    w1 = w1
    w2 = w2
    Workers = {w1, w2}
    BatchSize = 2
    Faults <- FaultKinds
    MaxEvents = 3
    MaxFaults = 2
INVARIANTS
    TypeOK
    DeliveredIsRecordedOrPending
PROPERTIES
    RecordedUnlessStuck
    ImplementsLedger
