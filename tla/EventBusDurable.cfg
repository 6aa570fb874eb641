SPECIFICATION Spec
CONSTANTS
    w1 = w1
    w2 = w2
    Workers = {w1}
    BatchSize = 2
    Faults <- AckFaults
    MaxEvents = 2
    MaxFaults = 1
PROPERTIES
    EventuallyRecorded
