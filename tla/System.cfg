SPECIFICATION Spec
CONSTANTS
    Clients = {c1, c2}
    GpuTtl = 2
    MaxTime = 4
    MaxBytes = 1
    MaxFaults = 1
INVARIANTS SamplesTile GpuSpared
PROPERTIES LeaverForgotten
CHECK_DEADLOCK FALSE
