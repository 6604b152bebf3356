SPECIFICATION Spec
CONSTANTS
    Flow = {f, g}
    Iface = {wan, lan}
    Cap = 2
    BatchSize = 1
    FlowTtl = 1
    DedupTtl = 4
    SweepEvery = 4
    CallTime = 1
    Lag = 1
    MaxTime = 5
INVARIANTS SensorTypeOK OneAtATime TrafficAddsUp
PROPERTIES LossHasACause RingServed
CHECK_DEADLOCK FALSE
