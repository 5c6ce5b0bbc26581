CONSTANTS
    Capacity = 1
    High = 4
    Low = 2
    FrameSizes = {1, 2, 3}
    MaxUp = 3
    MaxDown = 4
SPECIFICATION Spec
INVARIANT RelayedInOrder
PROPERTIES BackpressureEnds RelayEnds
CHECK_DEADLOCK FALSE
