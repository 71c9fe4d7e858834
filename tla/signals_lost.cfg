CONSTANT
    MaxSignals = 1
SPECIFICATION Spec
INVARIANT WokenByChild
CHECK_DEADLOCK FALSE
