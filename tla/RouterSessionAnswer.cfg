\* A prompt of the greeting is still the last line when the answer is awaited.
CONSTANTS
    Keys = {k1, k2}
    None = None
    Submitted <- MCOrdinary
SPECIFICATION Spec
INVARIANT
    SuccessMeansProcessed
CHECK_DEADLOCK FALSE
