SPECIFICATION Spec
CONSTANTS
    Word <- MCWord
    ElementSize <- MCElementSize
    MaxReserve = 40
INVARIANTS
    VectorTypeOK ElementsCovered
PROPERTIES
    CallsReturn
CHECK_DEADLOCK FALSE
