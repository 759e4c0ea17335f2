SPECIFICATION Spec
CONSTANTS
    MaxEntries = 2
    MaxSteps = 2
    Operands <- MCOperands
INVARIANTS QuantityMeans LineMeans
CHECK_DEADLOCK FALSE
