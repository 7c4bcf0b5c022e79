SPECIFICATION Spec
CONSTANTS
    Numbers <- MCNumbers
    Messages = {7, 13, 17}
    BaseTarg = 3
    Offsets = {0, 1}
INVARIANTS TypeOK KeyConsistent KeyPairWorks FlagEarned
CHECK_DEADLOCK FALSE
