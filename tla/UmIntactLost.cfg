SPECIFICATION UmSpec
CONSTANTS
    WINDOW = 4
    MOD = 8
    SDU_LENGTHS = {1, 2}
    UM_GRANTS = {1, 3}
    UM_QUEUE = 2
    MAX_SDUS = 4
    UM_LOSS = 1
    UM_FLIGHT = 2
    UM_RESETS = 0
INVARIANTS OnlyLossLoses
CHECK_DEADLOCK FALSE
