SPECIFICATION RuntimeSpec
CONSTANTS
    WINDOW = 4
    MOD = 8
    SDU_LENGTHS = {1, 2}
    UM_GRANTS = {1, 3}
    UM_QUEUE = 2
    MAX_SDUS = 4
    UM_LOSS = 1
    UM_FLIGHT = 2
    UM_RESETS = 1
    NOF_SLOTS = 2
    CLOCK = 17
    DURATIONS = {2, 5}
    LAST_TICK = 2
    MAX_EQUAL = 2
    MAX_QUEUED = 3
    PUSHERS = {"p1", "p2", "p3"}
    POPPERS = {"stack"}
    NOF_QUEUES = 2
    CAPACITY = 2
    MAX_PUSHES = 2
    TARGET <- SharedQueue
    ERASED = {0}
    RESETS = TRUE
INVARIANTS UmTypeOK WholeSdus SdusInOrder UmGapIsTimed LostBehindBroken TypeOK RunningIsQueued ElapsedWithinDuration FiredStaysExpired QueuesTypeOK NoItemForgotten NoPlaceForgotten RoundRobin ItemsInOrder
PROPERTIES FiresOnTime EverythingHandled ResetUnblocks
CHECK_DEADLOCK FALSE
