CONSTANTS
    Threads = {t1, t2, t3}
    Nobody = Nobody
    MaxNodes = 2
    Recycling = TRUE
SPECIFICATION StackSpec
INVARIANTS
    NoUseAfterFree
