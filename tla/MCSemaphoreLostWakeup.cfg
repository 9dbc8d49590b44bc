CONSTANTS
    Threads = {t1, t2}
    Permits = 1
    Nobody = Nobody
SPECIFICATION SemaphoreFairSpec
PROPERTY AcquirersUnblocked
