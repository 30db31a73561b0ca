\* A token loses its right while its indicators are queued.
CONSTANTS
    t1 = t1
    t2 = t2
    Tokens = {t1, t2}
    Workloads <- OnlyCreates
    CREATE_QUEUE_FLUSH = 1
    CREATE_QUEUE_TIMEOUT = 1
    CREATE_QUEUE_MAX = 2
    TOKEN_CACHE_DELAY = 1
SPECIFICATION Spec
INVARIANT RefusalSurvived
