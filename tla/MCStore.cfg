\* Three single creates, of two tokens and by two sockets, fill the queue; or
\* requests of every kind meet. Rights are looked up, never cached.
CONSTANTS
    t1 = t1
    t2 = t2
    Tokens = {t1, t2}
    Workloads <- EveryKind
    CREATE_QUEUE_FLUSH = 1
    CREATE_QUEUE_TIMEOUT = 0
    CREATE_QUEUE_MAX = 2
    TOKEN_CACHE_DELAY = 0
SPECIFICATION Spec
INVARIANTS TypeOK CountMatches AckedAccounted
PROPERTIES NoStaleQueue AllServed
