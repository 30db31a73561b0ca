\* Rows made by start, the command line and administrators; demoted, deleted,
\* searched, expired. A process may stay down and the bounds run out.
CONSTANTS
    Tokens = {empty, t1}
    Empty = empty
    Perms = {"admin", "write"}
    Users <- MCUsers
    NewRows <- ExpiringWriters
    Edits <- Demotions
    TOKEN_CACHE_DELAY = 1
    MaxRows = 2
    MaxPending = 1
    MaxTime = 2
    NoEntry = NoEntry
    NoExpiry = NoExpiry
    NoToken = NoToken
    NoUser = NoUser
    NoPerm = NoPerm
    NoDecision = NoDecision
SPECIFICATION Spec
INVARIANTS TypeOK CacheFresh GrantIsRecent
PROPERTIES AdminOnly AuthSpec
CHECK_DEADLOCK FALSE
