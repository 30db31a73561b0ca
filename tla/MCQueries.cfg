\* Two clients and two requests, on tables that hold rows of the first hour.
CONSTANTS
    c1 = c1
    c2 = c2
    Nobody = Nobody
    Clients = {c1, c2}
    NoToken = "none"
    TestToken = "test"
    LocalOnly = TRUE
    Requests <- Asked
    Tables <- Starts
    Rights <- RightsOf
    Users <- UserOf
    Messages <- Saying
    LikeNames <- Alike
    FEED_DAYS <- Days
    Width <- Bits
    SEARCH_MIN <- Shortest
    SEARCH_LIMIT = 5
    FEEDS_LIMIT = 5
    FEEDS_WHITELIST_LIMIT = 3
    FEEDS_WHITELIST_DAYS = 1
    CONFIDENCE_DEFAULT = 3
    HTTPD_FEED_WHITELIST_CONFIDENCE = 2
    HoursPerDay = 1
    MaxRequests = 2
    MaxNow = 2
SPECIFICATION Spec
SYMMETRY Interchangeable
INVARIANTS TypeOK FeedClean FeedReported AnswersOwn FindsAll Traceable NobodyForgotten
CHECK_DEADLOCK FALSE
