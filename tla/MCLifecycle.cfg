\* Two starts, each of which may be interrupted twice; two hunters.
CONSTANTS
    NoToken = NoToken
    NewToken = NewToken
    MaxStarts = 2
    Threads <- SomeParts
SPECIFICATION FairSpec
INVARIANTS TypeOK StoreLast TokensAgree
PROPERTIES Ends
CHECK_DEADLOCK FALSE
