\* Three inputs, two hooks in either order or none, one client of the firehose,
\* and any of the parts enabled.
CONSTANTS
    watcher = watcher
    Watchers = {watcher}
    Idle = Idle
    Inputs <- Traffic
    Notify = {"s1", "s2"}
    Lists = {"list"}
    HookFiles <- Files
    HWM = 1
SPECIFICATION FairSpec
INVARIANTS TypeOK EveryHookTold NoGap
 
CHECK_DEADLOCK FALSE
