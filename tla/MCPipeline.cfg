\* Three requests, two gatherers, a hunter with one plugin.
CONSTANTS
    g1 = g1
    g2 = g2
    Idle = Idle
    Dead = Dead
    None = None
    Gatherers = {g1, g2}
    HunterIds = {"h"}
    RouterToken = "hunter"
    HunterToken = "hunter"
    HWM = 2
    Requests <- Few
    Plugins <- OnePlugin
    Answers <- OneAnswer
SPECIFICATION FairSpec
INVARIANTS TypeOK OnceOnly HuntersOwnLane CascadeDescends
PROPERTIES Served
