\* A hunter's and three clients' creates meet one gatherer with pipes of one
\* message. The system stops: that is what the run shows.
CONSTANTS
    g1 = g1
    g2 = g2
    Idle = Idle
    Dead = Dead
    None = None
    Gatherers = {g1}
    HunterIds = {"h"}
    RouterToken = "hunter"
    HunterToken = "hunter"
    HWM = 1
    Requests <- Load
    Plugins <- OnePlugin
    Answers <- OneAnswer
SPECIFICATION FairSpec
PROPERTIES FrontendServed
CHECK_DEADLOCK FALSE
