SPECIFICATION Spec
CONSTANTS
    webui = webui  desktop = desktop  h1 = h1
    NoProc = NoProc  NoHost = NoHost
    Procs = {webui, desktop}
    Desktop = {desktop}
    Hosts = {h1}
    Commands = {"components-start", "components-stop", "components-restart"}
    MaxQueue = 2
    Overlap = TRUE
CHECK_DEADLOCK FALSE
INVARIANTS
    ExitIsClean
    LastWordWins
PROPERTIES
    EveryoneEnds
