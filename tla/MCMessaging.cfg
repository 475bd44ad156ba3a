CONSTANTS
    Requests = {r1, r2}
    alice = alice
    bob = bob
    Users <- MCUsers
    Managers = {bob}
    Viewers = {alice}
    Payers = {alice}
    Billers = {bob}
    ClientIds = {k}
    Acts <- MCActs
    MaxIds = 2
    MaxVer = 1
    MaxMoves = 1
    Keys = {k1, k2, k3}
    FileIds = {f1, f2}
    FileHandlers = {h1, h2}
    MaxFileFaults = 1
    NoFile = NoFile
    FlowIds = {l1, l2, l3}
    BotHandlers = {b1, b2}
    BotChannels = {c1}
    MaxFlowEdits = 1
    MaxBotFaults = 1
    NoFlow = NoFlow
SPECIFICATION MCSpec
SYMMETRY Symmetry
INVARIANTS SearchMatchesMessages SendsAreIdempotent EventsTellTheRows FilesAndBotsAreWhole
PROPERTIES FlowsArePreserved
CHECK_DEADLOCK FALSE
