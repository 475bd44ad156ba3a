CONSTANTS
    Users = {alice, bob}
    Managers = {bob}
    SessionUser = alice
    Handlers = {h1, h2}
    Sockets = {s1}
    MaxCards = 2
    MaxCalls = 5
    MaxChanges = 1
    Depts = {d1, d2, d3}
    Chans = {c1}
    Editors = {e1, e2}
    Top = Top
SPECIFICATION MCSpec
SYMMETRY Symmetry
INVARIANTS PrivateStaysPrivate OnlyMembersHear TreeIsWhole
PROPERTIES ManagersDecide
CHECK_DEADLOCK FALSE
