CONSTANTS
    People = {an, binh}
    Requests = {r1, r2}
    Auths = {x}
    Kind = "customer_dedicated"
    MaxChanges = 2
SPECIFICATION MCSpec
SYMMETRY Symmetry
INVARIANT AccessConsistent
PROPERTIES JoinsWereOffered LinksAreVerified
CHECK_DEADLOCK FALSE
