CONSTANTS
    Requests = {r1, r2}
    Sids = {1, 2}
    MaxTokens = 3
    MaxChanges = 2
SPECIFICATION Spec
SYMMETRY Symmetry
INVARIANT LoggedOutStaysOut
PROPERTIES RevocationIsFinal GrantsWereAllowed
CHECK_DEADLOCK FALSE
