SPECIFICATION AuthSpec
CONSTANTS
    c1 = c1
    c2 = c2
    c3 = c3
    HttpClients <- MCClients
    MaxNonce = 3
SYMMETRY MCSymmetry
INVARIANTS
    NcGrows
    TwoConnections
CHECK_DEADLOCK FALSE
