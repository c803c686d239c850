SPECIFICATION Spec
CONSTANTS
    x = x
    y = y
    Circuits <- OneCircuit
    Acirs = {a1, a2}
    Abis = {p1}
    Chains = {}
    Flags = {"none"}
    None = None
    MaxVersions = 3
    MaxBb = 1
    MayCrash = TRUE
    MayRetire = FALSE
SYMMETRY Symmetry
INVARIANT
    IdentityPreserved
