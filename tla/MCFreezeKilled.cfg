SPECIFICATION Spec
CONSTANTS
    x = x
    y = y
    Circuits <- TwoCircuits
    Acirs = {a1}
    Abis = {p1, p2}
    Chains = {}
    Flags = {"none", "semantic"}
    None = None
    MaxVersions = 4
    MaxBb = 1
    MayCrash = TRUE
    MayRetire = FALSE
SYMMETRY Symmetry
INVARIANT
    KeysSurvive
PROPERTY
    HeadIsSource
