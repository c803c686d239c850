SPECIFICATION Spec
CONSTANTS
    x = x
    y = y
    Circuits <- OneCircuit
    Acirs = {a1, a2}
    Abis = {p1, p2}
    Chains = {c}
    Flags = {"none", "abi", "check"}
    None = None
    MaxVersions = 3
    MaxBb = 2
    MayCrash = FALSE
    MayRetire = FALSE
SYMMETRY Symmetry
INVARIANTS
    TypeOK
    BuildAlwaysWorks
    ReleasesImmutable
    CheckVouches
