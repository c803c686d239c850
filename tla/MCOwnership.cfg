SPECIFICATION Spec
CONSTANTS
    Wallets = {w1, w2}
    Senders = {s1, s2}
    Commitments = {d1}
    HostChains = {h1}
    L2Chains = {l1, l2}
    TributeDomain = tribute
    OtherDomain = other
    NoRoot = NoRoot
    MaxNfts = 2
    MaxProofs = 2
SYMMETRY Symmetry
INVARIANTS
    TypeOK
    AcceptedIsMeant
    ReceiptsUsable
    WitnessesSatisfy
CHECK_DEADLOCK FALSE
