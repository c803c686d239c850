SPECIFICATION Spec
CONSTANTS
    Base = 4
    WordBytes = 4
    AddrBytes = 2
    Modulus = 61
    Spill = 2
    LenBytes = 3
    CountBytes = 2
    ProofWords = 1
    Order = 5
    Digests <- SomeDigests
    EntityFields <- SpendingUnit
    Entities <- AllEntities
    Variants <- Structs
    Sample <- OneEntity
    Reorders <- Orders
    AbiTypes <- CircuitTypes
    Abi <- CircuitAbi
    CircuitHash <- TheHash
    AlloyInputs <- Alloys
    CircuitInputs <- Circuits
    Witnesses <- TwoWitnesses
    Proofs <- SomeProofs
INVARIANTS
    HashBinds
    DeclarationOrderIrrelevant
    SignedVerifies
    IntactArrives
    ReadIsCanonical
CHECK_DEADLOCK FALSE
