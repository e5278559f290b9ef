\* The parties end a bailment the gate has registered.
SPECIFICATION MCSpec
CONSTANTS
    alice = alice
    bob = bob
    b1 = b1
    b2 = b2
    read = read
    owner = owner
    viewer = viewer
    NoBailment = NoBailment
    Dids <- MCDids
    Parties <- AliceToBob
    Ids <- MCIds
    Actions <- MCActions
    Roles <- MCRoles
    Policies <- AllPolicies
    Types <- MCTypes
    MaxClearance = 1
    MaxTime = 3
    MaxRegs = 3
    MaxHeld = 1
SYMMETRY Symm
INVARIANT GrantRestsOnActiveBailment
