SPECIFICATION Spec
CONSTANTS
    Params = {"amount"}
    Values = {"1", "2"}
    Missing = Missing
    Below <- MCBelow
    Starts <- MCNone
    Ends <- MCNone
    Includes <- MCNone
    NoLimit <- MCNoLimit
    Gateways = {"gw1", "gw2"}
    Ctas = {"cta1", "cta2"}
    Executors = {"ex1", "ex2"}
    RootsOf <- MCRootsOf
    TrustedBy <- MCTrustedBy
    Holders <- MCHolders
    Admitted <- MCAdmitted
    Requests <- MCRequests
    Nonces = {n1, n2}
    MAX_CHAIN_DEPTH = 3
    Horizon = 2
    MaxPcas = 3
    MaxRoots = 1
    MaxEvents = 2
INVARIANTS EmittedChainsValidate AcceptedChainsNarrow OneChildPerNonce EmittedAsSigned
SYMMETRY Symmetry
CHECK_DEADLOCK FALSE
