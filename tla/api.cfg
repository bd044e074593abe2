SPECIFICATION ListSpec
CONSTANTS
    c1 = c1  c2 = c2
    t1 = t1  t2 = t2  n1 = n1  n2 = n2  vm = vm
    own = own  ops = ops
    NoVal = NoVal  Empty = Empty
    Tokens <- AllTokens
    Projects <- TwoProjects
    Holds <- Held
    Clients <- TwoClients
    TypeIds <- TwoTypes
    RiskIds = {1, 2}
    Names <- TwoNames
    Bodies <- Posted
    Resources <- OneVm
    Queries <- OneLists
    ApiLimit = 1
SYMMETRY SymmetricNames
INVARIANTS IInv References CreatedIsCast ListingAgrees
PROPERTIES WritesByAdmin WalkFaithful ListsOwnRows
