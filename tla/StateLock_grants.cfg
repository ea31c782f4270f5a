CONSTANTS
    o1 = o1
    o2 = o2
    o3 = o3
    Owners <- MCOwners
    MaxOffset = 3
    Ranges <- MCRanges
    Wanted <- MCWanted
    Cookies = {1, 2}
    MaxRequests = 4
SPECIFICATION Spec
INVARIANTS
    NoConflict
    OwnerDisjoint
    
    GrantsExact
    LocksAgree
PROPERTIES
    ListKeepsPromise
    HeldUntilUnlocked
