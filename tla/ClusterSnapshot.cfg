CONSTANTS
    c1 = c1
    c2 = c2
    w1 = w1
    w2 = w2
    Client <- MCClient
    Member <- MCMember
    MaxBeats = 2
    MaxVersion = 4
SPECIFICATION Spec
SYMMETRY Symmetry
INVARIANTS
    VersionIdentifiesMembers
