SPECIFICATION Spec
CONSTANTS
    n1 = n1
    n2 = n2
    s = s
    c = c
    slash = slash
    space = space
    plus = plus
    Slash = slash
    Space = space
    Plus = plus
    Node = {n1, n2}
    Name <- MCName
    Key <- MCKey
    Asks <- MCAsks
    Panicky <- MCPanicky
    PeerLists <- MCPeerLists
    Owners <- MCOwners
    p1 = p1
    p2 = p2
    Home <- MCHome
    Client = {p1, p2}
    Handler = {h1, h2}
    None = None
    Err = Err
    MaxFaults = 1
INVARIANT RequestsAreUnderstood
