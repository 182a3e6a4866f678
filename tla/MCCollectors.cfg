SPECIFICATION Spec
CONSTANTS
    FactCollectors <- FactNames
    ComponentCollectors <- ComponentNames
    components1 = components1
    facts1 = facts1
    facts2 = facts2
    Imports <- ImportLists
    FactKeys = {hostname}
    SocketIds <- TwoSockets
    Models = {m1}
    Numbers <- OneTwoOrBad
    MaxLines = 5
    MaxItems = 2
    Interfaces <- ThreeDevices
    Virtual <- OneVirtual
    Speeds <- OneOrBad
    Macs = {mac1, mac2}
    Parts = {p1, p2}
    Bad = Bad
    Blank = Blank
    Junk = Junk
    None = None
INVARIANTS
    TypeOK
    FirstFactWins
    EachContributesOnce
    PrimaryAddresses
PROPERTIES
    SocketsByBlocks
    NicsReported
CHECK_DEADLOCK FALSE
