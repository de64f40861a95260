SPECIFICATION FairSpec
CONSTANTS
    c1 = c1  c2 = c2  u1 = u1  a = a  b = b  d = d  r1 = r1  t1 = t1
    p1 = p1  p2 = p2  l0 = l0  l1 = l1  w1 = w1  w2 = w2
    Clients <- TwoClients
    Units <- OneUnit
    Columns <- ThreeColumns
    RuleIds <- OneRule
    Tables <- OneTable
    Params <- TwoParams
    Lines <- TwoLines
    DefaultLine = l0
    Wires <- TwoWires
    maxSelectedColumns = 1
    maxRuleIDs = 1
    MaxRequests = 3
    MaxEdit = 1
    Ops <- AllOps
    NoUnit = NoUnit
INVARIANTS
    TypeOK
    LockedListIsCurrent
    OvershootBounded
    NoOrphans
    WireIdsUnique
    WiresAreLastSave
PROPERTY RequestsAnswered
CHECK_DEADLOCK FALSE
