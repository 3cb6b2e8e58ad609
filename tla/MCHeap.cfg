CONSTANTS
    Limit = 22
    InitMptrs = 3
    Gap = 1
    InitEnd = 17
    Block = 6
    PartialSpare = 3
    FullSpare = 1
    Share = 3
    r1 = r1
    r2 = r2
    Roots <- MCRoots
    NewSizes = {0, 2}
    Sizes = {1, 3}
    Places = {2}
    Positions = {1, 2}
    MaxObjects = 4
    MaxCalls = 6
SPECIFICATION Spec
SYMMETRY MCSymmetry
INVARIANTS TypeOK ObjectsIntact BodiesTile MptrsAccounted RememberedSet
CHECK_DEADLOCK FALSE
