SPECIFICATION Spec
CONSTANTS
    Frames = 4
    Bad = {3}
    Posts = {1, 2}
    MaxSeq = 4
    MaxApplied = 3
    MaxRemoves = 1
INVARIANTS
    TypeOK
    HandledInOrder
    SessionNeverAhead
    FramesInOrder
CHECK_DEADLOCK FALSE
