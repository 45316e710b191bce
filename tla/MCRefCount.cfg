CONSTANTS
    o1 = o1
    o2 = o2
    o3 = o3
    Objects = {o1, o2, o3}
    Empty = Empty
    Null = Null
    MaxSlots = 2
    MaxOwned = 2
SPECIFICATION HeapSpec
INVARIANTS CountsRight FreedIsNotTouched
PROPERTIES EachStepShortens
CONSTRAINT NothingLeaked
SYMMETRY Symmetry
CHECK_DEADLOCK FALSE
