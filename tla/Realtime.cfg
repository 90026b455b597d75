SPECIFICATION Spec
CONSTANTS
    dish = dish
    massage = massage
    track = track
    kitchen = kitchen
    services = services
    board = board
    own = own
    floor = floor
    w1 = w1
    w2 = w2
    Item = {dish, massage}
    DestinationOf <- MCDestinationOf
    Waiter = {w1, w2}
    None = None
    Page = {track, kitchen, services, board, own, floor}
    KindOf <- MCKindOf
    StationOf <- MCStationOf
    UserOf <- MCUserOf
    Open <- MCOpen
    Begin <- MCBegin
    Request = {r1, r2}
    MaxChanges = 2
    MaxDrops = 1
    MaxLoads = 2
SYMMETRY Symmetry
CHECK_DEADLOCK FALSE
INVARIANTS
    TypeOK
    ScreensCatchUp
    OffersAccepted
PROPERTIES
    CutOffOnlyTold
