SPECIFICATION MCSpec
CONSTANTS
    c1 = c1
    c2 = c2
    c3 = c3
    m1 = m1
    m2 = m2
    e1 = e1
    e2 = e2
    h1 = h1
    h2 = h2
    n1 = n1
    a1 = a1
    a2 = a2
    t1 = t1
    op = op
    right = right
    wrong = wrong
    None = None
    Nobody = Nobody
    Category = {c1, c2, c3}
    Item = {m1, m2}
    Editor = {e1, e2}
    Price = {1, 2}
    Row = {1, 2}
    Heading = {h1, h2}
    Name = {n1}
    MaxEdits = 2
    Staff = {a1, a2}
    OtherRole = {"waiter"}
    Tab = {t1}
    Operator = op
    Slug = {right, wrong}
    TheSlug = right
    StaffLife = 1
    ViewLife = 1
    MaxClock = 1
    MaxOrders = 1
    MaxWrites = 2
SYMMETRY Symmetry
CHECK_DEADLOCK FALSE
INVARIANTS
    TypeOK
    MenuIsWhole
    ChargedAsShown
PROPERTIES
    
    HistoryLeavesOnlyInTest
    SessionsEndForCause
