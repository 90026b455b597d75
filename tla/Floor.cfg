SPECIFICATION Spec
CONSTANTS
    Table = {t1, t2}
    Staff = {w1, w2}
    Request = {r1, r2, r3}
    Admin = Admin
    None = None
SYMMETRY Symmetry
INVARIANTS
    TypeOK
    OneActiveSession
    CloserMayClose
    AssigneeExists
PROPERTIES
    CloseOnlyPaid
    FirstCallerWins
