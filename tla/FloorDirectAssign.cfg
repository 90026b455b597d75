SPECIFICATION Spec
CONSTANTS
    Table = {t1}
    Staff = {w1, w2}
    Request = {r1, r2}
    Admin = Admin
    None = None
PROPERTIES
    DirectAssignNoop
