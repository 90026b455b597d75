SPECIFICATION Spec
CONSTANTS
    Item = {i1, i2}
    Request = {r1, r2}
    NoRequest = NoRequest
INVARIANTS
    ReadyNoticeOnce
