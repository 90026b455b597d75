SPECIFICATION FairSpec
CONSTANTS
    Item = {i1, i2, i3}
    Request = {r1, r2}
    NoRequest = NoRequest
PROPERTIES
    RequestsFinish
