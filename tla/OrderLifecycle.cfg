SPECIFICATION Spec
CONSTANTS
    Item = {i1, i2}
    Request = {r1, r2, r3}
    NoRequest = NoRequest
SYMMETRY Symmetry
INVARIANTS
    TypeOK
    AuditChain
    CustomerCancelsUntouched
    ReceiptOnce
    AnnouncedStaysComplete
    CompletionNotMissed
    SalesNotUnderstated
PROPERTIES
    ForwardOnly
    ServedNotCancelled
