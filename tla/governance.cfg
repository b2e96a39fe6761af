\* All operations; any may fail at any await.
CONSTANTS
    Users = {u1, u2, u3}
    Channels = {c1, c2}
    Requests = {r1, r2}
    None = None
    Operations <- AllOperations
SYMMETRY Symmetric
SPECIFICATION MCSpec
INVARIANTS TypeOK AtMostOneOwner NoRowOutlivesItsChannel AloneIsSound
PROPERTIES OwnershipSpec HandoverIsDeliberate OnlyTheOwnerUnhides
\* A deleted workspace takes no further request.
CHECK_DEADLOCK FALSE
