\* Role changes and removals overtaken by a transfer.
CONSTANTS
    Users = {u1, u2, u3}
    Channels = {c1}
    Requests = {r1, r2}
    None = None
    Operations <- RoleOps
SYMMETRY Symmetric
SPECIFICATION MCSpec
PROPERTIES OwnerIsLocked
\* A deleted workspace takes no further request.
CHECK_DEADLOCK FALSE
