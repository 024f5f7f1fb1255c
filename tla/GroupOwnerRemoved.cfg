\* Two calls overlap: an owner can be a removed member.
SPECIFICATION Spec
CONSTANTS
    Users = {u1, u2}
    Requests = {r1, r2}
    MaxCalls = 4
INVARIANT OwnerIsNotRemoved
CHECK_DEADLOCK FALSE
