\* One call at a time, and more of them.
SPECIFICATION Spec
CONSTANTS
    Users = {u1, u2, u3}
    Requests = {r1}
    MaxCalls = 8
SYMMETRY Symmetry
INVARIANTS
    SoleActiveOwner
    MemberIsNotOffered
    GroupIsNotAbandoned
PROPERTY ImplementsOwnership
CHECK_DEADLOCK FALSE
