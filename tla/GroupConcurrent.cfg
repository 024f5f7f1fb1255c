\* Two calls overlap: transfer against transfer needs a third user, and six
\* calls are two invitations, two joins and two overlapping calls.
SPECIFICATION Spec
CONSTANTS
    Users = {u1, u2, u3}
    Requests = {r1, r2}
    MaxCalls = 6
SYMMETRY Symmetry
INVARIANTS
    TypeOK
    JoinNeedsInvitation
    HistoryExplainsMembership
    DeletedStaysEmpty
PROPERTY OwnerRemains
CHECK_DEADLOCK FALSE
