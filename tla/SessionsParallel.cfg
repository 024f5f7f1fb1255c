\* Two devices of one user, and three requests that overlap: enough for a second
\* rotation while a reply of the first is still under way.
SPECIFICATION Spec
CONSTANTS
    alice = alice
    s1 = s1
    s2 = s2
    Users = {alice}
    Sessions = {s1, s2}
    Owner <- OneOwner
    Requests = {r1, r2, r3}
    MaxRotations = 2
    MaxSends = 3
SYMMETRY Symmetry
INVARIANTS
    TypeOK
    PromptClientKeepsSession
    SuspicionHasCause
    NoTokensAfterRevocation
    LogoutEndsSession
CHECK_DEADLOCK FALSE
