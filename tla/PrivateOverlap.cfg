\* Two users, three calls that overlap.
SPECIFICATION Spec
CONSTANTS
    Users = {alice, bob}
    Requests = {r1, r2, r3}
    MaxCalls = 6
    Nobody = Nobody
SYMMETRY Symmetry
INVARIANTS
    TypeOK
    MessageIsShown
PROPERTIES
    ForeignMessageSurvives
    NothingIsAbandoned
CHECK_DEADLOCK FALSE
