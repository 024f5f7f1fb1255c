\* Two users of the same two browsers, two calls that overlap.
SPECIFICATION Spec
CONSTANTS
    Users = {alice, bob}
    Nobody = Nobody
    Endpoints = {e1, e2}
    Requests = {r1, r2}
    MaxRows = 3
SYMMETRY Symmetry
INVARIANTS
    TypeOK
    OneRowPerEndpoint
    LiveSubscriptionStays
CHECK_DEADLOCK FALSE
