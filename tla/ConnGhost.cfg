\* A closed socket stays in the map of active connections.
SPECIFICATION Spec
CONSTANTS
    alice = alice
    bob = bob
    c1 = c1
    c2 = c2
    Users = {alice, bob}
    Conns = {c1, c2}
    Tokens <- OwnTokens
    Nobody = Nobody
INVARIANT ClosedIsUnregistered
CHECK_DEADLOCK FALSE
