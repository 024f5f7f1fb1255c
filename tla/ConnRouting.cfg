\* A client may authenticate again as another user.
SPECIFICATION Spec
CONSTANTS
    alice = alice
    bob = bob
    c1 = c1
    c2 = c2
    Users = {alice, bob}
    Conns = {c1, c2}
    Tokens <- SwitchedTokens
    Nobody = Nobody
INVARIANTS
    TypeOK
    EveryDeviceIsReached
PROPERTY ImplementsDevices
CHECK_DEADLOCK FALSE
