\* A socket that does not deliver is marked DELIVERED.
SPECIFICATION Spec
CONSTANTS
    alice = alice
    bob = bob
    Users = {alice, bob}
    Messages = {m1}
    Conns = {c1}
    Owner <- BobOwnsAll
    Confirms = {k1}
INVARIANT DeliveredMeansReceived
CHECK_DEADLOCK FALSE
