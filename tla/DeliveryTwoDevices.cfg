\* Two devices of one user; fair server, free clients and network; no symmetry.
SPECIFICATION FairSpec
CONSTANTS
    alice = alice
    bob = bob
    Users = {alice, bob}
    Messages = {m1}
    Conns = {c1, c2}
    Owner <- BobOwnsAll
    Confirms = {k1}
INVARIANTS
    TypeOK
    UnreadIsOwed
    NoMessageFallsBetween
PROPERTY PendingReachesDevice
CHECK_DEADLOCK FALSE
