\* Two devices of one user; every client keeps to one user; the server is fair,
\* clients and network are free.
SPECIFICATION FairSpec
CONSTANTS
    alice = alice
    bob = bob
    c1 = c1
    c2 = c2
    Users = {alice, bob}
    Conns = {c1, c2}
    Tokens <- OwnTokens
    Nobody = Nobody
PROPERTIES
    LastCloseAnnounces
    UnauthenticatedIsClosed
    DeadPeerIsClosed
CHECK_DEADLOCK FALSE
