SPECIFICATION FairAcceptSpec
CONSTANTS
    Conns = {c1, c2, c3, c4}
    Http2 = {c1, c2}
    MaxConnections = 2
INVARIANTS TypeOK ConnectionPermits
PROPERTIES EveryConnectionIsServed
