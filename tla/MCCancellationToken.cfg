SPECIFICATION FairSpec
CONSTANTS
    Waiter = {w1, w2}
    Canceller = {k1, k2}
INVARIANTS
    NoLostWakeup
    ReturnsOnlyCancelled
PROPERTIES
    KeepsPromise
