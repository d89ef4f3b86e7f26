SPECIFICATION FairSpec
CONSTANTS
    a = a  b = b  c = c  d = d
    Locked <- MCLocked
    Unlocked <- MCUnlocked
    Size <- MCSize
    Attempts = 3
    NoWriter = NoWriter
INVARIANTS LedgerInvariant AbortsForAReason
PROPERTIES EveryAppendEnds ImplementsLedger
CHECK_DEADLOCK FALSE
