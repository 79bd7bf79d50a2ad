SPECIFICATION Spec
CONSTANTS
    MaxLogins = 4
    MaxClock = 3
    Own = {2}
    WtmpOverlap = 2
    WtmpTail = 3
    LastLines = 1
INVARIANT SessionKeysDiscardRepeats
