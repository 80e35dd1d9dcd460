\* A wait that was not gone on with, and a later reload.
SPECIFICATION Spec
CONSTANTS
    MaxStarts = 3
INVARIANT LapsedIsFinal
CHECK_DEADLOCK FALSE
