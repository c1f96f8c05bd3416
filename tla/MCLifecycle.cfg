\* Two CPUs; every allocation may fail.
SPECIFICATION Spec
CONSTANTS
    NumCpus = 2
    NumCaches <- MCNumCaches
    Word = 8
INVARIANT NoBadRelease
INVARIANT Leftovers
