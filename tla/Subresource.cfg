\* Two loads, and calls as deep as they get.
SPECIFICATION FairSpec
CONSTANTS
    Load = {l1, l2}
INVARIANTS TypeOK RequestOutlivesCalls ReleasedOnce CountIsOutstanding AllOrNothing
PROPERTIES EveryLoadEnds
