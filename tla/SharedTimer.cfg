\* High-resolution timers; handlers three deep.
SPECIFICATION FairSpec
CONSTANTS
    HighResolution = TRUE
    MaxDepth = 3
    MaxForgotten = 2
    MaxReposted = 2
INVARIANTS TypeOK MessageCounted WantedSecured
PROPERTIES SharedTimerFires
