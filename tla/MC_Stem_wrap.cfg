\* Clock started close to 2^W: deadlines cross the wrap of the clock.
CONSTANTS
    s1 = s1  s2 = s2  s3 = s3
    SElems <- MCSElems
    W = 4
    Delays = {2, 3}
    StartTimes = {12}
    MaxElapsed = 8
SPECIFICATION Spec
INVARIANT TimelyTimeout
CHECK_DEADLOCK FALSE
