\* Clock starting at 0, eight ticks: no deadline crosses the wrap.
CONSTANTS
    s1 = s1  s2 = s2  s3 = s3
    SElems <- MCSElems
    W = 4
    Delays = {2, 3}
    StartTimes = {0}
    MaxElapsed = 8
SPECIFICATION Spec
INVARIANTS TypeOK TimerTracksHead TimelyTimeout
CHECK_DEADLOCK FALSE
