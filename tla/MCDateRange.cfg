SPECIFICATION Spec
CONSTANTS
    IntMax = 3
    LongMax = 31
    Numbers <- BorderNumbers
    ClockMax = 13
    NsPerMs = 3
    MsPerSecond = 2
    Moments <- BorderMoments
    TitleMax = 2
    TextMax = 3
CHECK_DEADLOCK FALSE
INVARIANT EveryDateComesBack
