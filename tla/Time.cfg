SPECIFICATION TimeSpec
CONSTANTS
    Used = {"DEC", "AI", "ARAM", "VI"}
    Late = {"AI"}
    Horizon = 2
    CommandTimes = {1, 2}
    BlockTimes = {1}
    AlarmTimes = {1}
    ViPeriod = 2
    PollEvery = 2
INVARIANTS
    Answered
PROPERTIES
    EverythingArrives
    HoldsEnd
