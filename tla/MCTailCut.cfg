CONSTANTS
    Second = 1
    MaxNumber = 3
    Lengths = {5}
    MaxPauses = 0
    Prompt = TRUE
SPECIFICATION ClockSpec
PROPERTY TailKept
CHECK_DEADLOCK FALSE
