SPECIFICATION FairSpec
CONSTANTS
    HookInterval = 3
    InstructionLimit = 7
    Timeout = 2
    MaxTicks = 3
    MaxInstructions = 12
CHECK_DEADLOCK FALSE
INVARIANT TypeOK
INVARIANT BudgetKept
INVARIANT ContextBounded
INVARIANT DeadlineKept
INVARIANT BlameIsTrue
PROPERTY RunEnds
