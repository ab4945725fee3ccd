SPECIFICATION Spec
CONSTANTS
    Workers = {w1, w2}
    NoWorker = NoWorker
    NoUse = NoUse
    MaxCommands = 2
INVARIANT NoMisuse
INVARIANT RunsOnOwnParameters
INVARIANT QuietWhenFree
PROPERTY ImplementsUses
