SPECIFICATION FairSpec
CONSTANTS
    Workers = {w1, w2}
    NoWorker = NoWorker
    t1 = t1
    t2 = t2
    Titles <- BothTitles
    IntMax = 1
    TodoInputs <- TwoTodos
    HandlerInputs <- OwnHandlers
    PageInputs <- OnePage
    MaxTodos = 2
    MaxHandlers = 2
    StorageFaults = FALSE
    Crashes = FALSE
INVARIANT AnswerIsFinalState
PROPERTY SomeRequestAnswered
