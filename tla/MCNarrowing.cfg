SPECIFICATION Spec
CONSTANTS
    Workers = {w1}
    NoWorker = NoWorker
    t1 = t1
    t2 = t2
    Titles <- BothTitles
    IntMax = 1
    TodoInputs <- EveryTodo
    HandlerInputs <- EveryHandler
    PageInputs <- SomePages
    MaxTodos = 2
    MaxHandlers = 2
    StorageFaults = TRUE
    Crashes = FALSE
INVARIANT RefusedPriorityIsNegative
