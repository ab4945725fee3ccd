SPECIFICATION Spec
CONSTANTS
    Workers = {w1, w2}
    NoWorker = NoWorker
    t1 = t1
    t2 = t2
    Titles <- BothTitles
    IntMax = 1
    TodoInputs <- TwoTodos
    HandlerInputs <- OneHandler
    PageInputs <- OnePage
    MaxTodos = 2
    MaxHandlers = 2
    StorageFaults = TRUE
    Crashes = TRUE
SYMMETRY WorkerSymmetry
INVARIANT MutexDiscipline
INVARIANT Isolation
INVARIANT HandlersRunOnceInOrder
INVARIANT AnswersNameOwnRow
INVARIANT PageMatchesTotal
INVARIANT InternalErrorOnlyFromStorage
PROPERTY HandlerAtomicity
PROPERTY AnswersShowCommitted
PROPERTY ImplementsService
