------------------------------ MODULE TodoData ------------------------------
(***************************************************************************)
(* What the server stores, receives and reports: the rows of the two       *)
(* tables, the request bodies, the results of handlers, and what the read  *)
(* queries of the repositories return.  Shared by the service as a client  *)
(* sees it (TodoService) and by the server that implements it (TodoServer).*)
(***************************************************************************)
EXTENDS HandlerCommands, FiniteSets

CONSTANTS
    Workers,         \* the threads that run route handlers
    Titles,          \* todo titles
    TodoInputs,      \* bodies of POST /api/todos that parse
    HandlerInputs,   \* bodies of POST /api/scripts/handlers that parse
    PageInputs,      \* query parameters of GET /api/page that parse
    StorageFaults,   \* may SQLite refuse a statement (BUSY, FULL, IOERR...)?
    Crashes          \* may the process die and be started again?

Events == {"ADDED_TODO", "UPDATED_TODO", "DELETED_TODO"}
TodoInput == [title : Titles, priority : Int, completed : BOOLEAN,
              wellFormed : BOOLEAN]
HandlerInput == [script : Scripts, event : Events, enabled : BOOLEAN,
                 wellFormed : BOOLEAN]
PageInput == [offset : Nat, limit : Nat]

ASSUME DataAssumption ==
    /\ TodoInputs \subseteq TodoInput
    /\ HandlerInputs \subseteq HandlerInput
    /\ PageInputs \subseteq PageInput
    /\ StorageFaults \in BOOLEAN /\ Crashes \in BOOLEAN

(* Rows; the row id is the position in the table: rows are never deleted,  *)
(* so SQLite numbers them 1, 2, 3...                                       *)
TodoRow == [title : Titles, priority : 0..UIntMax, completed : BOOLEAN]
HandlerRow == [script : Scripts, event : Events, enabled : BOOLEAN]
Tables == [todos : Seq(TodoRow), scripts : Seq(HandlerRow)]
NoRows == [todos |-> <<>>, scripts |-> <<>>]

TodoTask == [id : Nat, title : Titles, priority : 0..UIntMax, completed : BOOLEAN]
Handler == [id : Nat, script : Scripts]
HandlerResult == [id : Nat,
                  status : {"success", "script_error", "limit_exceeded", "command_error"},
                  commandResults : Seq(CommandResults),
                  storageError : BOOLEAN]

NoTodo == [id |-> 0]
None == [kind |-> "none"]

(* TodoDefinition::create: the checks of the text fields are wellFormed.   *)
ValidTodo(input) == input.wellFormed /\ input.priority >= 0 /\ input.priority <= UIntMax

(* The tables with the row of a valid request appended.                    *)
WithTodo(tables, input) ==
    [tables EXCEPT !.todos = Append(@, [title |-> input.title, priority |-> input.priority,
                                        completed |-> input.completed])]
WithHandler(tables, input) ==
    [tables EXCEPT !.scripts = Append(@, [script |-> input.script, event |-> input.event,
                                          enabled |-> input.enabled])]

(* The todo of a request under its row id: what the handlers run on.       *)
SnapshotOf(id, input) ==
    [id |-> id, title |-> input.title, priority |-> input.priority,
     completed |-> input.completed]

TodoTaskOf(tables, id) ==
    [id |-> id, title |-> tables.todos[id].title,
     priority |-> tables.todos[id].priority,
     completed |-> tables.todos[id].completed]

(* SELECT ... ORDER BY id DESC LIMIT limit OFFSET offset.                  *)
PageOf(tables, offset, limit) ==
    LET rows == Len(tables.todos)
        left == IF offset < rows THEN rows - offset ELSE 0
    IN  [i \in 1..(IF limit < left THEN limit ELSE left) |->
            TodoTaskOf(tables, left - i + 1)]

(* ScriptRepository::findByEvent: the enabled handlers of the event.       *)
HandlersFor(tables, event) ==
    {[id |-> i, script |-> tables.scripts[i].script] :
        i \in {j \in DOMAIN tables.scripts : /\ tables.scripts[j].event = event
                                             /\ tables.scripts[j].enabled}}

(* findByEvent orders by id: the next handler to run has the least one.    *)
First(handlers, h) == h \in handlers /\ \A other \in handlers : h.id <= other.id

HandlerResultOf(h, status, commandResults, storageError) ==
    [id |-> h.id, status |-> status, commandResults |-> commandResults,
     storageError |-> storageError]
=============================================================================
