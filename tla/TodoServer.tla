----------------------------- MODULE TodoServer -----------------------------
(***************************************************************************)
(* The running server: Crow worker threads answering requests over one     *)
(* SQLite connection that a mutex guards (DataBase), with the use cases    *)
(* createTodo, createHandler, getPage and getHandlers, and the execution   *)
(* of the ADDED_TODO handlers (HandlerScriptService::runHandlers).         *)
(*                                                                         *)
(* A step of a worker is one SQL statement (the first one of a critical    *)
(* section takes the mutex, the last one releases it), one run of a Lua    *)
(* script, or the answer to the client.  Lua runs outside the mutex.       *)
(***************************************************************************)
EXTENDS TodoData

CONSTANTS
    NoWorker,        \* "nobody holds the mutex"
    MaxTodos,        \* bound: todos ever created
    MaxHandlers      \* bound: handlers ever created

ASSUME ServerAssumption ==
    NoWorker \notin Workers /\ MaxTodos \in Nat /\ MaxHandlers \in Nat

VARIABLES
    holder,      \* the worker that holds DataBase::mutex_
    disk,        \* the committed tables: what a restart finds in data.db
    conn,        \* the tables as the connection sees them
    inTxn,       \* is a transaction open on the connection?
    lastRowid,   \* the connection's last_insert_rowid
    pc,          \* where each worker is
    request,     \* the request each worker is answering
    created,     \* createTodo: the todo as inserted, the handlers' snapshot
    pending,     \* runHandlers: the handlers not yet reported on
    commands,    \* runHandlers: the queue of the current handler
    results,     \* runHandlers: the results of its commands so far
    report,      \* runHandlers: the results of the handlers so far
    known,       \* history: the handlers stored when the todo was inserted
    total,       \* getPage: the row count already read
    reply        \* the response of each worker

store == <<holder, disk, conn, inTxn, lastRowid>>
locals == <<created, pending, commands, results, report>>
handling == <<locals, known>>
vars == <<store, pc, request, handling, total, reply>>

Init ==
    /\ holder = NoWorker
    /\ disk = NoRows
    /\ conn = disk
    /\ inTxn = FALSE
    /\ lastRowid = 0
    /\ pc = [w \in Workers |-> "idle"]
    /\ request = [w \in Workers |-> None]
    /\ created = [w \in Workers |-> NoTodo]
    /\ pending = [w \in Workers |-> {}]
    /\ commands = [w \in Workers |-> <<>>]
    /\ results = [w \in Workers |-> <<>>]
    /\ report = [w \in Workers |-> <<>>]
    /\ known = [w \in Workers |-> 0]
    /\ total = [w \in Workers |-> 0]
    /\ reply = [w \in Workers |-> None]
-----------------------------------------------------------------------------
(* Building blocks: control, the mutex, the connection.                    *)

Goto(w, place) == pc' = [pc EXCEPT ![w] = place]

Answer(w, response) ==
    /\ Goto(w, "answered")
    /\ reply' = [reply EXCEPT ![w] = response]

(* A request that needs the mutex finds it free; std::mutex does not       *)
(* recurse, so its own holder would wait for ever.                         *)
NoMutex == TRUE                                             \* mutant
MutexFree == holder = NoWorker

(* A write through the connection: the transaction's if one is open,       *)
(* committed at once otherwise.                                            *)
WriteThrough(tables) ==                                     \* mutant
    conn' = tables /\ disk' = tables

Write(tables) ==
    /\ conn' = tables
    /\ disk' = IF inTxn THEN disk ELSE tables

(* The end of DataBase::transaction: no transaction, mutex free; before it *)
(* the destructor of an uncommitted transaction rolled the tables back.    *)
UndoNothing == UNCHANGED conn                               \* mutant
UndoChanges == conn' = disk

EndKeepsMutex == inTxn' = FALSE /\ UNCHANGED holder          \* mutant
EndTransaction == inTxn' = FALSE /\ holder' = NoWorker

(* SQLite refuses the statement, the repository returns a StorageError,    *)
(* the guard releases the mutex and the route answers 500.                 *)
FailsInMutex(w) ==                                          \* mutant
    /\ StorageFaults
    /\ Answer(w, [kind |-> "internal_error", why |-> "storage"])
    /\ holder' = w
    /\ UNCHANGED <<disk, conn, inTxn, lastRowid, request, handling, total>>

StatementFails(w) ==
    /\ StorageFaults
    /\ Answer(w, [kind |-> "internal_error", why |-> "storage"])
    /\ holder' = NoWorker
    /\ UNCHANGED <<disk, conn, inTxn, lastRowid, request, handling, total>>

-----------------------------------------------------------------------------
(* The HTTP route takes a request.  MaxTodos and MaxHandlers bound the     *)
(* rows the clients ever ask for, counting the inserts under way.          *)

Inserting(place) == Cardinality({w \in Workers : pc[w] = place})
RoomForTodo == Len(disk.todos) + Inserting("insert_todo") < MaxTodos
RoomForHandler ==
    Len(disk.scripts) + Inserting("test_script") + Inserting("insert_handler")
        < MaxHandlers

ReceiveTodo(w) ==
    /\ pc[w] = "idle"
    /\ RoomForTodo
    /\ \E input \in TodoInputs :
          /\ request' = [request EXCEPT ![w] = [kind |-> "create_todo", input |-> input]]
          /\ IF ValidTodo(input)
             THEN Goto(w, "insert_todo") /\ UNCHANGED reply
             ELSE Answer(w, [kind |-> "rejected"])
    /\ UNCHANGED <<store, handling, total>>

ReceiveHandler(w) ==
    /\ pc[w] = "idle"
    /\ RoomForHandler
    /\ \E input \in HandlerInputs :
          /\ request' = [request EXCEPT ![w] = [kind |-> "create_handler", input |-> input]]
          /\ IF input.wellFormed
             THEN Goto(w, "test_script") /\ UNCHANGED reply
             ELSE Answer(w, [kind |-> "rejected"])
    /\ UNCHANGED <<store, handling, total>>

ReceivePage(w) ==
    /\ pc[w] = "idle"
    /\ \E input \in PageInputs :
          request' = [request EXCEPT ![w] = [kind |-> "get_page", input |-> input]]
    /\ Goto(w, "count_todos")
    /\ UNCHANGED <<store, handling, total, reply>>

ReceiveList(w) ==
    /\ pc[w] = "idle"
    /\ request' = [request EXCEPT ![w] = [kind |-> "get_handlers"]]
    /\ Goto(w, "list_handlers")
    /\ UNCHANGED <<store, handling, total, reply>>

(* The client has its answer; the handler's locals go out of scope.        *)
Deliver(w) ==
    /\ pc[w] = "answered"
    /\ Goto(w, "idle")
    /\ request' = [request EXCEPT ![w] = None]
    /\ created' = [created EXCEPT ![w] = NoTodo]
    /\ pending' = [pending EXCEPT ![w] = {}]
    /\ commands' = [commands EXCEPT ![w] = <<>>]
    /\ results' = [results EXCEPT ![w] = <<>>]
    /\ report' = [report EXCEPT ![w] = <<>>]
    /\ known' = [known EXCEPT ![w] = 0]
    /\ total' = [total EXCEPT ![w] = 0]
    /\ reply' = [reply EXCEPT ![w] = None]
    /\ UNCHANGED store
-----------------------------------------------------------------------------
(* TodoUseCases::createTodo: the insert, whose row id is read before the   *)
(* mutex is released.                                                      *)

InsertThenRelease(w) ==                                     \* mutant
    /\ pc[w] = "insert_todo"
    /\ MutexFree
    /\ Write(WithTodo(conn, request[w].input))
    /\ lastRowid' = Len(conn.todos) + 1
    /\ Goto(w, "read_todo_rowid")
    /\ known' = [known EXCEPT ![w] = Len(conn.scripts)]
    /\ UNCHANGED <<holder, inTxn, request, locals, total, reply>>

InsertTodo(w) ==
    /\ pc[w] = "insert_todo"
    /\ MutexFree
    /\ \/ /\ Write(WithTodo(conn, request[w].input))
          /\ lastRowid' = Len(conn.todos) + 1
          /\ holder' = w
          /\ Goto(w, "read_todo_rowid")
          /\ known' = [known EXCEPT ![w] = Len(conn.scripts)]
          /\ UNCHANGED <<inTxn, request, locals, total, reply>>
       \/ StatementFails(w)

ReadTodoRowid(w) ==
    /\ pc[w] = "read_todo_rowid"
    /\ created' = [created EXCEPT ![w] = SnapshotOf(lastRowid, request[w].input)]
    /\ holder' = NoWorker
    /\ Goto(w, "find_handlers")
    /\ UNCHANGED <<disk, conn, inTxn, lastRowid, request, pending, commands,
                   results, report, known, total, reply>>

FailureFindsNone(w) ==                                      \* mutant
    /\ pc[w] = "find_handlers"
    /\ MutexFree
    /\ \/ pending' = [pending EXCEPT ![w] = HandlersFor(conn, "ADDED_TODO")]
       \/ StorageFaults /\ UNCHANGED pending
    /\ Goto(w, "run_handlers")
    /\ UNCHANGED <<store, request, created, commands, results, report, known,
                   total, reply>>

FindHandlers(w) ==
    /\ pc[w] = "find_handlers"
    /\ MutexFree
    /\ \/ /\ pending' = [pending EXCEPT ![w] = HandlersFor(conn, "ADDED_TODO")]
          /\ Goto(w, "run_handlers")
          /\ UNCHANGED <<store, request, created, commands, results, report, known,
                         total, reply>>
       \/ StatementFails(w)
-----------------------------------------------------------------------------
(* HandlerScriptService::runHandlers.                                      *)

AnyHandler(w, h) == h \in pending[w]                        \* mutant
NextHandler(w, h) == First(pending[w], h)

(* The handler's result joins the report and the next handler is due.      *)
Conclude(w, h, status, commandResults, storageError) ==
    /\ report' = [report EXCEPT ![w] =
                     Append(@, HandlerResultOf(h, status, commandResults, storageError))]
    /\ pending' = [pending EXCEPT ![w] = @ \ {h}]
    /\ Goto(w, "run_handlers")

(* The `todo` table of a script is the snapshot taken at creation, not the *)
(* row as the handlers before it left it.                                  *)
CurrentRow(w) == TodoTaskOf(conn, created[w].id)            \* mutant
ScriptSees(w) == created[w]

(* ScriptEngine::execute, without the mutex; the commands of a run that    *)
(* ends badly are dropped.                                                 *)
RunScript(w) ==
    /\ pc[w] = "run_handlers"
    /\ \E h \in pending[w] :
          /\ NextHandler(w, h)
          /\ \/ /\ "ok" \in h.script.endings
                /\ commands' = [commands EXCEPT ![w] = QueuedBy(h.script, ScriptSees(w))]
                /\ results' = [results EXCEPT ![w] = <<>>]
                /\ Goto(w, "begin")
                /\ UNCHANGED <<pending, report>>
             \/ \E ending \in h.script.endings \ {"ok"} :
                /\ Conclude(w, h, ending, <<>>, FALSE)
                /\ UNCHANGED <<commands, results>>
    /\ UNCHANGED <<store, request, created, known, total, reply>>

(* DataBase::transaction: the mutex, then BEGIN.                           *)
BeginTransaction(w) ==
    /\ pc[w] = "begin"
    /\ MutexFree
    /\ \/ /\ holder' = w
          /\ inTxn' = TRUE
          /\ Goto(w, "commands")
          /\ UNCHANGED <<pending, report>>
       \/ /\ StorageFaults
          /\ \E h \in pending[w] :
                NextHandler(w, h) /\ Conclude(w, h, "command_error", <<>>, TRUE)
          /\ UNCHANGED <<holder, inTxn>>
    /\ UNCHANGED <<disk, conn, lastRowid, request, created, commands, results, known, total,
                   reply>>

NextCommand(w) == commands[w][Len(results[w]) + 1]

(* runCommand_ on the next command of the queue.                           *)
RunCommand(w) ==
    /\ pc[w] = "commands"
    /\ Len(results[w]) < Len(commands[w])
    /\ \E error \in PossibleErrors(conn.todos, NextCommand(w), StorageFaults) :
          LET tried == Append(results[w], ResultOf(NextCommand(w), error))
          IN  \/ /\ error = "none"
                 /\ Write([conn EXCEPT !.todos = Updated(@, NextCommand(w))])
                 /\ results' = [results EXCEPT ![w] = tried]
                 /\ UNCHANGED pc
              \/ /\ error # "none"
                 /\ results' = [results EXCEPT ![w] = FailedQueue(tried, commands[w])]
                 /\ Goto(w, "rollback")
                 /\ UNCHANGED <<disk, conn>>
    /\ UNCHANGED <<holder, inTxn, lastRowid, request, created, pending, commands,
                   report, known, total, reply>>

(* *commit is false: the transaction's destructor rolls back.              *)
Rollback(w) ==
    /\ pc[w] = "rollback"
    /\ UndoChanges
    /\ EndTransaction
    /\ \E h \in pending[w] :
          NextHandler(w, h) /\ Conclude(w, h, "command_error", results[w], FALSE)
    /\ UNCHANGED <<disk, lastRowid, request, created, commands, results, known, total, reply>>

(* Every command succeeded: COMMIT, which SQLite may refuse; then the      *)
(* destructor rolls back and the exception reaches runHandlers.            *)
Commit(w) ==
    /\ pc[w] = "commands"
    /\ Len(results[w]) = Len(commands[w])
    /\ \E h \in pending[w] :
          /\ NextHandler(w, h)
          /\ \/ /\ disk' = conn
                /\ Conclude(w, h, "success", results[w], FALSE)
                /\ UNCHANGED conn
             \/ /\ StorageFaults
                /\ UndoChanges
                /\ Conclude(w, h, "command_error", RolledBack(results[w]), TRUE)
                /\ UNCHANGED disk
    /\ EndTransaction
    /\ UNCHANGED <<lastRowid, request, created, commands, results, known, total, reply>>

(* createTodo reads the todo back and answers 201.                         *)
ReadBack(w) ==
    /\ pc[w] = "run_handlers"
    /\ pending[w] = {}
    /\ MutexFree
    /\ \/ /\ Answer(w,
                IF created[w].id \in DOMAIN conn.todos
                THEN [kind |-> "todo_created", todo |-> TodoTaskOf(conn, created[w].id),
                      handlers |-> report[w]]
                ELSE [kind |-> "internal_error", why |-> "disappeared"])
          /\ UNCHANGED <<store, request, handling, total>>
       \/ StatementFails(w)
-----------------------------------------------------------------------------
(* HandlerUseCases::createHandler: the test run of the script, the insert  *)
(* and its row id.                                                         *)

TestScript(w) ==
    /\ pc[w] = "test_script"
    /\ \E ending \in request[w].input.script.endings :
          IF ending = "ok"
          THEN Goto(w, "insert_handler") /\ UNCHANGED reply
          ELSE Answer(w, [kind |-> "script_rejected"])
    /\ UNCHANGED <<store, request, handling, total>>

InsertHandler(w) ==
    /\ pc[w] = "insert_handler"
    /\ MutexFree
    /\ \/ /\ Write(WithHandler(conn, request[w].input))
          /\ lastRowid' = Len(conn.scripts) + 1
          /\ holder' = w
          /\ Goto(w, "read_handler_rowid")
          /\ UNCHANGED <<inTxn, request, handling, total, reply>>
       \/ StatementFails(w)

ReadHandlerRowid(w) ==
    /\ pc[w] = "read_handler_rowid"
    /\ holder' = NoWorker
    /\ Answer(w, [kind |-> "handler_created", id |-> lastRowid])
    /\ UNCHANGED <<disk, conn, inTxn, lastRowid, request, handling, total>>

ListHandlers(w) ==
    /\ pc[w] = "list_handlers"
    /\ MutexFree
    /\ \/ /\ Answer(w, [kind |-> "handlers", scripts |-> conn.scripts])
          /\ UNCHANGED <<store, request, handling, total>>
       \/ StatementFails(w)
-----------------------------------------------------------------------------
(* TodoRepository::getPage: the count and the rows under one hold of the   *)
(* mutex.                                                                  *)

CountThenRelease(w) ==                                      \* mutant
    /\ pc[w] = "count_todos"
    /\ MutexFree
    /\ total' = [total EXCEPT ![w] = Len(conn.todos)]
    /\ Goto(w, "read_page")
    /\ UNCHANGED <<store, request, handling, reply>>

CountTodos(w) ==
    /\ pc[w] = "count_todos"
    /\ MutexFree
    /\ \/ /\ total' = [total EXCEPT ![w] = Len(conn.todos)]
          /\ holder' = w
          /\ Goto(w, "read_page")
          /\ UNCHANGED <<disk, conn, inTxn, lastRowid, request, handling, reply>>
       \/ StatementFails(w)

ReadPage(w) ==
    /\ pc[w] = "read_page"
    /\ \/ /\ LET input == request[w].input
             IN  Answer(w, [kind |-> "page", total |-> total[w],
                            items |-> PageOf(conn, input.offset, input.limit)])
          /\ holder' = NoWorker
          /\ UNCHANGED <<disk, conn, inTxn, lastRowid, request, handling, total>>
       \/ StatementFails(w)
-----------------------------------------------------------------------------
(* The process dies and is started again: what was not committed is gone,  *)
(* the requests are never answered and nothing resumes their handlers.     *)
Crash ==
    /\ Crashes
    /\ holder' = NoWorker
    /\ conn' = disk
    /\ inTxn' = FALSE
    /\ lastRowid' = 0
    /\ pc' = [w \in Workers |-> "idle"]
    /\ request' = [w \in Workers |-> None]
    /\ created' = [w \in Workers |-> NoTodo]
    /\ pending' = [w \in Workers |-> {}]
    /\ commands' = [w \in Workers |-> <<>>]
    /\ results' = [w \in Workers |-> <<>>]
    /\ report' = [w \in Workers |-> <<>>]
    /\ known' = [w \in Workers |-> 0]
    /\ total' = [w \in Workers |-> 0]
    /\ reply' = [w \in Workers |-> None]
    /\ UNCHANGED disk

Receive(w) == ReceiveTodo(w) \/ ReceiveHandler(w) \/ ReceivePage(w) \/ ReceiveList(w)

(* What a worker does of its own accord once it has a request.             *)
Work(w) ==
    \/ InsertTodo(w) \/ ReadTodoRowid(w) \/ FindHandlers(w)
    \/ RunScript(w) \/ BeginTransaction(w) \/ RunCommand(w)
    \/ Rollback(w) \/ Commit(w) \/ ReadBack(w)
    \/ TestScript(w) \/ InsertHandler(w) \/ ReadHandlerRowid(w)
    \/ ListHandlers(w) \/ CountTodos(w) \/ ReadPage(w)
    \/ Deliver(w)

Next ==
    \/ \E w \in Workers : Receive(w) \/ Work(w)
    \/ Crash

Spec == Init /\ [][Next]_vars

(* A worker with a request keeps running: the operating system schedules   *)
(* it, ScriptExecutionLimit ends every Lua run, SQLite without a busy      *)
(* timeout answers every statement, and the mutex, once free, is taken by  *)
(* one of the workers that want it, though not by any given one.           *)
FairSpec == Spec /\ \A w \in Workers : WF_vars(Work(w))
-----------------------------------------------------------------------------
(* Types.                                                                  *)

Places == {"idle", "answered", "insert_todo", "read_todo_rowid", "find_handlers",
           "run_handlers", "begin", "commands", "rollback", "test_script",
           "insert_handler", "read_handler_rowid", "list_handlers",
           "count_todos", "read_page"}

Requests ==
    [kind : {"create_todo"}, input : TodoInputs] \cup
    [kind : {"create_handler"}, input : HandlerInputs] \cup
    [kind : {"get_page"}, input : PageInputs] \cup
    {[kind |-> "get_handlers"], None}

Replies ==
    [kind : {"todo_created"}, todo : TodoTask, handlers : Seq(HandlerResult)] \cup
    [kind : {"handler_created"}, id : Nat] \cup
    [kind : {"page"}, total : Nat, items : Seq(TodoTask)] \cup
    [kind : {"handlers"}, scripts : Seq(HandlerRow)] \cup
    [kind : {"internal_error"}, why : {"storage", "disappeared"}] \cup
    {[kind |-> "rejected"], [kind |-> "script_rejected"], None}

(* Type invariant.  What it says beyond shapes: a stored priority always   *)
(* fits std::uint32_t, whatever the scripts pass to set_priority.          *)
TypeOK ==
    /\ holder \in Workers \cup {NoWorker}
    /\ disk \in Tables
    /\ conn \in Tables
    /\ inTxn \in BOOLEAN
    /\ lastRowid \in Nat
    /\ pc \in [Workers -> Places]
    /\ request \in [Workers -> Requests]
    /\ created \in [Workers -> TodoTask \cup {NoTodo}]
    /\ pending \in [Workers -> SUBSET Handler]
    /\ commands \in [Workers -> Seq(Commands)]
    /\ results \in [Workers -> Seq(CommandResults)]
    /\ report \in [Workers -> Seq(HandlerResult)]
    /\ known \in [Workers -> Nat]
    /\ total \in [Workers -> Nat]
    /\ reply \in [Workers -> Replies]

CreatingTodo == {"insert_todo", "read_todo_rowid", "find_handlers",
                 "run_handlers", "begin", "commands", "rollback"}
CreatingHandler == {"test_script", "insert_handler", "read_handler_rowid"}
GettingPage == {"count_todos", "read_page"}
HoldingTodo == {"find_handlers", "run_handlers", "begin", "commands", "rollback"}

(* What a worker's locals are where it is; with TypeOK it is inductive.    *)
LocalsFit ==
    \A w \in Workers :
        /\ pc[w] \in CreatingTodo =>
              request[w] \in [kind : {"create_todo"},
                              input : {input \in TodoInputs : ValidTodo(input)}]
        /\ pc[w] \in CreatingHandler =>
              request[w] \in [kind : {"create_handler"}, input : HandlerInputs]
        /\ pc[w] \in GettingPage =>
              request[w] \in [kind : {"get_page"}, input : PageInputs]
        /\ pc[w] \in HoldingTodo => created[w] \in TodoTask
        /\ pc[w] = "begin" => results[w] = <<>>
        /\ pc[w] = "commands" => Len(results[w]) <= Len(commands[w])
-----------------------------------------------------------------------------
(* Safety.                                                                 *)

InMutex == {"read_todo_rowid", "commands", "rollback", "read_handler_rowid", "read_page"}
InTransaction == {"commands", "rollback"}

(* DataBase: exactly the worker inside access() or transaction() holds the *)
(* mutex, and the connection has a transaction open exactly while a worker *)
(* is applying or undoing a handler's commands: every path out of a        *)
(* critical section, error paths included, leaves both released.           *)
MutexDiscipline ==
    /\ \A w \in Workers : holder = w <=> pc[w] \in InMutex
    /\ inTxn <=> \E w \in Workers : pc[w] \in InTransaction

(* Isolation: what the connection shows beyond the committed tables is     *)
(* exactly the commands the one handler in its transaction has applied so  *)
(* far; outside a transaction there is nothing uncommitted, so no other    *)
(* request reads or joins a handler's unfinished work.                     *)
Isolation ==
    /\ ~inTxn => conn = disk
    /\ \A w \in Workers : pc[w] = "commands" =>
          conn = [disk EXCEPT !.todos = EffectOf(@, commands[w], Len(results[w]))]

(* The handler whose result a step of worker w added to its report.        *)
Concluded(w) == report'[w][Len(report'[w])]
Concludes(w) == Len(report'[w]) = Len(report[w]) + 1

Extends(rows, table) ==
    Len(rows) = Len(table) + 1 /\ \A i \in DOMAIN table : rows[i] = table[i]

AppendsRow ==
    \/ disk'.scripts = disk.scripts /\ Extends(disk'.todos, disk.todos)
    \/ disk'.todos = disk.todos /\ Extends(disk'.scripts, disk.scripts)

(* The whole queue of the handler of w takes effect on the committed todos.*)
TakesEffect(w) ==
    disk' = [disk EXCEPT !.todos = EffectOf(@, commands[w], Len(commands[w]))]

(* A handler is atomic and its report is true (runHandlers and the text of *)
(* POST /api/todos in openapi.json): a handler is reported as a success in *)
(* the very step that commits all its commands, as anything else in a step *)
(* that commits nothing, and apart from that the committed tables change   *)
(* only by one inserted row.                                               *)
AllOrNothing ==
    /\ \A w \in Workers : Concludes(w) =>
          IF Concluded(w).status = "success" THEN TakesEffect(w) ELSE disk' = disk
    /\ \/ disk' = disk
       \/ AppendsRow
       \/ \E w \in Workers : Concludes(w) /\ Concluded(w).status = "success"

HandlerAtomicity == [][AllOrNothing]_vars

(* Command statuses of one handler agree with its status (HandlerCommand   *)
(* and HandlerExecution in openapi.json).                                  *)
Consistent(result) ==
    LET all == result.commandResults
    IN  CASE result.status = "success" ->
                /\ ~result.storageError
                /\ \A i \in DOMAIN all : all[i].status = "applied" /\ all[i].error = "none"
          [] result.status \in {"script_error", "limit_exceeded"} ->
                ~result.storageError /\ all = <<>>
          [] result.status = "command_error" /\ result.storageError ->
                \A i \in DOMAIN all : all[i].status = "rolled_back" /\ all[i].error = "none"
          [] OTHER ->
                \E k \in DOMAIN all :
                    /\ all[k].status = "failed" /\ all[k].error # "none"
                    /\ \A i \in DOMAIN all \ {k} :
                          /\ all[i].status = IF i < k THEN "rolled_back" ELSE "not_executed"
                          /\ all[i].error = "none"

(* After any sequence of applied, failed, rolled back and skipped commands *)
(* the report never shows an applied command of a handler that was rolled  *)
(* back, nor a failure without its one failed command in the right place.  *)
ReportConsistent ==
    \A w \in Workers : \A i \in DOMAIN report[w] : Consistent(report[w][i])

RunsHandlers(w) == pc[w] \in {"run_handlers", "begin", "commands", "rollback"}

(* Each handler that was enabled for ADDED_TODO at one moment between the  *)
(* insert of the todo and now runs exactly once, in the order of the ids,  *)
(* whatever handlers other requests add meanwhile and however the earlier  *)
(* handlers ended.  None that was stored when the todo was inserted is     *)
(* passed over: a lookup that fails ends the request.                      *)
HandlersRunOnceInOrder ==
    \A w \in Workers : RunsHandlers(w) \/ reply[w].kind = "todo_created" =>
        LET ran == {report[w][i].id : i \in DOMAIN report[w]}
            waiting == {h.id : h \in pending[w]}
        IN  /\ \A i, j \in DOMAIN report[w] : i < j => report[w][i].id < report[w][j].id
            /\ \A i \in ran, j \in waiting : i < j
            /\ \E n \in known[w]..Len(disk.scripts) :
                  ran \cup waiting =
                      {i \in 1..n : /\ disk.scripts[i].event = "ADDED_TODO"
                                    /\ disk.scripts[i].enabled}

(* last_insert_rowid is read before another worker can insert: a createTodo*)
(* works on, and answers with, the row of its own request, no two requests *)
(* share a row, and a createHandler answers with the id of its own script. *)
AnswersNameOwnRow ==
    \A w \in Workers :
        /\ created[w] # NoTodo =>
              /\ created[w].id \in DOMAIN disk.todos
              /\ disk.todos[created[w].id].title = request[w].input.title
              /\ \A v \in Workers \ {w} : created[v].id # created[w].id
        /\ reply[w].kind = "handler_created" =>
              /\ reply[w].id \in DOMAIN disk.scripts
              /\ disk.scripts[reply[w].id].script = request[w].input.script

(* A createTodo whose input is valid answers 500 only if SQLite refused a  *)
(* statement: no handler, however it ends, and no other request makes the  *)
(* created todo "disappear" (todo_use_cases.cpp, openapi.json).            *)
InternalErrorOnlyFromStorage ==
    \A w \in Workers : reply[w].kind = "internal_error" =>
        StorageFaults /\ reply[w].why = "storage"

(* A page and its total describe one state of the table: the page holds    *)
(* the consecutive ids, newest first, that the total, offset and limit     *)
(* promise, although count and rows are two statements.                    *)
PageMatchesTotal ==
    \A w \in Workers : reply[w].kind = "page" =>
        LET page == reply[w]
            input == request[w].input
        IN  /\ \A i \in DOMAIN page.items :
                  page.items[i].id = page.total - input.offset - i + 1
            /\ \/ Len(page.items) = input.limit
               \/ Len(page.items) < input.limit /\ input.offset >= page.total /\ page.items = <<>>
               \/ Len(page.items) < input.limit /\ Len(page.items) = page.total - input.offset

Shown(answer) ==
    CASE answer.kind = "todo_created" -> {answer.todo}
      [] answer.kind = "page" -> {answer.items[i] : i \in DOMAIN answer.items}
      [] OTHER -> {}

(* No dirty read: every todo an answer shows is, at the moment it is read, *)
(* as committed; values a handler's open transaction may still undo never  *)
(* reach a client.                                                         *)
AnswersShowCommitted ==
    [][\A w \in Workers : reply'[w] # reply[w] =>
          \A todo \in Shown(reply'[w]) :
              todo.id \in DOMAIN disk.todos /\ todo = TodoTaskOf(disk, todo.id)]_vars
-----------------------------------------------------------------------------
(* Liveness.                                                               *)

(* With one worker, as shipped, every request is answered: no path leaves  *)
(* the mutex locked or waits for a mutex it holds itself.                  *)
EveryRequestAnswered ==
    \A w \in Workers : (pc[w] # "idle") ~> (pc[w] = "idle")

(* With several workers some request is always answered: the workers never *)
(* wait for each other in a circle.  (A given worker may starve: the mutex *)
(* promises no order.)                                                     *)
SomeRequestAnswered ==
    (\E w \in Workers : pc[w] # "idle") ~> (\E w \in Workers : pc[w] = "answered")
=============================================================================
