------------------------------ MODULE HttpReport ------------------------------
(***************************************************************************)
(* The JSON a createTodo answers with, built from the results of the       *)
(* handlers (handlersReportToJson, commandToJson and the route of          *)
(* POST /api/todos).  A JSON object is a record; an error that is null has *)
(* the code "null", and a failedCommandIndex that is left out is -1.       *)
(***************************************************************************)
EXTENDS TodoData, SequencesExt

ErrorCode(error) ==
    CASE error = "none" -> "null"
      [] error = "todo_not_found" -> "TODO_NOT_FOUND"
      [] error = "negative_priority" -> "INVALID_PRIORITY"
      [] error = "invalid_todo_id" -> "INVALID_TODO_ID"
      [] error = "storage" -> "DATABASE_ERROR"

(* Positions of commands and handlers are counted from 0.                  *)
CommandJson(result, position) ==
    [index |-> position - 1, type |-> result.command.op, todoId |-> result.command.id,
     priority |-> result.command.priority, status |-> result.status,
     error |-> ErrorCode(result.error)]

CommandsJson(handler) ==
    [i \in DOMAIN handler.commandResults |-> CommandJson(handler.commandResults[i], i)]

NotApplied(result) == result.status # "applied"             \* mutant
HasFailed(result) == result.status = "failed"

(* The first failed command, counted from 0; -1 if there is none.          *)
FailedCommandIndex(handler) == SelectInSeq(handler.commandResults, HasFailed) - 1

ExecutionError(handler) ==
    LET rolledBack == handler.status = "command_error" /\ ~handler.storageError
    IN  [code |-> CASE handler.status = "success" -> "null"
                    [] handler.status = "limit_exceeded" -> "EXECUTION_LIMIT_EXCEEDED"
                    [] handler.status = "script_error" -> "LUA_RUNTIME_ERROR"
                    [] rolledBack -> "COMMAND_TRANSACTION_ROLLED_BACK"
                    [] OTHER -> "DATABASE_ERROR",
         failedCommandIndex |-> IF rolledBack THEN FailedCommandIndex(handler) ELSE -1]

Execution(handler) ==
    [handlerId |-> handler.id, status |-> handler.status,
     commands |-> CommandsJson(handler), error |-> ExecutionError(handler)]

(* One turn of the loop over the handlers: a counter and a list.           *)
CountsLuaErrors(tally, handler) ==                          \* mutant
    IF handler.status \in {"script_error", "limit_exceeded"}
    THEN [tally EXCEPT !.failedIds = Append(@, handler.id)]
    ELSE [tally EXCEPT !.succeeded = @ + 1]

Tally(tally, handler) ==
    IF handler.status = "success"
    THEN [tally EXCEPT !.succeeded = @ + 1]
    ELSE [tally EXCEPT !.failedIds = Append(@, handler.id)]

Executions(handlers) == [i \in DOMAIN handlers |-> Execution(handlers[i])]

HandlersReport(handlers) ==
    LET tally == FoldLeft(Tally, [succeeded |-> 0, failedIds |-> <<>>], handlers)
    IN  [allSucceeded |-> tally.succeeded = Len(handlers),
         total |-> Len(handlers),
         succeeded |-> tally.succeeded,
         failed |-> Len(handlers) - tally.succeeded,
         failedHandlerIds |-> tally.failedIds,
         executions |-> Executions(handlers)]

(* The body of the 201; its status is found by a pass of its own.          *)
CreatedTodo(todo, handlers) ==
    [status |-> IF \A i \in DOMAIN handlers : handlers[i].status = "success"
                THEN "created" ELSE "created_with_handler_errors",
     todo |-> todo,
     handlers |-> HandlersReport(handlers)]
-----------------------------------------------------------------------------
(* What a client may rely on, reading nothing but the answer.              *)

(* "succeeded + failed is always total; failedHandlerIds holds the ids of  *)
(* all executions whose status is not success" (openapi.json,              *)
(* HandlerReport), and the three ways the answer says that all went well   *)
(* (status, allSucceeded, no failed handler) agree.                        *)
FailedUpTo(executions, n) == {i \in 1..n : executions[i].status # "success"}

AddsUp(body) ==
    LET rep == body.handlers
        executions == rep.executions
        failures == FailedUpTo(executions, rep.total)
    IN  /\ rep.total = Len(executions)
        /\ rep.failed = Cardinality(failures) /\ rep.succeeded + rep.failed = rep.total
        /\ Len(rep.failedHandlerIds) = Cardinality(failures)
        /\ \A i \in failures :
              rep.failedHandlerIds[Cardinality(FailedUpTo(executions, i))]
                  = executions[i].handlerId
        /\ rep.allSucceeded <=> rep.failedHandlerIds = <<>>
        /\ body.status = "created" <=> rep.allSucceeded

(* An execution error points at what went wrong: with an index, at the one *)
(* command that has an error, everything before it rolled back and nothing *)
(* after it executed; without one, at no command.                          *)
Located(execution) ==
    LET list == execution.commands
        failing == {i \in DOMAIN list : list[i].error # "null"}
    IN  CASE execution.error.code = "null" ->
               \A i \in DOMAIN list : list[i].status = "applied" /\ list[i].error = "null"
          [] execution.error.code = "COMMAND_TRANSACTION_ROLLED_BACK" ->
               \E k \in DOMAIN list :
                  /\ failing = {k}
                  /\ execution.error.failedCommandIndex = list[k].index
                  /\ \A i \in DOMAIN list :
                        /\ i < k => list[i].status = "rolled_back"
                        /\ i > k => list[i].status = "not_executed"
          [] OTHER ->
               failing = {} /\ \A i \in DOMAIN list : list[i].status = "rolled_back"

(* The commands that an execution says are in effect on a todo.            *)
InEffect(execution, op, id) ==
    {k \in DOMAIN execution.commands :
        LET command == execution.commands[k]
        IN  command.status = "applied" /\ command.type = op /\ command.todoId = id}

(* The todo a client sent, changed by what the executions say is in effect *)
(* on it: completed if any command completes it, with the priority of the  *)
(* last command of the last execution that sets one.                       *)
FinalTodo(sent, id, executions) ==
    LET setting == {i \in DOMAIN executions :
                       InEffect(executions[i], "set_priority", id) # {}}
        last == executions[LastOf(setting)]
    IN  [id |-> id,
         title |-> sent.title,
         priority |-> IF setting = {} THEN sent.priority
                      ELSE last.commands[LastOf(InEffect(last, "set_priority", id))].priority,
         completed |-> \/ sent.completed
                       \/ \E i \in DOMAIN executions :
                             InEffect(executions[i], "complete", id) # {}]

(* Every error code an answer shows.                                       *)
CodesIn(body) ==
    LET executions == body.handlers.executions
        commandCodes(execution) == {execution.commands[i].error : i \in DOMAIN execution.commands}
    IN  UNION {{executions[i].error.code} \cup commandCodes(executions[i]) :
                  i \in DOMAIN executions} \ {"null"}
=============================================================================
