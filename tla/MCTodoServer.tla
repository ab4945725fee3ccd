---------------------------- MODULE MCTodoServer ----------------------------
(***************************************************************************)
(* Small instances of TodoServer for TLC: the scripts, inputs and pages    *)
(* the constants of the configurations are bound to, and what the          *)
(* repository says of the answers and the code does not do.                *)
(***************************************************************************)
EXTENDS TodoRefinement, TodoReport

CONSTANTS t1, t2        \* two titles

(* Lua expressions. *)
TheTodo(plus) == [ofTodo |-> TRUE, plus |-> plus]
Literal(n) == [ofTodo |-> FALSE, plus |-> n]

Complete(id) == [op |-> "complete", id |-> id, priority |-> Literal(0)]
SetPriority(id, priority) == [op |-> "set_priority", id |-> id, priority |-> priority]
Script(calls, endings) == [calls |-> calls, endings |-> endings]

(* complete(todo.id); set_priority(todo.id, 1) *)
Finish == Script(<<Complete(TheTodo(0)), SetPriority(TheTodo(0), Literal(1))>>, {"ok"})
(* set_priority(todo.id, todo.priority + 1), sometimes too slow *)
Raise == Script(<<SetPriority(TheTodo(0), TheTodo(1))>>, {"ok", "limit_exceeded"})
(* set_priority(todo.id, 0); set_priority(2, 1); complete(todo.id), may raise an error *)
Meddle == Script(<<SetPriority(TheTodo(0), Literal(0)), SetPriority(Literal(2), Literal(1)),
                   Complete(TheTodo(0))>>, {"ok", "script_error"})
(* set_priority(2, 1); complete(todo.id), may raise an error *)
Nudge == Script(<<SetPriority(Literal(2), Literal(1)), Complete(TheTodo(0))>>,
                {"ok", "script_error"})
(* complete(todo.id); complete(todo.id - 1) : 0 for the first todo *)
Previous == Script(<<Complete(TheTodo(0)), Complete(TheTodo(-1))>>, {"ok"})
(* no command at all *)
Quiet == Script(<<>>, {"ok"})

Todo(title, priority) ==
    [title |-> title, priority |-> priority, completed |-> FALSE, wellFormed |-> TRUE]
OnAdded(script) ==
    [script |-> script, event |-> "ADDED_TODO", enabled |-> TRUE, wellFormed |-> TRUE]

BothTitles == {t1, t2}
Page(offset, limit) == [offset |-> offset, limit |-> limit]

TwoTodos == {Todo(t1, 3), Todo(t2, 1)}
EveryTodo == TwoTodos \cup {Todo(t1, 4), Todo(t1, -1), [Todo(t1, 0) EXCEPT !.wellFormed = FALSE]}

OneHandler == {OnAdded(Nudge)}
OwnHandlers == {OnAdded(Finish), OnAdded(Raise)}
EveryHandler ==
    {OnAdded(s) : s \in {Finish, Raise, Meddle, Previous, Quiet}} \cup
    {[OnAdded(Quiet) EXCEPT !.enabled = FALSE], [OnAdded(Quiet) EXCEPT !.event = "UPDATED_TODO"],
     [OnAdded(Quiet) EXCEPT !.wellFormed = FALSE]}

OnePage == {Page(1, 1)}
SomePages == {Page(0, 1), Page(1, 2), Page(5, 0)}
WorkerSymmetry == Permutations(Workers)
-----------------------------------------------------------------------------
(* What the repository says and the code does not do.                      *)

(* "failedCommandIndex ... is present for command_error" (openapi.json,    *)
(* HandlerError): a handler that ended in command_error names the command  *)
(* that failed.  False: a refused BEGIN or COMMIT is a command_error       *)
(* without a failed command (script_service.cpp, catch clause).            *)
CommandErrorNamesCommand ==
    \A w \in Workers : \A i \in DOMAIN report[w] :
        report[w][i].status = "command_error" =>
            \E k \in DOMAIN report[w][i].commandResults :
                report[w][i].commandResults[k].status = "failed"

(* "priority must be greater than or equal to 0" (json_serializer.cpp, the *)
(* message of INVALID_PRIORITY): set_priority is refused only when the     *)
(* script passed a negative number.  False: the engine narrows the Lua     *)
(* integer to int before the check, so a large priority becomes negative.  *)
RefusedPriorityIsNegative ==
    \A w \in Workers : \A i \in DOMAIN report[w] :
        LET script == disk.scripts[report[w][i].id].script
            all == report[w][i].commandResults
        IN  \A k \in DOMAIN all : all[k].error = "negative_priority" =>
                ValueOf(script.calls[k].priority, created[w].priority) < 0

(* The codes of HandlerError (openapi.json, "stable machine-readable code  *)
(* of the error", an enum): an answer shows no other.  False: a command    *)
(* with an id that is not positive gets INVALID_TODO_ID                    *)
(* (json_serializer.cpp, commandToJson).                                   *)
ErrorCodesDocumented ==
    \A body \in CreatedBodies :
        CodesIn(body) \subseteq
            {"LUA_RUNTIME_ERROR", "EXECUTION_LIMIT_EXCEEDED", "INVALID_PRIORITY",
             "TODO_NOT_FOUND", "DATABASE_ERROR", "COMMAND_TRANSACTION_ROLLED_BACK"}
=============================================================================
