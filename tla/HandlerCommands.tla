--------------------------- MODULE HandlerCommands ---------------------------
(***************************************************************************)
(* The commands a Lua handler queues and what each of them does to the     *)
(* todos table: the engine's conversion of a script's calls to commands    *)
(* (script_engine.cpp), their validation (command_validator.cpp), the two  *)
(* UPDATE statements (todo_repository.cpp) and the bookkeeping of command  *)
(* results when a handler's transaction fails (script_service.cpp).        *)
(*                                                                         *)
(* A Lua source is abstracted to the calls it makes and the ways its run   *)
(* can end.  An argument of a call is a Lua expression over the `todo`     *)
(* table: a literal, or a field of the todo plus a literal.                *)
(***************************************************************************)
EXTENDS Integers, Sequences

CONSTANT IntMax      \* largest value of a C++ int, scaled down

ASSUME IntMaxAssumption == IntMax \in Nat

Ints == -(IntMax + 1)..IntMax   \* values of an int
UIntMax == 2 * IntMax + 1       \* largest value of a std::uint32_t

Ops == {"complete", "set_priority"}
Expressions == [ofTodo : BOOLEAN, plus : Int]
Calls == [op : Ops, id : Expressions, priority : Expressions]
Endings == {"ok", "script_error", "limit_exceeded"}
Scripts == [calls : Seq(Calls), endings : SUBSET Endings \ {{}}]

Commands == [op : Ops, id : Int, priority : Ints]
Statuses == {"applied", "failed", "rolled_back", "not_executed"}
CommandErrors == {"none", "invalid_todo_id", "negative_priority",
                  "todo_not_found", "storage"}
CommandResults == [command : Commands, status : Statuses, error : CommandErrors]

(* The int parameter of set_priority: sol2 converts the 64-bit Lua integer *)
(* with a static_cast, which keeps the low bits as two's complement.       *)
ToInt(n) == ((n + IntMax + 1) % (2 * (IntMax + 1))) - (IntMax + 1)

ValueOf(expression, field) ==
    IF expression.ofTodo THEN field + expression.plus ELSE expression.plus

(* The command that one call of a script pushes when it runs on `todo`.    *)
CommandOf(call, todo) ==
    [op       |-> call.op,
     id       |-> ValueOf(call.id, todo.id),
     priority |-> IF call.op = "set_priority"
                  THEN ToInt(ValueOf(call.priority, todo.priority))
                  ELSE 0]

(* ExecutionResult::context.commands after a run that ended well.          *)
QueuedBy(script, todo) ==
    [i \in DOMAIN script.calls |-> CommandOf(script.calls[i], todo)]

IdErrorOnly(command) ==                                     \* mutant
    IF command.id <= 0 THEN "invalid_todo_id" ELSE "none"

ValidationError(command) ==
    CASE command.id <= 0 -> "invalid_todo_id"
      [] command.id > 0 /\ command.op = "set_priority" /\ command.priority < 0
           -> "negative_priority"
      [] OTHER -> "none"

(* UPDATE todos SET completed = 1 / priority = ? WHERE id = ?, on a table  *)
(* whose row ids are 1..Len(todos).                                        *)
Updated(todos, command) ==
    IF command.op = "complete"
    THEN [todos EXCEPT ![command.id].completed = TRUE]
    ELSE [todos EXCEPT ![command.id].priority = command.priority]

(* The errors a command may meet on this table; storageFaults says whether *)
(* SQLite may refuse the statement.                                        *)
PossibleErrors(todos, command, storageFaults) ==
    IF ValidationError(command) # "none" THEN {ValidationError(command)}
    ELSE {IF command.id \in DOMAIN todos THEN "none" ELSE "todo_not_found"}
         \cup (IF storageFaults THEN {"storage"} ELSE {})

ResultOf(command, error) ==
    [command |-> command, error |-> error,
     status  |-> IF error = "none" THEN "applied" ELSE "failed"]

(* Results of applied commands once their transaction is not committed.    *)
StillApplied(results) == results                            \* mutant

RolledBack(results) ==
    [i \in DOMAIN results |->
        IF results[i].status = "applied"
        THEN [results[i] EXCEPT !.status = "rolled_back"]
        ELSE results[i]]

(* Results of a queue whose last executed command failed: the ones before  *)
(* it rolled back, the ones after it never executed.                       *)
FailedQueue(results, queue) ==
    [i \in DOMAIN queue |->
        IF i \in DOMAIN results THEN RolledBack(results)[i]
        ELSE [command |-> queue[i], error |-> "none", status |-> "not_executed"]]

-----------------------------------------------------------------------------
(* What a prefix of a queue of valid commands leaves in a table, said      *)
(* without executing it: a todo is completed if any command completes it,  *)
(* and its priority is the one of the last command that sets it.           *)
Setters(queue, n, id) ==
    {i \in 1..n : queue[i].op = "set_priority" /\ queue[i].id = id}

LastOf(indices) == CHOOSE i \in indices : \A j \in indices : j <= i

Completes(queue, n, id) ==
    \E i \in 1..n : queue[i].op = "complete" /\ queue[i].id = id

EffectOf(todos, queue, n) ==
    [id \in DOMAIN todos |->
        [title     |-> todos[id].title,
         priority  |-> IF Setters(queue, n, id) = {} THEN todos[id].priority
                       ELSE queue[LastOf(Setters(queue, n, id))].priority,
         completed |-> todos[id].completed \/ Completes(queue, n, id)]]
=============================================================================
