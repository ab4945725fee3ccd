----------------------------- MODULE TodoReport -----------------------------
(***************************************************************************)
(* The answers of TodoServer to createTodo as the client reads them: what  *)
(* HttpReport makes of the results of the handlers, and what the client    *)
(* may rely on.                                                            *)
(***************************************************************************)
EXTENDS TodoServer, HttpReport

(* The answers to createTodo that are under way.                           *)
CreatedBodies ==
    {CreatedTodo(reply[w].todo, reply[w].handlers) :
        w \in {v \in Workers : reply[v].kind = "todo_created"}}

(* The counts, the list of failed handlers and the status of every answer  *)
(* agree with its executions.                                              *)
ReportAddsUp == \A body \in CreatedBodies : AddsUp(body)

(* Every failed execution of every answer says where it failed, truly.     *)
FailuresAreLocated ==
    \A body \in CreatedBodies :
        \A i \in DOMAIN body.handlers.executions : Located(body.handlers.executions[i])

(* "Todo contains the final state after all successfully applied handlers" *)
(* (openapi.json, TodoCreateResponse): the todo a createTodo answers with  *)
(* is the one the client sent, changed by the commands the answer lists as *)
(* applied and by nothing else.  It holds while requests are Undisturbed.  *)
AnswerIsFinalState ==
    \A w \in Workers : reply[w].kind = "todo_created" =>
        LET body == CreatedTodo(reply[w].todo, reply[w].handlers)
        IN  body.todo = FinalTodo(request[w].input, body.todo.id, body.handlers.executions)

(* No other request's handler touches the todo of a request: there is one  *)
(* worker, or all scripts touch only their own todo.                       *)
OwnTodoOnly(script) ==
    \A i \in DOMAIN script.calls : script.calls[i].id = [ofTodo |-> TRUE, plus |-> 0]

Undisturbed ==
    \/ \A v, w \in Workers : v = w
    \/ \A input \in HandlerInputs : OwnTodoOnly(input.script)
=============================================================================
