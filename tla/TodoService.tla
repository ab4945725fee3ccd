----------------------------- MODULE TodoService -----------------------------
(***************************************************************************)
(* The service as its clients see it: every request takes effect on the    *)
(* committed tables in steps that are atomic, every answer shows the       *)
(* tables as they are in one state, and a handler either applies its whole *)
(* queue or nothing.  No mutex, connection, transaction or statement:      *)
(* TodoServer shows how those implement it (TodoRefinement).               *)
(***************************************************************************)
EXTENDS TodoData

VARIABLES
    disk,      \* the committed tables
    stage,     \* how far the service is with the request of each worker
    request,   \* the request each worker is answering
    work,      \* createTodo, createHandler: the row and the handlers' results
    reply      \* the response of each worker

vars == <<disk, stage, request, work, reply>>

Stages == {"idle", "accepted", "stored", "running", "answered"}
NoWork == [id |-> 0, pending |-> {}, report |-> <<>>]

Init ==
    /\ disk = NoRows
    /\ stage = [w \in Workers |-> "idle"]
    /\ request = [w \in Workers |-> None]
    /\ work = [w \in Workers |-> NoWork]
    /\ reply = [w \in Workers |-> None]

Is(w, step, kind) == stage[w] = step /\ request[w].kind = kind
Become(w, step) == stage' = [stage EXCEPT ![w] = step]

Answer(w, response) ==
    /\ Become(w, "answered")
    /\ work' = [work EXCEPT ![w] = NoWork]
    /\ reply' = [reply EXCEPT ![w] = response]
-----------------------------------------------------------------------------
(* A request is taken up, or refused because its body is not valid.        *)
Accept(w) ==
    /\ stage[w] = "idle"
    /\ \E kind \in {"create_todo", "create_handler", "get_page"} :
       \E input \in CASE kind = "create_todo" -> TodoInputs
                      [] kind = "create_handler" -> HandlerInputs
                      [] OTHER -> PageInputs :
          /\ request' = [request EXCEPT ![w] = [kind |-> kind, input |-> input]]
          /\ IF CASE kind = "create_todo" -> ValidTodo(input)
                  [] kind = "create_handler" -> input.wellFormed
                  [] OTHER -> TRUE
             THEN Become(w, "accepted") /\ UNCHANGED <<work, reply>>
             ELSE Answer(w, [kind |-> "rejected"])
    /\ UNCHANGED disk

AcceptList(w) ==
    /\ stage[w] = "idle"
    /\ request' = [request EXCEPT ![w] = [kind |-> "get_handlers"]]
    /\ Become(w, "accepted")
    /\ UNCHANGED <<disk, work, reply>>

(* SQLite refuses a statement: 500, whatever has been stored so far.       *)
Fail(w) ==
    /\ StorageFaults
    /\ \/ stage[w] \in {"accepted", "stored"}
       \/ stage[w] = "running" /\ work[w].pending = {}
    /\ Answer(w, [kind |-> "internal_error", why |-> "storage"])
    /\ UNCHANGED <<disk, request>>

Deliver(w) ==
    /\ stage[w] = "answered"
    /\ Become(w, "idle")
    /\ request' = [request EXCEPT ![w] = None]
    /\ reply' = [reply EXCEPT ![w] = None]
    /\ UNCHANGED <<disk, work>>
-----------------------------------------------------------------------------
(* createTodo: the row, the handlers enabled at one later moment, each of  *)
(* them in turn, and the row as it is then.                                *)

StoreTodo(w) ==
    /\ Is(w, "accepted", "create_todo")
    /\ disk' = WithTodo(disk, request[w].input)
    /\ work' = [work EXCEPT ![w].id = Len(disk.todos) + 1]
    /\ Become(w, "stored")
    /\ UNCHANGED <<request, reply>>

ChooseHandlers(w) ==
    /\ Is(w, "stored", "create_todo")
    /\ work' = [work EXCEPT ![w].pending = HandlersFor(disk, "ADDED_TODO")]
    /\ Become(w, "running")
    /\ UNCHANGED <<disk, request, reply>>

(* The commands of a handler, computed from the todo as the client sent it.*)
QueueOf(w, h) == QueuedBy(h.script, SnapshotOf(work[w].id, request[w].input))

CanApply(command) == PossibleErrors(disk.todos, command, FALSE) = {"none"}
AllApplied(queue) == [i \in DOMAIN queue |-> ResultOf(queue[i], "none")]
FailedAt(queue, k, error) ==
    FailedQueue(Append(AllApplied(SubSeq(queue, 1, k - 1)), ResultOf(queue[k], error)), queue)

Report(w, h, status, commandResults, storageError) ==
    work' = [work EXCEPT
        ![w].pending = @ \ {h},
        ![w].report = Append(@, HandlerResultOf(h, status, commandResults, storageError))]

(* The whole queue takes effect in one step.                               *)
Succeeds(w, h) ==
    /\ "ok" \in h.script.endings
    /\ \A i \in DOMAIN QueueOf(w, h) : CanApply(QueueOf(w, h)[i])
    /\ disk' = [disk EXCEPT !.todos = EffectOf(@, QueueOf(w, h), Len(QueueOf(w, h)))]
    /\ Report(w, h, "success", AllApplied(QueueOf(w, h)), FALSE)

(* The script raises an error or runs into a limit.                        *)
FailsInScript(w, h) ==
    /\ \E ending \in h.script.endings \ {"ok"} : Report(w, h, ending, <<>>, FALSE)
    /\ UNCHANGED disk

(* A command is refused: the ones before it could have been applied.       *)
FailsInCommand(w, h) ==
    /\ "ok" \in h.script.endings
    /\ \E k \in DOMAIN QueueOf(w, h) :
          /\ \A i \in 1..(k - 1) : CanApply(QueueOf(w, h)[i])
          /\ \E error \in PossibleErrors(disk.todos, QueueOf(w, h)[k], StorageFaults) \ {"none"} :
                Report(w, h, "command_error", FailedAt(QueueOf(w, h), k, error), FALSE)
    /\ UNCHANGED disk

(* The transaction cannot begin, or cannot commit.                         *)
FailsInStorage(w, h) ==
    /\ StorageFaults
    /\ "ok" \in h.script.endings
    /\ \/ Report(w, h, "command_error", <<>>, TRUE)
       \/ /\ \A i \in DOMAIN QueueOf(w, h) : CanApply(QueueOf(w, h)[i])
          /\ Report(w, h, "command_error", RolledBack(AllApplied(QueueOf(w, h))), TRUE)
    /\ UNCHANGED disk

RunHandler(w) ==
    /\ stage[w] = "running"
    /\ \E h \in work[w].pending :
          /\ First(work[w].pending, h)
          /\ \/ Succeeds(w, h) \/ FailsInScript(w, h)
             \/ FailsInCommand(w, h) \/ FailsInStorage(w, h)
    /\ UNCHANGED <<stage, request, reply>>

AnswerTodo(w) ==
    /\ stage[w] = "running"
    /\ work[w].pending = {}
    /\ Answer(w, [kind |-> "todo_created", todo |-> TodoTaskOf(disk, work[w].id),
                  handlers |-> work[w].report])
    /\ UNCHANGED <<disk, request>>
-----------------------------------------------------------------------------
(* createHandler: a script is stored only if its test run can end well.    *)

RejectScript(w) ==
    /\ Is(w, "accepted", "create_handler")
    /\ request[w].input.script.endings # {"ok"}
    /\ Answer(w, [kind |-> "script_rejected"])
    /\ UNCHANGED <<disk, request>>

StoreHandler(w) ==
    /\ Is(w, "accepted", "create_handler")
    /\ "ok" \in request[w].input.script.endings
    /\ disk' = WithHandler(disk, request[w].input)
    /\ work' = [work EXCEPT ![w].id = Len(disk.scripts) + 1]
    /\ Become(w, "stored")
    /\ UNCHANGED <<request, reply>>

AnswerHandler(w) ==
    /\ Is(w, "stored", "create_handler")
    /\ Answer(w, [kind |-> "handler_created", id |-> work[w].id])
    /\ UNCHANGED <<disk, request>>
-----------------------------------------------------------------------------
(* The queries: one state of the tables each.                              *)

AnswerList(w) ==
    /\ Is(w, "accepted", "get_handlers")
    /\ Answer(w, [kind |-> "handlers", scripts |-> disk.scripts])
    /\ UNCHANGED <<disk, request>>

AnswerPage(w) ==
    /\ Is(w, "accepted", "get_page")
    /\ LET input == request[w].input
       IN  Answer(w, [kind |-> "page", total |-> Len(disk.todos),
                      items |-> PageOf(disk, input.offset, input.limit)])
    /\ UNCHANGED <<disk, request>>

(* The process is restarted: only the committed tables remain.             *)
Crash ==
    /\ Crashes
    /\ stage' = [w \in Workers |-> "idle"]
    /\ request' = [w \in Workers |-> None]
    /\ work' = [w \in Workers |-> NoWork]
    /\ reply' = [w \in Workers |-> None]
    /\ UNCHANGED disk

Serve(w) ==
    \/ StoreTodo(w) \/ ChooseHandlers(w) \/ RunHandler(w) \/ AnswerTodo(w)
    \/ RejectScript(w) \/ StoreHandler(w) \/ AnswerHandler(w)
    \/ AnswerList(w) \/ AnswerPage(w) \/ Fail(w) \/ Deliver(w)

Next ==
    \/ \E w \in Workers : Accept(w) \/ AcceptList(w) \/ Serve(w)
    \/ Crash

Spec == Init /\ [][Next]_vars
=============================================================================
