-------------------------- MODULE TodoServer_proofs --------------------------
(***************************************************************************)
(* Proofs about TodoServer, for any set of workers, any scripts and        *)
(* inputs, any width of int, with storage faults and crashes or without.   *)
(***************************************************************************)
EXTENDS TodoServer, SequenceTheorems, TLAPS
-----------------------------------------------------------------------------
(* What the operators of HandlerCommands return and preserve.              *)

(* The narrowing conversion of set_priority always yields an int.          *)
LEMMA ToIntInRange ==
    ASSUME NEW n \in Int
    PROVE  ToInt(n) \in Ints
<1> DEFINE m == 2 * (IntMax + 1)
           k == n + IntMax + 1
<1>1. m \in Nat \ {0} /\ k \in Int
    BY IntMaxAssumption
<1> HIDE DEF m, k
<1>2. k % m \in 0..(m - 1)
    BY <1>1
<1>3. m = 2 * IntMax + 2 /\ IntMax \in Nat /\ ToInt(n) = (k % m) - (IntMax + 1)
    BY IntMaxAssumption DEF m, k, ToInt
<1> QED
    BY <1>1, <1>2, <1>3 DEF Ints

(* A non-negative int fits the unsigned column it is stored in.            *)
LEMMA IntsFitColumn ==
    ASSUME NEW n \in Ints, n >= 0
    PROVE  n \in 0..UIntMax
BY IntMaxAssumption DEF Ints, UIntMax

(* The engine's queue is a sequence of commands, one per call.             *)
LEMMA QueuedByType ==
    ASSUME NEW script \in Scripts, NEW todo,
           todo.id \in Int, todo.priority \in Int
    PROVE  /\ QueuedBy(script, todo) \in Seq(Commands)
           /\ Len(QueuedBy(script, todo)) = Len(script.calls)
<1>1. script.calls \in Seq(Calls)
    BY DEF Scripts
<1>2. ASSUME NEW i \in DOMAIN script.calls
      PROVE  CommandOf(script.calls[i], todo) \in Commands
    <2>1. script.calls[i] \in Calls
        BY <1>1
    <2>2. /\ ValueOf(script.calls[i].id, todo.id) \in Int
          /\ ValueOf(script.calls[i].priority, todo.priority) \in Int
        BY <2>1 DEF ValueOf, Calls, Expressions
    <2>3. ToInt(ValueOf(script.calls[i].priority, todo.priority)) \in Ints
        BY <2>2, ToIntInRange
    <2>4. 0 \in Ints
        BY IntMaxAssumption DEF Ints
    <2> QED
        BY <2>1, <2>2, <2>3, <2>4 DEF CommandOf, Commands, Calls
<1>3. QueuedBy(script, todo) \in [1..Len(script.calls) -> Commands]
    BY <1>1, <1>2 DEF QueuedBy
<1>4. Len(script.calls) \in Nat
    BY <1>1
<1> QED
    BY <1>3, <1>4, IsASeq, LenProperties
-----------------------------------------------------------------------------
(* Any row with a priority and a completion flag will do for a todo.       *)
Rows(Title, Priority) == [title : Title, priority : Priority, completed : BOOLEAN]

(* A command that validates and finds its row keeps the table well typed,  *)
(* whatever the script computed its priority from.                         *)
LEMMA UpdatedType ==
    ASSUME NEW Title, NEW todos \in Seq(Rows(Title, 0..UIntMax)),
           NEW command \in Commands,
           ValidationError(command) = "none", command.id \in DOMAIN todos
    PROVE  /\ Updated(todos, command) \in Seq(Rows(Title, 0..UIntMax))
           /\ Len(Updated(todos, command)) = Len(todos)
<1>1. command.op = "set_priority" => command.priority \in 0..UIntMax
    <2>1. command.id \in Int /\ command.priority \in Ints
        BY DEF Commands
    <2>2. command.op = "set_priority" => command.priority >= 0
        BY <2>1 DEF ValidationError, Ints
    <2> QED
        BY <2>1, <2>2, IntsFitColumn
<1>2. todos[command.id] \in Rows(Title, 0..UIntMax)
    OBVIOUS
<1>3. /\ [todos[command.id] EXCEPT !.completed = TRUE] \in Rows(Title, 0..UIntMax)
      /\ command.op = "set_priority" =>
            [todos[command.id] EXCEPT !.priority = command.priority]
                \in Rows(Title, 0..UIntMax)
    BY <1>1, <1>2 DEF Rows
<1>4. command.op = "complete" \/ command.op = "set_priority"
    BY DEF Commands, Ops
<1>5. CASE command.op = "complete"
    <2>1. Updated(todos, command) =
              [todos EXCEPT ![command.id] = [todos[command.id] EXCEPT !.completed = TRUE]]
        BY <1>5 DEF Updated
    <2> QED
        BY <2>1, <1>3, ExceptSeq
<1>6. CASE command.op = "set_priority"
    <2>1. Updated(todos, command) =
              [todos EXCEPT ![command.id] =
                  [todos[command.id] EXCEPT !.priority = command.priority]]
        BY <1>6 DEF Updated
    <2> QED
        BY <2>1, <1>3, <1>6, ExceptSeq
<1> QED
    BY <1>4, <1>5, <1>6

(* The empty prefix of a queue has no effect.                              *)
LEMMA EffectOfNothing ==
    ASSUME NEW Title, NEW Priority, NEW todos \in Seq(Rows(Title, Priority)), NEW queue
    PROVE  EffectOf(todos, queue, 0) = todos
<1>1. \A id : Setters(queue, 0, id) = {} /\ ~Completes(queue, 0, id)
    BY DEF Setters, Completes
<1>2. ASSUME NEW id \in DOMAIN todos
      PROVE  EffectOf(todos, queue, 0)[id] = todos[id]
    <2>1. todos[id] \in Rows(Title, Priority)
        OBVIOUS
    <2>2. (todos[id].completed \/ Completes(queue, 0, id)) = todos[id].completed
        BY <1>1, <2>1 DEF Rows
    <2>3. EffectOf(todos, queue, 0)[id] =
              [title |-> todos[id].title, priority |-> todos[id].priority,
               completed |-> todos[id].completed]
        BY <1>1, <2>2 DEF EffectOf
    <2> QED
        BY <2>1, <2>3 DEF Rows
<1>3. EffectOf(todos, queue, 0) = [id \in DOMAIN todos |-> EffectOf(todos, queue, 0)[id]]
    BY DEF EffectOf
<1>4. todos = [id \in DOMAIN todos |-> todos[id]]
    OBVIOUS
<1> QED
    BY <1>2, <1>3, <1>4

(* The last setter of a longer prefix: the new command if it sets the      *)
(* priority of the todo, otherwise the setters are the same.               *)
LEMMA SettersStep ==
    ASSUME NEW queue, NEW n \in Nat, NEW id
    PROVE  LET sets == queue[n + 1].op = "set_priority" /\ queue[n + 1].id = id
           IN  /\ sets => /\ Setters(queue, n + 1, id) # {}
                          /\ LastOf(Setters(queue, n + 1, id)) = n + 1
               /\ ~sets => Setters(queue, n + 1, id) = Setters(queue, n, id)
<1>1. CASE queue[n + 1].op = "set_priority" /\ queue[n + 1].id = id
    <2>1. n + 1 \in Setters(queue, n + 1, id)
        BY <1>1 DEF Setters
    <2>2. \A j \in Setters(queue, n + 1, id) : j \in Nat /\ j <= n + 1
        BY DEF Setters
    <2>3. \A i \in Setters(queue, n + 1, id) :
              (\A j \in Setters(queue, n + 1, id) : j <= i) => i = n + 1
        BY <2>1, <2>2
    <2>4. LastOf(Setters(queue, n + 1, id)) = n + 1
        BY <2>1, <2>2, <2>3 DEF LastOf
    <2> QED
        BY <1>1, <2>1, <2>4
<1>2. CASE ~(queue[n + 1].op = "set_priority" /\ queue[n + 1].id = id)
    <2>1. 1..(n + 1) = (1..n) \cup {n + 1}
        OBVIOUS
    <2> QED
        BY <1>2, <2>1 DEF Setters
<1> QED
    BY <1>1, <1>2

(* Executing the next command on the effect of a prefix gives the effect   *)
(* of the longer prefix: step by step or all at once is the same.          *)
LEMMA EffectOfNext ==
    ASSUME NEW todos, NEW queue, NEW n \in Nat, queue[n + 1] \in Commands,
           queue[n + 1].id \in DOMAIN todos
    PROVE  Updated(EffectOf(todos, queue, n), queue[n + 1]) = EffectOf(todos, queue, n + 1)
<1> DEFINE c == queue[n + 1]
           before == EffectOf(todos, queue, n)
           after == EffectOf(todos, queue, n + 1)
<1>1. c.op = "complete" \/ c.op = "set_priority"
    BY DEF Commands, Ops
<1>2. DOMAIN before = DOMAIN todos /\ DOMAIN after = DOMAIN todos
    BY DEF EffectOf
<1>3. ASSUME NEW id \in DOMAIN todos
      PROVE  Updated(before, c)[id] = after[id]
    <2>1. Completes(queue, n + 1, id)
              <=> Completes(queue, n, id) \/ (c.op = "complete" /\ c.id = id)
        <3>1. 1..(n + 1) = (1..n) \cup {n + 1}
            OBVIOUS
        <3> QED
            BY <3>1 DEF Completes
    <2>2. CASE c.id # id
        <3>1. Updated(before, c)[id] = before[id]
            BY <2>2, <1>2 DEF Updated
        <3>2. Setters(queue, n + 1, id) = Setters(queue, n, id)
            BY <2>2, SettersStep
        <3>3. (todos[id].completed \/ Completes(queue, n + 1, id))
                  = (todos[id].completed \/ Completes(queue, n, id))
            BY <2>1, <2>2, Zenon
        <3> QED
            BY <3>1, <3>2, <3>3 DEF EffectOf
    <2>3. CASE c.id = id /\ c.op = "complete"
        <3>1. Updated(before, c)[id] = [before[id] EXCEPT !.completed = TRUE]
            BY <2>3, <1>2 DEF Updated
        <3>2. Setters(queue, n + 1, id) = Setters(queue, n, id)
            BY <2>3, SettersStep
        <3>3. (todos[id].completed \/ Completes(queue, n + 1, id)) = TRUE
            BY <2>1, <2>3, Zenon
        <3> QED
            BY <3>1, <3>2, <3>3 DEF EffectOf
    <2>4. CASE c.id = id /\ c.op = "set_priority"
        <3>1. Updated(before, c)[id] = [before[id] EXCEPT !.priority = c.priority]
            BY <2>4, <1>2 DEF Updated
        <3>2. /\ Setters(queue, n + 1, id) # {}
              /\ LastOf(Setters(queue, n + 1, id)) = n + 1
            BY <2>4, SettersStep
        <3>3. c.op # "complete"
            BY <2>4
        <3>4. (todos[id].completed \/ Completes(queue, n + 1, id))
                  = (todos[id].completed \/ Completes(queue, n, id))
            BY <2>1, <3>3, Zenon
        <3> QED
            BY <3>1, <3>2, <3>4 DEF EffectOf
    <2> QED
        BY <1>1, <2>2, <2>3, <2>4
<1>4. /\ Updated(before, c) = [id \in DOMAIN todos |-> Updated(before, c)[id]]
      /\ after = [id \in DOMAIN todos |-> after[id]]
    BY DEF Updated, EffectOf
<1> QED
    BY <1>3, <1>4
-----------------------------------------------------------------------------
(* The result of a tried command is a command result.                      *)
LEMMA ResultOfType ==
    ASSUME NEW todos, NEW command \in Commands, NEW faults \in BOOLEAN,
           NEW error \in PossibleErrors(todos, command, faults)
    PROVE  /\ ResultOf(command, error) \in CommandResults
           /\ error = "none" => /\ ValidationError(command) = "none"
                                /\ command.id \in DOMAIN todos
<1>1. ValidationError(command) \in {"none", "invalid_todo_id", "negative_priority"}
    <2>1. command.id \in Int
        BY DEF Commands
    <2> QED
        BY <2>1 DEF ValidationError
<1>2. error \in CommandErrors
    BY <1>1 DEF PossibleErrors, CommandErrors
<1>3. error = "none" => ValidationError(command) = "none" /\ command.id \in DOMAIN todos
    BY <1>1 DEF PossibleErrors
<1> QED
    BY <1>2, <1>3 DEF ResultOf, CommandResults, Statuses

(* Rolling results back keeps their number, commands and errors, and       *)
(* leaves none of them applied.                                            *)
LEMMA RolledBackType ==
    ASSUME NEW outcomes \in Seq(CommandResults)
    PROVE  /\ RolledBack(outcomes) \in Seq(CommandResults)
           /\ DOMAIN RolledBack(outcomes) = DOMAIN outcomes
           /\ \A i \in DOMAIN outcomes :
                 /\ RolledBack(outcomes)[i].error = outcomes[i].error
                 /\ RolledBack(outcomes)[i].status =
                        IF outcomes[i].status = "applied" THEN "rolled_back"
                        ELSE outcomes[i].status
<1>1. ASSUME NEW i \in DOMAIN outcomes
      PROVE  /\ RolledBack(outcomes)[i] \in CommandResults
             /\ RolledBack(outcomes)[i].error = outcomes[i].error
             /\ RolledBack(outcomes)[i].status =
                    IF outcomes[i].status = "applied" THEN "rolled_back" ELSE outcomes[i].status
    <2>1. outcomes[i] \in CommandResults
        OBVIOUS
    <2> QED
        BY <2>1 DEF RolledBack, CommandResults, Statuses
<1>2. DOMAIN RolledBack(outcomes) = 1..Len(outcomes) /\ Len(outcomes) \in Nat
    BY DEF RolledBack
<1>3. RolledBack(outcomes) \in [1..Len(outcomes) -> CommandResults]
    BY <1>1, <1>2 DEF RolledBack
<1> QED
    BY <1>1, <1>2, <1>3, IsASeq

(* The outcomes of a failed queue: one for each command of the queue.       *)
LEMMA FailedQueueType ==
    ASSUME NEW outcomes \in Seq(CommandResults), NEW queue \in Seq(Commands)
    PROVE  /\ FailedQueue(outcomes, queue) \in Seq(CommandResults)
           /\ Len(FailedQueue(outcomes, queue)) = Len(queue)
<1>1. ASSUME NEW i \in DOMAIN queue
      PROVE  FailedQueue(outcomes, queue)[i] \in CommandResults
    <2>1. CASE i \in DOMAIN outcomes
        BY <2>1, RolledBackType DEF FailedQueue
    <2>2. CASE i \notin DOMAIN outcomes
        <3>1. queue[i] \in Commands
            OBVIOUS
        <3> QED
            BY <2>2, <3>1 DEF FailedQueue, CommandResults, CommandErrors, Statuses
    <2> QED
        BY <2>1, <2>2
<1>2. FailedQueue(outcomes, queue) \in [1..Len(queue) -> CommandResults] /\ Len(queue) \in Nat
    BY <1>1 DEF FailedQueue
<1> QED
    BY <1>2, IsASeq, LenProperties
-----------------------------------------------------------------------------
(* Types. *)

Typed == TypeOK /\ LocalsFit

(* The initial state is well typed. *)
LEMMA InitTyped == Init => Typed
<1> SUFFICES ASSUME Init PROVE Typed
    OBVIOUS
<1>1. disk \in Tables
    BY DEF Init, Tables, NoRows
<1>2. None \in Requests /\ None \in Replies
    BY DEF Requests, Replies
<1>3. TypeOK
    <2> USE DEF Init
    <2>1. conn \in Tables /\ lastRowid \in Nat /\ holder \in Workers \cup {NoWorker}
        BY <1>1
    <2>2. pc \in [Workers -> Places] /\ request \in [Workers -> Requests]
          /\ created \in [Workers -> TodoTask \cup {NoTodo}]
        BY <1>2 DEF Places
    <2>3. reply \in [Workers -> Replies] /\ total \in [Workers -> Nat]
          /\ pending \in [Workers -> SUBSET Handler]
        BY <1>2
    <2>4. /\ commands \in [Workers -> Seq(Commands)]
          /\ results \in [Workers -> Seq(CommandResults)]
          /\ report \in [Workers -> Seq(HandlerResult)]
          /\ known \in [Workers -> Nat]
        OBVIOUS
    <2> QED
        BY <1>1, <2>1, <2>2, <2>3, <2>4 DEF TypeOK
<1>4. LocalsFit
    BY DEF Init, LocalsFit, CreatingTodo, CreatingHandler, GettingPage, HoldingTodo
<1> QED
    BY <1>3, <1>4 DEF Typed

(* A refused statement keeps the types. *)
LEMMA StatementFailsTyped ==
    ASSUME Typed, NEW w \in Workers, StatementFails(w)
    PROVE  Typed'
<1>1. [kind |-> "internal_error", why |-> "storage"] \in Replies
    BY DEF Replies
<1> QED
    BY <1>1 DEF Typed, TypeOK, LocalsFit, StatementFails, Answer, Goto, Places, handling, locals,
       CreatingTodo, CreatingHandler, GettingPage, HoldingTodo

LEMMA ReceiveTodoTyped ==
    ASSUME Typed, NEW w \in Workers, ReceiveTodo(w)
    PROVE  Typed'
<1>1. PICK input \in TodoInputs :
          /\ request' = [request EXCEPT ![w] = [kind |-> "create_todo", input |-> input]]
          /\ IF ValidTodo(input)
             THEN Goto(w, "insert_todo") /\ UNCHANGED reply
             ELSE Answer(w, [kind |-> "rejected"])
    BY DEF ReceiveTodo
<1>2. [kind |-> "rejected"] \in Replies
    BY DEF Replies
<1>3. [kind |-> "create_todo", input |-> input] \in Requests
    BY DEF Requests
<1>4. UNCHANGED <<store, handling, total>>
    BY DEF ReceiveTodo
<1>5. TypeOK'
    BY <1>1, <1>2, <1>3, <1>4 DEF Typed, TypeOK, Answer, Goto, Places, handling, locals, store
<1>6. LocalsFit'
    BY <1>1, <1>4 DEF Typed, TypeOK, LocalsFit, Answer, Goto, Places, handling, locals, store,
       CreatingTodo, CreatingHandler, GettingPage, HoldingTodo
<1> QED
    BY <1>5, <1>6 DEF Typed

LEMMA ReceiveHandlerTyped ==
    ASSUME Typed, NEW w \in Workers, ReceiveHandler(w)
    PROVE  Typed'
<1>1. PICK input \in HandlerInputs :
          /\ request' = [request EXCEPT ![w] = [kind |-> "create_handler", input |-> input]]
          /\ IF input.wellFormed
             THEN Goto(w, "test_script") /\ UNCHANGED reply
             ELSE Answer(w, [kind |-> "rejected"])
    BY DEF ReceiveHandler
<1>2. [kind |-> "rejected"] \in Replies
    BY DEF Replies
<1>3. [kind |-> "create_handler", input |-> input] \in Requests
    BY DEF Requests
<1>4. UNCHANGED <<store, handling, total>>
    BY DEF ReceiveHandler
<1>5. TypeOK'
    BY <1>1, <1>2, <1>3, <1>4 DEF Typed, TypeOK, Answer, Goto, Places, handling, locals, store
<1>6. LocalsFit'
    BY <1>1, <1>4 DEF Typed, TypeOK, LocalsFit, Answer, Goto, Places, handling, locals, store,
       CreatingTodo, CreatingHandler, GettingPage, HoldingTodo
<1> QED
    BY <1>5, <1>6 DEF Typed

LEMMA ReceivePageTyped ==
    ASSUME Typed, NEW w \in Workers, ReceivePage(w)
    PROVE  Typed'
<1>1. PICK input \in PageInputs :
          request' = [request EXCEPT ![w] = [kind |-> "get_page", input |-> input]]
    BY DEF ReceivePage
<1>2. [kind |-> "get_page", input |-> input] \in Requests
    BY DEF Requests
<1>3. Goto(w, "count_todos") /\ UNCHANGED <<store, handling, total, reply>>
    BY DEF ReceivePage
<1>4. TypeOK'
    BY <1>1, <1>2, <1>3 DEF Typed, TypeOK, Goto, Places, handling, locals, store
<1>5. LocalsFit'
    BY <1>1, <1>3 DEF Typed, TypeOK, LocalsFit, Goto, Places, handling, locals, store, CreatingTodo, CreatingHandler,
       GettingPage, HoldingTodo
<1> QED
    BY <1>4, <1>5 DEF Typed

LEMMA ReceiveListTyped ==
    ASSUME Typed, NEW w \in Workers, ReceiveList(w)
    PROVE  Typed'
<1>1. [kind |-> "get_handlers"] \in Requests
    BY DEF Requests
<1> QED
    BY <1>1 DEF Typed, TypeOK, LocalsFit, ReceiveList, Goto, Places, handling, locals, store, CreatingTodo, CreatingHandler,
       GettingPage, HoldingTodo

LEMMA DeliverTyped ==
    ASSUME Typed, NEW w \in Workers, Deliver(w)
    PROVE  Typed'
<1>1. None \in Requests /\ None \in Replies
    BY DEF Requests, Replies
<1>2. <<>> \in Seq(Commands) /\ <<>> \in Seq(CommandResults) /\ <<>> \in Seq(HandlerResult)
    OBVIOUS
<1>3. TypeOK'
    BY <1>1, <1>2 DEF Typed, TypeOK, Deliver, Goto, Places, store
<1>4. LocalsFit'
    BY DEF Typed, TypeOK, LocalsFit, Deliver, Goto, Places, CreatingTodo, CreatingHandler,
       GettingPage, HoldingTodo
<1> QED
    BY <1>3, <1>4 DEF Typed

(* The row of a valid input is a row of the table. *)
LEMMA InsertTodoTyped ==
    ASSUME Typed, NEW w \in Workers, InsertTodo(w)
    PROVE  Typed'
<1> DEFINE input == request[w].input
           row == [title |-> input.title, priority |-> input.priority,
                   completed |-> input.completed]
<1>1. CASE StatementFails(w)
    BY <1>1, StatementFailsTyped
<1>2. CASE /\ Write(WithTodo(conn, input))
           /\ lastRowid' = Len(conn.todos) + 1
           /\ holder' = w
           /\ Goto(w, "read_todo_rowid")
           /\ known' = [known EXCEPT ![w] = Len(conn.scripts)]
           /\ UNCHANGED <<inTxn, request, locals, total, reply>>
    <2>1. input \in TodoInput /\ ValidTodo(input)
        BY DataAssumption DEF InsertTodo, Typed, LocalsFit, CreatingTodo
    <2>2. row \in TodoRow
        BY <2>1 DEF ValidTodo, TodoInput, TodoRow
    <2> HIDE DEF row
    <2>3. conn.todos \in Seq(TodoRow) /\ Append(conn.todos, row) \in Seq(TodoRow)
        BY <2>2 DEF Typed, TypeOK, Tables
    <2>4. conn' \in Tables /\ disk' \in Tables
        BY <1>2, <2>3 DEF Typed, TypeOK, Tables, Write, WithTodo, row
    <2>5. TypeOK'
        <3>1. Len(conn.scripts) \in Nat
            BY DEF Typed, TypeOK, Tables
        <3> QED
            BY <1>2, <2>3, <2>4, <3>1 DEF Typed, TypeOK, Goto, Places, locals
    <2>6. LocalsFit'
        BY <1>2 DEF InsertTodo, Typed, TypeOK, LocalsFit, Goto, Places, handling, locals, CreatingTodo, CreatingHandler,
       GettingPage, HoldingTodo
    <2> QED
        BY <2>5, <2>6 DEF Typed
<1> QED
    BY <1>1, <1>2 DEF InsertTodo

LEMMA ReadTodoRowidTyped ==
    ASSUME Typed, NEW w \in Workers, ReadTodoRowid(w)
    PROVE  Typed'
<1> DEFINE input == request[w].input
           todo == [id |-> lastRowid, title |-> input.title,
                    priority |-> input.priority, completed |-> input.completed]
<1>1. input \in TodoInput /\ ValidTodo(input)
    BY DataAssumption DEF ReadTodoRowid, Typed, LocalsFit, CreatingTodo
<1>2. todo \in TodoTask
    BY <1>1 DEF Typed, TypeOK, ValidTodo, TodoInput, TodoTask
<1>3. created' = [created EXCEPT ![w] = todo]
    BY DEF ReadTodoRowid, SnapshotOf
<1> HIDE DEF todo
<1>4. TypeOK'
    BY <1>2, <1>3 DEF ReadTodoRowid, Typed, TypeOK, Goto, Places
<1>5. LocalsFit'
    BY <1>2, <1>3 DEF ReadTodoRowid, Typed, TypeOK, LocalsFit, Goto, Places, CreatingTodo, CreatingHandler,
       GettingPage, HoldingTodo
<1> QED
    BY <1>4, <1>5 DEF Typed

LEMMA HandlersForType ==
    ASSUME NEW tables \in Tables, NEW event
    PROVE  HandlersFor(tables, event) \subseteq Handler
<1>1. tables.scripts \in Seq(HandlerRow)
    BY DEF Tables
<1>2. ASSUME NEW i \in DOMAIN tables.scripts
      PROVE  [id |-> i, script |-> tables.scripts[i].script] \in Handler
    <2>1. tables.scripts[i] \in HandlerRow /\ i \in Nat
        BY <1>1
    <2> QED
        BY <2>1 DEF HandlerRow, Handler
<1> QED
    BY <1>2 DEF HandlersFor

LEMMA FindHandlersTyped ==
    ASSUME Typed, NEW w \in Workers, FindHandlers(w)
    PROVE  Typed'
<1>1. CASE StatementFails(w)
    BY <1>1, StatementFailsTyped
<1>2. CASE /\ pending' = [pending EXCEPT ![w] = HandlersFor(conn, "ADDED_TODO")]
           /\ Goto(w, "run_handlers")
           /\ UNCHANGED <<store, request, created, commands, results, report, known, total, reply>>
    <2>1. HandlersFor(conn, "ADDED_TODO") \subseteq Handler
        BY HandlersForType DEF Typed, TypeOK
    <2>2. TypeOK'
        BY <1>2, <2>1 DEF Typed, TypeOK, Goto, Places, store
    <2>3. LocalsFit'
        BY <1>2 DEF FindHandlers, Typed, TypeOK, LocalsFit, Goto, Places, store, CreatingTodo, CreatingHandler,
       GettingPage, HoldingTodo
    <2> QED
        BY <2>2, <2>3 DEF Typed
<1> QED
    BY <1>1, <1>2 DEF FindHandlers

HandlerStatuses == {"success", "script_error", "limit_exceeded", "command_error"}

LEMMA ConcludeTyped ==
    ASSUME Typed, NEW w \in Workers, NEW h, NEW status \in HandlerStatuses,
           NEW outcome \in Seq(CommandResults), NEW storageError \in BOOLEAN,
           h \in pending[w], Conclude(w, h, status, outcome, storageError)
    PROVE  /\ report' \in [Workers -> Seq(HandlerResult)]
           /\ pending' \in [Workers -> SUBSET Handler]
           /\ pc' \in [Workers -> Places]
<1> DEFINE entry == [id |-> h.id, status |-> status, commandResults |-> outcome,
                     storageError |-> storageError]
<1>1. pending[w] \subseteq Handler /\ report[w] \in Seq(HandlerResult)
    BY DEF Typed, TypeOK
<1>2. entry \in HandlerResult
    BY <1>1 DEF Handler, HandlerResult, HandlerStatuses
<1>3. report' = [report EXCEPT ![w] = Append(report[w], entry)]
    BY DEF Conclude, HandlerResultOf
<1> HIDE DEF entry
<1>4. Append(report[w], entry) \in Seq(HandlerResult)
    BY <1>1, <1>2
<1> QED
    BY <1>1, <1>3, <1>4 DEF Conclude, Goto, Typed, TypeOK, Places

LEMMA RunScriptTyped ==
    ASSUME Typed, NEW w \in Workers, RunScript(w)
    PROVE  Typed'
<1>1. PICK h \in pending[w] :
          \/ /\ "ok" \in h.script.endings
             /\ commands' = [commands EXCEPT ![w] = QueuedBy(h.script, created[w])]
             /\ results' = [results EXCEPT ![w] = <<>>]
             /\ Goto(w, "begin")
             /\ UNCHANGED <<pending, report>>
          \/ \E ending \in h.script.endings \ {"ok"} :
             /\ Conclude(w, h, ending, <<>>, FALSE)
             /\ UNCHANGED <<commands, results>>
    BY DEF RunScript, ScriptSees
<1>2. pc[w] = "run_handlers" /\ UNCHANGED <<store, request, created, known, total, reply>>
    BY DEF RunScript
<1>3. h \in Handler /\ h.script \in Scripts /\ h.script.endings \subseteq Endings
    BY DEF Typed, TypeOK, Handler, Scripts
<1>4. CASE /\ commands' = [commands EXCEPT ![w] = QueuedBy(h.script, created[w])]
           /\ results' = [results EXCEPT ![w] = <<>>]
           /\ Goto(w, "begin")
           /\ UNCHANGED <<pending, report>>
    <2>1. created[w] \in TodoTask
        BY <1>2 DEF Typed, LocalsFit, HoldingTodo
    <2>2. created[w].id \in Int /\ created[w].priority \in Int
        BY <2>1, IntMaxAssumption DEF TodoTask, UIntMax
    <2>3. QueuedBy(h.script, created[w]) \in Seq(Commands)
        BY <1>3, <2>2, QueuedByType
    <2>4. <<>> \in Seq(CommandResults)
        OBVIOUS
    <2>5. TypeOK'
        BY <1>2, <1>4, <2>3, <2>4 DEF Typed, TypeOK, Goto, Places, store
    <2>6. LocalsFit'
        BY <1>2, <1>4 DEF Typed, TypeOK, LocalsFit, Goto, Places, store, CreatingTodo, CreatingHandler,
       GettingPage, HoldingTodo
    <2> QED
        BY <2>5, <2>6 DEF Typed
<1>5. ASSUME NEW ending \in h.script.endings \ {"ok"},
             Conclude(w, h, ending, <<>>, FALSE), UNCHANGED <<commands, results>>
      PROVE  Typed'
    <2>1. ending \in HandlerStatuses /\ <<>> \in Seq(CommandResults)
        BY <1>3 DEF Endings, HandlerStatuses
    <2>2. /\ report' \in [Workers -> Seq(HandlerResult)]
          /\ pending' \in [Workers -> SUBSET Handler]
          /\ pc' \in [Workers -> Places]
        BY <1>5, <2>1, ConcludeTyped
    <2>3. TypeOK'
        BY <1>2, <1>5, <2>2 DEF Typed, TypeOK, store
    <2>4. LocalsFit'
        BY <1>2, <1>5 DEF Typed, TypeOK, LocalsFit, Conclude, Goto, Places, store, CreatingTodo, CreatingHandler,
       GettingPage, HoldingTodo
    <2> QED
        BY <2>3, <2>4 DEF Typed
<1> QED
    BY <1>1, <1>4, <1>5

LEMMA BeginTransactionTyped ==
    ASSUME Typed, NEW w \in Workers, BeginTransaction(w)
    PROVE  Typed'
<1>1. /\ pc[w] = "begin"
      /\ UNCHANGED <<disk, conn, lastRowid, request, created, commands, results, known, total, reply>>
    BY DEF BeginTransaction
<1>2. CASE holder' = w /\ inTxn' = TRUE /\ Goto(w, "commands") /\ UNCHANGED <<pending, report>>
    <2>1. TypeOK'
        BY <1>1, <1>2 DEF Typed, TypeOK, Goto, Places
    <2>2. LocalsFit'
        BY <1>1, <1>2 DEF Typed, TypeOK, LocalsFit, Goto, Places, CreatingTodo, CreatingHandler,
       GettingPage, HoldingTodo
    <2> QED
        BY <2>1, <2>2 DEF Typed
<1>3. ASSUME NEW h \in pending[w], Conclude(w, h, "command_error", <<>>, TRUE),
             UNCHANGED <<holder, inTxn>>
      PROVE  Typed'
    <2>1. "command_error" \in HandlerStatuses /\ <<>> \in Seq(CommandResults)
        BY DEF HandlerStatuses
    <2>2. /\ report' \in [Workers -> Seq(HandlerResult)]
          /\ pending' \in [Workers -> SUBSET Handler]
          /\ pc' \in [Workers -> Places]
        BY <1>3, <2>1, ConcludeTyped
    <2>3. TypeOK'
        BY <1>1, <1>3, <2>2 DEF Typed, TypeOK
    <2>4. LocalsFit'
        BY <1>1, <1>3 DEF Typed, TypeOK, LocalsFit, Conclude, Goto, Places, CreatingTodo, CreatingHandler,
       GettingPage, HoldingTodo
    <2> QED
        BY <2>3, <2>4 DEF Typed
<1> QED
    BY <1>2, <1>3 DEF BeginTransaction, NextHandler, First

LEMMA RunCommandTyped ==
    ASSUME Typed, NEW w \in Workers, RunCommand(w)
    PROVE  Typed'
<1> DEFINE command == NextCommand(w)
<1>1. /\ pc[w] = "commands" /\ Len(results[w]) < Len(commands[w])
      /\ UNCHANGED <<holder, inTxn, lastRowid, request, created, pending, commands,
                     report, known, total, reply>>
    BY DEF RunCommand
<1>2. PICK error \in PossibleErrors(conn.todos, command, StorageFaults) :
          LET tried == Append(results[w], ResultOf(command, error))
          IN  \/ /\ error = "none"
                 /\ Write([conn EXCEPT !.todos = Updated(@, command)])
                 /\ results' = [results EXCEPT ![w] = tried]
                 /\ UNCHANGED pc
              \/ /\ error # "none"
                 /\ results' = [results EXCEPT ![w] = FailedQueue(tried, commands[w])]
                 /\ Goto(w, "rollback")
                 /\ UNCHANGED <<disk, conn>>
    BY DEF RunCommand
<1>3. results[w] \in Seq(CommandResults) /\ commands[w] \in Seq(Commands)
    BY DEF Typed, TypeOK
<1>4. command \in Commands
    BY <1>1, <1>3 DEF NextCommand
<1>5. /\ ResultOf(command, error) \in CommandResults
      /\ error = "none" => ValidationError(command) = "none" /\ command.id \in DOMAIN conn.todos
    BY <1>2, <1>4, ResultOfType, DataAssumption
<1> DEFINE tried == Append(results[w], ResultOf(command, error))
<1>6. tried \in Seq(CommandResults) /\ Len(tried) = Len(results[w]) + 1
    BY <1>3, <1>5
<1> HIDE DEF tried, command
<1>7. CASE /\ error = "none"
           /\ Write([conn EXCEPT !.todos = Updated(@, command)])
           /\ results' = [results EXCEPT ![w] = tried]
           /\ UNCHANGED pc
    <2>1. conn.todos \in Seq(Rows(Titles, 0..UIntMax)) /\ TodoRow = Rows(Titles, 0..UIntMax)
        BY DEF Typed, TypeOK, Tables, TodoRow, Rows
    <2>2. Updated(conn.todos, command) \in Seq(TodoRow)
        BY <1>4, <1>5, <1>7, <2>1, UpdatedType
    <2>3. conn' \in Tables /\ disk' \in Tables
        BY <1>7, <2>2 DEF Typed, TypeOK, Tables, Write
    <2>4. TypeOK'
        BY <1>1, <1>6, <1>7, <2>3 DEF Typed, TypeOK
    <2>5. LocalsFit'
        BY <1>1, <1>3, <1>6, <1>7 DEF Typed, TypeOK, LocalsFit, CreatingTodo, CreatingHandler,
       GettingPage, HoldingTodo
    <2> QED
        BY <2>4, <2>5 DEF Typed
<1>8. CASE /\ results' = [results EXCEPT ![w] = FailedQueue(tried, commands[w])]
           /\ Goto(w, "rollback")
           /\ UNCHANGED <<disk, conn>>
    <2>1. FailedQueue(tried, commands[w]) \in Seq(CommandResults)
        BY <1>3, <1>6, FailedQueueType
    <2>2. TypeOK'
        BY <1>1, <1>8, <2>1 DEF Typed, TypeOK, Goto, Places
    <2>3. LocalsFit'
        BY <1>1, <1>8 DEF Typed, TypeOK, LocalsFit, Goto, Places, CreatingTodo, CreatingHandler,
       GettingPage, HoldingTodo
    <2> QED
        BY <2>2, <2>3 DEF Typed
<1> QED
    BY <1>2, <1>7, <1>8 DEF tried

LEMMA RollbackTyped ==
    ASSUME Typed, NEW w \in Workers, Rollback(w)
    PROVE  Typed'
<1>1. /\ pc[w] = "rollback" /\ UndoChanges /\ EndTransaction
      /\ UNCHANGED <<disk, lastRowid, request, created, commands, results, known, total, reply>>
    BY DEF Rollback
<1>2. PICK h \in pending[w] : Conclude(w, h, "command_error", results[w], FALSE)
    BY DEF Rollback
<1>3. "command_error" \in HandlerStatuses /\ results[w] \in Seq(CommandResults)
    BY DEF HandlerStatuses, Typed, TypeOK
<1>4. /\ report' \in [Workers -> Seq(HandlerResult)]
      /\ pending' \in [Workers -> SUBSET Handler]
      /\ pc' \in [Workers -> Places]
    BY <1>2, <1>3, ConcludeTyped
<1>5. TypeOK'
    BY <1>1, <1>4 DEF Typed, TypeOK, UndoChanges, EndTransaction
<1>6. LocalsFit'
    BY <1>1, <1>2 DEF Typed, TypeOK, LocalsFit, Conclude, Goto, Places, CreatingTodo, CreatingHandler,
       GettingPage, HoldingTodo
<1> QED
    BY <1>5, <1>6 DEF Typed

LEMMA CommitTyped ==
    ASSUME Typed, NEW w \in Workers, Commit(w)
    PROVE  Typed'
<1>1. /\ pc[w] = "commands" /\ EndTransaction
      /\ UNCHANGED <<lastRowid, request, created, commands, results, known, total, reply>>
    BY DEF Commit
<1>2. PICK h \in pending[w] :
          \/ disk' = conn /\ Conclude(w, h, "success", results[w], FALSE) /\ UNCHANGED conn
          \/ /\ UndoChanges /\ UNCHANGED disk
             /\ Conclude(w, h, "command_error", RolledBack(results[w]), TRUE)
    BY DEF Commit
<1>3. /\ {"command_error", "success"} \subseteq HandlerStatuses
      /\ results[w] \in Seq(CommandResults)
    BY DEF HandlerStatuses, Typed, TypeOK
<1>4. RolledBack(results[w]) \in Seq(CommandResults)
    BY <1>3, RolledBackType
<1>5. /\ report' \in [Workers -> Seq(HandlerResult)]
      /\ pending' \in [Workers -> SUBSET Handler]
      /\ pc' \in [Workers -> Places]
    <2>1. CASE Conclude(w, h, "success", results[w], FALSE)
        BY <1>3, <2>1, ConcludeTyped
    <2>2. CASE Conclude(w, h, "command_error", RolledBack(results[w]), TRUE)
        BY <1>3, <1>4, <2>2, ConcludeTyped
    <2> QED
        BY <1>2, <2>1, <2>2
<1>6. TypeOK'
    BY <1>1, <1>2, <1>5 DEF Typed, TypeOK, UndoChanges, EndTransaction
<1>7. LocalsFit'
    BY <1>1, <1>2 DEF Typed, TypeOK, LocalsFit, Conclude, Goto, Places, CreatingTodo, CreatingHandler,
       GettingPage, HoldingTodo
<1> QED
    BY <1>6, <1>7 DEF Typed

(* A todo read from well typed tables. *)
LEMMA TodoTaskOfType ==
    ASSUME NEW tables \in Tables, NEW id \in DOMAIN tables.todos
    PROVE  TodoTaskOf(tables, id) \in TodoTask
<1>1. tables.todos \in Seq(TodoRow) /\ tables.todos[id] \in TodoRow /\ id \in Nat
    BY DEF Tables
<1> QED
    BY <1>1 DEF TodoTaskOf, TodoRow, TodoTask

(* An answer of the right type that leaves the store typed. *)
LEMMA AnswerTyped ==
    ASSUME Typed, NEW w \in Workers, NEW response \in Replies, Answer(w, response),
           holder' \in Workers \cup {NoWorker},
           UNCHANGED <<disk, conn, inTxn, lastRowid, request, handling, total>>
    PROVE  Typed'
BY DEF Typed, TypeOK, LocalsFit, Answer, Goto, Places, handling, locals, CreatingTodo, CreatingHandler,
       GettingPage, HoldingTodo

LEMMA ReadBackTyped ==
    ASSUME Typed, NEW w \in Workers, ReadBack(w)
    PROVE  Typed'
<1> DEFINE response == IF created[w].id \in DOMAIN conn.todos
                       THEN [kind |-> "todo_created", todo |-> TodoTaskOf(conn, created[w].id),
                             handlers |-> report[w]]
                       ELSE [kind |-> "internal_error", why |-> "disappeared"]
<1>1. CASE StatementFails(w)
    BY <1>1, StatementFailsTyped
<1>2. CASE Answer(w, response) /\ UNCHANGED <<store, request, handling, total>>
    <2>1. created[w].id \in DOMAIN conn.todos => TodoTaskOf(conn, created[w].id) \in TodoTask
        BY TodoTaskOfType DEF Typed, TypeOK
    <2>2. report[w] \in Seq(HandlerResult)
        BY DEF Typed, TypeOK
    <2>3. response \in Replies
        BY <2>1, <2>2 DEF Replies
    <2> HIDE DEF response
    <2>4. /\ holder' \in Workers \cup {NoWorker}
          /\ UNCHANGED <<disk, conn, inTxn, lastRowid, request, handling, total>>
        BY <1>2 DEF store, Typed, TypeOK
    <2> QED
        BY <1>2, <2>3, <2>4, AnswerTyped
<1> QED
    BY <1>1, <1>2 DEF ReadBack

LEMMA TestScriptTyped ==
    ASSUME Typed, NEW w \in Workers, TestScript(w)
    PROVE  Typed'
<1>1. pc[w] = "test_script" /\ UNCHANGED <<store, request, handling, total>>
    BY DEF TestScript
<1>2. [kind |-> "script_rejected"] \in Replies
    BY DEF Replies
<1>3. \/ Goto(w, "insert_handler") /\ UNCHANGED reply
      \/ Answer(w, [kind |-> "script_rejected"])
    BY DEF TestScript
<1>4. CASE Goto(w, "insert_handler") /\ UNCHANGED reply
    BY <1>1, <1>4 DEF Typed, TypeOK, LocalsFit, Goto, Places, store, handling, locals, CreatingTodo, CreatingHandler,
       GettingPage, HoldingTodo
<1>5. CASE Answer(w, [kind |-> "script_rejected"])
    <2>1. /\ holder' \in Workers \cup {NoWorker}
          /\ UNCHANGED <<disk, conn, inTxn, lastRowid, request, handling, total>>
        BY <1>1 DEF store, Typed, TypeOK
    <2> QED
        BY <1>2, <1>5, <2>1, AnswerTyped
<1> QED
    BY <1>3, <1>4, <1>5

LEMMA InsertHandlerTyped ==
    ASSUME Typed, NEW w \in Workers, InsertHandler(w)
    PROVE  Typed'
<1> DEFINE input == request[w].input
           row == [script |-> input.script, event |-> input.event, enabled |-> input.enabled]
<1>1. CASE StatementFails(w)
    BY <1>1, StatementFailsTyped
<1>2. CASE /\ Write(WithHandler(conn, input))
           /\ lastRowid' = Len(conn.scripts) + 1
           /\ holder' = w
           /\ Goto(w, "read_handler_rowid")
           /\ UNCHANGED <<inTxn, request, handling, total, reply>>
    <2>1. input \in HandlerInput
        BY DataAssumption DEF InsertHandler, Typed, LocalsFit, CreatingHandler
    <2>2. row \in HandlerRow
        BY <2>1 DEF HandlerInput, HandlerRow
    <2> HIDE DEF row
    <2>3. conn.scripts \in Seq(HandlerRow) /\ Append(conn.scripts, row) \in Seq(HandlerRow)
        BY <2>2 DEF Typed, TypeOK, Tables
    <2>4. conn' \in Tables /\ disk' \in Tables
        BY <1>2, <2>3 DEF Typed, TypeOK, Tables, Write, WithHandler, row
    <2>5. TypeOK'
        BY <1>2, <2>3, <2>4 DEF Typed, TypeOK, Goto, Places, handling, locals
    <2>6. LocalsFit'
        BY <1>2 DEF InsertHandler, Typed, TypeOK, LocalsFit, Goto, Places, handling, locals, CreatingTodo, CreatingHandler,
       GettingPage, HoldingTodo
    <2> QED
        BY <2>5, <2>6 DEF Typed
<1> QED
    BY <1>1, <1>2 DEF InsertHandler

LEMMA ReadHandlerRowidTyped ==
    ASSUME Typed, NEW w \in Workers, ReadHandlerRowid(w)
    PROVE  Typed'
<1>1. [kind |-> "handler_created", id |-> lastRowid] \in Replies
    BY DEF Typed, TypeOK, Replies
<1> QED
    BY <1>1, AnswerTyped DEF ReadHandlerRowid

LEMMA ListHandlersTyped ==
    ASSUME Typed, NEW w \in Workers, ListHandlers(w)
    PROVE  Typed'
<1>1. CASE StatementFails(w)
    BY <1>1, StatementFailsTyped
<1>2. CASE /\ Answer(w, [kind |-> "handlers", scripts |-> conn.scripts])
           /\ UNCHANGED <<store, request, handling, total>>
    <2>1. [kind |-> "handlers", scripts |-> conn.scripts] \in Replies
        BY DEF Typed, TypeOK, Tables, Replies
    <2>2. /\ holder' \in Workers \cup {NoWorker}
          /\ UNCHANGED <<disk, conn, inTxn, lastRowid, request, handling, total>>
        BY <1>2 DEF store, Typed, TypeOK
    <2> QED
        BY <1>2, <2>1, <2>2, AnswerTyped
<1> QED
    BY <1>1, <1>2 DEF ListHandlers

LEMMA CountTodosTyped ==
    ASSUME Typed, NEW w \in Workers, CountTodos(w)
    PROVE  Typed'
<1>1. CASE StatementFails(w)
    BY <1>1, StatementFailsTyped
<1>2. CASE /\ total' = [total EXCEPT ![w] = Len(conn.todos)]
           /\ holder' = w
           /\ Goto(w, "read_page")
           /\ UNCHANGED <<disk, conn, inTxn, lastRowid, request, handling, reply>>
    <2>1. Len(conn.todos) \in Nat
        BY DEF Typed, TypeOK, Tables
    <2>2. TypeOK'
        BY <1>2, <2>1 DEF Typed, TypeOK, Goto, Places, handling, locals
    <2>3. LocalsFit'
        BY <1>2 DEF CountTodos, Typed, TypeOK, LocalsFit, Goto, Places, handling, locals, CreatingTodo, CreatingHandler,
       GettingPage, HoldingTodo
    <2> QED
        BY <2>2, <2>3 DEF Typed
<1> QED
    BY <1>1, <1>2 DEF CountTodos

(* A page holds min(limit, what is left) rows, all of them in the table.   *)
LEMMA PageOfType ==
    ASSUME NEW tables \in Tables, NEW offset \in Nat, NEW limit \in Nat
    PROVE  PageOf(tables, offset, limit) \in Seq(TodoTask)
<1> DEFINE rows == Len(tables.todos)
           left == IF offset < rows THEN rows - offset ELSE 0
           size == IF limit < left THEN limit ELSE left
<1>1. rows \in Nat /\ DOMAIN tables.todos = 1..rows
    BY DEF Tables
<1>2. left \in Nat /\ left <= rows
    BY <1>1
<1> HIDE DEF rows, left
<1>3. size \in Nat /\ size <= left
    BY <1>2
<1> HIDE DEF size
<1>4. ASSUME NEW i \in 1..size
      PROVE  TodoTaskOf(tables, left - i + 1) \in TodoTask
    BY <1>1, <1>2, <1>3, TodoTaskOfType
<1>5. PageOf(tables, offset, limit) = [i \in 1..size |-> TodoTaskOf(tables, left - i + 1)]
    BY DEF PageOf, size, left, rows
<1> QED
    BY <1>3, <1>4, <1>5, IsASeq

LEMMA ReadPageTyped ==
    ASSUME Typed, NEW w \in Workers, ReadPage(w)
    PROVE  Typed'
<1> DEFINE input == request[w].input
           page == PageOf(conn, input.offset, input.limit)
<1>1. CASE StatementFails(w)
    BY <1>1, StatementFailsTyped
<1>2. CASE /\ Answer(w, [kind |-> "page", total |-> total[w], items |-> page])
           /\ holder' = NoWorker
           /\ UNCHANGED <<disk, conn, inTxn, lastRowid, request, handling, total>>
    <2>1. input \in PageInput
        BY DataAssumption DEF ReadPage, Typed, LocalsFit, GettingPage
    <2>2. page \in Seq(TodoTask)
        BY <2>1, PageOfType DEF PageInput, Typed, TypeOK
    <2> HIDE DEF page
    <2>3. [kind |-> "page", total |-> total[w], items |-> page] \in Replies
        BY <2>2 DEF Typed, TypeOK, Replies
    <2> QED
        BY <1>2, <2>3, AnswerTyped
<1> QED
    BY <1>1, <1>2 DEF ReadPage

LEMMA CrashTyped ==
    ASSUME Typed, Crash
    PROVE  Typed'
<1>1. None \in Requests /\ None \in Replies
    BY DEF Requests, Replies
<1>2. <<>> \in Seq(Commands) /\ <<>> \in Seq(CommandResults) /\ <<>> \in Seq(HandlerResult)
    OBVIOUS
<1>3. TypeOK'
    BY <1>1, <1>2 DEF Typed, TypeOK, Crash, Places
<1>4. LocalsFit'
    BY DEF LocalsFit, Crash, CreatingTodo, CreatingHandler,
       GettingPage, HoldingTodo
<1> QED
    BY <1>3, <1>4 DEF Typed

LEMMA NextTyped ==
    ASSUME Typed, [Next]_vars
    PROVE  Typed'
<1>1. CASE UNCHANGED vars
    BY <1>1 DEF vars, store, handling, locals, Typed, TypeOK, LocalsFit
<1>2. CASE Crash
    BY <1>2, CrashTyped
<1>3. ASSUME NEW w \in Workers, Receive(w)
      PROVE  Typed'
    BY <1>3, ReceiveTodoTyped, ReceiveHandlerTyped, ReceivePageTyped, ReceiveListTyped
       DEF Receive
<1>4. ASSUME NEW w \in Workers, Work(w)
      PROVE  Typed'
    BY <1>4, InsertTodoTyped, ReadTodoRowidTyped, FindHandlersTyped, RunScriptTyped,
       BeginTransactionTyped, RunCommandTyped, RollbackTyped, CommitTyped, ReadBackTyped,
       TestScriptTyped, InsertHandlerTyped, ReadHandlerRowidTyped, ListHandlersTyped,
       CountTodosTyped, ReadPageTyped, DeliverTyped
       DEF Work
<1> QED
    BY <1>1, <1>2, <1>3, <1>4 DEF Next

(* Type correctness: whatever the scripts pass to set_priority, the store  *)
(* only ever holds priorities that fit std::uint32_t.                      *)
THEOREM TypeCorrect == Spec => []TypeOK
<1>1. Typed => TypeOK
    BY DEF Typed
<1> QED
    BY <1>1, InitTyped, NextTyped, PTL DEF Spec
-----------------------------------------------------------------------------
(* The mutex and the transaction. *)

LEMMA InitMutex == Init => MutexDiscipline
BY ServerAssumption DEF Init, MutexDiscipline, InMutex, InTransaction

(* A worker moves between two places outside the mutex. *)
LEMMA OutsideMutex ==
    ASSUME Typed, MutexDiscipline, NEW w \in Workers, NEW place,
           pc[w] \notin InMutex, place \notin InMutex, Goto(w, place), UNCHANGED <<holder, inTxn>>
    PROVE  MutexDiscipline'
BY DEF Goto, MutexDiscipline, InMutex, InTransaction, Typed, TypeOK

(* A worker leaves a critical section that has no transaction.             *)
LEMMA LeavesMutex ==
    ASSUME Typed, MutexDiscipline, NEW w \in Workers, NEW place,
           pc[w] \in InMutex \ InTransaction, place \notin InMutex, Goto(w, place),
           holder' = NoWorker, UNCHANGED inTxn
    PROVE  MutexDiscipline'
BY ServerAssumption DEF Goto, MutexDiscipline, InMutex, InTransaction, Typed, TypeOK

(* A worker takes the free mutex and opens no transaction.                 *)
LEMMA EntersMutex ==
    ASSUME Typed, MutexDiscipline, NEW w \in Workers, NEW place, MutexFree,
           place \in InMutex \ InTransaction, Goto(w, place), holder' = w, UNCHANGED inTxn
    PROVE  MutexDiscipline'
BY ServerAssumption DEF Goto, MutexFree, MutexDiscipline, InMutex, InTransaction, Typed, TypeOK

(* The worker in the transaction ends it.                                  *)
LEMMA EndsTransaction ==
    ASSUME Typed, MutexDiscipline, NEW w \in Workers, NEW place,
           pc[w] \in InTransaction, place \notin InMutex, Goto(w, place), EndTransaction
    PROVE  MutexDiscipline'
<1>1. holder = w /\ \A v \in Workers : v # w => pc[v] \notin InMutex
    BY DEF MutexDiscipline, InMutex, InTransaction, Typed, TypeOK
<1> QED
    BY <1>1, ServerAssumption DEF Goto, EndTransaction, MutexDiscipline, InMutex, InTransaction, Typed, TypeOK

(* A refused statement, whether it was the first of its critical section   *)
(* or a later one.                                                         *)
LEMMA StatementFailsMutex ==
    ASSUME Typed, MutexDiscipline, NEW w \in Workers, StatementFails(w),
           MutexFree \/ pc[w] = "read_page"
    PROVE  MutexDiscipline'
<1>1. Goto(w, "answered") /\ holder' = NoWorker /\ UNCHANGED inTxn
    BY DEF StatementFails, Answer
<1>2. CASE pc[w] = "read_page"
    BY <1>1, <1>2, LeavesMutex DEF InMutex, InTransaction
<1>3. CASE MutexFree
    <2>1. holder' = holder /\ pc[w] \notin InMutex
        BY <1>1, <1>3, ServerAssumption DEF MutexFree, MutexDiscipline
    <2> QED
        BY <1>1, <2>1, OutsideMutex DEF InMutex
<1> QED
    BY <1>2, <1>3

LEMMA WorkMutex ==
    ASSUME Typed, MutexDiscipline, NEW w \in Workers, Work(w)
    PROVE  MutexDiscipline'
<1>1. CASE InsertTodo(w)
    BY <1>1, StatementFailsMutex, EntersMutex DEF InsertTodo, InMutex, InTransaction
<1>2. CASE ReadTodoRowid(w)
    BY <1>2, LeavesMutex DEF ReadTodoRowid, InMutex, InTransaction
<1>3. CASE FindHandlers(w)
    BY <1>3, StatementFailsMutex, OutsideMutex DEF FindHandlers, store, InMutex
<1>4. CASE RunScript(w)
    BY <1>4, OutsideMutex DEF RunScript, Conclude, store, InMutex
<1>5. CASE BeginTransaction(w)
    <2>1. CASE holder' = w /\ inTxn' = TRUE /\ Goto(w, "commands")
        BY <1>5, <2>1, ServerAssumption DEF BeginTransaction, MutexFree, Goto, MutexDiscipline, InMutex, InTransaction, Typed, TypeOK
    <2>2. CASE Goto(w, "run_handlers") /\ UNCHANGED <<holder, inTxn>>
        BY <1>5, <2>2, OutsideMutex DEF BeginTransaction, InMutex
    <2> QED
        BY <1>5, <2>1, <2>2 DEF BeginTransaction, Conclude
<1>6. CASE RunCommand(w)
    BY <1>6 DEF RunCommand, Goto, MutexDiscipline, InMutex, InTransaction, Typed, TypeOK
<1>7. CASE Rollback(w)
    BY <1>7, EndsTransaction DEF Rollback, Conclude, InMutex, InTransaction
<1>8. CASE Commit(w)
    <2>1. Goto(w, "run_handlers") /\ EndTransaction /\ pc[w] = "commands"
        BY <1>8 DEF Commit, Conclude
    <2> QED
        BY <2>1, EndsTransaction DEF InMutex, InTransaction
<1>9. CASE ReadBack(w)
    BY <1>9, StatementFailsMutex, OutsideMutex DEF ReadBack, Answer, store, InMutex
<1>10. CASE TestScript(w)
    BY <1>10, OutsideMutex DEF TestScript, Answer, store, InMutex
<1>11. CASE InsertHandler(w)
    BY <1>11, StatementFailsMutex, EntersMutex DEF InsertHandler, InMutex, InTransaction
<1>12. CASE ReadHandlerRowid(w)
    BY <1>12, LeavesMutex DEF ReadHandlerRowid, Answer, InMutex, InTransaction
<1>13. CASE ListHandlers(w)
    BY <1>13, StatementFailsMutex, OutsideMutex DEF ListHandlers, Answer, store, InMutex
<1>14. CASE CountTodos(w)
    BY <1>14, StatementFailsMutex, EntersMutex DEF CountTodos, InMutex, InTransaction
<1>15. CASE ReadPage(w)
    BY <1>15, StatementFailsMutex, LeavesMutex DEF ReadPage, Answer, InMutex, InTransaction
<1>16. CASE Deliver(w)
    BY <1>16, OutsideMutex DEF Deliver, store, InMutex
<1> QED
    BY <1>1, <1>2, <1>3, <1>4, <1>5, <1>6, <1>7, <1>8, <1>9, <1>10, <1>11, <1>12, <1>13,
       <1>14, <1>15, <1>16 DEF Work

LEMMA NextMutex ==
    ASSUME Typed, MutexDiscipline, [Next]_vars
    PROVE  MutexDiscipline'
<1>1. CASE UNCHANGED vars
    BY <1>1 DEF vars, store, MutexDiscipline
<1>2. CASE Crash
    BY <1>2, ServerAssumption DEF Crash, MutexDiscipline, InMutex, InTransaction
<1>3. ASSUME NEW w \in Workers, Receive(w)
      PROVE  MutexDiscipline'
    BY <1>3, OutsideMutex
       DEF Receive, ReceiveTodo, ReceiveHandler, ReceivePage, ReceiveList, Answer, store, InMutex
<1> QED
    BY <1>1, <1>2, <1>3, WorkMutex DEF Next

(* Every path out of a critical section releases the mutex and ends the    *)
(* transaction, and only the worker inside holds them.                     *)
THEOREM MutexCorrect == Spec => []MutexDiscipline
<1>1. Init => Typed /\ MutexDiscipline
    BY InitTyped, InitMutex
<1>2. Typed /\ MutexDiscipline /\ [Next]_vars => (Typed /\ MutexDiscipline)'
    BY NextTyped, NextMutex
<1> QED
    BY <1>1, <1>2, PTL DEF Spec
-----------------------------------------------------------------------------
(* Isolation. *)

LEMMA InitIsolation == Init => Isolation
BY DEF Init, Isolation

(* A free mutex means no transaction, hence nothing uncommitted.           *)
LEMMA NothingUncommitted ==
    ASSUME Typed, MutexDiscipline, Isolation, MutexFree
    PROVE  /\ inTxn = FALSE /\ conn = disk
           /\ \A v \in Workers : pc[v] \notin InTransaction
BY ServerAssumption DEF MutexFree, Isolation, MutexDiscipline, InMutex, InTransaction, Typed, TypeOK

(* The worker in a transaction is the only one.                            *)
LEMMA OneTransaction ==
    ASSUME Typed, MutexDiscipline, NEW w \in Workers, pc[w] \in InTransaction
    PROVE  /\ inTxn = TRUE
           /\ \A v \in Workers : v # w => pc[v] \notin InTransaction
BY DEF MutexDiscipline, InMutex, InTransaction, Typed, TypeOK

(* A worker outside "commands" goes on outside it and touches no table.    *)
LEMMA IsolationKept ==
    ASSUME Typed, Isolation, NEW w \in Workers, NEW place,
           pc[w] # "commands", place # "commands", Goto(w, place),
           UNCHANGED <<disk, conn, inTxn>>,
           \A v \in Workers \ {w} : commands'[v] = commands[v] /\ results'[v] = results[v]
    PROVE  Isolation'
<1>1. ~inTxn' => conn' = disk'
    BY DEF Isolation
<1>2. ASSUME NEW v \in Workers, pc'[v] = "commands"
      PROVE  conn' = [disk' EXCEPT !.todos = EffectOf(@, commands'[v], Len(results'[v]))]
    <2>1. v # w /\ pc[v] = "commands"
        BY <1>2 DEF Goto, Typed, TypeOK
    <2> QED
        BY <2>1 DEF Isolation
<1> QED
    BY <1>1, <1>2 DEF Isolation

(* A write while the mutex was free, or the end of a transaction: nothing  *)
(* is uncommitted and nobody is in a transaction.                          *)
LEMMA IsolationAfterCommit ==
    ASSUME Typed, NEW w \in Workers, NEW place, place # "commands", Goto(w, place),
           conn' = disk', \A v \in Workers : v # w => pc[v] \notin InTransaction
    PROVE  Isolation'
BY DEF Isolation, Goto, Typed, TypeOK, InTransaction

LEMMA BeginIsolated ==
    ASSUME Typed, MutexDiscipline, Isolation, NEW w \in Workers, BeginTransaction(w)
    PROVE  Isolation'
<1>1. CASE inTxn' = TRUE /\ Goto(w, "commands")
    <2>1. conn = disk /\ \A v \in Workers : pc[v] \notin InTransaction
        BY NothingUncommitted DEF BeginTransaction
    <2>2. UNCHANGED <<disk, conn, commands, results>> /\ results[w] = <<>>
        BY DEF BeginTransaction, Typed, LocalsFit
    <2>3. disk.todos \in Seq(Rows(Titles, 0..UIntMax)) /\ disk \in Tables
        BY DEF Typed, TypeOK, Tables, TodoRow, Rows
    <2>4. EffectOf(disk.todos, commands[w], 0) = disk.todos
        BY <2>3, EffectOfNothing
    <2>5. [disk EXCEPT !.todos = EffectOf(disk.todos, commands[w], 0)] = disk
        BY <2>3, <2>4 DEF Tables
    <2>6. Len(results[w]) = 0
        BY <2>2
    <2>7. \A v \in Workers : pc'[v] = "commands" => v = w
        BY <1>1, <2>1 DEF Goto, Typed, TypeOK, InTransaction
    <2> QED
        BY <1>1, <2>1, <2>2, <2>5, <2>6, <2>7 DEF Isolation
<1>2. CASE Goto(w, "run_handlers") /\ UNCHANGED <<holder, inTxn>>
    BY <1>2, IsolationKept DEF BeginTransaction
<1> QED
    BY <1>1, <1>2 DEF BeginTransaction, Conclude

LEMMA RunCommandIsolated ==
    ASSUME Typed, MutexDiscipline, Isolation, NEW w \in Workers, RunCommand(w)
    PROVE  Isolation'
<1> DEFINE command == NextCommand(w)
           n == Len(results[w])
           queue == commands[w]
<1>1. /\ pc[w] = "commands" /\ n < Len(queue)
      /\ UNCHANGED <<holder, inTxn, commands>>
    BY DEF RunCommand
<1>2. results[w] \in Seq(CommandResults) /\ queue \in Seq(Commands)
    BY DEF Typed, TypeOK
<1>3. n \in Nat /\ command \in Commands /\ command = queue[n + 1]
    BY <1>1, <1>2 DEF NextCommand
<1>4. inTxn = TRUE /\ \A v \in Workers : v # w => pc[v] \notin InTransaction
    BY <1>1, OneTransaction DEF InTransaction
<1>5. conn = [disk EXCEPT !.todos = EffectOf(disk.todos, queue, n)]
    BY <1>1 DEF Isolation
<1>6. PICK error \in PossibleErrors(conn.todos, command, StorageFaults) :
          LET tried == Append(results[w], ResultOf(command, error))
          IN  \/ /\ error = "none"
                 /\ Write([conn EXCEPT !.todos = Updated(@, command)])
                 /\ results' = [results EXCEPT ![w] = tried]
                 /\ UNCHANGED pc
              \/ Goto(w, "rollback")
    BY DEF RunCommand
<1>7. CASE /\ error = "none"
           /\ Write([conn EXCEPT !.todos = Updated(@, command)])
           /\ results' = [results EXCEPT ![w] = Append(results[w], ResultOf(command, error))]
           /\ UNCHANGED pc
    <2>1. /\ ResultOf(command, error) \in CommandResults
          /\ command.id \in DOMAIN conn.todos
        BY <1>3, <1>6, <1>7, ResultOfType, DataAssumption
    <2>2. disk \in Tables
        BY DEF Typed, TypeOK
    <2>3. conn.todos = EffectOf(disk.todos, queue, n) /\ conn.scripts = disk.scripts
        BY <1>5, <2>2 DEF Tables
    <2>4. command.id \in DOMAIN disk.todos
        BY <2>1, <2>3 DEF EffectOf
    <2>5. Updated(conn.todos, command) = EffectOf(disk.todos, queue, n + 1)
        BY <1>3, <2>3, <2>4, EffectOfNext
    <2>6. disk' = disk /\ conn' = [conn EXCEPT !.todos = Updated(conn.todos, command)]
        BY <1>4, <1>7 DEF Write
    <2>7. conn' = [disk EXCEPT !.todos = EffectOf(disk.todos, queue, n + 1)]
        BY <1>5, <2>2, <2>5, <2>6 DEF Tables
    <2>8. Len(results'[w]) = n + 1
        BY <1>2, <1>7, <2>1 DEF Typed, TypeOK
    <2>9. \A v \in Workers : pc'[v] = "commands" => v = w
        BY <1>4, <1>7 DEF InTransaction
    <2> HIDE DEF command, n, queue
    <2>10. inTxn' = TRUE
        BY <1>1, <1>4
    <2> QED
        BY <1>1, <2>6, <2>7, <2>8, <2>9, <2>10 DEF Isolation, queue
<1>8. CASE Goto(w, "rollback")
    <2>1. \A v \in Workers : pc'[v] # "commands"
        BY <1>4, <1>8 DEF Goto, Typed, TypeOK, InTransaction
    <2> QED
        BY <1>1, <1>4, <2>1 DEF Isolation
<1> QED
    BY <1>6, <1>7, <1>8

LEMMA WorkIsolated ==
    ASSUME Typed, MutexDiscipline, Isolation, NEW w \in Workers, Work(w)
    PROVE  Isolation'
<1>1. CASE StatementFails(w) /\ pc[w] # "commands"
    BY <1>1, IsolationKept DEF StatementFails, Answer, handling, locals
<1>2. CASE InsertTodo(w) \/ InsertHandler(w)
    <2>1. \A v \in Workers : pc[v] \notin InTransaction
        BY <1>2, NothingUncommitted DEF InsertTodo, InsertHandler
    <2>2. inTxn = FALSE
        BY <1>2, NothingUncommitted DEF InsertTodo, InsertHandler
    <2>3. CASE StatementFails(w)
        BY <2>1, <2>3, <1>1 DEF InTransaction
    <2>4. CASE /\ conn' = disk'
               /\ Goto(w, "read_todo_rowid") \/ Goto(w, "read_handler_rowid")
        BY <2>1, <2>4, IsolationAfterCommit
    <2> QED
        BY <1>2, <2>2, <2>3, <2>4 DEF InsertTodo, InsertHandler, Write
<1>3. CASE ReadTodoRowid(w)
    BY <1>3, IsolationKept DEF ReadTodoRowid
<1>4. CASE FindHandlers(w)
    BY <1>4, <1>1, IsolationKept DEF FindHandlers, store
<1>5. CASE RunScript(w)
    <2>1. \A v \in Workers \ {w} : commands'[v] = commands[v] /\ results'[v] = results[v]
        BY <1>5 DEF RunScript, Typed, TypeOK
    <2>2. UNCHANGED <<disk, conn, inTxn>> /\ pc[w] = "run_handlers"
        BY <1>5 DEF RunScript, store
    <2>3. Goto(w, "begin") \/ Goto(w, "run_handlers")
        BY <1>5 DEF RunScript, Conclude
    <2> QED
        BY <2>1, <2>2, <2>3, IsolationKept
<1>6. CASE Rollback(w)
    <2>1. \A v \in Workers : v # w => pc[v] \notin InTransaction
        BY <1>6, OneTransaction DEF Rollback, InTransaction
    <2>2. conn' = disk' /\ Goto(w, "run_handlers")
        BY <1>6 DEF Rollback, UndoChanges, Conclude
    <2> QED
        BY <2>1, <2>2, IsolationAfterCommit
<1>7. CASE Commit(w)
    <2>1. \A v \in Workers : v # w => pc[v] \notin InTransaction
        BY <1>7, OneTransaction DEF Commit, InTransaction
    <2>2. conn' = disk' /\ Goto(w, "run_handlers")
        BY <1>7 DEF Commit, UndoChanges, Conclude
    <2> QED
        BY <2>1, <2>2, IsolationAfterCommit
<1>8. CASE ReadBack(w)
    BY <1>8, <1>1, IsolationKept DEF ReadBack, Answer, store, handling, locals
<1>9. CASE TestScript(w)
    BY <1>9, IsolationKept DEF TestScript, Answer, store, handling, locals
<1>10. CASE ReadHandlerRowid(w)
    BY <1>10, IsolationKept DEF ReadHandlerRowid, Answer, handling, locals
<1>11. CASE ListHandlers(w)
    BY <1>11, <1>1, IsolationKept DEF ListHandlers, Answer, store, handling, locals
<1>12. CASE CountTodos(w)
    BY <1>12, <1>1, IsolationKept DEF CountTodos, handling, locals
<1>13. CASE ReadPage(w)
    BY <1>13, <1>1, IsolationKept DEF ReadPage, Answer, handling, locals
<1>14. CASE Deliver(w)
    <2>1. \A v \in Workers \ {w} : commands'[v] = commands[v] /\ results'[v] = results[v]
        BY <1>14 DEF Deliver, Typed, TypeOK
    <2> QED
        BY <1>14, <2>1, IsolationKept DEF Deliver, store
<1> QED
    BY <1>2, <1>3, <1>4, <1>5, BeginIsolated, RunCommandIsolated, <1>6, <1>7, <1>8, <1>9,
       <1>10, <1>11, <1>12, <1>13, <1>14 DEF Work

LEMMA NextIsolated ==
    ASSUME Typed, MutexDiscipline, Isolation, [Next]_vars
    PROVE  Isolation'
<1>1. CASE UNCHANGED vars
    BY <1>1 DEF vars, store, handling, locals, Isolation
<1>2. CASE Crash
    BY <1>2 DEF Crash, Isolation
<1>3. ASSUME NEW w \in Workers, Receive(w)
      PROVE  Isolation'
    BY <1>3, IsolationKept
       DEF Receive, ReceiveTodo, ReceiveHandler, ReceivePage, ReceiveList, Answer, store, handling, locals
<1> QED
    BY <1>1, <1>2, <1>3, WorkIsolated DEF Next

(* The invariant the safety theorems rest on. *)
Inv == Typed /\ MutexDiscipline /\ Isolation

LEMMA Invariance == Spec => []Inv
<1>1. Init => Inv
    BY InitTyped, InitMutex, InitIsolation DEF Inv
<1>2. Inv /\ [Next]_vars => Inv'
    BY NextTyped, NextMutex, NextIsolated DEF Inv
<1> QED
    BY <1>1, <1>2, PTL DEF Spec

(* No request ever sees or joins the unfinished work of a handler.         *)
THEOREM IsolationCorrect == Spec => []Isolation
<1>1. Inv => Isolation
    BY DEF Inv
<1> QED
    BY <1>1, Invariance, PTL
-----------------------------------------------------------------------------
(* Atomicity of handlers and the truth of their report. *)

(* Concluding a handler adds exactly its result to the report of its       *)
(* worker.                                                                 *)
LEMMA ConcludeAddsResult ==
    ASSUME Typed, NEW w \in Workers, NEW h, NEW status, NEW outcome, NEW storageError,
           Conclude(w, h, status, outcome, storageError)
    PROVE  /\ Concludes(w) /\ Concluded(w).status = status
           /\ \A v \in Workers : v # w => ~Concludes(v)
<1> DEFINE entry == [id |-> h.id, status |-> status, commandResults |-> outcome,
                     storageError |-> storageError]
<1>1. report' = [report EXCEPT ![w] = Append(report[w], entry)] /\ entry.status = status
    BY DEF Conclude, HandlerResultOf
<1> HIDE DEF entry
<1>2. \A v \in Workers : report[v] \in Seq(HandlerResult) /\ Len(report[v]) \in Nat
    BY DEF Typed, TypeOK
<1>3. report'[w] = Append(report[w], entry) /\ \A v \in Workers : v # w => report'[v] = report[v]
    BY <1>1 DEF Typed, TypeOK
<1>4. /\ Len(Append(report[w], entry)) = Len(report[w]) + 1
      /\ Append(report[w], entry)[Len(report[w]) + 1] = entry
    BY <1>2
<1> QED
    BY <1>1, <1>2, <1>3, <1>4 DEF Concludes, Concluded

LEMMA NothingConcluded ==
    ASSUME Typed, \A w \in Workers : report'[w] = report[w] \/ report'[w] = <<>>
    PROVE  \A w \in Workers : ~Concludes(w)
<1>1. \A w \in Workers : Len(report[w]) \in Nat
    BY DEF Typed, TypeOK
<1> QED
    BY <1>1 DEF Concludes

(* A step that concludes a handler without success and commits nothing.    *)
LEMMA FailureCommitsNothing ==
    ASSUME Typed, NEW w \in Workers, NEW h, NEW status, NEW outcome, NEW storageError,
           Conclude(w, h, status, outcome, storageError), status # "success", disk' = disk
    PROVE  AllOrNothing
BY ConcludeAddsResult DEF AllOrNothing

(* A step that concludes nothing and commits nothing.                      *)
LEMMA QuietStep ==
    ASSUME Typed, disk' = disk,
           \A w \in Workers : report'[w] = report[w] \/ report'[w] = <<>>
    PROVE  AllOrNothing
BY NothingConcluded DEF AllOrNothing

LEMMA InsertAppendsRow ==
    ASSUME Inv, NEW w \in Workers, InsertTodo(w) \/ InsertHandler(w)
    PROVE  AllOrNothing
<1>1. inTxn = FALSE /\ conn = disk
    BY NothingUncommitted DEF InsertTodo, InsertHandler, Inv
<1>2. disk \in Tables /\ disk.todos \in Seq(TodoRow) /\ disk.scripts \in Seq(HandlerRow)
    BY DEF Inv, Typed, TypeOK, Tables
<1>3. UNCHANGED report
    BY DEF InsertTodo, InsertHandler, StatementFails, handling, locals
<1>4. CASE disk' = disk
    BY <1>3, <1>4, QuietStep DEF Inv
<1>5. ASSUME NEW row, Write([conn EXCEPT !.todos = Append(@, row)])
      PROVE  AllOrNothing
    <2>1. disk' = [disk EXCEPT !.todos = Append(disk.todos, row)]
        BY <1>1, <1>5 DEF Write
    <2>2. disk'.todos = Append(disk.todos, row) /\ disk'.scripts = disk.scripts
        BY <1>2, <2>1 DEF Tables
    <2>3. Extends(disk'.todos, disk.todos)
        BY <1>2, <2>2 DEF Extends
    <2> QED
        BY <1>3, <2>2, <2>3, NothingConcluded DEF AllOrNothing, AppendsRow, Inv
<1>6. ASSUME NEW row, Write([conn EXCEPT !.scripts = Append(@, row)])
      PROVE  AllOrNothing
    <2>1. disk' = [disk EXCEPT !.scripts = Append(disk.scripts, row)]
        BY <1>1, <1>6 DEF Write
    <2>2. disk'.scripts = Append(disk.scripts, row) /\ disk'.todos = disk.todos
        BY <1>2, <2>1 DEF Tables
    <2>3. Extends(disk'.scripts, disk.scripts)
        BY <1>2, <2>2 DEF Extends
    <2> QED
        BY <1>3, <2>2, <2>3, NothingConcluded DEF AllOrNothing, AppendsRow, Inv
<1> QED
    BY <1>4, <1>5, <1>6 DEF InsertTodo, InsertHandler, StatementFails, WithTodo, WithHandler

LEMMA CommitTakesEffect ==
    ASSUME Inv, NEW w \in Workers, Commit(w)
    PROVE  AllOrNothing
<1>1. PICK h \in pending[w] :
          \/ disk' = conn /\ Conclude(w, h, "success", results[w], FALSE)
          \/ /\ UNCHANGED disk
             /\ Conclude(w, h, "command_error", RolledBack(results[w]), TRUE)
    BY DEF Commit
<1>2. CASE disk' = conn /\ Conclude(w, h, "success", results[w], FALSE)
    <2>1. conn = [disk EXCEPT !.todos = EffectOf(@, commands[w], Len(commands[w]))]
        BY DEF Commit, Inv, Isolation
    <2>2. TakesEffect(w)
        BY <1>2, <2>1 DEF TakesEffect
    <2>3. /\ Concludes(w) /\ Concluded(w).status = "success"
          /\ \A v \in Workers : v # w => ~Concludes(v)
        BY <1>2, ConcludeAddsResult DEF Inv
    <2> QED
        BY <2>2, <2>3 DEF AllOrNothing
<1>3. CASE UNCHANGED disk /\ Conclude(w, h, "command_error", RolledBack(results[w]), TRUE)
    BY <1>3, FailureCommitsNothing DEF Inv
<1> QED
    BY <1>1, <1>2, <1>3

LEMMA RunScriptCommitsNothing ==
    ASSUME Inv, NEW w \in Workers, RunScript(w)
    PROVE  AllOrNothing
<1>1. disk' = disk
    BY DEF RunScript, store
<1>2. CASE UNCHANGED report
    BY <1>1, <1>2, QuietStep DEF Inv
<1>3. ASSUME NEW h, NEW ending, ending # "success", Conclude(w, h, ending, <<>>, FALSE)
      PROVE  AllOrNothing
    BY <1>1, <1>3, FailureCommitsNothing DEF Inv
<1>4. ASSUME NEW h \in pending[w], NEW ending \in h.script.endings
      PROVE  ending # "success"
    <2>1. h \in Handler
        BY DEF Inv, Typed, TypeOK
    <2> QED
        BY <2>1 DEF Handler, Scripts, Endings
<1> QED
    BY <1>2, <1>3, <1>4 DEF RunScript

LEMMA RunCommandCommitsNothing ==
    ASSUME Inv, NEW w \in Workers, RunCommand(w)
    PROVE  AllOrNothing
<1>1. inTxn = TRUE
    BY OneTransaction DEF RunCommand, Inv, InTransaction
<1>2. disk' = disk /\ UNCHANGED report
    BY <1>1 DEF RunCommand, Write
<1> QED
    BY <1>2, QuietStep DEF Inv

LEMMA NextAllOrNothing ==
    ASSUME Inv, [Next]_vars
    PROVE  AllOrNothing
<1>1. CASE UNCHANGED vars
    BY <1>1, QuietStep DEF vars, store, handling, locals, Inv
<1>2. CASE Crash
    BY <1>2, QuietStep DEF Crash, Inv
<1>3. ASSUME NEW w \in Workers, Receive(w)
      PROVE  AllOrNothing
    BY <1>3, QuietStep
       DEF Receive, ReceiveTodo, ReceiveHandler, ReceivePage, ReceiveList, store, handling, locals, Inv
<1>4. ASSUME NEW w \in Workers, Work(w)
      PROVE  AllOrNothing
    <2>1. CASE \/ ReadTodoRowid(w) \/ FindHandlers(w) \/ ReadBack(w) \/ TestScript(w)
               \/ ReadHandlerRowid(w) \/ ListHandlers(w) \/ CountTodos(w) \/ ReadPage(w)
        <3>1. disk' = disk /\ UNCHANGED report
            BY <2>1 DEF ReadTodoRowid, FindHandlers, ReadBack, TestScript, ReadHandlerRowid,
               ListHandlers, CountTodos, ReadPage, StatementFails, store, handling, locals
        <3> QED
            BY <3>1, QuietStep DEF Inv
    <2>2. CASE Deliver(w)
        <3>1. disk' = disk /\ report' = [report EXCEPT ![w] = <<>>]
            BY <2>2 DEF Deliver, store
        <3>2. \A v \in Workers : report'[v] = report[v] \/ report'[v] = <<>>
            BY <3>1 DEF Inv, Typed, TypeOK
        <3> QED
            BY <3>1, <3>2, QuietStep DEF Inv
    <2>3. CASE BeginTransaction(w)
        <3>1. disk' = disk
            BY <2>3 DEF BeginTransaction
        <3>2. CASE UNCHANGED report
            BY <3>1, <3>2, QuietStep DEF Inv
        <3>3. ASSUME NEW h, Conclude(w, h, "command_error", <<>>, TRUE)
              PROVE  AllOrNothing
            BY <3>1, <3>3, FailureCommitsNothing DEF Inv
        <3> QED
            BY <2>3, <3>2, <3>3 DEF BeginTransaction
    <2>4. CASE Rollback(w)
        <3>1. disk' = disk
            BY <2>4 DEF Rollback
        <3>2. PICK h : Conclude(w, h, "command_error", results[w], FALSE)
            BY <2>4 DEF Rollback
        <3> QED
            BY <3>1, <3>2, FailureCommitsNothing DEF Inv
    <2> QED
        BY <1>4, <2>1, <2>2, <2>3, <2>4, InsertAppendsRow, CommitTakesEffect,
           RunScriptCommitsNothing, RunCommandCommitsNothing DEF Work
<1> QED
    BY <1>1, <1>2, <1>3, <1>4 DEF Next

(* A handler is reported as a success in the step that commits the whole   *)
(* effect of its queue, as a failure in a step that commits nothing, and   *)
(* nothing else but an inserted row is ever committed - with any number of *)
(* workers, failing storage and crashes.                                   *)
THEOREM HandlersAreAtomic == Spec => HandlerAtomicity
<1>1. Inv /\ [Next]_vars => [AllOrNothing]_vars
    BY NextAllOrNothing
<1> QED
    BY <1>1, Invariance, PTL DEF Spec, HandlerAtomicity
=============================================================================
