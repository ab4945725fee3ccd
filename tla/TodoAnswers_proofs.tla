-------------------------- MODULE TodoAnswers_proofs --------------------------
(***************************************************************************)
(* Proofs that the answers of TodoServer are true, for any set of workers, *)
(* any scripts and inputs, with storage faults and crashes or without.     *)
(***************************************************************************)
EXTENDS TodoServer_proofs

(* A step of one worker leaves the locals of the others alone.             *)
LEMMA StepIsLocal ==
    ASSUME Typed, NEW w \in Workers, Receive(w) \/ Work(w), NEW v \in Workers \ {w}
    PROVE  /\ pc'[v] = pc[v] /\ request'[v] = request[v] /\ reply'[v] = reply[v]
           /\ created'[v] = created[v] /\ pending'[v] = pending[v] /\ total'[v] = total[v]
           /\ commands'[v] = commands[v] /\ results'[v] = results[v] /\ report'[v] = report[v]
           /\ known'[v] = known[v]
<1> USE DEF Typed, TypeOK, Goto, Answer, handling, locals, StatementFails, Conclude
<1>1. CASE Receive(w)
    BY <1>1 DEF Receive, ReceiveTodo, ReceiveHandler, ReceivePage, ReceiveList
<1>2. CASE InsertTodo(w) \/ ReadTodoRowid(w) \/ FindHandlers(w) \/ ReadBack(w)
    BY <1>2 DEF InsertTodo, ReadTodoRowid, FindHandlers, ReadBack
<1>3. CASE RunScript(w)
    BY <1>3 DEF RunScript
<1>4. CASE BeginTransaction(w)
    BY <1>4 DEF BeginTransaction
<1>5. CASE RunCommand(w)
    BY <1>5 DEF RunCommand
<1>6. CASE Rollback(w) \/ Commit(w)
    BY <1>6 DEF Rollback, Commit
<1>7. CASE TestScript(w) \/ InsertHandler(w) \/ ReadHandlerRowid(w) \/ ListHandlers(w)
    BY <1>7 DEF TestScript, InsertHandler, ReadHandlerRowid, ListHandlers
<1>8. CASE CountTodos(w) \/ ReadPage(w) \/ Deliver(w)
    BY <1>8 DEF CountTodos, ReadPage, Deliver
<1> QED
    BY <1>1, <1>2, <1>3, <1>4, <1>5, <1>6, <1>7, <1>8 DEF Work

(* Nobody touches the store while another worker holds the mutex.          *)
LEMMA StoreIsHeld ==
    ASSUME Typed, MutexDiscipline, NEW w \in Workers, Receive(w) \/ Work(w),
           NEW v \in Workers \ {w}, pc[v] \in InMutex
    PROVE  UNCHANGED <<disk, conn, lastRowid>>
<1>1. holder = v /\ holder # w /\ pc[w] \notin InMutex /\ ~MutexFree
    BY ServerAssumption DEF MutexDiscipline, MutexFree
<1>2. CASE Receive(w)
    BY <1>2 DEF Receive, ReceiveTodo, ReceiveHandler, ReceivePage, ReceiveList, store
<1>3. CASE Work(w)
    BY <1>1, <1>3
       DEF Work, InMutex, InsertTodo, ReadTodoRowid, FindHandlers, RunScript, BeginTransaction,
           RunCommand, Rollback, Commit, ReadBack, TestScript, InsertHandler, ReadHandlerRowid,
           ListHandlers, CountTodos, ReadPage, Deliver, store
<1> QED
    BY <1>2, <1>3

(* Committed rows stay: a todo keeps its title, a handler everything.      *)
RowsStay ==
    /\ \A i \in DOMAIN disk.todos :
          i \in DOMAIN disk'.todos /\ disk'.todos[i].title = disk.todos[i].title
    /\ \A i \in DOMAIN disk.scripts :
          i \in DOMAIN disk'.scripts /\ disk'.scripts[i] = disk.scripts[i]

LEMMA NextRowsStay ==
    ASSUME Inv, [Next]_vars
    PROVE  RowsStay
<1>1. AllOrNothing /\ disk \in Tables /\ disk' \in Tables
    BY NextAllOrNothing, NextTyped DEF Inv, Typed, TypeOK
<1>2. CASE disk' = disk
    BY <1>2 DEF RowsStay
<1>3. CASE AppendsRow
    <2>1. /\ \A i \in DOMAIN disk.todos : i \in 1..Len(disk.todos) /\ Len(disk.todos) \in Nat
          /\ \A i \in DOMAIN disk.scripts : i \in 1..Len(disk.scripts) /\ Len(disk.scripts) \in Nat
          /\ DOMAIN disk'.todos = 1..Len(disk'.todos)
          /\ DOMAIN disk'.scripts = 1..Len(disk'.scripts)
        BY <1>1 DEF Tables
    <2> QED
        BY <1>3, <2>1 DEF AppendsRow, Extends, RowsStay
<1>4. ASSUME NEW w \in Workers, TakesEffect(w)
      PROVE  RowsStay
    <2>1. /\ disk'.todos = EffectOf(disk.todos, commands[w], Len(commands[w]))
          /\ disk'.scripts = disk.scripts
        BY <1>1, <1>4 DEF TakesEffect, Tables
    <2> QED
        BY <2>1 DEF RowsStay, EffectOf
<1> QED
    BY <1>1, <1>2, <1>3, <1>4 DEF AllOrNothing
-----------------------------------------------------------------------------
(* Rows and their ids. *)

(* What the locals of a worker say of the committed rows.                  *)
OwnRow(w) ==
    /\ pc[w] \notin HoldingTodo \cup {"answered"} => created[w] = NoTodo
    /\ pc[w] \in HoldingTodo => created[w] # NoTodo
    /\ created[w] # NoTodo =>
          /\ created[w] = SnapshotOf(created[w].id, request[w].input)
          /\ created[w].id \in DOMAIN disk.todos
          /\ disk.todos[created[w].id].title = request[w].input.title
    /\ pc[w] = "read_todo_rowid" =>
          /\ lastRowid \in DOMAIN disk.todos
          /\ disk.todos[lastRowid].title = request[w].input.title
    /\ pc[w] = "read_handler_rowid" =>
          /\ lastRowid \in DOMAIN disk.scripts
          /\ disk.scripts[lastRowid].script = request[w].input.script
    /\ pc[w] # "answered" => reply[w] = None
    /\ reply[w].kind = "handler_created" =>
          /\ reply[w].id \in DOMAIN disk.scripts
          /\ disk.scripts[reply[w].id].script = request[w].input.script

(* No two requests have one row, nor is the row just inserted one of them. *)
RowsDistinct ==
    \A v, w \in Workers :
        /\ v # w /\ created[w] # NoTodo => created[v].id # created[w].id
        /\ pc[w] = "read_todo_rowid" => created[v].id # lastRowid

RowInv == (\A w \in Workers : OwnRow(w)) /\ RowsDistinct

LEMMA InitRows == Init => RowInv
BY DEF Init, RowInv, OwnRow, RowsDistinct, HoldingTodo, NoTodo, None

(* The rows of the workers that do not step.                               *)
LEMMA OthersOwnRow ==
    ASSUME Inv, RowInv, NEW w \in Workers, Receive(w) \/ Work(w), NEW v \in Workers \ {w}
    PROVE  OwnRow(v)'
<1>1. /\ pc'[v] = pc[v] /\ request'[v] = request[v] /\ reply'[v] = reply[v]
      /\ created'[v] = created[v]
    BY StepIsLocal DEF Inv
<1>2. RowsStay
    BY NextRowsStay DEF Next
<1>3. pc[v] \in InMutex => lastRowid' = lastRowid
    BY StoreIsHeld DEF Inv
<1> QED
    BY <1>1, <1>2, <1>3 DEF RowInv, OwnRow, RowsStay, InMutex

(* An answer, other than that a handler was created, ends the duties of    *)
(* the worker; its todo keeps its row.                                     *)
LEMMA AnswerOwnRow ==
    ASSUME Inv, RowInv, NEW w \in Workers, Work(w), NEW response, Answer(w, response),
           UNCHANGED <<request, created>>,
           response.kind = "handler_created" =>
              /\ response.id \in DOMAIN disk'.scripts
              /\ disk'.scripts[response.id].script = request[w].input.script
    PROVE  OwnRow(w)'
<1>1. pc'[w] = "answered" /\ reply'[w] = response
    BY DEF Answer, Goto, Inv, Typed, TypeOK
<1>2. RowsStay
    BY NextRowsStay DEF Next
<1> QED
    BY <1>1, <1>2 DEF RowInv, OwnRow, RowsStay, HoldingTodo

(* A worker goes on from one place to another, with or without a row.      *)
LEMMA GoesOnWithRow ==
    ASSUME Inv, RowInv, NEW w \in Workers, Work(w), pc[w] \in HoldingTodo,
           pc'[w] \in HoldingTodo, UNCHANGED <<request, created, reply>>
    PROVE  OwnRow(w)'
<1>1. RowsStay
    BY NextRowsStay DEF Next
<1> QED
    BY <1>1 DEF RowInv, OwnRow, RowsStay, HoldingTodo, None

LEMMA GoesOnWithoutRow ==
    ASSUME Inv, RowInv, NEW w \in Workers, pc[w] \notin HoldingTodo \cup {"answered"},
           pc'[w] \in {"insert_handler", "read_page"}, UNCHANGED <<request, created, reply>>
    PROVE  OwnRow(w)'
BY DEF RowInv, OwnRow, HoldingTodo, None

LEMMA ReceiveOwnRow ==
    ASSUME Inv, RowInv, NEW w \in Workers, Receive(w)
    PROVE  OwnRow(w)'
<1>1. pc[w] = "idle" /\ created[w] = NoTodo /\ reply[w] = None
    BY DEF Receive, ReceiveTodo, ReceiveHandler, ReceivePage, ReceiveList, RowInv, OwnRow,
           HoldingTodo
<1>2. created' = created
    BY DEF Receive, ReceiveTodo, ReceiveHandler, ReceivePage, ReceiveList, handling, locals
<1>3. \/ /\ pc'[w] \in {"insert_todo", "test_script", "count_todos", "list_handlers"}
         /\ reply'[w] = None
      \/ pc'[w] = "answered" /\ reply'[w] = [kind |-> "rejected"]
    <2>1. pc \in [Workers -> Places] /\ reply \in [Workers -> Replies]
        BY DEF Inv, Typed, TypeOK
    <2>2. \/ UNCHANGED reply
             /\ \E place \in {"insert_todo", "test_script", "count_todos", "list_handlers"} :
                   Goto(w, place)
          \/ Answer(w, [kind |-> "rejected"])
        BY DEF Receive, ReceiveTodo, ReceiveHandler, ReceivePage, ReceiveList
    <2>3. ASSUME NEW place, Goto(w, place)
          PROVE  pc'[w] = place
        BY <2>1, <2>3 DEF Goto
    <2>4. CASE Answer(w, [kind |-> "rejected"])
        BY <2>1, <2>3, <2>4 DEF Answer
    <2>5. ASSUME NEW place \in {"insert_todo", "test_script", "count_todos", "list_handlers"},
                 Goto(w, place), UNCHANGED reply
          PROVE  pc'[w] = place /\ reply'[w] = None
        BY <1>1, <2>3, <2>5
    <2> QED
        BY <2>2, <2>4, <2>5
<1> QED
    BY <1>1, <1>2, <1>3 DEF OwnRow, HoldingTodo, None

(* The inserted row is the last one, and the row id of the connection is   *)
(* its own.                                                                *)
LEMMA InsertTodoOwnRow ==
    ASSUME Inv, RowInv, NEW w \in Workers, InsertTodo(w)
    PROVE  OwnRow(w)' /\ RowsDistinct'
<1> DEFINE input == request[w].input
           row == [title |-> input.title, priority |-> input.priority,
                   completed |-> input.completed]
<1>1. Work(w)
    BY DEF Work
<1>2. inTxn = FALSE /\ conn = disk /\ \A v \in Workers : pc[v] \notin InMutex
    BY NothingUncommitted, ServerAssumption DEF InsertTodo, Inv, MutexDiscipline, MutexFree
<1>3. created' = created /\ request' = request
    BY DEF InsertTodo, StatementFails, handling, locals
<1>4. CASE StatementFails(w)
    <2>1. OwnRow(w)'
        BY <1>1, <1>3, <1>4, AnswerOwnRow DEF StatementFails
    <2>2. \A v \in Workers : pc'[v] # "read_todo_rowid"
        BY <1>2, <1>4 DEF StatementFails, Answer, Goto, Inv, Typed, TypeOK, InMutex
    <2> QED
        BY <1>3, <2>1, <2>2 DEF RowInv, RowsDistinct
<1>5. CASE /\ Write(WithTodo(conn, input))
           /\ lastRowid' = Len(conn.todos) + 1
           /\ Goto(w, "read_todo_rowid")
           /\ UNCHANGED reply
    <2>1. disk' = [disk EXCEPT !.todos = Append(disk.todos, row)]
        BY <1>2, <1>5 DEF Write, WithTodo
    <2>2. disk.todos \in Seq(TodoRow) /\ disk' \in Tables /\ disk \in Tables
        BY NextTyped DEF Inv, Typed, TypeOK, Tables, Next, Work
    <2>3. disk'.todos = Append(disk.todos, row)
        BY <2>1, <2>2 DEF Tables
    <2> HIDE DEF row
    <2>4. /\ lastRowid' = Len(disk.todos) + 1 /\ DOMAIN disk.todos = 1..Len(disk.todos)
          /\ Len(disk.todos) \in Nat
          /\ DOMAIN disk'.todos = 1..(Len(disk.todos) + 1)
          /\ disk'.todos[lastRowid'] = row
        BY <1>2, <1>5, <2>2, <2>3
    <2>5. row.title = input.title
        BY DEF row
    <2>6. pc'[w] = "read_todo_rowid" /\ pc[w] = "insert_todo"
        BY <1>5 DEF InsertTodo, Goto, Inv, Typed, TypeOK
    <2>7. OwnRow(w)'
        BY <1>3, <1>5, <2>4, <2>5, <2>6 DEF RowInv, OwnRow, HoldingTodo, None
    <2>8. \A v \in Workers : created[v].id # lastRowid'
        BY <2>4 DEF RowInv, OwnRow, NoTodo
    <2>9. \A v \in Workers : pc'[v] = "read_todo_rowid" => v = w
        BY <1>2, <1>5 DEF Goto, Inv, Typed, TypeOK, InMutex
    <2> QED
        BY <1>3, <2>7, <2>8, <2>9 DEF RowInv, RowsDistinct
<1> QED
    BY <1>4, <1>5 DEF InsertTodo

LEMMA InsertHandlerOwnRow ==
    ASSUME Inv, RowInv, NEW w \in Workers, InsertHandler(w)
    PROVE  OwnRow(w)' /\ RowsDistinct'
<1> DEFINE input == request[w].input
           row == [script |-> input.script, event |-> input.event, enabled |-> input.enabled]
<1>1. Work(w)
    BY DEF Work
<1>2. inTxn = FALSE /\ conn = disk /\ \A v \in Workers : pc[v] \notin InMutex
    BY NothingUncommitted, ServerAssumption DEF InsertHandler, Inv, MutexDiscipline, MutexFree
<1>3. created' = created /\ request' = request
    BY DEF InsertHandler, StatementFails, handling, locals
<1>4. \A v \in Workers : pc'[v] # "read_todo_rowid"
    BY <1>2 DEF InsertHandler, StatementFails, Answer, Goto, Inv, Typed, TypeOK, InMutex
<1>5. RowsDistinct'
    BY <1>3, <1>4 DEF RowInv, RowsDistinct
<1>6. CASE StatementFails(w)
    BY <1>1, <1>3, <1>5, <1>6, AnswerOwnRow DEF StatementFails
<1>7. CASE /\ Write(WithHandler(conn, input))
           /\ lastRowid' = Len(conn.scripts) + 1
           /\ Goto(w, "read_handler_rowid")
           /\ UNCHANGED reply
    <2>1. disk' = [disk EXCEPT !.scripts = Append(disk.scripts, row)]
        BY <1>2, <1>7 DEF Write, WithHandler
    <2>2. disk.scripts \in Seq(HandlerRow) /\ disk \in Tables
        BY DEF Inv, Typed, TypeOK, Tables
    <2>3. disk'.scripts = Append(disk.scripts, row)
        BY <2>1, <2>2 DEF Tables
    <2> HIDE DEF row
    <2>4. lastRowid' \in DOMAIN disk'.scripts /\ disk'.scripts[lastRowid'] = row
        BY <1>2, <1>7, <2>2, <2>3
    <2>5. row.script = input.script
        BY DEF row
    <2>6. pc'[w] = "read_handler_rowid" /\ pc[w] = "insert_handler"
        BY <1>7 DEF InsertHandler, Goto, Inv, Typed, TypeOK
    <2> QED
        BY <1>3, <1>5, <1>7, <2>4, <2>5, <2>6 DEF RowInv, OwnRow, HoldingTodo, None
<1> QED
    BY <1>6, <1>7 DEF InsertHandler

(* The row id read is that of the row just inserted: nobody has inserted   *)
(* since.                                                                  *)
LEMMA ReadTodoRowidOwnRow ==
    ASSUME Inv, RowInv, NEW w \in Workers, ReadTodoRowid(w)
    PROVE  OwnRow(w)' /\ RowsDistinct'
<1> DEFINE todo == SnapshotOf(lastRowid, request[w].input)
<1>1. /\ pc[w] = "read_todo_rowid" /\ pc' = [pc EXCEPT ![w] = "find_handlers"]
      /\ created' = [created EXCEPT ![w] = todo]
      /\ UNCHANGED <<disk, lastRowid, request, reply>>
    BY DEF ReadTodoRowid, Goto
<1>2. /\ lastRowid \in DOMAIN disk.todos
      /\ disk.todos[lastRowid].title = request[w].input.title
      /\ reply[w] = None
    BY <1>1 DEF RowInv, OwnRow
<1>3. lastRowid # 0
    BY <1>2 DEF Inv, Typed, TypeOK, Tables
<1>4. todo.id = lastRowid /\ todo # NoTodo
    BY <1>3 DEF SnapshotOf, NoTodo
<1> HIDE DEF todo
<1>5. /\ created'[w] = todo /\ pc'[w] = "find_handlers"
      /\ \A v \in Workers \ {w} : created'[v] = created[v] /\ pc'[v] = pc[v]
    BY <1>1 DEF Inv, Typed, TypeOK
<1>6. OwnRow(w)'
    BY <1>1, <1>2, <1>4, <1>5 DEF OwnRow, HoldingTodo, todo, None
<1>7. \A v \in Workers : pc'[v] # "read_todo_rowid"
    BY <1>1, <1>5 DEF Inv, MutexDiscipline, InMutex
<1>8. \A v \in Workers : created[v].id # lastRowid
    BY <1>1 DEF RowInv, RowsDistinct
<1> QED
    BY <1>4, <1>5, <1>6, <1>7, <1>8 DEF RowInv, RowsDistinct

LEMMA DeliverOwnRow ==
    ASSUME Inv, RowInv, NEW w \in Workers, Deliver(w)
    PROVE  OwnRow(w)' /\ RowsDistinct'
<1>1. /\ pc'[w] = "idle" /\ created'[w] = NoTodo /\ reply'[w] = None
      /\ UNCHANGED <<disk, lastRowid>>
      /\ \A v \in Workers \ {w} : created'[v] = created[v] /\ pc'[v] = pc[v]
    BY DEF Deliver, Goto, store, Inv, Typed, TypeOK
<1>2. OwnRow(w)'
    BY <1>1 DEF OwnRow, HoldingTodo, None
<1>3. \A v \in Workers : created[v] # NoTodo => created[v].id # 0
    <2>1. 0 \notin DOMAIN disk.todos
        BY DEF Inv, Typed, TypeOK, Tables
    <2> QED
        BY <2>1 DEF RowInv, OwnRow
<1>4. \A v \in Workers : pc[v] = "read_todo_rowid" => lastRowid # 0
    BY DEF RowInv, OwnRow, Inv, Typed, TypeOK, Tables
<1>5. NoTodo.id = 0
    BY DEF NoTodo
<1> QED
    BY <1>1, <1>2, <1>3, <1>4, <1>5 DEF RowInv, RowsDistinct

LEMMA WorkRows ==
    ASSUME Inv, RowInv, NEW w \in Workers, Work(w)
    PROVE  OwnRow(w)' /\ RowsDistinct'
<1>1. CASE \/ InsertTodo(w) \/ InsertHandler(w) \/ ReadTodoRowid(w) \/ Deliver(w)
    BY <1>1, InsertTodoOwnRow, InsertHandlerOwnRow, ReadTodoRowidOwnRow, DeliverOwnRow
<1>2. CASE ~(InsertTodo(w) \/ InsertHandler(w) \/ ReadTodoRowid(w) \/ Deliver(w))
    <2>1. UNCHANGED <<created, request, lastRowid>>
        BY <1>2 DEF Work, FindHandlers, RunScript, BeginTransaction, RunCommand, Rollback, Commit,
               ReadBack, TestScript, ReadHandlerRowid, ListHandlers, CountTodos, ReadPage,
               StatementFails, store, handling, locals
    <2>2. pc'[w] # "read_todo_rowid" /\ \A v \in Workers \ {w} : pc'[v] = pc[v]
        BY <1>2
           DEF Work, FindHandlers, RunScript, BeginTransaction, RunCommand, Rollback, Commit,
               ReadBack, TestScript, ReadHandlerRowid, ListHandlers, CountTodos, ReadPage,
               StatementFails, Conclude, Answer, Goto, Inv, Typed, TypeOK
    <2>3. RowsDistinct'
        BY <2>1, <2>2 DEF RowInv, RowsDistinct
    <2>4. CASE ReadHandlerRowid(w)
        BY <2>1, <2>3, <2>4, AnswerOwnRow DEF Work, ReadHandlerRowid, RowInv, OwnRow
    <2>5. CASE StatementFails(w)
        BY <2>1, <2>3, <2>5, AnswerOwnRow DEF StatementFails
    <2>6. CASE ReadBack(w) \/ ListHandlers(w) \/ ReadPage(w)
        BY <2>1, <2>3, <2>5, <2>6, AnswerOwnRow DEF Work, ReadBack, ListHandlers, ReadPage
    <2>7. CASE TestScript(w)
        <3>1. CASE Goto(w, "insert_handler") /\ UNCHANGED reply
            BY <2>1, <2>3, <2>7, <3>1, GoesOnWithoutRow
               DEF TestScript, HoldingTodo, Goto, Inv, Typed, TypeOK
        <3> QED
            BY <1>2, <2>1, <2>3, <2>7, <3>1, AnswerOwnRow DEF TestScript
    <2>8. CASE CountTodos(w)
        <3>1. CASE Goto(w, "read_page") /\ UNCHANGED reply
            BY <2>1, <2>3, <2>8, <3>1, GoesOnWithoutRow
               DEF CountTodos, HoldingTodo, Goto, Inv, Typed, TypeOK
        <3> QED
            BY <2>5, <2>8, <3>1 DEF CountTodos
    <2>9. CASE RunScript(w) \/ BeginTransaction(w) \/ RunCommand(w) \/ Rollback(w) \/ Commit(w)
               \/ (FindHandlers(w) /\ UNCHANGED reply /\ Goto(w, "run_handlers"))
        <3>1. UNCHANGED reply /\ pc[w] \in HoldingTodo
            BY <2>9 DEF RunScript, BeginTransaction, RunCommand, Rollback, Commit, FindHandlers,
                        HoldingTodo
        <3>2. UNCHANGED pc \/ \E place \in HoldingTodo : Goto(w, place)
            BY <2>9 DEF RunScript, BeginTransaction, RunCommand, Rollback, Commit, Conclude,
                        HoldingTodo
        <3>3. pc'[w] \in HoldingTodo
            BY <3>1, <3>2 DEF Goto, Inv, Typed, TypeOK
        <3> QED
            BY <1>2, <2>1, <2>3, <3>1, <3>3, GoesOnWithRow
    <2>10. CASE FindHandlers(w)
        BY <2>5, <2>9, <2>10 DEF FindHandlers
    <2> QED
        BY <1>2, <2>4, <2>6, <2>7, <2>8, <2>9, <2>10 DEF Work
<1> QED
    BY <1>1, <1>2

LEMMA NextRows ==
    ASSUME Inv, RowInv, [Next]_vars
    PROVE  RowInv'
<1>1. CASE UNCHANGED vars
    BY <1>1 DEF vars, store, handling, locals, RowInv, OwnRow, RowsDistinct
<1>2. CASE Crash
    BY <1>2 DEF Crash, RowInv, OwnRow, RowsDistinct, HoldingTodo, None
<1>3. ASSUME NEW w \in Workers, Receive(w)
      PROVE  RowInv'
    <2>1. UNCHANGED <<created, lastRowid>> /\ pc'[w] # "read_todo_rowid"
        BY <1>3
           DEF Receive, ReceiveTodo, ReceiveHandler, ReceivePage, ReceiveList, Goto, Answer, store,
               handling, locals, Inv, Typed, TypeOK
    <2>2. \A v \in Workers \ {w} : pc'[v] = pc[v]
        BY <1>3, StepIsLocal DEF Inv
    <2>3. RowsDistinct'
        BY <2>1, <2>2 DEF RowInv, RowsDistinct
    <2> QED
        BY <1>3, <2>3, ReceiveOwnRow, OthersOwnRow DEF RowInv
<1>4. ASSUME NEW w \in Workers, Work(w)
      PROVE  RowInv'
    BY <1>4, WorkRows, OthersOwnRow DEF RowInv
<1> QED
    BY <1>1, <1>2, <1>3, <1>4 DEF Next

LEMMA RowInvariance == Spec => [](Inv /\ RowInv)
<1>1. Init => RowInv
    BY InitRows
<1>2. Inv /\ Inv' /\ RowInv /\ [Next]_vars => RowInv'
    BY NextRows
<1> QED
    BY <1>1, <1>2, Invariance, PTL DEF Spec

(* A createTodo works on the row of its own request, whatever other        *)
(* requests insert meanwhile, and a createHandler answers with the id of   *)
(* its own script.                                                         *)
THEOREM OwnRowsNamed == Spec => []AnswersNameOwnRow
<1>1. RowInv => AnswersNameOwnRow
    BY DEF RowInv, OwnRow, RowsDistinct, AnswersNameOwnRow
<1> QED
    BY <1>1, RowInvariance, PTL
-----------------------------------------------------------------------------
(* No created todo disappears. *)

(* A reading statement sees the committed tables.                          *)
LEMMA ReadsCommitted ==
    ASSUME Inv, NEW w \in Workers, MutexFree \/ pc[w] = "read_page"
    PROVE  conn = disk
<1>1. CASE MutexFree
    BY <1>1, NothingUncommitted DEF Inv
<1>2. CASE pc[w] = "read_page"
    <2>1. holder = w
        BY <1>2 DEF Inv, MutexDiscipline, InMutex
    <2>2. \A v \in Workers : pc[v] \notin InTransaction
        BY <1>2, <2>1 DEF Inv, MutexDiscipline, InMutex, InTransaction
    <2> QED
        BY <2>2 DEF Inv, MutexDiscipline, Isolation
<1> QED
    BY <1>1, <1>2

LEMMA ReadBackFinds ==
    ASSUME Inv, RowInv, NEW w \in Workers, ReadBack(w)
    PROVE  \/ Answer(w, [kind |-> "todo_created", todo |-> TodoTaskOf(disk, created[w].id),
                         handlers |-> report[w]])
              /\ created[w].id \in DOMAIN disk.todos
           \/ StatementFails(w)
<1>1. conn = disk
    BY ReadsCommitted DEF ReadBack
<1>2. created[w] # NoTodo
    BY DEF ReadBack, RowInv, OwnRow, HoldingTodo
<1>3. created[w].id \in DOMAIN disk.todos
    BY <1>2 DEF RowInv, OwnRow
<1> QED
    BY <1>1, <1>3 DEF ReadBack

(* What a worker may answer with: the kinds that show no todo, the todo of *)
(* its request or a page, both as committed.                               *)
AnswersTruly(w) ==
    \/ reply'[w] = None
    \/ reply'[w].kind \in {"rejected", "script_rejected", "handlers", "handler_created"}
    \/ StatementFails(w)
    \/ /\ ReadBack(w) /\ created[w].id \in DOMAIN disk.todos
       /\ reply'[w] = [kind |-> "todo_created", todo |-> TodoTaskOf(disk, created[w].id),
                       handlers |-> report[w]]
    \/ /\ ReadPage(w)
       /\ reply'[w] = [kind |-> "page", total |-> total[w],
                       items |-> PageOf(disk, request[w].input.offset, request[w].input.limit)]

LEMMA WorkersAnswerTruly ==
    ASSUME Inv, RowInv, NEW w \in Workers, Receive(w) \/ Work(w), reply'[w] # reply[w]
    PROVE  AnswersTruly(w)
<1> USE DEF AnswersTruly
<1>1. reply \in [Workers -> Replies] /\ reply' # reply
    BY DEF Inv, Typed, TypeOK
<1>2. ASSUME NEW response, Answer(w, response)
      PROVE  reply'[w] = response
    BY <1>1, <1>2 DEF Answer
<1>3. CASE Receive(w)
    BY <1>1, <1>2, <1>3 DEF Receive, ReceiveTodo, ReceiveHandler, ReceivePage, ReceiveList
<1>4. CASE InsertTodo(w) \/ ReadTodoRowid(w) \/ FindHandlers(w) \/ InsertHandler(w) \/ CountTodos(w)
    BY <1>1, <1>4 DEF InsertTodo, ReadTodoRowid, FindHandlers, InsertHandler, CountTodos
<1>5. CASE RunScript(w) \/ BeginTransaction(w) \/ RunCommand(w) \/ Rollback(w) \/ Commit(w)
    BY <1>1, <1>5 DEF RunScript, BeginTransaction, RunCommand, Rollback, Commit
<1>6. CASE TestScript(w) \/ ReadHandlerRowid(w) \/ ListHandlers(w)
    BY <1>1, <1>2, <1>6 DEF TestScript, ReadHandlerRowid, ListHandlers
<1>7. CASE ReadBack(w)
    BY <1>2, <1>7, ReadBackFinds
<1>8. CASE ReadPage(w)
    <2>1. conn = disk
        BY <1>8, ReadsCommitted DEF ReadPage
    <2> QED
        BY <1>2, <1>8, <2>1 DEF ReadPage
<1>9. CASE Deliver(w)
    BY <1>1, <1>9 DEF Deliver
<1> QED
    BY <1>3, <1>4, <1>5, <1>6, <1>7, <1>8, <1>9 DEF Work

LEMMA FailureReply ==
    ASSUME Inv, NEW w \in Workers, StatementFails(w)
    PROVE  StorageFaults /\ reply'[w] = [kind |-> "internal_error", why |-> "storage"]
BY DEF StatementFails, Answer, Inv, Typed, TypeOK

LEMMA NextInternalError ==
    ASSUME Inv, RowInv, InternalErrorOnlyFromStorage, [Next]_vars
    PROVE  InternalErrorOnlyFromStorage'
<1>1. CASE UNCHANGED vars
    BY <1>1 DEF vars, InternalErrorOnlyFromStorage
<1>2. CASE Crash
    BY <1>2 DEF Crash, InternalErrorOnlyFromStorage, None
<1>3. ASSUME NEW w \in Workers, Receive(w) \/ Work(w)
      PROVE  InternalErrorOnlyFromStorage'
    <2>1. \A v \in Workers \ {w} : reply'[v] = reply[v]
        BY <1>3, StepIsLocal DEF Inv
    <2>2. ASSUME reply'[w].kind = "internal_error"
          PROVE  StorageFaults /\ reply'[w].why = "storage"
        <3>1. CASE reply'[w] = reply[w]
            BY <2>2, <3>1 DEF InternalErrorOnlyFromStorage
        <3>2. CASE reply'[w] # reply[w]
            <4>1. AnswersTruly(w)
                BY <1>3, <3>2, WorkersAnswerTruly
            <4>2. StatementFails(w)
                BY <2>2, <4>1 DEF AnswersTruly, None
            <4> QED
                BY <4>2, FailureReply
        <3> QED
            BY <3>1, <3>2
    <2> QED
        BY <2>1, <2>2 DEF InternalErrorOnlyFromStorage
<1> QED
    BY <1>1, <1>2, <1>3 DEF Next

(* A request is answered with 500 only if SQLite refused a statement.      *)
THEOREM ErrorsComeFromStorage == Spec => []InternalErrorOnlyFromStorage
<1>1. Init => InternalErrorOnlyFromStorage
    BY DEF Init, InternalErrorOnlyFromStorage, None
<1> QED
    BY <1>1, NextInternalError, RowInvariance, PTL DEF Spec
-----------------------------------------------------------------------------
(* Pages, and what answers show. *)

(* What a page shows is in the table; its ids are consecutive.             *)
LEMMA PageItems ==
    ASSUME NEW tables \in Tables, NEW input \in PageInput
    PROVE  LET rows == Len(tables.todos)
               items == PageOf(tables, input.offset, input.limit)
           IN  /\ \A i \in DOMAIN items :
                     /\ items[i].id = rows - input.offset - i + 1
                     /\ items[i].id \in DOMAIN tables.todos
                     /\ items[i] = TodoTaskOf(tables, items[i].id)
               /\ \/ Len(items) = input.limit
                  \/ Len(items) < input.limit /\ input.offset >= rows /\ items = <<>>
                  \/ Len(items) < input.limit /\ Len(items) = rows - input.offset
<1> DEFINE rows == Len(tables.todos)
           offset == input.offset
           limit == input.limit
           left == IF offset < rows THEN rows - offset ELSE 0
           size == IF limit < left THEN limit ELSE left
           items == PageOf(tables, offset, limit)
<1>1. rows \in Nat /\ DOMAIN tables.todos = 1..rows /\ offset \in Nat /\ limit \in Nat
    BY DEF Tables, PageInput
<1>2. items = [i \in 1..size |-> TodoTaskOf(tables, left - i + 1)]
    BY DEF PageOf
<1> HIDE DEF rows, offset, limit, items
<1>3. size \in Nat /\ left \in Nat /\ left <= rows /\ size <= left /\ size <= limit
    BY <1>1
<1>4. Len(items) = size /\ DOMAIN items = 1..size
    <2> DEFINE S == {items[j] : j \in 1..size}
    <2>1. items \in [1..size -> S]
        BY <1>2
    <2> HIDE DEF S, left, size
    <2>2. items \in Seq(S)
        BY <1>3, <2>1, IsASeq
    <2> QED
        BY <1>2, <1>3, <2>2, LenProperties
<1>5. ASSUME NEW i \in 1..size
      PROVE  left - i + 1 = rows - offset - i + 1 /\ left - i + 1 \in 1..rows
    BY <1>1, <1>3
<1>6. ASSUME NEW i \in 1..size
      PROVE  items[i] = TodoTaskOf(tables, left - i + 1) /\ items[i].id = left - i + 1
    BY <1>2 DEF TodoTaskOf
<1>7. \/ size = limit
      \/ size < limit /\ offset >= rows /\ size = 0
      \/ size < limit /\ size = rows - offset
    BY <1>1
<1>8. size = 0 => items = <<>>
    BY <1>2
<1> HIDE DEF size, left
<1>9. \A i \in DOMAIN items : /\ items[i].id = rows - offset - i + 1
                              /\ items[i].id \in DOMAIN tables.todos
                              /\ items[i] = TodoTaskOf(tables, items[i].id)
    BY <1>1, <1>4, <1>5, <1>6
<1> QED
    BY <1>4, <1>7, <1>8, <1>9 DEF items, rows, offset, limit

PageInv ==
    \A w \in Workers : pc[w] = "read_page" => total[w] = Len(conn.todos)

LEMMA NextPage ==
    ASSUME Inv, RowInv, PageInv, PageMatchesTotal, [Next]_vars
    PROVE  PageInv' /\ PageMatchesTotal'
<1>1. CASE UNCHANGED vars
    BY <1>1 DEF vars, store, PageInv, PageMatchesTotal
<1>2. CASE Crash
    BY <1>2 DEF Crash, PageInv, PageMatchesTotal, None
<1>3. ASSUME NEW w \in Workers, Receive(w) \/ Work(w)
      PROVE  PageInv' /\ PageMatchesTotal'
    <2>1. ASSUME NEW v \in Workers \ {w}
          PROVE  /\ pc'[v] = pc[v] /\ request'[v] = request[v] /\ reply'[v] = reply[v]
                 /\ total'[v] = total[v] /\ (pc[v] = "read_page" => conn' = conn)
        BY <1>3, StepIsLocal, StoreIsHeld DEF Inv, InMutex
    <2>2. pc'[w] = "read_page" => total'[w] = Len(conn'.todos)
        <3>1. CASE CountTodos(w)
            BY <3>1 DEF CountTodos, StatementFails, Answer, Goto, Inv, Typed, TypeOK
        <3>2. CASE ~CountTodos(w)
            BY <1>3, <3>2
               DEF Receive, ReceiveTodo, ReceiveHandler, ReceivePage, ReceiveList, Work, InsertTodo,
                   ReadTodoRowid, FindHandlers, RunScript, BeginTransaction, RunCommand, Rollback,
                   Commit, ReadBack, TestScript, InsertHandler, ReadHandlerRowid, ListHandlers,
                   ReadPage, Deliver, StatementFails, Conclude, Answer, Goto, Inv, Typed, TypeOK
        <3> QED
            BY <3>1, <3>2
    <2>3. PageInv'
        BY <2>1, <2>2 DEF PageInv
    <2>4. PageMatchesTotal'
        <3>1. CASE reply'[w] = reply[w]
            <4>1. reply[w].kind = "page" => request'[w] = request[w]
                <5>1. CASE pc[w] = "idle"
                    BY <5>1 DEF RowInv, OwnRow, None
                <5>2. CASE Deliver(w)
                    BY <3>1, <5>2 DEF Deliver, Inv, Typed, TypeOK, None
                <5>3. CASE pc[w] # "idle" /\ ~Deliver(w)
                    BY <1>3, <5>3
                       DEF Receive, ReceiveTodo, ReceiveHandler, ReceivePage, ReceiveList, Work,
                           InsertTodo, ReadTodoRowid, FindHandlers, RunScript, BeginTransaction,
                           RunCommand, Rollback, Commit, ReadBack, TestScript, InsertHandler,
                           ReadHandlerRowid, ListHandlers, CountTodos, ReadPage, StatementFails
                <5> QED
                    BY <5>1, <5>2, <5>3
            <4> QED
                BY <2>1, <3>1, <4>1 DEF PageMatchesTotal
        <3>2. CASE reply'[w] # reply[w] /\ reply'[w].kind = "page"
            <4> DEFINE input == request[w].input
                       items == PageOf(disk, input.offset, input.limit)
            <4>1. AnswersTruly(w)
                BY <1>3, <3>2, WorkersAnswerTruly
            <4>2. ReadPage(w) /\ reply'[w] = [kind |-> "page", total |-> total[w], items |-> items]
                BY <3>2, <4>1, FailureReply DEF AnswersTruly, None
            <4>3. conn = disk /\ request' = request
                BY <4>2, ReadsCommitted DEF ReadPage, StatementFails
            <4>4. total[w] = Len(disk.todos)
                BY <4>2, <4>3 DEF ReadPage, PageInv
            <4>5. input \in PageInput /\ disk \in Tables
                BY <4>2, DataAssumption DEF ReadPage, Inv, Typed, TypeOK, LocalsFit, GettingPage
            <4> HIDE DEF input
            <4>6. /\ \A i \in DOMAIN items : items[i].id = Len(disk.todos) - input.offset - i + 1
                  /\ \/ Len(items) = input.limit
                     \/ Len(items) < input.limit /\ input.offset >= Len(disk.todos) /\ items = <<>>
                     \/ Len(items) < input.limit /\ Len(items) = Len(disk.todos) - input.offset
                BY <4>5, PageItems
            <4> HIDE DEF items
            <4>7. request'[w].input = input
                BY <4>3 DEF input
            <4> QED
                BY <2>1, <4>2, <4>4, <4>6, <4>7 DEF PageMatchesTotal
        <3> QED
            BY <2>1, <3>1, <3>2 DEF PageMatchesTotal
    <2> QED
        BY <2>3, <2>4
<1> QED
    BY <1>1, <1>2, <1>3 DEF Next

(* A page and its total describe one state of the table.                   *)
THEOREM PagesMatchTotals == Spec => []PageMatchesTotal
<1>1. Init => PageInv /\ PageMatchesTotal
    BY DEF Init, PageInv, PageMatchesTotal, None
<1> QED
    BY <1>1, NextPage, RowInvariance, PTL DEF Spec

LEMMA NextShowsCommitted ==
    ASSUME Inv, RowInv, [Next]_vars, NEW w \in Workers, reply'[w] # reply[w],
           NEW todo \in Shown(reply'[w])
    PROVE  todo.id \in DOMAIN disk.todos /\ todo = TodoTaskOf(disk, todo.id)
<1>1. reply'[w].kind \in {"todo_created", "page"}
    BY DEF Shown
<1>2. ~UNCHANGED vars /\ ~Crash
    BY <1>1 DEF vars, Crash, None
<1>3. PICK v \in Workers : Receive(v) \/ Work(v)
    BY <1>2 DEF Next
<1>4. v = w
    BY <1>3, StepIsLocal DEF Inv
<1>5. AnswersTruly(w)
    BY <1>3, <1>4, WorkersAnswerTruly
<1>6. CASE reply'[w] = [kind |-> "todo_created", todo |-> TodoTaskOf(disk, created[w].id),
                        handlers |-> report[w]] /\ created[w].id \in DOMAIN disk.todos
    <2>1. todo = TodoTaskOf(disk, created[w].id)
        BY <1>6 DEF Shown
    <2> QED
        BY <1>6, <2>1 DEF TodoTaskOf
<1>7. CASE /\ ReadPage(w)
           /\ reply'[w] = [kind |-> "page", total |-> total[w],
                           items |-> PageOf(disk, request[w].input.offset, request[w].input.limit)]
    <2> DEFINE input == request[w].input
               items == PageOf(disk, input.offset, input.limit)
    <2>1. input \in PageInput /\ disk \in Tables
        BY <1>7, DataAssumption DEF ReadPage, Inv, Typed, TypeOK, LocalsFit, GettingPage
    <2>2. PICK i \in DOMAIN items : todo = items[i]
        BY <1>7 DEF Shown
    <2> HIDE DEF input
    <2> QED
        BY <2>1, <2>2, PageItems
<1> QED
    BY <1>1, <1>5, <1>6, <1>7, FailureReply DEF AnswersTruly, None

(* No answer ever shows a value that is not committed.                     *)
THEOREM OnlyCommittedShown == Spec => AnswersShowCommitted
<1> DEFINE Truly == \A w \in Workers : reply'[w] # reply[w] =>
                       \A todo \in Shown(reply'[w]) :
                          todo.id \in DOMAIN disk.todos /\ todo = TodoTaskOf(disk, todo.id)
<1>1. Inv /\ RowInv /\ [Next]_vars => [Truly]_vars
    BY NextShowsCommitted
<1> QED
    BY <1>1, RowInvariance, PTL DEF Spec, AnswersShowCommitted
-----------------------------------------------------------------------------
(* The queue of a handler and its results. *)

Applied(queue, n) == [i \in 1..n |-> ResultOf(queue[i], "none")]

(* The first n commands of the queue can be applied to the todos.          *)
Applicable(queue, n) ==
    \A i \in 1..n : PossibleErrors(disk.todos, queue[i], FALSE) = {"none"}

(* While a handler is dealt with, its queue is what its script asked for,  *)
(* its results so far are those of a prefix that was applied, and after a  *)
(* failure those of a prefix, the failed command and the rest.             *)
QueueInv(w) ==
    /\ pc[w] \in {"begin", "commands", "rollback"} =>
          \E h \in pending[w] : /\ First(pending[w], h) /\ "ok" \in h.script.endings
                                /\ commands[w] = QueuedBy(h.script, created[w])
    /\ pc[w] = "commands" =>
          /\ Applicable(commands[w], Len(results[w]))
          /\ results[w] = Applied(commands[w], Len(results[w]))
    /\ pc[w] = "rollback" =>
          \E k \in DOMAIN commands[w] :
             /\ Applicable(commands[w], k - 1)
             /\ \E error \in PossibleErrors(disk.todos, commands[w][k], StorageFaults) \ {"none"} :
                   results[w] = FailedQueue(Append(Applied(commands[w], k - 1),
                                                   ResultOf(commands[w][k], error)),
                                            commands[w])

(* Which errors a command may meet depends on the rows that exist.         *)
LEMMA ErrorsByRows ==
    ASSUME NEW todos, NEW others, DOMAIN todos = DOMAIN others, NEW command, NEW faults
    PROVE  /\ PossibleErrors(todos, command, faults) = PossibleErrors(others, command, faults)
           /\ "none" \in PossibleErrors(todos, command, faults) =>
                 PossibleErrors(others, command, FALSE) = {"none"}
BY DEF PossibleErrors

(* A command that could be applied still can when there are more rows.     *)
LEMMA StaysApplicable ==
    ASSUME NEW todos, NEW more, DOMAIN todos \subseteq DOMAIN more, NEW command,
           PossibleErrors(todos, command, FALSE) = {"none"}
    PROVE  PossibleErrors(more, command, FALSE) = {"none"}
BY DEF PossibleErrors

LEMMA OthersQueue ==
    ASSUME Inv, NEW w \in Workers, Receive(w) \/ Work(w), NEW v \in Workers \ {w}, QueueInv(v)
    PROVE  QueueInv(v)'
<1>1. /\ pc'[v] = pc[v] /\ created'[v] = created[v] /\ pending'[v] = pending[v]
      /\ commands'[v] = commands[v] /\ results'[v] = results[v]
    BY StepIsLocal DEF Inv
<1>2. pc[v] \in {"commands", "rollback"} => disk' = disk
    BY StoreIsHeld DEF Inv, InMutex
<1>3. CASE pc[v] \in {"commands", "rollback"}
    BY <1>1, <1>2, <1>3 DEF QueueInv, Applicable
<1>4. CASE pc[v] \notin {"commands", "rollback"}
    BY <1>1, <1>4 DEF QueueInv
<1> QED
    BY <1>3, <1>4

LEMMA RunCommandQueue ==
    ASSUME Inv, NEW w \in Workers, RunCommand(w), QueueInv(w)
    PROVE  QueueInv(w)'
<1> DEFINE n == Len(results[w])
           queue == commands[w]
           command == queue[n + 1]
<1>1. /\ pc[w] = "commands" /\ n < Len(queue)
      /\ UNCHANGED <<created, pending, commands>>
    BY DEF RunCommand
<1>2. results \in [Workers -> Seq(CommandResults)] /\ queue \in Seq(Commands) /\ pc \in [Workers -> Places]
    BY DEF Inv, Typed, TypeOK
<1>3. n \in Nat /\ n + 1 \in DOMAIN queue /\ command \in Commands
    BY <1>1, <1>2
<1>4. conn = [disk EXCEPT !.todos = EffectOf(@, queue, n)] /\ disk \in Tables /\ inTxn = TRUE
    BY <1>1, OneTransaction DEF Inv, Typed, TypeOK, Isolation, InTransaction
<1>5. DOMAIN conn.todos = DOMAIN disk.todos
    BY <1>4 DEF Tables, EffectOf
<1>6. results[w] = Applied(queue, n) /\ Applicable(queue, n)
    BY <1>1 DEF QueueInv
<1>7. PICK error \in PossibleErrors(disk.todos, command, StorageFaults) :
          \/ /\ error = "none"
             /\ disk' = disk
             /\ results' = [results EXCEPT ![w] = Append(results[w], ResultOf(command, error))]
             /\ UNCHANGED pc
          \/ /\ error # "none"
             /\ disk' = disk
             /\ results' = [results EXCEPT
                   ![w] = FailedQueue(Append(results[w], ResultOf(command, error)), queue)]
             /\ Goto(w, "rollback")
    <2>1. PossibleErrors(conn.todos, command, StorageFaults)
              = PossibleErrors(disk.todos, command, StorageFaults)
        BY <1>5 DEF PossibleErrors
    <2>2. \A tables : Write(tables) => disk' = disk
        BY <1>4 DEF Write
    <2> QED
        BY <2>1, <2>2 DEF RunCommand, NextCommand
<1>8. CASE /\ error = "none" /\ disk' = disk
           /\ results' = [results EXCEPT ![w] = Append(results[w], ResultOf(command, error))]
           /\ UNCHANGED pc
    <2>1. ResultOf(command, error) \in CommandResults
        BY <1>3, <1>7, ResultOfType, DataAssumption
    <2>2. results'[w] = Append(results[w], ResultOf(command, "none")) /\ Len(results'[w]) = n + 1
        BY <1>2, <1>8, <2>1
    <2>3. Append(Applied(queue, n), ResultOf(command, "none")) = Applied(queue, n + 1)
        <3>1. Len(Applied(queue, n)) = n
            BY <1>6
        <3> QED
            BY <1>3, <3>1 DEF Applied, Append
    <2>4. PossibleErrors(disk.todos, command, FALSE) = {"none"}
        BY <1>7, <1>8, ErrorsByRows
    <2>5. Applicable(queue, n + 1)
        <3>1. \A i \in 1..(n + 1) : i = n + 1 \/ i \in 1..n
            BY <1>3
        <3> QED
            BY <1>6, <2>4, <3>1 DEF Applicable
    <2> QED
        BY <1>1, <1>6, <1>8, <2>2, <2>3, <2>5 DEF QueueInv, Applicable
<1>9. CASE /\ error # "none" /\ disk' = disk
           /\ results' = [results EXCEPT
                 ![w] = FailedQueue(Append(results[w], ResultOf(command, error)), queue)]
           /\ Goto(w, "rollback")
    <2>1. pc'[w] = "rollback"
        BY <1>2, <1>9 DEF Goto
    <2>2. results'[w] = FailedQueue(Append(Applied(queue, n), ResultOf(command, error)), queue)
        BY <1>2, <1>6, <1>9
    <2>3. (n + 1) - 1 = n
        BY <1>3
    <2>4. \E k \in DOMAIN queue :
             /\ Applicable(queue, k - 1)
             /\ \E e \in PossibleErrors(disk.todos, queue[k], StorageFaults) \ {"none"} :
                   results'[w] = FailedQueue(Append(Applied(queue, k - 1),
                                                    ResultOf(queue[k], e)), queue)
        BY <1>3, <1>6, <1>7, <1>9, <2>2, <2>3
    <2> QED
        BY <1>1, <1>9, <2>1, <2>4 DEF QueueInv, Applicable
<1> QED
    BY <1>7, <1>8, <1>9

LEMMA WorkQueue ==
    ASSUME Inv, NEW w \in Workers, Receive(w) \/ Work(w), QueueInv(w)
    PROVE  QueueInv(w)'
<1> DEFINE Handled == {"begin", "commands", "rollback"}
<1>1. CASE RunScript(w)
    <2>1. pc[w] = "run_handlers" /\ UNCHANGED created
        BY <1>1 DEF RunScript
    <2>2. pc \in [Workers -> Places] /\ commands \in [Workers -> Seq(Commands)]
        BY DEF Inv, Typed, TypeOK
    <2>3. ASSUME NEW place, Goto(w, place)
          PROVE  pc'[w] = place
        BY <2>2, <2>3 DEF Goto
    <2>4. ASSUME NEW h \in pending[w], First(pending[w], h), "ok" \in h.script.endings,
                 commands' = [commands EXCEPT ![w] = QueuedBy(h.script, created[w])],
                 Goto(w, "begin"), UNCHANGED pending
          PROVE  QueueInv(w)'
        <3>1. commands'[w] = QueuedBy(h.script, created'[w]) /\ pc'[w] = "begin"
            BY <2>1, <2>2, <2>3, <2>4
        <3> QED
            BY <2>4, <3>1 DEF QueueInv
    <2>5. CASE Goto(w, "run_handlers")
        BY <2>3, <2>5 DEF QueueInv
    <2> QED
        BY <1>1, <2>4, <2>5 DEF RunScript, NextHandler, ScriptSees, Conclude
<1>2. CASE BeginTransaction(w)
    <2>1. /\ pc[w] = "begin" /\ UNCHANGED <<created, commands, results>> /\ results[w] = <<>>
          /\ commands[w] \in Seq(Commands) /\ pc \in [Workers -> Places]
        BY <1>2 DEF BeginTransaction, Inv, Typed, TypeOK, LocalsFit
    <2>2. CASE Goto(w, "commands") /\ UNCHANGED pending
        <3>1. pc'[w] = "commands" /\ Len(results'[w]) = 0
            BY <2>1, <2>2 DEF Goto
        <3>2. results'[w] = Applied(commands'[w], 0) /\ Applicable(commands[w], 0)'
            BY <2>1 DEF Applied, Applicable
        <3> QED
            BY <2>1, <2>2, <3>1, <3>2 DEF QueueInv, Applicable
    <2>3. CASE Goto(w, "run_handlers")
        BY <2>1, <2>3 DEF Goto, QueueInv
    <2> QED
        BY <1>2, <2>2, <2>3 DEF BeginTransaction, Conclude
<1>3. CASE RunCommand(w)
    BY <1>3, RunCommandQueue
<1>4. CASE ~(RunScript(w) \/ BeginTransaction(w) \/ RunCommand(w))
    <2>1. pc \in [Workers -> Places]
        BY DEF Inv, Typed, TypeOK
    <2>2. \E place : Goto(w, place) /\ place \notin Handled
        <3>1. CASE Receive(w)
            BY <3>1 DEF Receive, ReceiveTodo, ReceiveHandler, ReceivePage, ReceiveList, Answer
        <3>2. CASE Rollback(w) \/ Commit(w)
            <4>1. Goto(w, "run_handlers")
                BY <3>2 DEF Rollback, Commit, Conclude
            <4> QED
                BY <4>1
        <3>3. CASE Deliver(w)
            BY <3>3 DEF Deliver
        <3>4. CASE \/ InsertTodo(w) \/ ReadTodoRowid(w) \/ FindHandlers(w) \/ ReadBack(w)
                   \/ TestScript(w) \/ InsertHandler(w) \/ ReadHandlerRowid(w)
                   \/ ListHandlers(w) \/ CountTodos(w) \/ ReadPage(w)
            BY <3>4 DEF InsertTodo, ReadTodoRowid, FindHandlers, ReadBack, TestScript,
                   InsertHandler, ReadHandlerRowid, ListHandlers, CountTodos, ReadPage,
                   StatementFails, Answer
        <3> QED
            BY <1>4, <3>1, <3>2, <3>3, <3>4 DEF Work
    <2>3. pc'[w] \notin Handled
        BY <2>1, <2>2 DEF Goto
    <2> QED
        BY <2>3 DEF QueueInv
<1> QED
    BY <1>1, <1>2, <1>3, <1>4

Queues == \A w \in Workers : QueueInv(w)

LEMMA NextQueues ==
    ASSUME Inv, Queues, [Next]_vars
    PROVE  Queues'
<1>1. CASE UNCHANGED vars
    BY <1>1 DEF vars, store, handling, locals, Queues, QueueInv, Applicable
<1>2. CASE Crash
    BY <1>2 DEF Crash, Queues, QueueInv
<1>3. ASSUME NEW w \in Workers, Receive(w) \/ Work(w)
      PROVE  Queues'
    BY <1>3, WorkQueue, OthersQueue DEF Queues
<1> QED
    BY <1>1, <1>2, <1>3 DEF Next

LEMMA InitQueues == Init => Queues
BY DEF Init, Queues, QueueInv
-----------------------------------------------------------------------------
(* The report. *)

(* The results of a failed queue: those before the failed command rolled   *)
(* back, those after it not executed.                                      *)
LEMMA FailedQueueShape ==
    ASSUME NEW queue \in Seq(Commands), NEW k \in DOMAIN queue,
           NEW todos, NEW faults \in BOOLEAN,
           NEW error \in PossibleErrors(todos, queue[k], faults) \ {"none"}
    PROVE  LET all == FailedQueue(Append(Applied(queue, k - 1), ResultOf(queue[k], error)), queue)
           IN  /\ DOMAIN all = DOMAIN queue
               /\ all[k].status = "failed" /\ all[k].error = error
               /\ \A i \in DOMAIN queue \ {k} :
                     /\ all[i].status = IF i < k THEN "rolled_back" ELSE "not_executed"
                     /\ all[i].error = "none"
<1> DEFINE done == Applied(queue, k - 1)
           tried == Append(done, ResultOf(queue[k], error))
           all == FailedQueue(tried, queue)
<1>1. k \in Nat /\ k >= 1 /\ DOMAIN queue = 1..Len(queue) /\ Len(queue) \in Nat /\ k <= Len(queue)
    OBVIOUS
<1>2. \A i \in DOMAIN queue : queue[i] \in Commands
    OBVIOUS
<1>3. ResultOf(queue[k], error) \in CommandResults
    BY <1>2, ResultOfType
<1>4. /\ done \in Seq(CommandResults) /\ Len(done) = k - 1
      /\ \A i \in 1..(k - 1) : done[i].status = "applied" /\ done[i].error = "none"
    <2>1. ASSUME NEW i \in 1..(k - 1)
          PROVE  /\ ResultOf(queue[i], "none") \in CommandResults
                 /\ ResultOf(queue[i], "none").status = "applied"
                 /\ ResultOf(queue[i], "none").error = "none"
        <3>1. queue[i] \in Commands
            BY <1>1, <1>2
        <3> QED
            BY <3>1 DEF ResultOf, CommandResults, Statuses, CommandErrors
    <2>2. done \in [1..(k - 1) -> CommandResults] /\ k - 1 \in Nat
        BY <1>1, <2>1 DEF Applied
    <2>3. done \in Seq(CommandResults)
        BY <2>2, IsASeq
    <2>4. Len(done) = k - 1
        BY <2>2, <2>3, LenProperties
    <2> QED
        BY <2>1, <2>3, <2>4 DEF Applied
<1> HIDE DEF done
<1>5. /\ tried \in Seq(CommandResults) /\ DOMAIN tried = 1..k
      /\ tried[k] = ResultOf(queue[k], error)
      /\ \A i \in 1..(k - 1) : tried[i].status = "applied" /\ tried[i].error = "none"
    BY <1>1, <1>3, <1>4
<1> HIDE DEF tried
<1>6. ASSUME NEW i \in DOMAIN queue
      PROVE  all[i] = IF i \in 1..k THEN RolledBack(tried)[i]
                      ELSE [command |-> queue[i], error |-> "none", status |-> "not_executed"]
    BY <1>5 DEF FailedQueue
<1>7. DOMAIN all = DOMAIN queue
    BY DEF FailedQueue
<1>8. tried[k].status = "failed" /\ tried[k].error = error
    BY <1>5 DEF ResultOf
<1> HIDE DEF all
<1>9. all[k].status = "failed" /\ all[k].error = error
    <2>1. k \in 1..k /\ k \in DOMAIN tried
        BY <1>1, <1>5
    <2>2. all[k] = RolledBack(tried)[k]
        BY <1>6, <2>1
    <2>3. /\ RolledBack(tried)[k].error = tried[k].error
          /\ RolledBack(tried)[k].status =
                IF tried[k].status = "applied" THEN "rolled_back" ELSE tried[k].status
        BY <1>5, <2>1, RolledBackType
    <2> QED
        BY <1>8, <2>2, <2>3
<1>10. ASSUME NEW i \in DOMAIN queue, i < k
       PROVE  all[i].status = "rolled_back" /\ all[i].error = "none"
    <2>1. i \in 1..k /\ i \in 1..(k - 1) /\ i \in DOMAIN tried
        BY <1>1, <1>5, <1>10
    <2>2. all[i] = RolledBack(tried)[i]
        BY <1>6, <2>1
    <2>3. /\ RolledBack(tried)[i].error = tried[i].error
          /\ RolledBack(tried)[i].status =
                IF tried[i].status = "applied" THEN "rolled_back" ELSE tried[i].status
        BY <1>5, <2>1, RolledBackType
    <2>4. tried[i].status = "applied" /\ tried[i].error = "none"
        BY <1>5, <2>1
    <2> QED
        BY <2>2, <2>3, <2>4
<1>11. ASSUME NEW i \in DOMAIN queue, i > k
       PROVE  all[i].status = "not_executed" /\ all[i].error = "none"
    <2>1. i \notin 1..k
        BY <1>1, <1>11
    <2>2. all[i] = [command |-> queue[i], error |-> "none", status |-> "not_executed"]
        BY <1>6, <2>1
    <2> QED
        BY <2>2
<1>12. \A i \in DOMAIN queue \ {k} : i < k \/ i > k
    BY <1>1
<1> QED
    BY <1>7, <1>9, <1>10, <1>11, <1>12 DEF all, tried, done

(* What a handler concludes with is consistent.                            *)
LEMMA ConclusionsConsistent ==
    ASSUME Inv, NEW w \in Workers, QueueInv(w), NEW h \in pending[w]
    PROVE  /\ \A ending \in h.script.endings \ {"ok"} :
                 Consistent(HandlerResultOf(h, ending, <<>>, FALSE))
           /\ Consistent(HandlerResultOf(h, "command_error", <<>>, TRUE))
           /\ pc[w] = "rollback" =>
                 Consistent(HandlerResultOf(h, "command_error", results[w], FALSE))
           /\ pc[w] = "commands" =>
                 /\ Consistent(HandlerResultOf(h, "success", results[w], FALSE))
                 /\ Consistent(HandlerResultOf(h, "command_error", RolledBack(results[w]), TRUE))
<1>1. h.script.endings \subseteq Endings
    BY DEF Inv, Typed, TypeOK, Handler, Scripts
<1>2. \A ending \in h.script.endings \ {"ok"} :
         Consistent(HandlerResultOf(h, ending, <<>>, FALSE))
    BY <1>1 DEF Endings, Consistent, HandlerResultOf
<1>3. Consistent(HandlerResultOf(h, "command_error", <<>>, TRUE))
    BY DEF Consistent, HandlerResultOf
<1>4. results[w] \in Seq(CommandResults) /\ commands[w] \in Seq(Commands)
    BY DEF Inv, Typed, TypeOK
<1>5. ASSUME pc[w] = "rollback"
      PROVE  Consistent(HandlerResultOf(h, "command_error", results[w], FALSE))
    <2>1. PICK k \in DOMAIN commands[w] :
             \E error \in PossibleErrors(disk.todos, commands[w][k], StorageFaults) \ {"none"} :
                results[w] = FailedQueue(Append(Applied(commands[w], k - 1),
                                                ResultOf(commands[w][k], error)), commands[w])
        BY <1>5 DEF QueueInv
    <2>2. PICK error \in PossibleErrors(disk.todos, commands[w][k], StorageFaults) \ {"none"} :
             results[w] = FailedQueue(Append(Applied(commands[w], k - 1),
                                             ResultOf(commands[w][k], error)), commands[w])
        BY <2>1
    <2>3. /\ DOMAIN results[w] = DOMAIN commands[w]
          /\ results[w][k].status = "failed" /\ results[w][k].error # "none"
          /\ \A i \in DOMAIN commands[w] \ {k} :
                /\ results[w][i].status = IF i < k THEN "rolled_back" ELSE "not_executed"
                /\ results[w][i].error = "none"
        BY <1>4, <2>2, FailedQueueShape, DataAssumption
    <2> QED
        BY <2>3 DEF Consistent, HandlerResultOf
<1>6. ASSUME pc[w] = "commands"
      PROVE  /\ Consistent(HandlerResultOf(h, "success", results[w], FALSE))
             /\ Consistent(HandlerResultOf(h, "command_error", RolledBack(results[w]), TRUE))
    <2>1. results[w] = Applied(commands[w], Len(results[w]))
        BY <1>6 DEF QueueInv
    <2>2. \A i \in DOMAIN results[w] :
             results[w][i].status = "applied" /\ results[w][i].error = "none"
        <3>1. DOMAIN Applied(commands[w], Len(results[w])) = 1..Len(results[w])
            BY DEF Applied
        <3> QED
            BY <2>1, <3>1 DEF Applied, ResultOf
    <2>3. /\ DOMAIN RolledBack(results[w]) = DOMAIN results[w]
          /\ \A i \in DOMAIN results[w] : /\ RolledBack(results[w])[i].status = "rolled_back"
                                         /\ RolledBack(results[w])[i].error = "none"
        BY <1>4, <2>2, RolledBackType
    <2> QED
        BY <2>2, <2>3 DEF Consistent, HandlerResultOf
<1> QED
    BY <1>2, <1>3, <1>5, <1>6

(* The handler whose turn it is joins the report with a consistent result. *)
HandlerReported(w) ==
    /\ pc[w] \in {"run_handlers", "begin", "commands", "rollback"}
    /\ pc' = [pc EXCEPT ![w] = "run_handlers"]
    /\ UNCHANGED <<created, reply>>
    /\ \E h \in pending[w] : \E result :
          /\ First(pending[w], h) /\ result.id = h.id /\ Consistent(result)
          /\ report' = [report EXCEPT ![w] = Append(report[w], result)]
          /\ pending' = [pending EXCEPT ![w] = pending[w] \ {h}]

LEMMA ConcludesReported ==
    ASSUME NEW w \in Workers, NEW h \in pending[w], NEW status, NEW outcome, NEW storageError,
           Conclude(w, h, status, outcome, storageError), First(pending[w], h),
           Consistent(HandlerResultOf(h, status, outcome, storageError)),
           pc[w] \in {"run_handlers", "begin", "commands", "rollback"},
           UNCHANGED <<created, reply>>
    PROVE  HandlerReported(w)
<1> DEFINE result == HandlerResultOf(h, status, outcome, storageError)
<1>1. /\ report' = [report EXCEPT ![w] = Append(report[w], result)]
      /\ pending' = [pending EXCEPT ![w] = pending[w] \ {h}]
      /\ pc' = [pc EXCEPT ![w] = "run_handlers"]
    BY DEF Conclude, Goto
<1>2. result.id = h.id /\ Consistent(result)
    BY DEF HandlerResultOf
<1> HIDE DEF result
<1> QED
    BY <1>1, <1>2 DEF HandlerReported

(* How a step changes the report of its worker, and who is still to run.   *)
LEMMA StepReports ==
    ASSUME Inv, Queues, NEW w \in Workers, Receive(w) \/ Work(w)
    PROVE  \/ UNCHANGED <<report, pending>>
           \/ Deliver(w)
           \/ FindHandlers(w) /\ UNCHANGED <<report, reply>>
           \/ HandlerReported(w)
<1>1. CASE Receive(w)
    BY <1>1 DEF Receive, ReceiveTodo, ReceiveHandler, ReceivePage, ReceiveList, handling, locals
<1>2. CASE FindHandlers(w)
    BY <1>2 DEF FindHandlers, StatementFails, handling, locals
<1>3. CASE \/ InsertTodo(w) \/ ReadTodoRowid(w) \/ RunCommand(w) \/ ReadBack(w)
           \/ TestScript(w) \/ InsertHandler(w) \/ ReadHandlerRowid(w) \/ ListHandlers(w)
           \/ CountTodos(w) \/ ReadPage(w)
    BY <1>3 DEF InsertTodo, ReadTodoRowid, RunCommand, ReadBack, TestScript, InsertHandler,
           ReadHandlerRowid, ListHandlers, CountTodos, ReadPage, StatementFails, handling, locals
<1>4. QueueInv(w)
    BY DEF Queues
<1>5. CASE RunScript(w)
    <2>1. pc[w] = "run_handlers" /\ UNCHANGED <<created, reply>>
        BY <1>5 DEF RunScript
    <2>2. \/ UNCHANGED <<report, pending>>
          \/ \E h \in pending[w] : \E ending \in h.script.endings \ {"ok"} :
                First(pending[w], h) /\ Conclude(w, h, ending, <<>>, FALSE)
        BY <1>5 DEF RunScript, NextHandler
    <2>3. ASSUME NEW h \in pending[w], NEW ending \in h.script.endings \ {"ok"},
                 First(pending[w], h), Conclude(w, h, ending, <<>>, FALSE)
          PROVE  HandlerReported(w)
        <3>1. Consistent(HandlerResultOf(h, ending, <<>>, FALSE))
            BY <1>4, ConclusionsConsistent
        <3> QED
            BY <2>1, <2>3, <3>1, ConcludesReported
    <2> QED
        BY <2>2, <2>3
<1>6. CASE BeginTransaction(w)
    <2>1. pc[w] = "begin" /\ UNCHANGED <<created, reply>>
        BY <1>6 DEF BeginTransaction
    <2>2. \/ UNCHANGED <<report, pending>>
          \/ \E h \in pending[w] :
                First(pending[w], h) /\ Conclude(w, h, "command_error", <<>>, TRUE)
        BY <1>6 DEF BeginTransaction, NextHandler
    <2>3. ASSUME NEW h \in pending[w], First(pending[w], h),
                 Conclude(w, h, "command_error", <<>>, TRUE)
          PROVE  HandlerReported(w)
        <3>1. Consistent(HandlerResultOf(h, "command_error", <<>>, TRUE))
            BY <1>4, ConclusionsConsistent
        <3> QED
            BY <2>1, <2>3, <3>1, ConcludesReported
    <2> QED
        BY <2>2, <2>3
<1>7. CASE Rollback(w)
    <2>1. pc[w] = "rollback" /\ UNCHANGED <<created, reply>>
        BY <1>7 DEF Rollback
    <2>2. PICK h \in pending[w] :
             First(pending[w], h) /\ Conclude(w, h, "command_error", results[w], FALSE)
        BY <1>7 DEF Rollback, NextHandler
    <2>3. Consistent(HandlerResultOf(h, "command_error", results[w], FALSE))
        BY <1>4, <2>1, ConclusionsConsistent
    <2> QED
        BY <2>1, <2>2, <2>3, ConcludesReported
<1>8. CASE Commit(w)
    <2>1. pc[w] = "commands" /\ UNCHANGED <<created, reply>>
        BY <1>8 DEF Commit
    <2>2. PICK h \in pending[w] :
             /\ First(pending[w], h)
             /\ \/ Conclude(w, h, "success", results[w], FALSE)
                \/ Conclude(w, h, "command_error", RolledBack(results[w]), TRUE)
        BY <1>8 DEF Commit, NextHandler
    <2>3. /\ Consistent(HandlerResultOf(h, "success", results[w], FALSE))
          /\ Consistent(HandlerResultOf(h, "command_error", RolledBack(results[w]), TRUE))
        BY <1>4, <2>1, ConclusionsConsistent
    <2> QED
        BY <2>1, <2>2, <2>3, ConcludesReported
<1> QED
    BY <1>1, <1>2, <1>3, <1>5, <1>6, <1>7, <1>8 DEF Work

LEMMA NextReport ==
    ASSUME Inv, Queues, ReportConsistent, [Next]_vars
    PROVE  ReportConsistent'
<1>1. CASE UNCHANGED vars
    BY <1>1 DEF vars, handling, locals, ReportConsistent
<1>2. CASE Crash
    BY <1>2 DEF Crash, ReportConsistent
<1>3. ASSUME NEW w \in Workers, Receive(w) \/ Work(w)
      PROVE  ReportConsistent'
    <2>1. \A v \in Workers \ {w} : report'[v] = report[v]
        BY <1>3, StepIsLocal DEF Inv
    <2>2. report \in [Workers -> Seq(HandlerResult)]
        BY DEF Inv, Typed, TypeOK
    <2>3. CASE HandlerReported(w)
        <3>1. PICK result : Consistent(result) /\ report'[w] = Append(report[w], result)
            BY <2>2, <2>3 DEF HandlerReported
        <3>2. \A i \in DOMAIN report'[w] : \/ i \in DOMAIN report[w] /\ report'[w][i] = report[w][i]
                                          \/ report'[w][i] = result
            BY <2>2, <3>1
        <3> QED
            BY <2>1, <3>1, <3>2 DEF ReportConsistent
    <2>4. CASE Deliver(w)
        <3>1. report'[w] = <<>>
            BY <2>2, <2>4 DEF Deliver
        <3> QED
            BY <2>1, <3>1 DEF ReportConsistent
    <2>5. CASE UNCHANGED report
        BY <2>5 DEF ReportConsistent
    <2> QED
        BY <1>3, <2>3, <2>4, <2>5, StepReports
<1> QED
    BY <1>1, <1>2, <1>3 DEF Next

LEMMA QueueInvariance == Spec => [](Inv /\ RowInv /\ Queues)
<1>1. Inv /\ RowInv /\ Queues /\ [Next]_vars => Queues'
    BY NextQueues
<1> QED
    BY <1>1, InitQueues, RowInvariance, PTL DEF Spec

(* The report never shows an applied command of a handler that was rolled  *)
(* back, nor a failure without its one failed command in its place.        *)
THEOREM ReportsConsistent == Spec => []ReportConsistent
<1>1. Init => ReportConsistent
    BY DEF Init, ReportConsistent
<1>2. Inv /\ RowInv /\ Queues /\ ReportConsistent /\ [Next]_vars => ReportConsistent'
    BY NextReport
<1> QED
    BY <1>1, <1>2, QueueInvariance, PTL DEF Spec
-----------------------------------------------------------------------------
(* Which handlers run, and in which order. *)

Ran(w) == {report[w][i].id : i \in DOMAIN report[w]}
Waiting(w) == {h.id : h \in pending[w]}

(* The handlers a lookup finds that sees the first n handlers.             *)
EnabledUpTo(n) == {i \in 1..n : /\ disk.scripts[i].event = "ADDED_TODO"
                                /\ disk.scripts[i].enabled}

InOrder(w) ==
    /\ \A i, j \in DOMAIN report[w] : i < j => report[w][i].id < report[w][j].id
    /\ \A i \in Ran(w), j \in Waiting(w) : i < j
    /\ \E n \in known[w]..Len(disk.scripts) : Ran(w) \cup Waiting(w) = EnabledUpTo(n)

(* The handlers that wait are those of the table, under their ids.         *)
OrderInv(w) ==
    /\ RunsHandlers(w) \/ reply[w].kind = "todo_created" => InOrder(w)
    /\ ~RunsHandlers(w) /\ pc[w] # "answered" => report[w] = <<>>
    /\ \A h \in pending[w] :
          h.id \in DOMAIN disk.scripts /\ h.script = disk.scripts[h.id].script

(* Handlers are only added: no step makes the committed table shorter.     *)
LEMMA ScriptsGrow ==
    ASSUME Inv, [Next]_vars
    PROVE  Len(disk.scripts) <= Len(disk'.scripts)
<1>1. RowsStay
    BY NextRowsStay
<1>2. /\ disk.scripts \in Seq(HandlerRow) /\ disk'.scripts \in Seq(HandlerRow)
    BY NextTyped DEF Inv, Typed, TypeOK, Tables
<1>3. CASE Len(disk.scripts) = 0
    BY <1>2, <1>3
<1>4. CASE Len(disk.scripts) > 0
    <2>1. Len(disk.scripts) \in DOMAIN disk'.scripts
        BY <1>1, <1>2, <1>4 DEF RowsStay
    <2> QED
        BY <1>2, <2>1
<1> QED
    BY <1>2, <1>3, <1>4

(* What the history remembers of a request: set by its insert alone.       *)
LEMMA KnownSet ==
    ASSUME Inv, NEW w \in Workers, Receive(w) \/ Work(w)
    PROVE  \/ known'[w] = known[w]
           \/ InsertTodo(w) /\ known'[w] = Len(disk'.scripts)
           \/ Deliver(w) /\ known'[w] = 0
<1> USE DEF handling, StatementFails
<1>1. CASE Receive(w)
    BY <1>1 DEF Receive, ReceiveTodo, ReceiveHandler, ReceivePage, ReceiveList
<1>2. CASE InsertTodo(w)
    <2>1. conn = disk /\ ~inTxn
        BY <1>2, NothingUncommitted, ReadsCommitted DEF InsertTodo, Inv
    <2>2. WithTodo(conn, request[w].input).scripts = disk.scripts
        BY <2>1 DEF WithTodo, Inv, Typed, TypeOK, Tables
    <2> QED
        BY <1>2, <2>1, <2>2 DEF InsertTodo, Write, Inv, Typed, TypeOK
<1>3. CASE Deliver(w)
    BY <1>3 DEF Deliver, Inv, Typed, TypeOK
<1>4. CASE ReadTodoRowid(w) \/ FindHandlers(w) \/ RunScript(w) \/ BeginTransaction(w)
           \/ RunCommand(w) \/ Rollback(w) \/ Commit(w) \/ ReadBack(w)
    BY <1>4 DEF ReadTodoRowid, FindHandlers, RunScript, BeginTransaction, RunCommand, Rollback,
           Commit, ReadBack
<1>5. CASE TestScript(w) \/ InsertHandler(w) \/ ReadHandlerRowid(w) \/ ListHandlers(w)
           \/ CountTodos(w) \/ ReadPage(w)
    BY <1>5 DEF TestScript, InsertHandler, ReadHandlerRowid, ListHandlers, CountTodos, ReadPage
<1> QED
    BY <1>1, <1>2, <1>3, <1>4, <1>5 DEF Work

(* No request knows of handlers that are not stored.                       *)
KnownStored == \A w \in Workers : known[w] <= Len(disk.scripts)

LEMMA NextKnownStored ==
    ASSUME Inv, KnownStored, [Next]_vars
    PROVE  KnownStored'
<1>1. /\ Len(disk.scripts) \in Nat /\ Len(disk'.scripts) \in Nat
      /\ \A v \in Workers : known[v] \in Nat
    BY NextTyped DEF Inv, Typed, TypeOK, Tables
<1>2. Len(disk.scripts) <= Len(disk'.scripts)
    BY ScriptsGrow
<1>3. CASE UNCHANGED vars
    BY <1>3 DEF vars, handling, store, KnownStored
<1>4. CASE Crash
    BY <1>1, <1>4 DEF Crash, KnownStored
<1>5. ASSUME NEW w \in Workers, Receive(w) \/ Work(w)
      PROVE  KnownStored'
    <2>1. \A v \in Workers \ {w} : known'[v] = known[v]
        BY <1>5, StepIsLocal DEF Inv
    <2>2. known'[w] \in {known[w], Len(disk'.scripts), 0}
        BY <1>5, KnownSet
    <2> QED
        BY <1>1, <1>2, <2>1, <2>2 DEF KnownStored
<1> QED
    BY <1>3, <1>4, <1>5 DEF Next

LEMMA OrderStays ==
    ASSUME Inv, [Next]_vars, NEW w \in Workers, report'[w] = report[w], pending'[w] = pending[w],
           known'[w] = known[w]
    PROVE  /\ InOrder(w) => InOrder(w)'
           /\ (\A h \in pending[w] :
                  h.id \in DOMAIN disk.scripts /\ h.script = disk.scripts[h.id].script)
              => (\A h \in pending[w] :
                     h.id \in DOMAIN disk.scripts /\ h.script = disk.scripts[h.id].script)'
<1>1. RowsStay
    BY NextRowsStay
<1>2. /\ disk.scripts \in Seq(HandlerRow) /\ disk'.scripts \in Seq(HandlerRow)
    BY NextTyped DEF Inv, Typed, TypeOK, Tables
<1>3. known[w] \in Nat /\ Len(disk.scripts) <= Len(disk'.scripts)
    BY ScriptsGrow DEF Inv, Typed, TypeOK
<1>4. ASSUME NEW n \in known[w]..Len(disk.scripts)
      PROVE  n \in known'[w]..Len(disk'.scripts) /\ EnabledUpTo(n)' = EnabledUpTo(n)
    <2>1. \A i \in 1..n : i \in DOMAIN disk.scripts
        BY <1>2
    <2> QED
        BY <1>1, <1>2, <1>3, <2>1 DEF RowsStay, EnabledUpTo
<1>5. Ran(w)' = Ran(w) /\ Waiting(w)' = Waiting(w)
    BY DEF Ran, Waiting
<1>6. InOrder(w) => InOrder(w)'
    BY <1>4, <1>5 DEF InOrder
<1> QED
    BY <1>1, <1>6 DEF RowsStay

(* The handlers found: all that are enabled at this moment.                *)
LEMMA FindHandlersOrder ==
    ASSUME Inv, RowInv, KnownStored, NEW w \in Workers, FindHandlers(w), OrderInv(w)
    PROVE  OrderInv(w)'
<1>1. pc[w] = "find_handlers" /\ report[w] = <<>> /\ reply[w] = None
    BY DEF FindHandlers, OrderInv, RowInv, OwnRow, RunsHandlers
<1>2. CASE StatementFails(w)
    <2>1. pc'[w] = "answered" /\ UNCHANGED <<disk, pending, report>>
        BY <1>2 DEF StatementFails, Answer, Goto, handling, locals, Inv, Typed, TypeOK
    <2>2. reply'[w].kind = "internal_error"
        BY <1>2, FailureReply
    <2> QED
        BY <2>1, <2>2 DEF OrderInv, RunsHandlers
<1>3. CASE /\ pending' = [pending EXCEPT ![w] = HandlersFor(conn, "ADDED_TODO")]
           /\ Goto(w, "run_handlers")
           /\ UNCHANGED <<store, request, created, commands, results, report, known, total, reply>>
    <2>1. conn = disk /\ disk' = disk
        BY <1>3, ReadsCommitted DEF FindHandlers, store
    <2>2. pending'[w] = HandlersFor(disk, "ADDED_TODO") /\ pc'[w] = "run_handlers"
          /\ report'[w] = <<>>
        BY <1>1, <1>3, <2>1 DEF Goto, Inv, Typed, TypeOK
    <2>3. disk.scripts \in Seq(HandlerRow)
        BY DEF Inv, Typed, TypeOK, Tables
    <2>4. Ran(w)' = {}
        BY <2>2 DEF Ran
    <2>5. Waiting(w)' = EnabledUpTo(Len(disk.scripts))
        <3>1. DOMAIN disk.scripts = 1..Len(disk.scripts)
            BY <2>3
        <3>2. Waiting(w)' = {h.id : h \in HandlersFor(disk, "ADDED_TODO")}
            BY <2>2 DEF Waiting
        <3>3. ASSUME NEW h \in HandlersFor(disk, "ADDED_TODO")
              PROVE  h.id \in EnabledUpTo(Len(disk.scripts))
            BY <3>1 DEF HandlersFor, EnabledUpTo
        <3>4. ASSUME NEW i \in EnabledUpTo(Len(disk.scripts))
              PROVE  \E h \in HandlersFor(disk, "ADDED_TODO") : h.id = i
            <4>1. [id |-> i, script |-> disk.scripts[i].script] \in HandlersFor(disk, "ADDED_TODO")
                BY <3>1 DEF HandlersFor, EnabledUpTo
            <4> QED
                BY <4>1
        <3> QED
            BY <3>2, <3>3, <3>4
    <2>6. EnabledUpTo(Len(disk.scripts))' = EnabledUpTo(Len(disk.scripts))
          /\ Len(disk.scripts) \in known'[w]..Len(disk.scripts)
        BY <1>3, <2>1, <2>3 DEF EnabledUpTo, KnownStored, Inv, Typed, TypeOK
    <2>7. InOrder(w)'
        BY <2>1, <2>2, <2>4, <2>5, <2>6 DEF InOrder
    <2>8. \A h \in HandlersFor(disk, "ADDED_TODO") :
             h.id \in DOMAIN disk.scripts /\ h.script = disk.scripts[h.id].script
        BY DEF HandlersFor
    <2> QED
        BY <2>1, <2>2, <2>7, <2>8 DEF OrderInv, RunsHandlers
<1> QED
    BY <1>2, <1>3 DEF FindHandlers

(* The handler whose turn it is has the least id of those that wait, and   *)
(* goes behind all that ran.                                               *)
LEMMA ReportedInOrder ==
    ASSUME Inv, NEW w \in Workers, Work(w), HandlerReported(w), OrderInv(w), disk'.scripts = disk.scripts
    PROVE  OrderInv(w)'
<1>1. PICK h, result :
         /\ h \in pending[w] /\ First(pending[w], h) /\ result.id = h.id
         /\ report' = [report EXCEPT ![w] = Append(report[w], result)]
         /\ pending' = [pending EXCEPT ![w] = pending[w] \ {h}]
    BY DEF HandlerReported
<1>2. pc'[w] = "run_handlers" /\ InOrder(w)
    BY DEF HandlerReported, OrderInv, RunsHandlers, Inv, Typed, TypeOK
<1>3. report[w] \in Seq(HandlerResult) /\ pending[w] \subseteq Handler
    BY DEF Inv, Typed, TypeOK
<1>4. report'[w] = Append(report[w], result) /\ pending'[w] = pending[w] \ {h}
    BY <1>1 DEF Inv, Typed, TypeOK
<1> DEFINE n == Len(report[w])
<1>5. /\ n \in Nat /\ DOMAIN report[w] = 1..n /\ DOMAIN report'[w] = 1..(n + 1)
      /\ \A i \in 1..n : report'[w][i] = report[w][i]
      /\ report'[w][n + 1].id = h.id
    BY <1>1, <1>3, <1>4
<1> HIDE DEF n
<1>6. h.id \in Waiting(w) /\ Waiting(w) \subseteq Nat /\ \A i \in 1..n : report[w][i].id \in Ran(w) \cap Nat
    <2>1. \A i \in 1..n : report[w][i] \in HandlerResult
        BY <1>3, <1>5
    <2> QED
        BY <1>1, <1>3, <1>5, <2>1 DEF Waiting, Ran, Handler, HandlerResult
<1>7. Ran(w)' = Ran(w) \cup {h.id}
    <2>1. 1..(n + 1) = (1..n) \cup {n + 1}
        BY <1>5
    <2> QED
        BY <1>5, <2>1 DEF Ran
<1>8. Waiting(w) = Waiting(w)' \cup {h.id}
    BY <1>1, <1>4 DEF Waiting
<1>9. \A j \in Waiting(w)' : h.id < j
    <2>1. ASSUME NEW g \in pending[w] \ {h}
          PROVE  h.id < g.id
        <3>1. h.id <= g.id /\ h.id \in Nat /\ g.id \in Nat
            BY <1>1, <1>3 DEF First, Handler
        <3>2. h.id # g.id
            BY <1>1, <1>3 DEF OrderInv, Handler
        <3> QED
            BY <3>1, <3>2
    <2> QED
        BY <1>4, <2>1 DEF Waiting
<1>10. \A i, j \in 1..(n + 1) : i < j => report'[w][i].id < report'[w][j].id
    <2>1. \A i, j \in 1..n : i < j => report[w][i].id < report[w][j].id
        BY <1>2, <1>5 DEF InOrder
    <2>2. \A i \in 1..n : report[w][i].id < h.id
        BY <1>2, <1>6 DEF InOrder
    <2>3. \A i, j \in 1..(n + 1) : i < j => i \in 1..n /\ (j \in 1..n \/ j = n + 1)
        BY <1>5
    <2> QED
        BY <1>5, <2>1, <2>2, <2>3
<1>11. \A i \in Ran(w)', j \in Waiting(w)' : i < j
    BY <1>2, <1>7, <1>8, <1>9 DEF InOrder
<1>12. \E k \in known'[w]..Len(disk'.scripts) : Ran(w)' \cup Waiting(w)' = EnabledUpTo(k)'
    <2>1. PICK k \in known[w]..Len(disk.scripts) : Ran(w) \cup Waiting(w) = EnabledUpTo(k)
        BY <1>2 DEF InOrder
    <2>2. EnabledUpTo(k)' = EnabledUpTo(k)
        BY DEF EnabledUpTo
    <2>3. Ran(w)' \cup Waiting(w)' = Ran(w) \cup Waiting(w)
        BY <1>7, <1>8
    <2>4. known'[w] = known[w]
        BY KnownSet DEF HandlerReported, InsertTodo, Deliver
    <2> QED
        BY <2>1, <2>2, <2>3, <2>4
<1>13. InOrder(w)'
    BY <1>5, <1>10, <1>11, <1>12 DEF InOrder
<1> QED
    BY <1>2, <1>4, <1>13 DEF OrderInv, RunsHandlers

(* Concluding a handler stores no other one.                               *)
LEMMA ReportedKeepsHandlers ==
    ASSUME Inv, NEW w \in Workers, Work(w), HandlerReported(w)
    PROVE  disk'.scripts = disk.scripts
<1>1. AllOrNothing /\ disk \in Tables
    BY NextAllOrNothing DEF Next, Inv, Typed, TypeOK
<1>2. CASE InsertTodo(w) \/ InsertHandler(w)
    BY <1>2 DEF InsertTodo, InsertHandler, HandlerReported
<1>3. CASE ~(InsertTodo(w) \/ InsertHandler(w))
    <2>1. CASE Commit(w)
        <3>1. disk' = conn \/ disk' = disk
            BY <2>1 DEF Commit
        <3>2. conn = [disk EXCEPT !.todos = EffectOf(@, commands[w], Len(results[w]))]
            BY <2>1 DEF Commit, Inv, Isolation
        <3> QED
            BY <1>1, <3>1, <3>2 DEF Tables
    <2>2. CASE RunCommand(w)
        <3>1. inTxn = TRUE
            BY <2>2, OneTransaction DEF RunCommand, Inv, InTransaction
        <3> QED
            BY <2>2, <3>1 DEF RunCommand, Write
    <2>3. CASE ~Commit(w) /\ ~RunCommand(w)
        BY <1>3, <2>3
           DEF Work, ReadTodoRowid, FindHandlers, RunScript, BeginTransaction, Rollback, ReadBack,
               TestScript, ReadHandlerRowid, ListHandlers, CountTodos, ReadPage, Deliver,
               StatementFails, store
    <2> QED
        BY <2>1, <2>2, <2>3
<1> QED
    BY <1>2, <1>3

(* Apart from FindHandlers no step starts running handlers or answers with *)
(* a created todo before they ran, and none but Deliver ends the request.  *)
LEMMA OtherStepsKeepPlace ==
    ASSUME Inv, NEW w \in Workers, Receive(w) \/ Work(w), ~FindHandlers(w), ~Deliver(w)
    PROVE  /\ (RunsHandlers(w)' \/ reply'[w].kind = "todo_created")
              => (RunsHandlers(w) \/ reply[w].kind = "todo_created")
           /\ (~RunsHandlers(w)' /\ pc'[w] # "answered")
              => (~RunsHandlers(w) /\ pc[w] # "answered")
<1> USE DEF RunsHandlers, Goto, Answer, Inv, Typed, TypeOK
<1>1. CASE Receive(w)
    BY <1>1 DEF Receive, ReceiveTodo, ReceiveHandler, ReceivePage, ReceiveList
<1>2. CASE StatementFails(w) /\ pc[w] # "answered"
    BY <1>2 DEF StatementFails
<1>3. CASE InsertTodo(w) \/ ReadTodoRowid(w) \/ ReadBack(w)
    BY <1>2, <1>3 DEF InsertTodo, ReadTodoRowid, ReadBack
<1>4. CASE RunScript(w) \/ BeginTransaction(w) \/ RunCommand(w) \/ Rollback(w) \/ Commit(w)
    BY <1>4 DEF RunScript, BeginTransaction, RunCommand, Rollback, Commit, Conclude
<1>5. CASE TestScript(w) \/ InsertHandler(w) \/ ReadHandlerRowid(w) \/ ListHandlers(w)
    BY <1>2, <1>5 DEF TestScript, InsertHandler, ReadHandlerRowid, ListHandlers
<1>6. CASE CountTodos(w) \/ ReadPage(w)
    BY <1>2, <1>6 DEF CountTodos, ReadPage
<1> QED
    BY <1>1, <1>3, <1>4, <1>5, <1>6 DEF Work

Orders == \A w \in Workers : OrderInv(w)

LEMMA NextOrders ==
    ASSUME Inv, RowInv, Queues, KnownStored, Orders, [Next]_vars
    PROVE  Orders'
<1>1. CASE UNCHANGED vars
    <2>1. UNCHANGED <<pc, reply, report, pending, known>>
        BY <1>1 DEF vars, handling, locals
    <2>2. ASSUME NEW v \in Workers
          PROVE  OrderInv(v)'
        <3>1. OrderInv(v)
            BY DEF Orders
        <3> QED
            BY <2>1, <3>1, OrderStays DEF OrderInv, RunsHandlers
    <2> QED
        BY <2>2 DEF Orders
<1>2. CASE Crash
    BY <1>2 DEF Crash, Orders, OrderInv, RunsHandlers, None
<1>3. ASSUME NEW w \in Workers, Receive(w) \/ Work(w)
      PROVE  Orders'
    <2>1. ASSUME NEW v \in Workers \ {w}
          PROVE  OrderInv(v)'
        <3>1. /\ pc'[v] = pc[v] /\ reply'[v] = reply[v] /\ report'[v] = report[v]
              /\ pending'[v] = pending[v] /\ known'[v] = known[v]
            BY <1>3, StepIsLocal DEF Inv
        <3>2. OrderInv(v)
            BY DEF Orders
        <3> QED
            BY <3>1, <3>2, OrderStays DEF OrderInv, RunsHandlers
    <2>2. OrderInv(w)
        BY DEF Orders
    <2>3. CASE FindHandlers(w)
        BY <2>1, <2>2, <2>3, FindHandlersOrder DEF Orders
    <2>4. CASE HandlerReported(w)
        <3>1. Work(w)
            BY <1>3, <2>4 DEF Receive, ReceiveTodo, ReceiveHandler, ReceivePage, ReceiveList,
                   HandlerReported
        <3> QED
            BY <2>1, <2>2, <2>4, <3>1, ReportedInOrder, ReportedKeepsHandlers DEF Orders
    <2>5. CASE Deliver(w)
        <3>1. pc'[w] = "idle" /\ report'[w] = <<>> /\ pending'[w] = {} /\ reply'[w] = None
            BY <2>5 DEF Deliver, Goto, Inv, Typed, TypeOK
        <3> QED
            BY <2>1, <3>1 DEF Orders, OrderInv, RunsHandlers, None
    <2>6. CASE UNCHANGED <<report, pending>> /\ ~FindHandlers(w) /\ ~Deliver(w)
        <3>1. known'[w] = known[w] \/ ~(RunsHandlers(w) \/ reply[w].kind = "todo_created")
            BY <1>3, <2>6, KnownSet DEF InsertTodo, RunsHandlers, RowInv, OwnRow, None
        <3>2. \A h \in pending'[w] :
                 h.id \in DOMAIN disk'.scripts /\ h.script = disk'.scripts[h.id].script
            BY <2>2, <2>6, NextRowsStay DEF OrderInv, RowsStay
        <3>3. OrderInv(w)'
            BY <1>3, <2>2, <2>6, <3>1, <3>2, OrderStays, OtherStepsKeepPlace DEF OrderInv
        <3> QED
            BY <2>1, <3>3 DEF Orders
    <2> QED
        BY <1>3, <2>3, <2>4, <2>5, <2>6, StepReports
<1> QED
    BY <1>1, <1>2, <1>3 DEF Next

LEMMA InitOrders == Init => Orders /\ KnownStored
BY DEF Init, Orders, OrderInv, RunsHandlers, None, KnownStored, NoRows

LEMMA OrderInvariance == Spec => [](KnownStored /\ Orders)
<1>1. Inv /\ RowInv /\ Queues /\ KnownStored /\ Orders /\ [Next]_vars
         => KnownStored' /\ Orders'
    BY NextOrders, NextKnownStored
<1> QED
    BY <1>1, InitOrders, QueueInvariance, PTL DEF Spec

(* Each handler that was enabled at one moment after the insert runs       *)
(* exactly once, in the order of the ids, whatever handlers other requests *)
(* add meanwhile and however the earlier handlers ended; the moment is no  *)
(* earlier than the insert, so every handler stored before it is among them*)
(* if it is enabled for the event.                                         *)
THEOREM HandlersInOrder == Spec => []HandlersRunOnceInOrder
<1>1. Orders => HandlersRunOnceInOrder
    BY DEF Orders, OrderInv, InOrder, Ran, Waiting, EnabledUpTo, HandlersRunOnceInOrder
<1> QED
    BY <1>1, OrderInvariance, PTL
=============================================================================
