------------------------ MODULE TodoRefinement_proofs ------------------------
(***************************************************************************)
(* Proof that TodoServer implements TodoService, for any set of workers,   *)
(* any scripts and inputs, with storage faults and crashes or without:     *)
(* every step of the server is a step of the service or changes nothing    *)
(* that the service shows.                                                 *)
(***************************************************************************)
EXTENDS TodoRefinement, TodoAnswers_proofs

(* The service's variables, seen in the server's.                          *)
StageMap == [w \in Workers |-> StageOf(w)]
WorkMap == [w \in Workers |-> WorkOf(w)]

(* What the modules share means the same in both.                          *)
LEMMA SharedRequests ==
    /\ Service!None = None
    /\ \A input : Service!ValidTodo(input) <=> ValidTodo(input)
    /\ \A tables, input : /\ Service!WithTodo(tables, input) = WithTodo(tables, input)
                          /\ Service!WithHandler(tables, input) = WithHandler(tables, input)
    /\ \A tables, id : Service!TodoTaskOf(tables, id) = TodoTaskOf(tables, id)
    /\ \A tables, event : Service!HandlersFor(tables, event) = HandlersFor(tables, event)
    /\ \A id, input : Service!SnapshotOf(id, input) = SnapshotOf(id, input)
<1>1. Service!None = None
    BY DEF None, Service!None
<1>2. \A input : Service!ValidTodo(input) <=> ValidTodo(input)
    BY DEF ValidTodo, Service!ValidTodo, UIntMax, Service!UIntMax
<1>3. \A tables, input : /\ Service!WithTodo(tables, input) = WithTodo(tables, input)
                         /\ Service!WithHandler(tables, input) = WithHandler(tables, input)
    BY DEF WithTodo, Service!WithTodo, WithHandler, Service!WithHandler
<1>4. \A tables, id : Service!TodoTaskOf(tables, id) = TodoTaskOf(tables, id)
    BY DEF TodoTaskOf, Service!TodoTaskOf
<1>5. \A tables, event : Service!HandlersFor(tables, event) = HandlersFor(tables, event)
    BY DEF HandlersFor, Service!HandlersFor
<1>6. \A id, input : Service!SnapshotOf(id, input) = SnapshotOf(id, input)
    BY DEF SnapshotOf, Service!SnapshotOf
<1> QED
    BY <1>1, <1>2, <1>3, <1>4, <1>5, <1>6

LEMMA SharedPages ==
    ASSUME NEW tables, NEW offset, NEW limit
    PROVE  Service!PageOf(tables, offset, limit) = PageOf(tables, offset, limit)
BY DEF PageOf, Service!PageOf, TodoTaskOf, Service!TodoTaskOf

LEMMA SharedCommands ==
    /\ \A script, todo : Service!QueuedBy(script, todo) = QueuedBy(script, todo)
    /\ \A todos, command, faults :
          Service!PossibleErrors(todos, command, faults) = PossibleErrors(todos, command, faults)
    /\ \A command, error : Service!ResultOf(command, error) = ResultOf(command, error)
    /\ \A outcome : Service!RolledBack(outcome) = RolledBack(outcome)
    /\ \A outcome, queue : Service!FailedQueue(outcome, queue) = FailedQueue(outcome, queue)
    /\ \A todos, queue, n : Service!EffectOf(todos, queue, n) = EffectOf(todos, queue, n)
    /\ \A handlers, h : Service!First(handlers, h) <=> First(handlers, h)
    /\ \A h, status, outcome, storageError :
          Service!HandlerResultOf(h, status, outcome, storageError)
              = HandlerResultOf(h, status, outcome, storageError)
<1>1. \A script, todo : Service!QueuedBy(script, todo) = QueuedBy(script, todo)
    BY DEF QueuedBy, Service!QueuedBy, CommandOf, Service!CommandOf, ValueOf, Service!ValueOf,
           ToInt, Service!ToInt
<1>2. \A todos, command, faults :
         Service!PossibleErrors(todos, command, faults) = PossibleErrors(todos, command, faults)
    BY DEF PossibleErrors, Service!PossibleErrors, ValidationError, Service!ValidationError
<1>3. \A command, error : Service!ResultOf(command, error) = ResultOf(command, error)
    BY DEF ResultOf, Service!ResultOf
<1>4. \A outcome : Service!RolledBack(outcome) = RolledBack(outcome)
    BY DEF RolledBack, Service!RolledBack
<1>5. \A outcome, queue : Service!FailedQueue(outcome, queue) = FailedQueue(outcome, queue)
    BY <1>4 DEF FailedQueue, Service!FailedQueue
<1>6. \A todos, queue, n : Service!EffectOf(todos, queue, n) = EffectOf(todos, queue, n)
    BY DEF EffectOf, Service!EffectOf, Setters, Service!Setters, LastOf, Service!LastOf,
           Completes, Service!Completes
<1>7. \A handlers, h : Service!First(handlers, h) <=> First(handlers, h)
    BY DEF First, Service!First
<1>8. \A h, status, outcome, storageError :
         Service!HandlerResultOf(h, status, outcome, storageError)
             = HandlerResultOf(h, status, outcome, storageError)
    BY DEF HandlerResultOf, Service!HandlerResultOf
<1> QED
    BY <1>1, <1>2, <1>3, <1>4, <1>5, <1>6, <1>7, <1>8

(* Where a worker is decides how far the service is with its request.      *)
LEMMA StageAt ==
    ASSUME NEW w \in Workers
    PROVE  /\ pc[w] \in {"idle", "answered"} => StageOf(w) = pc[w]
           /\ pc[w] \in {"read_todo_rowid", "read_handler_rowid", "find_handlers"}
                 => StageOf(w) = "stored"
           /\ pc[w] \in Running => StageOf(w) = "running"
           /\ pc[w] \in {"insert_todo", "test_script", "insert_handler", "list_handlers",
                         "count_todos", "read_page"} => StageOf(w) = "accepted"
BY DEF StageOf, ReadingRowid, Running

LEMMA WorkAt ==
    ASSUME NEW w \in Workers
    PROVE  /\ pc[w] \notin Running \cup ReadingRowid \cup {"find_handlers"}
                 => WorkOf(w) = Service!NoWork
           /\ pc[w] \in ReadingRowid => WorkOf(w) = [id |-> lastRowid, pending |-> {}, report |-> <<>>]
           /\ pc[w] = "find_handlers" =>
                 WorkOf(w) = [id |-> created[w].id, pending |-> {}, report |-> <<>>]
           /\ pc[w] \in Running =>
                 WorkOf(w) = [id |-> created[w].id, pending |-> pending[w], report |-> report[w]]
BY DEF WorkOf, Service!NoWork, ReadingRowid, Running

(* A step of one worker changes nothing of what the service shows of the   *)
(* others: the row id of the connection stays while one has yet to read it.*)
LEMMA OthersStay ==
    ASSUME Inv, NEW w \in Workers, Receive(w) \/ Work(w), NEW v \in Workers \ {w}
    PROVE  StageOf(v)' = StageOf(v) /\ WorkOf(v)' = WorkOf(v)
<1>1. /\ pc'[v] = pc[v] /\ created'[v] = created[v]
      /\ pending'[v] = pending[v] /\ report'[v] = report[v]
    BY StepIsLocal DEF Inv
<1>2. pc[v] \in ReadingRowid => lastRowid' = lastRowid
    BY StoreIsHeld DEF Inv, InMutex, ReadingRowid
<1> QED
    BY <1>1, <1>2 DEF StageOf, WorkOf

LEMMA Maps ==
    ASSUME Inv, NEW w \in Workers, Receive(w) \/ Work(w)
    PROVE  /\ StageMap' = [StageMap EXCEPT ![w] = StageOf(w)']
           /\ WorkMap' = [WorkMap EXCEPT ![w] = WorkOf(w)']
BY OthersStay DEF StageMap, WorkMap

WorkRecord == [id : Nat, pending : SUBSET Handler, report : Seq(HandlerResult)]

LEMMA WorkTyped ==
    ASSUME Inv, [Next]_vars, NEW w \in Workers
    PROVE  WorkOf(w) \in WorkRecord /\ WorkOf(w)' \in WorkRecord
<1>1. Typed /\ Typed'
    BY NextTyped DEF Inv
<1>2. ASSUME Typed
      PROVE  WorkOf(w) \in WorkRecord
    <2>1. /\ lastRowid \in Nat /\ pending[w] \in SUBSET Handler /\ report[w] \in Seq(HandlerResult)
          /\ pc[w] \in Running \cup {"find_handlers"} => created[w].id \in Nat
        BY <1>2 DEF Typed, TypeOK, LocalsFit, HoldingTodo, Running, TodoTask
    <2> QED
        BY <2>1 DEF WorkOf, WorkRecord
<1>3. ASSUME Typed'
      PROVE  WorkOf(w)' \in WorkRecord
    <2>1. /\ lastRowid' \in Nat /\ pending'[w] \in SUBSET Handler /\ report'[w] \in Seq(HandlerResult)
          /\ pc'[w] \in Running \cup {"find_handlers"} => created'[w].id \in Nat
        BY <1>3 DEF Typed, TypeOK, LocalsFit, HoldingTodo, Running, TodoTask
    <2> QED
        BY <2>1 DEF WorkOf, WorkRecord
<1> QED
    BY <1>1, <1>2, <1>3

(* The work a step leaves, as an update of the one it found.               *)
LEMMA WorkMaps ==
    ASSUME Inv, NEW w \in Workers, Receive(w) \/ Work(w)
    PROVE  /\ WorkOf(w)'.pending = WorkOf(w).pending /\ WorkOf(w)'.report = WorkOf(w).report
                 => WorkMap' = [WorkMap EXCEPT ![w].id = WorkOf(w)'.id]
           /\ WorkOf(w)'.id = WorkOf(w).id /\ WorkOf(w)'.report = WorkOf(w).report
                 => WorkMap' = [WorkMap EXCEPT ![w].pending = WorkOf(w)'.pending]
           /\ \A h, x :
                 /\ WorkOf(w)'.id = WorkOf(w).id /\ WorkOf(w)'.pending = WorkOf(w).pending \ {h}
                 /\ WorkOf(w)'.report = Append(WorkOf(w).report, x)
                 => WorkMap' = [WorkMap EXCEPT ![w].pending = @ \ {h}, ![w].report = Append(@, x)]
<1>1. WorkMap' = [WorkMap EXCEPT ![w] = WorkOf(w)'] /\ WorkMap[w] = WorkOf(w)
    BY Maps DEF WorkMap
<1>2. WorkMap[w] \in WorkRecord /\ WorkOf(w)' \in WorkRecord
    BY <1>1, WorkTyped DEF Next
<1> DEFINE f == WorkMap
           r == WorkOf(w)'
<1>3. f[w] \in [id : Nat, pending : SUBSET Handler, report : Seq(HandlerResult)]
      /\ r \in [id : Nat, pending : SUBSET Handler, report : Seq(HandlerResult)]
    BY <1>2 DEF WorkRecord
<1>4. f[w] = WorkOf(w) /\ WorkMap' = [f EXCEPT ![w] = r]
    BY <1>1
<1> HIDE DEF f, r
<1>5. ASSUME r.pending = f[w].pending, r.report = f[w].report
      PROVE  WorkMap' = [f EXCEPT ![w].id = r.id]
    <2>1. [f[w] EXCEPT !.id = r.id] = r
        BY <1>3, <1>5
    <2>2. [f EXCEPT ![w].id = r.id] = [f EXCEPT ![w] = [f[w] EXCEPT !.id = r.id]]
        OBVIOUS
    <2> QED
        BY <1>4, <2>1, <2>2, Zenon
<1>6. ASSUME r.id = f[w].id, r.report = f[w].report
      PROVE  WorkMap' = [f EXCEPT ![w].pending = r.pending]
    <2>1. [f[w] EXCEPT !.pending = r.pending] = r
        BY <1>3, <1>6
    <2>2. [f EXCEPT ![w].pending = r.pending] = [f EXCEPT ![w] = [f[w] EXCEPT !.pending = r.pending]]
        OBVIOUS
    <2> QED
        BY <1>4, <2>1, <2>2, Zenon
<1>7. ASSUME NEW h, NEW x, r.id = f[w].id, r.pending = f[w].pending \ {h},
             r.report = Append(f[w].report, x)
      PROVE  WorkMap' = [f EXCEPT ![w].pending = @ \ {h}, ![w].report = Append(@, x)]
    <2>1. [f[w] EXCEPT !.pending = r.pending, !.report = r.report] = r
        BY <1>3, <1>7
    <2>2. [f EXCEPT ![w].pending = @ \ {h}, ![w].report = Append(@, x)]
             = [f EXCEPT ![w] = [f[w] EXCEPT !.pending = f[w].pending \ {h},
                                             !.report = Append(f[w].report, x)]]
        OBVIOUS
    <2>3. [f[w] EXCEPT !.pending = f[w].pending \ {h}, !.report = Append(f[w].report, x)] = r
        BY <1>7, <2>1, Zenon
    <2> QED
        BY <1>4, <2>2, <2>3, Zenon
<1>8. /\ WorkOf(w)'.pending = f[w].pending /\ WorkOf(w)'.report = f[w].report
            => WorkMap' = [f EXCEPT ![w].id = WorkOf(w)'.id]
      /\ WorkOf(w)'.id = f[w].id /\ WorkOf(w)'.report = f[w].report
            => WorkMap' = [f EXCEPT ![w].pending = WorkOf(w)'.pending]
    BY <1>5, <1>6, Zenon DEF r
<1>9. ASSUME NEW h, NEW x, WorkOf(w)'.id = WorkOf(w).id,
             WorkOf(w)'.pending = WorkOf(w).pending \ {h},
             WorkOf(w)'.report = Append(WorkOf(w).report, x)
      PROVE  WorkMap' = [f EXCEPT ![w].pending = @ \ {h}, ![w].report = Append(@, x)]
    <2>1. /\ r.id = f[w].id /\ r.pending = f[w].pending \ {h}
          /\ r.report = Append(f[w].report, x)
        BY <1>4, <1>9, Zenon DEF r
    <2> QED
        BY <1>7, <2>1, Zenon
<1> QED
    BY <1>4, <1>8, <1>9, Zenon DEF f

LEMMA Arrives ==
    ASSUME Inv, NEW w \in Workers, NEW place, Goto(w, place)
    PROVE  pc'[w] = place
BY DEF Goto, Inv, Typed, TypeOK

LEMMA AnswerMaps ==
    ASSUME Inv, NEW w \in Workers, Receive(w) \/ Work(w), NEW response, Answer(w, response)
    PROVE  Service!Answer(w, response)
<1>1. pc'[w] = "answered" /\ reply' = [reply EXCEPT ![w] = response]
    BY Arrives DEF Answer
<1>2. StageOf(w)' = "answered" /\ WorkOf(w)' = Service!NoWork
    BY <1>1 DEF StageOf, WorkOf, Service!NoWork, ReadingRowid, Running
<1>3. /\ StageMap' = [StageMap EXCEPT ![w] = "answered"]
      /\ WorkMap' = [WorkMap EXCEPT ![w] = Service!NoWork]
    BY <1>2, Maps
<1> QED
    BY <1>1, <1>3 DEF Service!Answer, Service!Become, StageMap, WorkMap

(* A step to another place, with the work it shows there.                  *)
LEMMA GoMaps ==
    ASSUME Inv, NEW w \in Workers, Receive(w) \/ Work(w), NEW place, Goto(w, place)
    PROVE  /\ place \in {"insert_todo", "test_script", "list_handlers", "count_todos"}
                 => Service!Become(w, "accepted")
           /\ place \in ReadingRowid => Service!Become(w, "stored")
           /\ place = "run_handlers" => Service!Become(w, "running")
           /\ place = "idle" => Service!Become(w, "idle")
<1>1. pc'[w] = place
    BY Arrives
<1>2. StageMap' = [StageMap EXCEPT ![w] = StageOf(w)']
    BY Maps
<1>3. /\ place \in {"insert_todo", "test_script", "list_handlers", "count_todos"}
            => StageOf(w)' = "accepted"
      /\ place \in ReadingRowid => StageOf(w)' = "stored"
      /\ place = "run_handlers" => StageOf(w)' = "running"
      /\ place = "idle" => StageOf(w)' = "idle"
    BY <1>1 DEF StageOf, ReadingRowid, Running
<1> QED
    BY <1>2, <1>3 DEF Service!Become, StageMap

(* A step that moves the worker but not the service's view of it.          *)
LEMMA Unseen ==
    ASSUME Inv, NEW w \in Workers, Receive(w) \/ Work(w),
           StageOf(w)' = StageOf(w), WorkOf(w)' = WorkOf(w), UNCHANGED <<disk, request, reply>>
    PROVE  UNCHANGED Service!vars
<1>1. StageMap' = StageMap /\ WorkMap' = WorkMap
    BY OthersStay DEF StageMap, WorkMap
<1> QED
    BY <1>1 DEF Service!vars, StageMap, WorkMap

LEMMA NoWorkYet ==
    ASSUME Inv, NEW w \in Workers, Receive(w) \/ Work(w),
           pc[w] \notin Running \cup ReadingRowid \cup {"find_handlers"},
           pc'[w] \notin Running \cup ReadingRowid \cup {"find_handlers"}
    PROVE  WorkMap' = WorkMap
<1>1. WorkOf(w) = Service!NoWork /\ WorkOf(w)' = Service!NoWork
    BY DEF WorkOf, Service!NoWork
<1> QED
    BY <1>1, OthersStay DEF WorkMap

LEMMA FailRefines ==
    ASSUME Inv, NEW w \in Workers, Work(w), StatementFails(w),
           \/ pc[w] \in {"insert_todo", "find_handlers", "insert_handler", "list_handlers",
                         "count_todos", "read_page"}
           \/ pc[w] = "run_handlers" /\ pending[w] = {}
    PROVE  Service!Fail(w)
<1>1. /\ StorageFaults /\ UNCHANGED <<disk, request>>
      /\ Answer(w, [kind |-> "internal_error", why |-> "storage"])
    BY DEF StatementFails
<1>2. \/ StageMap[w] \in {"accepted", "stored"}
      \/ StageMap[w] = "running" /\ WorkMap[w].pending = {}
    BY StageAt, WorkAt DEF StageMap, WorkMap, Running
<1> QED
    BY <1>1, <1>2, AnswerMaps DEF Service!Fail, StageMap, WorkMap
-----------------------------------------------------------------------------
(* Requests arrive, answers leave. *)

LEMMA ReceiveRefines ==
    ASSUME Inv, NEW w \in Workers, Receive(w)
    PROVE  Service!Accept(w) \/ Service!AcceptList(w)
<1>1. pc[w] = "idle" /\ UNCHANGED disk
    BY DEF Receive, ReceiveTodo, ReceiveHandler, ReceivePage, ReceiveList, store
<1>2. StageMap[w] = "idle"
    BY <1>1, StageAt DEF StageMap
<1>3. ASSUME NEW place \in {"insert_todo", "test_script", "list_handlers", "count_todos"},
             Goto(w, place), UNCHANGED reply
      PROVE  Service!Become(w, "accepted") /\ UNCHANGED <<WorkMap, reply>>
    <2>1. pc'[w] = place
        BY <1>3, Arrives
    <2>2. WorkMap' = WorkMap
        BY <1>1, <2>1, NoWorkYet DEF Running, ReadingRowid
    <2> QED
        BY <1>3, <2>2, GoMaps
<1>4. CASE ReceiveTodo(w)
    <2>1. PICK input \in TodoInputs :
             /\ request' = [request EXCEPT ![w] = [kind |-> "create_todo", input |-> input]]
             /\ IF ValidTodo(input)
                THEN Goto(w, "insert_todo") /\ UNCHANGED reply
                ELSE Answer(w, [kind |-> "rejected"])
        BY <1>4 DEF ReceiveTodo
    <2>2. IF ValidTodo(input)
          THEN Service!Become(w, "accepted") /\ UNCHANGED <<WorkMap, reply>>
          ELSE Service!Answer(w, [kind |-> "rejected"])
        BY <1>3, <2>1, AnswerMaps
    <2> QED
        BY <1>1, <1>2, <2>1, <2>2, SharedRequests DEF Service!Accept, StageMap, WorkMap
<1>5. CASE ReceiveHandler(w)
    <2>1. PICK input \in HandlerInputs :
             /\ request' = [request EXCEPT ![w] = [kind |-> "create_handler", input |-> input]]
             /\ IF input.wellFormed
                THEN Goto(w, "test_script") /\ UNCHANGED reply
                ELSE Answer(w, [kind |-> "rejected"])
        BY <1>5 DEF ReceiveHandler
    <2>2. IF input.wellFormed
          THEN Service!Become(w, "accepted") /\ UNCHANGED <<WorkMap, reply>>
          ELSE Service!Answer(w, [kind |-> "rejected"])
        BY <1>3, <2>1, AnswerMaps
    <2> QED
        BY <1>1, <1>2, <2>1, <2>2 DEF Service!Accept, StageMap, WorkMap
<1>6. CASE ReceivePage(w)
    <2>1. PICK input \in PageInputs :
             request' = [request EXCEPT ![w] = [kind |-> "get_page", input |-> input]]
        BY <1>6 DEF ReceivePage
    <2>2. Service!Become(w, "accepted") /\ UNCHANGED <<WorkMap, reply>>
        BY <1>3, <1>6 DEF ReceivePage
    <2> QED
        BY <1>1, <1>2, <2>1, <2>2 DEF Service!Accept, StageMap, WorkMap
<1>7. CASE ReceiveList(w)
    <2>1. Service!Become(w, "accepted") /\ UNCHANGED <<WorkMap, reply>>
        BY <1>3, <1>7 DEF ReceiveList
    <2> QED
        BY <1>1, <1>2, <1>7, <2>1 DEF ReceiveList, Service!AcceptList, StageMap, WorkMap
<1> QED
    BY <1>4, <1>5, <1>6, <1>7 DEF Receive

LEMMA DeliverRefines ==
    ASSUME Inv, NEW w \in Workers, Deliver(w)
    PROVE  Service!Deliver(w)
<1>1. Work(w) /\ pc[w] = "answered" /\ pc'[w] = "idle"
    BY Arrives DEF Deliver, Work
<1>2. StageMap[w] = "answered" /\ Service!Become(w, "idle")
    BY <1>1, StageAt, GoMaps DEF StageMap, Deliver
<1>3. WorkMap' = WorkMap
    BY <1>1, NoWorkYet DEF Running, ReadingRowid
<1> QED
    BY <1>2, <1>3, SharedRequests DEF Deliver, store, Service!Deliver, StageMap, WorkMap
-----------------------------------------------------------------------------
(* The statements of createTodo, createHandler, getPage and getHandlers. *)

(* A script about to be stored has passed its test run.                    *)
Accepted ==
    \A w \in Workers :
        /\ pc[w] = "insert_handler" => "ok" \in request[w].input.script.endings
        /\ pc[w] = "list_handlers" => request[w].kind = "get_handlers"

LEMMA NextAccepted ==
    ASSUME Inv, Accepted, [Next]_vars
    PROVE  Accepted'
<1>1. CASE UNCHANGED vars
    BY <1>1 DEF vars, Accepted
<1>2. CASE Crash
    BY <1>2 DEF Crash, Accepted
<1>3. ASSUME NEW w \in Workers, Receive(w) \/ Work(w)
      PROVE  Accepted'
    <2>1. \A v \in Workers \ {w} : pc'[v] = pc[v] /\ request'[v] = request[v]
        BY <1>3, StepIsLocal DEF Inv
    <2>2. /\ pc'[w] = "insert_handler" => "ok" \in request'[w].input.script.endings
          /\ pc'[w] = "list_handlers" => request'[w].kind = "get_handlers"
        <3>1. CASE TestScript(w)
            BY <3>1, Arrives DEF TestScript, Answer
        <3>2. CASE Receive(w)
            BY <3>2
               DEF Receive, ReceiveTodo, ReceiveHandler, ReceivePage, ReceiveList, Answer, Goto,
                   Inv, Typed, TypeOK
        <3>3. CASE Work(w) /\ ~TestScript(w)
            BY <3>3
               DEF Work, InsertTodo, ReadTodoRowid, FindHandlers, RunScript, BeginTransaction,
                   RunCommand, Rollback, Commit, ReadBack, InsertHandler, ReadHandlerRowid,
                   ListHandlers, CountTodos, ReadPage, Deliver, StatementFails, Conclude, Answer,
                   Goto, Inv, Typed, TypeOK
        <3> QED
            BY <1>3, <3>1, <3>2, <3>3
    <2> QED
        BY <2>1, <2>2 DEF Accepted
<1> QED
    BY <1>1, <1>2, <1>3 DEF Next

LEMMA InsertTodoRefines ==
    ASSUME Inv, NEW w \in Workers, InsertTodo(w)
    PROVE  Service!StoreTodo(w) \/ Service!Fail(w)
<1>1. Work(w) /\ pc[w] = "insert_todo" /\ conn = disk /\ inTxn = FALSE
    BY NothingUncommitted DEF InsertTodo, Work, Inv
<1>2. CASE StatementFails(w)
    BY <1>1, <1>2, FailRefines
<1>3. CASE /\ Write(WithTodo(conn, request[w].input))
           /\ lastRowid' = Len(conn.todos) + 1
           /\ Goto(w, "read_todo_rowid")
           /\ UNCHANGED <<request, reply>>
    <2>1. disk' = WithTodo(disk, request[w].input) /\ lastRowid' = Len(disk.todos) + 1
        BY <1>1, <1>3 DEF Write
    <2>2. Service!Become(w, "stored") /\ pc'[w] = "read_todo_rowid"
        BY <1>1, <1>3, GoMaps, Arrives DEF ReadingRowid
    <2>3. StageMap[w] = "accepted" /\ request[w].kind = "create_todo"
        BY <1>1, StageAt DEF StageMap, Inv, Typed, LocalsFit, CreatingTodo
    <2>4. WorkMap' = [WorkMap EXCEPT ![w].id = Len(disk.todos) + 1]
        <3>1. /\ WorkOf(w) = [id |-> 0, pending |-> {}, report |-> <<>>]
              /\ WorkOf(w)' = [id |-> Len(disk.todos) + 1, pending |-> {}, report |-> <<>>]
            BY <1>1, <2>1, <2>2 DEF WorkOf, ReadingRowid, Running
        <3>2. /\ WorkOf(w)'.pending = WorkOf(w).pending /\ WorkOf(w)'.report = WorkOf(w).report
              /\ WorkOf(w)'.id = Len(disk.todos) + 1
            BY <3>1
        <3> QED
            BY <1>1, <3>2, WorkMaps, Zenon
    <2> QED
        BY <1>3, <2>1, <2>2, <2>3, <2>4, SharedRequests
           DEF Service!StoreTodo, Service!Is, StageMap, WorkMap
<1> QED
    BY <1>2, <1>3 DEF InsertTodo

LEMMA InsertHandlerRefines ==
    ASSUME Inv, Accepted, NEW w \in Workers, InsertHandler(w)
    PROVE  Service!StoreHandler(w) \/ Service!Fail(w)
<1>1. Work(w) /\ pc[w] = "insert_handler" /\ conn = disk /\ inTxn = FALSE
    BY NothingUncommitted DEF InsertHandler, Work, Inv
<1>2. CASE StatementFails(w)
    BY <1>1, <1>2, FailRefines
<1>3. CASE /\ Write(WithHandler(conn, request[w].input))
           /\ lastRowid' = Len(conn.scripts) + 1
           /\ Goto(w, "read_handler_rowid")
           /\ UNCHANGED <<request, reply>>
    <2>1. disk' = WithHandler(disk, request[w].input) /\ lastRowid' = Len(disk.scripts) + 1
        BY <1>1, <1>3 DEF Write
    <2>2. Service!Become(w, "stored") /\ pc'[w] = "read_handler_rowid"
        BY <1>1, <1>3, GoMaps, Arrives DEF ReadingRowid
    <2>3. /\ StageMap[w] = "accepted" /\ request[w].kind = "create_handler"
          /\ "ok" \in request[w].input.script.endings
        BY <1>1, StageAt DEF StageMap, Inv, Typed, LocalsFit, CreatingHandler, Accepted
    <2>4. WorkMap' = [WorkMap EXCEPT ![w].id = Len(disk.scripts) + 1]
        <3>1. /\ WorkOf(w) = [id |-> 0, pending |-> {}, report |-> <<>>]
              /\ WorkOf(w)' = [id |-> Len(disk.scripts) + 1, pending |-> {}, report |-> <<>>]
            BY <1>1, <2>1, <2>2 DEF WorkOf, ReadingRowid, Running
        <3>2. /\ WorkOf(w)'.pending = WorkOf(w).pending /\ WorkOf(w)'.report = WorkOf(w).report
              /\ WorkOf(w)'.id = Len(disk.scripts) + 1
            BY <3>1
        <3> QED
            BY <1>1, <3>2, WorkMaps, Zenon
    <2> QED
        BY <1>3, <2>1, <2>2, <2>3, <2>4, SharedRequests
           DEF Service!StoreHandler, Service!Is, StageMap, WorkMap
<1> QED
    BY <1>2, <1>3 DEF InsertHandler

LEMMA ReadTodoRowidRefines ==
    ASSUME Inv, NEW w \in Workers, ReadTodoRowid(w)
    PROVE  UNCHANGED Service!vars
<1>1. /\ Work(w) /\ pc[w] = "read_todo_rowid" /\ pc'[w] = "find_handlers"
      /\ UNCHANGED <<disk, request, reply>>
    BY Arrives DEF ReadTodoRowid, Work
<1>2. created'[w].id = lastRowid
    BY DEF ReadTodoRowid, SnapshotOf, Inv, Typed, TypeOK
<1>3. StageOf(w)' = StageOf(w) /\ WorkOf(w)' = WorkOf(w)
    BY <1>1, <1>2 DEF StageOf, WorkOf, ReadingRowid, Running
<1> QED
    BY <1>1, <1>3, Unseen

LEMMA FindHandlersRefines ==
    ASSUME Inv, Orders, NEW w \in Workers, FindHandlers(w)
    PROVE  Service!ChooseHandlers(w) \/ Service!Fail(w)
<1>1. Work(w) /\ pc[w] = "find_handlers" /\ conn = disk
    BY NothingUncommitted DEF FindHandlers, Work, Inv
<1>2. CASE StatementFails(w)
    BY <1>1, <1>2, FailRefines
<1>3. CASE /\ pending' = [pending EXCEPT ![w] = HandlersFor(conn, "ADDED_TODO")]
           /\ Goto(w, "run_handlers")
           /\ UNCHANGED <<store, request, created, report, reply>>
    <2>1. Service!Become(w, "running") /\ pc'[w] = "run_handlers" /\ UNCHANGED disk
        BY <1>1, <1>3, GoMaps, Arrives DEF store
    <2>2. StageMap[w] = "stored" /\ request[w].kind = "create_todo"
        BY <1>1, StageAt DEF StageMap, Inv, Typed, LocalsFit, CreatingTodo
    <2>3. report[w] = <<>> /\ pending'[w] = HandlersFor(disk, "ADDED_TODO")
        BY <1>1, <1>3 DEF Orders, OrderInv, RunsHandlers, Inv, Typed, TypeOK
    <2>4. WorkMap' = [WorkMap EXCEPT ![w].pending = HandlersFor(disk, "ADDED_TODO")]
        <3>1. /\ WorkOf(w) = [id |-> created[w].id, pending |-> {}, report |-> <<>>]
              /\ WorkOf(w)' = [id |-> created[w].id, pending |-> HandlersFor(disk, "ADDED_TODO"),
                               report |-> <<>>]
            BY <1>1, <1>3, <2>1, <2>3 DEF WorkOf, ReadingRowid, Running
        <3> QED
            BY <1>1, <3>1, WorkMaps
    <2> QED
        BY <1>3, <2>1, <2>2, <2>4, SharedRequests
           DEF Service!ChooseHandlers, Service!Is, StageMap, WorkMap
<1> QED
    BY <1>2, <1>3 DEF FindHandlers

LEMMA TestScriptRefines ==
    ASSUME Inv, NEW w \in Workers, TestScript(w)
    PROVE  Service!RejectScript(w) \/ UNCHANGED Service!vars
<1>1. Work(w) /\ pc[w] = "test_script" /\ UNCHANGED <<disk, request>>
    BY DEF TestScript, Work, store
<1>2. StageMap[w] = "accepted" /\ request[w].kind = "create_handler"
    BY <1>1, StageAt DEF StageMap, Inv, Typed, LocalsFit, CreatingHandler
<1>3. PICK ending \in request[w].input.script.endings :
          IF ending = "ok" THEN Goto(w, "insert_handler") /\ UNCHANGED reply
                           ELSE Answer(w, [kind |-> "script_rejected"])
    BY DEF TestScript
<1>4. CASE ending = "ok"
    <2>1. pc'[w] = "insert_handler"
        BY <1>3, <1>4, Arrives
    <2>2. StageOf(w)' = StageOf(w) /\ WorkOf(w)' = WorkOf(w)
        BY <1>1, <2>1 DEF StageOf, WorkOf, ReadingRowid, Running
    <2> QED
        BY <1>1, <1>3, <1>4, <2>2, Unseen
<1>5. CASE ending # "ok"
    <2>1. Service!Answer(w, [kind |-> "script_rejected"])
        BY <1>1, <1>3, <1>5, AnswerMaps
    <2>2. request[w].input.script.endings # {"ok"}
        BY <1>3, <1>5
    <2> QED
        BY <1>1, <1>2, <2>1, <2>2 DEF Service!RejectScript, Service!Is, StageMap
<1> QED
    BY <1>4, <1>5

LEMMA ReadHandlerRowidRefines ==
    ASSUME Inv, NEW w \in Workers, ReadHandlerRowid(w)
    PROVE  Service!AnswerHandler(w)
<1>1. /\ Work(w) /\ pc[w] = "read_handler_rowid" /\ UNCHANGED <<disk, request>>
      /\ Answer(w, [kind |-> "handler_created", id |-> lastRowid])
    BY DEF ReadHandlerRowid, Work
<1>2. /\ StageMap[w] = "stored" /\ request[w].kind = "create_handler"
      /\ WorkMap[w].id = lastRowid
    BY <1>1, StageAt, WorkAt
       DEF StageMap, WorkMap, Inv, Typed, LocalsFit, CreatingHandler, ReadingRowid
<1> QED
    BY <1>1, <1>2, AnswerMaps DEF Service!AnswerHandler, Service!Is, StageMap, WorkMap

LEMMA ListHandlersRefines ==
    ASSUME Inv, Accepted, NEW w \in Workers, ListHandlers(w)
    PROVE  Service!AnswerList(w) \/ Service!Fail(w)
<1>1. Work(w) /\ pc[w] = "list_handlers" /\ conn = disk
    BY NothingUncommitted DEF ListHandlers, Work, Inv
<1>2. CASE StatementFails(w)
    BY <1>1, <1>2, FailRefines
<1>3. CASE /\ Answer(w, [kind |-> "handlers", scripts |-> conn.scripts])
           /\ UNCHANGED <<store, request>>
    <2>1. StageMap[w] = "accepted" /\ UNCHANGED disk
        BY <1>1, <1>3, StageAt DEF StageMap, store
    <2> QED
        BY <1>1, <1>3, <2>1, AnswerMaps DEF Service!AnswerList, Service!Is, StageMap, Accepted
<1> QED
    BY <1>2, <1>3 DEF ListHandlers

LEMMA CountTodosRefines ==
    ASSUME Inv, NEW w \in Workers, CountTodos(w)
    PROVE  UNCHANGED Service!vars \/ Service!Fail(w)
<1>1. Work(w) /\ pc[w] = "count_todos"
    BY DEF CountTodos, Work
<1>2. CASE StatementFails(w)
    BY <1>1, <1>2, FailRefines
<1>3. CASE Goto(w, "read_page") /\ UNCHANGED <<disk, request, reply>>
    <2>1. pc'[w] = "read_page"
        BY <1>3, Arrives
    <2>2. StageOf(w)' = StageOf(w) /\ WorkOf(w)' = WorkOf(w)
        BY <1>1, <2>1 DEF StageOf, WorkOf, ReadingRowid, Running
    <2> QED
        BY <1>1, <1>3, <2>2, Unseen
<1> QED
    BY <1>2, <1>3 DEF CountTodos

LEMMA ReadPageRefines ==
    ASSUME Inv, PageInv, NEW w \in Workers, ReadPage(w)
    PROVE  Service!AnswerPage(w) \/ Service!Fail(w)
<1>1. Work(w) /\ pc[w] = "read_page" /\ conn = disk
    BY ReadsCommitted DEF ReadPage, Work
<1>2. CASE StatementFails(w)
    BY <1>1, <1>2, FailRefines
<1>3. CASE /\ Answer(w, [kind |-> "page", total |-> total[w],
                         items |-> PageOf(conn, request[w].input.offset, request[w].input.limit)])
           /\ UNCHANGED <<disk, request>>
    <2>1. StageMap[w] = "accepted" /\ request[w].kind = "get_page"
        BY <1>1, StageAt DEF StageMap, Inv, Typed, LocalsFit, GettingPage
    <2>2. total[w] = Len(disk.todos)
        BY <1>1 DEF PageInv
    <2>3. Service!Answer(w,
              [kind |-> "page", total |-> Len(disk.todos),
               items |-> Service!PageOf(disk, request[w].input.offset, request[w].input.limit)])
        BY <1>1, <1>3, <2>2, SharedPages, AnswerMaps
    <2> QED
        BY <1>3, <2>1, <2>3 DEF Service!AnswerPage, Service!Is, StageMap
<1> QED
    BY <1>2, <1>3 DEF ReadPage
-----------------------------------------------------------------------------
(* A handler, from the run of its script to the end of its transaction. *)

(* No two handlers of a request are next.                                  *)
LEMMA OneIsNext ==
    ASSUME Inv, Orders, NEW w \in Workers, NEW h \in pending[w], NEW g \in pending[w],
           First(pending[w], h), First(pending[w], g)
    PROVE  g = h
<1>1. g \in Handler /\ h \in Handler
    BY DEF Inv, Typed, TypeOK
<1>2. g.id = h.id
    BY <1>1 DEF First, Handler
<1>3. g.script = h.script
    BY <1>2 DEF Orders, OrderInv
<1> QED
    BY <1>1, <1>2, <1>3 DEF Handler

(* The service computes the same queue from the request.                   *)
LEMMA SameQueue ==
    ASSUME Inv, RowInv, NEW w \in Workers, pc[w] \in Running, NEW h
    PROVE  Service!QueueOf(w, h) = QueuedBy(h.script, created[w])
<1>1. created[w] = SnapshotOf(created[w].id, request[w].input)
    BY DEF RowInv, OwnRow, HoldingTodo, Running
<1>2. WorkMap[w].id = created[w].id
    BY WorkAt DEF WorkMap
<1> QED
    BY <1>1, <1>2, SharedRequests, SharedCommands DEF Service!QueueOf, WorkMap

(* The end of a handler joins the report in both.                          *)
LEMMA ConcludeRefines ==
    ASSUME Inv, NEW w \in Workers, Work(w), pc[w] \in Running, UNCHANGED created,
           NEW h, NEW status, NEW outcome, NEW storageError,
           Conclude(w, h, status, outcome, storageError)
    PROVE  /\ Service!Report(w, h, status, outcome, storageError)
           /\ StageMap' = StageMap
<1> DEFINE result == HandlerResultOf(h, status, outcome, storageError)
<1>1. pc'[w] = "run_handlers"
    BY Arrives DEF Conclude
<1>2. /\ pending'[w] = pending[w] \ {h}
      /\ report'[w] = Append(report[w], result)
    BY DEF Conclude, Inv, Typed, TypeOK
<1>3. StageOf(w) = "running" /\ StageOf(w)' = "running"
    BY <1>1 DEF StageOf, Running, ReadingRowid
<1>4. StageMap' = StageMap
    BY <1>3, OthersStay DEF StageMap
<1>5. /\ WorkOf(w)'.id = WorkOf(w).id /\ WorkOf(w)'.pending = WorkOf(w).pending \ {h}
      /\ WorkOf(w)'.report = Append(WorkOf(w).report, result)
    BY <1>1, <1>2 DEF WorkOf, ReadingRowid, Running
<1> HIDE DEF result
<1>6. WorkMap' = [WorkMap EXCEPT ![w].pending = @ \ {h}, ![w].report = Append(@, result)]
    <2>1. \A g, x :
             /\ WorkOf(w)'.id = WorkOf(w).id /\ WorkOf(w)'.pending = WorkOf(w).pending \ {g}
             /\ WorkOf(w)'.report = Append(WorkOf(w).report, x)
             => WorkMap' = [WorkMap EXCEPT ![w].pending = @ \ {g}, ![w].report = Append(@, x)]
        BY WorkMaps, Zenon
    <2> QED
        BY <1>5, <2>1, Zenon
<1>7. Service!HandlerResultOf(h, status, outcome, storageError) = result
    BY SharedCommands DEF result
<1> QED
    BY <1>4, <1>6, <1>7, Zenon DEF Service!Report, WorkMap

(* The step of the service that ends a handler's turn.                     *)
LEMMA HandlerRefines ==
    ASSUME Inv, NEW w \in Workers, Work(w), pc[w] \in Running, UNCHANGED <<request, reply>>,
           StageMap' = StageMap, NEW h \in pending[w], First(pending[w], h),
           \/ Service!Succeeds(w, h) \/ Service!FailsInScript(w, h)
           \/ Service!FailsInCommand(w, h) \/ Service!FailsInStorage(w, h)
    PROVE  Service!RunHandler(w)
<1>1. StageMap[w] = "running" /\ WorkMap[w].pending = pending[w]
    BY StageAt, WorkAt DEF StageMap, WorkMap
<1>2. Service!First(WorkMap[w].pending, h)
    BY <1>1, SharedCommands
<1> QED
    BY <1>1, <1>2 DEF Service!RunHandler, StageMap, WorkMap

LEMMA RunScriptRefines ==
    ASSUME Inv, NEW w \in Workers, RunScript(w)
    PROVE  Service!RunHandler(w) \/ UNCHANGED Service!vars
<1>1. /\ Work(w) /\ pc[w] = "run_handlers" /\ UNCHANGED <<disk, request, created, reply>>
    BY DEF RunScript, Work, store
<1>2. CASE Goto(w, "begin") /\ UNCHANGED <<pending, report>>
    <2>1. pc'[w] = "begin"
        BY <1>2, Arrives
    <2>2. StageOf(w)' = StageOf(w) /\ WorkOf(w)' = WorkOf(w)
        BY <1>1, <1>2, <2>1 DEF StageOf, WorkOf, ReadingRowid, Running
    <2> QED
        BY <1>1, <2>2, Unseen
<1>3. ASSUME NEW h \in pending[w], First(pending[w], h), NEW ending \in h.script.endings \ {"ok"},
             Conclude(w, h, ending, <<>>, FALSE)
      PROVE  Service!RunHandler(w)
    <2>1. Service!Report(w, h, ending, <<>>, FALSE) /\ StageMap' = StageMap
        BY <1>1, <1>3, ConcludeRefines DEF Running
    <2>2. Service!FailsInScript(w, h)
        BY <1>1, <1>3, <2>1 DEF Service!FailsInScript
    <2> QED
        BY <1>1, <1>3, <2>1, <2>2, HandlerRefines DEF Running
<1> QED
    BY <1>2, <1>3 DEF RunScript, NextHandler

LEMMA BeginTransactionRefines ==
    ASSUME Inv, Queues, Orders, NEW w \in Workers, BeginTransaction(w)
    PROVE  Service!RunHandler(w) \/ UNCHANGED Service!vars
<1>1. /\ Work(w) /\ pc[w] = "begin" /\ UNCHANGED <<disk, request, created, reply>>
    BY DEF BeginTransaction, Work
<1>2. CASE Goto(w, "commands") /\ UNCHANGED <<pending, report>>
    <2>1. pc'[w] = "commands"
        BY <1>2, Arrives
    <2>2. StageOf(w)' = StageOf(w) /\ WorkOf(w)' = WorkOf(w)
        BY <1>1, <1>2, <2>1 DEF StageOf, WorkOf, ReadingRowid, Running
    <2> QED
        BY <1>1, <2>2, Unseen
<1>3. ASSUME StorageFaults, NEW h \in pending[w], First(pending[w], h),
             Conclude(w, h, "command_error", <<>>, TRUE)
      PROVE  Service!RunHandler(w)
    <2>1. "ok" \in h.script.endings
        BY <1>1, <1>3, OneIsNext DEF Queues, QueueInv
    <2>2. Service!Report(w, h, "command_error", <<>>, TRUE) /\ StageMap' = StageMap
        BY <1>1, <1>3, ConcludeRefines DEF Running
    <2>3. Service!FailsInStorage(w, h)
        BY <1>1, <1>3, <2>1, <2>2 DEF Service!FailsInStorage
    <2> QED
        BY <1>1, <1>3, <2>2, <2>3, HandlerRefines DEF Running
<1> QED
    BY <1>2, <1>3 DEF BeginTransaction, NextHandler

LEMMA RunCommandRefines ==
    ASSUME Inv, NEW w \in Workers, RunCommand(w)
    PROVE  UNCHANGED Service!vars
<1>1. /\ Work(w) /\ pc[w] = "commands" /\ UNCHANGED <<request, created, pending, report, reply>>
    BY DEF RunCommand, Work
<1>2. inTxn = TRUE
    BY <1>1, OneTransaction DEF Inv, InTransaction
<1>3. \A tables : Write(tables) => disk' = disk
    BY <1>2 DEF Write
<1>4. disk' = disk /\ pc'[w] \in {"commands", "rollback"}
    BY <1>1, <1>3, Arrives DEF RunCommand
<1>5. StageOf(w)' = StageOf(w) /\ WorkOf(w)' = WorkOf(w)
    BY <1>1, <1>4 DEF StageOf, WorkOf, ReadingRowid, Running
<1> QED
    BY <1>1, <1>4, <1>5, Unseen

(* The results of a prefix, said as the service says it.                   *)
LEMMA SamePrefix ==
    ASSUME NEW queue \in Seq(Commands), NEW k \in DOMAIN queue
    PROVE  Service!AllApplied(SubSeq(queue, 1, k - 1)) = Applied(queue, k - 1)
<1>1. k \in Nat /\ k - 1 \in Nat /\ SubSeq(queue, 1, k - 1) = [i \in 1..(k - 1) |-> queue[i]]
    BY DEF SubSeq
<1> QED
    BY <1>1, SharedCommands DEF Service!AllApplied, Applied

LEMMA RollbackRefines ==
    ASSUME Inv, RowInv, Queues, Orders, NEW w \in Workers, Rollback(w)
    PROVE  Service!RunHandler(w)
<1>1. /\ Work(w) /\ pc[w] = "rollback" /\ UNCHANGED <<disk, request, created, reply>>
    BY DEF Rollback, Work
<1>2. PICK h \in pending[w] :
          First(pending[w], h) /\ Conclude(w, h, "command_error", results[w], FALSE)
    BY DEF Rollback, NextHandler
<1>3. "ok" \in h.script.endings /\ commands[w] = QueuedBy(h.script, created[w])
    BY <1>1, <1>2, OneIsNext DEF Queues, QueueInv
<1>4. Service!QueueOf(w, h) = commands[w] /\ commands[w] \in Seq(Commands)
    BY <1>1, <1>3, SameQueue DEF Running, Inv, Typed, TypeOK
<1>5. PICK k \in DOMAIN commands[w] :
         /\ Applicable(commands[w], k - 1)
         /\ \E error \in PossibleErrors(disk.todos, commands[w][k], StorageFaults) \ {"none"} :
               results[w] = FailedQueue(Append(Applied(commands[w], k - 1),
                                               ResultOf(commands[w][k], error)),
                                        commands[w])
    BY <1>1 DEF Queues, QueueInv
<1>6. PICK error \in PossibleErrors(disk.todos, commands[w][k], StorageFaults) \ {"none"} :
         results[w] = FailedQueue(Append(Applied(commands[w], k - 1),
                                         ResultOf(commands[w][k], error)),
                                  commands[w])
    BY <1>5
<1>7. results[w] = Service!FailedAt(commands[w], k, error)
    BY <1>4, <1>6, SamePrefix, SharedCommands DEF Service!FailedAt
<1>8. \A i \in 1..(k - 1) : Service!CanApply(commands[w][i])
    BY <1>5, SharedCommands DEF Applicable, Service!CanApply
<1>9. error \in Service!PossibleErrors(disk.todos, commands[w][k], StorageFaults) \ {"none"}
    BY <1>6, SharedCommands
<1>10. Service!Report(w, h, "command_error", results[w], FALSE) /\ StageMap' = StageMap
    BY <1>1, <1>2, ConcludeRefines DEF Running
<1>11. Service!FailsInCommand(w, h)
    BY <1>1, <1>3, <1>4, <1>7, <1>8, <1>9, <1>10 DEF Service!FailsInCommand
<1> QED
    BY <1>1, <1>2, <1>10, <1>11, HandlerRefines DEF Running

LEMMA CommitRefines ==
    ASSUME Inv, RowInv, Queues, Orders, NEW w \in Workers, Commit(w)
    PROVE  Service!RunHandler(w)
<1>1. /\ Work(w) /\ pc[w] = "commands" /\ UNCHANGED <<request, created, reply>>
      /\ Len(results[w]) = Len(commands[w])
    BY DEF Commit, Work
<1>2. PICK h \in pending[w] :
          /\ First(pending[w], h)
          /\ \/ /\ disk' = conn
                /\ Conclude(w, h, "success", results[w], FALSE)
             \/ /\ StorageFaults
                /\ Conclude(w, h, "command_error", RolledBack(results[w]), TRUE)
                /\ UNCHANGED disk
    BY DEF Commit, NextHandler
<1>3. "ok" \in h.script.endings /\ commands[w] = QueuedBy(h.script, created[w])
    BY <1>1, <1>2, OneIsNext DEF Queues, QueueInv
<1>4. Service!QueueOf(w, h) = commands[w] /\ commands[w] \in Seq(Commands)
    BY <1>1, <1>3, SameQueue DEF Running, Inv, Typed, TypeOK
<1>5. /\ DOMAIN commands[w] = 1..Len(commands[w])
      /\ Applicable(commands[w], Len(commands[w]))
      /\ results[w] = Applied(commands[w], Len(commands[w]))
    BY <1>1, <1>4 DEF Queues, QueueInv
<1>6. results[w] = Service!AllApplied(commands[w])
    BY <1>5, SharedCommands DEF Applied, Service!AllApplied
<1>7. \A i \in DOMAIN commands[w] : Service!CanApply(commands[w][i])
    BY <1>5, SharedCommands DEF Applicable, Service!CanApply
<1>8. CASE disk' = conn /\ Conclude(w, h, "success", results[w], FALSE)
    <2>1. disk' = [disk EXCEPT !.todos = EffectOf(@, commands[w], Len(commands[w]))]
        BY <1>1, <1>8 DEF Inv, Isolation
    <2>2. disk' = [disk EXCEPT !.todos = Service!EffectOf(@, commands[w], Len(commands[w]))]
        BY <2>1, SharedCommands, Zenon
    <2>3. Service!Report(w, h, "success", results[w], FALSE) /\ StageMap' = StageMap
        BY <1>1, <1>8, ConcludeRefines DEF Running
    <2>4. Service!Succeeds(w, h)
        BY <1>3, <1>4, <1>6, <1>7, <2>2, <2>3 DEF Service!Succeeds
    <2> QED
        BY <1>1, <1>2, <2>3, <2>4, HandlerRefines DEF Running
<1>9. CASE /\ StorageFaults /\ UNCHANGED disk
           /\ Conclude(w, h, "command_error", RolledBack(results[w]), TRUE)
    <2>1. /\ Service!Report(w, h, "command_error", RolledBack(results[w]), TRUE)
          /\ StageMap' = StageMap
        BY <1>1, <1>9, ConcludeRefines DEF Running
    <2>2. Service!RolledBack(results[w]) = RolledBack(results[w])
        BY SharedCommands
    <2>3. Service!FailsInStorage(w, h)
        BY <1>3, <1>4, <1>6, <1>7, <1>9, <2>1, <2>2 DEF Service!FailsInStorage
    <2> QED
        BY <1>1, <1>2, <2>1, <2>3, HandlerRefines DEF Running
<1> QED
    BY <1>2, <1>8, <1>9

LEMMA ReadBackRefines ==
    ASSUME Inv, RowInv, NEW w \in Workers, ReadBack(w)
    PROVE  Service!AnswerTodo(w) \/ Service!Fail(w)
<1>1. Work(w) /\ pc[w] = "run_handlers" /\ pending[w] = {} /\ UNCHANGED <<disk, request>>
    BY DEF ReadBack, Work, StatementFails, store
<1>2. CASE StatementFails(w)
    BY <1>1, <1>2, FailRefines
<1>3. CASE Answer(w, [kind |-> "todo_created", todo |-> TodoTaskOf(disk, created[w].id),
                      handlers |-> report[w]])
    <2>1. StageMap[w] = "running" /\ WorkMap[w] = [id |-> created[w].id, pending |-> {},
                                                   report |-> report[w]]
        BY <1>1, StageAt, WorkAt DEF StageMap, WorkMap, Running
    <2>2. Service!Answer(w, [kind |-> "todo_created",
                             todo |-> Service!TodoTaskOf(disk, WorkMap[w].id),
                             handlers |-> WorkMap[w].report])
        BY <1>1, <1>3, <2>1, SharedRequests, AnswerMaps
    <2> QED
        BY <1>1, <2>1, <2>2 DEF Service!AnswerTodo, StageMap, WorkMap
<1> QED
    BY <1>2, <1>3, ReadBackFinds
-----------------------------------------------------------------------------
(* All steps. *)

LEMMA CrashRefines ==
    ASSUME Crash
    PROVE  Service!Crash
<1>1. \A w \in Workers : StageOf(w)' = "idle" /\ WorkOf(w)' = Service!NoWork
    BY DEF Crash, StageOf, WorkOf, Service!NoWork, ReadingRowid, Running
<1> QED
    BY <1>1, SharedRequests DEF Crash, Service!Crash

LEMMA NextRefines ==
    ASSUME Inv, RowInv, Queues, Orders, PageInv, Accepted, [Next]_vars
    PROVE  [Service!Next]_(Service!vars)
<1>1. CASE UNCHANGED vars
    BY <1>1 DEF vars, store, handling, locals, Service!vars, StageOf, WorkOf
<1>2. CASE Crash
    BY <1>2, CrashRefines DEF Service!Next
<1>3. ASSUME NEW w \in Workers, Receive(w)
      PROVE  Service!Next
    BY <1>3, ReceiveRefines DEF Service!Next
<1>4. ASSUME NEW w \in Workers, Work(w)
      PROVE  Service!Next \/ UNCHANGED Service!vars
    <2>1. Service!Serve(w) \/ UNCHANGED Service!vars
        BY <1>4, InsertTodoRefines, ReadTodoRowidRefines, FindHandlersRefines, RunScriptRefines,
           BeginTransactionRefines, RunCommandRefines, RollbackRefines, CommitRefines,
           ReadBackRefines, TestScriptRefines, InsertHandlerRefines, ReadHandlerRowidRefines,
           ListHandlersRefines, CountTodosRefines, ReadPageRefines, DeliverRefines
           DEF Work, Service!Serve
    <2> QED
        BY <2>1 DEF Service!Next
<1> QED
    BY <1>1, <1>2, <1>3, <1>4 DEF Next

LEMMA InitRefines == Init => Service!Init
<1> SUFFICES ASSUME Init
             PROVE  Service!Init
    OBVIOUS
<1>1. \A w \in Workers : StageOf(w) = "idle" /\ WorkOf(w) = Service!NoWork
    BY DEF Init, StageOf, WorkOf, Service!NoWork, ReadingRowid, Running
<1>2. Service!NoRows = NoRows
    BY DEF NoRows, Service!NoRows
<1> QED
    BY <1>1, <1>2, SharedRequests DEF Init, Service!Init

(* Every behaviour of the server is one of the service: whatever the       *)
(* interleaving of the statements, the refused ones and the crashes.       *)
THEOREM ServerImplementsService == Spec => ImplementsService
<1>1. Init => Service!Init
    BY InitRefines
<1>2. Inv /\ RowInv /\ Queues /\ Orders /\ PageInv /\ Accepted /\ [Next]_vars
         => [Service!Next]_(Service!vars)
    BY NextRefines
<1>3. Init => PageInv /\ PageMatchesTotal /\ Accepted
    BY DEF Init, PageInv, PageMatchesTotal, Accepted, None
<1>4. Inv /\ RowInv /\ PageInv /\ PageMatchesTotal /\ [Next]_vars => PageInv' /\ PageMatchesTotal'
    BY NextPage
<1>5. Inv /\ Accepted /\ [Next]_vars => Accepted'
    BY NextAccepted
<1> QED
    BY <1>1, <1>2, <1>3, <1>4, <1>5, OrderInvariance, QueueInvariance, PTL
       DEF Spec, ImplementsService, Service!Spec
=============================================================================
