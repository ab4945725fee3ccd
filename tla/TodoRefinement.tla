---------------------------- MODULE TodoRefinement ----------------------------
(***************************************************************************)
(* TodoServer implements TodoService: what the mutex, the one connection   *)
(* and its transactions do in several steps looks to every client like the *)
(* atomic steps of the service.                                            *)
(***************************************************************************)
EXTENDS TodoServer

ReadingRowid == {"read_todo_rowid", "read_handler_rowid"}
Running == {"run_handlers", "begin", "commands", "rollback"}

(* How far the service is, seen from where the worker is.                  *)
StageOf(w) ==
    CASE pc[w] \in {"idle", "answered"} -> pc[w]
      [] pc[w] \in ReadingRowid \cup {"find_handlers"} -> "stored"
      [] pc[w] \in Running -> "running"
      [] OTHER -> "accepted"

(* A row has its id in the service as soon as it is inserted; the server   *)
(* has yet to read it from the connection.                                 *)
WorkOf(w) ==
    [id      |-> CASE pc[w] \in ReadingRowid -> lastRowid
                   [] pc[w] \in Running \cup {"find_handlers"} -> created[w].id
                   [] OTHER -> 0,
     pending |-> IF pc[w] \in Running THEN pending[w] ELSE {},
     report  |-> IF pc[w] \in Running THEN report[w] ELSE <<>>]

Service == INSTANCE TodoService WITH
    stage <- [w \in Workers |-> StageOf(w)],
    work  <- [w \in Workers |-> WorkOf(w)]

(* Every behaviour of the server is a behaviour of the service: however    *)
(* the statements of several requests interleave, whichever of them SQLite *)
(* refuses and whenever the process dies, each answer and each change of   *)
(* the committed tables is one that a server doing one atomic thing at a   *)
(* time could have made.                                                   *)
ImplementsService == Service!Spec
=============================================================================
