------------------------------ MODULE Statements ------------------------------
(***************************************************************************)
(* The prepared statements of the two repositories.  Each is made once and *)
(* shared by all requests, so whoever uses one must leave it reset and     *)
(* without bindings: the destructor of StatementResetGuard does that, on   *)
(* every path out of a repository method.                                  *)
(*                                                                         *)
(* A step of a worker is one call on a statement: bind, one sqlite3_step,  *)
(* reset or clearBindings; SQLite may refuse a bind or a step.  TodoServer *)
(* takes a whole use of a statement as one step.                           *)
(***************************************************************************)
EXTENDS Integers

CONSTANTS
    Workers,        \* the threads that run route handlers
    NoWorker,       \* "nobody holds the mutex"
    NoUse,          \* the value of a parameter that is not bound
    MaxCommands     \* bound: commands in the queue of a handler

ASSUME StatementsAssumption ==
    /\ NoWorker \notin Workers
    /\ NoUse \notin Workers \X (1..MaxCommands)
    /\ MaxCommands \in Nat \ {0}

Updates == {"set_complete", "set_priority"}
Writes == {"insert_todo", "insert_script"} \cup Updates
OneRow == {"find_todo", "count"}
ManyRows == {"page", "all_scripts", "scripts_for_event"}
Names == Writes \cup OneRow \cup ManyRows

(* How many parameters each statement has.                                 *)
MaxParameters == 5
Parameters == [s \in Names |->
    CASE s = "insert_todo" -> 5
      [] s = "insert_script" -> 4
      [] s \in Updates \cup {"page"} -> 2
      [] s \in {"find_todo", "scripts_for_event"} -> 1
      [] OTHER -> 0]

(* A use of a statement: by whom, and for which command of the queue.      *)
Uses == Workers \X (1..MaxCommands)
Unbound == [p \in 1..MaxParameters |-> NoUse]

VARIABLES
    holder,     \* the worker that holds DataBase::mutex_
    position,   \* of each statement: ready, row, done or failed
    bindings,   \* of each statement: for which use each parameter was bound
    pc,         \* what each worker does next
    statement,  \* the statement each worker uses
    next,       \* how many parameters it has bound
    command,    \* the position in the queue of the command it executes
    error       \* none, storage (SQLite refused) or misuse

use == <<statement, command>>
vars == <<holder, position, bindings, pc, use, next, error>>

Init ==
    /\ holder = NoWorker
    /\ position = [s \in Names |-> "ready"]
    /\ bindings = [s \in Names |-> Unbound]
    /\ pc = [w \in Workers |-> "idle"]
    /\ statement = [w \in Workers |-> "count"]
    /\ next = [w \in Workers |-> 0]
    /\ command = [w \in Workers |-> 1]
    /\ error = [w \in Workers |-> "none"]

Goto(w, place) == pc' = [pc EXCEPT ![w] = place]
Current(w) == statement[w]
UseOf(w) == <<w, command[w]>>

(* getPage holds its own guard while getCount uses another statement.      *)
Prepare(w, s) ==
    /\ statement' = [statement EXCEPT ![w] = IF s = "page" THEN "count" ELSE s]
    /\ next' = [next EXCEPT ![w] = 0]
    /\ Goto(w, "use")

NoMutex == TRUE                                             \* mutant
MutexFree == holder = NoWorker

(* access or transaction: the mutex, then a repository method.             *)
Lock(w) ==
    /\ pc[w] = "idle"
    /\ MutexFree
    /\ holder' = w
    /\ \E s \in Names \ {"count"} : Prepare(w, s)
    /\ command' = [command EXCEPT ![w] = 1]
    /\ error' = [error EXCEPT ![w] = "none"]
    /\ UNCHANGED <<position, bindings>>

(* An exception: the method returns a StorageError, the guard unwinds.     *)
Throw(w, why) ==
    /\ error' = [error EXCEPT ![w] = why]
    /\ Goto(w, "reset")

(* bind: SQLite refuses one on a statement that is not reset.              *)
Bind(w) ==
    /\ pc[w] = "use"
    /\ next[w] < Parameters[Current(w)]
    /\ \/ /\ position[Current(w)] = "ready"
          /\ bindings' = [bindings EXCEPT ![Current(w)][next[w] + 1] = UseOf(w)]
          /\ next' = [next EXCEPT ![w] = @ + 1]
          /\ UNCHANGED <<pc, error>>
       \/ /\ Throw(w, IF position[Current(w)] = "ready" THEN "storage" ELSE "misuse")
          /\ UNCHANGED <<bindings, next>>
    /\ UNCHANGED <<holder, position, use>>

(* exec and executeStep: a write is done in one step; a query yields rows  *)
(* until it is done; a statement that is done must be reset first.         *)
CanStep(s) ==
    \/ position[s] = "ready"
    \/ position[s] = "row" /\ s \in ManyRows

Outcomes(s) ==
    CASE s \in Writes -> {"done"}
      [] s = "count" -> {"row"}
      [] OTHER -> {"row", "done"}

Step(w) ==
    LET s == Current(w)
    IN  /\ pc[w] = "use"
        /\ next[w] = Parameters[s]
        /\ \/ /\ CanStep(s)
              /\ \E outcome \in Outcomes(s) :
                    /\ position' = [position EXCEPT ![s] = outcome]
                    /\ IF outcome = "row" /\ s \in ManyRows
                       THEN UNCHANGED pc
                       ELSE Goto(w, "reset")
              /\ UNCHANGED error
           \/ /\ CanStep(s)
              /\ position' = [position EXCEPT ![s] = "failed"]
              /\ Throw(w, "storage")
           \/ /\ ~CanStep(s)
              /\ Throw(w, "misuse")
              /\ UNCHANGED position
        /\ UNCHANGED <<holder, bindings, use, next>>
-----------------------------------------------------------------------------
(* ~StatementResetGuard: reset throws what the last step failed with, so   *)
(* each of the two calls has a try block of its own.                       *)

OneTryBlock(w) ==                                           \* mutant
    IF position[Current(w)] = "failed" THEN "leave" ELSE "clear"
AfterReset(w) == "clear"

ForgetsReset(w) ==                                          \* mutant
    /\ pc[w] = "reset"
    /\ Goto(w, AfterReset(w))
    /\ UNCHANGED <<holder, position, bindings, use, next, error>>

Reset(w) ==
    /\ pc[w] = "reset"
    /\ position' = [position EXCEPT ![Current(w)] = "ready"]
    /\ Goto(w, AfterReset(w))
    /\ UNCHANGED <<holder, bindings, use, next, error>>

ClearBindings(w) ==
    /\ pc[w] = "clear"
    /\ bindings' = [bindings EXCEPT ![Current(w)] = Unbound]
    /\ Goto(w, "leave")
    /\ UNCHANGED <<holder, position, use, next, error>>

(* The count is there: getPage goes on, or returns the error of getCount.  *)
EndCount(w) ==
    /\ pc[w] = "leave"
    /\ Current(w) = "count"
    /\ statement' = [statement EXCEPT ![w] = "page"]
    /\ next' = [next EXCEPT ![w] = 0]
    /\ Goto(w, IF error[w] = "none" THEN "use" ELSE "reset")
    /\ UNCHANGED <<holder, position, bindings, command, error>>

(* runHandlers: the next command of the queue, in the same transaction.    *)
NextCommand(w) ==
    /\ pc[w] = "leave"
    /\ Current(w) \in Updates
    /\ error[w] = "none"
    /\ command[w] < MaxCommands
    /\ command' = [command EXCEPT ![w] = @ + 1]
    /\ \E s \in Updates : Prepare(w, s)
    /\ UNCHANGED <<holder, position, bindings, error>>

(* The transaction commits or rolls back, and the mutex is released.       *)
LeavesUnguarded(w) == pc[w] \in {"leave", "reset"}          \* mutant
Leaves(w) == pc[w] = "leave"

Unlock(w) ==
    /\ Leaves(w)
    /\ Current(w) # "count"
    /\ holder' = NoWorker
    /\ Goto(w, "idle")
    /\ UNCHANGED <<position, bindings, use, next, error>>

Work(w) ==
    \/ Bind(w) \/ Step(w) \/ Reset(w) \/ ClearBindings(w)
    \/ EndCount(w) \/ NextCommand(w) \/ Unlock(w)

Next == \E w \in Workers : Lock(w) \/ Work(w)

Spec == Init /\ [][Next]_vars
-----------------------------------------------------------------------------
TypeOK ==
    /\ holder \in Workers \cup {NoWorker}
    /\ position \in [Names -> {"ready", "row", "done", "failed"}]
    /\ bindings \in [Names -> [1..MaxParameters -> Uses \cup {NoUse}]]
    /\ pc \in [Workers -> {"idle", "use", "reset", "clear", "leave"}]
    /\ statement \in [Workers -> Names]
    /\ next \in [Workers -> 0..MaxParameters]
    /\ command \in [Workers -> 1..MaxCommands]
    /\ error \in [Workers -> {"none", "storage", "misuse"}]

(* Whatever failed before, in this request or in another one, no call is   *)
(* ever refused because of the state a statement was left in.              *)
NoMisuse == \A w \in Workers : error[w] # "misuse"

(* A statement runs on the parameters of its own use, never on some of an  *)
(* earlier one.                                                            *)
RunsOnOwnParameters ==
    \A w \in Workers :
        pc[w] = "use" /\ next[w] = Parameters[Current(w)] =>
            \A p \in 1..MaxParameters :
                bindings[Current(w)][p] =
                    IF p <= Parameters[Current(w)] THEN UseOf(w) ELSE NoUse

(* Between requests no statement is open or bound: none keeps a read       *)
(* transaction of the connection or the text of a request alive.           *)
QuietWhenFree ==
    holder = NoWorker =>
        \A s \in Names : position[s] = "ready" /\ bindings[s] = Unbound
-----------------------------------------------------------------------------
(* What a caller sees of all this: a statement has not run until its last  *)
(* step, then it ran on the parameters that are bound, and the guard is no *)
(* part of the use.                                                        *)
Stage == [w \in Workers |->
    CASE pc[w] = "idle" -> "idle"
      [] pc[w] = "use" -> "called"
      [] pc[w] = "reset" -> "ran"
      [] OTHER -> "returned"]

Given == [w \in Workers |->
    IF pc[w] = "reset" /\ error[w] = "none"
    THEN [p \in 1..Parameters[Current(w)] |-> bindings[Current(w)][p]]
    ELSE <<>>]

OneStep == INSTANCE StatementUses WITH stage <- Stage, given <- Given

(* Calls on shared statements, each of which can be refused, are uses that *)
(* take one step, run on the caller's own parameters and leave nothing     *)
(* behind: what TodoServer assumes of a statement.                         *)
ImplementsUses == OneStep!Spec
=============================================================================
