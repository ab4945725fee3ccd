----------------------------- MODULE StatementUses -----------------------------
(***************************************************************************)
(* What a repository method takes a use of a prepared statement to be, and *)
(* TodoServer with it: the caller's parameters go in, and in one step the  *)
(* statement has run on them or SQLite has refused it.  There is nothing   *)
(* that one use could leave behind for the next.                           *)
(***************************************************************************)
EXTENDS Integers

CONSTANTS
    Workers,        \* the threads that run route handlers
    NoWorker,       \* "nobody holds the mutex"
    Names,          \* the statements
    Updates,        \* those of them that execute a command of a handler
    Parameters,     \* how many parameters each has
    MaxCommands     \* bound: commands in the queue of a handler

VARIABLES
    holder,     \* the worker that holds DataBase::mutex_
    stage,      \* of each worker: idle, called, ran or returned
    statement,  \* the statement each worker uses
    command,    \* the position in the queue of the command it executes
    given,      \* the parameters on which its statement ran
    error       \* none or storage (SQLite refused)

vars == <<holder, stage, statement, command, given, error>>

Init ==
    /\ holder = NoWorker
    /\ stage = [w \in Workers |-> "idle"]
    /\ statement = [w \in Workers |-> "count"]
    /\ command = [w \in Workers |-> 1]
    /\ given = [w \in Workers |-> <<>>]
    /\ error = [w \in Workers |-> "none"]

Enter(w, place) == stage' = [stage EXCEPT ![w] = place]

(* A page is counted before it is read.                                    *)
Call(w, s) ==
    /\ Enter(w, "called")
    /\ statement' = [statement EXCEPT ![w] = IF s = "page" THEN "count" ELSE s]

Begin(w) ==
    /\ stage[w] = "idle" /\ holder = NoWorker
    /\ holder' = w
    /\ \E s \in Names \ {"count"} : Call(w, s)
    /\ command' = [command EXCEPT ![w] = 1]
    /\ error' = [error EXCEPT ![w] = "none"]
    /\ UNCHANGED given

(* What a caller passes: each parameter is of this use.                    *)
OwnParameters(w) == [p \in 1..Parameters[statement[w]] |-> <<w, command[w]>>]

Run(w) ==
    /\ stage[w] = "called"
    /\ given' = [given EXCEPT ![w] = OwnParameters(w)]
    /\ Enter(w, "ran")
    /\ UNCHANGED <<holder, statement, command, error>>

Refused(w) ==
    /\ stage[w] = "called"
    /\ error' = [error EXCEPT ![w] = "storage"]
    /\ Enter(w, "ran")
    /\ UNCHANGED <<holder, statement, command, given>>

Return(w) ==
    /\ stage[w] = "ran"
    /\ given' = [given EXCEPT ![w] = <<>>]
    /\ Enter(w, "returned")
    /\ UNCHANGED <<holder, statement, command, error>>

(* getPage reads the page, or returns the error of getCount.               *)
ReadPage(w) ==
    /\ stage[w] = "returned" /\ statement[w] = "count"
    /\ statement' = [statement EXCEPT ![w] = "page"]
    /\ Enter(w, IF error[w] = "none" THEN "called" ELSE "ran")
    /\ UNCHANGED <<holder, command, given, error>>

(* The next command of a queue, in the same transaction.                   *)
NextCommand(w) ==
    /\ stage[w] = "returned" /\ statement[w] \in Updates
    /\ error[w] = "none" /\ command[w] < MaxCommands
    /\ command' = [command EXCEPT ![w] = @ + 1]
    /\ \E s \in Updates : Call(w, s)
    /\ UNCHANGED <<holder, given, error>>

End(w) ==
    /\ stage[w] = "returned" /\ statement[w] # "count"
    /\ holder' = NoWorker
    /\ Enter(w, "idle")
    /\ UNCHANGED <<statement, command, given, error>>

Next ==
    \E w \in Workers :
        \/ Begin(w) \/ Run(w) \/ Refused(w) \/ Return(w)
        \/ ReadPage(w) \/ NextCommand(w) \/ End(w)

Spec == Init /\ [][Next]_vars
=============================================================================
