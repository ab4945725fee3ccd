-------------------------- MODULE Statements_proofs --------------------------
(***************************************************************************)
(* Proofs about Statements, for every set of workers and every length of   *)
(* a handler's queue.                                                      *)
(***************************************************************************)
EXTENDS Statements, TLAPS

Quiet(s) == position[s] = "ready" /\ bindings[s] = Unbound

(* Exactly the worker that is not idle holds the mutex.                    *)
Mutex == \A w \in Workers : pc[w] # "idle" <=> holder = w

(* Every statement is quiet except the one the holder of the mutex uses.   *)
OthersQuiet ==
    \A s \in Names : (\A w \in Workers : holder = w => s # Current(w)) => Quiet(s)

(* The statement in use: its first parameters are bound for this use, it   *)
(* is stepped only when all are, and its guard undoes both.                *)
InUse(w) ==
    /\ pc[w] = "use" =>
          /\ next[w] <= Parameters[Current(w)]
          /\ \/ position[Current(w)] = "ready"
             \/ /\ position[Current(w)] = "row"
                /\ Current(w) \in ManyRows
                /\ next[w] = Parameters[Current(w)]
          /\ \A p \in 1..MaxParameters :
                bindings[Current(w)][p] = IF p <= next[w] THEN UseOf(w) ELSE NoUse
    /\ pc[w] = "clear" => position[Current(w)] = "ready"
    /\ pc[w] = "leave" => Quiet(Current(w))

Inv == TypeOK /\ Mutex /\ OthersQuiet /\ (\A w \in Workers : InUse(w)) /\ NoMisuse

LEMMA ParametersType == Parameters \in [Names -> 0..MaxParameters]
BY DEF Parameters, MaxParameters, Names, Writes, Updates, OneRow, ManyRows

LEMMA UnboundType ==
    /\ Unbound \in [1..MaxParameters -> Uses \cup {NoUse}]
    /\ \A p \in 1..MaxParameters : Unbound[p] = NoUse
BY DEF Unbound

(* Only the names matter that a step of a worker may choose.               *)
LEMMA NamesFacts ==
    /\ "count" \in Names /\ "page" \in Names
    /\ Updates \subseteq Names /\ "count" \notin Updates
BY DEF Names, Updates, Writes, OneRow, ManyRows

LEMMA InitInv == Init => Inv
<1> SUFFICES ASSUME Init PROVE Inv
    OBVIOUS
<1>1. TypeOK
    BY StatementsAssumption, UnboundType, NamesFacts DEF Init, TypeOK, MaxParameters
<1>2. Mutex /\ NoMisuse
    BY StatementsAssumption DEF Init, Mutex, NoMisuse
<1>3. OthersQuiet /\ (\A w \in Workers : InUse(w))
    BY DEF Init, OthersQuiet, Quiet, InUse
<1> QED
    BY <1>1, <1>2, <1>3 DEF Inv

LEMMA LockInv == \A w \in Workers : Inv /\ Lock(w) => Inv'
<1> SUFFICES ASSUME NEW w \in Workers, Inv, Lock(w) PROVE Inv'
    OBVIOUS
<1>1. PICK s \in Names \ {"count"} : Prepare(w, s)
    BY DEF Lock
<1>2. /\ pc[w] = "idle" /\ holder = NoWorker /\ holder' = w
      /\ command' = [command EXCEPT ![w] = 1] /\ error' = [error EXCEPT ![w] = "none"]
      /\ UNCHANGED <<position, bindings>>
      /\ pc' = [pc EXCEPT ![w] = "use"]
      /\ statement' = [statement EXCEPT ![w] = IF s = "page" THEN "count" ELSE s]
      /\ next' = [next EXCEPT ![w] = 0]
    BY <1>1 DEF Lock, MutexFree, Prepare, Goto
<1>3. TypeOK'
    BY <1>2, StatementsAssumption, NamesFacts DEF Inv, TypeOK, MaxParameters
<1>4. \A v \in Workers \ {w} : pc[v] = "idle" /\ pc'[v] = "idle"
    BY <1>2, StatementsAssumption DEF Inv, Mutex, TypeOK
<1>5. Mutex'
    BY <1>2, <1>4, StatementsAssumption DEF Inv, Mutex, TypeOK
<1>6. \A t \in Names : Quiet(t) /\ Quiet(t)'
    BY <1>2, StatementsAssumption DEF Inv, OthersQuiet, Quiet
<1>7. InUse(w)'
    <2>1. /\ statement'[w] \in Names /\ next'[w] = 0 /\ pc'[w] = "use"
        BY <1>2, NamesFacts DEF Inv, TypeOK
    <2>2. Parameters[statement'[w]] >= 0
        BY <2>1, ParametersType DEF MaxParameters
    <2>3. /\ position'[statement'[w]] = "ready"
          /\ \A p \in 1..MaxParameters : bindings'[statement'[w]][p] = NoUse
        BY <1>6, <2>1, UnboundType DEF Quiet
    <2>4. \A p \in 1..MaxParameters : ~(p <= next'[w])
        BY <2>1 DEF MaxParameters
    <2> QED
        BY <2>1, <2>2, <2>3, <2>4 DEF InUse, Current
<1>8. NoMisuse'
    BY <1>2 DEF Inv, NoMisuse, TypeOK
<1> QED
    BY <1>3, <1>4, <1>5, <1>6, <1>7, <1>8 DEF Inv, InUse, OthersQuiet

(* A step of the holder that touches no statement but its own, and goes on *)
(* holding the mutex: what is left to show is about its own statement.     *)
LEMMA OwnStatement ==
    ASSUME NEW w \in Workers, Inv, pc[w] # "idle", pc'[w] # "idle", UNCHANGED holder,
           pc' = [pc EXCEPT ![w] = pc'[w]],
           statement' = [statement EXCEPT ![w] = statement'[w]],
           \A t \in Names \ {Current(w)} : position'[t] = position[t] /\ bindings'[t] = bindings[t],
           Current(w)' = Current(w) \/ (position'[Current(w)] = "ready" /\ bindings'[Current(w)] = Unbound),
           \A v \in Workers \ {w} : error'[v] = error[v],
           error'[w] # "misuse", TypeOK', InUse(w)'
    PROVE  Inv'
<1>1. /\ holder = w /\ holder' = w
      /\ \A v \in Workers \ {w} : pc[v] = "idle" /\ pc'[v] = "idle"
    BY StatementsAssumption DEF Inv, Mutex, TypeOK
<1>2. Mutex'
    BY <1>1 DEF Mutex
<1>3. OthersQuiet'
    BY <1>1 DEF Inv, OthersQuiet, Quiet, Current
<1>4. \A v \in Workers : InUse(v)'
    BY <1>1 DEF InUse
<1>5. NoMisuse'
    BY DEF Inv, NoMisuse
<1> QED
    BY <1>2, <1>3, <1>4, <1>5 DEF Inv

LEMMA BindInv == \A w \in Workers : Inv /\ Bind(w) => Inv'
<1> SUFFICES ASSUME NEW w \in Workers, Inv, Bind(w) PROVE Inv'
    OBVIOUS
<1> DEFINE s == Current(w)
<1>1. /\ pc[w] = "use" /\ s \in Names /\ next[w] < Parameters[s]
      /\ next[w] \in 0..MaxParameters /\ Parameters[s] \in 0..MaxParameters
      /\ position[s] = "ready"
      /\ UNCHANGED <<holder, position, statement, command>>
    BY ParametersType DEF Bind, use, Inv, TypeOK, InUse, Current
<1>2. UseOf(w) \in Uses
    BY DEF UseOf, Uses, Inv, TypeOK
<1>3. ASSUME bindings' = [bindings EXCEPT ![s][next[w] + 1] = UseOf(w)],
             next' = [next EXCEPT ![w] = @ + 1], UNCHANGED <<pc, error>>
      PROVE  Inv'
    <2>1. TypeOK'
        BY <1>1, <1>2, <1>3 DEF Inv, TypeOK, MaxParameters
    <2>2. /\ next'[w] = next[w] + 1 /\ next'[w] <= Parameters[s]
          /\ \A p \in 1..MaxParameters :
                bindings'[s][p] = IF p = next[w] + 1 THEN UseOf(w) ELSE bindings[s][p]
        BY <1>1, <1>3 DEF Inv, TypeOK, MaxParameters
    <2>3. \A p \in 1..MaxParameters :
             bindings'[s][p] = IF p <= next'[w] THEN UseOf(w) ELSE NoUse
        BY <1>1, <2>2 DEF Inv, InUse, MaxParameters
    <2>4. InUse(w)'
        BY <1>1, <1>3, <2>2, <2>3 DEF InUse, Current, UseOf
    <2>5. \A t \in Names \ {s} : bindings'[t] = bindings[t]
        BY <1>3 DEF Inv, TypeOK
    <2>6. pc' = [pc EXCEPT ![w] = pc'[w]] /\ statement' = [statement EXCEPT ![w] = statement'[w]]
        BY <1>1, <1>3 DEF Inv, TypeOK
    <2> QED
        BY <1>1, <1>3, <2>1, <2>4, <2>5, <2>6, OwnStatement DEF Inv, NoMisuse, Current
<1>4. ASSUME Throw(w, "storage"), UNCHANGED <<bindings, next>>
      PROVE  Inv'
    <2>1. TypeOK' /\ pc'[w] = "reset" /\ error'[w] = "storage"
        BY <1>1, <1>4 DEF Inv, TypeOK, Throw, Goto
    <2>2. InUse(w)'
        BY <2>1 DEF InUse
    <2>3. /\ pc' = [pc EXCEPT ![w] = pc'[w]] /\ statement' = [statement EXCEPT ![w] = statement'[w]]
          /\ \A v \in Workers \ {w} : error'[v] = error[v]
        BY <1>1, <1>4 DEF Inv, TypeOK, Throw, Goto
    <2> QED
        BY <1>1, <1>4, <2>1, <2>2, <2>3, OwnStatement DEF Current
<1> QED
    BY <1>1, <1>3, <1>4 DEF Bind

(* A step of the statement, refused or not.                                *)
LEMMA StepInv == \A w \in Workers : Inv /\ Step(w) => Inv'
<1> SUFFICES ASSUME NEW w \in Workers, Inv, Step(w) PROVE Inv'
    OBVIOUS
<1> DEFINE s == Current(w)
<1>1. /\ pc[w] = "use" /\ s \in Names /\ next[w] = Parameters[s] /\ CanStep(s)
      /\ UNCHANGED <<holder, bindings, statement, command, next>>
    BY DEF Step, use, Inv, TypeOK, InUse, Current, CanStep
<1>2. statement' = [statement EXCEPT ![w] = statement'[w]]
    BY <1>1 DEF Inv, TypeOK
<1>3. ASSUME NEW outcome \in {"row", "done"},
             position' = [position EXCEPT ![s] = outcome],
             (outcome = "row" /\ s \in ManyRows) \/ Goto(w, "reset"),
             outcome = "row" /\ s \in ManyRows => UNCHANGED pc,
             UNCHANGED error
      PROVE  Inv'
    <2>1. TypeOK' /\ pc' = [pc EXCEPT ![w] = pc'[w]] /\ pc'[w] \in {"use", "reset"}
        BY <1>1, <1>3 DEF Inv, TypeOK, Goto
    <2>2. \A t \in Names \ {s} : position'[t] = position[t]
        BY <1>3 DEF Inv, TypeOK
    <2>3. InUse(w)'
        <3>1. CASE pc'[w] = "reset"
            BY <3>1 DEF InUse
        <3>2. CASE pc'[w] = "use"
            <4>1. position'[s] = "row" /\ s \in ManyRows
                BY <1>1, <1>3, <3>2 DEF Goto, Inv, TypeOK
            <4> QED
                BY <1>1, <3>2, <4>1 DEF Inv, InUse, Current, UseOf
        <3> QED
            BY <2>1, <3>1, <3>2
    <2> QED
        BY <1>1, <1>2, <1>3, <2>1, <2>2, <2>3, OwnStatement DEF Inv, NoMisuse, Current
<1>4. ASSUME position' = [position EXCEPT ![s] = "failed"], Throw(w, "storage")
      PROVE  Inv'
    <2>1. /\ TypeOK' /\ pc'[w] = "reset" /\ error'[w] = "storage"
          /\ pc' = [pc EXCEPT ![w] = pc'[w]]
          /\ \A v \in Workers \ {w} : error'[v] = error[v]
          /\ \A t \in Names \ {s} : position'[t] = position[t]
        BY <1>1, <1>4 DEF Inv, TypeOK, Throw, Goto
    <2>2. InUse(w)'
        BY <2>1 DEF InUse
    <2> QED
        BY <1>1, <1>2, <1>4, <2>1, <2>2, OwnStatement DEF Current
<1> QED
    BY <1>1, <1>3, <1>4 DEF Step, Outcomes

(* The guard: each of its two calls undoes one half.                       *)
LEMMA ResetInv == \A w \in Workers : Inv /\ Reset(w) => Inv'
<1> SUFFICES ASSUME NEW w \in Workers, Inv, Reset(w) PROVE Inv'
    OBVIOUS
<1> DEFINE s == Current(w)
<1>1. /\ pc[w] = "reset" /\ s \in Names /\ pc' = [pc EXCEPT ![w] = "clear"]
      /\ position' = [position EXCEPT ![s] = "ready"]
      /\ UNCHANGED <<holder, bindings, statement, command, next, error>>
    BY DEF Reset, AfterReset, use, Goto, Inv, TypeOK, Current
<1>2. /\ TypeOK' /\ pc'[w] = "clear" /\ position'[s] = "ready"
      /\ statement' = [statement EXCEPT ![w] = statement'[w]]
      /\ \A t \in Names \ {s} : position'[t] = position[t]
    BY <1>1 DEF Inv, TypeOK
<1>3. InUse(w)'
    BY <1>1, <1>2 DEF InUse, Current
<1> QED
    BY <1>1, <1>2, <1>3, OwnStatement DEF Inv, NoMisuse, Current

LEMMA ClearBindingsInv == \A w \in Workers : Inv /\ ClearBindings(w) => Inv'
<1> SUFFICES ASSUME NEW w \in Workers, Inv, ClearBindings(w) PROVE Inv'
    OBVIOUS
<1> DEFINE s == Current(w)
<1>1. /\ pc[w] = "clear" /\ s \in Names /\ pc' = [pc EXCEPT ![w] = "leave"]
      /\ bindings' = [bindings EXCEPT ![s] = Unbound]
      /\ UNCHANGED <<holder, position, statement, command, next, error>>
    BY DEF ClearBindings, use, Goto, Inv, TypeOK, Current
<1>2. /\ TypeOK' /\ pc'[w] = "leave" /\ bindings'[s] = Unbound
      /\ statement' = [statement EXCEPT ![w] = statement'[w]]
      /\ \A t \in Names \ {s} : bindings'[t] = bindings[t]
    BY <1>1, UnboundType DEF Inv, TypeOK
<1>3. position[s] = "ready"
    BY <1>1 DEF Inv, InUse
<1>4. InUse(w)'
    BY <1>1, <1>2, <1>3 DEF InUse, Current, Quiet
<1> QED
    BY <1>1, <1>2, <1>4, OwnStatement DEF Inv, NoMisuse, Current

(* The holder leaves one statement and turns to another, which is quiet.   *)
LEMMA TurnTo ==
    ASSUME NEW w \in Workers, NEW s \in Names, Inv, pc[w] = "leave",
           statement' = [statement EXCEPT ![w] = s], next' = [next EXCEPT ![w] = 0],
           NEW place \in {"use", "reset"}, pc' = [pc EXCEPT ![w] = place],
           UNCHANGED <<holder, position, bindings, error>>,
           command' \in [Workers -> 1..MaxCommands]
    PROVE  Inv'
<1>1. holder = w /\ \A t \in Names : Quiet(t)
    BY StatementsAssumption DEF Inv, Mutex, OthersQuiet, InUse, TypeOK, Current
<1>2. /\ pc'[w] = place /\ statement'[w] = s /\ next'[w] = 0 /\ Current(w) \in Names
      /\ pc' = [pc EXCEPT ![w] = pc'[w]] /\ statement' = [statement EXCEPT ![w] = statement'[w]]
    BY DEF Inv, TypeOK, Current
<1>3. 0 <= Parameters[s] /\ \A p \in 1..MaxParameters : ~(p <= next'[w])
    BY <1>2, ParametersType DEF MaxParameters
<1>4. /\ position'[s] = "ready" /\ bindings'[s] = Unbound
      /\ \A p \in 1..MaxParameters : bindings'[s][p] = NoUse
    BY <1>1, UnboundType DEF Quiet
<1>5. InUse(w)'
    BY <1>2, <1>3, <1>4 DEF InUse, Current
<1>6. position'[Current(w)] = "ready" /\ bindings'[Current(w)] = Unbound
    BY <1>1, <1>2 DEF Quiet
<1>7. TypeOK'
    <2>1. /\ pc' \in [Workers -> {"idle", "use", "reset", "clear", "leave"}]
          /\ statement' \in [Workers -> Names]
          /\ next' \in [Workers -> 0..MaxParameters]
        BY DEF Inv, TypeOK, MaxParameters
    <2> QED
        BY <2>1 DEF Inv, TypeOK
<1>8. pc[w] # "idle" /\ pc'[w] # "idle" /\ error'[w] # "misuse"
    BY <1>2 DEF Inv, NoMisuse
<1> QED
    BY <1>2, <1>5, <1>6, <1>7, <1>8, OwnStatement

LEMMA EndCountInv == \A w \in Workers : Inv /\ EndCount(w) => Inv'
<1> SUFFICES ASSUME NEW w \in Workers, Inv, EndCount(w) PROVE Inv'
    OBVIOUS
<1>1. PICK place \in {"use", "reset"} : pc' = [pc EXCEPT ![w] = place]
    BY DEF EndCount, Goto
<1>2. command' \in [Workers -> 1..MaxCommands]
    BY DEF EndCount, Inv, TypeOK
<1> QED
    BY <1>1, <1>2, NamesFacts, TurnTo DEF EndCount

LEMMA NextCommandInv == \A w \in Workers : Inv /\ NextCommand(w) => Inv'
<1> SUFFICES ASSUME NEW w \in Workers, Inv, NextCommand(w) PROVE Inv'
    OBVIOUS
<1>1. PICK s \in Updates : Prepare(w, s)
    BY DEF NextCommand
<1>2. command' \in [Workers -> 1..MaxCommands]
    BY StatementsAssumption DEF NextCommand, Inv, TypeOK
<1>3. s \in Names /\ s # "page"
    BY NamesFacts DEF Updates
<1> QED
    BY <1>1, <1>2, <1>3, TurnTo DEF NextCommand, Prepare, Goto

LEMMA UnlockInv == \A w \in Workers : Inv /\ Unlock(w) => Inv'
<1> SUFFICES ASSUME NEW w \in Workers, Inv, Unlock(w) PROVE Inv'
    OBVIOUS
<1>1. /\ pc[w] = "leave" /\ holder' = NoWorker /\ pc' = [pc EXCEPT ![w] = "idle"]
      /\ UNCHANGED <<position, bindings, statement, command, next, error>>
    BY DEF Unlock, Leaves, Goto, use
<1>2. holder = w /\ \A t \in Names : Quiet(t)
    BY <1>1, StatementsAssumption DEF Inv, Mutex, OthersQuiet, InUse, TypeOK, Current
<1>3. \A v \in Workers : pc'[v] = "idle"
    BY <1>1, <1>2, StatementsAssumption DEF Inv, Mutex, TypeOK
<1>4. TypeOK' /\ Mutex'
    BY <1>1, <1>3, StatementsAssumption DEF Inv, TypeOK, Mutex
<1>5. OthersQuiet' /\ (\A v \in Workers : InUse(v)') /\ NoMisuse'
    BY <1>1, <1>2, <1>3 DEF Inv, OthersQuiet, Quiet, InUse, NoMisuse
<1> QED
    BY <1>4, <1>5 DEF Inv

LEMMA Invariance == Spec => []Inv
<1>1. Inv /\ [Next]_vars => Inv'
    <2>1. Inv /\ UNCHANGED vars => Inv'
        BY DEF vars, use, Inv, TypeOK, Mutex, OthersQuiet, Quiet, InUse, NoMisuse, Current, UseOf
    <2>2. Inv /\ Next => Inv'
        BY LockInv, BindInv, StepInv, ResetInv, ClearBindingsInv, EndCountInv, NextCommandInv,
           UnlockInv DEF Next, Work
    <2> QED
        BY <2>1, <2>2
<1> QED
    BY <1>1, InitInv, PTL DEF Spec

(* Every reachable state is well typed.                                    *)
THEOREM TypeCorrect == Spec => []TypeOK
<1>1. Inv => TypeOK
    BY DEF Inv
<1> QED
    BY <1>1, Invariance, PTL

(* No bind and no step meets a statement in a state it must not be in.     *)
THEOREM NeverMisused == Spec => []NoMisuse
<1>1. Inv => NoMisuse
    BY DEF Inv
<1> QED
    BY <1>1, Invariance, PTL

(* Every statement runs on exactly the parameters of its own use.          *)
THEOREM OwnParameters == Spec => []RunsOnOwnParameters
<1>1. Inv => RunsOnOwnParameters
    BY ParametersType DEF Inv, TypeOK, InUse, RunsOnOwnParameters, Current, MaxParameters
<1> QED
    BY <1>1, Invariance, PTL

(* Whenever the mutex is free, every statement is reset and unbound.       *)
THEOREM QuietBetweenRequests == Spec => []QuietWhenFree
<1>1. Inv => QuietWhenFree
    BY StatementsAssumption DEF Inv, OthersQuiet, Quiet, QuietWhenFree
<1> QED
    BY <1>1, Invariance, PTL
-----------------------------------------------------------------------------
(* The refinement: every call is a stutter or one step of a use.           *)

(* A worker uses a statement only as long as nothing has been refused.     *)
Unrefused == \A w \in Workers : pc[w] = "use" => error[w] = "none"

LEMMA UnrefusedNext == Inv /\ Unrefused /\ [Next]_vars => Unrefused'
<1> SUFFICES ASSUME Inv, Unrefused, [Next]_vars PROVE Unrefused'
    OBVIOUS
<1> USE DEF Unrefused, Goto, Throw, Inv, TypeOK
<1>1. CASE UNCHANGED vars
    BY <1>1 DEF vars
<1>2. ASSUME NEW w \in Workers, Lock(w) \/ NextCommand(w)
      PROVE  Unrefused'
    BY <1>2 DEF Lock, NextCommand, Prepare
<1>3. ASSUME NEW w \in Workers, Bind(w) \/ Step(w)
      PROVE  Unrefused'
    BY <1>3 DEF Bind, Step
<1>4. ASSUME NEW w \in Workers, Reset(w) \/ ClearBindings(w) \/ EndCount(w) \/ Unlock(w)
      PROVE  Unrefused'
    BY <1>4 DEF Reset, AfterReset, ClearBindings, EndCount, Unlock
<1> QED
    BY <1>1, <1>2, <1>3, <1>4 DEF Next, Work

Mapped == <<holder, Stage, statement, command, Given, error>>

(* Only the worker that moves is shown to move.                            *)
LEMMA OnlyOwn ==
    ASSUME Inv, Inv', NEW w \in Workers, pc' = [pc EXCEPT ![w] = pc'[w]], pc[w] # "idle" \/ pc'[w] # "idle"
    PROVE  /\ Stage' = [Stage EXCEPT ![w] = Stage'[w]]
           /\ Given' = [Given EXCEPT ![w] = Given'[w]]
<1>1. \A v \in Workers \ {w} : pc'[v] = pc[v] /\ pc[v] = "idle"
    BY StatementsAssumption DEF Inv, Mutex, TypeOK
<1>2. \A v \in Workers \ {w} : Stage'[v] = Stage[v]
    BY <1>1 DEF Stage
<1>3. \A v \in Workers \ {w} : Given'[v] = <<>> /\ Given[v] = <<>>
    BY <1>1 DEF Given
<1>4. /\ Stage = [v \in Workers |-> Stage[v]] /\ Stage' = [v \in Workers |-> Stage'[v]]
      /\ Given = [v \in Workers |-> Given[v]] /\ Given' = [v \in Workers |-> Given'[v]]
    BY DEF Stage, Given
<1>5. Stage' = [Stage EXCEPT ![w] = Stage'[w]]
    BY <1>2, <1>4
<1> QED
    BY <1>3, <1>4, <1>5

(* What is shown of a worker, place by place.                              *)
LEMMA ShownStage ==
    ASSUME NEW w \in Workers
    PROVE  /\ pc[w] = "idle" => Stage[w] = "idle"
           /\ pc[w] = "use" => Stage[w] = "called"
           /\ pc[w] = "reset" => Stage[w] = "ran"
           /\ pc[w] \in {"clear", "leave"} => Stage[w] = "returned"
           /\ ~(pc[w] = "reset" /\ error[w] = "none") => Given[w] = <<>>
BY DEF Stage, Given

LEMMA ShownStageNext ==
    ASSUME NEW w \in Workers
    PROVE  /\ pc'[w] = "idle" => Stage'[w] = "idle"
           /\ pc'[w] = "use" => Stage'[w] = "called"
           /\ pc'[w] = "reset" => Stage'[w] = "ran"
           /\ pc'[w] \in {"clear", "leave"} => Stage'[w] = "returned"
           /\ ~(pc'[w] = "reset" /\ error'[w] = "none") => Given'[w] = <<>>
BY DEF Stage, Given

LEMMA InitUses == Init => OneStep!Init
BY DEF Init, OneStep!Init, Stage, Given

(* A bind shows nothing, unless SQLite refuses it.                         *)
LEMMA BindUses ==
    ASSUME NEW w \in Workers, Inv, Inv', Bind(w)
    PROVE  OneStep!Refused(w) \/ UNCHANGED Mapped
<1>1. /\ pc[w] = "use" /\ position[Current(w)] = "ready"
      /\ UNCHANGED <<holder, position, statement, command>>
    BY DEF Bind, use, Inv, TypeOK, InUse
<1>2. CASE UNCHANGED <<pc, error>>
    <2>1. \A v \in Workers : pc[v] # "reset"
        BY <1>1, StatementsAssumption DEF Inv, Mutex, TypeOK
    <2>2. Stage' = Stage /\ Given' = Given
        BY <1>2, <2>1 DEF Stage, Given
    <2> QED
        BY <1>1, <1>2, <2>2 DEF Mapped
<1>3. CASE Throw(w, "storage")
    <2>1. /\ pc' = [pc EXCEPT ![w] = "reset"] /\ pc'[w] = "reset"
          /\ error' = [error EXCEPT ![w] = "storage"] /\ error'[w] = "storage"
        BY <1>3 DEF Throw, Goto, Inv, TypeOK
    <2>2. /\ Stage' = [Stage EXCEPT ![w] = "ran"] /\ Stage[w] = "called"
          /\ Given' = [Given EXCEPT ![w] = <<>>] /\ Given[w] = <<>>
        BY <1>1, <2>1, OnlyOwn, ShownStage, ShownStageNext
    <2>3. Given' = Given
        BY <2>2 DEF Given
    <2> QED
        BY <1>1, <2>1, <2>2, <2>3 DEF OneStep!Refused, OneStep!Enter
<1> QED
    BY <1>1, <1>2, <1>3 DEF Bind

(* The last step of a statement is the whole use.                          *)
LEMMA StepUses ==
    ASSUME NEW w \in Workers, Inv, Inv', Unrefused, Step(w)
    PROVE  OneStep!Run(w) \/ OneStep!Refused(w) \/ UNCHANGED Mapped
<1> DEFINE s == Current(w)
<1>1. /\ pc[w] = "use" /\ next[w] = Parameters[s] /\ s \in Names /\ CanStep(s)
      /\ UNCHANGED <<holder, bindings, statement, command, next>> /\ s' = s
      /\ error[w] # "misuse"
    BY DEF Step, use, Inv, NoMisuse, TypeOK, InUse, Current, CanStep
<1>2. Stage[w] = "called" /\ Given[w] = <<>>
    BY <1>1, ShownStage
<1>3. CASE UNCHANGED <<pc, error>>
    <2>1. \A v \in Workers : pc[v] # "reset"
        BY <1>1, StatementsAssumption DEF Inv, Mutex, TypeOK
    <2>2. Stage' = Stage /\ Given' = Given
        BY <1>3, <2>1 DEF Stage, Given
    <2> QED
        BY <1>1, <1>3, <2>2 DEF Mapped
<1>4. CASE Goto(w, "reset") /\ UNCHANGED error
    <2>1. pc' = [pc EXCEPT ![w] = "reset"] /\ pc'[w] = "reset"
        BY <1>4 DEF Goto, Inv, TypeOK
    <2>2. Stage' = [Stage EXCEPT ![w] = "ran"]
        BY <1>1, <2>1, OnlyOwn, ShownStageNext
    <2>3. Given' = [Given EXCEPT ![w] = Given'[w]]
        BY <1>1, <2>1, OnlyOwn
    <2>4. error'[w] = "none"
        BY <1>1, <1>4 DEF Unrefused
    <2>5. Given'[w] = [p \in 1..Parameters[s] |-> bindings[s][p]]
        BY <1>1, <2>1, <2>4 DEF Given
    <2>6. Parameters[s] \in 0..MaxParameters
        BY <1>1, ParametersType
    <2>7. \A p \in 1..Parameters[s] : bindings[s][p] = UseOf(w)
        BY <1>1, <2>6 DEF Inv, InUse, MaxParameters
    <2>8. Given'[w] = OneStep!OwnParameters(w)
        BY <2>5, <2>7 DEF OneStep!OwnParameters, UseOf, Current
    <2> QED
        BY <1>1, <1>2, <1>4, <2>2, <2>3, <2>8 DEF OneStep!Run, OneStep!Enter
<1>5. CASE Throw(w, "storage")
    <2>1. /\ pc' = [pc EXCEPT ![w] = "reset"] /\ pc'[w] = "reset"
          /\ error' = [error EXCEPT ![w] = "storage"] /\ error'[w] = "storage"
        BY <1>5 DEF Throw, Goto, Inv, TypeOK
    <2>2. Stage' = [Stage EXCEPT ![w] = "ran"] /\ Given' = [Given EXCEPT ![w] = <<>>]
        BY <1>1, <2>1, OnlyOwn, ShownStageNext
    <2>3. Given' = Given
        BY <1>2, <2>2 DEF Given
    <2> QED
        BY <1>1, <1>2, <2>1, <2>2, <2>3 DEF OneStep!Refused, OneStep!Enter
<1> QED
    BY <1>1, <1>3, <1>4, <1>5 DEF Step

(* The guard: once reset, the statement has returned.                      *)
LEMMA GuardUses ==
    ASSUME NEW w \in Workers, Inv, Inv', Reset(w) \/ ClearBindings(w)
    PROVE  OneStep!Return(w) \/ UNCHANGED Mapped
<1>1. CASE Reset(w)
    <2>1. /\ pc[w] = "reset" /\ pc' = [pc EXCEPT ![w] = "clear"] /\ pc'[w] = "clear"
          /\ UNCHANGED <<holder, statement, command, error>>
        BY <1>1 DEF Reset, AfterReset, Goto, use, Inv, TypeOK
    <2>2. /\ Stage[w] = "ran" /\ Stage' = [Stage EXCEPT ![w] = "returned"]
          /\ Given' = [Given EXCEPT ![w] = <<>>]
        BY <2>1, OnlyOwn, ShownStage, ShownStageNext
    <2> QED
        BY <2>1, <2>2 DEF OneStep!Return, OneStep!Enter
<1>2. CASE ClearBindings(w)
    <2>1. /\ pc[w] = "clear" /\ pc' = [pc EXCEPT ![w] = "leave"] /\ pc'[w] = "leave"
          /\ UNCHANGED <<holder, statement, command, error>>
        BY <1>2 DEF ClearBindings, Goto, use, Inv, TypeOK
    <2>2. /\ Stage[w] = "returned" /\ Stage' = [Stage EXCEPT ![w] = "returned"]
          /\ Given[w] = <<>> /\ Given' = [Given EXCEPT ![w] = <<>>]
        BY <2>1, OnlyOwn, ShownStage, ShownStageNext
    <2>3. Stage' = Stage /\ Given' = Given
        BY <2>2 DEF Stage, Given
    <2> QED
        BY <2>1, <2>3 DEF Mapped
<1> QED
    BY <1>1, <1>2

(* The rest is the same step in both modules.                              *)
LEMMA CallUses ==
    ASSUME NEW w \in Workers, Inv, Inv', Lock(w) \/ EndCount(w) \/ NextCommand(w) \/ Unlock(w)
    PROVE  OneStep!Begin(w) \/ OneStep!ReadPage(w) \/ OneStep!NextCommand(w) \/ OneStep!End(w)
<1>1. /\ pc[w] \in {"idle", "leave"} /\ pc'[w] \in {"idle", "use", "reset"}
      /\ pc' = [pc EXCEPT ![w] = pc'[w]]
      /\ pc'[w] = "reset" => error'[w] # "none"
      /\ pc[w] # "idle" \/ pc'[w] # "idle"
    BY DEF Lock, EndCount, NextCommand, Unlock, Leaves, Prepare, Goto, Inv, TypeOK
<1>2. Given' = Given
    <2>1. Given' = [Given EXCEPT ![w] = <<>>] /\ Given[w] = <<>>
        BY <1>1, OnlyOwn, ShownStage, ShownStageNext
    <2> QED
        BY <2>1 DEF Given
<1>3. /\ Stage' = [Stage EXCEPT ![w] = Stage'[w]]
      /\ pc[w] = "idle" => Stage[w] = "idle"
      /\ pc[w] = "leave" => Stage[w] = "returned"
      /\ pc'[w] = "use" => Stage'[w] = "called"
      /\ pc'[w] = "reset" => Stage'[w] = "ran"
      /\ pc'[w] = "idle" => Stage'[w] = "idle"
    BY <1>1, OnlyOwn, ShownStage, ShownStageNext
<1>4. CASE Lock(w)
    <2>1. PICK s \in Names \ {"count"} : Prepare(w, s)
        BY <1>4 DEF Lock
    <2>2. OneStep!Call(w, s)
        BY <1>3, <2>1 DEF Prepare, Goto, Inv, TypeOK, OneStep!Call, OneStep!Enter
    <2> QED
        BY <1>2, <1>3, <1>4, <2>2 DEF Lock, MutexFree, OneStep!Begin
<1>5. CASE EndCount(w)
    <2>1. pc'[w] = IF error[w] = "none" THEN "use" ELSE "reset"
        BY <1>5 DEF EndCount, Goto, Inv, TypeOK
    <2>2. OneStep!Enter(w, IF error[w] = "none" THEN "called" ELSE "ran")
        BY <1>3, <2>1 DEF OneStep!Enter
    <2> QED
        BY <1>2, <1>3, <1>5, <2>2 DEF EndCount, Current, OneStep!ReadPage
<1>6. CASE NextCommand(w)
    <2>1. PICK s \in Updates : Prepare(w, s)
        BY <1>6 DEF NextCommand
    <2>2. OneStep!Call(w, s)
        BY <1>3, <2>1 DEF Prepare, Goto, Inv, TypeOK, OneStep!Call, OneStep!Enter
    <2> QED
        BY <1>2, <1>3, <1>6, <2>2 DEF NextCommand, Current, OneStep!NextCommand
<1>7. CASE Unlock(w)
    <2>1. /\ pc[w] = "leave" /\ pc'[w] = "idle" /\ statement[w] # "count" /\ holder' = NoWorker
          /\ UNCHANGED <<statement, command, error>>
        BY <1>7 DEF Unlock, Leaves, Goto, use, Current, Inv, TypeOK
    <2> QED
        BY <1>2, <1>3, <2>1 DEF OneStep!End, OneStep!Enter
<1> QED
    BY <1>4, <1>5, <1>6, <1>7

LEMMA NextUses ==
    Inv /\ Inv' /\ Unrefused /\ [Next]_vars => [OneStep!Next]_(OneStep!vars)
<1> SUFFICES ASSUME Inv, Inv', Unrefused, [Next]_vars
             PROVE  OneStep!Next \/ UNCHANGED Mapped
    BY DEF OneStep!vars, Mapped
<1>1. CASE UNCHANGED vars
    BY <1>1 DEF vars, use, Mapped, Stage, Given, Current
<1>2. ASSUME NEW w \in Workers, Lock(w) \/ Work(w)
      PROVE  OneStep!Next \/ UNCHANGED Mapped
    BY <1>2, BindUses, StepUses, GuardUses, CallUses DEF Work, OneStep!Next
<1> QED
    BY <1>1, <1>2 DEF Next

(* Whatever is bound, stepped and refused, the shared statements are to    *)
(* their callers uses of one step, each on its own parameters.             *)
THEOREM StatementsImplementUses == Spec => ImplementsUses
<1>1. Init => Unrefused
    BY DEF Init, Unrefused
<1>2. Spec => []Unrefused
    BY <1>1, UnrefusedNext, Invariance, PTL DEF Spec
<1> QED
    BY <1>2, InitUses, NextUses, Invariance, PTL DEF Spec, ImplementsUses, OneStep!Spec
=============================================================================
