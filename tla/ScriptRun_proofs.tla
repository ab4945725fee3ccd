--------------------------- MODULE ScriptRun_proofs ---------------------------
(***************************************************************************)
(* Proofs about ScriptRun, for every hook interval, instruction limit and  *)
(* timeout, and every script.                                              *)
(***************************************************************************)
EXTENDS ScriptRun, TLAPS

(* The budget and the instructions executed always add up; a running       *)
(* script has budget left and, past its deadline, has executed nothing     *)
(* before the last hook.                                                   *)
Budget ==
    /\ executed + instructionsLeft = InstructionLimit + sinceHook
    /\ executed < InstructionLimit + HookInterval
    /\ queued + logged <= executed
    /\ late <= HookInterval
    /\ ~Expired => late = 0
    /\ stage \in {"load", "running"} =>
          /\ status = "NotExceeded" /\ valid
          /\ instructionsLeft > 0
          /\ late <= sinceHook
    /\ stage = "load" => executed = 0 /\ sinceHook = 0

(* What the limit status says when it is set.                              *)
StatusMeans ==
    /\ status = "InstructionLimitExceeded" =>
          ~valid /\ sinceHook = 0 /\ instructionsLeft <= 0
    /\ status = "TimeLimitExceeded" =>
          ~valid /\ sinceHook = 0 /\ instructionsLeft > 0 /\ Expired

Inv == TypeOK /\ Budget /\ StatusMeans /\ BlameIsTrue

LEMMA InitInv == Init => Inv
BY RunAssumption
   DEF Init, Inv, TypeOK, Budget, StatusMeans, BlameIsTrue, LimitStatuses, Codes, Expired

LEMMA LoadInv == Inv /\ Load => Inv'
BY RunAssumption
   DEF Inv, TypeOK, Budget, StatusMeans, BlameIsTrue, LimitStatuses, Codes, LoadErrors, Expired,
       Load, limit, history, context

(* One entry more in the context, one instruction more.                    *)
LEMMA OneEntry ==
    ASSUME NEW q \in Nat, NEW l \in Nat, NEW qq \in Nat, NEW ll \in Nat, NEW e \in Nat,
           q + l <= e, qq + ll <= q + l + 1
    PROVE  qq + ll <= e + 1
OBVIOUS

(* Any instruction, whatever it does to the stage and the result.          *)
LEMMA InstructionInv ==
    ASSUME Inv, Instruction, stage' \in {"running", "stopped"}, valid' \in BOOLEAN,
           stage' = "running" => valid', queued' \in Nat, logged' \in Nat,
           queued' + logged' <= queued + logged + 1
    PROVE  Inv'
<1>1. TypeOK'
    BY RunAssumption DEF Inv, TypeOK, Instruction, HookDue, Codes
<1>2. Budget'
    <2>1. /\ stage = "running" /\ sinceHook # HookInterval /\ sinceHook \in 0..HookInterval
          /\ sinceHook' = sinceHook + 1 /\ executed' = executed + 1
          /\ late' = IF Expired THEN late + 1 ELSE late
          /\ UNCHANGED <<instructionsLeft, status, clock>>
        BY DEF Instruction, HookDue, Inv, TypeOK
    <2>2. /\ HookInterval \in Nat \ {0} /\ InstructionLimit \in Nat
          /\ instructionsLeft \in Int /\ executed \in Nat /\ late \in Nat
          /\ queued \in Nat /\ logged \in Nat
        BY RunAssumption DEF Inv, TypeOK
    <2>3. /\ executed + instructionsLeft = InstructionLimit + sinceHook
          /\ queued + logged <= executed /\ instructionsLeft > 0 /\ late <= sinceHook
          /\ ~Expired => late = 0
          /\ status = "NotExceeded"
        BY <2>1 DEF Inv, Budget
    <2>4. Expired' <=> Expired
        BY <2>1 DEF Expired
    <2>5. /\ executed' + instructionsLeft' = InstructionLimit + sinceHook'
          /\ executed' < InstructionLimit + HookInterval
          /\ queued' + logged' <= executed'
          /\ late' <= sinceHook' /\ late' <= HookInterval
        <3>1. sinceHook' <= HookInterval /\ late' <= late + 1 /\ late' \in Nat
            BY <2>1, <2>2
        <3>2. executed' + instructionsLeft' = InstructionLimit + sinceHook'
            BY <2>1, <2>2, <2>3
        <3>3. executed' < InstructionLimit + HookInterval
            <4>1. /\ executed' \in Nat /\ sinceHook' \in Nat /\ instructionsLeft' \in Int
                  /\ instructionsLeft' > 0
                BY <2>1, <2>2, <2>3
            <4> QED
                BY <2>2, <3>1, <3>2, <4>1
        <3>4. queued' + logged' <= executed'
            BY <2>1, <2>2, <2>3, OneEntry
        <3>5. late' <= sinceHook' /\ late' <= HookInterval
            BY <2>1, <2>2, <2>3, <3>1
        <3> QED
            BY <3>2, <3>3, <3>4, <3>5
    <2> QED
        BY <2>1, <2>3, <2>4, <2>5 DEF Budget
<1>3. status = "NotExceeded"
    BY DEF Inv, Budget, Instruction
<1> QED
    BY <1>1, <1>2, <1>3 DEF Inv, StatusMeans, BlameIsTrue, Instruction

LEMMA ExecuteInv == Inv /\ Execute => Inv'
<1> SUFFICES ASSUME Inv, Execute PROVE Inv'
    OBVIOUS
<1>1. stage = "running" /\ valid /\ valid \in BOOLEAN /\ queued \in Nat /\ logged \in Nat
    BY DEF Execute, Compute, QueueCommand, WriteLog, Return, Raise, Instruction, Inv, Budget,
           TypeOK
<1>2. /\ Instruction /\ stage' \in {"running", "stopped"} /\ valid' \in BOOLEAN
      /\ stage' = "running" => valid'
    BY <1>1 DEF Execute, Compute, QueueCommand, WriteLog, Return, Raise
<1>3. \/ UNCHANGED <<queued, logged>>
      \/ queued' = queued + 1 /\ UNCHANGED logged
      \/ logged' = logged + 1 /\ UNCHANGED queued
    BY DEF Execute, Compute, QueueCommand, WriteLog, Return, Raise, context
<1>4. queued' \in Nat /\ logged' \in Nat /\ queued' + logged' <= queued + logged + 1
    BY <1>1, <1>3
<1> QED
    BY <1>2, <1>4, InstructionInv

LEMMA HookInv == Inv /\ Hook => Inv'
<1> SUFFICES ASSUME Inv, Hook PROVE Inv'
    OBVIOUS
<1>1. /\ stage = "running" /\ sinceHook = HookInterval /\ sinceHook' = 0
      /\ instructionsLeft' = instructionsLeft - HookInterval
      /\ UNCHANGED <<clock, queued, logged, code, executed, late>>
    BY DEF Hook, HookDue, Spend, history, context
<1>2. /\ HookInterval \in Nat \ {0} /\ InstructionLimit \in Nat
      /\ instructionsLeft \in Int /\ executed \in Nat /\ late \in Nat
    BY RunAssumption DEF Inv, TypeOK
<1>3. CASE instructionsLeft' <= 0
    <2>1. status' = "InstructionLimitExceeded" /\ stage' = "stopped" /\ valid' = FALSE
        BY <1>3 DEF Hook, Verdict
    <2>3. StatusMeans'
        BY <1>1, <1>3, <2>1 DEF StatusMeans
    <2>4. TypeOK'
        <3>1. status' \in LimitStatuses /\ valid' \in BOOLEAN /\ stage' = "stopped"
            BY <2>1 DEF LimitStatuses
        <3> QED
            BY <1>1, <1>2, <3>1 DEF Inv, TypeOK
    <2>5. Budget'
        BY <1>1, <1>2, <1>3, <2>1 DEF Inv, TypeOK, Budget, Expired
    <2> QED
        BY <2>1, <2>3, <2>4, <2>5 DEF Inv, BlameIsTrue
<1>4. CASE instructionsLeft' > 0 /\ Expired
    <2>1. status' = "TimeLimitExceeded" /\ stage' = "stopped" /\ valid' = FALSE
        BY <1>1, <1>2, <1>4 DEF Hook, Verdict
    <2>2. Expired'
        BY <1>1, <1>4 DEF Expired
    <2>3. StatusMeans'
        BY <1>1, <1>4, <2>1, <2>2 DEF StatusMeans
    <2>4. TypeOK'
        <3>1. status' \in LimitStatuses /\ valid' \in BOOLEAN /\ stage' = "stopped"
            BY <2>1 DEF LimitStatuses
        <3> QED
            BY <1>1, <1>2, <3>1 DEF Inv, TypeOK
    <2>5. Budget'
        BY <1>1, <1>2, <1>4, <2>1, <2>2 DEF Inv, TypeOK, Budget
    <2> QED
        BY <2>1, <2>3, <2>4, <2>5 DEF Inv, BlameIsTrue
<1>5. CASE instructionsLeft' > 0 /\ ~Expired
    <2>1. UNCHANGED <<status, stage, valid>>
        BY <1>1, <1>2, <1>5 DEF Hook, Verdict
    <2>2. status = "NotExceeded" /\ late = 0
        BY <1>1, <1>5 DEF Inv, Budget
    <2>3. TypeOK'
        BY <1>1, <1>2, <2>1 DEF Inv, TypeOK
    <2>4. Budget'
        BY <1>1, <1>2, <1>5, <2>1, <2>2 DEF Inv, Budget
    <2> QED
        BY <1>1, <2>1, <2>2, <2>3, <2>4 DEF Inv, StatusMeans, BlameIsTrue
<1> QED
    BY <1>1, <1>2, <1>3, <1>4, <1>5

LEMMA ConcludeInv == Inv /\ Conclude => Inv'
<1> SUFFICES ASSUME Inv, Conclude PROVE Inv'
    OBVIOUS
<1>1. /\ stage = "stopped" /\ stage' = "done" /\ code' = CodeFound
      /\ UNCHANGED <<limit, valid, clock, context, history>>
    BY DEF Conclude
<1>2. HookInterval \in Nat \ {0} /\ InstructionLimit \in Nat /\ Timeout \in Nat
    BY RunAssumption
<1>3. TypeOK' /\ Budget' /\ StatusMeans'
    BY <1>1, <1>2
       DEF Inv, TypeOK, Budget, StatusMeans, Codes, LimitStatuses, CodeFound, Expired, limit, history, context
<1>4. ASSUME status = "NotExceeded"
      PROVE  BlameIsTrue'
    BY <1>1, <1>4 DEF BlameIsTrue, CodeFound, LoadErrors, limit
<1>5. ASSUME status = "InstructionLimitExceeded"
      PROVE  BlameIsTrue'
    BY <1>1, <1>2, <1>5
       DEF Inv, TypeOK, Budget, StatusMeans, BlameIsTrue, CodeFound, LoadErrors, limit, history, context
<1>6. ASSUME status = "TimeLimitExceeded"
      PROVE  BlameIsTrue'
    BY <1>1, <1>2, <1>6
       DEF Inv, TypeOK, Budget, StatusMeans, BlameIsTrue, CodeFound, LoadErrors, Expired, limit,
           history, context
<1> QED
    BY <1>3, <1>4, <1>5, <1>6 DEF Inv, TypeOK, LimitStatuses

LEMMA TickInv == Inv /\ Tick => Inv'
BY RunAssumption
   DEF Inv, TypeOK, Budget, StatusMeans, BlameIsTrue, Expired, Tick, limit, history, context

LEMMA Invariance == Spec => []Inv
<1>1. Inv /\ [Next]_vars => Inv'
    <2>1. Inv /\ UNCHANGED vars => Inv'
        BY DEF Inv, TypeOK, Budget, StatusMeans, BlameIsTrue, Expired, vars, limit, history, context
    <2> QED
        BY <2>1, LoadInv, ExecuteInv, HookInv, ConcludeInv, TickInv DEF Next, Run
<1> QED
    BY <1>1, InitInv, PTL DEF Spec

(* Every reachable state is well typed; the counts of a run are numbers.   *)
THEOREM TypeCorrect == Spec => []TypeOK
<1>1. Inv => TypeOK
    BY DEF Inv
<1> QED
    BY <1>1, Invariance, PTL

(* A run never executes as much as one hook interval beyond the limit.     *)
THEOREM BudgetIsKept == Spec => []BudgetKept
<1>1. Inv => BudgetKept
    BY DEF Inv, Budget, BudgetKept
<1> QED
    BY <1>1, Invariance, PTL

(* Nor does it leave as many commands and messages.                        *)
THEOREM ContextIsBounded == Spec => []ContextBounded
<1>1. Inv => ContextBounded
    BY RunAssumption DEF Inv, TypeOK, Budget, ContextBounded
<1> QED
    BY <1>1, Invariance, PTL

(* Past its deadline a script executes at most one interval more.          *)
THEOREM DeadlineIsKept == Spec => []DeadlineKept
<1>1. Inv => DeadlineKept
    BY DEF Inv, Budget, DeadlineKept
<1> QED
    BY <1>1, Invariance, PTL

(* The error code names what really ended the run.                         *)
THEOREM BlameCorrect == Spec => []BlameIsTrue
<1>1. Inv => BlameIsTrue
    BY DEF Inv
<1> QED
    BY <1>1, Invariance, PTL
=============================================================================
