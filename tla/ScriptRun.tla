------------------------------ MODULE ScriptRun ------------------------------
(***************************************************************************)
(* One run of a Lua script: loading, the count hook that ends runs which   *)
(* are too long (ScriptExecutionLimit), and the error that execution::     *)
(* execute makes of what it finds afterwards.  The script is any program:  *)
(* each instruction may queue a command, write a log line, raise an error  *)
(* or be the last one.  Nothing in its environment can catch an error.     *)
(***************************************************************************)
EXTENDS Integers

CONSTANTS
    HookInterval,       \* HOOK_INTERVAL
    InstructionLimit,   \* instructionLimit
    Timeout,            \* timeout, in ticks of the steady clock
    MaxTicks,           \* bound: the clock stops being interesting
    MaxInstructions     \* bound on what a run could execute, never reached

ASSUME RunAssumption ==
    /\ HookInterval \in Nat \ {0} /\ InstructionLimit \in Nat \ {0}
    /\ Timeout \in Nat /\ MaxTicks \in Nat
    /\ MaxInstructions \in Nat
    /\ MaxInstructions >= InstructionLimit + HookInterval

LoadErrors == {"SyntaxError", "MemoryAllocationFailed", "InternalError"}
LimitStatuses == {"NotExceeded", "InstructionLimitExceeded", "TimeLimitExceeded"}
Codes == LoadErrors \cup LimitStatuses \cup {"RuntimeError", "none"}

VARIABLES
    stage,             \* load, running, stopped (Lua has returned), done
    instructionsLeft,  \* LimitState::budget.instructionsLeft
    sinceHook,         \* instructions since the count hook last fired
    status,            \* LimitState::status
    valid,             \* did the protected call end without an error?
    clock,             \* ticks since the limit was installed
    queued,            \* commands in the ScriptContext
    logged,            \* messages in the ScriptContext
    code,              \* the ScriptErrorCode returned, "none" for nullopt
    executed,          \* history: instructions executed
    late               \* history: instructions executed after the deadline

context == <<queued, logged>>
limit == <<instructionsLeft, sinceHook, status>>
history == <<executed, late>>
vars == <<stage, limit, valid, clock, context, code, history>>

Init ==
    /\ stage = "load"
    /\ instructionsLeft = InstructionLimit
    /\ sinceHook = 0
    /\ status = "NotExceeded"
    /\ valid = TRUE
    /\ clock = 0
    /\ queued = 0 /\ logged = 0
    /\ code = "none"
    /\ executed = 0
    /\ late = 0

Expired == clock >= Timeout

(* lua.load: the text may not compile; otherwise the environment is made,  *)
(* the limit installed and the function called.                            *)
Load ==
    /\ stage = "load"
    /\ \/ /\ stage' = "running"
          /\ UNCHANGED code
       \/ /\ stage' = "done"
          /\ code' \in LoadErrors
    /\ UNCHANGED <<limit, valid, clock, context, history>>

(* The virtual machine fires the count hook after HookInterval             *)
(* instructions and before the next one.                                   *)
FiresOnce ==                                                \* mutant
    sinceHook = HookInterval /\ instructionsLeft = InstructionLimit
HookDue == sinceHook = HookInterval

Instruction ==
    /\ stage = "running"
    /\ ~HookDue
    /\ executed < MaxInstructions
    /\ sinceHook' = sinceHook + 1
    /\ executed' = executed + 1
    /\ late' = IF Expired THEN late + 1 ELSE late
    /\ UNCHANGED <<instructionsLeft, status, clock, code>>

Compute ==
    /\ Instruction
    /\ UNCHANGED <<stage, valid, context>>

(* complete, set_priority: a command is pushed.                            *)
QueueCommand ==
    /\ Instruction
    /\ queued' = queued + 1
    /\ UNCHANGED <<stage, valid, logged>>

WriteLog ==
    /\ Instruction
    /\ logged' = logged + 1
    /\ UNCHANGED <<stage, valid, queued>>

Return ==
    /\ Instruction
    /\ stage' = "stopped"
    /\ UNCHANGED <<valid, context>>

Raise ==
    /\ Instruction
    /\ stage' = "stopped"
    /\ valid' = FALSE
    /\ UNCHANGED context

CountDown(left) == left - 1                                 \* mutant
Spend(left) == left - HookInterval

TimeFirst(left) ==                                          \* mutant
    IF Expired THEN "TimeLimitExceeded"
    ELSE IF left <= 0 THEN "InstructionLimitExceeded"
    ELSE "NotExceeded"

(* The verdict of the hook with so many instructions left.                 *)
Verdict(left) ==
    IF left <= 0 THEN "InstructionLimitExceeded"
    ELSE IF Expired THEN "TimeLimitExceeded"
    ELSE "NotExceeded"

BudgetOnly ==                                               \* mutant
    /\ stage = "running"
    /\ HookDue
    /\ sinceHook' = 0
    /\ instructionsLeft' = Spend(instructionsLeft)
    /\ IF instructionsLeft' <= 0
       THEN status' = "InstructionLimitExceeded" /\ stage' = "stopped" /\ valid' = FALSE
       ELSE UNCHANGED <<status, stage, valid>>
    /\ UNCHANGED <<clock, context, code, history>>

(* executionLimitHook: luaL_error unwinds the whole script.                *)
Hook ==
    /\ stage = "running"
    /\ HookDue
    /\ sinceHook' = 0
    /\ instructionsLeft' = Spend(instructionsLeft)
    /\ IF Verdict(instructionsLeft') # "NotExceeded"
       THEN status' = Verdict(instructionsLeft') /\ stage' = "stopped" /\ valid' = FALSE
       ELSE UNCHANGED <<status, stage, valid>>
    /\ UNCHANGED <<clock, context, code, history>>

ValidFirst ==                                               \* mutant
    IF ~valid THEN "RuntimeError"
    ELSE IF status # "NotExceeded" THEN status
    ELSE "none"

(* The checks after the call: the limit before the validity of the result, *)
(* since a limit makes the result invalid as well.                         *)
CodeFound ==
    IF status # "NotExceeded" THEN status
    ELSE IF ~valid THEN "RuntimeError"
    ELSE "none"

Conclude ==
    /\ stage = "stopped"
    /\ stage' = "done"
    /\ code' = CodeFound
    /\ UNCHANGED <<limit, valid, clock, context, history>>

(* Time passes, also while the process is not scheduled.                   *)
Tick ==
    /\ stage = "running"
    /\ clock < MaxTicks
    /\ clock' = clock + 1
    /\ UNCHANGED <<stage, limit, valid, context, code, history>>

Execute == Compute \/ QueueCommand \/ WriteLog \/ Return \/ Raise

Run == Load \/ Execute \/ Hook \/ Conclude

Next == Run \/ Tick

Spec == Init /\ [][Next]_vars

(* The thread is scheduled and the virtual machine keeps executing: some   *)
(* instruction, which need never be the last one of the script.            *)
FairSpec == Spec /\ WF_vars(Run)
-----------------------------------------------------------------------------
TypeOK ==
    /\ stage \in {"load", "running", "stopped", "done"}
    /\ instructionsLeft \in Int
    /\ sinceHook \in 0..HookInterval
    /\ status \in LimitStatuses
    /\ valid \in BOOLEAN
    /\ clock \in 0..MaxTicks
    /\ queued \in Nat /\ logged \in Nat
    /\ code \in Codes
    /\ executed \in Nat
    /\ late \in Nat

(* The hook keeps the budget to its own granularity: a script may pass the *)
(* instruction limit, but by less than one interval.                       *)
BudgetKept == executed < InstructionLimit + HookInterval

(* The context of a run stays bounded although nothing counts its entries: *)
(* every command and every message costs the script an instruction.        *)
ContextBounded == queued + logged < InstructionLimit + HookInterval

(* A script that has passed its deadline is stopped by the next hook: it   *)
(* executes at most one interval of instructions more.                     *)
DeadlineKept == late <= HookInterval

(* The error names the limit that was really reached, a script that raised *)
(* an error of its own is never blamed for a limit, and only a script that *)
(* ran to its end and met no limit yields its commands.                    *)
BlameIsTrue ==
    stage = "done" =>
        /\ code = "InstructionLimitExceeded" => executed >= InstructionLimit
        /\ code = "TimeLimitExceeded" => Expired /\ executed < InstructionLimit
        /\ code = "RuntimeError" => ~valid /\ status = "NotExceeded"
        /\ code \in LoadErrors => executed = 0
        /\ code = "none" => valid /\ status = "NotExceeded"

(* Every run ends, whatever the script does: a script that loops for ever  *)
(* is stopped by the hook.                                                 *)
RunEnds == <>(stage = "done")
=============================================================================
