-------------------------- MODULE TodoReport_proofs --------------------------
(***************************************************************************)
(* Proofs about TodoReport: what a client reads in the answer to a         *)
(* createTodo is true, for any set of workers, any scripts and inputs and  *)
(* any number of handlers, with storage faults and crashes or without.     *)
(***************************************************************************)
EXTENDS TodoReport, TodoAnswers_proofs, FiniteSetTheorems

(* Induction over the naturals, stated of a set instead of a predicate: a  *)
(* set that is not all of Nat has a least number missing.                  *)
LEMMA LeastNumber ==
    ASSUME NEW T \in SUBSET Nat, T # {}
    PROVE  \E n \in T : \A m \in T : n <= m
<1>1. IsWellFoundedOn(OpToRel(<, Nat), Nat)
    BY NatLessThanWellFounded
<1>2. PICK n \in T : \A m \in T : <<m, n>> \notin OpToRel(<, Nat)
    BY <1>1, WFMin
<1>3. \A m \in T : ~(m < n)
    BY <1>2 DEF OpToRel
<1> QED
    BY <1>3

LEMMA Induction ==
    ASSUME NEW S \in SUBSET Nat, 0 \in S, \A n \in S : n + 1 \in S
    PROVE  S = Nat
<1> SUFFICES ASSUME Nat \ S # {} PROVE FALSE
    OBVIOUS
<1>1. PICK n \in Nat \ S : \A m \in Nat \ S : n <= m
    BY LeastNumber
<1>2. n # 0 /\ n - 1 \in Nat
    BY <1>1
<1>3. n - 1 \in S
    BY <1>1, <1>2
<1> QED
    BY <1>1, <1>2, <1>3
-----------------------------------------------------------------------------
(* The loop over the handlers, turn by turn. *)

NoTally == [succeeded |-> 0, failedIds |-> <<>>]

(* The recursion behind FoldLeft: what it says of the fold g of the        *)
(* handlers whose positions are in the set t.                              *)
Fold(g, handlers, t) ==
    IF t = {} THEN NoTally ELSE Tally(g[t \ {Max(t)}], handlers[Max(t)])

FoldsUpTo(g, handlers, n) == g = [t \in SUBSET (1..n) |-> Fold(g, handlers, t)]

LEMMA FoldUnfolded ==
    ASSUME NEW handlers
    PROVE  FoldLeft(Tally, NoTally, handlers) =
              LET D == DOMAIN handlers
                  f == CHOOSE f : f = [t \in SUBSET D |-> Fold(f, handlers, t)]
              IN  f[D]
BY DEF FoldLeft, MapThenFoldSet, Fold

LEMMA MaxIsLast ==
    ASSUME NEW n \in Nat, NEW t \in SUBSET (1..(n + 1)), n + 1 \in t
    PROVE  Max(t) = n + 1
<1>1. \A i \in t : i \in Int /\ i <= n + 1
    OBVIOUS
<1>2. \A m \in t : (\A i \in t : m >= i) => m = n + 1
    BY <1>1
<1> QED
    BY <1>1, <1>2 DEF Max

LEMMA FoldNext ==
    ASSUME NEW handlers, NEW n \in Nat, NEW g, FoldsUpTo(g, handlers, n)
    PROVE  \E f : FoldsUpTo(f, handlers, n + 1)
<1> DEFINE f == [t \in SUBSET (1..(n + 1)) |->
                    IF n + 1 \in t THEN Tally(g[t \ {n + 1}], handlers[n + 1]) ELSE g[t]]
<1>1. ASSUME NEW t \in SUBSET (1..n)
      PROVE  t \in SUBSET (1..(n + 1)) /\ n + 1 \notin t
    OBVIOUS
<1>2. ASSUME NEW t \in SUBSET (1..n)
      PROVE  f[t] = g[t]
    BY <1>1
<1>3. ASSUME NEW t \in SUBSET (1..(n + 1))
      PROVE  f[t] = Fold(f, handlers, t)
    <2>1. CASE n + 1 \in t
        <3>1. Max(t) = n + 1 /\ t # {} /\ t \ {n + 1} \in SUBSET (1..n)
            BY <2>1, MaxIsLast
        <3>2. f[t \ {n + 1}] = g[t \ {n + 1}]
            BY <1>2, <3>1
        <3>3. f[t] = Tally(g[t \ {n + 1}], handlers[n + 1])
            BY <2>1
        <3> QED
            BY <3>1, <3>2, <3>3 DEF Fold
    <2>2. CASE n + 1 \notin t
        <3>1. t \in SUBSET (1..n) /\ t \ {Max(t)} \in SUBSET (1..n)
            <4>1. \A i \in t : i \in 1..(n + 1) /\ i # n + 1
                BY <2>2
            <4>2. \A i \in t : i \in 1..n
                BY <4>1
            <4> QED
                BY <4>2
        <3>2. f[t] = g[t] /\ f[t \ {Max(t)}] = g[t \ {Max(t)}]
            BY <1>2, <3>1
        <3>3. g[t] = Fold(g, handlers, t)
            BY <3>1 DEF FoldsUpTo
        <3> QED
            BY <3>2, <3>3 DEF Fold
    <2> QED
        BY <2>1, <2>2
<1>4. FoldsUpTo(f, handlers, n + 1)
    BY <1>3 DEF FoldsUpTo
<1> QED
    BY <1>4

LEMMA FoldExists ==
    ASSUME NEW handlers, NEW n \in Nat
    PROVE  \E g : FoldsUpTo(g, handlers, n)
<1> DEFINE S == {k \in Nat : \E g : FoldsUpTo(g, handlers, k)}
<1>1. 0 \in S
    <2> DEFINE g == [t \in SUBSET (1..0) |-> NoTally]
    <2>1. \A t \in SUBSET (1..0) : t = {}
        OBVIOUS
    <2>2. FoldsUpTo(g, handlers, 0)
        BY <2>1 DEF FoldsUpTo, Fold
    <2> QED
        BY <2>2
<1>2. \A k \in S : k + 1 \in S
    BY FoldNext
<1>3. S = Nat
    <2> HIDE DEF S
    <2>1. S \in SUBSET Nat
        BY DEF S
    <2> QED
        BY <1>1, <1>2, <2>1, Induction
<1> QED
    BY <1>3

(* The tallies after 0, 1, 2... handlers.                                  *)
LEMMA TallyTurns ==
    ASSUME NEW handlers \in Seq(HandlerResult)
    PROVE  \E turns :
              /\ turns[0] = NoTally
              /\ \A n \in Nat : n < Len(handlers) =>
                    turns[n + 1] = Tally(turns[n], handlers[n + 1])
              /\ FoldLeft(Tally, NoTally, handlers) = turns[Len(handlers)]
<1> DEFINE f == CHOOSE f : f = [t \in SUBSET (1..Len(handlers)) |-> Fold(f, handlers, t)]
           turns == [n \in 0..Len(handlers) |-> f[1..n]]
<1>1. Len(handlers) \in Nat /\ DOMAIN handlers = 1..Len(handlers)
    OBVIOUS
<1>2. f = [t \in SUBSET (1..Len(handlers)) |-> Fold(f, handlers, t)]
    BY <1>1, FoldExists DEF FoldsUpTo
<1>3. FoldLeft(Tally, NoTally, handlers) = f[1..Len(handlers)]
    BY <1>1, FoldUnfolded
<1> HIDE DEF f
<1>4. turns[0] = NoTally
    <2>1. f[{}] = NoTally
        BY <1>2 DEF Fold
    <2>2. 1..0 = {}
        OBVIOUS
    <2> QED
        BY <1>1, <2>1, <2>2
<1>5. ASSUME NEW n \in Nat, n < Len(handlers)
      PROVE  turns[n + 1] = Tally(turns[n], handlers[n + 1])
    <2>1. 1..(n + 1) \in SUBSET (1..Len(handlers)) /\ 1..(n + 1) # {}
        <3>1. n + 1 \in 1..(n + 1) /\ \A i \in 1..(n + 1) : i \in 1..Len(handlers)
            BY <1>1, <1>5
        <3> QED
            BY <3>1
    <2>2. Max(1..(n + 1)) = n + 1 /\ (1..(n + 1)) \ {n + 1} = 1..n
        BY MaxIsLast
    <2>3. f[1..(n + 1)] = Tally(f[1..n], handlers[n + 1])
        BY <1>2, <2>1, <2>2 DEF Fold
    <2> QED
        BY <1>1, <1>5, <2>3
<1>6. FoldLeft(Tally, NoTally, handlers) = turns[Len(handlers)]
    BY <1>1, <1>3
<1> QED
    BY <1>4, <1>5, <1>6
-----------------------------------------------------------------------------
(* The report adds up. *)

LEMMA FailedFacts ==
    ASSUME NEW executions, NEW n \in Nat
    PROVE  /\ IsFiniteSet(FailedUpTo(executions, n))
           /\ Cardinality(FailedUpTo(executions, n)) \in Nat
           /\ \A i \in FailedUpTo(executions, n) :
                 Cardinality(FailedUpTo(executions, i))
                     \in 1..Cardinality(FailedUpTo(executions, n))
<1>1. ASSUME NEW m \in Nat
      PROVE  /\ IsFiniteSet(FailedUpTo(executions, m))
             /\ Cardinality(FailedUpTo(executions, m)) \in Nat
    <2>1. IsFiniteSet(1..m) /\ FailedUpTo(executions, m) \in SUBSET (1..m)
        BY FS_Interval DEF FailedUpTo
    <2> QED
        BY <2>1, FS_Subset, FS_CardinalityType
<1>2. ASSUME NEW i \in FailedUpTo(executions, n)
      PROVE  Cardinality(FailedUpTo(executions, i)) \in 1..Cardinality(FailedUpTo(executions, n))
    <2>1. i \in Nat /\ i \in FailedUpTo(executions, i)
        BY DEF FailedUpTo
    <2>2. FailedUpTo(executions, i) \in SUBSET FailedUpTo(executions, n)
        BY DEF FailedUpTo
    <2>3. Cardinality(FailedUpTo(executions, i)) <= Cardinality(FailedUpTo(executions, n))
        BY <1>1, <2>2, FS_Subset
    <2>4. Cardinality(FailedUpTo(executions, i)) # 0
        BY <1>1, <2>1, FS_EmptySet
    <2> QED
        BY <1>1, <2>1, <2>3, <2>4
<1> QED
    BY <1>1, <1>2

LEMMA FailedNext ==
    ASSUME NEW executions, NEW n \in Nat
    PROVE  /\ executions[n + 1].status = "success" =>
                 FailedUpTo(executions, n + 1) = FailedUpTo(executions, n)
           /\ executions[n + 1].status # "success" =>
                 /\ FailedUpTo(executions, n + 1) = FailedUpTo(executions, n) \cup {n + 1}
                 /\ Cardinality(FailedUpTo(executions, n + 1))
                        = Cardinality(FailedUpTo(executions, n)) + 1
<1>1. \A i : i \in 1..(n + 1) <=> i \in 1..n \/ i = n + 1
    OBVIOUS
<1>2. n + 1 \notin FailedUpTo(executions, n)
    BY DEF FailedUpTo
<1>3. executions[n + 1].status = "success" =>
         FailedUpTo(executions, n + 1) = FailedUpTo(executions, n)
    BY <1>1 DEF FailedUpTo
<1>4. executions[n + 1].status # "success" =>
         FailedUpTo(executions, n + 1) = FailedUpTo(executions, n) \cup {n + 1}
    BY <1>1 DEF FailedUpTo
<1> QED
    BY <1>2, <1>3, <1>4, FailedFacts, FS_AddElement

(* What the tally says after n of the executions.                          *)
TallyTrue(tally, executions, n) ==
    /\ tally \in [succeeded : Nat, failedIds : Seq(Nat)]
    /\ tally.succeeded + Cardinality(FailedUpTo(executions, n)) = n
    /\ Len(tally.failedIds) = Cardinality(FailedUpTo(executions, n))
    /\ \A i \in FailedUpTo(executions, n) :
          tally.failedIds[Cardinality(FailedUpTo(executions, i))] = executions[i].handlerId

LEMMA TallyNext ==
    ASSUME NEW tally, NEW executions, NEW n \in Nat, TallyTrue(tally, executions, n),
           NEW handler \in HandlerResult, executions[n + 1] = Execution(handler)
    PROVE  TallyTrue(Tally(tally, handler), executions, n + 1)
<1> DEFINE failed(m) == FailedUpTo(executions, m)
           ids == tally.failedIds
<1>1. /\ executions[n + 1].status = handler.status
      /\ executions[n + 1].handlerId = handler.id /\ handler.id \in Nat
    BY DEF Execution, HandlerResult
<1>2. /\ tally = [succeeded |-> tally.succeeded, failedIds |-> ids]
      /\ tally.succeeded \in Nat /\ ids \in Seq(Nat)
      /\ tally.succeeded + Cardinality(failed(n)) = n /\ Len(ids) = Cardinality(failed(n))
      /\ \A i \in failed(n) : ids[Cardinality(failed(i))] = executions[i].handlerId
    BY DEF TallyTrue
<1>3. /\ Cardinality(failed(n)) \in Nat
      /\ \A i \in failed(n) : Cardinality(failed(i)) \in 1..Cardinality(failed(n))
    BY FailedFacts
<1> HIDE DEF failed
<1>4. CASE handler.status = "success"
    <2>1. failed(n + 1) = failed(n)
        BY <1>1, <1>4, FailedNext DEF failed
    <2>2. Tally(tally, handler) = [succeeded |-> tally.succeeded + 1, failedIds |-> ids]
        BY <1>2, <1>4 DEF Tally
    <2>3. tally.succeeded + 1 \in Nat /\ (tally.succeeded + 1) + Cardinality(failed(n)) = n + 1
        BY <1>2, <1>3
    <2> QED
        BY <1>2, <2>1, <2>2, <2>3 DEF TallyTrue, failed
<1>5. CASE handler.status # "success"
    <2>1. /\ failed(n + 1) = failed(n) \cup {n + 1}
          /\ Cardinality(failed(n + 1)) = Cardinality(failed(n)) + 1
        BY <1>1, <1>5, FailedNext DEF failed
    <2>2. Tally(tally, handler)
             = [succeeded |-> tally.succeeded, failedIds |-> Append(ids, handler.id)]
        BY <1>2, <1>5 DEF Tally
    <2>3. /\ Append(ids, handler.id) \in Seq(Nat) /\ Len(Append(ids, handler.id)) = Len(ids) + 1
          /\ Append(ids, handler.id)[Len(ids) + 1] = handler.id
          /\ \A k \in 1..Len(ids) : Append(ids, handler.id)[k] = ids[k]
        BY <1>1, <1>2
    <2>4. ASSUME NEW i \in failed(n + 1)
          PROVE  Append(ids, handler.id)[Cardinality(failed(i))] = executions[i].handlerId
        <3>1. CASE i = n + 1
            BY <1>1, <1>2, <2>1, <2>3, <3>1
        <3>2. CASE i \in failed(n)
            BY <1>2, <1>3, <2>3, <3>2
        <3> QED
            BY <2>1, <3>1, <3>2
    <2>5. tally.succeeded + Cardinality(failed(n + 1)) = n + 1
        BY <1>2, <1>3, <2>1
    <2> DEFINE next == Tally(tally, handler)
    <2>6. /\ next \in [succeeded : Nat, failedIds : Seq(Nat)]
          /\ next.succeeded = tally.succeeded /\ next.failedIds = Append(ids, handler.id)
        BY <1>2, <2>2, <2>3
    <2> HIDE DEF next
    <2>7. TallyTrue(next, executions, n + 1)
        BY <1>2, <2>1, <2>3, <2>4, <2>5, <2>6 DEF TallyTrue, failed
    <2> QED
        BY <2>7 DEF next
<1> QED
    BY <1>4, <1>5

LEMMA TallyOfAll ==
    ASSUME NEW handlers \in Seq(HandlerResult)
    PROVE  TallyTrue(FoldLeft(Tally, NoTally, handlers), Executions(handlers), Len(handlers))
<1>1. PICK turns :
         /\ turns[0] = NoTally
         /\ \A n \in Nat : n < Len(handlers) =>
               turns[n + 1] = Tally(turns[n], handlers[n + 1])
         /\ FoldLeft(Tally, NoTally, handlers) = turns[Len(handlers)]
    BY TallyTurns
<1> DEFINE True(n) == TallyTrue(turns[n], Executions(handlers), n)
           S == {n \in Nat : n <= Len(handlers) => True(n)}
<1>2. Len(handlers) \in Nat /\ DOMAIN handlers = 1..Len(handlers)
    OBVIOUS
<1>3. True(0)
    <2>1. FailedUpTo(Executions(handlers), 0) = {}
        BY DEF FailedUpTo
    <2>2. NoTally \in [succeeded : Nat, failedIds : Seq(Nat)]
        BY DEF NoTally
    <2>3. NoTally.succeeded = 0 /\ Len(NoTally.failedIds) = 0
        BY DEF NoTally
    <2>4. Cardinality({}) = 0
        BY FS_EmptySet
    <2>5. TallyTrue(NoTally, Executions(handlers), 0)
        <3> DEFINE failed == FailedUpTo(Executions(handlers), 0)
        <3>1. failed = {} /\ Cardinality(failed) = 0
            BY <2>1, <2>4
        <3>2. NoTally.succeeded + Cardinality(failed) = 0
            BY <2>3, <3>1
        <3>3. Len(NoTally.failedIds) = Cardinality(failed)
            BY <2>3, <3>1
        <3> QED
            BY <2>2, <3>1, <3>2, <3>3 DEF TallyTrue
    <2> QED
        BY <2>5, <1>1
<1>4. ASSUME NEW n \in Nat, n < Len(handlers), True(n)
      PROVE  True(n + 1)
    <2>1. n + 1 \in DOMAIN handlers
        BY <1>2, <1>4
    <2>2. handlers[n + 1] \in HandlerResult
          /\ Executions(handlers)[n + 1] = Execution(handlers[n + 1])
        BY <2>1 DEF Executions
    <2>3. turns[n + 1] = Tally(turns[n], handlers[n + 1])
        BY <1>1, <1>4
    <2> QED
        BY <1>4, <2>2, <2>3, TallyNext
<1> HIDE DEF True
<1>5. S = Nat
    <2>1. 0 \in S /\ S \in SUBSET Nat
        BY <1>3
    <2>2. \A n \in S : n + 1 \in S
        BY <1>2, <1>4
    <2> HIDE DEF S
    <2> QED
        BY <2>1, <2>2, Induction
<1>6. True(Len(handlers))
    BY <1>2, <1>5
<1> QED
    BY <1>1, <1>6 DEF True

(* The counts, the list of failed handlers and the status of an answer     *)
(* agree with its executions, however many there are.                      *)
LEMMA AnswerAddsUp ==
    ASSUME NEW todo, NEW handlers \in Seq(HandlerResult)
    PROVE  AddsUp(CreatedTodo(todo, handlers))
<1> DEFINE tally == FoldLeft(Tally, NoTally, handlers)
           all == Executions(handlers)
           n == Len(handlers)
           failures == FailedUpTo(all, n)
<1>1. TallyTrue(tally, all, n)
    BY TallyOfAll
<1>2. /\ IsFiniteSet(failures) /\ Cardinality(failures) \in Nat
      /\ n \in Nat /\ DOMAIN handlers = 1..n
    BY FailedFacts
<1>3. /\ HandlersReport(handlers).total = n
      /\ HandlersReport(handlers).succeeded = tally.succeeded
      /\ HandlersReport(handlers).failed = n - tally.succeeded
      /\ HandlersReport(handlers).failedHandlerIds = tally.failedIds
      /\ HandlersReport(handlers).executions = all
      /\ HandlersReport(handlers).allSucceeded <=> tally.succeeded = n
    BY DEF HandlersReport, NoTally
<1> HIDE DEF tally
<1>4. /\ tally.succeeded \in Nat /\ tally.failedIds \in Seq(Nat)
      /\ tally.succeeded + Cardinality(failures) = n
      /\ Len(tally.failedIds) = Cardinality(failures)
      /\ \A i \in failures :
            tally.failedIds[Cardinality(FailedUpTo(all, i))] = all[i].handlerId
    BY <1>1 DEF TallyTrue
<1>5. Len(all) = n /\ \A i \in 1..n : all[i].status = handlers[i].status
    BY <1>2 DEF Executions, Execution
<1>6. tally.succeeded = n <=> tally.failedIds = <<>>
    BY <1>2, <1>4, EmptySeq
<1>7. tally.succeeded = n <=> \A i \in DOMAIN handlers : handlers[i].status = "success"
    <2>1. tally.succeeded = n <=> failures = {}
        BY <1>2, <1>4, FS_EmptySet
    <2> QED
        BY <1>2, <1>5, <2>1 DEF FailedUpTo
<1>8. n - tally.succeeded = Cardinality(failures)
      /\ tally.succeeded + (n - tally.succeeded) = n
    BY <1>2, <1>4
<1> DEFINE body == CreatedTodo(todo, handlers)
<1>9. /\ body.handlers.total = n /\ body.handlers.executions = all
      /\ body.handlers.succeeded = tally.succeeded
      /\ body.handlers.failed = n - tally.succeeded
      /\ body.handlers.failedHandlerIds = tally.failedIds
      /\ body.handlers.allSucceeded <=> tally.succeeded = n
      /\ body.status = "created" <=> \A i \in DOMAIN handlers : handlers[i].status = "success"
    <2>1. body.handlers = HandlersReport(handlers)
        BY DEF CreatedTodo
    <2>2. body.status = IF \A i \in DOMAIN handlers : handlers[i].status = "success"
                        THEN "created" ELSE "created_with_handler_errors"
        BY DEF CreatedTodo
    <2> HIDE DEF body
    <2> QED
        BY <1>3, <2>1, <2>2
<1> HIDE DEF body, all, n
<1>10. AddsUp(body)
    BY <1>4, <1>5, <1>6, <1>7, <1>8, <1>9 DEF AddsUp
<1> QED
    BY <1>10 DEF body

(* The counts, the list of failed handlers and the status of every answer  *)
(* agree with its executions.                                              *)
THEOREM ReportsAddUp == Spec => []ReportAddsUp
<1>1. TypeOK => ReportAddsUp
    <2> SUFFICES ASSUME TypeOK, NEW w \in Workers, reply[w].kind = "todo_created"
                 PROVE  AddsUp(CreatedTodo(reply[w].todo, reply[w].handlers))
        BY DEF ReportAddsUp, CreatedBodies
    <2>1. reply[w] \in Replies
        BY DEF TypeOK
    <2>2. reply[w].handlers \in Seq(HandlerResult)
        BY <2>1 DEF Replies, None
    <2> QED
        BY <2>2, AnswerAddsUp
<1> QED
    BY <1>1, TypeCorrect, PTL
-----------------------------------------------------------------------------
(* Failures are located. *)

LEMMA CommandsJsonType ==
    ASSUME NEW handler \in HandlerResult
    PROVE  /\ DOMAIN CommandsJson(handler) = DOMAIN handler.commandResults
           /\ \A i \in DOMAIN handler.commandResults :
                 LET json == CommandsJson(handler)[i]
                     result == handler.commandResults[i]
                 IN  /\ json.index = i - 1 /\ json.status = result.status
                     /\ json.type = result.command.op /\ json.todoId = result.command.id
                     /\ json.priority = result.command.priority
                     /\ json.error = "null" <=> result.error = "none"
<1>1. ASSUME NEW i \in DOMAIN handler.commandResults
      PROVE  ErrorCode(handler.commandResults[i].error) = "null"
                 <=> handler.commandResults[i].error = "none"
    <2>1. handler.commandResults \in Seq(CommandResults)
        BY DEF HandlerResult
    <2>2. handler.commandResults[i] \in CommandResults
        BY <2>1
    <2>3. handler.commandResults[i].error \in CommandErrors
        BY <2>2 DEF CommandResults
    <2> QED
        BY <2>3 DEF CommandErrors, ErrorCode
<1> QED
    BY <1>1 DEF CommandsJson, CommandJson

(* The one failed command of a consistent result is the one that the       *)
(* search for the first failed command finds.                              *)
LEMMA FailedIndex ==
    ASSUME NEW handler \in HandlerResult, NEW k \in DOMAIN handler.commandResults,
           handler.commandResults[k].status = "failed",
           \A i \in DOMAIN handler.commandResults \ {k} :
              handler.commandResults[i].status # "failed"
    PROVE  FailedCommandIndex(handler) = k - 1
<1> DEFINE all == handler.commandResults
           I == {i \in 1..Len(all) : HasFailed(all[i])}
<1>1. all \in Seq(CommandResults)
    BY DEF HandlerResult
<1>2. k \in Nat /\ DOMAIN all = 1..Len(all)
    BY <1>1
<1>3. I = {k}
    BY <1>2 DEF HasFailed
<1>4. Min({k}) = k
    BY <1>2 DEF Min
<1>5. SelectInSeq(all, HasFailed) = IF I # {} THEN Min(I) ELSE 0
    BY DEF SelectInSeq
<1> QED
    BY <1>3, <1>4, <1>5 DEF FailedCommandIndex

LEMMA ConsistentIsLocated ==
    ASSUME NEW handler \in HandlerResult, Consistent(handler)
    PROVE  Located(Execution(handler))
<1> DEFINE all == handler.commandResults
           list == CommandsJson(handler)
           execution == Execution(handler)
           failing == {i \in DOMAIN list : list[i].error # "null"}
<1>1. /\ execution.commands = list
      /\ execution.error = ExecutionError(handler)
    BY DEF Execution
<1>2. /\ DOMAIN list = DOMAIN all
      /\ \A i \in DOMAIN all : /\ list[i].index = i - 1 /\ list[i].status = all[i].status
                               /\ list[i].error = "null" <=> all[i].error = "none"
    BY CommandsJsonType
<1>3. /\ handler.status \in {"success", "script_error", "limit_exceeded", "command_error"}
      /\ handler.storageError \in BOOLEAN /\ all \in Seq(CommandResults)
    BY DEF HandlerResult
<1> HIDE DEF all, list, execution
<1>4. CASE handler.status = "success"
    <2>1. execution.error.code = "null"
        BY <1>1, <1>4 DEF ExecutionError
    <2>2. \A i \in DOMAIN all : all[i].status = "applied" /\ all[i].error = "none"
        BY <1>4 DEF Consistent, all
    <2>3. \A i \in DOMAIN list : list[i].status = "applied" /\ list[i].error = "null"
        BY <1>2, <2>2
    <2>4. Located(execution)
        BY <1>1, <2>1, <2>3 DEF Located
    <2> QED
        BY <2>4 DEF execution
<1> DEFINE rolledBack == handler.status = "command_error" /\ ~handler.storageError
<1>5. CASE handler.status # "success" /\ ~rolledBack
    <2>1. execution.error.code \notin {"null", "COMMAND_TRANSACTION_ROLLED_BACK"}
        BY <1>1, <1>5 DEF ExecutionError
    <2>2. \A i \in DOMAIN all : all[i].status = "rolled_back" /\ all[i].error = "none"
        <3>1. DOMAIN <<>> = {}
            OBVIOUS
        <3>2. CASE handler.status \in {"script_error", "limit_exceeded"}
            BY <3>1, <3>2 DEF Consistent, all
        <3>3. CASE handler.status = "command_error" /\ handler.storageError
            BY <3>3 DEF Consistent, all
        <3> QED
            BY <1>3, <1>5, <3>2, <3>3
    <2>3. failing = {} /\ \A i \in DOMAIN list : list[i].status = "rolled_back"
        BY <1>2, <2>2
    <2>4. Located(execution)
        BY <1>1, <2>1, <2>3 DEF Located
    <2> QED
        BY <2>4 DEF execution
<1>6. CASE rolledBack
    <2>1. PICK k \in DOMAIN all :
             /\ all[k].status = "failed" /\ all[k].error # "none"
             /\ \A i \in DOMAIN all \ {k} :
                   /\ all[i].status = IF i < k THEN "rolled_back" ELSE "not_executed"
                   /\ all[i].error = "none"
        BY <1>6 DEF Consistent, all
    <2>2. FailedCommandIndex(handler) = k - 1
        BY <2>1, FailedIndex DEF all
    <2>3. /\ execution.error.code = "COMMAND_TRANSACTION_ROLLED_BACK"
          /\ execution.error.failedCommandIndex = k - 1
        BY <1>1, <1>6, <2>2 DEF ExecutionError
    <2>4. failing = {k} /\ list[k].index = k - 1
        BY <1>2, <2>1
    <2>5. \A i \in DOMAIN list : /\ i < k => list[i].status = "rolled_back"
                                 /\ i > k => list[i].status = "not_executed"
        <3>1. k \in Int /\ \A i \in DOMAIN all : i \in Int
            BY <1>3
        <3> QED
            BY <1>2, <2>1, <3>1
    <2>6. k \in DOMAIN list
        BY <1>2
    <2>7. Located(execution)
        BY <1>1, <2>3, <2>4, <2>5, <2>6 DEF Located
    <2> QED
        BY <2>7 DEF execution
<1> HIDE DEF rolledBack
<1> QED
    BY <1>4, <1>5, <1>6

(* An answer is made of what its worker has reported.                      *)
Replied == \A w \in Workers :
    reply[w].kind = "todo_created" => reply[w].handlers = report[w]

LEMMA AnsweredDelivers ==
    ASSUME NEW w \in Workers, Receive(w) \/ Work(w), pc[w] = "answered"
    PROVE  Deliver(w)
BY DEF Receive, ReceiveTodo, ReceiveHandler, ReceivePage, ReceiveList, Work, InsertTodo,
       ReadTodoRowid, FindHandlers, RunScript, BeginTransaction, RunCommand, Rollback, Commit,
       ReadBack, TestScript, InsertHandler, ReadHandlerRowid, ListHandlers, CountTodos, ReadPage

(* A createTodo is answered by ReadBack, and its answer stays as it is     *)
(* until it is delivered.                                                  *)
LEMMA AnswerAppears ==
    ASSUME Inv, RowInv, NEW w \in Workers, Receive(w) \/ Work(w),
           reply'[w].kind = "todo_created"
    PROVE  /\ pc[w] = "run_handlers" /\ UNCHANGED <<report, request>>
           /\ created[w] # NoTodo /\ created[w].id \in DOMAIN disk.todos
           /\ reply'[w] = [kind |-> "todo_created", todo |-> TodoTaskOf(disk, created[w].id),
                           handlers |-> report[w]]
<1>1. ASSUME reply'[w] = reply[w]
      PROVE  FALSE
    <2>1. reply[w] # None
        BY <1>1 DEF None
    <2>2. pc[w] = "answered"
        BY <2>1 DEF RowInv, OwnRow
    <2>3. reply'[w] = None
        BY <2>2, AnsweredDelivers DEF Deliver, Inv, Typed, TypeOK
    <2> QED
        BY <1>1, <2>1, <2>3
<1>2. AnswersTruly(w)
    BY <1>1, WorkersAnswerTruly
<1>3. ReadBack(w) /\ created[w].id \in DOMAIN disk.todos
      /\ reply'[w] = [kind |-> "todo_created", todo |-> TodoTaskOf(disk, created[w].id),
                      handlers |-> report[w]]
    <2>1. ~StatementFails(w)
        BY FailureReply
    <2>2. reply'[w] # None /\ reply'[w].kind \notin {"rejected", "script_rejected", "handlers",
                                                     "handler_created", "page"}
        BY DEF None
    <2> QED
        BY <1>2, <2>1, <2>2 DEF AnswersTruly
<1> QED
    BY <1>3 DEF ReadBack, StatementFails, handling, locals, RowInv, OwnRow, HoldingTodo

LEMMA NextReplied ==
    ASSUME Inv, RowInv, Replied, [Next]_vars
    PROVE  Replied'
<1>1. CASE UNCHANGED vars
    BY <1>1 DEF vars, handling, locals, Replied
<1>2. CASE Crash
    BY <1>2 DEF Crash, Replied, None
<1>3. ASSUME NEW w \in Workers, Receive(w) \/ Work(w)
      PROVE  Replied'
    <2>1. \A v \in Workers \ {w} : reply'[v] = reply[v] /\ report'[v] = report[v]
        BY <1>3, StepIsLocal DEF Inv
    <2>2. ASSUME reply'[w].kind = "todo_created"
          PROVE  reply'[w].handlers = report'[w]
        <3>1. /\ report' = report
              /\ reply'[w] = [kind |-> "todo_created", todo |-> TodoTaskOf(disk, created[w].id),
                              handlers |-> report[w]]
            BY <1>3, <2>2, AnswerAppears
        <3> QED
            BY <3>1
    <2> QED
        BY <2>1, <2>2 DEF Replied
<1> QED
    BY <1>1, <1>2, <1>3 DEF Next

(* Every failed execution of every answer says where it failed, truly.     *)
THEOREM FailuresLocated == Spec => []FailuresAreLocated
<1>1. Init => Replied
    BY DEF Init, Replied, None
<1>2. Inv /\ RowInv /\ Replied /\ [Next]_vars => Replied'
    BY NextReplied
<1>3. TypeOK /\ ReportConsistent /\ Replied => FailuresAreLocated
    <2> SUFFICES ASSUME TypeOK, ReportConsistent, Replied, NEW w \in Workers,
                        reply[w].kind = "todo_created",
                        NEW i \in DOMAIN Executions(reply[w].handlers)
                 PROVE  Located(Executions(reply[w].handlers)[i])
        BY DEF FailuresAreLocated, CreatedBodies, CreatedTodo, HandlersReport
    <2>1. reply[w].handlers = report[w] /\ report[w] \in Seq(HandlerResult)
        BY DEF Replied, TypeOK
    <2>2. /\ i \in DOMAIN report[w]
          /\ Executions(reply[w].handlers)[i] = Execution(report[w][i])
        BY <2>1 DEF Executions
    <2>3. report[w][i] \in HandlerResult /\ Consistent(report[w][i])
        BY <2>1, <2>2 DEF ReportConsistent
    <2> QED
        BY <2>2, <2>3, ConsistentIsLocated
<1> QED
    BY <1>1, <1>2, <1>3, RowInvariance, TypeCorrect, ReportsConsistent, PTL DEF Spec
-----------------------------------------------------------------------------
(* The final state of a todo, computed from the report. *)

(* What a row or a todo says is what another says.                         *)
SameTodo(one, other) ==
    /\ one.title = other.title /\ one.priority = other.priority
    /\ one.completed <=> other.completed

LEMMA LastIsOne ==
    ASSUME NEW n \in Nat, NEW S \in SUBSET (1..n), S # {}
    PROVE  LastOf(S) \in S
<1> DEFINE T == {m \in Nat : \A i \in S : i <= m}
<1>1. n \in T
    OBVIOUS
<1>2. PICK m \in T : \A k \in T : m <= k
    <2> HIDE DEF T
    <2>1. T \in SUBSET Nat /\ T # {}
        BY <1>1 DEF T
    <2> QED
        BY <2>1, LeastNumber
<1>3. m \in S
    <2> SUFFICES ASSUME m \notin S PROVE FALSE
        OBVIOUS
    <2>1. PICK i \in S : TRUE
        OBVIOUS
    <2>2. m - 1 \in Nat
        BY <1>2, <2>1
    <2>3. \A j \in S : j <= m - 1
        BY <1>2
    <2>4. m - 1 \in T
        BY <2>2, <2>3
    <2> QED
        BY <1>2, <2>4
<1>4. \A j \in S : j <= m
    BY <1>2
<1> QED
    BY <1>3, <1>4 DEF LastOf

(* One more handler changes the todo by what its commands have in effect.  *)
LEMMA FinalTodoNext ==
    ASSUME NEW sent, NEW id, NEW handlers \in Seq(HandlerResult), NEW handler \in HandlerResult
    PROVE  LET before == FinalTodo(sent, id, Executions(handlers))
               after == FinalTodo(sent, id, Executions(Append(handlers, handler)))
               new == Execution(handler)
               sets == InEffect(new, "set_priority", id)
           IN  /\ after.title = before.title
               /\ after.priority = IF sets = {} THEN before.priority
                                   ELSE new.commands[LastOf(sets)].priority
               /\ after.completed <=> before.completed \/ InEffect(new, "complete", id) # {}
<1> DEFINE n == Len(handlers)
           E == Executions(handlers)
           F == Executions(Append(handlers, handler))
           new == Execution(handler)
           settingE == {i \in DOMAIN E : InEffect(E[i], "set_priority", id) # {}}
           settingF == {i \in DOMAIN F : InEffect(F[i], "set_priority", id) # {}}
           before == FinalTodo(sent, id, E)
           after == FinalTodo(sent, id, F)
           sets == InEffect(new, "set_priority", id)
<1>1. /\ n \in Nat /\ DOMAIN E = 1..n /\ DOMAIN F = 1..(n + 1)
      /\ F[n + 1] = new /\ \A i \in 1..n : F[i] = E[i]
    BY DEF Executions
<1>2. \A i : i \in 1..(n + 1) <=> i \in 1..n \/ i = n + 1
    BY <1>1
<1>3. /\ before.title = sent.title /\ after.title = sent.title
      /\ before.priority = IF settingE = {} THEN sent.priority
            ELSE E[LastOf(settingE)].commands[
                    LastOf(InEffect(E[LastOf(settingE)], "set_priority", id))].priority
      /\ after.priority = IF settingF = {} THEN sent.priority
            ELSE F[LastOf(settingF)].commands[
                    LastOf(InEffect(F[LastOf(settingF)], "set_priority", id))].priority
      /\ before.completed <=> sent.completed
            \/ \E i \in DOMAIN E : InEffect(E[i], "complete", id) # {}
      /\ after.completed <=> sent.completed
            \/ \E i \in DOMAIN F : InEffect(F[i], "complete", id) # {}
    BY DEF FinalTodo
<1> HIDE DEF n, E, F, before, after, new
<1>4. after.completed <=> before.completed \/ InEffect(new, "complete", id) # {}
    BY <1>1, <1>2, <1>3
<1>5. CASE sets = {}
    <2>1. settingF = settingE
        BY <1>1, <1>2, <1>5
    <2>2. settingE # {} => F[LastOf(settingE)] = E[LastOf(settingE)]
        <3>1. settingE \in SUBSET (1..n)
            BY <1>1
        <3> HIDE DEF settingE
        <3> QED
            BY <1>1, <3>1, LastIsOne
    <2> HIDE DEF settingE, settingF
    <2>3. after.priority = before.priority
        BY <1>3, <2>1, <2>2
    <2> QED
        BY <1>3, <1>4, <1>5, <2>3 DEF n, E, F, before, after, new
<1>6. CASE sets # {}
    <2>1. n + 1 \in settingF /\ \A j \in settingF : j \in Nat /\ j <= n + 1
        BY <1>1, <1>2, <1>6
    <2>2. \A i \in settingF : (\A j \in settingF : j <= i) => i = n + 1
        BY <1>1, <2>1
    <2>3. LastOf(settingF) = n + 1
        BY <2>1, <2>2 DEF LastOf
    <2> HIDE DEF settingE, settingF
    <2>4. after.priority = new.commands[LastOf(sets)].priority
        BY <1>1, <1>3, <2>1, <2>3
    <2> QED
        BY <1>3, <1>4, <1>6, <2>4 DEF n, E, F, before, after, new
<1> QED
    BY <1>5, <1>6

(* The commands of a success are in effect, all of them, those of anything *)
(* else are not.                                                           *)
LEMMA SuccessInEffect ==
    ASSUME NEW queue \in Seq(Commands), NEW handler \in HandlerResult, NEW id,
           handler.commandResults = Applied(queue, Len(queue))
    PROVE  /\ InEffect(Execution(handler), "set_priority", id) = Setters(queue, Len(queue), id)
           /\ InEffect(Execution(handler), "complete", id) # {}
                 <=> Completes(queue, Len(queue), id)
           /\ \A i \in 1..Len(queue) :
                 Execution(handler).commands[i].priority = queue[i].priority
<1> DEFINE list == Execution(handler).commands
<1>1. /\ DOMAIN list = 1..Len(queue)
      /\ \A i \in 1..Len(queue) :
            /\ list[i].status = "applied" /\ list[i].type = queue[i].op
            /\ list[i].todoId = queue[i].id /\ list[i].priority = queue[i].priority
    <2>1. list = CommandsJson(handler)
        BY DEF Execution
    <2>2. DOMAIN handler.commandResults = 1..Len(queue)
        BY DEF Applied
    <2>3. \A i \in 1..Len(queue) : handler.commandResults[i] = ResultOf(queue[i], "none")
        BY DEF Applied
    <2>4. \A i \in 1..Len(queue) : /\ handler.commandResults[i].status = "applied"
                                   /\ handler.commandResults[i].command = queue[i]
        <3>1. \A command : /\ ResultOf(command, "none").status = "applied"
                           /\ ResultOf(command, "none").command = command
            BY DEF ResultOf
        <3> QED
            BY <2>3, <3>1
    <2> QED
        BY <2>1, <2>2, <2>4, CommandsJsonType
<1> HIDE DEF list
<1>2. InEffect(Execution(handler), "set_priority", id) = Setters(queue, Len(queue), id)
    BY <1>1 DEF InEffect, Setters, list
<1>3. InEffect(Execution(handler), "complete", id) # {} <=> Completes(queue, Len(queue), id)
    BY <1>1 DEF InEffect, Completes, list
<1> QED
    BY <1>1, <1>2, <1>3 DEF list

LEMMA FailureNotInEffect ==
    ASSUME NEW handler \in HandlerResult, Consistent(handler), handler.status # "success",
           NEW op, NEW id
    PROVE  InEffect(Execution(handler), op, id) = {}
<1> DEFINE all == handler.commandResults
<1>1. \A i \in DOMAIN all : all[i].status # "applied"
    <2>1. /\ handler.status \in {"success", "script_error", "limit_exceeded", "command_error"}
          /\ handler.storageError \in BOOLEAN
        BY DEF HandlerResult
    <2>2. CASE handler.status \in {"script_error", "limit_exceeded"}
        <3>1. DOMAIN <<>> = {}
            OBVIOUS
        <3> QED
            BY <2>2, <3>1 DEF Consistent
    <2>3. CASE handler.status = "command_error" /\ handler.storageError
        BY <2>3 DEF Consistent
    <2>4. CASE handler.status = "command_error" /\ ~handler.storageError
        <3>1. PICK k \in DOMAIN all :
                 /\ all[k].status = "failed"
                 /\ \A i \in DOMAIN all \ {k} :
                       all[i].status = IF i < k THEN "rolled_back" ELSE "not_executed"
            BY <2>4 DEF Consistent
        <3> QED
            BY <3>1
    <2> QED
        BY <2>1, <2>2, <2>3, <2>4
<1>2. \A i \in DOMAIN CommandsJson(handler) : CommandsJson(handler)[i].status # "applied"
    BY <1>1, CommandsJsonType
<1> QED
    BY <1>2 DEF InEffect, Execution

(* What a success commits is what its report adds to the final state.      *)
LEMMA CommitFinal ==
    ASSUME NEW queue \in Seq(Commands), NEW handlers \in Seq(HandlerResult),
           NEW handler \in HandlerResult,
           handler.commandResults = Applied(queue, Len(queue)),
           NEW todos, NEW id \in DOMAIN todos, NEW sent,
           SameTodo(todos[id], FinalTodo(sent, id, Executions(handlers)))
    PROVE  SameTodo(EffectOf(todos, queue, Len(queue))[id],
                    FinalTodo(sent, id, Executions(Append(handlers, handler))))
<1> DEFINE n == Len(queue)
           row == todos[id]
           moved == EffectOf(todos, queue, n)[id]
           before == FinalTodo(sent, id, Executions(handlers))
           after == FinalTodo(sent, id, Executions(Append(handlers, handler)))
           new == Execution(handler)
           sets == InEffect(new, "set_priority", id)
<1>1. /\ moved.title = row.title
      /\ moved.priority = IF Setters(queue, n, id) = {} THEN row.priority
                          ELSE queue[LastOf(Setters(queue, n, id))].priority
      /\ moved.completed <=> row.completed \/ Completes(queue, n, id)
    BY DEF EffectOf
<1>2. /\ after.title = before.title
      /\ after.priority = IF sets = {} THEN before.priority
                          ELSE new.commands[LastOf(sets)].priority
      /\ after.completed <=> before.completed \/ InEffect(new, "complete", id) # {}
    BY FinalTodoNext
<1>3. /\ sets = Setters(queue, n, id)
      /\ InEffect(new, "complete", id) # {} <=> Completes(queue, n, id)
      /\ \A i \in 1..n : new.commands[i].priority = queue[i].priority
    BY SuccessInEffect
<1>4. sets # {} => new.commands[LastOf(sets)].priority = queue[LastOf(sets)].priority
    <2>1. sets \in SUBSET (1..n) /\ n \in Nat
        BY <1>3 DEF Setters
    <2> HIDE DEF sets, n, new
    <2>2. sets # {} => LastOf(sets) \in 1..n
        BY <2>1, LastIsOne
    <2> QED
        BY <1>3, <2>2
<1>5. row.title = before.title /\ row.priority = before.priority
      /\ (row.completed <=> before.completed)
    BY DEF SameTodo
<1> HIDE DEF row, moved, before, after, new, sets, n
<1>6. SameTodo(moved, after)
    BY <1>1, <1>2, <1>3, <1>4, <1>5 DEF SameTodo
<1> QED
    BY <1>6 DEF moved, after, n

(* What anything else reports leaves the final state as it was.            *)
LEMMA FailureFinal ==
    ASSUME NEW handlers \in Seq(HandlerResult), NEW handler \in HandlerResult,
           Consistent(handler), handler.status # "success", NEW row, NEW sent, NEW id,
           SameTodo(row, FinalTodo(sent, id, Executions(handlers)))
    PROVE  SameTodo(row, FinalTodo(sent, id, Executions(Append(handlers, handler))))
<1> DEFINE before == FinalTodo(sent, id, Executions(handlers))
           after == FinalTodo(sent, id, Executions(Append(handlers, handler)))
<1>1. /\ InEffect(Execution(handler), "set_priority", id) = {}
      /\ InEffect(Execution(handler), "complete", id) = {}
    BY FailureNotInEffect
<1>2. SameTodo(after, before)
    BY <1>1, FinalTodoNext DEF SameTodo
<1> HIDE DEF before, after
<1>3. SameTodo(row, before) => SameTodo(row, after)
    BY <1>2 DEF SameTodo
<1> QED
    BY <1>3 DEF before, after
-----------------------------------------------------------------------------
(* Whose todo a step may change. *)

(* How a step of one worker changes the committed tables.                  *)
LEMMA DiskSteps ==
    ASSUME Inv, NEW w \in Workers, Receive(w) \/ Work(w)
    PROVE  \/ disk' = disk
           \/ InsertTodo(w) /\ disk' = WithTodo(disk, request[w].input)
              /\ lastRowid' = Len(disk.todos) + 1
           \/ InsertHandler(w) /\ disk' = WithHandler(disk, request[w].input)
           \/ Commit(w) /\ TakesEffect(w)
<1>1. CASE InsertTodo(w) \/ InsertHandler(w)
    <2>1. inTxn = FALSE /\ conn = disk
        BY <1>1, NothingUncommitted DEF InsertTodo, InsertHandler, Inv
    <2> QED
        BY <1>1, <2>1 DEF InsertTodo, InsertHandler, Write, StatementFails
<1>2. CASE RunCommand(w)
    <2>1. inTxn = TRUE
        BY <1>2, OneTransaction DEF RunCommand, Inv, InTransaction
    <2> QED
        BY <1>2, <2>1 DEF RunCommand, Write
<1>3. CASE Commit(w)
    <2>1. conn = [disk EXCEPT !.todos = EffectOf(@, commands[w], Len(commands[w]))]
        BY <1>3 DEF Commit, Inv, Isolation
    <2> QED
        BY <1>3, <2>1 DEF Commit, TakesEffect
<1>4. CASE Receive(w)
    BY <1>4 DEF Receive, ReceiveTodo, ReceiveHandler, ReceivePage, ReceiveList, store
<1>5. CASE \/ ReadTodoRowid(w) \/ FindHandlers(w) \/ RunScript(w) \/ BeginTransaction(w)
           \/ Rollback(w) \/ ReadBack(w) \/ TestScript(w) \/ ReadHandlerRowid(w)
           \/ ListHandlers(w) \/ CountTodos(w) \/ ReadPage(w) \/ Deliver(w)
    BY <1>5 DEF ReadTodoRowid, FindHandlers, RunScript, BeginTransaction, Rollback, ReadBack,
           TestScript, ReadHandlerRowid, ListHandlers, CountTodos, ReadPage, Deliver,
           StatementFails, store
<1> QED
    BY <1>1, <1>2, <1>3, <1>4, <1>5 DEF Work

(* Every stored script came with a request.                                *)
Received ==
    \A i \in DOMAIN disk.scripts :
        \E input \in HandlerInputs : disk.scripts[i].script = input.script

LEMMA NextReceived ==
    ASSUME Inv, Received, [Next]_vars
    PROVE  Received'
<1>1. CASE UNCHANGED vars
    BY <1>1 DEF vars, store, Received
<1>2. CASE Crash
    BY <1>2 DEF Crash, Received
<1>3. ASSUME NEW w \in Workers, Receive(w) \/ Work(w)
      PROVE  Received'
    <2>1. disk \in Tables /\ disk.scripts \in Seq(HandlerRow)
        BY DEF Inv, Typed, TypeOK, Tables
    <2>2. CASE disk' = disk
        BY <2>2 DEF Received
    <2>3. CASE disk' = WithTodo(disk, request[w].input)
        <3>1. disk'.scripts = disk.scripts
            BY <2>1, <2>3 DEF WithTodo, Tables
        <3> QED
            BY <3>1 DEF Received
    <2>4. CASE TakesEffect(w)
        <3>1. disk'.scripts = disk.scripts
            BY <2>1, <2>4 DEF TakesEffect, Tables
        <3> QED
            BY <3>1 DEF Received
    <2>5. CASE InsertHandler(w) /\ disk' = WithHandler(disk, request[w].input)
        <3> DEFINE input == request[w].input
                   row == [script |-> input.script, event |-> input.event,
                           enabled |-> input.enabled]
        <3>1. input \in HandlerInputs
            BY <2>5 DEF InsertHandler, Inv, Typed, LocalsFit, CreatingHandler
        <3>2. disk'.scripts = Append(disk.scripts, row)
            BY <2>1, <2>5 DEF WithHandler, Tables
        <3>3. row.script = input.script
            OBVIOUS
        <3> HIDE DEF row
        <3>4. \A i \in DOMAIN disk'.scripts :
                 \/ i \in DOMAIN disk.scripts /\ disk'.scripts[i] = disk.scripts[i]
                 \/ disk'.scripts[i] = row
            BY <2>1, <3>2
        <3> QED
            BY <3>1, <3>3, <3>4 DEF Received
    <2> QED
        BY <1>3, <2>2, <2>3, <2>4, <2>5, DiskSteps
<1> QED
    BY <1>1, <1>2, <1>3 DEF Next

(* A script that touches only its own todo queues commands for no other.   *)
LEMMA OwnQueue ==
    ASSUME Inv, Queues, Orders, Received, \A input \in HandlerInputs : OwnTodoOnly(input.script),
           NEW w \in Workers, pc[w] = "commands", NEW i \in DOMAIN commands[w]
    PROVE  commands[w][i].id = created[w].id
<1>1. PICK h \in pending[w] : commands[w] = QueuedBy(h.script, created[w])
    BY DEF Queues, QueueInv
<1>2. h.id \in DOMAIN disk.scripts /\ h.script = disk.scripts[h.id].script
    BY DEF Orders, OrderInv
<1>3. OwnTodoOnly(h.script)
    BY <1>2 DEF Received
<1>4. created[w].id \in Nat
    BY DEF Inv, Typed, LocalsFit, HoldingTodo, TodoTask
<1>5. i \in DOMAIN h.script.calls /\ commands[w][i] = CommandOf(h.script.calls[i], created[w])
    BY <1>1 DEF QueuedBy
<1>6. h.script.calls[i].id = [ofTodo |-> TRUE, plus |-> 0]
    BY <1>3, <1>5 DEF OwnTodoOnly
<1>7. ValueOf(h.script.calls[i].id, created[w].id) = created[w].id
    BY <1>4, <1>6 DEF ValueOf
<1> QED
    BY <1>5, <1>7 DEF CommandOf

(* While requests are undisturbed, a step of one leaves the todos of the   *)
(* others as they are.                                                     *)
LEMMA OthersTodosKept ==
    ASSUME Inv, RowInv, Queues, Orders, Received, Undisturbed,
           NEW w \in Workers, Receive(w) \/ Work(w), NEW v \in Workers \ {w}, created[v] # NoTodo
    PROVE  SameTodo(disk'.todos[created[v].id], disk.todos[created[v].id])
<1> DEFINE id == created[v].id
<1>1. disk \in Tables /\ disk.todos \in Seq(TodoRow) /\ id \in DOMAIN disk.todos
    BY DEF Inv, Typed, TypeOK, Tables, RowInv, OwnRow
<1> HIDE DEF id
<1>2. CASE disk' = disk
    BY <1>2 DEF SameTodo
<1>3. CASE disk' = WithTodo(disk, request[w].input)
    <2> DEFINE input == request[w].input
               row == [title |-> input.title, priority |-> input.priority,
                       completed |-> input.completed]
    <2>1. disk'.todos = Append(disk.todos, row)
        BY <1>1, <1>3 DEF WithTodo, Tables
    <2> HIDE DEF row
    <2>2. disk'.todos[id] = disk.todos[id]
        BY <1>1, <2>1
    <2> QED
        BY <2>2 DEF SameTodo, id
<1>4. CASE disk' = WithHandler(disk, request[w].input)
    <2>1. disk'.todos = disk.todos
        BY <1>1, <1>4 DEF WithHandler, Tables
    <2> QED
        BY <2>1 DEF SameTodo
<1>5. CASE Commit(w) /\ TakesEffect(w)
    <2>1. \A input \in HandlerInputs : OwnTodoOnly(input.script)
        BY DEF Undisturbed
    <2>2. pc[w] = "commands"
        BY <1>5 DEF Commit
    <2>3. \A i \in DOMAIN commands[w] : commands[w][i].id # id
        BY <2>1, <2>2, OwnQueue DEF RowInv, RowsDistinct, id
    <2>4. DOMAIN commands[w] = 1..Len(commands[w])
        BY DEF Inv, Typed, TypeOK
    <2>5. /\ Setters(commands[w], Len(commands[w]), id) = {}
          /\ ~Completes(commands[w], Len(commands[w]), id)
        BY <2>3, <2>4 DEF Setters, Completes
    <2>6. disk'.todos = EffectOf(disk.todos, commands[w], Len(commands[w]))
        BY <1>1, <1>5 DEF TakesEffect, Tables
    <2>7. SameTodo(EffectOf(disk.todos, commands[w], Len(commands[w]))[id], disk.todos[id])
        BY <1>1, <2>5 DEF EffectOf, SameTodo
    <2> QED
        BY <2>6, <2>7 DEF id
<1> QED
    BY <1>2, <1>3, <1>4, <1>5, DiskSteps
-----------------------------------------------------------------------------
(* The answer shows the final state. *)

(* The row just inserted is as requested; from then on it is what the      *)
(* report says; and so is the todo of the answer.                          *)
FreshRow(w) ==
    pc[w] = "read_todo_rowid" => SameTodo(disk.todos[lastRowid], request[w].input)

HeldRow(w) ==
    pc[w] \in HoldingTodo =>
        SameTodo(disk.todos[created[w].id],
                 FinalTodo(request[w].input, created[w].id, Executions(report[w])))

AnsweredTodo(w) ==
    reply[w].kind = "todo_created" =>
        reply[w].todo = FinalTodo(request[w].input, reply[w].todo.id,
                                  Executions(reply[w].handlers))

FinalInv == \A w \in Workers : FreshRow(w) /\ HeldRow(w) /\ AnsweredTodo(w)

LEMMA OthersFinal ==
    ASSUME Inv, RowInv, Queues, Orders, Received, Undisturbed, FinalInv,
           NEW w \in Workers, Receive(w) \/ Work(w), NEW v \in Workers \ {w}
    PROVE  FreshRow(v)' /\ HeldRow(v)' /\ AnsweredTodo(v)'
<1>1. /\ pc'[v] = pc[v] /\ request'[v] = request[v] /\ reply'[v] = reply[v]
      /\ created'[v] = created[v] /\ report'[v] = report[v]
    BY StepIsLocal DEF Inv
<1>2. FreshRow(v)'
    <2>1. pc[v] = "read_todo_rowid" => disk' = disk /\ lastRowid' = lastRowid
        BY StoreIsHeld DEF Inv, InMutex
    <2> QED
        BY <1>1, <2>1 DEF FinalInv, FreshRow
<1>3. HeldRow(v)'
    <2> SUFFICES ASSUME pc[v] \in HoldingTodo
                 PROVE  SameTodo(disk'.todos[created[v].id],
                                 FinalTodo(request[v].input, created[v].id, Executions(report[v])))
        BY <1>1 DEF HeldRow
    <2>1. created[v] # NoTodo
        BY DEF RowInv, OwnRow
    <2>2. SameTodo(disk'.todos[created[v].id], disk.todos[created[v].id])
        BY <2>1, OthersTodosKept
    <2> QED
        BY <2>2 DEF FinalInv, HeldRow, SameTodo
<1>4. AnsweredTodo(v)'
    BY <1>1 DEF FinalInv, AnsweredTodo
<1> QED
    BY <1>2, <1>3, <1>4

LEMMA InsertTodoFresh ==
    ASSUME Inv, NEW w \in Workers, InsertTodo(w)
    PROVE  FreshRow(w)'
<1> DEFINE input == request[w].input
           row == [title |-> input.title, priority |-> input.priority,
                   completed |-> input.completed]
<1>1. disk \in Tables /\ disk.todos \in Seq(TodoRow) /\ request' = request
    BY DEF Inv, Typed, TypeOK, Tables, InsertTodo, StatementFails
<1>2. CASE StatementFails(w)
    BY <1>2 DEF StatementFails, Answer, Goto, FreshRow, Inv, Typed, TypeOK
<1>3. CASE disk' = WithTodo(disk, input) /\ lastRowid' = Len(disk.todos) + 1
    <2>1. disk'.todos = Append(disk.todos, row)
        BY <1>1, <1>3 DEF WithTodo, Tables
    <2>2. SameTodo(row, input)
        BY DEF SameTodo
    <2> HIDE DEF row
    <2>3. disk'.todos[lastRowid'] = row
        BY <1>1, <1>3, <2>1
    <2> QED
        BY <1>1, <2>2, <2>3 DEF FreshRow
<1>4. inTxn = FALSE /\ conn = disk
    BY NothingUncommitted DEF InsertTodo, Inv
<1> QED
    BY <1>2, <1>3, <1>4 DEF InsertTodo, Write

(* With no handler run yet the final state is the requested one.           *)
LEMMA FinalAtFirst ==
    ASSUME NEW sent, NEW id
    PROVE  SameTodo(sent, FinalTodo(sent, id, Executions(<<>>)))
<1>1. DOMAIN Executions(<<>>) = {}
    BY DEF Executions
<1> QED
    BY <1>1 DEF FinalTodo, SameTodo

LEMMA ReadTodoRowidHeld ==
    ASSUME Inv, RowInv, Orders, FinalInv, NEW w \in Workers, ReadTodoRowid(w)
    PROVE  HeldRow(w)'
<1> DEFINE todo == SnapshotOf(lastRowid, request[w].input)
<1>1. /\ pc[w] = "read_todo_rowid" /\ report[w] = <<>>
      /\ created' = [created EXCEPT ![w] = todo]
      /\ UNCHANGED <<disk, request, report>>
    BY DEF ReadTodoRowid, Orders, OrderInv, RunsHandlers
<1>2. todo.id = lastRowid
    BY DEF SnapshotOf
<1> HIDE DEF todo
<1>3. created'[w].id = lastRowid
    BY <1>1, <1>2 DEF Inv, Typed, TypeOK
<1>4. SameTodo(disk.todos[lastRowid], request[w].input)
    BY <1>1 DEF FinalInv, FreshRow
<1>5. SameTodo(request[w].input, FinalTodo(request[w].input, lastRowid, Executions(<<>>)))
    BY FinalAtFirst
<1>6. SameTodo(disk.todos[lastRowid], FinalTodo(request[w].input, lastRowid, Executions(<<>>)))
    BY <1>4, <1>5 DEF SameTodo
<1> QED
    BY <1>1, <1>3, <1>6 DEF HeldRow

(* The result that joins the report of a worker, as an entry of it.        *)
LEMMA ConcludedType ==
    ASSUME Inv, Typed', NEW w \in Workers, NEW h, NEW status, NEW outcome, NEW fault,
           Conclude(w, h, status, outcome, fault)
    PROVE  /\ report[w] \in Seq(HandlerResult)
           /\ HandlerResultOf(h, status, outcome, fault) \in HandlerResult
           /\ report'[w] = Append(report[w], HandlerResultOf(h, status, outcome, fault))
<1> DEFINE result == HandlerResultOf(h, status, outcome, fault)
<1>1. report' = [report EXCEPT ![w] = Append(report[w], result)]
    BY DEF Conclude
<1> HIDE DEF result
<1>2. report[w] \in Seq(HandlerResult) /\ report'[w] = Append(report[w], result)
    BY <1>1 DEF Inv, Typed, TypeOK
<1>3. report'[w] \in Seq(HandlerResult) /\ Len(report'[w]) = Len(report[w]) + 1
    BY <1>2 DEF Typed, TypeOK
<1>4. report'[w][Len(report[w]) + 1] \in HandlerResult
    BY <1>2, <1>3
<1>5. result \in HandlerResult
    BY <1>2, <1>4
<1> QED
    BY <1>2, <1>5 DEF result

(* A handler that failed leaves both the row and the final state alone.    *)
LEMMA FailureHeld ==
    ASSUME Inv, Typed', FinalInv, NEW w \in Workers, NEW h, NEW status, NEW outcome, NEW fault,
           Conclude(w, h, status, outcome, fault), status # "success",
           Consistent(HandlerResultOf(h, status, outcome, fault)),
           pc[w] \in HoldingTodo, UNCHANGED <<disk, created, request>>
    PROVE  HeldRow(w)'
<1> DEFINE result == HandlerResultOf(h, status, outcome, fault)
<1>1. result.status # "success"
    BY DEF HandlerResultOf
<1>2. /\ report[w] \in Seq(HandlerResult) /\ result \in HandlerResult
      /\ report'[w] = Append(report[w], result)
    BY ConcludedType
<1> HIDE DEF result
<1>3. SameTodo(disk.todos[created[w].id],
               FinalTodo(request[w].input, created[w].id, Executions(report[w])))
    BY DEF FinalInv, HeldRow
<1>4. SameTodo(disk.todos[created[w].id],
               FinalTodo(request[w].input, created[w].id, Executions(Append(report[w], result))))
    BY <1>1, <1>2, <1>3, FailureFinal DEF result
<1> QED
    BY <1>2, <1>4 DEF HeldRow

(* A success changes both alike.                                           *)
LEMMA CommitHeld ==
    ASSUME Inv, Typed', RowInv, Queues, FinalInv, NEW w \in Workers, Commit(w)
    PROVE  HeldRow(w)'
<1>1. PICK h \in pending[w] :
          \/ disk' = conn /\ Conclude(w, h, "success", results[w], FALSE)
          \/ /\ UNCHANGED disk
             /\ Conclude(w, h, "command_error", RolledBack(results[w]), TRUE)
    BY DEF Commit
<1>2. /\ pc[w] = "commands" /\ pc[w] \in HoldingTodo /\ UNCHANGED <<created, request>>
      /\ Len(results[w]) = Len(commands[w])
    BY DEF Commit, HoldingTodo
<1>3. QueueInv(w)
    BY DEF Queues
<1>4. CASE UNCHANGED disk /\ Conclude(w, h, "command_error", RolledBack(results[w]), TRUE)
    <2>1. Consistent(HandlerResultOf(h, "command_error", RolledBack(results[w]), TRUE))
        BY <1>2, <1>3, ConclusionsConsistent
    <2> QED
        BY <1>2, <1>4, <2>1, FailureHeld
<1>5. CASE disk' = conn /\ Conclude(w, h, "success", results[w], FALSE)
    <2> DEFINE result == HandlerResultOf(h, "success", results[w], FALSE)
               id == created[w].id
    <2>1. result.commandResults = Applied(commands[w], Len(commands[w]))
        BY <1>2, <1>3 DEF QueueInv, HandlerResultOf
    <2>2. /\ report[w] \in Seq(HandlerResult) /\ result \in HandlerResult
          /\ report'[w] = Append(report[w], result)
        BY <1>5, ConcludedType
    <2> HIDE DEF result
    <2>3. commands[w] \in Seq(Commands) /\ disk \in Tables /\ id \in DOMAIN disk.todos
        BY <1>2 DEF Inv, Typed, TypeOK, RowInv, OwnRow
    <2>4. conn = [disk EXCEPT !.todos = EffectOf(@, commands[w], Len(commands[w]))]
        BY <1>2 DEF Inv, Isolation
    <2>5. disk'.todos = EffectOf(disk.todos, commands[w], Len(commands[w]))
        BY <1>5, <2>3, <2>4 DEF Tables
    <2>6. SameTodo(disk.todos[id], FinalTodo(request[w].input, id, Executions(report[w])))
        BY <1>2 DEF FinalInv, HeldRow
    <2>7. SameTodo(EffectOf(disk.todos, commands[w], Len(commands[w]))[id],
                   FinalTodo(request[w].input, id, Executions(Append(report[w], result))))
        BY <2>1, <2>2, <2>3, <2>6, CommitFinal
    <2> QED
        BY <1>2, <2>2, <2>5, <2>7 DEF HeldRow
<1> QED
    BY <1>1, <1>4, <1>5

LEMMA OwnHeld ==
    ASSUME Inv, Typed', RowInv, Queues, Orders, FinalInv, NEW w \in Workers,
           Receive(w) \/ Work(w)
    PROVE  HeldRow(w)'
<1>1. QueueInv(w) /\ pc \in [Workers -> Places]
    BY DEF Queues, Inv, Typed, TypeOK
<1>2. ASSUME pc[w] \in HoldingTodo, UNCHANGED <<disk, created, request, report>>
      PROVE  HeldRow(w)'
    BY <1>2 DEF FinalInv, HeldRow
<1>3. CASE RunScript(w)
    <2>1. pc[w] \in HoldingTodo /\ UNCHANGED <<disk, created, request>>
        BY <1>3 DEF RunScript, store, HoldingTodo
    <2>2. ASSUME NEW h \in pending[w], NEW ending \in h.script.endings \ {"ok"},
                 Conclude(w, h, ending, <<>>, FALSE)
          PROVE  HeldRow(w)'
        <3>1. h \in Handler
            BY DEF Inv, Typed, TypeOK
        <3>2. ending # "success"
            BY <3>1 DEF Handler, Scripts, Endings
        <3>3. Consistent(HandlerResultOf(h, ending, <<>>, FALSE))
            BY <1>1, ConclusionsConsistent
        <3> QED
            BY <2>1, <2>2, <3>2, <3>3, FailureHeld
    <2> QED
        BY <1>2, <1>3, <2>1, <2>2 DEF RunScript
<1>4. CASE BeginTransaction(w)
    <2>1. pc[w] \in HoldingTodo /\ UNCHANGED <<disk, created, request>>
        BY <1>4 DEF BeginTransaction, HoldingTodo
    <2>2. ASSUME NEW h \in pending[w], Conclude(w, h, "command_error", <<>>, TRUE)
          PROVE  HeldRow(w)'
        <3>1. Consistent(HandlerResultOf(h, "command_error", <<>>, TRUE))
            BY <1>1, ConclusionsConsistent
        <3> QED
            BY <2>1, <2>2, <3>1, FailureHeld
    <2> QED
        BY <1>2, <1>4, <2>1, <2>2 DEF BeginTransaction
<1>5. CASE Rollback(w)
    <2>1. pc[w] = "rollback" /\ pc[w] \in HoldingTodo /\ UNCHANGED <<disk, created, request>>
        BY <1>5 DEF Rollback, HoldingTodo
    <2>2. PICK h \in pending[w] : Conclude(w, h, "command_error", results[w], FALSE)
        BY <1>5 DEF Rollback
    <2>3. Consistent(HandlerResultOf(h, "command_error", results[w], FALSE))
        BY <1>1, <2>1, ConclusionsConsistent
    <2> QED
        BY <2>1, <2>2, <2>3, FailureHeld
<1>6. CASE RunCommand(w)
    <2>1. inTxn = TRUE
        BY <1>6, OneTransaction DEF RunCommand, Inv, InTransaction
    <2>2. pc[w] \in HoldingTodo /\ UNCHANGED <<disk, created, request, report>>
        BY <1>6, <2>1 DEF RunCommand, Write, HoldingTodo
    <2> QED
        BY <1>2, <2>2
<1>7. CASE FindHandlers(w)
    <2>1. pc[w] \in HoldingTodo /\ UNCHANGED <<disk, created, request, report>>
        BY <1>7 DEF FindHandlers, StatementFails, handling, locals, store, HoldingTodo
    <2> QED
        BY <1>2, <2>1
<1>8. CASE \/ Receive(w) \/ InsertTodo(w) \/ ReadBack(w) \/ TestScript(w) \/ InsertHandler(w)
           \/ ReadHandlerRowid(w) \/ ListHandlers(w) \/ CountTodos(w) \/ ReadPage(w) \/ Deliver(w)
    <2>1. pc'[w] \notin HoldingTodo
        <3> USE <1>1 DEF Goto, Answer, StatementFails, HoldingTodo
        <3>1. CASE Receive(w)
            BY <3>1 DEF Receive, ReceiveTodo, ReceiveHandler, ReceivePage, ReceiveList
        <3>2. CASE InsertTodo(w) \/ ReadBack(w) \/ TestScript(w) \/ InsertHandler(w)
            BY <3>2 DEF InsertTodo, ReadBack, TestScript, InsertHandler
        <3>3. CASE ReadHandlerRowid(w) \/ ListHandlers(w)
            BY <3>3 DEF ReadHandlerRowid, ListHandlers
        <3>4. CASE CountTodos(w) \/ ReadPage(w) \/ Deliver(w)
            BY <3>4 DEF CountTodos, ReadPage, Deliver
        <3> QED
            BY <1>8, <3>1, <3>2, <3>3, <3>4
    <2> QED
        BY <2>1 DEF HeldRow
<1>9. CASE ReadTodoRowid(w)
    BY <1>9, ReadTodoRowidHeld
<1>10. CASE Commit(w)
    BY <1>10, CommitHeld
<1> QED
    BY <1>3, <1>4, <1>5, <1>6, <1>7, <1>8, <1>9, <1>10 DEF Work

LEMMA OwnFresh ==
    ASSUME Inv, NEW w \in Workers, Receive(w) \/ Work(w)
    PROVE  FreshRow(w)'
<1> SUFFICES ASSUME ~InsertTodo(w)
             PROVE  pc'[w] # "read_todo_rowid"
    BY InsertTodoFresh DEF FreshRow
<1> USE DEF Goto, Answer, StatementFails, Conclude, Inv, Typed, TypeOK
<1>1. CASE Receive(w)
    BY <1>1 DEF Receive, ReceiveTodo, ReceiveHandler, ReceivePage, ReceiveList
<1>2. CASE ReadTodoRowid(w) \/ FindHandlers(w) \/ RunScript(w) \/ BeginTransaction(w)
    BY <1>2 DEF ReadTodoRowid, FindHandlers, RunScript, BeginTransaction
<1>3. CASE RunCommand(w) \/ Rollback(w) \/ Commit(w) \/ ReadBack(w)
    BY <1>3 DEF RunCommand, Rollback, Commit, ReadBack
<1>4. CASE TestScript(w) \/ InsertHandler(w) \/ ReadHandlerRowid(w) \/ ListHandlers(w)
    BY <1>4 DEF TestScript, InsertHandler, ReadHandlerRowid, ListHandlers
<1>5. CASE CountTodos(w) \/ ReadPage(w) \/ Deliver(w)
    BY <1>5 DEF CountTodos, ReadPage, Deliver
<1> QED
    BY <1>1, <1>2, <1>3, <1>4, <1>5 DEF Work

(* A todo with the data of the final state is the final state.             *)
LEMMA SameTodoEqual ==
    ASSUME NEW tables, NEW id, tables.todos[id] \in TodoRow, NEW sent \in TodoInput,
           NEW executions, SameTodo(tables.todos[id], FinalTodo(sent, id, executions))
    PROVE  TodoTaskOf(tables, id) = FinalTodo(sent, id, executions)
<1> DEFINE row == tables.todos[id]
           final == FinalTodo(sent, id, executions)
<1>1. final = [id |-> id, title |-> final.title, priority |-> final.priority,
               completed |-> final.completed] /\ final.completed \in BOOLEAN
    BY DEF FinalTodo, TodoInput
<1>2. row.completed \in BOOLEAN
    BY DEF TodoRow
<1>3. row.title = final.title /\ row.priority = final.priority
      /\ (row.completed <=> final.completed)
    BY DEF SameTodo
<1> HIDE DEF final, row
<1>4. row.completed = final.completed
    BY <1>1, <1>2, <1>3
<1>5. TodoTaskOf(tables, id) = [id |-> id, title |-> row.title, priority |-> row.priority,
                                completed |-> row.completed]
    BY DEF TodoTaskOf, row
<1> QED
    BY <1>1, <1>3, <1>4, <1>5 DEF final

LEMMA OwnAnswered ==
    ASSUME Inv, RowInv, FinalInv, NEW w \in Workers, Receive(w) \/ Work(w)
    PROVE  AnsweredTodo(w)'
<1> SUFFICES ASSUME reply'[w].kind = "todo_created"
             PROVE  reply'[w].todo = FinalTodo(request'[w].input, reply'[w].todo.id,
                                               Executions(reply'[w].handlers))
    BY DEF AnsweredTodo
<1> DEFINE id == created[w].id
<1>1. /\ pc[w] = "run_handlers" /\ request' = request /\ id \in DOMAIN disk.todos
      /\ reply'[w].todo = TodoTaskOf(disk, id) /\ reply'[w].handlers = report[w]
    <2>1. /\ pc[w] = "run_handlers" /\ UNCHANGED <<report, request>>
          /\ created[w] # NoTodo /\ created[w].id \in DOMAIN disk.todos
          /\ reply'[w] = [kind |-> "todo_created", todo |-> TodoTaskOf(disk, created[w].id),
                          handlers |-> report[w]]
        BY AnswerAppears, Zenon
    <2> QED
        BY <2>1
<1>2. TodoTaskOf(disk, id).id = id
    BY DEF TodoTaskOf
<1>3. disk.todos[id] \in TodoRow
    BY <1>1 DEF Inv, Typed, TypeOK, Tables
<1>4. request[w].input \in TodoInput
    BY <1>1, DataAssumption DEF Inv, Typed, LocalsFit, CreatingTodo
<1>5. SameTodo(disk.todos[id], FinalTodo(request[w].input, id, Executions(report[w])))
    BY <1>1 DEF FinalInv, HeldRow, HoldingTodo
<1> QED
    BY <1>1, <1>2, <1>3, <1>4, <1>5, SameTodoEqual

LEMMA NextFinal ==
    ASSUME Inv, Typed', RowInv, Queues, Orders, Received, Undisturbed, FinalInv, [Next]_vars
    PROVE  FinalInv'
<1>1. CASE UNCHANGED vars
    BY <1>1 DEF vars, store, handling, locals, FinalInv, FreshRow, HeldRow, AnsweredTodo
<1>2. CASE Crash
    BY <1>2 DEF Crash, FinalInv, FreshRow, HeldRow, AnsweredTodo, HoldingTodo, None
<1>3. ASSUME NEW w \in Workers, Receive(w) \/ Work(w)
      PROVE  FinalInv'
    <2>1. FreshRow(w)' /\ HeldRow(w)' /\ AnsweredTodo(w)'
        BY <1>3, OwnFresh, OwnHeld, OwnAnswered
    <2>2. \A v \in Workers \ {w} : FreshRow(v)' /\ HeldRow(v)' /\ AnsweredTodo(v)'
        BY <1>3, OthersFinal
    <2> QED
        BY <2>1, <2>2 DEF FinalInv
<1> QED
    BY <1>1, <1>2, <1>3 DEF Next

LEMMA InitFinal == Init => FinalInv /\ Received
BY DEF Init, FinalInv, FreshRow, HeldRow, AnsweredTodo, HoldingTodo, Received, None, NoRows

LEMMA Invariants == Spec => [](Inv /\ RowInv /\ Queues /\ Orders /\ Received)
<1>1. Inv /\ Received /\ [Next]_vars => Received'
    BY NextReceived
<1> QED
    BY <1>1, InitFinal, OrderInvariance, QueueInvariance, PTL DEF Spec

(* "Todo contains the final state after all successfully applied handlers" *)
(* (openapi.json): the todo a createTodo answers with is the one sent,     *)
(* changed by the commands the answer lists as applied and nothing else -  *)
(* with one worker for any scripts, and with any number of workers if the  *)
(* scripts touch only their own todo.                                      *)
THEOREM FinalStateAnswered ==
    ASSUME Undisturbed
    PROVE  Spec => []AnswerIsFinalState
<1>1. Inv /\ Typed' /\ RowInv /\ Queues /\ Orders /\ Received /\ FinalInv /\ [Next]_vars
         => FinalInv'
    BY NextFinal
<1>2. Inv => Typed
    BY DEF Inv
<1>3. FinalInv => AnswerIsFinalState
    <2> SUFFICES ASSUME FinalInv, NEW w \in Workers, reply[w].kind = "todo_created"
                 PROVE  reply[w].todo = FinalTodo(request[w].input, reply[w].todo.id,
                                                  Executions(reply[w].handlers))
        BY DEF AnswerIsFinalState, CreatedTodo, HandlersReport
    <2> QED
        BY DEF FinalInv, AnsweredTodo
<1> QED
    BY <1>1, <1>2, <1>3, InitFinal, Invariants, PTL DEF Spec
=============================================================================
