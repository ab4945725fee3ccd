-------------------------- MODULE RequestChecks_proofs --------------------------
(***************************************************************************)
(* Proofs about RequestChecks, for every width of int and std::int64_t,    *)
(* every limit of the texts and every number a client can write.           *)
(***************************************************************************)
EXTENDS RequestChecks, TLAPS

(* A non-negative number below the modulus is its own remainder.           *)
LEMMA SmallModulo ==
    ASSUME NEW m \in Nat \ {0}, NEW n \in 0..(m - 1)
    PROVE  n % m = n
OBVIOUS

(* The casts keep the numbers that the checks let through.                 *)
LEMMA CastsKeep ==
    ASSUME NEW n \in Int
    PROVE  /\ n \in 0..UIntMax => ToUInt(n) = n
           /\ n \in 0..IntMax => ToInt(n) = n
<1> DEFINE m == 2 * (IntMax + 1)
           k == n + IntMax + 1
<1>1. m \in Nat \ {0} /\ k \in Int /\ IntMax \in Nat /\ UIntMax + 1 = m
    BY IntMaxAssumption DEF UIntMax
<1>2. n \in 0..UIntMax => n \in 0..(m - 1)
    BY IntMaxAssumption DEF UIntMax
<1>3. n \in 0..IntMax => k \in 0..(m - 1)
    BY IntMaxAssumption
<1>4. k - (IntMax + 1) = n
    BY IntMaxAssumption
<1>5. ToUInt(n) = n % m
    BY <1>1 DEF ToUInt
<1>6. ToInt(n) = (k % m) - (IntMax + 1)
    BY DEF ToInt
<1> HIDE DEF m, k
<1> QED
    BY <1>1, <1>2, <1>3, <1>4, <1>5, <1>6, SmallModulo
-----------------------------------------------------------------------------
(* Multiplication by a positive number keeps the order.                    *)
LEMMA TimesPositive ==
    ASSUME NEW x \in Int, NEW y \in Int, NEW k \in Nat \ {0}, x <= y
    PROVE  k * x <= k * y
<1>1. y - x \in Nat /\ k \in Nat
    OBVIOUS
<1>2. k * (y - x) >= 0
    BY <1>1
<1> QED
    BY <1>2

(* The quotient is the one number whose multiples enclose the dividend.    *)
LEMMA Quotient ==
    ASSUME NEW n \in Int, NEW unit \in Nat \ {0}
    PROVE  /\ n \div unit \in Int
           /\ unit * (n \div unit) <= n
           /\ n + 1 <= unit * (n \div unit + 1)
OBVIOUS

LEMMA QuotientUnique ==
    ASSUME NEW n \in Int, NEW unit \in Nat \ {0}, NEW q \in Int,
           unit * q <= n, n + 1 <= unit * (q + 1)
    PROVE  n \div unit = q
<1> DEFINE p == n \div unit
<1>1. p \in Int /\ unit * p <= n /\ n + 1 <= unit * (p + 1)
    BY Quotient
<1> HIDE DEF p
<1>2. ASSUME p + 1 <= q PROVE FALSE
    <2>1. unit * (p + 1) <= unit * q
        BY <1>1, <1>2, TimesPositive
    <2>2. unit * (p + 1) \in Int /\ unit * q \in Int
        BY <1>1
    <2> QED
        BY <1>1, <2>1, <2>2
<1>3. ASSUME q + 1 <= p PROVE FALSE
    <2>1. unit * (q + 1) <= unit * p
        BY <1>1, <1>3, TimesPositive
    <2>2. unit * (q + 1) \in Int /\ unit * p \in Int
        BY <1>1
    <2> QED
        BY <1>1, <2>1, <2>2
<1>4. p = q
    BY <1>1, <1>2, <1>3
<1> QED
    BY <1>4 DEF p

LEMMA ExactQuotient ==
    ASSUME NEW n \in Int, NEW unit \in Nat \ {0}
    PROVE  (n * unit) \div unit = n
<1>1. n * unit \in Int /\ unit * n = n * unit /\ unit * (n + 1) = n * unit + unit
    OBVIOUS
<1> QED
    BY <1>1, QuotientUnique

(* A whole number of milliseconds that fits the clock is stored as it is.  *)
LEMMA StoredExactly ==
    ASSUME NEW ms \in Int
    PROVE  ToTimestamp(ms * NsPerMs) = ms
<1>1. NsPerMs \in Nat \ {0}
    BY DatesAssumption
<1>2. CASE ms * NsPerMs >= 0
    BY <1>1, <1>2, ExactQuotient DEF ToTimestamp, Truncated
<1>3. CASE ~(ms * NsPerMs >= 0)
    <2>1. -ms \in Int /\ -(ms * NsPerMs) = (-ms) * NsPerMs
        BY <1>1
    <2>2. (-(ms * NsPerMs)) \div NsPerMs = -ms
        BY <1>1, <2>1, ExactQuotient
    <2> QED
        BY <1>1, <1>3, <2>2 DEF ToTimestamp, Truncated
<1> QED
    BY <1>2, <1>3

LEMMA TimestampInteger ==
    ASSUME NEW time \in Int
    PROVE  ToTimestamp(time) \in Int
BY DatesAssumption DEF ToTimestamp, Truncated

(* and shown as the second it is in.                                       *)
LEMMA ShownSecond ==
    ASSUME NEW ms \in Int
    PROVE  TimePointToIso8601(FromTimestamp(ms)) = ms \div MsPerSecond
<1> DEFINE q == ms \div MsPerSecond
           unit == NsPerMs * MsPerSecond
<1>1. NsPerMs \in Nat \ {0} /\ MsPerSecond \in Nat \ {0}
    BY DatesAssumption
<1>2. q \in Int /\ MsPerSecond * q <= ms /\ ms + 1 <= MsPerSecond * (q + 1)
    BY <1>1, Quotient
<1>3. unit \in Nat \ {0} /\ ms * NsPerMs \in Int
    BY <1>1
<1> DEFINE low == MsPerSecond * q
           high == MsPerSecond * (q + 1)
<1>4. low \in Int /\ high \in Int
    BY <1>1, <1>2
<1>5. NsPerMs * low <= NsPerMs * ms /\ NsPerMs * (ms + 1) <= NsPerMs * high
    BY <1>1, <1>2, <1>4, TimesPositive
<1>6. NsPerMs * low = unit * q /\ NsPerMs * high = unit * (q + 1)
    <2> HIDE DEF q
    <2> QED
        BY <1>1, <1>2
<1>7. NsPerMs * ms = ms * NsPerMs /\ NsPerMs * (ms + 1) = ms * NsPerMs + NsPerMs
    BY <1>1
<1>8. unit * q <= ms * NsPerMs /\ ms * NsPerMs + 1 <= unit * (q + 1)
    <2>1. unit * q \in Int /\ unit * (q + 1) \in Int
        BY <1>2, <1>3
    <2> HIDE DEF unit, q, low, high
    <2> QED
        BY <1>1, <1>3, <1>5, <1>6, <1>7, <2>1
<1>9. (ms * NsPerMs) \div unit = q
    <2> HIDE DEF unit, q
    <2> QED
        BY <1>2, <1>3, <1>8, QuotientUnique
<1> QED
    BY <1>9 DEF TimePointToIso8601, FromTimestamp
-----------------------------------------------------------------------------
(* What a request that has reached a check has passed so far.              *)
Passed ==
    /\ \/ request \in Queries /\ stage \in {"query", "done"}
       \/ request \in Bodies /\ stage # "query"
    /\ stage \in {"size", "json", "fields", "validate"} => request.mediaType \in {"json", "longer"}
    /\ stage \in {"json", "fields", "validate"} => ~request.tooLarge
    /\ stage \in {"fields", "validate"} => request.body # "broken"
    /\ stage = "validate" => parsed \in FieldsOf(request)

Pending == stage # "done" => reply = 0 /\ accepted = <<>> /\ completedAt = {}

Inv ==
    /\ TypeOK /\ Passed /\ Pending
    /\ AcceptedAsSent /\ OnlyNamedDivergences /\ DateComesBack

LEMMA InitInv == Init => Inv
<1> SUFFICES ASSUME Init PROVE Inv
    OBVIOUS
<1>1. 0 \in LongMin..LongMax /\ <<>> \in Seq(-(IntMax + 1)..UIntMax)
    BY IntMaxAssumption, ChecksAssumption DEF LongMin
<1> QED
    BY <1>1 DEF Init, Inv, TypeOK, Passed, Pending, AcceptedAsSent, OnlyNamedDivergences,
              DateComesBack

(* The constants as the lemmas below need them.                            *)
LEMMA Widths ==
    /\ IntMax \in Nat /\ IntMax >= 2 /\ UIntMax = 2 * IntMax + 1
    /\ LongMax \in Nat /\ LongMax >= UIntMax
    /\ \A n \in Numbers : n \in Int
<1>1. UIntMax = 2 * IntMax + 1
    BY DEF UIntMax
<1>2. \A n \in Numbers : n \in Int
    BY ChecksAssumption
<1> QED
    BY <1>1, <1>2, IntMaxAssumption, ChecksAssumption

(* What JsonInteger returns is the number itself, or less than nothing.    *)
LEMMA JsonIntegerExact ==
    ASSUME NEW number \in JsonNumbers, NEW n \in JsonInteger(number)
    PROVE  /\ number.form = "digits"
           /\ n \in LongMin..LongMax
           /\ n = number.n \/ (n < 0 /\ number.n < 0)
<1>1. number.n \in Int /\ number.form = "digits" /\ LongMax \in Nat /\ LongMax >= 5
    BY Widths DEF JsonNumbers, JsonInteger
<1>2. CASE number.n < 0
    <2>1. n = Signed(number.n)
        BY <1>1, <1>2 DEF JsonInteger
    <2> QED
        BY <1>1, <1>2, <2>1 DEF Signed, LongMin
<1>3. CASE ~(number.n < 0)
    <2>1. n = Unsigned(number.n) /\ n <= LongMax
        BY <1>1, <1>3 DEF JsonInteger
    <2> QED
        BY <1>1, <1>3, <2>1 DEF Unsigned, ULongMax, LongMin
<1> QED
    BY <1>2, <1>3

(* A number that is allowed is read.                                       *)
LEMMA AllowedIsRead ==
    ASSUME NEW number \in JsonNumbers, number.form = "digits", number.n \in 0..UIntMax
    PROVE  JsonInteger(number) = {number.n}
BY IntMaxAssumption, ChecksAssumption
   DEF JsonInteger, JsonNumbers, Unsigned, ULongMax, UIntMax

(* What a body must be for all checks, in one place.                       *)
BodyPasses(req) ==
    /\ req.mediaType \in {"json", "longer"} /\ ~req.tooLarge
    /\ req.body = "object" /\ req.fields \in {"complete", "more"}
    /\ req.number.form = "digits"
    /\ req.number.n \in IF req.kind = "todo" THEN 0..UIntMax ELSE Known
    /\ req.title > 0 /\ req.title <= TitleMax /\ req.text <= TextMax
    /\ IF req.kind = "todo" THEN IsValidIso8601(req.date) ELSE req.text > 0

(* It is the documentation with the named divergences.                     *)
LEMMA ExpectedPasses ==
    ASSUME NEW req \in Bodies
    PROVE  BodyExpected(req) <=> BodyPasses(req)
<1> DEFINE taken == TakenFor(req)
<1>1. /\ req.kind \in {"todo", "handler"} /\ req.number \in JsonNumbers
      /\ req.mediaType \in {"json", "longer", "other"} /\ req.tooLarge \in BOOLEAN
      /\ req.fields \in {"complete", "more", "missing", "wrong_type"}
      /\ req.title \in Lengths(TitleMax) /\ req.text \in Lengths(TextMax)
      /\ req.date \in DateTexts(Moments)
    BY DEF Bodies
<1>2. req.date.form \in {"utc", "loose", "rfc3339", "other"}
    BY <1>1 DEF DateTexts
<1>3. req.title \in Nat /\ req.text \in Nat /\ req.number.n \in Int
    <2>1. TitleMax \in Nat /\ TextMax \in Nat
        BY ChecksAssumption
    <2>2. req.title \in Nat /\ req.text \in Nat
        BY <1>1, <2>1 DEF Lengths
    <2>3. req.number.n \in Numbers
        BY <1>1 DEF JsonNumbers
    <2> QED
        BY <2>2, <2>3, Widths
<1>4. /\ taken.kind = req.kind /\ taken.tooLarge = req.tooLarge /\ taken.body = req.body
      /\ taken.number = req.number
    BY DEF TakenFor, Bodies
<1>5. taken.mediaType = "json" <=> req.mediaType \in {"json", "longer"}
    BY <1>1 DEF TakenFor, Bodies
<1>6. taken.fields = "complete" <=> req.fields \in {"complete", "more"}
    BY <1>1 DEF TakenFor, Bodies
<1>7. taken.date.form = IF req.date.form = "loose" THEN "utc" ELSE req.date.form
    <2>1. taken.date = [req.date EXCEPT !.form = IF @ = "loose" THEN "utc" ELSE @]
        BY DEF TakenFor, Bodies
    <2> QED
        BY <1>1, <2>1 DEF DateTexts
<1> HIDE DEF taken
<1>8. BodyDocumented(taken) <=>
          /\ req.mediaType \in {"json", "longer"} /\ ~req.tooLarge
          /\ req.body = "object" /\ req.fields \in {"complete", "more"}
          /\ req.number.form \in {"digits", "whole"}
          /\ req.number.n \in IF req.kind = "todo" THEN 0..UIntMax ELSE 0..IntMax
          /\ req.kind = "todo" => req.date.form \in {"utc", "loose", "rfc3339"}
    BY <1>2, <1>4, <1>5, <1>6, <1>7 DEF BodyDocumented
<1>9. BodyExpected(req) <=> BodyDocumented(taken) /\ ~HasUnstatedFault(req)
    BY DEF BodyExpected, taken
<1>10. req.number.form \in {"digits", "whole", "fraction"}
    BY <1>1 DEF JsonNumbers
<1>11. IntMax \in Nat /\ IntMax >= 2 /\ TitleMax \in Nat /\ TextMax \in Nat
    BY Widths, ChecksAssumption
<1>12. CASE req.kind = "todo"
    BY <1>2, <1>3, <1>8, <1>9, <1>11, <1>10, <1>12
       DEF HasUnstatedFault, BodyPasses, IsValidIso8601
<1>13. CASE req.kind = "handler"
    <2>1. req.number.n \in Known <=> req.number.n \in 0..IntMax /\ ~(req.number.n > 2)
        BY <1>3, <1>11 DEF Known
    <2> QED
        BY <1>3, <1>8, <1>9, <1>11, <1>10, <1>13, <2>1 DEF HasUnstatedFault, BodyPasses
<1> QED
    BY <1>1, <1>12, <1>13

(* A check that refuses keeps the invariant if its request is not allowed. *)
LEMMA RefuseInv ==
    ASSUME Inv, stage # "done", UNCHANGED request,
           NEW status \in {400, 413, 415, 422, 500}, Refuse(status),
           IF request.kind = "page" THEN ~QueryDocumented(request) ELSE ~BodyPasses(request)
    PROVE  Inv'
<1>1. TypeOK'
    BY DEF Inv, TypeOK, Refuse, Finish
<1>2. Passed'
    BY DEF Inv, Passed, Refuse, Finish
<1>3. Pending' /\ AcceptedAsSent' /\ DateComesBack'
    BY DEF Inv, Pending, AcceptedAsSent, DateComesBack, Refuse, Finish
<1>4. OnlyNamedDivergences'
    <2>1. request.kind # "page" => ~BodyExpected(request)
        BY ExpectedPasses DEF Inv, Passed, Queries
    <2>2. request' = request /\ reply' = status
        BY DEF Refuse, Finish
    <2> QED
        BY <2>1, <2>2 DEF OnlyNamedDivergences
<1> QED
    BY <1>1, <1>2, <1>3, <1>4 DEF Inv

(* A check that lets the request go on.                                    *)
LEMMA ContinueInv ==
    ASSUME Inv, stage # "done", UNCHANGED request,
           NEW check \in {"size", "json", "fields"}, Continue(check), Passed'
    PROVE  Inv'
BY DEF Inv, TypeOK, Pending, AcceptedAsSent, OnlyNamedDivergences, DateComesBack, Continue

LEMMA EarlyInv == Inv /\ (CheckMediaType \/ CheckSize \/ LoadJson) => Inv'
<1> SUFFICES ASSUME Inv, CheckMediaType \/ CheckSize \/ LoadJson PROVE Inv'
    OBVIOUS
<1>1. stage # "done" /\ UNCHANGED request /\ request \in Bodies /\ request.kind # "page"
    BY DEF CheckMediaType, CheckSize, LoadJson, Inv, Passed, Bodies, Queries
<1>2. CASE CheckMediaType
    <2>1. CASE request.mediaType \in {"json", "longer"}
        <3>1. Continue("size") /\ Passed'
            BY <1>1, <1>2, <2>1 DEF CheckMediaType, Continue, Inv, Passed
        <3> QED
            BY <1>1, <3>1, ContinueInv
    <2>2. CASE request.mediaType \notin {"json", "longer"}
        <3>1. Refuse(415) /\ ~BodyPasses(request)
            BY <1>2, <2>2 DEF CheckMediaType, BodyPasses
        <3> QED
            BY <1>1, <3>1, RefuseInv
    <2> QED
        BY <2>1, <2>2
<1>3. CASE CheckSize
    <2>1. CASE ~request.tooLarge
        <3>1. Continue("json") /\ Passed'
            BY <1>1, <1>3, <2>1 DEF CheckSize, Continue, Inv, Passed
        <3> QED
            BY <1>1, <3>1, ContinueInv
    <2>2. CASE request.tooLarge
        <3>1. Refuse(413) /\ ~BodyPasses(request)
            BY <1>3, <2>2 DEF CheckSize, BodyPasses
        <3> QED
            BY <1>1, <3>1, RefuseInv
    <2> QED
        BY <2>1, <2>2
<1>4. CASE LoadJson
    <2>1. CASE request.body # "broken"
        <3>1. Continue("fields") /\ Passed'
            BY <1>1, <1>4, <2>1 DEF LoadJson, Continue, Inv, Passed
        <3> QED
            BY <1>1, <3>1, ContinueInv
    <2>2. CASE request.body = "broken"
        <3>1. Refuse(400) /\ ~BodyPasses(request)
            BY <1>4, <2>2 DEF LoadJson, BodyPasses
        <3> QED
            BY <1>1, <3>1, RefuseInv
    <2> QED
        BY <2>1, <2>2
<1> QED
    BY <1>2, <1>3, <1>4

LEMMA ParseFieldsInv == Inv /\ ParseFields => Inv'
<1> SUFFICES ASSUME Inv, ParseFields PROVE Inv'
    OBVIOUS
<1>1. /\ stage = "fields" /\ UNCHANGED request /\ request \in Bodies
      /\ request.kind # "page" /\ request.number \in JsonNumbers
    BY DEF ParseFields, Inv, Passed, Bodies, Queries
<1>2. CASE request.body = "scalar"
    <2>1. Refuse(500) /\ ~BodyPasses(request)
        BY <1>2 DEF ParseFields, BodyPasses
    <2> QED
        BY <1>1, <2>1, RefuseInv
<1>3. CASE request.body # "scalar" /\ FieldsOf(request) = {}
    <2>1. Refuse(422)
        BY <1>3 DEF ParseFields
    <2>2. ASSUME BodyPasses(request) PROVE FALSE
        <3>1. request.number.n \in 0..UIntMax /\ request.number.form = "digits"
            BY <2>2, IntMaxAssumption, ChecksAssumption
               DEF BodyPasses, Known, UIntMax
        <3>2. JsonInteger(request.number) = {request.number.n}
            BY <1>1, <3>1, AllowedIsRead
        <3> QED
            BY <1>3, <2>2, <3>2 DEF FieldsOf, BodyPasses
    <2> QED
        BY <1>1, <2>1, <2>2, RefuseInv
<1>4. CASE request.body # "scalar" /\ FieldsOf(request) # {}
    <2>1. /\ parsed' \in FieldsOf(request) /\ stage' = "validate"
          /\ UNCHANGED <<accepted, completedAt, reply>>
        BY <1>4 DEF ParseFields
    <2>2. parsed' \in LongMin..LongMax
        BY <1>1, <2>1, JsonIntegerExact DEF FieldsOf
    <2>3. Passed'
        BY <1>1, <2>1 DEF Inv, Passed, FieldsOf
    <2> QED
        BY <1>1, <2>1, <2>2, <2>3
           DEF Inv, TypeOK, Pending, AcceptedAsSent, OnlyNamedDivergences, DateComesBack
<1> QED
    BY <1>2, <1>3, <1>4

LEMMA ValidateInv == Inv /\ Validate => Inv'
<1> SUFFICES ASSUME Inv, Validate PROVE Inv'
    OBVIOUS
<1>1. /\ stage = "validate" /\ UNCHANGED request /\ request \in Bodies
      /\ request.kind \in {"todo", "handler"} /\ request.number \in JsonNumbers
      /\ request.body = "object" /\ request.fields \in {"complete", "more"}
      /\ request.mediaType \in {"json", "longer"} /\ ~request.tooLarge
      /\ parsed \in JsonInteger(request.number)
    BY DEF Validate, Inv, Passed, FieldsOf, Bodies, Queries
<1>2. /\ request.number.form = "digits" /\ parsed \in Int /\ request.number.n \in Int
      /\ parsed = request.number.n \/ (parsed < 0 /\ request.number.n < 0)
    BY <1>1, JsonIntegerExact, Widths DEF JsonNumbers, LongMin
<1>3. /\ request.title \in Nat /\ request.text \in Nat /\ request.date.ms \in Int
      /\ IntMax \in Nat /\ IntMax >= 2
    <2>1. /\ request.title \in Lengths(TitleMax) /\ request.text \in Lengths(TextMax)
          /\ request.date \in DateTexts(Moments)
        BY <1>1 DEF Bodies
    <2>2. request.date.ms \in Moments \cup {0}
        BY <2>1 DEF DateTexts
    <2>3. request.date.ms \in Int
        <3>1. \A ms \in Moments : ms \in Int
            BY ChecksAssumption
        <3> QED
            BY <2>2, <3>1
    <2>4. TitleMax \in Nat /\ TextMax \in Nat /\ IntMax \in Nat /\ IntMax >= 2
        BY IntMaxAssumption, ChecksAssumption
    <2> QED
        BY <2>1, <2>3, <2>4 DEF Lengths
(* The domain lets a request through exactly when it is allowed.           *)
<1>4. request.kind = "todo" => (ValidTodoBody(request, parsed) <=> BodyPasses(request))
    BY <1>1, <1>2, <1>3, ChecksAssumption
       DEF ValidTodoBody, BodyPasses, ValidTitle, PriorityFits, UIntMax
<1>5. ASSUME NEW n \in Int PROVE EventFits(n) <=> n \in Known
    BY <1>3, <1>5, CastsKeep DEF EventFits, Known
<1>6. request.kind = "handler" => (ValidHandlerBody(request, parsed) <=> BodyPasses(request))
    BY <1>1, <1>2, <1>3, <1>5, ChecksAssumption
       DEF ValidHandlerBody, BodyPasses, ValidTitle, Known
<1>7. ASSUME BodyPasses(request), accepted' = <<request.number.n>>,
             request.number.n \in 0..UIntMax, Finish(201), UNCHANGED parsed,
             completedAt' \subseteq Int, DateComesBack'
      PROVE  Inv'
    <2>1. accepted' \in Seq(-(IntMax + 1)..UIntMax)
        BY <1>3, <1>7
    <2>2. TypeOK'
        BY <1>1, <1>7, <2>1 DEF Inv, TypeOK, Finish
    <2>3. Passed' /\ Pending'
        BY <1>1, <1>7 DEF Inv, Passed, Pending, Finish
    <2>4. AcceptedAsSent' /\ OnlyNamedDivergences'
        BY <1>1, <1>7, ExpectedPasses
           DEF AcceptedAsSent, OnlyNamedDivergences, Finish
    <2> QED
        BY <1>7, <2>2, <2>3, <2>4 DEF Inv
<1>8. CASE request.kind = "todo" /\ ValidTodoBody(request, parsed) /\ Finish(201)
           /\ accepted' = <<ToUInt(parsed)>> /\ UNCHANGED parsed
           /\ \E time \in Iso8601ToTimePoint(request.date.ms) :
                 completedAt' = {ToTimestamp(time)}
    <2>1. parsed \in 0..UIntMax /\ parsed = request.number.n
        BY <1>2, <1>3, <1>8 DEF ValidTodoBody, PriorityFits, UIntMax
    <2>2. ToUInt(parsed) = parsed
        BY <1>2, <2>1, CastsKeep
    <2>3. PICK time \in Iso8601ToTimePoint(request.date.ms) : completedAt' = {ToTimestamp(time)}
        BY <1>8
    <2>4. completedAt' \subseteq Int
        <3>1. time \in Int
            BY <1>3, <2>3, DatesAssumption DEF Iso8601ToTimePoint, TimePoints
        <3> QED
            BY <2>3, <3>1, TimestampInteger
    <2>5. DateComesBack'
        <3> SUFFICES ASSUME FitsClock(request.date.ms)
                     PROVE  ShownSeconds' = {SentSecond}
            BY <1>1 DEF DateComesBack, SentSecond
        <3>1. completedAt' = {request.date.ms}
            BY <1>3, <2>3, StoredExactly DEF Iso8601ToTimePoint
        <3> QED
            BY <1>3, <3>1, ShownSecond DEF ShownSeconds, SentSecond
    <2> QED
        BY <1>4, <1>7, <1>8, <2>1, <2>2, <2>4, <2>5
<1>9. CASE request.kind = "handler" /\ ValidHandlerBody(request, parsed) /\ Finish(201)
           /\ accepted' = <<ToInt(parsed)>> /\ UNCHANGED <<parsed, completedAt>>
    <2>1. parsed \in 0..IntMax /\ parsed = request.number.n
        BY <1>2, <1>3, <1>9 DEF ValidHandlerBody, EventFits
    <2>2. ToInt(parsed) = parsed /\ parsed \in 0..UIntMax
        BY <1>2, <1>3, <2>1, CastsKeep DEF UIntMax
    <2> QED
        BY <1>1, <1>6, <1>7, <1>9, <2>1, <2>2 DEF Inv, Pending, DateComesBack
<1>10. CASE /\ request.kind = "todo" => ~ValidTodoBody(request, parsed)
            /\ request.kind = "handler" => ~ValidHandlerBody(request, parsed)
            /\ Refuse(422)
    <2>1. ~BodyPasses(request)
        BY <1>1, <1>4, <1>6, <1>10
    <2> QED
        BY <1>1, <1>10, <2>1, RefuseInv
<1> QED
    BY <1>8, <1>9, <1>10 DEF Validate

(* A parameter is read exactly when it is allowed, and as it was written.  *)
LEMMA ParseInt32Exact ==
    ASSUME NEW parameter \in Parameters
    PROVE  /\ ParseInt32(parameter) # {} <=>
                  parameter.form = "number" /\ parameter.n \in 0..IntMax
           /\ \A n \in ParseInt32(parameter) : n = parameter.n /\ n \in 0..IntMax
<1>1. parameter.n \in Int /\ IntMax \in Nat /\ LongMax \in Nat /\ IntMax <= LongMax
    BY Widths DEF Parameters
<1> QED
    BY <1>1 DEF ParseInt32, LongMin

LEMMA CheckQueryInv == Inv /\ CheckQuery => Inv'
<1> SUFFICES ASSUME Inv, CheckQuery PROVE Inv'
    OBVIOUS
<1> DEFINE offset == ParseInt32(request.offset)
           limit == ParseInt32(request.limit)
<1>1. /\ stage = "query" /\ UNCHANGED request /\ request \in Queries
      /\ request.kind = "page"
      /\ request.offset \in Parameters /\ request.limit \in Parameters
    BY DEF CheckQuery, Inv, Passed, Queries
<1>2. QueryDocumented(request) <=> offset # {} /\ limit # {}
    BY <1>1, ParseInt32Exact DEF QueryDocumented
<1>3. CASE offset = {} \/ limit = {}
    <2>1. Refuse(400)
        BY <1>3 DEF CheckQuery
    <2> QED
        BY <1>1, <1>2, <1>3, <2>1, RefuseInv
<1>4. CASE offset # {} /\ limit # {}
    <2>1. PICK o \in offset, l \in limit :
              accepted' = <<o, l>> /\ Finish(200) /\ UNCHANGED <<parsed, completedAt>>
        BY <1>4 DEF CheckQuery
    <2>2. /\ o = request.offset.n /\ o \in 0..IntMax
          /\ l = request.limit.n /\ l \in 0..IntMax
        BY <1>1, <2>1, ParseInt32Exact
    <2>3. o \in -(IntMax + 1)..UIntMax /\ l \in -(IntMax + 1)..UIntMax
        BY <2>2, IntMaxAssumption DEF UIntMax
    <2>4. TypeOK'
        BY <1>1, <2>1, <2>3 DEF Inv, TypeOK, Finish
    <2>5. Passed' /\ Pending'
        BY <1>1, <2>1 DEF Inv, Passed, Pending, Finish
    <2>6. AcceptedAsSent' /\ DateComesBack'
        BY <1>1, <2>1, <2>2 DEF AcceptedAsSent, DateComesBack, Inv, Pending
    <2>7. OnlyNamedDivergences'
        BY <1>1, <1>2, <1>4, <2>1 DEF OnlyNamedDivergences, QueryDocumented, Finish
    <2> QED
        BY <2>4, <2>5, <2>6, <2>7 DEF Inv
<1> QED
    BY <1>3, <1>4

LEMMA InvInductive == Inv /\ [Next]_vars => Inv'
<1>1. Inv /\ UNCHANGED vars => Inv'
    <2> SUFFICES ASSUME Inv, UNCHANGED vars PROVE Inv'
        OBVIOUS
    <2>1. /\ request' = request /\ stage' = stage /\ parsed' = parsed
          /\ accepted' = accepted /\ completedAt' = completedAt /\ reply' = reply
        BY DEF vars
    <2>2. TypeOK' /\ Passed' /\ Pending'
        BY <2>1 DEF Inv, TypeOK, Passed, Pending
    <2>3. AcceptedAsSent' /\ OnlyNamedDivergences'
        BY <2>1 DEF Inv, AcceptedAsSent, OnlyNamedDivergences
    <2>4. DateComesBack'
        BY <2>1 DEF Inv, DateComesBack, ShownSeconds, SentSecond
    <2> QED
        BY <2>2, <2>3, <2>4 DEF Inv
<1> QED
    BY <1>1, EarlyInv, ParseFieldsInv, ValidateInv, CheckQueryInv DEF Next

LEMMA Invariant == Spec => []Inv
BY InitInv, InvInductive, PTL DEF Spec

(* Every reachable state is well typed: no number outside the widths of    *)
(* the types it passes through (the checks of the routes and the domain).  *)
THEOREM TypeCorrect == Spec => []TypeOK
<1>1. Inv => TypeOK
    BY DEF Inv
<1> QED
    BY <1>1, Invariant, PTL

(* For every width, the integers that reach the repositories are those the *)
(* client wrote (todo_routes.cpp, script_routes.cpp, domain/todo.cpp,      *)
(* domain/script.cpp).                                                     *)
THEOREM NumbersAcceptedAsSent == Spec => []AcceptedAsSent
<1>1. Inv => AcceptedAsSent
    BY DEF Inv
<1> QED
    BY <1>1, Invariant, PTL

(* For every width and limit, the checks accept what openapi.json says,    *)
(* apart from the divergences TakenFor and HasUnstatedFault name.          *)
THEOREM AcceptsUpToNamed == Spec => []OnlyNamedDivergences
<1>1. Inv => OnlyNamedDivergences
    BY DEF Inv
<1> QED
    BY <1>1, Invariant, PTL

(* For every scale of the three units and every width of the clock, a date *)
(* the clock can hold comes back as the second it is in                    *)
(* (iso8601_helper.cpp, timestamp_helpers.cpp).                            *)
THEOREM DatesComeBack == Spec => []DateComesBack
<1>1. Inv => DateComesBack
    BY DEF Inv
<1> QED
    BY <1>1, Invariant, PTL
=============================================================================
