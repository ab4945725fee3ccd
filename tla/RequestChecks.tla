----------------------------- MODULE RequestChecks -----------------------------
(***************************************************************************)
(* What stands between a request and a use case: the checks of the routes  *)
(* POST /api/todos, POST /api/scripts/handlers and GET /api/page, in their *)
(* order, and the validation of the domain (TodoDefinition::create,        *)
(* HandlerScriptDefinition::create), with every integer at its width, and  *)
(* what the column completed_at gets.  A step is one check.                *)
(***************************************************************************)
EXTENDS HandlerCommands, Dates

CONSTANTS
    LongMax,            \* largest value of a std::int64_t, scaled down
    Numbers,            \* the integers clients write
    Moments,            \* the dates clients write, in milliseconds
    TitleMax,           \* TodoTitleMaxBytes, HandlerNameMaxBytes
    TextMax             \* TodoDescriptionMaxBytes, HandlerSourceMaxBytes

ASSUME ChecksAssumption ==
    /\ LongMax \in Nat /\ LongMax >= UIntMax
    /\ IntMax >= 2          \* an int holds every TodoEvent
    /\ Numbers \subseteq Int /\ Moments \subseteq Int
    /\ TitleMax \in Nat \ {0} /\ TextMax \in Nat \ {0}

LongMin == -(LongMax + 1)
ULongMax == 2 * LongMax + 1

(* A JSON number is written with digits alone, is an integer written with  *)
(* a point or an exponent (3.0), or has a fraction, n being rounded down.  *)
JsonNumbers == [n : Numbers, form : {"digits", "whole", "fraction"}]
Lengths(max) == {0, 1, max, max + 1}

(* title is the title of a todo or the name of a handler, text the         *)
(* description or the source; number is the priority or the event.  fields *)
(* says whether all required ones are there, with their types, and whether *)
(* there are more.  A media type may be application/json, or only begin    *)
(* like it.                                                                *)
Bodies == [kind : {"todo", "handler"}, mediaType : {"json", "longer", "other"},
           tooLarge : BOOLEAN, body : {"broken", "scalar", "list", "object"},
           fields : {"complete", "more", "missing", "wrong_type"}, number : JsonNumbers,
           title : Lengths(TitleMax), text : Lengths(TextMax), date : DateTexts(Moments)]

(* A query parameter: absent, a decimal number (with or without a minus    *)
(* sign), or a text that is not entirely one.                              *)
Parameters == [form : {"absent", "number", "other"}, n : Numbers]
Queries == [kind : {"page"}, offset : Parameters, limit : Parameters]

VARIABLES
    request,      \* the request
    stage,        \* the next check, "done" after the last
    parsed,       \* the std::int64_t read from the JSON number
    accepted,     \* what reaches the repository: the narrowed integers
    completedAt,  \* what the column of that name gets, as a set of at most one
    reply         \* the HTTP status, 0 until there is one

vars == <<request, stage, parsed, accepted, completedAt, reply>>

Init ==
    /\ \/ request \in Bodies /\ stage = "media_type"
       \/ request \in Queries /\ stage = "query"
    /\ parsed = 0
    /\ accepted = <<>>
    /\ completedAt = {}
    /\ reply = 0

Continue(check) == stage' = check /\ UNCHANGED <<parsed, accepted, completedAt, reply>>
Finish(status) == stage' = "done" /\ reply' = status
Refuse(status) == Finish(status) /\ UNCHANGED <<parsed, accepted, completedAt>>

CheckMediaType ==
    /\ stage = "media_type"
    /\ IF request.mediaType \in {"json", "longer"} THEN Continue("size") ELSE Refuse(415)
    /\ UNCHANGED request

CheckSize ==
    /\ stage = "size"
    /\ IF request.tooLarge THEN Refuse(413) ELSE Continue("json")
    /\ UNCHANGED request

LoadJson ==
    /\ stage = "json"
    /\ IF request.body = "broken" THEN Refuse(400) ELSE Continue("fields")
    /\ UNCHANGED request
-----------------------------------------------------------------------------
(* jsonInteger: the set of what it returns, empty for nullopt.  A number   *)
(* beyond the width of the type is read as the nearest value of the type.  *)
Signed(n) == IF n < LongMin THEN LongMin ELSE n
Unsigned(n) == IF n > ULongMax THEN ULongMax ELSE n

JsonInteger(number) ==
    IF number.form # "digits" THEN {}
    ELSE IF number.n < 0 THEN {Signed(number.n)}
    ELSE {u \in {Unsigned(number.n)} : u <= LongMax}

FieldsOf(req) ==
    IF req.body = "object" /\ req.fields \in {"complete", "more"}
    THEN JsonInteger(req.number) ELSE {}

(* parseTodoInput, parseHandlerInput: `has` throws on a JSON value that is *)
(* neither an object nor a list, and Crow answers 500.                     *)
ParseFields ==
    /\ stage = "fields"
    /\ IF request.body = "scalar" THEN Refuse(500)
       ELSE IF FieldsOf(request) = {} THEN Refuse(422)
       ELSE /\ parsed' \in FieldsOf(request)
            /\ stage' = "validate"
            /\ UNCHANGED <<accepted, completedAt, reply>>
    /\ UNCHANGED request

ValidTitle(req) == req.title > 0 /\ req.title <= TitleMax

(* TodoDefinition::create, and the priority it stores as a std::uint32_t.  *)
NotNegative(priority) == priority >= 0                      \* mutant
PriorityFits(priority) == priority >= 0 /\ priority <= UIntMax

ValidTodoBody(req, priority) ==
    /\ ValidTitle(req) /\ req.text <= TextMax /\ PriorityFits(priority)
    /\ IsValidIso8601(req.date)

ToUInt(n) == n % (UIntMax + 1)

(* HandlerScriptDefinition::create: the event becomes an int, which must   *)
(* be one of the three of TodoEvent.                                       *)
Known == 0..2
CastOnly(event) == ToInt(event) \in Known                   \* mutant
EventFits(event) == event >= 0 /\ event <= IntMax /\ ToInt(event) \in Known

ValidHandlerBody(req, event) ==
    ValidTitle(req) /\ req.text > 0 /\ req.text <= TextMax /\ EventFits(event)

Validate ==
    /\ stage = "validate"
    /\ \/ /\ request.kind = "todo" /\ ValidTodoBody(request, parsed)
          /\ accepted' = <<ToUInt(parsed)>>
          /\ \E time \in Iso8601ToTimePoint(request.date.ms) :
                completedAt' = {ToTimestamp(time)}
          /\ Finish(201) /\ UNCHANGED parsed
       \/ /\ request.kind = "handler" /\ ValidHandlerBody(request, parsed)
          /\ accepted' = <<ToInt(parsed)>>
          /\ Finish(201) /\ UNCHANGED <<parsed, completedAt>>
       \/ /\ request.kind = "todo" => ~ValidTodoBody(request, parsed)
          /\ request.kind = "handler" => ~ValidHandlerBody(request, parsed)
          /\ Refuse(422)
    /\ UNCHANGED request
-----------------------------------------------------------------------------
(* parseInt32: std::from_chars reads a whole std::int64_t or fails.        *)
ParseInt32(parameter) ==
    {n \in {parameter.n} : /\ parameter.form = "number"
                           /\ n >= LongMin /\ n <= LongMax
                           /\ n >= 0 /\ n <= IntMax}

CheckQuery ==
    /\ stage = "query"
    /\ LET offset == ParseInt32(request.offset)
           limit == ParseInt32(request.limit)
       IN  IF offset = {} \/ limit = {} THEN Refuse(400)
           ELSE /\ \E o \in offset, l \in limit : accepted' = <<o, l>>
                /\ Finish(200) /\ UNCHANGED <<parsed, completedAt>>
    /\ UNCHANGED request

Next == CheckMediaType \/ CheckSize \/ LoadJson \/ ParseFields \/ Validate \/ CheckQuery

Spec == Init /\ [][Next]_vars
-----------------------------------------------------------------------------
TypeOK ==
    /\ request \in Bodies \cup Queries
    /\ stage \in {"media_type", "size", "json", "fields", "validate", "query", "done"}
    /\ parsed \in LongMin..LongMax
    /\ accepted \in Seq(-(IntMax + 1)..UIntMax)
    /\ completedAt \subseteq Int
    /\ reply \in {0, 200, 201, 400, 413, 415, 422, 500}

(* What reaches the repository is the number the client wrote: no width on *)
(* the way (64 bits signed and unsigned, 32 bits unsigned, int) wraps,     *)
(* cuts or saturates a number that is accepted.                            *)
AcceptedAsSent ==
    accepted # <<>> =>
        accepted = IF request.kind = "page" THEN <<request.offset.n, request.limit.n>>
                   ELSE <<request.number.n>>

(* What openapi.json says (TodoCreate, HandlerCreate, Offset, Limit): an   *)
(* application/json object within the configured size, with the required   *)
(* properties and no other, priority from 0 to 4294967295, a date-time, and*)
(* an event, offset or limit that is a non-negative int32.                 *)
BodyDocumented(req) ==
    /\ req.mediaType = "json" /\ ~req.tooLarge
    /\ req.body = "object" /\ req.fields = "complete"
    /\ req.number.form \in {"digits", "whole"}
    /\ req.number.n \in IF req.kind = "todo" THEN 0..UIntMax ELSE 0..IntMax
    /\ req.kind = "todo" => req.date.form \in {"utc", "rfc3339"}

QueryDocumented(req) ==
    \A parameter \in {req.offset, req.limit} :
        parameter.form = "number" /\ parameter.n \in 0..IntMax

(* Where the program is laxer: a media type that begins like the right one,*)
(* properties of other names and dates without leading zeros pass for what *)
(* they resemble.                                                          *)
TakenFor(req) ==
    [req EXCEPT !.mediaType = IF @ = "longer" THEN "json" ELSE @,
                !.fields = IF @ = "more" THEN "complete" ELSE @,
                !.date.form = IF @ = "loose" THEN "utc" ELSE @]

(* Where it is stricter: texts have the bounds of limits.hpp, title, name  *)
(* and source are not empty, there are three events, an integer has digits *)
(* alone, and a date is in UTC, with at most three decimals.               *)
HasUnstatedFault(req) ==
    \/ req.title = 0 \/ req.title > TitleMax \/ req.text > TextMax
    \/ req.number.form = "whole"
    \/ req.kind = "handler" /\ (req.text = 0 \/ req.number.n > 2)
    \/ req.kind = "todo" /\ req.date.form = "rfc3339"

BodyExpected(req) == BodyDocumented(TakenFor(req)) /\ ~HasUnstatedFault(req)

(* What is accepted differs from what openapi.json says in the ways        *)
(* named above and in no other: whatever the order of the checks and the   *)
(* width of the integers they work on, no other request slips through, and *)
(* no other is refused.                                                    *)
OnlyNamedDivergences ==
    stage = "done" =>
        (reply \in {200, 201} <=>
            IF request.kind = "page" THEN QueryDocumented(request) ELSE BodyExpected(request))

(* The dates the answer shows for the stored one (todoToJson).             *)
ShownSeconds == {TimePointToIso8601(FromTimestamp(ms)) : ms \in completedAt}
SentSecond == request.date.ms \div MsPerSecond

(* A date the clock can hold comes back as the second the client wrote,    *)
(* also before 1970 and with decimals, through four units and roundings.   *)
DateComesBack ==
    completedAt # {} /\ FitsClock(request.date.ms) => ShownSeconds = {SentSecond}

(* The same for every accepted date, as "UTC ISO 8601" (openapi.json,      *)
(* completedAt) says without a bound.  False: years before 1677 and after  *)
(* 2262 pass the validation, which counts milliseconds, and overflow the   *)
(* clock, which counts nanoseconds (iso8601_helper.cpp).                   *)
EveryDateComesBack == completedAt # {} => ShownSeconds = {SentSecond}

(* "The JSON is syntactically correct but the fields did not pass the      *)
(* check" is a 422 (openapi.json, ValidationError): no request answered    *)
(* with another error has a correct JSON body of allowed type and size.    *)
(* False: a body that is one JSON number, string or literal gets a 500.    *)
CorrectJsonIsChecked ==
    /\ stage = "done" /\ request.kind # "page" /\ request.body # "broken"
    /\ request.mediaType = "json" /\ ~request.tooLarge
    => reply \in {201, 422}
=============================================================================
