--------------------------- MODULE RequestPipeline ---------------------------
(***************************************************************************)
(* What every HTTP request goes through: guard, HttpHeaderInterceptor,     *)
(* LoggerInterceptor, the handler, the logger again, and the envelope or   *)
(* the exception filter.  Requests are interleaved where the code waits:   *)
(* for the guard, and for the handler.                                     *)
(***************************************************************************)
EXTENDS ResponseEnvelope

CONSTANTS
  Requests,  \* the requests clients make
  Traced,    \* those that have a trace-id header
  Dash       \* the trace id of the others: '-'

ASSUME TracedAssumption == Traced \subseteq Requests

VARIABLES
  request,   \* each request
  answer,    \* what was sent to its client
  lines,     \* the log lines written for it
  traceId,   \* the trace id of the one CustomLogger of the interceptor
  later,     \* history: which requests began while this one was handled
  database,  \* whether PostgreSQL can be reached
  redis      \* the client of the cache, if there is one

pipelineVars == <<request, answer, lines, traceId, later, database, redis>>

Routes == {"payment", "admin", "health", "missing"}
\* A body that has a password at its top level, or deeper, or a cid that is
\* not a string, which the pattern of the logger cannot cut.
Bodies == {"plain", "password", "nested password", "bad cid"}
RedisStates == {"reading", "down", "none"}

Request == [pc : {"new", "guard", "enter", "handling", "answered", "lost"},
            route : Routes, key : BOOLEAN, asked : Languages,
            \* the header, which the interceptor replaces
            language : Languages \cup ACCEPT_LANGUAGE_LIST,
            body : Bodies, redis : RedisStates,
            outcome : {"none", "value"} \cup Exceptions]

\* Mutated: the patterns are not applied.
Unmasked(body) == body

\* mapObjectWithConfig replaces the values of the top level only.
Masked(body) == IF body = "password" THEN "****" ELSE body

TraceIdOf(r) == IF r \in Traced THEN r ELSE Dash

Line == [trace : Requests \cup {Dash}, body : {"****", "plain", "nested password"},
         outcome : {"value"} \cup Exceptions]

PipelineTypeOK ==
  /\ request \in [Requests -> Request]
  /\ answer \in [Requests -> Answers \cup {NoAnswer}]
  /\ lines \in [Requests -> SUBSET Line]
  /\ traceId \in Requests \cup {Dash}
  /\ later \in [Requests -> SUBSET Requests]
  /\ database \in BOOLEAN
  /\ redis \in RedisStates

Init ==
  /\ request = [r \in Requests |->
       [pc |-> "new", route |-> "health", key |-> TRUE, asked |-> NoHeader,
        language |-> NoHeader, body |-> "plain", redis |-> "none", outcome |-> "none"]]
  /\ answer = [r \in Requests |-> NoAnswer]
  /\ lines = [r \in Requests |-> {}]
  /\ traceId = Dash
  /\ later = [r \in Requests |-> {}]
  /\ database \in BOOLEAN
  /\ redis \in RedisStates

Live(r) == request[r].pc \in {"guard", "enter", "handling"}

\* The filter gets an exception, of a request that is now q.  A NOT_FOUND is
\* sent without a lookup.  When the lookup fails nobody is left to catch it:
\* the process ends with all requests it serves, and the next has a new logger.
Throw(r, q, exception) ==
  IF exception # "notFound" /\ LookupFails(q.language)
  THEN /\ request' = [p \in Requests |->
            IF Live(p) THEN [request[p] EXCEPT !.pc = "lost"] ELSE request[p]]
       /\ traceId' = Dash
       /\ UNCHANGED answer
  ELSE /\ request' = [request EXCEPT ![r] = [q EXCEPT !.pc = "answered"]]
       /\ answer' = [answer EXCEPT ![r] = Catch(exception, q.language)]
       /\ UNCHANGED traceId

\* A request is routed.  For a route that is missing the router throws a
\* NOT_FOUND; only POSTs have a body, and only admin asks for a key.
Arrive(r) ==
  /\ request[r].pc = "new"
  /\ \E route \in Routes, key \in BOOLEAN, l \in Languages, b \in Bodies :
       LET q == [request[r] EXCEPT !.pc = "guard", !.route = route, !.key = key,
                                   !.asked = l, !.language = l, !.body = b]
       IN
       /\ route # "admin" => key
       /\ route # "payment" => b = "plain"
       /\ IF route = "missing" THEN Throw(r, q, "notFound")
          ELSE request' = [request EXCEPT ![r] = q] /\ UNCHANGED <<answer, traceId>>
  /\ UNCHANGED <<lines, later, database, redis>>

\* XApiKeyStrategy lets a request with the key through.
Guard(r) ==
  /\ request[r].pc = "guard"
  /\ request[r].key
  /\ request' = [request EXCEPT ![r].pc = "enter"]
  /\ UNCHANGED <<answer, lines, traceId, later, database, redis>>

\* Mutated: done() is called for the right key only.
NeverDone(r) == FALSE

\* It refuses one without.  No interceptor has seen the request: the filter
\* looks the language up as it was sent.
Refuse(r) ==
  /\ request[r].pc = "guard"
  /\ ~request[r].key
  /\ Throw(r, request[r], "http")
  /\ UNCHANGED <<lines, later, database, redis>>

\* Mutated: every request is answered in the default language.
AlwaysDefault(language) == DEFAULT_ACCEPT_LANGUAGE

\* Mutated: an unknown language stays in the header.
LeftUnknown(language) ==
  IF language = NoHeader THEN DEFAULT_ACCEPT_LANGUAGE
  ELSE IF LookupFails(language) THEN language ELSE ToUpperCase(language)

\* The header that HttpHeaderInterceptor leaves.
Normalised(language) ==
  IF language = NoHeader \/ LookupFails(language)
  THEN DEFAULT_ACCEPT_LANGUAGE ELSE ToUpperCase(language)

\* A language that is not in the list: the interceptor replaces the header and
\* throws, before the logger.
RefuseLanguage(r) ==
  /\ request[r].pc = "enter"
  /\ LookupFails(request[r].language)
  /\ Throw(r, [request[r] EXCEPT !.language = Normalised(@)], "language")
  /\ UNCHANGED <<lines, later, database, redis>>

\* Mutated: a request without trace id leaves the logger's as it is.
SetIfTraced(r) == traceId' = IF r \in Traced THEN r ELSE traceId

\* The fields of CustomLogger that the interceptor sets; user, application and
\* address go with the trace id.
SetTraceId(r) == traceId' = TraceIdOf(r)

\* Both interceptors, and the handler up to where it waits.  The logger is one
\* for all requests.  The health check asks the Redis client at once.
Enter(r) ==
  /\ request[r].pc = "enter"
  /\ ~LookupFails(request[r].language)
  /\ request' = [request EXCEPT
       ![r].pc = "handling", ![r].language = Normalised(@), ![r].redis = redis]
  /\ SetTraceId(r)
  /\ later' = [q \in Requests |->
       IF request[q].pc = "handling" THEN later[q] \cup {r} ELSE later[q]]
  /\ UNCHANGED <<answer, lines, database, redis>>

\* The database indicator connects, or throws what TypeORM throws.
DatabaseIndicator == database

\* The Redis indicator throws a HealthCheckError when the store has no client.
\* That the client does not read is reported in a check that succeeds.
RedisIndicator(r) == request[r].redis # "none"

HealthCheck(r) ==
  IF ~DatabaseIndicator THEN "other" ELSE IF RedisIndicator(r) THEN "value" ELSE "http"

\* How the handlers of a route can end.
Outcomes(r) ==
  CASE request[r].route = "payment" -> {"value"} \cup (Exceptions \ {"language"})
    [] request[r].route = "admin" -> {"value", "other"}
    [] OTHER -> {HealthCheck(r)}

\* logger.request throws when the body has something it cannot mask.
Loggable(r) == request[r].body # "bad cid"

\* Mutated: every handled request is logged.
LogsAll(r, outcome) == TRUE

\* A health check that succeeds is not logged.
Logs(r, outcome) == ~(outcome = "value" /\ request[r].route = "health")

\* Mutated: catchError returns nothing instead of throwing again.
Swallowed(r, outcome) == "value"

\* What is left of the outcome after tap and catchError: an error of the logger
\* replaces it.
AfterLog(r, outcome) ==
  IF Logs(r, outcome) /\ ~Loggable(r) THEN "other" ELSE outcome

\* The handler returns or throws.  What follows runs to the end without waiting.
Finish(r) ==
  /\ request[r].pc = "handling"
  /\ \E outcome \in Outcomes(r) :
       LET q == [request[r] EXCEPT !.outcome = outcome]
           line == [trace |-> traceId, body |-> Masked(q.body), outcome |-> outcome]
           left == AfterLog(r, outcome)
       IN
       /\ lines' = [lines EXCEPT ![r] =
            IF Logs(r, outcome) /\ Loggable(r) THEN @ \cup {line} ELSE @]
       /\ IF left = "value"
          THEN /\ request' = [request EXCEPT ![r] = [q EXCEPT !.pc = "answered"]]
               /\ answer' = [answer EXCEPT ![r] = Wrap(q.language)]
               /\ UNCHANGED traceId
          ELSE Throw(r, q, left)
  /\ UNCHANGED <<later, database, redis>>

\* The services behind the health check come and go.
DatabaseTurns ==
  /\ database' = ~database
  /\ UNCHANGED <<request, answer, lines, traceId, later, redis>>

RedisTurns ==
  /\ redis # "none"
  /\ redis' = IF redis = "down" THEN "reading" ELSE "down"
  /\ UNCHANGED <<request, answer, lines, traceId, later, database>>

Proceed(r) ==
  Guard(r) \/ Refuse(r) \/ RefuseLanguage(r) \/ Enter(r) \/ Finish(r)

Next ==
  \/ \E r \in Requests : Arrive(r) \/ Proceed(r)
  \/ DatabaseTurns \/ RedisTurns

Spec == Init /\ [][Next]_pipelineVars

\* The event loop runs what is ready, and what handlers wait for answers.
FairSpec == Spec /\ \A r \in Requests : WF_pipelineVars(Proceed(r))

----------------------------------------------------------------------------
Answered(r) == request[r].pc = "answered"

\* The code says how the handler ended: success if and only if it returned,
\* a business error for a language or a body that is refused.  What cannot be
\* logged is reported as a technical error, even when it was done.
AnswerTellsOutcome ==
  \A r \in Requests : Answered(r) =>
    /\ answer[r].code = CODE_SUCCESS
         <=> request[r].outcome = "value" /\ Loggable(r)
    /\ answer[r].code = CODE_BUSINESS_ERROR
         <=> \/ request[r].outcome = "validation" /\ Loggable(r)
             \/ /\ request[r].outcome = "none" /\ request[r].key
                /\ request[r].route # "missing"

\* The text is in the language asked for, if it is known, however late the
\* request fails.
AnswersInLanguage ==
  \A r \in Requests : Answered(r) /\ answer[r].code # NoCode =>
    answer[r].lang = LET language == ToUpperCase(request[r].asked) IN
      IF language \in ACCEPT_LANGUAGE_LIST THEN language ELSE DEFAULT_ACCEPT_LANGUAGE

\* The filter never fails for a request that the interceptor has seen: when
\* requests are lost, it is for one that the guard refused.
OnlyRefusalsAreFatal ==
  (\E r \in Requests : request[r].pc = "lost") =>
    \E r \in Requests : /\ request[r].pc = "lost" /\ ~request[r].key
                        /\ LookupFails(request[r].asked)

\* A handled request is in the log once, with how it ended and without its
\* password, unless it cannot be logged or is a health check that succeeded;
\* tap and catchError never both write.
LoggedOnce ==
  \A r \in Requests :
    LET o == request[r].outcome IN
    IF o = "none" \/ ~Loggable(r) \/ (o = "value" /\ request[r].route = "health")
    THEN lines[r] = {}
    ELSE /\ \E l \in lines[r] : lines[r] = {l} /\ l.outcome = o /\ l.body # "password"

\* A line has the trace id of its request or of one that began while it was
\* handled: never one left behind by an earlier request.
TraceIsNotOlder ==
  \A r \in Requests : \A l \in lines[r] :
    \E q \in {r} \cup later[r] : l.trace = TraceIdOf(q)

\* Every request is answered, unless the process ends.
EveryRequestEnds ==
  \A r \in Requests : request[r].pc = "guard" ~> request[r].pc \in {"answered", "lost"}

\* The decorator of the interceptor: "Injectable({ scope: Scope.REQUEST })",
\* and "Set trace id" for the request that follows.
OwnTrace == \A r \in Requests : \A l \in lines[r] : l.trace = TraceIdOf(r)

\* The probe of the task definition: "wget ... /health || exit 1" succeeds on
\* HTTP status 200, and is to fail when the health check does.
ProbeSeesFailure ==
  \A r \in Requests :
    Answered(r) /\ request[r].route = "health" /\ ~LookupFails(request[r].asked)
      /\ answer[r].http = 200 => request[r].outcome = "value"
=============================================================================
