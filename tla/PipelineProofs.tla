--------------------------- MODULE PipelineProofs ---------------------------
(***************************************************************************)
(* What every request gets and leaves behind, for any number of requests.  *)
(***************************************************************************)
EXTENDS RequestPipeline, TLAPS

\* What a request is before it is answered, step by step.
Progress(r) ==
  /\ request[r].pc # "answered" => request[r].outcome = "none" /\ lines[r] = {}
  /\ request[r].pc \in {"guard", "enter"} => request[r].language = request[r].asked
  /\ request[r].pc = "handling" =>
       /\ ~LookupFails(request[r].asked)
       /\ request[r].language = Normalised(request[r].asked)
  /\ request[r].pc \in {"enter", "handling"} => request[r].key
  /\ Live(r) => request[r].route # "missing"
  /\ request[r].route # "payment" => request[r].body = "plain"

\* While a request is handled the logger has its trace id or a later one.
TraceOfOverlap(r) ==
  request[r].pc = "handling" =>
    \E q \in {r} \cup later[r] : traceId = TraceIdOf(q)

\* The parts of AnswerTellsOutcome, AnswersInLanguage, LoggedOnce and
\* TraceIsNotOlder that are about one request.
TellsOutcome(r) ==
  Answered(r) =>
    /\ answer[r].code = CODE_SUCCESS
         <=> request[r].outcome = "value" /\ Loggable(r)
    /\ answer[r].code = CODE_BUSINESS_ERROR
         <=> \/ request[r].outcome = "validation" /\ Loggable(r)
             \/ /\ request[r].outcome = "none" /\ request[r].key
                /\ request[r].route # "missing"

Expected(asked) ==
  IF ToUpperCase(asked) \in ACCEPT_LANGUAGE_LIST
  THEN ToUpperCase(asked) ELSE DEFAULT_ACCEPT_LANGUAGE

InLanguage(r) ==
  Answered(r) /\ answer[r].code # NoCode => answer[r].lang = Expected(request[r].asked)

Logged(r) ==
  IF \/ request[r].outcome = "none" \/ ~Loggable(r)
     \/ (request[r].outcome = "value" /\ request[r].route = "health")
  THEN lines[r] = {}
  ELSE \E l \in lines[r] :
         lines[r] = {l} /\ l.outcome = request[r].outcome /\ l.body # "password"

Traces(r) ==
  \A l \in lines[r] : \E q \in {r} \cup later[r] : l.trace = TraceIdOf(q)

RequestInv(r) == /\ Progress(r) /\ TraceOfOverlap(r) /\ TellsOutcome(r)
                 /\ InLanguage(r) /\ Logged(r) /\ Traces(r)

PipelineInv == /\ PipelineTypeOK
               /\ \A r \in Requests : RequestInv(r)
               /\ OnlyRefusalsAreFatal

\* What ToUpperCase and the lookup make of a language that the list knows.
LEMMA KnownLanguage ==
  ASSUME NEW l \in Languages, ~LookupFails(l)
  PROVE  /\ l # NoHeader => ToUpperCase(l) \in ACCEPT_LANGUAGE_LIST
         /\ GetLookup(0, l).lang = Expected(l)
         /\ Normalised(l) = Expected(l)
  BY NoHeaderAssumption
     DEF LookupFails, Languages, ToUpperCase, GetLookup, Expected, Normalised,
         ACCEPT_LANGUAGE_LIST, DEFAULT_ACCEPT_LANGUAGE

\* What the interceptor leaves in the header is found, and looked up as itself.
LEMMA NormalisedIsKnown ==
  ASSUME NEW l \in Languages
  PROVE  /\ Normalised(l) \in ACCEPT_LANGUAGE_LIST
         /\ Normalised(l) = Expected(l)
         /\ ~LookupFails(Normalised(l))
         /\ GetLookup(0, Normalised(l)).lang = Expected(l)
  BY NoHeaderAssumption
     DEF LookupFails, Languages, ToUpperCase, GetLookup, Expected, Normalised,
         ACCEPT_LANGUAGE_LIST, DEFAULT_ACCEPT_LANGUAGE

\* The answers of filter and interceptor in terms of those lookups.
LEMMA AnswerShape ==
  ASSUME NEW l \in Languages \cup ACCEPT_LANGUAGE_LIST, ~LookupFails(l),
         NEW x \in Exceptions
  PROVE  /\ Wrap(l) \in Answers /\ Catch(x, l) \in Answers
         /\ Wrap(l).code = CODE_SUCCESS /\ Wrap(l).lang = GetLookup(0, l).lang
         /\ x # "notFound" => /\ Catch(x, l).code = StatusOf(x)
                              /\ Catch(x, l).lang = GetLookup(0, l).lang
  BY NoHeaderAssumption
     DEF LookupFails, Languages, ToUpperCase, GetLookup, Wrap, Catch, StatusOf, Answers,
         ACCEPT_LANGUAGE_LIST, DEFAULT_ACCEPT_LANGUAGE, Exceptions, NoCode,
         CODE_SUCCESS, CODE_BUSINESS_ERROR, CODE_TECHNICAL_ERROR

LEMMA NotFoundShape ==
  ASSUME NEW l
  PROVE  Catch("notFound", l) \in Answers /\ Catch("notFound", l).code = NoCode
  BY DEF Catch, Answers

\* Distinct codes.
LEMMA Codes ==
  /\ CODE_SUCCESS # CODE_BUSINESS_ERROR /\ CODE_SUCCESS # CODE_TECHNICAL_ERROR
  /\ CODE_BUSINESS_ERROR # CODE_TECHNICAL_ERROR
  /\ NoCode \notin {CODE_SUCCESS, CODE_BUSINESS_ERROR, CODE_TECHNICAL_ERROR}
  BY DEF CODE_SUCCESS, CODE_BUSINESS_ERROR, CODE_TECHNICAL_ERROR, NoCode

LEMMA PipelineInit == Init => PipelineInv
  <1> SUFFICES ASSUME Init PROVE PipelineInv
    OBVIOUS
  <1>1. PipelineTypeOK
    BY DEF Init, PipelineTypeOK, Request, Routes, Bodies, Languages, RedisStates
  <1>2. ASSUME NEW r \in Requests PROVE RequestInv(r)
    BY DEF Init, RequestInv, Progress, TraceOfOverlap, TellsOutcome, InLanguage, Logged,
           Traces, Live, Answered, Loggable
  <1>3. OnlyRefusalsAreFatal
    BY DEF Init, OnlyRefusalsAreFatal
  <1> QED BY <1>1, <1>2, <1>3 DEF PipelineInv

\* A request that a step does not touch keeps its part of the invariant, if it
\* is not being handled or the logger keeps its trace id.
LEMMA Untouched ==
  ASSUME NEW r \in Requests, RequestInv(r),
         request'[r] = request[r], answer'[r] = answer[r], lines'[r] = lines[r],
         later'[r] = later[r],
         request[r].pc = "handling" => traceId' = traceId
  PROVE  RequestInv(r)'
  BY DEF RequestInv, Progress, TraceOfOverlap, TellsOutcome, InLanguage, Logged,
         Traces, Live, Answered, Loggable

\* One request lost with the process keeps its part too.
LEMMA Lost ==
  ASSUME NEW r \in Requests, RequestInv(r), Live(r),
         request[r] \in Request,
         request'[r] = [request[r] EXCEPT !.pc = "lost"], answer'[r] = answer[r],
         lines'[r] = lines[r], later'[r] = later[r]
  PROVE  RequestInv(r)'
  BY DEF RequestInv, Progress, TraceOfOverlap, TellsOutcome, InLanguage, Logged,
         Traces, Live, Answered, Loggable, Request

\* A step that moves one request keeps the invariant if that request keeps it.
LEMMA OneMoves ==
  ASSUME PipelineInv, NEW r \in Requests, NEW p \in Request,
         request[r].pc # "lost", p.pc # "lost",
         request' = [request EXCEPT ![r] = p],
         NEW a \in Answers \cup {NoAnswer}, answer' = [answer EXCEPT ![r] = a],
         NEW L \in SUBSET Line, lines' = [lines EXCEPT ![r] = L],
         UNCHANGED <<traceId, later, database, redis>>,
         RequestInv(r)'
  PROVE  PipelineInv'
  <1>1. PipelineTypeOK'
    BY DEF PipelineInv, PipelineTypeOK
  <1>2. ASSUME NEW s \in Requests, s # r PROVE RequestInv(s)'
    <2>1. /\ request'[s] = request[s] /\ answer'[s] = answer[s]
          /\ lines'[s] = lines[s] /\ later'[s] = later[s]
      BY <1>2 DEF PipelineInv, PipelineTypeOK
    <2> QED BY <2>1, Untouched DEF PipelineInv
  <1>3. OnlyRefusalsAreFatal'
    <2>1. /\ request'[r].pc # "lost"
          /\ \A s \in Requests \ {r} : request'[s] = request[s]
      BY DEF PipelineInv, PipelineTypeOK
    <2> QED BY <2>1 DEF PipelineInv, OnlyRefusalsAreFatal
  <1> QED BY <1>1, <1>2, <1>3 DEF PipelineInv

\* The filter finds the language: one request is answered.
LEMMA ThrowAnswers ==
  ASSUME NEW r \in Requests, NEW q, NEW x, Throw(r, q, x),
         x = "notFound" \/ ~LookupFails(q.language)
  PROVE  /\ request' = [request EXCEPT ![r] = [q EXCEPT !.pc = "answered"]]
         /\ answer' = [answer EXCEPT ![r] = Catch(x, q.language)]
         /\ traceId' = traceId
  BY DEF Throw

LEMMA ArriveKeeps ==
  ASSUME PipelineInv, NEW r \in Requests, Arrive(r)
  PROVE  PipelineInv'
  <1>1. PICK route \in Routes, key \in BOOLEAN, l \in Languages, b \in Bodies :
          LET q == [request[r] EXCEPT !.pc = "guard", !.route = route, !.key = key,
                                      !.asked = l, !.language = l, !.body = b]
          IN
          /\ route # "admin" => key
          /\ route # "payment" => b = "plain"
          /\ IF route = "missing" THEN Throw(r, q, "notFound")
             ELSE request' = [request EXCEPT ![r] = q] /\ UNCHANGED <<answer, traceId>>
    BY DEF Arrive
  <1> DEFINE q == [request[r] EXCEPT !.pc = "guard", !.route = route, !.key = key,
                                     !.asked = l, !.language = l, !.body = b]
             p == [q EXCEPT !.pc = "answered"]
  <1>2. /\ request[r].pc = "new" /\ request[r] \in Request
        /\ request[r].outcome = "none" /\ lines[r] = {} /\ lines[r] \in SUBSET Line
        /\ answer[r] \in Answers \cup {NoAnswer}
        /\ UNCHANGED <<lines, later, database, redis>>
    BY DEF Arrive, PipelineInv, RequestInv, Progress, PipelineTypeOK
  <1>3. lines' = [lines EXCEPT ![r] = lines[r]]
    BY <1>2 DEF PipelineInv, PipelineTypeOK
  <1>4. /\ q \in Request /\ p \in Request
        /\ q.pc = "guard" /\ p.pc = "answered"
        /\ q.route = route /\ p.route = route /\ q.key = key /\ p.key = key
        /\ q.language = l /\ q.asked = l /\ q.body = b /\ p.body = b
        /\ q.outcome = "none" /\ p.outcome = "none"
    BY <1>2 DEF Request
  <1>5. CASE route = "missing"
    <2>1. /\ request' = [request EXCEPT ![r] = p]
          /\ answer' = [answer EXCEPT ![r] = Catch("notFound", q.language)]
          /\ traceId' = traceId
      BY <1>1, <1>5, ThrowAnswers
    <2>2. request'[r] = p /\ answer'[r] = Catch("notFound", q.language) /\ lines'[r] = {}
      BY <2>1, <1>2 DEF PipelineInv, PipelineTypeOK
    <2>3. answer'[r].code = NoCode /\ Catch("notFound", q.language) \in Answers
      BY <2>2, NotFoundShape
    <2> HIDE DEF p, q
    <2>4. RequestInv(r)'
      BY <1>1, <1>4, <1>5, <2>2, <2>3, Codes
         DEF RequestInv, Progress, TraceOfOverlap, TellsOutcome, InLanguage, Logged,
             Traces, Live, Answered, Loggable
    <2> QED BY <1>2, <1>3, <1>4, <2>1, <2>3, <2>4, OneMoves
  <1>6. CASE route # "missing"
    <2>1. request' = [request EXCEPT ![r] = q] /\ UNCHANGED <<answer, traceId>>
      BY <1>1, <1>6
    <2>2. request'[r] = q /\ lines'[r] = {} /\ answer' = [answer EXCEPT ![r] = answer[r]]
      BY <2>1, <1>2 DEF PipelineInv, PipelineTypeOK
    <2> HIDE DEF q
    <2>3. RequestInv(r)'
      BY <1>1, <1>4, <1>6, <2>2
         DEF RequestInv, Progress, TraceOfOverlap, TellsOutcome, InLanguage, Logged,
             Traces, Live, Answered, Loggable
    <2> QED BY <1>2, <1>3, <1>4, <2>1, <2>2, <2>3, OneMoves
  <1> QED BY <1>5, <1>6

LEMMA GuardKeeps ==
  ASSUME PipelineInv, NEW r \in Requests, Guard(r)
  PROVE  PipelineInv'
  <1> DEFINE p == [request[r] EXCEPT !.pc = "enter"]
  <1>1. /\ request[r] \in Request /\ request[r].pc = "guard" /\ request[r].key
        /\ lines[r] \in SUBSET Line /\ answer[r] \in Answers \cup {NoAnswer}
    BY DEF Guard, PipelineInv, PipelineTypeOK
  <1>2. /\ p \in Request /\ p.pc = "enter" /\ p.key /\ p.route = request[r].route
        /\ p.asked = request[r].asked /\ p.language = request[r].language
        /\ p.outcome = request[r].outcome /\ p.body = request[r].body
    BY <1>1 DEF Request
  <1>3. /\ request' = [request EXCEPT ![r] = p]
        /\ answer' = [answer EXCEPT ![r] = answer[r]]
        /\ lines' = [lines EXCEPT ![r] = lines[r]]
        /\ UNCHANGED <<traceId, later, database, redis>>
        /\ request'[r] = p /\ lines'[r] = lines[r]
    BY <1>1 DEF Guard, PipelineInv, PipelineTypeOK
  <1>4. /\ p.language = p.asked /\ p.outcome = "none" /\ lines'[r] = {}
        /\ p.route # "missing" /\ (p.route # "payment" => p.body = "plain")
    BY <1>1, <1>2, <1>3 DEF PipelineInv, RequestInv, Progress, Live
  <1> HIDE DEF p
  <1>5. RequestInv(r)'
    BY <1>2, <1>3, <1>4
       DEF RequestInv, Progress, TraceOfOverlap, TellsOutcome, InLanguage,
           Logged, Traces, Live, Answered, Loggable
  <1> QED BY <1>1, <1>2, <1>3, <1>5, OneMoves

\* The filter answers a request that was in no handler: r, whose header is now l.
LEMMA EarlyAnswer ==
  ASSUME PipelineInv, NEW r \in Requests, request[r].pc \in {"guard", "enter"},
         NEW l \in Languages \cup ACCEPT_LANGUAGE_LIST, ~LookupFails(l),
         GetLookup(0, l).lang = Expected(request[r].asked),
         NEW x \in {"language", "http"}, x = "language" <=> request[r].key,
         NEW p \in Request, p = [request[r] EXCEPT !.pc = "answered", !.language = l],
         request' = [request EXCEPT ![r] = p],
         answer' = [answer EXCEPT ![r] = Catch(x, l)],
         UNCHANGED <<lines, traceId, later, database, redis>>
  PROVE  PipelineInv'
  <1>1. /\ request[r] \in Request /\ lines[r] \in SUBSET Line
        /\ request'[r] = p /\ answer'[r] = Catch(x, l)
        /\ lines' = [lines EXCEPT ![r] = lines[r]] /\ lines'[r] = {}
        /\ request[r].outcome = "none" /\ request[r].route # "missing"
    BY DEF PipelineInv, PipelineTypeOK, RequestInv, Progress, Live
  <1>2. /\ p.pc = "answered" /\ p.key = request[r].key /\ p.route = request[r].route
        /\ p.asked = request[r].asked /\ p.outcome = request[r].outcome
        /\ p.body = request[r].body
    BY <1>1 DEF Request
  <1>3. /\ Catch(x, l) \in Answers
        /\ Catch(x, l).code = StatusOf(x) /\ Catch(x, l).lang = GetLookup(0, l).lang
    BY AnswerShape DEF Exceptions
  <1>4. /\ answer'[r].code # CODE_SUCCESS
        /\ answer'[r].code = CODE_BUSINESS_ERROR <=> p.key
        /\ answer'[r].lang = Expected(p.asked)
    BY <1>1, <1>2, <1>3, Codes DEF StatusOf
  <1>5. p.route # "payment" => p.body = "plain"
    BY <1>2 DEF PipelineInv, RequestInv, Progress
  <1>6. RequestInv(r)'
    <2> HIDE DEF PipelineInv
    <2> QED BY <1>1, <1>2, <1>4, <1>5
       DEF RequestInv, Progress, TraceOfOverlap, TellsOutcome, InLanguage,
           Logged, Traces, Live, Answered, Loggable
  <1> QED BY <1>1, <1>2, <1>3, <1>6, OneMoves


\* A refusal in a language that the filter does not find ends the process.
LEMMA RefuseKeeps ==
  ASSUME PipelineInv, NEW r \in Requests, Refuse(r)
  PROVE  PipelineInv'
  <1> DEFINE l == request[r].language
             p == [request[r] EXCEPT !.pc = "answered", !.language = l]
  <1>1. /\ request \in [Requests -> Request] /\ request[r] \in Request
        /\ request[r].pc = "guard" /\ ~request[r].key /\ l \in Languages
        /\ l = request[r].asked /\ request[r].asked \in Languages
    BY DEF Refuse, PipelineInv, PipelineTypeOK, RequestInv, Progress, Request
  <1>2. p \in Request /\ p = [request[r] EXCEPT !.pc = "answered"]
    BY <1>1 DEF Request
  <1>3. CASE ~LookupFails(l)
    <2>1. /\ request' = [request EXCEPT ![r] = p]
          /\ answer' = [answer EXCEPT ![r] = Catch("http", l)]
          /\ UNCHANGED <<lines, traceId, later, database, redis>>
      BY <1>1, <1>3, <1>2 DEF Refuse, Throw
    <2>2. GetLookup(0, l).lang = Expected(request[r].asked)
      BY <1>1, <1>3, KnownLanguage
    <2>3. p = [request[r] EXCEPT !.pc = "answered", !.language = l]
      OBVIOUS
    <2> HIDE DEF p
    <2> QED BY <1>1, <1>3, <1>2, <2>3, <2>1, <2>2, EarlyAnswer
  <1>4. CASE LookupFails(l)
    <2>1. /\ request' = [s \in Requests |->
               IF Live(s) THEN [request[s] EXCEPT !.pc = "lost"] ELSE request[s]]
          /\ traceId' = Dash
          /\ UNCHANGED <<answer, lines, later, database, redis>>
      BY <1>1, <1>4 DEF Refuse, Throw
    <2>2. ASSUME NEW s \in Requests PROVE request'[s] \in Request /\ RequestInv(s)'
      <3>1. request[s] \in Request /\ RequestInv(s)
        BY <1>1 DEF PipelineInv
      <3>2. CASE Live(s)
        <4>1. request'[s] = [request[s] EXCEPT !.pc = "lost"]
          BY <2>1, <3>2
        <4>2. request'[s] \in Request
          BY <3>1, <4>1 DEF Request
        <4> QED BY <2>1, <3>1, <3>2, <4>1, <4>2, Lost
      <3>3. CASE ~Live(s)
        BY <2>1, <3>1, <3>3, Untouched DEF Live
      <3> QED BY <3>2, <3>3
    <2>3. PipelineTypeOK'
      BY <2>1, <2>2 DEF PipelineInv, PipelineTypeOK
    <2>4. OnlyRefusalsAreFatal'
      <3>1. request'[r] = [request[r] EXCEPT !.pc = "lost"]
        BY <1>1, <2>1 DEF Live
      <3>2. /\ request'[r].pc = "lost" /\ ~request'[r].key
            /\ LookupFails(request'[r].asked)
        BY <1>1, <1>4, <3>1 DEF Request
      <3> QED BY <3>2 DEF OnlyRefusalsAreFatal
    <2> QED BY <2>2, <2>3, <2>4 DEF PipelineInv
  <1> QED BY <1>3, <1>4

LEMMA RefuseLanguageKeeps ==
  ASSUME PipelineInv, NEW r \in Requests, RefuseLanguage(r)
  PROVE  PipelineInv'
  <1> DEFINE l == Normalised(request[r].language)
             p == [request[r] EXCEPT !.pc = "answered", !.language = l]
             q == [request[r] EXCEPT !.language = l]
  <1>1. /\ request[r] \in Request /\ request[r].pc = "enter" /\ request[r].key
        /\ request[r].language = request[r].asked /\ request[r].asked \in Languages
    BY DEF RefuseLanguage, PipelineInv, PipelineTypeOK, RequestInv, Progress, Request
  <1>2. /\ l \in ACCEPT_LANGUAGE_LIST /\ ~LookupFails(l)
        /\ GetLookup(0, l).lang = Expected(request[r].asked)
    BY <1>1, NormalisedIsKnown
  <1>3. /\ p \in Request /\ q.language = l /\ p = [q EXCEPT !.pc = "answered"]
    BY <1>1, <1>2 DEF Request
  <1>4. /\ request' = [request EXCEPT ![r] = p]
        /\ answer' = [answer EXCEPT ![r] = Catch("language", l)]
        /\ UNCHANGED <<lines, traceId, later, database, redis>>
    <2>1. Throw(r, q, "language") /\ UNCHANGED <<lines, later, database, redis>>
      BY DEF RefuseLanguage
    <2> HIDE DEF p, q, l
    <2> QED BY <1>2, <1>3, <2>1, ThrowAnswers
  <1> HIDE DEF l
  <1> QED BY <1>1, <1>2, <1>3, <1>4, EarlyAnswer

LEMMA EnterKeeps ==
  ASSUME PipelineInv, NEW r \in Requests, Enter(r)
  PROVE  PipelineInv'
  <1> DEFINE l == Normalised(request[r].language)
             p == [request[r] EXCEPT !.pc = "handling", !.language = l, !.redis = redis]
  <1>1. /\ request \in [Requests -> Request] /\ later \in [Requests -> SUBSET Requests]
        /\ request[r].pc = "enter" /\ request[r].key /\ redis \in RedisStates
        /\ request[r].language = request[r].asked /\ request[r].asked \in Languages
        /\ ~LookupFails(request[r].asked) /\ request[r].route # "missing"
        /\ request[r].outcome = "none" /\ lines[r] = {}
        /\ request[r].route # "payment" => request[r].body = "plain"
    BY DEF Enter, PipelineInv, PipelineTypeOK, RequestInv, Progress, Request, Live
  <1>2. l \in ACCEPT_LANGUAGE_LIST /\ l = Normalised(request[r].asked)
    BY <1>1, NormalisedIsKnown
  <1>3. /\ p \in Request /\ p.pc = "handling" /\ p.key /\ p.language = l
        /\ p.asked = request[r].asked /\ p.route = request[r].route
        /\ p.body = request[r].body /\ p.outcome = "none"
    BY <1>1, <1>2 DEF Request
  <1>4. /\ request' = [request EXCEPT ![r] = p] /\ traceId' = TraceIdOf(r)
        /\ later' = [q \in Requests |->
             IF request[q].pc = "handling" THEN later[q] \cup {r} ELSE later[q]]
        /\ UNCHANGED <<answer, lines, database, redis>>
    BY DEF Enter, SetTraceId
  <1>5. PipelineTypeOK'
    <2>1. traceId' \in Requests \cup {Dash}
      BY <1>4 DEF TraceIdOf
    <2> HIDE DEF p
    <2> QED BY <1>1, <1>3, <1>4, <2>1 DEF PipelineInv, PipelineTypeOK
  <1>6. OnlyRefusalsAreFatal'
    <2>1. /\ request'[r].pc # "lost" /\ request[r].pc # "lost"
          /\ \A s \in Requests \ {r} : request'[s] = request[s]
      BY <1>1, <1>3, <1>4
    <2> QED BY <2>1 DEF PipelineInv, OnlyRefusalsAreFatal
  <1>7. RequestInv(r)'
    <2>1. request'[r] = p /\ lines'[r] = {}
      BY <1>1, <1>4
    <2> HIDE DEF p
    <2> QED BY <1>1, <1>2, <1>3, <1>4, <2>1
        DEF RequestInv, Progress, TraceOfOverlap, TellsOutcome, InLanguage, Logged,
            Traces, Live, Answered, Loggable
  <1>8. ASSUME NEW s \in Requests, s # r PROVE RequestInv(s)'
    <2>1. /\ request'[s] = request[s] /\ answer'[s] = answer[s]
          /\ lines'[s] = lines[s] /\ later[s] \subseteq later'[s]
          /\ request[s].pc = "handling" => r \in later'[s]
      BY <1>1, <1>4, <1>8
    <2>2. Traces(s)'
      BY <2>1 DEF PipelineInv, RequestInv, Traces
    <2>3. TraceOfOverlap(s)'
      <3>1. traceId' = TraceIdOf(r)
        BY <1>4
      <3> HIDE DEF p
      <3> QED BY <2>1, <3>1 DEF TraceOfOverlap, TraceIdOf
    <2>4. /\ Progress(s)' /\ TellsOutcome(s)'
          /\ InLanguage(s)' /\ Logged(s)'
      <3>1. Progress(s) /\ TellsOutcome(s) /\ InLanguage(s) /\ Logged(s)
        BY DEF PipelineInv, RequestInv
      <3> HIDE DEF p
      <3> QED BY <2>1, <3>1 DEF Progress, TellsOutcome, InLanguage, Logged, Live, Answered,
                                Loggable
    <2> QED BY <2>2, <2>3, <2>4 DEF RequestInv
  <1> QED BY <1>5, <1>6, <1>7, <1>8 DEF PipelineInv


\* How a handler ended decides what is logged, what is answered and how.
LEMMA FinishKeeps ==
  ASSUME PipelineInv, NEW r \in Requests, Finish(r)
  PROVE  PipelineInv'
  <1> PICK outcome \in Outcomes(r) :
         LET q == [request[r] EXCEPT !.outcome = outcome]
             line == [trace |-> traceId, body |-> Masked(q.body), outcome |-> outcome]
             left == AfterLog(r, outcome)
         IN
         /\ lines' = [lines EXCEPT ![r] =
              IF Logs(r, outcome) /\ Loggable(r) THEN @ \cup {line} ELSE @]
         /\ IF left = "value"
            THEN /\ request' = [request EXCEPT ![r] = [q EXCEPT !.pc = "answered"]]
                 /\ answer' = [answer EXCEPT ![r] = Wrap(q.language)]
                 /\ UNCHANGED traceId
            ELSE Throw(r, q, left)
    BY DEF Finish
  <1> DEFINE q == [request[r] EXCEPT !.outcome = outcome]
             p == [q EXCEPT !.pc = "answered"]
             l == request[r].language
             line == [trace |-> traceId, body |-> Masked(q.body), outcome |-> outcome]
             left == AfterLog(r, outcome)
             a == IF left = "value" THEN Wrap(l) ELSE Catch(left, l)
             L == IF Logs(r, outcome) /\ Loggable(r) THEN {line} ELSE {}
  <1>1. /\ request[r] \in Request /\ request[r].pc = "handling" /\ request[r].key
        /\ request[r].asked \in Languages /\ l = Normalised(request[r].asked)
        /\ request[r].route # "missing" /\ lines[r] = {}
        /\ request[r].route # "payment" => request[r].body = "plain"
        /\ traceId \in Requests \cup {Dash}
        /\ \E s \in {r} \cup later[r] : traceId = TraceIdOf(s)
        /\ UNCHANGED <<later, database, redis>>
    BY DEF Finish, PipelineInv, PipelineTypeOK, RequestInv, Progress, TraceOfOverlap,
           Request, Live
  <1>2. outcome \in {"value"} \cup (Exceptions \ {"language"})
    BY DEF Outcomes, HealthCheck, Exceptions
  <1>3. /\ l \in ACCEPT_LANGUAGE_LIST /\ ~LookupFails(l)
        /\ GetLookup(0, l).lang = Expected(request[r].asked)
    BY <1>1, NormalisedIsKnown
  <1>4. /\ q.language = l /\ q.body = request[r].body /\ p \in Request
        /\ p.pc = "answered" /\ p.key /\ p.route = request[r].route
        /\ p.asked = request[r].asked /\ p.body = request[r].body
        /\ p.outcome = outcome
    BY <1>1, <1>2 DEF Request
  <1>5. /\ left \in {"value"} \cup (Exceptions \ {"language"})
        /\ Loggable(r) => left = outcome
        /\ ~Loggable(r) => left = "other"
    <2>1. ~Loggable(r) => request[r].route # "health"
      BY <1>1 DEF Loggable
    <2> QED BY <1>2, <2>1 DEF AfterLog, Logs, Exceptions
  <1>6. /\ a \in Answers
        /\ a.code = CODE_SUCCESS <=> left = "value"
        /\ a.code = CODE_BUSINESS_ERROR <=> left = "validation"
        /\ a.code # NoCode => a.lang = Expected(request[r].asked)
    <2>1. CASE left = "value"
      BY <1>3, <2>1, AnswerShape, Codes DEF Exceptions
    <2>2. CASE left = "notFound"
      BY <2>2, NotFoundShape, Codes
    <2>3. CASE left \in Exceptions \ {"notFound", "language"}
      <3>1. /\ a = Catch(left, l) /\ a \in Answers /\ a.code = StatusOf(left)
            /\ a.lang = GetLookup(0, l).lang
        BY <1>3, <2>3, AnswerShape DEF Exceptions
      <3> HIDE DEF a, left
      <3> QED BY <1>3, <2>3, <3>1, Codes DEF StatusOf, Exceptions
    <2> QED BY <1>5, <2>1, <2>2, <2>3
  <1>7. /\ request' = [request EXCEPT ![r] = p] /\ answer' = [answer EXCEPT ![r] = a]
        /\ traceId' = traceId /\ lines' = [lines EXCEPT ![r] = L]
    <2>1. /\ request' = [request EXCEPT ![r] = p] /\ answer' = [answer EXCEPT ![r] = a]
          /\ traceId' = traceId
      <3>1. IF left = "value"
            THEN /\ request' = [request EXCEPT ![r] = p]
                 /\ answer' = [answer EXCEPT ![r] = Wrap(q.language)]
                 /\ UNCHANGED traceId
            ELSE Throw(r, q, left)
        OBVIOUS
      <3>2. p = [q EXCEPT !.pc = "answered"]
        OBVIOUS
      <3> HIDE DEF p, q, left
      <3>3. CASE left = "value"
        BY <1>4, <3>1, <3>3
      <3>4. CASE left # "value"
        BY <1>3, <1>4, <3>1, <3>2, <3>4, ThrowAnswers
      <3> QED BY <3>3, <3>4
    <2>2. lines' = [lines EXCEPT ![r] = L]
      BY <1>1 DEF PipelineInv, PipelineTypeOK
    <2> QED BY <2>1, <2>2
  <1>8. /\ L \in SUBSET Line
        /\ \A m \in L : m = line /\ line.trace = traceId
                        /\ line.outcome = outcome /\ line.body # "password"
    <2>1. Loggable(r) => /\ Masked(request[r].body) # "password"
                         /\ Masked(request[r].body) \in {"****", "plain", "nested password"}
      BY <1>1 DEF Loggable, Masked, Request, Bodies
    <2>2. Loggable(r) => line \in Line /\ line.body # "password"
      BY <1>1, <1>2, <1>4, <2>1 DEF Line
    <2>3. line.trace = traceId /\ line.outcome = outcome
      OBVIOUS
    <2> HIDE DEF line
    <2> QED BY <2>2, <2>3
  <1>9. request'[r] = p /\ answer'[r] = a /\ lines'[r] = L /\ later'[r] = later[r]
    BY <1>1, <1>7 DEF PipelineInv, PipelineTypeOK
  <1>10. RequestInv(r)'
    <2>1. Loggable(r)' <=> Loggable(r)
      BY <1>4, <1>9 DEF Loggable
    <2>2. TellsOutcome(r)'
      <3> HIDE DEF p, a, left
      <3> QED BY <1>2, <1>4, <1>5, <1>6, <1>9, <2>1 DEF TellsOutcome, Answered, Exceptions
    <2>3. Logged(r)'
      <3>1. CASE L = {}
        <4>1. ~Loggable(r) \/ (outcome = "value" /\ request[r].route = "health")
          BY <3>1 DEF Logs
        <4> HIDE DEF p, L
        <4> QED BY <1>4, <1>9, <2>1, <3>1, <4>1 DEF Logged
      <3>2. CASE L # {}
        <4>1. L = {line} /\ Loggable(r) /\ Logs(r, outcome)
          BY <3>2
        <4>2. ~(outcome = "value" /\ request[r].route = "health") /\ outcome # "none"
          BY <1>2, <4>1 DEF Logs, Exceptions
        <4>3. line.outcome = outcome /\ line.body # "password"
          BY <1>8, <4>1
        <4> HIDE DEF p, L, line
        <4> QED BY <1>4, <1>9, <2>1, <4>1, <4>2, <4>3 DEF Logged
      <3> QED BY <3>1, <3>2
    <2>4. Traces(r)'
      <3> HIDE DEF L, line
      <3> QED BY <1>1, <1>8, <1>9 DEF Traces, TraceIdOf
    <2>5. Progress(r)' /\ TraceOfOverlap(r)' /\ InLanguage(r)'
      <3> HIDE DEF p, a, L
      <3> QED BY <1>1, <1>4, <1>6, <1>9
          DEF Progress, TraceOfOverlap, InLanguage, Live, Answered
    <2> QED BY <2>2, <2>3, <2>4, <2>5 DEF RequestInv
  <1> HIDE DEF p, a, L
  <1> QED BY <1>1, <1>4, <1>6, <1>7, <1>8, <1>10, OneMoves

\* The services behind the health check come and go without notice.
LEMMA TurnsKeep ==
  ASSUME PipelineInv, DatabaseTurns \/ RedisTurns
  PROVE  PipelineInv'
  <1>1. /\ UNCHANGED <<request, answer, lines, traceId, later>>
        /\ database' \in BOOLEAN /\ redis' \in RedisStates
    BY DEF DatabaseTurns, RedisTurns, PipelineInv, PipelineTypeOK, RedisStates
  <1> QED BY <1>1, Untouched DEF PipelineInv, PipelineTypeOK, OnlyRefusalsAreFatal

LEMMA PipelineNext == PipelineInv /\ [Next]_pipelineVars => PipelineInv'
  <1> SUFFICES ASSUME PipelineInv, [Next]_pipelineVars PROVE PipelineInv'
    OBVIOUS
  <1>1. CASE UNCHANGED pipelineVars
    BY <1>1, Untouched DEF pipelineVars, PipelineInv, PipelineTypeOK, OnlyRefusalsAreFatal
  <1>2. CASE Next
    BY <1>2, ArriveKeeps, GuardKeeps, RefuseKeeps, RefuseLanguageKeeps, EnterKeeps,
       FinishKeeps, TurnsKeep DEF Next, Proceed
  <1> QED BY <1>1, <1>2

\* The type, the progress of each request and what is said of its answer and
\* its lines hold together, always.
THEOREM InductivePipeline == Spec => []PipelineInv
  BY PipelineInit, PipelineNext, PTL DEF Spec

\* The values of the variables are always those the code can have there.
THEOREM PipelineTypeCorrect == Spec => []PipelineTypeOK
  BY InductivePipeline, PTL DEF PipelineInv

\* The code of an answer is that of how its own handler, guard or interceptor
\* ended, whatever other requests do meanwhile.
THEOREM OutcomesAreTold == Spec => []AnswerTellsOutcome
  <1>1. PipelineInv => AnswerTellsOutcome
    BY DEF PipelineInv, RequestInv, TellsOutcome, AnswerTellsOutcome
  <1> QED BY <1>1, InductivePipeline, PTL

\* An answer is in the language of its request, however late that fails.
THEOREM LanguagesAreKept == Spec => []AnswersInLanguage
  <1>1. PipelineInv => AnswersInLanguage
    BY DEF PipelineInv, RequestInv, InLanguage, Expected, AnswersInLanguage
  <1> QED BY <1>1, InductivePipeline, PTL

\* Only a request that the guard refused, in a language that the filter does
\* not find, ends the process.
THEOREM OnlyRefusalsEndIt == Spec => []OnlyRefusalsAreFatal
  BY InductivePipeline, PTL DEF PipelineInv

\* Each handled request is logged once, as it ended, and without its password.
THEOREM RequestsAreLogged == Spec => []LoggedOnce
  <1>1. PipelineInv => LoggedOnce
    BY DEF PipelineInv, RequestInv, Logged, LoggedOnce
  <1> QED BY <1>1, InductivePipeline, PTL

\* No line has the trace id of a request that ended before its own began.
THEOREM TracesAreRecent == Spec => []TraceIsNotOlder
  <1>1. PipelineInv => TraceIsNotOlder
    BY DEF PipelineInv, RequestInv, Traces, TraceIsNotOlder
  <1> QED BY <1>1, InductivePipeline, PTL
=============================================================================
