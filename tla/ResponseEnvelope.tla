-------------------------- MODULE ResponseEnvelope --------------------------
(***************************************************************************)
(* The {status, data} envelope of every response: LookupUtil, the codes,   *)
(* and what AllExceptionsFilter makes of an exception.  Of a response the  *)
(* model keeps the HTTP status, the code and the language of its text.     *)
(***************************************************************************)
EXTENDS Naturals

CONSTANT NoHeader  \* a request without Accept-Language

CODE_SUCCESS == 1000
CODE_BUSINESS_ERROR == 1899
CODE_TECHNICAL_ERROR == 1999
NoCode == 0  \* a body that is not an envelope

DEFAULT_ACCEPT_LANGUAGE == "TH"
ACCEPT_LANGUAGE_LIST == {"EN", "TH"}

\* Accept-Language as clients send it; "fr" stands for all that is not one of
\* the list, such as a list of languages.
Languages == {NoHeader, "en", "TH", "fr"}

ASSUME NoHeaderAssumption == NoHeader \notin {"en", "fr"} \cup ACCEPT_LANGUAGE_LIST

ToUpperCase(language) ==
  CASE language = "en" -> "EN"
    [] language = "fr" -> "FR"
    [] OTHER -> language

\* require(...)[language.toLocaleLowerCase()][code]: the file has a section
\* for each language of the list, and for another the lookup throws.
LookupFails(language) ==
  language # NoHeader /\ ToUpperCase(language) \notin ACCEPT_LANGUAGE_LIST

GetLookup(code, language) ==
  [code |-> code,
   lang |-> IF language = NoHeader THEN DEFAULT_ACCEPT_LANGUAGE ELSE ToUpperCase(language)]

\* What a handler, a pipe or a guard throws: a ValidationException; the
\* interceptor's own exception for a language; a NOT_FOUND, whose body is sent
\* as it is; another HttpException; anything else.
Exceptions == {"validation", "language", "notFound", "http", "other"}

StatusOf(exception) ==
  IF exception \in {"validation", "language"}
  THEN CODE_BUSINESS_ERROR ELSE CODE_TECHNICAL_ERROR

\* AllExceptionsFilter.catch, for a language that it finds.
Catch(exception, language) ==
  IF exception = "notFound"
  THEN [http |-> 200, code |-> NoCode, lang |-> NoHeader]
  ELSE LET status == GetLookup(StatusOf(exception), language)
       IN [http |-> 200, code |-> status.code, lang |-> status.lang]

\* What HttpHeaderInterceptor makes of the value of a handler.  No handler
\* returns one with a status.code of its own.
Wrap(language) ==
  LET status == GetLookup(CODE_SUCCESS, language)
  IN [http |-> 200, code |-> status.code, lang |-> status.lang]

NoAnswer == [http |-> 0, code |-> NoCode, lang |-> NoHeader]

Answers == [http : {200}, code : {NoCode, CODE_SUCCESS, CODE_BUSINESS_ERROR,
                                  CODE_TECHNICAL_ERROR},
            lang : ACCEPT_LANGUAGE_LIST \cup {NoHeader}]
=============================================================================
