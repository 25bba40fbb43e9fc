--------------------------- MODULE RequestParsing ---------------------------
(***************************************************************************)
(* RequestParser, FixtureParser and UseFixturesParser: the names that a    *)
(* test or a fixture requests, and what a fixture is published with.       *)
(*                                                                         *)
(* A test is parsed once, and the names in its usefixtures marks are added.*)
(* A fixture is parsed when it is published, and its FixtureType is read   *)
(* again by every lookup; the requests of a fixture are read from the      *)
(* definition of the function while mypy has it, and from the type alone   *)
(* once mypy has loaded the module from its cache.                         *)
(***************************************************************************)
EXTENDS Integers, Sequences, SequencesExt

CONSTANTS
  Names,       \* identifiers that can name a fixture
  Signatures,  \* the functions considered, see Signature
  Decorators,  \* what the fixtures considered are decorated with, see Decorator
  Extras       \* the names in the usefixtures marks of a test

RequestName == "request"

\* An expression in a mark whose value is no identifier, a keyword, "request" or not
\* known as a literal.  (It has a type: pytest.mark.usefixtures, a method with a hook, was
\* applied, and mypy types the arguments before that.)
InvalidName == "?"

Argument == [name     : Names \cup {RequestName},
             optional : BOOLEAN,                   \* has a default value
             posOnly  : BOOLEAN,
             star     : {"no", "*", "**"},
             accepts  : BOOLEAN]                   \* its type admits the request object

Signature == [source    : {"test", "fixture"},
              annotated : BOOLEAN,                  \* has any annotation
              arguments : Seq(Argument)]

ScopeNames == {"function", "class", "module", "package", "session"}

\* How often pytest.fixture is applied, whether a mark is applied too, whether the
\* fixture is called "request", and the keywords scope and autouse: left out, a
\* literal, or something else.
Decorator == [fixtures : 1..2,
              marked   : BOOLEAN,
              reserved : BOOLEAN,
              scope    : {"absent", "computed"} \cup ScopeNames,
              autouse  : {"absent", "computed", "true", "false"}]

ASSUME NamesAssumption == {RequestName, InvalidName} \cap Names = {}
ASSUME SignaturesAssumption == Signatures \subseteq Signature
ASSUME DecoratorsAssumption == Decorators \subseteq Decorator
ASSUME ExtrasAssumption == Extras \subseteq Seq(Names \cup {InvalidName})

VARIABLES
  signature,   \* the function
  decorator,   \* its decorators, if it is a fixture
  extra,       \* names in its usefixtures marks, in order, if it is a test
  parsed,      \* the function has been parsed
  requests,    \* Request.name for each request
  reports,     \* <<name, why>> reported with the checker
  type,        \* arguments of the FixtureType in the symbol table, or Unpublished
  definition,  \* mypy has the definition that belongs to the type
  answers      \* what lookups of the fixture found

parseVars ==
  <<signature, decorator, extra, parsed, requests, reports, type, definition, answers>>

-----------------------------------------------------------------------------

\* _validate_test_argument: the first reason to ignore an argument.
Flaw(a) ==
  IF a.optional THEN "optional"
  ELSE IF a.posOnly THEN "positional-only"
  ELSE IF a.star = "*" THEN "variadic-positional"
  ELSE IF a.star = "**" THEN "variadic-keyword"
  ELSE "none"

NamesOf(arguments) == [i \in DOMAIN arguments |-> arguments[i].name]

\* _is_request_argument: the request object of pytest is no fixture.
IsRequestArgument(a) == a.name = RequestName

\* [x for x in s if ...]: what stands at these places, in order.
Subsequence(s, places) ==
  LET Upto[k \in 0..Len(s)] ==
        IF k = 0 THEN <<>>
        ELSE IF k \in places THEN Append(Upto[k - 1], s[k]) ELSE Upto[k - 1]
  IN  Upto[Len(s)]

\* parse_fn_def of a function with a type
FromDefinition(arguments) ==
  Subsequence(NamesOf(arguments),
    {i \in DOMAIN arguments : Flaw(arguments[i]) = "none" /\ ~ IsRequestArgument(arguments[i])})

\* CallableType.formal_arguments leaves out variadic arguments and has no name for
\* positional-only ones.
FormalArguments(arguments) ==
  {i \in DOMAIN arguments : arguments[i].star = "no" /\ ~ arguments[i].posOnly}

\* A mistake: "request" is taken for a fixture.
FromTypeWithRequest(arguments) == Subsequence(NamesOf(arguments), FormalArguments(arguments))

\* Request.from_type
FromType(arguments) ==
  Subsequence(NamesOf(arguments),
              {i \in FormalArguments(arguments) : arguments[i].name # RequestName})

\* Of equal elements the first is kept.
FilterUnique(s) == Subsequence(s, {i \in DOMAIN s : \A j \in 1..(i - 1) : s[j] # s[i]})

\* Request.extend
Extend(names, more) == FilterUnique(names \o more)

\* _fixture_scope_from_decorator: a member of the enumeration FixtureScope.
DeclaredScope(d) ==
  [value |-> CASE d.scope = "absent" -> "function"
               [] d.scope = "computed" -> "unknown"
               [] OTHER -> d.scope,
   member |-> TRUE]

\* _fixture_autouse_from_decorator
DeclaredAutouse(d) == d.autouse = "true"

-----------------------------------------------------------------------------

Unpublished == <<>>

ParseInit ==
  /\ signature \in Signatures
  /\ decorator \in Decorators
  /\ extra \in Extras
  /\ signature.source = "fixture" => extra = <<>>
  /\ parsed = FALSE
  /\ requests = <<>>
  /\ reports = {}
  /\ type = Unpublished
  /\ definition = TRUE
  /\ answers = {}

FlawReports ==
  {<<signature.arguments[i].name, Flaw(signature.arguments[i])>> : i \in DOMAIN signature.arguments}
    \ (Names \cup {RequestName}) \X {"none"}

\* An argument for the request object with a type that excludes it.
RequestTypeReports ==
  {<<RequestName, "type">> : i \in {j \in DOMAIN signature.arguments :
     LET a == signature.arguments[j] IN
     Flaw(a) = "none" /\ IsRequestArgument(a) /\ ~ a.accepts}}

\* mypy has no type for a function without annotations: analyze_type makes one for a
\* fixture, a test remains without.
HasType == signature.annotated \/ signature.source = "fixture"

\* A mistake: giving up at the first invalid name.
ExtrasBeforeInvalid ==
  Subsequence(extra, {i \in DOMAIN extra : \A j \in 1..i : extra[j] # InvalidName})

ValidExtras == Subsequence(extra, {i \in DOMAIN extra : extra[i] # InvalidName})

InvalidExtraReports == {<<x, "identifier">> : x \in Range(extra) \cap {InvalidName}}

\* A test: its own arguments, then the names of its usefixtures marks.
ParseTest ==
  /\ ~ parsed /\ signature.source = "test" /\ HasType
  /\ parsed' = TRUE
  /\ requests' = Extend(FromDefinition(signature.arguments), ValidExtras)
  /\ reports' = FlawReports \cup RequestTypeReports \cup InvalidExtraReports
  /\ UNCHANGED <<signature, decorator, extra, type, definition, answers>>

\* There is no test to check without requests: neither arguments nor marks are read.
PassUntypedTest ==
  /\ ~ parsed /\ signature.source = "test" /\ ~ HasType
  /\ parsed' = TRUE
  /\ UNCHANGED <<signature, decorator, extra, requests, reports, type, definition, answers>>

\* is_fixture_and_mark, and the first part of from_decorator: the reasons, in the
\* order of the code, for which a fixture is not published.
Rejection ==
  IF decorator.marked THEN "marked"
  ELSE IF decorator.fixtures > 1 THEN "duplicate"
  ELSE IF decorator.reserved THEN "reserved"
  ELSE "none"

RejectFixture ==
  /\ ~ parsed /\ signature.source = "fixture" /\ Rejection # "none"
  /\ parsed' = TRUE
  /\ reports' = {<<"fixture", Rejection>>}
  /\ UNCHANGED <<signature, decorator, extra, requests, type, definition, answers>>

KeywordReports ==
  {<<k, "computed">> : k \in {x \in {"scope", "autouse"} : decorator[x] = "computed"}}

\* from_decorator and as_fixture_type: the FixtureType that replaces the function.
ParseFixture ==
  /\ ~ parsed /\ signature.source = "fixture" /\ Rejection = "none"
  /\ parsed' = TRUE
  /\ requests' = FromDefinition(signature.arguments)
  /\ reports' = FlawReports \cup RequestTypeReports \cup KeywordReports
  /\ type' = [scope |-> DeclaredScope(decorator), autouse |-> DeclaredAutouse(decorator)]
  /\ UNCHANGED <<signature, decorator, extra, definition, answers>>

\* _module_lookup and Fixture.from_type: what a lookup of the fixture finds.
LookUp ==
  /\ type # Unpublished
  /\ answers' = answers \cup
       {[requests |-> IF definition THEN FromDefinition(signature.arguments)
                                    ELSE FromType(signature.arguments),
         scope    |-> type.scope,
         autouse  |-> type.autouse]}
  /\ UNCHANGED <<signature, decorator, extra, parsed, requests, reports, type, definition>>

\* mypy ends and starts again: the module of the fixture has not changed, its types
\* come from the cache.  They have no definition there, and a literal is a string, an
\* integer or a Boolean: the member of FixtureScope comes back as its integer.
RestartFromCache ==
  /\ type # Unpublished /\ definition
  /\ definition' = FALSE
  /\ type' = [type EXCEPT !.scope.member = FALSE]
  /\ UNCHANGED <<signature, decorator, extra, parsed, requests, reports, answers>>

ParseNext ==
  ParseTest \/ PassUntypedTest \/ RejectFixture \/ ParseFixture \/ LookUp \/ RestartFromCache

ParseSpec ==
  /\ ParseInit
  /\ [][ParseNext \/ (parsed /\ UNCHANGED parseVars)]_parseVars

-----------------------------------------------------------------------------

\* Nothing gets lost that a fixture or an annotated test names: an argument is
\* requested, or is the request object, or there is a report, unless the whole fixture is
\* rejected with one; a name in a mark is requested unless it is invalid, also when an
\* argument of that name is ignored.  (Of a test without annotations all is lost, like
\* mypy's own errors in such functions.)
NothingLost ==
  (parsed /\ HasType) =>
    /\ \/ type = Unpublished /\ \E r \in reports : r[1] = "fixture"
       \/ \A i \in DOMAIN signature.arguments :
            LET a == signature.arguments[i] IN
            \/ a.name \in Range(requests) \cup {RequestName}
            \/ <<a.name, Flaw(a)>> \in reports /\ Flaw(a) # "none"
    /\ Range(extra) \ {InvalidName} \subseteq Range(requests)

\* Where no argument has a default value, a fixture that comes out of mypy's cache
\* requests what it requested when it was published, and is as long-lived and as
\* automatic as its decorator says.
AnswersSurviveRestart ==
  (\A i \in DOMAIN signature.arguments : ~ signature.arguments[i].optional) =>
    \A a \in answers :
      /\ a.requests = requests
      /\ a.scope.value = DeclaredScope(decorator).value
      /\ a.autouse = DeclaredAutouse(decorator)

\* An argument that "has a default value and is therefore ignored" is not requested
\* by any lookup (finding: it is, out of mypy's cache).
IgnoredStaysIgnored ==
  \A r \in reports : r[2] = "optional" => \A a \in answers : r[1] \notin Range(a.requests)

\* The scope of a fixture, which the message about inverted scopes asks for its name,
\* is a member of FixtureScope (finding: out of mypy's cache it is an integer).
ScopesHaveNames == \A a \in answers : a.scope.member

=============================================================================
