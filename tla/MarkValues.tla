----------------------------- MODULE MarkValues -----------------------------
(***************************************************************************)
(* One parametrize mark of a test: do its values fit what is requested?    *)
(*                                                                         *)
(* TestInfo.check reads the call (DecoratorWrapper), meets the types of    *)
(* all requests for each name (RequestGraph.argname_types), and gives the  *)
(* values to a TestSignature: case by case if they are written out, as a   *)
(* whole if not.  RequestGraph.check then compares the requests with the   *)
(* fixtures that answer them.                                              *)
(*                                                                         *)
(* A type is the set of classes it admits.  What the names in the mark     *)
(* must be is in Parametrization.                                          *)
(***************************************************************************)
EXTENDS CallArguments

CONSTANTS
  Marks,      \* the marks considered, see MarksAssumption
  Requested   \* the request graphs considered: sequences of requests, see Request

AnyType == "Any"

\* _pytest.mark.structures._ParametrizeMarkDecorator, an instance that is called.
ParametrizeMarkDecorator ==
  [form |-> "instance",
   signatures |-> <<<<[kind |-> "pos", name |-> "self"],
                      [kind |-> "pos", name |-> "argnames"],
                      [kind |-> "pos", name |-> "argvalues"],
                      [kind |-> "named_opt", name |-> "ids"]>>>>]

Shapes == {"tuple", "list", "set", "ParameterSet"}

\* A case, by its static type: a plain value, or a container with the types of its items.
\* "param" is a call of pytest.param without starred arguments, "opaque" an expression.
IsCase(c) ==
  /\ c.items \in Seq(SUBSET STRING) /\ \A k \in DOMAIN c.items : c.items[k] # {}
  /\ c.form \in {"literal", "param", "opaque"}
  /\ c.shape \in Shapes \cup {"value"}
  /\ c.form = "param" => c.shape = "ParameterSet"
  /\ c.shape = "value" => Len(c.items) = 1

\* An argument expression of the mark: names, as a string or a list, or cases, written out
\* ("literal"), with a starred one among them, or as an expression of their type.
IsExpr(e) ==
  \/ e.is = "names" /\ e.string \in BOOLEAN
     /\ e.names \in Seq(STRING) /\ IsInjective(e.names)
  \/ e.is = "values" /\ e.form \in {"literal", "starred", "opaque"}
     /\ e.cases \in Seq(Range(e.cases)) /\ \A k \in DOMAIN e.cases : IsCase(e.cases[k])

ASSUME MarksAssumption ==
  \A m \in Marks : /\ m.call \in Seq(Range(m.call))
                   /\ \A i \in DOMAIN m.call : IsActual(m.call[i])
                   /\ DOMAIN m.exprs = DOMAIN m.call
                   /\ \A i \in DOMAIN m.exprs : IsExpr(m.exprs[i])

\* "fixture" has what answers the request if it is not for a parameter: the class and the
\* element type of the return type, and whether the function yields.
IsRequest(r) ==
  /\ r.type # {}
  /\ r.fixture \in Seq(Range(r.fixture)) /\ Len(r.fixture) <= 1
  /\ \A k \in DOMAIN r.fixture :
       r.fixture[k].class \in {"plain", "Iterator", "AsyncIterator"} /\ r.fixture[k].yields \in BOOLEAN
ASSUME RequestedAssumption == \A g \in Requested : \A k \in DOMAIN g : IsRequest(g[k])

VARIABLES
  mark,       \* the mark
  requests,   \* the request graph of the test
  stage,      \* what TestInfo.check comes to next
  read,       \* arg_names_and_arg_values: the actuals, by name
  types,      \* argname_types: the type expected for each name
  case,       \* the case to check next
  reports     \* the codes of the errors, with the place

programVars == <<mark, requests>>
valueVars == <<programVars, stage, read, types, case, reports>>

-----------------------------------------------------------------------------
(* Types *)

\* is_subtype
Fits(s, t) == AnyType \in s \cup t \/ s \subseteq t

\* The type of the whole expression.
Whole(c) == IF c.shape = "value" THEN c.items[1] ELSE {c.shape}

\* meet_types, reduced over the types: what all of them admit, where Any does not count
\* beside another.
MetType(some) == {c \in UNION some : \A t \in some : AnyType \in t \/ c \in t}

\* A mistake: what cannot be met is kept.
ExpectedUnchecked(some) == MetType(some)

\* _meet_requests: Any stands for what cannot be met.
Expected(some) == IF MetType(some) = {} THEN {AnyType} ELSE MetType(some)

-----------------------------------------------------------------------------
(* Test signatures *)

IsNames == "argnames" \in DOMAIN read /\ mark.exprs[read["argnames"]].is = "names"
Names == mark.exprs[read["argnames"]]
Values == mark.exprs[read["argvalues"]]
Args == [k \in DOMAIN Names.names |-> types[Names.names[k]]]

\* check_items against the items_signature: one argument each.
ItemsFit(items) ==
  Len(items) = Len(Args) /\ \A k \in DOMAIN Args : Fits(items[k], Args[k])

\* The test_case_signature of one item: its type or a ParameterSet of one.
FitsOneItem(c) ==
  \/ Fits(Whole(c), Args[1])
  \/ c.shape = "ParameterSet" /\ ItemsFit(c.items)

\* That of many items: a tuple or a ParameterSet.
FitsManyItems(c) ==
  \/ AnyType \in Whole(c)
  \/ c.shape \in {"tuple", "ParameterSet"} /\ ItemsFit(c.items)

\* sub_signature: one item for a string with one name, many for a list.
FitsEntire(c) == IF Names.string /\ Len(Args) = 1 THEN FitsOneItem(c) ELSE FitsManyItems(c)

\* A mistake: a tuple is taken apart whatever is expected.
FitsCaseTakenApart(c) ==
  IF c.form = "param" \/ (c.form = "literal" /\ c.shape \in {"tuple", "list"})
    THEN ItemsFit(c.items) ELSE FitsEntire(c)

\* A mistake: only a tuple is taken apart.
FitsCaseUnlessList(c) ==
  IF c.form = "param" THEN ItemsFit(c.items)
  ELSE IF Len(Args) = 1 \/ c.form = "opaque" \/ c.shape # "tuple" THEN FitsEntire(c)
  ELSE ItemsFit(c.items)

\* TestCase.check_against
FitsCase(c) ==
  IF c.form = "param" THEN ItemsFit(c.items)
  ELSE IF Len(Args) = 1 \/ c.form = "opaque" \/ c.shape \notin {"tuple", "list"}
    THEN FitsEntire(c)
  ELSE ItemsFit(c.items)

-----------------------------------------------------------------------------

ValuesInit ==
  /\ mark \in Marks
  /\ requests \in Requested
  /\ stage = "read"
  /\ read = <<>>
  /\ types = <<>>
  /\ case = 1
  /\ reports = {}

\* arg_names_and_arg_values: both, or a report.
ReadMark ==
  /\ stage = "read"
  /\ LET mapping == NamedArgMapping(mark.call, ParametrizeMarkDecorator) IN
     IF {"argnames", "argvalues"} \subseteq DOMAIN mapping
       THEN read' = mapping /\ stage' = "names" /\ UNCHANGED reports
       ELSE reports' = {<<"unreadable-argnames-argvalues", 0>>} /\ stage' = "requests" /\ UNCHANGED read
  /\ UNCHANGED <<programVars, types, case>>

\* _argument_requests: the types requested for a name, in any order.
TypesFor(name) == {r.type : r \in {q \in Range(requests) : q.name = name}}

\* The names are parsed, their types met; if all are known, the values come next.
MeetTypes ==
  /\ stage = "names"
  /\ LET parsed == IF IsNames THEN Range(Names.names) ELSE {}
         known == {x \in parsed : TypesFor(x) # {}}
     IN /\ types' = [x \in known |-> Expected(TypesFor(x))]
        /\ reports' = {<<"valid-type", x>> : x \in {y \in known : MetType(TypesFor(y)) = {}}} \cup
                      {<<"unknown-argname", x>> : x \in parsed \ known} \cup
                      (IF IsNames THEN {} ELSE {<<"unreadable-argnames", 0>>})
        /\ stage' = IF ~ IsNames \/ parsed # known THEN "requests"
                    ELSE IF Values.is = "values" /\ Values.form = "literal" THEN "cases" ELSE "entire"
  /\ UNCHANGED <<programVars, read, case>>

\* Argvalues.check_sequence_against: one case.
CheckCase ==
  /\ stage = "cases" /\ case <= Len(Values.cases)
  /\ reports' = IF FitsCase(Values.cases[case]) THEN reports ELSE reports \cup {<<"arg-type", case>>}
  /\ case' = case + 1
  /\ UNCHANGED <<programVars, stage, read, types>>

CasesChecked ==
  /\ stage = "cases" /\ case > Len(Values.cases)
  /\ stage' = "requests"
  /\ UNCHANGED <<programVars, read, types, case, reports>>

\* check_entire_against: an Iterable of what a case may be.
CheckEntire ==
  /\ stage = "entire"
  /\ reports' = IF Values.is = "values" /\ \A k \in DOMAIN Values.cases : FitsEntire(Values.cases[k])
                  THEN reports ELSE reports \cup {<<"arg-type", 0>>}
  /\ stage' = "requests"
  /\ UNCHANGED <<programVars, read, types, case>>

\* fixture_return_type: of a function that yields, what it yields.
ReturnType(f) ==
  IF f.yields THEN IF f.class = "Iterator" THEN f.type ELSE {AnyType}
  ELSE IF f.class = "plain" THEN f.type ELSE {f.class}

\* _check_request_types
CheckRequestTypes ==
  /\ stage = "requests"
  /\ reports' = reports \cup
       {<<"fixture-arg-type", k>> : k \in {j \in DOMAIN requests :
          requests[j].fixture # <<>> /\ ~ Fits(ReturnType(requests[j].fixture[1]), requests[j].type)}}
  /\ stage' = "done"
  /\ UNCHANGED <<programVars, read, types, case>>

ValuesNext == ReadMark \/ MeetTypes \/ CheckCase \/ CasesChecked \/ CheckEntire \/ CheckRequestTypes

ValuesSpec ==
  /\ ValuesInit
  /\ [][ValuesNext \/ (stage = "done" /\ UNCHANGED valueVars)]_valueVars

-----------------------------------------------------------------------------
(* What Python and pytest make of the mark. *)

Starred == \E i \in DOMAIN mark.call : mark.call[i].kind \notin Plain

\* Some values are typed Any, of which nothing is known.
Untyped ==
  \/ \E k \in DOMAIN Values.cases : \E j \in DOMAIN Values.cases[k].items :
       AnyType \in Values.cases[k].items[j]
  \/ \E k \in DOMAIN requests : AnyType \in requests[k].type

\* ParameterSet.extract_from: a string of one name takes the case as it is, other marks
\* take it apart.
Unpacks == ~ (Names.string /\ Len(Names.names) = 1)
Passed(c) ==
  IF c.shape = "ParameterSet" THEN c.items
  ELSE IF Unpacks THEN c.items
  ELSE <<Whole(c)>>
Takes(c) ==
  /\ Len(Passed(c)) = Len(Names.names)
  /\ Unpacks => c.shape # "value"

\* Every request for a parameter gets a value of its type from the case.
Typed(c) ==
  \A k \in DOMAIN Names.names : \A r \in Range(requests) :
    r.name = Names.names[k] => Passed(c)[k] \subseteq r.type

\* What pytest injects for a fixture, what it yields or what it returns, is expected.
FixtureTyped(r) ==
  \A k \in DOMAIN r.fixture :
    LET f == r.fixture[k] IN
    (IF f.yields \/ f.class = "plain" THEN f.type ELSE {f.class}) \subseteq r.type

\* A name in a string, whose requests all accept a ParameterSet itself, as an object: then
\* one in a variable fits, whatever it holds.
TakenAsItIs(c) ==
  /\ ~ Unpacks /\ c.shape = "ParameterSet"
  /\ c.form = "param" => Values.form # "literal"
  /\ \A r \in Range(requests) : r.name = Names.names[1] => "ParameterSet" \in r.type

\* Documented strictness: several values for a case come as a tuple, a list written out or
\* a pytest.param, for one name in a list as a tuple or a pytest.param.
Strict(c) ==
  /\ Unpacks
  /\ \/ c.shape = "set"
     \/ c.shape = "list" /\ (c.form = "opaque" \/ Len(Names.names) = 1 \/ Values.form # "literal")

-----------------------------------------------------------------------------

\* Every variable has its type.
ValuesTypeOK ==
  /\ mark \in Marks /\ requests \in Requested
  /\ stage \in {"read", "names", "cases", "entire", "requests", "done"}
  /\ \A x \in DOMAIN read : read[x] \in DOMAIN mark.call
  /\ \A x \in DOMAIN types : types[x] # {} /\ \E k \in DOMAIN requests : requests[k].name = x
  /\ case \in Nat

Readable == {"argnames", "argvalues"} \subseteq DOMAIN read /\ IsNames /\ Values.is = "values"

\* "Your test cases have the correct types", "You didn't forget any arguments": without a
\* report, pytest takes every case apart into one value for each name, of a type that all
\* who request the name expect, but for a ParameterSet they take as it is, and fixtures
\* yield or return what is expected of them, if their return type says what they yield.
SilentIsTyped ==
  (stage = "done" /\ reports = {} /\ ~ Starred /\ ~ Untyped) =>
    /\ \A c \in Range(Values.cases) : (Takes(c) /\ Typed(c)) \/ TakenAsItIs(c)
    /\ \A r \in Range(requests) :
         FixtureTyped(r) \/ \E f \in Range(r.fixture) : AnyType \in ReturnType(f)

\* No false report: a mark with cases that pytest can take, with values that all requests
\* accept, is not reported, unless for the documented strictness.
NoFalseReports ==
  (stage = "done" /\ ~ Starred /\ Readable /\ ~ Untyped /\ Values.cases # <<>>
     /\ (\A x \in Range(Names.names) : TypesFor(x) # {})
     /\ \A c \in Range(Values.cases) : Takes(c) /\ Typed(c) /\ ~ Strict(c))
  => \A r \in reports : r[1] = "fixture-arg-type" /\ ~ FixtureTyped(requests[r[2]])

=============================================================================
