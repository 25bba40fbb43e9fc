------------------------ MODULE ParametrizationProofs ------------------------
(* Theorems about Parametrization, for any names, fixtures and tests.                    *)
EXTENDS Parametrization, RequestGraphProofs

\* Checking the marks builds no graph, and what is known of a graph that is built does not
\* change.
LEMMA MarkStep ==
  ASSUME GraphInv, CheckNext
  PROVE  \/ GraphNext /\ UNCHANGED markVars /\ ~ Built
         \/ (SkipMark \/ CheckMark) /\ UNCHANGED allVars /\ Built
<1>1. CASE GraphNext /\ UNCHANGED markVars
  <2>1. ASSUME Built PROVE FALSE
    <3>1. ~ ResolveNext
      BY <2>1, NoMoreResolving DEF GraphInv, ResolveInv, Built
    <3>2. ~ ResolveOriginal
      <4>1. next \in Nat /\ Len(OriginalRequests) \in Nat
        BY OriginalType DEF GraphInv, ResolveInv, Shape
      <4> QED BY <2>1, <4>1 DEF Built, ResolveOriginal, AtOriginal
    <3>3. ~ ResolveArgument /\ ~ ReturnFromFixture
      BY <2>1 DEF Built, ResolveArgument, ReturnFromFixture, AtArgument
    <3> QED BY <1>1, <3>1, <3>2, <3>3 DEF GraphNext
  <2> QED BY <1>1, <2>1
<1>2. CASE SkipMark \/ CheckMark
  BY <1>2 DEF SkipMark, CheckMark, AtMark
<1> QED BY <1>1, <1>2 DEF CheckNext

\* The check of a test is, as far as the graph goes, the building of the graph, so what is
\* proved about it holds here.
THEOREM CheckImplementsGraph == CheckSpec => GraphSpec
<1>1. CheckInit => GraphInit
  BY DEF CheckInit
<1>2. [CheckNext \/ (Checked /\ UNCHANGED <<allVars, markVars>>)]_<<allVars, markVars>>
        => [GraphNext \/ (Built /\ UNCHANGED allVars)]_allVars
  BY DEF CheckNext, SkipMark, CheckMark
<1> QED BY <1>1, <1>2, PTL DEF CheckSpec, GraphSpec

-----------------------------------------------------------------------------
(* The inductive invariant.                                                 *)

\* The names of a mark that are in the graph.
Supplied(i) == {x \in ParsedNames(marks[i]) : Requested(x)}
Behind == 1..(current - 1)

MarkTypeOK ==
  /\ marks \in Marks
  /\ current \in 1..(Len(marks) + 1)
  /\ unknown \subseteq Behind \X Names
  /\ repeated \subseteq Behind \X Names
  /\ shadowed \subseteq unknown
  /\ valuesChecked \subseteq Behind

\* What is remembered and reported says what the marks behind the current one are.
MarkReports ==
  /\ usedArgnames = UNION {Supplied(i) : i \in Behind}
  /\ \A i \in Behind : \A x \in Names :
       /\ <<i, x>> \in unknown <=> x \in ParsedNames(marks[i]) \ Supplied(i)
       /\ <<i, x>> \in repeated <=>
            x \in Supplied(i) /\ \E j \in 1..(i - 1) : x \in Supplied(j)
       /\ i \in valuesChecked <=> Readable(marks[i]) /\ Supplied(i) = ParsedNames(marks[i])

\* Parameters come from the marks, and marks are checked once the graph is built.
ForParameters ==
  \A k \in DOMAIN requests :
    requests[k].resolver = Param => requests[k].name \in input.parametrized

MarkGraph ==
  /\ input.parametrized = ParametrizedArgnames
  /\ current > 1 => Built
  /\ ForParameters

MarkInv == MarkTypeOK /\ MarkReports /\ MarkGraph

\* The types of what the marks left, from what it is made of.
LEMMA MarkTypes ==
  ASSUME MarkTypeOK
  PROVE  /\ Len(marks) \in Nat /\ DOMAIN marks = 1..Len(marks)
         /\ current \in Nat /\ Behind \subseteq DOMAIN marks
         /\ \A i \in DOMAIN marks : ParsedNames(marks[i]) \subseteq Names
<1>1. marks \in Seq(Mark)
  BY MarksAssumption DEF MarkTypeOK
<1>2. \A i \in DOMAIN marks : marks[i] \in Mark
  BY <1>1
<1>3. \A m \in Mark : ParsedNames(m) \subseteq Names
  BY DEF Mark, ParsedNames, Readable, Elements
<1>4. Len(marks) \in Nat /\ DOMAIN marks = 1..Len(marks)
  BY <1>1
<1>5. current \in Nat /\ Behind \subseteq DOMAIN marks
  BY <1>4 DEF MarkTypeOK, Behind
<1> QED BY <1>2, <1>3, <1>4, <1>5

\* No mark is behind at the start.
LEMMA MarkInit == CheckInit => MarkInv
<1> SUFFICES ASSUME CheckInit PROVE MarkInv
  OBVIOUS
<1> USE DEF CheckInit, GraphInit
<1>1. marks \in Seq(Mark)
  BY MarksAssumption
<1>2. current \in 1..(Len(marks) + 1) /\ Behind = {}
  BY <1>1 DEF Behind
<1> QED BY <1>2 DEF MarkInv, MarkTypeOK, MarkReports, MarkGraph, ForParameters

\* A step of the graph: only a request is added, for which a parameter is the answer just
\* when its name is one.
LEMMA GraphKeepsMarks ==
  ASSUME GraphInv, MarkInv, GraphNext, UNCHANGED markVars, ~ Built
  PROVE  MarkInv'
<1>1. current = 1 /\ Behind = {} /\ Behind' = {}
  BY MarkTypes DEF MarkInv, MarkGraph, Behind, markVars, MarkTypeOK
<1>2. input' = input
  BY InputConstant
<1>3. \A x : (Resolver(x) = Param) => x \in input.parametrized
  BY DEF Resolver, Param, Missing
<1>4. ForParameters'
  <2>1. CASE requests' = requests
    BY <1>2, <2>1 DEF MarkInv, MarkGraph, ForParameters
  <2>2. ASSUME NEW node \in Request, NEW rest, AddRequest(node, rest)
        PROVE  ForParameters'
    <3>1. requests \in Seq(Request)
      BY DEF GraphInv, Shape, RequestsOK
    <3> DEFINE new == [node EXCEPT !.resolver = Resolver(node.name)]
    <3>2. new.name = node.name /\ new.resolver = Resolver(node.name)
      BY DEF Request
    <3>3. requests' = Append(requests, new)
      BY <2>2 DEF AddRequest
    <3> HIDE DEF new
    <3>4. ASSUME NEW k \in DOMAIN requests'
          PROVE  (k \in DOMAIN requests /\ requests'[k] = requests[k]) \/ requests'[k] = new
      BY <3>1, <3>3
    <3> QED BY <1>2, <1>3, <3>2, <3>4 DEF MarkInv, MarkGraph, ForParameters
  <2>3. CASE ResolveNext /\ UNCHANGED graphVars
    BY <2>1, <2>3 DEF graphVars
  <2>4. CASE ReturnFromFixture
    BY <2>1, <2>4 DEF ReturnFromFixture
  <2>5. CASE ResolveOriginal
    <3>1. next \in DOMAIN OriginalRequests
      BY <2>5, OriginalType DEF GraphInv, ResolveInv, ResolveOriginal, AtOriginal, Shape
    <3>2. OriginalRequests[next] \in Request
      BY <3>1, OriginalType DEF GraphInv, ResolveInv
    <3> QED BY <2>2, <2>5, <3>2 DEF ResolveOriginal
  <2>6. CASE ResolveArgument
    <3>1. ArgumentNode \in Request
      BY <2>6, ArgumentNodeType, TopType DEF GraphInv, ResolveInv, ResolveArgument, AtArgument
    <3> QED BY <2>2, <2>6, <3>1 DEF ResolveArgument
  <2> QED BY <2>3, <2>4, <2>5, <2>6 DEF GraphNext
<1>5. MarkTypeOK'
  BY <1>1 DEF MarkInv, MarkTypeOK, markVars
<1>6. MarkReports'
  BY <1>1 DEF MarkInv, MarkReports, markVars
<1>7. MarkGraph'
  BY <1>1, <1>2, <1>4 DEF MarkInv, MarkGraph, ParametrizedArgnames, markVars
<1> QED BY <1>5, <1>6, <1>7 DEF MarkInv

\* Behind a mark, what was said of those before it stays true.
LEMMA MarkAhead ==
  ASSUME MarkInv, AtMark, UNCHANGED allVars, marks' = marks, current' = current + 1
  PROVE  /\ current \in DOMAIN marks /\ current \in Nat /\ current \notin Behind
         /\ current' \in 1..(Len(marks) + 1) /\ Behind' = Behind \cup {current}
         /\ \A i : Supplied(i)' = Supplied(i)
         /\ MarkGraph'
<1>1. current \in 1..Len(marks) /\ Len(marks) \in Nat /\ DOMAIN marks = 1..Len(marks)
  BY MarkTypes DEF MarkInv, MarkTypeOK, AtMark
<1>2. current' \in 1..(Len(marks) + 1) /\ Behind' = Behind \cup {current} /\ current \notin Behind
  BY <1>1 DEF Behind
<1>3. \A i : Supplied(i)' = Supplied(i)
  BY DEF Supplied, Requested, ParsedNames, Readable, Elements, allVars, graphVars
<1>4. MarkGraph'
  <2>1. input' = input /\ requests' = requests
    BY DEF allVars, graphVars, resolveVars
  <2>2. ParametrizedArgnames' = ParametrizedArgnames
    BY DEF ParametrizedArgnames, ParsedNames, Readable, Elements
  <2>3. Built'
    BY DEF AtMark, Built, Resolved, OriginalRequests, allVars, graphVars, resolveVars
  <2> QED BY <2>1, <2>2, <2>3 DEF MarkInv, MarkGraph, ForParameters
<1> QED BY <1>1, <1>2, <1>3, <1>4

\* A mark that cannot be read supplies nothing.
LEMMA SkipKeepsMarks ==
  ASSUME MarkInv, SkipMark
  PROVE  MarkInv'
<1>1. AtMark /\ UNCHANGED allVars /\ marks' = marks /\ current' = current + 1
      /\ UNCHANGED <<usedArgnames, unknown, shadowed, repeated, valuesChecked>>
      /\ ~ Readable(marks[current])
  BY DEF SkipMark
<1>2. /\ current \in DOMAIN marks /\ current \in Nat /\ current \notin Behind
      /\ current' \in 1..(Len(marks) + 1) /\ Behind' = Behind \cup {current}
      /\ \A i : Supplied(i)' = Supplied(i)
      /\ MarkGraph'
  BY <1>1, MarkAhead
<1>3. Supplied(current) = {} /\ ParsedNames(marks[current]) = {}
  BY <1>1 DEF Supplied, ParsedNames
<1>4. MarkTypeOK'
  BY <1>1, <1>2 DEF MarkInv, MarkTypeOK
<1>5. MarkReports'
  <2>1. usedArgnames' = UNION {Supplied(i) : i \in Behind'}
    BY <1>1, <1>2, <1>3 DEF MarkInv, MarkReports
  <2>2. \A x : <<current, x>> \notin unknown \cup repeated
    BY <1>2 DEF MarkInv, MarkTypeOK
  <2>3. current \notin valuesChecked
    BY <1>2 DEF MarkInv, MarkTypeOK
  <2>4. ASSUME NEW i \in Behind', NEW x \in Names
        PROVE  /\ <<i, x>> \in unknown' <=> x \in ParsedNames(marks[i]) \ Supplied(i)
               /\ <<i, x>> \in repeated' <=>
                    x \in Supplied(i) /\ \E j \in 1..(i - 1) : x \in Supplied(j)
               /\ i \in valuesChecked' <=>
                    Readable(marks[i]) /\ Supplied(i) = ParsedNames(marks[i])
    <3>1. CASE i \in Behind
      BY <1>1, <3>1 DEF MarkInv, MarkReports
    <3>2. CASE i = current
      BY <1>1, <1>3, <2>2, <2>3, <3>2
    <3> QED BY <1>2, <3>1, <3>2
  <2>5. \A i : ParsedNames(marks[i])' = ParsedNames(marks[i])
               /\ Readable(marks[i])' = Readable(marks[i])
    BY <1>1 DEF ParsedNames, Readable, Elements
  <2> QED BY <1>2, <2>1, <2>4, <2>5 DEF MarkReports
<1> QED BY <1>2, <1>4, <1>5 DEF MarkInv

\* A mark that can be read supplies the names that are in the graph.
LEMMA CheckKeepsMarks ==
  ASSUME MarkInv, CheckMark
  PROVE  MarkInv'
<1>1. AtMark /\ UNCHANGED allVars /\ marks' = marks /\ current' = current + 1
      /\ Readable(marks[current])
  BY DEF CheckMark
<1>2. /\ current \in DOMAIN marks /\ current \in Nat /\ current \notin Behind
      /\ current' \in 1..(Len(marks) + 1) /\ Behind' = Behind \cup {current}
      /\ \A i : Supplied(i)' = Supplied(i)
      /\ MarkGraph'
  BY <1>1, MarkAhead
<1>3. /\ KnownNames = Supplied(current)
      /\ UnknownNames = ParsedNames(marks[current]) \ Supplied(current)
      /\ ParsedNames(marks[current]) \subseteq Names
  BY <1>2, MarkTypes DEF KnownNames, UnknownNames, Supplied, MarkInv
<1>4. /\ unknown' = unknown \cup ({current} \X UnknownNames)
      /\ shadowed' = shadowed \cup ({current} \X (UnknownNames \cap DOMAIN available))
      /\ repeated' = repeated \cup ({current} \X (KnownNames \cap usedArgnames))
      /\ usedArgnames' = usedArgnames \cup KnownNames
      /\ valuesChecked' = IF UnknownNames = {} THEN valuesChecked \cup {current}
                                               ELSE valuesChecked
  BY DEF CheckMark, Remembered
<1>5. KnownNames \subseteq Names /\ UnknownNames \subseteq Names
  BY <1>3 DEF KnownNames, UnknownNames
<1>6. MarkTypeOK'
  BY <1>1, <1>2, <1>4, <1>5 DEF MarkInv, MarkTypeOK
<1>7. MarkReports'
  <2>1. usedArgnames' = UNION {Supplied(i) : i \in Behind'}
    BY <1>2, <1>3, <1>4 DEF MarkInv, MarkReports
  <2>2. \A x : <<current, x>> \notin unknown \cup repeated
    BY <1>2 DEF MarkInv, MarkTypeOK
  <2>3. current \notin valuesChecked
    BY <1>2 DEF MarkInv, MarkTypeOK
  <2>4. ASSUME NEW i \in Behind', NEW x \in Names
        PROVE  /\ <<i, x>> \in unknown' <=> x \in ParsedNames(marks[i]) \ Supplied(i)
               /\ <<i, x>> \in repeated' <=>
                    x \in Supplied(i) /\ \E j \in 1..(i - 1) : x \in Supplied(j)
               /\ i \in valuesChecked' <=>
                    Readable(marks[i]) /\ Supplied(i) = ParsedNames(marks[i])
    <3>1. CASE i \in Behind
      <4>1. i # current
        BY <1>2, <3>1
      <4>2. /\ <<i, x>> \in unknown' <=> <<i, x>> \in unknown
            /\ <<i, x>> \in repeated' <=> <<i, x>> \in repeated
            /\ i \in valuesChecked' <=> i \in valuesChecked
        BY <1>4, <4>1
      <4> QED BY <3>1, <4>2 DEF MarkInv, MarkReports
    <3>2. CASE i = current
      <4>1. <<current, x>> \in unknown' <=> x \in UnknownNames
        BY <1>4, <2>2
      <4>2. <<current, x>> \in repeated' <=> x \in KnownNames \cap usedArgnames
        BY <1>4, <2>2
      <4>3. x \in usedArgnames <=> \E j \in 1..(current - 1) : x \in Supplied(j)
        BY DEF MarkInv, MarkReports, Behind
      <4>4. current \in valuesChecked' <=> UnknownNames = {}
        BY <1>4, <2>3
      <4>5. UnknownNames = {} <=> Supplied(current) = ParsedNames(marks[current])
        BY <1>3 DEF Supplied
      <4> QED BY <1>1, <1>3, <3>2, <4>1, <4>2, <4>3, <4>4, <4>5
    <3> QED BY <1>2, <3>1, <3>2
  <2>5. \A i : ParsedNames(marks[i])' = ParsedNames(marks[i])
               /\ Readable(marks[i])' = Readable(marks[i])
    BY <1>1 DEF ParsedNames, Readable, Elements
  <2> QED BY <1>2, <2>1, <2>4, <2>5 DEF MarkReports
<1> QED BY <1>2, <1>6, <1>7 DEF MarkInv

-----------------------------------------------------------------------------

\* The invariants of the graph and of the marks hold throughout.
LEMMA MarkInvariance == CheckSpec => [](GraphInv /\ MarkInv)
<1>1. GraphInv /\ MarkInv
        /\ [CheckNext \/ (Checked /\ UNCHANGED <<allVars, markVars>>)]_<<allVars, markVars>>
      => MarkInv'
  <2> SUFFICES ASSUME GraphInv, MarkInv,
                      [CheckNext \/ (Checked /\ UNCHANGED <<allVars, markVars>>)]_<<allVars, markVars>>
               PROVE  MarkInv'
    OBVIOUS
  <2>1. CASE CheckNext
    BY <2>1, MarkStep, GraphKeepsMarks, SkipKeepsMarks, CheckKeepsMarks
  <2>2. CASE UNCHANGED <<allVars, markVars>>
    <3>1. /\ UNCHANGED <<input, queue, extending, next, stack, requests>>
          /\ UNCHANGED <<marks, current, usedArgnames, unknown, shadowed, repeated, valuesChecked>>
      BY <2>2 DEF allVars, graphVars, resolveVars, markVars
    <3>2. MarkTypeOK'
      BY <3>1 DEF MarkInv, MarkTypeOK, Behind
    <3>3. \A i : /\ ParsedNames(marks[i])' = ParsedNames(marks[i])
                 /\ Readable(marks[i])' = Readable(marks[i])
      BY <3>1 DEF ParsedNames, Readable, Elements
    <3>4. \A i : Supplied(i)' = Supplied(i)
      BY <3>1, <3>3 DEF Supplied, Requested
    <3>5. MarkReports'
      BY <3>1, <3>3, <3>4 DEF MarkInv, MarkReports, Behind
    <3>6. MarkGraph'
      <4>1. ParametrizedArgnames' = ParametrizedArgnames
        BY <3>1, <3>3 DEF ParametrizedArgnames
      <4>2. Built' <=> Built
        BY <3>1 DEF Built, Resolved, OriginalRequests
      <4> QED BY <3>1, <4>1, <4>2 DEF MarkInv, MarkGraph, ForParameters
    <3> QED BY <3>2, <3>5, <3>6 DEF MarkInv
  <2> QED BY <2>1, <2>2
<1> QED BY <1>1, MarkInit, CheckImplementsGraph, GraphInvariance, PTL DEF CheckSpec

\* The variables of the check keep their types, for any tests and marks.
THEOREM CheckTypeCorrect == CheckSpec => []CheckTypeOK
<1>1. GraphTypeOK /\ MarkInv => CheckTypeOK
  <2> SUFFICES ASSUME GraphTypeOK, MarkInv PROVE CheckTypeOK
    OBVIOUS
  <2>1. Behind \subseteq DOMAIN marks
    BY MarkTypes DEF MarkInv
  <2>2. usedArgnames \subseteq input.parametrized
    BY <2>1 DEF MarkInv, MarkReports, MarkGraph, Supplied, ParametrizedArgnames
  <2>3. repeated \subseteq (DOMAIN marks) \X usedArgnames
    <3>1. ASSUME NEW i \in Behind, NEW x \in Names, <<i, x>> \in repeated
          PROVE  <<i, x>> \in (DOMAIN marks) \X usedArgnames
      BY <2>1, <3>1 DEF MarkInv, MarkReports
    <3>2. repeated \subseteq Behind \X Names
      BY DEF MarkInv, MarkTypeOK
    <3> QED BY <3>1, <3>2
  <2>4. unknown \subseteq (DOMAIN marks) \X Names
    <3>1. unknown \subseteq Behind \X Names
      BY DEF MarkInv, MarkTypeOK
    <3> QED BY <2>1, <3>1
  <2>5. marks \in Marks /\ current \in 1..(Len(marks) + 1) /\ shadowed \subseteq unknown
        /\ valuesChecked \subseteq DOMAIN marks
    BY <2>1 DEF MarkInv, MarkTypeOK
  <2> QED BY <2>2, <2>3, <2>4, <2>5 DEF CheckTypeOK
<1> QED BY <1>1, MarkInvariance, CheckImplementsGraph, GraphTypeCorrect, PTL

\* Of the marks that supply a parameter all but the first are reported, however many there
\* are and whatever marks stand in between.
THEOREM RepeatedIsReportedCorrect == CheckSpec => []RepeatedIsReported
<1>1. MarkInv => RepeatedIsReported
  <2> SUFFICES ASSUME MarkInv, NEW i \in 1..(current - 1), NEW x \in ParsedNames(marks[i])
               PROVE  <<i, x>> \in repeated <=>
                        /\ \E j \in 1..(i - 1) : x \in ParsedNames(marks[j])
                        /\ <<i, x>> \notin unknown
    BY DEF RepeatedIsReported
  <2>1. i \in Behind /\ x \in Names
    BY MarkTypes DEF MarkInv, Behind
  <2>2. \A j : x \in Supplied(j) <=> x \in ParsedNames(marks[j]) /\ Requested(x)
    BY DEF Supplied
  <2> QED BY <2>1, <2>2 DEF MarkInv, MarkReports
<1> QED BY <1>1, MarkInvariance, PTL

\* A test without reports has each parameter that anything requests from exactly one mark,
\* one whose values were checked.
THEOREM SilentIsSuppliedCorrect == CheckSpec => []SilentIsSupplied
<1>1. GraphInv /\ MarkInv => SilentIsSupplied
  <2> SUFFICES ASSUME GraphInv, MarkInv, Checked, unknown = {}, repeated = {},
                      NEW k \in DOMAIN requests, requests[k].resolver = Param
               PROVE  Cardinality({i \in valuesChecked :
                                     requests[k].name \in ParsedNames(marks[i])}) = 1
    BY DEF SilentIsSupplied
  <2> DEFINE x == requests[k].name
             Suppliers == {i \in valuesChecked : x \in ParsedNames(marks[i])}
  <2>1. x \in Names /\ Requested(x)
    <3>1. requests[k] \in Request
      BY DEF GraphInv, Shape, RequestsOK
    <3> QED BY <3>1 DEF Request, Requested
  <2>2. Behind = DOMAIN marks /\ Behind \subseteq Nat
    BY MarkTypes DEF Checked, MarkInv, MarkTypeOK, Behind
  <2>3. \A i \in Behind : x \in Supplied(i) <=> x \in ParsedNames(marks[i])
    BY <2>1 DEF Supplied
  <2>4. PICK i \in Behind : x \in ParsedNames(marks[i])
    BY <2>2 DEF MarkInv, MarkGraph, ForParameters, ParametrizedArgnames
  <2>5. i \in Suppliers
    <3>1. Readable(marks[i])
      BY <2>4 DEF ParsedNames
    <3>2. ParsedNames(marks[i]) \subseteq Names
      BY <2>2, MarkTypes DEF MarkInv
    <3>3. Supplied(i) = ParsedNames(marks[i])
      BY <3>2 DEF MarkInv, MarkReports, Supplied
    <3> QED BY <2>1, <2>4, <3>1, <3>3 DEF MarkInv, MarkReports
  <2>6. ASSUME NEW a \in Suppliers, NEW b \in Suppliers PROVE ~ (a < b)
    <3>1. a \in Behind /\ b \in Behind
      BY DEF MarkInv, MarkTypeOK
    <3>2. x \in Supplied(a) /\ x \in Supplied(b)
      BY <2>3, <3>1
    <3>3. ~ \E j \in 1..(b - 1) : x \in Supplied(j)
      BY <2>1, <3>1, <3>2 DEF MarkInv, MarkReports
    <3> QED BY <2>2, <3>1, <3>2, <3>3 DEF Behind
  <2>7. Suppliers = {i}
    <3>1. Suppliers \subseteq Nat
      BY <2>2 DEF MarkInv, MarkTypeOK
    <3> QED BY <2>5, <2>6, <3>1
  <2> HIDE DEF Suppliers
  <2>8. Cardinality(Suppliers) = 1
    BY <2>7, FS_Singleton
  <2> QED BY <2>8 DEF Suppliers
<1> QED BY <1>1, MarkInvariance, PTL

-----------------------------------------------------------------------------
(* Which names are requested.                                               *)

\* What is behind is requested: the first of the requests of the test, and the arguments of
\* fixtures that were followed so far.
RootsRequested == \A i \in DOMAIN OriginalRequests : i < next => Requested(OriginalRequests[i].name)
ArgumentsRequested ==
  \A f \in visited : \A j \in DOMAIN Arguments(f) :
    \/ Requested(Arguments(f)[j])
    \/ \E k \in DOMAIN stack : stack[k].fixture = f /\ stack[k].argument <= j

\* With a name its nearest fixture is followed.
NearestVisited ==
  \A x \in Names \ input.parametrized :
    Requested(x) => x \in DOMAIN available /\ (available[x] # <<>> => <<x, 1>> \in visited)

\* Nothing is requested but what every set has that has the names needed.
Needs(y) == IF y \in input.parametrized THEN {} ELSE ArgumentsOf(y)
NeededOnly ==
  \A S \in SUBSET Names :
    (Roots \subseteq S /\ \A y \in S : Needs(y) \subseteq S) =>
      /\ \A k \in DOMAIN requests : requests[k].name \in S
      /\ \A f \in visited : f[1] \in S \ input.parametrized

RequestedInv == RootsRequested /\ ArgumentsRequested /\ NearestVisited /\ NeededOnly

\* The requests of the test name its roots.
LEMMA OriginalNames ==
  ASSUME ResolveTypeOK, NEW x \in Roots
  PROVE  \E i \in DOMAIN OriginalRequests : OriginalRequests[i].name = x
<1> DEFINE A == [i \in DOMAIN input.requests |->
                   Node(input.requests[i], "argument", TestName, "function", <<>>)]
           B == [i \in DOMAIN input.autouse |->
                   Node(input.autouse[i], "autouse", input.autouse[i], "function", <<>>)]
           N == {A[i] : i \in DOMAIN A} \cup {B[i] : i \in DOMAIN B}
<1>1. /\ input.requests \in Seq(Names) /\ input.autouse \in Seq(Names)
      /\ OriginalRequests = A \o B
  BY DEF ResolveTypeOK, Input, OriginalRequests
<1>2. /\ \A i \in DOMAIN A : A[i].name = input.requests[i]
      /\ \A i \in DOMAIN B : B[i].name = input.autouse[i]
      /\ DOMAIN A = DOMAIN input.requests /\ DOMAIN B = DOMAIN input.autouse
  BY DEF Node
<1>3. A \in Seq(N) /\ B \in Seq(N)
  <2>1. \A i \in 1..Len(input.requests) : A[i] \in N
    BY <1>1
  <2>2. \A i \in 1..Len(input.autouse) : B[i] \in N
    BY <1>1
  <2>3. /\ Len(input.requests) \in Nat /\ A = [i \in 1..Len(input.requests) |-> A[i]]
        /\ Len(input.autouse) \in Nat /\ B = [i \in 1..Len(input.autouse) |-> B[i]]
    BY <1>1
  <2> HIDE DEF A, B, N
  <2>4. A \in [1..Len(input.requests) -> N] /\ B \in [1..Len(input.autouse) -> N]
    BY <2>1, <2>2, <2>3
  <2> QED BY <2>3, <2>4, SeqDef
<1> HIDE DEF A, B, N
<1>4. Elements(OriginalRequests) = Elements(A) \cup Elements(B)
  BY <1>1, <1>3, ElementsConcat
<1>5. \E r \in Elements(A) \cup Elements(B) : r.name = x
  BY <1>2 DEF Roots, Elements
<1> QED BY <1>4, <1>5 DEF Elements

\* The first fixture of a name on the stack is the nearest of that name.
LEMMA NearestOnStack ==
  ASSUME Shape, StackLevels, NEW name, Level(name) # 1
  PROVE  <<name, 1>> \in visited
<1> DEFINE all == {k \in DOMAIN stack : stack[k].fixture[1] = name}
<1>1. stack \in Seq(Frame) /\ Len(stack) \in Nat /\ DOMAIN stack = 1..Len(stack)
  BY DEF Shape, StackOK
<1>2. all # {}
  <2>1. CASE all = {}
    <3>1. Cardinality(all) = 0
      BY <2>1, FS_EmptySet
    <3> QED BY <3>1 DEF Level
  <2> QED BY <2>1
<1>3. PICK p \in all : \A k \in all : p <= k
  <2>1. all \in SUBSET Nat
    BY <1>1
  <2> HIDE DEF all
  <2> QED BY <1>2, <2>1, LeastNumber
<1>4. p \in 1..Len(stack) /\ stack[p].fixture[1] = name
  BY <1>1
<1>5. {i \in 1..p : stack[i].fixture[1] = stack[p].fixture[1]} = {p}
  BY <1>1, <1>3, <1>4
<1>6. stack[p].fixture[2] = 1
  <2>1. stack[p].fixture[2] = Cardinality({p})
    BY <1>1, <1>4, <1>5 DEF StackLevels
  <2> QED BY <2>1, FS_Singleton
<1>7. stack[p].fixture \in visited /\ stack[p].fixture \in Names \X Nat
  BY <1>1, <1>4 DEF Shape, StackOK, Known
<1> QED BY <1>4, <1>6, <1>7

\* The fixture that answers a request is one of the fixtures of the name, and if there is one
\* the nearest is visited by then.
LEMMA NearestFollowed ==
  ASSUME GraphInv, StackLevels, NEW node \in Request, NEW rest, AddRequest(node, rest),
         CanLookUp(node.name), node.name \notin input.parametrized
  PROVE  /\ node.name \in DOMAIN available
         /\ available[node.name] # <<>> => <<node.name, 1>> \in visited'
<1>1. ResolveTypeOK /\ Shape
  BY DEF GraphInv, ResolveInv
<1>2. node.name \in DOMAIN available
  BY DEF CanLookUp
<1>3. visited \subseteq visited'
  BY DEF AddRequest
<1>4. ASSUME available[node.name] # <<>>, Level(node.name) = 1
      PROVE  <<node.name, 1>> \in visited'
  <2>1. available[node.name] \in Seq(Fixture)
    BY <1>1, <1>2 DEF ResolveTypeOK, Input
  <2>2. 1 <= Len(available[node.name])
    BY <1>4, <2>1
  <2>3. Resolver(node.name) = <<node.name, 1>>
    BY <1>4, <2>2 DEF Resolver
  <2>4. IsFixture(Resolver(node.name))
    BY <2>3 DEF IsFixture
  <2> QED BY <2>3, <2>4 DEF AddRequest
<1> QED BY <1>1, <1>2, <1>3, <1>4, NearestOnStack

\* Every step of the traversal keeps it.
LEMMA RequestedNext ==
  GraphInv /\ StackLevels /\ RequestedInv /\ [GraphNext]_allVars => RequestedInv'
<1> SUFFICES ASSUME GraphInv, StackLevels, RequestedInv, [GraphNext]_allVars
             PROVE  RequestedInv'
  OBVIOUS
<1>1. /\ ResolveTypeOK /\ Shape /\ stack \in Seq(Frame) /\ requests \in Seq(Request)
      /\ DOMAIN stack = 1..Len(stack) /\ Len(stack) \in Nat /\ next \in Nat
  BY OriginalType DEF GraphInv, ResolveInv, Shape, StackOK, RequestsOK
<1>2. input' = input /\ OriginalRequests' = OriginalRequests
  BY InputConstant
<1>3. Roots' = Roots /\ input' = input /\ \A y : Needs(y)' = Needs(y)
  BY <1>2 DEF Roots, Needs, ArgumentsOf, Elements
<1>4. CASE ResolveOriginal \/ ResolveArgument
  <2>1. PICK node \in Request :
          /\ OriginalStep(node) \/ ArgumentStep(node)
          /\ UNCHANGED resolveVars /\ CanLookUp(node.name)
          /\ Resolver(node.name) \in {Missing, Param} \cup (Names \X Nat)
    BY <1>4, RecordingSteps
  <2>2. PICK rest \in Seq(Frame) :
          /\ DOMAIN rest = DOMAIN stack
          /\ \A k \in DOMAIN stack :
               /\ rest[k].fixture = stack[k].fixture
               /\ rest[k].argument = stack[k].argument + (IF k = Len(stack) THEN 1 ELSE 0)
          /\ AddRequest(node, rest)
          /\ \/ stack' = rest /\ visited' = visited
             \/ /\ Resolver(node.name) = <<node.name, Level(node.name)>>
                /\ visited' = visited \cup {Resolver(node.name)}
                /\ DOMAIN stack' = DOMAIN stack \cup {Len(stack) + 1}
                /\ \A k \in DOMAIN stack : stack'[k] = rest[k]
                /\ stack'[Len(stack) + 1].fixture = Resolver(node.name)
                /\ stack'[Len(stack) + 1].argument = 1
    BY <1>4, <2>1, RecordingStack
  <2>3. /\ \A f : Arguments(f)' = Arguments(f)
        /\ UNCHANGED <<input, available>>
    BY <2>1 DEF Arguments, At, resolveVars
  <2>4. \A x : Requested(x)' <=> Requested(x) \/ x = node.name
    <3>1. /\ DOMAIN requests' = DOMAIN requests \cup {Len(requests) + 1}
          /\ \A k \in DOMAIN requests : requests'[k] = requests[k]
          /\ requests'[Len(requests) + 1].name = node.name
      BY <1>1, <2>1, <2>2, AddRequestAppends
    <3> QED BY <3>1 DEF Requested
  <2>5. RootsRequested'
    <3>1. CASE OriginalStep(node)
      <4>1. next' = next + 1 /\ next \in DOMAIN OriginalRequests
            /\ node = OriginalRequests[next]
        BY <3>1 DEF OriginalStep
      <4>2. \A i \in DOMAIN OriginalRequests : i < next + 1 => i < next \/ i = next
        BY <1>1, OriginalType
      <4> QED BY <1>2, <2>4, <4>1, <4>2 DEF RequestedInv, RootsRequested
    <3>2. CASE ArgumentStep(node)
      BY <1>2, <2>4, <3>2 DEF ArgumentStep, RequestedInv, RootsRequested
    <3> QED BY <2>1, <3>1, <3>2
  <2>6. ArgumentsRequested'
    <3> SUFFICES ASSUME NEW f \in visited', NEW j \in DOMAIN Arguments(f)
                 PROVE  \/ Requested(Arguments(f)[j])'
                        \/ \E k \in DOMAIN stack' :
                             stack'[k].fixture = f /\ stack'[k].argument <= j
      BY <2>3 DEF ArgumentsRequested
    <3>1. CASE f \in visited
      <4>1. CASE Requested(Arguments(f)[j])
        BY <2>3, <2>4, <4>1
      <4>2. ASSUME NEW k \in DOMAIN stack, stack[k].fixture = f, stack[k].argument <= j
            PROVE  \/ Requested(Arguments(f)[j])'
                   \/ \E l \in DOMAIN stack' :
                        stack'[l].fixture = f /\ stack'[l].argument <= j
        <5>1. stack[k].argument \in Nat /\ j \in Nat
          <6>1. stack[k] \in Frame
            BY <1>1
          <6>2. Arguments(f) \in Seq(Names)
            BY <1>1, <3>1, ArgumentsType DEF Shape
          <6> QED BY <6>1, <6>2 DEF Frame
        <5>2. k \in DOMAIN stack' /\ stack'[k] = rest[k]
          BY <2>2
        <5>3. CASE k # Len(stack) \/ stack[k].argument # j
          <6>1. rest[k].fixture = f /\ rest[k].argument <= j
            BY <2>2, <4>2, <5>1, <5>3
          <6> QED BY <5>2, <6>1
        <5>4. CASE k = Len(stack) /\ stack[k].argument = j
          <6>1. ArgumentStep(node)
            BY <1>1, <2>1, <5>4 DEF OriginalStep
          <6>2. node.name = Arguments(f)[j]
            BY <4>2, <5>4, <6>1, ArgumentNamed
          <6> QED BY <2>3, <2>4, <6>2
        <5> QED BY <5>3, <5>4
      <4> QED BY <3>1, <4>1, <4>2 DEF RequestedInv, ArgumentsRequested
    <3>2. CASE f \notin visited
      <4>1. j \in 1..Len(Arguments(f))
        <5>1. f \in Known
          <6>1. f = Resolver(node.name) /\ f = <<node.name, Level(node.name)>>
            BY <2>2, <3>2
          <6>2. IsFixture(Resolver(node.name))
            BY <6>1 DEF IsFixture
          <6> QED BY <1>1, <2>1, <6>1, <6>2, ResolverType DEF Request
        <5>2. Arguments(f) \in Seq(Names)
          BY <1>1, <5>1, ArgumentsType
        <5> QED BY <5>2
      <4> QED BY <2>2, <3>2, <4>1
    <3> QED BY <3>1, <3>2
  <2>7. NearestVisited'
    <3> SUFFICES ASSUME NEW x \in Names \ input.parametrized, Requested(x) \/ x = node.name
                 PROVE  x \in DOMAIN available
                        /\ (available[x] # <<>> => <<x, 1>> \in visited')
      BY <2>3, <2>4 DEF NearestVisited
    <3>1. visited \subseteq visited'
      BY <2>2
    <3>2. CASE x = node.name
      BY <2>1, <2>2, <3>2, NearestFollowed
    <3>3. CASE Requested(x)
      BY <3>1, <3>3 DEF RequestedInv, NearestVisited
    <3> QED BY <3>2, <3>3
  <2>8. NeededOnly'
    <3> SUFFICES ASSUME NEW S \in SUBSET Names, Roots \subseteq S,
                        \A y \in S : Needs(y) \subseteq S
                 PROVE  /\ \A k \in DOMAIN requests' : requests'[k].name \in S
                        /\ \A f \in visited' : f[1] \in S \ input.parametrized
      BY <1>3 DEF NeededOnly
    <3>1. /\ \A k \in DOMAIN requests : requests[k].name \in S
          /\ \A f \in visited : f[1] \in S \ input.parametrized
      BY DEF RequestedInv, NeededOnly
    <3>2. node.name \in S
      <4>1. CASE OriginalStep(node)
        BY <1>1, <4>1, OriginalType DEF OriginalStep
      <4>2. CASE ArgumentStep(node)
        <5>1. /\ node.name \in Elements(Arguments(Top.fixture))
              /\ Top.fixture \in visited /\ Top.fixture \in Known
          BY <1>1, <4>2, ArgumentNamed, TopType DEF ArgumentStep, AtArgument
        <5>2. node.name \in ArgumentsOf(Top.fixture[1])
          BY <1>1, <5>1, ArgumentsType
        <5>3. ArgumentsOf(Top.fixture[1]) = Needs(Top.fixture[1])
          BY <3>1, <5>1 DEF Needs
        <5> QED BY <3>1, <5>1, <5>2, <5>3
      <4> QED BY <2>1, <4>1, <4>2
    <3>3. /\ DOMAIN requests' = DOMAIN requests \cup {Len(requests) + 1}
          /\ \A k \in DOMAIN requests : requests'[k] = requests[k]
          /\ requests'[Len(requests) + 1].name = node.name
      BY <1>1, <2>1, <2>2, AddRequestAppends
    <3>4. ASSUME Resolver(node.name) = <<node.name, Level(node.name)>>
          PROVE  node.name \notin input.parametrized
      <4>1. Len(<<node.name, Level(node.name)>>) = 2 /\ Len(Param) = 1
        BY DEF Param
      <4> QED BY <3>4, <4>1 DEF Resolver
    <3>5. \A f \in visited' : f[1] \in S \ input.parametrized
      BY <2>2, <3>1, <3>2, <3>4
    <3> QED BY <3>1, <3>2, <3>3, <3>5
  <2> QED BY <2>5, <2>6, <2>7, <2>8 DEF RequestedInv
<1>5. CASE ~ (ResolveOriginal \/ ResolveArgument)
  <2>1. /\ UNCHANGED <<requests, visited, next>>
        /\ UNCHANGED available \/ requests = <<>>
        /\ UNCHANGED stack \/ ReturnFromFixture
    BY <1>5, OtherSteps
  <2>2. \A x : Requested(x)' <=> Requested(x)
    BY <2>1 DEF Requested
  <2>3. RootsRequested'
    BY <1>2, <2>1, <2>2 DEF RequestedInv, RootsRequested
  <2>4. NeededOnly'
    BY <1>3, <1>2, <2>1 DEF RequestedInv, NeededOnly
  <2>5. NearestVisited'
    BY <1>2, <2>1, <2>2 DEF RequestedInv, NearestVisited, Requested
  <2>6. ArgumentsRequested'
    <3>1. CASE ~ Resolved
      <4>1. visited' = {}
        BY <2>1, <3>1 DEF GraphInv, Waiting
      <4> QED BY <4>1 DEF ArgumentsRequested
    <3>2. CASE Resolved
      <4>1. \A f : Arguments(f)' = Arguments(f)
        <5>1. UNCHANGED resolveVars
          BY <1>1, <1>5, <3>2, NoMoreResolving DEF GraphNext, ReturnFromFixture, allVars
        <5> QED BY <5>1 DEF Arguments, At, resolveVars
      <4>2. CASE UNCHANGED stack
        BY <2>1, <2>2, <4>1, <4>2 DEF RequestedInv, ArgumentsRequested
      <4>3. CASE ReturnFromFixture
        <5>1. /\ stack # <<>> /\ Top.argument > Len(Arguments(Top.fixture))
              /\ stack' = SubSeq(stack, 1, Len(stack) - 1)
          BY <4>3 DEF ReturnFromFixture
        <5>2. /\ DOMAIN stack' = 1..(Len(stack) - 1)
              /\ \A k \in DOMAIN stack' : stack'[k] = stack[k]
          BY <1>1, <4>3, <5>1, ReturnType DEF StackOK
        <5> SUFFICES ASSUME NEW f \in visited, NEW j \in DOMAIN Arguments(f),
                            NEW k \in DOMAIN stack,
                            stack[k].fixture = f, stack[k].argument <= j
                     PROVE  k \in DOMAIN stack'
          BY <2>1, <2>2, <4>1, <5>2 DEF RequestedInv, ArgumentsRequested
        <5>3. Arguments(f) \in Seq(Names) /\ stack[k].argument \in Nat
          <6>1. stack[k] \in Frame
            BY <1>1
          <6> QED BY <1>1, <6>1, ArgumentsType DEF Shape, Frame
        <5>4. k # Len(stack)
          BY <5>1, <5>3 DEF Top
        <5> QED BY <1>1, <5>2, <5>4
      <4> QED BY <2>1, <4>2, <4>3
    <3> QED BY <3>1, <3>2
  <2> QED BY <2>3, <2>4, <2>5, <2>6 DEF RequestedInv
<1> QED BY <1>4, <1>5

\* It holds throughout the traversal.
LEMMA RequestedInvariance == GraphSpec => []RequestedInv
<1>1. GraphInit => RequestedInv
  <2> SUFFICES ASSUME GraphInit PROVE RequestedInv
    OBVIOUS
  <2>1. next = 1 /\ stack = <<>> /\ requests = <<>> /\ visited = {} /\ input \in Input
    BY InputsAssumption DEF GraphInit, ResolveInit
  <2>2. RootsRequested
    <3>1. \A i \in DOMAIN OriginalRequests : ~ (i < 1)
      <4>1. Len(OriginalRequests) \in Nat /\ DOMAIN OriginalRequests = 1..Len(OriginalRequests)
        BY OriginalType, ResolveTypeInit DEF GraphInit
      <4> QED BY <4>1
    <3> QED BY <2>1, <3>1 DEF RootsRequested
  <2> QED BY <2>1, <2>2 DEF RequestedInv, ArgumentsRequested, NearestVisited, NeededOnly,
                            Requested
<1>2. GraphInv /\ DepthFirst /\ RequestedInv
        /\ [GraphNext \/ (Built /\ UNCHANGED allVars)]_allVars => RequestedInv'
  BY RequestedNext DEF DepthFirst
<1> QED BY <1>1, <1>2, GraphInvariance, DepthFirstInvariance, PTL DEF GraphSpec

\* Of the names in marks those are reported as unknown that nothing requests.  None of them
\* is needed by the test through nearest fixtures, and every name is among them that is not
\* needed through fixtures at all.
THEOREM UnknownIsUnneededCorrect == CheckSpec => []UnknownIsUnneeded
<1>1. GraphInv /\ RequestedInv /\ MarkInv => UnknownIsUnneeded
  <2> SUFFICES ASSUME GraphInv, RequestedInv, MarkInv,
                      NEW i \in 1..(current - 1), NEW x \in ParsedNames(marks[i])
               PROVE  /\ <<i, x>> \in unknown => x \notin Reached(NearestOnly)
                      /\ x \notin Reached(Elements) => <<i, x>> \in unknown
    BY DEF UnknownIsUnneeded
  <2>0. ResolveTypeOK /\ Shape
    BY DEF GraphInv, ResolveInv
  <2>1. i \in Behind /\ x \in Names /\ Built
    <3>1. current > 1
      BY MarkTypes DEF MarkInv
    <3> QED BY <3>1, MarkTypes DEF MarkInv, MarkGraph, Behind
  <2>2. <<i, x>> \in unknown <=> ~ Requested(x)
    BY <2>1 DEF MarkInv, MarkReports, Supplied
  <2>3. ASSUME x \in Reached(NearestOnly) PROVE Requested(x)
    <3> DEFINE S == {y \in Names : Requested(y)}
    <3>1. Roots \subseteq S
      <4> SUFFICES ASSUME NEW r \in Roots PROVE r \in Names /\ Requested(r)
        OBVIOUS
      <4>1. PICK j \in DOMAIN OriginalRequests : OriginalRequests[j].name = r
        BY <2>0, OriginalNames
      <4>2. j < next /\ r \in Names
        <5>1. next > Len(OriginalRequests) /\ next \in Nat
          BY <2>0, <2>1, OriginalType DEF Built, Shape
        <5>2. OriginalRequests[j] \in Request /\ j <= Len(OriginalRequests)
              /\ j \in Nat /\ Len(OriginalRequests) \in Nat
          BY <2>0, OriginalType
        <5> QED BY <4>1, <5>1, <5>2 DEF Request
      <4> QED BY <4>1, <4>2 DEF RequestedInv, RootsRequested
    <3>2. ASSUME NEW y \in S PROVE NamesBehind(NearestOnly, y) \subseteq S
      <4>1. CASE y \in input.parametrized
        BY <4>1 DEF NamesBehind
      <4>2. CASE y \notin input.parametrized
        <5> SUFFICES ASSUME NEW f \in NearestOnly(input.fixtures[y]),
                            NEW z \in Elements(f.arguments)
                     PROVE  z \in Names /\ Requested(z)
          BY <4>2 DEF NamesBehind
        <5>1. /\ y \in DOMAIN available
              /\ available[y] # <<>> => <<y, 1>> \in visited
          BY <4>2 DEF RequestedInv, NearestVisited
        <5>2. available[y] = input.fixtures[y]
          BY <2>0, <5>1 DEF ResolveTypeOK
        <5>3. 1 \in DOMAIN available[y] /\ f = available[y][1]
          BY <5>2 DEF NearestOnly
        <5>4. <<y, 1>> \in visited /\ f.arguments = Arguments(<<y, 1>>)
          BY <5>1, <5>3 DEF Arguments, At
        <5>5. PICK j \in DOMAIN Arguments(<<y, 1>>) : z = Arguments(<<y, 1>>)[j]
          BY <5>4 DEF Elements
        <5>6. Requested(z)
          BY <2>1, <5>4, <5>5 DEF RequestedInv, ArgumentsRequested, Built
        <5>7. Arguments(<<y, 1>>) \in Seq(Names)
          BY <2>0, <5>4, ArgumentsType DEF Shape
        <5> QED BY <5>5, <5>6, <5>7
      <4> QED BY <4>1, <4>2
    <3>3. S \in SUBSET Names
      OBVIOUS
    <3> HIDE DEF S
    <3>4. x \in S
      BY <2>3, <3>1, <3>2, <3>3 DEF Reached
    <3> QED BY <3>4 DEF S
  <2>4. ASSUME x \notin Reached(Elements) PROVE ~ Requested(x)
    <3>1. \A y : Needs(y) = NamesBehind(Elements, y)
      BY DEF Needs, NamesBehind, ArgumentsOf
    <3>2. PICK S \in SUBSET Names :
            /\ Roots \subseteq S /\ \A y \in S : NamesBehind(Elements, y) \subseteq S
            /\ x \notin S
      BY <2>1, <2>4 DEF Reached
    <3> QED BY <3>1, <3>2 DEF RequestedInv, NeededOnly, Requested
  <2> QED BY <2>2, <2>3, <2>4
<1> QED BY <1>1, GraphInvariance, RequestedInvariance, MarkInvariance, CheckImplementsGraph, PTL

=============================================================================
