-------------------------- MODULE Parametrization --------------------------
(***************************************************************************)
(* TestInfo.check: which names do the parametrize marks of a test supply?  *)
(*                                                                         *)
(* The names of all marks that can be read go into the request graph as    *)
(* parametrized, where nothing behind them is followed.  Then the marks    *)
(* are checked one after the other: a name nobody requests is unknown, a   *)
(* name some earlier mark supplies is repeated, and the values of a mark   *)
(* without unknown names are checked against the types of the requests.    *)
(***************************************************************************)
EXTENDS RequestGraph

CONSTANT Marks   \* the marks of the tests considered, see Mark

\* The names written in a mark; InvalidName stands for one that is no identifier, a
\* keyword, "request" or not known as a literal.  At an item without a type (a starred one)
\* the parser raises instead, before any mark is checked or a graph is built: the check of
\* such a test never gets here, see WaitInCheck of DeferredChecking.
InvalidName == "?"
Mark == Seq(Names \cup {InvalidName})

ASSUME MarksAssumption == InvalidName \notin Names /\ Marks \subseteq Seq(Mark)

VARIABLES
  marks,          \* decorators: the parametrize marks of the test
  current,        \* the mark to check next
  usedArgnames,   \* _used_argnames
  unknown,        \* <<mark, name>> reported as "Unknown argname"
  shadowed,       \* those with the note "shadowed by another parameter"
  repeated,       \* <<mark, name>> reported as "Repeated argname"
  valuesChecked   \* marks whose values were checked

markVars == <<marks, current, usedArgnames, unknown, shadowed, repeated, valuesChecked>>

-----------------------------------------------------------------------------

\* ArgnamesParser.parse_names answers None unless the names are valid and distinct.
Readable(mark) ==
  /\ InvalidName \notin Elements(mark)
  /\ \A i, j \in DOMAIN mark : mark[i] = mark[j] => i = j

ParsedNames(mark) == IF Readable(mark) THEN Elements(mark) ELSE {}

ParametrizedArgnames == UNION {ParsedNames(marks[i]) : i \in DOMAIN marks}

CheckInit ==
  /\ GraphInit
  /\ marks \in Marks
  /\ input.parametrized = ParametrizedArgnames
  /\ current = 1
  /\ usedArgnames = {}
  /\ unknown = {} /\ shadowed = {} /\ repeated = {}
  /\ valuesChecked = {}

\* argname_types has the parametrized names that some request in the graph is for.
Requested(x) == \E k \in DOMAIN requests : requests[k].name = x

AtMark == Built /\ current <= Len(marks)

\* The parser has reported the mark, nothing else happens.
SkipMark ==
  /\ AtMark /\ ~ Readable(marks[current])
  /\ current' = current + 1
  /\ UNCHANGED <<allVars, marks, usedArgnames, unknown, shadowed, repeated, valuesChecked>>

\* The names that are in the graph, and those that are not.
KnownNames == {x \in ParsedNames(marks[current]) : Requested(x)}
UnknownNames == ParsedNames(marks[current]) \ KnownNames

\* A mistake: remembering the names of the last mark only.
RememberedOfLast(names) == names

\* _used_argnames.add
Remembered(names) == usedArgnames \cup names

\* _check_argnames_and_argvalues: the names, each on its own, then the values.
CheckMark ==
  /\ AtMark /\ Readable(marks[current])
  /\ unknown' = unknown \cup ({current} \X UnknownNames)
  /\ shadowed' = shadowed \cup ({current} \X (UnknownNames \cap DOMAIN available))
  /\ repeated' = repeated \cup ({current} \X (KnownNames \cap usedArgnames))
  /\ usedArgnames' = Remembered(KnownNames)
  /\ valuesChecked' = IF UnknownNames = {} THEN valuesChecked \cup {current}
                                           ELSE valuesChecked
  /\ current' = current + 1
  /\ UNCHANGED <<allVars, marks>>

Checked == Built /\ current > Len(marks)

CheckNext == (GraphNext /\ UNCHANGED markVars) \/ SkipMark \/ CheckMark

CheckSpec ==
  /\ CheckInit
  /\ [][CheckNext \/ (Checked /\ UNCHANGED <<allVars, markVars>>)]_<<allVars, markVars>>
  /\ WF_<<allVars, markVars>>(CheckNext)

-----------------------------------------------------------------------------

\* Every variable has its type.
CheckTypeOK ==
  /\ GraphTypeOK
  /\ marks \in Marks
  /\ current \in 1..(Len(marks) + 1)
  /\ usedArgnames \subseteq input.parametrized
  /\ unknown \subseteq (DOMAIN marks) \X Names
  /\ shadowed \subseteq unknown
  /\ repeated \subseteq (DOMAIN marks) \X usedArgnames
  /\ valuesChecked \subseteq DOMAIN marks

\* The names that are needed when fixture lists are cut by Take and nothing behind a
\* parameter is needed: every set has them that has the roots and what is behind its names.
NamesBehind(Take(_), x) ==
  IF x \in input.parametrized THEN {}
  ELSE UNION {Elements(f.arguments) : f \in Take(input.fixtures[x])}
Reached(Take(_)) ==
  {x \in Names : \A S \in SUBSET Names :
     (Roots \subseteq S /\ \A y \in S : NamesBehind(Take, y) \subseteq S) => x \in S}

NearestOnly(fixtures) == {fixtures[i] : i \in DOMAIN fixtures \cap {1}}

\* "Unknown argname" is right: such a name cannot be requested by anything the test
\* needs, and every name that some nearest fixture needs is known.  The request graph
\* follows each fixture once and overridden ones only sometimes, so the two sides
\* leave a gap, but only for names behind an overridden fixture.
UnknownIsUnneeded ==
  \A i \in 1..(current - 1) : \A x \in ParsedNames(marks[i]) :
    /\ <<i, x>> \in unknown => x \notin Reached(NearestOnly)
    /\ x \notin Reached(Elements) => <<i, x>> \in unknown

\* A parameter is reported as repeated by every mark but the first that supplies it, which
\* is the topmost, farthest from the function, whatever marks stand in between.
RepeatedIsReported ==
  \A i \in 1..(current - 1) : \A x \in ParsedNames(marks[i]) :
    <<i, x>> \in repeated <=>
      /\ \E j \in 1..(i - 1) : x \in ParsedNames(marks[j])
      /\ <<i, x>> \notin unknown

\* A test without any report gets every value it asks for exactly once: each request
\* has a resolver, and each parametrized name comes from one mark with checked values.
SilentIsSupplied ==
  (Checked /\ unknown = {} /\ repeated = {} /\ Unresolved = {}) =>
    \A k \in DOMAIN requests :
      requests[k].resolver = Param =>
        Cardinality({i \in valuesChecked : requests[k].name \in ParsedNames(marks[i])}) = 1

\* The check of a test ends, however its fixtures request each other.
CheckEnds == <>Checked

=============================================================================
