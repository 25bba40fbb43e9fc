--------------------------- MODULE MarkValuesProofs ---------------------------
(* Theorems about MarkValues, for any marks and request graphs. *)
EXTENDS MarkValues, Counting

-----------------------------------------------------------------------------
(* The call of the mark.                                                    *)

\* What the mark's arguments are mapped to are actuals of the call.
LEMMA ReadActuals ==
  ASSUME NEW call, call \in Seq(Range(call))
  PROVE  LET mapping == NamedArgMapping(call, ParametrizeMarkDecorator) IN
         \A x \in DOMAIN mapping : mapping[x] \in DOMAIN call
<1> DEFINE callee == ParametrizeMarkDecorator
           mappings == [k \in DOMAIN callee.signatures |-> CallableMapping(call, Bound(callee)[k])]
           formals == Bound(callee)[1]
           kept(x) == {i \in DOMAIN call :
                         \E f \in DOMAIN formals :
                           /\ FormalsOf(call, formals, i) = {f}
                           /\ formals[f].kind \in AcceptedKinds
                           /\ formals[f].name = x}
<1>1. NamedArgMapping(call, callee) = Merged(mappings)
  BY DEF NamedArgMapping, ParametrizeMarkDecorator
<1>2. Head(mappings) = CallableMapping(call, formals)
  <2>1. DOMAIN callee.signatures = 1..1
    BY DEF ParametrizeMarkDecorator
  <2> QED BY <2>1
<1>3. \A x \in DOMAIN Merged(mappings) :
        x \in DOMAIN Head(mappings) /\ Merged(mappings)[x] = Head(mappings)[x]
  <2> HIDE DEF mappings
  <2> QED BY DEF Merged
<1>4. \A x \in DOMAIN CallableMapping(call, formals) :
        kept(x) # {} /\ CallableMapping(call, formals)[x] = Max(kept(x))
  <2> HIDE DEF formals
  <2> QED BY DEF CallableMapping
<1>5. ASSUME NEW x, kept(x) # {} PROVE Max(kept(x)) \in DOMAIN call
  <2>1. kept(x) \in SUBSET (1..Len(call)) /\ Len(call) \in Nat
    OBVIOUS
  <2> HIDE DEF kept
  <2>2. \E m \in kept(x) : \A k \in kept(x) : k <= m
    BY <1>5, <2>1, GreatestNumber
  <2>3. Max(kept(x)) \in kept(x)
    BY <2>1, <2>2 DEF Max
  <2> QED BY <2>1, <2>3
<1> HIDE DEF mappings, kept, formals, callee
<1> QED BY <1>1, <1>2, <1>3, <1>4, <1>5 DEF callee

-----------------------------------------------------------------------------
(* Types.                                                                   *)

\* Welcome(s, x): all who request x accept s.
Welcome(s, x) == \A r \in Range(requests) : r.name = x => s \subseteq r.type

\* What fits the type expected for a name is what all who request it accept.
LEMMA FitsExpected ==
  ASSUME \A k \in DOMAIN requests : AnyType \notin requests[k].type,
         NEW x, MetType(TypesFor(x)) # {}, NEW s, AnyType \notin s
  PROVE  Fits(s, Expected(TypesFor(x))) <=> Welcome(s, x)
<1>1. Expected(TypesFor(x)) = MetType(TypesFor(x))
  BY DEF Expected
<1>2. \A t \in TypesFor(x) : AnyType \notin t
  BY DEF TypesFor, Range
<1>3. MetType(TypesFor(x)) = {c \in UNION TypesFor(x) : \A t \in TypesFor(x) : c \in t}
  BY <1>2 DEF MetType
<1>4. AnyType \notin MetType(TypesFor(x)) /\ TypesFor(x) # {}
  BY <1>2, <1>3
<1>5. Fits(s, Expected(TypesFor(x))) <=> s \subseteq MetType(TypesFor(x))
  BY <1>1, <1>4 DEF Fits
<1>6. s \subseteq MetType(TypesFor(x)) <=> \A t \in TypesFor(x) : s \subseteq t
  BY <1>3, <1>4
<1>7. (\A t \in TypesFor(x) : s \subseteq t) <=> Welcome(s, x)
  BY DEF TypesFor, Welcome
<1> QED BY <1>5, <1>6, <1>7

\* Types that have something in common can be met.
LEMMA CommonIsMet ==
  ASSUME NEW x, TypesFor(x) # {}, NEW s, s # {}, Welcome(s, x)
  PROVE  MetType(TypesFor(x)) # {}
<1>1. \A t \in TypesFor(x) : s \subseteq t
  BY DEF TypesFor, Welcome
<1> QED BY <1>1 DEF MetType

-----------------------------------------------------------------------------
(* Cases.                                                                   *)

\* Read: the mark can be read, its names are all requested, and their types are met.
MarkRead ==
  /\ {"argnames", "argvalues"} \subseteq DOMAIN read
  /\ \A x \in DOMAIN read : read[x] \in DOMAIN mark.call
  /\ IsNames
  /\ types = [x \in Range(Names.names) |-> Expected(TypesFor(x))]
  /\ \A x \in Range(Names.names) : TypesFor(x) # {}

\* Fitting(k): the k-th case passes the check that is made of it.
Fitting(k) ==
  IF Values.form = "literal" THEN FitsCase(Values.cases[k]) ELSE FitsEntire(Values.cases[k])

\* Assigned(items): one item for each name, which all who request it accept.
Assigned(items) ==
  /\ Len(items) = Len(Names.names)
  /\ \A i \in DOMAIN Names.names : Welcome(items[i], Names.names[i])

\* What is read are names without repetition and cases.
LEMMA ReadExpressions ==
  ASSUME mark \in Marks, MarkRead, Values.is = "values"
  PROVE  /\ Names.names \in Seq(STRING)
         /\ DOMAIN Names.names = 1..Len(Names.names) /\ Len(Names.names) \in Nat
         /\ Names.string \in BOOLEAN
         /\ Values.cases \in Seq(Range(Values.cases))
         /\ Values.form \in {"literal", "starred", "opaque"}
         /\ \A k \in DOMAIN Values.cases : IsCase(Values.cases[k])
<1>1. IsExpr(Names) /\ Names.is = "names"
  BY MarksAssumption DEF MarkRead, IsNames, Names
<1>2. IsExpr(Values)
  BY MarksAssumption DEF MarkRead, Values
<1>3. Names.names \in Seq(STRING) /\ Names.string \in BOOLEAN
  BY <1>1 DEF IsExpr
<1> QED BY <1>2, <1>3 DEF IsExpr

\* The types of the arguments of the signature.
LEMMA ArgsAreExpected ==
  ASSUME mark \in Marks, MarkRead, Values.is = "values"
  PROVE  /\ Len(Args) = Len(Names.names) /\ DOMAIN Args = DOMAIN Names.names
         /\ \A i \in DOMAIN Names.names : Args[i] = Expected(TypesFor(Names.names[i]))
<1>1. DOMAIN Names.names = 1..Len(Names.names) /\ Len(Names.names) \in Nat
  BY ReadExpressions
<1>2. \A i \in DOMAIN Names.names : types[Names.names[i]] = Expected(TypesFor(Names.names[i]))
  BY DEF MarkRead, Range
<1> QED BY <1>1, <1>2 DEF Args

\* Met: the types requested for the names have something in common.
Met == \A x \in Range(Names.names) : MetType(TypesFor(x)) # {}

\* Items that fit the signature are those that are assigned to the names.
LEMMA FittingItems ==
  ASSUME mark \in Marks, MarkRead, Values.is = "values", Met, ~ Untyped,
         NEW items, \A i \in DOMAIN items : AnyType \notin items[i],
         DOMAIN items = 1..Len(items)
  PROVE  ItemsFit(items) <=> Assigned(items)
<1>1. \A k \in DOMAIN requests : AnyType \notin requests[k].type
  BY DEF Untyped
<1>2. ASSUME Len(items) = Len(Names.names), NEW i \in DOMAIN Names.names
      PROVE  Fits(items[i], Args[i]) <=> Welcome(items[i], Names.names[i])
  <2>1. AnyType \notin items[i]
    BY <1>2, ReadExpressions
  <2>2. MetType(TypesFor(Names.names[i])) # {}
    BY DEF Met, Range
  <2> QED BY <1>1, <2>1, <2>2, FitsExpected, ArgsAreExpected
<1> QED BY <1>2, ArgsAreExpected DEF ItemsFit, Assigned

\* The items of a case and the type of the whole.
LEMMA TypeOfCase ==
  ASSUME NEW c, IsCase(c)
  PROVE  /\ DOMAIN c.items = 1..Len(c.items) /\ Len(c.items) \in Nat
         /\ Whole(c) # {}
         /\ (\A j \in DOMAIN c.items : AnyType \notin c.items[j]) => AnyType \notin Whole(c)
<1>1. DOMAIN c.items = 1..Len(c.items) /\ Len(c.items) \in Nat
  BY DEF IsCase
<1>2. CASE c.shape = "value"
  <2>1. Len(c.items) = 1
    BY <1>2 DEF IsCase
  <2>2. 1 \in DOMAIN c.items
    BY <1>1, <2>1
  <2> QED BY <1>1, <1>2, <2>2 DEF IsCase, Whole
<1>3. CASE c.shape # "value"
  <2>1. c.shape # AnyType
    BY <1>3 DEF IsCase, Shapes, AnyType
  <2> QED BY <1>1, <1>3, <2>1 DEF Whole
<1> QED BY <1>2, <1>3

\* An expression that is no container of more is a value of its own type.
LEMMA FittingWhole ==
  ASSUME mark \in Marks, MarkRead, Values.is = "values", Met, ~ Untyped,
         NEW k \in DOMAIN Values.cases, ~ Unpacks
  PROVE  /\ AnyType \notin Whole(Values.cases[k])
         /\ Fits(Whole(Values.cases[k]), Args[1]) <=> Welcome(Whole(Values.cases[k]), Names.names[1])
<1> DEFINE c == Values.cases[k]
<1>1. IsCase(c)
  BY ReadExpressions
<1>2. AnyType \notin Whole(c)
  <2>1. \A j \in DOMAIN c.items : AnyType \notin c.items[j]
    BY DEF Untyped
  <2> QED BY <1>1, <2>1, TypeOfCase
<1>3. \A j \in DOMAIN requests : AnyType \notin requests[j].type
  BY DEF Untyped
<1>4. 1 \in DOMAIN Names.names
  BY ReadExpressions DEF Unpacks
<1>5. MetType(TypesFor(Names.names[1])) # {}
  BY <1>4 DEF Met, Range
<1> HIDE DEF c
<1>6. Fits(Whole(c), Args[1]) <=> Welcome(Whole(c), Names.names[1])
  BY <1>2, <1>3, <1>4, <1>5, FitsExpected, ArgsAreExpected
<1> QED BY <1>2, <1>6 DEF c

\* What is passed to the test for a case, and whether it is accepted there.
LEMMA TypedIsWelcome ==
  ASSUME mark \in Marks, MarkRead, Values.is = "values", NEW c
  PROVE  Typed(c) <=> \A i \in DOMAIN Names.names : Welcome(Passed(c)[i], Names.names[i])
BY DEF Typed, Welcome

\* A case that passes the check is taken apart into a value for each name that all who
\* request the name accept.
LEMMA FittingIsTyped ==
  ASSUME mark \in Marks, MarkRead, Values.is = "values", Met, ~ Untyped,
         NEW k \in DOMAIN Values.cases, Fitting(k)
  PROVE  (Takes(Values.cases[k]) /\ Typed(Values.cases[k])) \/ TakenAsItIs(Values.cases[k])
<1> DEFINE c == Values.cases[k]
<1>1. IsCase(c)
  BY ReadExpressions
<1>2. DOMAIN c.items = 1..Len(c.items) /\ Len(c.items) \in Nat
  BY <1>1, TypeOfCase
<1>3. ItemsFit(c.items) <=> Assigned(c.items)
  <2>1. \A j \in DOMAIN c.items : AnyType \notin c.items[j]
    BY DEF Untyped
  <2> QED BY <1>2, <2>1, FittingItems
<1>4. Len(Args) = Len(Names.names)
  BY ArgsAreExpected
<1>5. CASE Unpacks
  <2>1. FitsEntire(c) => AnyType \in Whole(c) \/ (c.shape \in {"tuple", "ParameterSet"} /\ ItemsFit(c.items))
    BY <1>4, <1>5 DEF FitsEntire, FitsManyItems, Unpacks
  <2>2. AnyType \notin Whole(c)
    <3>1. \A j \in DOMAIN c.items : AnyType \notin c.items[j]
      BY DEF Untyped
    <3> QED BY <1>1, <3>1, TypeOfCase
  <2>3. Fitting(k) => ItemsFit(c.items) /\ c.shape # "value"
    BY <1>1, <2>1, <2>2 DEF Fitting, FitsCase, IsCase
  <2>4. Passed(c) = c.items
    BY <1>5 DEF Passed
  <2> HIDE DEF c
  <2>5. Takes(c) /\ Typed(c)
    BY <1>3, <2>3, <2>4, TypedIsWelcome DEF Takes, Assigned
  <2> QED BY <2>5 DEF c
<1>6. CASE ~ Unpacks
  <2>1. Names.string /\ Len(Names.names) = 1 /\ DOMAIN Names.names = {1}
    BY <1>6, ReadExpressions DEF Unpacks
  <2>2. FitsEntire(c) => Fits(Whole(c), Args[1]) \/ (c.shape = "ParameterSet" /\ ItemsFit(c.items))
    BY <1>4, <2>1 DEF FitsEntire, FitsOneItem
  <2>3. Fits(Whole(c), Args[1]) <=> Welcome(Whole(c), Names.names[1])
    BY <1>6, FittingWhole
  <2>4. CASE c.shape = "ParameterSet" /\ ItemsFit(c.items)
    <3>1. Passed(c) = c.items
      BY <2>4 DEF Passed
    <3> HIDE DEF c
    <3>2. Takes(c) /\ Typed(c)
      BY <1>3, <1>6, <2>4, <3>1, TypedIsWelcome DEF Takes, Assigned
    <3> QED BY <3>2 DEF c
  <2>5. CASE c.shape # "ParameterSet"
    <3>1. Welcome(Whole(c), Names.names[1])
      BY <1>1, <1>4, <2>1, <2>2, <2>3, <2>5 DEF Fitting, FitsCase, IsCase
    <3>2. Passed(c) = <<Whole(c)>>
      BY <1>6, <2>5 DEF Passed
    <3> HIDE DEF c
    <3>3. Takes(c)
      BY <1>6, <2>1, <3>2 DEF Takes
    <3>4. Typed(c)
      BY <2>1, <3>1, <3>2, TypedIsWelcome
    <3> QED BY <3>3, <3>4 DEF c
  <2>6. CASE c.shape = "ParameterSet" /\ ~ ItemsFit(c.items)
    <3>1. FitsEntire(c) /\ (c.form = "param" => Values.form # "literal")
      BY <1>4, <2>1, <2>6 DEF Fitting, FitsCase
    <3>2. Welcome({"ParameterSet"}, Names.names[1])
      BY <2>2, <2>3, <2>6, <3>1 DEF Whole
    <3> HIDE DEF c
    <3>3. TakenAsItIs(c)
      BY <1>6, <2>6, <3>1, <3>2 DEF TakenAsItIs, Welcome
    <3> QED BY <3>3 DEF c
  <2> QED BY <2>4, <2>5, <2>6
<1> QED BY <1>5, <1>6

\* A case that pytest takes apart into such values passes the check, unless the plugin is
\* stricter by intention.
LEMMA TypedIsFitting ==
  ASSUME mark \in Marks, MarkRead, Values.is = "values", Met, ~ Untyped,
         NEW k \in DOMAIN Values.cases,
         Takes(Values.cases[k]), Typed(Values.cases[k]), ~ Strict(Values.cases[k])
  PROVE  Fitting(k)
<1> DEFINE c == Values.cases[k]
<1>1. IsCase(c) /\ Values.form \in {"literal", "starred", "opaque"}
  BY ReadExpressions
<1>2. DOMAIN c.items = 1..Len(c.items) /\ Len(c.items) \in Nat
  BY <1>1, TypeOfCase
<1>3. ItemsFit(c.items) <=> Assigned(c.items)
  <2>1. \A j \in DOMAIN c.items : AnyType \notin c.items[j]
    BY DEF Untyped
  <2> QED BY <1>2, <2>1, FittingItems
<1>4. Len(Args) = Len(Names.names)
  BY ArgsAreExpected
<1>5. Passed(c) = c.items => ItemsFit(c.items)
  <2> HIDE DEF c
  <2>1. Takes(c) /\ Typed(c)
    BY DEF c
  <2> QED BY <1>3, <2>1, TypedIsWelcome DEF Takes, Assigned
<1>6. CASE Unpacks
  <2>1. ItemsFit(c.items) /\ c.shape # "value"
    BY <1>5, <1>6 DEF Passed, Takes
  <2>2. FitsEntire(c) <=> FitsManyItems(c)
    BY <1>4, <1>6 DEF FitsEntire, Unpacks
  <2>3. c.shape # "set" /\ (c.shape = "list" =>
          c.form # "opaque" /\ Len(Names.names) # 1 /\ Values.form = "literal")
    BY <1>6 DEF Strict
  <2> QED BY <1>1, <1>4, <2>1, <2>2, <2>3 DEF Fitting, FitsCase, FitsManyItems, IsCase, Shapes
<1>7. CASE ~ Unpacks
  <2>1. Names.string /\ Len(Names.names) = 1 /\ DOMAIN Names.names = {1}
    BY <1>7, ReadExpressions DEF Unpacks
  <2>2. FitsEntire(c) <=> FitsOneItem(c)
    BY <1>4, <2>1 DEF FitsEntire
  <2>3. CASE c.shape = "ParameterSet"
    <3>1. ItemsFit(c.items)
      BY <1>5, <2>3 DEF Passed
    <3> QED BY <1>1, <1>4, <2>1, <2>2, <2>3, <3>1 DEF Fitting, FitsCase, FitsOneItem, IsCase
  <2>4. CASE c.shape # "ParameterSet"
    <3>1. Passed(c) = <<Whole(c)>>
      BY <1>7, <2>4 DEF Passed
    <3> HIDE DEF c
    <3>2. Welcome(Whole(c), Names.names[1])
      <4>1. Typed(c)
        BY DEF c
      <4> QED BY <2>1, <3>1, <4>1, TypedIsWelcome
    <3>3. Fits(Whole(c), Args[1])
      BY <1>7, <3>2, FittingWhole DEF c
    <3>4. FitsOneItem(c)
      BY <3>3 DEF FitsOneItem
    <3> QED BY <1>1, <1>4, <2>1, <2>2, <2>4, <3>4 DEF Fitting, FitsCase, IsCase, c
  <2> QED BY <2>3, <2>4
<1> QED BY <1>6, <1>7

\* If there is such a case, the types requested for the names can be met.
LEMMA TypedIsMet ==
  ASSUME mark \in Marks, MarkRead, Values.is = "values", NEW k \in DOMAIN Values.cases,
         Takes(Values.cases[k]), Typed(Values.cases[k])
  PROVE  Met
<1> DEFINE c == Values.cases[k]
<1>1. IsCase(c)
  BY ReadExpressions
<1>2. SUFFICES ASSUME NEW i \in DOMAIN Names.names
               PROVE  MetType(TypesFor(Names.names[i])) # {}
  BY DEF Met, Range
<1>3. i \in 1..Len(Names.names) /\ Len(Passed(c)) = Len(Names.names)
  BY ReadExpressions DEF Takes
<1>4. Passed(c)[i] # {}
  <2>1. CASE Passed(c) = c.items
    <3>1. i \in DOMAIN c.items
      BY <1>1, <1>3, <2>1 DEF IsCase
    <3> QED BY <1>1, <2>1, <3>1 DEF IsCase
  <2>2. CASE Passed(c) = <<Whole(c)>>
    <3>1. i = 1
      BY <1>3, <2>2
    <3>2. Whole(c) # {}
      BY <1>1, TypeOfCase
    <3> QED BY <2>2, <3>1, <3>2
  <2> QED BY <2>1, <2>2 DEF Passed
<1>5. Welcome(Passed(c)[i], Names.names[i])
  <2> HIDE DEF c
  <2>1. Typed(c)
    BY DEF c
  <2> QED BY <2>1, TypedIsWelcome
<1>6. TypesFor(Names.names[i]) # {}
  BY DEF MarkRead, Range
<1> QED BY <1>4, <1>5, <1>6, CommonIsMet

-----------------------------------------------------------------------------
(* The check of the mark.                                                   *)

\* Answered(k): what answers the k-th request has the type that is requested.
Answered(k) ==
  requests[k].fixture # <<>> => Fits(ReturnType(requests[k].fixture[1]), requests[k].type)

\* Something is wrong with the mark itself.
Faulty ==
  \/ ~ ({"argnames", "argvalues"} \subseteq DOMAIN read)
  \/ ~ IsNames
  \/ \E x \in Range(Names.names) : TypesFor(x) = {}
  \/ MarkRead /\ ~ Met
  \/ MarkRead /\ (Values.is # "values" \/ \E k \in DOMAIN Values.cases : ~ Fitting(k))

\* What is known at each stage: without a report all was right so far, and for each report
\* something is wrong.
ValuesInv ==
  /\ mark \in Marks /\ requests \in Requested
  /\ stage \in {"read", "names", "cases", "entire", "requests", "done"}
  /\ case \in Nat \ {0}
  /\ \A x \in DOMAIN read : read[x] \in DOMAIN mark.call
  /\ \A x \in DOMAIN types : types[x] # {} /\ \E k \in DOMAIN requests : requests[k].name = x
  /\ stage = "read" => read = <<>>
  /\ stage \in {"read", "names"} => reports = {} /\ case = 1
  /\ stage \in {"names", "cases", "entire"} => {"argnames", "argvalues"} \subseteq DOMAIN read
  /\ stage \in {"cases", "entire"} =>
       MarkRead /\ (stage = "cases" <=> Values.is = "values" /\ Values.form = "literal")
  /\ (stage \in {"cases", "entire", "requests", "done"} /\ reports = {}) => MarkRead /\ Met
  /\ (stage = "cases" /\ reports = {}) => \A k \in 1..(case - 1) : Fitting(k)
  /\ (stage \in {"requests", "done"} /\ reports = {}) =>
       Values.is = "values" /\ \A k \in DOMAIN Values.cases : Fitting(k)
  /\ (stage = "done" /\ reports = {}) => \A k \in DOMAIN requests : Answered(k)
  /\ \A r \in reports :
       Faulty \/ (r[1] = "fixture-arg-type" /\ r[2] \in DOMAIN requests /\ ~ Answered(r[2]))

\* Once the types are met, nothing that is asked of the mark changes.
LEMMA SameMark ==
  ASSUME UNCHANGED <<mark, requests, read, types>>
  PROVE  /\ MarkRead' = MarkRead /\ Met' = Met /\ Faulty' = Faulty /\ Values' = Values
         /\ \A k : Fitting(k)' = Fitting(k) /\ Answered(k)' = Answered(k)
<1>1. Names' = Names /\ Values' = Values /\ IsNames' = IsNames /\ Args' = Args
  BY DEF Names, Values, IsNames, Args
<1>2. \A x : TypesFor(x)' = TypesFor(x)
  BY DEF TypesFor
<1>3. \A c : FitsEntire(c)' = FitsEntire(c) /\ ItemsFit(c)' = ItemsFit(c)
  BY <1>1 DEF FitsEntire, FitsOneItem, FitsManyItems, ItemsFit
<1>4. \A k : Fitting(k)' = Fitting(k)
  BY <1>1, <1>3 DEF Fitting, FitsCase
<1>5. MarkRead' = MarkRead /\ Met' = Met
  BY <1>1, <1>2 DEF MarkRead, Met
<1>6. Faulty' = Faulty
  BY <1>1, <1>2, <1>4, <1>5 DEF Faulty
<1>7. \A k : Answered(k)' = Answered(k)
  BY DEF Answered
<1> QED BY <1>1, <1>4, <1>5, <1>6, <1>7

\* The reading of the mark.
LEMMA ReadMarkStep == ValuesInv /\ ReadMark => ValuesInv'
<1> SUFFICES ASSUME ValuesInv, ReadMark PROVE ValuesInv'
  OBVIOUS
<1> DEFINE mapping == NamedArgMapping(mark.call, ParametrizeMarkDecorator)
<1>1. \A x \in DOMAIN mapping : mapping[x] \in DOMAIN mark.call
  BY ReadActuals, MarksAssumption DEF ValuesInv
<1>2. /\ stage = "read" /\ reports = {} /\ case = 1 /\ read = <<>>
      /\ UNCHANGED <<mark, requests, types, case>>
  BY DEF ValuesInv, ReadMark, programVars
<1>3. CASE {"argnames", "argvalues"} \subseteq DOMAIN mapping
  <2>1. read' = mapping /\ stage' = "names" /\ reports' = reports
    BY <1>3 DEF ReadMark
  <2> HIDE DEF mapping
  <2> QED BY <1>1, <1>2, <1>3, <2>1 DEF ValuesInv
<1>4. CASE ~ ({"argnames", "argvalues"} \subseteq DOMAIN mapping)
  <2>1. reports' = {<<"unreadable-argnames-argvalues", 0>>} /\ stage' = "requests" /\ read' = read
    BY <1>4 DEF ReadMark
  <2>2. Faulty'
    <3>1. ~ ({"argnames", "argvalues"} \subseteq DOMAIN read')
      BY <1>2, <2>1
    <3> QED BY <3>1 DEF Faulty
  <2> HIDE DEF mapping
  <2> QED BY <1>2, <2>1, <2>2 DEF ValuesInv
<1> QED BY <1>3, <1>4

\* The meeting of the types.
LEMMA MeetTypesStep == ValuesInv /\ MeetTypes => ValuesInv'
<1> SUFFICES ASSUME ValuesInv, MeetTypes PROVE ValuesInv'
  OBVIOUS
<1> DEFINE parsed == IF IsNames THEN Range(Names.names) ELSE {}
           known == {x \in parsed : TypesFor(x) # {}}
           unmet == {y \in known : MetType(TypesFor(y)) = {}}
<1>1. /\ stage = "names" /\ reports = {} /\ case = 1
      /\ {"argnames", "argvalues"} \subseteq DOMAIN read
      /\ UNCHANGED <<mark, requests, read, case>>
  BY DEF ValuesInv, MeetTypes, programVars
<1>2. /\ types' = [x \in known |-> Expected(TypesFor(x))]
      /\ reports' = {<<"valid-type", x>> : x \in unmet} \cup
                    {<<"unknown-argname", x>> : x \in parsed \ known} \cup
                    (IF IsNames THEN {} ELSE {<<"unreadable-argnames", 0>>})
      /\ stage' = IF ~ IsNames \/ parsed # known THEN "requests"
                  ELSE IF Values.is = "values" /\ Values.form = "literal" THEN "cases" ELSE "entire"
  BY DEF MeetTypes
<1>3. Names' = Names /\ Values' = Values /\ IsNames' = IsNames /\ (\A x : TypesFor(x)' = TypesFor(x))
  BY <1>1 DEF Names, Values, IsNames, TypesFor
<1>4. \A x \in DOMAIN types' : types'[x] # {} /\ \E k \in DOMAIN requests : requests[k].name = x
  <2>1. SUFFICES ASSUME NEW x \in known
                 PROVE  Expected(TypesFor(x)) # {} /\ \E k \in DOMAIN requests : requests[k].name = x
    BY <1>2
  <2> QED BY DEF Expected, TypesFor, Range
<1>5. CASE ~ IsNames \/ parsed # known
  <2>1. Faulty'
    <3>1. CASE ~ IsNames
      BY <1>3, <3>1 DEF Faulty
    <3>2. CASE IsNames /\ parsed # known
      <4>1. \E x \in Range(Names.names) : TypesFor(x) = {}
        BY <3>2
      <4> QED BY <1>3, <4>1 DEF Faulty
    <3> QED BY <1>5, <3>1, <3>2
  <2>2. reports' # {}
    BY <1>2, <1>5
  <2> HIDE DEF parsed, known, unmet
  <2> QED BY <1>1, <1>2, <1>4, <1>5, <2>1, <2>2 DEF ValuesInv
<1>6. CASE IsNames /\ parsed = known
  <2>1. MarkRead'
    <3>1. parsed = Range(Names.names)
      BY <1>6
    <3>2. \A x \in Range(Names.names) : TypesFor(x) # {}
      BY <1>6
    <3> HIDE DEF parsed, known
    <3> QED BY <1>1, <1>2, <1>3, <1>6, <3>1, <3>2 DEF MarkRead, ValuesInv
  <2>2. Met' <=> unmet = {}
    BY <1>3, <1>6 DEF Met
  <2>3. reports' = {<<"valid-type", x>> : x \in unmet}
    BY <1>2, <1>6
  <2>4. reports' = {} <=> unmet = {}
    BY <2>3
  <2>5. unmet # {} => Faulty'
    BY <2>1, <2>2 DEF Faulty
  <2>6. /\ stage' \in {"cases", "entire"}
        /\ stage' = "cases" <=> Values'.is = "values" /\ Values'.form = "literal"
    BY <1>2, <1>3, <1>6
  <2> HIDE DEF parsed, known, unmet
  <2>7. \A k \in 1..(case' - 1) : FALSE
    BY <1>1
  <2>8. \A r \in reports' : Faulty'
    BY <2>4, <2>5
  <2> QED BY <1>1, <1>4, <2>1, <2>2, <2>4, <2>6, <2>7, <2>8 DEF ValuesInv
<1> QED BY <1>5, <1>6

\* The check of one case.
LEMMA CheckCaseStep == ValuesInv /\ CheckCase => ValuesInv'
<1> SUFFICES ASSUME ValuesInv, CheckCase PROVE ValuesInv'
  OBVIOUS
<1>1. /\ stage = "cases" /\ case' = case + 1 /\ stage' = stage /\ case <= Len(Values.cases)
      /\ UNCHANGED <<mark, requests, read, types>>
      /\ MarkRead /\ Values.is = "values" /\ Values.form = "literal" /\ mark \in Marks
      /\ case \in Nat \ {0}
  BY DEF ValuesInv, CheckCase, programVars
<1>2. DOMAIN Values.cases = 1..Len(Values.cases)
  <2>1. Values.cases \in Seq(Range(Values.cases))
    BY <1>1, ReadExpressions
  <2> QED BY <2>1
<1>3. /\ MarkRead' = MarkRead /\ Met' = Met /\ Faulty' = Faulty /\ Values' = Values
      /\ \A k : Fitting(k)' = Fitting(k) /\ Answered(k)' = Answered(k)
  BY <1>1, SameMark
<1>4. Fitting(case) <=> FitsCase(Values.cases[case])
  BY <1>1 DEF Fitting
<1>5. CASE Fitting(case)
  <2>1. reports' = reports
    BY <1>4, <1>5 DEF CheckCase
  <2>2. reports = {} => \A k \in 1..(case' - 1) : Fitting(k)
    <3>1. \A k \in 1..(case' - 1) : k = case \/ k \in 1..(case - 1)
      BY <1>1
    <3> QED BY <1>1, <1>5, <3>1 DEF ValuesInv
  <2> QED BY <1>1, <1>3, <2>1, <2>2 DEF ValuesInv
<1>6. CASE ~ Fitting(case)
  <2>1. reports' = reports \cup {<<"arg-type", case>>}
    BY <1>4, <1>6 DEF CheckCase
  <2>2. Faulty
    <3>1. case \in DOMAIN Values.cases
      BY <1>1, <1>2
    <3> QED BY <1>1, <1>6, <3>1 DEF Faulty
  <2>3. Faulty'
    BY <1>3, <2>2
  <2>4. case' \in Nat \ {0}
    BY <1>1
  <2>5. reports' # {}
    BY <2>1
  <2> QED BY <1>1, <1>3, <2>3, <2>4, <2>5 DEF ValuesInv
<1> QED BY <1>5, <1>6

\* All cases are checked.
LEMMA CasesCheckedStep == ValuesInv /\ CasesChecked => ValuesInv'
<1> SUFFICES ASSUME ValuesInv, CasesChecked PROVE ValuesInv'
  OBVIOUS
<1>1. /\ stage = "cases" /\ stage' = "requests" /\ case > Len(Values.cases)
      /\ UNCHANGED <<mark, requests, read, types, case, reports>>
      /\ MarkRead /\ Values.is = "values" /\ mark \in Marks /\ case \in Nat \ {0}
  BY DEF ValuesInv, CasesChecked, programVars
<1>2. \A k \in DOMAIN Values.cases : k \in 1..(case - 1)
  <2>1. Values.cases \in Seq(Range(Values.cases))
    BY <1>1, ReadExpressions
  <2>2. DOMAIN Values.cases = 1..Len(Values.cases) /\ Len(Values.cases) \in Nat
    BY <2>1
  <2> QED BY <1>1, <2>2
<1>3. /\ MarkRead' = MarkRead /\ Met' = Met /\ Faulty' = Faulty /\ Values' = Values
      /\ \A k : Fitting(k)' = Fitting(k) /\ Answered(k)' = Answered(k)
  BY <1>1, SameMark
<1> QED BY <1>1, <1>2, <1>3 DEF ValuesInv

\* The check of values that are not written out.
LEMMA CheckEntireStep == ValuesInv /\ CheckEntire => ValuesInv'
<1> SUFFICES ASSUME ValuesInv, CheckEntire PROVE ValuesInv'
  OBVIOUS
<1>1. /\ stage = "entire" /\ stage' = "requests"
      /\ UNCHANGED <<mark, requests, read, types, case>>
      /\ MarkRead /\ ~ (Values.is = "values" /\ Values.form = "literal")
  BY DEF ValuesInv, CheckEntire, programVars
<1>2. /\ MarkRead' = MarkRead /\ Met' = Met /\ Faulty' = Faulty /\ Values' = Values
      /\ \A k : Fitting(k)' = Fitting(k) /\ Answered(k)' = Answered(k)
  BY <1>1, SameMark
<1> DEFINE AllFit == Values.is = "values" /\ \A k \in DOMAIN Values.cases : Fitting(k)
<1>3. AllFit <=> Values.is = "values" /\ \A k \in DOMAIN Values.cases : FitsEntire(Values.cases[k])
  BY <1>1 DEF Fitting
<1>4. reports' = IF AllFit THEN reports ELSE reports \cup {<<"arg-type", 0>>}
  BY <1>3 DEF CheckEntire
<1>5. ~ AllFit => Faulty
  BY <1>1 DEF Faulty
<1>6. AllFit' = AllFit
  BY <1>2
<1>7. (reports' = {} => reports = {} /\ AllFit) /\ (\A r \in reports' : r \in reports \/ Faulty)
  BY <1>4, <1>5
<1>8. /\ reports' = {} => MarkRead' /\ Met'
      /\ reports' = {} => AllFit'
      /\ \A r \in reports' :
           Faulty' \/ (r[1] = "fixture-arg-type" /\ r[2] \in DOMAIN requests /\ ~ Answered(r[2])')
  BY <1>1, <1>2, <1>6, <1>7 DEF ValuesInv
<1> QED BY <1>1, <1>8 DEF ValuesInv

\* The check of the requests.
LEMMA CheckRequestTypesStep == ValuesInv /\ CheckRequestTypes => ValuesInv'
<1> SUFFICES ASSUME ValuesInv, CheckRequestTypes PROVE ValuesInv'
  OBVIOUS
<1> DEFINE wrong == {j \in DOMAIN requests : ~ Answered(j)}
<1>1. /\ stage = "requests" /\ stage' = "done"
      /\ UNCHANGED <<mark, requests, read, types, case>>
  BY DEF CheckRequestTypes, programVars
<1>2. reports' = reports \cup {<<"fixture-arg-type", k>> : k \in wrong}
  <2>1. wrong = {j \in DOMAIN requests :
          requests[j].fixture # <<>> /\ ~ Fits(ReturnType(requests[j].fixture[1]), requests[j].type)}
    BY DEF Answered
  <2> HIDE DEF wrong
  <2> QED BY <2>1 DEF CheckRequestTypes
<1>3. /\ MarkRead' = MarkRead /\ Met' = Met /\ Faulty' = Faulty /\ Values' = Values
      /\ \A k : Fitting(k)' = Fitting(k) /\ Answered(k)' = Answered(k)
  BY <1>1, SameMark
<1>4. reports' = {} => reports = {} /\ \A k \in DOMAIN requests : Answered(k)
  BY <1>2
<1>5. \A r \in reports' :
        r \in reports \/ (r[1] = "fixture-arg-type" /\ r[2] \in DOMAIN requests /\ ~ Answered(r[2]))
  BY <1>2
<1> QED BY <1>1, <1>3, <1>4, <1>5 DEF ValuesInv

\* ValuesInv is an invariant.
LEMMA ValuesInvariance == ValuesSpec => []ValuesInv
<1>1. ValuesInit => ValuesInv
  BY DEF ValuesInit, ValuesInv
<1>2. ValuesInv /\ [ValuesNext \/ (stage = "done" /\ UNCHANGED valueVars)]_valueVars => ValuesInv'
  <2>1. ValuesInv /\ UNCHANGED valueVars => ValuesInv'
    <3> SUFFICES ASSUME ValuesInv, UNCHANGED valueVars PROVE ValuesInv'
      OBVIOUS
    <3>1. UNCHANGED <<mark, requests, stage, read, types, case, reports>>
      BY DEF valueVars, programVars
    <3>2. /\ MarkRead' = MarkRead /\ Met' = Met /\ Faulty' = Faulty /\ Values' = Values
          /\ \A k : Fitting(k)' = Fitting(k) /\ Answered(k)' = Answered(k)
      BY <3>1, SameMark
    <3> QED BY <3>1, <3>2 DEF ValuesInv
  <2> QED BY <2>1, ReadMarkStep, MeetTypesStep, CheckCaseStep, CasesCheckedStep, CheckEntireStep,
             CheckRequestTypesStep DEF ValuesNext
<1> QED BY <1>1, <1>2, PTL DEF ValuesSpec

\* The variables of the check of a mark have their types: what is read are actuals of the
\* call, and a type is expected for requested names only.
THEOREM ValuesTypeCorrect == ValuesSpec => []ValuesTypeOK
<1>1. ValuesInv => ValuesTypeOK
  BY DEF ValuesInv, ValuesTypeOK
<1> QED BY <1>1, ValuesInvariance, PTL

\* Without a report, every case is taken apart into one value of its type for each name, and
\* fixtures return what is expected of them, for any marks, cases and requests.
THEOREM SilentIsTypedCorrect == ValuesSpec => []SilentIsTyped
<1>1. ValuesInv => SilentIsTyped
  <2> SUFFICES ASSUME ValuesInv, stage = "done", reports = {}, ~ Untyped PROVE SilentIsTyped
    BY DEF SilentIsTyped
  <2>1. /\ mark \in Marks /\ MarkRead /\ Met /\ Values.is = "values"
        /\ \A k \in DOMAIN Values.cases : Fitting(k)
        /\ \A k \in DOMAIN requests : Answered(k)
    BY DEF ValuesInv
  <2>2. \A c \in Range(Values.cases) : (Takes(c) /\ Typed(c)) \/ TakenAsItIs(c)
    BY <2>1, FittingIsTyped DEF Range
  <2>3. ASSUME NEW r \in Range(requests)
        PROVE  FixtureTyped(r) \/ \E f \in Range(r.fixture) : AnyType \in ReturnType(f)
    <3>1. PICK k \in DOMAIN requests : r = requests[k]
      BY <2>3 DEF Range
    <3>2. IsRequest(r) /\ AnyType \notin r.type
      BY <3>1, RequestedAssumption DEF ValuesInv, Untyped
    <3>3. CASE r.fixture = <<>>
      BY <3>3 DEF FixtureTyped
    <3>4. CASE r.fixture # <<>>
      <4>1. DOMAIN r.fixture = {1}
        <5>1. r.fixture \in Seq(Range(r.fixture)) /\ Len(r.fixture) <= 1
          BY <3>2 DEF IsRequest
        <5>2. 1 \in DOMAIN r.fixture
          BY <3>4, <5>1
        <5> QED BY <5>1, <5>2
      <4>2. Fits(ReturnType(r.fixture[1]), r.type)
        BY <2>1, <3>1, <3>4 DEF Answered
      <4>3. r.fixture[1] \in Range(r.fixture)
        BY <4>1 DEF Range
      <4>4. CASE AnyType \in ReturnType(r.fixture[1])
        BY <4>3, <4>4
      <4>5. CASE AnyType \notin ReturnType(r.fixture[1])
        <5>1. ReturnType(r.fixture[1]) \subseteq r.type
          BY <3>2, <4>2, <4>5 DEF Fits
        <5> QED BY <4>1, <4>5, <5>1 DEF FixtureTyped, ReturnType
      <4> QED BY <4>4, <4>5
    <3> QED BY <3>3, <3>4
  <2> QED BY <2>2, <2>3 DEF SilentIsTyped
<1> QED BY <1>1, ValuesInvariance, PTL

\* A mark whose values all requests accept is not reported, unless for the documented
\* strictness, for any marks, cases and requests.
THEOREM NoFalseReportsCorrect == ValuesSpec => []NoFalseReports
<1>1. ValuesInv => NoFalseReports
  <2> SUFFICES ASSUME ValuesInv, stage = "done", Readable, ~ Untyped, Values.cases # <<>>,
                      \A x \in Range(Names.names) : TypesFor(x) # {},
                      \A c \in Range(Values.cases) : Takes(c) /\ Typed(c) /\ ~ Strict(c),
                      NEW r \in reports
               PROVE  r[1] = "fixture-arg-type" /\ ~ FixtureTyped(requests[r[2]])
    BY DEF NoFalseReports
  <2>1. \A k \in DOMAIN Values.cases :
          Takes(Values.cases[k]) /\ Typed(Values.cases[k]) /\ ~ Strict(Values.cases[k])
    BY DEF Range
  <2>2. mark \in Marks /\ Values.is = "values"
    BY DEF ValuesInv, Readable
  <2>3. MarkRead => Met
    <3> SUFFICES ASSUME MarkRead PROVE Met
      OBVIOUS
    <3>1. Values.cases \in Seq(Range(Values.cases))
      BY <2>2, ReadExpressions
    <3>2. 1 \in DOMAIN Values.cases
      BY <3>1
    <3> QED BY <2>1, <2>2, <3>2, TypedIsMet
  <2>4. MarkRead => \A k \in DOMAIN Values.cases : Fitting(k)
    BY <2>1, <2>2, <2>3, TypedIsFitting
  <2>5. ~ Faulty
    BY <2>2, <2>3, <2>4 DEF Faulty, Readable
  <2>6. r[1] = "fixture-arg-type" /\ r[2] \in DOMAIN requests /\ ~ Answered(r[2])
    BY <2>5 DEF ValuesInv
  <2> DEFINE q == requests[r[2]]
  <2>7. IsRequest(q) /\ q.fixture # <<>> /\ ~ Fits(ReturnType(q.fixture[1]), q.type)
    BY <2>6, RequestedAssumption DEF ValuesInv, Answered
  <2>8. 1 \in DOMAIN q.fixture
    <3>1. q.fixture \in Seq(Range(q.fixture))
      BY <2>7 DEF IsRequest
    <3> QED BY <2>7, <3>1
  <2> HIDE DEF q
  <2>9. ~ FixtureTyped(q)
    BY <2>7, <2>8 DEF FixtureTyped, Fits, ReturnType
  <2> QED BY <2>6, <2>9 DEF q
<1> QED BY <1>1, ValuesInvariance, PTL

=============================================================================
