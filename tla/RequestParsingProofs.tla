------------------------ MODULE RequestParsingProofs ------------------------
(* Theorems about RequestParsing, for any functions, decorators and marks. *)
EXTENDS RequestParsing, Counting

-----------------------------------------------------------------------------
(* What list comprehensions keep.                                           *)

\* The recursion of Subsequence ends, and its parts are what the definition says.
Parts(s, places) ==
  LET Upto[k \in 0..Len(s)] ==
        IF k = 0 THEN <<>>
        ELSE IF k \in places THEN Append(Upto[k - 1], s[k]) ELSE Upto[k - 1]
  IN  Upto

\* The parts of a subsequence are built one from the other.
LEMMA PartsUnfold ==
  ASSUME NEW T, NEW s \in Seq(T), NEW places
  PROVE  /\ Subsequence(s, places) = Parts(s, places)[Len(s)]
         /\ Parts(s, places)[0] = <<>>
         /\ \A k \in 1..Len(s) :
              Parts(s, places)[k] = IF k \in places THEN Append(Parts(s, places)[k - 1], s[k])
                                                    ELSE Parts(s, places)[k - 1]
<1> DEFINE n == Len(s)
           More(k, X) == IF k \in places THEN Append(X, s[k]) ELSE X
           Rounds(U) == [k \in 0..n |-> IF k = 0 THEN <<>>
                                        ELSE IF k \in places THEN Append(U[k - 1], s[k])
                                                             ELSE U[k - 1]]
<1>1. n \in Nat
  OBVIOUS
<1>2. ASSUME NEW k \in 1..n, NEW X \in Seq(T) PROVE More(k, X) \in Seq(T)
  <2>1. s[k] \in T
    BY <1>2
  <2> QED BY <2>1
<1>3. \E g : g = Rounds(g)
  <2> DEFINE D == Seq(T)
             next == [k \in 1..n |-> [X \in D |-> More(k, X)]]
  <2>1. next \in [1..n -> [D -> D]] /\ <<>> \in D
    BY <1>2
  <2> HIDE DEF n, D
  <2>2. PICK g \in [0..n -> D] : Iterates(g, n, <<>>, next)
    <3> HIDE DEF next
    <3> QED BY <1>1, <2>1, Iteration
  <2>3. g[0] = <<>> /\ \A k \in 1..n : g[k] = next[k][g[k - 1]]
    BY <2>2 DEF Iterates
  <2>4. ASSUME NEW k \in 1..n PROVE g[k] = More(k, g[k - 1])
    <3>1. k - 1 \in 0..n
      BY <1>1
    <3>2. g[k - 1] \in D
      BY <3>1
    <3> QED BY <2>3, <3>2
  <2>5. ASSUME NEW k \in 0..n
        PROVE  g[k] = IF k = 0 THEN <<>>
                      ELSE IF k \in places THEN Append(g[k - 1], s[k]) ELSE g[k - 1]
    <3>1. k = 0 \/ (k \in 1..n /\ k # 0)
      BY <1>1
    <3> QED BY <2>3, <2>4, <3>1
  <2> QED BY <2>5
<1> DEFINE U == CHOOSE g : g = Rounds(g)
<1>4. U = Rounds(U)
  <2> HIDE DEF Rounds
  <2> QED BY <1>3
<1>5. Parts(s, places) = U /\ Subsequence(s, places) = U[n]
  BY DEF Parts, Subsequence
<1> HIDE DEF U, n
<1>6. 0 \in 0..n /\ \A k \in 1..n : k \in 0..n /\ k # 0
  BY <1>1
<1>7. U[0] = <<>>
  BY <1>4, <1>6
<1>8. \A k \in 1..n : U[k] = IF k \in places THEN Append(U[k - 1], s[k]) ELSE U[k - 1]
  BY <1>4, <1>6
<1> QED BY <1>5, <1>7, <1>8 DEF n

\* A subsequence has the elements that stand at its places and no other.
LEMMA SubsequenceRange ==
  ASSUME NEW T, NEW s \in Seq(T), NEW places
  PROVE  /\ Subsequence(s, places) \in Seq(T)
         /\ Range(Subsequence(s, places)) = {s[i] : i \in DOMAIN s \cap places}
<1> DEFINE n == Len(s)
           P == Parts(s, places)
           Kept(k) == {s[i] : i \in (1..k) \cap places}
           S == {k \in 0..n : P[k] \in Seq(T) /\ Range(P[k]) = Kept(k)}
<1>1. n \in Nat /\ DOMAIN s = 1..n
  OBVIOUS
<1>2. /\ Subsequence(s, places) = P[n] /\ P[0] = <<>>
      /\ \A k \in 1..n : P[k] = IF k \in places THEN Append(P[k - 1], s[k]) ELSE P[k - 1]
  BY PartsUnfold
<1> HIDE DEF n, P
<1>3. 0 \in S
  <2>1. 0 \in 0..n /\ Kept(0) = {}
    BY <1>1
  <2>2. <<>> \in Seq(T) /\ Range(<<>>) = {}
    BY DEF Range
  <2> QED BY <1>2, <2>1, <2>2
<1>4. ASSUME NEW k \in 1..n, k - 1 \in S PROVE k \in S
  <2>1. k \in 0..n /\ (1..k) = (1..(k - 1)) \cup {k} /\ s[k] \in T
    BY <1>1
  <2>2. P[k - 1] \in Seq(T) /\ Range(P[k - 1]) = Kept(k - 1)
    BY <1>4
  <2>3. CASE k \in places
    <3>1. P[k] = Append(P[k - 1], s[k])
      BY <1>2, <2>3
    <3>2. Range(P[k]) = Range(P[k - 1]) \cup {s[k]} /\ P[k] \in Seq(T)
      <4> DEFINE p == P[k - 1]
                 x == s[k]
      <4>1. p \in Seq(T) /\ x \in T
        BY <2>1, <2>2
      <4> HIDE DEF p, x
      <4>2. /\ Append(p, x) \in Seq(T) /\ DOMAIN Append(p, x) = DOMAIN p \cup {Len(p) + 1}
            /\ \A i \in DOMAIN p : Append(p, x)[i] = p[i]
            /\ Append(p, x)[Len(p) + 1] = x
        BY <4>1
      <4>3. Range(Append(p, x)) = Range(p) \cup {x}
        BY <4>2 DEF Range
      <4> QED BY <3>1, <4>2, <4>3 DEF p, x
    <3>3. Kept(k) = Kept(k - 1) \cup {s[k]}
      BY <2>1, <2>3
    <3> QED BY <2>1, <2>2, <3>2, <3>3
  <2>4. CASE k \notin places
    <3>1. Kept(k) = Kept(k - 1)
      BY <2>1, <2>4
    <3> QED BY <1>2, <2>1, <2>2, <2>4, <3>1
  <2> QED BY <2>3, <2>4
<1>5. n \in S
  <2> HIDE DEF S
  <2> QED BY <1>1, <1>3, <1>4, UpTo
<1> QED BY <1>1, <1>2, <1>5

\* Leaving out what was there before loses nothing: of equal elements the first stays.
LEMMA FilterUniqueRange ==
  ASSUME NEW T, NEW s \in Seq(T)
  PROVE  Range(FilterUnique(s)) = Range(s)
<1> DEFINE Firsts == {i \in DOMAIN s : \A j \in 1..(i - 1) : s[j] # s[i]}
<1>1. Range(FilterUnique(s)) = {s[i] : i \in DOMAIN s \cap Firsts}
  BY SubsequenceRange DEF FilterUnique
<1>2. ASSUME NEW i \in DOMAIN s PROVE \E j \in Firsts : s[j] = s[i]
  <2> DEFINE Equal == {j \in DOMAIN s : s[j] = s[i]}
  <2>1. Equal \in SUBSET Nat /\ Equal # {} /\ DOMAIN s = 1..Len(s) /\ Len(s) \in Nat
    OBVIOUS
  <2>2. PICK j \in Equal : \A k \in Equal : j <= k
    <3> HIDE DEF Equal
    <3> QED BY <2>1, LeastNumber
  <2>3. ASSUME NEW k \in 1..(j - 1) PROVE s[k] # s[j]
    <3>1. k \in DOMAIN s /\ ~ (j <= k)
      BY <2>1
    <3> QED BY <2>2, <3>1
  <2> QED BY <2>3
<1>3. Firsts \subseteq DOMAIN s
  OBVIOUS
<1> HIDE DEF Firsts
<1>4. \A x \in Range(s) : \E j \in DOMAIN s \cap Firsts : s[j] = x
  BY <1>2, <1>3 DEF Range
<1> QED BY <1>1, <1>4 DEF Range

\* Extending requests keeps them and adds the rest.
LEMMA ExtendRange ==
  ASSUME NEW T, NEW s \in Seq(T), NEW t \in Seq(T)
  PROVE  Range(Extend(s, t)) = Range(s) \cup Range(t)
<1>1. /\ s \o t \in Seq(T) /\ DOMAIN (s \o t) = 1..(Len(s) + Len(t))
      /\ Len(s) \in Nat /\ Len(t) \in Nat /\ DOMAIN s = 1..Len(s) /\ DOMAIN t = 1..Len(t)
      /\ \A i \in DOMAIN s : (s \o t)[i] = s[i]
      /\ \A i \in DOMAIN t : (s \o t)[Len(s) + i] = t[i]
  OBVIOUS
<1>2. /\ \A i \in DOMAIN s : i \in DOMAIN (s \o t)
      /\ \A i \in DOMAIN t : Len(s) + i \in DOMAIN (s \o t)
      /\ \A i \in DOMAIN (s \o t) : i \in DOMAIN s \/ i - Len(s) \in DOMAIN t
  BY <1>1
<1>3. \A i \in DOMAIN (s \o t) :
        i \notin DOMAIN s => Len(s) + (i - Len(s)) = i
  BY <1>1
<1>4. Range(s \o t) = Range(s) \cup Range(t)
  BY <1>1, <1>2, <1>3 DEF Range
<1> QED BY <1>1, <1>4, FilterUniqueRange DEF Extend

-----------------------------------------------------------------------------
(* The inductive invariant.                                                 *)

FixtureType == [scope   : [value : ScopeNames \cup {"unknown"}, member : BOOLEAN],
                autouse : BOOLEAN]

InputOK ==
  /\ signature \in Signatures /\ decorator \in Decorators /\ extra \in Extras
  /\ signature.source = "fixture" => extra = <<>>

\* What has been parsed: a test, or a fixture that was rejected or published, or a test
\* without a type.
ParsedOK ==
  \/ ~ parsed /\ type = Unpublished
  \/ parsed /\ ~ HasType /\ type = Unpublished
  \/ /\ parsed /\ signature.source = "test" /\ type = Unpublished
     /\ requests = Extend(FromDefinition(signature.arguments), ValidExtras)
     /\ FlawReports \subseteq reports
  \/ /\ parsed /\ signature.source = "fixture" /\ type = Unpublished
     /\ <<"fixture", Rejection>> \in reports
  \/ /\ parsed /\ signature.source = "fixture" /\ type \in FixtureType
     /\ requests = FromDefinition(signature.arguments)
     /\ FlawReports \subseteq reports

\* A published type, and every answer, says what the decorator and the definition say, or
\* what the type alone says of the arguments.
TypeFromDecorator ==
  type # Unpublished =>
    /\ type.scope.value = DeclaredScope(decorator).value
    /\ type.autouse = DeclaredAutouse(decorator)

AnswersFromType ==
  \A a \in answers :
    /\ type # Unpublished
    /\ a.requests \in {FromDefinition(signature.arguments), FromType(signature.arguments)}
    /\ a.scope.value = DeclaredScope(decorator).value
    /\ a.autouse = DeclaredAutouse(decorator)

ParseInv == InputOK /\ ParsedOK /\ TypeFromDecorator /\ AnswersFromType

\* A type is not the mark of what has none.
LEMMA TypesPublished == Unpublished \notin FixtureType
<1> SUFFICES ASSUME Unpublished \in FixtureType PROVE FALSE
  OBVIOUS
<1>1. DOMAIN Unpublished = {"scope", "autouse"}
  BY DEF FixtureType
<1> QED BY <1>1 DEF Unpublished

\* Nothing is published at the start.
LEMMA ParseInvInit == ParseInit => ParseInv
BY DEF ParseInit, ParseInv, InputOK, ParsedOK, TypeFromDecorator, AnswersFromType

\* Every step keeps it.
LEMMA ParseInvNext ==
  ParseInv /\ [ParseNext \/ (parsed /\ UNCHANGED parseVars)]_parseVars => ParseInv'
<1> SUFFICES ASSUME ParseInv, [ParseNext \/ (parsed /\ UNCHANGED parseVars)]_parseVars
             PROVE  ParseInv'
  OBVIOUS
<1>0. UNCHANGED <<signature, decorator, extra>> /\ InputOK'
  BY DEF ParseNext, ParseTest, PassUntypedTest, RejectFixture, ParseFixture, LookUp, RestartFromCache, parseVars,
         ParseInv, InputOK
<1>1. /\ FromDefinition(signature.arguments)' = FromDefinition(signature.arguments)
      /\ FromType(signature.arguments)' = FromType(signature.arguments)
      /\ HasType' <=> HasType
      /\ FlawReports' = FlawReports /\ Rejection' = Rejection /\ ValidExtras' = ValidExtras
      /\ Extend(FromDefinition(signature.arguments), ValidExtras)' =
           Extend(FromDefinition(signature.arguments), ValidExtras)
      /\ DeclaredScope(decorator)' = DeclaredScope(decorator)
      /\ DeclaredAutouse(decorator)' = DeclaredAutouse(decorator)
  BY <1>0 DEF HasType, FlawReports, Rejection, ValidExtras
<1>2. CASE ParseTest
  <2>1. type = Unpublished /\ answers = {} /\ type' = Unpublished /\ answers' = {}
    BY <1>2 DEF ParseTest, ParseInv, ParsedOK, AnswersFromType
  <2>2. ParsedOK'
    BY <1>0, <1>1, <1>2, <2>1 DEF ParseTest, ParsedOK
  <2> QED BY <1>0, <2>1, <2>2 DEF ParseInv, TypeFromDecorator, AnswersFromType
<1>8. CASE PassUntypedTest
  <2>1. type = Unpublished /\ answers = {} /\ type' = Unpublished /\ answers' = {}
    BY <1>8 DEF PassUntypedTest, ParseInv, ParsedOK, AnswersFromType
  <2>2. ParsedOK'
    BY <1>0, <1>1, <1>8, <2>1 DEF PassUntypedTest, ParsedOK
  <2> QED BY <1>0, <2>1, <2>2 DEF ParseInv, TypeFromDecorator, AnswersFromType
<1>3. CASE RejectFixture
  <2>1. type = Unpublished /\ answers = {} /\ type' = Unpublished /\ answers' = {}
    BY <1>3 DEF RejectFixture, ParseInv, ParsedOK, AnswersFromType
  <2>2. ParsedOK'
    BY <1>0, <1>1, <1>3, <2>1 DEF RejectFixture, ParsedOK
  <2> QED BY <1>0, <2>1, <2>2 DEF ParseInv, TypeFromDecorator, AnswersFromType
<1>4. CASE ParseFixture
  <2>1. answers' = {}
    BY <1>4 DEF ParseFixture, ParseInv, ParsedOK, AnswersFromType
  <2>2. type' = [scope |-> DeclaredScope(decorator), autouse |-> DeclaredAutouse(decorator)]
    BY <1>4 DEF ParseFixture
  <2>3. type' \in FixtureType
    <3>1. decorator.scope \in {"absent", "computed"} \cup ScopeNames
      BY DecoratorsAssumption DEF ParseInv, InputOK, Decorator
    <3>2. DeclaredScope(decorator) \in [value : ScopeNames \cup {"unknown"}, member : BOOLEAN]
      BY <3>1 DEF DeclaredScope, ScopeNames
    <3>3. DeclaredAutouse(decorator) \in BOOLEAN
      BY DEF DeclaredAutouse
    <3> QED BY <2>2, <3>2, <3>3 DEF FixtureType
  <2>4. ParsedOK'
    BY <1>0, <1>1, <1>4, <2>3 DEF ParseFixture, ParsedOK
  <2>5. TypeFromDecorator'
    BY <1>1, <2>2 DEF TypeFromDecorator
  <2> QED BY <1>0, <2>1, <2>4, <2>5 DEF ParseInv, AnswersFromType
<1>5. CASE LookUp
  <2>1. UNCHANGED <<parsed, requests, reports, type>> /\ type # Unpublished
    BY <1>5 DEF LookUp
  <2>2. ParsedOK' /\ TypeFromDecorator'
    BY <1>0, <1>1, <2>1 DEF ParseInv, ParsedOK, TypeFromDecorator
  <2>3. AnswersFromType'
    <3> DEFINE new == [requests |-> IF definition THEN FromDefinition(signature.arguments)
                                                  ELSE FromType(signature.arguments),
                       scope    |-> type.scope,
                       autouse  |-> type.autouse]
    <3>1. answers' = answers \cup {new}
      BY <1>5 DEF LookUp
    <3>2. /\ new.requests \in {FromDefinition(signature.arguments), FromType(signature.arguments)}
          /\ new.scope.value = DeclaredScope(decorator).value
          /\ new.autouse = DeclaredAutouse(decorator)
      BY <2>1 DEF ParseInv, TypeFromDecorator
    <3> HIDE DEF new
    <3> QED BY <1>1, <2>1, <3>1, <3>2 DEF ParseInv, AnswersFromType
  <2> QED BY <1>0, <2>2, <2>3 DEF ParseInv
<1>6. CASE RestartFromCache
  <2>1. UNCHANGED <<parsed, requests, reports, answers>> /\ type # Unpublished
        /\ type' = [type EXCEPT !.scope.member = FALSE]
    BY <1>6 DEF RestartFromCache
  <2>2. type \in FixtureType
    BY <2>1 DEF ParseInv, ParsedOK
  <2>3. /\ type' \in FixtureType /\ type' # Unpublished
        /\ type'.scope.value = type.scope.value /\ type'.autouse = type.autouse
    <3>1. type' = [scope   |-> [value |-> type.scope.value, member |-> FALSE],
                   autouse |-> type.autouse]
      BY <2>1, <2>2 DEF FixtureType
    <3>2. type' \in FixtureType
      BY <2>2, <3>1 DEF FixtureType
    <3> QED BY <3>1, <3>2, TypesPublished
  <2>4. ParsedOK'
    BY <1>0, <1>1, <2>1, <2>3 DEF ParseInv, ParsedOK
  <2>5. TypeFromDecorator' /\ AnswersFromType'
    BY <1>1, <2>1, <2>3 DEF ParseInv, TypeFromDecorator, AnswersFromType
  <2> QED BY <1>0, <2>4, <2>5 DEF ParseInv
<1>7. CASE UNCHANGED parseVars
  BY <1>0, <1>1, <1>7 DEF parseVars, ParseInv, ParsedOK, TypeFromDecorator, AnswersFromType
<1> QED BY <1>2, <1>3, <1>4, <1>5, <1>6, <1>7, <1>8 DEF ParseNext

\* It holds throughout.
LEMMA ParseInvariance == ParseSpec => []ParseInv
BY ParseInvInit, ParseInvNext, PTL DEF ParseSpec

-----------------------------------------------------------------------------

\* Names of the arguments of a function.
LEMMA ArgumentNames ==
  ASSUME InputOK
  PROVE  /\ NamesOf(signature.arguments) \in Seq(Names \cup {RequestName})
         /\ DOMAIN NamesOf(signature.arguments) = DOMAIN signature.arguments
         /\ \A i \in DOMAIN signature.arguments :
              /\ signature.arguments[i] \in Argument
              /\ NamesOf(signature.arguments)[i] = signature.arguments[i].name
<1> DEFINE s == signature.arguments
<1>1. s \in Seq(Argument)
  BY SignaturesAssumption DEF InputOK, Signature
<1>2. /\ Len(s) \in Nat /\ DOMAIN s = 1..Len(s)
      /\ \A i \in DOMAIN s : s[i] \in Argument
  BY <1>1
<1> HIDE DEF s
<1>3. NamesOf(s) = [i \in 1..Len(s) |-> s[i].name]
  BY <1>2 DEF NamesOf
<1>4. \A i \in 1..Len(s) : s[i].name \in Names \cup {RequestName}
  BY <1>2 DEF Argument
<1>5. NamesOf(s) \in Seq(Names \cup {RequestName})
  BY <1>2, <1>3, <1>4
<1> QED BY <1>2, <1>3, <1>5 DEF s

\* Every argument of a fixture or an annotated test is requested, or is the request object,
\* or is reported as ignored, or the fixture is rejected with a report; every valid name in
\* the marks of such a test is requested, however many names and marks there are and
\* whatever is ignored.
THEOREM NothingLostCorrect == ParseSpec => []NothingLost
<1>1. ParseInv => NothingLost
  <2> SUFFICES ASSUME ParseInv, parsed, HasType
               PROVE  /\ \/ type = Unpublished /\ \E r \in reports : r[1] = "fixture"
                         \/ \A i \in DOMAIN signature.arguments :
                              LET a == signature.arguments[i] IN
                              \/ a.name \in Range(requests) \cup {RequestName}
                              \/ <<a.name, Flaw(a)>> \in reports /\ Flaw(a) # "none"
                      /\ Range(extra) \ {InvalidName} \subseteq Range(requests)
    BY DEF NothingLost
  <2> DEFINE args == signature.arguments
             T == Names \cup {RequestName, InvalidName}
  <2>1. InputOK
    BY DEF ParseInv
  <2>2. /\ NamesOf(args) \in Seq(T) /\ DOMAIN NamesOf(args) = DOMAIN args
        /\ \A i \in DOMAIN args : args[i] \in Argument /\ NamesOf(args)[i] = args[i].name
    <3>1. Names \cup {RequestName} \subseteq T
      OBVIOUS
    <3> HIDE DEF T
    <3> QED BY <2>1, <3>1, ArgumentNames
  <2>3. extra \in Seq(T)
    BY <2>1, ExtrasAssumption DEF InputOK
  <2> HIDE DEF T, args
  <2>4. /\ FromDefinition(args) \in Seq(T)
        /\ Range(FromDefinition(args)) =
             {args[i].name : i \in {j \in DOMAIN args : Flaw(args[j]) = "none"
                                                        /\ ~ IsRequestArgument(args[j])}}
    <3> DEFINE places == {i \in DOMAIN args : Flaw(args[i]) = "none" /\ ~ IsRequestArgument(args[i])}
    <3>1. FromDefinition(args) = Subsequence(NamesOf(args), places)
      BY DEF FromDefinition
    <3>2. places \subseteq DOMAIN args
      OBVIOUS
    <3> HIDE DEF places
    <3>3. /\ FromDefinition(args) \in Seq(T)
          /\ Range(FromDefinition(args)) = {NamesOf(args)[i] : i \in DOMAIN NamesOf(args) \cap places}
      BY <2>2, <3>1, SubsequenceRange
    <3>4. Range(FromDefinition(args)) = {args[i].name : i \in places}
      BY <2>2, <3>2, <3>3
    <3> QED BY <3>3, <3>4 DEF places
  <2>5. /\ ValidExtras \in Seq(T)
        /\ Range(ValidExtras) = Range(extra) \ {InvalidName}
    <3> DEFINE places == {i \in DOMAIN extra : extra[i] # InvalidName}
    <3>1. /\ ValidExtras \in Seq(T)
          /\ Range(ValidExtras) = {extra[i] : i \in DOMAIN extra \cap places}
      BY <2>3, SubsequenceRange DEF ValidExtras
    <3> QED BY <3>1 DEF Range
  <2>6. ASSUME Range(FromDefinition(args)) \subseteq Range(requests), FlawReports \subseteq reports,
               NEW i \in DOMAIN args
        PROVE  \/ args[i].name \in Range(requests) \cup {RequestName}
               \/ <<args[i].name, Flaw(args[i])>> \in reports /\ Flaw(args[i]) # "none"
    <3>1. CASE Flaw(args[i]) = "none"
      BY <2>4, <2>6, <3>1 DEF IsRequestArgument
    <3>2. CASE Flaw(args[i]) # "none"
      BY <2>6, <3>2 DEF FlawReports, args
    <3> QED BY <3>1, <3>2
  <2>7. CASE /\ signature.source = "test"
             /\ requests = Extend(FromDefinition(args), ValidExtras)
             /\ FlawReports \subseteq reports
    <3>1. Range(requests) = Range(FromDefinition(args)) \cup Range(ValidExtras)
      BY <2>4, <2>5, <2>7, ExtendRange
    <3> QED BY <2>5, <2>6, <2>7, <3>1 DEF args
  <2>8. CASE signature.source = "fixture" /\ type = Unpublished /\ <<"fixture", Rejection>> \in reports
    <3>1. Range(extra) = {}
      BY <2>1, <2>8 DEF InputOK, Range
    <3> QED BY <2>8, <3>1
  <2>9. CASE /\ signature.source = "fixture"
             /\ requests = FromDefinition(args) /\ FlawReports \subseteq reports
    <3>1. Range(extra) = {}
      BY <2>1, <2>9 DEF InputOK, Range
    <3> QED BY <2>6, <2>9, <3>1 DEF args
  <2> QED BY <2>7, <2>8, <2>9 DEF ParseInv, ParsedOK, args
<1> QED BY <1>1, ParseInvariance, PTL

\* Without default values a fixture out of mypy's cache requests what it requested when it was
\* published, in the same order, and is as long-lived and as automatic.
THEOREM AnswersSurviveRestartCorrect == ParseSpec => []AnswersSurviveRestart
<1>1. ParseInv => AnswersSurviveRestart
  <2> SUFFICES ASSUME ParseInv,
                      \A i \in DOMAIN signature.arguments : ~ signature.arguments[i].optional,
                      NEW a \in answers
               PROVE  a.requests = requests
    BY DEF AnswersSurviveRestart, ParseInv, AnswersFromType
  <2> DEFINE args == signature.arguments
  <2>1. requests = FromDefinition(args)
    BY DEF ParseInv, ParsedOK, AnswersFromType
  <2>2. {i \in DOMAIN args : Flaw(args[i]) = "none" /\ ~ IsRequestArgument(args[i])} =
        {i \in FormalArguments(args) : args[i].name # RequestName}
    <3>1. \A i \in DOMAIN args : args[i].star \in {"no", "*", "**"}
      BY ArgumentNames DEF ParseInv, Argument
    <3>2. \A i \in DOMAIN args :
            Flaw(args[i]) = "none" <=> args[i].star = "no" /\ ~ args[i].posOnly
      BY <3>1 DEF Flaw
    <3> QED BY <3>2 DEF FormalArguments, IsRequestArgument
  <2>3. FromDefinition(args) = FromType(args)
    BY <2>2 DEF FromDefinition, FromType
  <2> QED BY <2>1, <2>3 DEF ParseInv, AnswersFromType
<1> QED BY <1>1, ParseInvariance, PTL

=============================================================================
