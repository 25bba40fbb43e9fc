--------------------------- MODULE CallHooksProofs ---------------------------
(* Theorems about CallHooks and the selection of tests it extends, for any files, patterns, *)
(* modules and calls.                                                                       *)
EXTENDS CallHooks, Counting, SequenceTheorems

-----------------------------------------------------------------------------
(* The ranges of a file.                                                    *)

\* TestsAmong is the function that its definition describes.
LEMMA TestsAmongUnfolds ==
  ASSUME functions \in Seq(Function)
  PROVE  /\ TestsAmong[0] = <<>>
         /\ \A k \in 1..Len(functions) :
              TestsAmong[k] = IF IsTestFnName(functions[k].name)
                                THEN Append(TestsAmong[k - 1], functions[k])
                                ELSE TestsAmong[k - 1]
<1> DEFINE Step(g, k) == IF k = 0 THEN <<>>
                         ELSE IF IsTestFnName(functions[k].name)
                           THEN Append(g[k - 1], functions[k])
                         ELSE g[k - 1]
           S == {n \in Nat : \E g : g = [k \in 0..n |-> Step(g, k)]}
<1>1. Len(functions) \in Nat
  OBVIOUS
<1>2. 0 \in S
  <2>1. [k \in 0..0 |-> <<>>] = [k \in 0..0 |-> Step([j \in 0..0 |-> <<>>], k)]
    OBVIOUS
  <2> QED BY <2>1
<1>3. \A n \in 1..Len(functions) : n - 1 \in S => n \in S
  <2> SUFFICES ASSUME NEW n \in 1..Len(functions), n - 1 \in S PROVE n \in S
    OBVIOUS
  <2>1. PICK g : g = [k \in 0..(n - 1) |-> Step(g, k)]
    OBVIOUS
  <2> DEFINE h == [k \in 0..n |-> IF k = n THEN Step(g, n) ELSE g[k]]
  <2>2. ASSUME NEW k \in 0..n PROVE h[k] = Step(h, k)
    <3>1. CASE k = 0
      <4>1. 0 \in 0..(n - 1) /\ 0 # n
        OBVIOUS
      <4>2. g[0] = <<>>
        BY <2>1, <4>1
      <4> QED BY <3>1, <4>1, <4>2
    <3>2. CASE k # 0
      <4>1. k - 1 \in 0..n /\ k - 1 # n
        BY <3>2
      <4>2. h[k - 1] = g[k - 1]
        BY <4>1
      <4>3. Step(h, k) = Step(g, k)
        BY <3>2, <4>2
      <4>4. h[k] = Step(g, k)
        <5>1. CASE k = n
          BY <5>1
        <5>2. CASE k # n
          <6>1. k \in 0..(n - 1)
            BY <5>2
          <6> QED BY <2>1, <5>2, <6>1
        <5> QED BY <5>1, <5>2
      <4> QED BY <4>3, <4>4
    <3> QED BY <3>1, <3>2
  <2>3. h = [k \in 0..n |-> h[k]]
    OBVIOUS
  <2> HIDE DEF h
  <2>4. h = [k \in 0..n |-> Step(h, k)]
    BY <2>2, <2>3
  <2> QED BY <2>4
<1>4. \E g : g = [k \in 0..Len(functions) |-> Step(g, k)]
  <2> HIDE DEF S
  <2>1. Len(functions) \in S
    BY <1>1, <1>2, <1>3, UpTo
  <2> QED BY <2>1 DEF S
<1>5. TestsAmong = [k \in 0..Len(functions) |-> Step(TestsAmong, k)]
  BY <1>4 DEF TestsAmong
<1> HIDE DEF Step
<1>6. \A k \in 0..Len(functions) : TestsAmong[k] = Step(TestsAmong, k)
  BY <1>5
<1> QED BY <1>1, <1>6 DEF Step

\* The lines of a function are numbers.
LEMMA BodyLines ==
  ASSUME NEW s \in Seq(Function)
  PROVE  \A i \in DOMAIN s : s[i].first \in Int /\ s[i].last \in Int
<1>1. \A i \in DOMAIN s : s[i] \in Function
  OBVIOUS
<1>2. 1..Lines \subseteq Int
  BY LinesAssumption
<1> QED BY <1>1, <1>2 DEF Function

\* TestsAmong is a sequence of the functions that are tests, all of them, in their order.
Selects(r, k) ==
  /\ r \in Seq(Function)
  /\ \A j \in DOMAIN r : \E i \in 1..k : r[j] = functions[i] /\ IsTestFnName(functions[i].name)
  /\ \A i \in 1..k : IsTestFnName(functions[i].name) => \E j \in DOMAIN r : r[j] = functions[i]
  /\ \A i, j \in DOMAIN r : i < j => r[i].last < r[j].first

\* TestsAmong collects the tests, all of them, in the order of the file.
LEMMA TestsSelected ==
  ASSUME functions \in Seq(Function), InOrder(functions)
  PROVE  Selects(TestBodies, Len(functions))
<1> DEFINE S == {k \in 0..Len(functions) : Selects(TestsAmong[k], k)}
<1>1. Len(functions) \in Nat /\ DOMAIN functions = 1..Len(functions)
  OBVIOUS
<1>2. 0 \in S
  <2>1. TestsAmong[0] = <<>>
    BY TestsAmongUnfolds
  <2>2. <<>> \in Seq(Function) /\ DOMAIN <<>> = {} /\ 1..0 = {} /\ 0 \in 0..Len(functions)
    BY <1>1
  <2>3. Selects(<<>>, 0)
    BY <2>2 DEF Selects
  <2> QED BY <2>1, <2>2, <2>3
<1>3. ASSUME NEW k \in 1..Len(functions), k - 1 \in S
      PROVE  k \in S
  <2> DEFINE r == TestsAmong[k - 1]
             f == functions[k]
  <2>1. Selects(r, k - 1)
    BY <1>3
  <2>2. f \in Function /\ k \in 1..k /\ 1..(k - 1) \subseteq 1..k
        /\ 1..k = 1..(k - 1) \cup {k}
    BY <1>1
  <2> HIDE DEF S
  <2>3. CASE ~ IsTestFnName(f.name)
    <3>1. TestsAmong[k] = r
      BY <2>3, TestsAmongUnfolds
    <3> HIDE DEF r
    <3>2. Selects(r, k)
      BY <2>1, <2>2, <2>3 DEF Selects
    <3> QED BY <3>1, <3>2 DEF S
  <2>4. CASE IsTestFnName(f.name)
    <3>1. TestsAmong[k] = Append(r, f)
      BY <2>4, TestsAmongUnfolds
    <3> HIDE DEF r
    <3>2. /\ Append(r, f) \in Seq(Function)
          /\ DOMAIN Append(r, f) = DOMAIN r \cup {Len(r) + 1}
          /\ \A j \in DOMAIN r : j < Len(r) + 1 /\ Append(r, f)[j] = r[j]
          /\ Append(r, f)[Len(r) + 1] = f
          /\ Len(r) \in Nat
      BY <2>1, <2>2 DEF Selects
    <3> DEFINE new == Append(r, f)
    <3> HIDE DEF new, f
    <3>3. \A j \in DOMAIN new : \E i \in 1..k : new[j] = functions[i] /\ IsTestFnName(functions[i].name)
      <4> SUFFICES ASSUME NEW j \in DOMAIN new
                   PROVE  \E i \in 1..k : new[j] = functions[i] /\ IsTestFnName(functions[i].name)
        OBVIOUS
      <4>1. CASE j = Len(r) + 1
        BY <2>2, <2>4, <3>2, <4>1 DEF new, f
      <4>2. CASE j \in DOMAIN r
        <5>1. PICK i \in 1..(k - 1) : r[j] = functions[i] /\ IsTestFnName(functions[i].name)
          BY <2>1, <4>2 DEF Selects
        <5>2. new[j] = r[j] /\ i \in 1..k
          BY <2>2, <3>2, <4>2 DEF new
        <5> QED BY <5>1, <5>2
      <4> QED BY <3>2, <4>1, <4>2 DEF new
    <3>4. \A i \in 1..k : IsTestFnName(functions[i].name) => \E j \in DOMAIN new : new[j] = functions[i]
      <4> SUFFICES ASSUME NEW i \in 1..k, IsTestFnName(functions[i].name)
                   PROVE  \E j \in DOMAIN new : new[j] = functions[i]
        OBVIOUS
      <4>1. CASE i = k
        <5>1. Len(r) + 1 \in DOMAIN new /\ new[Len(r) + 1] = functions[i]
          BY <3>2, <4>1 DEF new, f
        <5> QED BY <5>1
      <4>2. CASE i \in 1..(k - 1)
        <5>1. PICK j \in DOMAIN r : r[j] = functions[i]
          BY <2>1, <4>2 DEF Selects
        <5> QED BY <3>2, <5>1 DEF new
      <4> QED BY <2>2, <4>1, <4>2
    <3>5. \A i, j \in DOMAIN new : i < j => new[i].last < new[j].first
      <4> SUFFICES ASSUME NEW i \in DOMAIN new, NEW j \in DOMAIN new, i < j
                   PROVE  new[i].last < new[j].first
        OBVIOUS
      <4>1. i \in DOMAIN r
        BY <2>1, <3>2 DEF Selects, new
      <4>2. CASE j \in DOMAIN r
        BY <2>1, <3>2, <4>1, <4>2 DEF Selects, new
      <4>3. CASE j = Len(r) + 1
        <5>1. PICK p \in 1..(k - 1) : r[i] = functions[p]
          BY <2>1, <4>1 DEF Selects
        <5>2. p \in DOMAIN functions /\ k \in DOMAIN functions /\ p < k
          BY <1>1
        <5>3. functions[p].last < functions[k].first
          BY <5>2 DEF InOrder
        <5> QED BY <3>2, <4>1, <4>3, <5>1, <5>3 DEF new, f
      <4> QED BY <3>2, <4>2, <4>3 DEF new
    <3>6. new \in Seq(Function)
      BY <3>2 DEF new
    <3>7. Selects(new, k)
      BY <3>3, <3>4, <3>5, <3>6 DEF Selects
    <3>8. TestsAmong[k] = new
      BY <3>1 DEF new
    <3>9. k \in 0..Len(functions)
      BY <1>1
    <3> QED BY <3>7, <3>8, <3>9 DEF S
  <2> QED BY <2>3, <2>4
<1> HIDE DEF S
<1>4. \A k \in 0..Len(functions) : k \in S
  BY <1>1, <1>2, <1>3, UpTo
<1> QED BY <1>1, <1>4 DEF S, TestBodies

\* On ranges in order bisect_left finds the place that its specification asks for.
LEMMA BisectLeftFinds ==
  ASSUME NEW r \in Seq(Function), NEW l \in Nat,
         \A i \in DOMAIN r : r[i].first <= r[i].last,
         \A i, j \in DOMAIN r : i < j => r[i].last < r[j].first
  PROVE  /\ BisectLeft(r, l) \in 1..(Len(r) + 1)
         /\ \A i \in 1..(BisectLeft(r, l) - 1) : r[i].last < l
         /\ \A i \in BisectLeft(r, l)..Len(r) : r[i].last >= l
<1> DEFINE K == {k \in 1..(Len(r) + 1) : \A i \in k..Len(r) : r[i].last >= l}
<1>1. Len(r) \in Nat /\ DOMAIN r = 1..Len(r)
      /\ \A i \in DOMAIN r : r[i].first \in Int /\ r[i].last \in Int
  BY BodyLines
<1>2. PICK k \in K : \A m \in K : k <= m
  <2>1. Len(r) + 1 \in K
    BY <1>1
  <2>2. K \in SUBSET Nat
    BY <1>1
  <2> HIDE DEF K
  <2> QED BY <2>1, <2>2, LeastNumber
<1>3. ASSUME NEW i \in 1..(k - 1)
      PROVE  r[i].last < l
  <2>1. k - 1 \in 1..(Len(r) + 1) /\ ~ (k <= k - 1)
    BY <1>1
  <2>2. PICK j \in (k - 1)..Len(r) : ~ (r[j].last >= l)
    BY <1>2, <2>1
  <2>3. j = k - 1 /\ j \in DOMAIN r /\ i \in DOMAIN r
    <3>1. ~ (j \in k..Len(r))
      BY <2>2
    <3> QED BY <1>1, <2>1, <2>2, <3>1
  <2>4. r[j].last < l
    BY <1>1, <2>2, <2>3
  <2>5. CASE i < j
    <3>1. r[i].last < r[j].first /\ r[j].first <= r[j].last
      BY <2>3, <2>5
    <3> QED BY <1>1, <2>3, <2>4, <3>1
  <2>6. CASE i = j
    BY <2>4, <2>6
  <2> QED BY <2>1, <2>3, <2>5, <2>6
<1>4. \E p \in 1..(Len(r) + 1) :
        /\ \A i \in 1..(p - 1) : r[i].last < l
        /\ \A i \in p..Len(r) : r[i].last >= l
  BY <1>2, <1>3
<1> QED BY <1>4 DEF BisectLeft

\* The search over the upper bounds answers whether the line is in the body of a test.
LEMMA InTestBodiesCorrect ==
  ASSUME functions \in Seq(Function), InOrder(functions), NEW l \in Nat
  PROVE  InTestBodies(TestBodies, l) <=>
           \E i \in DOMAIN functions :
             IsTestFnName(functions[i].name) /\ l \in functions[i].first..functions[i].last
<1> DEFINE r == TestBodies
           k == BisectLeft(r, l)
<1>1. Selects(r, Len(functions)) /\ DOMAIN functions = 1..Len(functions)
  BY TestsSelected
<1>2. \A i \in DOMAIN functions : functions[i].first \in Int /\ functions[i].last \in Int
  BY BodyLines
<1> HIDE DEF r
<1>3. r \in Seq(Function) /\ Len(r) \in Nat /\ DOMAIN r = 1..Len(r)
  BY <1>1 DEF Selects
<1>4. \A j \in DOMAIN r : r[j].first \in Int /\ r[j].last \in Int /\ r[j].first <= r[j].last
  BY <1>1, <1>2 DEF Selects, InOrder
<1>5. /\ k \in 1..(Len(r) + 1)
      /\ \A i \in 1..(k - 1) : r[i].last < l
      /\ \A i \in k..Len(r) : r[i].last >= l
  BY <1>1, <1>3, <1>4, BisectLeftFinds DEF Selects
<1> HIDE DEF k
<1>6. InTestBodies(r, l) <=> k <= Len(r) /\ r[k].first <= l
  BY DEF InTestBodies, k
<1>7. ASSUME k <= Len(r), r[k].first <= l
      PROVE  \E i \in DOMAIN functions :
               IsTestFnName(functions[i].name) /\ l \in functions[i].first..functions[i].last
  <2>1. k \in DOMAIN r /\ r[k].last >= l
    BY <1>3, <1>5, <1>7
  <2>2. PICK i \in DOMAIN functions : r[k] = functions[i] /\ IsTestFnName(functions[i].name)
    BY <1>1, <2>1 DEF Selects
  <2> QED BY <1>2, <1>7, <2>1, <2>2
<1>8. ASSUME NEW i \in DOMAIN functions, IsTestFnName(functions[i].name),
             l \in functions[i].first..functions[i].last
      PROVE  k <= Len(r) /\ r[k].first <= l
  <2>1. PICK j \in DOMAIN r : r[j] = functions[i]
    BY <1>1, <1>8 DEF Selects
  <2>2. r[j].first <= l /\ l <= r[j].last
    BY <1>2, <1>8, <2>1
  <2>3. j \in k..Len(r)
    BY <1>3, <1>4, <1>5, <2>1, <2>2
  <2>4. k \in DOMAIN r
    BY <1>3, <1>5, <2>3
  <2>5. CASE k < j
    <3>1. r[k].last < r[j].first /\ r[k].first <= r[k].last
      BY <1>1, <1>4, <2>1, <2>4, <2>5 DEF Selects
    <3> QED BY <1>4, <2>1, <2>2, <2>3, <2>4, <3>1
  <2>6. CASE k = j
    BY <2>2, <2>3, <2>6
  <2> QED BY <1>5, <2>3, <2>5, <2>6
<1> QED BY <1>6, <1>7, <1>8 DEF r

-----------------------------------------------------------------------------
(* The invariant: the lines behind are checked as they should be.           *)

SelectInv ==
  /\ module \in Modules /\ functions \in Files /\ filePatterns \in FileConfigs
  /\ line \in 0..(Lines + 1)
  /\ line = 0 => calls = {}
  /\ CallsOfTests
  /\ line > 0 => linked = (IsTestFileName(<<Last(module)>>) \/ Last(module) = Conftest)

\* No line is behind at the start.
LEMMA SelectInitial == SelectInit => SelectInv
<1> SUFFICES ASSUME SelectInit PROVE SelectInv
  OBVIOUS
<1>1. line = 0 /\ calls = {}
  BY DEF SelectInit
<1>2. 1..(line - 1) = {}
  BY <1>1
<1> QED BY <1>1, <1>2, LinesAssumption DEF SelectInit, SelectInv, CallsOfTests, CallsAreThoseOf

\* What a step to the next line does to the calls, if the call of this line is checked rightly.
LEMMA NextLine ==
  ASSUME SelectInv, UNCHANGED <<configVars, linked>>, line \in 1..Lines, line' = line + 1,
         calls' = IF IsChecked(line) THEN calls \cup {line} ELSE calls
  PROVE  SelectInv'
<1>1. functions \in Seq(Function) /\ InOrder(functions)
  BY FilesAssumption DEF SelectInv
<1>2. UNCHANGED <<module, functions, patterns, filePatterns, linked>>
  BY DEF configVars
<1> DEFINE Rightly(l) ==
             /\ IsTestFileName(module)
             /\ \E i \in DOMAIN functions :
                  IsTestFnName(functions[i].name) /\ l \in functions[i].first..functions[i].last
<1>3. IsChecked(line) <=> Rightly(line)
  BY <1>1, InTestBodiesCorrect, LinesAssumption DEF IsChecked
<1>4. calls = {l \in 1..(line - 1) : Rightly(l)}
  BY DEF SelectInv, CallsOfTests, CallsAreThoseOf
<1>5. 1..(line' - 1) = 1..(line - 1) \cup {line}
  BY LinesAssumption
<1>6. \A l : Rightly(l)' <=> Rightly(l)
  BY <1>2 DEF IsTestFileName, IsTestFnName
<1>7. CallsOfTests' <=> calls' = {l \in 1..(line' - 1) : Rightly(l)'}
  BY DEF CallsOfTests, CallsAreThoseOf
<1> HIDE DEF Rightly
<1>8. CallsOfTests'
  BY <1>3, <1>4, <1>5, <1>6, <1>7
<1>9. line' \in 0..(Lines + 1) /\ line' # 0 /\ line > 0
  BY LinesAssumption
<1> QED BY <1>2, <1>8, <1>9 DEF SelectInv, IsTestFileName

\* Every step of the run over the lines keeps it.
LEMMA SelectStep ==
  SelectInv /\ [SelectNext \/ (line > Lines /\ UNCHANGED selectVars)]_selectVars => SelectInv'
<1> SUFFICES ASSUME SelectInv,
                    [SelectNext \/ (line > Lines /\ UNCHANGED selectVars)]_selectVars
             PROVE  SelectInv'
  OBVIOUS
<1>1. CASE AddDependencies
  <2>1. /\ UNCHANGED <<module, functions, patterns, filePatterns, calls>>
        /\ line' = 1 /\ calls = {}
        /\ linked' = (IsTestFileName(<<Last(module)>>) \/ Last(module) = Conftest)
    BY <1>1 DEF AddDependencies, configVars, SelectInv
  <2>2. 1..(line' - 1) = {}
    BY <2>1
  <2>3. CallsOfTests'
    BY <2>1, <2>2 DEF CallsOfTests, CallsAreThoseOf
  <2> QED BY <2>1, <2>3, LinesAssumption DEF SelectInv, IsTestFileName
<1>2. CASE CheckCall
  BY <1>2, NextLine DEF CheckCall
<1>3. CASE IgnoreCall
  BY <1>3, NextLine DEF IgnoreCall
<1>4. CASE UNCHANGED selectVars
  <2>1. UNCHANGED <<module, functions, patterns, filePatterns, linked, line, calls>>
    BY <1>4 DEF selectVars, configVars
  <2> QED BY <2>1 DEF SelectInv, CallsOfTests, CallsAreThoseOf, IsTestFileName, IsTestFnName
<1> QED BY <1>1, <1>2, <1>3, <1>4 DEF SelectNext

-----------------------------------------------------------------------------

\* Whatever calls a file has, and whichever checker gets them, its lines are visited as
\* TestSelection says: reading patches and params does not interfere with the selection.
THEOREM HooksImplementSelection == HooksSpec => SelectSpec
<1>1. HooksInit => SelectInit
  BY DEF HooksInit
<1>2. [HooksNext \/ (NoCall /\ line > Lines /\ UNCHANGED hookVars)]_hookVars
        => [SelectNext \/ (line > Lines /\ UNCHANGED selectVars)]_selectVars
  <2>1. BeforeFile \/ CheckIterables \/ PassIterables => SelectNext
    BY DEF BeforeFile, CheckIterables, PassIterables, SelectNext
  <2>2. ReadCall \/ LeaveCall \/ UNCHANGED hookVars => UNCHANGED selectVars
    BY DEF ReadCall, LeaveCall, hookVars
  <2> QED BY <2>1, <2>2 DEF HooksNext
<1> QED BY <1>1, <1>2, PTL DEF HooksSpec, SelectSpec

\* It holds throughout.
LEMMA SelectInvariance == SelectSpec => []SelectInv
BY SelectInitial, SelectStep, PTL DEF SelectSpec

\* The calls that are checked for iterables are those in the bodies of tests of test files, in
\* files of any length with any functions: the search over the upper bounds is right.
THEOREM CallsOfTestsCorrect == HooksSpec => []CallsOfTests
<1>1. SelectInv => CallsOfTests
  BY DEF SelectInv
<1> QED BY <1>1, HooksImplementSelection, SelectInvariance, PTL

\* Where no pattern has a directory, the last name of a module decides like its full name, so
\* a file whose tests are checked depends on its conftests.
THEOREM TestFilesLinkedCorrect == HooksSpec => []TestFilesLinked
<1>1. SelectInv => TestFilesLinked
  <2> SUFFICES ASSUME SelectInv, line > 0,
                      \A p \in filePatterns : Separator \notin Range(p)
               PROVE  IsTestFileName(module) <=> IsTestFileName(<<Last(module)>>)
    BY DEF SelectInv, TestFilesLinked
  <2>1. module \in Seq(Name) /\ module # <<>>
    BY ModulesAssumption DEF SelectInv
  <2> DEFINE single == <<Last(module)>>
  <2>2. Last(PathFromSections(module)) = Last(PathFromSections(single))
    <3>1. Len(module) \in Nat /\ Len(module) \in DOMAIN module
      BY <2>1
    <3>2. Last(PathFromSections(module)) = Last(module) \o Suffix
      BY <2>1, <3>1 DEF PathFromSections, Last
    <3>3. Len(single) = 1 /\ single[1] = Last(module) /\ DOMAIN single = {1}
      OBVIOUS
    <3>4. single \in Seq({Last(module)})
      OBVIOUS
    <3> HIDE DEF single
    <3>5. Last(PathFromSections(single)) = Last(module) \o Suffix
      <4>1. Len(PathFromSections(single)) = 1
        BY <3>3, <3>4 DEF PathFromSections
      <4>2. PathFromSections(single)[1] = Last(module) \o Suffix
        BY <3>3 DEF PathFromSections
      <4> QED BY <4>1, <4>2 DEF Last
    <3> QED BY <3>2, <3>5
  <2>3. ASSUME NEW p \in filePatterns, NEW path
        PROVE  FnmatchEx(p, path) = Fnmatch(Last(path), p)
    <3>1. PICK T : p \in Seq(T)
      BY FileConfigsAssumption DEF SelectInv
    <3>2. ~ Contains(p, Separator)
      BY <3>1 DEF Contains, Range
    <3> QED BY <3>2 DEF FnmatchEx
  <2> HIDE DEF single
  <2>4. \A p \in filePatterns :
          FnmatchEx(p, PathFromSections(module)) = FnmatchEx(p, PathFromSections(single))
    BY <2>2, <2>3
  <2> QED BY <2>4 DEF IsTestFileName, single
<1> QED BY <1>1, HooksImplementSelection, SelectInvariance, PTL

-----------------------------------------------------------------------------
(* Formals.                                                                 *)

\* The greater of zero and a number.
LEMMA MaxOfZero ==
  ASSUME NEW x \in Int
  PROVE  Max({0, x}) \in Nat /\ Max({0, x}) >= x
<1>1. \E m \in {0, x} : \A k \in {0, x} : m >= k
  <2>1. CASE x >= 0
    BY <2>1
  <2>2. CASE x < 0
    BY <2>2
  <2> QED BY <2>1, <2>2
<1>2. Max({0, x}) \in {0, x} /\ \A k \in {0, x} : Max({0, x}) >= k
  BY <1>1 DEF Max
<1>3. Max({0, x}) >= 0 /\ Max({0, x}) >= x
  BY <1>2
<1> QED BY <1>2, <1>3

\* The only member of a set is its least.
LEMMA MinOfOne ==
  ASSUME NEW x \in Int
  PROVE  Min({x}) = x
BY DEF Min

\* The first formal of a kind.
LEMMA FirstFormal ==
  ASSUME NEW s, s \in Seq(Range(s)), NEW kinds
  PROVE  /\ FirstOf(s, kinds) \in 1..(Len(s) + 1)
         /\ \A f \in DOMAIN s : f < FirstOf(s, kinds) => s[f].kind \notin kinds
         /\ FirstOf(s, kinds) \in DOMAIN s => s[FirstOf(s, kinds)].kind \in kinds
<1> DEFINE S == {f \in DOMAIN s : s[f].kind \in kinds} \cup {Len(s) + 1}
<1>1. DOMAIN s = 1..Len(s) /\ Len(s) \in Nat
  OBVIOUS
<1>2. S \in SUBSET Nat /\ S # {} /\ S \subseteq 1..(Len(s) + 1)
  BY <1>1
<1>3. FirstOf(s, kinds) = Min(S)
  BY DEF FirstOf
<1>4. Min(S) \in S /\ \A m \in S : Min(S) <= m
  <2> HIDE DEF S
  <2>1. \E n \in S : \A m \in S : n <= m
    BY <1>2, LeastNumber
  <2> QED BY <2>1 DEF Min
<1>5. \A f \in DOMAIN s : f < Min(S) => s[f].kind \notin kinds
  <2> SUFFICES ASSUME NEW f \in DOMAIN s, f < Min(S), f \in S PROVE FALSE
    OBVIOUS
  <2> HIDE DEF S
  <2> QED BY <1>1, <1>2, <1>4
<1>6. Min(S) \in DOMAIN s => s[Min(S)].kind \in kinds
  BY <1>1, <1>4
<1> HIDE DEF S
<1> QED BY <1>2, <1>3, <1>4, <1>5, <1>6

Variadic == {"star", "star2"}
OwnPlace == {"pos", "opt"}

\* Behind(s): where the formals end that have a place of their own.
Behind(s) == FirstOf(s, FormalKinds \ OwnPlace)

\* The order of formals.
LEMMA FormalOrder ==
  ASSUME NEW s, IsSignature(s)
  PROVE  /\ DOMAIN s = 1..Len(s) /\ Len(s) \in Nat
         /\ Behind(s) \in 1..(Len(s) + 1)
         /\ FirstOf(s, Variadic) \in 1..(Len(s) + 1) /\ Behind(s) <= FirstOf(s, Variadic)
         /\ \A f \in DOMAIN s : f < Behind(s) <=> s[f].kind \in OwnPlace
         /\ \A f \in DOMAIN s : s[f].kind = "star" => f = Behind(s) /\ f = FirstOf(s, Variadic)
         /\ \A f \in DOMAIN s : f < FirstOf(s, Variadic) => s[f].kind \notin Variadic
<1>1. s \in Seq(Range(s)) /\ DOMAIN s = 1..Len(s) /\ Len(s) \in Nat
  BY DEF IsSignature
<1>2. /\ Behind(s) \in 1..(Len(s) + 1)
      /\ \A f \in DOMAIN s : f < Behind(s) => s[f].kind \notin FormalKinds \ OwnPlace
      /\ Behind(s) \in DOMAIN s => s[Behind(s)].kind \in FormalKinds \ OwnPlace
  BY <1>1, FirstFormal DEF Behind
<1>3. /\ FirstOf(s, Variadic) \in 1..(Len(s) + 1)
      /\ \A f \in DOMAIN s : f < FirstOf(s, Variadic) => s[f].kind \notin Variadic
      /\ FirstOf(s, Variadic) \in DOMAIN s => s[FirstOf(s, Variadic)].kind \in Variadic
  BY <1>1, FirstFormal
<1>4. /\ \A kind \in FormalKinds : Rank(kind) \in 1..4
      /\ \A kind \in FormalKinds : Rank(kind) = 1 <=> kind \in OwnPlace
      /\ \A kind \in FormalKinds : Rank(kind) = 2 <=> kind = "star"
      /\ \A kind \in FormalKinds : Rank(kind) = 4 <=> kind = "star2"
  BY DEF Rank, FormalKinds, PositionalKinds, OwnPlace
<1>5. \A f \in DOMAIN s : s[f].kind \in FormalKinds
  BY DEF IsSignature
<1>6. ASSUME NEW f \in DOMAIN s PROVE f < Behind(s) <=> s[f].kind \in OwnPlace
  <2>1. f < Behind(s) => s[f].kind \in OwnPlace
    BY <1>2, <1>5
  <2>2. ASSUME s[f].kind \in OwnPlace, ~ (f < Behind(s)) PROVE FALSE
    <3>1. Behind(s) \in DOMAIN s /\ Behind(s) # f
      BY <1>1, <1>2, <2>2
    <3>2. Behind(s) < f
      BY <1>1, <1>2, <2>2, <3>1
    <3>3. Rank(s[Behind(s)].kind) <= Rank(s[f].kind)
      BY <3>1, <3>2 DEF IsSignature
    <3> QED BY <1>2, <1>4, <1>5, <2>2, <3>1, <3>3
  <2> QED BY <2>1, <2>2
<1>7. ASSUME NEW f \in DOMAIN s, NEW g \in DOMAIN s, s[f].kind = "star", s[g].kind \notin OwnPlace
      PROVE  f <= g
  <2> SUFFICES ASSUME g < f PROVE FALSE
    BY <1>1
  <2>1. Rank(s[g].kind) <= Rank(s[f].kind) /\ (s[f].kind = s[g].kind => s[g].kind \notin Variadic)
    BY <1>7 DEF IsSignature, Variadic
  <2>2. s[f].kind \in FormalKinds /\ s[g].kind \in FormalKinds
    BY <1>5
  <2>3. Rank(s[f].kind) = 2
    BY <1>4, <1>7, <2>2
  <2>4. Rank(s[g].kind) = 2
    BY <1>4, <1>7, <2>1, <2>2, <2>3
  <2> QED BY <1>4, <1>7, <2>1, <2>2, <2>4 DEF Variadic
<1>8. ASSUME NEW f \in DOMAIN s, s[f].kind = "star"
      PROVE  f = Behind(s) /\ f = FirstOf(s, Variadic)
  <2>1. Behind(s) <= f /\ FirstOf(s, Variadic) <= f
    <3>1. s[f].kind \in FormalKinds \ OwnPlace /\ s[f].kind \in Variadic
      BY <1>8 DEF OwnPlace, Variadic, FormalKinds, PositionalKinds
    <3> QED BY <1>1, <1>2, <1>3, <3>1
  <2>2. Behind(s) \in DOMAIN s /\ FirstOf(s, Variadic) \in DOMAIN s
    BY <1>1, <1>2, <1>3, <2>1
  <2>3. s[Behind(s)].kind \notin OwnPlace /\ s[FirstOf(s, Variadic)].kind \notin OwnPlace
    BY <1>2, <1>3, <2>2 DEF OwnPlace, Variadic
  <2> QED BY <1>1, <1>7, <1>8, <2>1, <2>2, <2>3
<1>9. Behind(s) <= FirstOf(s, Variadic)
  <2> SUFFICES ASSUME FirstOf(s, Variadic) < Behind(s) PROVE FALSE
    BY <1>2, <1>3
  <2>1. FirstOf(s, Variadic) \in DOMAIN s
    BY <1>1, <1>2, <1>3
  <2>2. s[FirstOf(s, Variadic)].kind \in OwnPlace \cap Variadic
    BY <1>3, <1>6, <2>1
  <2> QED BY <2>2 DEF OwnPlace, Variadic
<1> QED BY <1>1, <1>2, <1>3, <1>6, <1>8, <1>9

\* Of the formals of one variadic kind and of those of a name there is one.
LEMMA FormalsDiffer ==
  ASSUME NEW s, IsSignature(s), NEW f \in DOMAIN s, NEW g \in DOMAIN s,
         \/ s[f].kind = s[g].kind /\ s[f].kind \in Variadic
         \/ s[f].name = s[g].name /\ s[f].name # NoName
  PROVE  f = g
<1>1. DOMAIN s = 1..Len(s) /\ Len(s) \in Nat
  BY FormalOrder
<1>2. ~ (f < g) /\ ~ (g < f)
  BY DEF IsSignature, Variadic
<1> QED BY <1>1, <1>2

-----------------------------------------------------------------------------
(* Positional values.                                                       *)

IsActuals(actuals) == actuals \in Seq(Range(actuals)) /\ \A i \in DOMAIN actuals : IsActual(actuals[i])

\* mypy takes an actual to be a number of values, and one starred of unknown length for as
\* many as the formals allow.
LEMMA WidthType ==
  ASSUME NEW s, IsSignature(s), NEW a, IsActual(a), NEW k \in Nat
  PROVE  /\ Width(a, s, k) \in Nat
         /\ a.kind = "star" /\ a.length = Unknown =>
              /\ k + Width(a, s, k) >= Behind(s)
              /\ (\E f \in DOMAIN s : s[f].kind = "star") => k + Width(a, s, k) >= Behind(s) + 1
<1>1. Behind(s) \in 1..(Len(s) + 1) /\ Len(s) \in Nat /\ DOMAIN s = 1..Len(s)
  BY FormalOrder
<1> DEFINE rest == Max({0, Behind(s) - k})
           variadic == IF Behind(s) \in DOMAIN s /\ s[Behind(s)].kind = "star" THEN 1 ELSE 0
<1>2. rest \in Nat /\ rest >= Behind(s) - k
  BY <1>1, MaxOfZero
<1>3. variadic \in Nat /\ ((\E f \in DOMAIN s : s[f].kind = "star") => variadic = 1)
  BY FormalOrder
<1>4. Width(a, s, k) = CASE a.kind = "pos" -> 1
                         [] a.kind = "star" -> IF a.length # Unknown THEN a.length ELSE variadic + rest
                         [] OTHER -> 0
  BY DEF Width, Behind, OwnPlace
<1>5. a.kind = "star" => a.length \in Nat \/ a.length = Unknown
  BY DEF IsActual
<1> HIDE DEF rest, variadic
<1>6. Width(a, s, k) \in Nat
  BY <1>2, <1>3, <1>4, <1>5
<1>7. ASSUME a.kind = "star", a.length = Unknown
      PROVE  /\ k + Width(a, s, k) >= Behind(s)
             /\ (\E f \in DOMAIN s : s[f].kind = "star") => k + Width(a, s, k) >= Behind(s) + 1
  <2>1. Width(a, s, k) = variadic + rest
    BY <1>4, <1>7
  <2> QED BY <1>1, <1>2, <1>3, <2>1
<1> QED BY <1>6, <1>7

\* Before is the function that its definition describes.
LEMMA BeforeUnfolds ==
  ASSUME NEW actuals, IsActuals(actuals), NEW s, IsSignature(s)
  PROVE  /\ Before(actuals, s) \in [0..Len(actuals) -> Nat]
         /\ Before(actuals, s)[0] = 0
         /\ \A k \in 1..Len(actuals) :
              Before(actuals, s)[k] =
                Before(actuals, s)[k - 1] + Width(actuals[k], s, Before(actuals, s)[k - 1] + 1)
<1> DEFINE L == Len(actuals)
           Loop(w) == [k \in 0..L |-> IF k = 0 THEN 0 ELSE w[k - 1] + Width(actuals[k], s, w[k - 1] + 1)]
           next == [k \in 1..L |-> [n \in Nat |-> n + Width(actuals[k], s, n + 1)]]
<1>1. L \in Nat /\ DOMAIN actuals = 1..L
  BY DEF IsActuals
<1>2. \A k \in 1..L : \A n \in Nat : n + Width(actuals[k], s, n + 1) \in Nat
  <2> TAKE k \in 1..L, n \in Nat
  <2>1. IsActual(actuals[k]) /\ n + 1 \in Nat
    BY <1>1 DEF IsActuals
  <2>2. Width(actuals[k], s, n + 1) \in Nat
    BY <2>1, WidthType
  <2> QED BY <2>2
<1>3. next \in [1..L -> [Nat -> Nat]]
  BY <1>2
<1>4. PICK f \in [0..L -> Nat] : Iterates(f, L, 0, next)
  <2> HIDE DEF L, next
  <2> QED BY <1>1, <1>3, Iteration
<1>5. f[0] = 0 /\ \A k \in 1..L : f[k] = f[k - 1] + Width(actuals[k], s, f[k - 1] + 1)
  <2>1. f[0] = 0 /\ \A k \in 1..L : f[k] = next[k][f[k - 1]]
    BY <1>4 DEF Iterates
  <2>2. \A k \in 1..L : k - 1 \in 0..L
    OBVIOUS
  <2>3. \A k \in 1..L : f[k - 1] \in Nat
    BY <2>2
  <2> QED BY <2>1, <2>3
<1>6. f = Loop(f)
  <2>1. \A k \in 0..L : f[k] = IF k = 0 THEN 0 ELSE f[k - 1] + Width(actuals[k], s, f[k - 1] + 1)
    <3>1. \A k \in 0..L : k = 0 \/ (k \in 1..L /\ k # 0)
      BY <1>1
    <3> QED BY <1>5, <3>1
  <2> QED BY <2>1
<1> DEFINE w == CHOOSE g : g = Loop(g)
<1>7. w = Loop(w)
  <2> HIDE DEF Loop
  <2> QED BY <1>6
<1>8. Before(actuals, s) = w
  BY DEF Before
<1> HIDE DEF w
<1>9. w[0] = 0 /\ \A k \in 1..L : w[k] = w[k - 1] + Width(actuals[k], s, w[k - 1] + 1)
  <2>1. 0 \in 0..L /\ \A k \in 1..L : k \in 0..L /\ k # 0
    BY <1>1
  <2> QED BY <1>7, <2>1
<1>10. \A k \in 0..L : w[k] \in Nat
  <2> DEFINE S == {k \in 0..L : w[k] \in Nat}
  <2>1. 0 \in S
    BY <1>1, <1>9
  <2>2. ASSUME NEW k \in 1..L, k - 1 \in S PROVE k \in S
    <3>1. w[k - 1] \in Nat /\ k \in 0..L
      BY <1>1, <2>2
    <3>2. w[k - 1] + Width(actuals[k], s, w[k - 1] + 1) \in Nat
      BY <1>2, <3>1
    <3> QED BY <1>9, <3>1, <3>2
  <2> HIDE DEF S
  <2>3. \A k \in 0..L : k \in S
    BY <1>1, <2>1, <2>2, UpTo
  <2> QED BY <2>3 DEF S
<1>11. w = [k \in 0..L |-> w[k]]
  BY <1>7
<1> HIDE DEF Loop
<1>12. w \in [0..L -> Nat]
  BY <1>10, <1>11
<1> QED BY <1>8, <1>9, <1>12

\* An expansion has a number of values and a set of keywords for each actual.
LEMMA ExpansionType ==
  ASSUME NEW actuals, IsActuals(actuals), NEW s, IsSignature(s), NEW e \in Expansions(actuals, s)
  PROVE  /\ Len(e) = Len(actuals) /\ DOMAIN e = DOMAIN actuals /\ DOMAIN actuals = 1..Len(actuals)
         /\ Len(actuals) \in Nat
         /\ \A i \in DOMAIN actuals : e[i].count \in Nat /\ e[i] \in Written(actuals[i], s)
<1>1. Len(actuals) \in Nat /\ DOMAIN actuals = 1..Len(actuals)
  BY DEF IsActuals
<1>2. e \in [1..Len(actuals) -> UNION {Written(a, s) : a \in Range(actuals)}]
      /\ \A i \in DOMAIN actuals : e[i] \in Written(actuals[i], s)
  BY <1>1 DEF Expansions
<1>3. Len(e) = Len(actuals) /\ DOMAIN e = 1..Len(actuals)
  BY <1>1, <1>2
<1>4. ASSUME NEW i \in DOMAIN actuals PROVE e[i].count \in Nat
  <2>1. Len(s) \in Nat
    BY FormalOrder
  <2>2. actuals[i].kind = "star" => actuals[i].length \in Nat \/ actuals[i].length = Unknown
    BY DEF IsActuals, IsActual
  <2>3. CASE actuals[i].kind = "star"
    <3>1. e[i].count \in IF actuals[i].length = Unknown THEN 0..Len(s) ELSE {actuals[i].length}
      BY <1>2, <2>3 DEF Written
    <3> QED BY <2>1, <2>2, <2>3, <3>1
  <2>4. CASE actuals[i].kind # "star"
    <3>1. e[i].count \in {0, 1}
      BY <1>2, <2>4 DEF Written
    <3> QED BY <3>1
  <2> QED BY <2>3, <2>4
<1> QED BY <1>1, <1>2, <1>3, <1>4

\* Given is the function that its definition describes.
LEMMA GivenUnfolds ==
  ASSUME NEW e, Len(e) \in Nat, \A k \in 1..Len(e) : e[k].count \in Nat
  PROVE  /\ Given(e) \in [0..Len(e) -> Nat]
         /\ Given(e)[0] = 0
         /\ \A k \in 1..Len(e) : Given(e)[k] = Given(e)[k - 1] + e[k].count
<1> DEFINE L == Len(e)
           Loop(w) == [k \in 0..L |-> IF k = 0 THEN 0 ELSE w[k - 1] + e[k].count]
           next == [k \in 1..L |-> [n \in Nat |-> n + e[k].count]]
<1>1. next \in [1..L -> [Nat -> Nat]]
  OBVIOUS
<1>2. PICK f \in [0..L -> Nat] : Iterates(f, L, 0, next)
  <2> HIDE DEF L, next
  <2>1. L \in Nat
    BY DEF L
  <2> QED BY <1>1, <2>1, Iteration
<1>3. f[0] = 0 /\ \A k \in 1..L : f[k] = f[k - 1] + e[k].count
  <2>1. f[0] = 0 /\ \A k \in 1..L : f[k] = next[k][f[k - 1]]
    BY <1>2 DEF Iterates
  <2>2. \A k \in 1..L : k - 1 \in 0..L
    OBVIOUS
  <2>3. \A k \in 1..L : f[k - 1] \in Nat
    BY <2>2
  <2> QED BY <2>1, <2>3
<1>4. f = Loop(f)
  <2>1. \A k \in 0..L : f[k] = IF k = 0 THEN 0 ELSE f[k - 1] + e[k].count
    <3>1. \A k \in 0..L : k = 0 \/ (k \in 1..L /\ k # 0)
      OBVIOUS
    <3> QED BY <1>3, <3>1
  <2> QED BY <2>1
<1> DEFINE w == CHOOSE g : g = Loop(g)
<1>5. w = Loop(w)
  <2> HIDE DEF Loop
  <2> QED BY <1>4
<1>6. Given(e) = w
  BY DEF Given
<1> HIDE DEF w
<1>7. w[0] = 0 /\ \A k \in 1..L : w[k] = w[k - 1] + e[k].count
  <2>1. 0 \in 0..L /\ \A k \in 1..L : k \in 0..L /\ k # 0
    OBVIOUS
  <2> QED BY <1>5, <2>1
<1>8. \A k \in 0..L : w[k] \in Nat
  <2> DEFINE S == {k \in 0..L : w[k] \in Nat}
  <2>1. 0 \in S
    BY <1>7
  <2>2. \A k \in 1..L : k - 1 \in S => k \in S
    BY <1>7
  <2> HIDE DEF S
  <2>3. \A k \in 0..L : k \in S
    BY <2>1, <2>2, UpTo
  <2> QED BY <2>3 DEF S
<1>9. w = [k \in 0..L |-> w[k]]
  BY <1>5
<1> HIDE DEF Loop
<1>10. w \in [0..L -> Nat]
  BY <1>8, <1>9
<1> QED BY <1>6, <1>7, <1>10

\* Counter(b, n): b counts up, in n steps.
Counter(b, n) == n \in Nat /\ b \in [0..n -> Nat] /\ b[0] = 0 /\ \A k \in 1..n : b[k - 1] <= b[k]

\* It never goes back.
LEMMA CounterGrows ==
  ASSUME NEW n, NEW b, Counter(b, n), NEW i \in 0..n, NEW j \in i..n
  PROVE  b[i] <= b[j]
<1> DEFINE S == {k \in 0..(n - i) : b[i] <= b[i + k]}
<1>1. n - i \in Nat /\ n \in Nat /\ \A k \in 0..(n - i) : i + k \in 0..n /\ b[i + k] \in Nat
  BY DEF Counter
<1>2. 0 \in S
  BY <1>1
<1>3. ASSUME NEW k \in 1..(n - i), k - 1 \in S PROVE k \in S
  <2>1. i + k \in 1..n /\ i + (k - 1) = (i + k) - 1 /\ k \in 0..(n - i) /\ k - 1 \in 0..(n - i)
    BY <1>1
  <2>2. b[(i + k) - 1] <= b[i + k]
    BY <2>1 DEF Counter
  <2>3. b[i] <= b[i + (k - 1)]
    BY <1>3
  <2>4. b[i] \in Nat /\ b[i + k] \in Nat /\ b[i + (k - 1)] \in Nat
    BY <1>1, <2>1 DEF Counter
  <2> QED BY <2>1, <2>2, <2>3, <2>4
<1> HIDE DEF S
<1>4. \A k \in 0..(n - i) : k \in S
  BY <1>1, <1>2, <1>3, UpTo
<1>5. j - i \in 0..(n - i) /\ i + (j - i) = j
  BY <1>1
<1> QED BY <1>4, <1>5 DEF S

\* Each number up to what is reached is passed in one step.
LEMMA CounterPasses ==
  ASSUME NEW n, NEW b, Counter(b, n), NEW m \in 0..n, NEW p \in 1..b[m]
  PROVE  \E i \in 1..m : p \in (b[i - 1] + 1)..b[i]
<1> DEFINE S == {i \in 0..m : p <= b[i]}
<1>1. n \in Nat /\ \A i \in 0..m : b[i] \in Nat
  BY DEF Counter
<1>2. S \in SUBSET Nat /\ m \in S
  BY <1>1
<1>3. PICK i \in S : \A k \in S : i <= k
  <2> HIDE DEF S
  <2> QED BY <1>2, LeastNumber
<1>4. i # 0
  BY <1>1 DEF Counter
<1>5. i \in 1..m /\ i - 1 \in 0..m /\ i - 1 \notin S
  BY <1>1, <1>3, <1>4
<1>6. b[i - 1] < p
  BY <1>1, <1>5
<1> QED BY <1>1, <1>3, <1>5, <1>6

\* It is passed once.
LEMMA CounterOnce ==
  ASSUME NEW n, NEW b, Counter(b, n), NEW i \in 1..n, NEW j \in 1..n,
         NEW p \in (b[i - 1] + 1)..b[i], p \in (b[j - 1] + 1)..b[j]
  PROVE  i = j
<1>1. n \in Nat /\ \A k \in 0..n : b[k] \in Nat
  BY DEF Counter
<1>2. i - 1 \in 0..n /\ j - 1 \in 0..n /\ i \in 0..n /\ j \in 0..n
  BY <1>1
<1>3. CASE i < j
  <2>1. b[i] <= b[j - 1]
    <3>1. j - 1 \in i..n
      BY <1>1, <1>3
    <3> QED BY <1>2, <3>1, CounterGrows
  <2> QED BY <1>1, <1>2, <2>1
<1>4. CASE j < i
  <2>1. b[j] <= b[i - 1]
    <3>1. i - 1 \in j..n
      BY <1>1, <1>4
    <3> QED BY <1>2, <3>1, CounterGrows
  <2> QED BY <1>1, <1>2, <2>1
<1> QED BY <1>1, <1>3, <1>4

\* Both mypy and Python count the positional values.
LEMMA Counters ==
  ASSUME NEW actuals, IsActuals(actuals), NEW s, IsSignature(s)
  PROVE  /\ Counter(Before(actuals, s), Len(actuals))
         /\ \A e \in Expansions(actuals, s) : Counter(Given(e), Len(actuals))
<1> DEFINE b == Before(actuals, s)
<1>1. Len(actuals) \in Nat /\ DOMAIN actuals = 1..Len(actuals)
  BY DEF IsActuals
<1>2. b \in [0..Len(actuals) -> Nat] /\ b[0] = 0
      /\ \A k \in 1..Len(actuals) : b[k] = b[k - 1] + Width(actuals[k], s, b[k - 1] + 1)
  BY BeforeUnfolds
<1> HIDE DEF b
<1>3. ASSUME NEW k \in 1..Len(actuals) PROVE b[k - 1] <= b[k]
  <2>1. k - 1 \in 0..Len(actuals) /\ IsActual(actuals[k])
    BY <1>1 DEF IsActuals
  <2>2. b[k - 1] \in Nat /\ b[k - 1] + 1 \in Nat
    BY <1>2, <2>1
  <2>3. Width(actuals[k], s, b[k - 1] + 1) \in Nat
    BY <2>1, <2>2, WidthType
  <2> QED BY <1>2, <2>2, <2>3
<1>4. Counter(b, Len(actuals))
  BY <1>1, <1>2, <1>3 DEF Counter
<1>5. ASSUME NEW e \in Expansions(actuals, s) PROVE Counter(Given(e), Len(actuals))
  <2>1. Len(e) = Len(actuals) /\ \A k \in 1..Len(e) : e[k].count \in Nat
    BY ExpansionType
  <2>2. Given(e) \in [0..Len(actuals) -> Nat] /\ Given(e)[0] = 0
        /\ \A k \in 1..Len(actuals) : Given(e)[k] = Given(e)[k - 1] + e[k].count
    BY <1>1, <2>1, GivenUnfolds
  <2>3. \A k \in 1..Len(actuals) : k - 1 \in 0..Len(actuals)
    BY <1>1
  <2>4. \A k \in 1..Len(actuals) : Given(e)[k - 1] \in Nat
    BY <2>2, <2>3
  <2>5. ASSUME NEW k \in 1..Len(actuals) PROVE Given(e)[k - 1] <= Given(e)[k]
    <3> DEFINE old == Given(e)[k - 1]
               count == e[k].count
    <3>1. old \in Nat /\ count \in Nat /\ Given(e)[k] = old + count
      BY <2>1, <2>2, <2>4
    <3> HIDE DEF old, count
    <3>2. old <= old + count
      BY <3>1
    <3> QED BY <3>1, <3>2 DEF old
  <2> QED BY <1>1, <2>2, <2>5 DEF Counter
<1> QED BY <1>4, <1>5 DEF b

\* OpenActual(a): starred, of a length nobody knows.
OpenActual(a) == a.kind = "star" /\ a.length = Unknown

\* Without such actuals they count the same.
LEMMA SameCount ==
  ASSUME NEW actuals, IsActuals(actuals), NEW s, IsSignature(s), NEW e \in Expansions(actuals, s),
         NEW m \in 0..Len(actuals), \A j \in 1..m : ~ OpenActual(actuals[j])
  PROVE  Given(e)[m] = Before(actuals, s)[m]
<1> DEFINE b == Before(actuals, s)
           g == Given(e)
           S == {j \in 0..m : g[j] = b[j]}
<1>1. /\ Len(e) = Len(actuals) /\ DOMAIN actuals = 1..Len(actuals) /\ Len(actuals) \in Nat
      /\ \A i \in DOMAIN actuals : e[i].count \in Nat /\ e[i] \in Written(actuals[i], s)
  BY ExpansionType
<1>2. g[0] = 0 /\ \A k \in 1..Len(actuals) : g[k] = g[k - 1] + e[k].count
  <2>1. \A k \in 1..Len(e) : e[k].count \in Nat
    BY <1>1
  <2> QED BY <1>1, <2>1, GivenUnfolds
<1>3. b[0] = 0 /\ \A k \in 1..Len(actuals) : b[k] = b[k - 1] + Width(actuals[k], s, b[k - 1] + 1)
  BY BeforeUnfolds
<1> HIDE DEF b, g
<1>4. 0 \in S /\ m \in Nat
  BY <1>1, <1>2, <1>3
<1>5. ASSUME NEW j \in 1..m, j - 1 \in S PROVE j \in S
  <2>1. j \in DOMAIN actuals /\ j \in 1..Len(actuals) /\ j \in 0..m
    BY <1>1
  <2>2. e[j] \in Written(actuals[j], s) /\ actuals[j].kind \in ActualKinds /\ ~ OpenActual(actuals[j])
    BY <1>1, <2>1 DEF IsActuals, IsActual
  <2>3. e[j].count = Width(actuals[j], s, b[j - 1] + 1)
    <3>1. CASE actuals[j].kind = "pos"
      <4>1. e[j].count \in {1}
        BY <2>2, <3>1 DEF Written
      <4> QED BY <3>1, <4>1 DEF Width
    <3>2. CASE actuals[j].kind = "star"
      <4>1. actuals[j].length # Unknown
        BY <2>2, <3>2 DEF OpenActual
      <4>2. e[j].count \in {actuals[j].length}
        BY <2>2, <3>2, <4>1 DEF Written
      <4> QED BY <3>2, <4>1, <4>2 DEF Width
    <3>3. CASE actuals[j].kind \in {"named", "star2"}
      <4>1. e[j].count \in {0}
        BY <2>2, <3>3 DEF Written
      <4> QED BY <3>3, <4>1 DEF Width
    <3> QED BY <2>2, <3>1, <3>2, <3>3 DEF ActualKinds
  <2>4. g[j - 1] = b[j - 1]
    BY <1>5
  <2> QED BY <1>2, <1>3, <2>1, <2>3, <2>4
<1> HIDE DEF S
<1>6. \A j \in 0..m : j \in S
  BY <1>4, <1>5, UpTo
<1>7. m \in 0..m
  BY <1>4
<1>8. g[m] = b[m]
  BY <1>6, <1>7 DEF S
<1> QED BY <1>8 DEF b, g

\* Behind such an actual no formal is left that has a place of its own.
LEMMA AllFilled ==
  ASSUME NEW actuals, IsActuals(actuals), NEW s, IsSignature(s),
         NEW j \in DOMAIN actuals, OpenActual(actuals[j]), NEW i \in j..Len(actuals)
  PROVE  /\ Before(actuals, s)[i] + 1 >= Behind(s)
         /\ (\E f \in DOMAIN s : s[f].kind = "star") => Before(actuals, s)[i] >= Behind(s)
<1> DEFINE b == Before(actuals, s)
<1>1. Len(actuals) \in Nat /\ DOMAIN actuals = 1..Len(actuals)
  BY DEF IsActuals
<1>2. b \in [0..Len(actuals) -> Nat] /\ b[j] = b[j - 1] + Width(actuals[j], s, b[j - 1] + 1)
  BY <1>1, BeforeUnfolds
<1>3. Counter(b, Len(actuals))
  BY Counters
<1>4. Behind(s) \in Nat
  BY FormalOrder
<1> HIDE DEF b
<1>5. j - 1 \in 0..Len(actuals) /\ j \in 0..Len(actuals) /\ i \in 0..Len(actuals) /\ IsActual(actuals[j])
  BY <1>1 DEF IsActuals
<1>6. b[j - 1] \in Nat /\ b[j] \in Nat /\ b[i] \in Nat /\ b[j - 1] + 1 \in Nat
  BY <1>2, <1>5
<1>7. b[j] <= b[i]
  BY <1>3, <1>5, CounterGrows
<1> DEFINE w == Width(actuals[j], s, b[j - 1] + 1)
<1>8. /\ w \in Nat /\ (b[j - 1] + 1) + w >= Behind(s)
      /\ (\E f \in DOMAIN s : s[f].kind = "star") => (b[j - 1] + 1) + w >= Behind(s) + 1
  BY <1>5, <1>6, WidthType DEF OpenActual
<1>9. b[j] = b[j - 1] + w
  BY <1>2
<1> HIDE DEF w
<1>10. /\ b[i] + 1 >= Behind(s)
       /\ (\E f \in DOMAIN s : s[f].kind = "star") => b[i] >= Behind(s)
  BY <1>4, <1>6, <1>7, <1>8, <1>9
<1> QED BY <1>10 DEF b

-----------------------------------------------------------------------------
(* Which formal takes a value.                                              *)

\* A positional value has a place among the formals that is mypy's, too.
LEMMA PlaceMet ==
  ASSUME NEW s, IsSignature(s), NEW k \in Nat, NEW f, f \in PlaceOf(s, k)
  PROVE  /\ f \in DOMAIN s
         /\ PlaceOf(s, k) = {f}
         /\ \/ f = k /\ s[f].kind \notin Variadic
            \/ s[f].kind = "star" /\ k >= Behind(s)
<1>1. /\ FirstOf(s, Variadic) \in Nat /\ Behind(s) \in Nat /\ Behind(s) <= FirstOf(s, Variadic)
      /\ \A g \in DOMAIN s : g < FirstOf(s, Variadic) => s[g].kind \notin Variadic
  BY FormalOrder
<1>2. PlaceOf(s, k) = IF k < FirstOf(s, Variadic) THEN {k} \cap DOMAIN s
                      ELSE {FirstOf(s, Variadic)} \cap {g \in DOMAIN s : s[g].kind = "star"}
  BY DEF PlaceOf, Variadic
<1> QED BY <1>1, <1>2

\* Python's formals for a place and for a keyword are one each.
LEMMA OneTakes ==
  ASSUME NEW s, IsSignature(s), NEW f, NEW g
  PROVE  /\ \A p \in Nat : f \in AtPlace(s, p) /\ g \in AtPlace(s, p) => f = g
         /\ \A x : x # NoName /\ f \in ByName(s, x) /\ g \in ByName(s, x) => f = g
<1>1. ASSUME NEW p \in Nat, f \in AtPlace(s, p), g \in AtPlace(s, p) PROVE f = g
  <2>1. f \in DOMAIN s /\ g \in DOMAIN s
        /\ (f = g \/ (s[f].kind = "star" /\ s[g].kind = "star"))
    BY <1>1 DEF AtPlace
  <2> QED BY <2>1, FormalsDiffer DEF Variadic
<1>2. ASSUME NEW x, x # NoName, f \in ByName(s, x), g \in ByName(s, x) PROVE f = g
  <2>1. f \in DOMAIN s /\ g \in DOMAIN s
        /\ \/ s[f].name = x /\ s[g].name = x
           \/ s[f].kind = "star2" /\ s[g].kind = "star2"
    BY <1>2 DEF ByName
  <2> QED BY <1>2, <2>1, FormalsDiffer DEF Variadic
<1> QED BY <1>1, <1>2

\* A formal that is not variadic takes the value of its place and of its name, no other.
LEMMA OwnTakes ==
  ASSUME NEW s, IsSignature(s), NEW f \in DOMAIN s, s[f].kind \notin Variadic
  PROVE  /\ \A p : f \in AtPlace(s, p) <=> (f = p /\ s[f].kind \in OwnPlace)
         /\ \A x : f \in ByName(s, x) <=> s[f].name = x
BY DEF AtPlace, ByName, Variadic, OwnPlace

\* A place behind those of the formals goes to the variadic one.
LEMMA StarTakes ==
  ASSUME NEW s, IsSignature(s), NEW f \in DOMAIN s, s[f].kind = "star", NEW p \in Nat,
         p >= Behind(s)
  PROVE  f \in AtPlace(s, p)
<1>1. \A g \in DOMAIN s : s[g].kind \in OwnPlace => g < Behind(s)
  BY FormalOrder
<1>2. Behind(s) \in Nat
  BY FormalOrder
<1>3. {g \in DOMAIN s : g = p /\ s[g].kind \in {"pos", "opt"}} = {}
  BY <1>1, <1>2 DEF OwnPlace
<1> QED BY <1>3 DEF AtPlace

\* A keyword goes where mypy thinks.
LEMMA NameMet ==
  ASSUME NEW actuals, IsActuals(actuals), NEW s, IsSignature(s), NEW i \in DOMAIN actuals,
         actuals[i].kind = "named", NEW f, f \in FormalsOf(actuals, s, i)
  PROVE  /\ f \in DOMAIN s /\ actuals[i].name # NoName
         /\ FormalsOf(actuals, s, i) = {f}
         /\ f \in ByName(s, actuals[i].name)
<1> DEFINE x == actuals[i].name
           named == {g \in DOMAIN s : s[g].name = x /\ s[g].kind # "star"}
           rest == {g \in DOMAIN s : s[g].kind = "star2"}
           own == {g \in DOMAIN s : s[g].name = x /\ s[g].kind \notin {"star", "star2"}}
<1>1. FormalsOf(actuals, s, i) = IF named # {} THEN named ELSE rest
  BY DEF FormalsOf, Direct
<1>2. x # NoName
  BY DEF IsActuals, IsActual
<1>3. \A g, h \in named : g = h
  BY <1>2, FormalsDiffer
<1>4. \A g, h \in rest : g = h
  BY FormalsDiffer DEF Variadic
<1>5. f \in DOMAIN s
  BY <1>1
<1>6. ByName(s, x) = IF own # {} THEN own ELSE rest
  BY DEF ByName
<1>7. f \in ByName(s, x)
  <2>1. CASE f \in named /\ s[f].kind # "star2"
    BY <1>6, <2>1
  <2>2. CASE f \in named /\ s[f].kind = "star2"
    <3>1. own = {}
      BY <1>3, <2>2
    <3> QED BY <1>6, <2>2, <3>1
  <2>3. CASE f \notin named
    BY <1>1, <1>6, <2>3
  <2> QED BY <2>1, <2>2, <2>3
<1>8. FormalsOf(actuals, s, i) = {f}
  BY <1>1, <1>3, <1>4
<1> QED BY <1>2, <1>5, <1>7, <1>8

\* Where mypy sees a positional value.
LEMMA PlaceSeen ==
  ASSUME NEW actuals, IsActuals(actuals), NEW s, IsSignature(s), NEW i \in DOMAIN actuals,
         actuals[i].kind = "pos"
  PROVE  /\ Before(actuals, s)[i - 1] \in Nat
         /\ FormalsOf(actuals, s, i) = PlaceOf(s, Before(actuals, s)[i - 1] + 1)
<1> DEFINE b == Before(actuals, s)
<1>1. Len(actuals) \in Nat /\ DOMAIN actuals = 1..Len(actuals) /\ i - 1 \in 0..Len(actuals)
  BY DEF IsActuals
<1>2. b[i - 1] \in Nat
      /\ \A k \in 1..Len(actuals) : b[k] = b[k - 1] + Width(actuals[k], s, b[k - 1] + 1)
  BY <1>1, BeforeUnfolds
<1>3. FormalsOf(actuals, s, i) = UNION {PlaceOf(s, k) : k \in (b[i - 1] + 1)..b[i]}
  BY DEF FormalsOf, Direct
<1> HIDE DEF b
<1>4. b[i] = b[i - 1] + 1
  BY <1>1, <1>2 DEF Width
<1>5. (b[i - 1] + 1)..b[i] = {b[i - 1] + 1}
  BY <1>2, <1>4
<1> QED BY <1>2, <1>3, <1>5 DEF b

\* In a call that mypy accepts, a positional value of one formal has that formal's place, or
\* one behind all places; and the former only if nothing before it is of unknown length.
LEMMA PlaceRight ==
  ASSUME NEW actuals, IsActuals(actuals), NEW s, IsSignature(s), AcceptedByMypy(actuals, s),
         NEW i \in DOMAIN actuals, actuals[i].kind = "pos", NEW f, f \in FormalsOf(actuals, s, i)
  PROVE  /\ f \in DOMAIN s
         /\ FormalsOf(actuals, s, i) = {f}
         /\ \/ /\ f = Before(actuals, s)[i - 1] + 1 /\ s[f].kind \in OwnPlace
               /\ \A j \in 1..(i - 1) : ~ OpenActual(actuals[j])
            \/ s[f].kind = "star" /\ Before(actuals, s)[i - 1] + 1 >= Behind(s)
<1> DEFINE q == Before(actuals, s)[i - 1]
           actualsOf == {j \in DOMAIN actuals : f \in FormalsOf(actuals, s, j)}
<1>1. q \in Nat /\ FormalsOf(actuals, s, i) = PlaceOf(s, q + 1)
  BY PlaceSeen
<1> HIDE DEF q
<1>2. /\ f \in DOMAIN s /\ FormalsOf(actuals, s, i) = {f}
      /\ \/ f = q + 1 /\ s[f].kind \notin Variadic
         \/ s[f].kind = "star" /\ q + 1 >= Behind(s)
  <2>1. q + 1 \in Nat
    BY <1>1
  <2> QED BY <1>1, <2>1, PlaceMet
<1>3. ASSUME f = q + 1, s[f].kind \notin Variadic
      PROVE  s[f].kind \in OwnPlace
  <2>1. /\ s[f].kind \notin {"star", "star2"} =>
             \A j \in actualsOf : actuals[j].kind \in Plain => actualsOf = {j}
        /\ (s[f].kind \in {"named", "named_opt"} /\ actualsOf # {}) =>
             actuals[Min(actualsOf)].kind \in {"named", "star2"}
    BY <1>2 DEF AcceptedByMypy
  <2>2. i \in actualsOf /\ actuals[i].kind \in Plain
    BY DEF Plain
  <2> HIDE DEF actualsOf
  <2>3. actualsOf = {i}
    BY <1>3, <2>1, <2>2 DEF Variadic
  <2>4. Min({i}) = i
    <3>1. i \in Int
      BY DEF IsActuals
    <3> QED BY <3>1, MinOfOne
  <2>5. s[f].kind \notin {"named", "named_opt"}
    BY <2>1, <2>3, <2>4
  <2>6. s[f].kind \in FormalKinds
    BY <1>2 DEF IsSignature
  <2> QED BY <1>3, <2>5, <2>6 DEF FormalKinds, PositionalKinds, OwnPlace, Variadic
<1>4. ASSUME f = q + 1, s[f].kind \in OwnPlace, NEW j \in 1..(i - 1), OpenActual(actuals[j])
      PROVE  FALSE
  <2>1. DOMAIN actuals = 1..Len(actuals) /\ Len(actuals) \in Nat
    BY DEF IsActuals
  <2>2. j \in DOMAIN actuals /\ i - 1 \in j..Len(actuals)
    BY <2>1
  <2>3. q + 1 >= Behind(s)
    BY <1>4, <2>2, AllFilled DEF q
  <2>4. f < Behind(s) /\ Behind(s) \in Nat
    BY <1>2, <1>4, FormalOrder
  <2> QED BY <1>1, <1>4, <2>3, <2>4
<1> QED BY <1>2, <1>3, <1>4 DEF q

\* Where Python sees a positional value, if nothing before it is of unknown length.
LEMMA PlaceGiven ==
  ASSUME NEW actuals, IsActuals(actuals), NEW s, IsSignature(s), NEW e \in Expansions(actuals, s),
         NEW i \in DOMAIN actuals, actuals[i].kind = "pos", \A j \in 1..(i - 1) : ~ OpenActual(actuals[j])
  PROVE  Places(e, i) = {Before(actuals, s)[i - 1] + 1} /\ e[i].names = {}
<1>1. /\ Len(e) = Len(actuals) /\ DOMAIN actuals = 1..Len(actuals) /\ Len(actuals) \in Nat
      /\ \A k \in 1..Len(actuals) : e[k].count \in Nat /\ e[k] \in Written(actuals[k], s)
  BY ExpansionType
<1>2. e[i].count = 1 /\ e[i].names = {}
  BY <1>1 DEF Written
<1> DEFINE g == Given(e)
<1>3. g[i] = g[i - 1] + e[i].count
  BY <1>1, GivenUnfolds
<1>4. g[i - 1] = Before(actuals, s)[i - 1]
  <2>1. i - 1 \in 0..Len(actuals)
    BY <1>1
  <2> QED BY <2>1, SameCount
<1>5. Before(actuals, s)[i - 1] \in Nat
  BY PlaceSeen
<1>6. Places(e, i) = (g[i - 1] + 1)..g[i]
  BY DEF Places
<1> HIDE DEF g
<1> QED BY <1>2, <1>3, <1>4, <1>5, <1>6

\* In a call that mypy accepts, one value of one formal is what Python gives the formal,
\* unless arguments of unknown length come before.
LEMMA GivenAsSeen ==
  ASSUME NEW actuals, IsActuals(actuals), NEW s, IsSignature(s), AcceptedByMypy(actuals, s),
         NEW i \in DOMAIN actuals, NEW f, f \in FormalsOf(actuals, s, i),
         \/ actuals[i].kind = "named"
         \/ actuals[i].kind = "pos" /\ (s[f].kind = "star" => \A j \in 1..(i - 1) : ~ OpenActual(actuals[j])),
         NEW e \in Expansions(actuals, s)
  PROVE  f \in DOMAIN s /\ i \in GivenBy(e, s, f)
<1>1. /\ DOMAIN e = DOMAIN actuals
      /\ \A k \in DOMAIN actuals : e[k] \in Written(actuals[k], s)
  BY ExpansionType
<1>2. CASE actuals[i].kind = "named"
  <2>1. e[i].names = {actuals[i].name}
    BY <1>1, <1>2 DEF Written
  <2>2. f \in DOMAIN s /\ f \in ByName(s, actuals[i].name)
    BY <1>2, NameMet
  <2> QED BY <1>1, <2>1, <2>2 DEF GivenBy, Naming
<1>3. CASE actuals[i].kind = "pos" /\ (s[f].kind = "star" => \A j \in 1..(i - 1) : ~ OpenActual(actuals[j]))
  <2> DEFINE p == Before(actuals, s)[i - 1] + 1
  <2>1. /\ f \in DOMAIN s
        /\ \/ /\ f = p /\ s[f].kind \in OwnPlace
              /\ \A j \in 1..(i - 1) : ~ OpenActual(actuals[j])
           \/ s[f].kind = "star" /\ p >= Behind(s)
    BY <1>3, PlaceRight
  <2>2. Places(e, i) = {p}
    BY <1>3, <2>1, PlaceGiven
  <2>3. p \in Nat
    BY <1>3, PlaceSeen
  <2> HIDE DEF p
  <2>4. f \in AtPlace(s, p)
    <3>1. CASE f = p /\ s[f].kind \in OwnPlace
      BY <2>1, <3>1, OwnTakes DEF OwnPlace, Variadic
    <3>2. CASE s[f].kind = "star" /\ p >= Behind(s)
      BY <2>1, <2>3, <3>2, StarTakes
    <3> QED BY <2>1, <3>1, <3>2
  <2> QED BY <1>1, <2>1, <2>2, <2>4 DEF GivenBy, Placing
<1> QED BY <1>2, <1>3

\* What Python accepts has one actual for each formal that is not variadic.
LEMMA GivenOnce ==
  ASSUME NEW actuals, IsActuals(actuals), NEW s, IsSignature(s), NEW e \in LegalExpansions(actuals, s),
         NEW f \in DOMAIN s, s[f].kind \notin Variadic,
         NEW i \in GivenBy(e, s, f), NEW j \in GivenBy(e, s, f)
  PROVE  i = j
<1>1. e \in Expansions(actuals, s) /\ Legal(e, s)
  BY DEF LegalExpansions
<1>2. /\ DOMAIN e = 1..Len(actuals) /\ Len(actuals) \in Nat
      /\ Counter(Given(e), Len(actuals))
  BY <1>1, ExpansionType, Counters
<1>3. Placing(e, s, f) = {} \/ Naming(e, s, f) = {}
  BY <1>1 DEF Legal, Variadic
<1>4. CASE i \in Placing(e, s, f) /\ j \in Placing(e, s, f)
  <2>1. PICK p \in Places(e, i) : f \in AtPlace(s, p)
    BY <1>4 DEF Placing
  <2>2. PICK q \in Places(e, j) : f \in AtPlace(s, q)
    BY <1>4 DEF Placing
  <2>3. p = f /\ q = f
    BY <2>1, <2>2, OwnTakes
  <2>4. i \in 1..Len(actuals) /\ j \in 1..Len(actuals)
    BY <1>2, <1>4 DEF Placing
  <2>5. f \in (Given(e)[i - 1] + 1)..Given(e)[i] /\ f \in (Given(e)[j - 1] + 1)..Given(e)[j]
    BY <2>3 DEF Places
  <2> QED BY <1>2, <2>4, <2>5, CounterOnce
<1>5. CASE i \in Naming(e, s, f) /\ j \in Naming(e, s, f)
  <2>1. PICK x \in e[i].names : f \in ByName(s, x)
    BY <1>5 DEF Naming
  <2>2. PICK y \in e[j].names : f \in ByName(s, y)
    BY <1>5 DEF Naming
  <2>3. x = s[f].name /\ y = s[f].name
    BY <2>1, <2>2, OwnTakes
  <2>4. i \in DOMAIN e /\ j \in DOMAIN e
    BY <1>5 DEF Naming
  <2> QED BY <1>1, <2>1, <2>2, <2>3, <2>4 DEF Legal
<1> QED BY <1>3, <1>4, <1>5 DEF GivenBy

-----------------------------------------------------------------------------
(* A starred actual of unknown length.                                      *)

\* The call written out with an actual that is long enough for all places, and without
\* keywords for them in ** arguments.
Stretched(e, actuals, s, j) ==
  [k \in DOMAIN actuals |->
     IF k = j THEN [count |-> Len(s), names |-> {}]
     ELSE IF actuals[k].kind = "star2"
       THEN [count |-> 0, names |-> e[k].names \ {s[h].name : h \in 1..(Behind(s) - 1)}]
     ELSE e[k]]

\* It is one of the expansions, with fewer keywords.
LEMMA StretchedExpands ==
  ASSUME NEW actuals, IsActuals(actuals), NEW s, IsSignature(s), NEW e \in Expansions(actuals, s),
         NEW j \in DOMAIN actuals, OpenActual(actuals[j])
  PROVE  /\ Stretched(e, actuals, s, j) \in Expansions(actuals, s)
         /\ \A k \in DOMAIN actuals : Stretched(e, actuals, s, j)[k].names \subseteq e[k].names
         /\ \A k \in DOMAIN actuals : actuals[k].kind # "star2" =>
              Stretched(e, actuals, s, j)[k].names = e[k].names
         /\ \A k \in DOMAIN actuals : actuals[k].kind \in {"pos", "star"} => e[k].names = {}
         /\ Stretched(e, actuals, s, j)[j].count = Len(s)
<1> DEFINE d == Stretched(e, actuals, s, j)
           names == {s[f].name : f \in DOMAIN s} \ {NoName}
           taken == {s[h].name : h \in 1..(Behind(s) - 1)}
<1>1. /\ \A k \in DOMAIN actuals : e[k] \in Written(actuals[k], s)
      /\ DOMAIN actuals = 1..Len(actuals) /\ Len(actuals) \in Nat
  BY ExpansionType
<1>2. Len(s) \in Nat
  BY FormalOrder
<1>3. \A k \in DOMAIN actuals : actuals[k].kind \in {"pos", "star"} => e[k].names = {}
  BY <1>1 DEF Written
<1>4. \A k \in DOMAIN actuals : actuals[k].kind = "star2" =>
        Written(actuals[k], s) = [count : {0}, names : SUBSET names]
  BY DEF Written
<1>5. ASSUME NEW k \in DOMAIN actuals
      PROVE  /\ d[k] \in Written(actuals[k], s) /\ d[k].names \subseteq e[k].names
             /\ actuals[k].kind # "star2" => d[k].names = e[k].names
  <2>1. CASE k = j
    <3>1. Written(actuals[k], s) = [count : 0..Len(s), names : {{}}]
      BY <2>1 DEF Written, OpenActual
    <3>2. d[k] = [count |-> Len(s), names |-> {}]
      BY <2>1 DEF Stretched
    <3>3. e[k].names = {}
      BY <1>3, <2>1 DEF OpenActual
    <3> QED BY <1>2, <3>1, <3>2, <3>3
  <2>2. CASE k # j /\ actuals[k].kind = "star2"
    <3>1. d[k] = [count |-> 0, names |-> e[k].names \ taken]
      BY <2>2 DEF Stretched
    <3> HIDE DEF names, taken, d
    <3>2. e[k] \in [count : {0}, names : SUBSET names]
      BY <1>1, <1>4, <2>2
    <3>3. e[k].names \subseteq names
      BY <3>2
    <3>4. d[k].names = e[k].names \ taken
      BY <3>1
    <3>5. [count |-> 0, names |-> e[k].names \ taken] \in [count : {0}, names : SUBSET names]
      BY <3>3
    <3>6. d[k] \in Written(actuals[k], s)
      BY <1>4, <2>2, <3>1, <3>5
    <3> QED BY <2>2, <3>4, <3>6
  <2>3. CASE k # j /\ actuals[k].kind # "star2"
    BY <1>1, <2>3 DEF Stretched
  <2> QED BY <2>1, <2>2, <2>3
<1>6. d \in [DOMAIN actuals -> UNION {Written(a, s) : a \in Range(actuals)}]
  <2>1. \A k \in DOMAIN actuals : d[k] \in UNION {Written(a, s) : a \in Range(actuals)}
    BY <1>5 DEF Range
  <2>2. d = [k \in DOMAIN actuals |-> d[k]]
    BY DEF Stretched
  <2> HIDE DEF d
  <2> QED BY <2>1, <2>2
<1>7. d \in Expansions(actuals, s)
  <2> HIDE DEF d
  <2> QED BY <1>5, <1>6 DEF Expansions
<1>8. d[j].count = Len(s)
  BY DEF Stretched
<1> HIDE DEF d
<1> QED BY <1>3, <1>5, <1>7, <1>8 DEF d

\* A formal with a place of its own is mypy's for an actual with positional values, where
\* one of them is of unknown length.
LEMMA PlacesMet ==
  ASSUME NEW actuals, IsActuals(actuals), NEW s, IsSignature(s),
         NEW j \in DOMAIN actuals, OpenActual(actuals[j]),
         NEW f \in DOMAIN s, s[f].kind \in OwnPlace
  PROVE  \E k \in DOMAIN actuals : actuals[k].kind \in {"pos", "star"} /\ f \in FormalsOf(actuals, s, k)
<1> DEFINE b == Before(actuals, s)
<1>1. DOMAIN actuals = 1..Len(actuals) /\ Len(actuals) \in Nat
  BY DEF IsActuals
<1>2. Counter(b, Len(actuals)) /\ b \in [0..Len(actuals) -> Nat]
      /\ \A k \in 1..Len(actuals) : b[k] = b[k - 1] + Width(actuals[k], s, b[k - 1] + 1)
  BY Counters, BeforeUnfolds
<1>3. b[j] + 1 >= Behind(s)
  <2>1. j \in j..Len(actuals)
    BY <1>1
  <2> QED BY <2>1, AllFilled
<1>4. /\ DOMAIN s = 1..Len(s) /\ Len(s) \in Nat /\ f < Behind(s) /\ Behind(s) \in Nat
      /\ Behind(s) <= FirstOf(s, Variadic) /\ FirstOf(s, Variadic) \in Nat
  BY FormalOrder
<1>5. \A k \in DOMAIN actuals : actuals[k].kind \in {"pos", "star"} =>
        FormalsOf(actuals, s, k) = UNION {PlaceOf(s, q) : q \in (b[k - 1] + 1)..b[k]}
  BY DEF FormalsOf, Direct
<1> HIDE DEF b
<1>6. f \in PlaceOf(s, f)
  BY <1>4 DEF PlaceOf, Variadic
<1>7. j \in 0..Len(actuals) /\ b[j] \in Nat /\ f \in 1..b[j]
  <2>1. j \in 0..Len(actuals)
    BY <1>1
  <2>2. b[j] \in Nat
    BY <1>2, <2>1
  <2> QED BY <1>3, <1>4, <2>1, <2>2
<1>8. PICK k \in 1..j : f \in (b[k - 1] + 1)..b[k]
  BY <1>2, <1>7, CounterPasses
<1>9. k \in DOMAIN actuals /\ k \in 1..Len(actuals) /\ k - 1 \in 0..Len(actuals)
  BY <1>1, <1>7
<1>10. actuals[k].kind \in {"pos", "star"}
  <2>1. b[k - 1] \in Nat /\ b[k] = b[k - 1] + Width(actuals[k], s, b[k - 1] + 1)
    BY <1>2, <1>9
  <2>2. CASE Width(actuals[k], s, b[k - 1] + 1) = 0
    <3>1. b[k] = b[k - 1]
      BY <2>1, <2>2
    <3>2. (b[k - 1] + 1)..b[k] = {}
      BY <2>1, <3>1
    <3> QED BY <1>8, <3>2
  <2>3. CASE actuals[k].kind \notin {"pos", "star"}
    BY <2>2, <2>3 DEF Width
  <2> QED BY <2>3
<1> QED BY <1>5, <1>6, <1>8, <1>9, <1>10

\* If the call can be legal, then also with an actual that long.
LEMMA StretchedLegal ==
  ASSUME NEW actuals, IsActuals(actuals), NEW s, IsSignature(s), AcceptedByMypy(actuals, s),
         NEW e \in LegalExpansions(actuals, s), NEW j \in DOMAIN actuals, OpenActual(actuals[j]),
         \E f \in DOMAIN s : s[f].kind = "star"
  PROVE  Stretched(e, actuals, s, j) \in LegalExpansions(actuals, s)
<1> DEFINE d == Stretched(e, actuals, s, j)
<1>1. e \in Expansions(actuals, s) /\ Legal(e, s)
  BY DEF LegalExpansions
<1>2. /\ d \in Expansions(actuals, s)
      /\ \A k \in DOMAIN actuals : d[k].names \subseteq e[k].names
      /\ \A k \in DOMAIN actuals : actuals[k].kind # "star2" => d[k].names = e[k].names
      /\ \A k \in DOMAIN actuals : actuals[k].kind \in {"pos", "star"} => e[k].names = {}
      /\ d[j].count = Len(s)
  BY <1>1, StretchedExpands
<1>3. \A k \in DOMAIN actuals : actuals[k].kind = "star2" =>
        d[k].names = e[k].names \ {s[h].name : h \in 1..(Behind(s) - 1)}
  BY DEF Stretched, OpenActual
<1> HIDE DEF d
<1>4. /\ DOMAIN e = DOMAIN actuals /\ DOMAIN d = DOMAIN actuals
      /\ DOMAIN actuals = 1..Len(actuals) /\ Len(actuals) \in Nat /\ Len(d) = Len(actuals)
      /\ \A k \in DOMAIN actuals : e[k] \in Written(actuals[k], s)
      /\ \A k \in 1..Len(d) : d[k].count \in Nat
  BY <1>1, <1>2, ExpansionType
<1>5. /\ DOMAIN s = 1..Len(s) /\ Len(s) \in Nat /\ Behind(s) \in 1..(Len(s) + 1)
      /\ \A f \in DOMAIN s : f < Behind(s) <=> s[f].kind \in OwnPlace
  BY FormalOrder
<1>6. \A k \in DOMAIN actuals : actuals[k].kind \in ActualKinds
  BY DEF IsActuals, IsActual
<1>7. ASSUME NEW k \in DOMAIN d
      PROVE  /\ \A p \in Places(d, k) : AtPlace(s, p) # {}
             /\ \A x \in d[k].names : ByName(s, x) # {}
  <2>1. \A p : AtPlace(s, p) # {}
    BY DEF AtPlace
  <2> QED BY <1>1, <1>2, <1>4, <2>1 DEF Legal
<1>8. \A k, l \in DOMAIN d : k # l => d[k].names \cap d[l].names = {}
  BY <1>1, <1>2, <1>4 DEF Legal
<1>9. ASSUME NEW f \in DOMAIN s, s[f].kind \notin Variadic
      PROVE  Placing(d, s, f) = {} \/ Naming(d, s, f) = {}
  <2>1. CASE s[f].kind \notin OwnPlace
    BY <1>9, <2>1, OwnTakes DEF Placing
  <2>2. CASE s[f].kind \in OwnPlace
    <3> SUFFICES ASSUME NEW k \in Naming(d, s, f) PROVE FALSE
      OBVIOUS
    <3>1. k \in DOMAIN actuals /\ \E x \in d[k].names : f \in ByName(s, x)
      BY <1>4 DEF Naming
    <3>2. s[f].name \in d[k].names
      BY <1>9, <3>1, OwnTakes
    <3>3. CASE actuals[k].kind = "star2"
      <4>1. f \in 1..(Behind(s) - 1)
        BY <1>5, <2>2
      <4> QED BY <1>3, <3>1, <3>2, <3>3, <4>1
    <3>4. CASE actuals[k].kind = "named"
      <4> DEFINE actualsOf == {l \in DOMAIN actuals : f \in FormalsOf(actuals, s, l)}
      <4>1. e[k].names = {actuals[k].name}
        BY <1>4, <3>1, <3>4 DEF Written
      <4>2. s[f].name = actuals[k].name
        BY <1>2, <3>1, <3>2, <3>4, <4>1
      <4>3. f \in FormalsOf(actuals, s, k)
        BY <1>9, <3>4, <4>2 DEF FormalsOf, Direct, Variadic
      <4>4. PICK l \in DOMAIN actuals : actuals[l].kind \in {"pos", "star"} /\ f \in FormalsOf(actuals, s, l)
        BY <2>2, PlacesMet
      <4>5. s[f].kind \notin {"star", "star2"} =>
              \A m \in actualsOf : actuals[m].kind \in Plain => actualsOf = {m}
        BY DEF AcceptedByMypy
      <4>6. k \in actualsOf /\ l \in actualsOf
        BY <3>1, <4>3, <4>4
      <4> HIDE DEF actualsOf
      <4>7. k = l
        BY <1>9, <3>4, <4>5, <4>6 DEF Variadic, Plain
      <4> QED BY <3>4, <4>4, <4>7
    <3> QED BY <1>2, <1>6, <3>1, <3>2, <3>3, <3>4 DEF ActualKinds
  <2> QED BY <2>1, <2>2
<1>10. ASSUME NEW f \in DOMAIN s, s[f].kind = "pos"
       PROVE  GivenBy(d, s, f) # {}
  <2>1. Counter(Given(d), Len(actuals))
        /\ Given(d) \in [0..Len(actuals) -> Nat]
        /\ \A k \in 1..Len(actuals) : Given(d)[k] = Given(d)[k - 1] + d[k].count
    BY <1>2, <1>4, Counters, GivenUnfolds
  <2>2. j \in 0..Len(actuals) /\ j - 1 \in 0..Len(actuals) /\ j \in 1..Len(actuals)
    BY <1>4
  <2> DEFINE g == Given(d)
  <2>3. g[j - 1] \in Nat /\ g[j] = g[j - 1] + Len(s)
    BY <1>2, <2>1, <2>2
  <2>4. f \in 1..g[j]
    BY <1>5, <2>3
  <2>5. PICK k \in 1..j : f \in (g[k - 1] + 1)..g[k]
    <3> HIDE DEF g
    <3>1. Counter(g, Len(actuals))
      BY <2>1 DEF g
    <3> QED BY <2>2, <2>4, <3>1, CounterPasses
  <2>6. k \in DOMAIN d /\ f \in Places(d, k)
    BY <1>4, <2>2, <2>5 DEF Places
  <2>7. f \in AtPlace(s, f)
    BY <1>10 DEF AtPlace
  <2> QED BY <2>6, <2>7 DEF GivenBy, Placing
<1>11. ASSUME NEW f \in DOMAIN s, s[f].kind = "named"
       PROVE  GivenBy(d, s, f) # {}
  <2>1. s[f].kind \notin Variadic /\ s[f].kind \notin OwnPlace
    BY <1>11 DEF Variadic, OwnPlace
  <2>2. GivenBy(e, s, f) # {}
    BY <1>1, <1>11 DEF Legal
  <2>3. Placing(e, s, f) = {}
    BY <2>1, OwnTakes DEF Placing
  <2>4. PICK k \in DOMAIN e : \E x \in e[k].names : f \in ByName(s, x)
    BY <2>2, <2>3 DEF GivenBy, Naming
  <2>5. s[f].name \in e[k].names /\ k \in DOMAIN actuals
    BY <1>4, <2>1, <2>4, OwnTakes
  <2>6. s[f].name \in d[k].names
    <3>1. CASE actuals[k].kind # "star2"
      BY <1>2, <2>5, <3>1
    <3>2. CASE actuals[k].kind = "star2"
      <4>1. s[f].name # NoName
        BY <1>4, <2>5, <3>2 DEF Written
      <4>2. ASSUME NEW h \in 1..(Behind(s) - 1), s[h].name = s[f].name PROVE FALSE
        <5>1. h \in DOMAIN s /\ h < Behind(s)
          BY <1>5
        <5>2. h = f
          BY <4>1, <4>2, <5>1, FormalsDiffer
        <5> QED BY <1>5, <2>1, <5>1, <5>2
      <4> QED BY <1>3, <2>5, <3>2, <4>2
    <3> QED BY <3>1, <3>2
  <2>7. f \in ByName(s, s[f].name)
    BY <2>1, OwnTakes
  <2> QED BY <1>4, <2>5, <2>6, <2>7 DEF GivenBy, Naming
<1>12. Legal(d, s)
  BY <1>7, <1>8, <1>9, <1>10, <1>11 DEF Legal, Variadic
<1> QED BY <1>2, <1>12 DEF LegalExpansions, d

\* Then a positional value behind it is the variadic formal's.
LEMMA StretchedGives ==
  ASSUME NEW actuals, IsActuals(actuals), NEW s, IsSignature(s), NEW e \in Expansions(actuals, s),
         NEW i \in DOMAIN actuals, actuals[i].kind = "pos",
         NEW j \in 1..(i - 1), OpenActual(actuals[j]),
         NEW f \in DOMAIN s, s[f].kind = "star"
  PROVE  i \in GivenBy(Stretched(e, actuals, s, j), s, f)
<1> DEFINE d == Stretched(e, actuals, s, j)
           g == Given(d)
<1>1. DOMAIN actuals = 1..Len(actuals) /\ Len(actuals) \in Nat /\ j \in DOMAIN actuals
  BY DEF IsActuals
<1>2. d \in Expansions(actuals, s) /\ d[j].count = Len(s)
  BY <1>1, StretchedExpands
<1> HIDE DEF d
<1>3. /\ DOMAIN d = DOMAIN actuals /\ Len(d) = Len(actuals)
      /\ \A k \in DOMAIN actuals : d[k] \in Written(actuals[k], s)
      /\ \A k \in 1..Len(d) : d[k].count \in Nat
  BY <1>1, <1>2, ExpansionType
<1>4. /\ Counter(g, Len(actuals)) /\ g \in [0..Len(actuals) -> Nat]
      /\ \A k \in 1..Len(actuals) : g[k] = g[k - 1] + d[k].count
  BY <1>1, <1>2, <1>3, Counters, GivenUnfolds
<1>5. d[i].count = 1
  BY <1>3 DEF Written
<1>6. Places(d, i) = (g[i - 1] + 1)..g[i]
  BY DEF Places
<1> HIDE DEF g
<1>7. /\ j - 1 \in 0..Len(actuals) /\ j \in 0..Len(actuals) /\ i - 1 \in j..Len(actuals)
      /\ i - 1 \in 0..Len(actuals) /\ i \in 1..Len(actuals) /\ j \in 1..Len(actuals)
  BY <1>1
<1>8. g[j - 1] \in Nat /\ g[j] = g[j - 1] + Len(s) /\ g[i - 1] \in Nat /\ g[i] = g[i - 1] + 1
  BY <1>2, <1>4, <1>5, <1>7
<1>9. g[j] <= g[i - 1]
  BY <1>4, <1>7, CounterGrows
<1>10. Behind(s) \in Nat /\ Len(s) \in Nat /\ Behind(s) <= Len(s) + 1
  BY FormalOrder
<1>11. g[i - 1] + 1 \in Places(d, i) /\ g[i - 1] + 1 \in Nat /\ g[i - 1] + 1 >= Behind(s)
  BY <1>6, <1>8, <1>9, <1>10
<1>12. f \in AtPlace(s, g[i - 1] + 1)
  BY <1>11, StarTakes
<1>13. i \in GivenBy(d, s, f)
  BY <1>3, <1>11, <1>12 DEF GivenBy, Placing
<1> QED BY <1>13 DEF d

-----------------------------------------------------------------------------
(* What is read.                                                            *)

\* The signatures that a call may mean, and its actuals.
LEMMA CallParts ==
  ASSUME NEW c, IsCall(c)
  PROVE  /\ IsActuals(c.actuals)
         /\ \A s \in SignaturesOf(c) :
              /\ IsSignature(s) /\ AcceptedByMypy(c.actuals, s)
              /\ c.callee.form # "other"
              /\ \E k \in DOMAIN c.callee.signatures : s = Bound(c.callee)[k]
              /\ c.callee.form = "function" => s = c.callee.signatures[1]
         /\ c.callee.signatures \in Seq(Range(c.callee.signatures)) /\ c.callee.signatures # <<>>
<1>1. IsActuals(c.actuals)
  BY DEF IsCall, IsActuals
<1>2. IsCallee(c.callee)
  BY DEF IsCall
<1>3. c.callee.signatures \in Seq(Range(c.callee.signatures)) /\ c.callee.signatures # <<>>
  BY <1>2 DEF IsCallee
<1>4. ASSUME NEW s \in SignaturesOf(c)
      PROVE  /\ IsSignature(s) /\ AcceptedByMypy(c.actuals, s)
             /\ c.callee.form # "other"
             /\ \E k \in DOMAIN c.callee.signatures : s = Bound(c.callee)[k]
             /\ c.callee.form = "function" => s = c.callee.signatures[1]
  <2>1. c.callee.form # "other" /\ s \in Range(Bound(c.callee)) /\ AcceptedByMypy(c.actuals, s)
    BY DEF SignaturesOf
  <2>2. DOMAIN Bound(c.callee) = DOMAIN c.callee.signatures
    BY DEF Bound
  <2>3. PICK k \in DOMAIN c.callee.signatures : s = Bound(c.callee)[k]
    BY <2>1, <2>2 DEF Range
  <2>4. IsSignature(s)
    BY <1>2, <2>1, <2>3 DEF IsCallee
  <2>5. c.callee.form = "function" => s = c.callee.signatures[1]
    <3> SUFFICES ASSUME c.callee.form = "function" PROVE s = c.callee.signatures[1]
      OBVIOUS
    <3>1. Len(c.callee.signatures) = 1
      BY <1>2 DEF IsCallee
    <3>2. DOMAIN c.callee.signatures = 1..1
      BY <1>3, <3>1
    <3> QED BY <2>3, <3>2 DEF Bound
  <2> QED BY <2>1, <2>3, <2>4, <2>5
<1> QED BY <1>1, <1>3, <1>4

\* What is read for a name is an actual of one formal of that name, in every signature.
LEMMA MappingAgrees ==
  ASSUME NEW c, IsCall(c), c.callee.form # "other",
         NEW x \in DOMAIN NamedArgMapping(c.actuals, c.callee),
         NEW k \in DOMAIN c.callee.signatures, NEW s, s = Bound(c.callee)[k],
         NEW i, i = NamedArgMapping(c.actuals, c.callee)[x]
  PROVE  i \in DOMAIN c.actuals /\ \E f \in DOMAIN s :
           FormalsOf(c.actuals, s, i) = {f} /\ s[f].kind \in AcceptedKinds /\ s[f].name = x
<1> DEFINE a == c.actuals
           mappings == [n \in DOMAIN c.callee.signatures |-> CallableMapping(a, Bound(c.callee)[n])]
           kept(y) == {j \in DOMAIN a : \E f \in DOMAIN s : /\ FormalsOf(a, s, j) = {f}
                                                            /\ s[f].kind \in AcceptedKinds
                                                            /\ s[f].name = y}
<1>1. NamedArgMapping(a, c.callee) = Merged(mappings)
  BY DEF NamedArgMapping
<1>2. mappings[k] \in Range(mappings) /\ mappings[k] = CallableMapping(a, s)
  BY DEF Range
<1>3. x \in DOMAIN mappings[k] /\ Merged(mappings)[x] = mappings[k][x]
  <2> HIDE DEF mappings
  <2> QED BY <1>1, <1>2 DEF Merged
<1>4. kept(x) # {} /\ mappings[k][x] = Max(kept(x))
  <2> HIDE DEF mappings, a
  <2> QED BY <1>2, <1>3 DEF CallableMapping
<1>5. kept(x) \in SUBSET (1..Len(a)) /\ Len(a) \in Nat
  BY DEF IsCall
<1> HIDE DEF mappings
<1>6. Max(kept(x)) \in kept(x)
  <2> HIDE DEF kept, a
  <2>1. \E m \in kept(x) : \A n \in kept(x) : n <= m
    BY <1>4, <1>5, GreatestNumber
  <2> QED BY <1>5, <2>1 DEF Max
<1> QED BY <1>1, <1>3, <1>4, <1>6

\* What is read of a patch is what Python gives the formal.
LEMMA MappedIsGiven ==
  ASSUME NEW c, IsCall(c), NEW x \in DOMAIN NamedArgMapping(c.actuals, c.callee),
         NEW i, i = NamedArgMapping(c.actuals, c.callee)[x], c.actuals[i].kind \in Plain,
         NEW s \in SignaturesOf(c), NEW e \in LegalExpansions(c.actuals, s)
  PROVE  \E f \in DOMAIN s : s[f].name = x /\ GivenBy(e, s, f) = {i}
<1>1. /\ IsActuals(c.actuals) /\ IsSignature(s) /\ AcceptedByMypy(c.actuals, s)
      /\ c.callee.form # "other" /\ c.actuals \in Seq(Range(c.actuals))
      /\ c.callee.signatures \in Seq(Range(c.callee.signatures)) /\ c.callee.signatures # <<>>
  BY CallParts DEF IsActuals
<1>2. PICK k \in DOMAIN c.callee.signatures : s = Bound(c.callee)[k]
  BY CallParts
<1>3. i \in DOMAIN c.actuals /\ \E f \in DOMAIN s :
        FormalsOf(c.actuals, s, i) = {f} /\ s[f].kind \in AcceptedKinds /\ s[f].name = x
  <2>1. c.callee.form # "other" /\ s = Bound(c.callee)[k]
    BY <1>1, <1>2
  <2> QED BY <2>1, MappingAgrees
<1>4. PICK f \in DOMAIN s : /\ FormalsOf(c.actuals, s, i) = {f}
                            /\ s[f].kind \in AcceptedKinds /\ s[f].name = x
  BY <1>3
<1>5. e \in Expansions(c.actuals, s) /\ s[f].kind # "star" /\ s[f].kind \notin Variadic
  BY <1>4 DEF LegalExpansions, AcceptedKinds, Variadic
<1>6. i \in GivenBy(e, s, f)
  <2>1. f \in FormalsOf(c.actuals, s, i) /\ c.actuals[i].kind \in {"pos", "named"}
    BY <1>4 DEF Plain
  <2> QED BY <1>1, <1>3, <1>5, <2>1, GivenAsSeen
<1>7. \A j \in GivenBy(e, s, f) : j = i
  BY <1>1, <1>5, <1>6, GivenOnce
<1> QED BY <1>4, <1>6, <1>7

\* What is read of a pytest.param is what Python gives the formal.
LEMMA KeywordIsGiven ==
  ASSUME NEW c, IsCall(c), c.origin = "_pytest.mark.param",
         NEW x \in DOMAIN Keyword(c, "marks"), NEW i, i = Keyword(c, "marks")[x],
         NEW s \in SignaturesOf(c), NEW e \in LegalExpansions(c.actuals, s)
  PROVE  \E f \in DOMAIN s : s[f].name = x /\ GivenBy(e, s, f) = {i}
<1>1. /\ IsActuals(c.actuals) /\ IsSignature(s) /\ s = c.callee.signatures[1]
      /\ e \in Expansions(c.actuals, s)
  BY CallParts DEF IsCall, LegalExpansions
<1>2. x = "marks" /\ i \in NamedArg(c.actuals, "marks")
  BY DEF Keyword
<1>3. i \in DOMAIN c.actuals /\ c.actuals[i].kind = "named" /\ c.actuals[i].name = "marks"
  BY <1>2 DEF NamedArg
<1>4. PICK f \in DOMAIN s : s[f].name = "marks" /\ s[f].kind = "named_opt"
  BY <1>1 DEF IsCall
<1>5. s[f].kind \notin Variadic
  BY <1>4 DEF Variadic
<1>6. DOMAIN e = DOMAIN c.actuals /\ e[i] \in Written(c.actuals[i], s)
  BY <1>1, <1>3, ExpansionType
<1>7. e[i].names = {"marks"}
  BY <1>3, <1>6 DEF Written
<1>8. f \in ByName(s, "marks")
  BY <1>1, <1>4, <1>5, OwnTakes
<1>9. i \in GivenBy(e, s, f)
  BY <1>3, <1>6, <1>7, <1>8 DEF GivenBy, Naming
<1>10. \A j \in GivenBy(e, s, f) : j = i
  BY <1>1, <1>5, <1>9, GivenOnce
<1> QED BY <1>2, <1>4, <1>9, <1>10

\* Nothing that must be given is missed.
LEMMA MappedIsWhole ==
  ASSUME NEW c, IsCall(c), AllPlain(c), Len(c.callee.signatures) = 1,
         NEW s \in SignaturesOf(c), NEW f \in DOMAIN s, s[f].kind \in Plain, s[f].name # NoName
  PROVE  s[f].name \in DOMAIN NamedArgMapping(c.actuals, c.callee)
<1> DEFINE a == c.actuals
           x == s[f].name
<1>1. /\ IsActuals(a) /\ IsSignature(s) /\ AcceptedByMypy(a, s) /\ c.callee.form # "other"
      /\ c.callee.signatures \in Seq(Range(c.callee.signatures))
  BY CallParts
<1>2. PICK k \in DOMAIN c.callee.signatures : s = Bound(c.callee)[k]
  BY CallParts
<1>3. k = 1 /\ DOMAIN c.callee.signatures = 1..1
  BY <1>1, <1>2
<1>4. PICK i \in DOMAIN a : f \in FormalsOf(a, s, i)
  BY <1>1 DEF AcceptedByMypy
<1>5. FormalsOf(a, s, i) = {f}
  <2>1. a[i].kind \in {"pos", "named"}
    BY DEF AllPlain, Plain
  <2> QED BY <1>1, <1>4, <2>1, PlaceRight, NameMet
<1>6. x \in DOMAIN CallableMapping(a, s)
  <2>1. s[f].kind \in AcceptedKinds
    BY DEF AcceptedKinds, Plain
  <2> QED BY <1>4, <1>5, <2>1 DEF CallableMapping
<1> DEFINE mappings == [n \in DOMAIN c.callee.signatures |-> CallableMapping(a, Bound(c.callee)[n])]
<1>7. Head(mappings) = CallableMapping(a, s) /\ Range(mappings) = {CallableMapping(a, s)}
  <2>1. DOMAIN mappings = 1..1 /\ mappings[1] = CallableMapping(a, s)
    BY <1>2, <1>3
  <2> HIDE DEF mappings
  <2> QED BY <2>1 DEF Range
<1>8. NamedArgMapping(a, c.callee) = Merged(mappings)
  BY <1>1 DEF NamedArgMapping
<1> HIDE DEF mappings, a, x
<1>9. x \in DOMAIN Merged(mappings)
  BY <1>6, <1>7 DEF Merged
<1> QED BY <1>8, <1>9 DEF a, x

-----------------------------------------------------------------------------
(* What is reported.                                                        *)

\* The one formal of a sequence passed for an iterable.
LEMMA ReportedIsOne ==
  ASSUME NEW c, IsCall(c), c.callee.form = "function", NEW s \in SignaturesOf(c),
         NEW i \in IterableReports(c.actuals, c.callee)
  PROVE  /\ i \in DOMAIN c.actuals /\ c.actuals[i].sequence /\ c.actuals[i].kind \in Plain
         /\ \E f \in DOMAIN s : FormalsOf(c.actuals, s, i) = {f} /\ s[f].iterable
<1>1. s = c.callee.signatures[1]
  BY CallParts
<1> QED BY <1>1 DEF IterableReports, SingleFormal

\* GivenTo(i, e, s): the iterables that get a value of actual i.
GivenTo(i, e, s) == {f \in DOMAIN s : i \in GivenBy(e, s, f) /\ s[f].iterable}

\* Without arguments of unknown length it is given to an iterable.
LEMMA ReportedIsGiven ==
  ASSUME NEW c, IsCall(c), c.callee.form = "function", NEW s \in SignaturesOf(c),
         NEW i \in IterableReports(c.actuals, c.callee), ~ OpenEnded(c),
         NEW e \in LegalExpansions(c.actuals, s)
  PROVE  GivenTo(i, e, s) # {}
<1>1. IsActuals(c.actuals) /\ IsSignature(s) /\ AcceptedByMypy(c.actuals, s)
  BY CallParts
<1>2. i \in DOMAIN c.actuals /\ c.actuals[i].kind \in {"pos", "named"}
  BY ReportedIsOne DEF Plain
<1>3. PICK f \in DOMAIN s : FormalsOf(c.actuals, s, i) = {f} /\ s[f].iterable
  BY ReportedIsOne
<1>4. \A j \in 1..(i - 1) : ~ OpenActual(c.actuals[j])
  <2>1. \A j \in 1..(i - 1) : j \in DOMAIN c.actuals
    BY <1>1, <1>2 DEF IsActuals
  <2> QED BY <2>1 DEF OpenEnded, OpenActual
<1>5. e \in Expansions(c.actuals, s) /\ f \in FormalsOf(c.actuals, s, i)
  BY <1>3 DEF LegalExpansions
<1>6. i \in GivenBy(e, s, f)
  BY <1>1, <1>2, <1>4, <1>5, GivenAsSeen
<1> QED BY <1>3, <1>6 DEF GivenTo

\* With such arguments it may be given to one.
LEMMA ReportedMayBeGiven ==
  ASSUME NEW c, IsCall(c), c.callee.form = "function", NEW s \in SignaturesOf(c),
         NEW i \in IterableReports(c.actuals, c.callee), LegalExpansions(c.actuals, s) # {}
  PROVE  \E e \in LegalExpansions(c.actuals, s) : GivenTo(i, e, s) # {}
<1>1. IsActuals(c.actuals) /\ IsSignature(s) /\ AcceptedByMypy(c.actuals, s)
  BY CallParts
<1>2. i \in DOMAIN c.actuals /\ c.actuals[i].kind \in {"pos", "named"}
  BY ReportedIsOne DEF Plain
<1>3. PICK f \in DOMAIN s : FormalsOf(c.actuals, s, i) = {f} /\ s[f].iterable
  BY ReportedIsOne
<1>4. PICK e \in LegalExpansions(c.actuals, s) : TRUE
  OBVIOUS
<1>5. e \in Expansions(c.actuals, s)
  BY <1>4 DEF LegalExpansions
<1>6. CASE c.actuals[i].kind = "pos" /\ s[f].kind = "star"
           /\ \E j \in 1..(i - 1) : OpenActual(c.actuals[j])
  <2>1. PICK j \in 1..(i - 1) : OpenActual(c.actuals[j])
    BY <1>6
  <2>2. j \in DOMAIN c.actuals
    BY <1>1, <1>2, <2>1 DEF IsActuals
  <2> DEFINE d == Stretched(e, c.actuals, s, j)
  <2>3. d \in LegalExpansions(c.actuals, s)
    BY <1>1, <1>4, <1>6, <2>1, <2>2, StretchedLegal
  <2>4. i \in GivenBy(d, s, f)
    BY <1>1, <1>2, <1>5, <1>6, <2>1, StretchedGives
  <2> HIDE DEF d
  <2> QED BY <1>3, <2>3, <2>4 DEF GivenTo
<1>7. CASE \/ c.actuals[i].kind = "named"
           \/ /\ c.actuals[i].kind = "pos"
              /\ s[f].kind = "star" => \A j \in 1..(i - 1) : ~ OpenActual(c.actuals[j])
  <2>1. f \in FormalsOf(c.actuals, s, i)
    BY <1>3
  <2>2. i \in GivenBy(e, s, f)
    BY <1>1, <1>2, <1>5, <1>7, <2>1, GivenAsSeen
  <2> QED BY <1>3, <1>4, <2>2 DEF GivenTo
<1> QED BY <1>2, <1>6, <1>7

\* Without starred arguments every sequence given to an iterable is reported.
LEMMA GivenIsReported ==
  ASSUME NEW c, IsCall(c), c.callee.form = "function", ~ c.callee.stdlib, AllPlain(c),
         NEW s \in SignaturesOf(c), NEW e \in LegalExpansions(c.actuals, s),
         NEW i \in DOMAIN c.actuals, c.actuals[i].sequence, NEW f \in GivenTo(i, e, s)
  PROVE  i \in IterableReports(c.actuals, c.callee)
<1> DEFINE a == c.actuals
<1>1. IsActuals(a) /\ IsSignature(s) /\ AcceptedByMypy(a, s) /\ s = c.callee.signatures[1]
  BY CallParts
<1>2. /\ e \in Expansions(a, s) /\ f \in DOMAIN s /\ i \in GivenBy(e, s, f) /\ s[f].iterable
      /\ a[i].kind \in Plain
  BY DEF LegalExpansions, GivenTo, AllPlain
<1>3. PICK g : g \in FormalsOf(a, s, i)
  BY <1>1, <1>2 DEF AcceptedByMypy
<1>4. \A j \in 1..(i - 1) : ~ OpenActual(a[j])
  <2>1. \A j \in 1..(i - 1) : j \in DOMAIN a
    BY <1>1 DEF IsActuals
  <2> QED BY <2>1 DEF AllPlain, Plain, OpenActual
<1>5. g \in DOMAIN s /\ i \in GivenBy(e, s, g)
  BY <1>1, <1>2, <1>3, <1>4, GivenAsSeen DEF Plain
<1>6. e[i] \in Written(a[i], s) /\ DOMAIN a = 1..Len(a) /\ Len(a) \in Nat
  BY <1>1, <1>2, ExpansionType
<1>7. CASE a[i].kind = "pos"
  <2> DEFINE p == Before(a, s)[i - 1] + 1
  <2>1. Places(e, i) = {p} /\ e[i].names = {}
    BY <1>1, <1>2, <1>4, <1>7, PlaceGiven
  <2>2. p \in Nat
    <3>1. Before(a, s)[i - 1] \in Nat
      BY <1>1, <1>7, PlaceSeen
    <3> QED BY <3>1
  <2> HIDE DEF p
  <2>3. f \in AtPlace(s, p) /\ g \in AtPlace(s, p)
    BY <1>2, <1>5, <2>1 DEF GivenBy, Placing, Naming
  <2>4. f = g
    BY <1>1, <2>2, <2>3, OneTakes
  <2>5. FormalsOf(a, s, i) = {g}
    BY <1>1, <1>3, <1>7, PlaceRight
  <2> QED BY <1>1, <1>2, <2>4, <2>5 DEF IterableReports, SingleFormal
<1>8. CASE a[i].kind = "named"
  <2> DEFINE w == Given(e)
             x == a[i].name
  <2>1. e[i].names = {x} /\ e[i].count = 0
    BY <1>6, <1>8 DEF Written
  <2>2. Places(e, i) = {}
    <3>1. /\ \A k \in 1..Len(e) : e[k].count \in Nat
          /\ Len(e) = Len(a)
      BY <1>1, <1>2, ExpansionType
    <3>2. w \in [0..Len(a) -> Nat] /\ w[i] = w[i - 1] + e[i].count
      BY <1>6, <3>1, GivenUnfolds
    <3>3. i - 1 \in 0..Len(a)
      BY <1>6
    <3>4. Places(e, i) = (w[i - 1] + 1)..w[i]
      BY DEF Places
    <3> HIDE DEF w
    <3>5. w[i - 1] \in Nat /\ w[i] = w[i - 1]
      BY <2>1, <3>2, <3>3
    <3> QED BY <3>4, <3>5
  <2>3. f \in ByName(s, x) /\ g \in ByName(s, x)
    BY <1>2, <1>5, <2>1, <2>2 DEF GivenBy, Placing, Naming
  <2>4. x # NoName /\ FormalsOf(a, s, i) = {g}
    BY <1>1, <1>3, <1>8, NameMet
  <2> HIDE DEF x
  <2>5. f = g
    BY <1>1, <2>3, <2>4, OneTakes
  <2> QED BY <1>1, <1>2, <2>4, <2>5 DEF IterableReports, SingleFormal
<1> QED BY <1>2, <1>7, <1>8 DEF Plain

-----------------------------------------------------------------------------
(* The invariant: what is kept of a call is what its hook makes of it.      *)

HooksInv ==
  /\ configVars \in Modules \X Files \X Configs \X FileConfigs
  /\ \/ NoCall
     \/ \E c \in CallsIn(configVars) :
          /\ call = <<c>> /\ read = Read(c)
          /\ reported = IF HookedElsewhere(c) \/ ~ c.real THEN {} ELSE IterableReports(c.actuals, c.callee)

\* Every step keeps it.
LEMMA HooksInvariance == HooksSpec => []HooksInv
<1>1. HooksInit => HooksInv
  BY DEF HooksInit, SelectInit, HooksInv, configVars
<1>2. ASSUME HooksInv, [HooksNext \/ (NoCall /\ line > Lines /\ UNCHANGED hookVars)]_hookVars
      PROVE  HooksInv'
  <2>1. UNCHANGED configVars
    BY <1>2 DEF HooksNext, BeforeFile, ReadCall, CheckIterables, PassIterables, LeaveCall,
                AddDependencies, CheckCall, IgnoreCall, hookVars, selectVars
  <2>2. CASE UNCHANGED callVars
    BY <1>2, <2>1, <2>2 DEF HooksInv, callVars, NoCall
  <2>3. CASE ReadCall
    <3>1. PICK c \in CallsIn(configVars) :
            HookedElsewhere(c) /\ call' = <<c>> /\ read' = Read(c) /\ reported' = {}
      BY <2>3 DEF ReadCall
    <3> QED BY <1>2, <2>1, <3>1 DEF HooksInv
  <2>4. CASE CheckIterables
    <3>1. PICK c \in CallsIn(configVars) :
            /\ ~ HookedElsewhere(c) /\ call' = <<c>> /\ read' = <<>>
            /\ reported' = IF c.real THEN IterableReports(c.actuals, c.callee) ELSE {}
      BY <2>4 DEF CheckIterables
    <3>2. Read(c) = <<>>
      BY <3>1 DEF Read, HookedElsewhere
    <3> QED BY <1>2, <2>1, <3>1, <3>2 DEF HooksInv
  <2>5. CASE LeaveCall
    BY <1>2, <2>1, <2>5 DEF HooksInv, LeaveCall, NoCall
  <2> QED BY <1>2, <2>2, <2>3, <2>4, <2>5
          DEF HooksNext, BeforeFile, PassIterables, hookVars
<1> QED BY <1>1, <1>2, PTL DEF HooksSpec

\* The call that was just seen.
LEMMA CallSeen ==
  ASSUME HooksInv, NEW c \in Range(call)
  PROVE  /\ IsCall(c) /\ read = Read(c)
         /\ reported = IF HookedElsewhere(c) \/ ~ c.real THEN {} ELSE IterableReports(c.actuals, c.callee)
<1>1. call # <<>>
  BY DEF Range
<1>2. PICK d \in CallsIn(configVars) :
        /\ call = <<d>> /\ read = Read(d)
        /\ reported = IF HookedElsewhere(d) \/ ~ d.real THEN {} ELSE IterableReports(d.actuals, d.callee)
  BY <1>1 DEF HooksInv, NoCall
<1>3. c = d
  BY <1>2 DEF Range
<1>4. IsCall(d)
  BY CallsAssumption DEF HooksInv
<1> QED BY <1>2, <1>3, <1>4

\* In a call that mypy accepts, with any actuals and any overloads, an argument without a star
\* that is read for the name of a formal is what Python gives the formal; starred arguments that
\* are themselves read for a formal are left out, as in ReadIsBound.
THEOREM ReadIsBoundCorrect == HooksSpec => []ReadIsBound
<1>1. HooksInv => ReadIsBound
  <2> SUFFICES ASSUME HooksInv, NEW c \in Range(call)
               PROVE  /\ \A x \in DOMAIN read : c.actuals[read[x]].kind \in Plain =>
                           \A s \in SignaturesOf(c) : \A e \in LegalExpansions(c.actuals, s) :
                             \E f \in DOMAIN s : s[f].name = x /\ GivenBy(e, s, f) = {read[x]}
                      /\ (c.origin = "unittest.mock" /\ AllPlain(c) /\ Len(c.callee.signatures) = 1) =>
                           \A s \in SignaturesOf(c) : LegalExpansions(c.actuals, s) # {} =>
                             \A f \in DOMAIN s :
                               (s[f].kind \in Plain /\ s[f].name # NoName) => s[f].name \in DOMAIN read
    BY DEF ReadIsBound
  <2>1. IsCall(c) /\ read = Read(c)
    BY CallSeen
  <2>2. CASE c.origin = "unittest.mock"
    <3>1. read = NamedArgMapping(c.actuals, c.callee)
      BY <2>1, <2>2 DEF Read
    <3> QED BY <2>1, <3>1, MappedIsGiven, MappedIsWhole
  <2>3. CASE c.origin = "_pytest.mark.param"
    <3>1. read = Keyword(c, "marks")
      BY <2>1, <2>3 DEF Read
    <3>2. ASSUME NEW x \in DOMAIN Keyword(c, "marks"),
                 NEW s \in SignaturesOf(c), NEW e \in LegalExpansions(c.actuals, s)
          PROVE  \E f \in DOMAIN s : s[f].name = x /\ GivenBy(e, s, f) = {Keyword(c, "marks")[x]}
      BY <2>1, <2>3, KeywordIsGiven
    <3> QED BY <2>3, <3>1, <3>2
  <2>4. CASE c.origin \notin {"unittest.mock", "_pytest.mark.param"}
    <3>1. read = <<>>
      BY <2>1, <2>4 DEF Read
    <3> QED BY <2>4, <3>1
  <2> QED BY <2>2, <2>3, <2>4
<1> QED BY <1>1, HooksInvariance, PTL

\* What is reported of a call, of any actuals, is a sequence given to an iterable, and without
\* starred arguments every such sequence is reported.
THEOREM IterablesNoticedCorrect == HooksSpec => []IterablesNoticed
<1>1. HooksInv => IterablesNoticed
  <2> SUFFICES ASSUME HooksInv, NEW c \in Range(call), c.callee.form = "function",
                      NEW s \in SignaturesOf(c)
               PROVE  LET expansions == LegalExpansions(c.actuals, s)
                          givenTo(i, e) == {f \in DOMAIN s : i \in GivenBy(e, s, f) /\ s[f].iterable}
                      IN /\ \A i \in reported :
                              /\ c.actuals[i].sequence /\ c.actuals[i].kind \in Plain
                              /\ expansions # {} => \E e \in expansions : givenTo(i, e) # {}
                              /\ ~ OpenEnded(c) => \A e \in expansions : givenTo(i, e) # {}
                         /\ (~ HookedElsewhere(c) /\ c.real /\ ~ c.callee.stdlib /\ AllPlain(c)) =>
                              \A i \in DOMAIN c.actuals : \A e \in expansions :
                                (c.actuals[i].sequence /\ givenTo(i, e) # {}) => i \in reported
    BY DEF IterablesNoticed
  <2> DEFINE expansions == LegalExpansions(c.actuals, s)
             givenTo(i, e) == {f \in DOMAIN s : i \in GivenBy(e, s, f) /\ s[f].iterable}
  <2>1. /\ IsCall(c)
        /\ reported = IF HookedElsewhere(c) \/ ~ c.real THEN {} ELSE IterableReports(c.actuals, c.callee)
    BY CallSeen
  <2>2. \A i, e : givenTo(i, e) = GivenTo(i, e, s)
    BY DEF GivenTo
  <2> HIDE DEF givenTo
  <2>3. ASSUME NEW i \in reported
        PROVE  /\ c.actuals[i].sequence /\ c.actuals[i].kind \in Plain
               /\ expansions # {} => \E e \in expansions : givenTo(i, e) # {}
               /\ ~ OpenEnded(c) => \A e \in expansions : givenTo(i, e) # {}
    <3>1. i \in IterableReports(c.actuals, c.callee)
      BY <2>1
    <3> QED BY <2>1, <2>2, <3>1, ReportedIsOne, ReportedMayBeGiven, ReportedIsGiven
  <2>4. ASSUME ~ HookedElsewhere(c), c.real, ~ c.callee.stdlib, AllPlain(c),
               NEW i \in DOMAIN c.actuals, NEW e \in expansions,
               c.actuals[i].sequence, givenTo(i, e) # {}
        PROVE  i \in reported
    <3>1. PICK f : f \in GivenTo(i, e, s)
      BY <2>2, <2>4
    <3>2. i \in IterableReports(c.actuals, c.callee)
      BY <2>1, <2>4, <3>1, GivenIsReported
    <3> QED BY <2>1, <2>4, <3>2
  <2> QED BY <2>3, <2>4 DEF givenTo
<1> QED BY <1>1, HooksInvariance, PTL

=============================================================================
