------------------------- MODULE FixtureLookupProofs -------------------------
(* Theorems about NameLookup and the search it extends, for any names of modules, programs  *)
(* and targets.                                                                             *)
EXTENDS NameLookup, Counting, SequenceTheorems

-----------------------------------------------------------------------------
(* Names of modules and sequences.                                          *)

Modules == Seq(STRING \cup {Conftest})

\* The conftest of the package that the first n parts of a name are.
ConftestAt(module, n) == ConftestOf(SubSeq(module, 1, n))

\* Its name has one part more than the package.
LEMMA ConftestLength ==
  ASSUME NEW m \in Modules, NEW n \in 0..Len(m)
  PROVE  ConftestAt(m, n) \in Modules /\ Len(ConftestAt(m, n)) = n + 1
<1>1. \A i \in 1..n : m[i] \in STRING \cup {Conftest}
  BY ElementOfSeq DEF Modules
<1>2. SubSeq(m, 1, n) \in Modules /\ Len(SubSeq(m, 1, n)) = n
  BY <1>1, SubSeqProperties DEF Modules
<1> QED BY <1>2 DEF ConftestAt, ConftestOf, Modules

\* A prefix of a prefix is a prefix.
LEMMA PrefixOfPrefix ==
  ASSUME NEW m \in Modules, NEW n \in 1..Len(m)
  PROVE  Front(SubSeq(m, 1, n)) = SubSeq(m, 1, n - 1) /\ Len(SubSeq(m, 1, n - 1)) = n - 1
<1>1. \A k \in 0..Len(m) : SubSeq(m, 1, k) \in Modules /\ Len(SubSeq(m, 1, k)) = k
  <2> TAKE k \in 0..Len(m)
  <2>1. \A i \in 1..k : m[i] \in STRING \cup {Conftest}
    BY ElementOfSeq DEF Modules
  <2> QED BY <2>1, SubSeqProperties DEF Modules
<1>2. Front(SubSeq(m, 1, n)) = SubSeq(SubSeq(m, 1, n), 1, n - 1)
  BY <1>1 DEF Front
<1>3. \A i \in 1..n : SubSeq(m, 1, n)[i] = m[i]
  OBVIOUS
<1>4. SubSeq(SubSeq(m, 1, n), 1, n - 1) = SubSeq(m, 1, n - 1)
  <2>1. CASE n = 1
    <3>1. SubSeq(SubSeq(m, 1, n), 1, 0) = <<>> /\ SubSeq(m, 1, 0) = <<>>
      BY SubSeqEmpty
    <3> QED BY <2>1, <3>1
  <2>2. CASE n > 1
    <3>1. 1 \in 1..Len(m) /\ n - 1 \in 1..(n - 1 + 1)
          /\ 1 \in 1..(n - 1 + 1) /\ 1 + (n - 1) - 1 = n - 1 /\ 1 + 1 - 1 = 1
      BY <2>2
    <3> QED BY <1>1, <3>1, SubSeqOfSubSeq DEF Modules
  <2> QED BY <2>1, <2>2
<1> QED BY <1>1, <1>2, <1>4

\* A sequence to which at most one element is appended.
LEMMA AppendAtMostOne ==
  ASSUME NEW T, NEW s \in Seq(T), NEW x \in T, NEW t, t = <<>> \/ t = <<x>>
  PROVE  /\ s \o t \in Seq(T)
         /\ Range(s) \subseteq Range(s \o t)
         /\ t = <<x>> => x \in Range(s \o t)
         /\ \A i \in DOMAIN (s \o t) :
              \/ i \in DOMAIN s /\ (s \o t)[i] = s[i]
              \/ i = Len(s) + 1 /\ (s \o t)[i] = x /\ t = <<x>>
<1>1. CASE t = <<>>
  <2>1. s \o t = s
    BY <1>1, ConcatEmptySeq
  <2> QED BY <1>1, <2>1
<1>2. CASE t = <<x>>
  <2>1. /\ s \o t \in Seq(T) /\ Len(s \o t) = Len(s) + 1 /\ Len(s) \in Nat
        /\ \A i \in 1..Len(s) : (s \o t)[i] = s[i]
        /\ (s \o t)[Len(s) + 1] = x
    BY <1>2
  <2>2. DOMAIN (s \o t) = 1..(Len(s) + 1) /\ DOMAIN s = 1..Len(s)
    BY <2>1
  <2> HIDE <1>2
  <2> QED BY <1>2, <2>1, <2>2 DEF Range
<1> QED BY <1>1, <1>2

-----------------------------------------------------------------------------
(* The inductive invariant.                                                 *)

\* Where an answer stands, and that the search has passed it.
Placed(module) ==
  /\ IsFixture(module) /\ module \in Modules
  /\ \/ module = testModule
     \/ module \in Conftests(testModule) /\ Len(module) > Len(package)
     \/ module \in Range(source.defaults) /\ stage \in {"done", "noted"}

LookupTypeOK ==
  /\ source \in Sources /\ testModule \in TestModules
  /\ stage \in {"module", "conftest", "done", "noted"}
  /\ found \in Seq(Modules)

\* The packages still to search are prefixes of the name.
PackageInv ==
  /\ Len(package) \in 0..Len(testModule)
  /\ package = SubSeq(testModule, 1, Len(package))
  /\ stage = "module" => package = testModule /\ found = <<>>
  /\ stage \in {"done", "noted"} => package = <<>>

\* What has been passed is in the answer.
Gathered ==
  /\ stage # "module" =>
       /\ IsFixture(testModule) => testModule \in Range(found)
       /\ \A n \in Len(package)..(Len(testModule) - 1) :
            IsFixture(ConftestAt(testModule, n)) => ConftestAt(testModule, n) \in Range(found)
  /\ stage \in {"done", "noted"} =>
       ((\E m \in Range(source.defaults) : IsFixture(m)) =>
          Range(found) \cap Range(source.defaults) # {})

AllPlaced == \A i \in DOMAIN found : Placed(found[i])

LookupInv == LookupTypeOK /\ PackageInv /\ AllPlaced /\ NearestFirst /\ Gathered

\* The types of a program's parts.
LEMMA SourceTypes ==
  ASSUME LookupTypeOK
  PROVE  /\ testModule \in Modules /\ testModule # <<>> /\ Len(testModule) \in Nat \ {0}
         /\ source.defaults \in Seq(Modules)
         /\ Range(source.defaults) \subseteq Modules
<1>1. testModule \in Seq(STRING) /\ testModule # <<>> /\ source.defaults \in Seq(Seq(STRING))
  BY SourcesAssumption, TestModulesAssumption DEF LookupTypeOK
<1>2. STRING \subseteq STRING \cup {Conftest}
  OBVIOUS
<1>3. testModule \in Modules
  BY <1>1, <1>2, SeqMonotonic DEF Modules
<1>4. Seq(STRING) \subseteq Modules
  BY <1>2, SeqMonotonic DEF Modules
<1>5. source.defaults \in Seq(Modules)
  BY <1>1, <1>4, SeqMonotonic
<1>6. Range(source.defaults) \subseteq Modules
  BY <1>5, ElementOfSeq, LenProperties DEF Range
<1> QED BY <1>1, <1>3, <1>5, <1>6, EmptySeq DEF Modules

\* _default_lookup answers with one fixture of a plugin, if there is any.
LEMMA DefaultAnswer ==
  ASSUME LookupTypeOK
  PROVE  \/ /\ DefaultLookup = <<>>
            /\ ~ \E m \in Range(source.defaults) : IsFixture(m)
         \/ \E m \in Range(source.defaults) : IsFixture(m) /\ DefaultLookup = <<m>>
<1> DEFINE Fixtures == {k \in DOMAIN source.defaults : IsFixture(source.defaults[k])}
           First == {k \in DOMAIN source.defaults :
                       /\ IsFixture(source.defaults[k])
                       /\ \A j \in 1..(k - 1) : ~ IsFixture(source.defaults[j])}
<1>1. DOMAIN source.defaults = 1..Len(source.defaults) /\ Len(source.defaults) \in Nat
  BY SourceTypes, LenProperties
<1>2. CASE First = {}
  <2>1. Fixtures = {}
    <3> SUFFICES ASSUME Fixtures # {} PROVE FALSE
      OBVIOUS
    <3>1. Fixtures \in SUBSET Nat
      BY <1>1
    <3>2. PICK k \in Fixtures : \A j \in Fixtures : k <= j
      <4> HIDE DEF Fixtures
      <4> QED BY <3>1, LeastNumber
    <3>3. k \in 1..Len(source.defaults)
      BY <1>1
    <3>4. ASSUME NEW j \in 1..(k - 1) PROVE ~ IsFixture(source.defaults[j])
      <4>1. j \in DOMAIN source.defaults /\ ~ (k <= j)
        BY <1>1, <3>3
      <4> QED BY <3>2, <4>1
    <3>5. k \in First
      BY <3>4
    <3> QED BY <1>2, <3>5
  <2>2. DefaultLookup = <<>>
    BY <1>2 DEF DefaultLookup
  <2> QED BY <2>1, <2>2 DEF Range
<1>3. CASE First # {}
  <2>1. (CHOOSE k \in First : TRUE) \in First
    BY <1>3
  <2>2. DefaultLookup = <<source.defaults[CHOOSE k \in First : TRUE]>>
    BY <1>3 DEF DefaultLookup
  <2> QED BY <2>1, <2>2 DEF Range
<1> QED BY <1>2, <1>3

\* One that the package names: the conftest that SearchConftest comes to.
LEMMA NextConftest ==
  ASSUME LookupTypeOK, PackageInv, package # <<>>
  PROVE  /\ Len(package) \in 1..Len(testModule)
         /\ ModuleName(package) = SubSeq(testModule, 1, Len(package) - 1)
         /\ Len(ModuleName(package)) = Len(package) - 1
         /\ ConftestOf(ModuleName(package)) = ConftestAt(testModule, Len(package) - 1)
         /\ ConftestOf(ModuleName(package)) \in Modules
         /\ ConftestOf(ModuleName(package)) \in Conftests(testModule)
         /\ Len(ConftestOf(ModuleName(package))) = Len(package)
<1>1. testModule \in Modules /\ Len(testModule) \in Nat
  BY SourceTypes
<1>2. Len(package) # 0
  <2>1. SubSeq(testModule, 1, 0) = <<>>
    BY SubSeqEmpty
  <2> QED BY <2>1 DEF PackageInv
<1>3. Len(package) \in 1..Len(testModule)
  BY <1>1, <1>2 DEF PackageInv
<1>4. /\ Front(package) = SubSeq(testModule, 1, Len(package) - 1)
      /\ Len(SubSeq(testModule, 1, Len(package) - 1)) = Len(package) - 1
  BY <1>1, <1>3, PrefixOfPrefix DEF PackageInv
<1>5. Len(package) - 1 \in 0..(Len(testModule) - 1)
  BY <1>1, <1>3
<1>6. ConftestAt(testModule, Len(package) - 1) \in Conftests(testModule)
  BY <1>5 DEF Conftests, ConftestAt
<1>7. /\ ConftestAt(testModule, Len(package) - 1) \in Modules
      /\ Len(ConftestAt(testModule, Len(package) - 1)) = Len(package)
  BY <1>1, <1>3, <1>5, ConftestLength
<1> QED BY <1>3, <1>4, <1>6, <1>7 DEF ModuleName, ConftestAt

-----------------------------------------------------------------------------
(* The steps of the search.                                                 *)

\* The search begins at the module of the test.
LEMMA InitLookup == NamesInit => LookupInv
<1> SUFFICES ASSUME NamesInit PROVE LookupInv
  OBVIOUS
<1> USE DEF NamesInit, LookupInit
<1>1. LookupTypeOK
  BY EmptySeq DEF LookupTypeOK
<1>2. testModule \in Modules /\ Len(testModule) \in Nat
  BY <1>1, SourceTypes
<1>3. PackageInv
  BY <1>2, SubSeqFull DEF PackageInv, Modules
<1>4. DOMAIN found = {}
  OBVIOUS
<1> QED BY <1>1, <1>3, <1>4 DEF LookupInv, AllPlaced, NearestFirst, Gathered

\* The parts of the invariant about the order and the place of answers, when x may be the
\* next answer and what was found so far stands nearer than x.
LEMMA OneMore ==
  ASSUME LookupInv, NEW x \in Modules, NEW t, t = <<>> \/ (t = <<x>> /\ IsFixture(x)),
         found' = found \o t, UNCHANGED <<source, testModule>>,
         IsFixture(x) => Placed(x)',
         \A m \in Range(found) : Placed(m)',
         PlainTest => \A i \in DOMAIN found :
           \/ found[i] = testModule /\ x # testModule
           \/ found[i] \in Conftests(testModule) /\
                \/ x \in Conftests(testModule) /\ Len(x) < Len(found[i])
                \/ x \in Range(source.defaults)
  PROVE  /\ found' \in Seq(Modules)
         /\ Range(found) \subseteq Range(found')
         /\ t = <<x>> => x \in Range(found')
         /\ AllPlaced' /\ NearestFirst'
<1>1. found \in Seq(Modules) /\ DOMAIN found = 1..Len(found) /\ Len(found) \in Nat
  BY LenProperties DEF LookupInv, LookupTypeOK
<1>2. /\ found' \in Seq(Modules)
      /\ Range(found) \subseteq Range(found')
      /\ t = <<x>> => x \in Range(found')
      /\ \A i \in DOMAIN found' :
           \/ i \in DOMAIN found /\ found'[i] = found[i]
           \/ i = Len(found) + 1 /\ found'[i] = x /\ t = <<x>>
  BY <1>1, AppendAtMostOne
<1>3. x \in Modules /\ <<x>> # <<>>
  OBVIOUS
<1>4. AllPlaced'
  <2>1. \A i \in DOMAIN found : \A m \in {found[i]} : Placed(m)'
    BY DEF Range
  <2>2. \A i \in DOMAIN found' : \A m \in {found'[i]} : Placed(m)'
    BY <1>2, <1>3, <2>1
  <2> QED BY <2>2 DEF AllPlaced
<1>5. NearestFirst'
  <2>1. PlainTest' <=> PlainTest
    BY DEF PlainTest, Conftests
  <2> SUFFICES ASSUME PlainTest, NEW i \in DOMAIN found', NEW j \in DOMAIN found', i < j
               PROVE  \/ found'[i] = testModule /\ found'[j] # testModule
                      \/ found'[i] \in Conftests(testModule) /\
                           \/ found'[j] \in Conftests(testModule)
                              /\ Len(found'[j]) < Len(found'[i])
                           \/ found'[j] \in Range(source.defaults)
    BY <2>1, SMTT(30) DEF NearestFirst
  <2>2. i \in DOMAIN found /\ found'[i] = found[i]
    <3>1. CASE i = Len(found) + 1
      BY <1>1, <1>2, <3>1
    <3> QED BY <1>2, <3>1
  <2>3. CASE j \in DOMAIN found /\ found'[j] = found[j]
    BY <2>2, <2>3 DEF LookupInv, NearestFirst
  <2>4. CASE j = Len(found) + 1 /\ found'[j] = x
    BY <2>2, <2>4
  <2> QED BY <1>2, <2>3, <2>4
<1> QED BY <1>2, <1>4, <1>5

\* The search changes no program.
LEMMA SameProgram ==
  ASSUME UNCHANGED <<source, testModule>>
  PROVE  /\ \A m : IsFixture(m)' <=> IsFixture(m)
         /\ Conftests(testModule)' = Conftests(testModule)
         /\ \A n : ConftestAt(testModule, n)' = ConftestAt(testModule, n)
         /\ Range(source.defaults)' = Range(source.defaults)
BY DEF IsFixture, Conftests, ConftestAt, ConftestOf, Range

\* Searching the module of the test keeps the invariant.
LEMMA StepModule ==
  ASSUME LookupInv, SearchModule
  PROVE  LookupInv'
<1> DEFINE x == testModule
<1>1. x \in Modules /\ Len(x) \in Nat \ {0}
  BY SourceTypes DEF LookupInv
<1>2. found = <<>> /\ package = testModule /\ found' = found \o Found(x)
      /\ UNCHANGED <<source, testModule, package>> /\ stage' = "conftest"
  BY DEF SearchModule, WithAnswer, LookupInv, PackageInv
<1>3. Found(x) = <<>> \/ (Found(x) = <<x>> /\ IsFixture(x))
  BY DEF Found
<1>4. /\ found' \in Seq(Modules)
      /\ Found(x) = <<x>> => x \in Range(found')
      /\ AllPlaced' /\ NearestFirst'
  <2>1. \A m \in {x} : IsFixture(m) => Placed(m)'
    BY <1>1, <1>2 DEF Placed, IsFixture
  <2>2. DOMAIN found = {} /\ Range(found) = {}
    BY <1>2 DEF Range
  <2> HIDE DEF x
  <2> QED BY <1>1, <1>2, <1>3, <2>1, <2>2, OneMore
<1>5. LookupTypeOK' /\ PackageInv'
  BY <1>2, <1>4 DEF LookupInv, LookupTypeOK, PackageInv
<1>6. Gathered'
  <2>1. Len(package)..(Len(testModule) - 1) = {}
    BY <1>1, <1>2
  <2>2. IsFixture(x) => x \in Range(found')
    BY <1>4 DEF Found
  <2> QED BY <1>2, <2>1, <2>2, SameProgram DEF Gathered
<1> QED BY <1>4, <1>5, <1>6 DEF LookupInv

\* So does searching the conftest of the next package.
LEMMA StepConftest ==
  ASSUME LookupInv, SearchConftest
  PROVE  LookupInv'
<1> DEFINE x == ConftestOf(ModuleName(package))
<1>1. found' = found \o Found(x) /\ package' = ModuleName(package) /\ stage = "conftest"
      /\ UNCHANGED <<source, testModule, stage>> /\ package # <<>>
  BY DEF SearchConftest, WithAnswer
<1>2. /\ Len(package) \in 1..Len(testModule)
      /\ package' = SubSeq(testModule, 1, Len(package) - 1)
      /\ Len(package') = Len(package) - 1
      /\ x = ConftestAt(testModule, Len(package) - 1)
      /\ x \in Modules /\ x \in Conftests(testModule) /\ Len(x) = Len(package)
  BY <1>1, NextConftest DEF LookupInv
<1>3. Found(x) = <<>> \/ (Found(x) = <<x>> /\ IsFixture(x))
  BY DEF Found
<1>4. \A m \in {x} : IsFixture(m) => Placed(m)'
  <2>1. Len(x) > Len(package')
    BY <1>2
  <2> QED BY <1>1, <1>2, <2>1, SameProgram DEF Placed
<1>5. ASSUME NEW i \in DOMAIN found
      PROVE  /\ \A m \in {found[i]} : Placed(m)'
             /\ \/ found[i] = testModule
                \/ found[i] \in Conftests(testModule) /\ Len(x) < Len(found[i])
  <2>1. Placed(found[i])
    BY DEF LookupInv, AllPlaced
  <2>2. \/ found[i] = testModule
        \/ found[i] \in Conftests(testModule) /\ Len(found[i]) > Len(package)
    BY <1>1, <2>1 DEF Placed
  <2>3. Len(found[i]) \in Nat /\ Len(package) \in Nat
    BY <1>2, <2>1, LenProperties DEF Placed, Modules
  <2>4. Len(found[i]) > Len(package) => Len(found[i]) > Len(package')
    BY <1>2, <2>3
  <2> QED BY <1>1, <1>2, <2>1, <2>2, <2>4, SameProgram DEF Placed
<1>6. /\ found' \in Seq(Modules)
      /\ Range(found) \subseteq Range(found')
      /\ Found(x) = <<x>> => x \in Range(found')
      /\ AllPlaced' /\ NearestFirst'
  <2>1. PlainTest => x # testModule
    BY <1>2 DEF PlainTest
  <2>2. \A m \in Range(found) : Placed(m)'
    BY <1>5 DEF Range
  <2> HIDE DEF x
  <2> QED BY <1>1, <1>2, <1>3, <1>4, <1>5, <2>1, <2>2, OneMore
<1>7. LookupTypeOK' /\ PackageInv'
  <2>1. Len(testModule) \in Nat
    BY SourceTypes DEF LookupInv
  <2>2. Len(package') \in 0..Len(testModule)
    BY <1>2, <2>1
  <2> QED BY <1>1, <1>2, <1>6, <2>2 DEF LookupInv, LookupTypeOK, PackageInv
<1>8. Gathered'
  <2>1. IsFixture(x) => x \in Range(found')
    BY <1>6 DEF Found
  <2>2. IsFixture(testModule) => testModule \in Range(found')
    BY <1>1, <1>6 DEF LookupInv, Gathered
  <2>3. ASSUME NEW n \in Len(package')..(Len(testModule) - 1),
               IsFixture(ConftestAt(testModule, n))
        PROVE  ConftestAt(testModule, n) \in Range(found')
    <3>1. CASE n = Len(package) - 1
      BY <1>2, <2>1, <2>3, <3>1
    <3>2. CASE n # Len(package) - 1
      <4>1. n \in Len(package)..(Len(testModule) - 1)
        BY <1>2, <3>2
      <4> QED BY <1>1, <1>6, <2>3, <4>1 DEF LookupInv, Gathered
    <3> QED BY <3>1, <3>2
  <2> QED BY <1>1, <2>2, <2>3, SameProgram DEF Gathered
<1> QED BY <1>6, <1>7, <1>8 DEF LookupInv

\* So does searching the default modules.
LEMMA StepDefaults ==
  ASSUME LookupInv, SearchDefaults
  PROVE  LookupInv'
<1>1. found' = found \o DefaultLookup /\ stage = "conftest" /\ stage' = "done"
      /\ UNCHANGED <<source, testModule, package>> /\ package = <<>>
  BY DEF SearchDefaults
<1>2. \A m \in Range(found) : Placed(m)'
  <2> SUFFICES ASSUME NEW i \in DOMAIN found PROVE \A m \in {found[i]} : Placed(m)'
    BY DEF Range
  <2>1. Placed(found[i])
    BY DEF LookupInv, AllPlaced
  <2> QED BY <1>1, <2>1, SameProgram DEF Placed
<1>3. \A i \in DOMAIN found : found[i] = testModule \/ found[i] \in Conftests(testModule)
  BY <1>1 DEF LookupInv, AllPlaced, Placed
<1>4. /\ found' \in Seq(Modules)
      /\ Range(found) \subseteq Range(found')
      /\ AllPlaced' /\ NearestFirst'
      /\ (\E m \in Range(source.defaults) : IsFixture(m)) =>
           Range(found') \cap Range(source.defaults) # {}
  <2>1. CASE DefaultLookup = <<>> /\ ~ \E m \in Range(source.defaults) : IsFixture(m)
    <3>1. testModule \in Modules /\ \A m \in Modules : <<>> # <<m>>
      BY SourceTypes DEF LookupInv
    <3>2. found' = found
      BY <1>1, <2>1, ConcatEmptySeq DEF LookupInv, LookupTypeOK
    <3>3. AllPlaced'
      <4>1. \A i \in DOMAIN found : \A m \in {found[i]} : Placed(m)'
        BY <1>2 DEF Range
      <4> QED BY <3>2, <4>1 DEF AllPlaced
    <3>4. NearestFirst'
      BY <1>1, <3>2 DEF LookupInv, NearestFirst, PlainTest, Conftests
    <3> QED BY <1>1, <2>1, <3>2, <3>3, <3>4 DEF LookupInv, LookupTypeOK
  <2>2. CASE \E m \in Range(source.defaults) : IsFixture(m) /\ DefaultLookup = <<m>>
    <3>1. PICK x \in Range(source.defaults) : IsFixture(x) /\ DefaultLookup = <<x>>
      BY <2>2
    <3>2. x \in Modules
      BY SourceTypes DEF LookupInv
    <3>3. \A m \in {x} : Placed(m)'
      BY <1>1, <3>1, <3>2, SameProgram DEF Placed
    <3>4. PlainTest => x # testModule
      BY <3>1 DEF PlainTest
    <3>5. /\ found' \in Seq(Modules)
          /\ Range(found) \subseteq Range(found')
          /\ x \in Range(found')
          /\ AllPlaced' /\ NearestFirst'
      BY <1>1, <1>2, <1>3, <3>1, <3>2, <3>3, <3>4, OneMore
    <3> QED BY <3>1, <3>5
  <2> QED BY <2>1, <2>2, DefaultAnswer DEF LookupInv
<1>5. LookupTypeOK' /\ PackageInv'
  BY <1>1, <1>4 DEF LookupInv, LookupTypeOK, PackageInv
<1>6. Gathered'
  <2>1. IsFixture(testModule) => testModule \in Range(found')
    BY <1>1, <1>4 DEF LookupInv, Gathered
  <2>2. \A n \in Len(package')..(Len(testModule) - 1) :
          IsFixture(ConftestAt(testModule, n)) => ConftestAt(testModule, n) \in Range(found')
    BY <1>1, <1>4 DEF LookupInv, Gathered
  <2> QED BY <1>1, <1>4, <2>1, <2>2, SameProgram DEF Gathered
<1> QED BY <1>4, <1>5, <1>6 DEF LookupInv

\* CheckUnmarkedFixture ends the search; CheckPatch has nothing to do with it.
LEMMA StepNotes ==
  ASSUME LookupInv, UNCHANGED <<source, testModule, package, found>>,
         (stage = "done" /\ stage' = "noted") \/ stage' = stage
  PROVE  LookupInv'
<1>1. LookupTypeOK' /\ PackageInv'
  BY DEF LookupInv, LookupTypeOK, PackageInv
<1>2. AllPlaced'
  <2> SUFFICES ASSUME NEW i \in DOMAIN found PROVE \A m \in {found[i]} : Placed(m)'
    BY DEF AllPlaced
  <2>1. Placed(found[i])
    BY DEF LookupInv, AllPlaced
  <2> QED BY <2>1, SameProgram DEF Placed
<1>3. NearestFirst'
  BY DEF LookupInv, NearestFirst, PlainTest, Conftests
<1>4. Gathered'
  BY SameProgram DEF LookupInv, Gathered
<1> QED BY <1>1, <1>2, <1>3, <1>4 DEF LookupInv

-----------------------------------------------------------------------------

\* It holds throughout.
LEMMA LookupInvariant == NamesSpec => []LookupInv
<1>1. LookupInv /\ [NamesNext \/ (stage = "noted" /\ UNCHANGED nameVars)]_nameVars => LookupInv'
  <2> SUFFICES ASSUME LookupInv, [NamesNext \/ (stage = "noted" /\ UNCHANGED nameVars)]_nameVars
               PROVE  LookupInv'
    OBVIOUS
  <2>1. CASE SearchFixtures
    BY <2>1, StepModule, StepConftest, StepDefaults DEF SearchFixtures, LookupNext
  <2>2. CASE CheckUnmarkedFixture
    BY <2>2, StepNotes DEF CheckUnmarkedFixture
  <2>3. CASE CheckPatch
    BY <2>3, StepNotes DEF CheckPatch, lookupVars
  <2>4. CASE UNCHANGED nameVars
    BY <2>4, StepNotes DEF nameVars, lookupVars
  <2> QED BY <2>1, <2>2, <2>3, <2>4 DEF NamesNext
<1> QED BY <1>1, InitLookup, PTL DEF NamesSpec

\* The answer of resolve_fixture lists each module once, nearer ones first, for any depth of
\* packages, any plugins and any programs.
THEOREM NearestFirstCorrect == NamesSpec => []NearestFirst
<1>1. LookupInv => NearestFirst
  BY DEF LookupInv
<1> QED BY <1>1, LookupInvariant, PTL

\* No fixture that the test can see is overlooked by the search.
THEOREM NoneOverlookedCorrect == NamesSpec => []NoneOverlooked
<1>1. LookupInv => NoneOverlooked
  <2> SUFFICES ASSUME LookupInv, stage = "done"
               PROVE  \A m \in Conftests(testModule) : IsFixture(m) => m \in Range(found)
    BY DEF LookupInv, Gathered, NoneOverlooked
  <2>1. Len(package) = 0
    BY EmptySeq DEF LookupInv, PackageInv
  <2> QED BY <2>1 DEF LookupInv, Gathered, Conftests, ConftestAt
<1> QED BY <1>1, LookupInvariant, PTL

\* A name in the autouse list is answered with an autouse fixture, so that from_autouse_name
\* does not come to its AssertionError, unless two plugins define the name.
THEOREM AutouseFoundCorrect == NamesSpec => []AutouseFound
<1>1. LookupInv => AutouseFound
  <2> SUFFICES ASSUME LookupInv, stage = "done", OneDefault,
                      NEW a \in VisibleTo(testModule), ListsAutouse(a)
               PROVE  \E m \in Range(found) : ListsAutouse(m)
    BY DEF AutouseFound, Autouse
  <2>1. IsFixture(a)
    BY DEF ListsAutouse, IsFixture
  <2>2. CASE a = testModule
    BY <2>1, <2>2 DEF LookupInv, Gathered
  <2>3. CASE a \in Conftests(testModule)
    <3>1. Len(package) = 0
      BY EmptySeq DEF LookupInv, PackageInv
    <3>2. a \in Range(found)
      BY <2>1, <2>3, <3>1 DEF LookupInv, Gathered, Conftests, ConftestAt
    <3> QED BY <3>2
  <2>4. CASE a \in Range(source.defaults)
    <3>1. PICK m \in Range(found) : m \in Range(source.defaults)
      BY <2>1, <2>4 DEF LookupInv, Gathered
    <3>2. IsFixture(m)
      BY DEF LookupInv, AllPlaced, Placed, Range
    <3>3. a = m
      BY <2>1, <2>4, <3>1, <3>2 DEF OneDefault, Range
    <3> QED BY <3>3
  <2> QED BY <2>2, <2>3, <2>4 DEF VisibleTo
<1> QED BY <1>1, LookupInvariant, PTL

-----------------------------------------------------------------------------
(* Walks along a full name.                                                 *)

Kinds == Entry \cup Attribute \cup {"nothing", "inherited"}
Nodes(V) == [kind : Kinds, path : Seq(V)]

\* The prefixes of a full name.
LEMMA PrefixOfName ==
  ASSUME NEW V, NEW t \in Seq(V), NEW k \in 1..Len(t)
  PROVE  /\ SubSeq(t, 1, k) \in Seq(V) /\ Len(SubSeq(t, 1, k)) = k
         /\ SubSeq(t, 1, k - 1) \in Seq(V) /\ Len(SubSeq(t, 1, k - 1)) = k - 1
         /\ SubSeq(t, 1, k) = Append(SubSeq(t, 1, k - 1), t[k])
         /\ Front(SubSeq(t, 1, k)) = SubSeq(t, 1, k - 1)
         /\ Last(SubSeq(t, 1, k)) = t[k]
<1>1. \A j \in 0..Len(t) :
        /\ SubSeq(t, 1, j) \in Seq(V) /\ Len(SubSeq(t, 1, j)) = j
        /\ \A i \in 1..j : SubSeq(t, 1, j)[i] = t[i]
  <2> TAKE j \in 0..Len(t)
  <2>1. \A i \in 1..j : t[i] \in V
    BY ElementOfSeq
  <2> QED BY <2>1, SubSeqProperties
<1>2. k \in 0..Len(t) /\ k - 1 \in 0..Len(t) /\ k \in 1..k
  OBVIOUS
<1> DEFINE a == SubSeq(t, 1, k)
           b == SubSeq(t, 1, k - 1)
<1>3. /\ a \in Seq(V) /\ Len(a) = k /\ b \in Seq(V) /\ Len(b) = k - 1
      /\ \A i \in 1..k : a[i] = t[i]
      /\ \A i \in 1..(k - 1) : b[i] = t[i]
  BY <1>1, <1>2
<1>4. t[k] \in V
  BY ElementOfSeq
<1>5. Front(a) = SubSeq(a, 1, k - 1) /\ Last(a) = a[k]
  BY <1>3 DEF Front, Last
<1>6. /\ SubSeq(a, 1, k - 1) \in Seq(V) /\ Len(SubSeq(a, 1, k - 1)) = k - 1
      /\ \A i \in 1..(k - 1) : SubSeq(a, 1, k - 1)[i] = a[i]
  <2>1. \A i \in 1..(k - 1) : a[i] \in V
    BY <1>3, ElementOfSeq
  <2> QED BY <1>3, <2>1, SubSeqProperties
<1> HIDE DEF a, b
<1>7. a = Append(b, t[k])
  <2>1. /\ Append(b, t[k]) \in Seq(V) /\ Len(Append(b, t[k])) = k
        /\ \A i \in 1..(k - 1) : Append(b, t[k])[i] = b[i]
        /\ Append(b, t[k])[k] = t[k]
    BY <1>3, <1>4
  <2>2. \A i \in 1..k : a[i] = Append(b, t[k])[i]
    BY <1>3, <2>1
  <2> QED BY <1>3, <2>1, <2>2, SeqEqual
<1>8. SubSeq(a, 1, k - 1) = b
  <2>1. \A i \in 1..(k - 1) : SubSeq(a, 1, k - 1)[i] = b[i]
    BY <1>3, <1>6
  <2> QED BY <1>3, <1>6, <2>1, SeqEqual
<1>9. Last(a) = t[k]
  BY <1>2, <1>3, <1>5
<1> QED BY <1>3, <1>5, <1>7, <1>8, <1>9 DEF a, b

\* What a node's attributes are made of.
LEMMA MemberType ==
  ASSUME source \in Sources, NEW V, NEW node \in Nodes(V), NEW x \in V
  PROVE  Member(node, x) \in Nodes(V) /\ PythonMember(node, x) \in Nodes(V)
<1>1. Append(node.path, x) \in Seq(V)
  BY DEF Nodes
<1>2. Nothing \in Nodes(V)
  BY EmptySeq DEF Nothing, Nodes, Kinds
<1>3. \A k \in Kinds : [kind |-> k, path |-> Append(node.path, x)] \in Nodes(V)
  BY <1>1 DEF Nodes
<1>4. /\ \A m \in DOMAIN source.entries : source.entries[m] \in Kinds
      /\ \A a \in DOMAIN source.attributes : source.attributes[a] \in Kinds
  BY SourcesAssumption, NamesAssumption DEF Kinds
<1>5. "function" \in Kinds /\ "inherited" \in Kinds
  BY DEF Kinds, Entry
<1>6. Member(node, x) \in Nodes(V)
  BY <1>2, <1>3, <1>4, <1>5 DEF Member
<1> QED BY <1>3, <1>5, <1>6 DEF PythonMember

\* Nothing has no attributes.
LEMMA NothingStays ==
  ASSUME NEW x
  PROVE  Member(Nothing, x) = Nothing /\ PythonMember(Nothing, x) = Nothing
BY DEF Member, PythonMember, Nothing

\* Walks(w, t, n): w goes along t, from the module that the first n parts are.
Walks(w, t, n) ==
  /\ w[0] = NodeOf(SubSeq(t, 1, n))
  /\ \A k \in 1..(Len(t) - n) : w[k] = Member(w[k - 1], t[n + k])

\* The look-up behind a module of the name is where such a walk ends.
LEMMA LookupWalks ==
  ASSUME source \in Sources, NEW V, NEW t \in Seq(V), NEW n \in 1..Len(t)
  PROVE  \E w : Walks(w, t, n) /\ LookupInModule(t, n) = w[Len(t) - n]
<1> DEFINE L == Len(t) - n
           start == NodeOf(SubSeq(t, 1, n))
           Loop(w) == [k \in 0..L |-> IF k = 0 THEN start ELSE Member(w[k - 1], t[n + k])]
           D == Nodes(V)
           next == [k \in 1..L |-> [node \in D |-> Member(node, t[n + k])]]
<1>1. L \in Nat
  OBVIOUS
<1>2. start \in D
  BY PrefixOfName DEF NodeOf, Nodes, Kinds, Attribute
<1>3. next \in [1..L -> [D -> D]]
  <2> SUFFICES ASSUME NEW k \in 1..L, NEW node \in D PROVE Member(node, t[n + k]) \in D
    OBVIOUS
  <2>1. n + k \in 1..Len(t)
    OBVIOUS
  <2>2. t[n + k] \in V
    BY <2>1, ElementOfSeq
  <2> QED BY <2>2, MemberType
<1>4. PICK f \in [0..L -> D] : Iterates(f, L, start, next)
  <2> HIDE DEF L, start, D, next
  <2> QED BY <1>1, <1>2, <1>3, Iteration
<1>5. f[0] = start /\ \A k \in 1..L : f[k] = Member(f[k - 1], t[n + k])
  <2>1. f[0] = start /\ \A k \in 1..L : f[k] = next[k][f[k - 1]]
    BY <1>4 DEF Iterates
  <2>2. \A k \in 1..L : k - 1 \in 0..L
    OBVIOUS
  <2>3. \A k \in 1..L : f[k - 1] \in D
    BY <2>2
  <2> HIDE DEF D
  <2> QED BY <2>1, <2>3
<1>6. f = Loop(f)
  <2>1. \A k \in 0..L : f[k] = IF k = 0 THEN start ELSE Member(f[k - 1], t[n + k])
    <3>1. \A k \in 0..L : k = 0 \/ (k \in 1..L /\ k # 0)
      BY <1>1
    <3> QED BY <1>5, <3>1
  <2> QED BY <2>1
<1> DEFINE w == CHOOSE g : g = Loop(g)
<1>7. w = Loop(w)
  <2> HIDE DEF Loop
  <2> QED BY <1>6
<1>8. LookupInModule(t, n) = w[Len(t) - n]
  BY DEF LookupInModule
<1>9. Walks(w, t, n)
  <2> HIDE DEF w
  <2>1. 0 \in 0..L /\ \A k \in 1..L : k \in 0..L /\ k # 0
    BY <1>1
  <2>2. w[0] = start /\ \A k \in 1..L : w[k] = Member(w[k - 1], t[n + k])
    BY <1>7, <2>1
  <2> QED BY <2>2 DEF Walks
<1> HIDE DEF w
<1> QED BY <1>8, <1>9

\* On the way through loaded modules an attribute is the next module, or there is none.
LEMMA NextModule ==
  ASSUME source \in Sources, Unshadowed, NEW V, NEW t \in Seq(V), NEW k \in 1..Len(t),
         SubSeq(t, 1, k) \in source.loaded
  PROVE  Member(NodeOf(SubSeq(t, 1, k - 1)), t[k]) \in {Nothing, NodeOf(SubSeq(t, 1, k))}
<1> DEFINE p == SubSeq(t, 1, k - 1)
           node == NodeOf(p)
           x == t[k]
<1>1. Append(p, x) = SubSeq(t, 1, k) /\ Last(SubSeq(t, 1, k)) = x
  BY PrefixOfName
<1>2. node.kind = "module" /\ node.path = p
  BY DEF NodeOf
<1>3. ~ (x = Name /\ p \in DOMAIN source.entries)
  BY <1>1 DEF Unshadowed
<1>4. Append(p, x) \in DOMAIN source.attributes =>
        source.attributes[Append(p, x)] = "module"
  BY <1>1 DEF Unshadowed
<1> HIDE DEF p, x, node
<1>5. Member(node, x) \in {Nothing, [kind |-> "module", path |-> Append(p, x)]}
  BY <1>2, <1>3, <1>4 DEF Member
<1> QED BY <1>1, <1>5 DEF NodeOf, p, x, node

\* The first N parts are modules, and so are fewer of them.
LoadedUpTo(t, N) == \A k \in 1..N : SubSeq(t, 1, k) \in source.loaded

\* Asking an outer module leads to what the innermost one leads to, or to nothing.
LEMMA SameFromInnermost ==
  ASSUME source \in Sources, Unshadowed, NEW V, NEW t \in Seq(V),
         NEW N \in 1..Len(t), LoadedUpTo(t, N), NEW n \in 1..N
  PROVE  LookupInModule(t, n) \in {Nothing, LookupInModule(t, N)}
<1> DEFINE L == Len(t)
<1>1. L \in Nat /\ N \in 1..L /\ n \in 1..L /\ n <= N /\ N - n \in Nat /\ L - N \in Nat
  OBVIOUS
<1>2. PICK w : Walks(w, t, n) /\ LookupInModule(t, n) = w[L - n]
  BY <1>1, LookupWalks
<1>3. PICK v : Walks(v, t, N) /\ LookupInModule(t, N) = v[L - N]
  BY LookupWalks
<1> DEFINE S == {k \in 0..(N - n) : w[k] \in {Nothing, NodeOf(SubSeq(t, 1, n + k))}}
<1>4. \A k \in 0..(N - n) : k \in S
  <2>1. 0 \in S
    BY <1>1, <1>2 DEF Walks
  <2>2. ASSUME NEW k \in 1..(N - n), k - 1 \in S PROVE k \in S
    <3>1. n + k \in 1..N /\ n + k \in 1..L /\ k \in 1..(L - n) /\ n + (k - 1) = (n + k) - 1
          /\ k \in 0..(N - n)
      BY <1>1
    <3>2. w[k] = Member(w[k - 1], t[n + k])
      BY <1>2, <3>1 DEF Walks
    <3>3. w[k - 1] \in {Nothing, NodeOf(SubSeq(t, 1, (n + k) - 1))}
      BY <2>2, <3>1
    <3>4. Member(NodeOf(SubSeq(t, 1, (n + k) - 1)), t[n + k])
            \in {Nothing, NodeOf(SubSeq(t, 1, n + k))}
      BY <3>1, NextModule DEF LoadedUpTo
    <3>5. w[k] \in {Nothing, NodeOf(SubSeq(t, 1, n + k))}
      BY <3>2, <3>3, <3>4, NothingStays
    <3> QED BY <3>1, <3>5
  <2> HIDE DEF S
  <2> QED BY <1>1, <2>1, <2>2, UpTo
<1> DEFINE Q == {k \in 0..(L - N) : w[(N - n) + k] \in {Nothing, v[k]}}
<1>5. \A k \in 0..(L - N) : k \in Q
  <2>1. 0 \in Q
    <3>1. N - n \in 0..(N - n) /\ n + (N - n) = N /\ (N - n) + 0 = N - n /\ 0 \in 0..(L - N)
      BY <1>1
    <3>2. w[(N - n) + 0] \in {Nothing, NodeOf(SubSeq(t, 1, N))}
      BY <1>4, <3>1
    <3> QED BY <1>3, <3>1, <3>2 DEF Walks
  <2>2. ASSUME NEW k \in 1..(L - N), k - 1 \in Q PROVE k \in Q
    <3>1. /\ (N - n) + k \in 1..(L - n) /\ n + ((N - n) + k) = N + k
          /\ ((N - n) + k) - 1 = (N - n) + (k - 1) /\ k \in 0..(L - N)
      BY <1>1
    <3>2. w[(N - n) + k] = Member(w[(N - n) + (k - 1)], t[N + k])
      BY <1>2, <3>1 DEF Walks
    <3>3. v[k] = Member(v[k - 1], t[N + k])
      BY <1>3 DEF Walks
    <3>4. w[(N - n) + (k - 1)] \in {Nothing, v[k - 1]}
      BY <2>2
    <3> QED BY <3>1, <3>2, <3>3, <3>4, NothingStays
  <2> HIDE DEF Q
  <2> QED BY <1>1, <2>1, <2>2, UpTo
<1>6. w[(N - n) + (L - N)] \in {Nothing, v[L - N]} /\ (N - n) + (L - N) = L - n
  BY <1>1, <1>5
<1> QED BY <1>2, <1>3, <1>6

\* So the first accepted answer is that of the innermost module, if it is accepted.
LEMMA AnswerOfInnermost ==
  ASSUME source \in Sources, Unshadowed, NEW V, NEW t \in Seq(V),
         NEW N \in 1..Len(t), LoadedUpTo(t, N), \A n \in ModulePrefixes(t) : n <= N,
         NEW kinds, "nothing" \notin kinds
  PROVE  LookupFullname(t, kinds) =
           IF LookupInModule(t, N).kind \in kinds THEN LookupInModule(t, N) ELSE Nothing
<1> DEFINE accepted == {n \in ModulePrefixes(t) : LookupInModule(t, n).kind \in kinds}
<1>1. /\ N \in ModulePrefixes(t) /\ ModulePrefixes(t) \subseteq 1..Len(t)
      /\ \A n \in ModulePrefixes(t) : n \in 1..N
  BY DEF LoadedUpTo, ModulePrefixes
<1>2. LookupFullname(t, kinds)
        = IF accepted = {} THEN Nothing ELSE LookupInModule(t, Min(accepted))
  BY DEF LookupFullname, FirstAnswer
<1>3. \A n \in accepted : LookupInModule(t, n) = LookupInModule(t, N)
  BY <1>1, SameFromInnermost DEF Nothing
<1>4. CASE accepted = {}
  <2>1. LookupInModule(t, N).kind \notin kinds
    BY <1>1, <1>4
  <2> QED BY <1>2, <1>4, <2>1
<1>5. CASE accepted # {}
  <2>1. accepted \in SUBSET Nat
    BY <1>1
  <2>2. Min(accepted) \in accepted
    <3> HIDE DEF accepted
    <3>1. \E n \in accepted : \A m \in accepted : n <= m
      BY <1>5, <2>1, LeastNumber
    <3> QED BY <3>1 DEF Min
  <2>3. LookupInModule(t, Min(accepted)) = LookupInModule(t, N)
    BY <1>3, <2>2
  <2>4. LookupInModule(t, N).kind \in kinds
    BY <2>2, <2>3
  <2> HIDE DEF accepted
  <2> QED BY <1>2, <1>5, <2>3, <2>4
<1> QED BY <1>4, <1>5

\* The packages of a loaded module are loaded.
LEMMA PackagesLoaded ==
  ASSUME Unshadowed, NEW V, NEW t \in Seq(V), NEW N \in 1..Len(t), SubSeq(t, 1, N) \in source.loaded
  PROVE  LoadedUpTo(t, N)
<1> DEFINE S == {k \in 0..(N - 1) : SubSeq(t, 1, N - k) \in source.loaded}
<1>1. 0 \in S
  OBVIOUS
<1>2. ASSUME NEW k \in 1..(N - 1), k - 1 \in S PROVE k \in S
  <2>1. N - (k - 1) \in 1..Len(t) /\ N - (k - 1) > 1 /\ (N - (k - 1)) - 1 = N - k
        /\ k \in 0..(N - 1)
    OBVIOUS
  <2>2. /\ Len(SubSeq(t, 1, N - (k - 1))) > 1
        /\ Front(SubSeq(t, 1, N - (k - 1))) = SubSeq(t, 1, N - k)
    BY <2>1, PrefixOfName
  <2> QED BY <1>2, <2>1, <2>2 DEF Unshadowed
<1>3. \A k \in 0..(N - 1) : k \in S
  <2>1. N - 1 \in Nat
    OBVIOUS
  <2> HIDE DEF S
  <2> QED BY <1>1, <1>2, <2>1, UpTo
<1>4. \A k \in 1..N : N - k \in 0..(N - 1) /\ N - (N - k) = k
  OBVIOUS
<1> QED BY <1>3, <1>4 DEF LoadedUpTo

\* With all or all but one part taken for the module, there is nothing or little to walk.
LEMMA ShortWalks ==
  ASSUME source \in Sources, NEW V, NEW t \in Seq(V), t # <<>>
  PROVE  /\ LookupInModule(t, Len(t)) = NodeOf(SubSeq(t, 1, Len(t)))
         /\ Len(t) > 1 => LookupInModule(t, Len(t) - 1)
              = Member(NodeOf(SubSeq(t, 1, Len(t) - 1)), t[Len(t)])
         /\ Len(t) > 2 => LookupInModule(t, Len(t) - 2)
              = Member(Member(NodeOf(SubSeq(t, 1, Len(t) - 2)), t[Len(t) - 1]), t[Len(t)])
<1> DEFINE L == Len(t)
<1>1. L \in Nat /\ L >= 1 /\ L - L = 0
  OBVIOUS
<1>2. LookupInModule(t, L) = NodeOf(SubSeq(t, 1, L))
  <2>1. L \in 1..Len(t)
    BY <1>1
  <2>2. PICK w : Walks(w, t, L) /\ LookupInModule(t, L) = w[L - L]
    BY <2>1, LookupWalks
  <2> QED BY <1>1, <2>2 DEF Walks
<1>3. ASSUME L > 1 PROVE LookupInModule(t, L - 1) = Member(NodeOf(SubSeq(t, 1, L - 1)), t[L])
  <2>1. L - 1 \in 1..Len(t) /\ L - (L - 1) = 1 /\ 1 - 1 = 0 /\ (L - 1) + 1 = L
    BY <1>1, <1>3
  <2>2. PICK w : Walks(w, t, L - 1) /\ LookupInModule(t, L - 1) = w[L - (L - 1)]
    BY <2>1, LookupWalks
  <2>3. w[0] = NodeOf(SubSeq(t, 1, L - 1)) /\ w[1] = Member(w[1 - 1], t[(L - 1) + 1])
    BY <2>1, <2>2 DEF Walks
  <2> QED BY <2>1, <2>2, <2>3
<1>4. ASSUME L > 2
      PROVE  LookupInModule(t, L - 2) = Member(Member(NodeOf(SubSeq(t, 1, L - 2)), t[L - 1]), t[L])
  <2>1. L - 2 \in 1..Len(t) /\ L - (L - 2) = 2 /\ 1 - 1 = 0 /\ 2 - 1 = 1
        /\ (L - 2) + 1 = L - 1 /\ (L - 2) + 2 = L
    BY <1>1, <1>4
  <2>2. PICK w : Walks(w, t, L - 2) /\ LookupInModule(t, L - 2) = w[L - (L - 2)]
    BY <2>1, LookupWalks
  <2>3. /\ w[0] = NodeOf(SubSeq(t, 1, L - 2))
        /\ w[1] = Member(w[1 - 1], t[(L - 2) + 1])
        /\ w[2] = Member(w[2 - 1], t[(L - 2) + 2])
    BY <2>1, <2>2 DEF Walks
  <2> QED BY <2>1, <2>2, <2>3
<1> QED BY <1>2, <1>3, <1>4

\* The name of a function in a module around the test.
LEMMA NameInModule ==
  ASSUME LookupTypeOK, testModule \in source.loaded, Unshadowed,
         NEW m \in {testModule} \cup Conftests(testModule),
         NEW V, V = STRING \cup {Conftest, Name}
  PROVE  LET t == Append(m, Name) IN
         /\ m \in Seq(V) /\ t \in Seq(V) /\ t # <<>> /\ Len(t) = Len(m) + 1 /\ Len(m) >= 1
         /\ SubSeq(t, 1, Len(t)) = t /\ SubSeq(t, 1, Len(m)) = m /\ Len(m) \in Nat
         /\ Front(t) = m /\ Last(t) = Name /\ t[Len(t)] = Name
         /\ LoadedUpTo(t, Len(m) - 1)
         /\ m # testModule => t[Len(m)] = Conftest /\ Last(m) = Conftest
<1>1. testModule \in Seq(STRING) /\ testModule # <<>>
  BY TestModulesAssumption DEF LookupTypeOK
<1>2. testModule \in Seq(V) /\ Len(testModule) \in Nat \ {0}
  BY <1>1, SeqMonotonic
<1>3. LoadedUpTo(testModule, Len(testModule))
  <2>1. SubSeq(testModule, 1, Len(testModule)) = testModule
        /\ Len(testModule) \in 1..Len(testModule)
    BY <1>2
  <2> QED BY <1>2, <2>1, PackagesLoaded
<1>4. ASSUME NEW s \in Seq(V), NEW x \in V, NEW k \in 0..Len(s)
      PROVE  SubSeq(Append(s, x), 1, k) = SubSeq(s, 1, k)
  BY <1>4
<1>5. PICK n \in 0..Len(testModule) :
        /\ LET s == SubSeq(testModule, 1, n) IN
           (m = testModule /\ n = Len(testModule) - 1) \/ m = Append(s, Conftest)
        /\ n < Len(testModule)
  <2>1. CASE m = testModule
    <3>1. Len(testModule) - 1 \in 0..Len(testModule) /\ Len(testModule) - 1 < Len(testModule)
      BY <1>2
    <3> QED BY <2>1, <3>1
  <2>2. CASE m \in Conftests(testModule)
    BY <1>2, <2>2 DEF Conftests, ConftestOf
  <2> QED BY <2>1, <2>2
<1> DEFINE s == SubSeq(testModule, 1, n)
<1>6. s \in Seq(V) /\ Len(s) = n /\ \A k \in 1..n : SubSeq(s, 1, k) = SubSeq(testModule, 1, k)
  BY <1>2
<1>7. /\ m \in Seq(V) /\ Len(m) = n + 1
      /\ \A k \in 1..n : SubSeq(m, 1, k) = SubSeq(testModule, 1, k)
      /\ m # testModule => m[n + 1] = Conftest
  <2>1. CASE m = testModule /\ n = Len(testModule) - 1
    BY <1>2, <2>1
  <2>2. CASE m = Append(s, Conftest)
    <3> HIDE DEF s
    <3>1. m \in Seq(V) /\ Len(m) = n + 1 /\ m[n + 1] = Conftest
      BY <1>6, <2>2
    <3>2. \A k \in 1..n : SubSeq(m, 1, k) = SubSeq(s, 1, k)
      BY <1>4, <1>6, <2>2
    <3> QED BY <1>6, <3>1, <3>2
  <2> QED BY <1>5, <2>1, <2>2
<1> DEFINE t == Append(m, Name)
<1>8. /\ t \in Seq(V) /\ Len(t) = n + 2 /\ t[n + 2] = Name /\ t # <<>>
      /\ \A k \in 1..(n + 1) : t[k] = m[k] /\ SubSeq(t, 1, k) = SubSeq(m, 1, k)
      /\ SubSeq(m, 1, n + 1) = m /\ SubSeq(t, 1, n + 2) = t
  BY <1>4, <1>7
<1> HIDE DEF t, s
<1>9. SubSeq(t, 1, n + 1) = m /\ t[n + 1] = m[n + 1] /\ n + 1 \in 1..(n + 1)
      /\ n + 2 \in 1..Len(t) /\ (n + 2) - 1 = n + 1
  BY <1>8
<1>10. Front(t) = m /\ Last(t) = Name
  BY <1>8, <1>9, PrefixOfName
<1>11. LoadedUpTo(t, n)
  <2>1. ASSUME NEW k \in 1..n PROVE SubSeq(t, 1, k) = SubSeq(testModule, 1, k)
    BY <1>7, <1>8
  <2>2. 1..n \subseteq 1..Len(testModule)
    BY <1>2, <1>5
  <2> QED BY <1>3, <2>1, <2>2 DEF LoadedUpTo
<1>12. Last(m) = m[n + 1] /\ Len(m) - 1 = n
  BY <1>7 DEF Last
<1> QED BY <1>7, <1>8, <1>9, <1>10, <1>11, <1>12 DEF t

\* The look-up of a function around the test finds what its module has, and only that.
LEMMA FunctionAround ==
  ASSUME LookupTypeOK, testModule \in source.loaded, Unshadowed,
         NEW m \in {testModule} \cup Conftests(testModule)
  PROVE  LookupFullname(Append(m, Name), FuncDefs).kind = "function" <=>
           m \in DOMAIN source.entries /\ source.entries[m] = "function"
<1> DEFINE V == STRING \cup {Conftest, Name}
           t == Append(m, Name)
           M == Len(m)
<1>1. /\ m \in Seq(V) /\ t \in Seq(V) /\ t # <<>> /\ Len(t) = M + 1 /\ M >= 1 /\ M \in Nat
      /\ SubSeq(t, 1, Len(t)) = t /\ SubSeq(t, 1, M) = m
      /\ Front(t) = m /\ Last(t) = Name /\ t[Len(t)] = Name
      /\ LoadedUpTo(t, M - 1)
      /\ m # testModule => t[M] = Conftest /\ Last(m) = Conftest
  BY NameInModule
<1>2. source \in Sources
  BY DEF LookupTypeOK
<1>3. "nothing" \notin FuncDefs /\ "module" \notin FuncDefs /\ Nothing.kind = "nothing"
      /\ "function" \in FuncDefs
  BY DEF FuncDefs, Nothing
<1> HIDE DEF V, t, M
<1>4. CASE m \in source.loaded /\ t \in source.loaded
  <2>1. M + 1 \in 1..Len(t) /\ \A k \in 1..(M + 1) : k = M + 1 \/ k = M \/ k \in 1..(M - 1)
    BY <1>1
  <2>2. LoadedUpTo(t, M + 1)
    BY <1>1, <1>4, <2>1 DEF LoadedUpTo
  <2>3. \A n \in ModulePrefixes(t) : n <= M + 1
    BY <1>1 DEF ModulePrefixes
  <2>4. LookupInModule(t, M + 1).kind = "module"
    <3>1. LookupInModule(t, Len(t)) = NodeOf(SubSeq(t, 1, Len(t)))
      BY <1>1, <1>2, ShortWalks
    <3> QED BY <1>1, <3>1 DEF NodeOf
  <2>5. LookupFullname(t, FuncDefs) = Nothing
    BY <1>1, <1>2, <1>3, <2>1, <2>2, <2>3, <2>4, AnswerOfInnermost
  <2>6. m \notin DOMAIN source.entries
    BY <1>4 DEF Unshadowed, t
  <2> QED BY <1>3, <2>5, <2>6 DEF t
<1>5. CASE m \in source.loaded /\ t \notin source.loaded
  <2>1. M \in 1..Len(t) /\ \A k \in 1..M : k = M \/ k \in 1..(M - 1)
    BY <1>1
  <2>2. LoadedUpTo(t, M)
    BY <1>1, <1>5, <2>1 DEF LoadedUpTo
  <2>3. \A n \in ModulePrefixes(t) : n <= M
    <3>1. \A n \in DOMAIN t : n <= M \/ n = Len(t)
      BY <1>1
    <3> QED BY <1>1, <1>5, <3>1 DEF ModulePrefixes
  <2>4. LookupInModule(t, M) = Member(NodeOf(m), Name)
    <3>1. Len(t) > 1 /\ Len(t) - 1 = M
      BY <1>1
    <3> QED BY <1>1, <1>2, <3>1, ShortWalks
  <2>5. LookupFullname(t, FuncDefs) =
          IF LookupInModule(t, M).kind \in FuncDefs THEN LookupInModule(t, M) ELSE Nothing
    BY <1>1, <1>2, <1>3, <2>1, <2>2, <2>3, AnswerOfInnermost
  <2>6. CASE m \in DOMAIN source.entries
    <3>1. Member(NodeOf(m), Name).kind = source.entries[m]
      <4>1. Append(m, Name) \notin DOMAIN source.attributes
        BY <1>1, <1>2, NamesAssumption DEF t
      <4> QED BY <2>6, <4>1 DEF Member, NodeOf
    <3> QED BY <1>3, <2>4, <2>5, <2>6, <3>1 DEF t
  <2>7. CASE m \notin DOMAIN source.entries
    <3>1. Append(m, Name) \notin DOMAIN source.attributes
      BY <1>1, <1>2, NamesAssumption DEF t
    <3>2. Member(NodeOf(m), Name) = Nothing
      BY <2>7, <3>1 DEF Member, NodeOf
    <3> QED BY <1>3, <2>4, <2>5, <2>7, <3>2 DEF t
  <2> QED BY <2>6, <2>7
<1>6. CASE m \notin source.loaded
  <2>1. m # testModule /\ m \notin DOMAIN source.entries
    BY <1>2, <1>6, NamesAssumption
  <2>2. t \notin source.loaded
    <3>1. Len(t) > 1
      BY <1>1
    <3> QED BY <1>1, <1>6, <3>1 DEF Unshadowed
  <2>3. \A n \in ModulePrefixes(t) : n \in 1..(M - 1)
    <3>1. \A n \in DOMAIN t : n \in 1..(M - 1) \/ n = M \/ n = Len(t)
      BY <1>1
    <3> QED BY <1>1, <1>6, <2>2, <3>1 DEF ModulePrefixes
  <2>4. CASE M = 1
    <3>1. 1..(M - 1) = {}
      BY <2>4
    <3>2. ModulePrefixes(t) = {}
      BY <2>3, <3>1
    <3>3. LookupFullname(t, FuncDefs) = Nothing
      BY <3>2 DEF LookupFullname, FirstAnswer
    <3> QED BY <1>3, <2>1, <3>3 DEF t
  <2>5. CASE M > 1
    <3>1. M - 1 \in 1..Len(t) /\ Len(t) > 2 /\ Len(t) - 2 = M - 1 /\ Len(t) - 1 = M
          /\ \A n \in 1..(M - 1) : n <= M - 1
      BY <1>1, <2>5
    <3> DEFINE p == NodeOf(SubSeq(t, 1, M - 1))
    <3>2. LookupInModule(t, M - 1) = Member(Member(p, Conftest), Name)
      BY <1>1, <1>2, <2>1, <3>1, ShortWalks
    <3>3. p.kind = "module" /\ Append(p.path, Conftest) = m
      <4>1. M \in 1..Len(t)
        BY <1>1
      <4>2. SubSeq(t, 1, M) = Append(SubSeq(t, 1, M - 1), t[M])
        BY <1>1, <4>1, PrefixOfName
      <4> QED BY <1>1, <2>1, <4>2 DEF NodeOf
    <3>4. m \notin DOMAIN source.attributes
      <4>1. SUFFICES ASSUME m \in DOMAIN source.attributes PROVE FALSE
        OBVIOUS
      <4>2. source.attributes[m] = "module"
        BY <1>1, <2>1, <4>1 DEF Unshadowed
      <4> QED BY <1>2, <1>6, <4>1, <4>2, NamesAssumption
    <3> HIDE DEF p
    <3>5. Member(p, Conftest).kind \in Entry \cup {"nothing"}
      BY <1>2, <3>3, <3>4, SourcesAssumption DEF Member, Nothing
    <3>6. Member(Member(p, Conftest), Name) = Nothing
      BY <3>5 DEF Member, Entry
    <3>7. LookupFullname(t, FuncDefs) = Nothing
      BY <1>1, <1>2, <1>3, <2>3, <3>1, <3>2, <3>6, AnswerOfInnermost
    <3> QED BY <1>3, <2>1, <3>7 DEF t
  <2> QED BY <1>1, <2>4, <2>5
<1> QED BY <1>4, <1>5, <1>6

\* What was said is what the look-ups answer.
NotesInv ==
  /\ testModule \in source.loaded
  /\ stage = "noted" =>
       notes = {m \in {testModule} \cup Conftests(testModule) :
                  LookupFullname(Append(m, Name), FuncDefs).kind = "function"}
  /\ patch.target # <<>> => patch.target \in Targets /\ patch.as = PatchedAs(patch.target)

\* It stays so, as neither the source nor the test changes.
LEMMA NotesInvariance == NamesSpec => []NotesInv
<1>1. NamesInit => NotesInv
  BY DEF NamesInit, LookupInit, NotesInv
<1>2. LookupInv /\ NotesInv /\ [NamesNext \/ (stage = "noted" /\ UNCHANGED nameVars)]_nameVars
        => NotesInv'
  <2> SUFFICES ASSUME NotesInv, NamesNext \/ UNCHANGED nameVars PROVE NotesInv'
    OBVIOUS
  <2>1. source' = source /\ testModule' = testModule
    BY DEF NamesNext, SearchFixtures, LookupNext, SearchModule, SearchConftest, SearchDefaults,
           CheckUnmarkedFixture, CheckPatch, nameVars, lookupVars
  <2>2. /\ \A x, kinds : LookupFullname(x, kinds)' = LookupFullname(x, kinds)
        /\ \A x : PatchedAs(x)' = PatchedAs(x)
    BY <2>1 DEF LookupFullname, FirstAnswer, ModulePrefixes, LookupInModule, Member, PatchedAs
  <2>3. CASE SearchFixtures
    <3>1. stage' # "noted" /\ UNCHANGED patch
      BY <2>3 DEF SearchFixtures, LookupNext, SearchModule, SearchConftest, SearchDefaults
    <3> QED BY <2>1, <2>2, <3>1 DEF NotesInv
  <2>4. CASE CheckUnmarkedFixture
    BY <2>1, <2>2, <2>4 DEF CheckUnmarkedFixture, NotesInv
  <2>5. CASE CheckPatch
    BY <2>1, <2>2, <2>5 DEF CheckPatch, NotesInv, lookupVars
  <2>6. CASE UNCHANGED nameVars
    BY <2>1, <2>2, <2>6 DEF NotesInv, nameVars, lookupVars
  <2> QED BY <2>3, <2>4, <2>5, <2>6 DEF NamesNext
<1> QED BY <1>1, <1>2, LookupInvariant, PTL DEF NamesSpec

\* The note about a function without the mark names just the modules around the test that
\* have such a function, whatever packages and attributes its full name leads through.
THEOREM UnmarkedIsDefinedCorrect == NamesSpec => []UnmarkedIsDefined
<1>1. LookupInv /\ NotesInv => UnmarkedIsDefined
  BY FunctionAround DEF LookupInv, NotesInv, UnmarkedIsDefined
<1> QED BY <1>1, LookupInvariant, NotesInvariance, PTL

-----------------------------------------------------------------------------
(* What Python finds.                                                       *)

\* Importable(t): the numbers of parts of t that Python can import as a module.
Importable(t) == {n \in DOMAIN t : \A m \in 1..n : SubSeq(t, 1, m) \in source.loaded}

\* What Python finds is where a walk from the last module it imports ends.
LEMMA PythonWalks ==
  ASSUME source \in Sources, NEW V, NEW t \in Seq(V),
         NEW n \in Importable(t), \A m \in Importable(t) : m <= n
  PROVE  \E u : /\ u[0] = NodeOf(SubSeq(t, 1, n))
                /\ \A k \in 1..(Len(t) - n) : u[k] = PythonMember(u[k - 1], t[n + k])
                /\ Imported(t) = u[Len(t) - n]
<1> DEFINE L == Len(t) - n
           start == NodeOf(SubSeq(t, 1, n))
           Loop(w) == [k \in 0..L |-> IF k = 0 THEN start ELSE PythonMember(w[k - 1], t[n + k])]
           D == Nodes(V)
           next == [k \in 1..L |-> [node \in D |-> PythonMember(node, t[n + k])]]
<1>1. n \in 1..Len(t) /\ L \in Nat
  BY DEF Importable
<1>2. start \in D
  BY <1>1, PrefixOfName DEF NodeOf, Nodes, Kinds, Attribute
<1>3. next \in [1..L -> [D -> D]]
  <2> SUFFICES ASSUME NEW k \in 1..L, NEW node \in D PROVE PythonMember(node, t[n + k]) \in D
    OBVIOUS
  <2>1. n + k \in 1..Len(t)
    BY <1>1
  <2>2. t[n + k] \in V
    BY <2>1, ElementOfSeq
  <2> QED BY <2>2, MemberType
<1>4. PICK f \in [0..L -> D] : Iterates(f, L, start, next)
  <2> HIDE DEF L, start, D, next
  <2> QED BY <1>1, <1>2, <1>3, Iteration
<1>5. f[0] = start /\ \A k \in 1..L : f[k] = PythonMember(f[k - 1], t[n + k])
  <2>1. f[0] = start /\ \A k \in 1..L : f[k] = next[k][f[k - 1]]
    BY <1>4 DEF Iterates
  <2>2. \A k \in 1..L : k - 1 \in 0..L
    BY <1>1
  <2>3. \A k \in 1..L : f[k - 1] \in D
    BY <2>2
  <2> HIDE DEF D
  <2> QED BY <2>1, <2>3
<1>6. f = Loop(f)
  <2>1. \A k \in 0..L : f[k] = IF k = 0 THEN start ELSE PythonMember(f[k - 1], t[n + k])
    <3>1. \A k \in 0..L : k = 0 \/ (k \in 1..L /\ k # 0)
      BY <1>1
    <3> QED BY <1>5, <3>1
  <2> QED BY <2>1
<1> DEFINE w == CHOOSE g : g = Loop(g)
<1>7. w = Loop(w)
  <2> HIDE DEF Loop
  <2> QED BY <1>6
<1>8. n = Max(Importable(t))
  <2>1. n \in Importable(t) /\ \A m \in Importable(t) : m \in Nat /\ n >= m
    BY <1>1 DEF Importable
  <2>2. Max(Importable(t)) \in Importable(t) /\ \A m \in Importable(t) : Max(Importable(t)) >= m
    BY <2>1 DEF Max
  <2> QED BY <2>1, <2>2
<1>9. Imported(t) = w[Len(t) - n]
  <2>1. Imported(t) = LET m == Max(Importable(t))
                          object[k \in 0..(Len(t) - m)] ==
                            IF k = 0 THEN NodeOf(SubSeq(t, 1, m))
                                     ELSE PythonMember(object[k - 1], t[m + k])
                      IN IF Importable(t) = {} THEN Nothing ELSE object[Len(t) - m]
    BY DEF Imported, Importable
  <2> QED BY <1>8, <2>1
<1>10. w[0] = start /\ \A k \in 1..L : w[k] = PythonMember(w[k - 1], t[n + k])
  <2> HIDE DEF w
  <2>1. 0 \in 0..L /\ \A k \in 1..L : k \in 0..L /\ k # 0
    BY <1>1
  <2> QED BY <1>7, <2>1
<1> HIDE DEF w
<1> QED BY <1>9, <1>10

\* A walk stays among nodes.
LEMMA LookupType ==
  ASSUME source \in Sources, NEW V, NEW t \in Seq(V), NEW n \in 1..Len(t)
  PROVE  LookupInModule(t, n).kind \in Kinds
<1>1. PICK w : Walks(w, t, n) /\ LookupInModule(t, n) = w[Len(t) - n]
  BY LookupWalks
<1> DEFINE S == {k \in 0..(Len(t) - n) : w[k] \in Nodes(V)}
<1>2. 0 \in S
  <2>1. NodeOf(SubSeq(t, 1, n)) \in Nodes(V)
    BY PrefixOfName DEF NodeOf, Nodes, Kinds, Attribute
  <2>2. 0 \in 0..(Len(t) - n)
    OBVIOUS
  <2> QED BY <1>1, <2>1, <2>2 DEF Walks
<1>3. ASSUME NEW k \in 1..(Len(t) - n), k - 1 \in S PROVE k \in S
  <2>1. n + k \in 1..Len(t) /\ k \in 0..(Len(t) - n)
    OBVIOUS
  <2>2. t[n + k] \in V /\ w[k - 1] \in Nodes(V)
    BY <1>3, <2>1, ElementOfSeq
  <2>3. Member(w[k - 1], t[n + k]) \in Nodes(V)
    BY <2>2, MemberType
  <2> QED BY <1>1, <2>1, <2>3 DEF Walks
<1>4. Len(t) - n \in Nat
  OBVIOUS
<1>5. \A k \in 0..(Len(t) - n) : k \in S
  <2> HIDE DEF S
  <2> QED BY <1>2, <1>3, <1>4, UpTo
<1>6. w[Len(t) - n] \in Nodes(V)
  BY <1>4, <1>5
<1> QED BY <1>1, <1>6 DEF Nodes

\* From the innermost module Python and the plugin find the same, except that Python also
\* finds what is inherited and what belongs to an object.
LEMMA PythonAgrees ==
  ASSUME source \in Sources, NEW V, NEW t \in Seq(V),
         NEW n \in Importable(t), \A m \in Importable(t) : m <= n
  PROVE  \/ Imported(t) = LookupInModule(t, n)
         \/ Imported(t).kind = "inherited" /\ LookupInModule(t, n) = Nothing
<1>1. n \in 1..Len(t) /\ Len(t) - n \in Nat
  BY DEF Importable
<1>2. PICK w : Walks(w, t, n) /\ LookupInModule(t, n) = w[Len(t) - n]
  BY <1>1, LookupWalks
<1>3. PICK u : /\ u[0] = NodeOf(SubSeq(t, 1, n))
               /\ \A k \in 1..(Len(t) - n) : u[k] = PythonMember(u[k - 1], t[n + k])
               /\ Imported(t) = u[Len(t) - n]
  BY PythonWalks
<1> DEFINE Agree(k) == u[k] = w[k] \/ (u[k].kind = "inherited" /\ w[k] = Nothing)
           S == {k \in 0..(Len(t) - n) : Agree(k)}
<1>4. 0 \in S
  BY <1>1, <1>2, <1>3 DEF Walks
<1>5. ASSUME NEW k \in 1..(Len(t) - n), k - 1 \in S PROVE k \in S
  <2>1. /\ w[k] = Member(w[k - 1], t[n + k])
        /\ u[k] = PythonMember(u[k - 1], t[n + k])
    BY <1>2, <1>3 DEF Walks
  <2>2. CASE u[k - 1] = w[k - 1] /\ u[k - 1].kind \in {"heir", "object"} /\ t[n + k] = Name
    <3>1. u[k].kind = "inherited"
      BY <2>1, <2>2 DEF PythonMember
    <3>2. w[k] = Nothing
      BY <2>1, <2>2 DEF Member
    <3> QED BY <3>1, <3>2
  <2>3. CASE u[k - 1] = w[k - 1] /\ ~ (u[k - 1].kind \in {"heir", "object"} /\ t[n + k] = Name)
    <3>1. u[k] = Member(u[k - 1], t[n + k])
      BY <2>1, <2>3 DEF PythonMember
    <3> QED BY <2>1, <2>3, <3>1
  <2>4. CASE u[k - 1].kind = "inherited" /\ w[k - 1] = Nothing
    <3>1. u[k] = Member(u[k - 1], t[n + k])
      BY <2>1, <2>4 DEF PythonMember
    <3>2. u[k] = Nothing
      BY <2>4, <3>1 DEF Member
    <3> QED BY <2>1, <2>4, <3>2, NothingStays
  <2> QED BY <1>5, <2>2, <2>3, <2>4
<1>6. \A k \in 0..(Len(t) - n) : k \in S
  <2> HIDE DEF S
  <2> QED BY <1>1, <1>4, <1>5, UpTo
<1>7. Agree(Len(t) - n)
  BY <1>1, <1>6
<1> QED BY <1>2, <1>3, <1>7

\* The target of a patch is reported as not existing exactly if Python finds nothing, or
\* what the plugin does not look for; and a Mock stands for a function.
THEOREM PatchedExistsCorrect == NamesSpec => []PatchedExists
<1>1. ASSUME LookupTypeOK, Unshadowed, NEW t \in Targets
      PROVE  LET actual == Imported(t).kind IN
             /\ actual \in {"nothing", "class", "heir", "module", "inherited"}
                  => PatchedAs(t) = "reported"
             /\ PatchedAs(t) = "reported"
                  => actual \in {"nothing", "class", "heir", "module", "inherited"}
             /\ PatchedAs(t) = "Mock" => actual = "function"
  <2>1. t \in Seq(STRING) /\ source \in Sources
    BY <1>1, TargetsAssumption DEF LookupTypeOK
  <2>2. "nothing" \notin Typed /\ Nothing.kind = "nothing"
    BY DEF Typed, Entry, Nothing
  <2>3. Importable(t) \subseteq ModulePrefixes(t) /\ ModulePrefixes(t) \subseteq 1..Len(t)
    BY <2>1 DEF Importable, ModulePrefixes
  <2>4. CASE ModulePrefixes(t) = {}
    <3>1. LookupFullname(t, Typed) = Nothing
      BY <2>4 DEF LookupFullname, FirstAnswer
    <3>2. Importable(t) = {}
      BY <2>3, <2>4
    <3>3. Imported(t) = Nothing
      BY <3>2 DEF Imported, Importable
    <3> QED BY <2>2, <3>1, <3>3 DEF PatchedAs
  <2>5. CASE ModulePrefixes(t) # {}
    <3>1. PICK N \in ModulePrefixes(t) : \A n \in ModulePrefixes(t) : n <= N
      <4>1. Len(t) \in Nat
        BY <2>1
      <4> QED BY <2>3, <2>5, <4>1, GreatestNumber
    <3>2. N \in 1..Len(t) /\ SubSeq(t, 1, N) \in source.loaded
      BY <2>3, <3>1 DEF ModulePrefixes
    <3>3. LoadedUpTo(t, N)
      BY <1>1, <2>1, <3>2, PackagesLoaded
    <3>4. N \in Importable(t) /\ \A n \in Importable(t) : n <= N
      BY <2>3, <3>1, <3>2, <3>3 DEF Importable, LoadedUpTo
    <3> DEFINE node == LookupInModule(t, N)
    <3>5. LookupFullname(t, Typed) = IF node.kind \in Typed THEN node ELSE Nothing
      BY <1>1, <2>1, <2>2, <3>1, <3>2, <3>3, AnswerOfInnermost
    <3>6. Imported(t) = node \/ (Imported(t).kind = "inherited" /\ node = Nothing)
      BY <2>1, <3>4, PythonAgrees
    <3>7. node.kind \in Kinds
      BY <2>1, <3>2, LookupType
    <3> HIDE DEF node
    <3>8. CASE node.kind \in Typed
      <4>1. PatchedAs(t) = CASE node.kind = "nothing" -> "reported"
                             [] node.kind = "function" -> "Mock"
                             [] node.kind = "untyped" -> "any"
                             [] OTHER -> "MagicMock"
        BY <3>5, <3>8 DEF PatchedAs
      <4>2. Imported(t) = node
        BY <2>2, <3>6, <3>8
      <4> QED BY <3>8, <4>1, <4>2 DEF Typed, Entry
    <3>9. CASE node.kind \notin Typed
      <4>1. PatchedAs(t) = "reported"
        BY <2>2, <3>5, <3>9 DEF PatchedAs
      <4>2. node.kind \in {"nothing", "class", "heir", "module", "inherited"}
        BY <3>7, <3>9 DEF Kinds, Typed, Attribute
      <4> QED BY <3>6, <4>1, <4>2
    <3> QED BY <3>8, <3>9
  <2> QED BY <2>4, <2>5
<1>2. LookupInv /\ NotesInv => PatchedExists
  BY <1>1 DEF LookupInv, NotesInv, PatchedExists
<1> QED BY <1>2, LookupInvariant, NotesInvariance, PTL
====
