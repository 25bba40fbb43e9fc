------------------------- MODULE RequestGraphProofs --------------------------
(* Theorems about FixtureResolution and the RequestGraph that is built from its answer, for *)
(* any names, fixtures and tests.                                                        *)
EXTENDS RequestGraph, Counting, SequenceTheorems

-----------------------------------------------------------------------------
(* Sequences as queues.                                                     *)

\* What a queue holds after more was appended.
LEMMA ElementsConcat ==
  ASSUME NEW T, NEW s \in Seq(T), NEW t \in Seq(T)
  PROVE  Elements(s \o t) = Elements(s) \cup Elements(t)
<1>1. s \o t \in Seq(T) /\ Len(s \o t) = Len(s) + Len(t)
  OBVIOUS
<1>2. \A i \in 1..Len(s) : (s \o t)[i] = s[i]
  OBVIOUS
<1>3. \A i \in 1..Len(t) : (s \o t)[Len(s) + i] = t[i]
  OBVIOUS
<1>4. Elements(s \o t) \subseteq Elements(s) \cup Elements(t)
  <2> SUFFICES ASSUME NEW i \in 1..(Len(s) + Len(t))
               PROVE  (s \o t)[i] \in Elements(s) \cup Elements(t)
    BY <1>1 DEF Elements
  <2>1. CASE i \in 1..Len(s)
    BY <1>2, <2>1 DEF Elements
  <2>2. CASE i \notin 1..Len(s)
    <3>1. i - Len(s) \in 1..Len(t) /\ i = Len(s) + (i - Len(s))
      BY <2>2
    <3> QED BY <1>3, <3>1 DEF Elements
  <2> QED BY <2>1, <2>2
<1>5. Elements(s) \subseteq Elements(s \o t)
  BY <1>1, <1>2 DEF Elements
<1>6. Elements(t) \subseteq Elements(s \o t)
  <2> SUFFICES ASSUME NEW i \in 1..Len(t) PROVE t[i] \in Elements(s \o t)
    BY DEF Elements
  <2>1. Len(s) + i \in 1..Len(s \o t)
    BY <1>1
  <2> QED BY <1>1, <1>3, <2>1 DEF Elements
<1> QED BY <1>4, <1>5, <1>6

\* What it holds before and after its head was taken.
LEMMA ElementsHeadTail ==
  ASSUME NEW T, NEW s \in Seq(T), s # <<>>
  PROVE  /\ Head(s) \in T /\ Tail(s) \in Seq(T)
         /\ Elements(s) = {Head(s)} \cup Elements(Tail(s))
<1>1. Len(s) \in Nat /\ Len(s) >= 1
  OBVIOUS
<1>2. Head(s) = s[1] /\ Tail(s) \in Seq(T) /\ Len(Tail(s)) = Len(s) - 1
  OBVIOUS
<1>3. \A i \in 1..(Len(s) - 1) : Tail(s)[i] = s[i + 1]
  OBVIOUS
<1>4. Elements(s) \subseteq {Head(s)} \cup Elements(Tail(s))
  <2> SUFFICES ASSUME NEW i \in 1..Len(s), i # 1 PROVE s[i] \in Elements(Tail(s))
    BY <1>2 DEF Elements
  <2>1. i - 1 \in 1..(Len(s) - 1) /\ (i - 1) + 1 = i
    BY <1>1
  <2>2. Tail(s)[i - 1] = s[i] /\ i - 1 \in DOMAIN Tail(s)
    BY <1>2, <1>3, <2>1
  <2> QED BY <2>2 DEF Elements
<1>5. {Head(s)} \cup Elements(Tail(s)) \subseteq Elements(s)
  <2>1. \A i \in 1..(Len(s) - 1) : i + 1 \in 1..Len(s)
    BY <1>1
  <2> QED BY <1>1, <1>2, <1>3, <2>1 DEF Elements
<1> QED BY <1>1, <1>2, <1>4, <1>5

\* What it holds is of the type of the queue.
LEMMA ElementsIn ==
  ASSUME NEW T, NEW s \in Seq(T)
  PROVE  Elements(s) \subseteq T
BY DEF Elements

-----------------------------------------------------------------------------
(* Type correctness.                                                        *)

\* The worklist begins with names of the test.
LEMMA ResolveTypeInit == ResolveInit => ResolveTypeOK
<1> SUFFICES ASSUME ResolveInit PROVE ResolveTypeOK
  OBVIOUS
<1>1. input \in Input /\ input.requests \in Seq(Names) /\ input.autouse \in Seq(Names)
  BY InputsAssumption DEF ResolveInit, Input
<1> QED BY <1>1 DEF ResolveInit, ResolveTypeOK

\* Every turn of the worklist keeps the types.
LEMMA ResolveTypeNext ==
  ResolveTypeOK /\ [ResolveNext]_resolveVars => ResolveTypeOK'
<1> SUFFICES ASSUME ResolveTypeOK, [ResolveNext]_resolveVars PROVE ResolveTypeOK'
  OBVIOUS
<1>1. CASE ResolveName
  <2>1. Head(queue) \in Names /\ Tail(queue) \in Seq(Names)
    BY <1>1, ElementsHeadTail DEF ResolveName, ResolveTypeOK
  <2>2. input.fixtures[Head(queue)] \in Seq(Fixture)
    BY <2>1 DEF ResolveTypeOK, Input
  <2> QED BY <1>1, <2>1, <2>2 DEF ResolveName, ResolveTypeOK
<1>2. CASE SkipName
  BY <1>2, ElementsHeadTail DEF SkipName, ResolveTypeOK
<1>3. CASE QueueArguments
  <2>1. Head(extending) \in Fixture /\ Tail(extending) \in Seq(Fixture)
    BY <1>3, ElementsHeadTail DEF QueueArguments, ResolveTypeOK
  <2>2. Head(extending).arguments \in Seq(Names)
    BY <2>1 DEF Fixture
  <2> QED BY <1>3, <2>1, <2>2 DEF QueueArguments, ResolveTypeOK
<1>4. CASE UNCHANGED resolveVars
  BY <1>4 DEF resolveVars, ResolveTypeOK
<1> QED BY <1>1, <1>2, <1>3, <1>4 DEF ResolveNext

-----------------------------------------------------------------------------
(* The result is the least closed set.                                      *)

\* What the fixtures still to be followed request.
Extended == UNION {Elements(f.arguments) : f \in Elements(extending)}

\* Nothing needed is lost between the dict, the queue and the fixtures in hand.
NothingLost ==
  /\ Roots \subseteq DOMAIN available \cup Elements(queue)
  /\ \A x \in DOMAIN available :
       ArgumentsOf(x) \subseteq DOMAIN available \cup Elements(queue) \cup Extended

\* And nothing is added that is not needed.
NothingExtra ==
  \A S \in SUBSET Names :
    ClosedSet(S) => DOMAIN available \cup Elements(queue) \cup Extended \subseteq S

\* What waits is a root or an argument of something known.
QueueNeeded ==
  Elements(queue) \cup Extended \subseteq
    Roots \cup UNION {ArgumentsOf(x) : x \in DOMAIN available}

\* At the start everything needed is queued and nothing else is.
LEMMA ResolveInvInit == ResolveInit => NothingLost /\ NothingExtra /\ QueueNeeded
<1> SUFFICES ASSUME ResolveInit PROVE NothingLost /\ NothingExtra /\ QueueNeeded
  OBVIOUS
<1>1. input.requests \in Seq(Names) /\ input.autouse \in Seq(Names)
  BY InputsAssumption DEF ResolveInit, Input
<1>2. Elements(queue) = Roots
  BY <1>1, ElementsConcat DEF ResolveInit, Roots
<1>3. DOMAIN available = {} /\ Extended = {}
  BY DEF ResolveInit, Extended, Elements
<1> QED BY <1>2, <1>3 DEF NothingLost, NothingExtra, QueueNeeded, ClosedSet

\* Every turn of the worklist keeps that.
LEMMA ResolveInvNext ==
  ResolveTypeOK /\ NothingLost /\ NothingExtra /\ QueueNeeded
  /\ [ResolveNext]_resolveVars
    => NothingLost' /\ NothingExtra' /\ QueueNeeded'
<1> SUFFICES ASSUME ResolveTypeOK, NothingLost, NothingExtra, QueueNeeded,
                    [ResolveNext]_resolveVars
             PROVE  NothingLost' /\ NothingExtra' /\ QueueNeeded'
  OBVIOUS
<1>1. /\ input' = input /\ Roots' = Roots
      /\ \A x : ArgumentsOf(x)' = ArgumentsOf(x)
      /\ \A S : ClosedSet(S)' <=> ClosedSet(S)
  BY DEF ResolveNext, ResolveName, SkipName, QueueArguments, resolveVars,
         Roots, ArgumentsOf, ClosedSet
<1>2. CASE ResolveName
  <2> DEFINE x == Head(queue)
  <2>1. x \in Names /\ Elements(queue) = {x} \cup Elements(queue')
    BY <1>2, ElementsHeadTail DEF ResolveName, ResolveTypeOK
  <2>2. DOMAIN available' = DOMAIN available \cup {x}
    BY <1>2 DEF ResolveName
  <2>3. Extended = {} /\ Extended' = ArgumentsOf(x)
    BY <1>2 DEF ResolveName, Extended, ArgumentsOf, Elements
  <2>4. \A S \in SUBSET Names : ClosedSet(S) => x \in S /\ ArgumentsOf(x) \subseteq S
    BY <2>1 DEF NothingExtra, ClosedSet
  <2> HIDE DEF x
  <2> QED BY <1>1, <2>1, <2>2, <2>3, <2>4 DEF NothingLost, NothingExtra, QueueNeeded
<1>3. CASE SkipName
  <2>1. Elements(queue) = {Head(queue)} \cup Elements(queue') /\ Head(queue) \in DOMAIN available
    BY <1>3, ElementsHeadTail DEF SkipName, ResolveTypeOK
  <2>2. available' = available /\ Extended' = Extended
    BY <1>3 DEF SkipName, Extended
  <2> QED BY <1>1, <2>1, <2>2 DEF NothingLost, NothingExtra, QueueNeeded
<1>4. CASE QueueArguments
  <2>0. /\ Head(extending) \in Fixture
        /\ Elements(extending) = {Head(extending)} \cup Elements(extending')
    BY <1>4, ElementsHeadTail DEF QueueArguments, ResolveTypeOK
  <2>1. Head(extending).arguments \in Seq(Names)
    BY <2>0 DEF Fixture
  <2>2. Elements(queue') = Elements(queue) \cup Elements(Head(extending).arguments)
    BY <1>4, <2>1, ElementsConcat DEF QueueArguments, ResolveTypeOK
  <2>3. Extended = Elements(Head(extending).arguments) \cup Extended'
    BY <2>0 DEF Extended
  <2>4. available' = available
    BY <1>4 DEF QueueArguments
  <2> QED BY <1>1, <2>2, <2>3, <2>4 DEF NothingLost, NothingExtra, QueueNeeded
<1>5. CASE UNCHANGED resolveVars
  BY <1>1, <1>5 DEF resolveVars, NothingLost, NothingExtra, QueueNeeded, Extended
<1> QED BY <1>2, <1>3, <1>4, <1>5 DEF ResolveNext

ResolveInv == ResolveTypeOK /\ NothingLost /\ NothingExtra /\ QueueNeeded

\* Nothing is lost from the worklist and nothing extra gets into it.
THEOREM ResolveInvariance == ResolveSpec => []ResolveInv
<1>1. ResolveInit => ResolveInv
  BY ResolveTypeInit, ResolveInvInit DEF ResolveInv
<1>2. ResolveInv /\ [ResolveNext \/ (Resolved /\ UNCHANGED resolveVars)]_resolveVars
        => ResolveInv'
  BY ResolveTypeNext, ResolveInvNext DEF ResolveInv
<1> QED BY <1>1, <1>2, PTL DEF ResolveSpec

\* When resolve_fixtures returns, its result has every name the request graph of the
\* test can reach: no look-up in available_fixtures can fail.
THEOREM ResolvedIsClosedCorrect == ResolveSpec => []ResolvedIsClosed
<1>1. ResolveInv => ResolvedIsClosed
  <2> SUFFICES ASSUME ResolveInv, Resolved PROVE ClosedSet(DOMAIN available)
    BY DEF ResolvedIsClosed
  <2>1. Elements(queue) = {} /\ Extended = {}
    BY DEF Resolved, Extended, Elements
  <2> QED BY <2>1 DEF ResolveInv, NothingLost, ClosedSet
<1> QED BY <1>1, ResolveInvariance, PTL

\* At no time does it hold a name that some closed set can do without.
THEOREM OnlyNeededCorrect == ResolveSpec => []OnlyNeeded
<1>1. ResolveInv => OnlyNeeded
  BY DEF ResolveInv, NothingExtra, OnlyNeeded
<1> QED BY <1>1, ResolveInvariance, PTL

-----------------------------------------------------------------------------
(* The worklist implements the abstract closure (its safety part).          *)

\* The worklist begins where the closure begins.
LEMMA ClosureInitMaps == ResolveInit => Closure!Init
<1> SUFFICES ASSUME ResolveInit PROVE Closure!Init
  OBVIOUS
<1>1. input \in Input
  BY ResolveTypeInit DEF ResolveTypeOK
<1>2. Roots \in SUBSET Names
  BY <1>1, ElementsIn DEF Roots, Input
<1>3. [x \in Names |-> ArgumentsOf(x)] \in [Names -> SUBSET Names]
  <2> SUFFICES ASSUME NEW x \in Names, NEW f \in Elements(input.fixtures[x])
               PROVE  Elements(f.arguments) \subseteq Names
    BY DEF ArgumentsOf
  <2>1. f \in Fixture
    BY <1>1, ElementsIn DEF Input
  <2> QED BY <2>1, ElementsIn DEF Fixture
<1>4. DOMAIN available = {}
  BY DEF ResolveInit
<1> QED BY <1>2, <1>3, <1>4 DEF Closure!Init

\* A turn of the worklist is a step of the closure or none.
LEMMA ClosureStepMaps ==
  ASSUME ResolveInv, [ResolveNext]_resolveVars
  PROVE  [Closure!Next]_(Closure!vars)
<1>1. Roots' = Roots /\ [x \in Names |-> ArgumentsOf(x)]' = [x \in Names |-> ArgumentsOf(x)]
  BY DEF ResolveNext, ResolveName, SkipName, QueueArguments, resolveVars,
         Roots, ArgumentsOf
<1>2. CASE ResolveName
  <2>1. Head(queue) \in Names /\ Head(queue) \in Elements(queue)
    BY <1>2, ElementsHeadTail DEF ResolveName, ResolveInv, ResolveTypeOK
  <2>2. DOMAIN available' = DOMAIN available \cup {Head(queue)}
    BY <1>2 DEF ResolveName
  <2>3. \A x \in DOMAIN available : ArgumentsOf(x) = [y \in Names |-> ArgumentsOf(y)][x]
    BY DEF ResolveInv, ResolveTypeOK
  <2>4. Head(queue) \in Closure!Needed \ DOMAIN available
    BY <1>2, <2>1, <2>3 DEF ResolveName, ResolveInv, QueueNeeded, Closure!Needed
  <2> QED BY <1>1, <2>1, <2>2, <2>4 DEF Closure!Next, Closure!Learn
<1>3. CASE SkipName \/ QueueArguments \/ UNCHANGED resolveVars
  BY <1>1, <1>3 DEF SkipName, QueueArguments, resolveVars, Closure!vars
<1> QED BY <1>2, <1>3 DEF ResolveNext

\* Every behaviour of the worklist is one of the abstract closure.
THEOREM ImplementsClosureSafety ==
  ResolveSpec => Closure!Init /\ [][Closure!Next]_(Closure!vars)
<1>1. ResolveInv /\ [ResolveNext \/ (Resolved /\ UNCHANGED resolveVars)]_resolveVars
        => [Closure!Next]_(Closure!vars)
  BY ClosureStepMaps
<1> QED BY <1>1, ClosureInitMaps, ResolveInvariance, PTL DEF ResolveSpec

-----------------------------------------------------------------------------
(* The invariant behind type correctness.                                   *)

\* A fixture of input that the dict has, by name and place.
Known == {f \in Names \X Nat : f[1] \in DOMAIN available /\ f[2] \in DOMAIN available[f[1]]}

Frame == [fixture : Names \X Nat, argument : Nat, bound : Names]

Request == [name : Names, source : {"argument", "autouse", "fixture"},
            sourceName : Names \cup {TestName}, scope : Scopes \cup {"function"},
            requester : {<<>>} \cup (Names \X Nat),
            resolver : {Missing, Param} \cup (Names \X Nat)]

\* What the variables of the traversal are made of.
StackOK(s) ==
  /\ s \in Seq(Frame)
  /\ \A k \in DOMAIN s :
       /\ s[k].fixture \in visited
       /\ s[k].argument \in 1..(Len(Arguments(s[k].fixture)) + 1)

RequestsOK ==
  /\ requests \in Seq(Request)
  /\ \A k \in DOMAIN requests :
       /\ requests[k].requester \in {<<>>} \cup visited
       /\ requests[k].resolver \in {Missing, Param} \cup visited

Shape ==
  /\ next \in 1..(Len(OriginalRequests) + 1)
  /\ visited \subseteq Known
  /\ StackOK(stack)
  /\ RequestsOK

\* The traversal begins when resolve_fixtures has returned.
Waiting == ~ Resolved => stack = <<>> /\ requests = <<>> /\ visited = {} /\ next = 1

GraphInv == ResolveInv /\ Shape /\ Waiting

\* The requests of the test are requests.
LEMMA OriginalType ==
  ASSUME ResolveTypeOK
  PROVE  /\ OriginalRequests \in Seq(Request)
         /\ \A i \in DOMAIN OriginalRequests :
              /\ OriginalRequests[i].name \in Roots
              /\ OriginalRequests[i].requester = <<>>
              /\ OriginalRequests[i].resolver = Missing
<1> DEFINE A == [i \in DOMAIN input.requests |->
                   Node(input.requests[i], "argument", TestName, "function", <<>>)]
           B == [i \in DOMAIN input.autouse |->
                   Node(input.autouse[i], "autouse", input.autouse[i], "function", <<>>)]
           N == {r \in Request : /\ r.name \in Roots /\ r.requester = <<>>
                                 /\ r.resolver = Missing}
<1>1. input.requests \in Seq(Names) /\ input.autouse \in Seq(Names)
  BY DEF ResolveTypeOK, Input
<1>2. A \in Seq(N)
  <2>1. ASSUME NEW i \in 1..Len(input.requests) PROVE A[i] \in N
    <3>1. input.requests[i] \in Names /\ input.requests[i] \in Roots
      BY <1>1 DEF Roots, Elements
    <3> QED BY <3>1, <1>1 DEF Node, Request, Missing
  <2> HIDE DEF N
  <2>2. A \in [1..Len(input.requests) -> N]
    <3>1. A = [i \in 1..Len(input.requests) |-> A[i]]
      BY <1>1
    <3> HIDE DEF A
    <3> QED BY <2>1, <3>1
  <2> HIDE DEF A
  <2> QED BY <2>2, <1>1, SeqDef
<1>3. B \in Seq(N)
  <2>1. ASSUME NEW i \in 1..Len(input.autouse) PROVE B[i] \in N
    <3>1. input.autouse[i] \in Names /\ input.autouse[i] \in Roots
      BY <1>1 DEF Roots, Elements
    <3> QED BY <3>1, <1>1 DEF Node, Request, Missing
  <2> HIDE DEF N
  <2>2. B \in [1..Len(input.autouse) -> N]
    <3>1. B = [i \in 1..Len(input.autouse) |-> B[i]]
      BY <1>1
    <3> HIDE DEF B
    <3> QED BY <2>1, <3>1
  <2> HIDE DEF B
  <2> QED BY <2>2, <1>1, SeqDef
<1>4. OriginalRequests = A \o B
  BY DEF OriginalRequests
<1> HIDE DEF A, B
<1>5. OriginalRequests \in Seq(N)
  BY <1>2, <1>3, <1>4
<1>6. N \subseteq Request
  OBVIOUS
<1> QED BY <1>5, <1>6

\* The arguments of a known fixture are names its name needs.
LEMMA ArgumentsType ==
  ASSUME ResolveTypeOK, NEW f \in Known
  PROVE  /\ At(f) \in Fixture
         /\ Arguments(f) \in Seq(Names)
         /\ Elements(Arguments(f)) \subseteq ArgumentsOf(f[1])
<1>1. available[f[1]] \in Seq(Fixture) /\ f[2] \in DOMAIN available[f[1]]
      /\ available[f[1]] = input.fixtures[f[1]]
  BY DEF Known, ResolveTypeOK, Input
<1>2. At(f) \in Fixture /\ At(f) \in Elements(input.fixtures[f[1]])
  BY <1>1 DEF At, Elements
<1> QED BY <1>2 DEF Arguments, Fixture, ArgumentsOf

\* A request is answered by nothing, by a parameter or by a known fixture.
LEMMA LevelType ==
  ASSUME Shape, NEW name
  PROVE  /\ Level(name) \in Nat /\ Level(name) >= 1
         /\ IsFiniteSet({k \in DOMAIN stack : stack[k].fixture[1] = name})
<1>1. IsFiniteSet(DOMAIN stack)
  BY FS_Interval DEF Shape, StackOK
<1>2. IsFiniteSet({k \in DOMAIN stack : stack[k].fixture[1] = name})
  BY <1>1, FS_Subset
<1> QED BY <1>2, FS_CardinalityType DEF Level

\* What answers a request is known.
LEMMA ResolverType ==
  ASSUME ResolveTypeOK, Shape, NEW name \in Names, CanLookUp(name)
  PROVE  \/ Resolver(name) \in {Missing, Param} /\ ~ IsFixture(Resolver(name))
         \/ /\ Resolver(name) = <<name, Level(name)>> /\ IsFixture(Resolver(name))
            /\ Resolver(name) \in Known
<1>1. Level(name) \in Nat /\ Level(name) >= 1
  BY LevelType
<1>2. CASE name \in input.parametrized
  BY <1>2 DEF Resolver, Param, IsFixture
<1>3. CASE name \notin input.parametrized
  <2>1. name \in DOMAIN available /\ available[name] \in Seq(Fixture)
    BY <1>3 DEF CanLookUp, ResolveTypeOK, Input
  <2>2. CASE Level(name) <= Len(available[name])
    <3>1. Level(name) \in DOMAIN available[name]
      BY <1>1, <2>1, <2>2
    <3>2. Resolver(name) = <<name, Level(name)>>
      BY <1>3, <2>2 DEF Resolver
    <3>3. <<name, Level(name)>> \in Known
      BY <1>1, <2>1, <3>1 DEF Known
    <3>4. IsFixture(<<name, Level(name)>>)
      BY DEF IsFixture
    <3> QED BY <3>2, <3>3, <3>4
  <2>3. CASE ~ (Level(name) <= Len(available[name]))
    BY <1>3, <2>3 DEF Resolver, Missing, IsFixture
  <2> QED BY <2>2, <2>3
<1> QED BY <1>2, <1>3


\* Recording a request keeps the traversal's variables in shape.
LEMMA AddRequestShape ==
  ASSUME ResolveTypeOK, Shape, UNCHANGED resolveVars,
         NEW node \in Request, NEW rest, StackOK(rest), CanLookUp(node.name),
         node.requester \in {<<>>} \cup visited,
         AddRequest(node, rest)
  PROVE  (visited \subseteq Known /\ StackOK(stack) /\ RequestsOK)'
<1> DEFINE resolver == Resolver(node.name)
<1>1. /\ Known' = Known
      /\ \A f : At(f)' = At(f) /\ Arguments(f)' = Arguments(f)
  BY DEF resolveVars, Known, At, Arguments
<1>2. requests' = Append(requests, [node EXCEPT !.resolver = resolver])
  BY DEF AddRequest
<1>3. node.name \in Names
  BY DEF Request
<1>4. ASSUME visited' = visited \cup ({resolver} \ {Missing, Param})
      PROVE  RequestsOK'
  <2>1. resolver \in {Missing, Param} \cup (Names \X Nat)
    BY <1>3, ResolverType DEF Known
  <2> DEFINE new == [node EXCEPT !.resolver = resolver]
  <2>2. new \in Request /\ new.requester = node.requester /\ new.resolver = resolver
    BY <2>1 DEF Request
  <2> HIDE DEF new, resolver
  <2>3. requests' = Append(requests, new)
    BY <1>2 DEF new, resolver
  <2>4. requests \in Seq(Request)
    BY DEF Shape, RequestsOK
  <2>5. requests' \in Seq(Request)
    BY <2>2, <2>3, <2>4
  <2>6. ASSUME NEW k \in DOMAIN requests'
        PROVE  requests'[k] = new \/ (k \in DOMAIN requests /\ requests'[k] = requests[k])
    BY <2>3, <2>4, <2>6
  <2>7. ASSUME NEW k \in DOMAIN requests'
        PROVE  /\ requests'[k].requester \in {<<>>} \cup visited'
               /\ requests'[k].resolver \in {Missing, Param} \cup visited'
    <3>1. CASE requests'[k] = new
      BY <1>4, <2>2, <3>1
    <3>2. CASE k \in DOMAIN requests /\ requests'[k] = requests[k]
      BY <1>4, <3>2 DEF Shape, RequestsOK
    <3> QED BY <2>6, <3>1, <3>2
  <2> QED BY <2>5, <2>7 DEF RequestsOK
<1>5. CASE IsFixture(resolver) /\ resolver \notin visited
  <2> DEFINE frame == [fixture |-> resolver, argument |-> 1, bound |-> node.name]
  <2>1. resolver \in Known
    BY <1>3, <1>5, ResolverType
  <2>2. visited' = visited \cup {resolver} /\ stack' = Append(rest, frame)
    BY <1>5 DEF AddRequest
  <2>3. frame \in Frame
    BY <1>3, <2>1 DEF Frame, Known
  <2>4. frame.fixture \in visited' /\ frame.argument \in 1..(Len(Arguments(frame.fixture)) + 1)
    BY <2>1, <2>2, ArgumentsType
  <2>5. resolver \notin {Missing, Param}
    BY <1>5 DEF IsFixture, Missing, Param
  <2>6. visited' \subseteq Known'
    BY <1>1, <2>1, <2>2 DEF Shape
  <2>7. RequestsOK'
    BY <1>4, <2>2, <2>5
  <2> HIDE DEF frame, resolver
  <2>8. ASSUME NEW k \in DOMAIN stack'
        PROVE  /\ stack'[k].fixture \in visited'
               /\ stack'[k].argument \in 1..(Len(Arguments(stack'[k].fixture)) + 1)
    <3>1. stack'[k] = frame \/ (k \in DOMAIN rest /\ stack'[k] = rest[k])
      BY <2>2, <2>8 DEF StackOK
    <3>2. CASE stack'[k] = frame
      BY <1>1, <2>4, <3>2
    <3>3. CASE k \in DOMAIN rest /\ stack'[k] = rest[k]
      BY <1>1, <2>2, <3>3 DEF StackOK
    <3> QED BY <3>1, <3>2, <3>3
  <2>9. stack' \in Seq(Frame)
    BY <2>2, <2>3 DEF StackOK
  <2> QED BY <2>6, <2>7, <2>8, <2>9 DEF StackOK, Arguments, At, resolveVars
<1>6. CASE ~ (IsFixture(resolver) /\ resolver \notin visited)
  <2>1. visited' = visited /\ stack' = rest
    BY <1>6 DEF AddRequest
  <2>2. resolver \in {Missing, Param} \cup visited
    BY <1>3, <1>6, ResolverType
  <2>3. RequestsOK'
    BY <1>4, <2>1, <2>2
  <2> HIDE DEF resolver
  <2>4. StackOK(stack)'
    BY <2>1 DEF StackOK, Arguments, At, resolveVars
  <2> QED BY <1>1, <2>1, <2>3, <2>4 DEF Shape
<1> QED BY <1>5, <1>6

-----------------------------------------------------------------------------
(* Each step keeps the invariant.                                           *)

\* What is followed now is a frame of the stack.
LEMMA TopType ==
  ASSUME ResolveTypeOK, Shape, stack # <<>>
  PROVE  /\ Len(stack) \in DOMAIN stack /\ Top \in Frame
         /\ Top.fixture \in visited /\ Top.fixture \in Known
         /\ Top.argument \in 1..(Len(Arguments(Top.fixture)) + 1)
<1>1. Len(stack) \in DOMAIN stack
  BY DEF Shape, StackOK
<1> QED BY <1>1 DEF Shape, StackOK, Top

\* The node of the next argument, and the stack with the argument counted.
LEMMA ArgumentNodeType ==
  ASSUME ResolveTypeOK, Shape, AtArgument
  PROVE  /\ ArgumentNode \in Request
         /\ ArgumentNode.requester = Top.fixture /\ ArgumentNode.resolver = Missing
         /\ ArgumentNode.name \in ArgumentsOf(Top.fixture[1])
<1> DEFINE name == Arguments(Top.fixture)[Top.argument]
<1>1. Top \in Frame /\ Top.fixture \in Known
      /\ Top.argument \in 1..(Len(Arguments(Top.fixture)) + 1)
  BY TopType DEF AtArgument
<1>2. /\ At(Top.fixture) \in Fixture /\ Arguments(Top.fixture) \in Seq(Names)
      /\ Elements(Arguments(Top.fixture)) \subseteq ArgumentsOf(Top.fixture[1])
  BY <1>1, ArgumentsType
<1>3. Top.argument \in DOMAIN Arguments(Top.fixture)
  BY <1>1, <1>2 DEF AtArgument
<1>4. name \in Names /\ name \in ArgumentsOf(Top.fixture[1])
  BY <1>2, <1>3 DEF Elements
<1>5. At(Top.fixture).scope \in Scopes /\ Top.bound \in Names
      /\ Top.fixture \in Names \X Nat
  BY <1>1, <1>2 DEF Fixture, Frame
<1> HIDE DEF name
<1>6. ArgumentNode = Node(name, "fixture", Top.bound, At(Top.fixture).scope, Top.fixture)
  BY DEF ArgumentNode, name
<1> QED BY <1>4, <1>5, <1>6 DEF Node, Request, Missing

\* The stack when the next argument of the innermost fixture has been taken.
Taken == [stack EXCEPT ![Len(stack)] = [fixture |-> Top.fixture,
                                        argument |-> Top.argument + 1,
                                        bound |-> ArgumentNode.name]]

\* With its argument counted the stack has the same fixtures.
LEMMA TakenType ==
  ASSUME ResolveTypeOK, Shape, AtArgument
  PROVE  /\ StackOK(Taken)
         /\ Len(Taken) = Len(stack)
         /\ \A k \in DOMAIN stack : Taken[k].fixture = stack[k].fixture
<1> DEFINE top == [fixture |-> Top.fixture, argument |-> Top.argument + 1,
                   bound |-> ArgumentNode.name]
<1>1. Len(stack) \in DOMAIN stack /\ Top \in Frame /\ Top.fixture \in visited
      /\ Top.argument \in 1..(Len(Arguments(Top.fixture)) + 1)
      /\ Arguments(Top.fixture) \in Seq(Names)
  BY TopType, ArgumentsType DEF AtArgument
<1>2. ArgumentNode.name \in Names
  BY ArgumentNodeType DEF Request
<1>3. /\ top \in Frame /\ top.fixture = Top.fixture
      /\ top.argument \in 1..(Len(Arguments(Top.fixture)) + 1)
  BY <1>1, <1>2 DEF Frame, AtArgument
<1>4. Taken = [stack EXCEPT ![Len(stack)] = top]
  BY DEF Taken
<1> HIDE DEF top
<1>5. stack \in Seq(Frame) /\ Taken \in Seq(Frame) /\ Len(Taken) = Len(stack)
  BY <1>1, <1>3, <1>4 DEF Shape, StackOK
<1>6. ASSUME NEW k \in DOMAIN stack
      PROVE  Taken[k] = IF k = Len(stack) THEN top ELSE stack[k]
  BY <1>4, <1>5
<1>7. \A k \in DOMAIN stack : Taken[k].fixture = stack[k].fixture
  BY <1>3, <1>6 DEF Top
<1>8. ASSUME NEW k \in DOMAIN Taken
      PROVE  /\ Taken[k].fixture \in visited
             /\ Taken[k].argument \in 1..(Len(Arguments(Taken[k].fixture)) + 1)
  <2>1. k \in DOMAIN stack
    BY <1>5, <1>8
  <2>2. CASE k = Len(stack)
    BY <1>1, <1>3, <1>6, <2>1, <2>2
  <2>3. CASE k # Len(stack)
    BY <1>6, <2>1, <2>3 DEF Shape, StackOK
  <2> QED BY <2>2, <2>3
<1> QED BY <1>5, <1>7, <1>8 DEF StackOK

\* Leaving a fixture shortens the stack and nothing else.
LEMMA ReturnType ==
  ASSUME ResolveTypeOK, Shape, ReturnFromFixture
  PROVE  /\ StackOK(stack') /\ Len(stack') = Len(stack) - 1
         /\ \A k \in DOMAIN stack' : k \in DOMAIN stack /\ stack'[k] = stack[k]
<1>1. stack \in Seq(Frame) /\ Len(stack) \in Nat /\ Len(stack) >= 1
  BY DEF ReturnFromFixture, Shape, StackOK
<1>2. /\ stack' \in Seq(Frame) /\ Len(stack') = Len(stack) - 1
      /\ \A k \in 1..(Len(stack) - 1) : stack'[k] = stack[k]
  <2>1. stack' = SubSeq(stack, 1, Len(stack) - 1)
    BY DEF ReturnFromFixture
  <2> DEFINE n == Len(stack) - 1
  <2>2. n \in Int /\ n >= 0 /\ \A i \in 1..n : stack[i] \in Frame
    BY <1>1
  <2> HIDE DEF n
  <2>3. /\ SubSeq(stack, 1, n) \in Seq(Frame)
        /\ Len(SubSeq(stack, 1, n)) = IF 1 <= n THEN n - 1 + 1 ELSE 0
        /\ \A i \in 1..(n - 1 + 1) : SubSeq(stack, 1, n)[i] = stack[1 + i - 1]
    BY <2>2, SubSeqProperties
  <2>4. \A i \in 1..n : SubSeq(stack, 1, n)[i] = stack[i]
    BY <2>2, <2>3
  <2> QED BY <2>1, <2>2, <2>3, <2>4 DEF n
<1>3. \A k \in DOMAIN stack' : k \in DOMAIN stack /\ stack'[k] = stack[k]
  BY <1>1, <1>2
<1> QED BY <1>2, <1>3 DEF Shape, StackOK

\* The traversal begins behind the worklist.
LEMMA GraphInvInit == GraphInit => GraphInv
<1> SUFFICES ASSUME GraphInit PROVE GraphInv
  OBVIOUS
<1>1. ResolveInv
  BY ResolveTypeInit, ResolveInvInit DEF GraphInit, ResolveInv
<1>2. Len(OriginalRequests) \in Nat
  BY <1>1, OriginalType DEF ResolveInv
<1> QED BY <1>1, <1>2 DEF GraphInit, GraphInv, Shape, StackOK, RequestsOK, Waiting

\* When resolve_fixtures is done, so are its variables.
LEMMA NoMoreResolving ==
  ASSUME ResolveTypeOK, ResolveNext
  PROVE  ~ Resolved
BY DEF ResolveNext, ResolveName, SkipName, QueueArguments, Resolved

\* No step changes the test.
LEMMA InputConstant ==
  ASSUME [GraphNext]_allVars
  PROVE  input' = input /\ OriginalRequests' = OriginalRequests
BY DEF GraphNext, ResolveNext, ResolveName, SkipName, QueueArguments, ResolveOriginal,
       ResolveArgument, ReturnFromFixture, allVars, resolveVars, OriginalRequests

\* Every step keeps the invariant.
LEMMA GraphInvNext == GraphInv /\ [GraphNext]_allVars => GraphInv'
<1> SUFFICES ASSUME GraphInv, [GraphNext]_allVars PROVE GraphInv'
  OBVIOUS
<1> USE DEF GraphInv
<1>0. OriginalRequests' = OriginalRequests /\ Len(OriginalRequests) \in Nat
      /\ ResolveTypeOK
  BY InputConstant, OriginalType DEF ResolveInv
<1>1. ResolveInv'
  <2>1. [ResolveNext]_resolveVars
    BY DEF GraphNext, ResolveOriginal, ResolveArgument, ReturnFromFixture, allVars
  <2> QED BY <2>1, ResolveTypeNext, ResolveInvNext DEF ResolveInv
<1>2. CASE ResolveNext /\ UNCHANGED graphVars
  <2>1. stack' = <<>> /\ requests' = <<>> /\ visited' = {} /\ next' = 1
    BY <1>0, <1>2, NoMoreResolving DEF Waiting, graphVars
  <2> QED BY <1>0, <1>1, <2>1 DEF Shape, StackOK, RequestsOK, Waiting
<1>3. ASSUME UNCHANGED resolveVars, Resolved PROVE Waiting'
  BY <1>3 DEF Waiting, Resolved, resolveVars
<1>4. CASE ResolveOriginal
  <2> DEFINE node == OriginalRequests[next]
  <2>1. next \in DOMAIN OriginalRequests
    BY <1>0, <1>4, OriginalType DEF ResolveOriginal, AtOriginal, Shape
  <2>2. node \in Request /\ node.requester = <<>>
    BY <1>0, <2>1, OriginalType
  <2>3. StackOK(<<>>)
    BY DEF StackOK
  <2>4. CanLookUp(node.name) /\ AddRequest(node, <<>>) /\ UNCHANGED resolveVars
        /\ next' = next + 1
    BY <1>4 DEF ResolveOriginal
  <2>5. next' \in 1..(Len(OriginalRequests) + 1)
    BY <1>0, <1>4, <2>4 DEF ResolveOriginal, AtOriginal, Shape
  <2> HIDE DEF node
  <2>6. (visited \subseteq Known /\ StackOK(stack) /\ RequestsOK)'
    BY <1>0, <2>2, <2>3, <2>4, AddRequestShape
  <2> QED BY <1>0, <1>1, <1>3, <1>4, <2>4, <2>5, <2>6 DEF Shape, ResolveOriginal, AtOriginal
<1>5. CASE ResolveArgument
  <2>1. CanLookUp(ArgumentNode.name) /\ AddRequest(ArgumentNode, Taken)
        /\ UNCHANGED resolveVars /\ next' = next /\ AtArgument
    BY <1>5 DEF ResolveArgument, Taken
  <2>2. ArgumentNode \in Request /\ ArgumentNode.requester \in {<<>>} \cup visited
    BY <1>0, <2>1, ArgumentNodeType, TopType DEF AtArgument
  <2>3. StackOK(Taken)
    BY <1>0, <2>1, TakenType
  <2>4. (visited \subseteq Known /\ StackOK(stack) /\ RequestsOK)'
    BY <1>0, <2>1, <2>2, <2>3, AddRequestShape
  <2> QED BY <1>0, <1>1, <1>3, <2>1, <2>4 DEF Shape, Waiting, AtArgument
<1>6. CASE ReturnFromFixture
  <2>1. UNCHANGED <<resolveVars, next, requests, visited>> /\ Resolved
    BY <1>6 DEF ReturnFromFixture, Waiting
  <2>2. StackOK(stack')
    BY <1>0, <1>6, ReturnType
  <2>3. StackOK(stack)'
    BY <2>1, <2>2 DEF StackOK, Arguments, At, resolveVars
  <2>4. Known' = Known /\ RequestsOK'
    BY <2>1 DEF Known, resolveVars, Shape, RequestsOK
  <2> QED BY <1>0, <1>1, <1>3, <2>1, <2>3, <2>4 DEF Shape
<1>7. CASE UNCHANGED allVars
  <2>1. UNCHANGED <<next, stack, requests, visited>> /\ UNCHANGED resolveVars
    BY <1>7 DEF allVars, graphVars
  <2> QED BY <1>0, <1>1, <2>1 DEF Shape, StackOK, RequestsOK, Waiting, Known, Arguments,
             At, Resolved, resolveVars
<1> QED BY <1>2, <1>4, <1>5, <1>6, <1>7 DEF GraphNext

\* What the traversal looks up is in the dictionary, whatever it follows.
THEOREM GraphInvariance == GraphSpec => []GraphInv
<1>1. GraphInv /\ [GraphNext \/ (Built /\ UNCHANGED allVars)]_allVars => GraphInv'
  BY GraphInvNext
<1> QED BY <1>1, GraphInvInit, PTL DEF GraphSpec

\* Every variable of the traversal keeps its type, for any test and any fixtures.
THEOREM GraphTypeCorrect == GraphSpec => []GraphTypeOK
<1>1. GraphInv => GraphTypeOK
  <2> SUFFICES ASSUME GraphInv PROVE GraphTypeOK
    OBVIOUS
  <2> USE DEF GraphInv, Shape
  <2>1. \A f \in visited : f[1] \in DOMAIN available /\ f[2] \in DOMAIN available[f[1]]
    BY DEF Known
  <2>2. ASSUME NEW k \in DOMAIN stack
        PROVE  /\ stack[k].fixture \in visited
               /\ stack[k].argument \in 1..(Len(Arguments(stack[k].fixture)) + 1)
               /\ stack[k].bound \in Names
    <3>1. stack[k] \in Frame
      BY DEF StackOK
    <3> QED BY <3>1 DEF StackOK, Frame
  <2>3. ASSUME NEW k \in DOMAIN requests
        PROVE  /\ requests[k].name \in Names
               /\ requests[k].scope \in Scopes \cup {"function"}
               /\ requests[k].requester \in {<<>>} \cup visited
               /\ requests[k].resolver \in {Missing, Param} \cup visited
    <3>1. requests[k] \in Request
      BY DEF RequestsOK
    <3> QED BY <3>1 DEF RequestsOK, Request
  <2> QED BY <2>1, <2>2, <2>3 DEF GraphTypeOK, ResolveInv
<1> QED BY <1>1, GraphInvariance, PTL

\* RequestGraphBuilder never asks available_fixtures for a name that it does not have:
\* no KeyError, whatever the fixtures request, however they override each other.
THEOREM NoKeyErrorCorrect == GraphSpec => []NoKeyError
<1>1. GraphInv => NoKeyError
  <2> SUFFICES ASSUME GraphInv PROVE NoKeyError
    OBVIOUS
  <2> USE DEF GraphInv
  <2>0. ResolveTypeOK
    BY DEF ResolveInv
  <2>1. ASSUME Resolved PROVE ClosedSet(DOMAIN available)
    <3>1. Elements(queue) = {} /\ Extended = {}
      BY <2>1 DEF Resolved, Extended, Elements
    <3> QED BY <3>1 DEF ResolveInv, NothingLost, ClosedSet
  <2>2. ASSUME AtOriginal PROVE CanLookUp(OriginalRequests[next].name)
    <3>1. next \in DOMAIN OriginalRequests
      BY <2>0, <2>2, OriginalType DEF AtOriginal, Shape
    <3> QED BY <2>0, <2>1, <2>2, <3>1, OriginalType DEF AtOriginal, CanLookUp, ClosedSet
  <2>3. ASSUME AtArgument PROVE CanLookUp(ArgumentNode.name)
    <3>1. Resolved /\ Top.fixture[1] \in DOMAIN available
      BY <2>0, <2>3, TopType DEF AtArgument, Waiting, Known
    <3>2. ArgumentNode.name \in ArgumentsOf(Top.fixture[1])
      BY <2>0, <2>3, ArgumentNodeType
    <3> QED BY <2>1, <3>1, <3>2 DEF CanLookUp, ClosedSet
  <2> QED BY <2>2, <2>3 DEF NoKeyError
<1> QED BY <1>1, GraphInvariance, PTL

-----------------------------------------------------------------------------
(* The resolved requests have no cycle.                                     *)

OnStack == {stack[k].fixture : k \in DOMAIN stack}

\* Fixtures all of whose arguments are resolved.
Finished == visited \ OnStack

\* The k-th fixture of a name on the stack is the k-th that defines the name.
StackLevels ==
  \A k \in DOMAIN stack :
    stack[k].fixture[2] = Cardinality({j \in 1..k : stack[j].fixture[1] = stack[k].fixture[1]})

\* Requests lead from finished fixtures to finished ones, on the stack inwards.
FinishedStay == \A f \in Finished : \A g \in visited : Edge(f, g) => g \in Finished
StackInwards ==
  \A i, j \in DOMAIN stack : Edge(stack[i].fixture, stack[j].fixture) => i < j

DepthFirst == StackLevels /\ FinishedStay /\ StackInwards /\ ResolvedAcyclic

\* No request has anything to do with a fixture that is not visited.
LEMMA EdgesVisited ==
  ASSUME Shape, NEW f, NEW g, Edge(f, g)
  PROVE  f \in {<<>>} \cup visited /\ g \in {Missing, Param} \cup visited
BY DEF Edge, Shape, RequestsOK

\* A fixture is none of the other answers.
LEMMA KnownDistinct == Known \cap {<<>>, Missing, Param} = {}
<1>1. \A f \in Names \X Nat : Len(f) = 2
  OBVIOUS
<1>2. Len(<<>>) = 0 /\ Len(Missing) = 0 /\ Len(Param) = 1
  BY DEF Missing, Param
<1> QED BY <1>1, <1>2 DEF Known

\* Neither is what was visited.
LEMMA VisitedDistinct ==
  ASSUME Shape
  PROVE  visited \cap {<<>>, Missing, Param} = {}
BY KnownDistinct DEF Shape

\* The fixture that answers a request is not among those being followed.
LEMMA AnswerNotOnStack ==
  ASSUME Shape, StackLevels, NEW name
  PROVE  <<name, Level(name)>> \notin OnStack
<1> SUFFICES ASSUME NEW k \in DOMAIN stack, stack[k].fixture = <<name, Level(name)>>
             PROVE  FALSE
  BY DEF OnStack
<1> DEFINE all == {j \in DOMAIN stack : stack[j].fixture[1] = name}
           upto == {j \in 1..k : stack[j].fixture[1] = name}
<1>1. IsFiniteSet(all) /\ Cardinality(all) \in Nat /\ Level(name) = Cardinality(all) + 1
  BY LevelType, FS_CardinalityType DEF Level
<1>2. upto \subseteq all
  BY DEF Shape, StackOK
<1>3. Cardinality(upto) <= Cardinality(all) /\ Cardinality(upto) \in Nat
  BY <1>1, <1>2, FS_Subset, FS_CardinalityType
<1>4. Level(name) = Cardinality(upto)
  BY DEF StackLevels
<1> QED BY <1>1, <1>3, <1>4

\* Recording a request of the innermost fixture, or of the test when there is none.
LEMMA AddRequestEdges ==
  ASSUME NEW node \in Request, NEW rest, requests \in Seq(Request), AddRequest(node, rest),
         Resolver(node.name) \in {Missing, Param} \cup (Names \X Nat),
         NEW f, NEW g
  PROVE  Edge(f, g)' <=> Edge(f, g) \/ (f = node.requester /\ g = Resolver(node.name))
<1> DEFINE resolver == Resolver(node.name)
           new == [node EXCEPT !.resolver = resolver]
<1>1. new \in Request /\ new.requester = node.requester /\ new.resolver = resolver
  BY DEF Request
<1>2. requests' = Append(requests, new)
  BY DEF AddRequest
<1> HIDE DEF new, resolver
<1>3. /\ Len(requests) \in Nat /\ DOMAIN requests = 1..Len(requests)
      /\ DOMAIN requests' = 1..(Len(requests) + 1)
      /\ \A k \in DOMAIN requests : requests'[k] = requests[k]
      /\ requests'[Len(requests) + 1] = new
  BY <1>1, <1>2
<1>4. (\E k \in DOMAIN requests' :
         requests'[k].requester = f /\ requests'[k].resolver = g)
      <=> Edge(f, g) \/ (new.requester = f /\ new.resolver = g)
  BY <1>3 DEF Edge
<1> QED BY <1>1, <1>4 DEF Edge, resolver

\* Following the answer of a request keeps the order.
LEMMA AddRequestDepthFirst ==
  ASSUME ResolveTypeOK, Shape, DepthFirst, UNCHANGED resolveVars,
         NEW node \in Request, CanLookUp(node.name),
         node.requester = <<>> \/ (stack # <<>> /\ node.requester = Top.fixture),
         NEW rest, StackOK(rest), Len(rest) = Len(stack),
         \A k \in DOMAIN stack : rest[k].fixture = stack[k].fixture,
         AddRequest(node, rest)
  PROVE  DepthFirst'
<1> DEFINE r == Resolver(node.name)
<1>1. node.name \in Names /\ requests \in Seq(Request)
      /\ stack \in Seq(Frame) /\ rest \in Seq(Frame)
  BY DEF Request, Shape, RequestsOK, StackOK
<1>2. \/ r \in {Missing, Param} /\ ~ IsFixture(r)
      \/ r = <<node.name, Level(node.name)>> /\ IsFixture(r) /\ r \in Known
  BY <1>1, ResolverType
<1>3. r \in {Missing, Param} \cup (Names \X Nat)
  BY <1>2 DEF Known
<1>4. \A f, g : Edge(f, g)' <=> Edge(f, g) \/ (f = node.requester /\ g = r)
  BY <1>1, <1>3, AddRequestEdges
<1>5. r \notin OnStack
  <2>1. CASE r = <<node.name, Level(node.name)>>
    BY <2>1, AnswerNotOnStack DEF DepthFirst
  <2>2. CASE r \in {Missing, Param}
    BY <2>2, VisitedDistinct DEF OnStack, Shape, StackOK
  <2> QED BY <1>2, <2>1, <2>2
<1>6. node.requester = <<>> \/ (Len(stack) \in DOMAIN stack
                                /\ node.requester = stack[Len(stack)].fixture)
  BY TopType DEF Top
<1>7. \A k \in DOMAIN stack : stack[k].fixture \in visited
  BY DEF Shape, StackOK
<1> HIDE DEF r
<1>8. CASE ~ (IsFixture(r) /\ r \notin visited)
  <2>1. visited' = visited /\ stack' = rest
    BY <1>8 DEF AddRequest, r
  <2>2. /\ DOMAIN stack' = DOMAIN stack /\ OnStack' = OnStack /\ Finished' = Finished
        /\ \A k \in DOMAIN stack : stack'[k].fixture = stack[k].fixture
    BY <1>1, <2>1 DEF OnStack, Finished
  <2>3. StackLevels'
    <3> SUFFICES ASSUME NEW k \in DOMAIN stack
                 PROVE  stack'[k].fixture[2] =
                          Cardinality({j \in 1..k : stack'[j].fixture[1] = stack'[k].fixture[1]})
      BY <2>2 DEF StackLevels
    <3>1. 1..k \subseteq DOMAIN stack
      BY <1>1
    <3>2. {j \in 1..k : stack'[j].fixture[1] = stack'[k].fixture[1]}
            = {j \in 1..k : stack[j].fixture[1] = stack[k].fixture[1]}
      BY <2>2, <3>1
    <3> QED BY <2>2, <3>2 DEF DepthFirst, StackLevels
  <2>4. ASSUME NEW f \in visited, f = node.requester PROVE f \in OnStack
    BY <1>6, <2>4, VisitedDistinct DEF OnStack
  <2>5. FinishedStay'
    BY <1>4, <2>1, <2>2, <2>4 DEF DepthFirst, FinishedStay, Finished
  <2>6. StackInwards'
    BY <1>4, <1>5, <2>1, <2>2 DEF DepthFirst, StackInwards, OnStack
  <2>7. ResolvedAcyclic'
    <3> SUFFICES ASSUME NEW C \in SUBSET visited, C # {}
                 PROVE  \E f \in C : \A g \in C : ~ Edge(f, g)'
      BY <2>1 DEF ResolvedAcyclic
    <3>1. CASE C \cap Finished # {}
      <4>1. PICK f \in C \cap Finished : \A g \in C \cap Finished : ~ Edge(f, g)
        BY <3>1 DEF DepthFirst, ResolvedAcyclic
      <4>2. \A g \in C : ~ Edge(f, g)
        BY <4>1 DEF DepthFirst, FinishedStay
      <4>3. f # node.requester
        BY <2>4, <4>1 DEF Finished
      <4> QED BY <1>4, <4>1, <4>2, <4>3
    <3>2. CASE C \cap Finished = {}
      <4>1. C \subseteq OnStack
        BY <3>2 DEF Finished
      <4>2. r \notin C
        BY <1>5, <4>1
      <4> QED BY <1>4, <4>2 DEF DepthFirst, ResolvedAcyclic
    <3> QED BY <3>1, <3>2
  <2> QED BY <2>3, <2>5, <2>6, <2>7 DEF DepthFirst
<1>9. CASE IsFixture(r) /\ r \notin visited
  <2> DEFINE frame == [fixture |-> r, argument |-> 1, bound |-> node.name]
  <2>1. visited' = visited \cup {r} /\ stack' = Append(rest, frame)
    BY <1>9 DEF AddRequest, r
  <2>2. r = <<node.name, Level(node.name)>> /\ r \in Known
    BY <1>2, <1>9
  <2>3. frame \in Frame /\ frame.fixture = r
    BY <1>1, <2>2 DEF Frame, Known
  <2> HIDE DEF frame
  <2>4. /\ Len(stack) \in Nat /\ DOMAIN stack = 1..Len(stack)
        /\ DOMAIN stack' = 1..(Len(stack) + 1)
        /\ \A k \in DOMAIN stack : stack'[k].fixture = stack[k].fixture
        /\ stack'[Len(stack) + 1].fixture = r
    BY <1>1, <2>1, <2>3
  <2>5. OnStack' = OnStack \cup {r} /\ Finished' = Finished
    <3>1. OnStack' = OnStack \cup {r}
      BY <2>4 DEF OnStack
    <3> QED BY <1>9, <2>1, <3>1 DEF Finished
  <2>6. \A f : ~ Edge(f, r) /\ ~ Edge(r, f)
    <3>1. r \notin {<<>>, Missing, Param}
      BY <2>2, KnownDistinct
    <3> QED BY <1>9, <3>1, EdgesVisited
  <2>7. StackLevels'
    <3> SUFFICES ASSUME NEW k \in 1..(Len(stack) + 1)
                 PROVE  stack'[k].fixture[2] =
                          Cardinality({j \in 1..k : stack'[j].fixture[1] = stack'[k].fixture[1]})
      BY <2>4 DEF StackLevels
    <3>1. CASE k \in DOMAIN stack
      <4>1. 1..k \subseteq DOMAIN stack
        BY <2>4, <3>1
      <4>2. {j \in 1..k : stack'[j].fixture[1] = stack'[k].fixture[1]}
              = {j \in 1..k : stack[j].fixture[1] = stack[k].fixture[1]}
        BY <2>4, <3>1, <4>1
      <4> QED BY <2>4, <3>1, <4>2 DEF DepthFirst, StackLevels
    <3>2. CASE k = Len(stack) + 1
      <4> DEFINE before == {j \in DOMAIN stack : stack[j].fixture[1] = node.name}
      <4>1. {j \in 1..k : stack'[j].fixture[1] = stack'[k].fixture[1]} = before \cup {k}
        <5>1. r[1] = node.name
          BY <2>2
        <5> QED BY <2>4, <3>2, <5>1
      <4>2. k \notin before /\ IsFiniteSet(before)
        <5>1. k \notin before
          BY <2>4, <3>2
        <5>2. IsFiniteSet(before)
          BY LevelType
        <5> QED BY <5>1, <5>2
      <4>3. Cardinality(before \cup {k}) = Cardinality(before) + 1
        BY <4>2, FS_AddElement
      <4>4. stack'[k].fixture[2] = Cardinality(before) + 1
        BY <2>2, <2>4, <3>2 DEF Level
      <4> QED BY <4>1, <4>3, <4>4
    <3> QED BY <2>4, <3>1, <3>2
  <2>8. ASSUME NEW f \in visited, f = node.requester PROVE f \in OnStack
    BY <1>6, <2>8, VisitedDistinct DEF OnStack
  <2>9. FinishedStay'
    BY <1>4, <2>1, <2>5, <2>6, <2>8 DEF DepthFirst, FinishedStay, Finished
  <2>10. StackInwards'
    <3>1. ASSUME NEW i \in 1..(Len(stack) + 1), NEW j \in 1..(Len(stack) + 1),
                 NEW f, f = stack'[i].fixture, NEW g, g = stack'[j].fixture, Edge(f, g)'
          PROVE  i < j
      <4>1. Edge(f, g) \/ (f = node.requester /\ g = r)
        BY <1>4, <3>1
      <4>2. CASE Edge(f, g)
        <5>1. f # r /\ g # r
          BY <2>6, <4>2
        <5>2. i \in DOMAIN stack /\ j \in DOMAIN stack
          BY <2>4, <3>1, <5>1
        <5> QED BY <2>4, <3>1, <4>2, <5>2 DEF DepthFirst, StackInwards
      <4>3. CASE f = node.requester /\ g = r
        <5>1. f \in {<<>>} \cup visited /\ f # r
          BY <1>6, <1>7, <1>9, <2>2, <4>3, KnownDistinct
        <5>2. i \in DOMAIN stack
          BY <2>4, <3>1, <5>1
        <5>3. j \notin DOMAIN stack
          BY <1>5, <2>4, <3>1, <4>3 DEF OnStack
        <5> QED BY <2>4, <5>2, <5>3
      <4> QED BY <4>1, <4>2, <4>3
    <3>2. \A i, j \in 1..(Len(stack) + 1) : \A f, g :
            (f = stack'[i].fixture /\ g = stack'[j].fixture /\ Edge(f, g)') => i < j
      BY <3>1
    <3> QED BY <2>4, <3>2 DEF StackInwards, Edge
  <2>11. ResolvedAcyclic'
    <3> SUFFICES ASSUME NEW C \in SUBSET (visited \cup {r}), C # {}
                 PROVE  \E f \in C : \A g \in C : ~ Edge(f, g)'
      BY <2>1 DEF ResolvedAcyclic
    <3>1. r # node.requester
      BY <1>6, <1>7, <1>9, <2>2, KnownDistinct
    <3>2. CASE r \in C
      BY <1>4, <2>6, <3>1, <3>2
    <3>3. CASE r \notin C
      BY <1>4, <3>3 DEF DepthFirst, ResolvedAcyclic
    <3> QED BY <3>2, <3>3
  <2> QED BY <2>7, <2>9, <2>10, <2>11 DEF DepthFirst
<1> QED BY <1>8, <1>9

\* Nothing is followed at the start.
LEMMA DepthFirstInit == GraphInit => DepthFirst
BY DEF GraphInit, DepthFirst, StackLevels, FinishedStay, StackInwards, ResolvedAcyclic,
       Finished

\* Every step keeps the order.
LEMMA DepthFirstNext ==
  GraphInv /\ DepthFirst /\ [GraphNext]_allVars => DepthFirst'
<1> SUFFICES ASSUME GraphInv, DepthFirst, [GraphNext]_allVars PROVE DepthFirst'
  OBVIOUS
<1>0. ResolveTypeOK /\ Shape
  BY DEF GraphInv, ResolveInv
<1>1. CASE UNCHANGED graphVars
  <2>1. UNCHANGED <<stack, requests, visited>>
    BY <1>1 DEF graphVars
  <2> QED BY <2>1 DEF DepthFirst, StackLevels, FinishedStay, StackInwards, ResolvedAcyclic,
             Finished, OnStack, Edge
<1>2. CASE ResolveOriginal
  <2> DEFINE node == OriginalRequests[next]
  <2>1. next \in DOMAIN OriginalRequests
    BY <1>0, <1>2, OriginalType DEF ResolveOriginal, AtOriginal, Shape
  <2>2. node \in Request /\ node.requester = <<>>
    BY <1>0, <2>1, OriginalType
  <2>3. StackOK(<<>>)
    BY DEF StackOK
  <2>4. CanLookUp(node.name) /\ AddRequest(node, <<>>) /\ UNCHANGED resolveVars
        /\ stack = <<>>
    BY <1>2 DEF ResolveOriginal, AtOriginal
  <2> HIDE DEF node
  <2> QED BY <1>0, <2>2, <2>3, <2>4, AddRequestDepthFirst
<1>3. CASE ResolveArgument
  <2>1. CanLookUp(ArgumentNode.name) /\ AddRequest(ArgumentNode, Taken)
        /\ UNCHANGED resolveVars /\ AtArgument /\ stack # <<>>
    BY <1>3 DEF ResolveArgument, Taken, AtArgument
  <2>2. ArgumentNode \in Request /\ ArgumentNode.requester = Top.fixture
    BY <1>0, <2>1, ArgumentNodeType
  <2>3. /\ StackOK(Taken) /\ Len(Taken) = Len(stack)
        /\ \A k \in DOMAIN stack : Taken[k].fixture = stack[k].fixture
    BY <1>0, <2>1, TakenType
  <2> QED BY <1>0, <2>1, <2>2, <2>3, AddRequestDepthFirst
<1>4. CASE ReturnFromFixture
  <2>1. UNCHANGED <<requests, visited>> /\ stack # <<>>
    BY <1>4 DEF ReturnFromFixture
  <2>2. /\ StackOK(stack') /\ Len(stack') = Len(stack) - 1
        /\ \A k \in DOMAIN stack' : k \in DOMAIN stack /\ stack'[k] = stack[k]
    BY <1>0, <1>4, ReturnType
  <2>3. /\ Len(stack) \in Nat /\ DOMAIN stack = 1..Len(stack)
        /\ DOMAIN stack' = 1..(Len(stack) - 1) /\ Len(stack) \in DOMAIN stack
    BY <1>0, <2>1, <2>2, TopType DEF Shape, StackOK
  <2>4. Finished \subseteq Finished' /\ Finished' \subseteq Finished \cup {Top.fixture}
    <3>1. OnStack' \subseteq OnStack
      BY <2>2 DEF OnStack
    <3>2. OnStack \subseteq OnStack' \cup {Top.fixture}
      <4> SUFFICES ASSUME NEW k \in 1..Len(stack), k # Len(stack)
                   PROVE  stack[k].fixture \in OnStack'
        BY <2>3 DEF OnStack, Top
      <4>1. k \in DOMAIN stack' /\ stack'[k] = stack[k]
        BY <2>2, <2>3
      <4> QED BY <4>1 DEF OnStack
    <3> QED BY <2>1, <3>1, <3>2 DEF Finished
  <2>5. StackLevels'
    <3> SUFFICES ASSUME NEW k \in DOMAIN stack'
                 PROVE  stack'[k].fixture[2] =
                          Cardinality({j \in 1..k : stack'[j].fixture[1] = stack'[k].fixture[1]})
      BY DEF StackLevels
    <3>1. 1..k \subseteq DOMAIN stack' /\ k \in DOMAIN stack
      BY <2>2, <2>3
    <3>2. {j \in 1..k : stack'[j].fixture[1] = stack'[k].fixture[1]}
            = {j \in 1..k : stack[j].fixture[1] = stack[k].fixture[1]}
      BY <2>2, <3>1
    <3> QED BY <2>2, <3>1, <3>2 DEF DepthFirst, StackLevels
  <2>6. \A f, g : Edge(f, g)' <=> Edge(f, g)
    BY <2>1 DEF Edge
  <2>7. ASSUME NEW g \in visited, Edge(Top.fixture, g) PROVE g \in Finished
    <3>1. \A k \in DOMAIN stack : stack[k].fixture # g
      BY <2>3, <2>7 DEF DepthFirst, StackInwards, Top
    <3> QED BY <2>7, <3>1 DEF Finished, OnStack
  <2>8. FinishedStay'
    BY <2>1, <2>4, <2>6, <2>7 DEF DepthFirst, FinishedStay
  <2>9. StackInwards'
    BY <2>1, <2>2 DEF DepthFirst, StackInwards, Edge
  <2>10. ResolvedAcyclic'
    BY <2>1, <2>6 DEF DepthFirst, ResolvedAcyclic
  <2> QED BY <2>5, <2>8, <2>9, <2>10 DEF DepthFirst
<1> QED BY <1>1, <1>2, <1>3, <1>4 DEF GraphNext, allVars

\* It holds throughout.
LEMMA DepthFirstInvariance == GraphSpec => []DepthFirst
<1>1. GraphInit => DepthFirst
  BY DepthFirstInit
<1>2. GraphInv /\ DepthFirst /\ [GraphNext \/ (Built /\ UNCHANGED allVars)]_allVars
        => DepthFirst'
  BY DepthFirstNext
<1> QED BY <1>1, <1>2, GraphInvariance, PTL DEF GraphSpec

\* The requests and what answers them have no cycle, for any fixtures, also those that
\* request each other or the one they override: no fixture needs itself.
THEOREM ResolvedAcyclicCorrect == GraphSpec => []ResolvedAcyclic
<1>1. DepthFirst => ResolvedAcyclic
  BY DEF DepthFirst
<1> QED BY <1>1, DepthFirstInvariance, PTL

-----------------------------------------------------------------------------
(* The graph once it is built.                                              *)

\* The requests of a fixture, or of the test.
RequestsOf(f) == {k \in DOMAIN requests : requests[k].requester = f}
Answers == {requests[k].resolver : k \in DOMAIN requests}

-----------------------------------------------------------------------------
(* The inductive invariant: what is being followed has as many requests as were counted. *)

Distinct == \A i, j \in DOMAIN stack : stack[i].fixture = stack[j].fixture => i = j

Counted ==
  /\ \A k \in DOMAIN stack : Cardinality(RequestsOf(stack[k].fixture)) = stack[k].argument - 1
  /\ \A f \in Finished : Cardinality(RequestsOf(f)) = Len(Arguments(f))
  /\ Cardinality(RequestsOf(<<>>)) = next - 1

CountInv == Distinct /\ Counted /\ Answers \ {Missing, Param} = visited

\* One more request is counted for its requester and nobody else.
LEMMA AddRequestCounts ==
  ASSUME NEW node \in Request, NEW rest, requests \in Seq(Request), AddRequest(node, rest),
         Resolver(node.name) \in {Missing, Param} \cup (Names \X Nat)
  PROVE  /\ Answers' = Answers \cup {Resolver(node.name)}
         /\ \A f : /\ Cardinality(RequestsOf(f)) \in Nat
                   /\ Cardinality(RequestsOf(f))' =
                        Cardinality(RequestsOf(f)) + (IF f = node.requester THEN 1 ELSE 0)
<1> DEFINE resolver == Resolver(node.name)
           new == [node EXCEPT !.resolver = resolver]
<1>1. new \in Request /\ new.requester = node.requester /\ new.resolver = resolver
  BY DEF Request
<1>2. requests' = Append(requests, new)
  BY DEF AddRequest
<1> HIDE DEF new, resolver
<1>3. /\ Len(requests) \in Nat /\ DOMAIN requests = 1..Len(requests)
      /\ DOMAIN requests' = 1..(Len(requests) + 1)
      /\ \A k \in DOMAIN requests : requests'[k] = requests[k]
      /\ requests'[Len(requests) + 1] = new
  BY <1>1, <1>2
<1>4. Answers' = Answers \cup {resolver}
  <2>1. Answers' = {requests'[k].resolver : k \in 1..(Len(requests) + 1)}
    BY <1>3 DEF Answers
  <2>2. 1..(Len(requests) + 1) = DOMAIN requests \cup {Len(requests) + 1}
    BY <1>3
  <2> QED BY <1>1, <1>3, <2>1, <2>2 DEF Answers
<1>5. ASSUME NEW f
      PROVE  /\ Cardinality(RequestsOf(f)) \in Nat
             /\ Cardinality(RequestsOf(f))' =
                  Cardinality(RequestsOf(f)) + (IF f = node.requester THEN 1 ELSE 0)
  <2>1. IsFiniteSet(RequestsOf(f)) /\ Len(requests) + 1 \notin RequestsOf(f)
    <3>1. IsFiniteSet(DOMAIN requests)
      BY <1>3, FS_Interval
    <3> QED BY <1>3, <3>1, FS_Subset DEF RequestsOf
  <2>2. Cardinality(RequestsOf(f)) \in Nat
    BY <2>1, FS_CardinalityType
  <2>3. CASE f = node.requester
    <3>1. RequestsOf(f)' = RequestsOf(f) \cup {Len(requests) + 1}
      BY <1>1, <1>3, <2>3 DEF RequestsOf
    <3>2. Cardinality(RequestsOf(f) \cup {Len(requests) + 1}) = Cardinality(RequestsOf(f)) + 1
      BY <2>1, FS_AddElement
    <3> QED BY <2>2, <2>3, <3>1, <3>2
  <2>4. CASE f # node.requester
    <3>1. RequestsOf(f)' = RequestsOf(f)
      BY <1>1, <1>3, <2>4 DEF RequestsOf
    <3> QED BY <2>2, <2>4, <3>1
  <2> QED BY <2>2, <2>3, <2>4
<1> QED BY <1>4, <1>5 DEF resolver

\* Who is not visited has requested nothing.
LEMMA NoRequests ==
  ASSUME Shape, NEW f, f \notin {<<>>} \cup visited
  PROVE  RequestsOf(f) = {} /\ Cardinality(RequestsOf(f)) = 0
<1>1. RequestsOf(f) = {}
  BY DEF RequestsOf, Shape, RequestsOK
<1> QED BY <1>1, FS_EmptySet

\* Recording a request that is counted keeps the counts.
LEMMA AddRequestCountInv ==
  ASSUME ResolveTypeOK, Shape, CountInv, UNCHANGED resolveVars,
         NEW node \in Request, CanLookUp(node.name),
         node.requester \in {<<>>} \cup OnStack,
         NEW rest \in Seq(Frame), Len(rest) = Len(stack),
         \A k \in DOMAIN stack :
           /\ rest[k].fixture = stack[k].fixture
           /\ rest[k].argument =
                stack[k].argument + (IF stack[k].fixture = node.requester THEN 1 ELSE 0),
         next' = next + (IF node.requester = <<>> THEN 1 ELSE 0),
         AddRequest(node, rest)
  PROVE  CountInv'
<1> DEFINE resolver == Resolver(node.name)
<1>1. /\ stack \in Seq(Frame) /\ Len(stack) \in Nat /\ DOMAIN stack = 1..Len(stack)
      /\ DOMAIN rest = DOMAIN stack /\ next \in Nat
      /\ OnStack \subseteq visited /\ requests \in Seq(Request)
      /\ visited \cap {<<>>, Missing, Param} = {}
  BY VisitedDistinct, OriginalType DEF Shape, StackOK, RequestsOK, OnStack
<1>2. \/ resolver \in {Missing, Param} /\ ~ IsFixture(resolver)
      \/ IsFixture(resolver) /\ resolver \in Known
  BY ResolverType DEF Request
<1>3. /\ Answers' = Answers \cup {resolver}
      /\ \A f : /\ Cardinality(RequestsOf(f)) \in Nat
                /\ Cardinality(RequestsOf(f))' =
                     Cardinality(RequestsOf(f)) + (IF f = node.requester THEN 1 ELSE 0)
  <2>1. resolver \in {Missing, Param} \cup (Names \X Nat)
    BY <1>2 DEF Known
  <2> QED BY <1>1, <2>1, AddRequestCounts
<1>4. resolver \in Known => resolver \notin {<<>>, Missing, Param}
  BY KnownDistinct
<1>5. Cardinality(RequestsOf(<<>>))' = next' - 1
  BY <1>1, <1>3 DEF CountInv, Counted
<1>6. ASSUME NEW k \in DOMAIN stack
      PROVE  \A f \in {stack[k].fixture} :
               Cardinality(RequestsOf(f))' = rest[k].argument - 1
  <2>1. stack[k].argument \in Nat
    BY DEF Shape, StackOK, Frame
  <2>2. Cardinality(RequestsOf(stack[k].fixture)) = stack[k].argument - 1
    BY DEF CountInv, Counted
  <2>3. \A f \in {stack[k].fixture} :
          Cardinality(RequestsOf(f))' =
            stack[k].argument - 1 + (IF stack[k].fixture = node.requester THEN 1 ELSE 0)
    BY <1>3, <2>2
  <2>4. rest[k].argument =
          stack[k].argument + (IF stack[k].fixture = node.requester THEN 1 ELSE 0)
    OBVIOUS
  <2> QED BY <2>1, <2>3, <2>4
<1>7. \A f \in Finished : Cardinality(RequestsOf(f))' = Len(Arguments(f))
  BY <1>1, <1>3 DEF CountInv, Counted, Finished
<1>8. \A f : Arguments(f)' = Arguments(f)
  BY DEF Arguments, At, resolveVars
<1> HIDE DEF resolver
<1>9. CASE IsFixture(resolver) /\ resolver \notin visited
  <2> DEFINE frame == [fixture |-> resolver, argument |-> 1, bound |-> node.name]
  <2>1. stack' = Append(rest, frame) /\ visited' = visited \cup {resolver}
    BY <1>9 DEF AddRequest, resolver
  <2>2. frame \in Frame /\ frame.fixture = resolver /\ frame.argument = 1
    BY <1>2, <1>4, <1>9 DEF Frame, Known, Request
  <2> HIDE DEF frame
  <2>3. /\ DOMAIN stack' = 1..(Len(stack) + 1)
        /\ \A k \in DOMAIN stack : stack'[k] = rest[k]
        /\ stack'[Len(stack) + 1] = frame
    BY <1>1, <2>1, <2>2
  <2>4. \A k \in DOMAIN stack : stack[k].fixture # resolver
    BY <1>1, <1>9 DEF OnStack
  <2>5. Distinct'
    BY <1>1, <2>2, <2>3, <2>4 DEF CountInv, Distinct
  <2>6. OnStack' = OnStack \cup {resolver}
    <3>1. OnStack' = {stack'[k].fixture : k \in 1..(Len(stack) + 1)}
      BY <2>3 DEF OnStack
    <3>2. 1..(Len(stack) + 1) = DOMAIN stack \cup {Len(stack) + 1}
      BY <1>1
    <3> QED BY <2>2, <2>3, <3>1, <3>2 DEF OnStack
  <2>7. Finished' = Finished
    BY <1>9, <2>1, <2>6 DEF Finished
  <2>8. Cardinality(RequestsOf(resolver)) = 0 /\ resolver # node.requester
    BY <1>1, <1>2, <1>4, <1>9, NoRequests
  <2>9. ASSUME NEW k \in DOMAIN stack'
        PROVE  \A f \in {stack'[k].fixture} :
                 Cardinality(RequestsOf(f))' = stack'[k].argument - 1
    <3>1. CASE k \in DOMAIN stack
      BY <1>6, <2>3, <3>1
    <3>2. CASE k = Len(stack) + 1
      BY <1>3, <2>2, <2>3, <2>8, <3>2
    <3> QED BY <1>1, <2>3, <3>1, <3>2
  <2>10. Counted'
    BY <1>5, <1>7, <1>8, <2>7, <2>9 DEF Counted
  <2>11. (Answers \ {Missing, Param} = visited)'
    BY <1>2, <1>3, <1>4, <1>9, <2>1 DEF CountInv
  <2> QED BY <2>5, <2>10, <2>11 DEF CountInv
<1>10. CASE ~ (IsFixture(resolver) /\ resolver \notin visited)
  <2>1. stack' = rest /\ visited' = visited
    BY <1>10 DEF AddRequest, resolver
  <2>2. Distinct'
    BY <1>1, <2>1 DEF CountInv, Distinct
  <2>3. OnStack' = OnStack /\ Finished' = Finished
    BY <1>1, <2>1 DEF OnStack, Finished
  <2>4. \A k \in DOMAIN stack' : \A f \in {stack'[k].fixture} :
          Cardinality(RequestsOf(f))' = stack'[k].argument - 1
    BY <1>1, <1>6, <2>1
  <2>5. Counted'
    BY <1>5, <1>7, <1>8, <2>3, <2>4 DEF Counted
  <2>6. (Answers \ {Missing, Param} = visited)'
    BY <1>2, <1>3, <1>10, <2>1 DEF CountInv
  <2> QED BY <2>2, <2>5, <2>6 DEF CountInv
<1> QED BY <1>9, <1>10

-----------------------------------------------------------------------------

\* Nothing is followed and nothing counted at the start.
LEMMA CountInit == GraphInit => CountInv
<1> SUFFICES ASSUME GraphInit PROVE CountInv
  OBVIOUS
<1>1. requests = <<>> /\ stack = <<>> /\ visited = {} /\ next = 1
  BY DEF GraphInit
<1>2. RequestsOf(<<>>) = {} /\ Answers = {}
  BY <1>1 DEF RequestsOf, Answers
<1> QED BY <1>1, <1>2, FS_EmptySet DEF CountInv, Distinct, Counted, Finished

\* Every step of the traversal keeps the counts.
LEMMA CountNext == GraphInv /\ CountInv /\ [GraphNext]_allVars => CountInv'
<1> SUFFICES ASSUME GraphInv, CountInv, [GraphNext]_allVars PROVE CountInv'
  OBVIOUS
<1>0. ResolveTypeOK /\ Shape
  BY DEF GraphInv, ResolveInv
<1>1. CASE ResolveNext /\ UNCHANGED graphVars
  <2>1. stack = <<>> /\ requests = <<>> /\ visited = {} /\ next = 1
    BY <1>0, <1>1, NoMoreResolving DEF GraphInv, Waiting
  <2>2. /\ stack' = <<>> /\ requests' = <<>> /\ visited' = {} /\ next' = 1
    BY <1>1, <2>1 DEF graphVars
  <2>3. (RequestsOf(<<>>) = {} /\ Answers = {})'
    BY <2>2 DEF RequestsOf, Answers
  <2>4. Cardinality({}) = 0
    BY FS_EmptySet
  <2>5. Distinct'
    BY <2>2 DEF Distinct
  <2>6. Finished' = {}
    BY <2>2 DEF Finished
  <2>7. Cardinality(RequestsOf(<<>>))' = 0
    BY <2>3, <2>4
  <2>8. Counted'
    BY <2>2, <2>6, <2>7 DEF Counted
  <2>9. (Answers \ {Missing, Param} = visited)'
    BY <2>2, <2>3
  <2> QED BY <2>5, <2>8, <2>9 DEF CountInv
<1>2. CASE ResolveOriginal
  <2> DEFINE node == OriginalRequests[next]
  <2>1. next \in DOMAIN OriginalRequests
    BY <1>0, <1>2, OriginalType DEF ResolveOriginal, AtOriginal, Shape
  <2>2. node \in Request /\ node.requester = <<>>
    BY <1>0, <2>1, OriginalType
  <2>3. /\ CanLookUp(node.name) /\ AddRequest(node, <<>>) /\ UNCHANGED resolveVars
        /\ stack = <<>> /\ next' = next + 1
    BY <1>2 DEF ResolveOriginal, AtOriginal
  <2>4. <<>> \in Seq(Frame) /\ DOMAIN stack = {}
    BY <2>3
  <2> HIDE DEF node
  <2> QED BY <1>0, <2>2, <2>3, <2>4, AddRequestCountInv
<1>3. CASE ResolveArgument
  <2>1. /\ CanLookUp(ArgumentNode.name) /\ AddRequest(ArgumentNode, Taken)
        /\ UNCHANGED resolveVars /\ AtArgument /\ stack # <<>> /\ next' = next
    BY <1>3 DEF ResolveArgument, Taken, AtArgument
  <2>2. ArgumentNode \in Request /\ ArgumentNode.requester = Top.fixture
    BY <1>0, <2>1, ArgumentNodeType
  <2>3. /\ Taken \in Seq(Frame) /\ Len(Taken) = Len(stack)
        /\ \A k \in DOMAIN stack : Taken[k].fixture = stack[k].fixture
    BY <1>0, <2>1, TakenType DEF StackOK
  <2>4. /\ Len(stack) \in DOMAIN stack /\ Top.fixture \in visited /\ Top.fixture # <<>>
        /\ Top = stack[Len(stack)]
    BY <1>0, <2>1, TopType, VisitedDistinct DEF Top
  <2>5. ASSUME NEW k \in DOMAIN stack
        PROVE  Taken[k].argument =
                 stack[k].argument + (IF stack[k].fixture = Top.fixture THEN 1 ELSE 0)
    <3>1. stack[k].fixture = Top.fixture <=> k = Len(stack)
      BY <2>4 DEF CountInv, Distinct
    <3>2. stack[k].argument \in Nat
      BY <1>0 DEF Shape, StackOK, Frame
    <3>3. Taken[k].argument = IF k = Len(stack) THEN Top.argument + 1 ELSE stack[k].argument
      BY <1>0 DEF Taken, Shape, StackOK
    <3> QED BY <2>4, <3>1, <3>2, <3>3
  <2>6. Top.fixture \in OnStack /\ next \in Nat
    BY <1>0, <2>4, OriginalType DEF OnStack, Shape
  <2> QED BY <1>0, <2>1, <2>2, <2>3, <2>4, <2>5, <2>6, AddRequestCountInv
<1>4. CASE ReturnFromFixture
  <2>1. UNCHANGED <<resolveVars, next, requests, visited>> /\ stack # <<>>
        /\ Top.argument > Len(Arguments(Top.fixture))
    BY <1>4 DEF ReturnFromFixture
  <2>2. /\ StackOK(stack') /\ Len(stack') = Len(stack) - 1
        /\ \A k \in DOMAIN stack' : k \in DOMAIN stack /\ stack'[k] = stack[k]
    BY <1>0, <1>4, ReturnType
  <2>3. /\ Len(stack) \in Nat /\ DOMAIN stack = 1..Len(stack)
        /\ DOMAIN stack' = 1..(Len(stack) - 1) /\ Len(stack) \in DOMAIN stack
    BY <1>0, <2>1, <2>2, TopType DEF Shape, StackOK
  <2>4. Finished' \subseteq Finished \cup {Top.fixture}
    <3>1. OnStack \subseteq OnStack' \cup {Top.fixture}
      <4> SUFFICES ASSUME NEW k \in 1..Len(stack), k # Len(stack)
                   PROVE  stack[k].fixture \in OnStack'
        BY <2>3 DEF OnStack, Top
      <4>1. k \in DOMAIN stack' /\ stack'[k] = stack[k]
        BY <2>2, <2>3
      <4> QED BY <4>1 DEF OnStack
    <3> QED BY <2>1, <3>1 DEF Finished
  <2>5. \A f : RequestsOf(f)' = RequestsOf(f) /\ Arguments(f)' = Arguments(f)
    BY <2>1 DEF RequestsOf, Arguments, At, resolveVars
  <2>6. \A f \in {Top.fixture} : Cardinality(RequestsOf(f)) = Len(Arguments(f))
    <3>1. Top.argument \in 1..(Len(Arguments(Top.fixture)) + 1)
          /\ Len(Arguments(Top.fixture)) \in Nat
      BY <1>0, <2>1, TopType, ArgumentsType
    <3>2. Top.argument - 1 = Len(Arguments(Top.fixture))
      BY <2>1, <3>1
    <3> QED BY <2>3, <3>2 DEF CountInv, Counted, Top
  <2>7. \A f \in Finished' : Cardinality(RequestsOf(f))' = Len(Arguments(f))'
    BY <2>4, <2>5, <2>6 DEF CountInv, Counted
  <2>8. \A k \in DOMAIN stack' : \A f \in {stack'[k].fixture} :
          Cardinality(RequestsOf(f))' = stack'[k].argument - 1
    BY <2>2, <2>5 DEF CountInv, Counted
  <2>9. Counted'
    BY <2>1, <2>5, <2>7, <2>8 DEF CountInv, Counted
  <2>10. Distinct'
    BY <2>2 DEF CountInv, Distinct
  <2>11. Answers' = Answers
    BY <2>1 DEF Answers
  <2> QED BY <2>1, <2>9, <2>10, <2>11 DEF CountInv
<1>5. CASE UNCHANGED allVars
  <2>1. UNCHANGED <<next, stack, requests, visited, available>>
    BY <1>5 DEF allVars, graphVars, resolveVars
  <2>2. \A f : RequestsOf(f)' = RequestsOf(f) /\ Arguments(f)' = Arguments(f)
    BY <2>1 DEF RequestsOf, Arguments, At
  <2>3. Answers' = Answers /\ Finished' = Finished
    BY <2>1 DEF Answers, Finished, OnStack
  <2> QED BY <2>1, <2>2, <2>3 DEF CountInv, Distinct, Counted
<1> QED BY <1>1, <1>2, <1>3, <1>4, <1>5 DEF GraphNext

\* The graph is complete when it is built: each argument of the test, each autouse fixture
\* and each argument of each fixture that answers is there once, although no fixture is
\* followed twice.
THEOREM CompleteGraphCorrect == GraphSpec => []CompleteGraph
<1>1. GraphInv /\ CountInv => CompleteGraph
  <2> SUFFICES ASSUME GraphInv, CountInv, Built
               PROVE  /\ \A f \in visited : Cardinality(RequestsOf(f)) = Len(Arguments(f))
                      /\ Cardinality(RequestsOf(<<>>)) = Len(OriginalRequests)
                      /\ Answers \ {Missing, Param} = visited
    BY DEF CompleteGraph, RequestsOf, Answers
  <2>1. Finished = visited
    BY DEF Built, Finished, OnStack
  <2>2. next - 1 = Len(OriginalRequests)
    <3>1. Len(OriginalRequests) \in Nat /\ next \in 1..(Len(OriginalRequests) + 1)
      BY OriginalType DEF GraphInv, ResolveInv, Shape
    <3> QED BY <3>1 DEF Built
  <2> QED BY <2>1, <2>2 DEF CountInv, Counted
<1>2. GraphInv /\ CountInv /\ [GraphNext \/ (Built /\ UNCHANGED allVars)]_allVars => CountInv'
  BY CountNext
<1> QED BY <1>1, <1>2, CountInit, GraphInvariance, PTL DEF GraphSpec

-----------------------------------------------------------------------------
(* What the steps record.                                                   *)

\* Recording a request appends it, answered, and changes none before it.
LEMMA AddRequestAppends ==
  ASSUME NEW node \in Request, NEW rest, requests \in Seq(Request), AddRequest(node, rest),
         Resolver(node.name) \in {Missing, Param} \cup (Names \X Nat)
  PROVE  /\ DOMAIN requests' = DOMAIN requests \cup {Len(requests) + 1}
         /\ \A k \in DOMAIN requests : requests'[k] = requests[k]
         /\ requests'[Len(requests) + 1] = [node EXCEPT !.resolver = Resolver(node.name)]
         /\ requests'[Len(requests) + 1].name = node.name
         /\ requests'[Len(requests) + 1].scope = node.scope
         /\ requests'[Len(requests) + 1].requester = node.requester
         /\ requests'[Len(requests) + 1].resolver = Resolver(node.name)
<1> DEFINE new == [node EXCEPT !.resolver = Resolver(node.name)]
<1>1. /\ new \in Request /\ new.name = node.name /\ new.scope = node.scope
      /\ new.requester = node.requester /\ new.resolver = Resolver(node.name)
  BY DEF Request
<1>2. requests' = Append(requests, new)
  BY DEF AddRequest
<1> HIDE DEF new
<1>3. /\ DOMAIN requests' = DOMAIN requests \cup {Len(requests) + 1}
      /\ \A k \in DOMAIN requests : requests'[k] = requests[k]
      /\ requests'[Len(requests) + 1] = new
  BY <1>1, <1>2
<1> QED BY <1>1, <1>3 DEF new

\* The steps that record a request: one of the test, or one of the innermost fixture.
OriginalStep(node) ==
  /\ next \in DOMAIN OriginalRequests /\ node = OriginalRequests[next]
  /\ stack = <<>> /\ AddRequest(node, <<>>) /\ next' = next + 1

ArgumentStep(node) ==
  /\ AtArgument /\ node = ArgumentNode
  /\ AddRequest(node, Taken) /\ next' = next

\* A request is recorded by the loop over the requests of the test or over the arguments.
LEMMA RecordingSteps ==
  ASSUME GraphInv, ResolveOriginal \/ ResolveArgument
  PROVE  \E node \in Request :
           /\ \/ OriginalStep(node) /\ node.requester = <<>>
              \/ ArgumentStep(node) /\ node.requester = Top.fixture
           /\ Resolved /\ UNCHANGED resolveVars /\ CanLookUp(node.name)
           /\ Resolver(node.name) \in {Missing, Param} \cup (Names \X Nat)
<1>0. ResolveTypeOK /\ Shape
  BY DEF GraphInv, ResolveInv
<1>1. ASSUME NEW node \in Request, CanLookUp(node.name)
      PROVE  Resolver(node.name) \in {Missing, Param} \cup (Names \X Nat)
  BY <1>0, <1>1, ResolverType DEF Request, Known
<1>2. CASE ResolveOriginal
  <2> DEFINE node == OriginalRequests[next]
  <2>1. next \in DOMAIN OriginalRequests
    BY <1>0, <1>2, OriginalType DEF ResolveOriginal, AtOriginal, Shape
  <2>2. node \in Request /\ node.requester = <<>>
    BY <1>0, <2>1, OriginalType
  <2>3. OriginalStep(node) /\ CanLookUp(node.name) /\ UNCHANGED resolveVars /\ Resolved
    BY <1>2, <2>1 DEF ResolveOriginal, AtOriginal, OriginalStep
  <2> HIDE DEF node
  <2> QED BY <1>1, <2>2, <2>3
<1>3. CASE ResolveArgument
  <2>1. /\ AtArgument /\ AddRequest(ArgumentNode, Taken) /\ next' = next
        /\ CanLookUp(ArgumentNode.name) /\ UNCHANGED resolveVars /\ Resolved
    BY <1>3 DEF ResolveArgument, Taken, AtArgument, GraphInv, Waiting
  <2>2. ArgumentNode \in Request /\ ArgumentNode.requester = Top.fixture
    BY <1>0, <2>1, ArgumentNodeType
  <2> QED BY <1>1, <2>1, <2>2 DEF ArgumentStep
<1> QED BY <1>2, <1>3

\* The other steps leave the requests alone.
LEMMA OtherSteps ==
  ASSUME GraphInv, [GraphNext]_allVars, ~ ResolveOriginal, ~ ResolveArgument
  PROVE  /\ UNCHANGED <<requests, visited, next>>
         /\ UNCHANGED available \/ requests = <<>>
         /\ UNCHANGED stack \/ ReturnFromFixture
<1>1. CASE ResolveNext /\ UNCHANGED graphVars
  BY <1>1, NoMoreResolving DEF GraphInv, ResolveInv, Waiting, graphVars
<1>2. CASE ReturnFromFixture
  BY <1>2 DEF ReturnFromFixture, resolveVars
<1>3. CASE UNCHANGED allVars
  BY <1>3 DEF allVars, graphVars, resolveVars
<1> QED BY <1>1, <1>2, <1>3 DEF GraphNext

-----------------------------------------------------------------------------
(* Scopes along the requests.                                               *)

\* A request of a fixture has the scope of the fixture.
ScopeInv ==
  \A k \in DOMAIN requests :
    requests[k].requester # <<>> => requests[k].scope = At(requests[k].requester).scope

\* Every step keeps it: what is appended is answered by what it was looked up for.
LEMMA ScopeNext == GraphInv /\ ScopeInv /\ [GraphNext]_allVars => ScopeInv'
<1> SUFFICES ASSUME GraphInv, ScopeInv, [GraphNext]_allVars PROVE ScopeInv'
  OBVIOUS
<1>1. CASE ResolveOriginal \/ ResolveArgument
  <2>1. PICK node \in Request :
          /\ \/ OriginalStep(node) /\ node.requester = <<>>
             \/ ArgumentStep(node) /\ node.requester = Top.fixture
          /\ UNCHANGED resolveVars
          /\ Resolver(node.name) \in {Missing, Param} \cup (Names \X Nat)
    BY <1>1, RecordingSteps
  <2>2. PICK rest : AddRequest(node, rest)
    BY <2>1 DEF OriginalStep, ArgumentStep
  <2>3. \A f : At(f)' = At(f)
    BY <2>1 DEF At, resolveVars
  <2>4. node.requester # <<>> => node.scope = At(node.requester).scope
    BY <2>1 DEF ArgumentStep, ArgumentNode, Node
  <2>5. requests \in Seq(Request)
    BY DEF GraphInv, Shape, RequestsOK
  <2>6. /\ DOMAIN requests' = DOMAIN requests \cup {Len(requests) + 1}
        /\ \A k \in DOMAIN requests : requests'[k] = requests[k]
        /\ requests'[Len(requests) + 1].scope = node.scope
        /\ requests'[Len(requests) + 1].requester = node.requester
    BY <2>1, <2>2, <2>5, AddRequestAppends
  <2> QED BY <2>3, <2>4, <2>6 DEF ScopeInv
<1>2. CASE ~ (ResolveOriginal \/ ResolveArgument)
  BY <1>2, OtherSteps DEF ScopeInv, At
<1> QED BY <1>1, <1>2

\* Ranks are numbers, so they can be compared.
LEMMA RankType ==
  ASSUME NEW s \in Elements(ScopeOrder)
  PROVE  Rank(s) \in Nat
<1>1. \E i \in DOMAIN ScopeOrder : ScopeOrder[i] = s
  BY DEF Elements
<1>2. Rank(s) \in DOMAIN ScopeOrder
  BY <1>1 DEF Rank
<1> QED BY <1>2 DEF ScopeOrder

\* Without reports a fixture does not outlive what it needs, directly or through others,
\* although each fixture is followed only once and by one of those that request it.
THEOREM NoReportMeansOutlivesCorrect == GraphSpec => []NoReportMeansOutlives
<1>1. GraphInit => ScopeInv
  BY DEF GraphInit, ScopeInv
<1>2. GraphInv /\ ScopeInv /\ [GraphNext \/ (Built /\ UNCHANGED allVars)]_allVars => ScopeInv'
  BY ScopeNext
<1>3. GraphInv /\ ScopeInv => NoReportMeansOutlives
  <2> SUFFICES ASSUME GraphInv, ScopeInv, InvertedScopes = {},
                      \A f \in visited : At(f).scope # "unknown",
                      NEW f \in visited, NEW g \in NeededBy(f)
               PROVE  Rank(At(f).scope) <= Rank(At(g).scope)
    BY DEF NoReportMeansOutlives
  <2>1. \A h \in visited : Rank(At(h).scope) \in Nat
    <3>1. \A h \in visited : At(h).scope \in Scopes
      BY ArgumentsType DEF GraphInv, ResolveInv, Shape, Fixture
    <3> QED BY <3>1, RankType, ScopesAssumption
  <2> DEFINE Longer == {h \in visited : Rank(At(f).scope) <= Rank(At(h).scope)}
  <2>2. ASSUME NEW h \in visited, NEW e \in visited, Edge(h, e)
        PROVE  Rank(At(h).scope) <= Rank(At(e).scope)
    <3>1. PICK k \in DOMAIN requests : requests[k].requester = h /\ requests[k].resolver = e
      BY <2>2 DEF Edge
    <3>2. h # <<>> /\ e \in Names \X Nat
      BY VisitedDistinct DEF GraphInv, Shape, Known
    <3>3. IsFixture(e)
      BY <3>2 DEF IsFixture
    <3>4. requests[k].scope = At(h).scope
      BY <3>1, <3>2 DEF ScopeInv
    <3>5. ~ (Rank(At(h).scope) > Rank(At(e).scope))
      BY <3>1, <3>3, <3>4 DEF InvertedScopes
    <3> QED BY <2>1, <3>5
  <2>3. \A h \in Longer : \A e \in visited : Edge(h, e) => e \in Longer
    <3> SUFFICES ASSUME NEW h \in Longer, NEW e \in visited, Edge(h, e)
                 PROVE  Rank(At(f).scope) <= Rank(At(e).scope)
      OBVIOUS
    <3> QED BY <2>1, <2>2
  <2>4. f \in Longer
    BY <2>1
  <2> HIDE DEF Longer
  <2>5. g \in Longer
    <3>1. Longer \in SUBSET visited
      BY DEF Longer
    <3> QED BY <2>3, <2>4, <3>1 DEF NeededBy
  <2> QED BY <2>5 DEF Longer
<1> QED BY <1>1, <1>2, <1>3, GraphInvariance, PTL DEF GraphSpec

-----------------------------------------------------------------------------
(* No request goes unanswered.                                              *)

\* What is being followed was requested by what is followed outside of it.
Chain ==
  \A j \in DOMAIN stack :
    j + 1 \in DOMAIN stack => stack[j + 1].fixture[1] \in Elements(Arguments(stack[j].fixture))

MissingInv == Chain /\ (WellFounded => Unresolved = {})

\* The name that is requested next is on the stack less often than it has fixtures:
\* otherwise the names followed since its last fixture request each other in a cycle.
LEMMA LevelBounded ==
  ASSUME ResolveTypeOK, Shape, StackLevels, Chain, WellFounded,
         NEW name \in DOMAIN available,
         stack # <<>> => name \in Elements(Arguments(Top.fixture))
  PROVE  Level(name) <= Len(available[name])
<1> DEFINE all == {k \in DOMAIN stack : stack[k].fixture[1] = name}
           n == Len(available[name])
<1>1. /\ available[name] \in Seq(Fixture) /\ available[name] # <<>> /\ n \in Nat /\ n >= 1
      /\ name \notin Elements(available[name][n].arguments)
  BY DEF ResolveTypeOK, Input, WellFounded
<1>2. /\ IsFiniteSet(all) /\ Cardinality(all) \in Nat /\ Level(name) = Cardinality(all) + 1
  BY LevelType, FS_CardinalityType DEF Level
<1> SUFFICES ASSUME Cardinality(all) >= n PROVE FALSE
  BY <1>1, <1>2
<1>3. all # {}
  BY <1>1, <1>2, FS_EmptySet
<1>4. stack \in Seq(Frame) /\ Len(stack) \in Nat /\ DOMAIN stack = 1..Len(stack)
  BY DEF Shape, StackOK
<1>5. \A k \in DOMAIN stack :
        /\ stack[k].fixture \in Known
        /\ Elements(Arguments(stack[k].fixture)) \subseteq ArgumentsOf(stack[k].fixture[1])
  BY ArgumentsType DEF Shape, StackOK
<1>6. PICK p \in all : \A k \in all : k <= p
  <2>1. all \in SUBSET (1..Len(stack))
    BY <1>4
  <2> HIDE DEF all
  <2> QED BY <1>3, <1>4, <2>1, GreatestNumber
<1>7. p \in 1..Len(stack) /\ stack[p].fixture[1] = name
  BY <1>4
<1>8. Len(stack) \in DOMAIN stack /\ Top = stack[Len(stack)]
      /\ name \in Elements(Arguments(stack[Len(stack)].fixture))
  BY <1>4, <1>7 DEF Top
<1> DEFINE C == {stack[j].fixture[1] : j \in p..Len(stack)}
<1>9. PICK x \in C : \A y \in C \ {x} : y \notin ArgumentsOf(x)
  <2>1. C \in SUBSET DOMAIN available
    BY <1>4, <1>5, <1>7 DEF Known
  <2>2. C # {}
    BY <1>4, <1>7
  <2> HIDE DEF C
  <2> QED BY <2>1, <2>2 DEF WellFounded
<1> DEFINE places == {j \in p..Len(stack) : stack[j].fixture[1] = x}
<1>10. PICK j \in places : \A k \in places : k <= j
  <2>1. places \in SUBSET (1..Len(stack)) /\ places # {}
    BY <1>4, <1>7, <1>9
  <2> HIDE DEF places
  <2> QED BY <1>4, <2>1, GreatestNumber
<1>11. j \in p..Len(stack) /\ j \in DOMAIN stack /\ stack[j].fixture[1] = x
  BY <1>4, <1>7
<1>12. CASE j = Len(stack)
  <2>1. name \in ArgumentsOf(x) /\ name \in C
    <3>1. stack[Len(stack)].fixture[1] = x
      BY <1>11, <1>12
    <3>2. Elements(Arguments(stack[Len(stack)].fixture)) \subseteq ArgumentsOf(x)
      BY <1>5, <1>8, <3>1
    <3>3. p \in p..Len(stack)
      BY <1>7
    <3> QED BY <1>7, <1>8, <3>2, <3>3
  <2>2. x = name
    BY <1>9, <2>1
  <2>3. p = Len(stack)
    BY <1>4, <1>6, <1>8, <1>11, <1>12, <2>2
  <2>4. stack[p].fixture[2] = Cardinality(all)
    <3>1. all = {i \in 1..p : stack[i].fixture[1] = stack[p].fixture[1]}
      BY <1>4, <1>7, <2>3
    <3> QED BY <1>4, <1>7, <3>1 DEF StackLevels
  <2>5. stack[p].fixture[2] = n
    <3>1. stack[p].fixture[2] \in DOMAIN available[name]
      BY <1>4, <1>5, <1>7 DEF Known
    <3> QED BY <1>1, <1>2, <2>4, <3>1
  <2>6. Arguments(stack[p].fixture) = available[name][n].arguments
    BY <1>7, <2>5 DEF Arguments, At
  <2> QED BY <1>1, <1>8, <2>3, <2>6
<1>13. CASE j # Len(stack)
  <2>1. j + 1 \in p..Len(stack) /\ j + 1 \in DOMAIN stack /\ ~ (j + 1 <= j)
    BY <1>4, <1>11, <1>13
  <2>2. stack[j + 1].fixture[1] \in ArgumentsOf(x) /\ stack[j + 1].fixture[1] \in C
    BY <1>5, <1>11, <2>1 DEF Chain
  <2>3. stack[j + 1].fixture[1] # x
    BY <1>10, <2>1
  <2> QED BY <1>9, <2>2, <2>3
<1> QED BY <1>12, <1>13

\* So is the request that is recorded next.
LEMMA AnswerFound ==
  ASSUME GraphInv, StackLevels, Chain, WellFounded, ResolveOriginal \/ ResolveArgument,
         NEW node \in Request,
         OriginalStep(node) \/ ArgumentStep(node), CanLookUp(node.name)
  PROVE  Resolver(node.name) # Missing
<1>0. ResolveTypeOK /\ Shape
  BY DEF GraphInv, ResolveInv
<1>1. CASE node.name \in input.parametrized
  BY <1>1 DEF Resolver, Param, Missing
<1>2. CASE node.name \notin input.parametrized
  <2>1. node.name \in DOMAIN available
    BY <1>2 DEF CanLookUp
  <2>2. stack # <<>> => node.name \in Elements(Arguments(Top.fixture))
    <3> SUFFICES ASSUME stack # <<>>
                 PROVE node.name \in Elements(Arguments(Top.fixture))
      OBVIOUS
    <3>1. AtArgument /\ node = ArgumentNode
      BY DEF OriginalStep, ArgumentStep
    <3>2. node.name = Arguments(Top.fixture)[Top.argument]
      BY <3>1 DEF ArgumentNode, Node
    <3>3. Top.argument \in DOMAIN Arguments(Top.fixture)
      BY <1>0, <3>1, TopType, ArgumentsType DEF AtArgument
    <3> QED BY <3>2, <3>3 DEF Elements
  <2>3. Level(node.name) <= Len(available[node.name])
    BY <1>0, <2>1, <2>2, LevelBounded
  <2>4. <<node.name, Level(node.name)>> # Missing
    BY DEF Missing
  <2> QED BY <1>2, <2>3, <2>4 DEF Resolver
<1> QED BY <1>1, <1>2

\* The stack behind it: an argument is counted, and the answer followed if it is new.
LEMMA RecordingStack ==
  ASSUME GraphInv, ResolveOriginal \/ ResolveArgument,
         NEW node \in Request, OriginalStep(node) \/ ArgumentStep(node), CanLookUp(node.name)
  PROVE  \E rest \in Seq(Frame) :
           /\ Len(rest) = Len(stack) /\ DOMAIN rest = DOMAIN stack
           /\ \A k \in DOMAIN stack :
                /\ rest[k].fixture = stack[k].fixture
                /\ rest[k].argument = stack[k].argument + (IF k = Len(stack) THEN 1 ELSE 0)
           /\ AddRequest(node, rest)
           /\ \/ stack' = rest /\ visited' = visited
              \/ /\ Resolver(node.name) = <<node.name, Level(node.name)>>
                 /\ Resolver(node.name) \notin visited
                 /\ visited' = visited \cup {Resolver(node.name)}
                 /\ DOMAIN stack' = DOMAIN stack \cup {Len(stack) + 1}
                 /\ \A k \in DOMAIN stack : stack'[k] = rest[k]
                 /\ stack'[Len(stack) + 1].fixture = Resolver(node.name)
                 /\ stack'[Len(stack) + 1].argument = 1
<1>0. ResolveTypeOK /\ Shape /\ stack \in Seq(Frame)
  BY DEF GraphInv, ResolveInv, Shape, StackOK
<1>1. \E rest \in Seq(Frame) :
        /\ Len(rest) = Len(stack) /\ DOMAIN rest = DOMAIN stack
        /\ \A k \in DOMAIN stack :
             /\ rest[k].fixture = stack[k].fixture
             /\ rest[k].argument = stack[k].argument + (IF k = Len(stack) THEN 1 ELSE 0)
        /\ AddRequest(node, rest)
  <2>1. CASE OriginalStep(node)
    <3>1. /\ <<>> \in Seq(Frame) /\ Len(<<>>) = Len(stack) /\ DOMAIN <<>> = DOMAIN stack
          /\ DOMAIN stack = {} /\ AddRequest(node, <<>>)
      BY <2>1 DEF OriginalStep
    <3> QED BY <3>1
  <2>2. CASE ArgumentStep(node)
    <3>1. AtArgument /\ stack # <<>> /\ AddRequest(node, Taken)
      BY <2>2 DEF ArgumentStep, AtArgument
    <3>2. /\ Taken \in Seq(Frame) /\ Len(Taken) = Len(stack)
          /\ \A k \in DOMAIN stack : Taken[k].fixture = stack[k].fixture
      BY <1>0, <3>1, TakenType DEF StackOK
    <3>3. DOMAIN Taken = DOMAIN stack /\ Len(stack) \in DOMAIN stack
      BY <1>0, <3>1, <3>2
    <3>4. ASSUME NEW k \in DOMAIN stack
          PROVE  Taken[k].argument = stack[k].argument + (IF k = Len(stack) THEN 1 ELSE 0)
      <4>1. stack[k].argument \in Nat
        <5>1. stack[k] \in Frame
          BY <1>0
        <5> QED BY <5>1 DEF Frame
      <4>2. Taken[k].argument = IF k = Len(stack) THEN Top.argument + 1 ELSE stack[k].argument
        BY <1>0 DEF Taken
      <4> QED BY <4>1, <4>2 DEF Top
    <3> QED BY <3>1, <3>2, <3>3, <3>4
  <2> QED BY <2>1, <2>2
<1>2. PICK rest \in Seq(Frame) :
        /\ Len(rest) = Len(stack) /\ DOMAIN rest = DOMAIN stack
        /\ \A k \in DOMAIN stack :
             /\ rest[k].fixture = stack[k].fixture
             /\ rest[k].argument = stack[k].argument + (IF k = Len(stack) THEN 1 ELSE 0)
        /\ AddRequest(node, rest)
  BY <1>1
<1> DEFINE r == Resolver(node.name)
<1>3. \/ r \in {Missing, Param} /\ ~ IsFixture(r)
      \/ r = <<node.name, Level(node.name)>> /\ IsFixture(r) /\ r \in Known
  BY <1>0, ResolverType DEF Request
<1>4. CASE IsFixture(r) /\ r \notin visited
  <2> DEFINE frame == [fixture |-> r, argument |-> 1, bound |-> node.name]
  <2>1. stack' = Append(rest, frame) /\ visited' = visited \cup {r}
    BY <1>2, <1>4 DEF AddRequest
  <2>2. r = <<node.name, Level(node.name)>> /\ r \in Known
    BY <1>3, <1>4
  <2>3. frame \in Frame /\ frame.fixture = r /\ frame.argument = 1
    BY <2>2 DEF Frame, Known, Request
  <2> HIDE DEF frame, r
  <2>4. /\ DOMAIN stack' = DOMAIN stack \cup {Len(stack) + 1}
        /\ \A k \in DOMAIN stack : stack'[k] = rest[k]
        /\ stack'[Len(stack) + 1] = frame
    BY <1>0, <1>2, <2>1, <2>3
  <2> QED BY <1>2, <1>4, <2>1, <2>2, <2>3, <2>4 DEF r
<1>5. CASE ~ (IsFixture(r) /\ r \notin visited)
  <2>1. stack' = rest /\ visited' = visited
    BY <1>2, <1>5 DEF AddRequest
  <2> QED BY <1>2, <2>1
<1> QED BY <1>4, <1>5

\* The name of a request of the innermost fixture is one of its arguments.
LEMMA ArgumentNamed ==
  ASSUME GraphInv, NEW node, ArgumentStep(node)
  PROVE  /\ node.name = Arguments(Top.fixture)[Top.argument]
         /\ node.name \in Elements(Arguments(Top.fixture))
         /\ Len(stack) \in DOMAIN stack /\ Top = stack[Len(stack)]
<1>1. AtArgument /\ node = ArgumentNode
  BY DEF ArgumentStep
<1>2. node.name = Arguments(Top.fixture)[Top.argument]
  BY <1>1 DEF ArgumentNode, Node
<1>3. Top.argument \in DOMAIN Arguments(Top.fixture) /\ Len(stack) \in DOMAIN stack
  BY <1>1, TopType, ArgumentsType DEF AtArgument, GraphInv, ResolveInv
<1> QED BY <1>2, <1>3 DEF Elements, Top

\* Every step keeps it: the answer that is looked up is there.
LEMMA MissingNext ==
  GraphInv /\ StackLevels /\ MissingInv /\ [GraphNext]_allVars => MissingInv'
<1> SUFFICES ASSUME GraphInv, StackLevels, MissingInv, [GraphNext]_allVars
             PROVE  MissingInv'
  OBVIOUS
<1>0. /\ ResolveTypeOK /\ Shape /\ stack \in Seq(Frame) /\ requests \in Seq(Request)
      /\ DOMAIN stack = 1..Len(stack) /\ Len(stack) \in Nat
  BY DEF GraphInv, ResolveInv, Shape, StackOK, RequestsOK
<1>1. CASE ResolveOriginal \/ ResolveArgument
  <2>1. PICK node \in Request :
          /\ OriginalStep(node) \/ ArgumentStep(node)
          /\ UNCHANGED resolveVars /\ CanLookUp(node.name)
          /\ Resolver(node.name) \in {Missing, Param} \cup (Names \X Nat)
    BY <1>1, RecordingSteps
  <2>2. PICK rest \in Seq(Frame) :
          /\ \A k \in DOMAIN stack : rest[k].fixture = stack[k].fixture
          /\ DOMAIN rest = DOMAIN stack
          /\ AddRequest(node, rest)
          /\ \/ stack' = rest /\ visited' = visited
             \/ /\ Resolver(node.name) = <<node.name, Level(node.name)>>
                /\ DOMAIN stack' = DOMAIN stack \cup {Len(stack) + 1}
                /\ \A k \in DOMAIN stack : stack'[k] = rest[k]
                /\ stack'[Len(stack) + 1].fixture = Resolver(node.name)
    BY <1>1, <2>1, RecordingStack
  <2>3. /\ \A f : Arguments(f)' = Arguments(f)
        /\ WellFounded' <=> WellFounded
    BY <2>1 DEF Arguments, At, WellFounded, ArgumentsOf, resolveVars
  <2>4. Chain'
    <3>1. CASE stack' = rest
      <4>1. \A k \in DOMAIN stack' : stack'[k].fixture = stack[k].fixture
        BY <2>2, <3>1
      <4> QED BY <2>2, <2>3, <3>1, <4>1 DEF MissingInv, Chain
    <3>2. CASE /\ Resolver(node.name) = <<node.name, Level(node.name)>>
               /\ DOMAIN stack' = DOMAIN stack \cup {Len(stack) + 1}
               /\ \A k \in DOMAIN stack : stack'[k] = rest[k]
               /\ stack'[Len(stack) + 1].fixture = Resolver(node.name)
      <4> SUFFICES ASSUME NEW j \in DOMAIN stack', j + 1 \in DOMAIN stack'
                   PROVE  stack'[j + 1].fixture[1] \in Elements(Arguments(stack'[j].fixture))
        BY <2>1 DEF Chain, Elements, Arguments, At, resolveVars
      <4>1. j \in DOMAIN stack /\ stack'[j].fixture = stack[j].fixture
        BY <1>0, <2>2, <3>2
      <4>2. CASE j + 1 \in DOMAIN stack
        BY <2>2, <2>3, <3>2, <4>1, <4>2 DEF MissingInv, Chain
      <4>3. CASE j = Len(stack)
        <5>1. ArgumentStep(node)
          BY <1>0, <2>1, <4>1 DEF OriginalStep
        <5>2. node.name \in Elements(Arguments(stack[j].fixture))
          BY <4>3, <5>1, ArgumentNamed
        <5>3. stack'[j + 1].fixture[1] = node.name
          BY <3>2, <4>3
        <5> QED BY <2>3, <4>1, <5>2, <5>3
      <4> QED BY <1>0, <4>1, <4>2, <4>3
    <3> QED BY <2>2, <3>1, <3>2
  <2>5. WellFounded => Unresolved' = {}
    <3> SUFFICES ASSUME WellFounded PROVE Unresolved' = {}
      OBVIOUS
    <3>1. Resolver(node.name) # Missing
      BY <1>1, <2>1, AnswerFound DEF MissingInv
    <3>2. /\ DOMAIN requests' = DOMAIN requests \cup {Len(requests) + 1}
          /\ \A k \in DOMAIN requests : requests'[k] = requests[k]
          /\ requests'[Len(requests) + 1].resolver = Resolver(node.name)
      BY <1>0, <2>1, <2>2, AddRequestAppends
    <3> QED BY <3>1, <3>2 DEF MissingInv, Unresolved
  <2> QED BY <2>3, <2>4, <2>5 DEF MissingInv
<1>2. CASE ~ (ResolveOriginal \/ ResolveArgument)
  <2>1. /\ UNCHANGED <<requests, visited, next>>
        /\ UNCHANGED stack \/ ReturnFromFixture
    BY <1>2, OtherSteps
  <2>2. CASE ~ Resolved
    <3>1. stack = <<>> /\ requests = <<>> /\ stack' = <<>>
      BY <2>1, <2>2 DEF GraphInv, Waiting, ReturnFromFixture
    <3> QED BY <2>1, <3>1 DEF MissingInv, Chain, Unresolved
  <2>3. CASE Resolved
    <3>1. UNCHANGED resolveVars
      BY <1>0, <1>2, <2>3, NoMoreResolving DEF GraphNext, ReturnFromFixture, allVars
    <3>2. /\ \A f : Arguments(f)' = Arguments(f)
          /\ WellFounded' <=> WellFounded
      BY <3>1 DEF Arguments, At, WellFounded, ArgumentsOf, resolveVars
    <3>3. \A k \in DOMAIN stack' : k \in DOMAIN stack /\ stack'[k] = stack[k]
      BY <1>0, <2>1, ReturnType
    <3> QED BY <2>1, <3>2, <3>3 DEF MissingInv, Chain, Unresolved
  <2> QED BY <2>2, <2>3
<1> QED BY <1>1, <1>2

\* If names request each other without cycle, apart from fixtures that request what they
\* override, no fixture is reported missing, however the traversal meets them.
THEOREM NoFalseMissingCorrect == GraphSpec => []NoFalseMissing
<1>1. GraphInit => MissingInv
  BY DEF GraphInit, MissingInv, Chain, Unresolved
<1>2. GraphInv /\ DepthFirst /\ MissingInv
        /\ [GraphNext \/ (Built /\ UNCHANGED allVars)]_allVars => MissingInv'
  BY MissingNext DEF DepthFirst
<1>3. MissingInv => NoFalseMissing
  BY DEF MissingInv, NoFalseMissing
<1> QED BY <1>1, <1>2, <1>3, GraphInvariance, DepthFirstInvariance, PTL DEF GraphSpec

=============================================================================
