---------------------------- MODULE RequestGraph ----------------------------
(***************************************************************************)
(* RequestGraphBuilder: who requests what, and which fixture answers.      *)
(*                                                                         *)
(* TestInfo.request_graph first resolves the names a test can need         *)
(* (FixtureResolution), then follows the requests depth first: from the    *)
(* arguments of the test and its autouse fixtures to the fixtures that     *)
(* answer them, to the arguments of those, each fixture once.  A name that *)
(* is requested again while its fixture is being followed goes to the next *)
(* fixture of that name, the one that was overridden.                      *)
(*                                                                         *)
(* The recursion of resolve_request is the stack of fixtures whose         *)
(* arguments are being requested; its names are the variable path of the   *)
(* code.                                                                   *)
(***************************************************************************)
EXTENDS FixtureResolution, FiniteSets

CONSTANT TestName   \* the name of the test

\* FixtureScope, an IntEnum: from the shortest-lived to the longest.
ScopeOrder == <<"function", "class", "module", "package", "session", "unknown">>
Rank(scope) == CHOOSE i \in DOMAIN ScopeOrder : ScopeOrder[i] = scope

ASSUME ScopesAssumption == Scopes \subseteq Elements(ScopeOrder)

VARIABLES
  next,      \* the original request to resolve next
  stack,     \* fixtures whose arguments are being requested, innermost last
  requests,  \* RequestGraphBuilder.requests
  visited    \* visited_fixture_ids

graphVars == <<next, stack, requests, visited>>
allVars == <<resolveVars, graphVars>>

-----------------------------------------------------------------------------

\* Every list in available has objects of its own, so a fixture is known by its
\* name and its place in the list.
At(f) == available[f[1]][f[2]]

\* What a RequestNode can be resolved by, besides a fixture.
Missing == <<>>
Param == <<"param">>
IsFixture(resolver) == Len(resolver) = 2

\* requester is not in the code: the fixture the request really comes from.
Node(name, source, sourceName, scope, requester) ==
  [name |-> name, source |-> source, sourceName |-> sourceName, scope |-> scope,
   requester |-> requester, resolver |-> Missing]

\* RequestGraph.build: the arguments of the test, then its autouse fixtures.
OriginalRequests ==
  [i \in DOMAIN input.requests |->
     Node(input.requests[i], "argument", TestName, "function", <<>>)]
  \o [i \in DOMAIN input.autouse |->
        Node(input.autouse[i], "autouse", input.autouse[i], "function", <<>>)]

\* Mistakes: ignoring the path; forgetting that path.count counts this request.
LevelNearest(name) == Cardinality({name})

LevelOffByOne(name) == Cardinality({k \in DOMAIN stack : stack[k].fixture[1] = name}) + 2

\* path.count(name): the requests for name that are being followed, this included.
Level(name) == Cardinality({k \in DOMAIN stack : stack[k].fixture[1] = name}) + 1

\* A mistake: one fixture too many.
ResolverPastEnd(name) ==
  IF name \in input.parametrized THEN Param
  ELSE IF Level(name) <= Len(available[name]) + 1 THEN <<name, Level(name)>>
  ELSE Missing

Resolver(name) ==
  IF name \in input.parametrized THEN Param
  ELSE IF Level(name) <= Len(available[name]) THEN <<name, Level(name)>>
  ELSE Missing

-----------------------------------------------------------------------------

GraphInit ==
  /\ ResolveInit
  /\ next = 1
  /\ stack = <<>>
  /\ requests = <<>>
  /\ visited = {}

Top == stack[Len(stack)]
Arguments(f) == At(f).arguments

\* A mistake: following a fixture at every request.
AddRequestUnvisited(node, rest) ==
  LET resolver == Resolver(node.name) IN
  /\ requests' = Append(requests, [node EXCEPT !.resolver = resolver])
  /\ IF IsFixture(resolver)
       THEN /\ stack' = Append(rest, [fixture |-> resolver, argument |-> 1, bound |-> node.name])
            /\ visited' = visited \cup {resolver}
       ELSE stack' = rest /\ UNCHANGED visited

\* resolve_request: record the node, and follow the fixture if it is new.
AddRequest(node, rest) ==
  LET resolver == Resolver(node.name) IN
  /\ requests' = Append(requests, [node EXCEPT !.resolver = resolver])
  /\ IF IsFixture(resolver) /\ resolver \notin visited
       THEN /\ stack' = Append(rest, [fixture |-> resolver, argument |-> 1, bound |-> node.name])
            /\ visited' = visited \cup {resolver}
       ELSE stack' = rest /\ UNCHANGED visited

\* available_fixtures[request.name] is evaluated for names without parameter; it is
\* a KeyError, and the end of the run, when the name is not there.
CanLookUp(name) == name \in input.parametrized \cup DOMAIN available

AtOriginal == Resolved /\ stack = <<>> /\ next <= Len(OriginalRequests)

ResolveOriginal ==
  /\ AtOriginal /\ CanLookUp(OriginalRequests[next].name)
  /\ AddRequest(OriginalRequests[next], <<>>)
  /\ next' = next + 1
  /\ UNCHANGED resolveVars

AtArgument == stack # <<>> /\ Top.argument <= Len(Arguments(Top.fixture))

\* The loop over fixture.arguments assigns each new node to the variable request,
\* whose name the next node gets as its source_name.
ArgumentNode ==
  LET name == Arguments(Top.fixture)[Top.argument] IN
  Node(name, "fixture", Top.bound, At(Top.fixture).scope, Top.fixture)

ResolveArgument ==
  /\ AtArgument /\ CanLookUp(ArgumentNode.name)
  /\ AddRequest(ArgumentNode,
       [stack EXCEPT ![Len(stack)] = [fixture |-> Top.fixture,
                                      argument |-> Top.argument + 1,
                                      bound |-> ArgumentNode.name]])
  /\ UNCHANGED <<resolveVars, next>>

\* All arguments of the innermost fixture are resolved.
ReturnFromFixture ==
  /\ stack # <<>> /\ Top.argument > Len(Arguments(Top.fixture))
  /\ stack' = SubSeq(stack, 1, Len(stack) - 1)
  /\ UNCHANGED <<resolveVars, next, requests, visited>>

Built == Resolved /\ stack = <<>> /\ next > Len(OriginalRequests)

GraphNext ==
  \/ ResolveNext /\ UNCHANGED graphVars
  \/ ResolveOriginal
  \/ ResolveArgument
  \/ ReturnFromFixture

GraphSpec ==
  /\ GraphInit
  /\ [][GraphNext \/ (Built /\ UNCHANGED allVars)]_allVars

-----------------------------------------------------------------------------

\* RequestGraph._check_resolved and _check_scope: the nodes that are reported.
Unresolved == {k \in DOMAIN requests : requests[k].resolver = Missing}

\* A mistake: comparing with the scope of the test.
InvertedScopesOfTests ==
  {k \in DOMAIN requests :
     /\ IsFixture(requests[k].resolver)
     /\ Rank("function") > Rank(At(requests[k].resolver).scope)
     /\ "unknown" \notin {requests[k].scope, At(requests[k].resolver).scope}}

InvertedScopes ==
  {k \in DOMAIN requests :
     /\ IsFixture(requests[k].resolver)
     /\ Rank(requests[k].scope) > Rank(At(requests[k].resolver).scope)
     /\ "unknown" \notin {requests[k].scope, At(requests[k].resolver).scope}}

-----------------------------------------------------------------------------

\* Every variable has its type.
GraphTypeOK ==
  /\ ResolveTypeOK
  /\ next \in 1..(Len(OriginalRequests) + 1)
  /\ \A f \in visited : f[1] \in DOMAIN available /\ f[2] \in DOMAIN available[f[1]]
  /\ \A k \in DOMAIN stack :
       /\ stack[k].fixture \in visited
       /\ stack[k].argument \in 1..(Len(Arguments(stack[k].fixture)) + 1)
       /\ stack[k].bound \in Names
  /\ \A k \in DOMAIN requests :
       /\ requests[k].name \in Names
       /\ requests[k].scope \in Scopes \cup {"function"}
       /\ requests[k].requester \in {<<>>} \cup visited
       /\ requests[k].resolver \in {Missing, Param} \cup visited

\* The look-up of a name never fails: resolve_fixtures has collected whatever the
\* traversal gets to, overridden fixtures included.
NoKeyError ==
  /\ AtOriginal => CanLookUp(OriginalRequests[next].name)
  /\ AtArgument => CanLookUp(ArgumentNode.name)

\* fixture f requests something that fixture g answers
Edge(f, g) == \E k \in DOMAIN requests : requests[k].requester = f /\ requests[k].resolver = g

\* The resolved requests have no cycle, however the fixtures request each other: a
\* fixture that would need itself gets an overridden fixture or an error instead.
ResolvedAcyclic ==
  \A C \in SUBSET visited : C # {} => \E f \in C : \A g \in C : ~ Edge(f, g)

\* When the graph is built, each argument of the test, each autouse fixture and
\* each argument of each fixture that answers some request is there exactly once.
CompleteGraph ==
  Built =>
    /\ \A f \in visited :
         Cardinality({k \in DOMAIN requests : requests[k].requester = f}) = Len(Arguments(f))
    /\ Cardinality({k \in DOMAIN requests : requests[k].requester = <<>>})
         = Len(OriginalRequests)
    /\ {requests[k].resolver : k \in DOMAIN requests} \ {Missing, Param} = visited

\* Names request each other without cycle, apart from fixtures that request what
\* they override, every name has a fixture, and the last one overrides nothing.
WellFounded ==
  /\ \A C \in SUBSET DOMAIN available :
       C # {} => \E x \in C : \A y \in C \ {x} : y \notin ArgumentsOf(x)
  /\ \A x \in DOMAIN available :
       /\ available[x] # <<>>
       /\ x \notin Elements(available[x][Len(available[x])].arguments)

\* Then nothing is reported as unresolved.
NoFalseMissing == (Resolved /\ WellFounded) => Unresolved = {}

\* The fixtures f needs, directly or through others: every set has them that has f and,
\* with a fixture, what answers its requests.
NeededBy(f) ==
  {g \in visited : \A S \in SUBSET visited :
     (f \in S /\ \A h \in S : \A e \in visited : Edge(h, e) => e \in S) => g \in S}

\* When no scope is reported and all are known, a fixture does not outlive what it
\* needs, directly or through others, although each fixture is followed only once.
NoReportMeansOutlives ==
  (Built /\ InvertedScopes = {} /\ \A f \in visited : At(f).scope # "unknown") =>
    \A f \in visited : \A g \in NeededBy(f) : Rank(At(f).scope) <= Rank(At(g).scope)

\* The name in "requested by <name> at <location>" is the fixture at that location
\* (finding: only for its first argument).
AttributedToRequester ==
  \A k \in DOMAIN requests :
    requests[k].source = "fixture" => requests[k].sourceName = requests[k].requester[1]

=============================================================================
