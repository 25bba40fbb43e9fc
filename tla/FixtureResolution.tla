-------------------------- MODULE FixtureResolution --------------------------
(***************************************************************************)
(* FixtureManager.resolve_fixtures: which fixtures can a test need?        *)
(*                                                                         *)
(* Starting with the names the test requests and the names of the autouse  *)
(* fixtures it gets, a worklist collects for every name the fixtures that  *)
(* define it, nearest first, and adds the names of their arguments.  All   *)
(* of them are followed, also those a nearer fixture overrides, because    *)
(* the nearer one may request the name it overrides.                       *)
(*                                                                         *)
(* FixtureClosure says what comes out, this module how.                    *)
(***************************************************************************)
EXTENDS Integers, Sequences

CONSTANTS
  Names,   \* names of fixtures
  Scopes,  \* their scopes
  Inputs   \* the tests considered, see Input

Fixture == [arguments : Seq(Names), scope : Scopes]

Input == [fixtures     : [Names -> Seq(Fixture)],  \* answers of resolve_fixture
          requests     : Seq(Names),               \* arguments of the test
          autouse      : Seq(Names),               \* autouse_fixture_names
          parametrized : SUBSET Names]             \* parametrized_argnames

ASSUME InputsAssumption == Inputs \subseteq Input

VARIABLES
  input,      \* the test being checked
  queue,      \* unresolved_fixtures
  extending,  \* fixtures found for the last name, whose arguments are not in yet
  available   \* the dict fixtures: name |-> the fixtures that define it

resolveVars == <<input, queue, extending, available>>

Elements(s) == {s[i] : i \in DOMAIN s}

-----------------------------------------------------------------------------

\* A mistake: one name too many.
ResolveInitGreedy ==
  /\ input \in Inputs
  /\ \E x \in Names : queue = Append(input.requests \o input.autouse, x)
  /\ extending = <<>>
  /\ available = [x \in {} |-> <<>>]

ResolveInit ==
  /\ input \in Inputs
  /\ queue = input.requests \o input.autouse
  /\ extending = <<>>
  /\ available = [x \in {} |-> <<>>]

\* A mistake: leaving a known name in the queue.
PeekKnownName ==
  /\ extending = <<>> /\ queue # <<>>
  /\ Head(queue) \in DOMAIN available
  /\ UNCHANGED resolveVars

\* popleft: a name that is not known yet ...
ResolveName ==
  /\ extending = <<>> /\ queue # <<>>
  /\ Head(queue) \notin DOMAIN available
  /\ available' = [x \in DOMAIN available \cup {Head(queue)} |-> input.fixtures[x]]
  /\ extending' = input.fixtures[Head(queue)]
  /\ queue' = Tail(queue)
  /\ UNCHANGED input

\* ... or one that is.
SkipName ==
  /\ extending = <<>> /\ queue # <<>>
  /\ Head(queue) \in DOMAIN available
  /\ queue' = Tail(queue)
  /\ UNCHANGED <<input, extending, available>>

\* A mistake: only the nearest fixture is followed.
QueueNearestArguments ==
  /\ extending # <<>>
  /\ queue' = queue \o Head(extending).arguments
  /\ extending' = <<>>
  /\ UNCHANGED <<input, available>>

\* unresolved_fixtures.extend(argument.name for argument in fixture.arguments)
QueueArguments ==
  /\ extending # <<>>
  /\ queue' = queue \o Head(extending).arguments
  /\ extending' = Tail(extending)
  /\ UNCHANGED <<input, available>>

Resolved == queue = <<>> /\ extending = <<>>

ResolveNext == ResolveName \/ SkipName \/ QueueArguments

ResolveSpec ==
  /\ ResolveInit
  /\ [][ResolveNext \/ (Resolved /\ UNCHANGED resolveVars)]_resolveVars
  /\ WF_resolveVars(ResolveNext)

-----------------------------------------------------------------------------

\* Every variable has its type.
ResolveTypeOK ==
  /\ input \in Input
  /\ queue \in Seq(Names)
  /\ extending \in Seq(Fixture)
  /\ DOMAIN available \subseteq Names
  /\ available = [x \in DOMAIN available |-> input.fixtures[x]]

\* The names the fixtures called x request, and the names a test starts with.
ArgumentsOf(x) == UNION {Elements(f.arguments) : f \in Elements(input.fixtures[x])}
Roots == Elements(input.requests) \cup Elements(input.autouse)

\* S is closed: it has what the test starts with, and with a name the names its
\* fixtures request.
ClosedSet(S) == Roots \subseteq S /\ \A x \in S : ArgumentsOf(x) \subseteq S

\* When the worklist is empty, RequestGraphBuilder finds every name it will ask
\* for: available has the roots and is closed under arguments.
ResolvedIsClosed == Resolved => ClosedSet(DOMAIN available)

\* And it holds nothing else: only names that every closed set has.
OnlyNeeded == \A S \in SUBSET Names : ClosedSet(S) => DOMAIN available \subseteq S

\* The abstract view: names become known one by one, each needed by a known one.
Closure == INSTANCE FixtureClosure
             WITH Nodes <- Names, roots <- Roots,
                  successors <- [x \in Names |-> ArgumentsOf(x)],
                  known <- DOMAIN available

ImplementsClosure == Closure!Spec

=============================================================================
