-------------------------- MODULE CachedResolution --------------------------
(***************************************************************************)
(* What the order of DeferredChecking means for the fixtures a test gets.  *)
(*                                                                         *)
(* Checking a test resolves the names it requests, and the names those     *)
(* fixtures request, through FixtureManager.resolve_fixture.  That method  *)
(* is cached for the whole run of mypy, so an answer given before a        *)
(* fixture is published stays.  Fixtures with autouse=True are also listed *)
(* in their module (Fixture.save_to_autouse), are part of every request,   *)
(* and RequestNode.from_autouse_name asserts that the name of each resolves*)
(* to a fixture with autouse.                                              *)
(***************************************************************************)
EXTENDS DeferredChecking, FiniteSets

CONSTANTS
  Names,         \* names of fixtures
  Resolution,    \* module |-> the modules its tests look fixtures up in
  Declarations   \* what the functions of a source may declare

Declaration == [name     : Names,           \* of a fixture
                requests : SUBSET Names,    \* names of its arguments
                autouse  : BOOLEAN]

ASSUME NamesAssumption == IsFiniteSet(Names)
ASSUME ResolutionAssumption ==
  Resolution \in [Modules -> SUBSET Modules] /\ \A m \in Modules : m \in Resolution[m]
ASSUME DeclarationsAssumption == Declarations \subseteq [Position -> Declaration]

VARIABLES
  decl,          \* the declarations of the functions in file
  autouseNames,  \* the __autouse__ union of each module
  cache,         \* lru_cache of resolve_fixture, <<name, module>> |-> fixtures
  unresolved,    \* <<test, name>> reported as "cannot be resolved"
  crashed        \* from_autouse_name raised its AssertionError

cacheVars == <<decl, autouseNames, cache, unresolved, crashed>>
allVars == <<vars, cacheVars>>

-----------------------------------------------------------------------------

\* No module defines a fixture twice, and only fixtures have autouse and a name that
\* matters (any other function gets the same one).
WellDeclared ==
  /\ \A m, n \in Of("fixture") :
       (file[m].module = file[n].module /\ decl[m].name = decl[n].name) => m = n
  /\ \A n \in Position : file[n].kind # "fixture" =>
       ~ decl[n].autouse /\ decl[n].name = CHOOSE x \in Names : TRUE

\* The fixtures called x that a test of module m would find if it looked now, and
\* those it would find when everything is published.  (A list in the code,
\* nearest module first; which of them wins is the subject of RequestGraph.)
Lookup(x, m) == {f \in published : decl[f].name = x /\ file[f].module \in Resolution[m]}
Visible(x, m) ==
  {f \in ReachableFixtures : decl[f].name = x /\ file[f].module \in Resolution[m]}

\* resolve_fixture: the cached answer if there is one.
ResolveFixture(x, m) == IF <<x, m>> \in DOMAIN cache THEN cache[<<x, m>>] ELSE Lookup(x, m)

AutouseFixtureNames(m) == UNION {autouseNames[r] : r \in Resolution[m]}

Found(m) == [x \in Names |-> ResolveFixture(x, m)]

\* The names resolve_fixtures looks up for a test: those it starts with and the
\* arguments of every fixture found.
ResolvedNames(start, found) ==
  LET After[k \in 0..Cardinality(Names)] ==
        IF k = 0 THEN start
        ELSE After[k - 1] \cup
             UNION {decl[f].requests : f \in UNION {found[x] : x \in After[k - 1]}}
  IN  After[Cardinality(Names)]

Requested(t) ==
  LET m == file[t].module
  IN  ResolvedNames(decl[t].requests \cup AutouseFixtureNames(m), Found(m))

\* Each request for a name within a request for it goes to the next fixture of that
\* name, and there is none left only if following each of them leads back to the name:
\* because none is defined, or because the last one still asks for one to override.
RunsOut(x, found) == \A f \in found[x] : x \in ResolvedNames(decl[f].requests, found)

-----------------------------------------------------------------------------

CachedInit ==
  /\ Init
  /\ decl \in Declarations /\ WellDeclared
  /\ autouseNames = [m \in Modules |-> {}]
  /\ cache = [key \in {} |-> {}]
  /\ unresolved = {}
  /\ crashed = FALSE

\* The steps that concern neither the autouse list nor the cache.
Schedule(n) ==
  /\ Accept(n) \/ RequiredWait(n) \/ Ignore(n) \/ SpeculativeWait(n)
  /\ UNCHANGED cacheVars

\* Fixture.as_fixture_type with save_to_autouse.
PublishCached(n) ==
  /\ PublishFixture(n)
  /\ autouseNames' =
       IF decl[n].autouse
         THEN [autouseNames EXCEPT ![file[n].module] = @ \cup {decl[n].name}]
         ELSE autouseNames
  /\ UNCHANGED <<decl, cache, unresolved, crashed>>

\* resolve_fixtures answers, and remembers, every name the test needs.
RememberAnswers(t) ==
  cache' = [key \in DOMAIN cache \cup {<<x, file[t].module>> : x \in Requested(t)} |->
              ResolveFixture(key[1], key[2])]

\* from_autouse_name finds a fixture with autouse for every name in the list.
AutouseResolve(t) ==
  \A x \in AutouseFixtureNames(file[t].module) :
    \E f \in ResolveFixture(x, file[t].module) : decl[f].autouse

\* TestInfo.check_parametrization: resolve, build the request graph, report.  Of the
\* names that run out of fixtures some are not reported, as a mark supplies them; the
\* marks, and the order in which the requests are followed, are those of RequestGraph.
CheckCached(t) ==
  /\ CheckTest(t)
  /\ RememberAnswers(t)
  /\ AutouseResolve(t)
  /\ \E E \in SUBSET {x \in Requested(t) : RunsOut(x, Found(file[t].module))} :
       unresolved' = unresolved \cup ({t} \X E)
  /\ UNCHANGED <<decl, autouseNames, crashed>>

\* The untyped item is found after the fixtures were resolved, unless it stands in the
\* first mark that can be read; no graph is built in either case.
WaitCached(t) ==
  /\ WaitInCheck(t)
  /\ RememberAnswers(t) \/ UNCHANGED cache
  /\ UNCHANGED <<decl, autouseNames, unresolved, crashed>>

CrashOnAutouse(t) ==
  /\ CheckTest(t)
  /\ RememberAnswers(t)
  /\ ~ AutouseResolve(t)
  /\ crashed' = TRUE
  /\ UNCHANGED <<decl, autouseNames, unresolved>>

\* lru_cache holds 128 answers and drops the oldest; which one that is depends on
\* all the files of the run, so any answer may go between two checks.
Evict(key) ==
  /\ cache' = [k \in DOMAIN cache \ {key} |-> cache[k]]
  /\ UNCHANGED <<vars, decl, autouseNames, unresolved, crashed>>

CachedNext ==
  \/ ~ crashed /\ \E n \in Position :
        \/ Schedule(n) \/ PublishCached(n)
        \/ CheckCached(n) \/ WaitCached(n) \/ CrashOnAutouse(n)
  \/ ~ crashed /\ NextPass /\ UNCHANGED cacheVars
  \/ ~ crashed /\ \E key \in DOMAIN cache : Evict(key)
  \/ (crashed \/ Done) /\ UNCHANGED allVars

CachedSpec == CachedInit /\ [][CachedNext]_allVars

-----------------------------------------------------------------------------

\* Every variable has its type.
CachedTypeOK ==
  /\ TypeOK
  /\ decl \in [Position -> Declaration]
  /\ autouseNames \in [Modules -> SUBSET Names]
  /\ DOMAIN cache \subseteq Names \X Modules
  /\ \A key \in DOMAIN cache : cache[key] \subseteq published
  /\ unresolved \subseteq checked \X Names
  /\ crashed \in BOOLEAN

\* Sources for which the speculative wait works (see NoEarlyCheck).
Ordered == OneMark \/ OutermostFixtures

\* A cached answer of resolve_fixture is what a lookup would find now, so evicting
\* it changes nothing and all tests of a module see the same fixtures.
CacheCoherent ==
  Ordered => \A key \in DOMAIN cache : cache[key] = Lookup(key[1], key[2])

AllFound(m) == [x \in Names |-> Visible(x, m)]

\* "cannot be resolved" is reported for a name only if the finished sources answer it no
\* better: no visible module defines it, or each visible fixture of that name leads back
\* to a request for it.  A fixture that stands later in the cycle is not overlooked,
\* neither as the only one of its name nor as the one that another overrides.
NoFalseReport ==
  Ordered => \A r \in unresolved : RunsOut(r[2], AllFound(file[r[1]].module))

\* The AssertionError in RequestNode.from_autouse_name is unreachable; without Ordered a
\* cached answer may hide an autouse fixture that is published later.
NoCrash == Ordered => ~ crashed

=============================================================================
