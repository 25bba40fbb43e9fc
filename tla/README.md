# A formal model of mypy-pytest

mypy-pytest is a mypy plugin: while mypy type-checks a program, the plugin checks
how its pytest tests, fixtures and parametrize marks fit together. This directory
holds TLA+ modules of the parts of the plugin that have state or a non-trivial
algorithm, TLC configurations that model-check them, and TLAPS proofs about them.
`PROJECT.json` maps every definition to the lines it models; paths below are
relative to `src/mypy_pytest_plugin/`.

To repeat a run: `tlc -config MCDeferredChecking.cfg MCDeferredChecking.tla`.
To repeat the proofs: `tlapm CachedResolutionProofs.tla`, and so on for each `*Proofs.tla` and
`Counting.tla`.

## 1. Inventory

| Component (files) | State | Operations | Interacts with |
|---|---|---|---|
| **Deferral and scheduling** (`plugin.py`, `defer.py`, `excluded_test_checker.py`) | `_deferred_tests` (ids of tests that waited speculatively); mypy's deferred nodes | `check_pytest_structure` with REQUIRED_WAIT and SPECULATIVE_WAIT, `is_test` | called by mypy once per pytest decorator per visit; publishes fixtures, starts test checks |
| **Publishing of fixtures** (`fixture.py`) | the symbol's type (`FixtureType`), the `__autouse__` union of the module | `from_decorator`, `as_fixture_type`, `save_to_autouse`, `from_type` | read by the fixture manager, in this run or out of mypy's cache |
| **Fixture manager** (`fixture_manager.py`, `fullname.py`) | `lru_cache` of `resolve_fixture`, the default fixture modules | `resolution_sequence`, `resolve_fixture`, `resolve_fixtures`, `autouse_fixture_names` | asked by test info; reads what is published so far |
| **Request graph** (`request_graph.py`, `request_node.py`) | `requests`, `visited_fixture_ids`, the recursion path | `RequestGraphBuilder.build`, `_check_resolved`, `_check_scope`, `_check_request_types`, `_meet_requests`, `_check_unmarked_fixture` | gets `available_fixtures` from the fixture manager |
| **Request parser** (`request.py`, `use_fixtures_parser.py`, `use_fixture_names_parser.py`, `names_parser.py`) | lists of requests | `parse_fn_def`, `from_type`, `extend`, `requests_from_call_args` | feeds test info and fixtures |
| **Test info** (`test_info.py`, `argnames_parser.py`, `decorator_wrapper.py`) | `_used_argnames`, cached properties | `from_fn_def`, `check`, `_check_arg_name`, `_check_repeated_arg_name` | request graph, signatures |
| **Test selection** (`test_name_checker.py`, `test_body_ranges.py`, `pytest_config_manager.py`) | name and file patterns; line ranges of tests per file | `is_test_file_name`, `is_test_fn_name`, `TestBodyRanges.__contains__` | the hooks for calls, `get_additional_deps` |
| **Signatures and values** (`test_signature.py`, `one_item_test_signature.py`, `many_items_test_signature.py`, `argvalues.py`, `test_case.py`) | the case that is checked next | what a case, an item and the whole list of values must be | test info gives the types; mypy's checker decides |
| **Argument mapper** (`argmapper.py`) | none | `named_arg_mapping`, `named_arg`: which expression is the value of which formal, for defs, overloads and instances | the readers of marks, patches and params |
| **Iterable checker** (`iterable_sequence_checker.py`) | none | reports sequences passed for an `Iterable` | the hook for calls, the ranges of test bodies |
| **Mock and patch checkers** (`mock_call_checker.py`, `patch_call_checker.py`, `object_patch_call_checker.py`, `checker_wrapper.py`) | none | look the target of a patch up by its full name | mypy's symbol tables |
| Mark checkers (`mark_checker.py`, `param_mark_checker.py`, `return_type_checker.py`) | none | one type test per call | mypy |

How they interact: mypy visits the statements of an import cycle in passes. Each
application of a pytest decorator calls `check_pytest_structure`, which first decides
whether the function is a fixture or a test, with what has a type by then; if it
cannot, it defers the function. A fixture is published. A test waits once more, then
it is checked: the request parser reads its arguments, the fixture manager looks them
up (through a cache), the request graph connects them, and the parametrize marks are
held against the graph: their names against the requests, their values against the types
of the requests. Other calls (patches, params, and whatever stands in the body of a test)
are shown to the plugin one by one and checked on their own.

What is hard here:

- *Order.* What a test is told depends on what mypy has visited. The waits are the only
  thing between a correct program and a false report, they are kept in a set shared
  by all modules of a cycle, and they are cleared by any function that waits.
- *Stale answers.* `resolve_fixture` is cached for the run, the autouse list is not.
- *Termination.* Neither kind of wait has a limit, and one of them is raised in the middle of
  a check; fixtures may request each other.
- *Overriding.* A fixture may request the one it overrides; the index into the list
  of fixtures of a name is the number of requests on the path.
- *Restart.* Out of mypy's cache a fixture has a type but no definition.
- *Starred arguments and overloads.* Which expression a formal gets is known before the
  call only in part; the plugin reads marks and patches through mypy's guess.
- *Full names* do not say where the module ends; the plugin tries prefixes, Python imports.
- *Values of marks* are compared in three ways, by how they are written; pytest takes them
  apart by how the names are written.
- *Assertions and look-ups that must not fail*: `raise AssertionError()` in
  `request_node.py:32`, the dictionary access in `request_graph.py:46`.

`PROJECT.json` lists each hazard with its line and the properties that cover it.

## 2. The modules

### DeferredChecking: in which order fixtures are published and tests checked

`Visit(n)` is one application of a decorator of statement `n`: `Accept` when it has no
hook, else one of the outcomes of `check_pytest_structure`. `RequiredWait` is the
handler of `DeferralError(REQUIRED_WAIT)` (`plugin.py:149-157`), with `MustWait` its
conditions: a decorator without type (`fixture.py`, `_is_fixture_decorator`) or an
assignment of the module without type (`excluded_test_checker.py:44-47`). `SpeculativeWait`
is `_is_deferred` when it adds the test. When it does not, the check begins (`BeginCheck`), and
it ends in one of two ways: `CheckTest` is a complete `TestInfo.check`; `WaitInCheck` is the
REQUIRED_WAIT of `names_parser.py:41-45`, which leaves the check at an item of an argnames list
that has no type. mypy gives a type to everything in a list but the starred expression itself,
so this happens to the tests that are `starred`, each time. (A test without annotations is never
checked, section 4, so it is not starred either. The same wait for an argument of `usefixtures`,
`use_fixtures_parser.py:38-40`, cannot occur: `is_fixture_and_mark` has waited for the decorators
before, and a starred argument of a call has a type.) `pass`, `todo`, `visited`, `deferredNodes`
and `NextPass` are mypy's (external). `begun` and `early` are history variables: tests whose check
has begun, and those for which it began before a fixture that is published later.

### CachedResolution: what that means for the answers (EXTENDS DeferredChecking)

Adds what the functions declare, the autouse lists, the `lru_cache` and the reports.
`PublishCached` is `as_fixture_type` with `save_to_autouse`; `CheckCached` resolves all
names a test needs, fills the cache and reports; `CrashOnAutouse` is the same check
ending in the `AssertionError` of `from_autouse_name`; `WaitCached` is `WaitInCheck`, before or
after the cache is filled; `Evict` is the cache's limit of
128, as a choice. Which of several fixtures of one name wins is left to RequestGraph; here
any of the names that run out of fixtures may be reported (`RunsOut`): those that have none, and
those for which each fixture found leads back to a request for the name, as it must when the
level in `request_graph.py:45-48` is past the end of the list.

### FixtureClosure and FixtureResolution: which names a test can need

`FixtureClosure` is abstract: names become known one by one, each needed by a known
one, until all are. `FixtureResolution` is the worklist of `resolve_fixtures`
(`fixture_manager.py:92-105`), one action per turn of each loop, with
`ImplementsClosure` the refinement (`known <- DOMAIN available`).

### RequestGraph: who requests what (EXTENDS FixtureResolution)

The recursion of `resolve_request` is `stack`; its names are the code's `path`, so
`Level(name)` is `path.count(name)`. `AddRequest` records a node and follows a fixture
not yet visited. `ResolveArgument` keeps the code's rebinding of `request` (`bound`).
`requester`, in a node, is not in the code: it is the truth that `sourceName` is
compared with. A fixture is identified by its name and its place in the list, as the
code does with `id`.

### Parametrization: marks against the graph (EXTENDS RequestGraph)

`CheckMark` is `_check_argnames_and_argvalues` for one mark, with `_used_argnames`
carried along (`Remembered`); `SkipMark` one whose names cannot be parsed. With the steps it
inherits, `CheckSpec` is `TestInfo.check` from the worklist to the last mark.

### CallArguments: which expression is the value of which formal

Operators, no state. `FormalsOf` is mypy's `map_formals_to_actuals` and `AcceptedByMypy` its
`check_argument_count` (both external). `CallableMapping`, `Merged`, `Bound` and
`NamedArgMapping` are `argmapper.py`, `SingleFormal` and `IterableReports` are
`iterable_sequence_checker.py`. The reference is Python: an expansion of a call writes each
actual out to a number of positional values and a set of keywords (`Expansions`), `AtPlace` and
`ByName` say which formal takes a value, `Legal` keeps the expansions that the callee accepts,
and `GivenBy` says which actuals give a formal its value.

### MarkValues: one mark, its values and what is requested (EXTENDS CallArguments)

The actions are the parts of `TestInfo.check` in their order: `ReadMark`
(`decorator_wrapper.py`), `MeetTypes` (`_meet_requests`), then `CheckCase` for each case
(`check_sequence_against`) or `CheckEntire` for an expression, and `CheckRequestTypes`
(request against fixture). A type is the set of classes it admits, or `Any`, so meeting types is
intersecting them in any order (`MetType`). `FitsCase`,
`FitsEntire`, `FitsOneItem` and `FitsManyItems` are the test signatures. `Passed`, `Takes`
and `Typed` are what pytest does with a case.

### RequestParsing: what a test requests and a fixture is published with

`FromDefinition` with `Flaw` (`request.py:84-135`), `ValidExtras` and `Extend` for
`usefixtures`, `FromType` for a type without definition. `Rejection` lists the reasons
for which a fixture is not published, in the order of `is_fixture_and_mark` and
`from_decorator`; `DeclaredScope` and `DeclaredAutouse` read the keywords. `PassUntypedTest` is
the `return None` for a test that has no type, as it has no annotations (`HasType`). `LookUp` takes the
published type apart again. `RestartFromCache` is a new run of mypy that loads the module
from its cache: the definition is gone, and the member of the enumeration `FixtureScope`
has become an integer, for that is what a literal is stored as (`member`).

### FixtureLookup: where a fixture is looked for

Names of modules are sequences, as `Fullname` has them. `SearchModule`, `SearchConftest`
(once per package) and `SearchDefaults` are the steps of `resolution_sequence`.

### NameLookup: what else is found by name (EXTENDS FixtureLookup)

`LookupFullname` is `lookup_fullname`: of the prefixes that are modules, the first that leads
to a node of the wanted kind. `CheckUnmarkedFixture` is the note "is defined in '...', but not
marked as a fixture", made after a search of FixtureLookup; `CheckPatch` the look-up of a
patch's target. `Imported` is Python's: import as far as possible, then take attributes. Both
are recursive functions along the full name, one from its shortest module, one from its last.

### TestSelection: which files and functions are tests

`IsTestFileName` with the path that is made of a module's name, asked by `AddDependencies`
(with the last name) and by `CheckCall` (with the full name); `IsTestFnName` with its
`fnmatch`, the ranges of `TestBodyRanges` (`TestsAmong` collects them), and the place `bisect_left` finds among
their upper ends (`BisectLeft`). A
name is a sequence of letters, of which there are two; `Fnmatch` is a matcher for `*`, with
pattern and name in either order, and the suffix `.py` counts as one letter.

### CallHooks: which checker gets a call (EXTENDS TestSelection, CallArguments)

mypy goes through a file line by line. `ReadCall` is a call with a hook of its own, of which
arguments are read by name (a patch, a param); `CheckIterables` and `PassIterables` are the
hook for all others, on a line of a test or not; `LeaveCall` is the way to the next.

## 3. The runs

All runs check deadlock. Every passing property has a mutant: a wrong version of one
action or operator, kept above the right one under "A mistake", that breaks it.

| Run | Instance | What it shows |
|---|---|---|
| deferred | 4 statements, modules 1 and 2 or one, up to 2 decorators, every kind of statement, exclusions, tests with starred items | no check begins early, none of an excluded test, nothing forgotten, three passes enough, no second check, which programs mypy ends on, no test starves behind a starred one |
| deferred_early_check | 3 statements, several marks | **violation**: two marks on a test skip the speculative wait |
| cached_resolution | 3 functions in a test module and its conftest, 2 names, all declarations with at most one argument | coherent cache, a report only where the finished sources run out of fixtures, no crash |
| test_check | 3 names; a name with up to 2 fixtures, up to 2 arguments; autouse; chains over 4 scopes; up to 3 marks | closure computed exactly; no failing look-up; acyclic, complete graph; scopes; unknown and repeated names; values checked once; the check ends |
| request_source | the same tests, one scope, without marks | **violation**: requests after the first are attributed to the argument before |
| request_parsing | all legal signatures of up to 3 arguments over 3 names and `request`, 5 lists of extra names, keywords and malformed fixtures | nothing lost of what has a type, same after restart |
| request_parsing_cache | the same | **violation**: an ignored default argument is requested out of the cache |
| fixture_scope_cache | the same | **violation**: a scope out of the cache has no name |
| name_lookup | tests at 2 depths and in a conftest, 2 plugins in any order, any modules with any entries; packages with up to 2 attributes of any kind, 10 patch targets | nearest first, none overlooked, autouse found; notes name the right modules; "does not exist" is right |
| call_hooks | 5 lines, up to 3 functions, 4 patterns in any sets, 3 modules, 4 file patterns; in one file, argument lists of up to 3 with stars, signatures of up to 3 formals, pairs of overloads | calls on lines of tests; conftests known where tests are checked; a plain argument that is read is what Python binds; sequences for iterables noticed |
| mark_values | 1 or 2 names, none to 2 cases of every form and shape, items of 3 types and `Any`; calls with keywords and stars; up to 3 requests, fixtures of 3 return types | without a report every value fits every request; what fits is not reported |
| test_selection_globs | 5 lines, the same patterns and files | **violation**: patterns with wildcards select nothing |

*Bounds.* The schedule is decided by pairs: a test and a fixture, a test and an
assignment, a function that waits and clears the wait of another. Four statements allow
two such pairs, in any order and over two modules, and a starred test, which waits in the second
pass at the earliest, beside a test, a fixture and an assignment; `MaxPass = 4` is above the three
passes needed, so a fourth is seen, and the counter stays there. The proofs cover the
other sizes. For the graph, three names allow a cycle with a name outside it, two
fixtures of one name the override, and `CompleteGraph` needs one fixture reached on two
paths, which they give. Four scopes give inversions at distance two and the unknown one.
Five lines give a body of one line, a gap, and lines before and behind. The bounds on
signatures include every pair of argument kinds in both orders. In calls, two formals of any
kinds and two or three arguments give a star before, between and behind plain arguments, and a
tuple too short or too long; the checks of a call do not depend on the file, so one file of
`call_hooks` has all calls and the others one. Two overloads that share names suffice, as
`_merge_mappings` works pairwise. The cases of a mark are checked independently, so two
show that one does not hide the other; two names and three requests give two requests for
one name with another in between. Attributes come in pairs, so that a class in one package can
stand before a module in the other.

*Fairness.* mypy is sequential and runs until it has nothing to do; so `WF(Next)` in
DeferredChecking and weak fairness of the steps of a check in Parametrization. The loop
over deferred nodes is taken to have no limit on passes. `Terminates` says both ways when mypy
ends: exactly if no function waits for ever (`WaitsForever`), for an assignment that is never
visited or for the type of a starred item.

*Assumptions on sources.* `NoEarlyCheck` is stated for sources in which functions have
one mark, or fixtures have `pytest.fixture` outermost; the violation run shows the rest.
`AtMostThreePasses` needs assignments that mypy reaches and tests without starred items,
`NoTestStarves` the former and functions with one mark (section 4); that a check is not begun again
is said of tests without starred items. `NothingLost` is about functions that have a type. `AutouseFound`
is stated for default modules that agree (`OneDefault`), `NearestFirst` for a test module that is
no conftest (`PlainTest`), what is said about full names for packages that do not hide a submodule
or a conftest behind an attribute (`Unshadowed`) and tests that mypy has loaded, `ReadIsBound` and
`IterablesNoticed` for calls mypy accepts of signatures that a `def` can have (`IsSignature`;
`pytest.param` has the keyword `marks`), `ReadIsBound` moreover only for arguments that have no star
themselves, beside any that have one (section 4, `argmapper.py:55`), and the claims about values for
those whose type is not `Any`.

## 4. Findings

The five violations are listed with their lines in `PROJECT.json`. In addition, these
disagreements were met while modelling; no run is kept for them:

- `excluded_test_checker.py:47`: an assignment that mypy does not reach (behind a
  `return` or under a false condition) never gets a type, so the tests of its module wait
  with REQUIRED_WAIT in every pass, and mypy does not end (`WaitsForAssignment`), though
  `defer.py:6` says of the wait "cannot compute value until another node has been processed".
- `names_parser.py:43`: the item `*NAMES` of `parametrize(["x", *NAMES], ...)` never gets a type;
  the check of the test begins in the second pass, breaks off with REQUIRED_WAIT, and does so again
  after each speculative wait. mypy does not end (`WaitsForItem`), and what the check reports
  before the item it reports each time. Each of these waits clears the speculative waits of all
  tests: a starred test with two marks does so in every pass, as does a test that waits for an
  unreachable assignment, and then other tests wait for ever, too (hence the conditions of
  `NoTestStarves`).
- `request.py:87` and `test_info.py:46`: a test without annotations has no type, so it is passed
  over: its marks are not read, nothing is requested or reported. `README.md:8-11` has the
  plugin check tests without such a condition; the sample `invalid_test.py:53-55` has one such test,
  about which only mypy says something (`[no-untyped-def]`, when that option is on). Hence the
  condition of `NothingLost`.
- `checker_wrapper.py:86`: the target of a patch that is a class or a module, an inherited
  method or an attribute of an object is reported as "does not exist."; `README.md:20` has the
  check as "You're mocking something that exists".
- `argmapper.py:55`: a starred argument that meets one formal is read as if it were its value
  (`decorator_wrapper.py:49`): `f(*xs, **kw)` reads `kw` for a formal, `parametrize("x", *[[1, 2]])`
  the outer list as the values. `iterable_sequence_checker.py:79` asks for the kind. Hence
  `ReadIsBound` speaks of arguments without a star.
- Behind `f(*xs, "a", **kw)` mypy's mapping is a guess, so with `*xs` of unknown length a report
  about a sequence may speak of another formal than Python's.
- `request_graph.py:182`: a function without annotations has no type, so there is no note that
  it lacks the mark.
- A package attribute with the name of a submodule changes what `lookup_fullname` finds, and
  not what Python does.
- A package attribute called `conftest` that is no module makes the note about functions without
  the mark name a conftest that does not exist (`request_graph.py:182`).
- A `ParameterSet` in a variable, for one name in a string whose requests accept a `ParameterSet`
  itself (an `object`, say), fits as it is (`one_item_test_signature.py`), and pytest takes it apart,
  with however many values it has: hence the exception `TakenAsItIs` in `SilentIsTyped`.
- `request_node.py:32`: the `AssertionError` is reachable after an early check (the cached
  answer hides an autouse fixture published later), and with two plugins that define one
  name, the second with autouse (`fixture_manager.py:154` takes the first). Both were
  found as counterexamples; hence the conditions `Ordered` and `OneDefault`.
- `error_codes.py:110` says "wider scopes", `request_graph.py:193` reports narrower ones.
- `test_info.py:199`: the note "shadowed by another parameter" is also given for a name
  behind an overridden fixture, where there may be no other parameter.
- `plugin.py:49` and `plugin.py:138` ask for the same file by its last and by its full name:
  with a directory in `python_files` the tests of a file are checked, but its conftests are
  not among its dependencies. Hence the condition of `TestFilesLinked`.
- `plugin.py:128`: `enable_test_attribute` passes the full name, with the module.
- `fixture_manager.py:54`: the default modules are a tuple of a set, in no fixed order.

## 5. The proofs

tlapm checks all of them, with SMT, Zenon and LS4; no fact is left without proof. The named
assumptions of the modules are the only ones. What they all use on numbers is in `Counting`: a
least and a greatest number, induction up to a number (`UpTo`, for sets, as the induction of
the library takes an operator), and `Iteration`, by which a recursive function that a definition
picks with `CHOOSE` is shown to be the function its equation describes.

- **CachedResolutionProofs**, in two parts. *The schedule* (DeferredChecking): `TypeCorrect`, and
  from one inductive invariant `NoEarlyCheckCorrect`, `ExclusionCorrect`,
  `NothingForgottenCorrect`, `PassesCorrect`, `BegunOnceCorrect`, for every size, set of modules,
  number of decorators and set of sources. The properties are not inductive: that a test in
  `deferredTests` can be checked safely holds because no required wait happened since it was put
  there, so every fixture passed since then is published and the rest is still to come in this
  pass. The invariant says what has been visited in which pass: in the first every statement
  before the current one, after it all reachable ones; who may wait in each pass, where a starred
  test may wait in all of them, which `PassesCorrect` excludes and the other theorems allow; and
  what membership in `deferredTests` implies in each. *The cache* (CachedResolution):
  `CachedImplementsSchedule`, each step of the checks with cache is a step or a stutter of
  DeferredChecking, so its theorems carry over. With `NoEarlyCheck` a cached answer was given when
  everything reachable was published, so it stays right: `CacheCoherentCorrect`,
  `NoFalseReportCorrect` (what runs out at the check runs out in the finished sources),
  `NoCrashCorrect`. `CachedTypeCorrect` needs that the rounds in which a
  check collects names lead from names to names.
- **RequestGraphProofs**, in three parts. *The worklist* (FixtureResolution):
  `ResolvedIsClosedCorrect`, `OnlyNeededCorrect` for any table of fixtures: nothing is lost (what a
  known fixture needs is known, queued or about to be queued) and nothing is extra (what is queued
  is needed). `ImplementsClosureSafety`: every step learns one needed name or is a stutter of
  `FixtureClosure`. *The traversal*: `GraphTypeCorrect`, `NoKeyErrorCorrect` and
  `ResolvedAcyclicCorrect`, for any test and any fixtures. The first two rest on `GraphInv`: the
  traversal begins when the worklist is done, so the dictionary is closed, and each fixture
  followed is one the dictionary has. Acyclicity is not inductive: `DepthFirst` adds that the k-th
  fixture of a name on the stack is the k-th that defines it, so an answer is never being
  followed; that requests lead from finished fixtures to finished ones only; and that on the stack
  they lead inwards. *The graph when it is built*: `CompleteGraphCorrect` counts: a fixture on
  the stack has as many requests as arguments passed, a finished one as many as arguments, the test
  as many as were taken, and what answers some request is what was visited; it needs that no
  fixture is on the stack twice, or one request would count for two.
  `NoReportMeansOutlivesCorrect` relates fixtures any number of requests apart: with `ScopeInv` a
  request has the scope of its requester, so without a report each edge leads to a fixture that
  lives as long, and the fixtures that live as long as a given one are closed under edges, whichever
  request followed a fixture first. `NoFalseMissingCorrect` rests on `Chain`, what is followed was
  requested by what is followed around it: a name requested more often on one path than it has
  fixtures would have been requested by names that it needs itself.
- **ParametrizationProofs.** `CheckImplementsGraph`: the check of the marks is a refinement of the
  traversal, so the theorems about the graph hold during it. `CheckTypeCorrect`,
  `RepeatedIsReportedCorrect` (the marks are checked from the top, so of the uses of a name only the
  topmost goes unreported) and `SilentIsSuppliedCorrect` follow from one invariant: what is
  remembered is what the marks above the current one supply, what they report is what they
  should, and nothing is checked before the graph is built. `UnknownIsUnneededCorrect` needs a
  second one, `RequestedInv`: what the traversal has passed is requested, the nearest fixture of
  each requested name is followed, and nothing is requested that some closed set can do without.
- **FixtureLookupProofs.** `NearestFirstCorrect`, `NoneOverlookedCorrect` and
  `AutouseFoundCorrect`, for names of any length. The search order alone is not inductive: the
  invariant adds that the packages still to search are prefixes of the test's name, that each
  answer stands at a place the search has passed, and that what was passed has been gathered.
  `UnmarkedIsDefinedCorrect` and `PatchedExistsCorrect` compare the two ways along a full name.
  Both are walks (`Walks`): where no submodule is hidden, a walk from an earlier prefix finds
  nothing or comes through the next module (`NextModule`), so whichever prefix answers, the answer
  is that of the innermost module (`AnswerOfInnermost`), where Python's import ends.
- **RequestParsingProofs.** `NothingLostCorrect`, `AnswersSurviveRestartCorrect`, for any
  arguments, marks and keywords; the first for functions that have a type. `ParseInv` says that a published type and every answer are what
  the decorator and the definition say; the lemmas are about what list comprehensions and
  `filter_unique` keep: the members, and the order.
- **MarkValuesProofs.** `ValuesTypeCorrect`, `SilentIsTypedCorrect`, `NoFalseReportsCorrect`, for any
  marks, cases and requests. `ValuesInv` says at each stage that without a report all was right so
  far, and that for each report something is wrong. The rest is about one case: it fits the met
  types exactly if all who request a name accept its item (`FitsExpected`), and a case that is
  accepted, in each of the three ways it can be compared, is one that pytest takes apart that way.
- **CallHooksProofs.** `HooksImplementSelection`: the run over all calls is a refinement of
  TestSelection. `CallsOfTestsCorrect`: the collected ranges are those of the tests, all of them, in
  the order of the file, from which the place among the upper bounds decides about the line; the
  invariant carries that over the lines behind. `TestFilesLinkedCorrect`. `ReadIsBoundCorrect` and
  `IterablesNoticedCorrect`, for calls with any number of actuals, any signatures and overloads.
  The state is simple (`HooksInv`: what is kept of a call is what its hook makes of it); the
  argument is that mypy and Python count positional values alike up to the first argument of
  unknown length (`SameCount`), and that mypy takes such an argument for so many values that no
  formal with a place of its own is left behind it (`AllFilled`): what mypy gives to one formal is
  what Python gives it (`GivenAsSeen`). Behind such an argument only the variadic formal can be
  meant; there the call is written out with an argument that fills all places and without keywords
  for them (`Stretched`), which is legal if anything is, because mypy would have refused a keyword
  for a place that is filled.

Only model-checked, as out of the prover's reach: liveness (`Terminates`, `CheckEnds`, the
termination of the worklist, the fairness half of `ImplementsClosure`). Every other property of a
passing run is a theorem. The five violations are counterexamples of TLC.

## 6. Not modelled

- mypy itself: its passes, type inference, symbol tables and cache are the environment, and so
  is its mapping of arguments (`FormalsOf`), which is modelled as far as the plugin uses it.
- Types: a type is a set of classes or `Any`. Type variables, generics, protocols and the
  types of the requests that a parser makes are mypy's; `is_subtype` and `meet_types` are
  inclusion and intersection.
- `mark_checker.py`, `param_mark_checker.py` and `return_type_checker.py`: one stateless test of a
  type each. `error_codes.py` is a list of names.
- The attribute `__test__` that `plugin.py:128` adds to functions: nothing in the plugin reads the
  type it changes.
- Stubs (`*.pyi`) and their injection into mypy's search path; how pytest finds its plugins.
- Wording and positions of messages, except the name in "requested by".
- What happens to a function whose fixture was rejected, if it is called like a test.
- Arguments that mypy makes up for a call (`plugin.py:145`, `_is_real_argument`): such a call is
  recorded like one that was checked without a report. A string that is given as argvalues.

## 7. Plan

1. RequestParsing composed with RequestGraph: the graph, and the report about scopes, of a
   fixture out of the cache, with the theorem that without default values it is the same.
2. FixtureLookup composed with FixtureResolution: the tables it answers instead of arbitrary ones,
   as a refinement, so that the theorems about the graph hold for them.
3. Several marks in MarkValues, so that the values of one mark and the names of another are held
   against one graph.
4. mypy's mapping behind an argument of unknown length: for which signatures it is more than a
   possibility.
