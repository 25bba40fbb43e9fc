-------------------------- MODULE DeferredChecking --------------------------
(***************************************************************************)
(* In which order the plugin publishes fixtures and checks tests.          *)
(*                                                                         *)
(* mypy type-checks the files of an import cycle in passes.  The first     *)
(* pass visits the top-level statements in order; each later pass visits   *)
(* the statements that were deferred during the previous one, until none   *)
(* is.  Visiting a decorated function applies its decorators innermost     *)
(* first, and every application of a pytest mark or of pytest.fixture      *)
(* calls PytestPlugin.check_pytest_structure with the whole function.      *)
(*                                                                         *)
(* The hook cannot read what has no type yet, so it waits (DeferralReason. *)
(* REQUIRED_WAIT), and it postpones a test once more so that the fixtures  *)
(* of the file are published before the test asks for them                 *)
(* (SPECULATIVE_WAIT, remembered in PytestPlugin._deferred_tests).         *)
(*                                                                         *)
(* The passes, the order of visits and defer_node belong to mypy and are   *)
(* modelled from the way the plugin relies on them; they have no line.     *)
(***************************************************************************)
EXTENDS Integers

CONSTANTS
  Size,           \* number of top-level statements of the import cycle
  Modules,        \* its modules, numbered in the order mypy visits them
  MaxDecorators,  \* most decorators on one function
  MaxPass,        \* passes are counted up to here
  Files           \* the sources considered: functions from Position to Statement

Position == 1..Size

(***************************************************************************)
(* A statement is an assignment, a statement that ends the module (mypy    *)
(* does not visit what follows it), or a decorated function: a fixture, a  *)
(* test, a helper (marked, but without the name of a test), or a "marked"  *)
(* function (a fixture under a mark, which the plugin rejects).  "hooked"  *)
(* are the decorators whose application calls the hook; "hides" are the    *)
(* functions whose __test__ attribute the assignment sets to False; a test *)
(* is "starred" if it is annotated and a mark lists its argnames with a    *)
(* starred item ([*NAMES]), an expression that never gets a type.          *)
(***************************************************************************)
Kind == {"assign", "exit", "fixture", "test", "helper", "marked"}

Statement == [kind       : Kind,
              module     : Modules,
              decorators : 0..MaxDecorators,
              hooked     : SUBSET (1..MaxDecorators),
              hides      : SUBSET Position,
              starred    : BOOLEAN]

\* Functions have decorators and at least one hook, other statements none, a
\* fixture has one hook, only tests matter when starred, and the modules follow
\* each other.
WellFormed(f) ==
  /\ \A n \in Position :
       /\ f[n].hooked \subseteq 1..f[n].decorators
       /\ f[n].kind \in {"assign", "exit"} <=> f[n].hooked = {}
       /\ f[n].kind = "fixture" => \E h \in f[n].hooked : f[n].hooked = {h}
       /\ f[n].starred => f[n].kind = "test"
  /\ \A m, n \in Position : m < n => f[m].module <= f[n].module

ASSUME SizeAssumption == Size \in Nat /\ MaxDecorators \in Nat
ASSUME ModulesAssumption == Modules \subseteq Nat
ASSUME PassAssumption == MaxPass \in Nat /\ MaxPass >= 4
ASSUME FilesAssumption ==
  \A f \in Files : f \in [Position -> Statement] /\ WellFormed(f)

VARIABLES
  file,           \* the source being checked
  pass,           \* the current pass
  todo,           \* statements mypy has still to visit in this pass
  layer,          \* decorator being applied to the first of them
  visited,        \* statements whose expressions all have types
  deferredNodes,  \* mypy's deferred nodes: statements of the next pass
  deferredTests,  \* PytestPlugin._deferred_tests
  published,      \* fixtures whose symbol has a FixtureType
  begun,          \* tests whose check has begun
  checked,        \* tests whose requests were checked
  early           \* tests whose check began before all reachable fixtures were published

vars == <<file, pass, todo, layer, visited, deferredNodes, deferredTests,
          published, begun, checked, early>>

-----------------------------------------------------------------------------

\* mypy stops visiting a module at the first statement that cannot complete.
Reachable(n) ==
  \A m \in Position :
    (m < n /\ file[m].module = file[n].module) => file[m].kind # "exit"

Of(kind) == {n \in Position : file[n].kind = kind}
ReachableFixtures == {n \in Of("fixture") : Reachable(n)}
AssignmentsOf(m) == {n \in Of("assign") : file[n].module = m}

\* "<test>.__test__ = False" stands in the module of the test.
Excluded(n) == \E a \in AssignmentsOf(file[n].module) : n \in file[a].hides

\* What ExcludedTestChecker sees of that: the values that have a type by now.
Ignored(n) == \E a \in AssignmentsOf(file[n].module) \cap visited : n \in file[a].hides

\* The statement mypy visits next (or is visiting).
IsNext(n) == n \in todo /\ \A m \in todo : n <= m

\* While a function is visited for the first time, only the decorators up to
\* the one being applied have a type.
DecoratorsTyped(n) == n \in visited \/ layer = file[n].decorators

\* A mistake: trusting the assignments seen so far.
AssignmentsTypedSoFar(n) == n \in Position

\* is_test looks at every assignment of the module before it looks at the name.
AssignmentsTyped(n) == AssignmentsOf(file[n].module) \subseteq visited

\* What the hook waits for before it decides what n is.  (Inside a check it may
\* have to wait again: WaitInCheck.)
MustWait(n) ==
  \/ ~ DecoratorsTyped(n)
  \/ file[n].kind \in {"test", "helper"} /\ ~ AssignmentsTyped(n)

-----------------------------------------------------------------------------

Init ==
  /\ file \in Files
  /\ pass = 1
  /\ todo = {n \in Position : Reachable(n)}
  /\ layer = 1
  /\ visited = {}
  /\ deferredNodes = {}
  /\ deferredTests = {}
  /\ published = {}
  /\ begun = {}
  /\ checked = {}
  /\ early = {}

\* On to the next decorator of n, or to the next statement.
Advance(n) ==
  /\ IF layer < file[n].decorators
       THEN layer' = layer + 1 /\ UNCHANGED <<todo, visited>>
       ELSE layer' = 1 /\ todo' = todo \ {n} /\ visited' = visited \cup {n}
  /\ UNCHANGED <<file, pass>>

\* mypy handles an assignment, the end of a module or a decorator without hook.
Accept(n) ==
  /\ IsNext(n) /\ layer \notin file[n].hooked
  /\ Advance(n)
  /\ UNCHANGED <<deferredNodes, deferredTests, published, begun, checked, early>>

AtHook(n) == IsNext(n) /\ layer \in file[n].hooked

\* Mistakes the properties below must reveal.
RequiredWaitKeepingTests(n) ==
  /\ AtHook(n) /\ MustWait(n)
  /\ deferredNodes' = deferredNodes \cup {n}
  /\ Advance(n)
  /\ UNCHANGED <<deferredTests, published, begun, checked, early>>

RequiredWaitDroppingNode(n) ==
  /\ AtHook(n) /\ MustWait(n)
  /\ deferredTests' = {}
  /\ Advance(n)
  /\ UNCHANGED <<deferredNodes, published, begun, checked, early>>

\* A type is missing: defer the function and forget every speculative wait.
RequiredWait(n) ==
  /\ AtHook(n) /\ MustWait(n)
  /\ deferredNodes' = deferredNodes \cup {n}
  /\ deferredTests' = {}
  /\ Advance(n)
  /\ UNCHANGED <<published, begun, checked, early>>

\* The function becomes a FixtureType that resolve_fixture can find.
PublishFixture(n) ==
  /\ AtHook(n) /\ ~ MustWait(n)
  /\ file[n].kind = "fixture"
  /\ published' = published \cup {n}
  /\ Advance(n)
  /\ UNCHANGED <<deferredNodes, deferredTests, begun, checked, early>>

\* A mistake: not asking for the name.
IsTestWhateverName(n) == ~ Ignored(n)

IsTest(n) == file[n].kind = "test" /\ ~ Ignored(n)

\* Neither a fixture nor a test that is collected.
Ignore(n) ==
  /\ AtHook(n) /\ ~ MustWait(n)
  /\ file[n].kind # "fixture" /\ ~ IsTest(n)
  /\ Advance(n)
  /\ UNCHANGED <<deferredNodes, deferredTests, published, begun, checked, early>>

\* Mistakes: forgetting the other tests, forgetting this one, checking it anyway.
SpeculativeWaitForOne(n) ==
  /\ AtHook(n) /\ ~ MustWait(n)
  /\ IsTest(n) /\ n \notin deferredTests
  /\ deferredTests' = {n}
  /\ deferredNodes' = deferredNodes \cup {n}
  /\ Advance(n)
  /\ UNCHANGED <<published, begun, checked, early>>

SpeculativeWaitUnrecorded(n) ==
  /\ AtHook(n) /\ ~ MustWait(n)
  /\ IsTest(n) /\ n \notin deferredTests
  /\ deferredNodes' = deferredNodes \cup {n}
  /\ Advance(n)
  /\ UNCHANGED <<deferredTests, published, begun, checked, early>>

SpeculativeWaitAfterCheck(n) ==
  /\ AtHook(n) /\ ~ MustWait(n)
  /\ IsTest(n) /\ n \notin deferredTests
  /\ deferredTests' = deferredTests \cup {n}
  /\ deferredNodes' = deferredNodes \cup {n}
  /\ begun' = begun \cup {n} /\ checked' = checked \cup {n}
  /\ Advance(n)
  /\ UNCHANGED <<published, early>>

\* First hook of a test since the last required wait: let the file go first.
SpeculativeWait(n) ==
  /\ AtHook(n) /\ ~ MustWait(n)
  /\ IsTest(n) /\ n \notin deferredTests
  /\ deferredTests' = deferredTests \cup {n}
  /\ deferredNodes' = deferredNodes \cup {n}
  /\ Advance(n)
  /\ UNCHANGED <<published, begun, checked, early>>

\* The next hook: TestInfo.check begins, with the fixtures published so far.
BeginCheck(n) ==
  /\ AtHook(n) /\ ~ MustWait(n)
  /\ IsTest(n) /\ n \in deferredTests
  /\ begun' = begun \cup {n}
  /\ early' = IF ReachableFixtures \subseteq published
                THEN early ELSE early \cup {n}
  /\ Advance(n)

CheckTest(n) ==
  /\ BeginCheck(n)
  /\ ~ file[n].starred
  /\ checked' = checked \cup {n}
  /\ UNCHANGED <<deferredNodes, deferredTests, published>>

\* A mistake: reading the marks before the test has waited for the file.
WaitBeforeSpeculating(n) ==
  /\ AtHook(n) /\ ~ MustWait(n) /\ IsTest(n)
  /\ file[n].starred
  /\ deferredNodes' = deferredNodes \cup {n}
  /\ deferredTests' = {}
  /\ Advance(n)
  /\ UNCHANGED <<published, begun, checked, early>>

\* NamesParser raises REQUIRED_WAIT in the middle of the check, at the item that has
\* no type: the rest of the check is left out, and the next visit starts afresh.
WaitInCheck(n) ==
  /\ BeginCheck(n)
  /\ file[n].starred
  /\ deferredNodes' = deferredNodes \cup {n}
  /\ deferredTests' = {}
  /\ UNCHANGED <<published, checked>>

NextPass ==
  /\ todo = {} /\ deferredNodes # {}
  /\ todo' = deferredNodes
  /\ deferredNodes' = {}
  /\ pass' = IF pass < MaxPass THEN pass + 1 ELSE pass
  /\ UNCHANGED <<file, layer, visited, deferredTests, published, begun, checked, early>>

Done == todo = {} /\ deferredNodes = {}

Finished == Done /\ UNCHANGED vars

Visit(n) ==
  \/ Accept(n)
  \/ RequiredWait(n)
  \/ PublishFixture(n)
  \/ Ignore(n)
  \/ SpeculativeWait(n)
  \/ CheckTest(n)
  \/ WaitInCheck(n)

Next == (\E n \in Position : Visit(n)) \/ NextPass \/ Finished

Spec == Init /\ [][Next]_vars

\* mypy runs until it is done: a step that is possible is taken.
FairSpec == Spec /\ WF_vars(Next)

-----------------------------------------------------------------------------

\* Every variable has its type.
TypeOK ==
  /\ file \in Files
  /\ pass \in 1..MaxPass
  /\ todo \subseteq {n \in Position : Reachable(n)}
  /\ layer \in 1..(MaxDecorators + 1)
  /\ todo = {} => layer = 1
  /\ \A n \in Position : IsNext(n) => (layer = 1 \/ layer <= file[n].decorators)
  /\ visited \subseteq Position
  /\ deferredNodes \subseteq {n \in Position : Reachable(n)}
  /\ deferredTests \subseteq Of("test")
  /\ published \subseteq ReachableFixtures
  /\ begun \subseteq Of("test")
  /\ checked \subseteq begun
  /\ early \subseteq begun

\* Every function has one pytest decorator.
OneMark ==
  \A n \in Position : file[n].hooked # {} => \E h \in 1..MaxDecorators : file[n].hooked = {h}

\* Every fixture has pytest.fixture as its outermost decorator.
OutermostFixtures == \A n \in Of("fixture") : file[n].decorators \in file[n].hooked

\* No assignment follows the end of its module.
AssignmentsReachable == \A n \in Of("assign") : Reachable(n)

(***************************************************************************)
(* What SPECULATIVE_WAIT is for ("requires other nodes in the file to be   *)
(* processed to ensure correctness"): when the check of a test begins,     *)
(* every fixture of the cycle that ever gets published has been.           *)
(* plugin.py clears the speculative waits at every required wait for this; *)
(* it suffices for functions with one mark, whatever other decorators they *)
(* have, and for files whose fixtures never wait for a decorator.          *)
(***************************************************************************)
NoEarlyCheck == (OneMark \/ OutermostFixtures) => early = {}

\* The same for every file: two marks on one test let it pass the speculative
\* wait within a single visit (finding).
ChecksFollowFixtures == early = {}

\* Functions that are deferred in every pass: the hook needs the type of an assignment
\* that mypy never visits, or the check that of a starred item.
Collected(n) == file[n].kind = "test" /\ Reachable(n) /\ ~ Excluded(n)

WaitsForAssignment(n) ==
  /\ file[n].kind \in {"test", "helper"} /\ Reachable(n)
  /\ \E a \in AssignmentsOf(file[n].module) : ~ Reachable(a)

WaitsForItem(n) == Collected(n) /\ file[n].starred

WaitsForever == \E n \in Position : WaitsForAssignment(n) \/ WaitsForItem(n)

\* The check of a test excluded by "test.__test__ = False" never begins, wherever in
\* the module the assignment stands.
ExcludedNeverChecked == \A n \in begun : ~ Excluded(n)

\* No deferral loses a function: a test that is collected is checked or still to be
\* visited, and a reachable fixture is published or still to be visited.
NothingForgotten ==
  \A n \in Position \ (todo \cup deferredNodes) :
    /\ Collected(n) => n \in checked
    /\ n \in ReachableFixtures => n \in published

\* A test with one mark is not deferred again once its check has begun, so that its
\* errors are reported once; the exception are starred tests, whose check begins,
\* reports and breaks off again and again.
NotDeferredOnceBegun ==
  [][OneMark => \A n \in begun \cap deferredNodes' : file[n].starred]_vars

\* When no function waits for ever, the waits cost at most two more passes.
AtMostThreePasses ==
  (AssignmentsReachable /\ ~ \E n \in Position : WaitsForItem(n)) => pass <= 3

\* mypy comes to an end exactly when no function waits for ever: "cannot compute
\* value until another node has been processed" (defer.py) is true of all other waits.
Terminates ==
  /\ ~ WaitsForever => <>Done
  /\ WaitsForever => [](~ Done)

\* Starred tests clear the speculative waits of all tests in some passes, but keep no
\* other test from being checked if every function has one mark (with two, a starred
\* test clears them in every pass, as a test that waits for an assignment does).
NoTestStarves ==
  \A n \in Position :
    (OneMark /\ AssignmentsReachable /\ Collected(n) /\ ~ file[n].starred)
      => <>(n \in checked)

=============================================================================
