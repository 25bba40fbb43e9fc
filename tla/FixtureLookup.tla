---------------------------- MODULE FixtureLookup ----------------------------
(***************************************************************************)
(* FixtureManager.resolve_fixture: the fixtures of one name that a test    *)
(* module can see, nearest first.                                          *)
(*                                                                         *)
(* The search goes through the module itself, the conftest of each package *)
(* around it, from the inside out, and at last the modules of pytest and   *)
(* its plugins, of which only the first that defines the name counts.      *)
(* Their order is that of a Python set: any.                               *)
(***************************************************************************)
EXTENDS Integers, Sequences, SequencesExt

CONSTANTS
  TestModules,  \* full names of test modules, sequences of parts
  Sources       \* the programs considered, see SourcesAssumption

Conftest == "conftest"

\* What stands under the name in a module: a fixture, one with autouse, a function without
\* decorators, with or without annotations, something else.
Entry == {"fixture", "autouse", "function", "untyped", "other"}

\* "entries" gives the entry of each loaded module that has one, "defaults" the order
\* of the modules of pytest and its plugins, loaded or not.
ASSUME SourcesAssumption ==
  \A s \in Sources :
    /\ s.defaults \in Seq(Seq(STRING))
    /\ s.entries \in [DOMAIN s.entries -> Entry]
    /\ IsInjective(s.defaults)
ASSUME TestModulesAssumption == TestModules \subseteq Seq(STRING) \ {<<>>}

VARIABLES
  source,      \* the program
  testModule,  \* the module of the test
  package,     \* name in conftest_names: the packages still to search are its prefixes
  stage,       \* what the search comes to next
  found        \* fixtures: the modules that answered, in order

lookupVars == <<source, testModule, package, stage, found>>

-----------------------------------------------------------------------------

ModuleName(name) == Front(name)
ConftestOf(name) == Append(name, Conftest)

IsFixture(module) ==
  module \in DOMAIN source.entries /\ source.entries[module] \in {"fixture", "autouse"}

\* _module_lookup: the fixture of a loaded module, if there is one.
Found(module) == IF IsFixture(module) THEN <<module>> ELSE <<>>

\* Fixture.save_to_autouse has listed the name in the module.
ListsAutouse(module) ==
  module \in DOMAIN source.entries /\ source.entries[module] = "autouse"

LookupInit ==
  /\ source \in Sources
  /\ testModule \in TestModules
  /\ package = testModule
  /\ stage = "module"
  /\ found = <<>>

\* Mistakes: leaving out the outermost conftest; stopping at the first answer;
\* searching from the outside in.
WithAnswerOfPackage(module) == IF Len(module) > 1 THEN found \o Found(module) ELSE found
WithFirstAnswer(module) == IF found = <<>> THEN Found(module) ELSE found
WithAnswerBefore(module) == Found(module) \o found

\* fixtures.append(fixture), if there is one.
WithAnswer(module) == found \o Found(module)

SearchModule ==
  /\ stage = "module"
  /\ found' = WithAnswer(testModule)
  /\ stage' = "conftest"
  /\ UNCHANGED <<source, testModule, package>>

\* while name: name = name.module_name; yield name.push_back("conftest")
SearchConftest ==
  /\ stage = "conftest" /\ package # <<>>
  /\ package' = ModuleName(package)
  /\ found' = WithAnswer(ConftestOf(ModuleName(package)))
  /\ UNCHANGED <<source, testModule, stage>>

\* _default_lookup: the first default module that has such a fixture.
DefaultLookup ==
  LET first == {k \in DOMAIN source.defaults :
                  /\ IsFixture(source.defaults[k])
                  /\ \A j \in 1..(k - 1) : ~ IsFixture(source.defaults[j])}
  IN IF first = {} THEN <<>> ELSE <<source.defaults[CHOOSE k \in first : TRUE]>>

SearchDefaults ==
  /\ stage = "conftest" /\ package = <<>>
  /\ found' = found \o DefaultLookup
  /\ stage' = "done"
  /\ UNCHANGED <<source, testModule, package>>

LookupNext == SearchModule \/ SearchConftest \/ SearchDefaults

LookupSpec ==
  /\ LookupInit
  /\ [][LookupNext \/ (stage = "done" /\ UNCHANGED lookupVars)]_lookupVars

-----------------------------------------------------------------------------

\* The conftest modules that a module can see, and all it can see.
Conftests(module) ==
  {ConftestOf(SubSeq(module, 1, n)) : n \in 0..(Len(module) - 1)}
VisibleTo(module) == {module} \cup Conftests(module) \cup Range(source.defaults)

\* FixtureManager.autouse_fixture_names contains the name.
Autouse == \E m \in VisibleTo(testModule) : ListsAutouse(m)

\* No two plugins define a fixture of this name; if two do and only the second has autouse,
\* the first answers for it and the AssertionError is reached.
OneDefault ==
  \A i, j \in DOMAIN source.defaults :
    (IsFixture(source.defaults[i]) /\ IsFixture(source.defaults[j])) => i = j

\* Tests live in no conftest and in no plugin.
PlainTest ==
  testModule \notin Conftests(testModule) \cup Range(source.defaults)

\* The answer lists each module once, and a module stands before those farther out: the
\* module of the test, then conftests of ever shorter names, then one plugin.
NearestFirst ==
  PlainTest =>
    \A i, j \in DOMAIN found : i < j =>
      \/ found[i] = testModule /\ found[j] # testModule
      \/ found[i] \in Conftests(testModule) /\
           \/ found[j] \in Conftests(testModule) /\ Len(found[j]) < Len(found[i])
           \/ found[j] \in Range(source.defaults)

\* No visible fixture is overlooked: each module around the test that defines one is in
\* the answer, and so is a plugin if any plugin defines one.
NoneOverlooked ==
  stage = "done" =>
    /\ \A m \in {testModule} \cup Conftests(testModule) : IsFixture(m) => m \in Range(found)
    /\ (\E m \in Range(source.defaults) : IsFixture(m)) =>
         Range(found) \cap Range(source.defaults) # {}

\* For a name in the autouse list, RequestNode.from_autouse_name finds a fixture with
\* autouse in the answer, also when a nearer fixture without autouse overrides it.
AutouseFound ==
  (stage = "done" /\ OneDefault /\ Autouse) => \E m \in Range(found) : ListsAutouse(m)

=============================================================================
