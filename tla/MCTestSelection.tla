-------------------------- MODULE MCTestSelection --------------------------
(* Files and configurations for the runs of TestSelection. *)
EXTENDS TestSelection

SomeNames == {<<"t">>, <<"t", "x">>, <<"x", "t">>}
SomeFunctions == {f \in [name : SomeNames, first : 1..Lines, last : 1..Lines] : f.first <= f.last}

\* Up to three functions of one line or more.
SomeFiles == {s \in BoundedSeq(SomeFunctions, 2) \cup [1..3 -> {f \in SomeFunctions : f.name # <<"t">>}] :
                InOrder(s)}

SomePatterns == {<<"t">>, <<"t", "x">>, <<"*", "t">>, <<"x", "*">>}
SomeConfigs == {c \in SUBSET SomePatterns : c # {}}

\* A test module and a conftest in a package, and a module outside.
SomeModules == {<<<<"x">>, <<"t", "x">>>>, <<<<"t">>, Conftest>>, <<<<"x">>>>}

\* test_*.py and *_test.py, a file without wildcard, and one with a directory.
SomeFileConfigs ==
  {{<<"t", "*", ".py">>, <<"*", "t", ".py">>}, {<<"x", ".py">>}, {<<"x">>}, {<<"x", "/", "*", ".py">>}}

=============================================================================
