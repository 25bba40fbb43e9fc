---------------------------- MODULE MCNameLookup ----------------------------
(* Programs for the run of NameLookup. *)
EXTENDS NameLookup

\* A test in nested packages, one at the top, and a conftest (which may be configured
\* to hold tests).
SomeTestModules == {<<"p", "q", "t">>, <<"t">>, <<"p", Conftest>>}

Plugins == {<<"x">>, <<"y">>}

Around == SomeTestModules \cup {<<"p", "q", Conftest>>, <<Conftest>>}

\* Every module may have no entry or any of these; the plugins come in any order.
SearchSources ==
  [entries    : UNION {[S -> {"fixture", "autouse", "other"}] : S \in SUBSET (Around \cup Plugins)},
   defaults   : {<<>>, <<<<"x">>>>, <<<<"x">>, <<"y">>>>, <<<<"y">>, <<"x">>>>},
   loaded     : {Around \cup Plugins \cup {<<"p">>, <<"p", "q">>}},
   attributes : {<<>>}]

\* Packages with attributes: of the name of a submodule or others, and functions in packages,
\* too.
Named == {<<"p">>, <<"p", "q">>, <<"p", "q", "t">>, <<"p", Conftest>>}
Places == {<<"p", "q">>, <<"p", "q", "t">>, <<"p", "c">>, <<"p", "q", "c">>, <<"p", Conftest>>}
AttributeSources ==
  {s \in [entries    : UNION {[S -> {"fixture", "function", "untyped"}] : S \in SUBSET Named},
          defaults   : {<<>>},
          loaded     : {Named, Named \cup {<<"t">>}, Named \ {<<"p", Conftest>>}, {<<"p", "q", "t">>}},
          attributes : UNION {[S -> Attribute] : S \in {T \in SUBSET Places : Cardinality(T) <= 2}}] :
     /\ DOMAIN s.entries \subseteq s.loaded
     /\ \A a \in DOMAIN s.attributes :
          Front(a) \in s.loaded /\ (s.attributes[a] = "module" => a \in s.loaded)}

SomeSources == SearchSources \cup AttributeSources

SomeTargets ==
  {<<"p">>, <<"n">>, <<"p", "n">>, <<"p", "q", "n">>, <<"p", "q", "t">>, <<"p", "q", "t", "n">>,
   <<"p", "q", "c">>, <<"p", "q", "c", "n">>, <<"p", "c", "n">>, <<"p", "q", "t", "c">>}

=============================================================================
