--------------------------- MODULE MCRequestGraph ---------------------------
(* Tests for the runs of RequestGraph. *)
EXTENDS RequestGraph, SequencesExt

FixturesWith(n, scopes) ==
  {[arguments |-> s, scope |-> sc] : s \in BoundedSeq(Names, n), sc \in scopes}

Tests(answers, firsts, autouses, params) ==
  [fixtures : answers, requests : firsts, autouse : autouses, parametrized : params]

\* A name has no fixture, one with up to two arguments, or two with up to one each.
GraphAnswers ==
  {f \in [Names -> BoundedSeq(FixturesWith(2, {"function"}), 1)
                     \cup BoundedSeq(FixturesWith(1, {"function"}), 2)] :
     Cardinality({x \in Names : Len(f[x]) > 1}) <= 1}

GraphInputs ==
  Tests(GraphAnswers, {<<"a">>}, {<<"c">>}, {{}, {"b", "c"}}) \cup
  Tests(GraphAnswers, {<<"a", "b">>}, {<<>>}, {{}})

\* Chains of fixtures of three lifetimes and of unknown ones.
ScopeInputs ==
  Tests([Names -> [1..1 -> FixturesWith(1, Scopes)]], {<<"a">>, <<"a", "b">>}, {<<>>}, {{}})

=============================================================================
