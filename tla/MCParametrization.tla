------------------------- MODULE MCParametrization -------------------------
(* Tests and their marks for the runs of Parametrization. *)
EXTENDS Parametrization, MCRequestGraph

\* A name has no fixture, one, or (one name only) two, with at most an argument each.
MarkedAnswers ==
  {f \in [Names -> BoundedSeq(FixturesWith(1, {"function"}), 2)] :
     Cardinality({x \in Names : Len(f[x]) > 1}) <= 1}

MarkedInputs == Tests(MarkedAnswers, {<<"a">>, <<"a", "b">>}, {<<>>}, SUBSET Names)

AllInputs == GraphInputs \cup ScopeInputs \cup MarkedInputs

\* Up to three marks, with one or two names; two unreadable ones.
SmallMarks ==
  {<<>>, <<<<"b">>>>, <<<<"b", "c">>>>, <<<<"b">>, <<"c">>, <<"b">>>>} \cup
  {<<m, n>> : m \in {<<"a">>, <<"b">>}, n \in {<<"a">>, <<"a", "b">>, <<"a", "?">>, <<"a", "a">>}}

=============================================================================
