------------------------- MODULE MCCachedResolution -------------------------
(* Sources for the runs of CachedResolution. *)
EXTENDS CachedResolution

Function(kind, m, decorators, hooked) ==
  [kind |-> kind, module |-> m, decorators |-> decorators,
   hooked |-> hooked, hides |-> {}, starred |-> FALSE]

\* A fixture with or without an outer decorator, a test with one or two marks, and one
\* whose mark has a starred item.
Functions ==
  UNION {{Function("fixture", m, 1, {1}), Function("fixture", m, 2, {1}),
          Function("test", m, 1, {1}), Function("test", m, 2, {1, 2}),
          [Function("test", m, 1, {1}) EXCEPT !.starred = TRUE]} : m \in Modules}

CycleFiles == {f \in [Position -> Functions] : WellFormed(f)}

\* Module 2 is a test module, module 1 the conftest beside it.
NearestFirst == [m \in Modules |-> 1..m]

SmallDeclarations ==
  [Position -> {d \in Declaration : Cardinality(d.requests) <= 1}]

=============================================================================
