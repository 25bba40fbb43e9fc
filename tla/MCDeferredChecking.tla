------------------------ MODULE MCDeferredChecking ------------------------
(* Sources for the runs of DeferredChecking. *)
EXTENDS DeferredChecking

\* A statement of each kind, with the decorators it may have in a small file.
Assignments == {[kind |-> "assign", decorators |-> 0, hooked |-> {}, hides |-> H, starred |-> FALSE] :
                 H \in {{}} \cup {{n} : n \in Position}}

Exits == {[kind |-> "exit", decorators |-> 0, hooked |-> {}, hides |-> {}, starred |-> FALSE]}

Functions(kinds, hooks) ==
  {[kind |-> k, decorators |-> MaxDecorators, hooked |-> H, hides |-> {}, starred |-> FALSE] :
    k \in kinds, H \in hooks}

\* Tests with a starred item in one of their marks.
Starred(functions) == {[f EXCEPT !.starred = TRUE] : f \in functions}

OneHook == {{h} : h \in 1..MaxDecorators}

In(s, m) == [kind |-> s.kind, module |-> m, decorators |-> s.decorators,
             hooked |-> s.hooked, hides |-> s.hides, starred |-> s.starred]

\* An assignment that hides something else than a test of its module hides nothing.
HidesTests(f) ==
  \A a \in Position : \A n \in f[a].hides :
    f[n].kind = "test" /\ f[n].module = f[a].module

Cycle(statements, modules) ==
  {f \in [Position -> {In(s, m) : s \in statements, m \in modules}] :
     WellFormed(f) /\ HidesTests(f)}

SimpleFunctions ==
  Functions({"fixture", "test"}, OneHook) \cup Functions({"helper", "marked"}, {{1}})
    \cup Starred(Functions({"test"}, {{1}}))

\* One mark on each function, in any of the modules; or several, in one module.
OneMarkFiles == Cycle(Assignments \cup Exits \cup SimpleFunctions, Modules)

ManyMarkFiles ==
  Cycle(Assignments \cup Exits \cup SimpleFunctions
          \cup Functions({"test", "marked"}, {1..MaxDecorators})
          \cup Starred(Functions({"test"}, {1..MaxDecorators})), {1})

AllFiles == OneMarkFiles \cup ManyMarkFiles

=============================================================================
