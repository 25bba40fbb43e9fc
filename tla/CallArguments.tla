---------------------------- MODULE CallArguments ----------------------------
(***************************************************************************)
(* Which expression of a call is the value of which formal?                *)
(*                                                                         *)
(* ArgMapper answers that for the marks, fixtures and patches the plugin   *)
(* reads, IterableSequenceChecker for the calls in tests.  Both take apart *)
(* what mypy's map_formals_to_actuals says of the call.                    *)
(*                                                                         *)
(* An actual and a formal are identified by their positions.               *)
(***************************************************************************)
EXTENDS Integers, Sequences, SequencesExt, FiniteSetsExt

\* mypy.nodes.ArgKind
PositionalKinds == {"pos", "opt", "star"}
FormalKinds == PositionalKinds \cup {"named", "named_opt", "star2"}
ActualKinds == {"pos", "star", "named", "star2"}
Plain == {"pos", "named"}         \* an actual that is one value

Unknown == -1                     \* length of a starred actual that is no tuple
NoName == ""

\* "length" is that of a starred tuple.
IsActual(a) == /\ a.kind \in ActualKinds
               /\ a.kind = "star" => a.length \in Nat \cup {Unknown}
               /\ a.kind = "named" => a.name # NoName

\* Formals in the order that Python's grammar has for their kinds, with different names.
Rank(kind) == CASE kind \in {"pos", "opt"} -> 1 [] kind = "star" -> 2 [] kind = "star2" -> 4
                [] OTHER -> 3
IsSignature(formals) ==
  /\ formals \in Seq(Range(formals))
  /\ \A f \in DOMAIN formals : formals[f].kind \in FormalKinds
  /\ \A f, g \in DOMAIN formals : f < g =>
       /\ Rank(formals[f].kind) <= Rank(formals[g].kind)
       /\ formals[f].kind = formals[g].kind => formals[f].kind \notin {"star", "star2"}
       /\ formals[f].name = formals[g].name => formals[f].name = NoName

\* Forms of callees: a def, an @overload, an instance of a class with its own __call__ (a
\* def or an @overload), anything else.
CalleeForms == {"function", "overloaded", "instance", "other"}

-----------------------------------------------------------------------------

\* The first formal of one of these kinds, or the place behind the last formal.
FirstOf(formals, kinds) ==
  Min({f \in DOMAIN formals : formals[f].kind \in kinds} \cup {Len(formals) + 1})

\* The formals that the k-th positional value meets.
PlaceOf(formals, k) ==
  LET variadic == FirstOf(formals, {"star", "star2"}) IN
  IF k < variadic THEN {k} \cap DOMAIN formals
  ELSE {variadic} \cap {f \in DOMAIN formals : formals[f].kind = "star"}

\* How many positional values mypy takes actual a to be, of which the first is the k-th.  A
\* starred actual that is no tuple is as long as the formals allow.
Width(a, formals, k) ==
  LET last == FirstOf(formals, FormalKinds \ {"pos", "opt"})
      variadic == IF last \in DOMAIN formals /\ formals[last].kind = "star" THEN 1 ELSE 0
  IN CASE a.kind = "pos" -> 1
       [] a.kind = "star" -> IF a.length # Unknown THEN a.length
                                                   ELSE variadic + Max({0, last - k})
       [] OTHER -> 0

\* How many positional values the first j actuals are.
Before(call, formals) ==
  LET before[j \in 0..Len(call)] ==
        IF j = 0 THEN 0 ELSE before[j - 1] + Width(call[j], formals, before[j - 1] + 1)
  IN before

\* The formals met by an actual that is no ** argument.
Direct(call, formals, i) ==
  LET before == Before(call, formals)
      named == {f \in DOMAIN formals : formals[f].name = call[i].name /\ formals[f].kind # "star"}
  IN IF call[i].kind = "named"
       THEN IF named # {} THEN named ELSE {f \in DOMAIN formals : formals[f].kind = "star2"}
       ELSE UNION {PlaceOf(formals, k) : k \in (before[i - 1] + 1)..before[i]}

\* What is left for a ** argument: formals that can be named and have no value yet, or one
\* out of a starred actual, and the variadic one.
LeftOver(call, formals) ==
  {f \in DOMAIN formals :
     LET met == {i \in DOMAIN call : call[i].kind # "star2" /\ f \in Direct(call, formals, i)} IN
     \/ formals[f].name # NoName /\ formals[f].kind # "star"
        /\ (met = {} \/ call[Min(met)].kind = "star")
     \/ formals[f].kind = "star2"}

\* map_formals_to_actuals: the formals that actual i may be the value of.
FormalsOf(call, formals, i) ==
  IF call[i].kind = "star2" THEN LeftOver(call, formals) ELSE Direct(call, formals, i)

\* check_argument_count finds nothing wrong with the call.
AcceptedByMypy(call, formals) ==
  LET actualsOf(f) == {i \in DOMAIN call : f \in FormalsOf(call, formals, i)} IN
  /\ \A i \in DOMAIN call : call[i].kind \in Plain => FormalsOf(call, formals, i) # {}
  /\ \A f \in DOMAIN formals :
       /\ formals[f].kind \in Plain => actualsOf(f) # {}
       /\ formals[f].kind \notin {"star", "star2"} =>
            \A i \in actualsOf(f) : call[i].kind \in Plain => actualsOf(f) = {i}
       /\ (formals[f].kind \in {"named", "named_opt"} /\ actualsOf(f) # {}) =>
            call[Min(actualsOf(f))].kind \in {"named", "star2"}

-----------------------------------------------------------------------------

AcceptedKinds == {"pos", "named"}

\* _named_arg_callable_mapping: a dictionary, so of two actuals of one name the last stays.
CallableMapping(call, formals) ==
  LET kept(x) == {i \in DOMAIN call :
                    \E f \in DOMAIN formals :
                      /\ FormalsOf(call, formals, i) = {f}
                      /\ formals[f].kind \in AcceptedKinds
                      /\ formals[f].name = x}
      names == {formals[f].name : f \in DOMAIN formals} \ {NoName}
  IN [x \in {y \in names : kept(y) # {}} |-> Max(kept(x))]

\* A mistake: the first overload decides.
MergedWithFirst(mappings) == Head(mappings)

\* _merge_mappings, reduced over the overloads: what all of them say.
Merged(mappings) ==
  LET agreed == {x \in DOMAIN Head(mappings) :
                   \A m \in Range(mappings) : x \in DOMAIN m /\ m[x] = Head(mappings)[x]}
  IN [x \in agreed |-> Head(mappings)[x]]

\* bind_self, for the __call__ of an instance.
Bound(callee) ==
  IF callee.form = "instance" THEN [k \in DOMAIN callee.signatures |-> Tail(callee.signatures[k])]
                              ELSE callee.signatures

\* named_arg_mapping
NamedArgMapping(call, callee) ==
  IF callee.form = "other" THEN <<>>
  ELSE Merged([k \in DOMAIN callee.signatures |-> CallableMapping(call, Bound(callee)[k])])

\* named_arg: the keyword arguments of this name, if there is exactly one.
NamedArg(call, name) ==
  LET named == {i \in DOMAIN call : call[i].kind = "named" /\ call[i].name = name}
  IN {i \in named : named = {i}}

-----------------------------------------------------------------------------

\* A mistake: a starred actual counts as the sequence it is.
SingleFormalOfAny(call, formals) ==
  {p \in (DOMAIN call) \X (DOMAIN formals) : FormalsOf(call, formals, p[1]) = {p[2]}}

\* actuals_formals_mapping_bijective_subset
SingleFormal(call, formals) ==
  {p \in (DOMAIN call) \X (DOMAIN formals) :
     call[p[1]].kind \in Plain /\ FormalsOf(call, formals, p[1]) = {p[2]}}

\* check_iterable_sequence_call: the actuals reported.  A "sequence" is a subtype of Sequence,
\* "iterable" is the type Iterable and no subtype.
IterableReports(call, callee) ==
  IF callee.stdlib \/ callee.form # "function" THEN {}
  ELSE {i \in DOMAIN call : \E f \in DOMAIN callee.signatures[1] :
          /\ <<i, f>> \in SingleFormal(call, callee.signatures[1])
          /\ call[i].sequence
          /\ callee.signatures[1][f].iterable}

-----------------------------------------------------------------------------
(* What Python does with such a call. *)

\* What actual a may be written out to: a number of positional values, and keywords.
Written(a, formals) ==
  LET names == {formals[f].name : f \in DOMAIN formals} \ {NoName}
      lengths == IF a.length = Unknown THEN 0..Len(formals) ELSE {a.length}
  IN CASE a.kind = "pos" -> [count : {1}, names : {{}}]
       [] a.kind = "named" -> [count : {0}, names : {{a.name}}]
       [] a.kind = "star" -> [count : lengths, names : {{}}]
       [] OTHER -> [count : {0}, names : SUBSET names]

\* A call with each actual written out.
Expansions(call, formals) ==
  {e \in [DOMAIN call -> UNION {Written(a, formals) : a \in Range(call)}] :
     \A i \in DOMAIN call : e[i] \in Written(call[i], formals)}

\* How many positional values the first j actuals give.
Given(e) ==
  LET given[j \in 0..Len(e)] == IF j = 0 THEN 0 ELSE given[j - 1] + e[j].count
  IN given

\* The places of the values of actual i among all positional values.
Places(e, i) == (Given(e)[i - 1] + 1)..Given(e)[i]

\* The formals that take the positional value at a place, the value of a keyword.
AtPlace(formals, p) ==
  LET own == {f \in DOMAIN formals : f = p /\ formals[f].kind \in {"pos", "opt"}}
  IN IF own # {} THEN own ELSE {f \in DOMAIN formals : formals[f].kind = "star"}
ByName(formals, x) ==
  LET own == {f \in DOMAIN formals : formals[f].name = x /\ formals[f].kind \notin {"star", "star2"}}
  IN IF own # {} THEN own ELSE {f \in DOMAIN formals : formals[f].kind = "star2"}

\* The actuals that give formal f a positional value, a value by keyword.
Placing(e, formals, f) == {i \in DOMAIN e : \E p \in Places(e, i) : f \in AtPlace(formals, p)}
Naming(e, formals, f) == {i \in DOMAIN e : \E x \in e[i].names : f \in ByName(formals, x)}
GivenBy(e, formals, f) == Placing(e, formals, f) \cup Naming(e, formals, f)

\* Python accepts the call: every value is taken, no keyword comes twice, no formal is taken
\* twice or left out.
Legal(e, formals) ==
  /\ \A i \in DOMAIN e : /\ \A p \in Places(e, i) : AtPlace(formals, p) # {}
                         /\ \A x \in e[i].names : ByName(formals, x) # {}
  /\ \A i, j \in DOMAIN e : i # j => e[i].names \cap e[j].names = {}
  /\ \A f \in DOMAIN formals :
       /\ formals[f].kind \notin {"star", "star2"} =>
            Placing(e, formals, f) = {} \/ Naming(e, formals, f) = {}
       /\ formals[f].kind \in {"pos", "named"} => GivenBy(e, formals, f) # {}

LegalExpansions(call, formals) == {e \in Expansions(call, formals) : Legal(e, formals)}

=============================================================================
