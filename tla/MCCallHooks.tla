----------------------------- MODULE MCCallHooks -----------------------------
(* Calls for the run of CallHooks, in the files of MCTestSelection. *)
EXTENDS MCTestSelection, CallHooks

Actual(kind, name, length, sequence) ==
  [kind |-> kind, name |-> name, length |-> length, sequence |-> sequence]
Values(sequence) ==
  {Actual("pos", NoName, Unknown, sequence)} \cup
  {Actual("named", x, Unknown, sequence) : x \in {"x", "y"}}
Starred ==
  {Actual("star", NoName, n, TRUE) : n \in {1, 2, Unknown}} \cup
  {Actual("star2", NoName, Unknown, FALSE)}

\* What Python's grammar allows: no positional argument behind one with a name.
Grammatical(actuals) ==
  /\ \A i, j \in DOMAIN actuals : i < j =>
       /\ actuals[j].kind = "pos" => actuals[i].kind \notin {"named", "star2"}
       /\ actuals[j].kind = "star" => actuals[i].kind # "star2"
  /\ \A i, j \in DOMAIN actuals :
       (i # j /\ actuals[i].kind = "named" /\ actuals[j].kind = "named") =>
         actuals[i].name # actuals[j].name
ActualLists(actuals, n) == {s \in BoundedSeq(actuals, n) : Grammatical(s)}

Formal(kind, name, iterable) == [kind |-> kind, name |-> name, iterable |-> iterable]

\* Two formals of any kinds in the order Python has them, one of them an iterable; one formal.
Order(kind) == CASE kind = "pos" -> 1 [] kind = "opt" -> 2 [] kind = "star" -> 3
                 [] kind \in {"named", "named_opt"} -> 4 [] OTHER -> 5
SomeSignatures ==
  {<<Formal(k, "x", TRUE)>> : k \in FormalKinds} \cup
  {s \in {<<Formal(k, "x", TRUE), Formal(l, "y", FALSE)>> : k, l \in FormalKinds} \cup
         {<<Formal(k, "y", FALSE), Formal(l, "x", TRUE)>> : k, l \in FormalKinds} :
     /\ Order(s[1].kind) <= Order(s[2].kind)
     /\ s[1].kind \in {"star", "star2"} => s[1].kind # s[2].kind} \cup
  {<<Formal("pos", NoName, TRUE), Formal("opt", "y", TRUE)>>,
   <<Formal("pos", "x", TRUE), Formal("star", "y", TRUE), Formal("named", "z", TRUE)>>}

Callee(form, signatures, stdlib) == [form |-> form, signatures |-> signatures, stdlib |-> stdlib]
OfFunctions == {Callee("function", <<s>>, FALSE) : s \in SomeSignatures}

\* A few signatures that share names, for overloads.
Shared ==
  {<<Formal("pos", "x", TRUE)>>, <<Formal("pos", "x", TRUE), Formal("pos", "y", FALSE)>>,
   <<Formal("pos", "y", FALSE), Formal("pos", "x", TRUE)>>,
   <<Formal("pos", "x", TRUE), Formal("named", "y", FALSE)>>,
   <<Formal("pos", "x", TRUE), Formal("star", "y", FALSE)>>,
   <<Formal("opt", "x", TRUE), Formal("star2", "y", FALSE)>>}
Self == Formal("pos", "self", FALSE)
Overloads ==
  {Callee("overloaded", <<s, t>>, FALSE) : s, t \in Shared} \cup
  {Callee("instance", <<<<Self>> \o s, <<Self>> \o t>>, FALSE) :
     s \in Shared, t \in {<<Formal("pos", "x", TRUE)>>}} \cup
  {Callee("instance", <<<<Self>> \o s>>, FALSE) : s \in Shared} \cup
  {Callee("other", <<<<>>>>, FALSE)}

Call(origin, actuals, callee, real) ==
  [origin |-> origin, actuals |-> actuals, callee |-> callee, real |-> real]

\* pytest.param, and what it is called with.
Param == Callee("function", <<<<Formal("star", "values", FALSE), Formal("named_opt", "marks", FALSE),
                                Formal("named_opt", "id", FALSE)>>>>, FALSE)
OfParam == {Actual("pos", NoName, Unknown, FALSE)} \cup Starred \cup
           {Actual("named", x, Unknown, FALSE) : x \in {"marks", "id"}}

OneCall ==
  Call("other", <<Actual("pos", NoName, Unknown, TRUE)>>,
       Callee("function", <<<<Formal("pos", "x", TRUE)>>>>, FALSE), TRUE)

ManyCalls ==
  {Call("unittest.mock", a, f, TRUE) :
     a \in ActualLists(Values(FALSE) \cup Starred, 3), f \in Overloads} \cup
  {Call("unittest.mock", a, f, TRUE) :
     a \in ActualLists(Values(FALSE) \cup Starred, 2), f \in OfFunctions} \cup
  {Call(o, a, Param, TRUE) : o \in {"_pytest.mark.param", "_pytest.mark", "_pytest.fixtures"},
     a \in ActualLists(OfParam, 3)} \cup
  {Call("other", a, f, TRUE) :
     a \in ActualLists(Values(TRUE) \cup Values(FALSE) \cup Starred, 2), f \in OfFunctions} \cup
  {Call("other", a, f, TRUE) :
     a \in ActualLists(Values(TRUE) \cup Starred, 3), f \in OfFunctions} \cup
  {Call("other", OneCall.actuals, f, r) :
     f \in Overloads \cup {Callee("function", OneCall.callee.signatures, TRUE), OneCall.callee},
     r \in BOOLEAN}

\* All calls in one file that has a test, one call in the others.
SomeCalls(config) ==
  IF config = <<<<<<"x">>, <<"t", "x">>>>, <<[name |-> <<"t">>, first |-> 2, last |-> 2]>>, {<<"t">>},
               {<<"t", "*", ".py">>, <<"*", "t", ".py">>}>>
    THEN ManyCalls ELSE {OneCall}

=============================================================================
