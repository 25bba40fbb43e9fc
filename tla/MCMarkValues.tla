---------------------------- MODULE MCMarkValues ----------------------------
(* Marks and request graphs for the run of MarkValues. *)
EXTENDS MarkValues

Pos == [kind |-> "pos", name |-> NoName, length |-> Unknown]
Key(x) == [kind |-> "named", name |-> x, length |-> Unknown]
Star(n) == [kind |-> "star", name |-> NoName, length |-> n]
Star2 == [kind |-> "star2", name |-> NoName, length |-> Unknown]

NamesExpr(string, names) == [is |-> "names", string |-> string, names |-> names]
ValuesExpr(form, cases) == [is |-> "values", form |-> form, cases |-> cases]

SomeNames ==
  {NamesExpr(string, names) : string \in BOOLEAN, names \in {<<"a">>, <<"a", "b">>}} \cup
  {NamesExpr(TRUE, <<>>)}

Items == {{"int"}, {"str"}, {"int", "str"}}
ItemLists == {<<>>} \cup {<<t>> : t \in Items \cup {{"tuple"}, {AnyType}}} \cup
             {<<s, t>> : s, t \in Items}

SomeCases ==
  [form : {"literal", "opaque"}, shape : {"tuple", "list"}, items : ItemLists] \cup
  [form : {"literal"}, shape : {"set"}, items : {<<{"int"}>>, <<{"int"}, {"int"}>>}] \cup
  [form : {"param", "opaque"}, shape : {"ParameterSet"}, items : ItemLists] \cup
  [form : {"opaque"}, shape : {"value"}, items : {l \in ItemLists : Len(l) = 1}]

\* One case of any kind, or two of a few.
SomeValues ==
  {ValuesExpr(form, <<c>>) : form \in {"literal", "starred", "opaque"}, c \in SomeCases} \cup
  {ValuesExpr("literal", <<c, d>>) : c, d \in {e \in SomeCases : e.form # "opaque" /\ Len(e.items) = 1}} \cup
  {ValuesExpr("literal", <<>>)}

PlainMarks ==
  {[call |-> <<Pos, Pos>>, exprs |-> <<n, v>>] : n \in SomeNames, v \in SomeValues}

\* Other calls, with one kind of values.
OtherCalls ==
  {<<Pos, Key("argvalues")>>, <<Key("argnames"), Key("argvalues")>>, <<Pos>>, <<Pos, Star(1)>>,
   <<Pos, Star(Unknown)>>, <<Pos, Star2>>, <<Pos, Pos, Key("ids")>>}
Values1 == ValuesExpr("literal", <<[form |-> "opaque", shape |-> "value", items |-> <<{"int"}>>]>>)
OtherMarks ==
  {[call |-> c, exprs |-> [i \in DOMAIN c |-> IF i = 1 THEN n ELSE Values1]] :
     c \in OtherCalls, n \in SomeNames} \cup
  {[call |-> <<Key("argvalues"), Key("argnames")>>, exprs |-> <<Values1, n>>] : n \in SomeNames} \cup
  {[call |-> <<Pos, Pos>>, exprs |-> <<Values1, Values1>>]}

SomeMarks == PlainMarks \cup OtherMarks

Request(name, type, fixture) == [name |-> name, type |-> type, fixture |-> fixture]
Returns(class, type, yields) == [class |-> class, type |-> type, yields |-> yields]

Types == {{"int"}, {"int", "str"}, {"tuple"}}
Object == {"int", "str", "set", "list", "tuple", "ParameterSet"}
ArgumentRequests ==
  {<<Request("a", s, <<>>)>> : s \in Types \cup {{AnyType}, Object}} \cup
  {<<Request("a", s, <<>>), Request("b", t, <<>>)>> : s, t \in Types} \cup
  {<<Request("a", s, <<>>), Request("b", {"int"}, <<>>), Request("a", t, <<>>)>> :
     s, t \in Types \cup {{"str"}}}

FixtureRequests ==
  {<<>>} \cup {<<Request("f", {"int"}, <<Returns(class, t, yields)>>)>> :
                 class \in {"plain", "Iterator", "AsyncIterator"}, t \in {{"int"}, {"str"}, {AnyType}},
                 yields \in BOOLEAN}

SomeRequested ==
  ArgumentRequests \cup
  {<<Request("a", {"int"}, <<>>)>> \o f : f \in FixtureRequests}

=============================================================================
