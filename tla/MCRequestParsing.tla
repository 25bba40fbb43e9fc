-------------------------- MODULE MCRequestParsing --------------------------
(* Functions for the runs of RequestParsing. *)
EXTENDS RequestParsing, FiniteSets

\* Positional-only arguments come first, one variadic of each sort may follow, "**" is
\* last; of the others, none without a default follows one with, unless "*" is between.
Legal(s) ==
  /\ IsInjective(NamesOf(s))
  /\ \A i \in DOMAIN s : s[i].star # "no" => ~ s[i].optional /\ ~ s[i].posOnly
  /\ \A i, j \in DOMAIN s : i < j =>
       /\ s[j].posOnly => s[i].posOnly
       /\ s[i].star # "**" /\ (s[i].star = "*" => s[j].star # "*")
       /\ s[i].optional /\ s[j].star = "no" =>
            s[j].optional \/ \E k \in i..j : s[k].star = "*"

\* Only the type of an argument for the request object matters.
Typed(s) == \A i \in DOMAIN s : s[i].name # RequestName => s[i].accepts

SmallSignatures ==
  [source    : {"test", "fixture"},
   annotated : BOOLEAN,
   arguments : {s \in BoundedSeq({a \in Argument : Typed(<<a>>)}, 3) : Legal(s)}]

SmallExtras == {<<>>, <<"a">>, <<"a", "a">>, <<"b", "?", "a">>, <<"c", "b">>}

\* Every combination for a published fixture of some scopes, and every rejection.
SmallDecorators ==
  {d \in [fixtures : {1}, marked : {FALSE}, reserved : {FALSE},
          scope : {"absent", "computed", "session"}, autouse : {"absent", "computed", "true"}] :
     d.scope = "absent" \/ d.autouse = "absent"}
  \cup [fixtures : 1..2, marked : BOOLEAN, reserved : {TRUE}, scope : {"absent"}, autouse : {"absent"}]

=============================================================================
