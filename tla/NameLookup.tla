------------------------------ MODULE NameLookup ------------------------------
(***************************************************************************)
(* CheckerWrapper.lookup_fullname, and what is said to the user because of *)
(* it: "... is defined in '...', but not marked as a fixture." when a      *)
(* request has no fixture, and "'...' does not exist." for the target of   *)
(* a patch.                                                                *)
(*                                                                         *)
(* A full name does not say where its module ends.  The plugin tries each  *)
(* prefix that is a module, the shortest first, and takes the first under  *)
(* which it finds what it wants; Python imports modules as far as it can.  *)
(***************************************************************************)
EXTENDS FixtureLookup, FiniteSetsExt

CONSTANTS
  Name,      \* the name that FixtureLookup looks for
  Targets    \* arguments of patch, full names

\* What else a name in a module can stand for: its submodule of that name, a class that
\* defines Name as a method or inherits it, an object that has it.
Attribute == {"module", "class", "heir", "object"}

\* "loaded" are the modules mypy has read, "attributes" gives the kind of attributes by full
\* name.
ASSUME NamesAssumption ==
  \A s \in Sources :
    /\ DOMAIN s.entries \subseteq s.loaded
    /\ s.attributes \in [DOMAIN s.attributes -> Attribute]
    /\ \A a \in DOMAIN s.attributes :
         /\ Last(a) # Name /\ Front(a) \in s.loaded
         /\ s.attributes[a] = "module" => a \in s.loaded
ASSUME TargetsAssumption == Targets \subseteq Seq(STRING) \ {<<>>}

VARIABLES
  notes,     \* modules named in notes about functions that are not marked
  patch      \* the last call of patch: its target and what it is taken for

nameVars == <<lookupVars, notes, patch>>

-----------------------------------------------------------------------------

Nothing == [kind |-> "nothing", path |-> <<>>]
NodeOf(module) == [kind |-> "module", path |-> module]

\* resource.names[name].node: only modules and classes have names, and those of a class
\* leave out what it inherits.
Member(node, name) ==
  LET path == Append(node.path, name) IN
  CASE node.kind = "module" /\ name = Name /\ node.path \in DOMAIN source.entries ->
         [kind |-> source.entries[node.path], path |-> path]
    [] node.kind = "module" /\ path \in DOMAIN source.attributes ->
         [kind |-> source.attributes[path], path |-> path]
    [] node.kind = "class" /\ name = Name -> [kind |-> "function", path |-> path]
    [] OTHER -> Nothing

\* _lookup_fullname_in_module, for the first n parts of fullname: the node that the parts
\* behind them lead to, one by one.
LookupInModule(fullname, n) ==
  LET resource[k \in 0..(Len(fullname) - n)] ==
        IF k = 0 THEN NodeOf(SubSeq(fullname, 1, n)) ELSE Member(resource[k - 1], fullname[n + k])
  IN  resource[Len(fullname) - n]

\* The lengths of its prefixes that are modules.
ModulePrefixes(fullname) ==
  {n \in DOMAIN fullname : SubSeq(fullname, 1, n) \in source.loaded}

\* The node of one of these kinds that the shortest of these prefixes leads to.
FirstAnswer(fullname, prefixes, kinds) ==
  LET accepted == {n \in prefixes : LookupInModule(fullname, n).kind \in kinds}
  IN IF accepted = {} THEN Nothing ELSE LookupInModule(fullname, Min(accepted))

\* A mistake: only the outermost module is asked.
LookupOutermost(fullname, kinds) ==
  LET prefixes == ModulePrefixes(fullname)
  IN FirstAnswer(fullname, {n \in prefixes : n = Min(prefixes)}, kinds)

\* lookup_fullname, for a predicate that accepts nodes of these kinds.
LookupFullname(fullname, kinds) == FirstAnswer(fullname, ModulePrefixes(fullname), kinds)

\* isinstance(node, FuncDef)
FuncDefs == {"function", "untyped"}

\* hasattr(node, "type"): a class and a module have none.  Something else that is patched is
\* a variable.
Typed == Entry \cup {"object"}

\* lookup_fullname_type and _mock_bounds.  A function without annotations has no type yet.
PatchedAs(target) ==
  LET kind == LookupFullname(target, Typed).kind IN
  CASE kind = "nothing" -> "reported"
    [] kind = "function" -> "Mock"
    [] kind = "untyped" -> "any"
    [] OTHER -> "MagicMock"

-----------------------------------------------------------------------------

\* mypy is checking the module of the test.
NamesInit ==
  /\ LookupInit
  /\ testModule \in source.loaded
  /\ notes = {}
  /\ patch = [target |-> <<>>, as |-> "any"]

SearchFixtures == LookupNext /\ UNCHANGED <<notes, patch>>

\* _check_unmarked_fixture, when a request of the name has no fixture in the graph.  Without
\* a fixture in the answer that is so; behind the last override it is, too.
CheckUnmarkedFixture ==
  /\ stage = "done"
  /\ notes' = {m \in {testModule} \cup Conftests(testModule) :
                 LookupFullname(Append(m, Name), FuncDefs).kind = "function"}
  /\ stage' = "noted"
  /\ UNCHANGED <<source, testModule, package, found, patch>>

\* add_patch_generics of a call somewhere, which has nothing to do with all that.
CheckPatch ==
  /\ stage = "noted" /\ patch.target = <<>>
  /\ \E t \in Targets : patch' = [target |-> t, as |-> PatchedAs(t)]
  /\ UNCHANGED <<lookupVars, notes>>

NamesNext == SearchFixtures \/ CheckUnmarkedFixture \/ CheckPatch

NamesSpec == NamesInit /\ [][NamesNext \/ (stage = "noted" /\ UNCHANGED nameVars)]_nameVars

-----------------------------------------------------------------------------
(* What Python does with a full name. *)

\* pkgutil.resolve_name imports as many parts as it can, then getattr.
PythonMember(node, name) ==
  IF node.kind \in {"heir", "object"} /\ name = Name
    THEN [kind |-> "inherited", path |-> Append(node.path, name)]
    ELSE Member(node, name)
Imported(fullname) ==
  LET importable == {n \in DOMAIN fullname : \A m \in 1..n : SubSeq(fullname, 1, m) \in source.loaded}
      n == Max(importable)
      object[k \in 0..(Len(fullname) - n)] ==
        IF k = 0 THEN NodeOf(SubSeq(fullname, 1, n))
                 ELSE PythonMember(object[k - 1], fullname[n + k])
  IN IF importable = {} THEN Nothing ELSE object[Len(fullname) - n]

\* No package binds the name of one of its submodules, or "conftest", to something else, and
\* packages of loaded modules are loaded.
Unshadowed ==
  /\ \A a \in DOMAIN source.attributes :
       (a \in source.loaded \/ Last(a) = Conftest) => source.attributes[a] = "module"
  /\ \A m \in DOMAIN source.entries : Append(m, Name) \notin source.loaded
  /\ \A m \in source.loaded : Len(m) > 1 => Front(m) \in source.loaded

\* The note about a function that is not marked names just the modules around the test
\* whose own namespace has such a function, also when a package on the way is searched for
\* the same full name first.
UnmarkedIsDefined ==
  (stage = "noted" /\ Unshadowed) =>
    notes = {m \in {testModule} \cup Conftests(testModule) :
               m \in DOMAIN source.entries /\ source.entries[m] = "function"}

\* "does not exist" is right, but for classes, modules and what is inherited or belongs to
\* an object; and what Python would not find is always reported.
PatchedExists ==
  (patch.target # <<>> /\ Unshadowed) =>
    LET actual == Imported(patch.target).kind IN
    /\ actual \in {"nothing", "class", "heir", "module", "inherited"} => patch.as = "reported"
    /\ patch.as = "reported" => actual \in {"nothing", "class", "heir", "module", "inherited"}
    /\ patch.as = "Mock" => actual = "function"

=============================================================================
