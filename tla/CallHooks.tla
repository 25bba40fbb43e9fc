------------------------------ MODULE CallHooks ------------------------------
(***************************************************************************)
(* The calls that mypy shows to the plugin, one after the other, and which *)
(* checker gets them: PytestPlugin.get_function_hook and get_method_hook.  *)
(*                                                                         *)
(* Patches and pytest.param are read wherever they are, by formal names.   *)
(* Other calls are checked for sequences passed as iterables, if they      *)
(* stand in the body of a test (TestSelection).  Each line has one of      *)
(* these, and any number of the former.                                    *)
(***************************************************************************)
EXTENDS TestSelection, CallArguments

CONSTANT
  CallsIn(_)    \* the calls considered in a file, by its configVars, see IsCall

\* Where the called object is defined: what the hooks look at.
Origins == {"unittest.mock", "_pytest.mark.param", "_pytest.mark", "_pytest.fixtures", "other"}

IsCallee(c) ==
  /\ c.form \in CalleeForms /\ c.stdlib \in BOOLEAN
  /\ c.signatures \in Seq(Range(c.signatures)) /\ c.signatures # <<>>
  /\ c.form = "function" => Len(c.signatures) = 1
  /\ \A k \in DOMAIN c.signatures :
       /\ c.form # "other" => IsSignature(Bound(c)[k])
       /\ \A f \in DOMAIN c.signatures[k] : c.signatures[k][f].iterable \in BOOLEAN

\* pytest.param has a formal called "marks".  "real" is false for calls whose arguments have
\* no place in the file.
IsCall(c) ==
  /\ c.origin \in Origins /\ IsCallee(c.callee)
  /\ c.origin = "_pytest.mark.param" =>
       c.callee.form = "function" /\ \E f \in DOMAIN c.callee.signatures[1] :
         c.callee.signatures[1][f].name = "marks" /\ c.callee.signatures[1][f].kind = "named_opt"
  /\ c.actuals \in Seq(Range(c.actuals))
  /\ \A i \in DOMAIN c.actuals : IsActual(c.actuals[i]) /\ c.actuals[i].sequence \in BOOLEAN
  /\ c.real \in BOOLEAN /\ (c.actuals = <<>> => c.real)

ASSUME CallsAssumption ==
  \A config \in Modules \X Files \X Configs \X FileConfigs : \A c \in CallsIn(config) : IsCall(c)

VARIABLES
  call,      \* the call that was just seen, if one was, in a sequence
  read,      \* what is read of it: the actuals, by the name of the formal
  reported   \* the actuals with a report

callVars == <<call, read, reported>>
hookVars == <<selectVars, callVars>>

-----------------------------------------------------------------------------

\* A call without hook for iterables: a patch, a param, or something for decorators.
HookedElsewhere(c) == c.origin # "other"

\* named_arg, as a mapping.
Keyword(c, name) == [x \in {y \in {name} : NamedArg(c.actuals, name) # {}} |->
                       CHOOSE i \in NamedArg(c.actuals, name) : TRUE]

\* _target_arg, _attribute_arg; check_param_marks.  check_pytest_structure leaves calls
\* alone.
Read(c) ==
  CASE c.origin = "unittest.mock" -> NamedArgMapping(c.actuals, c.callee)
    [] c.origin = "_pytest.mark.param" -> Keyword(c, "marks")
    [] OTHER -> <<>>

NoCall == call = <<>> /\ read = <<>> /\ reported = {}

HooksInit == SelectInit /\ NoCall

BeforeFile == AddDependencies /\ UNCHANGED callVars

\* The hooks of other checkers.
ReadCall ==
  /\ NoCall /\ line \in 1..Lines
  /\ \E c \in CallsIn(configVars) :
       /\ HookedElsewhere(c)
       /\ call' = <<c>> /\ read' = Read(c) /\ reported' = {}
  /\ UNCHANGED selectVars

\* check_iterable_sequence where the line is in a test, and where it is not.
CheckIterables ==
  /\ NoCall /\ CheckCall
  /\ \E c \in CallsIn(configVars) :
       /\ ~ HookedElsewhere(c)
       /\ call' = <<c>> /\ read' = <<>>
       /\ reported' = IF c.real THEN IterableReports(c.actuals, c.callee) ELSE {}
PassIterables == NoCall /\ IgnoreCall /\ UNCHANGED callVars

\* mypy goes on to the next call; nothing of this one is kept.
LeaveCall == ~ NoCall /\ call' = <<>> /\ read' = <<>> /\ reported' = {} /\ UNCHANGED selectVars

HooksNext == BeforeFile \/ ReadCall \/ CheckIterables \/ PassIterables \/ LeaveCall

HooksSpec ==
  /\ HooksInit
  /\ [][HooksNext \/ (NoCall /\ line > Lines /\ UNCHANGED hookVars)]_hookVars

-----------------------------------------------------------------------------

\* The signatures of the callee as the caller sees them, those for which mypy accepts the
\* call.
SignaturesOf(c) ==
  IF c.callee.form = "other" THEN {}
  ELSE {s \in Range(Bound(c.callee)) : AcceptedByMypy(c.actuals, s)}
AllPlain(c) == \A i \in DOMAIN c.actuals : c.actuals[i].kind \in Plain
OpenEnded(c) ==
  \E i \in DOMAIN c.actuals : c.actuals[i].kind = "star" /\ c.actuals[i].length = Unknown

\* In a call that mypy accepts, an argument without a star that is read for the name of a
\* formal is what Python gives the formal, whatever the starred arguments of the call turn out
\* to be and whichever overload is meant; and nothing that must be given is missed in a call
\* without starred arguments of one signature.  Nothing is said of a starred argument that is
\* itself read for a formal: its value is not the formal's (README, Findings, argmapper.py:55).
ReadIsBound ==
  \A c \in Range(call) :
    /\ \A x \in DOMAIN read : c.actuals[read[x]].kind \in Plain =>
         \A s \in SignaturesOf(c) : \A e \in LegalExpansions(c.actuals, s) :
           \E f \in DOMAIN s : s[f].name = x /\ GivenBy(e, s, f) = {read[x]}
    /\ (c.origin = "unittest.mock" /\ AllPlain(c) /\ Len(c.callee.signatures) = 1) =>
         \A s \in SignaturesOf(c) : LegalExpansions(c.actuals, s) # {} =>
           \A f \in DOMAIN s : (s[f].kind \in Plain /\ s[f].name # NoName) => s[f].name \in DOMAIN read

\* "robustly testing methods that want Iterable by giving them an Iterable and not a
\* Sequence": what is reported, of a call in a test that mypy accepts, is a sequence that
\* Python passes for a formal that is an Iterable, whatever ** arguments turn out to be, or
\* may pass behind an argument starred of unknown length; and in a call without starred
\* arguments none is missed.
IterablesNoticed ==
  \A c \in Range(call) :
    c.callee.form = "function" => \A s \in SignaturesOf(c) :
      LET expansions == LegalExpansions(c.actuals, s)
          givenTo(i, e) == {f \in DOMAIN s : i \in GivenBy(e, s, f) /\ s[f].iterable}
      IN /\ \A i \in reported :
              /\ c.actuals[i].sequence /\ c.actuals[i].kind \in Plain
              /\ expansions # {} => \E e \in expansions : givenTo(i, e) # {}
              /\ ~ OpenEnded(c) => \A e \in expansions : givenTo(i, e) # {}
         /\ (~ HookedElsewhere(c) /\ c.real /\ ~ c.callee.stdlib /\ AllPlain(c)) =>
              \A i \in DOMAIN c.actuals : \A e \in expansions :
                (c.actuals[i].sequence /\ givenTo(i, e) # {}) => i \in reported

=============================================================================
