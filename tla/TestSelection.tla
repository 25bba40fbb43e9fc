--------------------------- MODULE TestSelection ---------------------------
(***************************************************************************)
(* Which calls are checked for sequences passed as iterables?  Those that  *)
(* stand in the body of a test: PytestPlugin.check_iterable_sequence asks  *)
(* TestNameChecker whether the file is a test file and which of its top-   *)
(* level functions are tests, and TestBodyRanges whether the line of the   *)
(* call is in one of their bodies.                                         *)
(*                                                                         *)
(* Before it visits a file, mypy asks get_additional_deps what it depends  *)
(* on; for a test file that includes the conftests and plugins.            *)
(*                                                                         *)
(* mypy visits the lines of a file in order; every line of the model has a *)
(* call with real arguments.                                               *)
(***************************************************************************)
EXTENDS Integers, Sequences, SequencesExt

CONSTANTS
  Letters,      \* letters of names
  Lines,        \* number of lines of a file
  Modules,      \* full names of the modules considered: sequences of names
  Files,        \* the top-level functions of the files considered, see Function
  Configs,      \* the values of python_functions considered: sets of patterns
  FileConfigs   \* the values of python_files considered: sets of patterns

Wildcard == "*"
Separator == "/"
Suffix == <<".py">>       \* of a file
Conftest == <<"conftest">>
Name == Seq(Letters) \cup {Conftest}

Function == [name : Seq(Letters), first : 1..Lines, last : 1..Lines]

\* The functions of a file follow each other and do not overlap.
InOrder(functions) ==
  /\ \A i \in DOMAIN functions : functions[i].first <= functions[i].last
  /\ \A i, j \in DOMAIN functions : i < j => functions[i].last < functions[j].first

ASSUME LettersAssumption ==
  Letters \cap ({Wildcard, Separator} \cup Range(Suffix \o Conftest)) = {}
ASSUME LinesAssumption == Lines \in Nat
ASSUME FilesAssumption == \A f \in Files : f \in Seq(Function) /\ InOrder(f)
ASSUME ConfigsAssumption == Configs \subseteq SUBSET Seq(Letters \cup {Wildcard})
ASSUME ModulesAssumption == Modules \subseteq Seq(Name) \ {<<>>}
ASSUME FileConfigsAssumption ==
  FileConfigs \subseteq SUBSET Seq(Letters \cup {Wildcard, Separator} \cup Range(Suffix))

VARIABLES
  module,        \* full name of the file
  functions,     \* tree.defs: the top-level functions of the file
  patterns,      \* PytestConfigManager.fn_patterns
  filePatterns,  \* PytestConfigManager.file_patterns
  linked,        \* conftests and plugins are among the dependencies of the file
  line,          \* the line mypy visits next; 0 before it visits the file
  calls          \* lines whose calls were checked

configVars == <<module, functions, patterns, filePatterns>>
selectVars == <<configVars, linked, line, calls>>

-----------------------------------------------------------------------------

StartsWith(name, prefix) ==
  Len(prefix) <= Len(name) /\ SubSeq(name, 1, Len(prefix)) = prefix

\* fnmatch.fnmatch: rest[i, j] is whether name from i on matches pattern from j on.
Fnmatch(name, pattern) ==
  LET rest[i \in 1..(Len(name) + 1), j \in 1..(Len(pattern) + 1)] ==
        IF j > Len(pattern) THEN i > Len(name)
        ELSE IF pattern[j] = Wildcard
               THEN rest[i, j + 1] \/ (i <= Len(name) /\ rest[i + 1, j])
        ELSE i <= Len(name) /\ name[i] = pattern[j] /\ rest[i + 1, j + 1]
  IN  rest[1, 1]

\* A mistake: the suffix goes to the first section.
PathWithSuffixFirst(sections) == <<Head(sections) \o Suffix>> \o Tail(sections)

\* _path_from_sections: the last section names the file.
PathFromSections(sections) ==
  [sections EXCEPT ![Len(sections)] = @ \o Suffix]

\* The path as a string.
Joined(path) ==
  FoldLeft(LAMBDA s, section : s \o <<Separator>> \o section, Head(path), Tail(path))

\* _pytest.pathlib.fnmatch_ex of a relative path: a pattern without separator is for
\* the name of the file, any other for the path.
FnmatchEx(pattern, path) ==
  Fnmatch(IF Contains(pattern, Separator) THEN Joined(path) ELSE Last(path), pattern)

\* is_test_file_name and is_test_path
IsTestFileName(sections) ==
  \E p \in filePatterns : FnmatchEx(p, PathFromSections(sections))

\* is_test_fn_name, with the arguments of fnmatch in the order of the code.
IsTestFnName(name) ==
  \E p \in patterns : StartsWith(name, p) \/ Fnmatch(p, name)

\* The tests among the first k functions, in their order.
TestsAmong[k \in 0..Len(functions)] ==
  IF k = 0 THEN <<>>
  ELSE IF IsTestFnName(functions[k].name) THEN Append(TestsAmong[k - 1], functions[k])
  ELSE TestsAmong[k - 1]

\* TestBodyRanges.from_defs
TestBodies == TestsAmong[Len(functions)]

\* A mistake: bisect_right.
BisectRight(ranges, l) ==
  CHOOSE k \in 1..(Len(ranges) + 1) :
    /\ \A i \in 1..(k - 1) : ranges[i].last <= l
    /\ \A i \in k..Len(ranges) : ranges[i].last > l

\* bisect.bisect_left(upper, line): the place of line in the sorted upper bounds.
BisectLeft(ranges, l) ==
  CHOOSE k \in 1..(Len(ranges) + 1) :
    /\ \A i \in 1..(k - 1) : ranges[i].last < l
    /\ \A i \in k..Len(ranges) : ranges[i].last >= l

\* TestBodyRanges.__contains__
InTestBodies(ranges, l) ==
  LET k == BisectLeft(ranges, l) IN k <= Len(ranges) /\ ranges[k].first <= l

-----------------------------------------------------------------------------

SelectInit ==
  /\ module \in Modules
  /\ functions \in Files
  /\ patterns \in Configs
  /\ filePatterns \in FileConfigs
  /\ linked = FALSE
  /\ line = 0
  /\ calls = {}

\* get_additional_deps, which knows the file by MypyFile.name, the last section.
AddDependencies ==
  /\ line = 0
  /\ linked' = (IsTestFileName(<<Last(module)>>) \/ Last(module) = Conftest)
  /\ line' = 1
  /\ UNCHANGED <<configVars, calls>>

IsChecked(l) == IsTestFileName(module) /\ InTestBodies(TestBodies, l)

\* check_iterable_sequence, for the call on this line.
CheckCall ==
  /\ line \in 1..Lines /\ IsChecked(line)
  /\ calls' = calls \cup {line}
  /\ line' = line + 1
  /\ UNCHANGED <<configVars, linked>>

IgnoreCall ==
  /\ line \in 1..Lines /\ ~ IsChecked(line)
  /\ line' = line + 1
  /\ UNCHANGED <<configVars, linked, calls>>

SelectNext == AddDependencies \/ CheckCall \/ IgnoreCall

SelectSpec ==
  /\ SelectInit
  /\ [][SelectNext \/ (line > Lines /\ UNCHANGED selectVars)]_selectVars

-----------------------------------------------------------------------------

\* The calls checked so far are those in functions whose names satisfy Tests, if the
\* file is one of tests.
CallsAreThoseOf(Tests(_)) ==
  calls = {l \in 1..(line - 1) :
             /\ IsTestFileName(module)
             /\ \E i \in DOMAIN functions :
                  Tests(functions[i].name) /\ l \in functions[i].first..functions[i].last}

\* The binary search over upper bounds finds exactly the lines of the tests' bodies,
\* wherever they begin and end, one line long or side by side.
CallsOfTests == CallsAreThoseOf(IsTestFnName)

IsConfigured(name) == \E p \in patterns : StartsWith(name, p) \/ Fnmatch(name, p)

\* The plugin asks for the file by its last name when mypy looks for dependencies and
\* by its full name later.  Where python_files has no directories, the answers agree:
\* a file whose tests are checked depends on the conftests and plugins whose fixtures
\* the tests can request, and only such a file (or a conftest) does.
TestFilesLinked ==
  (line > 0 /\ \A p \in filePatterns : Separator \notin Range(p)) =>
    linked = (IsTestFileName(module) \/ Last(module) = Conftest)

\* "Only checks your custom test files and test names", also those a pattern with a
\* wildcard describes (finding: it selects nothing).
PatternsHonoured == CallsAreThoseOf(IsConfigured)

=============================================================================
