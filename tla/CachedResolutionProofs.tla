----------------------- MODULE CachedResolutionProofs ------------------------
(* Theorems about DeferredChecking, for every source and every bound, and about        *)
(* CachedResolution, which runs under its schedule.                                     *)
EXTENDS CachedResolution, Counting

-----------------------------------------------------------------------------
(* Type correctness. *)

\* What is used of a source over and over.
LEMMA FileFacts ==
  ASSUME file \in Files, NEW n \in Position
  PROVE  /\ n \in Nat
         /\ file[n].kind \in Kind
         /\ file[n].decorators \in Nat
         /\ file[n].decorators <= MaxDecorators
         /\ file[n].hooked \subseteq 1..file[n].decorators
         /\ file[n].kind \in {"assign", "exit"} <=> file[n].hooked = {}
         /\ file[n].kind = "fixture" => \E h \in file[n].hooked : file[n].hooked = {h}
  BY FilesAssumption, SizeAssumption DEF Position, Statement, WellFormed

\* At most one statement is next.
LEMMA NextUnique ==
  ASSUME NEW m \in Position, NEW n \in Position, IsNext(m), IsNext(n)
  PROVE  m = n
  BY SizeAssumption DEF IsNext, Position

\* The decorators are applied one by one.
LEMMA LayerAdvances ==
  ASSUME TypeOK, NEW n \in Position, IsNext(n), Advance(n)
  PROVE  /\ layer' \in 1..(MaxDecorators + 1)
         /\ todo' \subseteq todo
         /\ visited' \subseteq Position
         /\ todo' = {} => layer' = 1
         /\ \A m \in Position :
              IsNext(m)' => (layer' = 1 \/ layer' <= file[m].decorators)
<1>1. CASE layer < file[n].decorators
  <2>1. layer' = layer + 1 /\ todo' = todo /\ visited' = visited
    BY <1>1 DEF Advance
  <2>2. layer \in Nat /\ file[n].decorators \in Nat /\ file[n].decorators <= MaxDecorators
    BY FileFacts DEF TypeOK
  <2>3. \A m \in Position : IsNext(m)' => m = n
    BY <2>1, NextUnique DEF IsNext
  <2> QED BY <1>1, <2>1, <2>2, <2>3, SizeAssumption DEF TypeOK, IsNext
<1>2. CASE ~ (layer < file[n].decorators)
  BY <1>2, SizeAssumption DEF Advance, TypeOK
<1> QED BY <1>1, <1>2

\* Init and every step keep the types.
LEMMA TypeInit == Init => TypeOK
<1> SUFFICES ASSUME Init PROVE TypeOK
  OBVIOUS
<1> QED BY PassAssumption, SizeAssumption DEF Init, TypeOK, Of

\* Every step of the schedule keeps the types.
LEMMA TypeNext == TypeOK /\ [Next]_vars => TypeOK'
<1> SUFFICES ASSUME TypeOK, [Next]_vars PROVE TypeOK'
  OBVIOUS
<1>1. ASSUME NEW n \in Position, Visit(n) PROVE TypeOK'
  <2>1. IsNext(n) /\ Advance(n)
    BY <1>1 DEF Visit, Accept, RequiredWait, PublishFixture, Ignore,
                SpeculativeWait, CheckTest, WaitInCheck, BeginCheck, AtHook
  <2>2. file' = file /\ pass' = pass
    BY <2>1 DEF Advance
  <2>3. n \in {m \in Position : Reachable(m)}
    BY <2>1 DEF IsNext, TypeOK
  <2>4. \A m \in Position : Reachable(m)' <=> Reachable(m)
    BY <2>2 DEF Reachable
  <2>5. /\ deferredNodes' \subseteq {m \in Position : Reachable(m)}
        /\ deferredTests' \subseteq Of("test")
        /\ published' \subseteq ReachableFixtures
        /\ begun' \subseteq Of("test")
        /\ checked' \subseteq begun'
        /\ early' \subseteq begun'
    <3>1. CASE Accept(n) BY <3>1 DEF Accept, TypeOK
    <3>2. CASE RequiredWait(n) BY <3>2, <2>3 DEF RequiredWait, TypeOK
    <3>3. CASE PublishFixture(n)
      BY <3>3, <2>3 DEF PublishFixture, TypeOK, ReachableFixtures, Of
    <3>4. CASE Ignore(n) BY <3>4 DEF Ignore, TypeOK
    <3>5. CASE SpeculativeWait(n)
      BY <3>5, <2>3 DEF SpeculativeWait, TypeOK, IsTest, Of
    <3>6. CASE CheckTest(n)
      BY <3>6, <2>3 DEF CheckTest, BeginCheck, TypeOK, IsTest, Of
    <3>7. CASE WaitInCheck(n)
      BY <3>7, <2>3 DEF WaitInCheck, BeginCheck, TypeOK, IsTest, Of
    <3> QED BY <1>1, <3>1, <3>2, <3>3, <3>4, <3>5, <3>6, <3>7 DEF Visit
  <2>6. Of("test")' = Of("test") /\ ReachableFixtures' = ReachableFixtures
    BY <2>2, <2>4 DEF Of, ReachableFixtures
  <2> QED BY <2>1, <2>2, <2>4, <2>5, <2>6, LayerAdvances DEF TypeOK
<1>2. CASE NextPass
  <2>1. layer' = 1 /\ file' = file
    BY <1>2 DEF NextPass, TypeOK
  <2>2. \A m \in Position : Reachable(m)' <=> Reachable(m)
    BY <2>1 DEF Reachable
  <2>3. Of("test")' = Of("test") /\ ReachableFixtures' = ReachableFixtures
    BY <2>1, <2>2 DEF Of, ReachableFixtures
  <2>4. pass' \in 1..MaxPass
    BY <1>2, PassAssumption DEF NextPass, TypeOK
  <2> QED BY <1>2, <2>1, <2>2, <2>3, <2>4, SizeAssumption DEF NextPass, TypeOK
<1>3. CASE UNCHANGED vars
  BY <1>3 DEF vars, TypeOK, IsNext, Reachable, Of, ReachableFixtures
<1> QED BY <1>1, <1>2, <1>3 DEF Next, Finished

\* Every reachable state of every file has its types: in particular mypy never
\* applies a decorator the function does not have, and nothing is deferred that
\* the first pass did not reach.
THEOREM TypeCorrect == Spec => []TypeOK
BY TypeInit, TypeNext, PTL DEF Spec

-----------------------------------------------------------------------------
(* No check begins before the fixtures a test may request are published.    *)

\* The single hook of n is still to come in this pass.
Pending(n) == n \in todo /\ ~ (IsNext(n) /\ \A h \in file[n].hooked : layer > h)

(***************************************************************************)
(* Why clearing _deferred_tests at every required wait is enough when each *)
(* function has one hook.  An unpublished fixture f is always still to be  *)
(* visited, and for a test t that already waited, f comes before the next  *)
(* check of t: t has no hook left in this pass and f has one, or f is      *)
(* deferred in front of t, or both are pending with f in front.            *)
(***************************************************************************)
FixtureInTime(t, f) ==
  \/ ~ Pending(t) /\ Pending(f)
  \/ ~ Pending(t) /\ f \in deferredNodes /\ f < t
  \/ Pending(t) /\ Pending(f) /\ f < t

OneMarkInv ==
  OneMark =>
    /\ \A m \in deferredNodes, n \in Position : Pending(n) => m < n
    /\ \A f \in ReachableFixtures \ published : Pending(f) \/ f \in deferredNodes
    /\ \A t \in deferredTests, f \in ReachableFixtures \ published : FixtureInTime(t, f)
    /\ early = {}
    /\ \A n \in begun : file[n].starred \/ (~ Pending(n) /\ n \notin deferredNodes)

\* When fixtures never wait for another decorator, they are all published in the
\* first pass, and no check begins in the first pass.
OutermostInv ==
  OutermostFixtures =>
    /\ early = {}
    /\ \/ ReachableFixtures \subseteq published
       \/ /\ ReachableFixtures \ published \subseteq todo
          /\ todo \cap visited = {}
          /\ todo \cap deferredTests = {}

\* A step that is not a hook leaves the pending functions as they are.
LEMMA AcceptKeepsPending ==
  ASSUME TypeOK, OneMark, NEW n \in Position, Accept(n),
         NEW m \in Position, file[m].hooked # {}
  PROVE  Pending(m)' <=> Pending(m)
<1>1. PICK h \in 1..file[m].decorators : file[m].hooked = {h} /\ h \in Nat /\ h >= 1
  BY FileFacts DEF OneMark, TypeOK
<1>2. IsNext(n) /\ layer \notin file[n].hooked /\ Advance(n) /\ file' = file
  BY DEF Accept, Advance
<1>3. layer \in Nat /\ file[n].decorators \in Nat
  BY FileFacts, SizeAssumption DEF TypeOK
<1>4. CASE layer < file[n].decorators
  <2>1. layer' = layer + 1 /\ todo' = todo
    BY <1>2, <1>4 DEF Advance
  <2>2. CASE m = n
    <3>1. Pending(m) <=> ~ (layer > h)
      BY <1>1, <1>2, <2>2 DEF Pending, IsNext
    <3>2. Pending(m)' <=> ~ (layer + 1 > h)
      BY <1>1, <1>2, <2>1, <2>2 DEF Pending, IsNext
    <3>3. layer # h
      BY <1>1, <1>2, <2>2
    <3> QED BY <1>1, <1>3, <3>1, <3>2, <3>3
  <2>3. CASE m # n
    BY <1>1, <1>2, <2>1, <2>3, NextUnique DEF Pending, IsNext
  <2> QED BY <2>2, <2>3
<1>5. CASE ~ (layer < file[n].decorators)
  <2>1. layer' = 1 /\ todo' = todo \ {n}
    BY <1>2, <1>5 DEF Advance
  <2>2. Pending(m)' <=> m \in todo \ {n}
    BY <1>1, <1>2, <2>1 DEF Pending
  <2>3. CASE m = n
    BY <1>1, <1>2, <1>3, <1>5, <2>2, <2>3 DEF Pending
  <2>4. CASE m # n
    BY <1>2, <2>2, <2>4, NextUnique DEF Pending
  <2> QED BY <2>3, <2>4
<1> QED BY <1>4, <1>5

\* The hook of n is the only one that is no longer pending after it, and was the
\* first of them.
LEMMA HookUsesPending ==
  ASSUME TypeOK, OneMark, NEW n \in Position, AtHook(n), Advance(n)
  PROVE  /\ Pending(n)
         /\ \A m \in Position : Pending(m) => n <= m
         /\ \A m \in Position : file[m].hooked # {} =>
              (Pending(m)' <=> (Pending(m) /\ m # n))
<1>1. IsNext(n) /\ file[n].hooked = {layer} /\ layer \in Nat
  BY FileFacts DEF AtHook, OneMark, TypeOK
<1>2. Pending(n)
  BY <1>1 DEF Pending, IsNext
<1>3. \A m \in Position : Pending(m) => n <= m
  BY <1>1 DEF Pending, IsNext
<1>4. ASSUME NEW m \in Position, file[m].hooked # {}
      PROVE  Pending(m)' <=> (Pending(m) /\ m # n)
  <2>1. PICK h \in Nat : file[m].hooked = {h} /\ h >= 1
    BY <1>4, FileFacts DEF OneMark, TypeOK
  <2>2. file' = file
    BY DEF Advance
  <2>3. CASE layer < file[n].decorators
    <3>1. layer' = layer + 1 /\ todo' = todo
      BY <2>3 DEF Advance
    <3>2. CASE m = n
      BY <1>1, <2>2, <3>1, <3>2 DEF Pending, IsNext
    <3>3. CASE m # n
      BY <1>1, <2>2, <3>1, <3>3, NextUnique DEF Pending, IsNext
    <3> QED BY <3>2, <3>3
  <2>4. CASE ~ (layer < file[n].decorators)
    <3>1. layer' = 1 /\ todo' = todo \ {n}
      BY <2>4 DEF Advance
    <3>2. Pending(m)' <=> m \in todo \ {n}
      BY <2>1, <2>2, <3>1 DEF Pending
    <3>3. m # n => (Pending(m) <=> m \in todo)
      BY <1>1, <1>4, NextUnique DEF Pending
    <3> QED BY <3>2, <3>3 DEF Pending
  <2> QED BY <2>3, <2>4
<1> QED BY <1>2, <1>3, <1>4

\* The first pass begins with nothing visited.
LEMMA OneMarkInit == Init => OneMarkInv
<1> SUFFICES ASSUME Init, OneMark PROVE OneMarkInv
  BY DEF OneMarkInv
<1>1. ASSUME NEW f \in ReachableFixtures PROVE Pending(f)
  <2>1. f \in Position /\ f \in todo /\ file[f].hooked # {} /\ layer = 1
    BY FileFacts DEF Init, ReachableFixtures, Of
  <2>2. PICK h \in file[f].hooked : h >= 1
    BY <2>1, FileFacts DEF Init
  <2>3. ~ (layer > h)
    BY <2>1, <2>2, FileFacts DEF Init
  <2> QED BY <2>1, <2>2, <2>3 DEF Pending
<1> QED BY <1>1 DEF Init, OneMarkInv

\* What a visit leaves alone.
LEMMA VisitFrame ==
  ASSUME NEW n \in Position, Visit(n)
  PROVE  /\ IsNext(n) /\ Advance(n) /\ file' = file /\ pass' = pass
         /\ ReachableFixtures' = ReachableFixtures
         /\ (OneMark' <=> OneMark) /\ (OutermostFixtures' <=> OutermostFixtures)
<1>1. IsNext(n) /\ Advance(n)
  BY DEF Visit, Accept, RequiredWait, PublishFixture, Ignore, SpeculativeWait,
         CheckTest, WaitInCheck, BeginCheck, AtHook
<1>2. file' = file /\ pass' = pass
  BY <1>1 DEF Advance
<1> QED
  BY <1>1, <1>2 DEF ReachableFixtures, Of, Reachable, OneMark, OutermostFixtures

\* Fixtures and tests have hooks.
LEMMA HookedFunctions ==
  ASSUME TypeOK, NEW n \in Position,
         n \in ReachableFixtures \/ n \in deferredTests \/ n \in begun
  PROVE  file[n].hooked # {}
<1>1. file[n].kind \notin {"assign", "exit"}
  BY DEF TypeOK, ReachableFixtures, Of
<1> QED BY <1>1, FileFacts DEF TypeOK

\* Each outcome of a visit keeps it.
LEMMA OneMarkVisit ==
  ASSUME TypeOK, OneMark, OneMarkInv, NEW n \in Position, Visit(n)
  PROVE  OneMarkInv'
<1>0. ReachableFixtures' = ReachableFixtures /\ ReachableFixtures \subseteq Position
  BY VisitFrame DEF ReachableFixtures, Of
<1>1. \A m \in ReachableFixtures \cup deferredTests \cup begun :
        m \in Position /\ file[m].hooked # {}
  BY HookedFunctions DEF TypeOK, ReachableFixtures, Of
<1>2. deferredNodes \subseteq Position /\ Position \subseteq Nat
  BY SizeAssumption DEF TypeOK, Position
<1>3. CASE Accept(n)
  <2>1. \A m \in Position : file[m].hooked # {} => (Pending(m)' <=> Pending(m))
    BY <1>3, AcceptKeepsPending
  <2>2. UNCHANGED <<file, deferredNodes, deferredTests, published, begun, early>>
    BY <1>3, VisitFrame DEF Accept
  <2>3. \A m \in Position : Pending(m)' => Pending(m)
    <3> SUFFICES ASSUME NEW m \in Position, file[m].hooked = {}, Pending(m)'
                 PROVE  Pending(m)
      BY <2>1
    <3>1. m \in todo
      BY <1>3 DEF Pending, Accept, Advance
    <3>2. ~ IsNext(m)'
      BY VisitFrame DEF Pending
    <3>3. m # n
      BY <3>2, VisitFrame, <3>1 DEF Pending, IsNext, Advance
    <3>4. ~ IsNext(m)
      BY <3>3, VisitFrame, NextUnique
    <3> QED BY <3>1, <3>4 DEF Pending
  <2> QED BY <1>0, <1>1, <2>1, <2>2, <2>3 DEF OneMarkInv, FixtureInTime
<1>4. ASSUME ~ Accept(n) PROVE OneMarkInv'
  <2>0. AtHook(n) /\ Advance(n)
    BY <1>4 DEF Visit, RequiredWait, PublishFixture, Ignore, SpeculativeWait, CheckTest, WaitInCheck, BeginCheck
  <2>1. Pending(n) /\ \A m \in Position : Pending(m) => n <= m
    BY <2>0, HookUsesPending
  <2>2. \A m \in Position : file[m].hooked # {} =>
          (Pending(m)' <=> (Pending(m) /\ m # n))
    BY <2>0, HookUsesPending
  <2>3. \A m \in Position : Pending(m)' => n < m
    <3> SUFFICES ASSUME NEW m \in Position, Pending(m)' PROVE n < m
      OBVIOUS
    <3>1. m \in todo /\ IsNext(n)
      BY <2>0, VisitFrame DEF Pending, Advance
    <3>2. m # n
      BY <2>0, <2>2 DEF AtHook
    <3> QED BY <3>1, <3>2, <1>2 DEF IsNext
  <2>4. \A m \in Position : Pending(m)' => Pending(m)
    <3> SUFFICES ASSUME NEW m \in Position, Pending(m)' PROVE Pending(m)
      OBVIOUS
    <3>1. m \in todo /\ IsNext(n)
      BY <2>0, VisitFrame DEF Pending, Advance
    <3>2. m # n
      BY <2>3, <1>2
    <3> QED BY <3>1, <3>2, NextUnique DEF Pending
  <2>5. CASE RequiredWait(n)
    <3>1. /\ deferredNodes' = deferredNodes \cup {n}
          /\ deferredTests' = {}
          /\ UNCHANGED <<file, published, begun, early>>
      BY <2>5, VisitFrame DEF RequiredWait
    <3> QED
      BY <1>0, <1>1, <2>1, <2>2, <2>3, <2>4, <3>1 DEF OneMarkInv, FixtureInTime
  <2>6. CASE PublishFixture(n)
    <3>1. /\ published' = published \cup {n}
          /\ UNCHANGED <<file, deferredNodes, deferredTests, begun, early>>
          /\ n \notin deferredTests
      BY <2>6, VisitFrame DEF PublishFixture, TypeOK, Of
    <3> QED
      BY <1>0, <1>1, <2>1, <2>2, <2>3, <2>4, <3>1 DEF OneMarkInv, FixtureInTime
  <2>7. CASE Ignore(n)
    <3>1. /\ UNCHANGED <<file, published, deferredNodes, deferredTests, begun, early>>
          /\ n \notin ReachableFixtures
      BY <2>7, VisitFrame DEF Ignore, ReachableFixtures, Of
    <3> QED
      BY <1>0, <1>1, <1>2, <2>1, <2>2, <2>3, <2>4, <3>1 DEF OneMarkInv, FixtureInTime
  <2>8. CASE SpeculativeWait(n)
    <3>1. /\ deferredNodes' = deferredNodes \cup {n}
          /\ deferredTests' = deferredTests \cup {n}
          /\ UNCHANGED <<file, published, begun, early>>
          /\ n \notin ReachableFixtures
      BY <2>8, VisitFrame DEF SpeculativeWait, IsTest, ReachableFixtures, Of
    <3>2. \A m \in deferredNodes', k \in Position : Pending(k)' => m < k
      BY <2>3, <2>4, <3>1 DEF OneMarkInv
    <3>3. \A f \in ReachableFixtures' \ published' :
            /\ Pending(f)' \/ f \in deferredNodes'
            /\ Pending(f)' <=> Pending(f)
      BY <1>0, <1>1, <2>2, <3>1 DEF OneMarkInv
    <3>4. ~ Pending(n)'
      BY <2>3, <1>2
    <3>5. ASSUME NEW f \in ReachableFixtures \ published
          PROVE  \A t \in deferredTests' : FixtureInTime(t, f)'
      <4>1. Pending(f)' \/ (f \in deferredNodes' /\ f < n)
        BY <1>2, <2>1, <3>1, <3>3, <1>0 DEF OneMarkInv
      <4>2. FixtureInTime(n, f)'
        BY <3>4, <4>1 DEF FixtureInTime
      <4>3. ASSUME NEW t \in deferredTests, t # n PROVE FixtureInTime(t, f)'
        <5>1. Pending(t)' <=> Pending(t)
          BY <1>1, <2>2, <4>3
        <5> QED BY <3>1, <3>3, <4>3, <5>1, <1>0 DEF OneMarkInv, FixtureInTime
      <4> QED BY <3>1, <4>2, <4>3
    <3>6. n \in begun => file[n].starred
      BY <2>1 DEF OneMarkInv
    <3>7. \A m \in begun' : file'[m].starred \/ (~ Pending(m)' /\ m \notin deferredNodes')
      BY <1>1, <2>4, <3>1, <3>6 DEF OneMarkInv
    <3>8. early' = {}
      BY <3>1 DEF OneMarkInv
    <3> QED BY <1>0, <3>1, <3>2, <3>3, <3>5, <3>7, <3>8 DEF OneMarkInv, FixtureInTime
  <2>9. ASSUME BeginCheck(n) PROVE early' = {} /\ begun' = begun \cup {n} /\ file' = file
    <3>1. ReachableFixtures \subseteq published
      <4> SUFFICES ASSUME NEW f \in ReachableFixtures \ published PROVE FALSE
        OBVIOUS
      <4>1. n \in deferredTests /\ f \in Position
        BY <2>9, <1>0 DEF BeginCheck
      <4>2. FixtureInTime(n, f)
        BY <4>1 DEF OneMarkInv
      <4> QED BY <1>2, <2>1, <4>1, <4>2 DEF FixtureInTime
    <3> QED BY <2>9, <3>1, VisitFrame DEF BeginCheck, OneMarkInv
  <2>10. CASE CheckTest(n)
    <3>1. UNCHANGED <<published, deferredNodes, deferredTests>> /\ n \notin ReachableFixtures
      BY <2>10 DEF CheckTest, BeginCheck, IsTest, ReachableFixtures, Of
    <3>2. early' = {} /\ begun' = begun \cup {n} /\ file' = file
      BY <2>9, <2>10 DEF CheckTest
    <3>3. n \notin deferredNodes
      BY <1>2, <2>1 DEF OneMarkInv
    <3>4. ~ Pending(n)'
      BY <2>3, <1>2
    <3> QED
      BY <1>0, <1>1, <1>2, <2>1, <2>2, <2>4, <3>1, <3>2, <3>3, <3>4
      DEF OneMarkInv, FixtureInTime
  <2>11. CASE WaitInCheck(n)
    <3>1. /\ deferredNodes' = deferredNodes \cup {n}
          /\ deferredTests' = {}
          /\ published' = published /\ file[n].starred
          /\ n \notin ReachableFixtures
      BY <2>11 DEF WaitInCheck, BeginCheck, IsTest, ReachableFixtures, Of
    <3>2. early' = {} /\ begun' = begun \cup {n} /\ file' = file
      BY <2>9, <2>11 DEF WaitInCheck
    <3> QED
      BY <1>0, <1>1, <2>1, <2>2, <2>3, <2>4, <3>1, <3>2 DEF OneMarkInv, FixtureInTime
  <2> QED BY <1>4, <2>5, <2>6, <2>7, <2>8, <2>10, <2>11 DEF Visit
<1> QED BY <1>3, <1>4

\* So does the next pass over what was deferred.
LEMMA OneMarkNextPass ==
  ASSUME TypeOK, OneMark, OneMarkInv, NextPass
  PROVE  OneMarkInv'
<1>1. /\ file' = file /\ layer' = 1 /\ todo = {}
      /\ todo' = deferredNodes /\ deferredNodes' = {}
      /\ UNCHANGED <<deferredTests, published, begun, early>>
  BY DEF NextPass, TypeOK
<1>2. ReachableFixtures' = ReachableFixtures /\ ReachableFixtures \subseteq Position
  BY <1>1 DEF ReachableFixtures, Of, Reachable
<1>3. \A m : ~ Pending(m)
  BY <1>1 DEF Pending
<1>4. \A m \in Position : Pending(m)' => m \in deferredNodes
  BY <1>1 DEF Pending
<1>5. ASSUME NEW m \in Position, file[m].hooked # {}, m \in deferredNodes
      PROVE  Pending(m)'
  <2>1. \E h \in file[m].hooked : ~ (1 > h)
    BY <1>5, FileFacts DEF TypeOK
  <2> QED BY <1>1, <1>5, <2>1 DEF Pending
<1>6. \A m \in ReachableFixtures \cup deferredTests \cup begun :
        m \in Position /\ file[m].hooked # {}
  BY HookedFunctions DEF TypeOK, ReachableFixtures, Of
<1> QED BY <1>1, <1>2, <1>3, <1>4, <1>5, <1>6 DEF OneMarkInv, FixtureInTime

\* So does every step.
LEMMA OneMarkNext == TypeOK /\ OneMarkInv /\ [Next]_vars => OneMarkInv'
<1> SUFFICES ASSUME TypeOK, OneMarkInv, [Next]_vars, OneMark' PROVE OneMarkInv'
  BY DEF OneMarkInv
<1>1. CASE \E n \in Position : Visit(n)
  BY <1>1, OneMarkVisit, VisitFrame
<1>2. CASE NextPass
  <2>1. OneMark
    BY <1>2 DEF NextPass, OneMark
  <2> QED BY <1>2, <2>1, OneMarkNextPass
<1>3. CASE UNCHANGED vars
  <2>1. /\ OneMark /\ ReachableFixtures' = ReachableFixtures
        /\ \A n : Pending(n)' <=> Pending(n)
    BY <1>3 DEF vars, OneMark, ReachableFixtures, Of, Reachable, Pending, IsNext
  <2> QED BY <1>3, <2>1 DEF vars, OneMarkInv, FixtureInTime
<1> QED BY <1>1, <1>2, <1>3 DEF Next, Finished

-----------------------------------------------------------------------------
(* Files whose fixtures never wait for a decorator.                         *)

\* The first pass begins with nothing visited.
LEMMA OutermostInit == Init => OutermostInv
BY DEF Init, OutermostInv, ReachableFixtures, Of

\* Each outcome of a visit keeps it.
LEMMA OutermostVisit ==
  ASSUME TypeOK, OutermostFixtures, OutermostInv, NEW n \in Position, Visit(n)
  PROVE  OutermostInv'
<1>1. /\ IsNext(n) /\ n \in todo
      /\ ReachableFixtures' = ReachableFixtures
  BY VisitFrame DEF IsNext
<1>2. CASE ReachableFixtures \subseteq published
  <2>1. published \subseteq published' /\ early' = early
    BY <1>2 DEF Visit, Accept, RequiredWait, PublishFixture, Ignore,
                SpeculativeWait, CheckTest, WaitInCheck, BeginCheck
  <2> QED BY <1>1, <1>2, <2>1 DEF OutermostInv
<1>3. CASE ~ (ReachableFixtures \subseteq published)
  <2>1. /\ early = {}
        /\ ReachableFixtures \ published \subseteq todo
        /\ todo \cap visited = {}
        /\ todo \cap deferredTests = {}
    BY <1>3 DEF OutermostInv
  <2>2. ~ CheckTest(n) /\ ~ WaitInCheck(n)
    BY <1>1, <2>1 DEF CheckTest, WaitInCheck, BeginCheck
  <2>3. early' = {} /\ todo' \subseteq todo /\ todo' \cap visited' = {}
    BY <1>1, <2>1, <2>2, VisitFrame
    DEF Visit, Accept, RequiredWait, PublishFixture, Ignore, SpeculativeWait, Advance
  <2>4. layer \in Nat /\ (layer = 1 \/ layer <= file[n].decorators)
    BY <1>1, SizeAssumption DEF TypeOK
  <2>5. todo' \cap deferredTests' = {}
    <3>1. CASE SpeculativeWait(n)
      <4>1. layer = file[n].decorators
        BY <1>1, <2>1, <3>1 DEF SpeculativeWait, MustWait, DecoratorsTyped
      <4>2. todo' = todo \ {n} /\ deferredTests' = deferredTests \cup {n}
        BY <2>4, <3>1, <4>1 DEF SpeculativeWait, Advance
      <4> QED BY <2>1, <4>2
    <3>2. CASE ~ SpeculativeWait(n)
      BY <2>1, <2>2, <2>3, <3>2
      DEF Visit, Accept, RequiredWait, PublishFixture, Ignore
    <3> QED BY <3>1, <3>2
  <2>6. ReachableFixtures \ published' \subseteq todo'
    <3> SUFFICES ASSUME NEW f \in ReachableFixtures, f \notin published', f \notin todo'
                 PROVE  FALSE
      OBVIOUS
    <3>1. published \subseteq published'
      BY <2>2 DEF Visit, Accept, RequiredWait, PublishFixture, Ignore, SpeculativeWait
    <3>2. f = n /\ ~ (layer < file[n].decorators)
      BY <2>1, <3>1, VisitFrame DEF Advance
    <3>3. file[n].kind = "fixture" /\ file[n].hooked = {file[n].decorators}
          /\ file[n].decorators \in Nat /\ file[n].decorators >= 1
      BY <3>2, FileFacts DEF ReachableFixtures, Of, OutermostFixtures, TypeOK
    <3>4. layer = file[n].decorators
      BY <2>4, <3>2, <3>3
    <3>5. AtHook(n) /\ ~ MustWait(n)
      BY <1>1, <3>3, <3>4 DEF AtHook, MustWait, DecoratorsTyped
    <3>6. PublishFixture(n)
      BY <3>3, <3>4, <3>5, <2>2
      DEF Visit, Accept, RequiredWait, Ignore, SpeculativeWait, IsTest
    <3> QED BY <3>2, <3>6 DEF PublishFixture
  <2> QED BY <1>1, <2>3, <2>5, <2>6 DEF OutermostInv
<1> QED BY <1>2, <1>3

\* So does every step.
LEMMA OutermostNext == TypeOK /\ OutermostInv /\ [Next]_vars => OutermostInv'
<1> SUFFICES ASSUME TypeOK, OutermostInv, [Next]_vars, OutermostFixtures'
             PROVE  OutermostInv'
  BY DEF OutermostInv
<1>1. CASE \E n \in Position : Visit(n)
  BY <1>1, OutermostVisit, VisitFrame
<1>2. CASE NextPass \/ UNCHANGED vars
  <2>1. file' = file /\ early' = early /\ published' = published
    BY <1>2 DEF NextPass, vars
  <2>2. OutermostFixtures /\ ReachableFixtures' = ReachableFixtures
    BY <2>1 DEF OutermostFixtures, ReachableFixtures, Of, Reachable
  <2> QED BY <1>2, <2>1, <2>2 DEF OutermostInv, NextPass, vars
<1> QED BY <1>1, <1>2 DEF Next, Finished

-----------------------------------------------------------------------------
(* How many passes the waits cost.                                          *)

(***************************************************************************)
(* After the first pass everything reachable has types, so no wait is      *)
(* required any more where no test is starred; what the second pass defers is in _deferred_tests    *)
(* and stays there, and the third pass defers nothing.                     *)
(***************************************************************************)
NoneWaits == AssignmentsReachable /\ ~ \E n \in Position : WaitsForItem(n)

PassInv ==
  NoneWaits =>
    /\ pass \in 1..3
    /\ pass = 1 => {n \in Position : Reachable(n)} \subseteq todo \cup visited
    /\ pass > 1 => {n \in Position : Reachable(n)} \subseteq visited
    /\ pass = 2 => deferredNodes \subseteq deferredTests
    /\ pass = 3 => todo \subseteq deferredTests /\ deferredNodes = {}

\* The first pass begins with nothing deferred.
LEMMA PassInit == Init => PassInv
BY DEF Init, PassInv

\* Once nothing has to wait, what the plugin sees excluded is what is excluded.
LEMMA IgnoredIsExcluded ==
  ASSUME NEW n \in Position, file[n].kind = "test", ~ MustWait(n)
  PROVE  Ignored(n) <=> Excluded(n)
BY DEF MustWait, AssignmentsTyped, Ignored, Excluded

\* Each outcome of a visit keeps it.
LEMMA PassVisit ==
  ASSUME TypeOK, NoneWaits, PassInv, NEW n \in Position, Visit(n)
  PROVE  PassInv'
<1>1. /\ IsNext(n) /\ n \in todo /\ file' = file /\ pass' = pass
      /\ \A m \in Position : Reachable(m)' <=> Reachable(m)
  BY VisitFrame DEF IsNext, Reachable
<1>2. todo' \subseteq todo /\ visited \subseteq visited' /\ todo \ todo' \subseteq visited'
  BY VisitFrame DEF Advance
<1>3. CASE pass = 1
  BY <1>1, <1>2, <1>3 DEF PassInv
<1>4. CASE pass > 1
  <2>1. {m \in Position : Reachable(m)} \subseteq visited
    BY <1>4 DEF PassInv
  <2>2. n \in visited /\ AssignmentsOf(file[n].module) \subseteq visited
    BY <1>1, <2>1 DEF TypeOK, NoneWaits, AssignmentsReachable, AssignmentsOf, Of
  <2>3. ~ MustWait(n)
    BY <2>2 DEF MustWait, DecoratorsTyped, AssignmentsTyped
  <2>7. ~ WaitInCheck(n)
    <3> SUFFICES ASSUME WaitInCheck(n) PROVE FALSE
      OBVIOUS
    <3>1. IsTest(n) /\ file[n].starred
      BY DEF WaitInCheck, BeginCheck
    <3>2. Collected(n)
      BY <1>1, <2>3, <3>1, IgnoredIsExcluded DEF Collected, IsTest, TypeOK
    <3> QED BY <3>1, <3>2 DEF NoneWaits, WaitsForItem
  <2>4. deferredTests \subseteq deferredTests'
    BY <2>3, <2>7 DEF Visit, Accept, RequiredWait, PublishFixture, Ignore,
                SpeculativeWait, CheckTest, BeginCheck
  <2>5. deferredNodes' \subseteq deferredNodes \cup deferredTests'
    BY <2>3, <2>7 DEF Visit, Accept, RequiredWait, PublishFixture, Ignore,
                SpeculativeWait, CheckTest, BeginCheck
  <2>6. n \in deferredTests => deferredNodes' = deferredNodes
    BY <2>3, <2>7 DEF Visit, Accept, RequiredWait, PublishFixture, Ignore,
                SpeculativeWait, CheckTest, BeginCheck
  <2> QED BY <1>1, <1>2, <1>4, <2>1, <2>4, <2>5, <2>6 DEF PassInv
<1>5. pass = 1 \/ pass > 1
  BY PassAssumption DEF TypeOK
<1> QED BY <1>3, <1>4, <1>5

\* So does every step.
LEMMA PassNext == TypeOK /\ PassInv /\ [Next]_vars => PassInv'
<1> SUFFICES ASSUME TypeOK, PassInv, [Next]_vars, NoneWaits' PROVE PassInv'
  BY DEF PassInv
<1>1. file' = file
  BY VisitFrame DEF Next, NextPass, Finished, vars
<1>2. /\ NoneWaits
      /\ \A m \in Position : Reachable(m)' <=> Reachable(m)
  BY <1>1 DEF NoneWaits, AssignmentsReachable, WaitsForItem, Collected, Excluded,
              AssignmentsOf, Of, Reachable
<1>3. CASE \E n \in Position : Visit(n)
  BY <1>2, <1>3, PassVisit
<1>4. CASE NextPass
  <2>1. pass \in {1, 2}
    BY <1>2, <1>4 DEF PassInv, NextPass
  <2>2. pass' = pass + 1
    BY <1>4, <2>1, PassAssumption DEF NextPass
  <2> QED BY <1>2, <1>4, <2>1, <2>2 DEF PassInv, NextPass
<1>5. CASE UNCHANGED vars
  BY <1>2, <1>5 DEF PassInv, vars
<1> QED BY <1>3, <1>4, <1>5 DEF Next, Finished

-----------------------------------------------------------------------------
(* No deferral loses a function, and excluded tests stay excluded.          *)

\* A hook of n was called in this visit.
Handled(n) == IsNext(n) /\ \E h \in file[n].hooked : layer > h

Settled(n) ==
  /\ file[n].kind = "test" /\ ~ Excluded(n) => n \in checked
  /\ file[n].kind = "fixture" => n \in published

(***************************************************************************)
(* The first hook of a visit already settles the function or defers it, so *)
(* nothing depends on the hooks that follow it.                            *)
(***************************************************************************)
ProgressInv ==
  /\ \A n \in begun : ~ Excluded(n)
  /\ \A n \in Position : Reachable(n) =>
       (n \in todo /\ ~ Handled(n)) \/ n \in deferredNodes \/ Settled(n)

\* Everything is still to do at the start.
LEMMA ProgressInit == Init => ProgressInv
<1> SUFFICES ASSUME Init, NEW n \in Position, Reachable(n) PROVE n \in todo /\ ~ Handled(n)
  BY DEF Init, ProgressInv
<1> QED BY FileFacts DEF Init, Handled

\* The hook settles the function or defers it.
LEMMA HookSettles ==
  ASSUME TypeOK, NEW n \in Position, AtHook(n), Visit(n)
  PROVE  n \in deferredNodes' \/ Settled(n)'
<1>1. file' = file /\ (Excluded(n)' <=> Excluded(n))
  BY VisitFrame DEF Excluded, AssignmentsOf, Of
<1>2. CASE RequiredWait(n) \/ SpeculativeWait(n) \/ WaitInCheck(n)
  BY <1>2 DEF RequiredWait, SpeculativeWait, WaitInCheck
<1>3. CASE PublishFixture(n)
  BY <1>1, <1>3 DEF PublishFixture, Settled
<1>4. CASE CheckTest(n)
  BY <1>1, <1>4 DEF CheckTest, BeginCheck, IsTest, Settled
<1>5. CASE Ignore(n)
  BY <1>1, <1>5, IgnoredIsExcluded DEF Ignore, IsTest, Settled
<1> QED BY <1>2, <1>3, <1>4, <1>5 DEF Visit, Accept, AtHook

\* A function that was not handled in this visit is not left without a hook.
LEMMA UnhandledStays ==
  ASSUME TypeOK, NEW n \in Position, Accept(n), ~ Handled(n), file[n].hooked # {}
  PROVE  n \in todo' /\ ~ Handled(n)'
<1>1. /\ IsNext(n) /\ n \in todo /\ layer \notin file[n].hooked /\ Advance(n)
      /\ layer \in Nat /\ file[n].decorators \in Nat /\ file' = file
  BY VisitFrame, FileFacts, SizeAssumption DEF Accept, IsNext, TypeOK, Visit
<1>2. \A h \in file[n].hooked : h \in Nat /\ h > layer /\ h <= file[n].decorators
  <2> SUFFICES ASSUME NEW h \in file[n].hooked
               PROVE  h \in Nat /\ h > layer /\ h <= file[n].decorators
    OBVIOUS
  <2>1. h \in 1..file[n].decorators
    BY FileFacts DEF TypeOK
  <2>2. ~ (layer > h) /\ layer # h
    BY <1>1 DEF Handled
  <2> QED BY <1>1, <2>1, <2>2
<1>3. layer' = layer + 1 /\ todo' = todo
  BY <1>1, <1>2 DEF Advance
<1> QED BY <1>1, <1>2, <1>3 DEF Handled

\* Each outcome of a visit keeps it.
LEMMA ProgressVisit ==
  ASSUME TypeOK, ProgressInv, NEW n \in Position, Visit(n)
  PROVE  ProgressInv'
<1>1. /\ IsNext(n) /\ Advance(n) /\ file' = file
      /\ \A m \in Position : (Reachable(m)' <=> Reachable(m)) /\ (Excluded(m)' <=> Excluded(m))
  BY VisitFrame DEF Reachable, Excluded, AssignmentsOf, Of
<1>2. /\ checked \subseteq checked' /\ published \subseteq published'
      /\ deferredNodes \subseteq deferredNodes'
  BY DEF Visit, Accept, RequiredWait, PublishFixture, Ignore, SpeculativeWait, CheckTest, WaitInCheck, BeginCheck
<1>3. \A m \in begun' : ~ Excluded(m)'
  <2>1. \A m \in begun' \ begun : m = n /\ BeginCheck(n)
    BY DEF Visit, Accept, RequiredWait, PublishFixture, Ignore, SpeculativeWait, CheckTest, WaitInCheck, BeginCheck
  <2>2. BeginCheck(n) => ~ Excluded(n)
    BY IgnoredIsExcluded DEF BeginCheck, IsTest
  <2>3. begun \subseteq Position
    BY DEF TypeOK, Of
  <2> QED BY <1>1, <2>1, <2>2, <2>3 DEF ProgressInv
<1>4. ASSUME NEW m \in Position, Reachable(m)
      PROVE  (m \in todo' /\ ~ Handled(m)') \/ m \in deferredNodes' \/ Settled(m)'
  <2>1. Settled(m) => Settled(m)'
    BY <1>1, <1>2 DEF Settled
  <2>2. CASE m # n /\ m \in todo
    <3>1. m \in todo'
      BY <1>1, <2>2 DEF Advance
    <3>2. ~ Handled(m)'
      <4>1. CASE todo' = todo
        BY <1>1, <2>2, <4>1, NextUnique DEF Handled, IsNext
      <4>2. CASE todo' # todo
        <5>1. layer' = 1
          BY <1>1, <4>2 DEF Advance
        <5> QED BY <1>1, <5>1, FileFacts DEF Handled, TypeOK
      <4> QED BY <4>1, <4>2
    <3> QED BY <3>1, <3>2
  <2>3. CASE m = n
    <3>1. CASE AtHook(n)
      BY <2>3, <3>1, HookSettles
    <3>2. CASE Accept(n) /\ file[n].hooked # {}
      BY <1>2, <1>4, <2>1, <2>3, <3>2, UnhandledStays DEF ProgressInv
    <3>3. CASE file[n].hooked = {}
      <4>1. file[n].kind \in {"assign", "exit"}
        BY <3>3, FileFacts DEF TypeOK
      <4> QED BY <1>1, <2>3, <4>1 DEF Settled
    <3> QED BY <3>1, <3>2, <3>3
         DEF Visit, RequiredWait, PublishFixture, Ignore, SpeculativeWait, CheckTest, WaitInCheck, BeginCheck
  <2> QED BY <1>2, <1>4, <2>1, <2>2, <2>3 DEF ProgressInv
<1> QED BY <1>1, <1>3, <1>4 DEF ProgressInv

\* So does every step.
LEMMA ProgressNext == TypeOK /\ ProgressInv /\ [Next]_vars => ProgressInv'
<1> SUFFICES ASSUME TypeOK, ProgressInv, [Next]_vars PROVE ProgressInv'
  OBVIOUS
<1>1. CASE \E n \in Position : Visit(n)
  BY <1>1, ProgressVisit
<1>2. CASE NextPass \/ UNCHANGED vars
  <2>1. file' = file /\ UNCHANGED <<begun, checked, published>>
    BY <1>2 DEF NextPass, vars
  <2>2. \A m \in Position : /\ Reachable(m)' <=> Reachable(m)
                            /\ Excluded(m)' <=> Excluded(m)
                            /\ Settled(m)' <=> Settled(m)
    BY <2>1 DEF Reachable, Excluded, AssignmentsOf, Of, Settled
  <2>3. begun \subseteq Position
    BY DEF TypeOK, Of
  <2>4. CASE NextPass
    <3>1. layer' = 1 /\ todo = {} /\ todo' = deferredNodes
      BY <2>4 DEF NextPass, TypeOK
    <3>2. \A m \in Position : ~ Handled(m)'
      BY <2>1, <3>1, FileFacts DEF Handled, TypeOK
    <3> QED BY <2>1, <2>2, <2>3, <3>1, <3>2 DEF ProgressInv
  <2>5. CASE UNCHANGED vars
    <3>1. \A m \in Position : Handled(m)' <=> Handled(m)
      BY <2>5 DEF vars, Handled, IsNext
    <3> QED BY <2>2, <2>3, <2>5, <3>1 DEF vars, ProgressInv
  <2> QED BY <1>2, <2>4, <2>5
<1> QED BY <1>1, <1>2 DEF Next, Finished

-----------------------------------------------------------------------------
(* The theorems.                                                            *)

IInv == TypeOK /\ OneMarkInv /\ OutermostInv /\ PassInv /\ ProgressInv

\* The invariants above hold in every state of every file.
THEOREM Invariance == Spec => []IInv
<1>1. Init => IInv
  BY TypeInit, OneMarkInit, OutermostInit, PassInit, ProgressInit DEF IInv
<1>2. IInv /\ [Next]_vars => IInv'
  BY TypeNext, OneMarkNext, OutermostNext, PassNext, ProgressNext DEF IInv
<1> QED BY <1>1, <1>2, PTL DEF Spec

\* The purpose of the speculative wait: in every file whose functions have one
\* mark, or whose fixtures have pytest.fixture outermost, no check of a test begins
\* before all fixtures are published.
THEOREM NoEarlyCheckCorrect == Spec => []NoEarlyCheck
<1>1. IInv => NoEarlyCheck
  BY DEF IInv, OneMarkInv, OutermostInv, NoEarlyCheck
<1> QED BY <1>1, Invariance, PTL

\* A test with one mark is not deferred any more once its check has begun, so its errors
\* are reported once, unless a starred item breaks the check off.
THEOREM BegunOnceCorrect == Spec => NotDeferredOnceBegun
<1> DEFINE Once == OneMark => \A n \in begun \cap deferredNodes' : file[n].starred
<1>1. IInv' /\ [Next]_vars => [Once]_vars
  <2> SUFFICES ASSUME IInv', [Next]_vars, OneMark, NEW n \in begun \cap deferredNodes'
               PROVE  file[n].starred
    OBVIOUS
  <2>1. OneMark' /\ begun \subseteq begun' /\ file' = file
    BY VisitFrame DEF Next, NextPass, Finished, vars, OneMark, Visit, Accept,
       RequiredWait, PublishFixture, Ignore, SpeculativeWait, CheckTest, WaitInCheck, BeginCheck
  <2> QED BY <2>1 DEF IInv, OneMarkInv
<1> QED BY <1>1, Invariance, PTL DEF Spec, NotDeferredOnceBegun

\* When every assignment can be typed and no collected test is starred, three passes are
\* enough for any file.
THEOREM PassesCorrect == Spec => []AtMostThreePasses
<1>1. IInv => AtMostThreePasses
  BY DEF IInv, PassInv, NoneWaits, AtMostThreePasses
<1> QED BY <1>1, Invariance, PTL

\* Whatever the file: a no check begins of a test excluded anywhere in its module.
THEOREM ExclusionCorrect == Spec => []ExcludedNeverChecked
<1>1. IInv => ExcludedNeverChecked
  BY DEF IInv, ProgressInv, ExcludedNeverChecked
<1> QED BY <1>1, Invariance, PTL

\* Whatever the file: no deferral loses a reachable fixture or test.
THEOREM NothingForgottenCorrect == Spec => []NothingForgotten
<1>1. IInv => NothingForgotten
  BY DEF IInv, ProgressInv, NothingForgotten, Collected, ReachableFixtures, Of, Settled
<1> QED BY <1>1, Invariance, PTL

-----------------------------------------------------------------------------
\* Every step of the composition is a step of the schedule or leaves it alone.
LEMMA CachedStep ==
  ASSUME CachedNext
  PROVE  [Next]_vars
<1>1. CASE \E n \in Position :
             \/ Schedule(n) \/ PublishCached(n)
             \/ CheckCached(n) \/ WaitCached(n) \/ CrashOnAutouse(n)
  BY <1>1 DEF Schedule, PublishCached, CheckCached, WaitCached, CrashOnAutouse, Next, Visit
<1>2. CASE NextPass
  BY <1>2 DEF Next
<1>3. CASE \E key \in DOMAIN cache : Evict(key)
  BY <1>3 DEF Evict
<1>4. CASE UNCHANGED allVars
  BY <1>4 DEF allVars, vars
<1> QED BY <1>1, <1>2, <1>3, <1>4 DEF CachedNext

\* The composition implements the schedule it was put on.
THEOREM CachedImplementsSchedule == CachedSpec => Spec
<1>1. CachedInit => Init
  BY DEF CachedInit
<1>2. [CachedNext]_allVars => [Next]_vars
  BY CachedStep DEF allVars, vars
<1> QED BY <1>1, <1>2, PTL DEF CachedSpec, Spec

-----------------------------------------------------------------------------

(***************************************************************************)
(* In an ordered source the cache stays empty until every fixture is       *)
(* published, and what it holds from then on is what a lookup finds.  Each *)
(* name in an autouse list belongs to a published autouse fixture of that  *)
(* module.                                                                 *)
(***************************************************************************)
CacheInv ==
  /\ \A m \in Modules : \A x \in autouseNames[m] :
       \E f \in published : decl[f].name = x /\ file[f].module = m /\ decl[f].autouse
  /\ Ordered =>
       /\ CacheCoherent
       /\ DOMAIN cache # {} => ReachableFixtures \subseteq published
       /\ NoFalseReport
       /\ NoCrash

\* A check in an ordered source sees every fixture.
LEMMA CheckSeesAll ==
  ASSUME IInv, Ordered, NEW t \in Position, BeginCheck(t), IInv', file' = file
  PROVE  ReachableFixtures \subseteq published
<1>1. early' = {}
  <2>1. OneMark' \/ OutermostFixtures'
    BY DEF Ordered, OneMark, OutermostFixtures, Of
  <2> QED BY <2>1 DEF IInv, OneMarkInv, OutermostInv
<1> QED BY <1>1 DEF BeginCheck

\* In such a source an answer is what the module of the test makes visible.
LEMMA AnswersAreRight ==
  ASSUME TypeOK, CacheInv, Ordered, ReachableFixtures \subseteq published,
         NEW x, NEW m
  PROVE  ResolveFixture(x, m) = Lookup(x, m) /\ Lookup(x, m) = Visible(x, m)
<1>1. published = ReachableFixtures
  BY DEF TypeOK
<1> QED BY <1>1 DEF CacheInv, CacheCoherent, ResolveFixture, Lookup, Visible

\* The cache is empty at the start.
LEMMA CacheInit == CachedInit => CacheInv
BY DEF CachedInit, CacheInv, CacheCoherent, NoFalseReport, NoCrash

\* Remembering the answers of a check that sees everything keeps the cache right.
LEMMA RightAnswers ==
  ASSUME IInv, CacheInv, Ordered, ReachableFixtures \subseteq published,
         NEW t \in Position, RememberAnswers(t), UNCHANGED <<file, decl, published>>
  PROVE  CacheCoherent'
<1>1. \A key \in DOMAIN cache' : cache'[key] = ResolveFixture(key[1], key[2])
  BY DEF RememberAnswers
<1>2. \A x, m : ResolveFixture(x, m) = Lookup(x, m)
  BY AnswersAreRight DEF IInv
<1>3. \A x, m : Lookup(x, m)' = Lookup(x, m)
  BY DEF Lookup
<1> QED BY <1>1, <1>2, <1>3 DEF CacheCoherent

\* A check that finds everything published caches right answers and reports by them.
LEMMA CheckKeepsCacheInv ==
  ASSUME IInv, IInv', CacheInv, NEW t \in Position, CheckCached(t) \/ CrashOnAutouse(t)
  PROVE  CacheInv'
<1>1. /\ CheckTest(t) /\ BeginCheck(t) /\ RememberAnswers(t)
      /\ UNCHANGED <<decl, autouseNames, published, file>>
  BY DEF CheckCached, CrashOnAutouse, CheckTest, BeginCheck, Advance
<1>2. /\ ReachableFixtures' = ReachableFixtures /\ (Ordered' <=> Ordered)
      /\ \A x, m : Lookup(x, m)' = Lookup(x, m)
      /\ \A m : AllFound(m)' = AllFound(m)
  BY <1>1, VisitFrame DEF Visit, Ordered, Lookup, AllFound, Visible
<1>3. ASSUME Ordered
      PROVE  /\ CacheCoherent' /\ NoFalseReport' /\ NoCrash'
             /\ ReachableFixtures' \subseteq published'
  <2>1. ReachableFixtures \subseteq published
    BY <1>1, <1>3, CheckSeesAll
  <2>2. \A x, m : ResolveFixture(x, m) = Lookup(x, m) /\ Lookup(x, m) = Visible(x, m)
    BY <1>3, <2>1, AnswersAreRight DEF IInv
  <2>3. CacheCoherent'
    BY <1>1, <1>3, <2>1, RightAnswers
  <2>4. AutouseResolve(t)
    <3> SUFFICES ASSUME NEW x \in AutouseFixtureNames(file[t].module)
                 PROVE  \E f \in ResolveFixture(x, file[t].module) : decl[f].autouse
      BY DEF AutouseResolve
    <3>1. file[t].module \in Modules
      BY FilesAssumption DEF IInv, TypeOK, Statement
    <3>2. PICK r \in Resolution[file[t].module] : x \in autouseNames[r]
      BY DEF AutouseFixtureNames
    <3>3. r \in Modules
      BY <3>1, <3>2, ResolutionAssumption
    <3>4. PICK f \in published : decl[f].name = x /\ file[f].module = r /\ decl[f].autouse
      BY <3>2, <3>3 DEF CacheInv
    <3>5. f \in Lookup(x, file[t].module)
      BY <3>2, <3>4 DEF Lookup
    <3> QED BY <2>2, <3>4, <3>5
  <2>5. CheckCached(t) /\ crashed' = crashed
    BY <2>4 DEF CheckCached, CrashOnAutouse
  <2>6. NoCrash'
    BY <1>2, <1>3, <2>5 DEF CacheInv, NoCrash
  <2>7. NoFalseReport'
    <3>1. Found(file[t].module) = AllFound(file[t].module)
      BY <2>2 DEF Found, AllFound
    <3>2. \A r \in unresolved' : r \in unresolved \/
            (r[1] = t /\ RunsOut(r[2], Found(file[t].module)))
      BY <2>5 DEF CheckCached
    <3>3. \A r \in unresolved' : RunsOut(r[2], AllFound(file[r[1]].module))
      BY <1>3, <3>1, <3>2 DEF CacheInv, NoFalseReport
    <3>4. \A x, found : RunsOut(x, found)' <=> RunsOut(x, found)
      BY <1>1 DEF RunsOut, ResolvedNames
    <3> QED BY <1>1, <1>2, <3>3, <3>4 DEF NoFalseReport
  <2> QED BY <1>1, <1>2, <2>1, <2>3, <2>6, <2>7
<1> QED BY <1>1, <1>2, <1>3 DEF CacheInv

\* So does a check that breaks off, whether or not it came to look fixtures up.
LEMMA WaitKeepsCacheInv ==
  ASSUME IInv, IInv', CacheInv, NEW t \in Position, WaitCached(t)
  PROVE  CacheInv'
<1>1. /\ BeginCheck(t)
      /\ UNCHANGED <<decl, autouseNames, unresolved, crashed, published, file>>
      /\ RememberAnswers(t) \/ UNCHANGED cache
  BY DEF WaitCached, WaitInCheck, BeginCheck, Advance
<1>2. /\ ReachableFixtures' = ReachableFixtures /\ (Ordered' <=> Ordered)
      /\ \A x, m : Lookup(x, m)' = Lookup(x, m)
      /\ \A m : AllFound(m)' = AllFound(m)
      /\ \A x, found : RunsOut(x, found)' <=> RunsOut(x, found)
  BY <1>1 DEF Ordered, OneMark, OutermostFixtures, ReachableFixtures, Of, Reachable,
              Lookup, AllFound, Visible, RunsOut, ResolvedNames
<1>3. ASSUME Ordered PROVE CacheCoherent' /\ ReachableFixtures' \subseteq published'
  <2>1. ReachableFixtures \subseteq published
    BY <1>1, <1>3, CheckSeesAll
  <2>2. CASE RememberAnswers(t)
    BY <1>1, <1>2, <1>3, <2>1, <2>2, RightAnswers
  <2>3. CASE UNCHANGED cache
    BY <1>1, <1>2, <1>3, <2>1, <2>3 DEF CacheInv, CacheCoherent
  <2> QED BY <1>1, <2>2, <2>3
<1>4. Ordered => NoFalseReport' /\ NoCrash'
  BY <1>1, <1>2 DEF CacheInv, NoFalseReport, NoCrash
<1> QED BY <1>1, <1>2, <1>3, <1>4 DEF CacheInv

\* Every step of the composition keeps it.
LEMMA CacheNext == IInv /\ IInv' /\ CacheInv /\ [CachedNext]_allVars => CacheInv'
<1> SUFFICES ASSUME IInv, IInv', CacheInv, [CachedNext]_allVars PROVE CacheInv'
  OBVIOUS
<1>0. file' = file /\ ReachableFixtures' = ReachableFixtures /\ (Ordered' <=> Ordered)
  <2>1. file' = file
    BY CachedStep, VisitFrame DEF Next, NextPass, Finished, vars, allVars
  <2> QED BY <2>1 DEF ReachableFixtures, Of, Reachable, Ordered, OneMark, OutermostFixtures
<1>a. decl' = decl
  BY DEF CachedNext, Schedule, PublishCached, CheckCached, WaitCached, CrashOnAutouse,
         Evict, cacheVars, allVars
<1>b. /\ \A m : AllFound(m)' = AllFound(m)
      /\ \A x, found : RunsOut(x, found)' <=> RunsOut(x, found)
  BY <1>0, <1>a DEF AllFound, Visible, RunsOut, ResolvedNames
<1>1. CASE \E n \in Position : CheckCached(n) \/ CrashOnAutouse(n) \/ WaitCached(n)
  BY <1>1, CheckKeepsCacheInv, WaitKeepsCacheInv
<1>2. ASSUME NEW n \in Position, PublishCached(n) PROVE CacheInv'
  <2>1. /\ published' = published \cup {n} /\ n \in ReachableFixtures
        /\ UNCHANGED <<decl, cache, unresolved, crashed>>
    BY <1>2 DEF PublishCached, PublishFixture, AtHook, IsNext, ReachableFixtures, Of,
                IInv, TypeOK
  <2>3. ASSUME Ordered, DOMAIN cache # {}
        PROVE  published' = published
    BY <2>1, <2>3 DEF CacheInv
  <2>4. Ordered => CacheCoherent'
    <3> SUFFICES ASSUME Ordered, NEW key \in DOMAIN cache
                 PROVE  cache[key] = Lookup(key[1], key[2])'
      BY <2>1 DEF CacheCoherent
    <3>1. Lookup(key[1], key[2])' = Lookup(key[1], key[2])
      BY <1>0, <2>1, <2>3 DEF Lookup
    <3> QED BY <3>1 DEF CacheInv, CacheCoherent
  <2>5. \A m \in Modules : \A x \in autouseNames'[m] :
          \E f \in published' : decl'[f].name = x /\ file'[f].module = m /\ decl'[f].autouse
    <3> SUFFICES ASSUME NEW m \in Modules, NEW x \in autouseNames'[m]
                 PROVE  \E f \in published' :
                          decl[f].name = x /\ file[f].module = m /\ decl[f].autouse
      BY <1>0, <2>1
    <3>1. x \in autouseNames[m] \/ (decl[n].autouse /\ x = decl[n].name /\ m = file[n].module)
      BY <1>2 DEF PublishCached
    <3> QED BY <2>1, <3>1 DEF CacheInv
  <2> QED BY <1>0, <1>b, <2>1, <2>4, <2>5 DEF CacheInv, NoFalseReport, NoCrash
<1>3. CASE \E n \in Position : Schedule(n)
  BY <1>0, <1>b, <1>3 DEF Schedule, Accept, RequiredWait, Ignore, SpeculativeWait, cacheVars,
     CacheInv, CacheCoherent, NoFalseReport, NoCrash, Lookup
<1>4. CASE (NextPass /\ UNCHANGED cacheVars) \/ UNCHANGED allVars
  BY <1>0, <1>b, <1>4 DEF NextPass, cacheVars, allVars, vars,
     CacheInv, CacheCoherent, NoFalseReport, NoCrash, Lookup
<1>5. CASE \E key \in DOMAIN cache : Evict(key)
  BY <1>0, <1>b, <1>5 DEF Evict, vars,
     CacheInv, CacheCoherent, NoFalseReport, NoCrash, Lookup
<1> QED BY <1>1, <1>2, <1>3, <1>4, <1>5 DEF CachedNext

\* The invariants of the schedule and of the cache hold throughout.
THEOREM CacheInvariance == CachedSpec => [](IInv /\ CacheInv)
<1>1. CachedInit => CacheInv
  BY CacheInit
<1>2. CachedSpec => []IInv
  BY CachedImplementsSchedule, Invariance
<1>3. IInv /\ IInv' /\ CacheInv /\ [CachedNext]_allVars => CacheInv'
  BY CacheNext
<1> QED BY <1>1, <1>2, <1>3, PTL DEF CachedSpec

\* In ordered sources the cache of resolve_fixture is never stale.
THEOREM CacheCoherentCorrect == CachedSpec => []CacheCoherent
<1>1. CacheInv => CacheCoherent
  BY DEF CacheInv, CacheCoherent
<1> QED BY <1>1, CacheInvariance, PTL

\* In ordered sources a name is reported as one that cannot be resolved only if the test
\* sees no fixture of that name, or every one it sees leads back to a request for it.
THEOREM NoFalseReportCorrect == CachedSpec => []NoFalseReport
<1>1. CacheInv => NoFalseReport
  BY DEF CacheInv, NoFalseReport
<1> QED BY <1>1, CacheInvariance, PTL

\* In ordered sources the AssertionError for autouse fixtures is unreachable.
THEOREM NoCrashCorrect == CachedSpec => []NoCrash
<1>1. CacheInv => NoCrash
  BY DEF CacheInv, NoCrash
<1> QED BY <1>1, CacheInvariance, PTL

-----------------------------------------------------------------------------
(* Types.                                                                   *)

CacheTypes ==
  /\ decl \in [Position -> Declaration]
  /\ autouseNames \in [Modules -> SUBSET Names]
  /\ DOMAIN cache \subseteq Names \X Modules
  /\ \A key \in DOMAIN cache : cache[key] \subseteq published
  /\ unresolved \subseteq checked \X Names
  /\ crashed \in BOOLEAN

\* A look-up answers published fixtures.
LEMMA AnswersPublished ==
  ASSUME TypeOK, CacheTypes, NEW x, NEW m
  PROVE  ResolveFixture(x, m) \subseteq published /\ published \subseteq Position
BY DEF TypeOK, CacheTypes, ResolveFixture, Lookup, ReachableFixtures, Of

\* Following requests from names to fixtures leads to names.
LEMMA ResolvedNamesType ==
  ASSUME CacheTypes, NEW start \in SUBSET Names, NEW found,
         \A x \in Names : found[x] \subseteq Position
  PROVE  ResolvedNames(start, found) \subseteq Names
<1> DEFINE n == Cardinality(Names)
           More(X) == X \cup UNION {decl[f].requests :
                                      f \in UNION {found[x] : x \in X}}
           Rounds(After) == [k \in 0..n |-> IF k = 0 THEN start ELSE More(After[k - 1])]
           After == CHOOSE g : g = Rounds(g)
<1>1. n \in Nat
  BY NamesAssumption, FS_CardinalityType
<1>2. ASSUME NEW X \in SUBSET Names PROVE More(X) \in SUBSET Names
  <2>1. \A x \in X : found[x] \subseteq Position
    BY <1>2
  <2>2. \A f \in Position : decl[f].requests \subseteq Names
    BY DEF CacheTypes, Declaration
  <2> QED BY <2>1, <2>2
<1> HIDE DEF More
<1>3. \E g : g = Rounds(g)
  <2> DEFINE next == [k \in 1..n |-> [X \in SUBSET Names |-> More(X)]]
  <2>1. next \in [1..n -> [SUBSET Names -> SUBSET Names]]
    BY <1>2
  <2> HIDE DEF n
  <2>2. PICK g \in [0..n -> SUBSET Names] : Iterates(g, n, start, next)
    <3> DEFINE D == SUBSET Names
    <3>1. start \in D /\ next \in [1..n -> [D -> D]]
      BY <2>1
    <3> HIDE DEF next, D
    <3>2. \E g \in [0..n -> D] : Iterates(g, n, start, next)
      BY <1>1, <3>1, Iteration
    <3> QED BY <3>2 DEF D
  <2>3. g[0] = start /\ \A k \in 1..n : g[k] = next[k][g[k - 1]]
    BY <2>2 DEF Iterates
  <2>4. ASSUME NEW k \in 0..n
        PROVE  g[k] = IF k = 0 THEN start ELSE More(g[k - 1])
    <3>1. CASE k = 0
      BY <2>3, <3>1
    <3>2. CASE k # 0
      <4>1. k \in 1..n /\ k - 1 \in 0..n
        BY <1>1, <3>2
      <4>2. g[k - 1] \in SUBSET Names
        BY <4>1
      <4>3. next[k][g[k - 1]] = More(g[k - 1])
        BY <4>1, <4>2
      <4>4. g[k] = next[k][g[k - 1]]
        BY <2>3, <4>1
      <4> QED BY <3>2, <4>3, <4>4
    <3> QED BY <3>1, <3>2
  <2>5. g = Rounds(g)
    BY <2>4
  <2> QED BY <2>5
<1>4. After = Rounds(After)
  <2> HIDE DEF Rounds
  <2> QED BY <1>3
<1>5. ResolvedNames(start, found) = After[n]
  BY DEF ResolvedNames, More
<1> DEFINE S == {k \in 0..n : After[k] \subseteq Names}
<1> HIDE DEF After, n
<1>6. 0 \in S
  <2>1. 0 \in 0..n
    BY <1>1
  <2>2. After[0] = start
    BY <1>4, <2>1
  <2> QED BY <2>1, <2>2
<1>7. ASSUME NEW k \in 1..n, k - 1 \in S PROVE k \in S
  <2>1. k \in 0..n /\ k # 0
    BY <1>1
  <2>2. After[k] = More(After[k - 1])
    BY <1>4, <2>1
  <2> QED BY <1>2, <1>7, <2>1, <2>2
<1>8. n \in S
  <2> HIDE DEF S
  <2> QED BY <1>1, <1>6, <1>7, UpTo
<1> QED BY <1>5, <1>8

\* What a check requests are names.
LEMMA RequestedType ==
  ASSUME TypeOK, CacheTypes, NEW t \in Position
  PROVE  Requested(t) \subseteq Names /\ file[t].module \in Modules
<1>1. file[t].module \in Modules
  BY FilesAssumption DEF TypeOK, Statement
<1>2. decl[t].requests \subseteq Names
  BY DEF CacheTypes, Declaration
<1>3. AutouseFixtureNames(file[t].module) \subseteq Names
  <2>1. \A r \in Resolution[file[t].module] : r \in Modules
    BY <1>1, ResolutionAssumption
  <2> QED BY <2>1 DEF CacheTypes, AutouseFixtureNames
<1>4. \A x \in Names : Found(file[t].module)[x] \subseteq Position
  BY AnswersPublished DEF Found
<1> QED BY <1>1, <1>2, <1>3, <1>4, ResolvedNamesType DEF Requested

\* Nothing is declared, cached or reported at the start.
LEMMA CacheTypesInit == CachedInit => CacheTypes
BY DeclarationsAssumption DEF CachedInit, CacheTypes, Init

\* Every step of the composition keeps the types.
LEMMA CacheTypesNext == TypeOK /\ CacheTypes /\ [CachedNext]_allVars => CacheTypes'
<1> SUFFICES ASSUME TypeOK, CacheTypes, [CachedNext]_allVars PROVE CacheTypes'
  OBVIOUS
<1> USE DEF CacheTypes
<1>1. ASSUME NEW t \in Position, CheckCached(t) \/ CrashOnAutouse(t) PROVE CacheTypes'
  <2>1. /\ published' = published /\ checked' = checked \cup {t}
        /\ UNCHANGED <<decl, autouseNames>>
        /\ RememberAnswers(t) /\ Requested(t) \subseteq Names /\ file[t].module \in Modules
    BY <1>1, RequestedType DEF CheckCached, CrashOnAutouse, CheckTest
  <2>2. /\ DOMAIN cache' \subseteq Names \X Modules
        /\ \A key \in DOMAIN cache' : cache'[key] \subseteq published
    BY <2>1, AnswersPublished DEF RememberAnswers
  <2>3. unresolved' \subseteq checked' \X Names /\ crashed' \in BOOLEAN
    <3>1. CASE CheckCached(t)
      <4>1. crashed' = crashed /\ \A r \in unresolved' :
              r \in unresolved \/ \E x \in Requested(t) : r = <<t, x>>
        BY <3>1 DEF CheckCached
      <4> QED BY <2>1, <4>1
    <3>2. CASE CrashOnAutouse(t)
      BY <2>1, <3>2 DEF CrashOnAutouse
    <3> QED BY <1>1, <3>1, <3>2
  <2> QED BY <2>1, <2>2, <2>3
<1>6. ASSUME NEW t \in Position, WaitCached(t) PROVE CacheTypes'
  <2>1. /\ published' = published /\ checked' = checked
        /\ UNCHANGED <<decl, autouseNames, unresolved, crashed>>
        /\ RememberAnswers(t) \/ cache' = cache
        /\ Requested(t) \subseteq Names /\ file[t].module \in Modules
    BY <1>6, RequestedType DEF WaitCached, WaitInCheck
  <2>2. /\ DOMAIN cache' \subseteq Names \X Modules
        /\ \A key \in DOMAIN cache' : cache'[key] \subseteq published
    BY <2>1, AnswersPublished DEF RememberAnswers
  <2> QED BY <2>1, <2>2
<1>2. ASSUME NEW n \in Position, PublishCached(n) PROVE CacheTypes'
  <2>1. published \subseteq published' /\ UNCHANGED <<decl, cache, unresolved, crashed, checked>>
    BY <1>2 DEF PublishCached, PublishFixture
  <2>2. autouseNames' \in [Modules -> SUBSET Names]
    <3>1. decl[n].name \in Names
      BY DEF Declaration
    <3> QED BY <1>2, <3>1 DEF PublishCached
  <2> QED BY <2>1, <2>2
<1>3. ASSUME NEW n \in Position, Schedule(n) PROVE CacheTypes'
  BY <1>3 DEF Schedule, Accept, RequiredWait, Ignore, SpeculativeWait, cacheVars
<1>4. CASE (NextPass /\ UNCHANGED cacheVars) \/ UNCHANGED allVars
  BY <1>4 DEF NextPass, cacheVars, allVars, vars
<1>5. CASE \E key \in DOMAIN cache : Evict(key)
  BY <1>5 DEF Evict, vars
<1> QED BY <1>1, <1>2, <1>3, <1>4, <1>5, <1>6 DEF CachedNext

\* Every variable of the composition keeps its type: what the cache answers with is
\* published, what a test requests are names, and only checked tests have reports.
THEOREM CachedTypeCorrect == CachedSpec => []CachedTypeOK
<1>1. CachedSpec => []TypeOK
  BY CachedImplementsSchedule, TypeCorrect, PTL
<1>2. TypeOK /\ CacheTypes => CachedTypeOK
  BY DEF CacheTypes, CachedTypeOK
<1> QED BY <1>1, <1>2, CacheTypesInit, CacheTypesNext, PTL DEF CachedSpec

=============================================================================
