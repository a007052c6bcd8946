----------------------- MODULE WebClientCatchUpProofs -----------------------
(***************************************************************************)
(* What the client keeps and what it catches up with, for any values of    *)
(* its constants: no work is lost where a page, a sheet or an end closes   *)
(* over it (KeepsWork), with nothing under way and nothing lost what is    *)
(* shown is what there is (CatchesUp), and every section keeps its types   *)
(* (TypeOK).                                                               *)
(***************************************************************************)
EXTENDS WebClientScreenProofs

-----------------------------------------------------------------------------
(***************************************************************************)
(* The sheet of a schedule.  What is typed is typed in a sheet that is     *)
(* there, in no dialog's way, and over no creation of a sheet that was     *)
(* closed.                                                                 *)
(***************************************************************************)

ListTyped ==
    /\ item \in [Items -> {"none", "on", "off"}]
    /\ plannerList \in [known : BOOLEAN, is : [Items -> {"none", "on", "off"}], get : BOOLEAN]
    /\ plannerMaking \in [Items -> {"none", "sent", "answered", "own", "over"}]

DraftInv ==
    /\ ListTyped
    /\ sheet = [asked |-> sheet.asked, typed |-> sheet.typed]
    /\ sheet.asked \in BOOLEAN /\ sheet.typed \in BOOLEAN
    /\ sheet.typed => ThePlanner!SheetOpen
    /\ sheet.asked => plannerTarget = NoName
    /\ sheet.typed /\ "reopened" \notin plannerPast => \A i \in Items : plannerMaking[i] # "sent"

LEMMA InitDraft == ASSUME ThePlanner!Init PROVE DraftInv
  BY DEF ThePlanner!Init, ThePlanner!NoSheet, ListTyped, DraftInv

LEMMA DraftNext ==
    ASSUME DraftInv, ThePlanner!Next
    PROVE  DraftInv'
<1> USE DEF DraftInv, ListTyped, ThePlanner!SheetOpen, ThePlanner!Empty
<1>1. ASSUME NEW x \in {"form", "supervisor"}, ThePlanner!ChoosePattern(x) PROVE DraftInv'
  BY <1>1 DEF ThePlanner!ChoosePattern, ThePlanner!lists
<1>2. CASE ThePlanner!Create
  BY <1>2 DEF ThePlanner!Create, ThePlanner!lists
<1>3. CASE ThePlanner!HearCreate
  BY <1>3 DEF ThePlanner!HearCreate, ThePlanner!lists
<1>4. CASE ThePlanner!BackToPatterns
  BY <1>4 DEF ThePlanner!BackToPatterns, ThePlanner!lists
<1>5. CASE ThePlanner!GoToWorkflow
  BY <1>5 DEF ThePlanner!GoToWorkflow, ThePlanner!lists
<1>6. ASSUME NEW g \in Goals, ThePlanner!TypeGoal(g) PROVE DraftInv'
  BY <1>6 DEF ThePlanner!TypeGoal, ThePlanner!lists
<1>7. ASSUME NEW x \in Plans, ThePlanner!Generate(x) PROVE DraftInv'
  BY <1>7 DEF ThePlanner!Generate, ThePlanner!lists, ThePlanner!Ask
<1>8. ASSUME NEW x \in Plans, ThePlanner!Regenerate(x) PROVE DraftInv'
  BY <1>8 DEF ThePlanner!Regenerate, ThePlanner!lists, ThePlanner!Ask
<1>9. ASSUME NEW x \in Plans, ThePlanner!ServePlan(x) PROVE DraftInv'
  BY <1>9 DEF ThePlanner!ServePlan, ThePlanner!lists
<1>10. ASSUME NEW x \in Plans, ThePlanner!HearPlan(x) PROVE DraftInv'
  BY <1>10 DEF ThePlanner!HearPlan, ThePlanner!lists
<1>11. ASSUME NEW x \in Plans, ThePlanner!ServeApprove(x) PROVE DraftInv'
  BY <1>11 DEF ThePlanner!ServeApprove, ThePlanner!lists
<1>12. ASSUME NEW x \in Plans, ThePlanner!HearApprove(x) PROVE DraftInv'
  BY <1>12 DEF ThePlanner!HearApprove, ThePlanner!lists
<1>13. ASSUME NEW x \in Plans, ThePlanner!ServeRun(x) PROVE DraftInv'
  BY <1>13 DEF ThePlanner!ServeRun, ThePlanner!lists
<1>14. ASSUME NEW b \in BOOLEAN, ThePlanner!Approve(b) PROVE DraftInv'
  BY <1>14 DEF ThePlanner!Approve, ThePlanner!lists
<1>15. CASE ThePlanner!HearList
  <2>1. /\ plannerList' \in [known : BOOLEAN, is : [Items -> {"none", "on", "off"}], get : BOOLEAN]
        /\ item' = item
    <3> DEFINE S == [known : BOOLEAN, is : [Items -> {"none", "on", "off"}], get : BOOLEAN]
    <3>1. \A m \in S : [m EXCEPT !.get = FALSE] \in S
      OBVIOUS
    <3>2. [known |-> TRUE, is |-> item, get |-> FALSE] \in S
      OBVIOUS
    <3>3. plannerList \in S
      OBVIOUS
    <3> HIDE DEF S
    <3>4. item' = item /\ plannerList' \in S
      BY ONLY <1>15, <3>1, <3>2, <3>3 DEF ThePlanner!HearList
    <3> QED
      BY <3>4 DEF S
  <2>2. plannerMaking' \in [Items -> {"none", "sent", "answered", "own", "over"}]
    BY <1>15 DEF ThePlanner!HearList, ThePlanner!Orphaned
  <2>3. /\ sheet' = [asked |-> sheet.asked,
                     typed |-> sheet.typed /\ (sheet.asked \/ \A i \in Items : plannerList'.is[i] = "none")]
        /\ plannerView' = plannerView /\ plannerTarget' = plannerTarget /\ linked' = linked
        /\ plannerView = "list"
        /\ "reopened" \in plannerPast => "reopened" \in plannerPast'
        /\ plannerMaking' = IF sheet.asked \/ \A i \in Items : plannerList'.is[i] = "none"
                            THEN plannerMaking ELSE ThePlanner!Orphaned
    <3>1. sheet' = [sheet EXCEPT !.typed = sheet.typed /\ (sheet.asked \/ \A i \in Items : plannerList'.is[i] = "none")]
      BY ONLY <1>15 DEF ThePlanner!HearList
    <3>2. \A b : [sheet EXCEPT !.typed = b] = [asked |-> sheet.asked, typed |-> b]
      OBVIOUS
    <3> QED
      BY <1>15, <3>1, <3>2 DEF ThePlanner!HearList
  <2> DEFINE Shut == sheet.asked \/ \A i \in Items : plannerList'.is[i] = "none"
  <2>4. CASE Shut
    <3>1. /\ sheet' = [asked |-> sheet'.asked, typed |-> sheet'.typed]
          /\ sheet'.asked = sheet.asked /\ sheet'.typed \in BOOLEAN /\ (sheet'.typed => sheet.typed)
          /\ plannerMaking' = plannerMaking
      BY <2>3, <2>4
    <3>2. sheet'.typed => ThePlanner!SheetOpen'
      BY <2>3, <2>4, <3>1
    <3> HIDE DEF ThePlanner!SheetOpen
    <3> QED
      BY <2>1, <2>2, <2>3, <3>1, <3>2
  <2>5. CASE ~ Shut
    BY <2>1, <2>2, <2>3, <2>5
  <2> QED
    BY <2>4, <2>5
<1>16. CASE ThePlanner!OpenSheet
  BY <1>16 DEF ThePlanner!OpenSheet, ThePlanner!SheetOpen, ThePlanner!Empty
<1>17. CASE ThePlanner!TypeSchedule
  BY <1>17 DEF ThePlanner!TypeSchedule, ThePlanner!SheetOpen, ThePlanner!Empty
<1>18. CASE ThePlanner!CloseSheet
  BY <1>18 DEF ThePlanner!CloseSheet, ThePlanner!Orphaned, ThePlanner!Empty, ThePlanner!SheetOpen
<1>19. CASE ThePlanner!KeepItem
  BY <1>19 DEF ThePlanner!KeepItem, ThePlanner!SheetOpen, ThePlanner!Empty
<1>20. CASE ThePlanner!Delete
  BY <1>20 DEF ThePlanner!Delete, ThePlanner!SheetOpen, ThePlanner!Empty
<1>21. CASE ThePlanner!ServeDelete
  BY <1>21 DEF ThePlanner!ServeDelete, ThePlanner!Refetched, ThePlanner!SheetOpen, ThePlanner!Empty
<1>22. CASE ThePlanner!HearDelete
  BY <1>22 DEF ThePlanner!HearDelete, ThePlanner!SheetOpen, ThePlanner!Empty
<1>23. ASSUME NEW i \in Items, ThePlanner!CreateSchedule(i) PROVE DraftInv'
  BY <1>23 DEF ThePlanner!CreateSchedule, ThePlanner!SheetOpen, ThePlanner!Empty
<1>24. ASSUME NEW i \in Items, ThePlanner!ServeSchedule(i) PROVE DraftInv'
  BY <1>24 DEF ThePlanner!ServeSchedule, ThePlanner!Refetched, ThePlanner!SheetOpen, ThePlanner!Empty
<1>25. ASSUME NEW i \in Items, ThePlanner!HearSchedule(i) PROVE DraftInv'
  BY <1>25 DEF ThePlanner!HearSchedule, ThePlanner!Orphaned, ThePlanner!SheetOpen, ThePlanner!Empty, ThePlanner!Made
<1>26. ASSUME NEW i \in Items, ThePlanner!Toggle(i) PROVE DraftInv'
  BY <1>26 DEF ThePlanner!Toggle, ThePlanner!SheetOpen, ThePlanner!Empty
<1>27. ASSUME NEW i \in Items, ThePlanner!HearToggle(i) PROVE DraftInv'
  BY <1>27 DEF ThePlanner!HearToggle, ThePlanner!Refetched, ThePlanner!SheetOpen, ThePlanner!Empty
<1>28. ASSUME NEW i \in Items, ThePlanner!AskToDelete(i) PROVE DraftInv'
  BY <1>28 DEF ThePlanner!AskToDelete, ThePlanner!SheetOpen, ThePlanner!Empty
<1> QED
  BY <1>1, <1>2, <1>3, <1>4, <1>5, <1>6, <1>7, <1>8, <1>9, <1>10, <1>11, <1>12, <1>13, <1>14, <1>15, <1>16, <1>17, <1>18, <1>19, <1>20, <1>21, <1>22, <1>23, <1>24, <1>25, <1>26, <1>27, <1>28 DEF ThePlanner!Next

LEMMA NextKeepsDraft ==
    ASSUME DraftInv, ThePlanner!Next \/ UNCHANGED plannerVars PROVE DraftInv'
<1>1. CASE ThePlanner!Next
  BY <1>1, DraftNext
<1>2. CASE UNCHANGED plannerVars
  BY <1>2 DEF plannerVars, DraftInv, ListTyped, ThePlanner!SheetOpen, ThePlanner!Empty
<1> QED
  BY <1>1, <1>2

LEMMA DraftGoes ==
    ASSUME DraftInv, ThePlanner!Next
    PROVE  ThePlanner!KeepsDraft
<1> USE DEF DraftInv, ListTyped, ThePlanner!KeepsDraft, ThePlanner!SheetOpen, ThePlanner!Empty
<1>1. ASSUME NEW x \in {"form", "supervisor"}, ThePlanner!ChoosePattern(x) PROVE ThePlanner!KeepsDraft
  BY <1>1 DEF ThePlanner!ChoosePattern, ThePlanner!lists
<1>2. CASE ThePlanner!Create
  BY <1>2 DEF ThePlanner!Create, ThePlanner!lists
<1>3. CASE ThePlanner!HearCreate
  BY <1>3 DEF ThePlanner!HearCreate, ThePlanner!lists
<1>4. CASE ThePlanner!BackToPatterns
  BY <1>4 DEF ThePlanner!BackToPatterns, ThePlanner!lists
<1>5. CASE ThePlanner!GoToWorkflow
  BY <1>5 DEF ThePlanner!GoToWorkflow, ThePlanner!lists
<1>6. ASSUME NEW g \in Goals, ThePlanner!TypeGoal(g) PROVE ThePlanner!KeepsDraft
  BY <1>6 DEF ThePlanner!TypeGoal, ThePlanner!lists
<1>7. ASSUME NEW x \in Plans, ThePlanner!Generate(x) PROVE ThePlanner!KeepsDraft
  BY <1>7 DEF ThePlanner!Generate, ThePlanner!lists, ThePlanner!Ask
<1>8. ASSUME NEW x \in Plans, ThePlanner!Regenerate(x) PROVE ThePlanner!KeepsDraft
  BY <1>8 DEF ThePlanner!Regenerate, ThePlanner!lists, ThePlanner!Ask
<1>9. ASSUME NEW x \in Plans, ThePlanner!ServePlan(x) PROVE ThePlanner!KeepsDraft
  BY <1>9 DEF ThePlanner!ServePlan, ThePlanner!lists
<1>10. ASSUME NEW x \in Plans, ThePlanner!HearPlan(x) PROVE ThePlanner!KeepsDraft
  BY <1>10 DEF ThePlanner!HearPlan, ThePlanner!lists
<1>11. ASSUME NEW x \in Plans, ThePlanner!ServeApprove(x) PROVE ThePlanner!KeepsDraft
  BY <1>11 DEF ThePlanner!ServeApprove, ThePlanner!lists
<1>12. ASSUME NEW x \in Plans, ThePlanner!HearApprove(x) PROVE ThePlanner!KeepsDraft
  BY <1>12 DEF ThePlanner!HearApprove, ThePlanner!lists
<1>13. ASSUME NEW x \in Plans, ThePlanner!ServeRun(x) PROVE ThePlanner!KeepsDraft
  BY <1>13 DEF ThePlanner!ServeRun, ThePlanner!lists
<1>14. ASSUME NEW b \in BOOLEAN, ThePlanner!Approve(b) PROVE ThePlanner!KeepsDraft
  BY <1>14 DEF ThePlanner!Approve, ThePlanner!lists
<1>15. CASE ThePlanner!HearList
  BY <1>15 DEF ThePlanner!HearList, ThePlanner!Orphaned, ThePlanner!Made, ThePlanner!Empty, ThePlanner!SheetOpen
<1>16. CASE ThePlanner!OpenSheet
  BY <1>16 DEF ThePlanner!OpenSheet, ThePlanner!SheetOpen, ThePlanner!Empty
<1>17. CASE ThePlanner!TypeSchedule
  BY <1>17 DEF ThePlanner!TypeSchedule, ThePlanner!SheetOpen, ThePlanner!Empty
<1>18. CASE ThePlanner!CloseSheet
  BY <1>18 DEF ThePlanner!CloseSheet, ThePlanner!Orphaned, ThePlanner!Empty, ThePlanner!SheetOpen
<1>19. CASE ThePlanner!KeepItem
  BY <1>19 DEF ThePlanner!KeepItem, ThePlanner!SheetOpen, ThePlanner!Empty
<1>20. CASE ThePlanner!Delete
  BY <1>20 DEF ThePlanner!Delete, ThePlanner!SheetOpen, ThePlanner!Empty
<1>21. CASE ThePlanner!ServeDelete
  BY <1>21 DEF ThePlanner!ServeDelete, ThePlanner!Refetched, ThePlanner!SheetOpen, ThePlanner!Empty
<1>22. CASE ThePlanner!HearDelete
  BY <1>22 DEF ThePlanner!HearDelete, ThePlanner!SheetOpen, ThePlanner!Empty
<1>23. ASSUME NEW i \in Items, ThePlanner!CreateSchedule(i) PROVE ThePlanner!KeepsDraft
  BY <1>23 DEF ThePlanner!CreateSchedule, ThePlanner!SheetOpen, ThePlanner!Empty
<1>24. ASSUME NEW i \in Items, ThePlanner!ServeSchedule(i) PROVE ThePlanner!KeepsDraft
  BY <1>24 DEF ThePlanner!ServeSchedule, ThePlanner!Refetched, ThePlanner!SheetOpen, ThePlanner!Empty
<1>25. ASSUME NEW i \in Items, ThePlanner!HearSchedule(i) PROVE ThePlanner!KeepsDraft
  BY <1>25 DEF ThePlanner!HearSchedule, ThePlanner!Orphaned, ThePlanner!SheetOpen, ThePlanner!Empty, ThePlanner!Made
<1>26. ASSUME NEW i \in Items, ThePlanner!Toggle(i) PROVE ThePlanner!KeepsDraft
  BY <1>26 DEF ThePlanner!Toggle, ThePlanner!SheetOpen, ThePlanner!Empty
<1>27. ASSUME NEW i \in Items, ThePlanner!HearToggle(i) PROVE ThePlanner!KeepsDraft
  BY <1>27 DEF ThePlanner!HearToggle, ThePlanner!Refetched, ThePlanner!SheetOpen, ThePlanner!Empty
<1>28. ASSUME NEW i \in Items, ThePlanner!AskToDelete(i) PROVE ThePlanner!KeepsDraft
  BY <1>28 DEF ThePlanner!AskToDelete, ThePlanner!SheetOpen, ThePlanner!Empty
<1> QED
  BY <1>1, <1>2, <1>3, <1>4, <1>5, <1>6, <1>7, <1>8, <1>9, <1>10, <1>11, <1>12, <1>13, <1>14, <1>15, <1>16, <1>17, <1>18, <1>19, <1>20, <1>21, <1>22, <1>23, <1>24, <1>25, <1>26, <1>27, <1>28 DEF ThePlanner!Next

-----------------------------------------------------------------------------
(***************************************************************************)
(* The steps of a page: the order in which the server returns them.        *)
(***************************************************************************)

Where(m, A) == {i \in DOMAIN m : m[i] \in A}

AsOften(s, t, D, V) ==
    /\ IsFiniteSet(D) /\ s \in [D -> V] /\ t \in [D -> V]
    /\ \A x \in V : Cardinality(Where(s, {x})) = Cardinality(Where(t, {x}))

(* If every value is taken equally often, so are the values of every set.  *)
LEMMA CountsAdd ==
    ASSUME NEW D, NEW V, NEW s, NEW t, AsOften(s, t, D, V), NEW P
    PROVE  Cardinality(Where(s, P)) = Cardinality(Where(t, P))
<1> USE DEF AsOften
<1> DEFINE S(x) == {i \in D : s[i] = x}
           T(x) == {i \in D : t[i] = x}
           b(x) == CHOOSE m : m \in Bijection(T(x), S(x))
           A == {i \in D : t[i] \in P}
           C == {i \in D : s[i] \in P}
           B == [i \in A |-> b(t[i])[i]]
<1>1. \A x \in V : b(x) \in Bijection(T(x), S(x))
  <2> SUFFICES ASSUME NEW x \in V PROVE b(x) \in Bijection(T(x), S(x))
    OBVIOUS
  <2>0. S(x) = Where(s, {x}) /\ T(x) = Where(t, {x})
    BY DEF Where
  <2>1. IsFiniteSet(S(x)) /\ IsFiniteSet(T(x)) /\ Cardinality(T(x)) = Cardinality(S(x))
    BY <2>0, FS_Subset
  <2> HIDE DEF S, T
  <2>2. ExistsBijection(T(x), S(x))
    BY ONLY <2>1, FS_SameCardinalityBij
  <2>3. \E m : m \in Bijection(T(x), S(x))
    BY <2>2 DEF ExistsBijection
  <2> QED
    BY <2>3
<1>2. \A x \in V : /\ b(x) \in [T(x) -> S(x)]
                   /\ \A i, j \in T(x) : b(x)[i] = b(x)[j] => i = j
                   /\ \A j \in S(x) : \E i \in T(x) : b(x)[i] = j
  BY <1>1 DEF Bijection, Injection, Surjection, IsInjective
<1> HIDE DEF b
<1>3. \A i \in A : t[i] \in V /\ i \in T(t[i]) /\ B[i] = b(t[i])[i] /\ B[i] \in S(t[i])
  BY <1>2
<1>4. B \in [A -> C]
  BY <1>3
<1>5. ASSUME NEW i \in A, NEW j \in A, B[i] = B[j] PROVE i = j
  <2>1. s[B[i]] = t[i] /\ s[B[j]] = t[j]
    BY <1>3
  <2>2. t[i] = t[j]
    BY <2>1, <1>5
  <2>3. i \in T(t[i]) /\ j \in T(t[i]) /\ t[i] \in V
    BY <1>3, <2>2
  <2>4. b(t[i])[i] = b(t[i])[j]
    BY <1>3, <1>5, <2>2
  <2> QED
    BY <1>2, <2>3, <2>4
<1>6. ASSUME NEW j \in C PROVE \E i \in A : B[i] = j
  <2>1. j \in S(s[j]) /\ s[j] \in V
    OBVIOUS
  <2>2. PICK i \in T(s[j]) : b(s[j])[i] = j
    BY <1>2, <2>1
  <2>3. i \in A /\ t[i] = s[j]
    BY <2>2
  <2> QED
    BY <2>2, <2>3
<1>7. ExistsBijection(A, C)
  <2> HIDE DEF A, B, C
  <2>1. B \in Bijection(A, C)
    BY <1>4, <1>5, <1>6 DEF Bijection, Injection, Surjection, IsInjective
  <2> QED
    BY <2>1 DEF ExistsBijection
<1>8. IsFiniteSet(A)
  BY FS_Subset
<1> HIDE DEF A, C
<1>9. Cardinality(C) = Cardinality(A)
  BY ONLY <1>7, <1>8, FS_Bijection
<1> QED
  BY <1>9 DEF A, C, Where

(* n increasing numbers below n are all of them.                           *)
LEMMA IncreasingFills ==
    ASSUME NEW n \in Nat, NEW m \in [1 .. n -> 0 .. n - 1],
           \A i, j \in 1 .. n : i < j => m[i] < m[j]
    PROVE  \A i \in 1 .. n : m[i] = i - 1
<1> SUFFICES ASSUME NEW i \in 1 .. n PROVE m[i] = i - 1
  OBVIOUS
<1>1. i <= m[i] + 1
  <2> DEFINE S == 1 .. i
             T == 0 .. m[i]
             B == [j \in S |-> m[j]]
  <2>1. B \in Injection(S, T)
    BY DEF Injection, IsInjective
  <2>2. IsFiniteSet(T) /\ Cardinality(T) = m[i] + 1 /\ Cardinality(S) = i
    BY FS_Interval
  <2> HIDE DEF S, T, B
  <2>3. Cardinality(S) <= Cardinality(T)
    BY ONLY <2>1, <2>2, FS_Injection
  <2> QED
    BY <2>2, <2>3
<1>2. n - i + 1 <= n - m[i]
  <2> DEFINE S == i .. n
             T == m[i] .. n - 1
             B == [j \in S |-> m[j]]
  <2>1. B \in Injection(S, T)
    BY DEF Injection, IsInjective
  <2>2. IsFiniteSet(T) /\ Cardinality(T) = n - m[i] /\ Cardinality(S) = n - i + 1
    BY FS_Interval
  <2> HIDE DEF S, T, B
  <2>3. Cardinality(S) <= Cardinality(T)
    BY ONLY <2>1, <2>2, FS_Injection
  <2> QED
    BY <2>2, <2>3
<1>3. m[i] \in Int
  OBVIOUS
<1> QED
  BY <1>1, <1>2, <1>3

CrewSteps(steps) ==
    \E n \in Nat : /\ DOMAIN steps = 1 .. n
                   /\ \A i \in 1 .. n : steps[i] = [who |-> steps[i].who, group |-> 0, pos |-> i - 1]

(* A crew's members come back in the order they were sent in.              *)
LEMMA CrewOrder ==
    ASSUME NEW steps, CrewSteps(steps), NEW s \in TheEditor!Ordered(steps)
    PROVE  /\ DOMAIN s = DOMAIN steps
           /\ \A i \in DOMAIN steps : s[i] = steps[i]
<1>1. PICK n \in Nat : /\ DOMAIN steps = 1 .. n
                       /\ \A i \in 1 .. n : steps[i] = [who |-> steps[i].who, group |-> 0, pos |-> i - 1]
  BY DEF CrewSteps
<1> DEFINE V == {steps[i] : i \in 1 .. n}
<1>2. /\ s \in [1 .. n -> V]
      /\ \A x \in V : Cardinality({i \in 1 .. n : s[i] = x}) = Cardinality({i \in 1 .. n : steps[i] = x})
      /\ \A i, j \in 1 .. n : i < j => s[i].group < s[j].group \/ (s[i].group = s[j].group /\ s[i].pos <= s[j].pos)
  BY <1>1, SameCardinality DEF TheEditor!Ordered
<1>3. \A i \in 1 .. n : steps[i].pos = i - 1 /\ steps[i].group = 0
  BY <1>1
<1>4. \A x \in V : x.pos \in 0 .. n - 1 /\ x = steps[x.pos + 1] /\ x.group = 0
  BY <1>3
<1>5. ASSUME NEW i \in 1 .. n, NEW j \in 1 .. n, s[i] = s[j] PROVE i = j
  <2> DEFINE S == {k \in 1 .. n : s[k] = s[i]}
             T == {k \in 1 .. n : steps[k] = s[i]}
  <2>1. s[i] \in V /\ Cardinality(S) = Cardinality(T)
    BY <1>2
  <2>2. T = {s[i].pos + 1}
    BY <1>3, <1>4, <2>1
  <2>3. Cardinality(T) = 1
    BY <2>2, FS_Singleton
  <2>4. IsFiniteSet(S)
    <3>1. IsFiniteSet(1 .. n) /\ S \in SUBSET (1 .. n)
      BY FS_Interval
    <3> QED
      BY <3>1, FS_Subset
  <2>5. i \in S /\ j \in S
    BY <1>5
  <2> HIDE DEF S, T
  <2>6. \E x : S = {x}
    BY <2>1, <2>3, <2>4, FS_Singleton
  <2> QED
    BY <2>5, <2>6
<1> DEFINE m == [i \in 1 .. n |-> s[i].pos]
<1>6. m \in [1 .. n -> 0 .. n - 1]
  BY <1>2, <1>4
<1>7. ASSUME NEW i \in 1 .. n, NEW j \in 1 .. n, i < j PROVE m[i] < m[j]
  <2>1. s[i] \in V /\ s[j] \in V /\ s[i] # s[j]
    BY <1>2, <1>5, <1>7
  <2>2. s[i].pos # s[j].pos
    BY <1>4, <2>1
  <2>3. s[i].group = 0 /\ s[j].group = 0 /\ s[i].pos \in Int /\ s[j].pos \in Int
    BY <1>4, <2>1
  <2>4. s[i].group < s[j].group \/ (s[i].group = s[j].group /\ s[i].pos <= s[j].pos)
    BY <1>2, <1>7
  <2> QED
    BY <2>2, <2>3, <2>4
<1>8. \A i \in 1 .. n : s[i].pos = i - 1
  <2> HIDE DEF m
  <2>1. \A i \in 1 .. n : m[i] = i - 1
    BY ONLY <1>6, <1>7, IncreasingFills
  <2> QED
    BY <2>1 DEF m
<1>9. ASSUME NEW i \in 1 .. n PROVE s[i] = steps[i]
  <2>1. s[i] \in V /\ s[i].pos = i - 1
    BY <1>2, <1>8
  <2> QED
    BY <1>4, <2>1
<1> QED
  BY <1>1, <1>2, <1>9

Count(steps, w, h) == TheEditor!Cardinality({i \in TheEditor!InGroup(steps, h) : steps[i].who = w})

(* A workflow's steps come back in their groups.                           *)
LEMMA GroupsStay ==
    ASSUME NEW steps, IsFiniteSet(DOMAIN steps), steps = [i \in DOMAIN steps |-> steps[i]],
           NEW s \in TheEditor!Ordered(steps), NEW w, NEW h
    PROVE  Count(s, w, h) = Count(steps, w, h)
<1> DEFINE D == DOMAIN steps
           V == {steps[i] : i \in D}
           P == {x \in V : x.group = h /\ x.who = w}
<1>0. s \in [D -> V] /\ steps \in [D -> V]
  BY DEF TheEditor!Ordered
<1>1. ASSUME NEW x \in V PROVE Cardinality(Where(s, {x})) = Cardinality(Where(steps, {x}))
  <2>1. Cardinality({i \in D : s[i] = x}) = Cardinality({i \in D : steps[i] = x})
    BY <1>0, SameCardinality DEF TheEditor!Ordered
  <2>2. {i \in D : s[i] = x} = Where(s, {x}) /\ {i \in D : steps[i] = x} = Where(steps, {x})
    BY <1>0 DEF Where
  <2> QED
    BY <2>1, <2>2
<1>2. /\ Where(s, P) = {i \in TheEditor!InGroup(s, h) : s[i].who = w}
      /\ Where(steps, P) = {i \in TheEditor!InGroup(steps, h) : steps[i].who = w}
  BY <1>0 DEF TheEditor!InGroup, Where
<1>3. IsFiniteSet(D)
  OBVIOUS
<1> HIDE DEF D, V, P
<1>4. Cardinality(Where(s, P)) = Cardinality(Where(steps, P))
  <2>1. AsOften(s, steps, D, V)
    BY <1>0, <1>1, <1>3 DEF AsOften
  <2> QED
    BY ONLY <2>1, CountsAdd
<1> QED
  BY <1>2, <1>4, SameCardinality DEF Count

-----------------------------------------------------------------------------
(***************************************************************************)
(* A save of the editor's.  As long as the user does not cancel, type or   *)
(* save again meanwhile, one save is in progress at a time (OneSave), of   *)
(* what is in the editor that is open (OfEditor); once it is answered, the *)
(* server has it or something newer (Landed), and so has, once the save    *)
(* waits no more, the page, unless it could not be fetched (Shown): the    *)
(* answers it waits for were asked for after the save (Asked), and a       *)
(* step's cancel, for which they are asked for again, was asked for before *)
(* the editor was opened (Joined).                                         *)
(***************************************************************************)

Steps(pg, steps) ==
    /\ steps \in Seq({steps[i] : i \in DOMAIN steps})
    /\ pg = "crew" =>
          \A i \in DOMAIN steps : steps[i] = [who |-> steps[i].who, group |-> 0, pos |-> steps[i].pos]

IsContent(x) == x = [steps |-> x.steps, text |-> x.text, rev |-> x.rev] /\ x.rev \in Nat

DocIs(pg, x) == IsContent(x) /\ Steps(pg, x.steps)
CopyIs(pg, x) == x = [of |-> x.of, failed |-> x.failed] /\ DocIs(pg, x.of)
GetIs(pg, x) == /\ x = [at |-> x.at, is |-> x.is, awaits |-> x.awaits, joined |-> x.joined]
                /\ DocIs(pg, x.is)
EditorIs(pg, x) == /\ x = [on |-> x.on, steps |-> x.steps, text |-> x.text, picker |-> x.picker]
                   /\ Steps(pg, x.steps)
SaveIs(pg, x) == /\ x = [at |-> x.at, is |-> x.is, own |-> x.own] /\ DocIs(pg, x.is)
                 /\ x.at \in {"none", "sent", "saved", "refused", "fetch"}
SavesAre(pg, x) == x = [v \in Saves |-> x[v]] /\ \A v \in Saves : SaveIs(pg, x[v])

EditShaped ==
    /\ editorPage \in {"workflow", "crew"}
    /\ DocIs(editorPage, doc) /\ CopyIs(editorPage, editorCopy) /\ GetIs(editorPage, editorGet)
    /\ EditorIs(editorPage, editor) /\ SavesAre(editorPage, save)

SameSteps(pg, a, b) ==
    IF pg = "crew" THEN /\ DOMAIN a.steps = DOMAIN b.steps
                        /\ \A i \in DOMAIN a.steps : a.steps[i].who = b.steps[i].who
    ELSE \A h : \A w \in TheEditor!Who :
            Count(a.steps, w, h) = Count(b.steps, w, h)

Newer(pg, a, b) == a.rev >= b.rev /\ (a.rev = b.rev => SameSteps(pg, a, b))

OneSave == \A v, w \in Saves : save[v].at # "none" /\ save[w].at # "none" => v = w

DraftOf(pg, steps) ==
    [i \in DOMAIN steps |-> IF pg = "crew" THEN [steps[i] EXCEPT !.pos = i - 1] ELSE steps[i]]
Draft == DraftOf(editorPage, editor.steps)

OfEditor ==
    \A v \in Saves : save[v].at # "none" =>
        save[v].own /\ editor.on /\ save[v].is.text = editor.text /\ save[v].is.steps = Draft

Landed == \A v \in Saves : save[v].at \in {"saved", "fetch"} => Newer(editorPage, doc, save[v].is)

Asked == \A v \in Saves : save[v].at = "fetch" /\ editorGet.at = "answered" =>
             Newer(editorPage, editorGet.is, save[v].is)

Shown == \A v \in Saves : save[v].at = "fetch" =>
             \/ v \in editorGet.awaits \cup editorGet.joined
             \/ editorCopy.failed
             \/ Newer(editorPage, editorCopy.of, save[v].is)

Joined == \A v \in Saves : save[v].at = "fetch" /\ v \in editorGet.joined => "cancel" \notin editorPending

SaveInv == editorPast = {} => OneSave /\ OfEditor /\ Landed /\ Asked /\ Shown /\ Joined

EditInv == editorPage # "left" => EditShaped /\ SaveInv

LEMMA AreSequences ==
    ASSUME NEW n \in Nat, NEW s, DOMAIN s = 1 .. n, s = [i \in DOMAIN s |-> s[i]]
    PROVE  s \in Seq({s[i] : i \in DOMAIN s})
  OBVIOUS

Mem(x) == x = [who |-> x.who, group |-> 0, pos |-> x.pos]

LEMMA StepsAre ==
    ASSUME NEW pg, NEW steps
    PROVE  Steps(pg, steps) <=>
              /\ \E n \in Nat : DOMAIN steps = 1 .. n
              /\ steps = [i \in DOMAIN steps |-> steps[i]]
              /\ pg = "crew" => \A i \in DOMAIN steps : Mem(steps[i])
<1>1. ASSUME Steps(pg, steps)
      PROVE  Len(steps) \in Nat /\ DOMAIN steps = 1 .. Len(steps) /\ steps = [i \in DOMAIN steps |-> steps[i]]
  BY <1>1, SequencesAre DEF Steps
<1>2. ASSUME NEW n \in Nat, DOMAIN steps = 1 .. n, steps = [i \in DOMAIN steps |-> steps[i]]
      PROVE  steps \in Seq({steps[i] : i \in DOMAIN steps})
  BY <1>2, AreSequences
<1> QED
  BY <1>1, <1>2 DEF Steps, Mem

LEMMA NoSteps == \A pg : Steps(pg, <<>>)
<1>1. \A S : << >> \in Seq(S)
  OBVIOUS
<1>2. DOMAIN << >> = {}
  OBVIOUS
<1> QED
  BY <1>1, <1>2 DEF Steps

LEMMA AppendSteps ==
    ASSUME NEW steps, Steps("workflow", steps), NEW x
    PROVE  Steps("workflow", Append(steps, x))
<1>1. Len(steps) \in Nat /\ DOMAIN steps = 1 .. Len(steps) /\ steps \in Seq({steps[i] : i \in DOMAIN steps})
  BY SequencesAre DEF Steps
<1> DEFINE S == {steps[i] : i \in DOMAIN steps} \cup {x}
<1>2. steps \in Seq(S)
  BY <1>1
<1>3. Append(steps, x) \in Seq(S)
  BY <1>2
<1>4. \E n \in Nat : DOMAIN Append(steps, x) = 1 .. n
  BY <1>3, SequencesAre
<1>5. Append(steps, x) = [i \in DOMAIN Append(steps, x) |-> Append(steps, x)[i]]
  BY <1>3, SequencesAre
<1> QED
  BY <1>4, <1>5, StepsAre

LEMMA RemoveSteps ==
    ASSUME NEW pg, NEW steps, Steps(pg, steps), NEW i \in DOMAIN steps
    PROVE  Steps(pg, [j \in 1 .. Len(steps) - 1 |-> IF j < i THEN steps[j] ELSE steps[j + 1]])
<1>1. Len(steps) \in Nat /\ DOMAIN steps = 1 .. Len(steps)
  BY SequencesAre DEF Steps
<1> DEFINE t == [j \in 1 .. Len(steps) - 1 |-> IF j < i THEN steps[j] ELSE steps[j + 1]]
<1>2. Len(steps) - 1 \in Nat /\ DOMAIN t = 1 .. Len(steps) - 1 /\ t = [j \in DOMAIN t |-> t[j]]
  BY <1>1
<1>3. ASSUME pg = "crew", NEW j \in DOMAIN t PROVE Mem(t[j])
  <2>1. \A k \in DOMAIN steps : Mem(steps[k])
    BY <1>3, StepsAre
  <2>2. j \in DOMAIN steps /\ j + 1 \in DOMAIN steps /\ t[j] \in {steps[j], steps[j + 1]}
    BY <1>1
  <2> QED
    BY <2>1, <2>2
<1> HIDE DEF t
<1>4. Steps(pg, t)
  BY <1>2, <1>3, StepsAre
<1> QED
  BY <1>4 DEF t

LEMMA ChangeSteps ==
    ASSUME NEW steps, Steps("workflow", steps), NEW i, NEW x
    PROVE  Steps("workflow", [steps EXCEPT ![i] = x])
  BY StepsAre

LEMMA SwapSteps ==
    ASSUME NEW pg, NEW steps, Steps(pg, steps), NEW i \in DOMAIN steps, NEW j \in DOMAIN steps
    PROVE  Steps(pg, [[steps EXCEPT ![j] = steps[i]] EXCEPT ![i] = steps[j]])
  BY StepsAre

LEMMA OrderSteps ==
    ASSUME NEW pg, NEW steps, Steps(pg, steps), NEW s \in TheEditor!Ordered(steps)
    PROVE  Steps(pg, s)
<1>1. s \in [DOMAIN steps -> {steps[i] : i \in DOMAIN steps}]
  BY DEF TheEditor!Ordered
<1>2. DOMAIN s = DOMAIN steps /\ s = [i \in DOMAIN s |-> s[i]] /\ \A i \in DOMAIN s : \E k \in DOMAIN steps : s[i] = steps[k]
  BY <1>1
<1> QED
  BY <1>2, StepsAre

LEMMA DraftSteps ==
    ASSUME NEW pg, NEW steps, Steps(pg, steps)
    PROVE  /\ Steps(pg, DraftOf(pg, steps)) /\ DOMAIN DraftOf(pg, steps) = DOMAIN steps
           /\ pg = "crew" => /\ CrewSteps(DraftOf(pg, steps))
                             /\ \A i \in DOMAIN DraftOf(pg, steps) : DraftOf(pg, steps)[i].who = steps[i].who
           /\ pg # "crew" => DraftOf(pg, steps) = steps
<1> DEFINE d == [i \in DOMAIN steps |-> IF pg = "crew" THEN [steps[i] EXCEPT !.pos = i - 1] ELSE steps[i]]
<1> SUFFICES /\ Steps(pg, d) /\ DOMAIN d = DOMAIN steps
             /\ pg = "crew" => CrewSteps(d) /\ \A i \in DOMAIN d : d[i].who = steps[i].who
             /\ pg # "crew" => d = steps
  BY DEF DraftOf
<1>1. PICK n \in Nat : DOMAIN steps = 1 .. n
  BY StepsAre
<1>2. DOMAIN d = 1 .. n /\ d = [i \in DOMAIN d |-> d[i]]
  BY <1>1
<1>3. CASE pg = "crew"
  <2>1. ASSUME NEW i \in 1 .. n PROVE d[i] = [who |-> steps[i].who, group |-> 0, pos |-> i - 1]
    <3>1. steps[i] = [who |-> steps[i].who, group |-> 0, pos |-> steps[i].pos]
      BY <1>1, <1>3, StepsAre DEF Mem
    <3>2. d[i] = [steps[i] EXCEPT !.pos = i - 1]
      BY <1>1, <1>3
    <3> HIDE DEF d
    <3> QED
      BY <3>1, <3>2
  <2> HIDE DEF d
  <2>2. ASSUME NEW i \in 1 .. n
        PROVE  Mem(d[i]) /\ d[i] = [who |-> d[i].who, group |-> 0, pos |-> i - 1] /\ d[i].who = steps[i].who
    <3>1. PICK w, m : d[i] = [who |-> w, group |-> 0, pos |-> m] /\ w = steps[i].who /\ m = i - 1
      BY <2>1
    <3>2. d[i].who = w /\ d[i].pos = m
      BY <3>1
    <3> QED
      BY <3>1, <3>2 DEF Mem
  <2>3. CrewSteps(d)
    BY <1>2, <2>2 DEF CrewSteps
  <2>4. Steps(pg, d)
    BY <1>2, <2>2, StepsAre
  <2> QED
    BY <1>1, <1>2, <1>3, <2>2, <2>3, <2>4 DEF d
<1>4. CASE pg # "crew"
  <2>1. d = steps
    BY <1>4, StepsAre
  <2> QED
    BY <1>4, <2>1
<1> QED
  BY <1>3, <1>4

LEMMA NoContentIs == \A pg : DocIs(pg, TheEditor!NoContent)
<1> SUFFICES ASSUME NEW pg PROVE DocIs(pg, TheEditor!NoContent)
  OBVIOUS
<1>1. PICK s, m : TheEditor!NoContent = [steps |-> s, text |-> m, rev |-> 0] /\ s = << >>
  BY DEF TheEditor!NoContent
<1> QED
  BY <1>1, NoSteps DEF DocIs, IsContent

LEMMA EditorChanges ==
    ASSUME NEW pg, NEW e, EditorIs(pg, e)
    PROVE  /\ \A b : LET n == [e EXCEPT !.on = b] IN EditorIs(pg, n) /\ n.steps = e.steps /\ n.text = e.text /\ n.on = b
           /\ \A b : LET n == [e EXCEPT !.picker = b] IN EditorIs(pg, n) /\ n.steps = e.steps /\ n.text = e.text /\ n.on = e.on
           /\ \A b : LET n == [e EXCEPT !.text = b] IN EditorIs(pg, n)
           /\ \A s : Steps(pg, s) => EditorIs(pg, [e EXCEPT !.steps = s])
  BY DEF EditorIs

LEMMA SaveChanges ==
    ASSUME NEW pg, NEW x, SaveIs(pg, x)
    PROVE  /\ \A b : LET n == [x EXCEPT !.own = b] IN SaveIs(pg, n) /\ n.at = x.at /\ n.is = x.is
           /\ \A b \in {"none", "sent", "saved", "refused", "fetch"} :
                 LET n == [x EXCEPT !.at = b] IN SaveIs(pg, n) /\ n.at = b /\ n.is = x.is /\ n.own = x.own
  BY DEF SaveIs

LEMMA NoSaveIs == \A pg : SaveIs(pg, TheEditor!NoSave) /\ TheEditor!NoSave.at = "none"
  BY NoContentIs DEF SaveIs, TheEditor!NoSave

LEMMA SavesChange ==
    ASSUME NEW pg, NEW x, SavesAre(pg, x)
    PROVE  /\ \A v \in Saves : \A n : SaveIs(pg, n) =>
                 LET y == [x EXCEPT ![v] = n] IN
                 SavesAre(pg, y) /\ y[v] = n /\ \A w \in Saves \ {v} : y[w] = x[w]
           /\ \A y : y = [v \in Saves |-> y[v]] /\ (\A v \in Saves : SaveIs(pg, y[v])) => SavesAre(pg, y)
  BY DEF SavesAre

LEMMA FetchIs ==
    ASSUME NEW pg, NEW s, NEW t
    PROVE  LET n == TheEditor!Fetch(s, t) IN
           GetIs(pg, n) /\ n.at = "sent" /\ n.awaits = s /\ n.joined = t
<1> DEFINE n == TheEditor!Fetch(s, t)
<1>1. n = [at |-> "sent", is |-> TheEditor!NoContent, awaits |-> s, joined |-> t]
  BY DEF TheEditor!Fetch
<1> HIDE DEF n
<1>2. /\ n.at = "sent" /\ n.awaits = s /\ n.joined = t /\ n.is = TheEditor!NoContent
      /\ n = [at |-> n.at, is |-> n.is, awaits |-> n.awaits, joined |-> n.joined]
  BY <1>1
<1>3. GetIs(pg, n)
  BY <1>2, NoContentIs DEF GetIs
<1> QED
  BY <1>2, <1>3 DEF n

LEMMA NoGetIs == \A pg : GetIs(pg, TheEditor!NoGet)
<1> SUFFICES ASSUME NEW pg PROVE GetIs(pg, TheEditor!NoGet)
  OBVIOUS
<1> DEFINE n == TheEditor!NoGet
<1>1. n = [at |-> "none", is |-> TheEditor!NoContent, awaits |-> {}, joined |-> {}]
  BY DEF TheEditor!NoGet
<1> HIDE DEF n
<1>2. n.is = TheEditor!NoContent /\ n = [at |-> n.at, is |-> n.is, awaits |-> n.awaits, joined |-> n.joined]
  BY <1>1
<1>3. GetIs(pg, n)
  BY <1>2, NoContentIs DEF GetIs
<1> QED
  BY <1>3 DEF n

\* What the server keeps of an accepted save.
LEMMA AcceptIs ==
    ASSUME NEW pg, NEW x, DocIs(pg, x), DocIs(pg, doc), TheEditor!Accept(x)
    PROVE  /\ DocIs(pg, doc') /\ doc'.rev = doc.rev + 1
           /\ \E s \in TheEditor!Ordered(x.steps) : doc'.steps = s
<1>1. PICK s \in TheEditor!Ordered(x.steps) : doc' = [steps |-> s, text |-> x.text, rev |-> doc.rev + 1]
  BY DEF TheEditor!Accept
<1>2. Steps(pg, s)
  BY OrderSteps DEF DocIs
<1>3. doc.rev \in Nat
  BY DEF DocIs, IsContent
<1>4. doc'.steps = s /\ doc'.rev = doc.rev + 1 /\ doc' = [steps |-> doc'.steps, text |-> doc'.text, rev |-> doc'.rev]
  BY <1>1
<1> QED
  BY <1>2, <1>3, <1>4 DEF DocIs, IsContent

LEMMA SetAt ==
    ASSUME NEW pg, NEW x, SavesAre(pg, x), NEW v \in Saves,
           NEW b \in {"none", "sent", "saved", "refused", "fetch"}
    PROVE  LET y == [x EXCEPT ![v].at = b] IN
           /\ y[v].at = b /\ y[v].is = x[v].is /\ y[v].own = x[v].own
           /\ \A w \in Saves \ {v} : y[w] = x[w]
  BY DEF SavesAre, SaveIs

(* The shapes of what the editor works on, of a page that is there.        *)
LEMMA ShapeNext ==
    ASSUME EditShaped, TheEditor!Next, editorPage' # "left"
    PROVE  EditShaped' /\ editorPage' = editorPage
<1> DEFINE Goal == /\ editorPage' = editorPage /\ DocIs(editorPage, doc') /\ CopyIs(editorPage, editorCopy')
                   /\ GetIs(editorPage, editorGet') /\ EditorIs(editorPage, editor') /\ SavesAre(editorPage, save')
<1>0. /\ DocIs(editorPage, doc) /\ CopyIs(editorPage, editorCopy) /\ GetIs(editorPage, editorGet)
      /\ EditorIs(editorPage, editor) /\ SavesAre(editorPage, save)
  BY DEF EditShaped
<1> SUFFICES Goal
  BY DEF EditShaped
<1>1. CASE TheEditor!StartEditing
  <2>1. /\ editorPage' = editorPage /\ doc' = doc /\ editorCopy' = editorCopy
        /\ editorGet' = editorGet /\ save' = save
    BY <1>1 DEF TheEditor!StartEditing
  <2>2. EditorIs(editorPage, editor')
    <3> DEFINE e1 == [editor EXCEPT !.on = TRUE]
               e2 == [e1 EXCEPT !.steps = editorCopy.of.steps]
               e3 == [e2 EXCEPT !.text = editorCopy.of.text]
    <3>1. EditorIs(editorPage, e1)
      BY <1>0, EditorChanges
    <3>2. EditorIs(editorPage, e2)
      <4> HIDE DEF e1
      <4> QED
        BY <1>0, <3>1, EditorChanges DEF CopyIs, DocIs
    <3>3. EditorIs(editorPage, e3)
      <4> HIDE DEF e2
      <4> QED
        BY <1>0, <3>2, EditorChanges
    <3>4. editor' = e3
      BY <1>0, <1>1 DEF TheEditor!StartEditing
    <3> QED
      BY <1>0, <3>3, <3>4
  <2> QED
    BY <1>0, <2>1, <2>2
<1>2. CASE TheEditor!CancelEditing
  <2>1. /\ editorPage' = editorPage /\ doc' = doc /\ editorCopy' = editorCopy
        /\ editorGet' = editorGet
    BY <1>2 DEF TheEditor!CancelEditing
  <2>2. EditorIs(editorPage, editor')
    <3> DEFINE e1 == [editor EXCEPT !.on = FALSE]
               e2 == [e1 EXCEPT !.picker = TheEditor!Closed]
    <3>1. EditorIs(editorPage, e1)
      BY <1>0, EditorChanges
    <3>2. EditorIs(editorPage, e2)
      <4> HIDE DEF e1
      <4> QED
        BY <1>0, <3>1, EditorChanges
    <3>3. editor' = e2
      BY <1>0, <1>2 DEF TheEditor!CancelEditing
    <3> QED
      BY <1>0, <3>2, <3>3
  <2>3. SavesAre(editorPage, save')
    <3>1. save' = [v \in Saves |-> [save[v] EXCEPT !.own = FALSE]]
      BY <1>0, <1>2 DEF TheEditor!CancelEditing
    <3>2. \A v \in Saves : SaveIs(editorPage, [save[v] EXCEPT !.own = FALSE])
      BY <1>0, SaveChanges DEF SavesAre
    <3> QED
      BY <1>0, <3>1, <3>2, SavesChange
  <2> QED
    BY <1>0, <2>1, <2>2, <2>3
<1>3. CASE TheEditor!Type
  <2>1. /\ editorPage' = editorPage /\ doc' = doc /\ editorCopy' = editorCopy
        /\ editorGet' = editorGet /\ save' = save
    BY <1>3 DEF TheEditor!Type, TheEditor!Edit
  <2>2. EditorIs(editorPage, editor')
    BY <1>0, <1>3, EditorChanges DEF TheEditor!Type, TheEditor!Edit
  <2> QED
    BY <1>0, <2>1, <2>2
<1>4. CASE TheEditor!OpenPicker
  <2>1. /\ editorPage' = editorPage /\ doc' = doc /\ editorCopy' = editorCopy
        /\ editorGet' = editorGet /\ save' = save
    BY <1>4 DEF TheEditor!OpenPicker
  <2>2. EditorIs(editorPage, editor')
    BY <1>0, <1>4, EditorChanges DEF TheEditor!OpenPicker
  <2> QED
    BY <1>0, <2>1, <2>2
<1>5. ASSUME NEW a \in Agents, TheEditor!PickAgent(a) PROVE Goal
  <2>1. /\ editorPage' = editorPage /\ doc' = doc /\ editorCopy' = editorCopy
        /\ editorGet' = editorGet /\ save' = save
    BY <1>5 DEF TheEditor!PickAgent, TheEditor!Edit
  <2>2. EditorIs(editorPage, editor')
    <3> DEFINE e1 == [editor EXCEPT !.picker = TheEditor!Closed]
    <3>1. EditorIs(editorPage, e1) /\ e1.steps = editor.steps
      BY <1>0, EditorChanges
    <3>2. PICK x : editor' = [editor EXCEPT !.picker = TheEditor!Closed, !.steps = Append(editor.steps, x)]
      BY <1>0, <1>5 DEF TheEditor!PickAgent, TheEditor!Edit
    <3>3. editor' = [e1 EXCEPT !.steps = Append(editor.steps, x)]
      BY <1>0, <3>2
    <3>4. editorPage = "workflow"
      BY <1>0, <1>5 DEF TheEditor!PickAgent, TheEditor!Edit, TheEditor!Shows
    <3>5. Steps(editorPage, Append(editor.steps, x))
      BY <1>0, <3>4, AppendSteps DEF EditorIs
    <3> HIDE DEF e1
    <3> QED
      BY <1>0, <3>1, <3>3, <3>5, EditorChanges
  <2> QED
    BY <1>0, <2>1, <2>2
<1>6. ASSUME NEW a \in Agents, TheEditor!PollTask(a) PROVE Goal
  BY <1>6, <1>0 DEF TheEditor!PollTask
<1>7. ASSUME NEW i \in 1 .. MaxSteps, TheEditor!RemoveStep(i) PROVE Goal
  <2>1. /\ editorPage' = editorPage /\ doc' = doc /\ editorCopy' = editorCopy
        /\ editorGet' = editorGet /\ save' = save
    BY <1>7 DEF TheEditor!RemoveStep, TheEditor!Edit
  <2>2. EditorIs(editorPage, editor')
    <3> DEFINE s == [j \in 1 .. Len(editor.steps) - 1 |-> IF j < i THEN editor.steps[j] ELSE editor.steps[j + 1]]
    <3>1. editor' = [editor EXCEPT !.steps = s] /\ i \in DOMAIN editor.steps
      BY <1>0, <1>7 DEF TheEditor!RemoveStep, TheEditor!Edit
    <3>2. Steps(editorPage, s)
      BY <1>0, <3>1, RemoveSteps DEF EditorIs
    <3> HIDE DEF s
    <3> QED
      BY <1>0, <3>1, <3>2, EditorChanges
  <2> QED
    BY <1>0, <2>1, <2>2
<1>8. ASSUME NEW i \in 1 .. MaxSteps, TheEditor!SwitchType(i) PROVE Goal
  <2>1. /\ editorPage' = editorPage /\ doc' = doc /\ editorCopy' = editorCopy
        /\ editorGet' = editorGet /\ save' = save
    BY <1>8 DEF TheEditor!SwitchType, TheEditor!Edit
  <2>2. EditorIs(editorPage, editor')
    <3>1. editorPage = "workflow"
      BY <1>0, <1>8 DEF TheEditor!SwitchType, TheEditor!Edit, TheEditor!Shows
    <3>2. PICK x : editor' = [editor EXCEPT !.steps = [editor.steps EXCEPT ![i] = x]]
      BY <1>0, <1>8 DEF TheEditor!SwitchType, TheEditor!Edit
    <3>3. Steps(editorPage, [editor.steps EXCEPT ![i] = x])
      BY <1>0, <3>1, ChangeSteps DEF EditorIs
    <3> QED
      BY <1>0, <3>2, <3>3, EditorChanges
  <2> QED
    BY <1>0, <2>1, <2>2
<1>9. ASSUME NEW i \in 1 .. MaxSteps, TheEditor!PickWorkflow(i) PROVE Goal
  <2>1. /\ editorPage' = editorPage /\ doc' = doc /\ editorCopy' = editorCopy
        /\ editorGet' = editorGet /\ save' = save
    BY <1>9 DEF TheEditor!PickWorkflow, TheEditor!Edit
  <2>2. EditorIs(editorPage, editor')
    <3>1. editorPage = "workflow"
      BY <1>0, <1>9 DEF TheEditor!PickWorkflow, TheEditor!Edit, TheEditor!Shows
    <3>2. PICK x : editor' = [editor EXCEPT !.steps = [editor.steps EXCEPT ![i] = x]]
      BY <1>0, <1>9 DEF TheEditor!PickWorkflow, TheEditor!Edit
    <3>3. Steps(editorPage, [editor.steps EXCEPT ![i] = x])
      BY <1>0, <3>1, ChangeSteps DEF EditorIs
    <3> QED
      BY <1>0, <3>2, <3>3, EditorChanges
  <2> QED
    BY <1>0, <2>1, <2>2
<1>10. ASSUME NEW i \in 1 .. MaxSteps, TheEditor!MoveUp(i) PROVE Goal
  <2>1. /\ editorPage' = editorPage /\ doc' = doc /\ editorCopy' = editorCopy
        /\ editorGet' = editorGet /\ save' = save
    BY <1>10 DEF TheEditor!MoveUp, TheEditor!Edit
  <2>2. EditorIs(editorPage, editor')
    <3> DEFINE s == [[editor.steps EXCEPT ![i - 1] = editor.steps[i]] EXCEPT ![i] = editor.steps[i - 1]]
    <3>1. editor' = [editor EXCEPT !.steps = s] /\ i \in DOMAIN editor.steps \ {1}
      BY <1>0, <1>10 DEF TheEditor!MoveUp, TheEditor!Edit
    <3>2. i - 1 \in DOMAIN editor.steps
      BY <1>0, <3>1, SequencesAre DEF EditorIs, Steps
    <3>3. Steps(editorPage, s)
      BY <1>0, <3>1, <3>2, SwapSteps DEF EditorIs
    <3> HIDE DEF s
    <3> QED
      BY <1>0, <3>1, <3>3, EditorChanges
  <2> QED
    BY <1>0, <2>1, <2>2
<1>11. ASSUME NEW v \in Saves, TheEditor!Save(v) PROVE Goal
  <2>1. /\ editorPage' = editorPage /\ doc' = doc /\ editorCopy' = editorCopy
        /\ editorGet' = editorGet /\ editor' = editor
    BY <1>11 DEF TheEditor!Save
  <2>2. SavesAre(editorPage, save')
    <3> DEFINE x == [at |-> "sent", is |-> TheEditor!Payload, own |-> TRUE]
    <3>1. save' = [save EXCEPT ![v] = x]
      BY <1>0, <1>11 DEF TheEditor!Save
    <3>2. TheEditor!Payload = [steps |-> Draft, text |-> editor.text, rev |-> 0]
      BY <1>0 DEF TheEditor!Payload, Draft, DraftOf
    <3>3. Steps(editorPage, Draft)
      BY <1>0, DraftSteps DEF EditorIs, Draft
    <3>4. DocIs(editorPage, TheEditor!Payload)
      BY <1>0, <3>2, <3>3 DEF DocIs, IsContent
    <3>5. SaveIs(editorPage, x)
      BY <1>0, <3>4 DEF SaveIs
    <3> HIDE DEF x
    <3> QED
      BY <1>0, <3>1, <3>5, SavesChange
  <2> QED
    BY <1>0, <2>1, <2>2
<1>12. ASSUME NEW v \in Saves, TheEditor!ServeSave(v) PROVE Goal
  <2>1. /\ editorPage' = editorPage /\ editorCopy' = editorCopy /\ editorGet' = editorGet
        /\ editor' = editor
    BY <1>12 DEF TheEditor!ServeSave
  <2>2. DocIs(editorPage, doc')
    BY <1>0, <1>12, AcceptIs DEF TheEditor!ServeSave, SavesAre, SaveIs
  <2>3. SavesAre(editorPage, save')
    <3>0. SaveIs(editorPage, save[v]) /\ doc.rev + 1 \in Nat
      BY <1>0 DEF SavesAre, DocIs, IsContent
    <3>1. CASE save' = [save EXCEPT ![v].at = "refused"]
      BY <1>0, <3>0, <3>1, SaveChanges, SavesChange
    <3>2. CASE save' = [save EXCEPT ![v].at = "saved", ![v].is.rev = doc.rev + 1]
      <4> DEFINE x1 == [save[v] EXCEPT !.at = "saved"]
                 y == [x1.is EXCEPT !.rev = doc.rev + 1]
                 x2 == [x1 EXCEPT !.is = y]
      <4>1. SaveIs(editorPage, x1)
        BY <1>0, <3>0, SaveChanges
      <4> HIDE DEF x1
      <4>2. DocIs(editorPage, y)
        BY <1>0, <3>0, <4>1 DEF SaveIs, DocIs, IsContent
      <4> HIDE DEF y
      <4>3. SaveIs(editorPage, x2)
        BY <1>0, <4>1, <4>2 DEF SaveIs
      <4>4. save' = [save EXCEPT ![v] = x2]
        <5>1. save = [w \in Saves |-> save[w]]
          BY <1>0 DEF SavesAre
        <5> QED
          BY <1>0, <3>2, <5>1 DEF x1, y
      <4> HIDE DEF x2
      <4> QED
        BY <1>0, <4>3, <4>4, SavesChange
    <3> QED
      BY <1>0, <1>12, <3>1, <3>2 DEF TheEditor!ServeSave
  <2> QED
    BY <1>0, <2>1, <2>2, <2>3
<1>13. ASSUME NEW v \in Saves, TheEditor!LoseSave(v) PROVE Goal
  <2>1. /\ editorPage' = editorPage /\ editorCopy' = editorCopy /\ editorGet' = editorGet
        /\ editor' = editor
    BY <1>13 DEF TheEditor!LoseSave
  <2>2. DocIs(editorPage, doc')
    BY <1>0, <1>13, AcceptIs DEF TheEditor!LoseSave, SavesAre, SaveIs
  <2>3. SavesAre(editorPage, save')
    <3>0. SaveIs(editorPage, save[v])
      BY <1>0 DEF SavesAre
    <3>1. save' = [save EXCEPT ![v].at = "refused"]
      BY <1>0, <1>13 DEF TheEditor!LoseSave
    <3> QED
      BY <1>0, <3>0, <3>1, SaveChanges, SavesChange
  <2> QED
    BY <1>0, <2>1, <2>2, <2>3
<1>14. ASSUME NEW v \in Saves, TheEditor!HearSave(v) PROVE Goal
  <2>1. /\ editorPage' = editorPage /\ doc' = doc /\ editorCopy' = editorCopy
        /\ editor' = editor
    BY <1>14 DEF TheEditor!HearSave
  <2>2. SavesAre(editorPage, save')
    <3>0. SaveIs(editorPage, save[v])
      BY <1>0 DEF SavesAre
    <3>1. CASE save' = [save EXCEPT ![v].at = "fetch"]
      BY <1>0, <3>0, <3>1, SaveChanges, SavesChange
    <3>2. CASE save' = [save EXCEPT ![v] = TheEditor!NoSave]
      BY <1>0, <3>2, NoSaveIs, SavesChange
    <3> QED
      BY <1>0, <1>14, <3>1, <3>2 DEF TheEditor!HearSave
  <2>3. GetIs(editorPage, editorGet')
    BY <1>0, <1>14, FetchIs DEF TheEditor!HearSave
  <2> QED
    BY <1>0, <2>1, <2>2, <2>3
<1>15. ASSUME NEW v \in Saves, TheEditor!Close(v) PROVE Goal
  <2>1. /\ editorPage' = editorPage /\ doc' = doc /\ editorCopy' = editorCopy
        /\ editorGet' = editorGet
    BY <1>15 DEF TheEditor!Close
  <2>2. EditorIs(editorPage, editor')
    BY <1>0, <1>15, EditorChanges DEF TheEditor!Close
  <2>3. SavesAre(editorPage, save')
    <3>1. save' = [w \in Saves |-> IF w = v THEN TheEditor!NoSave ELSE [save[w] EXCEPT !.own = FALSE]]
      BY <1>0, <1>15 DEF TheEditor!Close
    <3>2. \A w \in Saves : SaveIs(editorPage, [save[w] EXCEPT !.own = FALSE])
      BY <1>0, SaveChanges DEF SavesAre
    <3>3. \A w \in Saves : SaveIs(editorPage, save'[w])
      BY <1>0, <3>1, <3>2, NoSaveIs
    <3>4. save' = [w \in Saves |-> save'[w]]
      BY <1>0, <3>1
    <3> QED
      BY <1>0, <3>3, <3>4, SavesChange
  <2> QED
    BY <1>0, <2>1, <2>2, <2>3
<1>16. CASE TheEditor!AnswerGet
  <2>1. /\ editorPage' = editorPage /\ doc' = doc /\ editor' = editor
        /\ save' = save
    BY <1>16 DEF TheEditor!AnswerGet
  <2>2. CopyIs(editorPage, editorCopy')
    <3>1. CASE editorCopy' = [of |-> editorGet.is, failed |-> FALSE]
      BY <1>0, <3>1 DEF CopyIs, GetIs
    <3> QED
      BY <1>0, <1>16, <3>1 DEF TheEditor!AnswerGet
  <2>3. GetIs(editorPage, editorGet')
    <3>1. CASE editorGet' = [editorGet EXCEPT !.at = "answered", !.is = doc]
      <4>1. editorGet' = [at |-> "answered", is |-> doc, awaits |-> editorGet.awaits, joined |-> editorGet.joined]
        BY <1>0, <3>1 DEF GetIs
      <4> QED
        BY <1>0, <4>1 DEF GetIs
    <3> QED
      BY <1>0, <1>16, <3>1, NoGetIs DEF TheEditor!AnswerGet
  <2> QED
    BY <1>0, <2>1, <2>2, <2>3
<1>17. CASE TheEditor!LoseGet
  <2>1. /\ editorPage' = editorPage /\ doc' = doc /\ editor' = editor
        /\ save' = save
    BY <1>17 DEF TheEditor!LoseGet
  <2>2. CopyIs(editorPage, editorCopy')
    <3>1. editorCopy' = [editorCopy EXCEPT !.failed = TRUE]
      BY <1>0, <1>17 DEF TheEditor!LoseGet
    <3>2. editorCopy' = [of |-> editorCopy.of, failed |-> TRUE]
      BY <1>0, <3>1 DEF CopyIs
    <3> QED
      BY <1>0, <3>2 DEF CopyIs
  <2>3. GetIs(editorPage, editorGet')
    BY <1>0, <1>17, NoGetIs DEF TheEditor!LoseGet
  <2> QED
    BY <1>0, <2>1, <2>2, <2>3
<1>18. CASE TheEditor!Elsewhere
  <2>1. /\ editorPage' = editorPage /\ editorCopy' = editorCopy /\ editorGet' = editorGet
        /\ editor' = editor /\ save' = save
    BY <1>18 DEF TheEditor!Elsewhere
  <2>2. DocIs(editorPage, doc')
    <3>1. doc' = [doc EXCEPT !.text = "new", !.rev = doc.rev + 1]
      BY <1>0, <1>18 DEF TheEditor!Elsewhere
    <3>2. doc' = [steps |-> doc.steps, text |-> "new", rev |-> doc.rev + 1] /\ doc.rev \in Nat /\ Steps(editorPage, doc.steps)
      BY <1>0, <3>1 DEF DocIs, IsContent
    <3> QED
      BY <1>0, <3>2 DEF DocIs, IsContent
  <2> QED
    BY <1>0, <2>1, <2>2
<1>19. CASE TheEditor!AskToLeave
  BY <1>19, <1>0 DEF TheEditor!AskToLeave
<1>20. CASE TheEditor!Leave
  BY <1>20, <1>0 DEF TheEditor!Leave
<1>21. ASSUME NEW r \in Runs, TheEditor!Execute(r) PROVE Goal
  BY <1>21, <1>0 DEF TheEditor!Execute
<1>22. ASSUME NEW r \in Runs, TheEditor!RunCrew(r) PROVE Goal
  BY <1>22, <1>0 DEF TheEditor!RunCrew
<1>23. ASSUME NEW r \in Runs, TheEditor!ServeRun(r) PROVE Goal
  BY <1>23, <1>0 DEF TheEditor!ServeRun
<1>24. ASSUME NEW r \in Runs, TheEditor!LoseRun(r) PROVE Goal
  BY <1>24, <1>0 DEF TheEditor!LoseRun
<1>25. ASSUME NEW r \in Runs, TheEditor!HearRun(r) PROVE Goal
  BY <1>25, <1>0 DEF TheEditor!HearRun
<1>26. ASSUME NEW r \in Runs, TheEditor!RunGoes(r) PROVE Goal
  BY <1>26, <1>0 DEF TheEditor!RunGoes
<1>27. CASE TheEditor!Poll
  BY <1>27, <1>0 DEF TheEditor!Poll
<1>28. CASE TheEditor!AnswerLook
  BY <1>28, <1>0 DEF TheEditor!AnswerLook
<1>29. CASE TheEditor!LoseLook
  BY <1>29, <1>0 DEF TheEditor!LoseLook
<1>30. CASE TheEditor!CancelStep
  BY <1>30, <1>0 DEF TheEditor!CancelStep
<1>31. CASE TheEditor!HearCancel
  <2>1. /\ editorPage' = editorPage /\ doc' = doc /\ editorCopy' = editorCopy
        /\ editor' = editor /\ save' = save
    BY <1>31 DEF TheEditor!HearCancel
  <2>2. GetIs(editorPage, editorGet')
    BY <1>0, <1>31, FetchIs DEF TheEditor!HearCancel
  <2> QED
    BY <1>0, <2>1, <2>2
<1>32. CASE TheEditor!NewRun
  BY <1>32, <1>0 DEF TheEditor!NewRun
<1> HIDE DEF Goal
<1> QED
  BY <1>1, <1>2, <1>3, <1>4, <1>5, <1>6, <1>7, <1>8, <1>9, <1>10, <1>11, <1>12, <1>13, <1>14, <1>15, <1>16, <1>17, <1>18, <1>19, <1>20, <1>21, <1>22, <1>23, <1>24, <1>25, <1>26, <1>27, <1>28, <1>29, <1>30, <1>31, <1>32 DEF TheEditor!Next

LEMMA QuietSaves ==
    ASSUME \A v \in Saves : save'[v].at = "none"
    PROVE  (OneSave /\ OfEditor /\ Landed /\ Asked /\ Shown /\ Joined)'
  BY DEF OneSave, OfEditor, Landed, Asked, Shown, Joined

LEMMA PastStays == ASSUME TheEditor!Next, editorPast' = {} PROVE editorPast = {}
<1>1. CASE TheEditor!StartEditing
  BY <1>1 DEF TheEditor!StartEditing
<1>2. CASE TheEditor!CancelEditing
  BY <1>2 DEF TheEditor!CancelEditing
<1>3. CASE TheEditor!Type
  BY <1>3 DEF TheEditor!Type, TheEditor!Edit
<1>4. CASE TheEditor!OpenPicker
  BY <1>4 DEF TheEditor!OpenPicker
<1>5. ASSUME NEW a \in Agents, TheEditor!PickAgent(a) PROVE editorPast = {}
  BY <1>5 DEF TheEditor!PickAgent, TheEditor!Edit
<1>6. ASSUME NEW a \in Agents, TheEditor!PollTask(a) PROVE editorPast = {}
  BY <1>6 DEF TheEditor!PollTask
<1>7. ASSUME NEW i \in 1 .. MaxSteps, TheEditor!RemoveStep(i) PROVE editorPast = {}
  BY <1>7 DEF TheEditor!RemoveStep, TheEditor!Edit
<1>8. ASSUME NEW i \in 1 .. MaxSteps, TheEditor!SwitchType(i) PROVE editorPast = {}
  BY <1>8 DEF TheEditor!SwitchType, TheEditor!Edit
<1>9. ASSUME NEW i \in 1 .. MaxSteps, TheEditor!PickWorkflow(i) PROVE editorPast = {}
  BY <1>9 DEF TheEditor!PickWorkflow, TheEditor!Edit
<1>10. ASSUME NEW i \in 1 .. MaxSteps, TheEditor!MoveUp(i) PROVE editorPast = {}
  BY <1>10 DEF TheEditor!MoveUp, TheEditor!Edit
<1>11. ASSUME NEW v \in Saves, TheEditor!Save(v) PROVE editorPast = {}
  BY <1>11 DEF TheEditor!Save
<1>12. ASSUME NEW v \in Saves, TheEditor!ServeSave(v) PROVE editorPast = {}
  BY <1>12 DEF TheEditor!ServeSave
<1>13. ASSUME NEW v \in Saves, TheEditor!LoseSave(v) PROVE editorPast = {}
  BY <1>13 DEF TheEditor!LoseSave
<1>14. ASSUME NEW v \in Saves, TheEditor!HearSave(v) PROVE editorPast = {}
  BY <1>14 DEF TheEditor!HearSave
<1>15. ASSUME NEW v \in Saves, TheEditor!Close(v) PROVE editorPast = {}
  BY <1>15 DEF TheEditor!Close
<1>16. CASE TheEditor!AnswerGet
  BY <1>16 DEF TheEditor!AnswerGet
<1>17. CASE TheEditor!LoseGet
  BY <1>17 DEF TheEditor!LoseGet
<1>18. CASE TheEditor!Elsewhere
  BY <1>18 DEF TheEditor!Elsewhere
<1>19. CASE TheEditor!AskToLeave
  BY <1>19 DEF TheEditor!AskToLeave
<1>20. CASE TheEditor!Leave
  BY <1>20 DEF TheEditor!Leave
<1>21. ASSUME NEW r \in Runs, TheEditor!Execute(r) PROVE editorPast = {}
  BY <1>21 DEF TheEditor!Execute
<1>22. ASSUME NEW r \in Runs, TheEditor!RunCrew(r) PROVE editorPast = {}
  BY <1>22 DEF TheEditor!RunCrew
<1>23. ASSUME NEW r \in Runs, TheEditor!ServeRun(r) PROVE editorPast = {}
  BY <1>23 DEF TheEditor!ServeRun
<1>24. ASSUME NEW r \in Runs, TheEditor!LoseRun(r) PROVE editorPast = {}
  BY <1>24 DEF TheEditor!LoseRun
<1>25. ASSUME NEW r \in Runs, TheEditor!HearRun(r) PROVE editorPast = {}
  BY <1>25 DEF TheEditor!HearRun
<1>26. ASSUME NEW r \in Runs, TheEditor!RunGoes(r) PROVE editorPast = {}
  BY <1>26 DEF TheEditor!RunGoes
<1>27. CASE TheEditor!Poll
  BY <1>27 DEF TheEditor!Poll
<1>28. CASE TheEditor!AnswerLook
  BY <1>28 DEF TheEditor!AnswerLook
<1>29. CASE TheEditor!LoseLook
  BY <1>29 DEF TheEditor!LoseLook
<1>30. CASE TheEditor!CancelStep
  BY <1>30 DEF TheEditor!CancelStep
<1>31. CASE TheEditor!HearCancel
  BY <1>31 DEF TheEditor!HearCancel
<1>32. CASE TheEditor!NewRun
  BY <1>32 DEF TheEditor!NewRun
<1> QED
  BY <1>1, <1>2, <1>3, <1>4, <1>5, <1>6, <1>7, <1>8, <1>9, <1>10, <1>11, <1>12, <1>13, <1>14, <1>15, <1>16, <1>17, <1>18, <1>19, <1>20, <1>21, <1>22, <1>23, <1>24, <1>25, <1>26, <1>27, <1>28, <1>29, <1>30, <1>31, <1>32 DEF TheEditor!Next

LEMMA SaveNext ==
    ASSUME EditShaped, SaveInv, TheEditor!Next, editorPage' # "left"
    PROVE  SaveInv'
<1> DEFINE Goal == (OneSave /\ OfEditor /\ Landed /\ Asked /\ Shown /\ Joined)'
<1> SUFFICES ASSUME editorPast' = {} PROVE Goal
  BY DEF SaveInv
<1>0. /\ DocIs(editorPage, doc) /\ CopyIs(editorPage, editorCopy) /\ GetIs(editorPage, editorGet)
      /\ EditorIs(editorPage, editor) /\ SavesAre(editorPage, save)
      /\ OneSave /\ OfEditor /\ Landed /\ Asked /\ Shown /\ Joined
      /\ editorPage' = editorPage /\ editorPast = {} /\ editorPast' = {} /\ editorPage' # "left"
  BY ShapeNext, PastStays DEF EditShaped, SaveInv
<1>1. CASE TheEditor!StartEditing
  <2>1. \A v \in Saves : save'[v].at = "none"
    BY <1>1, <1>0 DEF TheEditor!StartEditing, OfEditor
  <2> QED
    BY <2>1, QuietSaves
<1>2. CASE TheEditor!CancelEditing
  <2>1. \A v \in Saves : save[v].at = "none"
    BY <1>2, <1>0 DEF TheEditor!CancelEditing, TheEditor!Saving
  <2>2. \A v \in Saves : save'[v].at = "none"
    <3>1. \A v \in Saves : [save[v] EXCEPT !.own = FALSE].at = save[v].at
      BY <1>0, SaveChanges DEF SavesAre
    <3>2. save' = [v \in Saves |-> [save[v] EXCEPT !.own = FALSE]]
      BY <1>2 DEF TheEditor!CancelEditing
    <3> QED
      BY <2>1, <3>1, <3>2
  <2> QED
    BY <2>2, QuietSaves
<1>3. CASE TheEditor!Type
  <2>1. \A v \in Saves : save'[v].at = "none"
    BY <1>3, <1>0 DEF TheEditor!Type, TheEditor!Edit, TheEditor!Saving
  <2> QED
    BY <2>1, QuietSaves
<1>4. CASE TheEditor!OpenPicker
  <2>1. PICK m : editor' = [editor EXCEPT !.picker = m]
    BY <1>4 DEF TheEditor!OpenPicker
  <2>2. editor'.on = editor.on /\ editor'.text = editor.text /\ editor'.steps = editor.steps
    BY <2>1, <1>0, EditorChanges
  <2>3. /\ save' = save /\ doc' = doc /\ editorGet' = editorGet /\ editorCopy' = editorCopy
        /\ editorPending' = editorPending
    BY <1>4 DEF TheEditor!OpenPicker
  <2> QED
    BY <1>0, <2>2, <2>3 DEF OneSave, OfEditor, Landed, Asked, Shown, Joined, Draft
<1>5. ASSUME NEW a \in Agents, TheEditor!PickAgent(a) PROVE Goal
  <2>1. \A v \in Saves : save'[v].at = "none"
    BY <1>5, <1>0 DEF TheEditor!PickAgent, TheEditor!Edit, TheEditor!Saving
  <2> QED
    BY <2>1, QuietSaves
<1>6. ASSUME NEW a \in Agents, TheEditor!PollTask(a) PROVE Goal
  <2>1. /\ save' = save /\ editor' = editor /\ doc' = doc /\ editorCopy' = editorCopy /\ editorGet' = editorGet
        /\ "cancel" \in editorPending' => "cancel" \in editorPending
    BY <1>6, <1>0 DEF TheEditor!PollTask
  <2> QED
    BY <1>0, <2>1 DEF OneSave, OfEditor, Landed, Asked, Shown, Joined, Draft
<1>7. ASSUME NEW i \in 1 .. MaxSteps, TheEditor!RemoveStep(i) PROVE Goal
  <2>1. \A v \in Saves : save'[v].at = "none"
    BY <1>7, <1>0 DEF TheEditor!RemoveStep, TheEditor!Edit, TheEditor!Saving
  <2> QED
    BY <2>1, QuietSaves
<1>8. ASSUME NEW i \in 1 .. MaxSteps, TheEditor!SwitchType(i) PROVE Goal
  <2>1. \A v \in Saves : save'[v].at = "none"
    BY <1>8, <1>0 DEF TheEditor!SwitchType, TheEditor!Edit, TheEditor!Saving
  <2> QED
    BY <2>1, QuietSaves
<1>9. ASSUME NEW i \in 1 .. MaxSteps, TheEditor!PickWorkflow(i) PROVE Goal
  <2>1. \A v \in Saves : save'[v].at = "none"
    BY <1>9, <1>0 DEF TheEditor!PickWorkflow, TheEditor!Edit, TheEditor!Saving
  <2> QED
    BY <2>1, QuietSaves
<1>10. ASSUME NEW i \in 1 .. MaxSteps, TheEditor!MoveUp(i) PROVE Goal
  <2>1. \A v \in Saves : save'[v].at = "none"
    BY <1>10, <1>0 DEF TheEditor!MoveUp, TheEditor!Edit, TheEditor!Saving
  <2> QED
    BY <2>1, QuietSaves
<1>11. ASSUME NEW v \in Saves, TheEditor!Save(v) PROVE Goal
  <2>1. /\ \A w \in Saves : save[w].at = "none"
        /\ save' = [save EXCEPT ![v] = [at |-> "sent", is |-> TheEditor!Payload, own |-> TRUE]]
        /\ editor.on /\ editor' = editor
    BY <1>11, <1>0 DEF TheEditor!Save, TheEditor!Saving
  <2>2. /\ save'[v].at = "sent" /\ save'[v].is = TheEditor!Payload /\ save'[v].own
        /\ \A w \in Saves \ {v} : save'[w].at = "none"
    BY <2>1, <1>0 DEF SavesAre
  <2>3. TheEditor!Payload.steps = Draft /\ TheEditor!Payload.text = editor.text /\ Draft' = Draft
    BY <2>1, <1>0 DEF TheEditor!Payload, Draft, DraftOf
  <2> QED
    BY <2>1, <2>2, <2>3 DEF OneSave, OfEditor, Landed, Asked, Shown, Joined
<1>12. ASSUME NEW v \in Saves, TheEditor!ServeSave(v) PROVE Goal
  <2>1. save[v].at = "sent" /\ editor' = editor
    BY <1>12 DEF TheEditor!ServeSave
  <2>2. \A w \in Saves \ {v} : save[w].at = "none"
    BY <2>1, <1>0 DEF OneSave
  <2>3. Draft' = Draft
    BY <2>1, <1>0 DEF Draft
  <2>4. CASE save' = [save EXCEPT ![v].at = "refused"]
    <3>1. /\ save'[v].at = "refused" /\ save'[v].is = save[v].is /\ save'[v].own = save[v].own
          /\ \A w \in Saves \ {v} : save'[w].at = "none"
      BY <2>2, <2>4, <1>0, SetAt
    <3> QED
      BY <1>0, <2>1, <2>3, <3>1 DEF OneSave, OfEditor, Landed, Asked, Shown, Joined
  <2>5. CASE /\ TheEditor!Accept(save[v].is)
             /\ save' = [save EXCEPT ![v].at = "saved", ![v].is.rev = doc.rev + 1]
    <3>1. /\ save'[v].at = "saved" /\ save'[v].own = save[v].own
          /\ save'[v].is.text = save[v].is.text /\ save'[v].is.steps = save[v].is.steps
          /\ save'[v].is.rev = doc.rev + 1
          /\ \A w \in Saves \ {v} : save'[w].at = "none"
      <4>1. /\ save[v] = [at |-> save[v].at, is |-> save[v].is, own |-> save[v].own]
            /\ save[v].is = [steps |-> save[v].is.steps, text |-> save[v].is.text, rev |-> save[v].is.rev]
            /\ save = [w \in Saves |-> save[w]]
        BY <1>0 DEF SavesAre, SaveIs, DocIs, IsContent
      <4>2. save'[v] = [[save[v] EXCEPT !.at = "saved"] EXCEPT !.is = [save[v].is EXCEPT !.rev = doc.rev + 1]]
        BY <2>5, <4>1
      <4>3. [save[v].is EXCEPT !.rev = doc.rev + 1] = [steps |-> save[v].is.steps, text |-> save[v].is.text, rev |-> doc.rev + 1]
        BY <4>1
      <4>4. save'[v] = [at |-> "saved", is |-> [steps |-> save[v].is.steps, text |-> save[v].is.text, rev |-> doc.rev + 1],
                        own |-> save[v].own]
        BY <4>1, <4>2, <4>3
      <4>5. \A w \in Saves \ {v} : save'[w] = save[w]
        BY <2>5, <4>1
      <4> QED
        BY <4>4, <4>5, <2>2
    <3>2. PICK s \in TheEditor!Ordered(save[v].is.steps) : doc'.steps = s /\ doc'.rev = doc.rev + 1 /\ doc'.rev \in Nat
      BY <2>5, <1>0, AcceptIs DEF SavesAre, SaveIs, DocIs, IsContent
    <3>3. SameSteps(editorPage, doc', save'[v].is)
      <4>1. save[v].is.steps = Draft /\ Steps(editorPage, editor.steps)
        BY <2>1, <1>0 DEF OfEditor, EditorIs
      <4>2. /\ Steps(editorPage, Draft)
            /\ editorPage = "crew" => CrewSteps(Draft)
        BY <4>1, DraftSteps DEF Draft
      <4>3. CASE editorPage = "crew"
        BY <3>1, <3>2, <4>1, <4>2, <4>3, CrewOrder DEF SameSteps
      <4>4. CASE editorPage # "crew"
        <5>1. IsFiniteSet(DOMAIN Draft) /\ Draft = [i \in DOMAIN Draft |-> Draft[i]]
          BY <4>2, StepsAre, FS_Interval
        <5>2. doc'.steps \in TheEditor!Ordered(Draft)
          BY <3>2, <4>1
        <5> HIDE DEF Draft
        <5>3. ASSUME NEW w, NEW h PROVE Count(doc'.steps, w, h) = Count(Draft, w, h)
          BY ONLY <5>1, <5>2, GroupsStay
        <5>4. save'[v].is.steps = Draft
          BY <3>1, <4>1
        <5> QED
          BY <4>4, <5>3, <5>4 DEF SameSteps
      <4> QED
        BY <4>3, <4>4
    <3>4. Newer(editorPage, doc', save'[v].is)
      BY <3>1, <3>2, <3>3 DEF Newer
    <3> QED
      BY <1>0, <2>1, <2>3, <3>1, <3>4 DEF OneSave, OfEditor, Landed, Asked, Shown, Joined
  <2> QED
    BY <1>12, <2>4, <2>5 DEF TheEditor!ServeSave
<1>13. ASSUME NEW v \in Saves, TheEditor!LoseSave(v) PROVE Goal
  <2>1. save[v].at = "sent" /\ editor' = editor /\ save' = [save EXCEPT ![v].at = "refused"]
    BY <1>13 DEF TheEditor!LoseSave
  <2>2. \A w \in Saves \ {v} : save[w].at = "none"
    BY <2>1, <1>0 DEF OneSave
  <2>3. /\ save'[v].at = "refused" /\ save'[v].is = save[v].is /\ save'[v].own = save[v].own
        /\ \A w \in Saves \ {v} : save'[w].at = "none"
    BY <2>1, <2>2, <1>0, SetAt
  <2>4. Draft' = Draft
    BY <2>1, <1>0 DEF Draft
  <2> QED
    BY <1>0, <2>1, <2>3, <2>4 DEF OneSave, OfEditor, Landed, Asked, Shown, Joined
<1>14. ASSUME NEW v \in Saves, TheEditor!HearSave(v) PROVE Goal
  <2>1. /\ save[v].at # "none" /\ editor' = editor /\ doc' = doc /\ editorCopy' = editorCopy
        /\ editorPending' = editorPending
    BY <1>14 DEF TheEditor!HearSave
  <2>2. \A w \in Saves \ {v} : save[w].at = "none"
    BY <2>1, <1>0 DEF OneSave
  <2>3. Draft' = Draft
    BY <2>1, <1>0 DEF Draft
  <2>4. CASE save' = [save EXCEPT ![v] = TheEditor!NoSave]
    <3>1. \A w \in Saves : save'[w].at = "none"
      BY <2>2, <2>4, <1>0, NoSaveIs, SavesChange
    <3> QED
      BY <3>1, QuietSaves
  <2>5. CASE /\ save' = [save EXCEPT ![v].at = "fetch"] /\ save[v].at = "saved"
             /\ editorGet' = TheEditor!Fetch({v}, {})
    <3>1. /\ save'[v].at = "fetch" /\ save'[v].is = save[v].is /\ save'[v].own = save[v].own
          /\ \A w \in Saves \ {v} : save'[w].at = "none"
      BY <2>2, <2>5, <1>0, SetAt
    <3>2. editorGet'.at = "sent" /\ editorGet'.awaits = {v} /\ editorGet'.joined = {}
      BY <2>5, FetchIs
    <3> QED
      BY <1>0, <2>1, <2>3, <2>5, <3>1, <3>2 DEF OneSave, OfEditor, Landed, Asked, Shown, Joined
  <2> QED
    BY <1>14, <2>4, <2>5 DEF TheEditor!HearSave
<1>15. ASSUME NEW v \in Saves, TheEditor!Close(v) PROVE Goal
  <2>1. save' = [w \in Saves |-> IF w = v THEN TheEditor!NoSave ELSE [save[w] EXCEPT !.own = FALSE]]
    BY <1>15 DEF TheEditor!Close
  <2>2. \A w \in Saves \ {v} : save[w].at = "none"
    BY <1>15, <1>0 DEF OneSave, TheEditor!Close
  <2>3. \A w \in Saves : save'[w].at = "none"
    BY <2>1, <2>2, <1>0, NoSaveIs, SaveChanges DEF SavesAre
  <2> QED
    BY <2>3, QuietSaves
<1>16. CASE TheEditor!AnswerGet
  <2>1. save' = save /\ editor' = editor /\ doc' = doc /\ editorPending' = editorPending
    BY <1>16 DEF TheEditor!AnswerGet
  <2>2. Draft' = Draft
    BY <2>1, <1>0 DEF Draft
  <2>3. CASE /\ editorGet' = [editorGet EXCEPT !.at = "answered", !.is = doc] /\ editorCopy' = editorCopy
    <3>1. editorGet' = [at |-> "answered", is |-> doc, awaits |-> editorGet.awaits, joined |-> editorGet.joined]
      BY <2>3, <1>0 DEF GetIs
    <3>2. /\ editorGet'.is = doc /\ editorGet'.awaits = editorGet.awaits /\ editorGet'.joined = editorGet.joined
      BY <3>1
    <3> QED
      BY <1>0, <2>1, <2>2, <2>3, <3>2 DEF OneSave, OfEditor, Landed, Asked, Shown, Joined
  <2>4. CASE /\ editorGet.at = "answered" /\ editorGet' = TheEditor!NoGet
             /\ editorCopy' = [of |-> editorGet.is, failed |-> FALSE]
    <3>1. editorGet'.at = "none" /\ editorGet'.joined = {}
      BY <2>4 DEF TheEditor!NoGet
    <3>2. editorCopy'.of = editorGet.is
      BY <2>4
    <3> QED
      BY <1>0, <2>1, <2>2, <2>4, <3>1, <3>2 DEF OneSave, OfEditor, Landed, Asked, Shown, Joined
  <2> QED
    BY <1>16, <2>3, <2>4 DEF TheEditor!AnswerGet
<1>17. CASE TheEditor!LoseGet
  <2>1. /\ save' = save /\ editor' = editor /\ doc' = doc /\ editorPending' = editorPending
        /\ editorGet' = TheEditor!NoGet /\ editorCopy' = [editorCopy EXCEPT !.failed = TRUE]
    BY <1>17 DEF TheEditor!LoseGet
  <2>2. Draft' = Draft
    BY <2>1, <1>0 DEF Draft
  <2>3. editorCopy'.failed /\ editorGet'.at = "none" /\ editorGet'.joined = {}
    BY <2>1, <1>0 DEF CopyIs, TheEditor!NoGet
  <2> QED
    BY <1>0, <2>1, <2>2, <2>3 DEF OneSave, OfEditor, Landed, Asked, Shown, Joined
<1>18. CASE TheEditor!Elsewhere
  <2>1. /\ save' = save /\ editor' = editor /\ editorGet' = editorGet /\ editorCopy' = editorCopy
        /\ editorPending' = editorPending /\ doc' = [doc EXCEPT !.text = "new", !.rev = doc.rev + 1]
    BY <1>18 DEF TheEditor!Elsewhere
  <2>2. Draft' = Draft
    BY <2>1, <1>0 DEF Draft
  <2>3. doc'.rev = doc.rev + 1 /\ doc.rev \in Nat /\ \A v \in Saves : save[v].is.rev \in Nat
    BY <2>1, <1>0 DEF DocIs, IsContent, SavesAre, SaveIs
  <2>4. \A v \in Saves : Newer(editorPage, doc, save[v].is) => Newer(editorPage, doc', save[v].is)
    BY <2>3 DEF Newer
  <2> QED
    BY <1>0, <2>1, <2>2, <2>4 DEF OneSave, OfEditor, Landed, Asked, Shown, Joined
<1>19. CASE TheEditor!AskToLeave
  <2>1. /\ save' = save /\ editor' = editor /\ doc' = doc /\ editorCopy' = editorCopy /\ editorGet' = editorGet
        /\ "cancel" \in editorPending' => "cancel" \in editorPending
    BY <1>19, <1>0 DEF TheEditor!AskToLeave
  <2> QED
    BY <1>0, <2>1 DEF OneSave, OfEditor, Landed, Asked, Shown, Joined, Draft
<1>20. CASE TheEditor!Leave
  <2>1. /\ save' = save /\ editor' = editor /\ doc' = doc /\ editorCopy' = editorCopy /\ editorGet' = editorGet
        /\ "cancel" \in editorPending' => "cancel" \in editorPending
    BY <1>20, <1>0 DEF TheEditor!Leave
  <2> QED
    BY <1>0, <2>1 DEF OneSave, OfEditor, Landed, Asked, Shown, Joined, Draft
<1>21. ASSUME NEW r \in Runs, TheEditor!Execute(r) PROVE Goal
  <2>1. /\ save' = save /\ editor' = editor /\ doc' = doc /\ editorCopy' = editorCopy /\ editorGet' = editorGet
        /\ "cancel" \in editorPending' => "cancel" \in editorPending
    BY <1>21, <1>0 DEF TheEditor!Execute
  <2> QED
    BY <1>0, <2>1 DEF OneSave, OfEditor, Landed, Asked, Shown, Joined, Draft
<1>22. ASSUME NEW r \in Runs, TheEditor!RunCrew(r) PROVE Goal
  <2>1. /\ save' = save /\ editor' = editor /\ doc' = doc /\ editorCopy' = editorCopy /\ editorGet' = editorGet
        /\ "cancel" \in editorPending' => "cancel" \in editorPending
    BY <1>22, <1>0 DEF TheEditor!RunCrew
  <2> QED
    BY <1>0, <2>1 DEF OneSave, OfEditor, Landed, Asked, Shown, Joined, Draft
<1>23. ASSUME NEW r \in Runs, TheEditor!ServeRun(r) PROVE Goal
  <2>1. /\ save' = save /\ editor' = editor /\ doc' = doc /\ editorCopy' = editorCopy /\ editorGet' = editorGet
        /\ "cancel" \in editorPending' => "cancel" \in editorPending
    BY <1>23, <1>0 DEF TheEditor!ServeRun
  <2> QED
    BY <1>0, <2>1 DEF OneSave, OfEditor, Landed, Asked, Shown, Joined, Draft
<1>24. ASSUME NEW r \in Runs, TheEditor!LoseRun(r) PROVE Goal
  <2>1. /\ save' = save /\ editor' = editor /\ doc' = doc /\ editorCopy' = editorCopy /\ editorGet' = editorGet
        /\ "cancel" \in editorPending' => "cancel" \in editorPending
    BY <1>24, <1>0 DEF TheEditor!LoseRun
  <2> QED
    BY <1>0, <2>1 DEF OneSave, OfEditor, Landed, Asked, Shown, Joined, Draft
<1>25. ASSUME NEW r \in Runs, TheEditor!HearRun(r) PROVE Goal
  <2>1. /\ save' = save /\ editor' = editor /\ doc' = doc /\ editorCopy' = editorCopy /\ editorGet' = editorGet
        /\ "cancel" \in editorPending' => "cancel" \in editorPending
    BY <1>25, <1>0 DEF TheEditor!HearRun
  <2> QED
    BY <1>0, <2>1 DEF OneSave, OfEditor, Landed, Asked, Shown, Joined, Draft
<1>26. ASSUME NEW r \in Runs, TheEditor!RunGoes(r) PROVE Goal
  <2>1. /\ save' = save /\ editor' = editor /\ doc' = doc /\ editorCopy' = editorCopy /\ editorGet' = editorGet
        /\ "cancel" \in editorPending' => "cancel" \in editorPending
    BY <1>26, <1>0 DEF TheEditor!RunGoes
  <2> QED
    BY <1>0, <2>1 DEF OneSave, OfEditor, Landed, Asked, Shown, Joined, Draft
<1>27. CASE TheEditor!Poll
  <2>1. /\ save' = save /\ editor' = editor /\ doc' = doc /\ editorCopy' = editorCopy /\ editorGet' = editorGet
        /\ "cancel" \in editorPending' => "cancel" \in editorPending
    BY <1>27, <1>0 DEF TheEditor!Poll
  <2> QED
    BY <1>0, <2>1 DEF OneSave, OfEditor, Landed, Asked, Shown, Joined, Draft
<1>28. CASE TheEditor!AnswerLook
  <2>1. /\ save' = save /\ editor' = editor /\ doc' = doc /\ editorCopy' = editorCopy /\ editorGet' = editorGet
        /\ "cancel" \in editorPending' => "cancel" \in editorPending
    BY <1>28, <1>0 DEF TheEditor!AnswerLook
  <2> QED
    BY <1>0, <2>1 DEF OneSave, OfEditor, Landed, Asked, Shown, Joined, Draft
<1>29. CASE TheEditor!LoseLook
  <2>1. /\ save' = save /\ editor' = editor /\ doc' = doc /\ editorCopy' = editorCopy /\ editorGet' = editorGet
        /\ "cancel" \in editorPending' => "cancel" \in editorPending
    BY <1>29, <1>0 DEF TheEditor!LoseLook
  <2> QED
    BY <1>0, <2>1 DEF OneSave, OfEditor, Landed, Asked, Shown, Joined, Draft
<1>30. CASE TheEditor!CancelStep
  <2>1. \A v \in Saves : save'[v].at = "none"
    BY <1>30, <1>0 DEF TheEditor!CancelStep, OfEditor
  <2> QED
    BY <2>1, QuietSaves
<1>31. CASE TheEditor!HearCancel
  <2>1. /\ save' = save /\ editor' = editor /\ doc' = doc /\ editorCopy' = editorCopy
        /\ "cancel" \in editorPending /\ "cancel" \notin editorPending'
    BY <1>31 DEF TheEditor!HearCancel
  <2>2. Draft' = Draft
    BY <2>1, <1>0 DEF Draft
  <2>3. CASE editorGet' = editorGet
    BY <1>0, <2>1, <2>2, <2>3 DEF OneSave, OfEditor, Landed, Asked, Shown, Joined
  <2>4. CASE editorGet' = TheEditor!Fetch({}, editorGet.awaits)
    <3>1. editorGet'.at = "sent" /\ editorGet'.joined = editorGet.awaits
      BY <2>4, FetchIs
    <3> QED
      BY <1>0, <2>1, <2>2, <3>1 DEF OneSave, OfEditor, Landed, Asked, Shown, Joined
  <2> QED
    BY <1>31, <2>3, <2>4 DEF TheEditor!HearCancel
<1>32. CASE TheEditor!NewRun
  <2>1. /\ save' = save /\ editor' = editor /\ doc' = doc /\ editorCopy' = editorCopy /\ editorGet' = editorGet
        /\ "cancel" \in editorPending' => "cancel" \in editorPending
    BY <1>32, <1>0 DEF TheEditor!NewRun
  <2> QED
    BY <1>0, <2>1 DEF OneSave, OfEditor, Landed, Asked, Shown, Joined, Draft
<1> HIDE DEF Goal
<1> QED
  BY <1>1, <1>2, <1>3, <1>4, <1>5, <1>6, <1>7, <1>8, <1>9, <1>10, <1>11, <1>12, <1>13, <1>14, <1>15, <1>16, <1>17, <1>18, <1>19, <1>20, <1>21, <1>22, <1>23, <1>24, <1>25, <1>26, <1>27, <1>28, <1>29, <1>30, <1>31, <1>32 DEF TheEditor!Next

LEMMA InitEdit == ASSUME TheEditor!EditorAssumption, TheEditor!Init PROVE EditInv
<1>1. PICK s \in Documents[editorPage] :
         doc = [TheEditor!NoContent EXCEPT !.steps =
                  [i \in DOMAIN s |-> IF editorPage = "crew" THEN [who |-> s[i], group |-> 0, pos |-> i - 1]
                                     ELSE [who |-> s[i], group |-> i - 1, pos |-> 0]]]
  BY DEF TheEditor!Init
<1>2. editorPage \in {"workflow", "crew"}
  BY DEF TheEditor!Init
<1>3. s \in Seq(Agents \cup {"nested"})
  BY <1>2 DEF TheEditor!EditorAssumption
<1> DEFINE t == [i \in DOMAIN s |-> IF editorPage = "crew" THEN [who |-> s[i], group |-> 0, pos |-> i - 1]
                                   ELSE [who |-> s[i], group |-> i - 1, pos |-> 0]]
<1>4. Steps(editorPage, t)
  <2>1. Len(s) \in Nat /\ DOMAIN t = 1 .. Len(s) /\ t = [i \in DOMAIN t |-> t[i]]
    BY <1>3, SequencesAre
  <2>2. ASSUME editorPage = "crew", NEW i \in DOMAIN t PROVE Mem(t[i])
    <3>1. t[i] = [who |-> s[i], group |-> 0, pos |-> i - 1]
      BY <2>2
    <3> HIDE DEF t
    <3>2. t[i].who = s[i] /\ t[i].pos = i - 1
      BY <3>1
    <3> QED
      BY <3>1, <3>2 DEF Mem
  <2> HIDE DEF t
  <2> QED
    BY <2>1, <2>2, StepsAre
<1>5. DocIs(editorPage, doc)
  <2>1. PICK m : TheEditor!NoContent = [steps |-> << >>, text |-> m, rev |-> 0]
    BY DEF TheEditor!NoContent
  <2>2. doc = [steps |-> t, text |-> m, rev |-> 0]
    BY <1>1, <2>1
  <2> HIDE DEF t
  <2> QED
    BY <1>4, <2>2 DEF DocIs, IsContent
<1>6. editorCopy = [of |-> doc, failed |-> FALSE]
  BY DEF TheEditor!Init
<1>7. CopyIs(editorPage, editorCopy)
  BY <1>5, <1>6 DEF CopyIs
<1>8. GetIs(editorPage, editorGet)
  BY NoGetIs DEF TheEditor!Init
<1>9. editor = [on |-> FALSE, steps |-> << >>, text |-> "old", picker |-> TheEditor!Closed]
  BY DEF TheEditor!Init, TheEditor!NoEditor
<1>10. EditorIs(editorPage, editor)
  BY <1>9, NoSteps DEF EditorIs
<1>11. save = [v \in Saves |-> TheEditor!NoSave]
  BY DEF TheEditor!Init
<1>12. SavesAre(editorPage, save) /\ \A v \in Saves : save[v].at = "none"
  BY <1>11, NoSaveIs DEF SavesAre
<1>13. OneSave /\ OfEditor /\ Landed /\ Asked /\ Shown /\ Joined
  BY <1>12 DEF OneSave, OfEditor, Landed, Asked, Shown, Joined
<1> QED
  BY <1>2, <1>5, <1>7, <1>8, <1>10, <1>12, <1>13 DEF EditInv, EditShaped, SaveInv

LEMMA LeftStays == ASSUME TheEditor!Next, editorPage = "left" PROVE editorPage' = "left"
<1>1. CASE TheEditor!StartEditing
  BY <1>1 DEF TheEditor!StartEditing
<1>2. CASE TheEditor!CancelEditing
  BY <1>2 DEF TheEditor!CancelEditing
<1>3. CASE TheEditor!Type
  BY <1>3 DEF TheEditor!Type, TheEditor!Edit
<1>4. CASE TheEditor!OpenPicker
  BY <1>4 DEF TheEditor!OpenPicker
<1>5. ASSUME NEW a \in Agents, TheEditor!PickAgent(a) PROVE editorPage' = "left"
  BY <1>5 DEF TheEditor!PickAgent, TheEditor!Edit
<1>6. ASSUME NEW a \in Agents, TheEditor!PollTask(a) PROVE editorPage' = "left"
  BY <1>6 DEF TheEditor!PollTask
<1>7. ASSUME NEW i \in 1 .. MaxSteps, TheEditor!RemoveStep(i) PROVE editorPage' = "left"
  BY <1>7 DEF TheEditor!RemoveStep, TheEditor!Edit
<1>8. ASSUME NEW i \in 1 .. MaxSteps, TheEditor!SwitchType(i) PROVE editorPage' = "left"
  BY <1>8 DEF TheEditor!SwitchType, TheEditor!Edit
<1>9. ASSUME NEW i \in 1 .. MaxSteps, TheEditor!PickWorkflow(i) PROVE editorPage' = "left"
  BY <1>9 DEF TheEditor!PickWorkflow, TheEditor!Edit
<1>10. ASSUME NEW i \in 1 .. MaxSteps, TheEditor!MoveUp(i) PROVE editorPage' = "left"
  BY <1>10 DEF TheEditor!MoveUp, TheEditor!Edit
<1>11. ASSUME NEW v \in Saves, TheEditor!Save(v) PROVE editorPage' = "left"
  BY <1>11 DEF TheEditor!Save
<1>12. ASSUME NEW v \in Saves, TheEditor!ServeSave(v) PROVE editorPage' = "left"
  BY <1>12 DEF TheEditor!ServeSave
<1>13. ASSUME NEW v \in Saves, TheEditor!LoseSave(v) PROVE editorPage' = "left"
  BY <1>13 DEF TheEditor!LoseSave
<1>14. ASSUME NEW v \in Saves, TheEditor!HearSave(v) PROVE editorPage' = "left"
  BY <1>14 DEF TheEditor!HearSave
<1>15. ASSUME NEW v \in Saves, TheEditor!Close(v) PROVE editorPage' = "left"
  BY <1>15 DEF TheEditor!Close
<1>16. CASE TheEditor!AnswerGet
  BY <1>16 DEF TheEditor!AnswerGet
<1>17. CASE TheEditor!LoseGet
  BY <1>17 DEF TheEditor!LoseGet
<1>18. CASE TheEditor!Elsewhere
  BY <1>18 DEF TheEditor!Elsewhere
<1>19. CASE TheEditor!AskToLeave
  BY <1>19 DEF TheEditor!AskToLeave
<1>20. CASE TheEditor!Leave
  BY <1>20 DEF TheEditor!Leave
<1>21. ASSUME NEW r \in Runs, TheEditor!Execute(r) PROVE editorPage' = "left"
  BY <1>21 DEF TheEditor!Execute
<1>22. ASSUME NEW r \in Runs, TheEditor!RunCrew(r) PROVE editorPage' = "left"
  BY <1>22 DEF TheEditor!RunCrew
<1>23. ASSUME NEW r \in Runs, TheEditor!ServeRun(r) PROVE editorPage' = "left"
  BY <1>23 DEF TheEditor!ServeRun
<1>24. ASSUME NEW r \in Runs, TheEditor!LoseRun(r) PROVE editorPage' = "left"
  BY <1>24 DEF TheEditor!LoseRun
<1>25. ASSUME NEW r \in Runs, TheEditor!HearRun(r) PROVE editorPage' = "left"
  BY <1>25 DEF TheEditor!HearRun
<1>26. ASSUME NEW r \in Runs, TheEditor!RunGoes(r) PROVE editorPage' = "left"
  BY <1>26 DEF TheEditor!RunGoes
<1>27. CASE TheEditor!Poll
  BY <1>27 DEF TheEditor!Poll
<1>28. CASE TheEditor!AnswerLook
  BY <1>28 DEF TheEditor!AnswerLook
<1>29. CASE TheEditor!LoseLook
  BY <1>29 DEF TheEditor!LoseLook
<1>30. CASE TheEditor!CancelStep
  BY <1>30 DEF TheEditor!CancelStep
<1>31. CASE TheEditor!HearCancel
  BY <1>31 DEF TheEditor!HearCancel
<1>32. CASE TheEditor!NewRun
  BY <1>32 DEF TheEditor!NewRun
<1> QED
  BY <1>1, <1>2, <1>3, <1>4, <1>5, <1>6, <1>7, <1>8, <1>9, <1>10, <1>11, <1>12, <1>13, <1>14, <1>15, <1>16, <1>17, <1>18, <1>19, <1>20, <1>21, <1>22, <1>23, <1>24, <1>25, <1>26, <1>27, <1>28, <1>29, <1>30, <1>31, <1>32 DEF TheEditor!Next

LEMMA NextKeepsEdit ==
    ASSUME EditInv, TheEditor!Next \/ UNCHANGED editorVars PROVE EditInv'
<1>1. CASE TheEditor!Next
  <2>1. CASE editorPage' = "left"
    BY <2>1 DEF EditInv
  <2>2. CASE editorPage' # "left"
    <3>1. EditShaped /\ SaveInv
      BY <1>1, <2>2, LeftStays DEF EditInv
    <3>2. EditShaped' /\ SaveInv'
      BY <1>1, <2>2, <3>1, ShapeNext, SaveNext
    <3> QED
      BY <3>2 DEF EditInv
  <2> QED
    BY <2>1, <2>2
<1>2. CASE UNCHANGED editorVars
  <2>1. /\ editorPage' = editorPage /\ doc' = doc /\ editorCopy' = editorCopy /\ editor' = editor /\ save' = save
        /\ editorGet' = editorGet /\ editorPending' = editorPending /\ editorPast' = editorPast
    BY <1>2 DEF editorVars
  <2> QED
    BY <2>1 DEF EditInv, EditShaped, SaveInv, OneSave, OfEditor, Landed, Asked, Shown, Joined, Draft
<1> QED
  BY <1>1, <1>2

\* A save ends where the editor closes, and nowhere else.
LEMMA SaveEnds ==
    ASSUME EditShaped, TheEditor!Next, NEW v \in Saves, save[v].at = "fetch", save'[v].at = "none",
           editorPage' # "left"
    PROVE  TheEditor!Close(v)
<1>0. SavesAre(editorPage, save)
  BY DEF EditShaped
<1>1. CASE TheEditor!StartEditing
  BY <1>1 DEF TheEditor!StartEditing
<1>2. CASE TheEditor!CancelEditing
  <2>1. \A u \in Saves : [save[u] EXCEPT !.own = FALSE].at = save[u].at
    BY <1>0, SaveChanges DEF SavesAre
  <2>2. save' = [u \in Saves |-> [save[u] EXCEPT !.own = FALSE]]
    BY <1>2 DEF TheEditor!CancelEditing
  <2> QED
    BY <2>1, <2>2
<1>3. CASE TheEditor!Type
  BY <1>3 DEF TheEditor!Type, TheEditor!Edit
<1>4. CASE TheEditor!OpenPicker
  BY <1>4 DEF TheEditor!OpenPicker
<1>5. ASSUME NEW a \in Agents, TheEditor!PickAgent(a) PROVE TheEditor!Close(v)
  BY <1>5 DEF TheEditor!PickAgent, TheEditor!Edit
<1>6. ASSUME NEW a \in Agents, TheEditor!PollTask(a) PROVE TheEditor!Close(v)
  BY <1>6 DEF TheEditor!PollTask
<1>7. ASSUME NEW i \in 1 .. MaxSteps, TheEditor!RemoveStep(i) PROVE TheEditor!Close(v)
  BY <1>7 DEF TheEditor!RemoveStep, TheEditor!Edit
<1>8. ASSUME NEW i \in 1 .. MaxSteps, TheEditor!SwitchType(i) PROVE TheEditor!Close(v)
  BY <1>8 DEF TheEditor!SwitchType, TheEditor!Edit
<1>9. ASSUME NEW i \in 1 .. MaxSteps, TheEditor!PickWorkflow(i) PROVE TheEditor!Close(v)
  BY <1>9 DEF TheEditor!PickWorkflow, TheEditor!Edit
<1>10. ASSUME NEW i \in 1 .. MaxSteps, TheEditor!MoveUp(i) PROVE TheEditor!Close(v)
  BY <1>10 DEF TheEditor!MoveUp, TheEditor!Edit
<1>11. ASSUME NEW w \in Saves, TheEditor!Save(w) PROVE TheEditor!Close(v)
  <2>1. save[w].at = "none" /\ \E x : save' = [save EXCEPT ![w] = x]
    BY <1>11 DEF TheEditor!Save
  <2>2. \A u \in Saves \ {w} : save'[u] = save[u]
    BY <2>1, <1>0 DEF SavesAre
  <2> QED
    BY <2>1, <2>2
<1>12. ASSUME NEW w \in Saves, TheEditor!ServeSave(w) PROVE TheEditor!Close(v)
  <2>1. save[w].at = "sent" /\ \E x : save' = [save EXCEPT ![w] = x]
    <3>1. save[w].at = "sent"
      BY <1>12 DEF TheEditor!ServeSave
    <3>2. CASE save' = [save EXCEPT ![w].at = "refused"]
      BY <3>1, <3>2
    <3>3. CASE save' = [save EXCEPT ![w].at = "saved", ![w].is.rev = doc.rev + 1]
      <4>1. save' = [save EXCEPT ![w] = [[save[w] EXCEPT !.at = "saved"] EXCEPT !.is.rev = doc.rev + 1]]
        BY <3>3, <1>0 DEF SavesAre
      <4> QED
        BY <3>1, <4>1
    <3> QED
      BY <1>12, <3>2, <3>3 DEF TheEditor!ServeSave
  <2>2. \A u \in Saves \ {w} : save'[u] = save[u]
    BY <2>1, <1>0 DEF SavesAre
  <2> QED
    BY <2>1, <2>2
<1>13. ASSUME NEW w \in Saves, TheEditor!LoseSave(w) PROVE TheEditor!Close(v)
  <2>1. save[w].at = "sent" /\ save' = [save EXCEPT ![w].at = "refused"]
    BY <1>13 DEF TheEditor!LoseSave
  <2>2. \A u \in Saves \ {w} : save'[u] = save[u]
    BY <2>1, <1>0 DEF SavesAre
  <2> QED
    BY <2>1, <2>2
<1>14. ASSUME NEW w \in Saves, TheEditor!HearSave(w) PROVE TheEditor!Close(v)
  <2>1. /\ save[w].at \in {"saved", "refused"}
        /\ \/ save' = [save EXCEPT ![w].at = "fetch"]
           \/ save' = [save EXCEPT ![w] = TheEditor!NoSave]
    BY <1>14 DEF TheEditor!HearSave
  <2>2. \A u \in Saves \ {w} : save'[u] = save[u]
    BY <2>1, <1>0 DEF SavesAre
  <2> QED
    BY <2>1, <2>2
<1>15. ASSUME NEW w \in Saves, TheEditor!Close(w) PROVE TheEditor!Close(v)
  <2>1. CASE w = v
    BY <1>15, <2>1
  <2>2. CASE w # v
    <3>1. save'[v] = [save[v] EXCEPT !.own = FALSE]
      BY <1>15, <2>2 DEF TheEditor!Close
    <3>2. [save[v] EXCEPT !.own = FALSE].at = save[v].at
      BY <1>0, SaveChanges DEF SavesAre
    <3> QED
      BY <3>1, <3>2
  <2> QED
    BY <2>1, <2>2
<1>16. CASE TheEditor!AnswerGet
  BY <1>16 DEF TheEditor!AnswerGet
<1>17. CASE TheEditor!LoseGet
  BY <1>17 DEF TheEditor!LoseGet
<1>18. CASE TheEditor!Elsewhere
  BY <1>18 DEF TheEditor!Elsewhere
<1>19. CASE TheEditor!AskToLeave
  BY <1>19 DEF TheEditor!AskToLeave
<1>20. CASE TheEditor!Leave
  BY <1>20 DEF TheEditor!Leave
<1>21. ASSUME NEW r \in Runs, TheEditor!Execute(r) PROVE TheEditor!Close(v)
  BY <1>21 DEF TheEditor!Execute
<1>22. ASSUME NEW r \in Runs, TheEditor!RunCrew(r) PROVE TheEditor!Close(v)
  BY <1>22 DEF TheEditor!RunCrew
<1>23. ASSUME NEW r \in Runs, TheEditor!ServeRun(r) PROVE TheEditor!Close(v)
  BY <1>23 DEF TheEditor!ServeRun
<1>24. ASSUME NEW r \in Runs, TheEditor!LoseRun(r) PROVE TheEditor!Close(v)
  BY <1>24 DEF TheEditor!LoseRun
<1>25. ASSUME NEW r \in Runs, TheEditor!HearRun(r) PROVE TheEditor!Close(v)
  BY <1>25 DEF TheEditor!HearRun
<1>26. ASSUME NEW r \in Runs, TheEditor!RunGoes(r) PROVE TheEditor!Close(v)
  BY <1>26 DEF TheEditor!RunGoes
<1>27. CASE TheEditor!Poll
  BY <1>27 DEF TheEditor!Poll
<1>28. CASE TheEditor!AnswerLook
  BY <1>28 DEF TheEditor!AnswerLook
<1>29. CASE TheEditor!LoseLook
  BY <1>29 DEF TheEditor!LoseLook
<1>30. CASE TheEditor!CancelStep
  BY <1>30 DEF TheEditor!CancelStep
<1>31. CASE TheEditor!HearCancel
  BY <1>31 DEF TheEditor!HearCancel
<1>32. CASE TheEditor!NewRun
  BY <1>32 DEF TheEditor!NewRun
<1> QED
  BY <1>1, <1>2, <1>3, <1>4, <1>5, <1>6, <1>7, <1>8, <1>9, <1>10, <1>11, <1>12, <1>13, <1>14, <1>15, <1>16, <1>17, <1>18, <1>19, <1>20, <1>21, <1>22, <1>23, <1>24, <1>25, <1>26, <1>27, <1>28, <1>29, <1>30, <1>31, <1>32 DEF TheEditor!Next

LEMMA SameIs == \A a, b : SameSteps(editorPage, a, b) => TheEditor!Same(a, b)
  BY DEF TheEditor!Same, SameSteps, Count

(* The editor closes on the save it was made in, over what was saved.      *)
LEMMA ClosesOnSave == ASSUME EditInv, TheEditor!Next PROVE TheEditor!ClosingIsOfSave
<1> SUFFICES ASSUME NEW v \in Saves, save[v].at = "fetch", save'[v].at = "none", editorPage' # "left",
                    editorPast = {}, ~ editorCopy.failed
             PROVE  /\ save[v].own /\ TheEditor!Same(editor, save[v].is) /\ editor.text = save[v].is.text
                    /\ editorCopy.of.rev >= save[v].is.rev
                    /\ editorCopy.of.rev = save[v].is.rev => TheEditor!Same(editorCopy.of, save[v].is)
  BY DEF TheEditor!ClosingIsOfSave
<1>1. EditShaped /\ OneSave /\ OfEditor /\ Landed /\ Asked /\ Shown /\ Joined
  BY LeftStays DEF EditInv, SaveInv
<1>2. TheEditor!Close(v)
  BY <1>1, SaveEnds
<1>3. v \notin editorGet.awaits \cup editorGet.joined
  BY <1>2 DEF TheEditor!Close
<1>4. Newer(editorPage, editorCopy.of, save[v].is)
  BY <1>1, <1>3 DEF Shown
<1>5. save[v].own /\ editor.text = save[v].is.text /\ save[v].is.steps = Draft
  BY <1>1 DEF OfEditor
<1>6. SameSteps(editorPage, editor, save[v].is)
  <2>1. Steps(editorPage, editor.steps)
    BY <1>1 DEF EditShaped, EditorIs
  <2>2. /\ DOMAIN Draft = DOMAIN editor.steps
        /\ editorPage = "crew" => \A i \in DOMAIN Draft : Draft[i].who = editor.steps[i].who
        /\ editorPage # "crew" => Draft = editor.steps
    BY <2>1, DraftSteps DEF Draft
  <2> HIDE DEF Draft
  <2> QED
    BY <1>5, <2>2 DEF SameSteps
<1> QED
  BY <1>4, <1>5, <1>6, SameIs DEF Newer

-----------------------------------------------------------------------------
(***************************************************************************)
(* The pages of channels.  A page of the owner's reads its channels again, *)
(* or has an answer to hear after which it does, or shows what they are.   *)
(***************************************************************************)

PagesTyped ==
    /\ saved = [c \in Channels |-> saved[c]]
    /\ channelsCopy = [known |-> channelsCopy.known, get |-> channelsCopy.get, is |-> channelsCopy.is]
    /\ channelsCopy.get \in BOOLEAN
    /\ toggle \in [Toggles -> [at : {"none", "sent", "done", "refused"}, of : Channels \cup {NoName},
                              to : {"active", "paused", "gone", "none"}]]
    /\ channelsChange = [k \in TheChannelPages!Kinds |-> channelsChange[k]]
    /\ \A k \in TheChannelPages!Kinds :
          channelsChange[k] = [at |-> channelsChange[k].at, of |-> channelsChange[k].of,
                               limit |-> channelsChange[k].limit]
    /\ channelsFaults \in Nat /\ channelsView \in {"tab", "detail", "admin", "left"}

PagesInv ==
    PagesTyped /\
    ( channelsView \in {"tab", "detail"} /\ channelsPast = {} /\ channelsFaults = 0 =>
        \/ channelsCopy.get \/ channelsCopy.is = saved
        \/ \E t \in Toggles : toggle[t].at = "done"
        \/ \E k \in TheChannelPages!Kinds : channelsChange[k].at = "done" )

LEMMA InitPages == ASSUME TheChannelPages!PagesAssumption, TheChannelPages!Init PROVE PagesInv
  BY DEF TheChannelPages!Init, TheChannelPages!PagesAssumption, TheChannelPages!NoToggle, TheChannelPages!Idle,
         PagesInv, PagesTyped

LEMMA PagesNext ==
    ASSUME TheChannelPages!PagesAssumption, PagesInv, TheChannelPages!Next
    PROVE  PagesInv'
<1> USE DEF PagesInv, PagesTyped
<1>1. CASE TheChannelPages!HearChannels
  <2>1. /\ saved' = saved /\ toggle' = toggle /\ channelsChange' = channelsChange
        /\ channelsView' = channelsView /\ channelsPast' = channelsPast
    BY <1>1 DEF TheChannelPages!HearChannels
  <2>2. CASE channelsCopy' = [known |-> TRUE, get |-> FALSE, is |-> saved] /\ UNCHANGED channelsFaults
    BY <2>1, <2>2
  <2>3. CASE channelsCopy' = [channelsCopy EXCEPT !.get = FALSE] /\ TheChannelPages!Fault
    <3>1. channelsCopy' = [known |-> channelsCopy.known, get |-> FALSE, is |-> channelsCopy.is]
      BY <2>3
    <3>2. channelsFaults' = channelsFaults + 1
      BY <2>3 DEF TheChannelPages!Fault
    <3> QED
      BY <2>1, <3>1, <3>2
  <2> QED
    BY <1>1, <2>2, <2>3 DEF TheChannelPages!HearChannels
<1>2. CASE TheChannelPages!Poll
  BY <1>2 DEF TheChannelPages!Poll
<1>3. CASE TheChannelPages!HearContacts
  BY <1>3 DEF TheChannelPages!HearContacts, TheChannelPages!Fault
<1>4. ASSUME NEW c \in Channels, NEW s \in {"active", "paused"}, NEW n \in DailyLimits, TheChannelPages!Elsewhere(c, s, n) PROVE PagesInv'
  BY <1>4 DEF TheChannelPages!Elsewhere, TheChannelPages!Click
<1>5. ASSUME NEW t \in Toggles, NEW c \in Channels, TheChannelPages!handleTogglePause(t, c) PROVE PagesInv'
  BY <1>5 DEF TheChannelPages!handleTogglePause, TheChannelPages!Click
<1>6. ASSUME NEW t \in Toggles, TheChannelPages!ServeToggle(t) PROVE PagesInv'
  <2>1. /\ toggle[t].at = "sent" /\ channelsCopy' = channelsCopy /\ channelsChange' = channelsChange
        /\ channelsView' = channelsView /\ channelsPast' = channelsPast
    BY <1>6 DEF TheChannelPages!ServeToggle
  <2>2. \A x \in {"done", "refused"} : LET y == [toggle EXCEPT ![t].at = x] IN
               /\ y \in [Toggles -> [at : {"none", "sent", "done", "refused"}, of : Channels \cup {NoName},
                                     to : {"active", "paused", "gone", "none"}]]
               /\ y[t].at = x /\ \A u \in Toggles \ {t} : y[u] = toggle[u]
    OBVIOUS
  <2>3. CASE /\ toggle' = [toggle EXCEPT ![t].at = "done"] /\ UNCHANGED channelsFaults
             /\ saved' = [saved EXCEPT ![toggle[t].of].status = toggle[t].to]
    <3>1. saved' = [c \in Channels |-> saved'[c]]
      BY <2>3
    <3>2. toggle'[t].at = "done" /\ PagesTyped'
      BY <2>1, <2>2, <2>3, <3>1
    <3> QED
      BY <3>2
  <2>4. CASE /\ toggle' = [toggle EXCEPT ![t].at = "refused"] /\ saved' = saved
             /\ (UNCHANGED channelsFaults \/ channelsFaults' = channelsFaults + 1)
    <3>1. PagesTyped'
      BY <2>1, <2>2, <2>4
    <3>2. \A u \in Toggles : toggle[u].at = "done" => toggle'[u].at = "done"
      BY <2>1, <2>2, <2>4
    <3> QED
      BY <2>1, <2>4, <3>1, <3>2
  <2> QED
    BY <1>6, <2>3, <2>4 DEF TheChannelPages!ServeToggle, TheChannelPages!Fault
<1>7. ASSUME NEW t \in Toggles, TheChannelPages!HearToggle(t) PROVE PagesInv'
  BY <1>7 DEF TheChannelPages!HearToggle, TheChannelPages!Refetch, TheChannelPages!NoToggle
<1>8. CASE TheChannelPages!OpenSheet
  BY <1>8 DEF TheChannelPages!OpenSheet
<1>9. CASE TheChannelPages!CloseSheet
  BY <1>9 DEF TheChannelPages!CloseSheet
<1>10. CASE TheChannelPages!handleSave
  BY <1>10 DEF TheChannelPages!handleSave, TheChannelPages!Ask
<1>11. CASE TheChannelPages!handleRotateToken
  BY <1>11 DEF TheChannelPages!handleRotateToken, TheChannelPages!Ask
<1>12. CASE TheChannelPages!Keep
  BY <1>12 DEF TheChannelPages!Keep
<1>13. CASE TheChannelPages!handleDelete
  BY <1>13 DEF TheChannelPages!handleDelete, TheChannelPages!Ask
<1>14. ASSUME NEW n \in DailyLimits, TheChannelPages!TypeLimit(n) PROVE PagesInv'
  BY <1>14 DEF TheChannelPages!TypeLimit, TheChannelPages!Click
<1>15. ASSUME NEW u \in Contacts, TheChannelPages!handleBlock(u) PROVE PagesInv'
  BY <1>15 DEF TheChannelPages!handleBlock, TheChannelPages!Ask
<1>16. ASSUME NEW x \in Channels \cup Contacts, TheChannelPages!AskAbout(x) PROVE PagesInv'
  BY <1>16 DEF TheChannelPages!AskAbout, TheChannelPages!Click
<1>17. ASSUME NEW d \in BOOLEAN, TheChannelPages!handleForce(d) PROVE PagesInv'
  BY <1>17 DEF TheChannelPages!handleForce, TheChannelPages!Ask
<1>18. ASSUME NEW d \in BOOLEAN, TheChannelPages!handleJustification(d) PROVE PagesInv'
  BY <1>18 DEF TheChannelPages!handleJustification, TheChannelPages!Click
<1>19. ASSUME NEW k \in TheChannelPages!Kinds, TheChannelPages!Serve(k) PROVE PagesInv'
  <2>1. /\ channelsChange[k].at = "sent" /\ channelsCopy' = channelsCopy /\ toggle' = toggle
        /\ channelsView' = channelsView /\ channelsPast' = channelsPast
    BY <1>19 DEF TheChannelPages!Serve
  <2>2. \A x : LET y == [channelsChange EXCEPT ![k].at = x] IN
               /\ y = [j \in TheChannelPages!Kinds |-> y[j]] /\ y[k].at = x
               /\ \A j \in TheChannelPages!Kinds \ {k} : y[j] = channelsChange[j]
               /\ y[k] = [at |-> y[k].at, of |-> y[k].of, limit |-> y[k].limit]
    OBVIOUS
  <2>3. CASE channelsChange' = [channelsChange EXCEPT ![k].at = "done"] /\ UNCHANGED channelsFaults
    <3>1. saved' = [c \in Channels |-> saved'[c]]
      <4>1. saved = [c \in Channels |-> saved[c]]
        OBVIOUS
      <4>2. \/ \E c, x : saved' = [saved EXCEPT ![c].limit = x]
            \/ \E c, x : saved' = [saved EXCEPT ![c].status = x]
            \/ saved' = saved
        BY ONLY <1>19, <2>1, <2>3, "sent" # "done" DEF TheChannelPages!Serve
      <4> QED
        BY ONLY <4>1, <4>2
    <3>2. PagesTyped'
      BY <2>1, <2>2, <2>3, <3>1
    <3>3. channelsChange'[k].at = "done"
      BY <2>2, <2>3
    <3> QED
      BY <3>2, <3>3
  <2>4. CASE /\ channelsChange' = [channelsChange EXCEPT ![k].at = "refused"] /\ saved' = saved
             /\ (UNCHANGED channelsFaults \/ channelsFaults' = channelsFaults + 1)
    <3>1. PagesTyped'
      BY <2>1, <2>2, <2>4
    <3>2. \A j \in TheChannelPages!Kinds : channelsChange[j].at = "done" => channelsChange'[j].at = "done"
      BY <2>1, <2>2, <2>4
    <3> QED
      BY <2>1, <2>4, <3>1, <3>2
  <2> QED
    BY <1>19, <2>3, <2>4 DEF TheChannelPages!Serve, TheChannelPages!Fault
<1>20. ASSUME NEW k \in TheChannelPages!Kinds, TheChannelPages!Hear(k) PROVE PagesInv'
  BY <1>20 DEF TheChannelPages!Hear, TheChannelPages!Refetch, TheChannelPages!Idle
<1>21. CASE TheChannelPages!handleMessagesTabClick
  BY <1>21 DEF TheChannelPages!handleMessagesTabClick
<1>22. CASE TheChannelPages!LeaveMessages
  BY <1>22 DEF TheChannelPages!LeaveMessages
<1> QED
  BY <1>1, <1>2, <1>3, <1>4, <1>5, <1>6, <1>7, <1>8, <1>9, <1>10, <1>11, <1>12, <1>13, <1>14, <1>15, <1>16, <1>17, <1>18, <1>19, <1>20, <1>21, <1>22 DEF TheChannelPages!Next

LEMMA NextKeepsPages ==
    ASSUME TheChannelPages!PagesAssumption, PagesInv, TheChannelPages!Next \/ UNCHANGED channelsVars PROVE PagesInv'
<1>1. CASE TheChannelPages!Next
  BY <1>1, PagesNext
<1>2. CASE UNCHANGED channelsVars
  BY <1>2 DEF channelsVars, PagesInv, PagesTyped
<1> QED
  BY <1>1, <1>2

LEMMA PagesShow == PagesInv => TheChannelPages!PagesCatchUp
  BY DEF PagesInv, TheChannelPages!PagesCatchUp, TheChannelPages!AllHeard

-----------------------------------------------------------------------------
(***************************************************************************)
(* The verdicts of submissions.  What a builder was told of a submission   *)
(* and what the list read next would tell are no more than the reviews of  *)
(* it that are over.                                                       *)
(***************************************************************************)

ToldTyped ==
    /\ submissionsRow = [x \in Flows |-> submissionsRow[x]]
    /\ \A x \in Flows : submissionsRow[x] = [is |-> submissionsRow[x].is, agent |-> submissionsRow[x].agent]
    /\ mine = [open |-> mine.open, get |-> mine.get, is |-> mine.is, stored |-> mine.stored]
    /\ told \in [Flows -> Nat]
    /\ review = [r \in Reviews |-> review[r]]
    /\ \A r \in Reviews : review[r] = [at |-> review[r].at, of |-> review[r].of, flow |-> review[r].flow]

Overs(x) == {r \in Reviews : review[r].at = "over" /\ review[r].flow = x}

Owed(x) == IF mine.stored[x] = "pending" /\ submissionsRow[x].is \in {"approved", "rejected"} THEN 1 ELSE 0

ToldInv ==
    ToldTyped /\ \A x \in Flows : IsFiniteSet(Overs(x)) /\ told[x] + Owed(x) <= Cardinality(Overs(x))

LEMMA InitTold == ASSUME TheSubmissions!Init PROVE ToldInv
<1>1. ToldTyped
  BY DEF TheSubmissions!Init, TheSubmissions!Free, ToldTyped
<1>2. ASSUME NEW x \in Flows PROVE Overs(x) = {} /\ told[x] = 0 /\ Owed(x) = 0
  BY DEF TheSubmissions!Init, TheSubmissions!Free, Overs, Owed
<1> QED
  BY <1>1, <1>2, FS_EmptySet DEF ToldInv

\* Where no review ends, nothing more is owed.
LEMMA NothingEnds ==
    ASSUME ToldInv, ToldTyped', told' = told,
           \A x \in Flows : Overs(x)' = Overs(x) /\ Owed(x)' <= Owed(x)
    PROVE  ToldInv'
<1> SUFFICES ASSUME NEW x \in Flows
             PROVE  IsFiniteSet(Overs(x)') /\ told'[x] + Owed(x)' <= Cardinality(Overs(x)')
  BY DEF ToldInv
<1>1. IsFiniteSet(Overs(x)) /\ told[x] + Owed(x) <= Cardinality(Overs(x)) /\ Cardinality(Overs(x)) \in Nat /\ told[x] \in Nat
  BY FS_CardinalityType DEF ToldInv, ToldTyped
<1>2. Owed(x) \in {0, 1} /\ Owed(x)' \in {0, 1} /\ Overs(x)' = Overs(x) /\ Owed(x)' <= Owed(x)
  BY DEF Owed
<1> QED
  BY <1>1, <1>2

\* A review that ends may be told of, of its submission only.
LEMMA OneEnds ==
    ASSUME ToldInv, ToldTyped', told' = told, mine' = mine, NEW r \in Reviews, review[r].at # "over",
           review' = [review EXCEPT ![r].at = "over"],
           \A x \in Flows : submissionsRow'[x] = submissionsRow[x] \/ x = review[r].flow
    PROVE  ToldInv'
<1> SUFFICES ASSUME NEW x \in Flows
             PROVE  IsFiniteSet(Overs(x)') /\ told'[x] + Owed(x)' <= Cardinality(Overs(x)')
  BY DEF ToldInv
<1>1. IsFiniteSet(Overs(x)) /\ told[x] + Owed(x) <= Cardinality(Overs(x)) /\ Cardinality(Overs(x)) \in Nat /\ told[x] \in Nat
  BY FS_CardinalityType DEF ToldInv, ToldTyped
<1>2. review'[r].at = "over" /\ review'[r].flow = review[r].flow /\ \A q \in Reviews \ {r} : review'[q] = review[q]
  BY DEF ToldInv, ToldTyped
<1>3. CASE x = review[r].flow
  <2>1. Overs(x)' = Overs(x) \cup {r} /\ r \notin Overs(x)
    BY <1>2, <1>3 DEF Overs
  <2>2. IsFiniteSet(Overs(x)') /\ Cardinality(Overs(x)') = Cardinality(Overs(x)) + 1
    BY <1>1, <2>1, FS_AddElement
  <2>3. Owed(x) \in {0, 1} /\ Owed(x)' \in {0, 1}
    BY DEF Owed
  <2> QED
    BY <1>1, <2>2, <2>3
<1>4. CASE x # review[r].flow
  <2>1. Overs(x)' = Overs(x)
    BY <1>2, <1>4 DEF Overs
  <2>2. Owed(x)' = Owed(x)
    BY <1>4 DEF Owed
  <2> QED
    BY <1>1, <2>1, <2>2
<1> QED
  BY <1>3, <1>4

LEMMA ToldNext == ASSUME ToldInv, TheSubmissions!Next PROVE ToldInv'
<1>0. ToldTyped
  BY DEF ToldInv
<1>1. CASE TheSubmissions!OpenPublish
  <2>1. told' = told /\ review' = review /\ ToldTyped' /\ mine'.stored = mine.stored
    BY <1>1, <1>0 DEF TheSubmissions!OpenPublish, ToldTyped, TheSubmissions!builder
  <2>2. \A x \in Flows : submissionsRow'[x] = submissionsRow[x] \/ submissionsRow'[x].is \notin {"approved", "rejected"}
    BY <1>1, <1>0 DEF TheSubmissions!OpenPublish, ToldTyped, TheSubmissions!builder
  <2>3. \A x \in Flows : Overs(x)' = Overs(x) /\ Owed(x)' <= Owed(x)
    BY <2>1, <2>2 DEF Overs, Owed
  <2> QED
    BY <2>1, <2>3, NothingEnds
<1>2. CASE TheSubmissions!create_submission
  <2>1. told' = told /\ review' = review /\ ToldTyped' /\ mine'.stored = mine.stored
    BY <1>2, <1>0 DEF TheSubmissions!create_submission, ToldTyped, TheSubmissions!builder
  <2>2. \A x \in Flows : submissionsRow'[x] = submissionsRow[x] \/ submissionsRow'[x].is \notin {"approved", "rejected"}
    BY <1>2, <1>0 DEF TheSubmissions!create_submission, ToldTyped, TheSubmissions!builder
  <2>3. \A x \in Flows : Overs(x)' = Overs(x) /\ Owed(x)' <= Owed(x)
    BY <2>1, <2>2 DEF Overs, Owed
  <2> QED
    BY <2>1, <2>3, NothingEnds
<1>3. CASE TheSubmissions!HearPublish
  <2>1. told' = told /\ review' = review /\ ToldTyped' /\ mine'.stored = mine.stored
    BY <1>3, <1>0 DEF TheSubmissions!HearPublish, ToldTyped, TheSubmissions!builder
  <2>2. \A x \in Flows : submissionsRow'[x] = submissionsRow[x] \/ submissionsRow'[x].is \notin {"approved", "rejected"}
    BY <1>3, <1>0 DEF TheSubmissions!HearPublish, ToldTyped, TheSubmissions!builder
  <2>3. \A x \in Flows : Overs(x)' = Overs(x) /\ Owed(x)' <= Owed(x)
    BY <2>1, <2>2 DEF Overs, Owed
  <2> QED
    BY <2>1, <2>3, NothingEnds
<1>4. CASE TheSubmissions!OpenMine
  <2>1. told' = told /\ review' = review /\ ToldTyped' /\ mine'.stored = mine.stored
    BY <1>4, <1>0 DEF TheSubmissions!OpenMine, ToldTyped, TheSubmissions!builder
  <2>2. \A x \in Flows : submissionsRow'[x] = submissionsRow[x] \/ submissionsRow'[x].is \notin {"approved", "rejected"}
    BY <1>4, <1>0 DEF TheSubmissions!OpenMine, ToldTyped, TheSubmissions!builder
  <2>3. \A x \in Flows : Overs(x)' = Overs(x) /\ Owed(x)' <= Owed(x)
    BY <2>1, <2>2 DEF Overs, Owed
  <2> QED
    BY <2>1, <2>3, NothingEnds
<1>5. CASE TheSubmissions!LeaveMine
  <2>1. told' = told /\ review' = review /\ ToldTyped' /\ mine'.stored = mine.stored
    BY <1>5, <1>0 DEF TheSubmissions!LeaveMine, ToldTyped, TheSubmissions!builder
  <2>2. \A x \in Flows : submissionsRow'[x] = submissionsRow[x] \/ submissionsRow'[x].is \notin {"approved", "rejected"}
    BY <1>5, <1>0 DEF TheSubmissions!LeaveMine, ToldTyped, TheSubmissions!builder
  <2>3. \A x \in Flows : Overs(x)' = Overs(x) /\ Owed(x)' <= Owed(x)
    BY <2>1, <2>2 DEF Overs, Owed
  <2> QED
    BY <2>1, <2>3, NothingEnds
<1>6. CASE TheSubmissions!HearMine
  <2>1. /\ review' = review /\ submissionsRow' = submissionsRow
        /\ mine' = [open |-> mine.open, get |-> FALSE, is |-> TheSubmissions!Listed, stored |-> TheSubmissions!Listed]
        /\ told' = [x \in Flows |-> told[x] + Owed(x)]
    BY <1>6, <1>0 DEF TheSubmissions!HearMine, ToldTyped, Owed
  <2>2. \A x \in Flows : Owed(x) \in {0, 1}
    BY DEF Owed
  <2>3. ToldTyped'
    BY <1>0, <2>1, <2>2 DEF ToldTyped
  <2>4. ASSUME NEW x \in Flows PROVE Owed(x)' = 0 /\ told'[x] = told[x] + Owed(x) /\ Overs(x)' = Overs(x) /\ told[x] \in Nat
    <3>1. mine'.stored[x] = IF submissionsRow[x].is = "deleted" THEN "none" ELSE submissionsRow[x].is
      BY <2>1 DEF TheSubmissions!Listed
    <3>2. Owed(x)' = 0
      BY <2>1, <3>1 DEF Owed
    <3> QED
      BY <1>0, <2>1, <3>2 DEF Overs, ToldTyped
  <2> QED
    BY <2>2, <2>3, <2>4 DEF ToldInv
<1>7. CASE TheSubmissions!resubmit_submission
  <2>1. told' = told /\ review' = review /\ ToldTyped' /\ mine'.stored = mine.stored
    BY <1>7, <1>0 DEF TheSubmissions!resubmit_submission, ToldTyped, TheSubmissions!builder
  <2>2. \A x \in Flows : submissionsRow'[x] = submissionsRow[x] \/ submissionsRow'[x].is \notin {"approved", "rejected"}
    BY <1>7, <1>0 DEF TheSubmissions!resubmit_submission, ToldTyped, TheSubmissions!builder
  <2>3. \A x \in Flows : Overs(x)' = Overs(x) /\ Owed(x)' <= Owed(x)
    BY <2>1, <2>2 DEF Overs, Owed
  <2> QED
    BY <2>1, <2>3, NothingEnds
<1>8. CASE TheSubmissions!delete_submission
  <2>1. told' = told /\ review' = review /\ ToldTyped' /\ mine'.stored = mine.stored
    BY <1>8, <1>0 DEF TheSubmissions!delete_submission, ToldTyped, TheSubmissions!builder
  <2>2. \A x \in Flows : submissionsRow'[x] = submissionsRow[x] \/ submissionsRow'[x].is \notin {"approved", "rejected"}
    BY <1>8, <1>0 DEF TheSubmissions!delete_submission, ToldTyped, TheSubmissions!builder
  <2>3. \A x \in Flows : Overs(x)' = Overs(x) /\ Owed(x)' <= Owed(x)
    BY <2>1, <2>2 DEF Overs, Owed
  <2> QED
    BY <2>1, <2>3, NothingEnds
<1>9. CASE TheSubmissions!ListTheirs
  <2>1. told' = told /\ review' = review /\ ToldTyped' /\ mine'.stored = mine.stored
    BY <1>9, <1>0 DEF TheSubmissions!ListTheirs, ToldTyped, TheSubmissions!builder
  <2>2. \A x \in Flows : submissionsRow'[x] = submissionsRow[x] \/ submissionsRow'[x].is \notin {"approved", "rejected"}
    BY <1>9, <1>0 DEF TheSubmissions!ListTheirs, ToldTyped, TheSubmissions!builder
  <2>3. \A x \in Flows : Overs(x)' = Overs(x) /\ Owed(x)' <= Owed(x)
    BY <2>1, <2>2 DEF Overs, Owed
  <2> QED
    BY <2>1, <2>3, NothingEnds
<1>10. ASSUME NEW x \in Flows, TheSubmissions!handlePublish(x) PROVE ToldInv'
  <2>1. told' = told /\ review' = review /\ ToldTyped' /\ mine'.stored = mine.stored
    BY <1>10, <1>0 DEF TheSubmissions!handlePublish, ToldTyped, TheSubmissions!builder
  <2>2. \A y \in Flows : submissionsRow'[y] = submissionsRow[y] \/ submissionsRow'[y].is \notin {"approved", "rejected"}
    BY <1>10, <1>0 DEF TheSubmissions!handlePublish, ToldTyped, TheSubmissions!builder
  <2>3. \A y \in Flows : Overs(y)' = Overs(y) /\ Owed(y)' <= Owed(y)
    BY <2>1, <2>2 DEF Overs, Owed
  <2> QED
    BY <2>1, <2>3, NothingEnds
<1>11. ASSUME NEW x \in Flows, TheSubmissions!handleResubmit(x) PROVE ToldInv'
  <2>1. told' = told /\ review' = review /\ ToldTyped' /\ mine'.stored = mine.stored
    BY <1>11, <1>0 DEF TheSubmissions!handleResubmit, ToldTyped, TheSubmissions!builder
  <2>2. \A y \in Flows : submissionsRow'[y] = submissionsRow[y] \/ submissionsRow'[y].is \notin {"approved", "rejected"}
    BY <1>11, <1>0 DEF TheSubmissions!handleResubmit, ToldTyped, TheSubmissions!builder
  <2>3. \A y \in Flows : Overs(y)' = Overs(y) /\ Owed(y)' <= Owed(y)
    BY <2>1, <2>2 DEF Overs, Owed
  <2> QED
    BY <2>1, <2>3, NothingEnds
<1>12. ASSUME NEW x \in Flows, TheSubmissions!handleDelete(x) PROVE ToldInv'
  <2>1. told' = told /\ review' = review /\ ToldTyped' /\ mine'.stored = mine.stored
    BY <1>12, <1>0 DEF TheSubmissions!handleDelete, ToldTyped, TheSubmissions!builder
  <2>2. \A y \in Flows : submissionsRow'[y] = submissionsRow[y] \/ submissionsRow'[y].is \notin {"approved", "rejected"}
    BY <1>12, <1>0 DEF TheSubmissions!handleDelete, ToldTyped, TheSubmissions!builder
  <2>3. \A y \in Flows : Overs(y)' = Overs(y) /\ Owed(y)' <= Owed(y)
    BY <2>1, <2>2 DEF Overs, Owed
  <2> QED
    BY <2>1, <2>3, NothingEnds
<1>13. ASSUME NEW r \in Reviews, NEW of \in {"approve", "reject", "revoke"}, NEW x \in Flows, TheSubmissions!Decide(r, of, x) PROVE ToldInv'
  <2>1. /\ told' = told /\ submissionsRow' = submissionsRow /\ mine' = mine /\ review[r].at = "none"
        /\ review' = [review EXCEPT ![r] = [at |-> "sent", of |-> of, flow |-> x]]
    BY <1>13 DEF TheSubmissions!Decide, TheSubmissions!builder
  <2>2. ToldTyped' /\ review'[r].at = "sent" /\ \A q \in Reviews \ {r} : review'[q] = review[q]
    BY <1>0, <2>1 DEF ToldTyped
  <2>3. \A y \in Flows : Overs(y)' = Overs(y) /\ Owed(y)' <= Owed(y)
    BY <2>1, <2>2 DEF Overs, Owed
  <2> QED
    BY <2>1, <2>2, <2>3, NothingEnds
<1>14. ASSUME NEW r \in Reviews, TheSubmissions!Begin(r) PROVE ToldInv'
  <2>1. told' = told /\ mine' = mine /\ review[r].at = "sent"
    BY <1>14 DEF TheSubmissions!Begin, TheSubmissions!builder
  <2>2. CASE review' = [review EXCEPT ![r].at = "embed"] /\ submissionsRow' = submissionsRow
    <3>1. ToldTyped' /\ review'[r].at = "embed" /\ \A q \in Reviews \ {r} : review'[q] = review[q]
      BY <1>0, <2>1, <2>2 DEF ToldTyped
    <3>2. \A y \in Flows : Overs(y)' = Overs(y) /\ Owed(y)' <= Owed(y)
      BY <2>1, <2>2, <3>1 DEF Overs, Owed
    <3> QED
      BY <2>1, <3>1, <3>2, NothingEnds
  <2>3. CASE /\ review' = [review EXCEPT ![r].at = "over"]
             /\ submissionsRow' = submissionsRow \/ \E b : submissionsRow' = [submissionsRow EXCEPT ![review[r].flow].is = b]
    <3>1. ToldTyped'
      <4>1. CASE submissionsRow' = submissionsRow
        BY <1>0, <2>1, <2>3, <4>1 DEF ToldTyped
      <4>2. ASSUME NEW b, submissionsRow' = [submissionsRow EXCEPT ![review[r].flow].is = b] PROVE ToldTyped'
        <5>1. /\ submissionsRow' = [x \in Flows |-> submissionsRow'[x]]
              /\ \A x \in Flows : submissionsRow'[x] = [is |-> submissionsRow'[x].is, agent |-> submissionsRow'[x].agent]
          BY <1>0, <4>2 DEF ToldTyped
        <5> QED
          BY <1>0, <2>1, <2>3, <5>1 DEF ToldTyped
      <4> QED
        BY <2>3, <4>1, <4>2
    <3>2. \A x \in Flows : submissionsRow'[x] = submissionsRow[x] \/ x = review[r].flow
      BY <1>0, <2>3 DEF ToldTyped
    <3> QED
      BY <2>1, <2>3, <3>1, <3>2, OneEnds
  <2> QED
    BY <1>14, <2>2, <2>3 DEF TheSubmissions!Begin
<1>15. ASSUME NEW r \in Reviews, TheSubmissions!approve_submission(r) PROVE ToldInv'
  <2>1. told' = told /\ mine' = mine /\ review[r].at = "embed" /\ review' = [review EXCEPT ![r].at = "over"]
    BY <1>15 DEF TheSubmissions!approve_submission, TheSubmissions!builder
  <2>2. \/ submissionsRow' = submissionsRow
        \/ submissionsRow' = [submissionsRow EXCEPT ![review[r].flow] = [is |-> "approved", agent |-> r]]
    BY <1>15 DEF TheSubmissions!approve_submission
  <2>3. ToldTyped'
    BY <1>0, <2>1, <2>2 DEF ToldTyped
  <2>4. \A x \in Flows : submissionsRow'[x] = submissionsRow[x] \/ x = review[r].flow
    BY <1>0, <2>2 DEF ToldTyped
  <2> QED
    BY <2>1, <2>3, <2>4, OneEnds
<1> QED
  BY <1>1, <1>2, <1>3, <1>4, <1>5, <1>6, <1>7, <1>8, <1>9, <1>10, <1>11, <1>12, <1>13, <1>14, <1>15 DEF TheSubmissions!Next

LEMMA NextKeepsTold ==
    ASSUME ToldInv, TheSubmissions!Next \/ UNCHANGED submissionsVars PROVE ToldInv'
<1>1. CASE TheSubmissions!Next
  BY <1>1, ToldNext
<1>2. CASE UNCHANGED submissionsVars
  BY <1>2 DEF submissionsVars, ToldInv, ToldTyped, Overs, Owed
<1> QED
  BY <1>1, <1>2

LEMMA ToldShows == ToldInv => TheSubmissions!VerdictIsToldOnce
<1>1. \A S : TheSubmissions!Cardinality(S) = Cardinality(S)
  BY DEF TheSubmissions!Cardinality, Cardinality
<1> SUFFICES ASSUME ToldInv, NEW x \in Flows
             PROVE  told[x] <= TheSubmissions!Cardinality(Overs(x))
  BY DEF TheSubmissions!VerdictIsToldOnce, Overs
<1>2. told[x] + Owed(x) <= Cardinality(Overs(x)) /\ Cardinality(Overs(x)) \in Nat /\ told[x] \in Nat /\ Owed(x) \in {0, 1}
  BY FS_CardinalityType DEF ToldInv, ToldTyped, Owed
<1> QED
  BY <1>1, <1>2

-----------------------------------------------------------------------------
(***************************************************************************)
(* The administrators' levels.  A change of a level, and a deletion, is    *)
(* committed before it is answered; until it is heard the list may be      *)
(* behind, and once it is heard the list is asked for anew.                *)
(***************************************************************************)

AdminTyped ==
    /\ adminRow = [e \in 1 .. TableRows |-> adminRow[e]]
    /\ \A e \in 1 .. TableRows : adminRow[e] = [status |-> adminRow[e].status, level |-> adminRow[e].level]
    /\ \A c \in adminCalls : /\ c = [entry |-> c.entry, field |-> c.field, value |-> c.value, at |-> c.at]
                             /\ c.entry \in 1 .. TableRows
                             /\ c.field \in {"status", "level", "delete"}
    /\ adminOthers \in Nat /\ adminFaults \in Nat

\* Changes that are made and not yet heard of.
Unheard == \E c \in adminCalls : c.at = "done" /\ c.field # "status"

SameLevels(a, b) == \A e \in 1 .. TableRows : a[e].level = b[e].level

AdminInv ==
    /\ AdminTyped
    /\ adminView # "users" /\ ~ left =>
          /\ \A c \in adminCalls : c.at \in {"written", "answered"} => c.field = "status"
          /\ adminOthers = 0 /\ adminFaults = 0 /\ ~ Unheard =>
                /\ adminGet.at = "read" => SameLevels(adminGet.read, adminRow)
                /\ adminGet.at = "no" => SameLevels(adminList, adminRow)
                /\ adminGet.at \in {"no", "asked", "read"}

LEMMA InitAdmin == ASSUME TheAdminTables!Init PROVE AdminInv
  BY DEF TheAdminTables!Init, TheAdminTables!NoGet, TheAdminTables!Entries, AdminInv, AdminTyped, SameLevels

\* What a change makes of a row.
LEMMA WrittenTyped ==
    ASSUME AdminTyped, NEW c \in adminCalls
    PROVE  LET r == TheAdminTables!Written(c, adminRow[c.entry])
           IN /\ r = [status |-> r.status, level |-> r.level]
              /\ c.field = "status" => r.level = adminRow[c.entry].level
  BY DEF AdminTyped, TheAdminTables!Written, TheAdminTables!Gone

LEMMA AdminNext == ASSUME AdminInv, TheAdminTables!Next PROVE AdminInv'
<1> USE DEF AdminInv, AdminTyped, Unheard, SameLevels, TheAdminTables!Entries, TheAdminTables!table, TheAdminTables!Click
<1>1. CASE TheAdminTables!Search
  BY <1>1 DEF TheAdminTables!Search
<1>2. CASE TheAdminTables!Sort
  BY <1>2 DEF TheAdminTables!Sort
<1>3. ASSUME NEW i \in 0 .. TableRows, TheAdminTables!Turn(i) PROVE AdminInv'
  BY <1>3 DEF TheAdminTables!Turn
<1>4. ASSUME NEW e \in 1 .. TableRows, TheAdminTables!toggleStatus(e) PROVE AdminInv'
  BY <1>4 DEF TheAdminTables!toggleStatus, TheAdminTables!Send
<1>5. ASSUME NEW e \in 1 .. TableRows, TheAdminTables!suspendAgent(e) PROVE AdminInv'
  BY <1>5 DEF TheAdminTables!suspendAgent, TheAdminTables!Send
<1>6. ASSUME NEW e \in 1 .. TableRows, TheAdminTables!toggleAdmin(e) PROVE AdminInv'
  BY <1>6 DEF TheAdminTables!toggleAdmin, TheAdminTables!Send
<1>7. ASSUME NEW e \in 1 .. TableRows, TheAdminTables!deleteAgent(e) PROVE AdminInv'
  BY <1>7 DEF TheAdminTables!deleteAgent, TheAdminTables!Send
<1>8. ASSUME NEW e \in 1 .. TableRows, NEW x, TheAdminTables!setVerification(e, x) PROVE AdminInv'
  BY <1>8 DEF TheAdminTables!setVerification, TheAdminTables!Send
<1>9. ASSUME NEW e \in 1 .. TableRows, NEW x, TheAdminTables!handleVerification(e, x) PROVE AdminInv'
  BY <1>9 DEF TheAdminTables!handleVerification, TheAdminTables!Send
<1>10. ASSUME NEW e \in 1 .. TableRows, NEW x \in {"status", "level"}, NEW v, TheAdminTables!Other(e, x, v) PROVE AdminInv'
  <2>1. adminOthers' = adminOthers + 1 /\ adminFaults' = adminFaults /\ adminView' = adminView /\ left' = left
        /\ adminCalls' = adminCalls /\ adminRow' = [adminRow EXCEPT ![e] = [adminRow[e] EXCEPT ![x] = v]]
    BY <1>10 DEF TheAdminTables!Other
  <2>2. \A r : r = [status |-> r.status, level |-> r.level] =>
            [r EXCEPT ![x] = v] = [status |-> [r EXCEPT ![x] = v].status, level |-> [r EXCEPT ![x] = v].level]
    <3> SUFFICES ASSUME NEW r, r = [status |-> r.status, level |-> r.level]
                 PROVE  [r EXCEPT ![x] = v] = [status |-> [r EXCEPT ![x] = v].status, level |-> [r EXCEPT ![x] = v].level]
      OBVIOUS
    <3>1. [r EXCEPT ![x] = v] = [[status |-> r.status, level |-> r.level] EXCEPT ![x] = v]
      OBVIOUS
    <3>2. CASE x = "status"
      <4>1. [r EXCEPT ![x] = v] = [status |-> v, level |-> r.level]
        BY <3>1, <3>2
      <4> QED
        BY ONLY <4>1
    <3>3. CASE x = "level"
      <4>1. [r EXCEPT ![x] = v] = [status |-> r.status, level |-> v]
        BY <3>1, <3>3
      <4> QED
        BY ONLY <4>1
    <3> QED
      BY <3>2, <3>3
  <2>3. /\ adminRow' = [d \in 1 .. TableRows |-> adminRow'[d]]
        /\ \A d \in 1 .. TableRows : adminRow'[d] = [status |-> adminRow'[d].status, level |-> adminRow'[d].level]
    BY <2>1, <2>2
  <2>6. adminOthers' \in Nat /\ adminFaults' \in Nat /\ adminCalls' = adminCalls
    BY <2>1
  <2>4. AdminTyped'
    BY <2>3, <2>6
  <2>5. adminOthers' # 0 /\ (Unheard' <=> Unheard)
    BY <2>1
  <2> QED
    BY <2>1, <2>4, <2>5
<1>11. ASSUME NEW c \in adminCalls, TheAdminTables!Handle(c) PROVE AdminInv'
  <2>1. c.at = "sent" /\ adminView' = adminView /\ left' = left /\ adminGet' = adminGet /\ adminList' = adminList
        /\ adminOthers' = adminOthers /\ adminFaults' = adminFaults
    BY <1>11 DEF TheAdminTables!Handle
  <2>2. CASE TheAdminTables!Commits(c)
    <3> DEFINE d == [c EXCEPT !.at = "done"]
    <3>1. adminCalls' = (adminCalls \ {c}) \cup {d} /\ adminRow' = [adminRow EXCEPT ![c.entry] = TheAdminTables!Written(c, adminRow[c.entry])]
      BY <1>11, <2>2 DEF TheAdminTables!Handle, TheAdminTables!Replace
    <3>2. d = [entry |-> c.entry, field |-> c.field, value |-> c.value, at |-> "done"] /\ c.field # "status"
      BY <2>2 DEF TheAdminTables!Commits
    <3>3. AdminTyped'
      BY <2>1, <3>1, <3>2, WrittenTyped
    <3> HIDE DEF d
    <3>4. Unheard'
      BY <3>1, <3>2
    <3>5. \A b \in adminCalls' : b.at \in {"written", "answered"} => b \in adminCalls
      BY <3>1, <3>2
    <3> QED
      BY <2>1, <3>3, <3>4, <3>5
  <2>3. CASE ~ TheAdminTables!Commits(c)
    <3> DEFINE d == [c EXCEPT !.at = "written"]
    <3>1. adminCalls' = (adminCalls \ {c}) \cup {d} /\ adminRow' = adminRow
      BY <1>11, <2>3 DEF TheAdminTables!Handle, TheAdminTables!Replace
    <3>2. d = [entry |-> c.entry, field |-> c.field, value |-> c.value, at |-> "written"]
          /\ (adminView # "users" => c.field = "status")
      BY <2>3 DEF TheAdminTables!Commits
    <3> HIDE DEF d
    <3>3. AdminTyped'
      BY <2>1, <3>1, <3>2
    <3>4. Unheard' <=> Unheard
      BY <2>1, <3>1, <3>2
    <3> QED
      BY <2>1, <3>1, <3>2, <3>3, <3>4
  <2> QED
    BY <2>2, <2>3
<1>12. ASSUME NEW c \in adminCalls, TheAdminTables!Commit(c) PROVE AdminInv'
  <2>1. c.at \in {"written", "answered"} /\ adminView' = adminView /\ left' = left /\ adminGet' = adminGet /\ adminList' = adminList
        /\ adminOthers' = adminOthers /\ adminFaults' = adminFaults
        /\ adminRow' = [adminRow EXCEPT ![c.entry] = TheAdminTables!Written(c, adminRow[c.entry])]
    BY <1>12 DEF TheAdminTables!Commit
  <2> DEFINE d == [c EXCEPT !.at = "done"]
  <2>2. d = [entry |-> c.entry, field |-> c.field, value |-> c.value, at |-> "done"]
    OBVIOUS
  <2>3. adminCalls' = (adminCalls \ {c}) \cup {d} \/ adminCalls' = adminCalls \ {c}
    BY <1>12 DEF TheAdminTables!Commit, TheAdminTables!Replace
  <2> HIDE DEF d
  <2> DEFINE new == TheAdminTables!Written(c, adminRow[c.entry])
  <2>7. new = [status |-> new.status, level |-> new.level] /\ (c.field = "status" => new.level = adminRow[c.entry].level)
    BY WrittenTyped
  <2>8. adminRow' = [adminRow EXCEPT ![c.entry] = new]
    BY <2>1
  <2> HIDE DEF new
  <2>9. /\ adminRow' = [e \in 1 .. TableRows |-> adminRow'[e]]
        /\ \A e \in 1 .. TableRows : adminRow'[e] = [status |-> adminRow'[e].status, level |-> adminRow'[e].level]
    BY <2>7, <2>8
  <2>10. \A b \in adminCalls' : b \in adminCalls \/ b = d
    BY <2>3
  <2>4. AdminTyped'
    BY <2>1, <2>2, <2>9, <2>10
  <2>5. c.field = "status" => /\ Unheard' <=> Unheard
                              /\ \A e \in 1 .. TableRows : adminRow'[e].level = adminRow[e].level
    BY <2>1, <2>2, <2>3, <2>7, <2>8
  <2>6. \A b \in adminCalls' : b.at \in {"written", "answered"} => b \in adminCalls
    BY <2>2, <2>3
  <2> QED
    BY <2>1, <2>4, <2>5, <2>6
<1>13. ASSUME NEW c \in adminCalls, TheAdminTables!Hear(c) PROVE AdminInv'
  BY <1>13 DEF TheAdminTables!Hear, TheAdminTables!Replace, TheAdminTables!Refetch
<1>14. ASSUME NEW c \in adminCalls, TheAdminTables!Reload(c) PROVE AdminInv'
  <2>1. adminView' = adminView /\ adminGet'.at = "asked" /\ adminRow' = adminRow
        /\ adminOthers' = adminOthers /\ adminFaults' = adminFaults
    BY <1>14 DEF TheAdminTables!Reload, TheAdminTables!Refetch
  <2>2. PICK given \in SUBSET {d \in adminCalls : d.at = "sent"} :
            LET going == {d \in adminCalls \ given : d.at # "done"}
            IN /\ adminCalls' = {[d EXCEPT !.at = "answered"] : d \in going}
               /\ left' = (left \/ going # {})
    BY <1>14 DEF TheAdminTables!Reload
  <2> DEFINE going == {d \in adminCalls \ given : d.at # "done"}
  <2>3. \A d \in going : d \in adminCalls
            /\ [d EXCEPT !.at = "answered"] = [entry |-> d.entry, field |-> d.field, value |-> d.value, at |-> "answered"]
    OBVIOUS
  <2>4. adminCalls' = {[d EXCEPT !.at = "answered"] : d \in going} /\ (going # {} => left')
    BY <2>2, Zenon
  <2> HIDE DEF going
  <2>5. \A b \in adminCalls' : \E d \in going :
            b = [entry |-> d.entry, field |-> d.field, value |-> d.value, at |-> "answered"]
    <3>1. \A b \in adminCalls' : \E d \in going : b = [d EXCEPT !.at = "answered"]
      BY <2>4
    <3> SUFFICES ASSUME NEW b \in adminCalls'
                 PROVE  \E d \in going :
                           b = [entry |-> d.entry, field |-> d.field, value |-> d.value, at |-> "answered"]
      OBVIOUS
    <3>2. PICK d \in going : b = [d EXCEPT !.at = "answered"]
      BY <3>1
    <3> QED
      BY <2>3, <3>2
  <2>6. AdminTyped'
    <3>1. ASSUME NEW b \in adminCalls'
          PROVE  /\ b = [entry |-> b.entry, field |-> b.field, value |-> b.value, at |-> b.at]
                 /\ b.entry \in 1 .. TableRows
                 /\ b.field \in {"status", "level", "delete"}
      <4>1. PICK d \in going : b = [entry |-> d.entry, field |-> d.field, value |-> d.value, at |-> "answered"]
        BY <2>5
      <4> QED
        BY <2>3, <4>1
    <3> QED
      BY <2>1, <3>1
  <2> QED
    BY <2>1, <2>4, <2>5, <2>6
<1>15. ASSUME NEW c \in adminCalls, TheAdminTables!HearRefusal(c) PROVE AdminInv'
  BY <1>15 DEF TheAdminTables!HearRefusal
<1>16. ASSUME NEW c \in adminCalls, TheAdminTables!Lose(c) PROVE AdminInv'
  BY <1>16 DEF TheAdminTables!Lose, TheAdminTables!Replace
<1>17. CASE TheAdminTables!ReadList
  BY <1>17 DEF TheAdminTables!ReadList
<1>18. CASE TheAdminTables!HearList
  BY <1>18 DEF TheAdminTables!HearList, TheAdminTables!NoGet
<1>19. CASE TheAdminTables!LoseList
  BY <1>19 DEF TheAdminTables!LoseList, TheAdminTables!NoGet
<1> QED
  BY <1>1, <1>2, <1>3, <1>4, <1>5, <1>6, <1>7, <1>8, <1>9, <1>10, <1>11, <1>12, <1>13, <1>14, <1>15, <1>16, <1>17, <1>18, <1>19 DEF TheAdminTables!Next

LEMMA NextKeepsAdmin ==
    ASSUME AdminInv, TheAdminTables!Next \/ UNCHANGED adminVars PROVE AdminInv'
<1>1. CASE TheAdminTables!Next
  BY <1>1, AdminNext
<1>2. CASE UNCHANGED adminVars
  BY <1>2 DEF adminVars, AdminInv, AdminTyped, Unheard, SameLevels
<1> QED
  BY <1>1, <1>2

LEMMA AdminShows == AdminInv => TheAdminTables!LevelsCatchUp
  BY DEF AdminInv, Unheard, SameLevels, TheAdminTables!LevelsCatchUp, TheAdminTables!NoGet, TheAdminTables!Entries

-----------------------------------------------------------------------------
(***************************************************************************)
(* The tool servers and the grants.  What a list lacks is in a change that *)
(* was made and not yet heard of, or the list is being read; a server that *)
(* is about to be registered is one nobody has, so none of its grants is   *)
(* shown.                                                                  *)
(***************************************************************************)

ServersTyped ==
    /\ \A c \in serversCalls : /\ c = [kind |-> c.kind, server |-> c.server, at |-> c.at]
                               /\ c.kind \in {"create", "delete", "refresh", "revoke"}
                               /\ c.server \in Servers
                               /\ c.at = "asking" => c.kind = "refresh"
    /\ serversListed = [servers |-> serversListed.servers, tools |-> serversListed.tools,
                        grants |-> serversListed.grants]
    /\ servers \subseteq used /\ tools \subseteq servers /\ grants \subseteq servers
    /\ serversListed.grants \subseteq used
    /\ serversFaults \in Nat

Registering ==
    /\ \A c, d \in serversCalls : c.kind = "create" /\ d.kind = "create" => c = d
    /\ \A c \in serversCalls : c.kind = "create" /\ c.at = "sent" =>
          c.server \in used /\ c.server \notin servers \cup serversListed.grants

Unseen == \E c \in serversCalls : c.at = "done" /\ c.kind # "revoke"
Revoked == \E c \in serversCalls : c.at = "done" /\ c.kind = "revoke"

ServersInv ==
    /\ ServersTyped /\ Registering
    /\ serversFaults = 0 =>
          /\ "servers" \notin serversGets /\ ~ Unseen => serversListed.servers = servers /\ serversListed.tools = tools
          /\ "grants" \notin serversGets => /\ grants \subseteq serversListed.grants
                                            /\ ~ Revoked => serversListed.grants \cap servers = grants

LEMMA InitServers == ASSUME TheToolServers!Init PROVE ServersInv
  BY DEF TheToolServers!Init, ServersInv, ServersTyped, Registering, Unseen, Revoked

LEMMA ServersNext == ASSUME ServersInv, TheToolServers!Next PROVE ServersInv'
<1> USE DEF ServersInv, ServersTyped, Registering, Unseen, Revoked, TheToolServers!db, TheToolServers!Click
<1>1. CASE TheToolServers!SetDialog
  BY <1>1 DEF TheToolServers!SetDialog
<1>2. CASE TheToolServers!TypeName
  BY <1>2 DEF TheToolServers!TypeName
<1>3. ASSUME NEW s \in Servers, TheToolServers!handleSubmit(s) PROVE ServersInv'
  BY <1>3 DEF TheToolServers!handleSubmit, TheToolServers!Send, TheToolServers!Pending
<1>4. ASSUME NEW s \in Servers, TheToolServers!RefreshTools(s) PROVE ServersInv'
  BY <1>4 DEF TheToolServers!RefreshTools, TheToolServers!Send, TheToolServers!Pending
<1>5. ASSUME NEW s \in Servers, TheToolServers!DeleteServer(s) PROVE ServersInv'
  BY <1>5 DEF TheToolServers!DeleteServer, TheToolServers!Send
<1>6. ASSUME NEW s \in Servers, TheToolServers!RevokeGrant(s) PROVE ServersInv'
  BY <1>6 DEF TheToolServers!RevokeGrant, TheToolServers!Send
<1>7. ASSUME NEW s \in Servers, TheToolServers!Grant(s) PROVE ServersInv'
  BY <1>7 DEF TheToolServers!Grant
<1>8. ASSUME NEW c \in serversCalls, TheToolServers!Handle(c) PROVE ServersInv'
  <2>1. c.at = "sent" /\ c.kind \in {"create", "delete", "revoke"} /\ serversListed' = serversListed
        /\ serversGets' = serversGets /\ used' = used /\ serversFaults' = serversFaults
        /\ (c.kind = "revoke" => c.server \in grants)
    BY <1>8 DEF TheToolServers!Handle
  <2> DEFINE d == [c EXCEPT !.at = "done"]
  <2>2. d = [kind |-> c.kind, server |-> c.server, at |-> "done"] /\ serversCalls' = (serversCalls \ {c}) \cup {d}
    BY <1>8 DEF TheToolServers!Handle, TheToolServers!To
  <2> HIDE DEF d
  <2>3. CASE c.kind = "create"
    <3>1. servers' = servers \cup {c.server} /\ tools' = tools /\ grants' = grants
      BY <1>8, <2>3 DEF TheToolServers!Handle
    <3>2. ServersTyped' /\ Registering' /\ Unseen' /\ (Revoked' <=> Revoked)
      BY <2>1, <2>2, <2>3, <3>1
    <3>3. c.server \notin serversListed.grants
      BY <2>1, <2>3
    <3> QED
      BY <2>1, <3>1, <3>2, <3>3
  <2>4. CASE c.kind = "delete"
    <3>1. servers' = servers \ {c.server} /\ tools' = tools \ {c.server} /\ grants' = grants \ {c.server}
      BY <1>8, <2>4 DEF TheToolServers!Handle
    <3>2. ServersTyped' /\ Registering' /\ Unseen' /\ (Revoked' <=> Revoked)
      BY <2>1, <2>2, <2>4, <3>1
    <3> QED
      BY <2>1, <3>1, <3>2
  <2>5. CASE c.kind = "revoke"
    <3>1. servers' = servers /\ tools' = tools /\ grants' = grants \ {c.server}
      BY <1>8, <2>5 DEF TheToolServers!Handle
    <3>2. ServersTyped' /\ Registering' /\ (Unseen' <=> Unseen) /\ Revoked'
      BY <2>1, <2>2, <2>5, <3>1
    <3> QED
      BY <2>1, <3>1, <3>2
  <2> QED
    BY <2>1, <2>3, <2>4, <2>5
<1>9. ASSUME NEW c \in serversCalls, TheToolServers!AskServer(c) PROVE ServersInv'
  BY <1>9 DEF TheToolServers!AskServer, TheToolServers!To
<1>10. ASSUME NEW c \in serversCalls, TheToolServers!StoreTools(c) PROVE ServersInv'
  <2>1. c.at = "asking" /\ serversListed' = serversListed /\ servers' = servers /\ grants' = grants
        /\ serversGets' = serversGets /\ used' = used /\ serversFaults' = serversFaults
    BY <1>10 DEF TheToolServers!StoreTools
  <2>2. CASE c.server \in servers
    <3> DEFINE d == [c EXCEPT !.at = "done"]
    <3>1. d = [kind |-> c.kind, server |-> c.server, at |-> "done"] /\ c.kind = "refresh"
      BY <2>1
    <3>2. serversCalls' = (serversCalls \ {c}) \cup {d} /\ tools' = (tools \cup {c.server}) \cap servers
      BY <1>10, <2>2 DEF TheToolServers!StoreTools, TheToolServers!To
    <3> HIDE DEF d
    <3>3. ServersTyped' /\ Registering' /\ Unseen' /\ (Revoked' <=> Revoked)
      BY <2>1, <3>1, <3>2
    <3> QED
      BY <2>1, <3>3
  <2>3. CASE c.server \notin servers
    <3> DEFINE d == [c EXCEPT !.at = "failed"]
    <3>1. d = [kind |-> c.kind, server |-> c.server, at |-> "failed"] /\ c.kind = "refresh"
      BY <2>1
    <3>2. serversCalls' = (serversCalls \ {c}) \cup {d} /\ tools' = (tools \cup {c.server}) \cap servers
      BY <1>10, <2>3 DEF TheToolServers!StoreTools, TheToolServers!To
    <3> HIDE DEF d
    <3>3. tools' = tools
      BY <2>3, <3>2
    <3>4. ServersTyped' /\ Registering' /\ (Unseen' <=> Unseen) /\ (Revoked' <=> Revoked)
      BY <2>1, <3>1, <3>2, <3>3
    <3> QED
      BY <2>1, <3>3, <3>4
  <2> QED
    BY <2>2, <2>3
<1>11. ASSUME NEW c \in serversCalls, TheToolServers!Refuse(c) PROVE ServersInv'
  BY <1>11 DEF TheToolServers!Refuse, TheToolServers!To
<1>12. ASSUME NEW c \in serversCalls, TheToolServers!Hear(c) PROVE ServersInv'
  BY <1>12 DEF TheToolServers!Hear, TheToolServers!Refetched
<1>13. ASSUME NEW c \in serversCalls, TheToolServers!HearFailure(c) PROVE ServersInv'
  BY <1>13 DEF TheToolServers!HearFailure
<1>14. ASSUME NEW c \in serversCalls, TheToolServers!Lose(c) PROVE ServersInv'
  BY <1>14 DEF TheToolServers!Lose, TheToolServers!To
<1>15. ASSUME NEW l \in {"servers", "grants"}, TheToolServers!HearList(l) PROVE ServersInv'
  BY <1>15 DEF TheToolServers!HearList
<1> QED
  BY <1>1, <1>2, <1>3, <1>4, <1>5, <1>6, <1>7, <1>8, <1>9, <1>10, <1>11, <1>12, <1>13, <1>14, <1>15 DEF TheToolServers!Next

LEMMA NextKeepsServers ==
    ASSUME ServersInv, TheToolServers!Next \/ UNCHANGED serversVars PROVE ServersInv'
<1>1. CASE TheToolServers!Next
  BY <1>1, ServersNext
<1>2. CASE UNCHANGED serversVars
  BY <1>2 DEF serversVars, ServersInv, ServersTyped, Registering, Unseen, Revoked
<1> QED
  BY <1>1, <1>2

LEMMA ServersShow == ServersInv => TheToolServers!ServersCatchUp
  BY DEF ServersInv, Unseen, Revoked, TheToolServers!ServersCatchUp

-----------------------------------------------------------------------------
(***************************************************************************)
(* The lists.  An answer that is kept is the one the service gives now, as *)
(* long as nothing changes; and of the pages up to the one that is open,   *)
(* all entries were shown.                                                 *)
(***************************************************************************)

DirectoryTyped ==
    /\ f \in TheDirectory!Filters /\ p \in TheDirectory!Pages /\ search \in BOOLEAN
    /\ directoryCache = [q \in TheDirectory!Questions |-> directoryCache[q]]
    /\ changes \in Nat
    /\ search => p = 1
    /\ directoryView # "agents" => narrow = "no" /\ ~ search

Kept == \A q \in TheDirectory!Questions : directoryCache[q] \in {TheDirectory!NoAnswer, TheDirectory!list_agents(q)}

Walked == ~ search => /\ \A n \in 1 .. p - 1 : TheDirectory!PageOf(f, n) \subseteq seen
                      /\ TheDirectory!Answered => TheDirectory!PageOf(f, p) \subseteq seen

DirectoryInv == DirectoryTyped /\ (changes = 0 => Kept /\ Walked)

\* What is listed depends on the entries only.
LEMMA ListedIsOfKind ==
    ASSUME kind' = kind
    PROVE  /\ \A g, n : TheDirectory!PageOf(g, n)' = TheDirectory!PageOf(g, n)
           /\ \A q : TheDirectory!list_agents(q)' = TheDirectory!list_agents(q)
<1>1. ASSUME NEW g PROVE TheDirectory!Matching(g)' = TheDirectory!Matching(g)
  BY DEF TheDirectory!Matching
<1>2. ASSUME NEW g, NEW n PROVE TheDirectory!PageOf(g, n)' = TheDirectory!PageOf(g, n)
  BY <1>1 DEF TheDirectory!PageOf
<1>3. ASSUME NEW q PROVE TheDirectory!list_agents(q)' = TheDirectory!list_agents(q)
  BY <1>1, <1>2 DEF TheDirectory!list_agents
<1> QED
  BY <1>2, <1>3

LEMMA InitDirectory == ASSUME TheDirectory!DirectoryAssumption, TheDirectory!Init PROVE DirectoryInv
<1>1. directoryCache = [q \in TheDirectory!Questions |-> TheDirectory!NoAnswer]
  BY DEF TheDirectory!Init
<1>2. DirectoryTyped
  <2>1. Listings \in Nat \ {0} /\ p \in {1, 2}
    BY DEF TheDirectory!DirectoryAssumption, TheDirectory!Init
  <2>2. p \in TheDirectory!Pages
    BY <2>1 DEF TheDirectory!Pages
  <2>3. f = "all" /\ search = FALSE /\ narrow = "no" /\ changes = 0
    BY DEF TheDirectory!Init
  <2> QED
    BY <1>1, <2>2, <2>3 DEF DirectoryTyped, TheDirectory!Filters
<1>3. Kept
  BY <1>1 DEF Kept
<1>4. TheDirectory!Question \in TheDirectory!Questions
  BY <1>2 DEF DirectoryTyped, TheDirectory!Question, TheDirectory!Questions, TheDirectory!Pages
<1>5. ~ TheDirectory!Answered
  BY <1>1, <1>4 DEF TheDirectory!Answered
<1>6. seen = UNION {TheDirectory!PageOf(f, n) : n \in 1 .. p - 1}
  BY DEF TheDirectory!Init
<1>7. \A n \in 1 .. p - 1 : TheDirectory!PageOf(f, n) \subseteq seen
  BY <1>6
<1> QED
  BY <1>2, <1>3, <1>5, <1>7 DEF DirectoryInv, Walked

\* A choice whose pages before were all shown.
LEMMA ChoiceWalks ==
    ASSUME TheDirectory!DirectoryAssumption, DirectoryInv,
           NEW g \in TheDirectory!Filters, NEW n \in TheDirectory!Pages, NEW s \in BOOLEAN, NEW base, NEW stale,
           TheDirectory!Choose(g, n, s, base, stale),
           s => n = 1, directoryView # "agents" => narrow' = "no" /\ ~ s,
           changes = 0 /\ ~ s => \A m \in 1 .. n - 1 : TheDirectory!PageOf(g, m) \subseteq base
    PROVE  DirectoryInv'
<1> DEFINE q == [f |-> g, p |-> IF s THEN 1 ELSE n, search |-> s]
<1>1. /\ f' = g /\ p' = n /\ search' = s /\ seen' = base \cup directoryCache[q].rows
      /\ directoryView' = directoryView /\ kind' = kind /\ directoryCache' = directoryCache /\ changes' = changes
  BY DEF TheDirectory!Choose
<1>2. DirectoryTyped'
  BY <1>1 DEF DirectoryInv, DirectoryTyped
<1>3. ASSUME changes = 0 PROVE Kept'
  BY <1>1, <1>3, ListedIsOfKind DEF DirectoryInv, Kept, TheDirectory!NoAnswer
<1>4. ASSUME changes = 0, ~ s PROVE Walked'
  <2>1. TheDirectory!Question' = q /\ q = [f |-> g, p |-> n, search |-> FALSE]
    BY <1>1, <1>4 DEF TheDirectory!Question
  <2>2. q \in TheDirectory!Questions
    BY <1>4, <2>1 DEF TheDirectory!Questions
  <2>3. directoryCache[q] # TheDirectory!NoAnswer => directoryCache[q].rows = TheDirectory!PageOf(g, n)
    <3>1. directoryCache[q] \in {TheDirectory!NoAnswer, TheDirectory!list_agents(q)}
      BY <1>4, <2>2 DEF DirectoryInv, Kept
    <3>2. TheDirectory!list_agents(q).rows = TheDirectory!PageOf(g, n)
      BY <2>1 DEF TheDirectory!list_agents
    <3> QED
      BY <3>1, <3>2
  <2>4. TheDirectory!Answered' <=> directoryCache[q] # TheDirectory!NoAnswer
    BY <1>1, <2>1 DEF TheDirectory!Answered, TheDirectory!NoAnswer
  <2>5. \A m : TheDirectory!PageOf(g, m)' = TheDirectory!PageOf(g, m)
    BY <1>1, ListedIsOfKind
  <2> HIDE DEF q
  <2>6. \A m \in 1 .. n - 1 : TheDirectory!PageOf(g, m)' \subseteq seen'
    BY <1>1, <1>4, <2>5
  <2>7. TheDirectory!Answered' => TheDirectory!PageOf(g, n)' \subseteq seen'
    BY <1>1, <2>3, <2>4, <2>5
  <2>8. \A m : TheDirectory!PageOf(f, m)' = TheDirectory!PageOf(g, m)'
    BY <1>1 DEF TheDirectory!PageOf, TheDirectory!Matching
  <2> QED
    BY <1>1, <2>6, <2>7, <2>8 DEF Walked
<1>5. ASSUME s PROVE Walked'
  BY <1>1, <1>5 DEF Walked
<1> QED
  BY <1>1, <1>2, <1>3, <1>4, <1>5 DEF DirectoryInv

LEMMA DirectoryRests ==
    ASSUME DirectoryInv, directoryView' = directoryView, kind' = kind, f' = f, p' = p, search' = search,
           narrow' = narrow, changes' = changes, directoryCache' = directoryCache, seen' = seen
    PROVE  DirectoryInv'
  BY DEF DirectoryInv, DirectoryTyped, Kept, Walked, TheDirectory!PageOf, TheDirectory!Matching, TheDirectory!list_agents,
         TheDirectory!Answered, TheDirectory!Question, TheDirectory!NoAnswer

LEMMA DirectoryNext ==
    ASSUME TheDirectory!DirectoryAssumption, DirectoryInv, TheDirectory!Next PROVE DirectoryInv'
<1>1. ASSUME NEW stale \in BOOLEAN, NEW g \in TheDirectory!Filters, TheDirectory!changeFilter(g, stale) PROVE DirectoryInv'
  <2>1. TheDirectory!Choose(g, 1, search, {}, stale) /\ narrow' = narrow
    BY <1>1 DEF TheDirectory!changeFilter
  <2>2. 1 \in TheDirectory!Pages /\ search \in BOOLEAN /\ (directoryView # "agents" => narrow' = "no" /\ ~ search)
    BY <2>1 DEF DirectoryInv, DirectoryTyped, TheDirectory!DirectoryAssumption, TheDirectory!Pages
  <2> QED
    BY <2>1, <2>2, ChoiceWalks
<1>2. ASSUME NEW stale \in BOOLEAN, NEW n \in TheDirectory!Pages, TheDirectory!Step(n, stale) PROVE DirectoryInv'
  <2>1. TheDirectory!Choose(f, n, search, seen, stale) /\ narrow' = narrow /\ TheDirectory!Answered /\ ~ search
        /\ (n = p + 1 \/ n = p - 1)
    BY <1>2 DEF TheDirectory!Step, TheDirectory!HasPager
  <2>2. f \in TheDirectory!Filters /\ search \in BOOLEAN /\ (directoryView # "agents" => narrow' = "no" /\ ~ search)
        /\ p \in Nat
    BY <2>1 DEF DirectoryInv, DirectoryTyped, TheDirectory!DirectoryAssumption, TheDirectory!Pages
  <2>3. changes = 0 => \A m \in 1 .. n - 1 : TheDirectory!PageOf(f, m) \subseteq seen
    <3>1. \A m \in 1 .. n - 1 : m \in 1 .. p - 1 \/ m = p
      BY <2>1, <2>2
    <3> QED
      BY <2>1, <3>1 DEF DirectoryInv, Walked
  <2> QED
    BY <2>1, <2>2, <2>3, ChoiceWalks
<1>3. ASSUME NEW stale \in BOOLEAN, TheDirectory!handleSearchChange(stale) PROVE DirectoryInv'
  <2>1. TheDirectory!Choose(f, 1, ~ search, {}, stale) /\ narrow' = narrow /\ directoryView = "agents"
    BY <1>3 DEF TheDirectory!handleSearchChange
  <2> DEFINE s == ~ search
  <2>2. 1 \in TheDirectory!Pages /\ s \in BOOLEAN /\ f \in TheDirectory!Filters
    BY DEF DirectoryInv, DirectoryTyped, TheDirectory!DirectoryAssumption, TheDirectory!Pages
  <2>3. TheDirectory!Choose(f, 1, s, {}, stale)
    BY <2>1
  <2>4. \A m \in 1 .. 1 - 1 : FALSE
    OBVIOUS
  <2> HIDE DEF s
  <2> QED
    BY <2>1, <2>2, <2>3, <2>4, ChoiceWalks
<1>4. ASSUME NEW stale \in BOOLEAN, NEW to \in {"no", "credits", "type"}, TheDirectory!Narrow(to, stale) PROVE DirectoryInv'
  <2>1. TheDirectory!Choose(f, IF "type" \in {to, narrow} THEN p ELSE 1, search,
                            IF "type" \in {to, narrow} THEN seen ELSE {}, stale) /\ directoryView = "agents"
    BY <1>4 DEF TheDirectory!Narrow
  <2>2. 1 \in TheDirectory!Pages /\ p \in TheDirectory!Pages /\ search \in BOOLEAN /\ f \in TheDirectory!Filters
        /\ (search => p = 1)
    BY DEF DirectoryInv, DirectoryTyped, TheDirectory!DirectoryAssumption, TheDirectory!Pages
  <2>3. changes = 0 /\ ~ search => \A m \in 1 .. p - 1 : TheDirectory!PageOf(f, m) \subseteq seen
    BY DEF DirectoryInv, Walked
  <2>4. CASE "type" \in {to, narrow}
    BY <2>1, <2>2, <2>3, <2>4, ChoiceWalks
  <2>5. CASE "type" \notin {to, narrow}
    BY <2>1, <2>2, <2>5, ChoiceWalks
  <2> QED
    BY <2>4, <2>5
<1>5. ASSUME NEW q \in asked, TheDirectory!Answer(q) PROVE DirectoryInv'
  <2>1. /\ directoryCache' = [directoryCache EXCEPT ![q] = TheDirectory!list_agents(q)]
        /\ seen' = IF q = TheDirectory!Question THEN seen \cup TheDirectory!list_agents(q).rows ELSE seen
        /\ directoryView' = directoryView /\ kind' = kind /\ f' = f /\ p' = p /\ search' = search
        /\ narrow' = narrow /\ changes' = changes
    BY <1>5 DEF TheDirectory!Answer, TheDirectory!choice
  <2>2. DirectoryTyped'
    BY <2>1 DEF DirectoryInv, DirectoryTyped
  <2>3. ASSUME changes = 0 PROVE Kept'
    <3>1. \A r \in TheDirectory!Questions : directoryCache'[r] \in {directoryCache[r], TheDirectory!list_agents(r)}
      BY <2>1 DEF DirectoryInv, DirectoryTyped
    <3> QED
      BY <2>1, <2>3, <3>1, ListedIsOfKind DEF DirectoryInv, Kept, TheDirectory!NoAnswer
  <2>4. ASSUME changes = 0, ~ search PROVE Walked'
    <3>1. TheDirectory!Question' = TheDirectory!Question
      BY <2>1 DEF TheDirectory!Question
    <3>2. \A m : TheDirectory!PageOf(f, m)' = TheDirectory!PageOf(f, m)
      <4>1. \A g, m : TheDirectory!PageOf(g, m)' = TheDirectory!PageOf(g, m)
        BY <2>1, ListedIsOfKind
      <4> QED
        BY <2>1 DEF TheDirectory!PageOf, TheDirectory!Matching
    <3>3. CASE q = TheDirectory!Question
      <4>1. q.f = f /\ q.p = p /\ q.search = FALSE
        BY <2>4, <3>3 DEF TheDirectory!Question
      <4>2. TheDirectory!list_agents(q).rows = TheDirectory!PageOf(f, p)
        BY <4>1 DEF TheDirectory!list_agents
      <4> QED
        BY <2>1, <2>4, <3>2, <3>3, <4>2 DEF DirectoryInv, Walked
    <3>4. CASE q # TheDirectory!Question
      <4>1. TheDirectory!Question \in TheDirectory!Questions
        BY <2>4 DEF DirectoryInv, DirectoryTyped, TheDirectory!Question, TheDirectory!Questions
      <4>2. directoryCache'[TheDirectory!Question] = directoryCache[TheDirectory!Question]
        BY <2>1, <3>4, <4>1 DEF DirectoryInv, DirectoryTyped
      <4>3. TheDirectory!Answered' <=> TheDirectory!Answered
        BY <3>1, <4>2 DEF TheDirectory!Answered, TheDirectory!NoAnswer
      <4> QED
        BY <2>1, <2>4, <3>2, <3>4, <4>3 DEF DirectoryInv, Walked
    <3> QED
      BY <3>3, <3>4
  <2>5. ASSUME search PROVE Walked'
    BY <2>1, <2>5 DEF Walked
  <2> QED
    BY <2>1, <2>2, <2>3, <2>4, <2>5 DEF DirectoryInv, DirectoryTyped
<1>6. ASSUME NEW q \in asked, TheDirectory!Fail(q) PROVE DirectoryInv'
  <2>1. /\ directoryView' = directoryView /\ kind' = kind /\ f' = f /\ p' = p /\ search' = search
        /\ narrow' = narrow /\ changes' = changes /\ directoryCache' = directoryCache /\ seen' = seen
    BY <1>6 DEF TheDirectory!Fail, TheDirectory!choice
  <2> QED
    BY <2>1, DirectoryRests
<1>7. ASSUME NEW i, NEW k, TheDirectory!Change(i, k) PROVE DirectoryInv'
  <2>1. /\ directoryView' = directoryView /\ f' = f /\ p' = p /\ search' = search
        /\ narrow' = narrow /\ changes' = changes + 1 /\ directoryCache' = directoryCache
    BY <1>7 DEF TheDirectory!Change, TheDirectory!choice
  <2> QED
    BY <2>1 DEF DirectoryInv, DirectoryTyped
<1> QED
  BY <1>1, <1>2, <1>3, <1>4, <1>5, <1>6, <1>7 DEF TheDirectory!Next

LEMMA NextKeepsDirectory ==
    ASSUME TheDirectory!DirectoryAssumption, DirectoryInv, TheDirectory!Next \/ UNCHANGED directoryVars PROVE DirectoryInv'
<1>1. CASE TheDirectory!Next
  BY <1>1, DirectoryNext
<1>2. CASE UNCHANGED directoryVars
  BY <1>2, DirectoryRests DEF directoryVars
<1> QED
  BY <1>1, <1>2

(* The entries of a finite set of numbers are one for each place in it.    *)
LEMMA Places ==
    ASSUME NEW N \in Nat, NEW M \in SUBSET (1 .. N)
    PROVE  /\ IsFiniteSet(M) /\ Cardinality(M) \in Nat
           /\ \A i \in M : Cardinality({j \in M : j < i}) \in 0 .. Cardinality(M) - 1
           /\ \A k \in 0 .. Cardinality(M) - 1 : \E i \in M : Cardinality({j \in M : j < i}) = k
<1> DEFINE Under(i) == {j \in M : j < i}
           place == [i \in M |-> Cardinality(Under(i))]
           c == Cardinality(M)
<1>1. IsFiniteSet(M) /\ c \in Nat
  <2>1. IsFiniteSet(1 .. N)
    BY FS_Interval
  <2> QED
    BY <2>1, FS_Subset, FS_CardinalityType
<1>2. \A i \in M : IsFiniteSet(Under(i)) /\ Cardinality(Under(i)) \in Nat
  BY <1>1, FS_Subset, FS_CardinalityType
<1>3. ASSUME NEW i \in M PROVE Cardinality(Under(i)) < c
  <2>1. Under(i) \subseteq M /\ Under(i) # M
    OBVIOUS
  <2> HIDE DEF Under
  <2>2. Cardinality(Under(i)) <= c /\ Cardinality(Under(i)) # c
    BY <1>1, <2>1, FS_Subset
  <2> QED
    BY <1>1, <1>2, <2>2
<1>4. ASSUME NEW i \in M, NEW j \in M, i < j PROVE Cardinality(Under(i)) < Cardinality(Under(j))
  <2>1. Under(i) \subseteq Under(j) /\ Under(i) # Under(j)
    <3>1. \A k \in M : k \in Int
      OBVIOUS
    <3>2. i \in Under(j) /\ i \notin Under(i)
      BY <1>4, <3>1
    <3>3. \A k \in Under(i) : k \in Under(j)
      BY <1>4, <3>1
    <3> HIDE DEF Under
    <3> QED
      BY <3>2, <3>3
  <2>2. IsFiniteSet(Under(i)) /\ IsFiniteSet(Under(j)) /\ Cardinality(Under(i)) \in Nat /\ Cardinality(Under(j)) \in Nat
    BY <1>2
  <2> HIDE DEF Under
  <2>3. Cardinality(Under(i)) <= Cardinality(Under(j)) /\ Cardinality(Under(i)) # Cardinality(Under(j))
    BY <2>1, <2>2, FS_Subset
  <2> QED
    BY <2>2, <2>3
<1>5. \A i \in M : Cardinality(Under(i)) \in 0 .. c - 1
  BY <1>1, <1>2, <1>3
<1> HIDE DEF Under, c
<1>6. place \in Injection(M, 0 .. c - 1)
  <2>1. place \in [M -> 0 .. c - 1]
    BY <1>5
  <2>2. ASSUME NEW i \in M, NEW j \in M, place[i] = place[j] PROVE i = j
    <3>1. Cardinality(Under(i)) = Cardinality(Under(j)) /\ Cardinality(Under(i)) \in Nat /\ i \in Int /\ j \in Int
      BY <1>2, <2>2
    <3> QED
      BY <1>4, <3>1
  <2> QED
    BY <2>1, <2>2 DEF Injection, IsInjective
<1>7. IsFiniteSet(0 .. c - 1) /\ Cardinality(0 .. c - 1) = c
  BY <1>1, FS_Interval
<1>8. place \in Surjection(M, 0 .. c - 1)
  BY <1>6, <1>7, FS_Injection DEF c
<1>9. \A k \in 0 .. c - 1 : \E i \in M : place[i] = k
  BY <1>8 DEF Surjection
<1> QED
  BY <1>1, <1>5, <1>9 DEF Under, c

(* A page ends where the next begins.                                      *)
LEMMA PageEnds ==
    /\ \A a \in Nat, b \in Nat \ {0}, k \in Nat : a < k * b => a \div b \in 0 .. k - 1
    /\ \A b \in Nat \ {0}, k \in Nat : (k * b) \div b = k /\ k * b \in Nat
    /\ \A b \in Nat \ {0}, k \in Nat \ {0}, t \in Nat : t <= b \/ t <= (k - 1) * b => t <= k * b
<1>1. \A a \in Nat, b \in Nat \ {0}, k \in Nat : a < k * b => a \div b \in 0 .. k - 1
  OBVIOUS
<1>2. \A b \in Nat \ {0}, k \in Nat : (k * b) \div b = k /\ k * b \in Nat
  OBVIOUS
<1>3. \A b \in Nat \ {0}, k \in Nat \ {0}, t \in Nat : t <= b => t <= k * b
  OBVIOUS
<1>4. \A b \in Nat \ {0}, k \in Nat \ {0}, t \in Nat : t <= (k - 1) * b => t <= k * b
  OBVIOUS
<1> QED
  BY <1>1, <1>2, <1>3, <1>4

(* Where Next ends every entry was shown.                                  *)
LEMMA DirectoryShows ==
    ASSUME TheDirectory!DirectoryAssumption, DirectoryInv PROVE TheDirectory!EndIsReached
<1> SUFFICES ASSUME changes = 0, TheDirectory!Answered, ~ search,
                    ~ (TheDirectory!HasPager /\ TheDirectory!HasMore),
                    NEW i \in TheDirectory!Matching(f)
             PROVE  i \in seen
  BY DEF TheDirectory!EndIsReached
<1> DEFINE M == TheDirectory!Matching(f)
           c == Cardinality(M)
           Rank(j) == Cardinality({x \in M : x < j})
<1>1. Listings \in Nat /\ PerPage \in Nat \ {0} /\ p \in Nat \ {0} /\ M \in SUBSET (1 .. Listings)
  BY DEF TheDirectory!DirectoryAssumption, DirectoryInv, DirectoryTyped, TheDirectory!Pages, TheDirectory!Matching,
         TheDirectory!Entries
<1>2. \A S : TheDirectory!Cardinality(S) = Cardinality(S)
  BY DEF TheDirectory!Cardinality, Cardinality
<1> HIDE DEF M
<1>3. c \in Nat /\ (\A j \in M : Rank(j) \in 0 .. c - 1) /\ \A k \in 0 .. c - 1 : \E j \in M : Rank(j) = k
  BY <1>1, Places
<1>4. ASSUME NEW n PROVE TheDirectory!PageOf(f, n) = {j \in M : Rank(j) \div PerPage = n - 1}
  BY <1>2 DEF TheDirectory!PageOf, M
<1> HIDE DEF Rank, c
<1>5. c <= p * PerPage
  <2>1. TheDirectory!Question = [f |-> f, p |-> p, search |-> FALSE] /\ TheDirectory!Question \in TheDirectory!Questions
    BY DEF DirectoryInv, DirectoryTyped, TheDirectory!Question, TheDirectory!Questions
  <2>2. /\ directoryCache[TheDirectory!Question].total = c
        /\ directoryCache[TheDirectory!Question].rows = TheDirectory!PageOf(f, p)
    <3>1. directoryCache[TheDirectory!Question] = TheDirectory!list_agents(TheDirectory!Question)
      BY <2>1 DEF DirectoryInv, Kept, TheDirectory!Answered
    <3> QED
      BY <1>2, <2>1, <3>1 DEF TheDirectory!list_agents, c, M
  <2>3. CASE ~ TheDirectory!HasMore
    BY <1>1, <1>3, <2>2, <2>3 DEF TheDirectory!HasMore
  <2>4. CASE ~ (c > PerPage)
    BY <1>1, <1>3, <2>4, PageEnds
  <2>5. CASE directoryView # "agents" /\ TheDirectory!Rows = {}
    <3>1. TheDirectory!PageOf(f, p) = {}
      BY <2>2, <2>5 DEF DirectoryInv, DirectoryTyped, TheDirectory!Rows, TheDirectory!Passes
    <3>2. ASSUME c > (p - 1) * PerPage PROVE FALSE
      <4>1. (p - 1) * PerPage \in 0 .. c - 1 /\ ((p - 1) * PerPage) \div PerPage = p - 1
        BY <1>1, <1>3, <3>2, PageEnds
      <4>2. PICK j \in M : Rank(j) = (p - 1) * PerPage
        BY <1>3, <4>1
      <4> QED
        BY <1>4, <3>1, <4>1, <4>2
    <3>3. (p - 1) * PerPage \in Nat
      BY <1>1, PageEnds
    <3> QED
      BY <1>1, <1>3, <3>2, <3>3, PageEnds
  <2> QED
    BY <2>2, <2>3, <2>4, <2>5 DEF TheDirectory!HasPager
<1>6. Rank(i) \in Nat /\ Rank(i) < p * PerPage
  <2>1. Rank(i) \in 0 .. c - 1
    BY <1>3 DEF M
  <2>2. p * PerPage \in Nat
    BY <1>1, PageEnds
  <2> QED
    BY <1>3, <1>5, <2>1, <2>2
<1> DEFINE n == (Rank(i) \div PerPage) + 1
<1>7. n \in 1 .. p /\ Rank(i) \div PerPage = n - 1
  <2> DEFINE r == Rank(i)
             d == r \div PerPage
  <2>1. r \in Nat /\ r < p * PerPage
    BY <1>6
  <2> HIDE DEF r
  <2>2. d \in 0 .. p - 1
    BY <1>1, <2>1, PageEnds
  <2> HIDE DEF d
  <2>3. d + 1 \in 1 .. p /\ d = (d + 1) - 1
    BY <1>1, <2>2
  <2> QED
    BY <2>3 DEF d, r
<1> HIDE DEF n
<1>8. i \in TheDirectory!PageOf(f, n)
  BY <1>4, <1>7 DEF M
<1>9. n \in 1 .. p - 1 \/ n = p
  BY <1>1, <1>7
<1> QED
  BY <1>8, <1>9 DEF DirectoryInv, Walked

-----------------------------------------------------------------------------
(***************************************************************************)
(* The planner, with what else is of it: a plan is asked for, approved and *)
(* run with a goal that was typed.                                         *)
(***************************************************************************)

Named ==
    /\ plan # NoName => goal \in Goals
    /\ \A b \in Plans : plannerRequest[b].at # "none" => goal \in Goals
    /\ \A b \in Plans : act[b].at # "none" => act[b].goal \in Goals
    /\ ran \in SUBSET [plan : Plans, message : Goals]

PlannerShown ==
    /\ plannerView \in {"new", "list", "left"} /\ pattern \in {"none", "form", "supervisor"}
    /\ state \in [Plans -> {"none", "draft", "approved"}]
    /\ plannerCreate \in {"none", "sent", "answered", "going"}
    /\ linked \in BOOLEAN /\ plannerToggling \in SUBSET Items /\ plannerTarget \in Items \cup {NoName}
    /\ deleting \in [of : Items \cup {NoName}, at : {"none", "sent", "answered", "fetch"}]
    /\ plannerPast \in SUBSET {"typed", "back", "reopened", "loaded"}

PlannerCounts == plannerClicks \in 0 .. MaxClicks["planner"] /\ plannerFaults \in 0 .. MaxFaults

PlannerTyped == GoalInv /\ DraftInv /\ Named /\ PlannerShown /\ PlannerCounts

LEMMA PlannerIsTyped == PlannerTyped => ThePlanner!TypeOK
<1> SUFFICES ASSUME PlannerTyped PROVE ThePlanner!TypeOK
  OBVIOUS
<1>1. goal \in Goals \cup {NoName} /\ plan \in Plans \cup {NoName}
      /\ plannerRequest \in [Plans -> PlanRequest] /\ act \in [Plans -> PlanAct]
  BY DEF PlannerTyped, GoalInv, PlanTypes
<1>2. ListTyped /\ sheet \in [asked : BOOLEAN, typed : BOOLEAN]
  BY DEF PlannerTyped, DraftInv
<1> QED
  BY <1>1, <1>2 DEF PlannerTyped, Named, PlannerShown, PlannerCounts, PlanRequest, PlanAct, ListTyped,
       ThePlanner!TypeOK, ThePlanner!CallStates

LEMMA PlannerCount ==
    ASSUME ThePlanner!PlannerAssumption
    PROVE  /\ ThePlanner!Click /\ plannerClicks \in 0 .. MaxClicks["planner"] => plannerClicks' \in 0 .. MaxClicks["planner"]
           /\ ThePlanner!Fault /\ plannerFaults \in 0 .. MaxFaults => plannerFaults' \in 0 .. MaxFaults
           /\ 0 \in 0 .. MaxClicks["planner"] /\ 0 \in 0 .. MaxFaults
  BY DEF ThePlanner!PlannerAssumption, ThePlanner!Click, ThePlanner!Fault

LEMMA PlannerStartsTyped == ASSUME ThePlanner!PlannerAssumption, ThePlanner!Init PROVE PlannerTyped
<1>1. GoalInv /\ DraftInv
  BY InitGoal, InitDraft
<1>2. Named
  BY DEF ThePlanner!Init, Named, ThePlanner!NoRequest, ThePlanner!NoAct
<1>3. PlannerShown
  BY DEF ThePlanner!Init, PlannerShown
<1>4. PlannerCounts
  BY PlannerCount DEF ThePlanner!Init, PlannerCounts
<1> QED
  BY <1>1, <1>2, <1>3, <1>4 DEF PlannerTyped

LEMMA PlannerStaysTyped ==
    ASSUME ThePlanner!PlannerAssumption, PlannerTyped, ThePlanner!Next PROVE PlannerTyped'
<1>0. /\ GoalInv /\ GoalInv' /\ DraftInv /\ DraftInv' /\ Named /\ PlannerShown /\ PlannerCounts
      /\ plannerRequest \in [Plans -> PlanRequest] /\ act \in [Plans -> PlanAct] /\ goal \in Goals \cup {NoName}
      /\ NoName \notin Goals /\ NoName \notin Plans /\ plan \in Plans \cup {NoName}
  BY NextKeepsGoal, DraftNext DEF PlannerTyped, GoalInv, PlanTypes, ThePlanner!PlannerAssumption
<1>1. ASSUME NEW x \in {"form", "supervisor"}, ThePlanner!ChoosePattern(x) PROVE Named' /\ PlannerShown' /\ PlannerCounts'
  <2>1. Named'
    BY <1>0, <1>1 DEF ThePlanner!ChoosePattern, ThePlanner!lists, ThePlanner!planner, Named, PlanRequest, PlanAct
  <2>2. PlannerShown'
    BY <1>0, <1>1 DEF ThePlanner!ChoosePattern, ThePlanner!lists, ThePlanner!planner, PlannerShown
  <2>3. PlannerCounts'
    BY <1>0, <1>1, PlannerCount DEF ThePlanner!ChoosePattern, PlannerCounts
  <2> QED
    BY <2>1, <2>2, <2>3
<1>2. ASSUME ThePlanner!Create PROVE Named' /\ PlannerShown' /\ PlannerCounts'
  <2>1. Named'
    BY <1>0, <1>2 DEF ThePlanner!Create, ThePlanner!lists, ThePlanner!planner, Named
  <2>2. PlannerShown'
    BY <1>0, <1>2 DEF ThePlanner!Create, ThePlanner!lists, ThePlanner!planner, PlannerShown
  <2>3. PlannerCounts'
    BY <1>0, <1>2, PlannerCount DEF ThePlanner!Create, PlannerCounts
  <2> QED
    BY <2>1, <2>2, <2>3
<1>3. ASSUME ThePlanner!HearCreate PROVE Named' /\ PlannerShown' /\ PlannerCounts'
  <2>1. Named'
    BY <1>0, <1>3 DEF ThePlanner!HearCreate, ThePlanner!lists, ThePlanner!planner, Named
  <2>2. PlannerShown'
    BY <1>0, <1>3 DEF ThePlanner!HearCreate, ThePlanner!lists, ThePlanner!planner, PlannerShown
  <2>3. PlannerCounts'
    BY <1>0, <1>3, PlannerCount DEF ThePlanner!HearCreate, PlannerCounts
  <2> QED
    BY <2>1, <2>2, <2>3
<1>4. ASSUME ThePlanner!BackToPatterns PROVE Named' /\ PlannerShown' /\ PlannerCounts'
  <2>1. Named'
    BY <1>0, <1>4 DEF ThePlanner!BackToPatterns, ThePlanner!Disown, ThePlanner!lists, ThePlanner!planner, Named, PlanRequest, PlanAct
  <2>2. PlannerShown'
    BY <1>0, <1>4 DEF ThePlanner!BackToPatterns, ThePlanner!Disown, ThePlanner!lists, ThePlanner!planner, PlannerShown
  <2>3. PlannerCounts'
    BY <1>0, <1>4, PlannerCount DEF ThePlanner!BackToPatterns, ThePlanner!Disown, PlannerCounts
  <2> QED
    BY <2>1, <2>2, <2>3
<1>5. ASSUME ThePlanner!GoToWorkflow PROVE Named' /\ PlannerShown' /\ PlannerCounts'
  <2>1. Named'
    BY <1>0, <1>5 DEF ThePlanner!GoToWorkflow, ThePlanner!LeavePage, ThePlanner!lists, ThePlanner!planner, Named
  <2>2. PlannerShown'
    BY <1>0, <1>5 DEF ThePlanner!GoToWorkflow, ThePlanner!LeavePage, ThePlanner!lists, ThePlanner!planner, PlannerShown
  <2>3. PlannerCounts'
    BY <1>0, <1>5, PlannerCount DEF ThePlanner!GoToWorkflow, ThePlanner!LeavePage, PlannerCounts
  <2> QED
    BY <2>1, <2>2, <2>3
<1>6. ASSUME NEW g \in Goals, ThePlanner!TypeGoal(g) PROVE Named' /\ PlannerShown' /\ PlannerCounts'
  <2>1. Named'
    BY <1>0, <1>6 DEF ThePlanner!TypeGoal, ThePlanner!lists, ThePlanner!planner, Named, PlanRequest, PlanAct
  <2>2. PlannerShown'
    BY <1>0, <1>6 DEF ThePlanner!TypeGoal, ThePlanner!lists, ThePlanner!planner, PlannerShown
  <2>3. PlannerCounts'
    BY <1>0, <1>6, PlannerCount DEF ThePlanner!TypeGoal, PlannerCounts
  <2> QED
    BY <2>1, <2>2, <2>3
<1>7. ASSUME NEW b \in Plans, ThePlanner!Generate(b) PROVE Named' /\ PlannerShown' /\ PlannerCounts'
  <2>1. Named'
    BY <1>0, <1>7 DEF ThePlanner!Generate, ThePlanner!Ask, ThePlanner!lists, ThePlanner!planner, Named, PlanRequest, PlanAct
  <2>2. PlannerShown'
    BY <1>0, <1>7 DEF ThePlanner!Generate, ThePlanner!Ask, ThePlanner!lists, ThePlanner!planner, PlannerShown
  <2>3. PlannerCounts'
    BY <1>0, <1>7, PlannerCount DEF ThePlanner!Generate, ThePlanner!Ask, PlannerCounts
  <2> QED
    BY <2>1, <2>2, <2>3
<1>8. ASSUME NEW b \in Plans, ThePlanner!Regenerate(b) PROVE Named' /\ PlannerShown' /\ PlannerCounts'
  <2>1. Named'
    BY <1>0, <1>8 DEF ThePlanner!Regenerate, ThePlanner!Ask, ThePlanner!Displayed, ThePlanner!lists, ThePlanner!planner, Named, PlanRequest, PlanAct
  <2>2. PlannerShown'
    BY <1>0, <1>8 DEF ThePlanner!Regenerate, ThePlanner!Ask, ThePlanner!Displayed, ThePlanner!lists, ThePlanner!planner, PlannerShown
  <2>3. PlannerCounts'
    BY <1>0, <1>8, PlannerCount DEF ThePlanner!Regenerate, ThePlanner!Ask, ThePlanner!Displayed, PlannerCounts
  <2> QED
    BY <2>1, <2>2, <2>3
<1>9. ASSUME NEW b \in Plans, ThePlanner!ServePlan(b) PROVE Named' /\ PlannerShown' /\ PlannerCounts'
  <2>1. Named'
    BY <1>0, <1>9 DEF ThePlanner!ServePlan, ThePlanner!lists, ThePlanner!planner, Named, PlanRequest, PlanAct
  <2>2. PlannerShown'
    BY <1>0, <1>9 DEF ThePlanner!ServePlan, ThePlanner!lists, ThePlanner!planner, PlannerShown
  <2>3. PlannerCounts'
    BY <1>0, <1>9, PlannerCount DEF ThePlanner!ServePlan, PlannerCounts
  <2> QED
    BY <2>1, <2>2, <2>3
<1>10. ASSUME NEW b \in Plans, ThePlanner!HearPlan(b) PROVE Named' /\ PlannerShown' /\ PlannerCounts'
  <2>1. Named'
    BY <1>0, <1>10 DEF ThePlanner!HearPlan, ThePlanner!lists, ThePlanner!planner, Named, PlanRequest, PlanAct
  <2>2. PlannerShown'
    BY <1>0, <1>10 DEF ThePlanner!HearPlan, ThePlanner!lists, ThePlanner!planner, PlannerShown
  <2>3. PlannerCounts'
    BY <1>0, <1>10, PlannerCount DEF ThePlanner!HearPlan, PlannerCounts
  <2> QED
    BY <2>1, <2>2, <2>3
<1>11. ASSUME NEW b \in Plans, ThePlanner!ServeApprove(b) PROVE Named' /\ PlannerShown' /\ PlannerCounts'
  <2>1. Named'
    <3>1. PICK at \in {"approved", "refused"} : act' = [act EXCEPT ![b].at = at]
      BY <1>11 DEF ThePlanner!ServeApprove
    <3>2. act[b].at # "none" /\ plan' = plan /\ goal' = goal /\ plannerRequest' = plannerRequest /\ ran' = ran
      BY <1>11 DEF ThePlanner!ServeApprove
    <3>3. \A d \in Plans : act'[d].goal = act[d].goal /\ (act'[d].at # "none" => act[d].at # "none")
      BY <1>0, <3>1, <3>2 DEF PlanAct
    <3> QED
      BY <1>0, <3>2, <3>3 DEF Named
  <2>2. PlannerShown'
    BY <1>0, <1>11 DEF ThePlanner!ServeApprove, ThePlanner!lists, ThePlanner!planner, PlannerShown
  <2>3. PlannerCounts'
    BY <1>0, <1>11, PlannerCount DEF ThePlanner!ServeApprove, PlannerCounts
  <2> QED
    BY <2>1, <2>2, <2>3
<1>12. ASSUME NEW b \in Plans, ThePlanner!HearApprove(b) PROVE Named' /\ PlannerShown' /\ PlannerCounts'
  <2>1. Named'
    BY <1>0, <1>12 DEF ThePlanner!HearApprove, ThePlanner!LeavePage, ThePlanner!NoAct, ThePlanner!lists, ThePlanner!planner, Named, PlanRequest, PlanAct
  <2>2. PlannerShown'
    BY <1>0, <1>12 DEF ThePlanner!HearApprove, ThePlanner!LeavePage, ThePlanner!NoAct, ThePlanner!lists, ThePlanner!planner, PlannerShown
  <2>3. PlannerCounts'
    BY <1>0, <1>12, PlannerCount DEF ThePlanner!HearApprove, ThePlanner!LeavePage, ThePlanner!NoAct, PlannerCounts
  <2> QED
    BY <2>1, <2>2, <2>3
<1>13. ASSUME NEW b \in Plans, ThePlanner!ServeRun(b) PROVE Named' /\ PlannerShown' /\ PlannerCounts'
  <2>1. Named'
    BY <1>0, <1>13 DEF ThePlanner!ServeRun, ThePlanner!NoAct, ThePlanner!lists, ThePlanner!planner, Named, PlanRequest, PlanAct
  <2>2. PlannerShown'
    BY <1>0, <1>13 DEF ThePlanner!ServeRun, ThePlanner!NoAct, ThePlanner!lists, ThePlanner!planner, PlannerShown
  <2>3. PlannerCounts'
    BY <1>0, <1>13, PlannerCount DEF ThePlanner!ServeRun, ThePlanner!NoAct, PlannerCounts
  <2> QED
    BY <2>1, <2>2, <2>3
<1>14. ASSUME NEW r \in BOOLEAN, ThePlanner!Approve(r) PROVE Named' /\ PlannerShown' /\ PlannerCounts'
  <2>1. Named'
    BY <1>0, <1>14 DEF ThePlanner!Approve, ThePlanner!Displayed, ThePlanner!lists, ThePlanner!planner, Named, PlanRequest, PlanAct
  <2>2. PlannerShown'
    BY <1>0, <1>14 DEF ThePlanner!Approve, ThePlanner!Displayed, ThePlanner!lists, ThePlanner!planner, PlannerShown
  <2>3. PlannerCounts'
    BY <1>0, <1>14, PlannerCount DEF ThePlanner!Approve, ThePlanner!Displayed, PlannerCounts
  <2> QED
    BY <2>1, <2>2, <2>3
<1>15. ASSUME ThePlanner!HearList PROVE Named' /\ PlannerShown' /\ PlannerCounts'
  <2>1. Named'
    BY <1>0, <1>15 DEF ThePlanner!HearList, ThePlanner!lists, ThePlanner!planner, Named
  <2>2. PlannerShown'
    BY <1>0, <1>15 DEF ThePlanner!HearList, ThePlanner!lists, ThePlanner!planner, PlannerShown
  <2>3. PlannerCounts'
    BY <1>0, <1>15, PlannerCount DEF ThePlanner!HearList, PlannerCounts
  <2> QED
    BY <2>1, <2>2, <2>3
<1>16. ASSUME ThePlanner!OpenSheet PROVE Named' /\ PlannerShown' /\ PlannerCounts'
  <2>1. Named'
    BY <1>0, <1>16 DEF ThePlanner!OpenSheet, ThePlanner!lists, ThePlanner!planner, Named
  <2>2. PlannerShown'
    BY <1>0, <1>16 DEF ThePlanner!OpenSheet, ThePlanner!lists, ThePlanner!planner, PlannerShown
  <2>3. PlannerCounts'
    BY <1>0, <1>16, PlannerCount DEF ThePlanner!OpenSheet, PlannerCounts
  <2> QED
    BY <2>1, <2>2, <2>3
<1>17. ASSUME ThePlanner!TypeSchedule PROVE Named' /\ PlannerShown' /\ PlannerCounts'
  <2>1. Named'
    BY <1>0, <1>17 DEF ThePlanner!TypeSchedule, ThePlanner!lists, ThePlanner!planner, Named
  <2>2. PlannerShown'
    BY <1>0, <1>17 DEF ThePlanner!TypeSchedule, ThePlanner!lists, ThePlanner!planner, PlannerShown
  <2>3. PlannerCounts'
    BY <1>0, <1>17, PlannerCount DEF ThePlanner!TypeSchedule, PlannerCounts
  <2> QED
    BY <2>1, <2>2, <2>3
<1>18. ASSUME ThePlanner!CloseSheet PROVE Named' /\ PlannerShown' /\ PlannerCounts'
  <2>1. Named'
    BY <1>0, <1>18 DEF ThePlanner!CloseSheet, ThePlanner!lists, ThePlanner!planner, Named
  <2>2. PlannerShown'
    BY <1>0, <1>18 DEF ThePlanner!CloseSheet, ThePlanner!lists, ThePlanner!planner, PlannerShown
  <2>3. PlannerCounts'
    BY <1>0, <1>18, PlannerCount DEF ThePlanner!CloseSheet, PlannerCounts
  <2> QED
    BY <2>1, <2>2, <2>3
<1>19. ASSUME ThePlanner!KeepItem PROVE Named' /\ PlannerShown' /\ PlannerCounts'
  <2>1. Named'
    BY <1>0, <1>19 DEF ThePlanner!KeepItem, ThePlanner!lists, ThePlanner!planner, Named
  <2>2. PlannerShown'
    BY <1>0, <1>19 DEF ThePlanner!KeepItem, ThePlanner!lists, ThePlanner!planner, PlannerShown
  <2>3. PlannerCounts'
    BY <1>0, <1>19, PlannerCount DEF ThePlanner!KeepItem, PlannerCounts
  <2> QED
    BY <2>1, <2>2, <2>3
<1>20. ASSUME ThePlanner!Delete PROVE Named' /\ PlannerShown' /\ PlannerCounts'
  <2>1. Named'
    BY <1>0, <1>20 DEF ThePlanner!Delete, ThePlanner!lists, ThePlanner!planner, Named
  <2>2. PlannerShown'
    BY <1>0, <1>20 DEF ThePlanner!Delete, ThePlanner!lists, ThePlanner!planner, PlannerShown
  <2>3. PlannerCounts'
    BY <1>0, <1>20, PlannerCount DEF ThePlanner!Delete, PlannerCounts
  <2> QED
    BY <2>1, <2>2, <2>3
<1>21. ASSUME ThePlanner!ServeDelete PROVE Named' /\ PlannerShown' /\ PlannerCounts'
  <2>1. Named'
    BY <1>0, <1>21 DEF ThePlanner!ServeDelete, ThePlanner!lists, ThePlanner!planner, Named
  <2>2. PlannerShown'
    BY <1>0, <1>21 DEF ThePlanner!ServeDelete, ThePlanner!lists, ThePlanner!planner, PlannerShown
  <2>3. PlannerCounts'
    BY <1>0, <1>21, PlannerCount DEF ThePlanner!ServeDelete, PlannerCounts
  <2> QED
    BY <2>1, <2>2, <2>3
<1>22. ASSUME ThePlanner!HearDelete PROVE Named' /\ PlannerShown' /\ PlannerCounts'
  <2>1. Named'
    BY <1>0, <1>22 DEF ThePlanner!HearDelete, ThePlanner!lists, ThePlanner!planner, Named
  <2>2. PlannerShown'
    BY <1>0, <1>22 DEF ThePlanner!HearDelete, ThePlanner!lists, ThePlanner!planner, PlannerShown
  <2>3. PlannerCounts'
    BY <1>0, <1>22, PlannerCount DEF ThePlanner!HearDelete, PlannerCounts
  <2> QED
    BY <2>1, <2>2, <2>3
<1>23. ASSUME NEW i \in Items, ThePlanner!CreateSchedule(i) PROVE Named' /\ PlannerShown' /\ PlannerCounts'
  <2>1. Named'
    BY <1>0, <1>23 DEF ThePlanner!CreateSchedule, ThePlanner!lists, ThePlanner!planner, Named
  <2>2. PlannerShown'
    BY <1>0, <1>23 DEF ThePlanner!CreateSchedule, ThePlanner!lists, ThePlanner!planner, PlannerShown
  <2>3. PlannerCounts'
    BY <1>0, <1>23, PlannerCount DEF ThePlanner!CreateSchedule, PlannerCounts
  <2> QED
    BY <2>1, <2>2, <2>3
<1>24. ASSUME NEW i \in Items, ThePlanner!ServeSchedule(i) PROVE Named' /\ PlannerShown' /\ PlannerCounts'
  <2>1. Named'
    BY <1>0, <1>24 DEF ThePlanner!ServeSchedule, ThePlanner!lists, ThePlanner!planner, Named
  <2>2. PlannerShown'
    BY <1>0, <1>24 DEF ThePlanner!ServeSchedule, ThePlanner!lists, ThePlanner!planner, PlannerShown
  <2>3. PlannerCounts'
    BY <1>0, <1>24, PlannerCount DEF ThePlanner!ServeSchedule, PlannerCounts
  <2> QED
    BY <2>1, <2>2, <2>3
<1>25. ASSUME NEW i \in Items, ThePlanner!HearSchedule(i) PROVE Named' /\ PlannerShown' /\ PlannerCounts'
  <2>1. Named'
    BY <1>0, <1>25 DEF ThePlanner!HearSchedule, ThePlanner!lists, ThePlanner!planner, Named
  <2>2. PlannerShown'
    BY <1>0, <1>25 DEF ThePlanner!HearSchedule, ThePlanner!lists, ThePlanner!planner, PlannerShown
  <2>3. PlannerCounts'
    BY <1>0, <1>25, PlannerCount DEF ThePlanner!HearSchedule, PlannerCounts
  <2> QED
    BY <2>1, <2>2, <2>3
<1>26. ASSUME NEW i \in Items, ThePlanner!Toggle(i) PROVE Named' /\ PlannerShown' /\ PlannerCounts'
  <2>1. Named'
    BY <1>0, <1>26 DEF ThePlanner!Toggle, ThePlanner!lists, ThePlanner!planner, Named
  <2>2. PlannerShown'
    BY <1>0, <1>26 DEF ThePlanner!Toggle, ThePlanner!lists, ThePlanner!planner, PlannerShown
  <2>3. PlannerCounts'
    BY <1>0, <1>26, PlannerCount DEF ThePlanner!Toggle, PlannerCounts
  <2> QED
    BY <2>1, <2>2, <2>3
<1>27. ASSUME NEW i \in Items, ThePlanner!HearToggle(i) PROVE Named' /\ PlannerShown' /\ PlannerCounts'
  <2>1. Named'
    BY <1>0, <1>27 DEF ThePlanner!HearToggle, ThePlanner!lists, ThePlanner!planner, Named
  <2>2. PlannerShown'
    BY <1>0, <1>27 DEF ThePlanner!HearToggle, ThePlanner!lists, ThePlanner!planner, PlannerShown
  <2>3. PlannerCounts'
    BY <1>0, <1>27, PlannerCount DEF ThePlanner!HearToggle, PlannerCounts
  <2> QED
    BY <2>1, <2>2, <2>3
<1>28. ASSUME NEW i \in Items, ThePlanner!AskToDelete(i) PROVE Named' /\ PlannerShown' /\ PlannerCounts'
  <2>1. Named'
    BY <1>0, <1>28 DEF ThePlanner!AskToDelete, ThePlanner!lists, ThePlanner!planner, Named
  <2>2. PlannerShown'
    BY <1>0, <1>28 DEF ThePlanner!AskToDelete, ThePlanner!lists, ThePlanner!planner, PlannerShown
  <2>3. PlannerCounts'
    BY <1>0, <1>28, PlannerCount DEF ThePlanner!AskToDelete, PlannerCounts
  <2> QED
    BY <2>1, <2>2, <2>3
<1> QED
  BY <1>0, <1>1, <1>2, <1>3, <1>4, <1>5, <1>6, <1>7, <1>8, <1>9, <1>10, <1>11, <1>12, <1>13, <1>14, <1>15, <1>16, <1>17, <1>18, <1>19, <1>20, <1>21, <1>22, <1>23, <1>24, <1>25, <1>26, <1>27, <1>28 DEF ThePlanner!Next, PlannerTyped

-----------------------------------------------------------------------------
(***************************************************************************)
(* The lists, with what else is of them: no answer counts more than there  *)
(* are.                                                                    *)
(***************************************************************************)

Given == [rows : SUBSET TheDirectory!Entries, total : 0 .. Listings + 1]

ListsRest ==
    /\ directoryView \in {"agents", "community"} /\ kind \in [TheDirectory!Entries -> {"x", "y", "gone"}]
    /\ narrow \in {"no", "credits", "type"}
    /\ asked \in SUBSET TheDirectory!Questions /\ seen \in SUBSET TheDirectory!Entries

Answers == directoryCache \in [TheDirectory!Questions -> Given]

ListsCounts == directoryClicks \in 0 .. MaxClicks["directory"] /\ changes \in 0 .. MaxChanges
               /\ directoryFaults \in 0 .. MaxFaults

ListsTyped == DirectoryInv /\ ListsRest /\ Answers /\ ListsCounts

LEMMA ListsAreTyped == ListsTyped => TheDirectory!TypeOK
  BY DEF ListsTyped, DirectoryInv, DirectoryTyped, ListsRest, Answers, Given, ListsCounts, TheDirectory!TypeOK

LEMMA MatchingFits ==
    ASSUME TheDirectory!DirectoryAssumption, NEW g
    PROVE  TheDirectory!Matching(g) \subseteq TheDirectory!Entries
           /\ TheDirectory!Cardinality(TheDirectory!Matching(g)) \in 0 .. Listings + 1
<1> DEFINE M == TheDirectory!Matching(g)
<1>1. Listings \in Nat /\ M \subseteq 1 .. Listings
  BY DEF TheDirectory!DirectoryAssumption, TheDirectory!Matching, TheDirectory!Entries
<1> HIDE DEF M
<1>2. IsFiniteSet(1 .. Listings) /\ Cardinality(1 .. Listings) = Listings
  BY <1>1, FS_Interval
<1>3. Cardinality(M) \in Nat /\ Cardinality(M) <= Listings
  BY <1>1, <1>2, FS_Subset, FS_CardinalityType
<1>4. TheDirectory!Cardinality(M) = Cardinality(M)
  BY DEF TheDirectory!Cardinality, Cardinality
<1>5. Cardinality(M) \in 0 .. Listings + 1
  BY <1>1, <1>3
<1> QED
  BY <1>1, <1>4, <1>5 DEF M, TheDirectory!Entries

LEMMA ListedFits ==
    ASSUME TheDirectory!DirectoryAssumption
    PROVE  TheDirectory!NoAnswer \in Given /\ \A q : TheDirectory!list_agents(q) \in Given
<1>1. Listings + 1 \in 0 .. Listings + 1 /\ 0 \in 0 .. Listings + 1
  BY DEF TheDirectory!DirectoryAssumption
<1>2. TheDirectory!NoAnswer \in Given
  BY <1>1 DEF TheDirectory!NoAnswer, Given
<1>3. ASSUME NEW q PROVE TheDirectory!list_agents(q) \in Given
  <2>1. TheDirectory!PageOf(q.f, q.p) \subseteq TheDirectory!Matching(q.f)
    BY DEF TheDirectory!PageOf
  <2> QED
    BY <1>1, <2>1, MatchingFits DEF TheDirectory!list_agents, Given
<1> QED
  BY <1>2, <1>3

LEMMA ListsNumbers ==
    ASSUME TheDirectory!DirectoryAssumption
    PROVE  /\ MaxFaults \in Nat /\ MaxClicks["directory"] \in Nat /\ MaxChanges \in Nat
           /\ 0 \in 0 .. MaxFaults /\ 0 \in 0 .. MaxClicks["directory"] /\ 0 \in 0 .. MaxChanges
  BY DEF TheDirectory!DirectoryAssumption

LEMMA InitLists == ASSUME TheDirectory!DirectoryAssumption, TheDirectory!Init PROVE ListsTyped
<1>1. DirectoryInv
  BY InitDirectory
<1>2. Answers
  BY ListedFits DEF TheDirectory!Init, Answers
<1>3. ListsCounts
  BY ListsNumbers DEF TheDirectory!Init, ListsCounts
<1>4. TheDirectory!Question \in TheDirectory!Questions
  BY <1>1 DEF DirectoryInv, DirectoryTyped, TheDirectory!Question, TheDirectory!Questions, TheDirectory!Pages, TheDirectory!DirectoryAssumption
<1>5. seen \subseteq TheDirectory!Entries
  BY DEF TheDirectory!Init, TheDirectory!PageOf, TheDirectory!Matching
<1>6. ListsRest
  BY <1>4, <1>5 DEF TheDirectory!Init, ListsRest
<1> QED
  BY <1>1, <1>2, <1>3, <1>6 DEF ListsTyped

\* A choice asks, if at all, a question there is.
LEMMA ChoiceFits ==
    ASSUME TheDirectory!DirectoryAssumption, ListsTyped, DirectoryInv', narrow' \in {"no", "credits", "type"},
           NEW g \in TheDirectory!Filters, NEW n \in TheDirectory!Pages, NEW s \in BOOLEAN,
           NEW base \in SUBSET TheDirectory!Entries, NEW stale, TheDirectory!Choose(g, n, s, base, stale)
    PROVE  ListsTyped'
<1> DEFINE q == [f |-> g, p |-> IF s THEN 1 ELSE n, search |-> s]
<1>1. q \in TheDirectory!Questions
  BY DEF TheDirectory!Questions, TheDirectory!Pages, TheDirectory!DirectoryAssumption
<1>2. /\ asked' = IF directoryCache[q] = TheDirectory!NoAnswer \/ stale THEN asked \cup {q} ELSE asked
      /\ seen' = base \cup directoryCache[q].rows
      /\ directoryView' = directoryView /\ kind' = kind /\ directoryCache' = directoryCache
  BY DEF TheDirectory!Choose
<1>3. ListsCounts'
  <2>1. directoryClicks < MaxClicks["directory"] /\ directoryClicks' = directoryClicks + 1
        /\ changes' = changes /\ directoryFaults' = directoryFaults
    BY DEF TheDirectory!Choose
  <2> QED
    BY <2>1, ListsNumbers DEF ListsTyped, ListsCounts
<1> HIDE DEF q
<1>4. directoryCache[q].rows \in SUBSET TheDirectory!Entries
  BY <1>1 DEF ListsTyped, Answers, Given
<1>5. ListsRest' /\ Answers'
  BY <1>1, <1>2, <1>4 DEF ListsTyped, ListsRest, Answers
<1> QED
  BY <1>3, <1>5 DEF ListsTyped

LEMMA ListsStayTyped ==
    ASSUME TheDirectory!DirectoryAssumption, ListsTyped, TheDirectory!Next PROVE ListsTyped'
<1>0. DirectoryInv /\ DirectoryInv' /\ 1 \in TheDirectory!Pages
  BY DirectoryNext DEF ListsTyped, TheDirectory!Pages, TheDirectory!DirectoryAssumption
<1>1. f \in TheDirectory!Filters /\ p \in TheDirectory!Pages /\ search \in BOOLEAN /\ (~ search) \in BOOLEAN
      /\ narrow \in {"no", "credits", "type"} /\ seen \in SUBSET TheDirectory!Entries /\ {} \in SUBSET TheDirectory!Entries
  BY DEF ListsTyped, DirectoryInv, DirectoryTyped, ListsRest
<1>2. ASSUME NEW stale \in BOOLEAN,
             \/ \E g \in TheDirectory!Filters : TheDirectory!changeFilter(g, stale)
             \/ \E n \in TheDirectory!Pages : TheDirectory!Step(n, stale)
             \/ TheDirectory!handleSearchChange(stale)
             \/ \E to \in {"no", "credits", "type"} : TheDirectory!Narrow(to, stale)
      PROVE  ListsTyped'
  <2>1. ASSUME NEW g \in TheDirectory!Filters, TheDirectory!changeFilter(g, stale) PROVE ListsTyped'
    BY <1>0, <1>1, <2>1, ChoiceFits DEF TheDirectory!changeFilter
  <2>2. ASSUME NEW n \in TheDirectory!Pages, TheDirectory!Step(n, stale) PROVE ListsTyped'
    BY <1>0, <1>1, <2>2, ChoiceFits DEF TheDirectory!Step
  <2>3. CASE TheDirectory!handleSearchChange(stale)
    <3> DEFINE s == ~ search
    <3>1. s \in BOOLEAN /\ TheDirectory!Choose(f, 1, s, {}, stale) /\ narrow' = narrow
      BY <2>3 DEF TheDirectory!handleSearchChange
    <3> HIDE DEF s
    <3> QED
      BY <1>0, <1>1, <3>1, ChoiceFits
  <2>4. ASSUME NEW to \in {"no", "credits", "type"}, TheDirectory!Narrow(to, stale) PROVE ListsTyped'
    <3>1. PICK n \in TheDirectory!Pages, base \in SUBSET TheDirectory!Entries : TheDirectory!Choose(f, n, search, base, stale)
      BY <1>0, <1>1, <2>4 DEF TheDirectory!Narrow
    <3>2. narrow' = to
      BY <2>4 DEF TheDirectory!Narrow
    <3> QED
      BY <1>0, <1>1, <3>1, <3>2, ChoiceFits
  <2> QED
    BY <1>2, <2>1, <2>2, <2>3, <2>4
<1>3. ASSUME NEW q \in asked, TheDirectory!Answer(q) PROVE ListsTyped'
  <2>1. /\ directoryCache' = [directoryCache EXCEPT ![q] = TheDirectory!list_agents(q)] /\ asked' = asked \ {q}
        /\ seen' = IF q = TheDirectory!Question THEN seen \cup TheDirectory!list_agents(q).rows ELSE seen
        /\ directoryView' = directoryView /\ kind' = kind /\ narrow' = narrow
        /\ directoryClicks' = directoryClicks /\ changes' = changes /\ directoryFaults' = directoryFaults
    BY <1>3 DEF TheDirectory!Answer, TheDirectory!choice
  <2>2. TheDirectory!list_agents(q) \in Given
    BY ListedFits
  <2>3. Answers'
    BY <2>1, <2>2 DEF ListsTyped, Answers, Given
  <2>4. ListsRest' /\ ListsCounts'
    BY <2>1, <2>2 DEF ListsTyped, ListsRest, ListsCounts, Given
  <2> QED
    BY <1>0, <2>3, <2>4 DEF ListsTyped
<1>4. ASSUME NEW q \in asked, TheDirectory!Fail(q) PROVE ListsTyped'
  <2>1. /\ directoryCache' = directoryCache /\ asked' = asked \ {q} /\ seen' = seen
        /\ directoryView' = directoryView /\ kind' = kind /\ narrow' = narrow
    BY <1>4 DEF TheDirectory!Fail, TheDirectory!choice
  <2>2. ListsCounts'
    BY <1>4, ListsNumbers DEF TheDirectory!Fail, ListsTyped, ListsCounts
  <2> QED
    BY <1>0, <2>1, <2>2 DEF ListsTyped, ListsRest, Answers
<1>5. ASSUME NEW i \in TheDirectory!Entries, NEW k \in {"x", "y", "gone"}, TheDirectory!Change(i, k) PROVE ListsTyped'
  <2>1. /\ directoryCache' = directoryCache /\ asked' = asked /\ seen' = seen
        /\ directoryView' = directoryView /\ kind' = [kind EXCEPT ![i] = k] /\ narrow' = narrow
    BY <1>5 DEF TheDirectory!Change, TheDirectory!choice
  <2>2. ListsCounts'
    BY <1>5, ListsNumbers DEF TheDirectory!Change, ListsTyped, ListsCounts
  <2> QED
    BY <1>0, <2>1, <2>2 DEF ListsTyped, ListsRest, Answers
<1> QED
  BY <1>2, <1>3, <1>4, <1>5 DEF TheDirectory!Next

-----------------------------------------------------------------------------
(* What an editor closes over was saved, what a sheet closes over is where *)
(* it can be found, and an end that is shown stays (useUpdateWorkflow with *)
(* crew-detail-client.tsx and workflow-form.tsx, workflow-form.tsx with    *)
(* the sheet of a plan, useTaskStream and useTask).                        *)
THEOREM KeepsWorkTheorem == Spec => KeepsWork
<1> DEFINE Inv == /\ section = "editor" => EditInv
                  /\ section = "planner" => DraftInv
                  /\ section = "console" => ConsoleInv
           Step == /\ section = "editor" => TheEditor!ClosingIsOfSave
                   /\ section = "planner" => ThePlanner!KeepsDraft
                   /\ section = "console" => TheTaskConsole!EndIsKept
<1>1. Init => Inv
  BY OpenSections, EditorBounds, InitEdit, InitDraft, TaskConsoleBounds, InitConsole
<1>2. ASSUME Inv, [Next]_vars PROVE Inv'
  <2>1. section' = section
    BY <1>2, OpenSections
  <2>2. CASE section = "editor"
    BY <1>2, <2>1, <2>2, OpenSections, NextKeepsEdit
  <2>3. CASE section = "planner"
    BY <1>2, <2>1, <2>3, OpenSections, NextKeepsDraft
  <2>4. CASE section = "console"
    BY <1>2, <2>1, <2>4, OpenSections, TaskConsoleBounds, NextKeepsConsole
  <2>5. CASE section \notin {"editor", "planner", "console"}
    BY <2>1, <2>5
  <2> QED
    BY <2>2, <2>3, <2>4, <2>5
<1>3. ASSUME Inv, [Next]_vars PROVE [Step]_vars
  <2>1. CASE Next
    <3>1. CASE section = "editor"
      BY <1>3, <2>1, <3>1, OpenSections, ClosesOnSave
    <3>2. CASE section = "planner"
      BY <1>3, <2>1, <3>2, OpenSections, DraftGoes
    <3>3. CASE section = "console"
      BY <1>3, <2>1, <3>3, OpenSections, TaskConsoleBounds, EndIsKeptOnScreen
    <3> QED
      BY <3>1, <3>2, <3>3
  <2> QED
    BY <1>3, <2>1
<1> HIDE DEF Inv
<1>4. Spec => [][Step]_vars
  BY <1>1, <1>2, <1>3, PTL DEF Spec
<1> QED
  BY <1>4 DEF KeepsWork

(* With nothing under way and nothing lost, what is shown is what there    *)
(* is, whatever changes, answers and looks overlapped before (the query    *)
(* caches of admin/agents, dashboard/mcp, the lists and channels-tab.tsx,  *)
(* useActivityFeed, useChannelWizard, useCancelTask, my-submissions).      *)
THEOREM CatchesUpTheorem == Spec => []CatchesUp
<1> DEFINE Inv == /\ section = "feed" => FeedInv
                  /\ section = "wizard" => WizardInv
                  /\ section = "console" => ConsoleInv
                  /\ section = "submissions" => ToldInv
                  /\ section = "admin" => AdminInv
                  /\ section = "servers" => ServersInv
                  /\ section = "directory" => DirectoryInv
                  /\ section = "channels" => PagesInv
<1>1. Init => Inv
  BY OpenSections, ActivityFeedBounds, InitFeed, ChannelWizardBounds, InitWizard, TaskConsoleBounds, InitConsole, InitTold, InitAdmin,
     InitServers, DirectoryBounds, InitDirectory, ChannelPagesBounds, InitPages
<1>2. ASSUME Inv, [Next]_vars PROVE Inv'
  <2>1. section' = section
    BY <1>2, OpenSections
  <2>2. CASE section = "feed"
    BY <1>2, <2>1, <2>2, OpenSections, ActivityFeedBounds, NextKeepsFeed
  <2>3. CASE section = "wizard"
    BY <1>2, <2>1, <2>3, OpenSections, ChannelWizardBounds, NextKeepsWizard
  <2>4. CASE section = "console"
    BY <1>2, <2>1, <2>4, OpenSections, TaskConsoleBounds, NextKeepsConsole
  <2>5. CASE section = "submissions"
    BY <1>2, <2>1, <2>5, OpenSections, NextKeepsTold
  <2>6. CASE section = "admin"
    BY <1>2, <2>1, <2>6, OpenSections, NextKeepsAdmin
  <2>7. CASE section = "servers"
    BY <1>2, <2>1, <2>7, OpenSections, NextKeepsServers
  <2>8. CASE section = "directory"
    BY <1>2, <2>1, <2>8, OpenSections, DirectoryBounds, NextKeepsDirectory
  <2>9. CASE section = "channels"
    BY <1>2, <2>1, <2>9, OpenSections, ChannelPagesBounds, NextKeepsPages
  <2>10. CASE section \notin {"feed", "wizard", "console", "submissions", "admin", "servers", "directory", "channels"}
    BY <2>1, <2>10
  <2> QED
    BY <2>2, <2>3, <2>4, <2>5, <2>6, <2>7, <2>8, <2>9, <2>10
<1>3. Inv => CatchesUp
  BY FeedShows, ChannelWizardBounds, WizardShows, ConsoleShows, ToldShows, AdminShows, ServersShow, DirectoryBounds,
     DirectoryShows, PagesShow DEF CatchesUp
<1> HIDE DEF Inv
<1> QED
  BY <1>1, <1>2, <1>3, PTL DEF Spec

-----------------------------------------------------------------------------
(***************************************************************************)
(* Every section of the client.  The section that is open has its types,   *)
(* the others rest.                                                        *)
(***************************************************************************)

SectionsTyped ==
    /\ section \in Sections
    /\ IF section = "session" THEN SessionInv ELSE SessionOff
    /\ IF section = "console" THEN ConsoleInv ELSE TaskConsoleOff
    /\ IF section = "editor" THEN EditorTyped ELSE EditorOff
    /\ IF section = "planner" THEN PlannerTyped ELSE PlannerOff
    /\ IF section = "box" THEN BoxInv ELSE MagicBoxOff
    /\ IF section = "directory" THEN ListsTyped ELSE DirectoryOff
    /\ IF section = "feed" THEN FeedAllTyped ELSE ActivityFeedOff
    /\ IF section = "community" THEN VotersTyped ELSE CommunityOff
    /\ IF section = "team" THEN TheTeam!TypeOK ELSE TeamOff
    /\ IF section = "wizard" THEN WizardInv ELSE ChannelWizardOff
    /\ IF section = "channels" THEN ChannelsTyped ELSE ChannelPagesOff
    /\ IF section = "submissions" THEN SubmissionsTyped ELSE SubmissionsOff
    /\ IF section = "forms" THEN FormsInv ELSE AgentFormsOff
    /\ IF section = "payouts" THEN PayoutsTyped ELSE PayoutsOff
    /\ IF section = "settings" THEN SettingsTyped ELSE SettingsOff
    /\ IF section = "admin" THEN TablesTyped ELSE AdminTablesOff
    /\ IF section = "servers" THEN ServersAllTyped ELSE ToolServersOff

LEMMA SessionIsTyped == SessionInv => TheSession!TypeOK
  BY DEF SessionInv, SessionRest, FibersFit, Fiber, Persons, TheSession!TypeOK, TheSession!Maybe

(* A section where nothing happens keeps its types.                        *)

LEMMA EditorTypesRest == ASSUME EditorTyped, UNCHANGED editorVars PROVE EditorTyped'
  BY NextKeepsReport DEF EditorTyped, EditorRest, EditorCounts, ReportInv, ReportTyped, editorVars

LEMMA PlannerTypesRest == ASSUME PlannerTyped, UNCHANGED plannerVars PROVE PlannerTyped'
  BY NextKeepsGoal, NextKeepsDraft, PlannerBounds DEF PlannerTyped, Named, PlannerShown, PlannerCounts, plannerVars

LEMMA DirectoryTypesRest == ASSUME ListsTyped, UNCHANGED directoryVars PROVE ListsTyped'
  BY NextKeepsDirectory, DirectoryBounds DEF ListsTyped, ListsRest, Answers, ListsCounts, directoryVars

LEMMA FeedTypesRest == ASSUME FeedAllTyped, UNCHANGED feedVars PROVE FeedAllTyped'
  BY NextKeepsFeed, ActivityFeedBounds DEF FeedAllTyped, FeedRest, Short, FeedCounts, feedVars

LEMMA CommunityTypesRest == ASSUME VotersTyped, UNCHANGED communityVars PROVE VotersTyped'
  BY DEF VotersTyped, TheCommunity!TypeOK, communityVars

LEMMA TeamTypesRest == ASSUME TheTeam!TypeOK, UNCHANGED teamVars PROVE TheTeam!TypeOK'
  BY DEF TheTeam!TypeOK, teamVars

LEMMA ChannelsTypesRest == ASSUME ChannelsTyped, UNCHANGED channelsVars PROVE ChannelsTyped'
  BY DEF ChannelsTyped, ChannelsSaved, ChannelsShown, ChannelsForm, ChannelsToggles, ChannelsChanges, ChannelsRest, ChannelsCounts, channelsVars

LEMMA SubmissionsTypesRest == ASSUME SubmissionsTyped, UNCHANGED submissionsVars PROVE SubmissionsTyped'
  BY NextKeepsMarket DEF SubmissionsTyped, SubmissionsRest, SubmissionsCounts, submissionsVars

LEMMA PayoutsTypesRest == ASSUME PayoutsTyped, UNCHANGED payoutsVars PROVE PayoutsTyped'
  BY DEF PayoutsTyped, PayoutsPage, PayoutsService, PayoutsAccount, PayoutsCounts, payoutsVars

LEMMA SettingsTypesRest == ASSUME SettingsTyped, UNCHANGED settingsVars PROVE SettingsTyped'
  BY DEF SettingsTyped, SettingsCalls, SettingsPage, settingsVars

LEMMA AdminTypesRest == ASSUME TablesTyped, UNCHANGED adminVars PROVE TablesTyped'
  BY SameView DEF TablesTyped, TheAdminTables!TypeOK, adminVars

LEMMA ServersTypesRest == ASSUME ServersAllTyped, UNCHANGED serversVars PROVE ServersAllTyped'
  BY DEF ServersAllTyped, TheToolServers!TypeOK, serversVars

LEMMA SectionsStart ==
    ASSUME Init
    PROVE  /\ section \in Sections
           /\ section = "session" => TheSession!Init
           /\ section # "session" => SessionOff
           /\ section = "console" => TheTaskConsole!Init
           /\ section # "console" => TaskConsoleOff
           /\ section = "editor" => TheEditor!Init
           /\ section # "editor" => EditorOff
           /\ section = "planner" => ThePlanner!Init
           /\ section # "planner" => PlannerOff
           /\ section = "box" => TheMagicBox!Init
           /\ section # "box" => MagicBoxOff
           /\ section = "directory" => TheDirectory!Init
           /\ section # "directory" => DirectoryOff
           /\ section = "feed" => TheActivityFeed!Init
           /\ section # "feed" => ActivityFeedOff
           /\ section = "community" => TheCommunity!Init
           /\ section # "community" => CommunityOff
           /\ section = "team" => TheTeam!Init
           /\ section # "team" => TeamOff
           /\ section = "wizard" => TheChannelWizard!Init
           /\ section # "wizard" => ChannelWizardOff
           /\ section = "channels" => TheChannelPages!Init
           /\ section # "channels" => ChannelPagesOff
           /\ section = "submissions" => TheSubmissions!Init
           /\ section # "submissions" => SubmissionsOff
           /\ section = "forms" => TheAgentForms!Init
           /\ section # "forms" => AgentFormsOff
           /\ section = "payouts" => ThePayouts!Init
           /\ section # "payouts" => PayoutsOff
           /\ section = "settings" => TheSettings!Init
           /\ section # "settings" => SettingsOff
           /\ section = "admin" => TheAdminTables!Init
           /\ section # "admin" => AdminTablesOff
           /\ section = "servers" => TheToolServers!Init
           /\ section # "servers" => ToolServersOff
<1>1. (section = "session" => TheSession!Init) /\ (section # "session" => SessionOff)
  BY DEF Init
<1>2. (section = "console" => TheTaskConsole!Init) /\ (section # "console" => TaskConsoleOff)
  BY DEF Init
<1>3. (section = "editor" => TheEditor!Init) /\ (section # "editor" => EditorOff)
  BY DEF Init
<1>4. (section = "planner" => ThePlanner!Init) /\ (section # "planner" => PlannerOff)
  BY DEF Init
<1>5. (section = "box" => TheMagicBox!Init) /\ (section # "box" => MagicBoxOff)
  BY DEF Init
<1>6. (section = "directory" => TheDirectory!Init) /\ (section # "directory" => DirectoryOff)
  BY DEF Init
<1>7. (section = "feed" => TheActivityFeed!Init) /\ (section # "feed" => ActivityFeedOff)
  BY DEF Init
<1>8. (section = "community" => TheCommunity!Init) /\ (section # "community" => CommunityOff)
  BY DEF Init
<1>9. (section = "team" => TheTeam!Init) /\ (section # "team" => TeamOff)
  BY DEF Init
<1>10. (section = "wizard" => TheChannelWizard!Init) /\ (section # "wizard" => ChannelWizardOff)
  BY DEF Init
<1>11. (section = "channels" => TheChannelPages!Init) /\ (section # "channels" => ChannelPagesOff)
  BY DEF Init
<1>12. (section = "submissions" => TheSubmissions!Init) /\ (section # "submissions" => SubmissionsOff)
  BY DEF Init
<1>13. (section = "forms" => TheAgentForms!Init) /\ (section # "forms" => AgentFormsOff)
  BY DEF Init
<1>14. (section = "payouts" => ThePayouts!Init) /\ (section # "payouts" => PayoutsOff)
  BY DEF Init
<1>15. (section = "settings" => TheSettings!Init) /\ (section # "settings" => SettingsOff)
  BY DEF Init
<1>16. (section = "admin" => TheAdminTables!Init) /\ (section # "admin" => AdminTablesOff)
  BY DEF Init
<1>17. (section = "servers" => TheToolServers!Init) /\ (section # "servers" => ToolServersOff)
  BY DEF Init
<1>18. section \in Sections
  BY DEF Init
<1> QED
  BY <1>1, <1>2, <1>3, <1>4, <1>5, <1>6, <1>7, <1>8, <1>9, <1>10, <1>11, <1>12, <1>13, <1>14, <1>15, <1>16, <1>17, <1>18

LEMMA SectionsGo ==
    ASSUME [Next]_vars
    PROVE  /\ section' = section
           /\ section = "session" => [TheSession!Next]_sessionVars
           /\ section # "session" => UNCHANGED sessionVars
           /\ section = "console" => [TheTaskConsole!Next]_consoleVars
           /\ section # "console" => UNCHANGED consoleVars
           /\ section = "editor" => [TheEditor!Next]_editorVars
           /\ section # "editor" => UNCHANGED editorVars
           /\ section = "planner" => [ThePlanner!Next]_plannerVars
           /\ section # "planner" => UNCHANGED plannerVars
           /\ section = "box" => [TheMagicBox!Next]_boxVars
           /\ section # "box" => UNCHANGED boxVars
           /\ section = "directory" => [TheDirectory!Next]_directoryVars
           /\ section # "directory" => UNCHANGED directoryVars
           /\ section = "feed" => [TheActivityFeed!Next]_feedVars
           /\ section # "feed" => UNCHANGED feedVars
           /\ section = "community" => [TheCommunity!Next]_communityVars
           /\ section # "community" => UNCHANGED communityVars
           /\ section = "team" => [TheTeam!Next]_teamVars
           /\ section # "team" => UNCHANGED teamVars
           /\ section = "wizard" => [TheChannelWizard!Next]_wizardVars
           /\ section # "wizard" => UNCHANGED wizardVars
           /\ section = "channels" => [TheChannelPages!Next]_channelsVars
           /\ section # "channels" => UNCHANGED channelsVars
           /\ section = "submissions" => [TheSubmissions!Next]_submissionsVars
           /\ section # "submissions" => UNCHANGED submissionsVars
           /\ section = "forms" => [TheAgentForms!Next]_formsVars
           /\ section # "forms" => UNCHANGED formsVars
           /\ section = "payouts" => [ThePayouts!Next]_payoutsVars
           /\ section # "payouts" => UNCHANGED payoutsVars
           /\ section = "settings" => [TheSettings!Next]_settingsVars
           /\ section # "settings" => UNCHANGED settingsVars
           /\ section = "admin" => [TheAdminTables!Next]_adminVars
           /\ section # "admin" => UNCHANGED adminVars
           /\ section = "servers" => [TheToolServers!Next]_serversVars
           /\ section # "servers" => UNCHANGED serversVars
<1>1. (section = "session" => [TheSession!Next]_sessionVars) /\ (section # "session" => UNCHANGED sessionVars)
  BY DEF Next, vars
<1>2. (section = "console" => [TheTaskConsole!Next]_consoleVars) /\ (section # "console" => UNCHANGED consoleVars)
  BY DEF Next, vars
<1>3. (section = "editor" => [TheEditor!Next]_editorVars) /\ (section # "editor" => UNCHANGED editorVars)
  BY DEF Next, vars
<1>4. (section = "planner" => [ThePlanner!Next]_plannerVars) /\ (section # "planner" => UNCHANGED plannerVars)
  BY DEF Next, vars
<1>5. (section = "box" => [TheMagicBox!Next]_boxVars) /\ (section # "box" => UNCHANGED boxVars)
  BY DEF Next, vars
<1>6. (section = "directory" => [TheDirectory!Next]_directoryVars) /\ (section # "directory" => UNCHANGED directoryVars)
  BY DEF Next, vars
<1>7. (section = "feed" => [TheActivityFeed!Next]_feedVars) /\ (section # "feed" => UNCHANGED feedVars)
  BY DEF Next, vars
<1>8. (section = "community" => [TheCommunity!Next]_communityVars) /\ (section # "community" => UNCHANGED communityVars)
  BY DEF Next, vars
<1>9. (section = "team" => [TheTeam!Next]_teamVars) /\ (section # "team" => UNCHANGED teamVars)
  BY DEF Next, vars
<1>10. (section = "wizard" => [TheChannelWizard!Next]_wizardVars) /\ (section # "wizard" => UNCHANGED wizardVars)
  BY DEF Next, vars
<1>11. (section = "channels" => [TheChannelPages!Next]_channelsVars) /\ (section # "channels" => UNCHANGED channelsVars)
  BY DEF Next, vars
<1>12. (section = "submissions" => [TheSubmissions!Next]_submissionsVars) /\ (section # "submissions" => UNCHANGED submissionsVars)
  BY DEF Next, vars
<1>13. (section = "forms" => [TheAgentForms!Next]_formsVars) /\ (section # "forms" => UNCHANGED formsVars)
  BY DEF Next, vars
<1>14. (section = "payouts" => [ThePayouts!Next]_payoutsVars) /\ (section # "payouts" => UNCHANGED payoutsVars)
  BY DEF Next, vars
<1>15. (section = "settings" => [TheSettings!Next]_settingsVars) /\ (section # "settings" => UNCHANGED settingsVars)
  BY DEF Next, vars
<1>16. (section = "admin" => [TheAdminTables!Next]_adminVars) /\ (section # "admin" => UNCHANGED adminVars)
  BY DEF Next, vars
<1>17. (section = "servers" => [TheToolServers!Next]_serversVars) /\ (section # "servers" => UNCHANGED serversVars)
  BY DEF Next, vars
<1>18. section' = section
  BY DEF Next, vars
<1> QED
  BY <1>1, <1>2, <1>3, <1>4, <1>5, <1>6, <1>7, <1>8, <1>9, <1>10, <1>11, <1>12, <1>13, <1>14, <1>15, <1>16, <1>17, <1>18

(* The variables of the open section have their types, whatever its pages, *)
(* calls and answers do, and those of the others are off (every component  *)
(* of the client).                                                         *)
THEOREM SectionsAreTyped == ASSUME IsFiniteSet(Requests) PROVE Spec => []TypeOK
<1>1. ASSUME Init PROVE SectionsTyped
  <2>1. IF section = "session" THEN SessionInv ELSE SessionOff
    BY <1>1, SectionsStart, InitSession
  <2>2. IF section = "console" THEN ConsoleInv ELSE TaskConsoleOff
    BY <1>1, SectionsStart, TaskConsoleBounds, InitConsole
  <2>3. IF section = "editor" THEN EditorTyped ELSE EditorOff
    BY <1>1, SectionsStart, EditorBounds, EditorStartsTyped
  <2>4. IF section = "planner" THEN PlannerTyped ELSE PlannerOff
    BY <1>1, SectionsStart, PlannerBounds, PlannerStartsTyped
  <2>5. IF section = "box" THEN BoxInv ELSE MagicBoxOff
    BY <1>1, SectionsStart, MagicBoxBounds, InitBox
  <2>6. IF section = "directory" THEN ListsTyped ELSE DirectoryOff
    BY <1>1, SectionsStart, DirectoryBounds, InitLists
  <2>7. IF section = "feed" THEN FeedAllTyped ELSE ActivityFeedOff
    BY <1>1, SectionsStart, ActivityFeedBounds, InitFeedTypes
  <2>8. IF section = "community" THEN VotersTyped ELSE CommunityOff
    BY <1>1, SectionsStart, CommunityBounds, VotersStartTyped
  <2>9. IF section = "team" THEN TheTeam!TypeOK ELSE TeamOff
    BY <1>1, SectionsStart, TeamBounds, TeamStartsTyped
  <2>10. IF section = "wizard" THEN WizardInv ELSE ChannelWizardOff
    BY <1>1, SectionsStart, ChannelWizardBounds, InitWizard
  <2>11. IF section = "channels" THEN ChannelsTyped ELSE ChannelPagesOff
    BY <1>1, SectionsStart, ChannelPagesBounds, ChannelsStartTyped
  <2>12. IF section = "submissions" THEN SubmissionsTyped ELSE SubmissionsOff
    BY <1>1, SectionsStart, SubmissionsBounds, SubmissionsStartTyped
  <2>13. IF section = "forms" THEN FormsInv ELSE AgentFormsOff
    BY <1>1, SectionsStart, AgentFormsBounds, InitForms
  <2>14. IF section = "payouts" THEN PayoutsTyped ELSE PayoutsOff
    BY <1>1, SectionsStart, PayoutsBounds, PayoutsStartTyped
  <2>15. IF section = "settings" THEN SettingsTyped ELSE SettingsOff
    BY <1>1, SectionsStart, SettingsBounds, InitSettings
  <2>16. IF section = "admin" THEN TablesTyped ELSE AdminTablesOff
    BY <1>1, SectionsStart, AdminTablesBounds, TablesStartTyped
  <2>17. IF section = "servers" THEN ServersAllTyped ELSE ToolServersOff
    BY <1>1, SectionsStart, ToolServersBounds, ServersStartTyped
  <2> QED
    BY <1>1, SectionsStart, <2>1, <2>2, <2>3, <2>4, <2>5, <2>6, <2>7, <2>8, <2>9, <2>10, <2>11, <2>12, <2>13, <2>14, <2>15, <2>16, <2>17 DEF SectionsTyped
<1>2. ASSUME SectionsTyped, [Next]_vars PROVE SectionsTyped'
  <2>0. section' = section
    BY <1>2, SectionsGo
  <2>1. IF section' = "session" THEN SessionInv' ELSE SessionOff'
    <3>1. IF section = "session" THEN SessionInv ELSE SessionOff
      BY <1>2 DEF SectionsTyped
    <3>2. CASE section = "session"
      <4>1. SessionInv /\ [TheSession!Next]_sessionVars
        BY <1>2, <3>1, <3>2, SectionsGo
      <4> QED
        BY <2>0, <3>2, <4>1, NextKeepsSession
    <3>3. CASE section # "session"
      <4>1. SessionOff /\ UNCHANGED sessionVars
        BY <1>2, <3>1, <3>3, SectionsGo
      <4> QED
        BY <2>0, <3>3, <4>1 DEF SessionOff, sessionVars
    <3> QED
      BY <3>2, <3>3
  <2>2. IF section' = "console" THEN ConsoleInv' ELSE TaskConsoleOff'
    <3>1. IF section = "console" THEN ConsoleInv ELSE TaskConsoleOff
      BY <1>2 DEF SectionsTyped
    <3>2. CASE section = "console"
      <4>1. ConsoleInv /\ [TheTaskConsole!Next]_consoleVars
        BY <1>2, <3>1, <3>2, SectionsGo
      <4> QED
        BY <2>0, <3>2, <4>1, TaskConsoleBounds, NextKeepsConsole
    <3>3. CASE section # "console"
      <4>1. TaskConsoleOff /\ UNCHANGED consoleVars
        BY <1>2, <3>1, <3>3, SectionsGo
      <4> QED
        BY <2>0, <3>3, <4>1 DEF TaskConsoleOff, consoleVars
    <3> QED
      BY <3>2, <3>3
  <2>3. IF section' = "editor" THEN EditorTyped' ELSE EditorOff'
    <3>1. IF section = "editor" THEN EditorTyped ELSE EditorOff
      BY <1>2 DEF SectionsTyped
    <3>2. CASE section = "editor"
      <4>1. EditorTyped /\ [TheEditor!Next]_editorVars
        BY <1>2, <3>1, <3>2, SectionsGo
      <4> QED
        BY <2>0, <3>2, <4>1, EditorBounds, EditorStaysTyped, EditorTypesRest
    <3>3. CASE section # "editor"
      <4>1. EditorOff /\ UNCHANGED editorVars
        BY <1>2, <3>1, <3>3, SectionsGo
      <4> QED
        BY <2>0, <3>3, <4>1 DEF EditorOff, editorVars
    <3> QED
      BY <3>2, <3>3
  <2>4. IF section' = "planner" THEN PlannerTyped' ELSE PlannerOff'
    <3>1. IF section = "planner" THEN PlannerTyped ELSE PlannerOff
      BY <1>2 DEF SectionsTyped
    <3>2. CASE section = "planner"
      <4>1. PlannerTyped /\ [ThePlanner!Next]_plannerVars
        BY <1>2, <3>1, <3>2, SectionsGo
      <4> QED
        BY <2>0, <3>2, <4>1, PlannerBounds, PlannerStaysTyped, PlannerTypesRest
    <3>3. CASE section # "planner"
      <4>1. PlannerOff /\ UNCHANGED plannerVars
        BY <1>2, <3>1, <3>3, SectionsGo
      <4> QED
        BY <2>0, <3>3, <4>1 DEF PlannerOff, plannerVars
    <3> QED
      BY <3>2, <3>3
  <2>5. IF section' = "box" THEN BoxInv' ELSE MagicBoxOff'
    <3>1. IF section = "box" THEN BoxInv ELSE MagicBoxOff
      BY <1>2 DEF SectionsTyped
    <3>2. CASE section = "box"
      <4>1. BoxInv /\ [TheMagicBox!Next]_boxVars
        BY <1>2, <3>1, <3>2, SectionsGo
      <4> QED
        BY <2>0, <3>2, <4>1, MagicBoxBounds, NextKeepsBox
    <3>3. CASE section # "box"
      <4>1. MagicBoxOff /\ UNCHANGED boxVars
        BY <1>2, <3>1, <3>3, SectionsGo
      <4> QED
        BY <2>0, <3>3, <4>1 DEF MagicBoxOff, boxVars
    <3> QED
      BY <3>2, <3>3
  <2>6. IF section' = "directory" THEN ListsTyped' ELSE DirectoryOff'
    <3>1. IF section = "directory" THEN ListsTyped ELSE DirectoryOff
      BY <1>2 DEF SectionsTyped
    <3>2. CASE section = "directory"
      <4>1. ListsTyped /\ [TheDirectory!Next]_directoryVars
        BY <1>2, <3>1, <3>2, SectionsGo
      <4> QED
        BY <2>0, <3>2, <4>1, DirectoryBounds, ListsStayTyped, DirectoryTypesRest
    <3>3. CASE section # "directory"
      <4>1. DirectoryOff /\ UNCHANGED directoryVars
        BY <1>2, <3>1, <3>3, SectionsGo
      <4> QED
        BY <2>0, <3>3, <4>1 DEF DirectoryOff, directoryVars
    <3> QED
      BY <3>2, <3>3
  <2>7. IF section' = "feed" THEN FeedAllTyped' ELSE ActivityFeedOff'
    <3>1. IF section = "feed" THEN FeedAllTyped ELSE ActivityFeedOff
      BY <1>2 DEF SectionsTyped
    <3>2. CASE section = "feed"
      <4>1. FeedAllTyped /\ [TheActivityFeed!Next]_feedVars
        BY <1>2, <3>1, <3>2, SectionsGo
      <4> QED
        BY <2>0, <3>2, <4>1, ActivityFeedBounds, FeedStaysTyped, FeedTypesRest
    <3>3. CASE section # "feed"
      <4>1. ActivityFeedOff /\ UNCHANGED feedVars
        BY <1>2, <3>1, <3>3, SectionsGo
      <4> QED
        BY <2>0, <3>3, <4>1 DEF ActivityFeedOff, feedVars
    <3> QED
      BY <3>2, <3>3
  <2>8. IF section' = "community" THEN VotersTyped' ELSE CommunityOff'
    <3>1. IF section = "community" THEN VotersTyped ELSE CommunityOff
      BY <1>2 DEF SectionsTyped
    <3>2. CASE section = "community"
      <4>1. VotersTyped /\ [TheCommunity!Next]_communityVars
        BY <1>2, <3>1, <3>2, SectionsGo
      <4> QED
        BY <2>0, <3>2, <4>1, CommunityBounds, VotersStayTyped, CommunityTypesRest
    <3>3. CASE section # "community"
      <4>1. CommunityOff /\ UNCHANGED communityVars
        BY <1>2, <3>1, <3>3, SectionsGo
      <4> QED
        BY <2>0, <3>3, <4>1 DEF CommunityOff, communityVars
    <3> QED
      BY <3>2, <3>3
  <2>9. IF section' = "team" THEN TheTeam!TypeOK' ELSE TeamOff'
    <3>1. IF section = "team" THEN TheTeam!TypeOK ELSE TeamOff
      BY <1>2 DEF SectionsTyped
    <3>2. CASE section = "team"
      <4>1. TheTeam!TypeOK /\ [TheTeam!Next]_teamVars
        BY <1>2, <3>1, <3>2, SectionsGo
      <4> QED
        BY <2>0, <3>2, <4>1, TeamBounds, TeamTypeIs, TeamStaysTyped, TeamTypesRest
    <3>3. CASE section # "team"
      <4>1. TeamOff /\ UNCHANGED teamVars
        BY <1>2, <3>1, <3>3, SectionsGo
      <4> QED
        BY <2>0, <3>3, <4>1 DEF TeamOff, teamVars
    <3> QED
      BY <3>2, <3>3
  <2>10. IF section' = "wizard" THEN WizardInv' ELSE ChannelWizardOff'
    <3>1. IF section = "wizard" THEN WizardInv ELSE ChannelWizardOff
      BY <1>2 DEF SectionsTyped
    <3>2. CASE section = "wizard"
      <4>1. WizardInv /\ [TheChannelWizard!Next]_wizardVars
        BY <1>2, <3>1, <3>2, SectionsGo
      <4> QED
        BY <2>0, <3>2, <4>1, ChannelWizardBounds, NextKeepsWizard
    <3>3. CASE section # "wizard"
      <4>1. ChannelWizardOff /\ UNCHANGED wizardVars
        BY <1>2, <3>1, <3>3, SectionsGo
      <4> QED
        BY <2>0, <3>3, <4>1 DEF ChannelWizardOff, wizardVars
    <3> QED
      BY <3>2, <3>3
  <2>11. IF section' = "channels" THEN ChannelsTyped' ELSE ChannelPagesOff'
    <3>1. IF section = "channels" THEN ChannelsTyped ELSE ChannelPagesOff
      BY <1>2 DEF SectionsTyped
    <3>2. CASE section = "channels"
      <4>1. ChannelsTyped /\ [TheChannelPages!Next]_channelsVars
        BY <1>2, <3>1, <3>2, SectionsGo
      <4> QED
        BY <2>0, <3>2, <4>1, ChannelPagesBounds, ChannelsStayTyped, ChannelsTypesRest
    <3>3. CASE section # "channels"
      <4>1. ChannelPagesOff /\ UNCHANGED channelsVars
        BY <1>2, <3>1, <3>3, SectionsGo
      <4> QED
        BY <2>0, <3>3, <4>1 DEF ChannelPagesOff, channelsVars
    <3> QED
      BY <3>2, <3>3
  <2>12. IF section' = "submissions" THEN SubmissionsTyped' ELSE SubmissionsOff'
    <3>1. IF section = "submissions" THEN SubmissionsTyped ELSE SubmissionsOff
      BY <1>2 DEF SectionsTyped
    <3>2. CASE section = "submissions"
      <4>1. SubmissionsTyped /\ [TheSubmissions!Next]_submissionsVars
        BY <1>2, <3>1, <3>2, SectionsGo
      <4> QED
        BY <2>0, <3>2, <4>1, SubmissionsBounds, SubmissionsStayTyped, SubmissionsTypesRest
    <3>3. CASE section # "submissions"
      <4>1. SubmissionsOff /\ UNCHANGED submissionsVars
        BY <1>2, <3>1, <3>3, SectionsGo
      <4> QED
        BY <2>0, <3>3, <4>1 DEF SubmissionsOff, submissionsVars
    <3> QED
      BY <3>2, <3>3
  <2>13. IF section' = "forms" THEN FormsInv' ELSE AgentFormsOff'
    <3>1. IF section = "forms" THEN FormsInv ELSE AgentFormsOff
      BY <1>2 DEF SectionsTyped
    <3>2. CASE section = "forms"
      <4>1. FormsInv /\ [TheAgentForms!Next]_formsVars
        BY <1>2, <3>1, <3>2, SectionsGo
      <4> QED
        BY <2>0, <3>2, <4>1, AgentFormsBounds, NextKeepsForms
    <3>3. CASE section # "forms"
      <4>1. AgentFormsOff /\ UNCHANGED formsVars
        BY <1>2, <3>1, <3>3, SectionsGo
      <4> QED
        BY <2>0, <3>3, <4>1 DEF AgentFormsOff, formsVars
    <3> QED
      BY <3>2, <3>3
  <2>14. IF section' = "payouts" THEN PayoutsTyped' ELSE PayoutsOff'
    <3>1. IF section = "payouts" THEN PayoutsTyped ELSE PayoutsOff
      BY <1>2 DEF SectionsTyped
    <3>2. CASE section = "payouts"
      <4>1. PayoutsTyped /\ [ThePayouts!Next]_payoutsVars
        BY <1>2, <3>1, <3>2, SectionsGo
      <4> QED
        BY <2>0, <3>2, <4>1, PayoutsBounds, PayoutsStayTyped, PayoutsTypesRest
    <3>3. CASE section # "payouts"
      <4>1. PayoutsOff /\ UNCHANGED payoutsVars
        BY <1>2, <3>1, <3>3, SectionsGo
      <4> QED
        BY <2>0, <3>3, <4>1 DEF PayoutsOff, payoutsVars
    <3> QED
      BY <3>2, <3>3
  <2>15. IF section' = "settings" THEN SettingsTyped' ELSE SettingsOff'
    <3>1. IF section = "settings" THEN SettingsTyped ELSE SettingsOff
      BY <1>2 DEF SectionsTyped
    <3>2. CASE section = "settings"
      <4>1. SettingsTyped /\ [TheSettings!Next]_settingsVars
        BY <1>2, <3>1, <3>2, SectionsGo
      <4> QED
        BY <2>0, <3>2, <4>1, SettingsBounds, SettingsStayTyped, SettingsTypesRest
    <3>3. CASE section # "settings"
      <4>1. SettingsOff /\ UNCHANGED settingsVars
        BY <1>2, <3>1, <3>3, SectionsGo
      <4> QED
        BY <2>0, <3>3, <4>1 DEF SettingsOff, settingsVars
    <3> QED
      BY <3>2, <3>3
  <2>16. IF section' = "admin" THEN TablesTyped' ELSE AdminTablesOff'
    <3>1. IF section = "admin" THEN TablesTyped ELSE AdminTablesOff
      BY <1>2 DEF SectionsTyped
    <3>2. CASE section = "admin"
      <4>1. TablesTyped /\ [TheAdminTables!Next]_adminVars
        BY <1>2, <3>1, <3>2, SectionsGo
      <4> QED
        BY <2>0, <3>2, <4>1, AdminTablesBounds, TablesStayTyped, AdminTypesRest
    <3>3. CASE section # "admin"
      <4>1. AdminTablesOff /\ UNCHANGED adminVars
        BY <1>2, <3>1, <3>3, SectionsGo
      <4> QED
        BY <2>0, <3>3, <4>1 DEF AdminTablesOff, adminVars
    <3> QED
      BY <3>2, <3>3
  <2>17. IF section' = "servers" THEN ServersAllTyped' ELSE ToolServersOff'
    <3>1. IF section = "servers" THEN ServersAllTyped ELSE ToolServersOff
      BY <1>2 DEF SectionsTyped
    <3>2. CASE section = "servers"
      <4>1. ServersAllTyped /\ [TheToolServers!Next]_serversVars
        BY <1>2, <3>1, <3>2, SectionsGo
      <4> QED
        BY <2>0, <3>2, <4>1, ToolServersBounds, ServersStayTyped, ServersTypesRest
    <3>3. CASE section # "servers"
      <4>1. ToolServersOff /\ UNCHANGED serversVars
        BY <1>2, <3>1, <3>3, SectionsGo
      <4> QED
        BY <2>0, <3>3, <4>1 DEF ToolServersOff, serversVars
    <3> QED
      BY <3>2, <3>3
  <2> QED
    BY <1>2, <2>0, <2>1, <2>2, <2>3, <2>4, <2>5, <2>6, <2>7, <2>8, <2>9, <2>10, <2>11, <2>12, <2>13, <2>14, <2>15, <2>16, <2>17 DEF SectionsTyped
<1>3. ASSUME SectionsTyped PROVE TypeOK
  <2>1. IF section = "session" THEN TheSession!TypeOK ELSE SessionOff
    BY <1>3, SessionIsTyped DEF SectionsTyped
  <2>2. IF section = "console" THEN TheTaskConsole!TypeOK ELSE TaskConsoleOff
    BY <1>3 DEF SectionsTyped, ConsoleInv
  <2>3. IF section = "editor" THEN TheEditor!TypeOK ELSE EditorOff
    BY <1>3, EditorIsTyped DEF SectionsTyped
  <2>4. IF section = "planner" THEN ThePlanner!TypeOK ELSE PlannerOff
    BY <1>3, PlannerIsTyped DEF SectionsTyped
  <2>5. IF section = "box" THEN TheMagicBox!TypeOK ELSE MagicBoxOff
    BY <1>3 DEF SectionsTyped, BoxInv
  <2>6. IF section = "directory" THEN TheDirectory!TypeOK ELSE DirectoryOff
    BY <1>3, ListsAreTyped DEF SectionsTyped
  <2>7. IF section = "feed" THEN TheActivityFeed!TypeOK ELSE ActivityFeedOff
    BY <1>3, ActivityFeedBounds, FeedIsTyped DEF SectionsTyped
  <2>8. IF section = "community" THEN TheCommunity!TypeOK ELSE CommunityOff
    BY <1>3 DEF SectionsTyped, VotersTyped
  <2>9. IF section = "team" THEN TheTeam!TypeOK ELSE TeamOff
    BY <1>3 DEF SectionsTyped
  <2>10. IF section = "wizard" THEN TheChannelWizard!TypeOK ELSE ChannelWizardOff
    BY <1>3 DEF SectionsTyped, WizardInv
  <2>11. IF section = "channels" THEN TheChannelPages!TypeOK ELSE ChannelPagesOff
    BY <1>3, ChannelsAreTyped DEF SectionsTyped
  <2>12. IF section = "submissions" THEN TheSubmissions!TypeOK ELSE SubmissionsOff
    BY <1>3, SubmissionsAreTyped DEF SectionsTyped
  <2>13. IF section = "forms" THEN TheAgentForms!TypeOK ELSE AgentFormsOff
    BY <1>3 DEF SectionsTyped, FormsInv
  <2>14. IF section = "payouts" THEN ThePayouts!TypeOK ELSE PayoutsOff
    BY <1>3, PayoutsAreTyped DEF SectionsTyped
  <2>15. IF section = "settings" THEN TheSettings!TypeOK ELSE SettingsOff
    BY <1>3, SettingsAreTyped DEF SectionsTyped
  <2>16. IF section = "admin" THEN TheAdminTables!TypeOK ELSE AdminTablesOff
    BY <1>3 DEF SectionsTyped, TablesTyped
  <2>17. IF section = "servers" THEN TheToolServers!TypeOK ELSE ToolServersOff
    BY <1>3 DEF SectionsTyped, ServersAllTyped
  <2> QED
    BY <1>3, <2>1, <2>2, <2>3, <2>4, <2>5, <2>6, <2>7, <2>8, <2>9, <2>10, <2>11, <2>12, <2>13, <2>14, <2>15, <2>16, <2>17 DEF SectionsTyped, TypeOK
<1> QED
  BY <1>1, <1>2, <1>3, PTL DEF Spec
=============================================================================
