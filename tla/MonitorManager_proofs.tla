------------------------- MODULE MonitorManager_proofs -------------------------
(***************************************************************************)
(* Hotplug and restart for any outputs, windows, places, workspaces and    *)
(* rules.                                                                  *)
(*                                                                         *)
(* The heart of it is Detect, which decides the outputs one after the      *)
(* other: what its loop keeps (LoopKeeps) holds after any number of them   *)
(* by induction.  The induction theorems of the library take an operator,  *)
(* which the provers cannot instantiate; Induction below says the same of  *)
(* a set of numbers, which they can.                                       *)
(***************************************************************************)
EXTENDS MonitorManager, FiniteSetTheorems, WellFoundedInduction, TLAPS

AllNames == Output \cup {Fallback}

(* ------------------------------- induction ------------------------------- *)

LEMMA LeastNumber ==
    ASSUME NEW T, T \subseteq Nat, T # {}
    PROVE  \E x \in T : \A y \in T : x <= y
<1>1. PICK x \in T : \A y \in T : <<y, x>> \notin OpToRel(<, Nat)
  BY NatLessThanWellFounded, WFMin
<1>2. \A y \in T : ~(y < x)
  BY <1>1 DEF OpToRel
<1>3. \A y \in T : x <= y
  BY <1>2, SMT
<1> QED
  BY <1>3

LEMMA Induction ==
    ASSUME NEW T \in SUBSET Nat, 0 \in T, \A n \in T : n + 1 \in T
    PROVE  T = Nat
<1>1. SUFFICES ASSUME Nat \ T # {} PROVE FALSE
  OBVIOUS
<1>2. PICK x \in Nat \ T : \A y \in Nat \ T : x <= y
  BY <1>1, LeastNumber
<1>3. x # 0 /\ x - 1 \in Nat
  BY <1>2, SMT
<1>4. x - 1 \in T
  BY <1>2, <1>3, SMT
<1>5. (x - 1) + 1 \in T
  BY <1>4
<1> QED
  BY <1>2, <1>5, SMT

LEMMA MinIsOne ==
    ASSUME NEW T, T \subseteq Nat, T # {}
    PROVE  Min(T) \in T
BY LeastNumber DEF Min

(* --------------------------- the loop of Detect -------------------------- *)

Start(old) == [next |-> <<>>, rest |-> old]

Step(l, done, n, saved) ==
    IF n \in Connected(l) THEN Decided(l, done, n, saved) ELSE done

IsRun(done, len, l, old, saved) ==
    done = [i \in 0..len |->
              IF i = 0 THEN [next |-> <<>>, rest |-> old]
              ELSE IF Names[i] \in Connected(l) THEN Decided(l, done[i - 1], Names[i], saved)
              ELSE done[i - 1]]

LEMMA RunByStep ==
    ASSUME NEW done, NEW len \in Nat, NEW l, NEW old, NEW saved
    PROVE  IsRun(done, len, l, old, saved) <=>
             done = [i \in 0..len |->
                       IF i = 0 THEN Start(old) ELSE Step(l, done[i - 1], Names[i], saved)]
BY DEF IsRun, Start, Step

LEMMA RunExists ==
    ASSUME NEW len \in Nat, NEW l, NEW old, NEW saved
    PROVE  \E done : IsRun(done, len, l, old, saved)
<1> DEFINE T == {k \in Nat : \E done : IsRun(done, k, l, old, saved)}
<1>1. 0 \in T
  <2> DEFINE done == [i \in 0..0 |-> Start(old)]
  <2>1. \A i \in 0..0 : i = 0
    BY SMT
  <2>2. done = [i \in 0..0 |->
                  IF i = 0 THEN Start(old) ELSE Step(l, done[i - 1], Names[i], saved)]
    BY <2>1
  <2>3. IsRun(done, 0, l, old, saved)
    BY <2>2, RunByStep
  <2> QED
    BY <2>3
<1>2. ASSUME NEW k \in T PROVE k + 1 \in T
  <2>1. k \in Nat /\ k + 1 \in Nat
    OBVIOUS
  <2>2. PICK done : IsRun(done, k, l, old, saved)
    OBVIOUS
  <2>3. done = [i \in 0..k |->
                  IF i = 0 THEN Start(old) ELSE Step(l, done[i - 1], Names[i], saved)]
    BY <2>1, <2>2, RunByStep
  <2> DEFINE more == [i \in 0..(k + 1) |->
                        IF i = k + 1 THEN Step(l, done[k], Names[k + 1], saved) ELSE done[i]]
  <2>4. ASSUME NEW i \in 0..(k + 1)
        PROVE  more[i] = IF i = 0 THEN Start(old) ELSE Step(l, more[i - 1], Names[i], saved)
    <3>1. CASE i = 0
      BY <2>1, <2>3, <3>1, SMT
    <3>2. CASE i # 0 /\ i # k + 1
      BY <2>1, <2>3, <3>2, SMT
    <3>3. CASE i = k + 1
      BY <2>1, <2>3, <3>3, SMT
    <3> QED
      BY <3>1, <3>2, <3>3
  <2>5. IsRun(more, k + 1, l, old, saved)
    BY <2>1, <2>4, RunByStep
  <2> QED
    BY <2>1, <2>5
<1> HIDE DEF T
<1>3. T = Nat
  <2>1. T \in SUBSET Nat
    BY DEF T
  <2> QED
    BY <2>1, <1>1, <1>2, Induction
<1> QED
  BY <1>3 DEF T

\* Detect is the end of a run.
LEMMA DetectedRuns ==
    ASSUME NEW l, NEW old, NEW saved, Len(Names) \in Nat
    PROVE  \E done : /\ IsRun(done, Len(Names), l, old, saved)
                     /\ Detected(l, old, saved) = done[Len(Names)].next
<1> DEFINE run == CHOOSE done : IsRun(done, Len(Names), l, old, saved)
<1>1. IsRun(run, Len(Names), l, old, saved)
  BY RunExists
<1>2. Detected(l, old, saved) = run[Len(Names)].next
  BY DEF Detected, IsRun
<1> QED
  BY <1>1, <1>2

(* ------------------------------- the outputs ----------------------------- *)

LEMMA OutputFacts ==
    /\ OutputOrder \in Seq(Output) /\ Len(OutputOrder) \in Nat
    /\ DOMAIN OutputOrder = 1..Len(OutputOrder)
    /\ Output = {OutputOrder[i] : i \in 1..Len(OutputOrder)}
    /\ \A i, j \in 1..Len(OutputOrder) : OutputOrder[i] = OutputOrder[j] => i = j
    /\ Fallback \notin Output
<1>1. OutputOrder \in Seq(Output)
  BY OutputsAreListedOnce
<1>2. DOMAIN OutputOrder = 1..Len(OutputOrder) /\ Len(OutputOrder) \in Nat
  BY <1>1
<1>3. \A i, j \in DOMAIN OutputOrder : OutputOrder[i] = OutputOrder[j] => i = j
  BY OutputsAreListedOnce DEF IsInjective
<1> QED
  BY <1>1, <1>2, <1>3, OutputsAreListedOnce DEF Output, ToSet

LEMMA NameFacts ==
    /\ Len(Names) \in Nat
    /\ \A i \in 1..Len(Names) : Names[i] \in AllNames
    /\ \A i, j \in 1..Len(Names) : Names[i] = Names[j] => i = j
    /\ \A n \in AllNames : \E i \in 1..Len(Names) : Names[i] = n
<1>1. /\ Len(Names) = Len(OutputOrder) + 1
      /\ \A i \in 1..Len(OutputOrder) : Names[i] = OutputOrder[i]
      /\ Names[Len(OutputOrder) + 1] = Fallback
  <2>1. OutputOrder \in Seq(AllNames) /\ Fallback \in AllNames
    BY OutputFacts DEF AllNames
  <2> QED
    BY <2>1 DEF Names
<1>2. \A i \in 1..(Len(OutputOrder) + 1) : i \in 1..Len(OutputOrder) \/ i = Len(OutputOrder) + 1
  BY OutputFacts, SMT
<1>3. \A i \in 1..Len(OutputOrder) : Names[i] \in Output
  BY <1>1, OutputFacts
<1>4. \A i \in 1..Len(Names) : Names[i] \in AllNames
  BY <1>1, <1>2, <1>3 DEF AllNames
<1>5. ASSUME NEW i \in 1..Len(Names), NEW j \in 1..Len(Names), Names[i] = Names[j]
      PROVE  i = j
  BY <1>1, <1>2, <1>3, <1>5, OutputFacts
<1>6. ASSUME NEW n \in AllNames PROVE \E i \in 1..Len(Names) : Names[i] = n
  <2>1. CASE n \in Output
    <3>1. PICK i \in 1..Len(OutputOrder) : n = OutputOrder[i]
      BY <2>1, OutputFacts
    <3>2. i \in 1..Len(Names)
      BY <1>1, OutputFacts, SMT
    <3> QED
      BY <1>1, <3>1, <3>2
  <2>2. CASE n = Fallback
    <3>1. Len(OutputOrder) + 1 \in 1..Len(Names)
      BY <1>1, OutputFacts, SMT
    <3> QED
      BY <1>1, <2>2, <3>1
  <2> QED
    BY <2>1, <2>2 DEF AllNames
<1>7. Len(Names) \in Nat
  BY <1>1, OutputFacts, SMT
<1> QED
  BY <1>4, <1>5, <1>6, <1>7

LEMMA NamesAreFinite ==
    /\ IsFiniteSet(Output) /\ Cardinality(Output) \in Nat
    /\ \A n \in AllNames, S \in SUBSET AllNames :
         n \notin S => IsFiniteSet(S) /\ Cardinality(S) <= Cardinality(Output)
<1>1. IsFiniteSet(Output)
  <2>1. OutputOrder \in Surjection(1..Len(OutputOrder), Output)
    BY OutputFacts DEF Surjection
  <2>2. IsFiniteSet(1..Len(OutputOrder))
    BY OutputFacts, FS_Interval
  <2> QED
    BY <2>1, <2>2, FS_Surjection
<1>2. Cardinality(Output) \in Nat
  BY <1>1, FS_CardinalityType
<1>3. IsFiniteSet(AllNames) /\ Cardinality(AllNames) = Cardinality(Output) + 1
  BY <1>1, OutputFacts, FS_AddElement DEF AllNames
<1>4. ASSUME NEW n \in AllNames, NEW S \in SUBSET AllNames, n \notin S
      PROVE  IsFiniteSet(S) /\ Cardinality(S) <= Cardinality(Output)
  <2>1. IsFiniteSet(AllNames \ {n}) /\ Cardinality(AllNames \ {n}) = Cardinality(AllNames) - 1
    BY <1>3, FS_RemoveElement
  <2>2. S \in SUBSET (AllNames \ {n})
    BY <1>4
  <2>3. IsFiniteSet(S) /\ Cardinality(S) <= Cardinality(AllNames \ {n})
    BY <2>1, <2>2, FS_Subset
  <2>4. Cardinality(AllNames \ {n}) = Cardinality(Output)
    BY <1>2, <1>3, <2>1, SMT
  <2> QED
    BY <2>3, <2>4
<1> QED
  BY <1>1, <1>2, <1>4

LEMMA ConnectedNames ==
    ASSUME NEW l \in Layouts
    PROVE  /\ Connected(l) \in ((SUBSET Output) \cup {{Fallback}}) \ {{}}
           /\ \A n \in Connected(l) : DetectedArea(l, n) \in (SUBSET Place) \ {{}}
<1>1. PICK S \in SUBSET Output : l \in [S -> Place]
  BY DEF Layouts
<1>2. DOMAIN l \in SUBSET Output /\ \A n \in DOMAIN l : l[n] \in Place
  BY <1>1
<1>3. 1 \in Place
  BY NumbersAreNatural, SMT DEF Place
<1> QED
  <2>1. CASE DOMAIN l = {}
    <3>1. Connected(l) = {Fallback} /\ \A n \in Connected(l) : DetectedArea(l, n) = Place
      BY <2>1 DEF Connected, DetectedArea
    <3>2. {Fallback} # {} /\ Place # {}
      BY <1>3
    <3>3. \A n \in Connected(l) : DetectedArea(l, n) \in (SUBSET Place) \ {{}}
      BY <3>1, <3>2
    <3>4. Connected(l) \in ((SUBSET Output) \cup {{Fallback}}) \ {{}}
      BY <3>1, <3>2
    <3> QED
      BY <3>3, <3>4
  <2>2. CASE DOMAIN l # {}
    <3>1. Connected(l) = DOMAIN l
      BY <2>2 DEF Connected
    <3>2. \A n \in DOMAIN l : DetectedArea(l, n) = {l[n]}
      BY <1>2, OutputFacts DEF DetectedArea
    <3>3. \A n \in DOMAIN l : {l[n]} \in SUBSET Place /\ {l[n]} # {}
      BY <1>2
    <3>4. \A n \in Connected(l) : DetectedArea(l, n) \in (SUBSET Place) \ {{}}
      BY <3>1, <3>2, <3>3
    <3>5. Connected(l) \in ((SUBSET Output) \cup {{Fallback}}) \ {{}}
      BY <1>2, <2>2, <3>1
    <3> QED
      BY <3>4, <3>5
  <2> QED
    BY <2>1, <2>2

(* --------------------------- a new output's place ------------------------ *)

\* Monitors that are there, each with a workspace there is.
Sound(ms) ==
    /\ DOMAIN ms \in SUBSET AllNames
    /\ \A n \in DOMAIN ms : ms[n].ws \in WorkspaceId

Distinct(ms) == \A m, n \in DOMAIN ms : ms[m].ws = ms[n].ws => m = n

Free(next, rest) == {id \in WorkspaceId : ~Taken(id, next, rest)}

LEMMA PlacedIsWorkspace ==
    ASSUME NEW n, NEW next, NEW rest, NEW saved
    PROVE  /\ Placed(n, next, rest, saved) \in WorkspaceId
           /\ Free(next, rest) # {} => Placed(n, next, rest, saved) \in Free(next, rest)
<1>1. Free(next, rest) \subseteq WorkspaceId /\ WorkspaceId \subseteq Nat
  BY SMT DEF Free, WorkspaceId
<1>2. 1 \in WorkspaceId
  BY NumbersAreNatural, SMT DEF WorkspaceId
<1>3. Free(next, rest) # {} => Min(Free(next, rest)) \in Free(next, rest)
  BY <1>1, MinIsOne
<1>4. Placed(n, next, rest, saved) =
        CASE Rule[n] \in Free(next, rest) -> Rule[n]
          [] Rule[n] \notin Free(next, rest) /\ n \in DOMAIN saved /\ saved[n] \in Free(next, rest)
               -> saved[n]
          [] OTHER -> IF Free(next, rest) # {} THEN Min(Free(next, rest)) ELSE 1
  BY DEF Placed, Free
<1> QED
  BY <1>1, <1>2, <1>3, <1>4

\* As many monitors as there can be beside one take fewer workspaces than
\* there are.
LEMMA SomeIsFree ==
    ASSUME Cardinality(Output) < NumWorkspaces, NEW n \in AllNames,
           NEW next, NEW rest, Sound(next), Sound(rest),
           n \notin DOMAIN next, n \notin DOMAIN rest, DOMAIN next \cap DOMAIN rest = {}
    PROVE  Free(next, rest) # {}
<1>1. SUFFICES ASSUME Free(next, rest) = {} PROVE FALSE
  OBVIOUS
<1> DEFINE S == DOMAIN next \cup DOMAIN rest
           f == [m \in S |-> IF m \in DOMAIN next THEN next[m].ws ELSE rest[m].ws]
           T == {f[m] : m \in S}
<1>2. IsFiniteSet(S) /\ Cardinality(S) <= Cardinality(Output)
  BY NamesAreFinite DEF Sound
<1>3. f \in Surjection(S, T)
  BY DEF Surjection
<1>4. IsFiniteSet(T) /\ Cardinality(T) <= Cardinality(S)
  BY <1>2, <1>3, FS_Surjection
<1>5. ASSUME NEW id \in WorkspaceId PROVE id \in T
  <2>1. Taken(id, next, rest)
    BY <1>1 DEF Free
  <2>2. CASE \E m \in DOMAIN next : next[m].ws = id
    BY <2>2
  <2>3. CASE \E m \in DOMAIN rest : rest[m].ws = id
    BY <2>3
  <2> QED
    BY <2>1, <2>2, <2>3 DEF Taken, Showing
<1> HIDE DEF T
<1>6. WorkspaceId \in SUBSET T
  BY <1>5
<1>7. Cardinality(WorkspaceId) <= Cardinality(T)
  BY <1>4, <1>6, FS_Subset
<1>8. IsFiniteSet(WorkspaceId) /\ Cardinality(WorkspaceId) = NumWorkspaces
  BY NumbersAreNatural, FS_Interval, SMT DEF WorkspaceId
<1>9. Cardinality(S) \in Nat /\ Cardinality(T) \in Nat
  BY <1>2, <1>4, FS_CardinalityType
<1> QED
  BY <1>2, <1>4, <1>7, <1>8, <1>9, NamesAreFinite, NumbersAreNatural, SMT

(* -------------------------- what the loop keeps -------------------------- *)

Enough == Cardinality(Output) < NumWorkspaces

Seen(i) == {Names[j] : j \in 1..i}

\* After i outputs those of them that are connected have a monitor, the old
\* ones with the workspace they had; the other old monitors are left.
LoopKeeps(done, i, l, old) ==
    /\ DOMAIN done.next = Seen(i) \cap Connected(l)
    /\ DOMAIN done.rest = DOMAIN old \ DOMAIN done.next
    /\ \A n \in DOMAIN done.rest : done.rest[n] = old[n]
    /\ \A n \in DOMAIN done.next :
         /\ done.next[n] \in [area : {DetectedArea(l, n)}, ws : WorkspaceId]
         /\ n \in DOMAIN old => done.next[n].ws = old[n].ws

\* No workspace twice, among the monitors decided and those left.
Apart(done) ==
    /\ Distinct(done.next) /\ Distinct(done.rest)
    /\ \A m \in DOMAIN done.next, n \in DOMAIN done.rest : done.next[m].ws # done.rest[n].ws

LEMMA SeenGrows ==
    /\ Seen(0) = {}
    /\ \A i \in Nat : Seen(i + 1) = Seen(i) \cup {Names[i + 1]}
    /\ \A i \in Nat : i + 1 <= Len(Names) => Names[i + 1] \notin Seen(i)
    /\ \A i \in Nat : i <= Len(Names) => Seen(i) \subseteq AllNames
    /\ Seen(Len(Names)) = AllNames
<1>1. 1..0 = {} /\ \A i \in Nat : 1..(i + 1) = (1..i) \cup {i + 1}
  BY SMT
<1>2. ASSUME NEW i \in Nat, i + 1 <= Len(Names) PROVE Names[i + 1] \notin Seen(i)
  <2>1. \A j \in 1..i : j \in 1..Len(Names) /\ j # i + 1
    BY <1>2, NameFacts, SMT
  <2>2. i + 1 \in 1..Len(Names)
    BY <1>2, NameFacts, SMT
  <2> QED
    BY <2>1, <2>2, NameFacts DEF Seen
<1>3. ASSUME NEW i \in Nat, i <= Len(Names) PROVE Seen(i) \subseteq AllNames
  <2>1. \A j \in 1..i : j \in 1..Len(Names)
    BY <1>3, NameFacts, SMT
  <2> QED
    BY <2>1, NameFacts DEF Seen
<1>4. Seen(Len(Names)) = AllNames
  BY NameFacts DEF Seen
<1>5. Seen(0) = {} /\ \A i \in Nat : Seen(i + 1) = Seen(i) \cup {Names[i + 1]}
  BY <1>1 DEF Seen
<1> QED
  BY <1>2, <1>3, <1>4, <1>5

\* The workspace Detect gives the next output.
Given(done, n, saved) ==
    IF Known(n, done.rest) THEN done.rest[n].ws ELSE Placed(n, done.next, done.rest, saved)

LEMMA DecidedFacts ==
    ASSUME NEW l, NEW done, NEW n, NEW saved
    PROVE  LET d == Decided(l, done, n, saved)
           IN  /\ DOMAIN d.next = {n} \cup DOMAIN done.next
               /\ d.next[n] = Monitor(DetectedArea(l, n), Given(done, n, saved))
               /\ \A m \in DOMAIN done.next \ {n} : d.next[m] = done.next[m]
               /\ DOMAIN d.rest = DOMAIN done.rest \ {n}
               /\ \A m \in DOMAIN d.rest : d.rest[m] = done.rest[m]
BY DEF Decided, Given

LEMMA OneMore ==
    ASSUME NEW l \in Layouts, NEW old, Sound(old), NEW saved, NEW done,
           NEW i \in Nat, i + 1 <= Len(Names), LoopKeeps(done, i, l, old)
    PROVE  LoopKeeps(Step(l, done, Names[i + 1], saved), i + 1, l, old)
<1> DEFINE n == Names[i + 1]
           d == Decided(l, done, n, saved)
<1>1. Seen(i + 1) = Seen(i) \cup {n} /\ n \notin Seen(i)
  BY SeenGrows
<1>2. n \notin DOMAIN done.next
  BY <1>1 DEF LoopKeeps
<1> HIDE DEF n, d
<1>3. CASE n \in Connected(l)
  <2>1. Step(l, done, n, saved) = d
    BY <1>3 DEF Step, d
  <2>2. /\ DOMAIN d.next = {n} \cup DOMAIN done.next
        /\ d.next[n] = Monitor(DetectedArea(l, n), Given(done, n, saved))
        /\ \A m \in DOMAIN done.next \ {n} : d.next[m] = done.next[m]
        /\ DOMAIN d.rest = DOMAIN done.rest \ {n}
        /\ \A m \in DOMAIN d.rest : d.rest[m] = done.rest[m]
    BY DecidedFacts DEF d
  <2>3. Given(done, n, saved) \in WorkspaceId
        /\ (n \in DOMAIN old => Given(done, n, saved) = old[n].ws)
    <3>1. CASE n \in DOMAIN old
      BY <1>2, <3>1 DEF LoopKeeps, Given, Known, Sound
    <3>2. CASE n \notin DOMAIN old
      <4>1. Given(done, n, saved) = Placed(n, done.next, done.rest, saved)
        BY <3>2 DEF LoopKeeps, Given, Known
      <4> QED
        BY <3>2, <4>1, PlacedIsWorkspace
    <3> QED
      BY <3>1, <3>2
  <2>4. DOMAIN d.next = Seen(i + 1) \cap Connected(l)
    BY <1>1, <1>3, <2>2 DEF LoopKeeps
  <2>5. DOMAIN d.rest = DOMAIN old \ DOMAIN d.next
    BY <2>2 DEF LoopKeeps
  <2>6. \A m \in DOMAIN d.rest : d.rest[m] = old[m]
    BY <2>2 DEF LoopKeeps
  <2>7. /\ d.next[n] \in [area : {DetectedArea(l, n)}, ws : WorkspaceId]
        /\ n \in DOMAIN old => d.next[n].ws = old[n].ws
    BY <2>2, <2>3 DEF Monitor
  <2>8. \A m \in DOMAIN done.next :
          /\ d.next[m] \in [area : {DetectedArea(l, m)}, ws : WorkspaceId]
          /\ m \in DOMAIN old => d.next[m].ws = old[m].ws
    BY <1>2, <2>2 DEF LoopKeeps
  <2>9. LoopKeeps(d, i + 1, l, old)
    BY <2>2, <2>4, <2>5, <2>6, <2>7, <2>8 DEF LoopKeeps
  <2> QED
    BY <2>1, <2>9 DEF n
<1>4. CASE n \notin Connected(l)
  <2>1. Step(l, done, n, saved) = done
    BY <1>4 DEF Step
  <2>2. Seen(i + 1) \cap Connected(l) = Seen(i) \cap Connected(l)
    BY <1>1, <1>4
  <2>3. LoopKeeps(done, i + 1, l, old)
    BY <2>2 DEF LoopKeeps
  <2> QED
    BY <2>1, <2>3 DEF n
<1> QED
  BY <1>3, <1>4

\* A new output's workspace is one that no monitor has, so that none comes to
\* be shown twice.
LEMMA OneMoreApart ==
    ASSUME Enough, NEW l \in Layouts, NEW old, Sound(old), NEW saved, NEW done,
           NEW i \in Nat, i + 1 <= Len(Names), LoopKeeps(done, i, l, old), Apart(done)
    PROVE  Apart(Step(l, done, Names[i + 1], saved))
<1> DEFINE n == Names[i + 1]
           d == Decided(l, done, n, saved)
<1>1. n \notin DOMAIN done.next /\ n \in AllNames
  <2>1. i + 1 \in 1..Len(Names)
    BY NameFacts, SMT
  <2> QED
    BY <2>1, SeenGrows, NameFacts DEF LoopKeeps
<1>a. Sound(done.next) /\ Sound(done.rest) /\ DOMAIN done.next \cap DOMAIN done.rest = {}
  <2>1. DOMAIN done.next \in SUBSET AllNames
    <3>1. i <= Len(Names)
      BY NameFacts, SMT
    <3> QED
      BY <3>1, SeenGrows DEF LoopKeeps
  <2> QED
    BY <2>1 DEF LoopKeeps, Sound
<1> HIDE DEF n, d
<1>2. CASE n \in Connected(l)
  <2>1. Step(l, done, n, saved) = d
    BY <1>2 DEF Step, d
  <2>2. /\ DOMAIN d.next = {n} \cup DOMAIN done.next
        /\ d.next[n] = Monitor(DetectedArea(l, n), Given(done, n, saved))
        /\ \A m \in DOMAIN done.next \ {n} : d.next[m] = done.next[m]
        /\ DOMAIN d.rest = DOMAIN done.rest \ {n}
        /\ \A m \in DOMAIN d.rest : d.rest[m] = done.rest[m]
    BY DecidedFacts DEF d
  <2>3. d.next[n].ws = Given(done, n, saved)
    BY <2>2 DEF Monitor
  <2>4. /\ \A m \in DOMAIN done.next : Given(done, n, saved) # done.next[m].ws
        /\ \A m \in DOMAIN done.rest \ {n} : Given(done, n, saved) # done.rest[m].ws
    <3>1. CASE n \in DOMAIN done.rest
      <4>1. Given(done, n, saved) = done.rest[n].ws
        BY <3>1 DEF Given, Known
      <4> QED
        BY <3>1, <4>1 DEF Apart, Distinct
    <3>2. CASE n \notin DOMAIN done.rest
      <4>1. Given(done, n, saved) = Placed(n, done.next, done.rest, saved)
        BY <3>2 DEF Given, Known
      <4>2. Free(done.next, done.rest) # {}
        BY <1>1, <1>a, <3>2, SomeIsFree DEF Enough
      <4>3. Given(done, n, saved) \in Free(done.next, done.rest)
        BY <4>1, <4>2, PlacedIsWorkspace
      <4>4. ~Taken(Given(done, n, saved), done.next, done.rest)
        BY <4>3 DEF Free
      <4> QED
        BY <4>4 DEF Taken, Showing
    <3> QED
      BY <3>1, <3>2
  <2>5. \A m \in DOMAIN done.next : d.next[m] = done.next[m]
    BY <1>1, <2>2
  <2>6. Distinct(d.next)
    BY <2>2, <2>3, <2>4, <2>5 DEF Apart, Distinct
  <2>7. Distinct(d.rest)
    BY <2>2 DEF Apart, Distinct
  <2>8. \A m \in DOMAIN d.next, k \in DOMAIN d.rest : d.next[m].ws # d.rest[k].ws
    BY <2>2, <2>3, <2>4, <2>5 DEF Apart
  <2>9. Apart(d)
    BY <2>6, <2>7, <2>8 DEF Apart
  <2> QED
    BY <2>1, <2>9 DEF n
<1>3. CASE n \notin Connected(l)
  BY <1>3 DEF Step, n
<1> QED
  BY <1>2, <1>3

(* ----------------------------- what Detect does -------------------------- *)

LEMMA RunSteps ==
    ASSUME NEW run, NEW len \in Nat, NEW l, NEW old, NEW saved,
           IsRun(run, len, l, old, saved)
    PROVE  /\ run[0] = Start(old)
           /\ \A i \in Nat : i + 1 <= len => run[i + 1] = Step(l, run[i], Names[i + 1], saved)
<1>1. run = [i \in 0..len |->
               IF i = 0 THEN Start(old) ELSE Step(l, run[i - 1], Names[i], saved)]
  BY RunByStep
<1>2. 0 \in 0..len
  BY SMT
<1>3. ASSUME NEW i \in Nat, i + 1 <= len
      PROVE  run[i + 1] = Step(l, run[i], Names[i + 1], saved)
  <2>1. i + 1 \in 0..len /\ i + 1 # 0 /\ (i + 1) - 1 = i
    BY <1>3, SMT
  <2> QED
    BY <1>1, <2>1
<1> QED
  BY <1>1, <1>2, <1>3

LEMMA DetectKeeps ==
    ASSUME NEW l \in Layouts, NEW old, Sound(old), NEW saved
    PROVE  LET new == Detected(l, old, saved)
           IN  /\ DOMAIN new = Connected(l)
               /\ \A n \in DOMAIN new :
                    /\ new[n] \in [area : {DetectedArea(l, n)}, ws : WorkspaceId]
                    /\ n \in DOMAIN old => new[n].ws = old[n].ws
               /\ Enough /\ Distinct(old) => Distinct(new)
<1>1. PICK run : /\ IsRun(run, Len(Names), l, old, saved)
                 /\ Detected(l, old, saved) = run[Len(Names)].next
  BY NameFacts, DetectedRuns
<1>2. /\ run[0] = Start(old)
      /\ \A i \in Nat : i + 1 <= Len(Names) =>
           run[i + 1] = Step(l, run[i], Names[i + 1], saved)
  BY <1>1, NameFacts, RunSteps
<1> DEFINE T == {i \in Nat : i <= Len(Names) =>
                   /\ LoopKeeps(run[i], i, l, old)
                   /\ Enough /\ Distinct(old) => Apart(run[i])}
<1>3. 0 \in T
  <2>1. Start(old).next = <<>> /\ Start(old).rest = old
    BY DEF Start
  <2>2. DOMAIN Start(old).next = {}
    BY <2>1
  <2>3. LoopKeeps(Start(old), 0, l, old)
    BY <2>1, <2>2, SeenGrows DEF LoopKeeps
  <2>4. Distinct(old) => Apart(Start(old))
    BY <2>1, <2>2 DEF Apart, Distinct
  <2> QED
    BY <1>2, <2>3, <2>4
<1>4. ASSUME NEW i \in T PROVE i + 1 \in T
  <2>1. i \in Nat /\ i + 1 \in Nat
    OBVIOUS
  <2>2. SUFFICES ASSUME i + 1 <= Len(Names)
                 PROVE  /\ LoopKeeps(run[i + 1], i + 1, l, old)
                        /\ Enough /\ Distinct(old) => Apart(run[i + 1])
    BY <2>1
  <2>3. i <= Len(Names)
    BY <2>1, <2>2, NameFacts, SMT
  <2>4. LoopKeeps(run[i], i, l, old) /\ (Enough /\ Distinct(old) => Apart(run[i]))
    BY <2>3
  <2>5. run[i + 1] = Step(l, run[i], Names[i + 1], saved)
    BY <1>2, <2>1, <2>2
  <2> QED
    BY <2>1, <2>2, <2>4, <2>5, OneMore, OneMoreApart
<1>5. T \in SUBSET Nat
  OBVIOUS
<1> HIDE DEF T
<1>6. T = Nat
  BY <1>3, <1>4, <1>5, Induction
<1>7. /\ LoopKeeps(run[Len(Names)], Len(Names), l, old)
      /\ Enough /\ Distinct(old) => Apart(run[Len(Names)])
  <2>1. Len(Names) \in T /\ Len(Names) <= Len(Names)
    BY <1>6, NameFacts, SMT
  <2> QED
    BY <2>1 DEF T
<1>8. AllNames \cap Connected(l) = Connected(l)
  BY ConnectedNames DEF AllNames
<1> QED
  BY <1>1, <1>7, <1>8, SeenGrows DEF LoopKeeps, Apart

\* From what was saved on different workspaces, with every rule agreeing, a
\* start gives each output back its own: nothing else has it yet.
LEMMA DetectReplays ==
    ASSUME NEW l \in Layouts, NEW saved, DOMAIN saved = Connected(l),
           \A n \in Connected(l) : saved[n] \in WorkspaceId,
           \A m, n \in Connected(l) : saved[m] = saved[n] => m = n,
           \A n \in Connected(l) : Rule[n] \in WorkspaceId => Rule[n] = saved[n]
    PROVE  \A n \in Connected(l) : Detected(l, <<>>, saved)[n].ws = saved[n]
<1>1. PICK run : /\ IsRun(run, Len(Names), l, <<>>, saved)
                 /\ Detected(l, <<>>, saved) = run[Len(Names)].next
  BY NameFacts, DetectedRuns
<1>2. /\ run[0] = Start(<<>>)
      /\ \A i \in Nat : i + 1 <= Len(Names) =>
           run[i + 1] = Step(l, run[i], Names[i + 1], saved)
  BY <1>1, NameFacts, RunSteps
<1>a. Sound(<<>>) /\ DOMAIN <<>> = {}
  BY DEF Sound
<1> DEFINE T == {i \in Nat : i <= Len(Names) =>
                   /\ LoopKeeps(run[i], i, l, <<>>)
                   /\ \A n \in DOMAIN run[i].next : run[i].next[n].ws = saved[n]}
<1>3. 0 \in T
  <2>1. Start(<<>>).next = <<>> /\ Start(<<>>).rest = <<>>
    BY DEF Start
  <2>2. LoopKeeps(Start(<<>>), 0, l, <<>>)
    BY <1>a, <2>1, SeenGrows DEF LoopKeeps
  <2> QED
    BY <1>2, <1>a, <2>1, <2>2
<1>4. ASSUME NEW i \in T PROVE i + 1 \in T
  <2>1. i \in Nat /\ i + 1 \in Nat
    OBVIOUS
  <2>2. SUFFICES ASSUME i + 1 <= Len(Names)
                 PROVE  /\ LoopKeeps(run[i + 1], i + 1, l, <<>>)
                        /\ \A n \in DOMAIN run[i + 1].next : run[i + 1].next[n].ws = saved[n]
    BY <2>1
  <2>3. i <= Len(Names)
    BY <2>1, <2>2, NameFacts, SMT
  <2> DEFINE done == run[i]
             n == Names[i + 1]
             d == Decided(l, done, n, saved)
  <2>4. LoopKeeps(done, i, l, <<>>) /\ \A m \in DOMAIN done.next : done.next[m].ws = saved[m]
    BY <2>3
  <2>5. run[i + 1] = Step(l, done, n, saved)
    BY <1>2, <2>1, <2>2
  <2>6. LoopKeeps(run[i + 1], i + 1, l, <<>>)
    BY <1>a, <2>1, <2>2, <2>4, <2>5, OneMore
  <2>7. n \notin DOMAIN done.next /\ DOMAIN done.next \subseteq Connected(l) /\ DOMAIN done.rest = {}
    BY <1>a, <2>1, <2>2, <2>4, SeenGrows DEF LoopKeeps
  <2> HIDE DEF done, n, d
  <2>8. ASSUME n \in Connected(l) PROVE Given(done, n, saved) = saved[n]
    <3>1. Given(done, n, saved) = Placed(n, done.next, done.rest, saved)
      BY <2>7 DEF Given, Known
    <3>2. saved[n] \in Free(done.next, done.rest)
      BY <2>4, <2>7, <2>8 DEF Free, Taken, Showing
    <3>3. Rule[n] \in Free(done.next, done.rest) => Rule[n] = saved[n]
      BY <2>8 DEF Free
    <3>4. Placed(n, done.next, done.rest, saved) =
            CASE Rule[n] \in Free(done.next, done.rest) -> Rule[n]
              [] Rule[n] \notin Free(done.next, done.rest) /\ n \in DOMAIN saved
                   /\ saved[n] \in Free(done.next, done.rest) -> saved[n]
              [] OTHER -> IF Free(done.next, done.rest) # {}
                          THEN Min(Free(done.next, done.rest)) ELSE 1
      BY DEF Placed, Free
    <3> QED
      BY <2>8, <3>1, <3>2, <3>3, <3>4
  <2>9. \A m \in DOMAIN run[i + 1].next : run[i + 1].next[m].ws = saved[m]
    <3>1. CASE n \in Connected(l)
      <4>1. run[i + 1] = d
        BY <2>5, <3>1 DEF Step, d
      <4>2. /\ DOMAIN d.next = {n} \cup DOMAIN done.next
            /\ d.next[n] = Monitor(DetectedArea(l, n), Given(done, n, saved))
            /\ \A m \in DOMAIN done.next \ {n} : d.next[m] = done.next[m]
        BY DecidedFacts DEF d
      <4> QED
        BY <2>4, <2>8, <3>1, <4>1, <4>2 DEF Monitor
    <3>2. CASE n \notin Connected(l)
      BY <2>4, <2>5, <3>2 DEF Step
    <3> QED
      BY <3>1, <3>2
  <2> QED
    BY <2>6, <2>9
<1>5. T \in SUBSET Nat
  OBVIOUS
<1> HIDE DEF T
<1>6. T = Nat
  BY <1>3, <1>4, <1>5, Induction
<1>7. /\ LoopKeeps(run[Len(Names)], Len(Names), l, <<>>)
      /\ \A n \in DOMAIN run[Len(Names)].next : run[Len(Names)].next[n].ws = saved[n]
  <2>1. Len(Names) \in T /\ Len(Names) <= Len(Names)
    BY <1>6, NameFacts, SMT
  <2> QED
    BY <2>1 DEF T
<1>8. AllNames \cap Connected(l) = Connected(l)
  BY ConnectedNames DEF AllNames
<1> QED
  BY <1>1, <1>7, <1>8, SeenGrows DEF LoopKeeps

(* -------------------------- what every step keeps ------------------------ *)

\* When no event is on its way the monitors are the outputs, where these are.
UpToDate ==
    ~stale => /\ DOMAIN monitors = Connected(layout)
              /\ \A n \in DOMAIN monitors : monitors[n].area = DetectedArea(layout, n)

LEMMA TypedIsSound ==
    MonitorTypeOK => Sound(monitors) /\ layout \in Layouts
BY DEF MonitorTypeOK, Sound, AllNames

LEMMA EmptyIsSound ==
    Sound(<<>>) /\ Distinct(<<>>) /\ DOMAIN <<>> = {}
BY DEF Sound, Distinct

LEMMA OnIsThere ==
    ASSUME NEW ms, NEW n, ms[n].area \in (SUBSET Place) \ {{}}
    PROVE  On(ms, n) \in ms[n].area
<1>1. ms[n].area \subseteq Nat /\ ms[n].area # {}
  BY SMT DEF Place
<1> QED
  BY <1>1, MinIsOne DEF On

\* The monitors of a Detect that has just been run.
LEMMA DetectedMonitors ==
    ASSUME layout' \in Layouts, NEW old, Sound(old), NEW saved,
           monitors' = Detected(layout', old, saved)
    PROVE  /\ DOMAIN monitors' = Connected(layout')
           /\ DOMAIN monitors' \in ((SUBSET Output) \cup {{Fallback}}) \ {{}}
           /\ \A n \in DOMAIN monitors' :
                /\ monitors'[n] \in [area : (SUBSET Place) \ {{}}, ws : WorkspaceId]
                /\ monitors'[n].area = DetectedArea(layout', n)
                /\ On(monitors', n) \in monitors'[n].area
                /\ n \in DOMAIN old => monitors'[n].ws = old[n].ws
           /\ Enough /\ Distinct(old) => Distinct(monitors')
<1>1. /\ DOMAIN monitors' = Connected(layout')
      /\ \A n \in DOMAIN monitors' :
           /\ monitors'[n] \in [area : {DetectedArea(layout', n)}, ws : WorkspaceId]
           /\ n \in DOMAIN old => monitors'[n].ws = old[n].ws
      /\ Enough /\ Distinct(old) => Distinct(monitors')
  BY DetectKeeps
<1>2. /\ Connected(layout') \in ((SUBSET Output) \cup {{Fallback}}) \ {{}}
      /\ \A n \in Connected(layout') : DetectedArea(layout', n) \in (SUBSET Place) \ {{}}
  BY ConnectedNames
<1>3. ASSUME NEW n \in DOMAIN monitors'
      PROVE  /\ monitors'[n] \in [area : (SUBSET Place) \ {{}}, ws : WorkspaceId]
             /\ monitors'[n].area = DetectedArea(layout', n)
             /\ On(monitors', n) \in monitors'[n].area
  <2>1. /\ monitors'[n] \in [area : (SUBSET Place) \ {{}}, ws : WorkspaceId]
        /\ monitors'[n].area = DetectedArea(layout', n)
    BY <1>1, <1>2
  <2>2. On(monitors', n) \in monitors'[n].area
    BY <2>1, OnIsThere
  <2> QED
    BY <2>1, <2>2
<1> QED
  BY <1>1, <1>2, <1>3

\* A switch changes the workspace of the focused monitor and nothing else.
LEMMA SwitchedMonitors ==
    ASSUME MonitorTypeOK, NEW id \in WorkspaceId, SwitchWorkspace(id)
    PROVE  /\ DOMAIN monitors' = DOMAIN monitors
           /\ monitors'[focused] = [area |-> monitors[focused].area, ws |-> id]
           /\ \A n \in DOMAIN monitors \ {focused} : monitors'[n] = monitors[n]
<1>1. focused \in DOMAIN monitors
      /\ monitors[focused] \in [area : (SUBSET Place) \ {{}}, ws : WorkspaceId]
  BY DEF MonitorTypeOK
<1>2. monitors' = [monitors EXCEPT ![focused].ws = id]
  BY DEF SwitchWorkspace
<1> QED
  BY <1>1, <1>2

LEMMA InitialMonitors ==
    Init => MonitorTypeOK /\ UpToDate /\ FloatingIsReachable /\ (Enough => Distinct(monitors))
<1> SUFFICES ASSUME Init
             PROVE  MonitorTypeOK /\ UpToDate /\ FloatingIsReachable
                    /\ (Enough => Distinct(monitors))
  OBVIOUS
<1>1. layout \in Layouts /\ monitors = Detected(layout, <<>>, <<>>)
  BY DEF Init
<1>2. /\ DOMAIN monitors = Connected(layout)
      /\ \A n \in DOMAIN monitors :
           monitors[n] \in [area : {DetectedArea(layout, n)}, ws : WorkspaceId]
      /\ Enough => Distinct(monitors)
  BY <1>1, EmptyIsSound, DetectKeeps
<1>3. /\ Connected(layout) \in ((SUBSET Output) \cup {{Fallback}}) \ {{}}
      /\ \A n \in Connected(layout) : DetectedArea(layout, n) \in (SUBSET Place) \ {{}}
  BY <1>1, ConnectedNames
<1>4. focused \in DOMAIN monitors
  BY DEF Init
<1>5. \A n \in DOMAIN monitors :
        /\ monitors[n] \in [area : (SUBSET Place) \ {{}}, ws : WorkspaceId]
        /\ monitors[n].area = DetectedArea(layout, n)
  BY <1>2, <1>3
<1>6. On(monitors, focused) \in monitors[focused].area /\ monitors[focused].area \subseteq Place
  BY <1>4, <1>5, OnIsThere
<1>7. MonitorTypeOK
  <2>1. home \in [Window -> WorkspaceId] /\ at \in [Window -> Place]
    BY <1>4, <1>5, <1>6 DEF Init
  <2>2. scratch \in [win : managed \cup {None}, shown : BOOLEAN]
    BY DEF Init, NoScratch
  <2>3. restarts \in 0..MaxRestarts
    BY NumbersAreNatural, SMT DEF Init
  <2> QED
    BY <1>1, <1>2, <1>3, <1>4, <1>5, <2>1, <2>2, <2>3 DEF MonitorTypeOK, Init
<1>8. UpToDate
  BY <1>2, <1>5 DEF UpToDate
<1>9. FloatingIsReachable
  BY <1>4, <1>6 DEF FloatingIsReachable, Init, Covered
<1> QED
  BY <1>2, <1>7, <1>8, <1>9

LEMMA RelocatedIsThere ==
    ASSUME NEW w \in Window, NEW primary \in DOMAIN monitors',
           \A n \in DOMAIN monitors' : On(monitors', n) \in monitors'[n].area
    PROVE  \E n \in DOMAIN monitors' : Relocated(w, primary) \in monitors'[n].area
<1> DEFINE shown == Showing(monitors', home[w])
           n == IF shown # {} THEN CHOOSE k \in shown : TRUE ELSE primary
<1>1. n \in DOMAIN monitors'
  <2>1. shown \subseteq DOMAIN monitors'
    BY DEF Showing
  <2> QED
    BY <2>1
<1>2. Relocated(w, primary) = On(monitors', n)
  BY DEF Relocated
<1> QED
  BY <1>1, <1>2

(* ------------------------------ the actions ------------------------------ *)


\* Types, and monitors that are where the outputs are.
Placing == MonitorTypeOK /\ UpToDate

LEMMA ReplugKeeps ==
    Placing /\ Replug => Placing' /\ FloatingIsReachable'
BY DEF Placing, MonitorTypeOK, UpToDate, FloatingIsReachable, Replug, windows

LEMMA HandleKeeps ==
    ASSUME Placing, HandleMonitorEvent
    PROVE  Placing' /\ FloatingIsReachable' /\ (Enough /\ Distinct(monitors) => Distinct(monitors'))
<1>1. layout' = layout /\ layout \in Layouts /\ stale' = FALSE
      /\ monitors' = Detected(layout', monitors, session)
  BY DEF HandleMonitorEvent, Placing, MonitorTypeOK
<1>2. /\ DOMAIN monitors' = Connected(layout')
      /\ DOMAIN monitors' \in ((SUBSET Output) \cup {{Fallback}}) \ {{}}
      /\ \A n \in DOMAIN monitors' :
           /\ monitors'[n] \in [area : (SUBSET Place) \ {{}}, ws : WorkspaceId]
           /\ monitors'[n].area = DetectedArea(layout', n)
           /\ On(monitors', n) \in monitors'[n].area
      /\ Enough /\ Distinct(monitors) => Distinct(monitors')
  BY <1>1, TypedIsSound, DetectedMonitors DEF Placing
<1>3. focused' \in DOMAIN monitors'
  <2>1. Refocused(monitors') \subseteq DOMAIN monitors'
    BY DEF Refocused, Primaries
  <2> QED
    BY <2>1 DEF HandleMonitorEvent, Followed
<1>4. PICK primary \in DOMAIN monitors' :
        at' = [w \in Window |-> IF Orphan(w) THEN Relocated(w, primary) ELSE at[w]]
  BY DEF HandleMonitorEvent, Primaries
<1>5. \A w \in Window : \E n \in DOMAIN monitors' : Relocated(w, primary) \in monitors'[n].area
  BY <1>2, RelocatedIsThere
<1>6. at' \in [Window -> Place]
  <2>1. \A w \in Window : Relocated(w, primary) \in Place
    BY <1>2, <1>5
  <2> QED
    BY <1>4, <2>1 DEF Placing, MonitorTypeOK
<1>7. ASSUME NEW w \in managed \ {scratch.win} PROVE at'[w] \in Covered(monitors')
  <2>1. w \in Window
    BY DEF Placing, MonitorTypeOK
  <2>2. CASE Orphan(w)
    BY <1>4, <1>5, <2>1, <2>2 DEF Covered
  <2>3. CASE ~Orphan(w)
    BY <1>4, <2>1, <2>3 DEF Orphan
  <2> QED
    BY <2>2, <2>3
<1>8. UNCHANGED <<managed, home, scratch, restarts>>
  BY DEF HandleMonitorEvent
<1>9. MonitorTypeOK'
  BY <1>1, <1>2, <1>3, <1>6, <1>8 DEF Placing, MonitorTypeOK
<1>10. UpToDate'
  BY <1>2 DEF UpToDate
<1>11. FloatingIsReachable'
  BY <1>7, <1>8 DEF FloatingIsReachable
<1> QED
  BY <1>2, <1>9, <1>10, <1>11 DEF Placing

LEMMA FocusKeeps ==
    ASSUME Placing, NEW n, FocusMonitor(n)
    PROVE  Placing' /\ (FloatingIsReachable => FloatingIsReachable') /\ monitors' = monitors
BY DEF Placing, MonitorTypeOK, UpToDate, FloatingIsReachable, FocusMonitor, windows

LEMMA SwitchKeeps ==
    ASSUME Placing, NEW id \in WorkspaceId, SwitchWorkspace(id)
    PROVE  /\ Placing' /\ (FloatingIsReachable => FloatingIsReachable')
           /\ Distinct(monitors) => Distinct(monitors')
<1>1. /\ DOMAIN monitors' = DOMAIN monitors
      /\ monitors'[focused] = [area |-> monitors[focused].area, ws |-> id]
      /\ \A n \in DOMAIN monitors \ {focused} : monitors'[n] = monitors[n]
  BY SwitchedMonitors DEF Placing
<1>2. \A n \in DOMAIN monitors :
        /\ monitors'[n] \in [area : (SUBSET Place) \ {{}}, ws : WorkspaceId]
        /\ monitors'[n].area = monitors[n].area
  BY <1>1 DEF Placing, MonitorTypeOK
<1>3. focused' \in DOMAIN monitors'
  BY <1>1 DEF SwitchWorkspace, Followed, Placing, MonitorTypeOK
<1>4. UNCHANGED <<layout, stale, managed, home, at, scratch, session, restarts>>
  BY DEF SwitchWorkspace, windows
<1>5. MonitorTypeOK'
  BY <1>1, <1>2, <1>3, <1>4 DEF Placing, MonitorTypeOK
<1>6. UpToDate'
  BY <1>1, <1>2, <1>4 DEF Placing, UpToDate
<1>7. Covered(monitors') = Covered(monitors)
  BY <1>1, <1>2 DEF Covered
<1>8. FloatingIsReachable => FloatingIsReachable'
  BY <1>4, <1>7 DEF FloatingIsReachable
<1>9. Distinct(monitors) => Distinct(monitors')
  <2>1. \A n \in DOMAIN monitors : monitors[n].ws # id
    BY DEF SwitchWorkspace, Showing
  <2> QED
    BY <1>1, <2>1 DEF Distinct
<1> QED
  BY <1>5, <1>6, <1>8, <1>9 DEF Placing

\* A window is put where a monitor is, and the monitors stay as they are.
LEMMA PutKeeps ==
    ASSUME Placing, NEW w \in Window, NEW p \in Place, NEW id \in WorkspaceId,
           home' = [home EXCEPT ![w] = id],
           at' = at \/ (at' = [at EXCEPT ![w] = p] /\ p \in Covered(monitors)),
           UNCHANGED <<layout, stale, monitors, focused, managed, scratch, session, restarts>>
    PROVE  Placing' /\ (FloatingIsReachable => FloatingIsReachable')
<1>1. home' \in [Window -> WorkspaceId] /\ at' \in [Window -> Place]
  BY DEF Placing, MonitorTypeOK
<1>2. MonitorTypeOK' /\ UpToDate'
  BY <1>1 DEF Placing, MonitorTypeOK, UpToDate
<1>3. ASSUME FloatingIsReachable PROVE FloatingIsReachable'
  <2>1. managed \subseteq Window /\ at \in [Window -> Place]
    BY DEF Placing, MonitorTypeOK
  <2>2. ASSUME ~stale, NEW v \in managed \ {scratch.win} PROVE at'[v] \in Covered(monitors)
    <3>1. at[v] \in Covered(monitors)
      BY <1>3, <2>2 DEF FloatingIsReachable
    <3> QED
      BY <2>1, <2>2, <3>1
  <2> QED
    BY <2>2 DEF FloatingIsReachable
<1> QED
  BY <1>2, <1>3 DEF Placing

LEMMA MoveToMonitorKeeps ==
    ASSUME Placing, NEW w \in Window, NEW n, MoveToMonitor(w, n)
    PROVE  Placing' /\ (FloatingIsReachable => FloatingIsReachable') /\ monitors' = monitors
<1>1. n \in DOMAIN monitors
      /\ monitors[n] \in [area : (SUBSET Place) \ {{}}, ws : WorkspaceId]
  BY DEF MoveToMonitor, Placing, MonitorTypeOK
<1>2. PICK p \in monitors[n].area : at' = [at EXCEPT ![w] = p]
  BY DEF MoveToMonitor
<1>3. p \in Place /\ p \in Covered(monitors) /\ monitors[n].ws \in WorkspaceId
  BY <1>1, <1>2 DEF Covered
<1>4. home' = [home EXCEPT ![w] = monitors[n].ws]
      /\ UNCHANGED <<layout, stale, monitors, focused, managed, scratch, session, restarts>>
  BY DEF MoveToMonitor
<1> QED
  BY <1>2, <1>3, <1>4, PutKeeps

LEMMA MoveToWorkspaceKeeps ==
    ASSUME Placing, NEW w \in Window, NEW id \in WorkspaceId, MoveToWorkspace(w, id)
    PROVE  Placing' /\ (FloatingIsReachable => FloatingIsReachable') /\ monitors' = monitors
<1>1. home' = [home EXCEPT ![w] = id]
      /\ UNCHANGED <<layout, stale, monitors, focused, managed, scratch, session, restarts>>
  BY DEF MoveToWorkspace
<1>2. CASE at' = at
  <2>1. 1 \in Place
    BY NumbersAreNatural, SMT DEF Place
  <2> QED
    BY <1>1, <1>2, <2>1, PutKeeps
<1>3. CASE \E n \in Showing(monitors, id) \ {focused} : at' = [at EXCEPT ![w] = On(monitors, n)]
  <2>1. PICK n \in DOMAIN monitors : at' = [at EXCEPT ![w] = On(monitors, n)]
    BY <1>3 DEF Showing
  <2>2. monitors[n].area \in (SUBSET Place) \ {{}}
    BY DEF Placing, MonitorTypeOK
  <2>3. On(monitors, n) \in Place /\ On(monitors, n) \in Covered(monitors)
    BY <2>2, OnIsThere DEF Covered
  <2> QED
    BY <1>1, <2>1, <2>3, PutKeeps
<1> QED
  BY <1>2, <1>3 DEF MoveToWorkspace

LEMMA ScratchKeeps ==
    ASSUME Placing, ScratchToggle \/ \E w \in Window : ScratchAssign(w)
    PROVE  Placing' /\ (FloatingIsReachable => FloatingIsReachable') /\ monitors' = monitors
<1>1. CASE ScratchToggle
  <2>1. /\ scratch \in [win : managed \cup {None}, shown : BOOLEAN] /\ scratch.win # None
        /\ scratch' = [win |-> scratch.win, shown |-> ~scratch.shown]
    BY <1>1 DEF ScratchToggle, Placing, MonitorTypeOK
  <2>2. On(monitors, focused) \in Place
    <3>1. monitors[focused].area \in (SUBSET Place) \ {{}}
      BY DEF Placing, MonitorTypeOK
    <3> QED
      BY <3>1, OnIsThere
  <2>3. at \in [Window -> Place] /\ managed \subseteq Window
    BY DEF Placing, MonitorTypeOK
  <2>4. at' = at \/ at' = [at EXCEPT ![scratch.win] = On(monitors, focused)]
    BY <1>1 DEF ScratchToggle
  <2>5. at' \in [Window -> Place] /\ \A v \in managed \ {scratch.win} : at'[v] = at[v]
    BY <2>2, <2>3, <2>4
  <2>6. UNCHANGED <<layout, stale, monitors, focused, managed, home, session, restarts>>
    BY <1>1 DEF ScratchToggle
  <2>7. scratch' \in [win : managed \cup {None}, shown : BOOLEAN]
    BY <2>1
  <2> QED
    BY <2>1, <2>5, <2>6, <2>7 DEF Placing, MonitorTypeOK, UpToDate, FloatingIsReachable
<1>2. ASSUME NEW w \in Window, ScratchAssign(w)
      PROVE  Placing' /\ (FloatingIsReachable => FloatingIsReachable') /\ monitors' = monitors
  <2>1. /\ scratch.win = None /\ w \in managed /\ scratch' = [win |-> w, shown |-> FALSE]
        /\ UNCHANGED <<layout, stale, monitors, focused, managed, home, at, session, restarts>>
    BY <1>2 DEF ScratchAssign
  <2>2. None \notin managed
    BY NoneIsNothing DEF Placing, MonitorTypeOK
  <2> QED
    BY <2>1, <2>2 DEF Placing, MonitorTypeOK, UpToDate, FloatingIsReachable
<1> QED
  BY <1>1, <1>2

LEMMA RestartKeeps ==
    ASSUME Placing, Restart
    PROVE  /\ Placing'
           /\ ~ReplugWhileOff /\ FloatingIsReachable => FloatingIsReachable'
           /\ Enough => Distinct(monitors')
<1>1. layout' \in Layouts /\ stale' = FALSE /\ scratch' = NoScratch
      /\ restarts' = restarts + 1 /\ restarts < MaxRestarts
      /\ monitors' = Detected(layout', <<>>, Saved.monitor)
  BY DEF Restart, Placing, MonitorTypeOK
<1>2. /\ DOMAIN monitors' = Connected(layout')
      /\ DOMAIN monitors' \in ((SUBSET Output) \cup {{Fallback}}) \ {{}}
      /\ \A n \in DOMAIN monitors' :
           /\ monitors'[n] \in [area : (SUBSET Place) \ {{}}, ws : WorkspaceId]
           /\ monitors'[n].area = DetectedArea(layout', n)
           /\ On(monitors', n) \in monitors'[n].area
      /\ Enough => Distinct(monitors')
  BY <1>1, EmptyIsSound, DetectedMonitors
<1>3. PICK primary \in DOMAIN monitors' :
        /\ focused' \in Followed({primary})
        /\ managed' = {w \in Window : Recorded(w) \/ Mapped(w)}
        /\ LET fresh == [ws |-> monitors'[primary].ws, at |-> On(monitors', primary)]
           IN /\ home' = [w \in Window |-> Restored(w, fresh).ws]
              /\ at' = [w \in Window |-> Restored(w, fresh).at]
  BY DEF Restart, Primaries
<1> DEFINE fresh == [ws |-> monitors'[primary].ws, at |-> On(monitors', primary)]
<1>4. \A w \in Window :
        /\ Recorded(w) <=> w \in managed \ {scratch.win}
        /\ Recorded(w) => Restored(w, fresh) = [ws |-> home[w], at |-> at[w]]
        /\ ~Recorded(w) => Restored(w, fresh) = fresh
  BY DEF Recorded, Restored, Saved
<1>5. \A w \in Window :
        /\ w \in managed \ {scratch.win} => at'[w] = at[w] /\ home'[w] = home[w]
        /\ w \notin managed \ {scratch.win} =>
             at'[w] = On(monitors', primary) /\ home'[w] = monitors'[primary].ws
  <2>1. \A w \in Window : home'[w] = Restored(w, fresh).ws /\ at'[w] = Restored(w, fresh).at
    BY <1>3
  <2>2. fresh.ws = monitors'[primary].ws /\ fresh.at = On(monitors', primary)
    OBVIOUS
  <2> HIDE DEF fresh
  <2>3. ASSUME NEW w \in Window, w \in managed \ {scratch.win}
        PROVE  at'[w] = at[w] /\ home'[w] = home[w]
    <3>1. Restored(w, fresh) = [ws |-> home[w], at |-> at[w]]
      BY <1>4, <2>3
    <3> QED
      BY <2>1, <3>1
  <2>4. ASSUME NEW w \in Window, w \notin managed \ {scratch.win}
        PROVE  at'[w] = On(monitors', primary) /\ home'[w] = monitors'[primary].ws
    <3>1. Restored(w, fresh) = fresh
      BY <1>4, <2>4
    <3> QED
      BY <2>1, <2>2, <3>1
  <2> QED
    BY <2>3, <2>4
<1>6. home' \in [Window -> WorkspaceId] /\ at' \in [Window -> Place]
  <2>1. home \in [Window -> WorkspaceId] /\ at \in [Window -> Place]
    BY DEF Placing, MonitorTypeOK
  <2>2. On(monitors', primary) \in Place /\ monitors'[primary].ws \in WorkspaceId
    BY <1>2
  <2>3. DOMAIN home' = Window /\ DOMAIN at' = Window
        /\ home' = [w \in Window |-> home'[w]] /\ at' = [w \in Window |-> at'[w]]
    BY <1>3
  <2>4. \A w \in Window : home'[w] \in WorkspaceId /\ at'[w] \in Place
    BY <1>5, <2>1, <2>2
  <2> QED
    BY <2>3, <2>4
<1>7. MonitorTypeOK'
  <2>1. restarts' \in 0..MaxRestarts
    BY <1>1, NumbersAreNatural, SMT DEF Placing, MonitorTypeOK
  <2>2. scratch' \in [win : managed' \cup {None}, shown : BOOLEAN]
    BY <1>1 DEF NoScratch
  <2>3. focused' \in DOMAIN monitors' /\ managed' \subseteq Window
    BY <1>3 DEF Followed
  <2> QED
    BY <1>1, <1>2, <1>6, <2>1, <2>2, <2>3 DEF MonitorTypeOK
<1>8. UpToDate'
  BY <1>2 DEF UpToDate
<1>9. ASSUME ~ReplugWhileOff, FloatingIsReachable PROVE FloatingIsReachable'
  <2>1. layout' = layout /\ ~stale
    BY <1>9 DEF Restart
  <2>2. DOMAIN monitors' = DOMAIN monitors
        /\ \A n \in DOMAIN monitors : monitors'[n].area = monitors[n].area
    BY <1>2, <2>1 DEF Placing, UpToDate
  <2>3. Covered(monitors') = Covered(monitors)
    BY <2>2 DEF Covered
  <2>4. ASSUME NEW w \in managed' PROVE at'[w] \in Covered(monitors')
    <3>1. w \in Window
      BY <1>3
    <3>2. CASE w \in managed \ {scratch.win}
      BY <1>5, <1>9, <2>1, <2>3, <3>1, <3>2 DEF FloatingIsReachable
    <3>3. CASE w \notin managed \ {scratch.win}
      BY <1>2, <1>5, <3>1, <3>3 DEF Covered
    <3> QED
      BY <3>2, <3>3
  <2> QED
    BY <2>4 DEF FloatingIsReachable
<1> QED
  BY <1>2, <1>7, <1>8, <1>9 DEF Placing

(* ----------------------------- the invariants ---------------------------- *)

LEMMA StepKeeps ==
    ASSUME Placing, [Next]_vars
    PROVE  /\ Placing'
           /\ ~ReplugWhileOff /\ FloatingIsReachable => FloatingIsReachable'
           /\ Enough /\ Distinct(monitors) => Distinct(monitors')
<1>1. CASE Replug
  BY <1>1, ReplugKeeps DEF Replug
<1>2. CASE HandleMonitorEvent
  BY <1>2, HandleKeeps
<1>3. CASE \E n \in Output \cup {Fallback} : FocusMonitor(n)
  BY <1>3, FocusKeeps
<1>4. CASE \E id \in WorkspaceId : SwitchWorkspace(id)
  BY <1>4, SwitchKeeps
<1>5. CASE \E w \in Window : \E n \in Output \cup {Fallback} : MoveToMonitor(w, n)
  BY <1>5, MoveToMonitorKeeps
<1>6. CASE \E w \in Window : \E id \in WorkspaceId : MoveToWorkspace(w, id)
  BY <1>6, MoveToWorkspaceKeeps
<1>7. CASE ScratchToggle \/ \E w \in Window : ScratchAssign(w)
  BY <1>7, ScratchKeeps
<1>8. CASE Restart
  BY <1>8, RestartKeeps
<1>9. CASE UNCHANGED vars
  BY <1>9 DEF vars, windows, Placing, MonitorTypeOK, UpToDate, FloatingIsReachable
<1> QED
  BY <1>1, <1>2, <1>3, <1>4, <1>5, <1>6, <1>7, <1>8, <1>9 DEF Next

\* With types and areas right at every step, whatever is plugged in when.
LEMMA AlwaysPlacing == Spec => []Placing
<1>1. Init => Placing
  BY InitialMonitors DEF Placing
<1>2. Placing /\ [Next]_vars => Placing'
  BY StepKeeps
<1> QED
  BY <1>1, <1>2, PTL DEF Spec

\* The monitors' workspaces differ.
Differing == Distinct(monitors)

LEMMA AlwaysDiffering == ASSUME Enough PROVE Spec => []Differing
<1>1. Init => Differing
  BY InitialMonitors DEF Differing
<1>2. Placing /\ Differing /\ [Next]_vars => Differing'
  BY StepKeeps DEF Differing
<1> QED
  BY <1>1, <1>2, AlwaysPlacing, PTL DEF Spec

\* After a hotplug every floating window is on a monitor (Relocate...), and
\* nothing but another hotplug can take it off.  While Kohiko is off nobody
\* relocates, hence the hypothesis.
LEMMA AlwaysReachable == ASSUME ~ReplugWhileOff PROVE Spec => []FloatingIsReachable
<1>1. Init => FloatingIsReachable
  BY InitialMonitors
<1>2. Placing /\ FloatingIsReachable /\ [Next]_vars => FloatingIsReachable'
  BY StepKeeps
<1> QED
  BY <1>1, <1>2, AlwaysPlacing, PTL DEF Spec

LEMMA DifferingIsOneEach == Differing => EachItsOwnWorkspace
<1> SUFFICES ASSUME Differing, NEW id \in WorkspaceId
             PROVE  Cardinality(Showing(monitors, id)) <= 1
  BY DEF EachItsOwnWorkspace
<1>1. CASE Showing(monitors, id) = {}
  BY <1>1, FS_EmptySet
<1>2. CASE Showing(monitors, id) # {}
  <2>1. PICK n \in Showing(monitors, id) : TRUE
    BY <1>2
  <2>2. Showing(monitors, id) = {n}
    BY <2>1 DEF Showing, Differing, Distinct
  <2> QED
    BY <2>2, FS_Singleton
<1> QED
  BY <1>1, <1>2

(* -------------------------------- results -------------------------------- *)

\* Hotplug never shows a workspace on two monitors, forgets a monitor's place
\* or leaves a floating window nowhere, for any number of outputs in any order
\* (MonitorManager::Detect, RelocateOrphanedFloatingWindows).
THEOREM HotplugIsSafe ==
    ASSUME Cardinality(Output) < NumWorkspaces, ~ReplugWhileOff
    PROVE  Spec => []MonitorSafety
<1>1. Enough
  BY DEF Enough
<1>2. Placing => MonitorTypeOK
  BY DEF Placing
<1>3. MonitorTypeOK /\ EachItsOwnWorkspace /\ FloatingIsReachable => MonitorSafety
  BY DEF MonitorSafety
<1> QED
  BY <1>1, <1>2, <1>3, AlwaysPlacing, AlwaysDiffering, AlwaysReachable, DifferingIsOneEach, PTL

\* A step that is no restart leaves every connected output's workspace alone,
\* but for the focused monitor's in a switch.
LEMMA StepSpares ==
    ASSUME Placing, [Next]_vars, restarts' = restarts,
           NEW n \in DOMAIN monitors \cap DOMAIN monitors', monitors'[n].ws # monitors[n].ws
    PROVE  n = focused /\ stale' = stale
<1>1. CASE HandleMonitorEvent
  <2>1. layout' \in Layouts /\ monitors' = Detected(layout', monitors, session)
    BY <1>1 DEF HandleMonitorEvent, Placing, MonitorTypeOK
  <2>2. monitors'[n].ws = monitors[n].ws
    BY <2>1, TypedIsSound, DetectedMonitors DEF Placing
  <2> QED
    BY <2>2
<1>2. CASE \E id \in WorkspaceId : SwitchWorkspace(id)
  <2>1. PICK id \in WorkspaceId : SwitchWorkspace(id)
    BY <1>2
  <2>2. n = focused
    BY <2>1, SwitchedMonitors DEF Placing
  <2> QED
    BY <2>1, <2>2 DEF SwitchWorkspace
<1>3. CASE Restart
  BY <1>3, SMT DEF Restart, Placing, MonitorTypeOK
<1>4. CASE UNCHANGED monitors
  BY <1>4
<1> QED
  BY <1>1, <1>2, <1>3, <1>4
     DEF Next, vars, Replug, FocusMonitor, MoveToMonitor, MoveToWorkspace, ScratchAssign,
         ScratchToggle

\* Hotplug keeps the workspace of an output that stays, whatever the rules and
\* the saved session say and however few workspaces there are
\* (MonitorManager::Detect matches by name first).
THEOREM HotplugSparesOthers == Spec => SurvivorsKeepTheirWorkspace
<1>1. Placing /\ [Next]_vars =>
        [restarts' = restarts =>
           \A n \in DOMAIN monitors \cap DOMAIN monitors' :
             monitors'[n].ws # monitors[n].ws => n = focused /\ stale' = stale]_vars
  BY StepSpares
<1> QED
  BY <1>1, AlwaysPlacing, PTL DEF Spec, SurvivorsKeepTheirWorkspace

\* What a restart with the same outputs gives each of them.
LEMMA RestartReplays ==
    ASSUME Placing, Differing, [Next]_vars, restarts' # restarts,
           DOMAIN monitors' = DOMAIN monitors,
           \A n \in DOMAIN monitors : Rule[n] \in WorkspaceId => Rule[n] = monitors[n].ws,
           NEW n \in DOMAIN monitors
    PROVE  monitors'[n].ws = monitors[n].ws
<1>1. Restart
  BY DEF Next, vars, Replug, HandleMonitorEvent, FocusMonitor, SwitchWorkspace, MoveToMonitor,
         MoveToWorkspace, ScratchAssign, ScratchToggle
<1>2. layout' \in Layouts /\ monitors' = Detected(layout', <<>>, Saved.monitor)
  BY <1>1 DEF Restart, Placing, MonitorTypeOK
<1>3. DOMAIN monitors' = Connected(layout')
  BY <1>2, EmptyIsSound, DetectedMonitors
<1> DEFINE saved == Saved.monitor
<1>4. saved = [m \in DOMAIN monitors |-> monitors[m].ws]
  BY DEF Saved
<1>5. DOMAIN saved = Connected(layout')
  BY <1>3, <1>4
<1>6. \A m \in Connected(layout') : saved[m] = monitors[m].ws /\ saved[m] \in WorkspaceId
  BY <1>3, <1>4 DEF Placing, MonitorTypeOK
<1> HIDE DEF saved
<1>7. /\ \A m, k \in Connected(layout') : saved[m] = saved[k] => m = k
      /\ \A m \in Connected(layout') : Rule[m] \in WorkspaceId => Rule[m] = saved[m]
  BY <1>3, <1>6 DEF Differing, Distinct
<1>8. \A m \in Connected(layout') : Detected(layout', <<>>, saved)[m].ws = saved[m]
  BY <1>2, <1>5, <1>6, <1>7, DetectReplays
<1> QED
  BY <1>2, <1>3, <1>6, <1>8 DEF saved

\* A clean restart gives every monitor its workspace back, in whatever order
\* XRandR lists them (SessionStore::LastWorkspaceForMonitor in Detect).
THEOREM RestartIsFaithful ==
    ASSUME Cardinality(Output) < NumWorkspaces
    PROVE  Spec => RestartRestores
<1>1. Enough
  BY DEF Enough
<1>2. Placing /\ Differing /\ [Next]_vars =>
        [restarts' # restarts /\ DOMAIN monitors' = DOMAIN monitors
           /\ (\A n \in DOMAIN monitors : Rule[n] \in WorkspaceId => Rule[n] = monitors[n].ws)
         => \A n \in DOMAIN monitors : monitors'[n].ws = monitors[n].ws]_vars
  BY RestartReplays
<1> QED
  BY <1>1, <1>2, AlwaysPlacing, AlwaysDiffering, PTL DEF Spec, RestartRestores
==============================================================================
