------------------------- MODULE SettingsWindow_proofs -------------------------
(***************************************************************************)
(* What Kohiko Settings promises of kohiko.conf, for any file, any schema   *)
(* and any number of gestures, events and restarts:                        *)
(*                                                                         *)
(*   - the file is never half-written, wherever Settings or Kohiko is      *)
(*     killed and whichever call fails that the code looks at, as long as  *)
(*     the two do not save together and no last flush fails (NeverTorn);   *)
(*     and Kohiko runs with what a save put there, but for the keys it     *)
(*     reads at start only (SaveIsInForce);                                *)
(*   - a key outside the text follows one of four slips (FaultsAreSlips);  *)
(*   - a save and a migration change nothing but their own keys            *)
(*     (SavesSpareOthers);                                                 *)
(*   - what is not marked as changed is what the file says (SavedShows).   *)
(*                                                                         *)
(* First the edits of a file's lines, then those of the window, each a     *)
(* lemma about the operator; then the invariants of the two together.      *)
(***************************************************************************)
EXTENDS SettingsWindow, FiniteSetTheorems, SequenceTheorems, TLAPS

(* ------------------------- the places of a list -------------------------- *)

\* Counting those before is counting from 0, in order and without a gap.
LEMMA BeforeCounts ==
    ASSUME NEW positions \in SUBSET Nat, IsFiniteSet(positions)
    PROVE  /\ \A i \in positions : Before(positions, i) \in 0..(Cardinality(positions) - 1)
           /\ \A i, k \in positions : i < k => Before(positions, i) < Before(positions, k)
           /\ {Before(positions, i) : i \in positions} = 0..(Cardinality(positions) - 1)
<1> DEFINE earlier(i) == {j \in positions : j < i}
<1>0. Cardinality(positions) \in Nat
  BY FS_CardinalityType
<1>1. ASSUME NEW i \in positions
      PROVE  IsFiniteSet(earlier(i)) /\ Before(positions, i) \in 0..(Cardinality(positions) - 1)
  <2>1. i \in Nat
    OBVIOUS
  <2>2. earlier(i) \in SUBSET (positions \ {i})
    BY <2>1, SMT
  <2>3. IsFiniteSet(positions \ {i}) /\ Cardinality(positions \ {i}) = Cardinality(positions) - 1
    BY FS_RemoveElement
  <2>4. /\ IsFiniteSet(earlier(i)) /\ Cardinality(earlier(i)) \in Nat
        /\ Cardinality(earlier(i)) <= Cardinality(positions) - 1
    <3>1. IsFiniteSet(earlier(i)) /\ Cardinality(earlier(i)) <= Cardinality(positions \ {i})
      BY <2>2, <2>3, FS_Subset
    <3> QED BY <2>3, <3>1, FS_CardinalityType
  <2>5. Before(positions, i) = Cardinality(earlier(i))
    BY DEF Before
  <2> HIDE DEF earlier
  <2> QED BY <1>0, <2>4, <2>5, SMT
<1>2. ASSUME NEW i \in positions, NEW k \in positions, i < k
      PROVE  Before(positions, i) < Before(positions, k)
  <2>1. i \in Nat /\ k \in Nat
    OBVIOUS
  <2>2. i \in earlier(k) /\ earlier(i) \in SUBSET (earlier(k) \ {i})
    <3>1. \A j \in positions : j < i => j < k /\ j # i
      BY <1>2, <2>1, SMT
    <3> QED BY <1>2, <3>1
  <2>3. /\ IsFiniteSet(earlier(k) \ {i})
        /\ Cardinality(earlier(k) \ {i}) = Cardinality(earlier(k)) - 1
    BY <1>1, <2>2, FS_RemoveElement
  <2>4. Cardinality(earlier(i)) <= Cardinality(earlier(k) \ {i})
    BY <2>2, <2>3, FS_Subset
  <2>5. Cardinality(earlier(i)) \in Nat /\ Cardinality(earlier(k)) \in Nat
    BY <1>1, FS_CardinalityType
  <2>6. Before(positions, i) = Cardinality(earlier(i)) /\ Before(positions, k) = Cardinality(earlier(k))
    BY DEF Before
  <2> HIDE DEF earlier
  <2> QED BY <2>3, <2>4, <2>5, <2>6, SMT
<1>3. {Before(positions, i) : i \in positions} = 0..(Cardinality(positions) - 1)
  <2> DEFINE places == 0..(Cardinality(positions) - 1)
             f == [i \in positions |-> Before(positions, i)]
  <2>1. f \in Injection(positions, places)
    <3>1. \A i \in positions : f[i] \in Nat
      <4>1. \A n \in places : n \in Nat
        BY <1>0, SMT
      <4> QED BY <1>1, <4>1
    <3>2. \A i, k \in positions : i # k => i < k \/ k < i
      BY SMT
    <3>3. ASSUME NEW i \in positions, NEW k \in positions, i < k PROVE f[i] # f[k]
      <4>1. f[i] < f[k]
        BY <1>2, <3>3
      <4> QED BY <3>1, <4>1, SMT
    <3>4. \A i, k \in positions : f[i] = f[k] => i = k
      BY <3>2, <3>3
    <3> QED BY <1>1, <3>4 DEF Injection, IsInjective
  <2>2. IsFiniteSet(places) /\ Cardinality(places) = Cardinality(positions)
    <3>1. 0 \in Int /\ Cardinality(positions) - 1 \in Int
      BY <1>0, SMT
    <3>2. /\ IsFiniteSet(places)
          /\ Cardinality(places) = IF 0 > Cardinality(positions) - 1 THEN 0
                                   ELSE (Cardinality(positions) - 1) - 0 + 1
      BY <3>1, FS_Interval
    <3> HIDE DEF places
    <3> QED BY <1>0, <3>2, SMT
  <2>3. f \in Surjection(positions, places)
    BY <2>1, <2>2, FS_Injection
  <2>4. \A place \in places : \E i \in positions : f[i] = place
    BY <2>3 DEF Surjection
  <2> QED BY <1>1, <2>4
<1> QED
  BY <1>1, <1>2, <1>3

\* The positions that are kept can be counted through.
LEMMA NthCounts ==
    ASSUME NEW kept \in SUBSET Nat, IsFiniteSet(kept)
    PROVE  /\ \A n \in 1..Cardinality(kept) : Nth(kept, n) \in kept /\ Before(kept, Nth(kept, n)) = n - 1
           /\ \A n, m \in 1..Cardinality(kept) : n < m => Nth(kept, n) < Nth(kept, m)
           /\ \A i \in kept : \E n \in 1..Cardinality(kept) : Nth(kept, n) = i
<1>0. Cardinality(kept) \in Nat
  BY FS_CardinalityType
<1>1. ASSUME NEW n \in 1..Cardinality(kept)
      PROVE  Nth(kept, n) \in kept /\ Before(kept, Nth(kept, n)) = n - 1
  <2>1. n - 1 \in 0..(Cardinality(kept) - 1)
    BY <1>0, SMT
  <2>2. n - 1 \in {Before(kept, i) : i \in kept}
    BY <2>1, BeforeCounts
  <2> QED BY <2>2 DEF Nth
<1>2. ASSUME NEW i \in kept, NEW k \in kept, Before(kept, i) = Before(kept, k) PROVE i = k
  <2>1. i < k \/ k < i \/ i = k
    BY SMT
  <2>2. Before(kept, i) \in Int
    BY <1>0, BeforeCounts, SMT
  <2>3. ~ (Before(kept, i) < Before(kept, k)) /\ ~ (Before(kept, k) < Before(kept, i))
    BY <1>2, <2>2, SMT
  <2> QED BY <2>1, <2>3, BeforeCounts
<1>3. ASSUME NEW n \in 1..Cardinality(kept), NEW m \in 1..Cardinality(kept), n < m
      PROVE  Nth(kept, n) < Nth(kept, m)
  <2>1. Nth(kept, n) \in Nat /\ Nth(kept, m) \in Nat
    BY <1>1
  <2>2. n - 1 # m - 1 /\ ~ (m - 1 < n - 1)
    BY <1>3, SMT
  <2>3. Nth(kept, n) # Nth(kept, m)
    BY <1>1, <2>2
  <2>4. ~ (Nth(kept, m) < Nth(kept, n))
    BY <1>1, <2>2, BeforeCounts
  <2> QED BY <2>1, <2>3, <2>4, SMT
<1>4. ASSUME NEW i \in kept PROVE \E n \in 1..Cardinality(kept) : Nth(kept, n) = i
  <2>1. Before(kept, i) \in 0..(Cardinality(kept) - 1)
    BY BeforeCounts
  <2>2. PICK n \in 1..Cardinality(kept) : n - 1 = Before(kept, i)
    BY <1>0, <2>1, SMT
  <2> QED BY <1>1, <1>2, <2>2
<1> QED
  BY <1>1, <1>3, <1>4

\* Where one list of places has for each place of another one of its own, in
\* the same order, the two are counted alike.
LEMMA SameInOrder ==
    ASSUME NEW S \in SUBSET Nat, IsFiniteSet(S), NEW T \in SUBSET Nat, NEW h \in [S -> T],
           \A t \in T : \E i \in S : h[i] = t,
           \A i, k \in S : i < k => h[i] < h[k]
    PROVE  /\ IsFiniteSet(T) /\ Cardinality(T) = Cardinality(S)
           /\ \A n \in 1..Cardinality(S) : Nth(S, n) \in S /\ Nth(T, n) = h[Nth(S, n)]
<1>0. Cardinality(S) \in Nat
  BY FS_CardinalityType
<1>1. \A i, k \in S : h[i] = h[k] => i = k
  <2>1. \A i, k \in S : i < k \/ k < i \/ i = k
    BY SMT
  <2>2. \A a, b \in T : a < b => a # b
    BY SMT
  <2> QED BY <2>1, <2>2
<1>2. \A i, k \in S : h[i] < h[k] => i < k
  <2>1. \A i, k \in S : i < k \/ k < i \/ i = k
    BY SMT
  <2>2. \A a, b \in T : a < b => a # b /\ ~ (b < a)
    BY SMT
  <2> QED BY <2>1, <2>2
<1>3. IsFiniteSet(T) /\ Cardinality(T) = Cardinality(S)
  <2>1. h \in Bijection(S, T)
    BY <1>1 DEF Bijection, Injection, IsInjective, Surjection
  <2> QED BY <2>1, FS_Bijection DEF ExistsBijection
<1>4. ASSUME NEW i \in S PROVE Before(T, h[i]) = Before(S, i)
  <2> DEFINE old == {j \in S : j < i}
             new == {t \in T : t < h[i]}
             g == [j \in old |-> h[j]]
  <2>1. \A j \in old : g[j] \in new
    OBVIOUS
  <2>2. \A t \in new : \E j \in old : g[j] = t
    BY <1>2
  <2>3. g \in Bijection(old, new)
    BY <1>1, <2>1, <2>2 DEF Bijection, Injection, IsInjective, Surjection
  <2>4. IsFiniteSet(old)
    BY FS_Subset
  <2>5. Cardinality(new) = Cardinality(old)
    BY <2>3, <2>4, FS_Bijection DEF ExistsBijection
  <2> QED BY <2>5 DEF Before
<1>5. ASSUME NEW n \in 1..Cardinality(S)
      PROVE  Nth(S, n) \in S /\ Nth(T, n) = h[Nth(S, n)]
  <2>1. Nth(S, n) \in S /\ Before(S, Nth(S, n)) = n - 1
    BY NthCounts
  <2>2. Nth(T, n) \in T /\ Before(T, Nth(T, n)) = n - 1
    BY <1>3, NthCounts
  <2>3. PICK i \in S : h[i] = Nth(T, n)
    BY <2>2
  <2>4. Before(S, i) = Before(S, Nth(S, n))
    BY <1>4, <2>1, <2>2, <2>3
  <2>5. Before(S, i) \in Nat
    BY <1>0, BeforeCounts, SMT
  <2>6. ~ (i < Nth(S, n)) /\ ~ (Nth(S, n) < i)
    <3>1. ~ (Before(S, i) < Before(S, Nth(S, n))) /\ ~ (Before(S, Nth(S, n)) < Before(S, i))
      BY <2>4, <2>5, SMT
    <3> QED BY <2>1, <3>1, BeforeCounts
  <2>7. i = Nth(S, n)
    <3>1. \A j, k \in Nat : ~ (j < k) /\ ~ (k < j) => j = k
      BY SMT
    <3> QED BY <2>1, <2>6, <3>1
  <2> QED BY <2>1, <2>3, <2>7
<1> QED
  BY <1>3, <1>5

\* The places of a whole list are counted by themselves.
LEMMA NthOfAll ==
    ASSUME NEW n \in Nat
    PROVE  /\ IsFiniteSet(1..n) /\ Cardinality(1..n) = n /\ 1..n \in SUBSET Nat
           /\ \A i \in 1..n : Nth(1..n, i) = i
<1>1. IsFiniteSet(1..n) /\ Cardinality(1..n) = n
  <2>1. Cardinality(1..n) = IF 1 > n THEN 0 ELSE n - 1 + 1
    BY FS_Interval, SMT
  <2> QED BY <2>1, FS_Interval, SMT
<1>2. 1..n \in SUBSET Nat
  BY SMT
<1>3. ASSUME NEW i \in 1..n PROVE Before(1..n, i) = i - 1
  <2>1. {j \in 1..n : j < i} = 1..(i - 1)
    BY SMT
  <2>2. Cardinality(1..(i - 1)) = IF 1 > i - 1 THEN 0 ELSE (i - 1) - 1 + 1
    BY FS_Interval, SMT
  <2>3. Cardinality(1..(i - 1)) = i - 1
    BY <2>2, SMT
  <2> QED BY <2>1, <2>3 DEF Before
<1>4. ASSUME NEW i \in 1..n PROVE Nth(1..n, i) = i
  <2>1. Nth(1..n, i) \in 1..n /\ Before(1..n, Nth(1..n, i)) = i - 1
    BY <1>1, <1>2, NthCounts
  <2>2. Nth(1..n, i) - 1 = i - 1
    BY <1>3, <2>1
  <2> QED BY <2>1, <2>2, SMT
<1> QED
  BY <1>1, <1>2, <1>4

LEMMA NthOfBefore ==
    ASSUME NEW kept \in SUBSET Nat, IsFiniteSet(kept), NEW i \in kept
    PROVE  /\ Before(kept, i) + 1 \in 1..Cardinality(kept)
           /\ Nth(kept, Before(kept, i) + 1) = i
<1>0. Cardinality(kept) \in Nat
  BY FS_CardinalityType
<1>1. PICK n \in 1..Cardinality(kept) : Nth(kept, n) = i
  BY NthCounts
<1>2. Before(kept, i) = n - 1
  BY <1>1, NthCounts
<1>3. Before(kept, i) + 1 = n
  BY <1>0, <1>2, SMT
<1> QED
  BY <1>1, <1>3

(* ------------------------- the lines of kohiko.conf ---------------------- *)

\* The strings, with those the code itself writes named: the provers do not
\* know that a literal is a string.
Name == STRING \cup {"", "1", "true", "false", "junk", "tile", "workspace", "flag", "count", "ws1",
                     "bind", "windowrule", "monitor", "half", "Kohiko Settings", "Kohiko migration"}

ConfLine ==
    {l \in [key : Name, val : Seq(Name), form : {"plain", "spaced", "comment"}] :
       l.form # "comment" => Len(l.val) = Cells(l.key)}

\* h says where each line of old went, the order kept.
Carries(h, old, S, new, T) ==
    /\ S \in SUBSET Nat /\ IsFiniteSet(S) /\ T \in SUBSET Nat
    /\ h \in [S -> T] /\ \A t \in T : \E i \in S : h[i] = t
    /\ \A i, k \in S : i < k => h[i] < h[k]
    /\ \A i \in S : new[h[i]].val = old[i].val

\* Reading the same lines in the same order gives the same values.
LEMMA MovedValues ==
    ASSUME NEW old, NEW S, NEW new, NEW T, NEW h, Carries(h, old, S, new, T)
    PROVE  Values(new, T) = Values(old, S)
<1>1. /\ Cardinality(T) = Cardinality(S)
      /\ \A n \in 1..Cardinality(S) : Nth(S, n) \in S /\ Nth(T, n) = h[Nth(S, n)]
  BY SameInOrder DEF Carries
<1>2. \A n \in 1..Cardinality(S) : new[Nth(T, n)].val = old[Nth(S, n)].val
  BY <1>1 DEF Carries
<1> QED
  BY <1>1, <1>2 DEF Values

LEMMA SameValues ==
    ASSUME NEW old, NEW new, NEW S \in SUBSET Nat, IsFiniteSet(S),
           \A i \in S : new[i].val = old[i].val
    PROVE  Values(new, S) = Values(old, S)
<1>1. \A n \in 1..Cardinality(S) : Nth(S, n) \in S
  BY NthCounts
<1> QED
  BY <1>1 DEF Values

LEMMA PlacesOfLines ==
    ASSUME NEW X, NEW seq \in Seq(X), NEW S \in SUBSET DOMAIN seq
    PROVE  /\ DOMAIN seq = 1..Len(seq) /\ Len(seq) \in Nat
           /\ S \in SUBSET Nat /\ IsFiniteSet(S) /\ Cardinality(S) \in Nat
<1>1. Len(seq) \in Nat /\ DOMAIN seq = 1..Len(seq)
  BY LenProperties
<1>2. IsFiniteSet(1..Len(seq)) /\ 1..Len(seq) \in SUBSET Nat
  BY <1>1, NthOfAll
<1>3. IsFiniteSet(S)
  BY <1>1, <1>2, FS_Subset
<1> QED
  BY <1>1, <1>2, <1>3, FS_CardinalityType

LEMMA RemainingElements ==
    ASSUME NEW X, NEW seq \in Seq(X), NEW S \in SUBSET DOMAIN seq
    PROVE  /\ Remaining(seq, S) \in Seq(X) /\ Len(Remaining(seq, S)) = Cardinality(S)
           /\ \A n \in 1..Cardinality(S) :
                Nth(S, n) \in S /\ Remaining(seq, S)[n] = seq[Nth(S, n)]
<1>1. /\ DOMAIN seq = 1..Len(seq)
      /\ S \in SUBSET Nat /\ IsFiniteSet(S) /\ Cardinality(S) \in Nat
  BY PlacesOfLines
<1>2. \A n \in 1..Cardinality(S) : Nth(S, n) \in S
  BY <1>1, NthCounts
<1>3. \A n \in 1..Cardinality(S) : seq[Nth(S, n)] \in X
  BY <1>1, <1>2, ElementOfSeq
<1> DEFINE rest == Remaining(seq, S)
<1>4. rest = [n \in 1..Cardinality(S) |-> seq[Nth(S, n)]]
  BY DEF Remaining
<1> HIDE DEF rest
<1>5. rest \in Seq(X) /\ Len(rest) = Cardinality(S)
  BY <1>1, <1>3, <1>4
<1> QED
  BY <1>2, <1>4, <1>5 DEF rest

LEMMA ValuesElements ==
    ASSUME NEW ls \in Seq(ConfLine), NEW S \in SUBSET DOMAIN ls, NEW X,
           \A i \in S : ls[i].val \in X
    PROVE  /\ Values(ls, S) \in Seq(X) /\ Len(Values(ls, S)) = Cardinality(S)
           /\ \A n \in 1..Cardinality(S) :
                Nth(S, n) \in S /\ Values(ls, S)[n] = ls[Nth(S, n)].val
<1>1. S \in SUBSET Nat /\ IsFiniteSet(S) /\ Cardinality(S) \in Nat
  BY PlacesOfLines
<1>2. \A n \in 1..Cardinality(S) : Nth(S, n) \in S
  BY <1>1, NthCounts
<1>3. \A n \in 1..Cardinality(S) : ls[Nth(S, n)].val \in X
  BY <1>2
<1> DEFINE vals == Values(ls, S)
<1>4. vals = [n \in 1..Cardinality(S) |-> ls[Nth(S, n)].val]
  BY DEF Values
<1> HIDE DEF vals
<1>5. vals \in Seq(X) /\ Len(vals) = Cardinality(S)
  BY <1>1, <1>3, <1>4
<1> QED
  BY <1>2, <1>4, <1>5 DEF vals

LEMMA PlacesOfKeys ==
    ASSUME NEW ls \in Seq(ConfLine), NEW key
    PROVE  /\ Active(ls, key) \in SUBSET DOMAIN ls /\ InBlock(ls, key) \in SUBSET DOMAIN ls
           /\ InBlock(ls, key) \subseteq Active(ls, key)
BY DEF Active, InBlock

\* What Config reads of a key is the last of its values.
LEMMA LastOfAll ==
    ASSUME NEW ls \in Seq(ConfLine), NEW key
    PROVE  /\ Contains(ls, key) <=> Cardinality(Active(ls, key)) # 0
           /\ Contains(ls, key) =>
                /\ LastActive(ls, key) \in Active(ls, key)
                /\ \A j \in Active(ls, key) : j <= LastActive(ls, key)
                /\ \A fallback :
                     GetString(ls, key, fallback) = GetAll(ls, key)[Cardinality(Active(ls, key))]
<1> DEFINE A == Active(ls, key)
           last == Nth(A, Cardinality(A))
<1>1. A \in SUBSET Nat /\ IsFiniteSet(A) /\ Cardinality(A) \in Nat
  BY PlacesOfLines, PlacesOfKeys
<1>2. Contains(ls, key) <=> Cardinality(A) # 0
  BY <1>1, FS_EmptySet DEF Contains
<1>3. ASSUME Contains(ls, key)
      PROVE  /\ LastActive(ls, key) \in A /\ \A j \in A : j <= LastActive(ls, key)
             /\ LastActive(ls, key) = last
  <2>1. Cardinality(A) \in 1..Cardinality(A)
    BY <1>1, <1>2, <1>3, SMT
  <2>2. last \in A
    BY <1>1, <2>1, NthCounts
  <2>3. ASSUME NEW j \in A PROVE j <= last
    <3>1. PICK n \in 1..Cardinality(A) : Nth(A, n) = j
      BY <1>1, NthCounts
    <3>2. n < Cardinality(A) \/ n = Cardinality(A)
      BY <1>1, SMT
    <3>3. CASE n < Cardinality(A)
      <4>1. j < last
        BY <1>1, <2>1, <3>1, <3>3, NthCounts
      <4> QED BY <1>1, <2>2, <4>1, SMT
    <3>4. CASE n = Cardinality(A)
      BY <1>1, <2>2, <3>1, <3>4, SMT
    <3> QED BY <3>2, <3>3, <3>4
  <2>4. LastActive(ls, key) \in A /\ \A j \in A : j <= LastActive(ls, key)
    BY <2>2, <2>3 DEF LastActive
  <2>5. LastActive(ls, key) <= last /\ last <= LastActive(ls, key)
    BY <2>2, <2>3, <2>4
  <2>6. \A j, k \in Nat : j <= k /\ k <= j => j = k
    BY SMT
  <2> QED BY <1>1, <2>2, <2>4, <2>5, <2>6
<1>4. ASSUME Contains(ls, key), NEW fallback
      PROVE  GetString(ls, key, fallback) = GetAll(ls, key)[Cardinality(A)]
  <2>1. Cardinality(A) \in 1..Cardinality(A)
    BY <1>1, <1>2, <1>4, SMT
  <2>2. GetString(ls, key, fallback) = ls[last].val
    BY <1>3, <1>4 DEF GetString
  <2> QED BY <2>1, <2>2 DEF GetAll, Values
<1> QED
  BY <1>2, <1>3, <1>4

LEMMA SameAllSameString ==
    ASSUME NEW old \in Seq(ConfLine), NEW new \in Seq(ConfLine), NEW key,
           GetAll(new, key) = GetAll(old, key)
    PROVE  /\ Contains(old, key) <=> Contains(new, key)
           /\ \A fallback : GetString(new, key, fallback) = GetString(old, key, fallback)
<1>1. DOMAIN GetAll(old, key) = 1..Cardinality(Active(old, key))
      /\ DOMAIN GetAll(new, key) = 1..Cardinality(Active(new, key))
  BY DEF GetAll, Values
<1>2. Cardinality(Active(old, key)) \in Nat /\ Cardinality(Active(new, key)) \in Nat
  BY PlacesOfLines, PlacesOfKeys
<1>3. \A n, m \in Nat : 1..n = 1..m => n = m
  <2>1. SUFFICES ASSUME NEW n \in Nat, NEW m \in Nat, 1..n = 1..m PROVE n = m
    OBVIOUS
  <2>2. Cardinality(1..n) = n /\ Cardinality(1..m) = m
    BY NthOfAll
  <2> QED BY <2>1, <2>2
<1>4. Cardinality(Active(old, key)) = Cardinality(Active(new, key))
  BY <1>1, <1>2, <1>3
<1>5. Contains(old, key) <=> Contains(new, key)
  BY <1>4, LastOfAll
<1>6. CASE Contains(old, key)
  BY <1>4, <1>5, <1>6, LastOfAll
<1>7. CASE ~Contains(old, key)
  BY <1>5, <1>7 DEF GetString
<1> QED
  BY <1>5, <1>6, <1>7

(* --------------------------- ConfigWriter's edits ------------------------ *)

\* What is left of the others: the same values of every key but one, and every
\* comment.
SparesOthers(old, new, key) ==
    /\ \A k : k # key => /\ GetAll(new, k) = GetAll(old, k)
                         /\ GetRawBlock(new, k) = GetRawBlock(old, k)
    /\ \A i \in DOMAIN old : old[i].form = "comment" => \E j \in DOMAIN new : new[j] = old[i]

LEMMA SparesNothing == \A ls, key : SparesOthers(ls, ls, key)
BY DEF SparesOthers

\* Where the lines of other keys stay where they are.
LEMMA SparesWhatStays ==
    ASSUME NEW old \in Seq(ConfLine), NEW new \in Seq(ConfLine), NEW key,
           DOMAIN old \subseteq DOMAIN new,
           \A i \in DOMAIN old : \/ new[i] = old[i]
                                 \/ /\ old[i].key = key /\ new[i].key = key
                                    /\ old[i].form # "comment",
           \A j \in DOMAIN new \ DOMAIN old : new[j].key = key \/ new[j].form = "comment"
    PROVE  SparesOthers(old, new, key)
<1>1. ASSUME NEW k, k # key
      PROVE  /\ Active(new, k) = Active(old, k) /\ InBlock(new, k) = InBlock(old, k)
             /\ \A i \in Active(old, k) : new[i] = old[i]
  BY <1>1 DEF Active, InBlock
<1>2. ASSUME NEW k, k # key
      PROVE  GetAll(new, k) = GetAll(old, k) /\ GetRawBlock(new, k) = GetRawBlock(old, k)
  <2>1. /\ Active(old, k) \in SUBSET Nat /\ IsFiniteSet(Active(old, k))
        /\ InBlock(old, k) \in SUBSET Nat /\ IsFiniteSet(InBlock(old, k))
    BY PlacesOfLines, PlacesOfKeys
  <2>2. \A i \in Active(old, k) : new[i].val = old[i].val
    BY <1>1, <1>2
  <2>3. \A i \in InBlock(old, k) : new[i].val = old[i].val
    BY <2>2, PlacesOfKeys
  <2>4. Values(new, Active(old, k)) = Values(old, Active(old, k))
    BY <2>1, <2>2, SameValues
  <2>5. Values(new, InBlock(old, k)) = Values(old, InBlock(old, k))
    BY <2>1, <2>3, SameValues
  <2> QED BY <1>1, <1>2, <2>4, <2>5 DEF GetAll, GetRawBlock
<1> QED
  BY <1>2 DEF SparesOthers

LEMMA MarkersAreLines ==
    /\ SettingsMarker \in ConfLine /\ SettingsMarker.form = "comment"
    /\ MigrationMarker \in ConfLine /\ MigrationMarker.form = "comment"
<1>1. ASSUME NEW key \in Name
      PROVE  Comment(key, <<>>) \in ConfLine /\ Comment(key, <<>>).form = "comment"
  <2>1. \A val \in Seq(Name) : [key |-> key, val |-> val, form |-> "comment"]
                                 \in [key : Name, val : Seq(Name), form : {"plain", "spaced", "comment"}]
    OBVIOUS
  <2>2. <<>> \in Seq(Name)
    OBVIOUS
  <2> QED BY <2>1, <2>2 DEF ConfLine, Comment
<1>2. "Kohiko Settings" \in Name /\ "Kohiko migration" \in Name
  BY DEF Name
<1> QED
  BY <1>1, <1>2, Zenon DEF SettingsMarker, MigrationMarker

LEMMA RowsAreSequences ==
    \A n \in Nat : \A f \in [1..n -> Name] : f \in Seq(Name) /\ Len(f) = n
<1>1. SUFFICES ASSUME NEW n \in Nat, NEW f \in [1..n -> Name]
               PROVE  f \in Seq(Name) /\ Len(f) = n
  OBVIOUS
<1>2. f \in Seq(Name)
  BY SeqDef
<1>3. DOMAIN f = 1..n /\ DOMAIN f = 1..Len(f) /\ Len(f) \in Nat
  BY <1>2, LenProperties
<1>4. Cardinality(1..n) = n /\ Cardinality(1..Len(f)) = Len(f)
  BY <1>3, NthOfAll
<1> QED
  BY <1>2, <1>3, <1>4

LEMMA LineIsLine ==
    ASSUME NEW key \in Name, NEW val \in [1..Cells(key) -> Name]
    PROVE  /\ Line(key, val) \in ConfLine /\ Line(key, val).key = key
           /\ Line(key, val).val = val /\ Line(key, val).form = "plain"
<1>1. Cells(key) \in Nat
  BY DEF Cells
<1>2. val \in Seq(Name) /\ Len(val) = Cells(key)
  BY <1>1, RowsAreSequences
<1> DEFINE l == [key |-> key, val |-> val, form |-> "plain"]
<1>3. l \in [key : Name, val : Seq(Name), form : {"plain", "spaced", "comment"}]
  BY <1>2
<1>4. Len(l.val) = Cells(l.key) /\ l.key = key /\ l.val = val /\ l.form = "plain"
  BY <1>2
<1>5. Line(key, val) = l
  BY DEF Line
<1> HIDE DEF l
<1> QED
  BY <1>3, <1>4, <1>5 DEF ConfLine

ComeAfter(all, ls, marker, new) ==
    \E n \in Nat :
      /\ Len(ls) <= n /\ Len(all) = n + Len(new)
      /\ \A i \in 1..Len(ls) : all[i] = ls[i]
      /\ \A i \in (Len(ls) + 1)..n : all[i] = marker
      /\ \A j \in 1..Len(new) : all[n + j] = new[j]

\* New lines of a key come after everything that is there.
LEMMA AddedLines ==
    ASSUME NEW ls \in Seq(ConfLine), NEW marker \in ConfLine, marker.form = "comment",
           NEW new \in Seq(ConfLine)
    PROVE  /\ Added(ls, marker, new) \in Seq(ConfLine)
           /\ ComeAfter(Added(ls, marker, new), ls, marker, new)
<1>0. Len(ls) \in Nat /\ Len(new) \in Nat
  BY LenProperties
<1>1. PICK base \in Seq(ConfLine) :
        /\ Added(ls, marker, new) = base \o new
        /\ Len(ls) <= Len(base)
        /\ \A i \in 1..Len(ls) : base[i] = ls[i]
        /\ \A i \in (Len(ls) + 1)..Len(base) : base[i] = marker
  <2>1. CASE \E i \in DOMAIN ls : ls[i] = marker
    <3>1. Added(ls, marker, new) = ls \o new
      BY <2>1 DEF Added
    <3>2. (Len(ls) + 1)..Len(ls) = {} /\ Len(ls) <= Len(ls)
      BY <1>0, SMT
    <3> QED BY <3>1, <3>2
  <2>2. CASE ~ \E i \in DOMAIN ls : ls[i] = marker
    <3>1. Added(ls, marker, new) = Append(ls, marker) \o new
      BY <2>2 DEF Added
    <3>2. /\ Append(ls, marker) \in Seq(ConfLine) /\ Len(Append(ls, marker)) = Len(ls) + 1
          /\ \A i \in 1..Len(ls) : Append(ls, marker)[i] = ls[i]
          /\ Append(ls, marker)[Len(ls) + 1] = marker
      BY AppendProperties
    <3>3. (Len(ls) + 1)..(Len(ls) + 1) = {Len(ls) + 1} /\ Len(ls) <= Len(ls) + 1
      BY <1>0, SMT
    <3> QED BY <3>1, <3>2, <3>3
  <2> QED BY <2>1, <2>2
<1>2. Len(base) \in Nat
  BY LenProperties
<1>3. /\ base \o new \in Seq(ConfLine) /\ Len(base \o new) = Len(base) + Len(new)
      /\ \A i \in 1..(Len(base) + Len(new)) :
            (base \o new)[i] = IF i <= Len(base) THEN base[i] ELSE new[i - Len(base)]
  BY ConcatProperties
<1>4. \A i \in 1..Len(base) : (base \o new)[i] = base[i]
  BY <1>0, <1>2, <1>3, SMT
<1>5. \A j \in 1..Len(new) : (base \o new)[Len(base) + j] = new[j]
  <2>1. SUFFICES ASSUME NEW j \in 1..Len(new)
                 PROVE  (base \o new)[Len(base) + j] = new[j]
    OBVIOUS
  <2>2. /\ Len(base) + j \in 1..(Len(base) + Len(new)) /\ ~ (Len(base) + j <= Len(base))
        /\ (Len(base) + j) - Len(base) = j
    BY <1>0, <1>2, SMT
  <2> QED BY <1>3, <2>2
<1>6. /\ \A i \in 1..Len(ls) : i \in 1..Len(base)
      /\ \A i \in (Len(ls) + 1)..Len(base) : i \in 1..Len(base)
  BY <1>0, <1>1, <1>2, SMT
<1>7. ComeAfter(base \o new, ls, marker, new)
  BY <1>1, <1>2, <1>3, <1>4, <1>5, <1>6, ZenonT(60) DEF ComeAfter
<1> QED
  BY <1>1, <1>3, <1>7

LEMMA AddedSpares ==
    ASSUME NEW ls \in Seq(ConfLine), NEW marker \in ConfLine, marker.form = "comment",
           NEW new \in Seq(ConfLine), NEW key, \A j \in 1..Len(new) : new[j].key = key
    PROVE  SparesOthers(ls, Added(ls, marker, new), key)
<1>0. PICK all : all = Added(ls, marker, new)
  OBVIOUS
<1>1. PICK n \in Nat :
        /\ Len(ls) <= n /\ Len(all) = n + Len(new)
        /\ \A i \in 1..Len(ls) : all[i] = ls[i]
        /\ \A i \in (Len(ls) + 1)..n : all[i] = marker
        /\ \A j \in 1..Len(new) : all[n + j] = new[j]
  <2>1. ComeAfter(Added(ls, marker, new), ls, marker, new)
    BY AddedLines
  <2> QED BY <1>0, <2>1 DEF ComeAfter
<1>2. all \in Seq(ConfLine)
  BY <1>0, AddedLines
<1>3. /\ Len(ls) \in Nat /\ Len(new) \in Nat /\ DOMAIN ls = 1..Len(ls)
      /\ DOMAIN all = 1..(n + Len(new))
  BY <1>1, <1>2, LenProperties
<1>4. DOMAIN ls \subseteq DOMAIN all
  BY <1>1, <1>3, SMT
<1>5. ASSUME NEW j \in DOMAIN all \ DOMAIN ls
      PROVE  all[j].key = key \/ all[j].form = "comment"
  <2>1. j \in (Len(ls) + 1)..n \/ (j - n \in 1..Len(new) /\ n + (j - n) = j)
    BY <1>1, <1>3, SMT
  <2>2. CASE j \in (Len(ls) + 1)..n
    BY <1>1, <2>2
  <2>3. CASE j - n \in 1..Len(new) /\ n + (j - n) = j
    BY <1>1, <2>3
  <2> QED BY <2>1, <2>2, <2>3
<1>6. SparesOthers(ls, all, key)
  BY <1>1, <1>2, <1>3, <1>4, <1>5, SparesWhatStays
<1> QED
  BY <1>0, <1>6

\* SetScalar changes what is read of its key, and nothing else.
LEMMA SetScalarSets ==
    ASSUME NEW ls \in Seq(ConfLine), NEW key \in Name, NEW val \in [1..Cells(key) -> Name],
           NEW marker \in ConfLine, marker.form = "comment"
    PROVE  /\ SetScalar(ls, key, val, marker) \in Seq(ConfLine)
           /\ SparesOthers(ls, SetScalar(ls, key, val, marker), key)
           /\ \A fallback : GetString(SetScalar(ls, key, val, marker), key, fallback) = val
<1>0. PICK new : new = SetScalar(ls, key, val, marker)
  OBVIOUS
<1>1. PICK l \in ConfLine : l = Line(key, val) /\ l.key = key /\ l.val = val /\ l.form = "plain"
  BY LineIsLine
<1>2. CASE Contains(ls, key)
  <2>1. PICK last \in Active(ls, key) : last = LastActive(ls, key)
    BY <1>2, LastOfAll
  <2>2. new = [ls EXCEPT ![last] = l]
    BY <1>0, <1>1, <1>2, <2>1 DEF SetScalar
  <2>3. /\ last \in DOMAIN ls /\ last \in 1..Len(ls) /\ ls[last].key = key
        /\ ls[last].form # "comment"
    BY <2>1, LenProperties DEF Active
  <2>4. new \in Seq(ConfLine)
    BY <2>2, <2>3, ExceptSeq
  <2>5. /\ DOMAIN new = DOMAIN ls /\ new[last] = l
        /\ \A i \in DOMAIN ls \ {last} : new[i] = ls[i]
    BY <2>2, <2>3
  <2>6. SparesOthers(ls, new, key)
    BY <1>1, <2>3, <2>4, <2>5, SparesWhatStays
  <2>7. Active(new, key) = Active(ls, key)
    BY <1>1, <2>3, <2>5 DEF Active
  <2>8. Contains(new, key) /\ LastActive(new, key) = last
    BY <1>2, <2>1, <2>7 DEF Contains, LastActive
  <2>9. \A fallback : GetString(new, key, fallback) = val
    BY <1>1, <2>5, <2>8 DEF GetString
  <2> QED BY <1>0, <2>4, <2>6, <2>9
<1>3. CASE ~Contains(ls, key)
  <2>1. PICK one : one = <<l>>
    OBVIOUS
  <2>2. one \in Seq(ConfLine) /\ Len(one) = 1 /\ one[1] = l
    BY <2>1
  <2>3. new = Added(ls, marker, one)
    BY <1>0, <1>1, <1>3, <2>1 DEF SetScalar
  <2>4. new \in Seq(ConfLine)
    BY <2>2, <2>3, AddedLines
  <2>5. \A j \in 1..Len(one) : one[j].key = key
    BY <1>1, <2>2
  <2>6. SparesOthers(ls, new, key)
    BY <2>2, <2>3, <2>5, AddedSpares
  <2>7. PICK n \in Nat :
          /\ Len(ls) <= n /\ Len(new) = n + 1
          /\ \A i \in 1..Len(ls) : new[i] = ls[i]
          /\ \A i \in (Len(ls) + 1)..n : new[i] = marker
          /\ new[n + 1] = l
    <3>1. ComeAfter(Added(ls, marker, one), ls, marker, one)
      BY <2>2, AddedLines
    <3>2. 1 \in 1..Len(one)
      BY <2>2
    <3> QED BY <2>2, <2>3, <3>1, <3>2 DEF ComeAfter
  <2>8. /\ DOMAIN ls = 1..Len(ls) /\ DOMAIN new = 1..(n + 1) /\ Len(ls) \in Nat
    BY <2>4, <2>7, LenProperties
  <2>9. Active(new, key) = {n + 1}
    <3>1. \A i \in DOMAIN new : i \in DOMAIN ls \/ i \in (Len(ls) + 1)..n \/ i = n + 1
      BY <2>7, <2>8, SMT
    <3>2. \A i \in DOMAIN ls : i \notin Active(new, key)
      BY <1>3, <2>7, <2>8 DEF Contains, Active
    <3>3. \A i \in (Len(ls) + 1)..n : i \notin Active(new, key)
      BY <2>7 DEF Active
    <3>4. n + 1 \in DOMAIN new
      BY <2>8, SMT
    <3>5. n + 1 \in Active(new, key)
      BY <1>1, <2>7, <3>4 DEF Active
    <3>6. Active(new, key) \subseteq DOMAIN new
      BY DEF Active
    <3> QED BY <3>1, <3>2, <3>3, <3>5, <3>6
  <2>10. Contains(new, key) /\ LastActive(new, key) = n + 1
    <3>1. Contains(new, key)
      BY <2>9 DEF Contains
    <3>2. LastActive(new, key) \in Active(new, key)
      BY <2>4, <3>1, LastOfAll
    <3> QED BY <2>9, <3>1, <3>2
  <2>11. \A fallback : GetString(new, key, fallback) = val
    BY <1>1, <2>7, <2>10 DEF GetString
  <2> QED BY <1>0, <2>4, <2>6, <2>11
<1> QED
  BY <1>2, <1>3

\* The lines of a block that stand together are its values.
LEMMA ValuesOfRun ==
    ASSUME NEW vals \in Seq(Seq(Name)), NEW new, NEW n \in Nat, NEW T \in SUBSET Nat,
           \A t \in T : t - n \in 1..Len(vals),
           \A j \in 1..Len(vals) : n + j \in T /\ new[n + j].val = vals[j]
    PROVE  Values(new, T) = vals
<1> DEFINE S == 1..Len(vals)
           h == [j \in S |-> n + j]
<1>1. Len(vals) \in Nat
  BY LenProperties
<1>2. IsFiniteSet(S) /\ Cardinality(S) = Len(vals) /\ S \in SUBSET Nat /\ \A j \in S : Nth(S, j) = j
  BY <1>1, NthOfAll
<1>3. h \in [S -> T]
  OBVIOUS
<1>4. \A t \in T : \E j \in S : h[j] = t
  <2>1. \A t \in T : n + (t - n) = t
    BY SMT
  <2> QED BY <2>1
<1>5. \A j, k \in S : j < k => h[j] < h[k]
  BY <1>1, SMT
<1> HIDE DEF h, S
<1>6. /\ Cardinality(T) = Cardinality(S)
      /\ \A j \in 1..Cardinality(S) : Nth(S, j) \in S /\ Nth(T, j) = h[Nth(S, j)]
  BY <1>2, <1>3, <1>4, <1>5, SameInOrder
<1>7. \A j \in S : Nth(T, j) = n + j
  BY <1>2, <1>6 DEF h, S
<1>8. Values(new, T) = [j \in 1..Len(vals) |-> new[Nth(T, j)].val]
  BY <1>2, <1>6 DEF Values
<1>9. Values(new, T) = [j \in 1..Len(vals) |-> vals[j]]
  BY <1>7, <1>8 DEF S
<1> QED
  BY <1>9

LEMMA BlockLinesAreLines ==
    ASSUME NEW prefix \in Name, NEW vals \in Seq([1..Cells(prefix) -> Name])
    PROVE  /\ BlockLines(prefix, vals) \in Seq(ConfLine) /\ Len(BlockLines(prefix, vals)) = Len(vals)
           /\ \A j \in 1..Len(vals) :
                /\ BlockLines(prefix, vals)[j].key = prefix
                /\ BlockLines(prefix, vals)[j].form = "plain"
                /\ BlockLines(prefix, vals)[j].val = vals[j]
           /\ vals \in Seq(Seq(Name))
<1>1. DOMAIN vals = 1..Len(vals) /\ Len(vals) \in Nat
  BY LenProperties
<1>2. \A j \in 1..Len(vals) : vals[j] \in [1..Cells(prefix) -> Name]
  BY ElementOfSeq
<1>3. \A j \in 1..Len(vals) : /\ Line(prefix, vals[j]) \in ConfLine
                              /\ Line(prefix, vals[j]).key = prefix
                              /\ Line(prefix, vals[j]).form = "plain"
                              /\ Line(prefix, vals[j]).val = vals[j]
  BY <1>2, LineIsLine
<1>4. BlockLines(prefix, vals) = [j \in 1..Len(vals) |-> Line(prefix, vals[j])]
  BY <1>1 DEF BlockLines
<1>5. BlockLines(prefix, vals) \in Seq(ConfLine) /\ Len(BlockLines(prefix, vals)) = Len(vals)
  BY <1>1, <1>3, <1>4
<1>6. vals \in Seq(Seq(Name))
  <2>1. Cells(prefix) \in Nat
    BY DEF Cells
  <2>2. \A j \in 1..Len(vals) : vals[j] \in Seq(Name)
    BY <1>2, <2>1, RowsAreSequences
  <2>3. vals = [j \in 1..Len(vals) |-> vals[j]]
    BY <1>1
  <2> QED BY <1>1, <2>2, <2>3
<1> QED
  BY <1>3, <1>4, <1>5, <1>6

LEMMA ThreeParts ==
    ASSUME NEW X, NEW a \in Seq(X), NEW b \in Seq(X), NEW c \in Seq(X)
    PROVE  /\ a \o b \o c \in Seq(X)
           /\ Len(a \o b \o c) = Len(a) + Len(b) + Len(c)
           /\ \A i \in 1..Len(a) : (a \o b \o c)[i] = a[i]
           /\ \A i \in 1..Len(b) : (a \o b \o c)[Len(a) + i] = b[i]
           /\ \A i \in 1..Len(c) : (a \o b \o c)[Len(a) + Len(b) + i] = c[i]
<1>0. Len(a) \in Nat /\ Len(b) \in Nat /\ Len(c) \in Nat
  BY LenProperties
<1>1. PICK ab \in Seq(X) :
        /\ ab = a \o b /\ Len(ab) = Len(a) + Len(b)
        /\ \A i \in 1..(Len(a) + Len(b)) : ab[i] = IF i <= Len(a) THEN a[i] ELSE b[i - Len(a)]
  <2>1. /\ a \o b \in Seq(X) /\ Len(a \o b) = Len(a) + Len(b)
        /\ \A i \in 1..(Len(a) + Len(b)) : (a \o b)[i] = IF i <= Len(a) THEN a[i] ELSE b[i - Len(a)]
    BY ConcatProperties
  <2> QED BY <2>1
<1>2. PICK abc \in Seq(X) :
        /\ abc = ab \o c /\ Len(abc) = Len(ab) + Len(c)
        /\ \A i \in 1..(Len(ab) + Len(c)) : abc[i] = IF i <= Len(ab) THEN ab[i] ELSE c[i - Len(ab)]
  <2>1. /\ ab \o c \in Seq(X) /\ Len(ab \o c) = Len(ab) + Len(c)
        /\ \A i \in 1..(Len(ab) + Len(c)) : (ab \o c)[i] = IF i <= Len(ab) THEN ab[i] ELSE c[i - Len(ab)]
    BY ConcatProperties
  <2> QED BY <2>1
<1>3. abc = a \o b \o c
  BY <1>1, <1>2
<1>4. Len(abc) = Len(a) + Len(b) + Len(c)
  BY <1>1, <1>2
<1>5. ASSUME NEW i \in 1..Len(a) PROVE abc[i] = a[i]
  <2>1. i \in 1..(Len(a) + Len(b)) /\ i <= Len(a) /\ i \in 1..(Len(ab) + Len(c)) /\ i <= Len(ab)
    BY <1>0, <1>1, SMT
  <2> QED BY <1>1, <1>2, <2>1
<1>6. ASSUME NEW i \in 1..Len(b) PROVE abc[Len(a) + i] = b[i]
  <2>1. /\ Len(a) + i \in 1..(Len(a) + Len(b)) /\ ~ (Len(a) + i <= Len(a))
        /\ Len(a) + i \in 1..(Len(ab) + Len(c)) /\ Len(a) + i <= Len(ab)
        /\ (Len(a) + i) - Len(a) = i
    BY <1>0, <1>1, SMT
  <2> QED BY <1>1, <1>2, <2>1
<1>7. ASSUME NEW i \in 1..Len(c) PROVE abc[Len(a) + Len(b) + i] = c[i]
  <2>1. /\ Len(ab) + i \in 1..(Len(ab) + Len(c)) /\ ~ (Len(ab) + i <= Len(ab))
        /\ (Len(ab) + i) - Len(ab) = i /\ Len(ab) + i = Len(a) + Len(b) + i
    BY <1>0, <1>1, SMT
  <2> QED BY <1>1, <1>2, <2>1
<1> QED
  BY <1>2, <1>3, <1>4, <1>5, <1>6, <1>7

LEMMA LeastOfPlaces ==
    ASSUME NEW S \in SUBSET Nat, IsFiniteSet(S), S # {}
    PROVE  \E i \in S : \A j \in S : i <= j
<1>1. Cardinality(S) \in Nat /\ Cardinality(S) # 0
  BY FS_CardinalityType, FS_EmptySet
<1>2. 1 \in 1..Cardinality(S)
  BY <1>1, SMT
<1>3. Nth(S, 1) \in S
  BY <1>2, NthCounts
<1>4. ASSUME NEW j \in S PROVE Nth(S, 1) <= j
  <2>1. PICK n \in 1..Cardinality(S) : Nth(S, n) = j
    BY NthCounts
  <2>2. n = 1 \/ 1 < n
    BY SMT
  <2>3. CASE n = 1
    BY <1>3, <2>1, <2>3, SMT
  <2>4. CASE 1 < n
    <3>1. Nth(S, 1) < j
      BY <1>2, <2>1, <2>4, NthCounts
    <3>2. \A x, y \in Nat : x < y => x <= y
      BY SMT
    <3> QED BY <1>3, <3>1, <3>2
  <2> QED BY <2>2, <2>3, <2>4
<1> QED
  BY <1>3, <1>4

\* A block's new lines take the place of its first, and nothing else changes.
LEMMA ReplacesBlock ==
    ASSUME NEW ls \in Seq(ConfLine), NEW prefix \in Name,
           NEW vals \in Seq([1..Cells(prefix) -> Name])
    PROVE  /\ ReplaceRawBlock(ls, prefix, vals) \in Seq(ConfLine)
           /\ SparesOthers(ls, ReplaceRawBlock(ls, prefix, vals), prefix)
           /\ GetRawBlock(ReplaceRawBlock(ls, prefix, vals), prefix) = vals
<1>0. PICK new : new = ReplaceRawBlock(ls, prefix, vals)
  OBVIOUS
<1>1. PICK block \in Seq(ConfLine) :
        /\ block = BlockLines(prefix, vals) /\ Len(block) = Len(vals)
        /\ \A j \in 1..Len(vals) : block[j].key = prefix /\ block[j].form = "plain"
                                   /\ block[j].val = vals[j]
  BY BlockLinesAreLines
<1>2. vals \in Seq(Seq(Name)) /\ Len(vals) \in Nat
  BY BlockLinesAreLines, LenProperties
<1>3. PICK old : old = InBlock(ls, prefix)
  OBVIOUS
<1>4. /\ DOMAIN ls = 1..Len(ls) /\ Len(ls) \in Nat /\ old \subseteq DOMAIN ls
      /\ old \in SUBSET Nat /\ IsFiniteSet(old)
  BY <1>3, PlacesOfLines, PlacesOfKeys
<1>5. CASE old = {}
  <2>1. new = Added(ls, SettingsMarker, block)
    BY <1>0, <1>1, <1>3, <1>5 DEF ReplaceRawBlock
  <2>2. new \in Seq(ConfLine)
    BY <2>1, MarkersAreLines, AddedLines
  <2>3. \A j \in 1..Len(block) : block[j].key = prefix
    BY <1>1
  <2>4. SparesOthers(ls, new, prefix)
    BY <2>1, <2>3, MarkersAreLines, AddedSpares
  <2>5. ComeAfter(new, ls, SettingsMarker, block)
    BY <2>1, MarkersAreLines, AddedLines
  <2>6. PICK n \in Nat :
          /\ Len(ls) <= n /\ Len(new) = n + Len(vals)
          /\ \A i \in 1..Len(ls) : new[i] = ls[i]
          /\ \A i \in (Len(ls) + 1)..n : new[i] = SettingsMarker
          /\ \A j \in 1..Len(vals) : new[n + j] = block[j]
    BY <1>1, <2>5 DEF ComeAfter
  <2>7. DOMAIN new = 1..(n + Len(vals))
    BY <2>2, <2>6, LenProperties
  <2>8. ASSUME NEW t \in InBlock(new, prefix) PROVE t - n \in 1..Len(vals)
    <3>1. t \in DOMAIN new /\ new[t].key = prefix /\ new[t].form = "plain"
      BY <2>8 DEF InBlock
    <3>2. t \in DOMAIN ls \/ t \in (Len(ls) + 1)..n \/ t - n \in 1..Len(vals)
      BY <1>2, <1>4, <2>6, <2>7, <3>1, SMT
    <3>3. t \notin DOMAIN ls
      BY <1>3, <1>4, <1>5, <2>6, <3>1 DEF InBlock
    <3>4. t \notin (Len(ls) + 1)..n
      BY <2>6, <3>1, MarkersAreLines
    <3> QED BY <3>2, <3>3, <3>4
  <2>9. ASSUME NEW j \in 1..Len(vals)
        PROVE  n + j \in InBlock(new, prefix) /\ new[n + j].val = vals[j]
    <3>1. n + j \in DOMAIN new
      BY <1>2, <2>7, SMT
    <3> QED BY <1>1, <2>6, <3>1 DEF InBlock
  <2>10. InBlock(new, prefix) \in SUBSET Nat
    BY <2>2, PlacesOfLines, PlacesOfKeys
  <2>11. Values(new, InBlock(new, prefix)) = vals
    BY <1>2, <2>8, <2>9, <2>10, ValuesOfRun
  <2> QED BY <1>0, <2>2, <2>4, <2>11 DEF GetRawBlock
<1>6. CASE old # {}
  <2>1. PICK first \in old :
          /\ \A j \in old : first <= j
          /\ first = CHOOSE i \in old : \A j \in old : i <= j
    BY <1>4, <1>6, LeastOfPlaces
  <2>2. PICK p \in Nat : p = first - 1 /\ p <= Len(ls) /\ first \in 1..Len(ls) /\ first = p + 1
    <3>1. first \in 1..Len(ls)
      BY <1>4
    <3>2. first - 1 \in Nat /\ first - 1 <= Len(ls) /\ first = (first - 1) + 1
      BY <1>4, <3>1, SMT
    <3> QED BY <3>1, <3>2
  <2>3. PICK pre \in Seq(ConfLine) :
          /\ pre = SubSeq(ls, 1, p) /\ Len(pre) = p
          /\ \A i \in 1..p : pre[i] = ls[i]
    <3>1. \A i \in 1..p : i \in 1..Len(ls) /\ ls[i] \in ConfLine
      <4>1. \A i \in 1..p : i \in 1..Len(ls)
        BY <1>4, <2>2, SMT
      <4> QED BY <4>1, ElementOfSeq
    <3>2. /\ SubSeq(ls, 1, p) \in Seq(ConfLine)
          /\ Len(SubSeq(ls, 1, p)) = IF 1 <= p THEN p - 1 + 1 ELSE 0
          /\ \A i \in 1..(p - 1 + 1) : SubSeq(ls, 1, p)[i] = ls[1 + i - 1]
      BY <3>1, SubSeqProperties
    <3>3. Len(SubSeq(ls, 1, p)) = p
      BY <3>2, SMT
    <3>4. p - 1 + 1 = p /\ \A i \in 1..p : 1 + i - 1 = i
      BY SMT
    <3>5. \A i \in 1..p : SubSeq(ls, 1, p)[i] = ls[i]
      BY <3>2, <3>4
    <3> QED BY <3>2, <3>3, <3>5
  <2>4. PICK K : K = (first..Len(ls)) \ old
    OBVIOUS
  <2>5. K \in SUBSET DOMAIN ls /\ K \in SUBSET Nat /\ IsFiniteSet(K) /\ Cardinality(K) \in Nat
    <3>1. first..Len(ls) \subseteq 1..Len(ls)
      BY <1>4, <2>2, SMT
    <3>2. K \in SUBSET DOMAIN ls
      BY <1>4, <2>4, <3>1
    <3> QED BY <3>2, PlacesOfLines
  <2>6. PICK rest \in Seq(ConfLine) :
          /\ rest = Remaining(ls, K) /\ Len(rest) = Cardinality(K)
          /\ \A n \in 1..Cardinality(K) : Nth(K, n) \in K /\ rest[n] = ls[Nth(K, n)]
    BY <2>5, RemainingElements
  <2>7. new = pre \o block \o rest
    BY <1>0, <1>1, <1>3, <1>6, <2>1, <2>2, <2>3, <2>4, <2>6 DEF ReplaceRawBlock
  <2>8. PICK m \in Nat : m = Len(vals)
    BY <1>2
  <2>9. /\ new \in Seq(ConfLine) /\ Len(new) = p + m + Cardinality(K)
        /\ \A i \in 1..p : new[i] = ls[i]
        /\ \A j \in 1..m : new[p + j] = block[j]
        /\ \A n \in 1..Cardinality(K) : new[p + m + n] = ls[Nth(K, n)]
    <3>1. /\ new \in Seq(ConfLine)
          /\ Len(new) = Len(pre) + Len(block) + Len(rest)
          /\ \A i \in 1..Len(pre) : new[i] = pre[i]
          /\ \A i \in 1..Len(block) : new[Len(pre) + i] = block[i]
          /\ \A i \in 1..Len(rest) : new[Len(pre) + Len(block) + i] = rest[i]
      <4>1. pre \o block \o rest \in Seq(ConfLine)
        BY ThreeParts
      <4>2. Len(pre \o block \o rest) = Len(pre) + Len(block) + Len(rest)
        BY ThreeParts
      <4>3. \A i \in 1..Len(pre) : (pre \o block \o rest)[i] = pre[i]
        BY ThreeParts
      <4>4. \A i \in 1..Len(block) : (pre \o block \o rest)[Len(pre) + i] = block[i]
        BY ThreeParts
      <4>5. \A i \in 1..Len(rest) : (pre \o block \o rest)[Len(pre) + Len(block) + i] = rest[i]
        BY ThreeParts
      <4> QED BY <2>7, <4>1, <4>2, <4>3, <4>4, <4>5
    <3>2. Len(pre) = p /\ Len(block) = m /\ Len(rest) = Cardinality(K)
      BY <1>1, <2>3, <2>6, <2>8
    <3>3. \A i \in 1..p : new[i] = ls[i]
      BY <2>3, <3>1, <3>2
    <3>4. \A n \in 1..Cardinality(K) : new[p + m + n] = ls[Nth(K, n)]
      BY <2>6, <3>1, <3>2
    <3> QED BY <3>1, <3>2, <3>3, <3>4
  <2>10. DOMAIN new = 1..(p + m + Cardinality(K))
    BY <2>9, LenProperties
  <2>11. ASSUME NEW t \in DOMAIN new
         PROVE  \/ t \in 1..p
                \/ t - p \in 1..m /\ p + (t - p) = t
                \/ t - (p + m) \in 1..Cardinality(K) /\ p + m + (t - (p + m)) = t
    BY <2>5, <2>10, SMTT(30)
  <2>12. \A i \in 1..p : i \in DOMAIN ls /\ i \in DOMAIN new /\ i \notin old /\ i \notin K
    <3>1. \A i \in 1..p : i \in 1..Len(ls) /\ i \in 1..(p + m + Cardinality(K)) /\ ~ (first <= i)
      BY <1>4, <2>2, <2>5, SMT
    <3>2. \A i \in 1..p : i \notin first..Len(ls)
      BY <3>1, SMT
    <3> QED BY <1>4, <2>1, <2>4, <2>10, <3>1, <3>2
  <2> DEFINE S == DOMAIN ls \ old
             h == [i \in S |-> IF i \in 1..p THEN i ELSE p + m + (Before(K, i) + 1)]
  <2>13. ASSUME NEW i \in S
         PROVE  \/ i \in 1..p /\ h[i] = i
                \/ i \in K /\ Before(K, i) + 1 \in 1..Cardinality(K) /\ Nth(K, Before(K, i) + 1) = i
                   /\ i \notin 1..p /\ h[i] = p + m + (Before(K, i) + 1)
    <3>1. i \in 1..Len(ls)
      BY <1>4
    <3>2. i \in 1..p \/ i \in first..Len(ls)
      BY <1>4, <2>2, <3>1, SMT
    <3>3. CASE i \in 1..p
      BY <3>3
    <3>4. CASE i \notin 1..p
      <4>1. i \in K
        BY <2>4, <3>2, <3>4
      <4> QED BY <2>5, <3>4, <4>1, NthOfBefore
    <3> QED BY <3>3, <3>4
  <2>14. ASSUME NEW i \in S PROVE h[i] \in DOMAIN new /\ new[h[i]] = ls[i]
    <3>1. CASE i \in 1..p /\ h[i] = i
      BY <2>9, <2>12, <3>1
    <3>2. CASE /\ i \in K /\ Before(K, i) + 1 \in 1..Cardinality(K)
               /\ Nth(K, Before(K, i) + 1) = i /\ h[i] = p + m + (Before(K, i) + 1)
      <4>1. p + m + (Before(K, i) + 1) \in DOMAIN new
        BY <2>5, <2>10, <3>2, SMT
      <4> QED BY <2>9, <3>2, <4>1
    <3> QED BY <2>13, <3>1, <3>2
  <2>15. ASSUME NEW i \in S, NEW k \in S, i < k PROVE h[i] < h[k]
    <3>0. i \in Nat /\ k \in Nat
      BY <1>4
    <3>1. CASE k \in 1..p
      <4>1. i \in 1..p
        BY <1>4, <2>15, <3>1, SMT
      <4> QED BY <2>13, <2>15, <3>1, <4>1
    <3>2. CASE k \notin 1..p
      <4>1. k \in K /\ Before(K, k) + 1 \in 1..Cardinality(K) /\ h[k] = p + m + (Before(K, k) + 1)
        BY <2>13, <3>2
      <4>2. CASE i \in 1..p
        <5>1. h[i] = i
          BY <4>2
        <5>2. \A x \in 1..p : \A y \in 1..Cardinality(K) : x < p + m + y
          BY SMT
        <5> QED BY <4>1, <4>2, <5>1, <5>2
      <4>3. CASE i \notin 1..p
        <5>1. i \in K /\ Before(K, i) + 1 \in 1..Cardinality(K) /\ h[i] = p + m + (Before(K, i) + 1)
          BY <2>13, <4>3
        <5>2. /\ Before(K, i) < Before(K, k)
              /\ Before(K, i) \in 0..(Cardinality(K) - 1) /\ Before(K, k) \in 0..(Cardinality(K) - 1)
          BY <2>5, <2>15, <4>1, <5>1, BeforeCounts
        <5>3. \A x, y \in 0..(Cardinality(K) - 1) : x < y => p + m + (x + 1) < p + m + (y + 1)
          BY <2>5, SMT
        <5> QED BY <4>1, <5>1, <5>2, <5>3
      <4> QED BY <4>2, <4>3
    <3> QED BY <3>1, <3>2
  <2>16. ASSUME NEW t \in DOMAIN new, new[t].key # prefix \/ new[t].form # "plain"
         PROVE  \E i \in S : h[i] = t
    <3>1. CASE t \in 1..p
      BY <2>12, <2>13, <3>1
    <3>2. ~ (t - p \in 1..m /\ p + (t - p) = t)
      <4> SUFFICES ASSUME t - p \in 1..m, p + (t - p) = t
                   PROVE  FALSE
        OBVIOUS
      <4>1. new[p + (t - p)] = block[t - p]
        BY <2>9
      <4>2. new[t] = block[t - p]
        BY <4>1
      <4> QED BY <1>1, <2>8, <2>16, <4>2
    <3>3. CASE t - (p + m) \in 1..Cardinality(K) /\ p + m + (t - (p + m)) = t
      <4>1. PICK n \in 1..Cardinality(K) : p + m + n = t
        BY <3>3
      <4>2. Nth(K, n) \in K /\ Before(K, Nth(K, n)) = n - 1
        BY <2>5, NthCounts
      <4>3. Nth(K, n) \in S /\ Nth(K, n) \notin 1..p
        BY <2>4, <2>5, <2>12, <4>2
      <4>4. Before(K, Nth(K, n)) + 1 = n
        BY <4>2, SMT
      <4>5. h[Nth(K, n)] = t
        BY <4>1, <4>3, <4>4
      <4> QED BY <4>3, <4>5
    <3> QED BY <2>11, <3>1, <3>2, <3>3
  <2>17. S \in SUBSET Nat /\ IsFiniteSet(S)
    BY PlacesOfLines
  <2>18. h \in [S -> DOMAIN new] /\ DOMAIN h = S
    BY <2>14
  <2> HIDE DEF h, S
  <2>19. ASSUME NEW k, k # prefix
         PROVE  GetAll(new, k) = GetAll(ls, k) /\ GetRawBlock(new, k) = GetRawBlock(ls, k)
    <3>1. ASSUME NEW A \in SUBSET S, NEW T \in SUBSET DOMAIN new,
                 \A i \in A : h[i] \in T, \A t \in T : \E i \in A : h[i] = t
          PROVE  Values(new, T) = Values(ls, A)
      <4>1. T \in SUBSET Nat
        BY <2>9, PlacesOfLines
      <4>2. A \in SUBSET Nat
        BY <2>17
      <4>8. IsFiniteSet(A)
        BY <2>17, FS_Subset
      <4>3. PICK g : g = [i \in A |-> h[i]]
        OBVIOUS
      <4>4. g \in [A -> T]
        BY <3>1, <4>3
      <4>9. \A t \in T : \E i \in A : g[i] = t
        BY <3>1, <4>3
      <4>5. \A i, j \in A : i < j => g[i] < g[j]
        BY <2>15, <4>3
      <4>6. \A i \in A : new[g[i]].val = ls[i].val
        BY <2>14, <4>3
      <4>7. Carries(g, ls, A, new, T)
        BY <4>1, <4>2, <4>4, <4>5, <4>6, <4>8, <4>9 DEF Carries
      <4> QED BY <4>7, MovedValues
    <3>2. Active(ls, k) \in SUBSET S /\ InBlock(ls, k) \in SUBSET S
      BY <1>3, <2>19 DEF Active, InBlock, S
    <3>3. Active(new, k) \in SUBSET DOMAIN new /\ InBlock(new, k) \in SUBSET DOMAIN new
      BY DEF Active, InBlock
    <3>4. /\ \A i \in Active(ls, k) : h[i] \in Active(new, k)
          /\ \A i \in InBlock(ls, k) : h[i] \in InBlock(new, k)
      BY <2>14, <3>2 DEF Active, InBlock
    <3>5. /\ \A t \in Active(new, k) : \E i \in Active(ls, k) : h[i] = t
          /\ \A t \in InBlock(new, k) : \E i \in InBlock(ls, k) : h[i] = t
      <4>1. ASSUME NEW t \in DOMAIN new, new[t].key = k
            PROVE  \E i \in S : h[i] = t /\ new[t] = ls[i] /\ i \in DOMAIN ls
        BY <2>14, <2>16, <2>19, <4>1 DEF S
      <4> QED BY <4>1 DEF Active, InBlock
    <3>6. Values(new, Active(new, k)) = Values(ls, Active(ls, k))
      BY <3>1, <3>2, <3>3, <3>4, <3>5
    <3>7. Values(new, InBlock(new, k)) = Values(ls, InBlock(ls, k))
      BY <3>1, <3>2, <3>3, <3>4, <3>5
    <3> QED BY <3>6, <3>7 DEF GetAll, GetRawBlock
  <2>20. ASSUME NEW i \in DOMAIN ls, ls[i].form = "comment"
         PROVE  \E j \in DOMAIN new : new[j] = ls[i]
    <3>1. i \in S
      BY <1>3, <2>20 DEF S, InBlock
    <3> QED BY <2>14, <3>1
  <2>21. SparesOthers(ls, new, prefix)
    BY <2>19, <2>20 DEF SparesOthers
  <2>22. GetRawBlock(new, prefix) = vals
    <3>1. ASSUME NEW t \in InBlock(new, prefix) PROVE t - p \in 1..m
      <4>1. t \in DOMAIN new /\ new[t].key = prefix /\ new[t].form = "plain"
        BY <3>1 DEF InBlock
      <4>2. t \notin 1..p
        BY <1>3, <2>9, <2>12, <4>1 DEF InBlock
      <4>3. ~ (t - (p + m) \in 1..Cardinality(K) /\ p + m + (t - (p + m)) = t)
        <5>1. ASSUME NEW n \in 1..Cardinality(K), t = p + m + n PROVE FALSE
          <6>1. new[t] = ls[Nth(K, n)] /\ Nth(K, n) \in K
            BY <2>6, <2>9, <5>1
          <6>2. Nth(K, n) \in DOMAIN ls /\ Nth(K, n) \notin old
            BY <2>4, <2>5, <6>1
          <6> QED BY <1>3, <4>1, <6>1, <6>2 DEF InBlock
        <5> QED BY <5>1
      <4> QED BY <2>11, <4>1, <4>2, <4>3
    <3>2. ASSUME NEW j \in 1..m PROVE p + j \in InBlock(new, prefix) /\ new[p + j].val = vals[j]
      <4>1. p + j \in DOMAIN new
        BY <2>5, <2>10, SMT
      <4> QED BY <1>1, <2>8, <2>9, <4>1, ZenonT(60) DEF InBlock
    <3>3. InBlock(new, prefix) \in SUBSET Nat
      BY <2>9, PlacesOfLines, PlacesOfKeys
    <3>4. Values(new, InBlock(new, prefix)) = vals
      BY <1>2, <2>8, <3>1, <3>2, <3>3, ValuesOfRun
    <3> QED BY <3>4 DEF GetRawBlock
  <2> QED BY <1>0, <2>9, <2>21, <2>22
<1> QED
  BY <1>5, <1>6

(* ------------------------------ the migration ---------------------------- *)

\* One turn of MigrateIfNeeded's loop.
Completed(ls, n) ==
    IF Contains(ls, Schema[n]) THEN ls
    ELSE SetScalar(ls, Schema[n], Default[Schema[n]], MigrationMarker)

Migration(f, ls, n) == f = [k \in 0..n |-> IF k = 0 THEN ls ELSE Completed(f[k - 1], k)]

LEMMA SmallestOf ==
    ASSUME NEW n \in Nat, NEW S \in SUBSET (0..n), S # {}
    PROVE  \E i \in S : \A j \in S : i <= j
<1>1. IsFiniteSet(0..n) /\ 0..n \in SUBSET Nat
  BY FS_Interval, SMT
<1>2. IsFiniteSet(S) /\ S \in SUBSET Nat
  BY <1>1, FS_Subset
<1> QED
  BY <1>2, LeastOfPlaces

LEMMA MigrationExists ==
    ASSUME NEW ls, NEW n \in Nat
    PROVE  \E f : Migration(f, ls, n)
<1> DEFINE Not == {m \in 0..n : ~ \E f : Migration(f, ls, m)}
<1>1. SUFFICES ASSUME Not # {} PROVE FALSE
  BY SMT
<1>2. PICK m \in Not : \A j \in Not : m <= j
  BY <1>1, SmallestOf
<1>3. m \in 0..n /\ ~ \E f : Migration(f, ls, m)
  BY <1>2
<1>4. CASE m = 0
  <2>1. PICK f : f = [k \in 0..0 |-> ls]
    OBVIOUS
  <2>2. \A k \in 0..0 : k = 0
    BY SMT
  <2>3. f = [k \in 0..0 |-> IF k = 0 THEN ls ELSE Completed(f[k - 1], k)]
    BY <2>1, <2>2
  <2> QED BY <1>3, <1>4, <2>3 DEF Migration
<1>5. CASE m # 0
  <2>1. /\ m \in Nat /\ m - 1 \in 0..n /\ ~ (m <= m - 1)
        /\ \A k \in 0..m : k # m => k \in 0..(m - 1)
        /\ \A k \in 0..m : k # 0 => k - 1 \in 0..(m - 1) /\ k - 1 # m
        /\ \A k \in 0..(m - 1) : k # m /\ (k # 0 => k - 1 \in 0..(m - 1))
    BY <1>3, <1>5, SMT
  <2>2. m - 1 \notin Not
    BY <1>2, <2>1
  <2>3. PICK f : Migration(f, ls, m - 1)
    BY <2>1, <2>2
  <2>4. PICK g : g = [k \in 0..m |-> IF k = m THEN Completed(f[m - 1], m) ELSE f[k]]
    OBVIOUS
  <2>5. \A k \in 0..(m - 1) : f[k] = IF k = 0 THEN ls ELSE Completed(f[k - 1], k)
    BY <2>3 DEF Migration
  <2>6. \A k \in 0..(m - 1) : k \in 0..m /\ g[k] = f[k]
    <3>1. \A k \in 0..(m - 1) : k \in 0..m
      BY <2>1, SMT
    <3> QED BY <2>1, <2>4, <3>1
  <2>7. ASSUME NEW k \in 0..m
        PROVE  g[k] = IF k = 0 THEN ls ELSE Completed(g[k - 1], k)
    <3>1. CASE k = m
      <4>1. m - 1 \in 0..(m - 1) /\ m \in 0..m
        BY <1>5, <2>1, SMT
      <4>2. g[m] = Completed(f[m - 1], m) /\ g[m - 1] = f[m - 1]
        BY <2>4, <2>6, <4>1
      <4> QED BY <1>5, <3>1, <4>2
    <3>2. CASE k # m
      <4>1. k \in 0..(m - 1)
        BY <2>1, <3>2
      <4>2. g[k] = f[k]
        BY <2>6, <4>1
      <4>3. k # 0 => g[k - 1] = f[k - 1]
        BY <2>1, <2>6, <4>1
      <4> QED BY <2>5, <4>1, <4>2, <4>3
    <3> QED BY <3>1, <3>2
  <2>8. g = [k \in 0..m |-> IF k = 0 THEN ls ELSE Completed(g[k - 1], k)]
    <3>1. DOMAIN g = 0..m /\ g = [k \in 0..m |-> g[k]]
      BY <2>4
    <3> QED BY <2>7, <3>1
  <2> QED BY <1>3, <2>8 DEF Migration
<1> QED
  BY <1>4, <1>5

LEMMA MigratedInTurns ==
    ASSUME NEW ls
    PROVE  \E f : /\ f[0] = ls /\ Migrated(ls) = f[Len(Schema)]
                  /\ \A k \in 1..Len(Schema) : f[k] = Completed(f[k - 1], k)
<1>0. Len(Schema) \in Nat
  BY SchemaIsScalar, LenProperties
<1>1. PICK f : /\ f = CHOOSE g : Migration(g, ls, Len(Schema))
               /\ Migration(f, ls, Len(Schema))
  BY <1>0, MigrationExists
<1>2. Migrated(ls) = f[Len(Schema)]
  BY <1>1 DEF Migrated, Migration, Completed
<1>3. 0 \in 0..Len(Schema) /\ \A k \in 1..Len(Schema) : k \in 0..Len(Schema) /\ k # 0
  BY <1>0, SMT
<1> QED
  BY <1>1, <1>2, <1>3 DEF Migration

LEMMA StringsAreNames == STRING \subseteq Name
<1> SUFFICES \A X, Y : X \subseteq X \cup Y
  BY Zenon DEF Name
<1> QED
  OBVIOUS

LEMMA LinesAreLines == \A l : IsLine(l) => l \in ConfLine
<1> SUFFICES ASSUME NEW l, IsLine(l) PROVE l \in ConfLine
  OBVIOUS
<1>1. STRING \subseteq Name
  BY StringsAreNames
<1>2. \A str \in Seq(STRING) : str \in Seq(Name)
  <2>1. SUFFICES ASSUME NEW str \in Seq(STRING) PROVE str \in Seq(Name)
    OBVIOUS
  <2>2. Len(str) \in Nat /\ str = [i \in 1..Len(str) |-> str[i]]
    BY LenProperties
  <2>3. \A i \in 1..Len(str) : str[i] \in Name
    BY <1>1, ElementOfSeq
  <2> QED BY <2>2, <2>3
<1>3. l \in [key : Name, val : Seq(Name), form : {"plain", "spaced", "comment"}]
  BY <1>1, <1>2 DEF IsLine
<1> QED
  BY <1>3 DEF IsLine, ConfLine

LEMMA FilesAreConf == \A f \in Files : f \in Seq(ConfLine)
<1> SUFFICES ASSUME NEW f \in Files PROVE f \in Seq(ConfLine)
  OBVIOUS
<1>1. f \in Seq({f[i] : i \in DOMAIN f}) /\ \A i \in DOMAIN f : f[i] \in ConfLine
  BY FilesAreLines, LinesAreLines
<1>2. {f[i] : i \in DOMAIN f} \subseteq ConfLine
  BY <1>1
<1> QED
  BY <1>1, <1>2

LEMMA SchemaDefaults ==
    \A i \in 1..Len(Schema) : /\ Schema[i] \in Name /\ Schema[i] \notin Block
                              /\ Default[Schema[i]] \in [1..Cells(Schema[i]) -> Name]
<1> SUFFICES ASSUME NEW i \in 1..Len(Schema)
             PROVE  /\ Schema[i] \in Name /\ Schema[i] \notin Block
                    /\ Default[Schema[i]] \in [1..Cells(Schema[i]) -> Name]
  OBVIOUS
<1>1. i \in DOMAIN Schema /\ Schema[i] \in STRING
  BY SchemaIsScalar, LenProperties, ElementOfSeq
<1>2. Schema[i] \notin Block /\ Default[Schema[i]] \in [1..1 -> STRING]
  BY <1>1, SchemaIsScalar
<1>3. Cells(Schema[i]) = 1
  BY <1>2 DEF Cells, Structured, Block
<1>4. STRING \subseteq Name
  BY StringsAreNames
<1> QED
  BY <1>1, <1>2, <1>3, <1>4

\* The migration adds the keys that are missing and touches nothing else.
LEMMA MigrationSpares ==
    ASSUME NEW ls \in Seq(ConfLine)
    PROVE  /\ Migrated(ls) \in Seq(ConfLine)
           /\ \A k : k \notin Missing(ls) => GetAll(Migrated(ls), k) = GetAll(ls, k)
           /\ \A i \in DOMAIN ls : ls[i].form = "comment" =>
                \E j \in DOMAIN Migrated(ls) : Migrated(ls)[j] = ls[i]
<1> DEFINE Fine(new) ==
             /\ new \in Seq(ConfLine)
             /\ \A k : k \notin Missing(ls) => GetAll(new, k) = GetAll(ls, k)
             /\ \A i \in DOMAIN ls : ls[i].form = "comment" => \E j \in DOMAIN new : new[j] = ls[i]
<1>0. Len(Schema) \in Nat /\ DOMAIN Schema = 1..Len(Schema)
  BY SchemaIsScalar, LenProperties
<1>1. PICK f : /\ f[0] = ls /\ Migrated(ls) = f[Len(Schema)]
               /\ \A k \in 1..Len(Schema) : f[k] = Completed(f[k - 1], k)
  BY MigratedInTurns
<1>2. ASSUME NEW n \in 1..Len(Schema), Fine(f[n - 1]) PROVE Fine(f[n])
  <2>1. PICK old : old = f[n - 1]
    OBVIOUS
  <2>2. old \in Seq(ConfLine)
    BY <1>2, <2>1
  <2>3. f[n] = Completed(old, n)
    BY <1>1, <2>1
  <2>4. CASE Contains(old, Schema[n])
    BY <1>2, <2>1, <2>3, <2>4 DEF Completed
  <2>5. CASE ~Contains(old, Schema[n])
    <3>1. Schema[n] \in Missing(ls)
      <4>1. Schema[n] \in {Schema[i] : i \in DOMAIN Schema}
        BY <1>0
      <4>2. ASSUME Schema[n] \notin Missing(ls) PROVE FALSE
        <5>1. GetAll(old, Schema[n]) = GetAll(ls, Schema[n])
          BY <1>2, <2>1, <4>2
        <5>2. Contains(ls, Schema[n]) <=> Contains(old, Schema[n])
          BY <2>2, <5>1, SameAllSameString
        <5> QED BY <2>5, <4>1, <4>2, <5>2 DEF Missing
      <4> QED BY <4>2
    <3>2. f[n] = SetScalar(old, Schema[n], Default[Schema[n]], MigrationMarker)
      BY <2>3, <2>5 DEF Completed
    <3>7. PICK key \in Name : /\ key = Schema[n]
                               /\ Default[Schema[n]] \in [1..Cells(key) -> Name]
      BY SchemaDefaults
    <3>8. MigrationMarker \in ConfLine /\ MigrationMarker.form = "comment"
      BY MarkersAreLines
    <3>3. f[n] \in Seq(ConfLine)
      BY <2>2, <3>2, <3>7, <3>8, SetScalarSets
    <3>4. SparesOthers(old, f[n], Schema[n])
      BY <2>2, <3>2, <3>7, <3>8, SetScalarSets
    <3>5. ASSUME NEW k, k \notin Missing(ls) PROVE GetAll(f[n], k) = GetAll(ls, k)
      <4>1. GetAll(f[n], k) = GetAll(old, k)
        BY <3>1, <3>4, <3>5 DEF SparesOthers
      <4>2. GetAll(old, k) = GetAll(ls, k)
        BY <1>2, <2>1, <3>5
      <4> QED BY <4>1, <4>2
    <3>6. ASSUME NEW i \in DOMAIN ls, ls[i].form = "comment"
          PROVE  \E j \in DOMAIN f[n] : f[n][j] = ls[i]
      <4>1. PICK m \in DOMAIN old : old[m] = ls[i]
        BY <1>2, <2>1, <3>6
      <4>2. \E j \in DOMAIN f[n] : f[n][j] = old[m]
        BY <3>4, <3>6, <4>1 DEF SparesOthers
      <4> QED BY <4>1, <4>2
    <3> QED BY <3>3, <3>5, <3>6
  <2> QED BY <2>4, <2>5
<1>3. Fine(f[0])
  BY <1>1
<1> DEFINE Bad == {n \in 0..Len(Schema) : ~Fine(f[n])}
<1> HIDE DEF Fine
<1>4. Bad = {}
  <2> SUFFICES ASSUME Bad # {} PROVE FALSE
    OBVIOUS
  <2>1. PICK n \in Bad : \A m \in Bad : n <= m
    BY <1>0, SmallestOf
  <2>2. n \in 0..Len(Schema) /\ ~Fine(f[n]) /\ n # 0
    BY <1>3, <2>1
  <2>3. n \in 1..Len(Schema) /\ n - 1 \in 0..Len(Schema) /\ ~ (n <= n - 1)
    BY <1>0, <2>2, SMT
  <2>4. Fine(f[n - 1])
    BY <2>1, <2>3
  <2> QED BY <1>2, <2>2, <2>3, <2>4
<1>5. Len(Schema) \in 0..Len(Schema)
  BY <1>0, SMT
<1>6. Fine(Migrated(ls))
  BY <1>1, <1>4, <1>5
<1> QED
  BY <1>6 DEF Fine

(* ------------------------------ the editor ------------------------------- *)

Row(b) == [1..Cells(b) -> Name]
Slips == {None, "tab", "reset", "cycle", "comma"}
Built_ == {"flag", "count"}

FieldTexts ==
    UNION {[fs -> [loaded : Name, now : Name]] : fs \in {Built_, Field}}

BlockRows ==
    {g \in [Block -> [loaded : Seq(Seq(Name)), rows : Seq(Seq(Name))]] :
       \A b \in Block : g[b].loaded \in Seq(Row(b)) /\ g[b].rows \in Seq(Row(b))}

Editor ==
    [field : FieldTexts, block : BlockRows, category : Category, found : BOOLEAN, inSearch : BOOLEAN,
     onField : Field \cup {None}, onBlock : Block \cup {None}, fieldCaret : Nat,
     row : Nat \ {0}, col : Nat, cell : {Class, Workspace}, unchecked : BOOLEAN, slip : Slips, fault : Slips]

\* A caret within its word, on a line or in a cell that is there.
InField(e) == e.onField # None => e.fieldCaret \in 0..Size(e.field[e.onField].now)
InLine(e) ==
    LET rows == e.block["bind"].rows
    IN  e.onBlock = "bind" => e.row \in 1..Len(rows) /\ e.col \in 0..Size(rows[e.row][Text])
InCell(e) ==
    LET rows == e.block[e.onBlock].rows
    IN  e.onBlock \in Structured =>
          /\ e.row \in 1..Len(rows) /\ e.col \in 0..Size(rows[e.row][e.cell])
          /\ e.cell = Workspace => HasWorkspace(e.onBlock, rows[e.row])

EditorOK(e) ==
    /\ e \in Editor
    /\ e.onField # None => e.onField \in DOMAIN e.field
    /\ e.slip = None => InField(e) /\ InLine(e) /\ InCell(e)

\* An edit changes what is typed, never what counts as loaded.
SameLoaded(e, x) ==
    /\ DOMAIN x.field = DOMAIN e.field
    /\ \A f \in DOMAIN e.field : x.field[f].loaded = e.field[f].loaded
    /\ \A b \in Block : x.block[b].loaded = e.block[b].loaded

Edits(e, x) == EditorOK(x) /\ SameLoaded(e, x)

LEMMA ClearFocusOK ==
    ASSUME NEW e \in Editor
    PROVE  /\ ClearFocus(e) \in Editor
           /\ ClearFocus(e).field = e.field /\ ClearFocus(e).block = e.block
           /\ ClearFocus(e).onField = None /\ ClearFocus(e).onBlock = None
           /\ ClearFocus(e).slip = None /\ ClearFocus(e).row = 1 /\ ClearFocus(e).col = 0
           /\ ClearFocus(e).cell = e.cell /\ ClearFocus(e).fault = e.fault
           /\ Edits(e, ClearFocus(e))
<1>1. None \in Slips
  BY DEF Slips
<1>2. /\ ClearFocus(e) \in Editor
      /\ ClearFocus(e).field = e.field /\ ClearFocus(e).block = e.block
      /\ ClearFocus(e).onField = None /\ ClearFocus(e).onBlock = None
      /\ ClearFocus(e).slip = None /\ ClearFocus(e).row = 1 /\ ClearFocus(e).col = 0
      /\ ClearFocus(e).cell = e.cell /\ ClearFocus(e).fault = e.fault
  <2>1. ClearFocus(e) \in Editor
    <3>1. 1 \in Nat \ {0} /\ 0 \in Nat /\ FALSE \in BOOLEAN
      OBVIOUS
    <3>2. None \in Field \cup {None} /\ None \in Block \cup {None}
      OBVIOUS
    <3> QED BY <1>1, <3>1, <3>2 DEF ClearFocus, Editor
  <2>2. ClearFocus(e).field = e.field /\ ClearFocus(e).block = e.block
    BY DEF ClearFocus, Editor
  <2>3. ClearFocus(e).onField = None /\ ClearFocus(e).onBlock = None
    BY DEF ClearFocus, Editor
  <2>4. ClearFocus(e).slip = None /\ ClearFocus(e).row = 1 /\ ClearFocus(e).col = 0
    BY DEF ClearFocus, Editor
  <2>5. ClearFocus(e).cell = e.cell /\ ClearFocus(e).fault = e.fault
    BY DEF ClearFocus, Editor
  <2> QED BY <2>1, <2>2, <2>3, <2>4, <2>5
<1>3. EditorOK(ClearFocus(e))
  BY <1>2 DEF EditorOK, InField, InLine, InCell, None, Structured
<1> QED
  BY <1>2, <1>3 DEF Edits, SameLoaded

LEMMA FieldWithNow ==
    ASSUME NEW field \in FieldTexts, NEW f \in DOMAIN field, NEW v \in Name
    PROVE  /\ [field EXCEPT ![f].now = v] \in FieldTexts
           /\ DOMAIN [field EXCEPT ![f].now = v] = DOMAIN field
           /\ [field EXCEPT ![f].now = v][f].now = v
           /\ \A g \in DOMAIN field \ {f} : [field EXCEPT ![f].now = v][g] = field[g]
           /\ \A g \in DOMAIN field : [field EXCEPT ![f].now = v][g].loaded = field[g].loaded
<1>1. PICK fs \in {Built_, Field} : field \in [fs -> [loaded : Name, now : Name]]
  BY DEF FieldTexts
<1>2. [field EXCEPT ![f].now = v] \in [fs -> [loaded : Name, now : Name]]
  BY <1>1
<1> QED
  BY <1>1, <1>2 DEF FieldTexts

LEMMA RowsOfNames ==
    ASSUME NEW b, NEW rows \in Seq(Row(b))
    PROVE  rows \in Seq(Seq(Name))
<1>1. Cells(b) \in Nat
  BY DEF Cells
<1>2. Len(rows) \in Nat /\ rows = [i \in 1..Len(rows) |-> rows[i]]
  BY LenProperties
<1>3. \A i \in 1..Len(rows) : rows[i] \in Row(b)
  BY ElementOfSeq
<1>4. \A i \in 1..Len(rows) : rows[i] \in Seq(Name)
  BY <1>1, <1>3, RowsAreSequences DEF Row
<1> QED
  BY <1>2, <1>4

LEMMA BlockWithRows ==
    ASSUME NEW block \in BlockRows, NEW b \in Block, NEW rows \in Seq(Row(b))
    PROVE  /\ [block EXCEPT ![b].rows = rows] \in BlockRows
           /\ [block EXCEPT ![b].rows = rows][b].rows = rows
           /\ \A c \in Block \ {b} : [block EXCEPT ![b].rows = rows][c] = block[c]
           /\ \A c \in Block : [block EXCEPT ![b].rows = rows][c].loaded = block[c].loaded
<1>1. rows \in Seq(Seq(Name))
  BY RowsOfNames
<1> QED
  BY <1>1 DEF BlockRows

LEMMA RowsOfBlock ==
    ASSUME NEW e \in Editor, NEW b \in Block
    PROVE  /\ e.block \in BlockRows /\ e.block[b].rows \in Seq(Row(b))
           /\ e.block[b].loaded \in Seq(Row(b))
           /\ Len(e.block[b].rows) \in Nat /\ DOMAIN e.block[b].rows = 1..Len(e.block[b].rows)
           /\ \A i \in 1..Len(e.block[b].rows) : e.block[b].rows[i] \in Row(b)
<1>1. e.block \in BlockRows
  BY DEF Editor
<1>2. e.block[b].rows \in Seq(Row(b)) /\ e.block[b].loaded \in Seq(Row(b))
  BY <1>1 DEF BlockRows
<1> QED
  BY <1>1, <1>2, LenProperties, ElementOfSeq

LEMMA FieldsOfEditor ==
    ASSUME NEW e \in Editor
    PROVE  /\ e.field \in FieldTexts /\ DOMAIN e.field \in {Built_, Field}
           /\ \A f \in DOMAIN e.field : e.field[f].now \in Name /\ e.field[f].loaded \in Name
<1>1. e.field \in FieldTexts
  BY DEF Editor
<1> QED
  BY <1>1 DEF FieldTexts

LEMMA Sizes ==
    /\ \A word : Size(word) \in {0, 1} /\ Size(word) \in Nat
    /\ \A word : 0 \in 0..Size(word) /\ Size(word) \in 0..Size(word)
<1>1. ASSUME NEW word PROVE Size(word) = 0 \/ Size(word) = 1
  <2>1. CASE word = ""
    BY <2>1, Zenon DEF Size
  <2>2. CASE word # ""
    BY <2>2, Zenon DEF Size
  <2> QED BY <2>1, <2>2, Zenon
<1>2. \A n \in {0, 1} : 0 \in 0..n /\ n \in 0..n /\ n \in Nat
  BY SMT
<1>4. \A word : Size(word) \in {0, 1}
  BY <1>1
<1> QED
  BY <1>2, <1>4

LEMMA SizeOfText == \A word : word # "" => Size(word) = 1
BY Zenon DEF Size

LEMMA Carets == ASSUME NEW word, NEW caret \in 0..Size(word) PROVE caret \in {0, 1} /\ caret \in Nat
<1>1. PICK n \in {0, 1} : n = Size(word)
  BY Sizes
<1>2. caret \in 0..n
  BY <1>1
<1> QED
  BY <1>2

LEMMA CellsOfBlocks ==
    /\ Row("bind") = [1..1 -> Name]
    /\ \A b \in Structured : Row(b) = [1..3 -> Name] /\ b \in Block /\ b # "bind"
    /\ "bind" \in Block /\ "bind" \notin Structured /\ "windowrule" \in Structured
    /\ None \notin Block /\ None \notin Field /\ None \notin Structured
    /\ Block = Structured \cup {"bind"}
BY DEF Row, Cells, Structured, Block, None, Field

\* The focus moves from cell to cell of the rows that are there.
LEMMA MoveStructuredFocusOK ==
    ASSUME NEW e, EditorOK(e), NEW direction \in {-1, 1}, e.onField = None,
           NEW b \in Structured, e.onBlock = b,
           direction < 0 => e.row \in 1..Len(e.block[b].rows)
    PROVE  Edits(e, MoveStructuredFocus(e, direction))
<1> DEFINE rows == e.block[b].rows
           order == CellOrder(b, IF e.row <= Len(rows) THEN rows[e.row] ELSE BlankRow(b))
           i == CellIndex(order, e.cell)
           LastOf(row) == CellOrder(b, row)[Len(CellOrder(b, row))]
           To(row, cell, col) ==
             [e EXCEPT !.row = row, !.cell = cell, !.col = col, !.slip = IF row <= Len(rows) THEN None ELSE @]
           EndOf(row, cell) == To(row, cell, Size(rows[row][cell]))
<1>0. e \in Editor /\ Len(rows) \in Nat /\ e.row \in Nat \ {0}
  BY CellsOfBlocks, RowsOfBlock DEF EditorOK, Editor
<1>1. ASSUME NEW row \in 1..Len(rows), NEW cell \in {Class, Workspace},
             cell = Workspace => HasWorkspace(b, rows[row]),
             NEW col, col \in 0..Size(rows[row][cell])
      PROVE  Edits(e, To(row, cell, col))
  <2>0. row <= Len(rows)
    BY <1>0
  <2>1. row \in Nat \ {0} /\ col \in Nat /\ None \in Slips
    <3>1. row \in Nat \ {0}
      BY <1>0, SMT
    <3>2. \A n \in Nat : \A m \in 0..n : m \in Nat
      BY SMT
    <3> QED BY <1>1, <3>1, <3>2, Sizes DEF Slips
  <2> DEFINE x == To(row, cell, col)
  <2>5. x = [e EXCEPT !.row = row, !.cell = cell, !.col = col, !.slip = None]
    BY <2>0
  <2> HIDE DEF x
  <2>2. x \in Editor
    BY <1>0, <2>1, <2>5 DEF Editor
  <2>3. /\ x.field = e.field /\ x.block = e.block /\ x.onField = None /\ x.onBlock = b
        /\ x.row = row /\ x.cell = cell /\ x.col = col
    BY <1>0, <2>5 DEF Editor
  <2>4. EditorOK(x)
    BY <1>1, <2>2, <2>3, CellsOfBlocks DEF EditorOK, InField, InLine, InCell
  <2> QED BY <2>3, <2>4 DEF x, Edits, SameLoaded
\* Where the row is gone only another cell of it can be meant, and the slip is remembered.
<1>19. ASSUME ~ (e.row \in 1..Len(rows))
       PROVE  Edits(e, To(e.row, Workspace, 0))
  <2>0. ~ (e.row <= Len(rows))
    BY <1>0, <1>19
  <2>1. e.slip # None
    BY <1>19 DEF EditorOK, InCell
  <2> DEFINE x == To(e.row, Workspace, 0)
  <2>2. x = [e EXCEPT !.cell = Workspace, !.col = 0]
    BY <1>0, <2>0 DEF Editor
  <2> HIDE DEF x
  <2>3. x \in Editor
    BY <1>0, <2>2 DEF Editor
  <2>4. x.field = e.field /\ x.block = e.block /\ x.onField = None /\ x.slip = e.slip
    BY <1>0, <2>2 DEF Editor
  <2>5. EditorOK(x)
    BY <2>1, <2>3, <2>4 DEF EditorOK
  <2> QED BY <2>4, <2>5 DEF x, Edits, SameLoaded
<1>2. \A row : /\ HasWorkspace(b, row) => CellOrder(b, row) = <<Class, Workspace>>
               /\ ~ HasWorkspace(b, row) => CellOrder(b, row) = <<Class>>
  BY DEF CellOrder
<1>3. \/ order = <<Class>>
      \/ order = <<Class, Workspace>> /\ (e.row \in 1..Len(rows) => HasWorkspace(b, rows[e.row]))
  <2>1. CASE e.row <= Len(rows)
    <3>1. order = CellOrder(b, rows[e.row])
      BY <2>1
    <3> QED BY <1>2, <3>1
  <2>2. CASE ~ (e.row <= Len(rows))
    <3>1. order = CellOrder(b, BlankRow(b)) /\ ~ (e.row \in 1..Len(rows))
      BY <1>0, <2>2
    <3> QED BY <1>2, <3>1
  <2> QED BY <2>1, <2>2
<1>4. \A row : \/ LastOf(row) = Class
               \/ LastOf(row) = Workspace /\ HasWorkspace(b, row)
  <2>1. \A row : CellOrder(b, row) = <<Class>> => LastOf(row) = Class
    OBVIOUS
  <2>2. \A row : CellOrder(b, row) = <<Class, Workspace>> => LastOf(row) = Workspace
    OBVIOUS
  <2> QED BY <1>2, <2>1, <2>2
<1>5. order = <<Class>> => i = 1
  BY DEF CellIndex
<1>6. order = <<Class, Workspace>> => i \in {1, 2}
  <2>1. ASSUME order = <<Class, Workspace>> PROVE DOMAIN order = {1, 2}
    BY <2>1
  <2>2. CASE \E k \in DOMAIN order : order[k] = e.cell
    BY <2>1, <2>2 DEF CellIndex
  <2>3. CASE ~ \E k \in DOMAIN order : order[k] = e.cell
    BY <2>3 DEF CellIndex
  <2> QED BY <2>2, <2>3
<1>13. Len(<<Class>>) = 1 /\ Len(<<Class, Workspace>>) = 2
  OBVIOUS
<1>14. Class \in {Class, Workspace} /\ Workspace \in {Class, Workspace} /\ Class # Workspace
  BY DEF Class, Workspace
<1>15. Class # Workspace /\ \A word : 0 \in 0..Size(word) /\ Size(word) \in 0..Size(word)
  BY <1>14, Sizes
<1> DEFINE x == MoveStructuredFocus(e, direction)
<1>16. PICK right, down, left, up :
           /\ right = To(e.row, order[i + 1], 0) /\ down = To(e.row + 1, Class, 0)
           /\ left = EndOf(e.row, order[i - 1])
           /\ up = EndOf(e.row - 1, LastOf(rows[e.row - 1]))
  OBVIOUS
<1>17. i \in {1, 2} /\ Len(order) \in {1, 2}
  BY <1>3, <1>5, <1>6, <1>13
<1> HIDE DEF To, order, i
<1>18. /\ direction > 0 /\ i < Len(order) => x = right
       /\ direction > 0 /\ i = Len(order) /\ e.row < Len(rows) => x = down
       /\ direction < 0 /\ i > 1 => x = left
       /\ direction < 0 /\ i = 1 /\ e.row > 1 => x = up
       /\ \/ direction > 0 /\ (i < Len(order) \/ (i = Len(order) /\ e.row < Len(rows)))
          \/ direction < 0 /\ (i > 1 \/ (i = 1 /\ e.row > 1))
          \/ x = e
  <2>1. PICK k, n, row, len : k = i /\ n = Len(order) /\ row = e.row /\ len = Len(rows)
    OBVIOUS
  <2>2. x = CASE direction > 0 /\ k < n -> right
              [] direction > 0 /\ k = n /\ row < len -> down
              [] direction < 0 /\ k > 1 -> left
              [] direction < 0 /\ k = 1 /\ row > 1 -> up
              [] OTHER -> e
    BY <1>16, <2>1 DEF MoveStructuredFocus, To, order, i
  <2> HIDE DEF x
  <2>3. k \in {1, 2} /\ n \in {1, 2} /\ row \in Nat /\ len \in Nat
    BY <1>0, <1>17, <2>1
  <2>4. /\ direction > 0 /\ k < n => x = right
        /\ direction > 0 /\ k = n /\ row < len => x = down
        /\ direction < 0 /\ k > 1 => x = left
        /\ direction < 0 /\ k = 1 /\ row > 1 => x = up
        /\ \/ direction > 0 /\ (k < n \/ (k = n /\ row < len))
           \/ direction < 0 /\ (k > 1 \/ (k = 1 /\ row > 1))
           \/ x = e
    BY <2>2, <2>3
  <2> QED
    BY <2>1, <2>4
<1>7. Edits(e, e)
  BY DEF Edits, SameLoaded
<1>8. CASE direction > 0 /\ i < Len(order)
  <2>1. order = <<Class, Workspace>> /\ i = 1 /\ (e.row \in 1..Len(rows) => HasWorkspace(b, rows[e.row]))
    <3>1. ASSUME order = <<Class>> PROVE FALSE
      <4>1. i = 1
        BY <1>5, <3>1
      <4>2. Len(order) = 1
        BY <1>13, <3>1
      <4> QED BY <1>8, <4>1, <4>2
    <3>2. order = <<Class, Workspace>> /\ (e.row \in 1..Len(rows) => HasWorkspace(b, rows[e.row]))
      BY <1>3, <3>1
    <3>3. i = 1
      BY <1>6, <1>8, <1>13, <3>2
    <3> QED BY <3>2, <3>3
  <2>2. x = To(e.row, order[i + 1], 0)
    BY <1>8, <1>16, <1>18
  <2>3. x = To(e.row, Workspace, 0)
    BY <2>1, <2>2
  <2>4. CASE e.row \in 1..Len(rows)
    BY <1>1, <1>14, <1>15, <2>1, <2>3, <2>4
  <2>5. CASE ~ (e.row \in 1..Len(rows))
    BY <1>19, <2>3, <2>5
  <2> QED BY <2>4, <2>5
<1>9. CASE direction > 0 /\ i = Len(order) /\ e.row < Len(rows)
  <2>1. x = To(e.row + 1, Class, 0)
    BY <1>9, <1>16, <1>18
  <2>2. e.row + 1 \in 1..Len(rows)
    BY <1>0, <1>9, SMT
  <2> QED BY <1>1, <1>14, <1>15, <2>1, <2>2
<1>10. CASE direction < 0 /\ i > 1
  <2>1. order = <<Class, Workspace>> /\ i = 2 /\ e.row \in 1..Len(rows)
    <3>1. order # <<Class>>
      BY <1>5, <1>10
    <3>2. direction < 0
      BY <1>10
    <3> QED BY <1>3, <1>6, <1>10, <3>1, <3>2
  <2>2. x = EndOf(e.row, order[i - 1])
    BY <1>10, <1>16, <1>18
  <2>4. order[i - 1] = Class
    BY <2>1
  <2>3. x = To(e.row, Class, Size(rows[e.row][Class]))
    BY <2>2, <2>4
  <2> QED BY <1>1, <1>14, <1>15, <2>1, <2>3
<1>11. CASE direction < 0 /\ i = 1 /\ e.row > 1
  <2>1. x = EndOf(e.row - 1, LastOf(rows[e.row - 1]))
    BY <1>11, <1>16, <1>18
  <2>2. e.row - 1 \in 1..Len(rows)
    BY <1>0, <1>11, SMT
  <2>3. PICK cell : cell = LastOf(rows[e.row - 1])
    OBVIOUS
  <2>4. cell \in {Class, Workspace} /\ (cell = Workspace => HasWorkspace(b, rows[e.row - 1]))
    BY <1>4, <2>3 DEF Class, Workspace
  <2>5. x = To(e.row - 1, cell, Size(rows[e.row - 1][cell]))
    BY <2>1, <2>3
  <2> QED BY <1>1, <1>15, <2>2, <2>4, <2>5
<1>12. CASE /\ ~ (direction > 0 /\ i < Len(order))
            /\ ~ (direction > 0 /\ i = Len(order) /\ e.row < Len(rows))
            /\ ~ (direction < 0 /\ i > 1) /\ ~ (direction < 0 /\ i = 1 /\ e.row > 1)
  BY <1>7, <1>12, <1>18
<1> QED
  BY <1>8, <1>9, <1>10, <1>11, <1>12

LEMMA FocusFieldOK ==
    ASSUME NEW e, EditorOK(e), NEW f \in DOMAIN e.field, NEW caret \in 0..Size(e.field[f].now)
    PROVE  Edits(e, FocusField(e, f, caret))
<1> DEFINE x == FocusField(e, f, caret)
<1>0. e \in Editor /\ f \in Field /\ f # None
  <2>1. e \in Editor
    BY DEF EditorOK
  <2> QED BY <2>1, FieldsOfEditor DEF Built_, Field, None
<1>1. PICK c \in Editor : /\ c = ClearFocus(e) /\ c.field = e.field /\ c.block = e.block
                          /\ c.onBlock = None /\ c.slip = None
  BY <1>0, ClearFocusOK
<1>2. caret \in Nat
  BY Carets
<1>3. x = [c EXCEPT !.onField = f, !.fieldCaret = caret]
  BY <1>1 DEF FocusField
<1>4. x \in Editor
  BY <1>0, <1>1, <1>2, <1>3 DEF Editor
<1>5. /\ x.field = e.field /\ x.block = e.block /\ x.onField = f /\ x.fieldCaret = caret
      /\ x.onBlock = None
  BY <1>1, <1>3 DEF Editor
<1> HIDE DEF x
<1>6. EditorOK(x)
  BY <1>0, <1>4, <1>5, CellsOfBlocks DEF EditorOK, InField, InLine, InCell
<1> QED
  BY <1>5, <1>6 DEF x, Edits, SameLoaded

LEMMA FocusRowOK ==
    ASSUME NEW e, EditorOK(e), NEW b \in Block, NEW i \in 1..Len(e.block[b].rows),
           NEW cell \in {Class, Workspace},
           b \in Structured /\ cell = Workspace => HasWorkspace(b, e.block[b].rows[i]),
           NEW col \in 0..Size(e.block[b].rows[i][IF b = "bind" THEN Text ELSE cell])
    PROVE  Edits(e, FocusRow(e, b, i, cell, col))
<1> DEFINE x == FocusRow(e, b, i, cell, col)
<1>0. e \in Editor
  BY DEF EditorOK
<1>1. PICK c \in Editor : /\ c = ClearFocus(e) /\ c.field = e.field /\ c.block = e.block
                          /\ c.onField = None /\ c.slip = None
  BY <1>0, ClearFocusOK
<1>2. col \in Nat /\ i \in Nat \ {0}
  <2>1. col \in Nat
    BY Carets
  <2>2. Len(e.block[b].rows) \in Nat
    BY <1>0, RowsOfBlock
  <2> QED BY <2>1, <2>2
<1>3. x = [c EXCEPT !.onBlock = b, !.row = i, !.cell = cell, !.col = col]
  BY <1>1 DEF FocusRow
<1>4. x \in Editor
  BY <1>1, <1>2, <1>3 DEF Editor
<1>5. /\ x.field = e.field /\ x.block = e.block /\ x.onField = None
      /\ x.onBlock = b /\ x.row = i /\ x.cell = cell /\ x.col = col
  BY <1>1, <1>3 DEF Editor
<1> HIDE DEF x
<1>6. CASE b = "bind"
  <2>1. InLine(x)
    BY <1>5, <1>6 DEF InLine
  <2>2. InField(x) /\ InCell(x)
    BY <1>5, <1>6, CellsOfBlocks DEF InField, InCell
  <2>3. EditorOK(x)
    BY <1>4, <1>5, <2>1, <2>2 DEF EditorOK
  <2> QED BY <1>5, <2>3 DEF x, Edits, SameLoaded
<1>7. CASE b # "bind"
  <2>1. b \in Structured
    BY <1>7, CellsOfBlocks
  <2>2. InCell(x)
    BY <1>5, <1>7, <2>1 DEF InCell
  <2>3. InField(x) /\ InLine(x)
    BY <1>5, <2>1, CellsOfBlocks DEF InField, InLine
  <2>4. EditorOK(x)
    BY <1>4, <1>5, <2>2, <2>3 DEF EditorOK
  <2> QED BY <1>5, <2>4 DEF x, Edits, SameLoaded
<1> QED
  BY <1>6, <1>7

\* Other rows in a block, and nothing else.
LEMMA RowsChange ==
    ASSUME NEW e \in Editor, NEW b \in Block, NEW rows \in Seq(Row(b))
    PROVE  LET x == [e EXCEPT !.block[b].rows = rows]
           IN  /\ x \in Editor /\ SameLoaded(e, x) /\ x.field = e.field
               /\ x.block[b].rows = rows /\ \A c \in Block \ {b} : x.block[c] = e.block[c]
               /\ x.onField = e.onField /\ x.onBlock = e.onBlock /\ x.fieldCaret = e.fieldCaret
               /\ x.row = e.row /\ x.col = e.col /\ x.cell = e.cell /\ x.slip = e.slip
               /\ x.fault = e.fault
<1> DEFINE block == [e.block EXCEPT ![b].rows = rows]
           x == [e EXCEPT !.block[b].rows = rows]
<1>1. /\ block \in BlockRows /\ block[b].rows = rows /\ \A c \in Block \ {b} : block[c] = e.block[c]
      /\ \A c \in Block : block[c].loaded = e.block[c].loaded
  <2>1. e.block \in BlockRows
    BY RowsOfBlock
  <2>2. block \in BlockRows
    BY <2>1, BlockWithRows
  <2>3. block[b].rows = rows
    BY <2>1 DEF BlockRows
  <2>4. \A c \in Block \ {b} : block[c] = e.block[c]
    BY <2>1, BlockWithRows
  <2>5. \A c \in Block : block[c].loaded = e.block[c].loaded
    BY <2>1, BlockWithRows
  <2> QED BY <2>2, <2>3, <2>4, <2>5
<1>2. x = [e EXCEPT !.block = block]
  BY DEF Editor
<1> HIDE DEF block, x
<1>3. x \in Editor
  BY <1>1, <1>2 DEF Editor
<1>4. /\ x.block = block /\ x.field = e.field
      /\ x.onField = e.onField /\ x.onBlock = e.onBlock /\ x.fieldCaret = e.fieldCaret
      /\ x.row = e.row /\ x.col = e.col /\ x.cell = e.cell /\ x.slip = e.slip /\ x.fault = e.fault
  BY <1>2 DEF Editor
<1>5. SameLoaded(e, x)
  BY <1>1, <1>4 DEF SameLoaded
<1> QED
  BY <1>1, <1>3, <1>4, <1>5 DEF x

LEMMA CellsMakeRow ==
    /\ \A x \in Name : <<x>> \in [1..1 -> Name]
    /\ \A x, y, z \in Name : <<x, y, z>> \in [1..3 -> Name]
OBVIOUS

LEMMA BlankRows == \A b \in Block : BlankRow(b) \in Row(b)
<1> SUFFICES ASSUME NEW b \in Block PROVE BlankRow(b) \in Row(b)
  OBVIOUS
<1>1. "" \in Name
  BY DEF Name
<1>2. CASE b \in Structured
  <2>1. BlankRow(b) = <<"", "", "">>
    BY <1>2, Zenon DEF BlankRow
  <2>2. Row(b) = [1..3 -> Name]
    BY <1>2, Zenon DEF Row, Cells
  <2> QED BY <1>1, <2>1, <2>2, CellsMakeRow, Zenon
<1>3. CASE b \notin Structured
  <2>1. BlankRow(b) = <<"">>
    BY <1>3, Zenon DEF BlankRow
  <2>2. Row(b) = [1..1 -> Name]
    BY <1>3, Zenon DEF Row, Cells
  <2> QED BY <1>1, <2>1, <2>2, CellsMakeRow, Zenon
<1> QED
  BY <1>2, <1>3

LEMMA FocusRawBlockOK ==
    ASSUME NEW e, EditorOK(e), NEW b \in Block
    PROVE  Edits(e, FocusRawBlock(e, b))
<1>0. e \in Editor
  BY DEF EditorOK
<1>1. PICK rows : rows = IF e.block[b].rows = <<>> THEN <<BlankRow(b)>> ELSE e.block[b].rows
  OBVIOUS
<1>2. rows \in Seq(Row(b)) /\ Len(rows) \in Nat /\ Len(rows) \in 1..Len(rows)
  <2>1. CASE e.block[b].rows = <<>>
    <3>1. PICK blank \in Row(b) : blank = BlankRow(b)
      BY BlankRows
    <3>2. rows = <<blank>>
      BY <1>1, <2>1, <3>1
    <3> QED BY <3>2
  <2>2. CASE e.block[b].rows # <<>>
    <3>1. rows = e.block[b].rows /\ rows \in Seq(Row(b))
      BY <1>0, <1>1, <2>2, RowsOfBlock
    <3>2. Len(rows) \in Nat /\ Len(rows) # 0
      BY <2>2, <3>1, EmptySeq, LenProperties
    <3> QED BY <3>1, <3>2, SMT
  <2> QED BY <2>1, <2>2
<1>3. PICK c \in Editor : /\ c = ClearFocus(e) /\ c.field = e.field /\ c.block = e.block
                          /\ c.onField = None /\ c.slip = None
  BY <1>0, ClearFocusOK
<1>4. PICK d \in Editor : /\ d = [c EXCEPT !.block[b].rows = rows]
                          /\ SameLoaded(c, d) /\ d.field = c.field
                          /\ d.block[b].rows = rows /\ d.onField = None /\ d.slip = None
  <2>1. LET x == [c EXCEPT !.block[b].rows = rows]
        IN  /\ x \in Editor /\ SameLoaded(c, x) /\ x.field = c.field
            /\ x.block[b].rows = rows /\ \A a \in Block \ {b} : x.block[a] = c.block[a]
            /\ x.onField = c.onField /\ x.onBlock = c.onBlock /\ x.fieldCaret = c.fieldCaret
            /\ x.row = c.row /\ x.col = c.col /\ x.cell = c.cell /\ x.slip = c.slip
            /\ x.fault = c.fault
    BY <1>2, RowsChange
  <2> QED BY <1>3, <2>1
<1>5. SameLoaded(e, d)
  BY <1>3, <1>4 DEF SameLoaded
<1>6. Len(rows) \in Nat \ {0}
  BY <1>2, SMT
<1>7. PICK focused : focused = [ClearFocus(e) EXCEPT !.onBlock = b, !.row = Len(rows), !.block[b].rows = rows]
  OBVIOUS
<1>8. focused = [d EXCEPT !.onBlock = b, !.row = Len(rows)]
  BY <1>3, <1>4, <1>7 DEF Editor
<1>9. CASE b \in Structured
  <2>1. PICK col \in Nat : col = IF Blank(rows[Len(rows)]) THEN 0 ELSE LineSize
    <3>1. 0 \in Nat /\ LineSize \in Nat
      BY DEF LineSize
    <3> QED BY <3>1
  <2> DEFINE x == FocusRawBlock(e, b)
  <2>2. x = [focused EXCEPT !.col = col, !.slip = "tab"]
    BY <1>1, <1>7, <1>9, <2>1 DEF FocusRawBlock
  <2>3. x = [d EXCEPT !.onBlock = b, !.row = Len(rows), !.col = col, !.slip = "tab"]
    BY <1>8, <2>2 DEF Editor
  <2>4. x \in Editor
    BY <1>4, <1>6, <2>3 DEF Editor, Slips
  <2>5. x.field = d.field /\ x.block = d.block /\ x.onField = None /\ x.slip = "tab"
    BY <1>4, <2>3 DEF Editor
  <2> HIDE DEF x
  <2>6. EditorOK(x)
    BY <2>4, <2>5 DEF EditorOK, None
  <2> QED BY <1>5, <2>5, <2>6 DEF x, Edits, SameLoaded
<1>10. CASE b \notin Structured
  <2>0. b = "bind"
    BY <1>10, CellsOfBlocks
  <2>1. PICK col \in Nat : col = Size(rows[Len(rows)][Text])
    BY Sizes
  <2> DEFINE x == FocusRawBlock(e, b)
  <2>2. x = [focused EXCEPT !.col = col]
    BY <1>1, <1>7, <1>10, <2>1 DEF FocusRawBlock
  <2>3. x = [d EXCEPT !.onBlock = b, !.row = Len(rows), !.col = col]
    BY <1>8, <2>2 DEF Editor
  <2>4. x \in Editor
    BY <1>4, <1>6, <2>3 DEF Editor
  <2>5. /\ x.field = d.field /\ x.block = d.block /\ x.onField = None /\ x.onBlock = b
        /\ x.row = Len(rows) /\ x.col = col
    BY <1>4, <2>3 DEF Editor
  <2> HIDE DEF x
  <2>6. InLine(x)
    <3>1. x.block["bind"].rows = rows
      BY <1>4, <2>0, <2>5
    <3>2. col \in 0..Size(rows[Len(rows)][Text])
      BY <2>1, Sizes
    <3> QED BY <1>2, <2>5, <3>1, <3>2 DEF InLine
  <2>7. InField(x) /\ InCell(x)
    BY <2>0, <2>5, CellsOfBlocks DEF InField, InCell
  <2>8. EditorOK(x)
    BY <2>4, <2>5, <2>6, <2>7 DEF EditorOK
  <2> QED BY <1>5, <2>5, <2>8 DEF x, Edits, SameLoaded
<1> QED
  BY <1>9, <1>10

LEMMA VisibleAreThere ==
    ASSUME NEW e
    PROVE  /\ VisibleFields(e) \in Seq(Field \cap DOMAIN e.field)
           /\ VisibleBlocks(e) \in Seq(Block)
<1> DEFINE fs == {i \in DOMAIN FieldOrder : FieldOrder[i] \in DOMAIN e.field
                    /\ (e.found \/ FieldCategory(FieldOrder[i]) = e.category)}
           bs == {i \in DOMAIN BlockOrder : e.found \/ BlockCategory(BlockOrder[i]) = e.category}
<1>1. FieldOrder \in Seq(Field) /\ BlockOrder \in Seq(Block)
  BY DEF FieldOrder, BlockOrder, Field, Block
<1>2. VisibleFields(e) = Remaining(FieldOrder, fs) /\ VisibleBlocks(e) = Remaining(BlockOrder, bs)
  BY DEF VisibleFields, VisibleBlocks
<1>3. fs \in SUBSET DOMAIN FieldOrder /\ bs \in SUBSET DOMAIN BlockOrder
  OBVIOUS
<1>4. \A i \in fs : FieldOrder[i] \in DOMAIN e.field
  OBVIOUS
<1> HIDE DEF fs, bs
<1>5. Remaining(BlockOrder, bs) \in Seq(Block)
  BY <1>1, <1>3, RemainingElements
<1>6. PICK shown : shown = Remaining(FieldOrder, fs)
  OBVIOUS
<1>7. shown \in Seq(Field) /\ Len(shown) = Cardinality(fs)
  BY <1>1, <1>3, <1>6, RemainingElements
<1>8. \A n \in 1..Cardinality(fs) : Nth(fs, n) \in fs /\ shown[n] = FieldOrder[Nth(fs, n)]
  BY <1>1, <1>3, <1>6, RemainingElements
<1>9. \A n \in 1..Len(shown) : shown[n] \in Field \cap DOMAIN e.field
  BY <1>4, <1>7, <1>8, ElementOfSeq
<1>10. shown = [n \in 1..Len(shown) |-> shown[n]] /\ Len(shown) \in Nat
  BY <1>7, LenProperties
<1>11. shown \in Seq(Field \cap DOMAIN e.field)
  BY <1>9, <1>10
<1> QED
  BY <1>2, <1>5, <1>6, <1>11

LEMMA EditsNothing == ASSUME NEW e, EditorOK(e) PROVE Edits(e, e)
BY DEF Edits, SameLoaded

LEMMA TabOK ==
    ASSUME NEW e, EditorOK(e)
    PROVE  Edits(e, Tab(e))
<1> DEFINE x == Tab(e)
<1>0. e \in Editor
  BY DEF EditorOK
<1>1. PICK fields \in Seq(Field \cap DOMAIN e.field) : fields = VisibleFields(e)
  BY VisibleAreThere
<1>2. PICK blocks \in Seq(Block) : blocks = VisibleBlocks(e)
  BY VisibleAreThere
<1>3. ASSUME NEW i \in 1..Len(fields)
      PROVE  Edits(e, FocusField(e, fields[i], Size(e.field[fields[i]].now)))
  <2>1. PICK f \in DOMAIN e.field : f = fields[i]
    BY <1>3, ElementOfSeq
  <2>2. PICK caret \in 0..Size(e.field[f].now) : caret = Size(e.field[f].now)
    BY Sizes
  <2>3. Edits(e, FocusField(e, f, caret))
    BY FocusFieldOK
  <2> QED BY <2>1, <2>2, <2>3
<1>4. ASSUME NEW y, Edits(e, y)
      PROVE  Edits(e, IF blocks # <<>> THEN FocusRawBlock(y, blocks[1]) ELSE y)
  <2>1. CASE blocks # <<>>
    <3>1. Len(blocks) \in Nat /\ Len(blocks) # 0
      BY <2>1, EmptySeq, LenProperties
    <3>2. 1 \in 1..Len(blocks)
      BY <3>1, SMT
    <3>3. PICK b \in Block : b = blocks[1]
      BY <3>2, ElementOfSeq
    <3>4. Edits(y, FocusRawBlock(y, b))
      BY <1>4, FocusRawBlockOK DEF Edits
    <3>5. SameLoaded(e, FocusRawBlock(y, b))
      BY <1>4, <3>4 DEF Edits, SameLoaded
    <3> QED BY <2>1, <3>3, <3>4, <3>5 DEF Edits
  <2>2. CASE blocks = <<>>
    BY <1>4, <2>2
  <2> QED BY <2>1, <2>2
<1>5. CASE e.inSearch
  <2>1. CASE fields # <<>>
    <3>1. Len(fields) \in Nat /\ Len(fields) # 0
      BY <2>1, EmptySeq, LenProperties
    <3>2. 1 \in 1..Len(fields)
      BY <3>1, SMT
    <3>3. x = FocusField(e, fields[1], Size(e.field[fields[1]].now))
      BY <1>1, <1>5, <2>1 DEF Tab
    <3> QED BY <1>3, <3>2, <3>3
  <2>2. CASE fields = <<>>
    <3>1. PICK y : y = [e EXCEPT !.inSearch = FALSE]
      OBVIOUS
    <3>2. y \in Editor
      BY <1>0, <3>1 DEF Editor
    <3>3. /\ y.field = e.field /\ y.block = e.block /\ y.onField = e.onField /\ y.onBlock = e.onBlock
          /\ y.fieldCaret = e.fieldCaret /\ y.row = e.row /\ y.col = e.col /\ y.cell = e.cell
          /\ y.slip = e.slip
      BY <1>0, <3>1 DEF Editor
    <3>4. Edits(e, y)
      BY <3>2, <3>3 DEF Edits, SameLoaded, EditorOK, InField, InLine, InCell
    <3>5. x = IF blocks # <<>> THEN FocusRawBlock(y, blocks[1]) ELSE y
      BY <1>1, <1>2, <1>5, <2>2, <3>1 DEF Tab
    <3> QED BY <1>4, <3>4, <3>5
  <2> QED BY <2>1, <2>2
<1>6. CASE ~e.inSearch /\ e.onField # None
  <2>1. PICK i \in Nat : i = IndexIn(fields, e.onField)
    <3>1. CASE Shows(fields, e.onField)
      <4>1. IndexIn(fields, e.onField) \in DOMAIN fields
        BY <3>1 DEF IndexIn, Shows
      <4>2. DOMAIN fields \subseteq Nat
        BY LenProperties
      <4> QED BY <4>1, <4>2
    <3>2. CASE ~Shows(fields, e.onField)
      BY <3>2, LenProperties DEF IndexIn
    <3> QED BY <3>1, <3>2
  <2>2. CASE i < Len(fields)
    <3>1. i + 1 \in 1..Len(fields)
      BY <2>2, LenProperties
    <3>2. x = FocusField(e, fields[i + 1], Size(e.field[fields[i + 1]].now))
      BY <1>1, <1>6, <2>1, <2>2 DEF Tab
    <3> QED BY <1>3, <3>1, <3>2
  <2>3. CASE ~ (i < Len(fields))
    <3>1. Len(fields) \in Nat /\ i >= Len(fields)
      BY <2>3, LenProperties
    <3>2. x = IF blocks # <<>> THEN FocusRawBlock(ClearFocus(e), blocks[1]) ELSE ClearFocus(e)
      BY <1>1, <1>2, <1>6, <2>1, <2>3, <3>1 DEF Tab
    <3>3. Edits(e, ClearFocus(e))
      BY <1>0, ClearFocusOK
    <3> QED BY <1>4, <3>2, <3>3
  <2> QED BY <2>2, <2>3
<1>7. CASE ~e.inSearch /\ e.onField = None /\ e.onBlock \in Structured
  <2>1. x = MoveStructuredFocus(e, 1)
    BY <1>7 DEF Tab
  <2>2. PICK b \in Structured : b = e.onBlock
    BY <1>7
  <2>3. PICK direction \in {-1, 1} : direction = 1 /\ ~ (direction < 0)
    OBVIOUS
  <2>4. Edits(e, MoveStructuredFocus(e, direction))
    BY <1>7, <2>2, <2>3, MoveStructuredFocusOK
  <2> QED BY <2>1, <2>3, <2>4
<1>8. CASE ~e.inSearch /\ e.onField = None /\ e.onBlock \notin Structured
  <2>1. x = ClearFocus(e)
    BY <1>8 DEF Tab
  <2> QED BY <1>0, <2>1, ClearFocusOK
<1> QED
  BY <1>5, <1>6, <1>7, <1>8

(* -------------------------------- the keys ------------------------------- *)

LEMMA LiteralsAreNames ==
    /\ "" \in Name /\ "1" \in Name /\ "junk" \in Name /\ "tile" \in Name /\ "workspace" \in Name
    /\ "true" \in Name /\ "false" \in Name /\ "half" \in Name
BY DEF Name

LEMMA SizeOfLiterals == Size("") = 0 /\ Size("1") = 1 /\ Size("junk") = 1 /\ Size("half") = 1
BY DEF Size

\* A caret inside its text stays inside, whatever the key does to both.
LEMMA EditedOK ==
    ASSUME NEW word \in Name, NEW caret \in Nat, NEW key
    PROVE  \E a \in Name, c \in Nat :
             /\ Edited(word, caret, key) = <<a, c>>
             /\ caret \in 0..Size(word) => c \in 0..Size(a)
             /\ key \in {"left", "right"} => a = word
<1> DEFINE Good(a, c) ==
             /\ a \in Name /\ c \in Nat /\ Edited(word, caret, key) = <<a, c>>
             /\ caret \in 0..Size(word) => c \in 0..Size(a)
             /\ key \in {"left", "right"} => a = word
<1>0. PICK n \in {0, 1} : n = Size(word)
  BY Sizes
<1>1. CASE key \in {"type", "half"} /\ word = ""
  <2>0. PICK a \in Name : a = (IF key = "type" THEN "1" ELSE key) /\ Size(a) = 1
    <3>1. CASE key = "type"
      BY <3>1, LiteralsAreNames, SizeOfLiterals, Zenon
    <3>2. CASE key # "type"
      <4>1. key = "half"
        BY <1>1, <3>2
      <4> QED BY <3>2, <4>1, LiteralsAreNames, SizeOfLiterals, Zenon
    <3> QED BY <3>1, <3>2, Zenon
  <2>1. Edited(word, caret, key) = <<a, caret + 1>>
    BY <1>1, <2>0, Zenon DEF Edited
  <2>2. caret + 1 \in Nat /\ (caret \in 0..0 => caret + 1 \in 0..1)
    BY SMT
  <2>3. Size(word) = 0
    BY <1>1, SizeOfLiterals, Zenon
  <2>4. key \notin {"left", "right"}
    BY <1>1
  <2>5. caret \in 0..Size(word) => caret + 1 \in 0..Size(a)
    BY <2>0, <2>2, <2>3, Zenon
  <2>6. Good(a, caret + 1)
    BY <2>1, <2>2, <2>4, <2>5, Zenon
  <2> QED BY <2>6, Zenon
<1>2. CASE key = "back" /\ caret > 0
  <2>1. PICK a \in Name : a = IF caret = 1 THEN "" ELSE word
    <3>1. CASE caret = 1
      BY <3>1, LiteralsAreNames, Zenon
    <3>2. CASE caret # 1
      BY <3>2, Zenon
    <3> QED BY <3>1, <3>2, Zenon
  <2>2. Edited(word, caret, key) = <<a, caret - 1>>
    <3>1. key \notin {"type", "half"}
      BY <1>2
    <3>2. Edited(word, caret, key) = <<IF caret = 1 THEN "" ELSE word, caret - 1>>
      BY <1>2, <3>1, Zenon DEF Edited
    <3> QED BY <2>1, <3>2, Zenon
  <2>3. caret - 1 \in Nat
    BY <1>2
  <2>4. ASSUME caret \in 0..Size(word) PROVE caret - 1 \in 0..Size(a)
    <3>1. caret - 1 = 0
      BY <1>0, <1>2, <2>4
    <3> QED BY <3>1, Sizes
  <2>5. key \notin {"left", "right"}
    BY <1>2
  <2>6. Good(a, caret - 1)
    BY <2>2, <2>3, <2>4, <2>5, Zenon
  <2> QED BY <2>6, Zenon
<1>3. CASE key = "delete" /\ caret < Size(word)
  <2>1. Edited(word, caret, key) = <<"", caret>>
    <3>1. key \notin {"type", "half"} /\ key # "back"
      BY <1>3
    <3> QED BY <1>3, <3>1, Zenon DEF Edited
  <2>2. caret = 0
    BY <1>0, <1>3
  <2>3. 0 \in 0..Size("")
    BY Sizes, Zenon
  <2>5. key \notin {"left", "right"}
    BY <1>3
  <2>6. Good("", caret)
    BY <2>1, <2>2, <2>3, <2>5, LiteralsAreNames, Zenon
  <2> QED BY <2>6, Zenon
<1> DEFINE Caret == {caret - 1, caret + 1, 0, Size(word), caret}
<1>4. ASSUME NEW c, Edited(word, caret, key) = <<word, c>>,
             \/ c = caret \/ c = 0 \/ c = Size(word)
             \/ c = caret - 1 /\ caret > 0
             \/ c = caret + 1 /\ caret < Size(word)
      PROVE  Good(word, c)
  <2>1. c \in Nat /\ (caret \in 0..Size(word) => c \in 0..Size(word))
    BY <1>0, <1>4
  <2> QED BY <1>4, <2>1, Zenon
<1>5. CASE key = "left" /\ caret > 0
  <2>1. Edited(word, caret, key) = <<word, caret - 1>>
    <3>1. key \notin {"type", "half"} /\ key # "back" /\ key # "delete"
      BY <1>5
    <3> QED BY <1>5, <3>1, Zenon DEF Edited
  <2> QED BY <1>4, <1>5, <2>1, Zenon
<1>6. CASE key = "right" /\ caret < Size(word)
  <2>1. Edited(word, caret, key) = <<word, caret + 1>>
    <3>1. key \notin {"type", "half"} /\ key # "back" /\ key # "delete" /\ key # "left"
      BY <1>6
    <3> QED BY <1>6, <3>1, Zenon DEF Edited
  <2> QED BY <1>4, <1>6, <2>1, Zenon
<1>7. CASE key = "home"
  <2>1. Edited(word, caret, key) = <<word, 0>>
    <3>1. key \notin {"type", "half"} /\ key # "back" /\ key # "delete" /\ key # "left" /\ key # "right"
      BY <1>7
    <3> QED BY <1>7, <3>1, Zenon DEF Edited
  <2> QED BY <1>4, <1>7, <2>1, Zenon
<1>8. CASE key = "end"
  <2>1. Edited(word, caret, key) = <<word, Size(word)>>
    <3>1. key \notin {"type", "half", "back", "delete", "left", "right", "home"}
      BY <1>8
    <3>2. key \notin {"type", "half"} /\ key # "back" /\ key # "delete" /\ key # "left" /\ key # "right"
          /\ key # "home"
      BY <3>1
    <3> QED BY <1>8, <3>2, Zenon DEF Edited
  <2> QED BY <1>4, <1>8, <2>1, Zenon
<1>9. CASE /\ ~ (key \in {"type", "half"} /\ word = "") /\ ~ (key = "back" /\ caret > 0)
           /\ ~ (key = "delete" /\ caret < Size(word)) /\ ~ (key = "left" /\ caret > 0)
           /\ ~ (key = "right" /\ caret < Size(word)) /\ ~ (key = "home") /\ ~ (key = "end")
  <2>1. Edited(word, caret, key) = <<word, caret>>
    BY <1>9, Zenon DEF Edited
  <2> QED BY <1>4, <2>1, Zenon
<1> QED
  BY <1>1, <1>2, <1>3, <1>5, <1>6, <1>7, <1>8, <1>9, Zenon

Typed(e, f, v, caret) == [e EXCEPT !.field[f].now = v, !.fieldCaret = caret]

LEMMA FieldChange ==
    ASSUME NEW e \in Editor, NEW f \in DOMAIN e.field, NEW v \in Name, NEW caret \in Nat
    PROVE  LET x == Typed(e, f, v, caret)
           IN  /\ x \in Editor /\ SameLoaded(e, x) /\ x.block = e.block
               /\ x.field[f].now = v
               /\ x.onField = e.onField /\ x.onBlock = e.onBlock /\ x.fieldCaret = caret
               /\ x.row = e.row /\ x.col = e.col /\ x.cell = e.cell /\ x.slip = e.slip
               /\ x.fault = e.fault
<1> DEFINE field == [e.field EXCEPT ![f].now = v]
           x == Typed(e, f, v, caret)
<1>0. e.field \in FieldTexts
  BY FieldsOfEditor
<1>1. field \in FieldTexts
  BY <1>0, FieldWithNow
<1>2. DOMAIN field = DOMAIN e.field
  BY <1>0, FieldWithNow
<1>3. field[f].now = v
  BY <1>0 DEF FieldTexts
<1>4. \A g \in DOMAIN e.field : field[g].loaded = e.field[g].loaded
  BY <1>0, FieldWithNow
<1>5. x = [e EXCEPT !.field = field, !.fieldCaret = caret]
  BY DEF Editor, Typed
<1> HIDE DEF field, x
<1>6. x \in Editor
  BY <1>1, <1>5 DEF Editor
<1>7. /\ x.field = field /\ x.block = e.block
      /\ x.onField = e.onField /\ x.onBlock = e.onBlock /\ x.fieldCaret = caret
      /\ x.row = e.row /\ x.col = e.col /\ x.cell = e.cell /\ x.slip = e.slip /\ x.fault = e.fault
  BY <1>5 DEF Editor
<1>8. SameLoaded(e, x)
  BY <1>2, <1>4, <1>7 DEF SameLoaded
<1> QED
  BY <1>3, <1>6, <1>7, <1>8 DEF x

\* An access outside the text has a slip to explain it.
LEMMA FaultOK ==
    ASSUME NEW e, EditorOK(e), e.slip # None
    PROVE  Edits(e, Fault(e))
<1> DEFINE x == Fault(e)
<1>0. e \in Editor /\ e.slip \in Slips
  BY DEF EditorOK, Editor
<1>1. x = [e EXCEPT !.fault = e.slip]
  BY DEF Fault
<1>2. x \in Editor
  BY <1>0, <1>1 DEF Editor
<1>3. x.field = e.field /\ x.block = e.block /\ x.onField = e.onField /\ x.slip = e.slip
  BY <1>0, <1>1 DEF Editor
<1> HIDE DEF x
<1>4. EditorOK(x)
  BY <1>2, <1>3 DEF EditorOK
<1> QED
  BY <1>3, <1>4 DEF x, Edits, SameLoaded

LEMMA InsideIsNotOutside ==
    ASSUME NEW word, NEW caret \in 0..Size(word), NEW key
    PROVE  ~Outside(word, caret, key)
<1>1. PICK n \in {0, 1} : n = Size(word)
  BY Sizes
<1>2. caret \in 0..n /\ ~ (caret > n) /\ ~ (caret - 1 > n)
  BY <1>1
<1> QED
  BY <1>1, <1>2 DEF Outside

LEMMA FieldKeyOK ==
    ASSUME NEW e, EditorOK(e), NEW key, NEW rebuilt, EditorOK(rebuilt), e.onField # None
    PROVE  Edits(e, FieldKey(e, key, rebuilt)) \/ Edits(rebuilt, FieldKey(e, key, rebuilt))
<1> DEFINE x == FieldKey(e, key, rebuilt)
<1>0. e \in Editor /\ rebuilt \in Editor /\ e.fieldCaret \in Nat
  BY DEF EditorOK, Editor
<1>1. PICK f \in DOMAIN e.field : f = e.onField
  BY DEF EditorOK
<1>2. PICK word \in Name : word = e.field[f].now
  BY <1>0, FieldsOfEditor
<1>3. PICK a \in Name, c \in Nat :
        /\ Edited(word, e.fieldCaret, key) = <<a, c>>
        /\ e.fieldCaret \in 0..Size(word) => c \in 0..Size(a)
  BY <1>0, EditedOK, ZenonT(30)
<1>4. ASSUME NEW v \in Name, NEW caret \in Nat,
             e.fieldCaret \in 0..Size(word) => caret \in 0..Size(v)
      PROVE  Edits(e, Typed(e, f, v, caret))
  <2>0. PICK y : y = Typed(e, f, v, caret)
    OBVIOUS
  <2>1. /\ y \in Editor
        /\ SameLoaded(e, y) /\ y.block = e.block /\ y.field[f].now = v
        /\ y.onField = e.onField /\ y.onBlock = e.onBlock /\ y.fieldCaret = caret
        /\ y.row = e.row /\ y.col = e.col /\ y.cell = e.cell /\ y.slip = e.slip
    <3>1. LET x0 == Typed(e, f, v, caret)
          IN  /\ x0 \in Editor /\ SameLoaded(e, x0) /\ x0.block = e.block
              /\ x0.field[f].now = v
              /\ x0.onField = e.onField /\ x0.onBlock = e.onBlock /\ x0.fieldCaret = caret
              /\ x0.row = e.row /\ x0.col = e.col /\ x0.cell = e.cell /\ x0.slip = e.slip
              /\ x0.fault = e.fault
      BY <1>0, FieldChange
    <3> QED BY <2>0, <3>1
  <2>2. y.slip = None => InField(y)
    BY <1>1, <1>2, <1>4, <2>1 DEF EditorOK, InField
  <2>3. y.slip = None => InLine(y) /\ InCell(y)
    BY <2>1 DEF EditorOK, InLine, InCell
  <2>4. EditorOK(y)
    BY <1>1, <2>1, <2>2, <2>3 DEF EditorOK, SameLoaded
  <2> QED BY <2>0, <2>1, <2>4 DEF Edits
<1>5. CASE key = "escape"
  <2>1. x = ClearFocus(e)
    BY <1>5 DEF FieldKey
  <2> QED BY <1>0, <2>1, ClearFocusOK
<1>6. CASE key = "enter"
  <2>1. x = ClearFocus(IF f = "count" THEN rebuilt ELSE e)
    BY <1>1, <1>6 DEF FieldKey
  <2>2. x = ClearFocus(rebuilt) \/ x = ClearFocus(e)
    BY <2>1
  <2> QED BY <1>0, <2>2, ClearFocusOK
<1>7. CASE key \notin {"escape", "enter"} /\ Outside(word, e.fieldCaret, key)
  <2>1. x = Fault(e)
    <3>1. Outside(e.field[e.onField].now, e.fieldCaret, key)
      BY <1>1, <1>2, <1>7
    <3>2. key # "escape" /\ key # "enter"
      BY <1>7
    <3> QED BY <1>7, <3>1, <3>2, Zenon DEF FieldKey
  <2>2. e.slip # None
    <3>1. ASSUME e.slip = None PROVE FALSE
      <4>1. e.fieldCaret \in 0..Size(word)
        BY <1>1, <1>2, <3>1 DEF EditorOK, InField
      <4> QED BY <1>7, <4>1, InsideIsNotOutside
    <3> QED BY <3>1
  <2> QED BY <2>1, <2>2, FaultOK
<1>8. CASE /\ key \notin {"escape", "enter"} /\ ~Outside(word, e.fieldCaret, key)
           /\ f = "flag" /\ key \in {"type", "back", "delete"}
  <2>1. x = [e EXCEPT !.field[f].now = "junk"]
    BY <1>1, <1>2, <1>8 DEF FieldKey
  <2>2. PICK v \in Name : v = "junk"
    BY LiteralsAreNames, Zenon
  <2>3. e.fieldCaret \in 0..Size(word) => e.fieldCaret \in 0..Size(v)
    <3>1. PICK n \in {0, 1} : n = Size(word)
      BY Sizes
    <3>2. Size(v) = 1
      BY <2>2, SizeOfLiterals, Zenon
    <3> QED BY <3>1, <3>2
  <2>4. x = Typed(e, f, v, e.fieldCaret)
    <3>1. [e EXCEPT !.field[f].now = v] = Typed(e, f, v, e.fieldCaret)
      BY <1>0 DEF Editor, Typed
    <3> QED BY <2>1, <2>2, <3>1, Zenon
  <2> QED BY <1>0, <1>4, <2>3, <2>4
<1>9. CASE /\ key \notin {"escape", "enter"} /\ ~Outside(word, e.fieldCaret, key)
           /\ ~ (f = "flag" /\ key \in {"type", "back", "delete"})
  <2>1. x = [e EXCEPT !.field[f].now = Edited(word, e.fieldCaret, key)[1],
                      !.fieldCaret = Edited(word, e.fieldCaret, key)[2]]
    BY <1>1, <1>2, <1>9 DEF FieldKey
  <2>2. x = Typed(e, f, a, c)
    BY <1>3, <2>1 DEF Typed
  <2> QED BY <1>3, <1>4, <2>2
<1> QED
  BY <1>5, <1>6, <1>7, <1>8, <1>9

Searching(e, found, inSearch) == [e EXCEPT !.found = found, !.inSearch = inSearch]

LEMMA SearchingOK ==
    ASSUME NEW e, EditorOK(e), NEW found \in BOOLEAN, NEW inSearch \in BOOLEAN
    PROVE  Edits(e, Searching(e, found, inSearch))
<1>0. e \in Editor
  BY DEF EditorOK
<1>1. PICK y : y = Searching(e, found, inSearch)
  OBVIOUS
<1>2. y \in Editor
  BY <1>0, <1>1 DEF Editor, Searching
<1>3. /\ y.field = e.field /\ y.block = e.block /\ y.onField = e.onField /\ y.onBlock = e.onBlock
      /\ y.fieldCaret = e.fieldCaret /\ y.row = e.row /\ y.col = e.col /\ y.cell = e.cell
      /\ y.slip = e.slip
  BY <1>0, <1>1 DEF Editor, Searching
<1>4. Edits(e, y)
  BY <1>2, <1>3 DEF Edits, SameLoaded, EditorOK, InField, InLine, InCell
<1> QED
  BY <1>1, <1>4

LEMMA SearchKeyOK ==
    ASSUME NEW e, EditorOK(e), NEW key
    PROVE  Edits(e, SearchKey(e, key))
<1>0. e \in Editor /\ e.found \in BOOLEAN /\ e.inSearch \in BOOLEAN
  BY DEF EditorOK, Editor
<1>1. /\ [e EXCEPT !.found = FALSE, !.inSearch = FALSE] = Searching(e, FALSE, FALSE)
      /\ [e EXCEPT !.inSearch = FALSE] = Searching(e, e.found, FALSE)
      /\ [e EXCEPT !.found = TRUE] = Searching(e, TRUE, e.inSearch)
      /\ [e EXCEPT !.found = FALSE] = Searching(e, FALSE, e.inSearch)
  BY <1>0 DEF Editor, Searching
<1>2. \/ SearchKey(e, key) = [e EXCEPT !.found = FALSE, !.inSearch = FALSE]
      \/ SearchKey(e, key) = [e EXCEPT !.inSearch = FALSE]
      \/ SearchKey(e, key) = [e EXCEPT !.found = TRUE]
      \/ SearchKey(e, key) = [e EXCEPT !.found = FALSE]
      \/ SearchKey(e, key) = e
  BY DEF SearchKey
<1>3. \E found, inSearch \in BOOLEAN :
         SearchKey(e, key) = Searching(e, found, inSearch) \/ SearchKey(e, key) = e
  BY <1>0, <1>1, <1>2
<1> QED
  BY <1>3, SearchingOK, EditsNothing, Zenon

(* ------------------------------- the rows -------------------------------- *)

LEMMA Front ==
    ASSUME NEW X, NEW seq \in Seq(X), NEW i \in 0..Len(seq)
    PROVE  /\ SubSeq(seq, 1, i) \in Seq(X) /\ Len(SubSeq(seq, 1, i)) = i
           /\ \A k \in 1..i : SubSeq(seq, 1, i)[k] = seq[k]
<1>0. Len(seq) \in Nat /\ i \in Nat
  BY LenProperties
<1>1. \A k \in 1..i : k \in 1..Len(seq)
  BY <1>0, SMT
<1>2. \A k \in 1..i : seq[k] \in X
  BY <1>1, ElementOfSeq
<1>3. /\ SubSeq(seq, 1, i) \in Seq(X)
      /\ Len(SubSeq(seq, 1, i)) = IF 1 <= i THEN i - 1 + 1 ELSE 0
      /\ \A k \in 1..(i - 1 + 1) : SubSeq(seq, 1, i)[k] = seq[1 + k - 1]
  BY <1>0, <1>2, SubSeqProperties
<1>4. Len(SubSeq(seq, 1, i)) = i
  BY <1>0, <1>3, SMT
<1>5. i - 1 + 1 = i /\ \A k \in 1..i : 1 + k - 1 = k
  BY <1>0, SMT
<1>6. \A k \in 1..i : SubSeq(seq, 1, i)[k] = seq[k]
  BY <1>3, <1>5
<1> QED
  BY <1>3, <1>4, <1>6

LEMMA Back ==
    ASSUME NEW X, NEW seq \in Seq(X), NEW i \in 0..Len(seq)
    PROVE  /\ SubSeq(seq, i + 1, Len(seq)) \in Seq(X)
           /\ Len(SubSeq(seq, i + 1, Len(seq))) = Len(seq) - i
           /\ \A k \in 1..(Len(seq) - i) : SubSeq(seq, i + 1, Len(seq))[k] = seq[i + k]
<1>0. Len(seq) \in Nat /\ i \in Nat /\ i + 1 \in Int /\ Len(seq) \in Int
  BY LenProperties
<1>1. \A k \in (i + 1)..Len(seq) : k \in 1..Len(seq)
  BY <1>0, SMT
<1>2. \A k \in (i + 1)..Len(seq) : seq[k] \in X
  BY <1>1, ElementOfSeq
<1>3. /\ SubSeq(seq, i + 1, Len(seq)) \in Seq(X)
      /\ Len(SubSeq(seq, i + 1, Len(seq))) =
           IF i + 1 <= Len(seq) THEN Len(seq) - (i + 1) + 1 ELSE 0
      /\ \A k \in 1..(Len(seq) - (i + 1) + 1) :
           SubSeq(seq, i + 1, Len(seq))[k] = seq[(i + 1) + k - 1]
  BY <1>0, <1>2, SubSeqProperties
<1>4. Len(SubSeq(seq, i + 1, Len(seq))) = Len(seq) - i
  BY <1>0, <1>3, SMT
<1>5. /\ Len(seq) - (i + 1) + 1 = Len(seq) - i
      /\ \A k \in 1..(Len(seq) - i) : (i + 1) + k - 1 = i + k
  BY <1>0, SMT
<1>6. \A k \in 1..(Len(seq) - i) : SubSeq(seq, i + 1, Len(seq))[k] = seq[i + k]
  BY <1>3, <1>5
<1> QED
  BY <1>3, <1>4, <1>6

LEMMA JoinedRows ==
    ASSUME NEW rows \in Seq(Row("bind")), NEW i \in 1..Len(rows), i < Len(rows)
    PROVE  /\ JoinedWith(rows, i) \in Seq(Row("bind"))
           /\ Len(JoinedWith(rows, i)) = Len(rows) - 1
           /\ Size(rows[i][Text]) <= Size(JoinedWith(rows, i)[i][Text])
<1>0. Len(rows) \in Nat /\ i \in Nat /\ i - 1 \in 0..Len(rows) /\ i + 1 \in 0..Len(rows) /\ i + 1 \in 1..Len(rows)
  BY LenProperties
<1>1. PICK front \in Seq(Row("bind")) : front = SubSeq(rows, 1, i - 1) /\ Len(front) = i - 1
  BY <1>0, Front
<1>2. PICK back \in Seq(Row("bind")) : back = SubSeq(rows, i + 2, Len(rows)) /\ Len(back) = Len(rows) - (i + 1)
  <2>1. (i + 1) + 1 = i + 2
    BY <1>0
  <2>2. /\ SubSeq(rows, (i + 1) + 1, Len(rows)) \in Seq(Row("bind"))
        /\ Len(SubSeq(rows, (i + 1) + 1, Len(rows))) = Len(rows) - (i + 1)
    BY <1>0, Back
  <2> QED BY <2>1, <2>2
<1>3. rows[i][Text] \in Name /\ rows[i + 1][Text] \in Name
  <2>1. rows[i] \in [1..1 -> Name] /\ rows[i + 1] \in [1..1 -> Name]
    BY <1>0, CellsOfBlocks, ElementOfSeq
  <2> QED BY <2>1 DEF Text
<1>4. PICK word \in Name : word = IF rows[i][Text] = "" THEN rows[i + 1][Text] ELSE rows[i][Text]
  <2>1. CASE rows[i][Text] = ""
    BY <1>3, <2>1, Zenon
  <2>2. CASE rows[i][Text] # ""
    BY <1>3, <2>2, Zenon
  <2> QED BY <2>1, <2>2, Zenon
<1>5. PICK mid \in Seq(Row("bind")) : mid = <<<<word>>>> /\ Len(mid) = 1 /\ mid[1][Text] = word
  <2>0. <<word>> \in Row("bind")
    BY CellsOfBlocks, CellsMakeRow, Zenon
  <2>1. PICK row \in Row("bind") : row = <<word>> /\ row[Text] = word
    BY <2>0 DEF Text
  <2>2. <<row>> \in Seq(Row("bind")) /\ Len(<<row>>) = 1 /\ <<row>>[1] = row
    OBVIOUS
  <2> QED BY <2>1, <2>2
<1>6. JoinedWith(rows, i) = front \o mid \o back
  BY <1>1, <1>2, <1>4, <1>5, Zenon DEF JoinedWith
<1>7. front \o mid \o back \in Seq(Row("bind"))
  BY ThreeParts
<1>8. Len(front \o mid \o back) = Len(front) + Len(mid) + Len(back)
  BY ThreeParts
<1>9. \A k \in 1..Len(mid) : (front \o mid \o back)[Len(front) + k] = mid[k]
  BY ThreeParts
<1>10. Len(front) + Len(mid) + Len(back) = Len(rows) - 1 /\ Len(front) + 1 = i /\ 1 \in 1..Len(mid)
  <2>2. i \in Int /\ Len(rows) \in Int /\ Len(front) \in Int /\ Len(mid) \in Int /\ Len(back) \in Int
    BY <1>0, LenProperties
  <2>3. Len(front) = i - 1 /\ Len(mid) = 1 /\ Len(back) = Len(rows) - (i + 1)
    BY <1>1, <1>2, <1>5, Zenon
  <2>1. PICK n \in Int, k \in Int, a \in Int, b \in Int, c \in Int :
          n = Len(rows) /\ k = i /\ a = Len(front) /\ b = Len(mid) /\ c = Len(back)
    BY <2>2, Zenon
  <2>6. a = k - 1 /\ b = 1 /\ c = n - (k + 1)
    BY <2>1, <2>3, Zenon
  <2>7. a + b + c = n - 1 /\ a + 1 = k
    BY <2>6, SMT
  <2>4. Len(front) + Len(mid) + Len(back) = Len(rows) - 1 /\ Len(front) + 1 = i
    BY <2>1, <2>7, Zenon
  <2>5. 1 \in 1..Len(mid)
    BY <2>3
  <2> QED BY <2>4, <2>5
<1>11. JoinedWith(rows, i)[i][Text] = word
  BY <1>5, <1>6, <1>9, <1>10
<1>12. Size(rows[i][Text]) <= Size(word)
  <2>1. CASE rows[i][Text] = ""
    <3>1. Size(rows[i][Text]) = 0
      BY <2>1, SizeOfLiterals, Zenon
    <3>2. Size(word) \in {0, 1}
      BY Sizes
    <3> QED BY <3>1, <3>2
  <2>2. CASE rows[i][Text] # ""
    <3>1. word = rows[i][Text]
      BY <1>4, <2>2, Zenon
    <3>2. Size(word) \in {0, 1}
      BY Sizes
    <3> QED BY <3>1, <3>2
  <2> QED BY <2>1, <2>2, Zenon
<1> QED
  BY <1>6, <1>7, <1>8, <1>10, <1>11, <1>12

LEMMA SplitRows ==
    ASSUME NEW rows \in Seq(Row("bind")), NEW i \in 1..Len(rows), NEW col
    PROVE  Split(rows, i, col) \in Seq(Row("bind")) /\ Len(Split(rows, i, col)) = Len(rows) + 1
<1>0. Len(rows) \in Nat /\ i - 1 \in 0..Len(rows) /\ i \in 0..Len(rows)
  BY LenProperties
<1>1. PICK front \in Seq(Row("bind")) : front = SubSeq(rows, 1, i - 1) /\ Len(front) = i - 1
  BY <1>0, Front
<1>2. PICK back \in Seq(Row("bind")) : back = SubSeq(rows, i + 1, Len(rows)) /\ Len(back) = Len(rows) - i
  BY <1>0, Back
<1>3. PICK row \in Row("bind") : row = rows[i]
  BY ElementOfSeq
<1>4. PICK blank \in Row("bind") : blank = <<"">>
  BY CellsOfBlocks, CellsMakeRow, LiteralsAreNames, Zenon
<1>5. PICK mid \in Seq(Row("bind")) :
        mid = (IF col = 0 THEN <<blank, row>> ELSE <<row, blank>>) /\ Len(mid) = 2
  <2>1. /\ <<blank, row>> \in Seq(Row("bind")) /\ Len(<<blank, row>>) = 2
        /\ <<row, blank>> \in Seq(Row("bind")) /\ Len(<<row, blank>>) = 2
    OBVIOUS
  <2> QED BY <2>1
<1>6. Split(rows, i, col) = front \o mid \o back
  BY <1>1, <1>2, <1>3, <1>4, <1>5, Zenon DEF Split
<1>7. front \o mid \o back \in Seq(Row("bind"))
  BY ThreeParts
<1>8. Len(front \o mid \o back) = Len(front) + Len(mid) + Len(back)
  BY ThreeParts
<1>9. Len(front) + Len(mid) + Len(back) = Len(rows) + 1
  <2>2. i \in Int /\ Len(rows) \in Int /\ Len(front) \in Int /\ Len(mid) \in Int /\ Len(back) \in Int
    BY <1>0, LenProperties
  <2>3. Len(front) = i - 1 /\ Len(mid) = 2 /\ Len(back) = Len(rows) - i
    BY <1>1, <1>2, <1>5, Zenon
  <2>1. PICK n \in Int, k \in Int, a \in Int, b \in Int, c \in Int :
          n = Len(rows) /\ k = i /\ a = Len(front) /\ b = Len(mid) /\ c = Len(back)
    BY <2>2, Zenon
  <2>4. a = k - 1 /\ b = 2 /\ c = n - k
    BY <2>1, <2>3, Zenon
  <2>5. a + b + c = n + 1
    BY <2>4, SMT
  <2> QED BY <2>1, <2>5, Zenon
<1> QED
  BY <1>6, <1>7, <1>8, <1>9

(* ---------------------------- a line of a block -------------------------- *)

Goes(e, row, col) == [e EXCEPT !.row = row, !.col = col]
Lines(e, rows, row, col) == [e EXCEPT !.block["bind"].rows = rows, !.row = row, !.col = col]

LEMMA GoesOK ==
    ASSUME NEW e \in Editor, NEW row \in Nat \ {0}, NEW col \in Nat
    PROVE  /\ Goes(e, row, col) \in Editor /\ SameLoaded(e, Goes(e, row, col))
           /\ Goes(e, row, col).field = e.field /\ Goes(e, row, col).block = e.block
           /\ Goes(e, row, col).onField = e.onField /\ Goes(e, row, col).onBlock = e.onBlock
           /\ Goes(e, row, col).slip = e.slip /\ Goes(e, row, col).cell = e.cell
           /\ Goes(e, row, col).row = row /\ Goes(e, row, col).col = col
<1>1. PICK x : x = Goes(e, row, col)
  OBVIOUS
<1>2. x \in Editor
  BY <1>1 DEF Editor, Goes
<1>3. /\ x.field = e.field /\ x.block = e.block /\ x.onField = e.onField /\ x.onBlock = e.onBlock
      /\ x.slip = e.slip /\ x.cell = e.cell /\ x.row = row /\ x.col = col
  BY <1>1 DEF Editor, Goes
<1>4. SameLoaded(e, x)
  BY <1>3 DEF SameLoaded
<1> QED
  BY <1>1, <1>2, <1>3, <1>4

LEMMA LinesOK ==
    ASSUME NEW e, EditorOK(e), e.onField = None, e.onBlock = "bind",
           NEW rows \in Seq(Row("bind")), NEW row \in Nat \ {0}, NEW col \in Nat,
           e.slip = None => row \in 1..Len(rows) /\ col \in 0..Size(rows[row][Text])
    PROVE  Edits(e, Lines(e, rows, row, col))
<1>0. e \in Editor
  BY DEF EditorOK
<1>1. PICK d : d = [e EXCEPT !.block["bind"].rows = rows]
  OBVIOUS
<1>2. /\ d \in Editor /\ SameLoaded(e, d) /\ d.field = e.field /\ d.block["bind"].rows = rows
      /\ d.onField = None /\ d.onBlock = "bind" /\ d.slip = e.slip
  <2>1. LET x == [e EXCEPT !.block["bind"].rows = rows]
        IN  /\ x \in Editor /\ SameLoaded(e, x) /\ x.field = e.field
            /\ x.block["bind"].rows = rows
            /\ \A c \in Block \ {"bind"} : x.block[c] = e.block[c]
            /\ x.onField = e.onField /\ x.onBlock = e.onBlock /\ x.fieldCaret = e.fieldCaret
            /\ x.row = e.row /\ x.col = e.col /\ x.cell = e.cell /\ x.slip = e.slip
            /\ x.fault = e.fault
    BY <1>0, CellsOfBlocks, RowsChange
  <2> QED BY <1>1, <2>1
<1>3. Lines(e, rows, row, col) = Goes(d, row, col)
  BY <1>0, <1>1 DEF Lines, Goes, Editor
<1>4. PICK x : x = Goes(d, row, col)
  OBVIOUS
<1>5. /\ x \in Editor /\ SameLoaded(d, x) /\ x.field = d.field /\ x.block = d.block
      /\ x.onField = d.onField /\ x.onBlock = d.onBlock
      /\ x.slip = d.slip /\ x.row = row /\ x.col = col
  <2>1. /\ Goes(d, row, col) \in Editor /\ SameLoaded(d, Goes(d, row, col))
        /\ Goes(d, row, col).field = d.field /\ Goes(d, row, col).block = d.block
        /\ Goes(d, row, col).onField = d.onField /\ Goes(d, row, col).onBlock = d.onBlock
        /\ Goes(d, row, col).slip = d.slip /\ Goes(d, row, col).cell = d.cell
        /\ Goes(d, row, col).row = row /\ Goes(d, row, col).col = col
    BY <1>2, GoesOK
  <2> QED BY <1>4, <2>1, Zenon
<1>6. x.slip = None => InLine(x)
  BY <1>2, <1>5 DEF InLine
<1>7. InField(x) /\ InCell(x)
  BY <1>2, <1>5, CellsOfBlocks DEF InField, InCell
<1>8. EditorOK(x)
  BY <1>2, <1>5, <1>6, <1>7 DEF EditorOK
<1>9. SameLoaded(e, x)
  BY <1>2, <1>5 DEF SameLoaded
<1> QED
  BY <1>3, <1>4, <1>8, <1>9 DEF Edits

LEMMA SameLines ==
    ASSUME NEW e \in Editor, NEW row, NEW col
    PROVE  Goes(e, row, col) = Lines(e, e.block["bind"].rows, row, col)
<1>1. e.block = [e.block EXCEPT !["bind"].rows = e.block["bind"].rows]
  <2>1. e.block \in [Block -> [loaded : Seq(Seq(Name)), rows : Seq(Seq(Name))]]
    BY DEF Editor, BlockRows
  <2>2. e.block["bind"] = [e.block["bind"] EXCEPT !.rows = e.block["bind"].rows]
    BY <2>1, CellsOfBlocks
  <2> QED BY <2>1, <2>2
<1> QED
  BY <1>1 DEF Goes, Lines, Editor

\* One word of a line, and the caret in it.
LEMMA WordChange ==
    ASSUME NEW rows \in Seq(Row("bind")), NEW i \in 1..Len(rows), NEW word \in Name
    PROVE  /\ [rows EXCEPT ![i][Text] = word] \in Seq(Row("bind"))
           /\ Len([rows EXCEPT ![i][Text] = word]) = Len(rows)
           /\ [rows EXCEPT ![i][Text] = word][i][Text] = word
<1>1. rows[i] \in [1..1 -> Name]
  BY CellsOfBlocks, ElementOfSeq
<1>2. PICK row \in Row("bind") : row = [rows[i] EXCEPT ![Text] = word] /\ row[Text] = word
  <2>1. [rows[i] EXCEPT ![Text] = word] \in [1..1 -> Name]
    BY <1>1
  <2>2. [rows[i] EXCEPT ![Text] = word][Text] = word
    BY <1>1 DEF Text
  <2> QED BY <2>1, <2>2, CellsOfBlocks
<1>3. [rows EXCEPT ![i][Text] = word] = [rows EXCEPT ![i] = row]
  BY <1>2
<1>4. [rows EXCEPT ![i] = row] \in Seq(Row("bind")) /\ Len([rows EXCEPT ![i] = row]) = Len(rows)
      /\ [rows EXCEPT ![i] = row][i] = row
  BY <1>2, ExceptSeq
<1> QED
  BY <1>2, <1>3, <1>4

LEMMA WordsOfLines ==
    ASSUME NEW rows \in Seq(Row("bind")), NEW i \in 1..Len(rows)
    PROVE  rows[i][Text] \in Name
<1>1. rows[i] \in [1..1 -> Name]
  BY CellsOfBlocks, ElementOfSeq
<1> QED
  BY <1>1 DEF Text

LEMMA ClampedOK ==
    ASSUME NEW row, NEW col \in Nat
    PROVE  Clamped(row, col) \in Nat /\ Clamped(row, col) \in 0..Size(row[Text])
<1>1. PICK n \in {0, 1} : n = Size(row[Text])
  BY Sizes
<1>2. Clamped(row, col) = IF col > n THEN n ELSE col
  BY <1>1 DEF Clamped
<1> QED
  BY <1>1, <1>2

\* HandleRawBlockKey once the block has a line.
RawKeyIn(e, b, key) ==
    LET rows == e.block[b].rows
        text == rows[e.row][Text]
        after == Edited(text, e.col, key)
    IN  IF key = "escape" THEN ClearFocus(e)
        ELSE IF e.row > Len(rows) \/ Outside(text, e.col, key) THEN Fault(e)
        ELSE
          CASE key = "enter" -> [e EXCEPT !.block[b].rows = Split(rows, e.row, e.col), !.row = @ + 1, !.col = 0]
          [] key = "back" /\ e.col = 0 /\ e.row > 1 ->
               [e EXCEPT !.block[b].rows = JoinedWith(rows, e.row - 1), !.row = @ - 1,
                         !.col = Size(rows[e.row - 1][Text])]
          [] key = "delete" /\ e.col >= Size(text) /\ e.row < Len(rows) ->
               [e EXCEPT !.block[b].rows = JoinedWith(rows, e.row)]
          [] key = "left" /\ e.col = 0 /\ e.row > 1 ->
               [e EXCEPT !.row = @ - 1, !.col = Size(rows[e.row - 1][Text])]
          [] key = "right" /\ e.col >= Size(text) /\ e.row < Len(rows) ->
               [e EXCEPT !.row = @ + 1, !.col = 0]
          [] key = "up" /\ e.row > 1 -> [e EXCEPT !.row = @ - 1, !.col = Clamped(rows[e.row - 1], @)]
          [] key = "down" /\ e.row < Len(rows) -> [e EXCEPT !.row = @ + 1, !.col = Clamped(rows[e.row + 1], @)]
          [] OTHER -> [e EXCEPT !.block[b].rows[e.row][Text] = after[1], !.col = after[2]]

LEMMA NextPlaces ==
    ASSUME NEW n \in Nat, NEW r \in 1..n
    PROVE  /\ r \in Nat \ {0} /\ r + 1 \in Nat \ {0} /\ r + 1 \in 1..(n + 1)
           /\ r > 1 => r - 1 \in 1..n /\ r - 1 \in 1..(n - 1) /\ r - 1 < n /\ r - 1 \in Nat \ {0}
           /\ r < n => r + 1 \in 1..n /\ r \in 1..(n - 1)
           /\ r - 1 \in 0..n /\ r \in 0..n /\ ~ (r > n)
OBVIOUS

LEMMA RawKeyOK ==
    ASSUME NEW e0, EditorOK(e0), NEW key, e0.onField = None, e0.onBlock = "bind"
    PROVE  Edits(e0, RawKey(e0, key))
<1>0. e0 \in Editor
  BY DEF EditorOK
<1>1. PICK e : e = IF e0.block["bind"].rows = <<>> THEN [e0 EXCEPT !.block["bind"].rows = <<<<"">>>>] ELSE e0
  BY Zenon
<1>2. Edits(e0, e) /\ e.onField = None /\ e.onBlock = "bind"
  <2>1. CASE e0.block["bind"].rows = <<>>
    <3>1. e0.slip # None
      BY <1>0, <2>1 DEF EditorOK, InLine
    <3>2. PICK blank \in Row("bind") : blank = <<"">>
      BY CellsOfBlocks, CellsMakeRow, LiteralsAreNames, Zenon
    <3>7. <<blank>> \in Seq(Row("bind"))
      OBVIOUS
    <3>3. PICK rows \in Seq(Row("bind")) : rows = <<blank>>
      BY <3>7, Zenon
    <3>4. e = [e0 EXCEPT !.block["bind"].rows = rows]
      BY <1>1, <2>1, <3>2, <3>3, Zenon
    <3>5. /\ e \in Editor /\ SameLoaded(e0, e) /\ e.field = e0.field
          /\ e.onField = e0.onField /\ e.onBlock = e0.onBlock /\ e.slip = e0.slip
      <4>1. LET x == [e0 EXCEPT !.block["bind"].rows = rows]
            IN  /\ x \in Editor /\ SameLoaded(e0, x) /\ x.field = e0.field
                /\ x.block["bind"].rows = rows
                /\ \A c \in Block \ {"bind"} : x.block[c] = e0.block[c]
                /\ x.onField = e0.onField /\ x.onBlock = e0.onBlock /\ x.fieldCaret = e0.fieldCaret
                /\ x.row = e0.row /\ x.col = e0.col /\ x.cell = e0.cell /\ x.slip = e0.slip
                /\ x.fault = e0.fault
        BY <1>0, CellsOfBlocks, RowsChange
      <4> QED BY <3>4, <4>1
    <3>6. EditorOK(e)
      BY <3>1, <3>5 DEF EditorOK
    <3> QED BY <3>5, <3>6 DEF Edits
  <2>2. CASE e0.block["bind"].rows # <<>>
    BY <1>1, <2>2, EditsNothing
  <2> QED BY <2>1, <2>2
<1>3. EditorOK(e) /\ e \in Editor /\ e.row \in Nat \ {0} /\ e.col \in Nat
  BY <1>2 DEF Edits, EditorOK, Editor
<1>4. ASSUME NEW x, Edits(e, x) PROVE Edits(e0, x)
  BY <1>2, <1>4 DEF Edits, SameLoaded
<1>5. PICK rows \in Seq(Row("bind")) :
        /\ rows = e.block["bind"].rows /\ Len(rows) \in Nat
        /\ e.slip = None => e.row \in 1..Len(rows) /\ e.col \in 0..Size(rows[e.row][Text])
  <2>1. e.block["bind"].rows \in Seq(Row("bind")) /\ Len(e.block["bind"].rows) \in Nat
    BY <1>3, CellsOfBlocks, RowsOfBlock
  <2> QED BY <1>2, <1>3, <2>1 DEF EditorOK, InLine
<1> DEFINE x == RawKeyIn(e, "bind", key)
           word == rows[e.row][Text]
<1>6. RawKey(e0, key) = x
  <2>1. RawKey(e0, key) =
          RawKeyIn(IF e0.block[e0.onBlock].rows = <<>> THEN [e0 EXCEPT !.block[e0.onBlock].rows = <<<<"">>>>] ELSE e0,
                   e0.onBlock, key)
    BY Zenon DEF RawKey, RawKeyIn
  <2> QED BY <1>1, <2>1, Zenon
<1> SUFFICES Edits(e0, x)
  BY <1>6
<1> HIDE DEF x
<1>7. CASE key = "escape"
  <2>1. x = ClearFocus(e)
    BY <1>7, Zenon DEF x, RawKeyIn
  <2> QED BY <1>3, <1>4, <2>1, ClearFocusOK
<1>8. CASE key # "escape" /\ (e.row > Len(rows) \/ Outside(word, e.col, key))
  <2>1. x = Fault(e)
    BY <1>5, <1>8, Zenon DEF x, RawKeyIn
  <2>2. ASSUME e.slip = None PROVE FALSE
    <3>1. e.row \in 1..Len(rows) /\ e.col \in 0..Size(word)
      BY <1>5, <2>2
    <3>2. ~ (e.row > Len(rows))
      BY <1>5, <3>1
    <3> QED BY <1>8, <3>1, <3>2, InsideIsNotOutside
  <2> QED BY <1>3, <1>4, <2>1, <2>2, FaultOK
<1>9. CASE key # "escape" /\ ~ (e.row > Len(rows)) /\ ~Outside(word, e.col, key)
  <2>0. e.row \in 1..Len(rows) /\ word \in Name
    <3>1. e.row \in 1..Len(rows)
      BY <1>3, <1>5, <1>9
    <3> QED BY <3>1, WordsOfLines
  <2>12. Len(rows) \in Nat
    BY <1>5
  <2>1. ASSUME NEW new \in Seq(Row("bind")), NEW row \in Nat \ {0}, NEW col \in Nat,
               e.slip = None => row \in 1..Len(new) /\ col \in 0..Size(new[row][Text]),
               x = Lines(e, new, row, col)
        PROVE  Edits(e0, x)
    BY <1>2, <1>3, <1>4, <2>1, LinesOK
  <2>2. ASSUME NEW row \in 1..Len(rows), NEW col \in Nat, col \in 0..Size(rows[row][Text]),
               x = Goes(e, row, col)
        PROVE  Edits(e0, x)
    <3>1. x = Lines(e, rows, row, col)
      BY <1>3, <1>5, <2>2, SameLines
    <3> QED BY <1>5, <2>1, <2>2, <3>1
  <2>3. ASSUME NEW row \in 1..Len(rows) PROVE Size(rows[row][Text]) \in Nat /\ Size(rows[row][Text]) \in 0..Size(rows[row][Text])
    BY Sizes
  <2>4. CASE key = "enter"
    <3>1. x = Lines(e, Split(rows, e.row, e.col), e.row + 1, 0)
      BY <1>5, <1>9, <2>4 DEF x, RawKeyIn, Lines
    <3>2. Split(rows, e.row, e.col) \in Seq(Row("bind")) /\ Len(Split(rows, e.row, e.col)) = Len(rows) + 1
      BY <2>0, SplitRows
    <3>3. PICK new \in Seq(Row("bind")) : new = Split(rows, e.row, e.col) /\ Len(new) = Len(rows) + 1
      BY <3>2
    <3>6. e.row + 1 \in Nat \ {0} /\ e.row + 1 \in 1..(Len(rows) + 1)
      BY <2>0, <2>12, NextPlaces
    <3>4. e.row + 1 \in Nat \ {0} /\ e.row + 1 \in 1..Len(new)
      BY <3>3, <3>6, Zenon
    <3>5. 0 \in Nat /\ 0 \in 0..Size(new[e.row + 1][Text])
      BY Sizes
    <3> QED BY <2>1, <3>1, <3>3, <3>4, <3>5
  <2>5. CASE key = "back" /\ e.col = 0 /\ e.row > 1
    <3>1. x = Lines(e, JoinedWith(rows, e.row - 1), e.row - 1, Size(rows[e.row - 1][Text]))
      BY <1>5, <1>9, <2>5 DEF x, RawKeyIn, Lines
    <3>2. /\ e.row - 1 \in 1..Len(rows) /\ e.row - 1 < Len(rows)
          /\ e.row - 1 \in 1..(Len(rows) - 1) /\ e.row - 1 \in Nat \ {0}
      BY <2>0, <2>5, <2>12, NextPlaces
    <3>3. PICK row \in 1..Len(rows) : /\ row = e.row - 1 /\ row < Len(rows)
                                     /\ row \in 1..(Len(rows) - 1) /\ row \in Nat \ {0}
      BY <3>2, Zenon
    <3>4. PICK new \in Seq(Row("bind")) :
            /\ new = JoinedWith(rows, row) /\ Len(new) = Len(rows) - 1
            /\ Size(rows[row][Text]) <= Size(new[row][Text])
      BY <3>3, JoinedRows
    <3>5. PICK n \in {0, 1} : n = Size(rows[row][Text])
      BY Sizes
    <3>6. PICK m \in {0, 1} : m = Size(new[row][Text])
      BY Sizes
    <3>10. n \in Nat /\ n <= m
      BY <3>4, <3>5, <3>6
    <3>11. n \in 0..m
      BY <3>10, SMT
    <3>7. row \in Nat \ {0} /\ row \in 1..Len(new) /\ n \in Nat /\ n \in 0..m
      BY <3>3, <3>4, <3>10, <3>11, Zenon
    <3>8. x = Lines(e, new, row, n)
      BY <3>1, <3>3, <3>4, <3>5
    <3>9. n \in 0..Size(new[row][Text])
      BY <3>6, <3>7
    <3> QED BY <2>1, <3>7, <3>8, <3>9
  <2>6. CASE key = "delete" /\ e.col >= Size(word) /\ e.row < Len(rows)
    <3>1. x = [e EXCEPT !.block["bind"].rows = JoinedWith(rows, e.row)]
      BY <1>5, <1>9, <2>6 DEF x, RawKeyIn
    <3>2. x = Lines(e, JoinedWith(rows, e.row), e.row, e.col)
      BY <1>3, <3>1 DEF Lines, Editor
    <3>4. PICK new \in Seq(Row("bind")) :
            /\ new = JoinedWith(rows, e.row) /\ Len(new) = Len(rows) - 1
            /\ Size(word) <= Size(new[e.row][Text])
      BY <2>0, <2>6, JoinedRows
    <3>5. PICK n \in {0, 1} : n = Size(word)
      BY Sizes
    <3>6. PICK m \in {0, 1} : m = Size(new[e.row][Text])
      BY Sizes
    <3>9. e.row \in 1..(Len(rows) - 1)
      BY <2>0, <2>6, <2>12, NextPlaces
    <3>7. e.row \in 1..Len(new)
      BY <3>4, <3>9, Zenon
    <3>8. e.slip = None => e.col \in 0..m
      <4>1. e.slip = None => e.col \in 0..n
        BY <1>5, <3>5
      <4>2. n <= m
        BY <3>4, <3>5, <3>6
      <4> QED BY <1>3, <4>1, <4>2
    <3> QED BY <1>3, <2>1, <3>2, <3>4, <3>6, <3>7, <3>8
  <2>7. CASE key = "left" /\ e.col = 0 /\ e.row > 1
    <3>1. x = Goes(e, e.row - 1, Size(rows[e.row - 1][Text]))
      BY <1>5, <1>9, <2>7 DEF x, RawKeyIn, Goes
    <3>2. e.row - 1 \in 1..Len(rows)
      BY <2>0, <2>7, <2>12, NextPlaces
    <3> QED BY <2>2, <2>3, <3>1, <3>2
  <2>8. CASE key = "right" /\ e.col >= Size(word) /\ e.row < Len(rows)
    <3>1. x = Goes(e, e.row + 1, 0)
      BY <1>5, <1>9, <2>8 DEF x, RawKeyIn, Goes
    <3>2. e.row + 1 \in 1..Len(rows)
      BY <2>0, <2>8, <2>12, NextPlaces
    <3> QED BY <2>2, <3>1, <3>2, Sizes
  <2>9. CASE key = "up" /\ e.row > 1
    <3>1. x = Goes(e, e.row - 1, Clamped(rows[e.row - 1], e.col))
      BY <1>5, <1>9, <2>9 DEF x, RawKeyIn, Goes
    <3>2. e.row - 1 \in 1..Len(rows)
      BY <2>0, <2>9, <2>12, NextPlaces
    <3> QED BY <1>3, <2>2, <3>1, <3>2, ClampedOK
  <2>10. CASE key = "down" /\ e.row < Len(rows)
    <3>1. x = Goes(e, e.row + 1, Clamped(rows[e.row + 1], e.col))
      BY <1>5, <1>9, <2>10 DEF x, RawKeyIn, Goes
    <3>2. e.row + 1 \in 1..Len(rows)
      BY <2>0, <2>10, <2>12, NextPlaces
    <3> QED BY <1>3, <2>2, <3>1, <3>2, ClampedOK
  <2>11. CASE /\ ~ (key = "enter") /\ ~ (key = "back" /\ e.col = 0 /\ e.row > 1)
              /\ ~ (key = "delete" /\ e.col >= Size(word) /\ e.row < Len(rows))
              /\ ~ (key = "left" /\ e.col = 0 /\ e.row > 1)
              /\ ~ (key = "right" /\ e.col >= Size(word) /\ e.row < Len(rows))
              /\ ~ (key = "up" /\ e.row > 1) /\ ~ (key = "down" /\ e.row < Len(rows))
    <3>1. x = [e EXCEPT !.block["bind"].rows[e.row][Text] = Edited(word, e.col, key)[1],
                        !.col = Edited(word, e.col, key)[2]]
      BY <1>5, <1>9, <2>11, Zenon DEF x, RawKeyIn
    <3>2. PICK a \in Name, c \in Nat :
            /\ Edited(word, e.col, key) = <<a, c>>
            /\ e.col \in 0..Size(word) => c \in 0..Size(a)
      <4>1. PICK w \in Name : w = word
        BY <2>0
      <4>2. PICK caret \in Nat : caret = e.col
        BY <1>3
      <4>3. \E a \in Name, c \in Nat :
              /\ Edited(w, caret, key) = <<a, c>>
              /\ caret \in 0..Size(w) => c \in 0..Size(a)
              /\ key \in {"left", "right"} => a = w
        BY EditedOK
      <4> QED BY <4>1, <4>2, <4>3, Zenon
    <3>3. x = [e EXCEPT !.block["bind"].rows[e.row][Text] = a, !.col = c]
      BY <3>1, <3>2
    <3>4. PICK new \in Seq(Row("bind")) :
            /\ new = [rows EXCEPT ![e.row][Text] = a] /\ Len(new) = Len(rows)
            /\ new[e.row][Text] = a
      <4>1. PICK i \in 1..Len(rows) : i = e.row
        BY <2>0
      <4>2. /\ [rows EXCEPT ![i][Text] = a] \in Seq(Row("bind"))
            /\ Len([rows EXCEPT ![i][Text] = a]) = Len(rows)
            /\ [rows EXCEPT ![i][Text] = a][i][Text] = a
        BY WordChange
      <4> QED BY <4>1, <4>2, Zenon
    <3>5. x = Lines(e, new, e.row, c)
      BY <1>3, <1>5, <3>3, <3>4 DEF Lines, Editor
    <3> QED BY <1>3, <1>5, <2>0, <2>1, <3>2, <3>4, <3>5
  <2> QED BY <2>4, <2>5, <2>6, <2>7, <2>8, <2>9, <2>10, <2>11
<1> QED
  BY <1>7, <1>8, <1>9

(* ----------------------------- a cell of a row --------------------------- *)

InRow(e, b, rows, row, cell, col) ==
    [e EXCEPT !.block[b].rows = rows, !.row = row, !.cell = cell, !.col = col]

CellThere(b, rows, row, cell, col) ==
    /\ row \in 1..Len(rows) /\ col \in 0..Size(rows[row][cell])
    /\ cell = Workspace => HasWorkspace(b, rows[row])

LEMMA InRowOK ==
    ASSUME NEW b \in Structured, NEW e, EditorOK(e), e.onField = None, e.onBlock = b,
           NEW rows \in Seq(Row(b)), NEW row \in Nat \ {0},
           NEW cell \in {Class, Workspace}, NEW col \in Nat,
           e.slip = None => CellThere(b, rows, row, cell, col)
    PROVE  /\ Edits(e, InRow(e, b, rows, row, cell, col))
           /\ InRow(e, b, rows, row, cell, col).block[b].rows = rows
           /\ InRow(e, b, rows, row, cell, col).row = row
           /\ InRow(e, b, rows, row, cell, col).cell = cell /\ InRow(e, b, rows, row, cell, col).col = col
           /\ InRow(e, b, rows, row, cell, col).onField = None
           /\ InRow(e, b, rows, row, cell, col).onBlock = b
           /\ InRow(e, b, rows, row, cell, col).slip = e.slip
<1>0. e \in Editor
  BY DEF EditorOK
<1>1. PICK d : d = [e EXCEPT !.block[b].rows = rows]
  OBVIOUS
<1>2. /\ d \in Editor /\ SameLoaded(e, d) /\ d.field = e.field /\ d.block[b].rows = rows
      /\ d.onField = None /\ d.onBlock = b /\ d.slip = e.slip
  <2>1. LET x == [e EXCEPT !.block[b].rows = rows]
        IN  /\ x \in Editor /\ SameLoaded(e, x) /\ x.field = e.field
            /\ x.block[b].rows = rows
            /\ \A c \in Block \ {b} : x.block[c] = e.block[c]
            /\ x.onField = e.onField /\ x.onBlock = e.onBlock /\ x.fieldCaret = e.fieldCaret
            /\ x.row = e.row /\ x.col = e.col /\ x.cell = e.cell /\ x.slip = e.slip
            /\ x.fault = e.fault
    BY <1>0, CellsOfBlocks, RowsChange
  <2> QED BY <1>1, <2>1
<1>3. PICK x : x = InRow(e, b, rows, row, cell, col)
  OBVIOUS
<1>4. x = [d EXCEPT !.row = row, !.cell = cell, !.col = col]
  BY <1>0, <1>1, <1>3 DEF InRow, Editor
<1>5. x \in Editor
  BY <1>2, <1>4 DEF Editor
<1>6. /\ x.field = d.field /\ x.block = d.block /\ x.onField = d.onField /\ x.onBlock = d.onBlock
      /\ x.slip = d.slip /\ x.row = row /\ x.cell = cell /\ x.col = col
  BY <1>2, <1>4 DEF Editor
<1>7. x.slip = None => InCell(x)
  BY <1>2, <1>6 DEF InCell, CellThere
<1>8. InField(x) /\ InLine(x)
  BY <1>2, <1>6, CellsOfBlocks DEF InField, InLine
<1>9. EditorOK(x)
  BY <1>2, <1>5, <1>6, <1>7, <1>8 DEF EditorOK
<1>10. SameLoaded(e, x)
  BY <1>2, <1>6 DEF SameLoaded
<1>11. Edits(e, x)
  BY <1>9, <1>10 DEF Edits
<1>12. /\ x.block[b].rows = rows /\ x.onField = None /\ x.onBlock = b /\ x.slip = e.slip
  BY <1>2, <1>6
<1> QED
  BY <1>3, <1>6, <1>11, <1>12

LEMMA InsertedRows ==
    ASSUME NEW X, NEW rows \in Seq(X), NEW i \in 1..Len(rows), NEW row \in X
    PROVE  /\ Inserted(rows, i, row) \in Seq(X) /\ Len(Inserted(rows, i, row)) = Len(rows) + 1
           /\ Inserted(rows, i, row)[i + 1] = row
<1>0. Len(rows) \in Nat /\ i \in 0..Len(rows) /\ i \in Int
  BY LenProperties
<1>1. PICK front \in Seq(X) : front = SubSeq(rows, 1, i) /\ Len(front) = i
  BY <1>0, Front
<1>2. PICK back \in Seq(X) : back = SubSeq(rows, i + 1, Len(rows)) /\ Len(back) = Len(rows) - i
  BY <1>0, Back
<1>3. PICK mid \in Seq(X) : mid = <<row>> /\ Len(mid) = 1 /\ mid[1] = row
  <2>1. <<row>> \in Seq(X) /\ Len(<<row>>) = 1 /\ <<row>>[1] = row
    OBVIOUS
  <2> QED BY <2>1, Zenon
<1>4. Inserted(rows, i, row) = front \o mid \o back
  BY <1>1, <1>2, <1>3, Zenon DEF Inserted
<1>5. front \o mid \o back \in Seq(X)
  BY ThreeParts
<1>6. Len(front \o mid \o back) = Len(front) + Len(mid) + Len(back)
  BY ThreeParts
<1>7. \A k \in 1..Len(mid) : (front \o mid \o back)[Len(front) + k] = mid[k]
  BY ThreeParts
<1>8. PICK n \in Int, a \in Int, b \in Int, c \in Int :
        n = Len(rows) /\ a = Len(front) /\ b = Len(mid) /\ c = Len(back)
  BY <1>0, LenProperties
<1>9. a = i /\ b = 1 /\ c = n - i
  BY <1>1, <1>2, <1>3, <1>8, Zenon
<1>10. a + b + c = n + 1
  BY <1>0, <1>9, SMT
<1>11. (front \o mid \o back)[i + 1] = row
  <2>1. 1 \in 1..Len(mid)
    BY <1>3
  <2>2. (front \o mid \o back)[Len(front) + 1] = mid[1]
    BY <1>7, <2>1
  <2> QED BY <1>1, <1>3, <2>2, Zenon
<1> QED
  BY <1>4, <1>5, <1>6, <1>8, <1>10, <1>11, Zenon

LEMMA WithoutRows ==
    ASSUME NEW X, NEW rows \in Seq(X), NEW i \in 1..Len(rows)
    PROVE  /\ Without(rows, i) \in Seq(X) /\ Len(Without(rows, i)) = Len(rows) - 1
           /\ \A k \in 1..(i - 1) : Without(rows, i)[k] = rows[k]
           /\ \A k \in i..(Len(rows) - 1) : Without(rows, i)[k] = rows[k + 1]
<1>0. Len(rows) \in Nat /\ i - 1 \in 0..Len(rows) /\ i \in 0..Len(rows) /\ i \in Nat
  BY LenProperties
<1>1. PICK front \in Seq(X) : /\ front = SubSeq(rows, 1, i - 1) /\ Len(front) = i - 1
                              /\ \A k \in 1..(i - 1) : front[k] = rows[k]
  BY <1>0, Front
<1>2. PICK back \in Seq(X) : /\ back = SubSeq(rows, i + 1, Len(rows)) /\ Len(back) = Len(rows) - i
                             /\ \A k \in 1..(Len(rows) - i) : back[k] = rows[i + k]
  <2>1. /\ SubSeq(rows, i + 1, Len(rows)) \in Seq(X)
        /\ Len(SubSeq(rows, i + 1, Len(rows))) = Len(rows) - i
        /\ \A k \in 1..(Len(rows) - i) : SubSeq(rows, i + 1, Len(rows))[k] = rows[i + k]
    BY <1>0, Back
  <2> QED BY <2>1, Zenon
<1>3. Without(rows, i) = front \o back
  BY <1>1, <1>2, Zenon DEF Without
<1>4. /\ front \o back \in Seq(X) /\ Len(front \o back) = Len(front) + Len(back)
      /\ \A k \in 1..(Len(front) + Len(back)) :
           (front \o back)[k] = IF k <= Len(front) THEN front[k] ELSE back[k - Len(front)]
  BY ConcatProperties
<1>5. PICK n \in Nat : n = Len(rows)
  BY <1>0
<1>6. Len(front) = i - 1 /\ Len(back) = n - i
  BY <1>1, <1>2, <1>5, Zenon
<1>7. (i - 1) + (n - i) = n - 1
  BY <1>0, SMT
<1>8. PICK all \in Seq(X) : all = front \o back /\ Len(all) = n - 1
        /\ \A k \in 1..(n - 1) : all[k] = IF k <= i - 1 THEN front[k] ELSE back[k - (i - 1)]
  BY <1>4, <1>6, <1>7
<1>9. i \in 1..n
  BY <1>5
<1>10. ASSUME NEW k \in 1..(i - 1) PROVE all[k] = rows[k]
  <2>1. k \in 1..(n - 1) /\ k <= i - 1
    BY <1>0, <1>9, SMT
  <2> QED BY <1>1, <1>8, <2>1
<1>11. ASSUME NEW k \in i..(n - 1) PROVE all[k] = rows[k + 1]
  <2>1. k \in 1..(n - 1) /\ ~ (k <= i - 1) /\ k - (i - 1) \in 1..(n - i) /\ i + (k - (i - 1)) = k + 1
    BY <1>0, <1>9, SMT
  <2>2. all[k] = back[k - (i - 1)]
    BY <1>8, <2>1
  <2>3. back[k - (i - 1)] = rows[i + (k - (i - 1))]
    BY <1>2, <1>5, <2>1
  <2> QED BY <2>1, <2>2, <2>3
<1> QED
  BY <1>3, <1>5, <1>8, <1>10, <1>11

LEMMA DefaultIsRow ==
    /\ \A b \in Structured : DefaultRow(b) \in Row(b) /\ DefaultRow(b)[1] \in Name
    /\ Class \in {Class, Workspace} /\ Class # Workspace
<1>1. ASSUME NEW b \in Structured PROVE DefaultRow(b) \in Row(b) /\ DefaultRow(b)[1] \in Name
  <2>1. <<"tile", "", "">> \in [1..3 -> Name] /\ <<"workspace", "", "1">> \in [1..3 -> Name]
    BY LiteralsAreNames, CellsMakeRow, Zenon
  <2>2. DefaultRow(b) = <<"tile", "", "">> \/ DefaultRow(b) = <<"workspace", "", "1">>
    BY Zenon DEF DefaultRow
  <2>3. DefaultRow(b) \in [1..3 -> Name]
    BY <2>1, <2>2, Zenon
  <2>4. \A row \in [1..3 -> Name] : row[1] \in Name
    OBVIOUS
  <2> QED BY <2>3, <2>4, CellsOfBlocks, Zenon
<1>3. Class \in {Class, Workspace} /\ Class # Workspace
  BY DEF Class, Workspace
<1> QED
  BY <1>1, <1>3

LEMMA WithCellOK ==
    ASSUME NEW b \in Structured, NEW row \in [1..3 -> Name], NEW cell \in {Class, Workspace}, NEW a \in Name
    PROVE  /\ WithCell(b, row, cell, a) \in [1..3 -> Name]
           /\ (cell = Workspace => HasWorkspace(b, row)) =>
                /\ WithCell(b, row, cell, a)[cell] = a
                /\ cell = Workspace => HasWorkspace(b, WithCell(b, row, cell, a))
<1>1. PICK whole \in [1..3 -> Name] :
        /\ whole = IF row[1] = "" THEN [row EXCEPT ![1] = DefaultRow(b)[1]] ELSE row
        /\ row[1] = "workspace" => whole[1] = "workspace"
  <2>1. CASE row[1] = ""
    <3>1. PICK v \in Name : v = DefaultRow(b)[1]
      BY DefaultIsRow, Zenon
    <3>2. [row EXCEPT ![1] = v] \in [1..3 -> Name]
      OBVIOUS
    <3>3. "" # "workspace"
      OBVIOUS
    <3>4. row[1] # "workspace"
      BY <2>1, <3>3, Zenon
    <3> QED BY <2>1, <3>1, <3>2, <3>4, Zenon
  <2>2. CASE row[1] # ""
    BY <2>2, Zenon
  <2> QED BY <2>1, <2>2, Zenon
<1>2. PICK set \in [1..3 -> Name] :
        /\ set = [whole EXCEPT ![cell] = a] /\ set[cell] = a
        /\ set[1] = whole[1]
  <2>1. /\ [whole EXCEPT ![cell] = a] \in [1..3 -> Name] /\ [whole EXCEPT ![cell] = a][cell] = a
        /\ [whole EXCEPT ![cell] = a][1] = whole[1]
    BY DEF Class, Workspace
  <2> QED BY <2>1, Zenon
<1>3. cell = Workspace /\ ~HasWorkspace(b, row) => WithCell(b, row, cell, a) = whole
  BY <1>1, Zenon DEF WithCell
<1>4. ~ (cell = Workspace /\ ~HasWorkspace(b, row)) => WithCell(b, row, cell, a) = set
  BY <1>1, <1>2, Zenon DEF WithCell
<1>5. HasWorkspace(b, row) => HasWorkspace(b, set)
  BY <1>1, <1>2, Zenon DEF HasWorkspace
<1> QED
  BY <1>1, <1>2, <1>3, <1>4, <1>5, Zenon

LEMMA CellsOfRows ==
    ASSUME NEW b \in Structured, NEW rows \in Seq(Row(b)), NEW i \in 1..Len(rows),
           NEW cell \in {Class, Workspace}
    PROVE  rows[i] \in [1..3 -> Name] /\ rows[i][cell] \in Name
<1>1. rows[i] \in [1..3 -> Name]
  BY CellsOfBlocks, ElementOfSeq
<1> QED
  BY <1>1 DEF Class, Workspace

\* What is remembered of the rows and of the caret.
Marked(e, v, s) == [e EXCEPT !.unchecked = v, !.slip = s]

LEMMA MarkedOK ==
    ASSUME NEW e, EditorOK(e), NEW v \in BOOLEAN, NEW s \in Slips, s = None => e.slip = None
    PROVE  /\ Edits(e, Marked(e, v, s))
           /\ Marked(e, v, s).block = e.block /\ Marked(e, v, s).row = e.row
           /\ Marked(e, v, s).cell = e.cell /\ Marked(e, v, s).col = e.col
           /\ Marked(e, v, s).onField = e.onField /\ Marked(e, v, s).onBlock = e.onBlock
           /\ Marked(e, v, s).slip = s
<1>0. e \in Editor
  BY DEF EditorOK
<1>1. PICK x : x = Marked(e, v, s)
  OBVIOUS
<1>2. x \in Editor
  BY <1>0, <1>1 DEF Editor, Marked
<1>3. /\ x.field = e.field /\ x.fieldCaret = e.fieldCaret /\ x.block = e.block /\ x.row = e.row
      /\ x.cell = e.cell /\ x.col = e.col /\ x.onField = e.onField /\ x.onBlock = e.onBlock /\ x.slip = s
  BY <1>0, <1>1 DEF Editor, Marked
<1>4. Edits(e, x)
  BY <1>2, <1>3 DEF Edits, SameLoaded, EditorOK, InField, InLine, InCell
<1> QED
  BY <1>1, <1>3, <1>4

\* HandleStructuredBlockKey once the block has a row and one of them is meant.
StructuredKeyIn(e, b, rows, key) ==
    LET text == rows[e.row][e.cell]
        after == IF key = "comma" THEN Parted(text, e.col) ELSE Edited(text, e.col, key)
    IN  CASE key = "escape" -> ClearFocus(e)
          [] key = "enter" -> [e EXCEPT !.block[b].rows = Inserted(rows, e.row, DefaultRow(b)),
                                        !.row = @ + 1, !.cell = Class, !.col = 0]
          [] key \in {"type", "comma", "back"} /\ Outside(text, e.col, key) -> Fault(e)
          [] key = "left" /\ e.col = 0 -> MoveStructuredFocus(e, -1)
          [] key = "right" /\ e.col >= Size(text) -> MoveStructuredFocus(e, 1)
          [] (key = "left" /\ e.col > 0) \/ (key = "right" /\ e.col < Size(text)) -> [e EXCEPT !.col = after[2]]
          [] OTHER -> [e EXCEPT !.block[b].rows[e.row] = WithCell(b, @, e.cell, after[1]), !.col = after[2],
                                !.slip = IF key = "comma" THEN key ELSE @]

LEMMA StructuredKeyOK ==
    ASSUME NEW b \in Structured, NEW e0, EditorOK(e0), NEW key, e0.onField = None, e0.onBlock = b
    PROVE  Edits(e0, StructuredKey(e0, key))
<1>0. e0 \in Editor /\ e0.row \in Nat \ {0} /\ e0.col \in Nat /\ e0.cell \in {Class, Workspace}
  BY DEF EditorOK, Editor
<1>1. PICK rows \in Seq(Row(b)) :
        /\ rows = IF e0.block[b].rows = <<>> THEN <<DefaultRow(b)>> ELSE e0.block[b].rows
        /\ Len(rows) \in Nat /\ Len(rows) # 0
        /\ e0.slip = None => CellThere(b, rows, e0.row, e0.cell, e0.col)
  <2>0. /\ e0.block[b].rows \in Seq(Row(b))
        /\ Len(e0.block[b].rows) \in Nat
    BY <1>0, CellsOfBlocks, RowsOfBlock
  <2>1. CASE e0.block[b].rows = <<>>
    <3>1. e0.slip # None
      BY <2>1 DEF EditorOK, InCell
    <3>2. <<DefaultRow(b)>> \in Seq(Row(b)) /\ Len(<<DefaultRow(b)>>) = 1
      <4>1. PICK row \in Row(b) : row = DefaultRow(b)
        BY DefaultIsRow
      <4> QED BY <4>1
    <3>3. PICK one \in Seq(Row(b)) : one = <<DefaultRow(b)>> /\ Len(one) = 1
      BY <3>2, Zenon
    <3>4. Len(one) \in Nat /\ Len(one) # 0
      BY <3>3
    <3> QED BY <2>1, <3>1, <3>3, <3>4, Zenon
  <2>2. CASE e0.block[b].rows # <<>>
    <3>1. e0.slip = None => CellThere(b, e0.block[b].rows, e0.row, e0.cell, e0.col)
      BY DEF EditorOK, InCell, CellThere
    <3>2. Len(e0.block[b].rows) # 0
      BY <2>0, <2>2, EmptySeq
    <3> QED BY <2>0, <2>2, <3>1, <3>2
  <2> QED BY <2>1, <2>2
<1>2. PICK row \in 1..Len(rows) : /\ row = IF e0.row > Len(rows) THEN Len(rows) ELSE e0.row
                                  /\ e0.slip = None => row = e0.row
  <2>1. e0.slip = None => e0.row \in 1..Len(rows)
    BY <1>1 DEF CellThere
  <2>2. PICK n \in Nat \ {0} : n = Len(rows)
    BY <1>1
  <2>3. PICK r \in Nat \ {0} : r = e0.row
    BY <1>0
  <2>4. (IF r > n THEN n ELSE r) \in 1..n /\ (r \in 1..n => ~ (r > n))
    BY <2>2, <2>3
  <2> QED BY <2>1, <2>2, <2>3, <2>4
<1>3. row \in Nat \ {0}
  BY <1>1
<1>19. PICK v \in BOOLEAN :
         v = IF key \in {"escape", "left", "right"}
             THEN e0.unchecked \/ (b = "windowrule" /\ e0.block[b].rows = <<>>)
             ELSE e0.unchecked /\ b # "windowrule"
  OBVIOUS
<1>20. PICK there : there = InRow(e0, b, rows, row, e0.cell, e0.col)
  OBVIOUS
<1>4. PICK e : e = Marked(there, v, there.slip)
  OBVIOUS
<1>5. /\ Edits(e0, e) /\ e.block[b].rows = rows /\ e.row = row
      /\ e.cell = e0.cell /\ e.col = e0.col /\ e.onField = None /\ e.onBlock = b
      /\ e.slip = e0.slip
  <2>1. e0.slip = None => CellThere(b, rows, row, e0.cell, e0.col)
    BY <1>1, <1>2
  <2> DEFINE y == InRow(e0, b, rows, row, e0.cell, e0.col)
  <2>2. /\ Edits(e0, y) /\ y.block[b].rows = rows /\ y.row = row
        /\ y.cell = e0.cell /\ y.col = e0.col /\ y.onField = None /\ y.onBlock = b
        /\ y.slip = e0.slip
    BY <1>0, <1>3, <2>1, InRowOK
  <2>3. /\ Edits(there, e) /\ e.block = there.block /\ e.row = there.row /\ e.cell = there.cell
        /\ e.col = there.col /\ e.onField = there.onField /\ e.onBlock = there.onBlock
        /\ e.slip = there.slip
    <3>1. EditorOK(there) /\ there.slip \in Slips
      BY <1>20, <2>2 DEF Edits, EditorOK, Editor
    <3> QED BY <1>4, <3>1, MarkedOK
  <2>4. Edits(e0, e)
    BY <1>20, <2>2, <2>3 DEF Edits, SameLoaded
  <2> QED BY <1>20, <2>2, <2>3, <2>4
<1>6. EditorOK(e) /\ e \in Editor /\ e.col \in Nat /\ e.cell \in {Class, Workspace}
  BY <1>0, <1>5 DEF Edits, EditorOK
<1>7. e.slip = None => CellThere(b, rows, row, e.cell, e.col)
  BY <1>1, <1>2, <1>5
<1>8. ASSUME NEW x, Edits(e, x) PROVE Edits(e0, x)
  BY <1>5, <1>8 DEF Edits, SameLoaded
<1> DEFINE x == StructuredKeyIn(e, b, rows, key)
           word == rows[row][e.cell]
<1>9. StructuredKey(e0, key) = x
  <2> DEFINE all == IF e0.block[e0.onBlock].rows = <<>> THEN <<DefaultRow(e0.onBlock)>>
                    ELSE e0.block[e0.onBlock].rows
  <2>2. all = rows
    BY <1>1, Zenon
  <2>3. StructuredKey(e0, key) =
          StructuredKeyIn([e0 EXCEPT !.block[e0.onBlock].rows = all,
                                     !.row = IF @ > Len(all) THEN Len(all) ELSE @,
                                     !.unchecked = IF key \in {"escape", "left", "right"}
                                       THEN @ \/ (e0.onBlock = "windowrule" /\ e0.block[e0.onBlock].rows = <<>>)
                                       ELSE @ /\ e0.onBlock # "windowrule"],
                          e0.onBlock, all, key)
    BY Zenon DEF StructuredKey, StructuredKeyIn
  <2> HIDE DEF all
  <2>5. [e0 EXCEPT !.block[b].rows = rows, !.row = IF @ > Len(rows) THEN Len(rows) ELSE @, !.unchecked = v] = e
    BY <1>0, <1>2, <1>4, <1>20 DEF InRow, Marked, Editor
  <2>4. [e0 EXCEPT !.block[b].rows = rows, !.row = IF @ > Len(rows) THEN Len(rows) ELSE @,
                   !.unchecked = IF key \in {"escape", "left", "right"}
                                 THEN @ \/ (b = "windowrule" /\ e0.block[b].rows = <<>>)
                                 ELSE @ /\ b # "windowrule"] = e
    BY <1>19, <2>5, Zenon
  <2> QED BY <2>2, <2>3, <2>4, Zenon
<1> SUFFICES Edits(e0, x)
  BY <1>9
<1> HIDE DEF x
<1>10. word \in Name /\ rows[row] \in [1..3 -> Name] /\ rows[row] \in Row(b)
  BY <1>6, CellsOfRows, CellsOfBlocks
<1>11. CASE key = "escape"
  <2>1. x = ClearFocus(e)
    BY <1>11, Zenon DEF x, StructuredKeyIn
  <2> QED BY <1>6, <1>8, <2>1, ClearFocusOK
<1>12. CASE key = "enter"
  <2>1. x = InRow(e, b, Inserted(rows, row, DefaultRow(b)), row + 1, Class, 0)
    BY <1>5, <1>12 DEF x, StructuredKeyIn, InRow
  <2>2. PICK new \in Seq(Row(b)) : new = Inserted(rows, row, DefaultRow(b)) /\ Len(new) = Len(rows) + 1
    BY DefaultIsRow, InsertedRows
  <2>3. row + 1 \in Nat \ {0} /\ row + 1 \in 1..Len(new)
    <3>1. row + 1 \in Nat \ {0} /\ row + 1 \in 1..(Len(rows) + 1)
      BY <1>1, NextPlaces
    <3> QED BY <2>2, <3>1, Zenon
  <2>4. CellThere(b, new, row + 1, Class, 0)
    BY <2>3, Sizes, DefaultIsRow DEF CellThere
  <2>5. Edits(e, InRow(e, b, new, row + 1, Class, 0))
    BY <1>5, <1>6, <2>3, <2>4, DefaultIsRow, InRowOK
  <2> QED BY <1>8, <2>1, <2>2, <2>5
<1>13. CASE key \in {"type", "comma", "back"} /\ Outside(word, e.col, key)
  <2>1. key # "escape" /\ key # "enter"
    BY <1>13
  <2>2. x = Fault(e)
    BY <1>5, <1>13, <2>1, Zenon DEF x, StructuredKeyIn
  <2>3. ASSUME e.slip = None PROVE FALSE
    <3>1. e.col \in 0..Size(word)
      BY <1>7, <2>3 DEF CellThere
    <3> QED BY <1>13, <3>1, InsideIsNotOutside
  <2> QED BY <1>6, <1>8, <2>2, <2>3, FaultOK
<1>14. CASE key = "left" /\ e.col = 0
  <2>1. key # "escape" /\ key # "enter" /\ key \notin {"type", "comma", "back"}
    BY <1>14
  <2>6. ~ (e.col > 0) /\ key # "right"
    BY <1>6, <1>14
  <2>2. x = MoveStructuredFocus(e, -1)
    BY <1>5, <1>14, <2>1, <2>6, Zenon DEF x, StructuredKeyIn
  <2>3. e.row \in 1..Len(e.block[b].rows)
    BY <1>5
  <2>4. PICK direction \in {-1, 1} : direction = -1
    OBVIOUS
  <2>5. Edits(e, MoveStructuredFocus(e, direction))
    BY <1>5, <1>6, <2>3, MoveStructuredFocusOK
  <2> QED BY <1>8, <2>2, <2>4, <2>5
<1>15. CASE key = "right" /\ e.col >= Size(word)
  <2>1. key # "escape" /\ key # "enter" /\ key \notin {"type", "comma", "back"} /\ key # "left"
    BY <1>15
  <2>6. PICK n \in {0, 1} : n = Size(word)
    BY Sizes
  <2>7. ~ (e.col < n)
    <3>1. e.col >= n
      BY <1>15, <2>6
    <3> QED BY <1>6, <2>6, <3>1
  <2>8. ~ (e.col < Size(word))
    BY <2>6, <2>7, Zenon
  <2>2. x = MoveStructuredFocus(e, 1)
    BY <1>5, <1>15, <2>1, <2>8, Zenon DEF x, StructuredKeyIn
  <2>3. e.row \in 1..Len(e.block[b].rows)
    BY <1>5
  <2>4. PICK direction \in {-1, 1} : direction = 1
    OBVIOUS
  <2>5. Edits(e, MoveStructuredFocus(e, direction))
    BY <1>5, <1>6, <2>3, MoveStructuredFocusOK
  <2> QED BY <1>8, <2>2, <2>4, <2>5
<1>16. PICK a \in Name, c \in Nat :
        /\ (IF key = "comma" THEN Parted(word, e.col) ELSE Edited(word, e.col, key)) = <<a, c>>
        /\ key # "comma" => (e.col \in 0..Size(word) => c \in 0..Size(a))
        /\ key \in {"left", "right"} => a = word
  <2>1. PICK w \in Name : w = word
    BY <1>10
  <2>2. PICK caret \in Nat : caret = e.col
    BY <1>6
  <2>3. \E a \in Name, c \in Nat :
          /\ Edited(w, caret, key) = <<a, c>>
          /\ caret \in 0..Size(w) => c \in 0..Size(a)
          /\ key \in {"left", "right"} => a = w
    BY EditedOK
  <2>4. CASE key # "comma"
    BY <2>1, <2>2, <2>3, <2>4, Zenon
  <2>5. CASE key = "comma"
    <3>1. PICK p \in Name : p = IF e.col = 0 THEN "" ELSE word
      <4>1. CASE e.col = 0
        BY <4>1, LiteralsAreNames, Zenon
      <4>2. CASE e.col # 0
        BY <1>10, <4>2, Zenon
      <4> QED BY <4>1, <4>2, Zenon
    <3>2. PICK q \in Nat : q = e.col + 1
      BY <1>6
    <3>3. Parted(word, e.col) = <<p, q>>
      BY <3>1, <3>2, Zenon DEF Parted
    <3>4. key \notin {"left", "right"}
      BY <2>5
    <3> QED BY <2>5, <3>3, <3>4, Zenon
  <2> QED BY <2>4, <2>5, Zenon
<1>17. CASE (key = "left" /\ ~ (e.col = 0)) \/ (key = "right" /\ ~ (e.col >= Size(word)))
  <2>0. PICK n \in {0, 1} : n = Size(word)
    BY Sizes
  <2>1. (key = "left" /\ e.col > 0) \/ (key = "right" /\ e.col < n)
    BY <1>6, <1>17, <2>0
  <2>2. /\ key # "escape" /\ key # "enter" /\ key \notin {"type", "comma", "back"}
        /\ ~ (key = "left" /\ e.col = 0) /\ ~ (key = "right" /\ e.col >= n)
    BY <1>6, <2>0, <2>1
  <2>3. (key = "left" /\ e.col > 0) \/ (key = "right" /\ e.col < Size(word))
    BY <2>0, <2>1, Zenon
  <2>4. ~ (key = "right" /\ e.col >= Size(word))
    BY <2>0, <2>2, Zenon
  <2>10. key # "comma"
    BY <2>2
  <2>5. x = [e EXCEPT !.col = Edited(word, e.col, key)[2]]
    BY <1>5, <2>2, <2>3, <2>4, <2>10, Zenon DEF x, StructuredKeyIn
  <2>6. x = InRow(e, b, rows, row, e.cell, c)
    <3>1. x = [e EXCEPT !.col = c]
      BY <1>16, <2>5, <2>10
    <3>2. e.block \in [Block -> [loaded : Seq(Seq(Name)), rows : Seq(Seq(Name))]]
      BY <1>6 DEF Editor, BlockRows
    <3>3. e.block = [e.block EXCEPT ![b].rows = rows]
      <4>1. e.block[b] = [e.block[b] EXCEPT !.rows = rows]
        BY <1>5, <3>2, CellsOfBlocks
      <4> QED BY <3>2, <4>1
    <3> QED BY <1>5, <1>6, <3>1, <3>3 DEF InRow, Editor
  <2>7. a = word
    BY <1>16, <2>1
  <2>8. e.slip = None => CellThere(b, rows, row, e.cell, c)
    BY <1>7, <1>16, <2>7, <2>10 DEF CellThere
  <2>9. Edits(e, InRow(e, b, rows, row, e.cell, c))
    BY <1>3, <1>5, <1>6, <2>8, InRowOK
  <2> QED BY <1>8, <2>6, <2>9
<1>18. CASE /\ ~ (key = "escape") /\ ~ (key = "enter")
            /\ ~ (key \in {"type", "comma", "back"} /\ Outside(word, e.col, key))
            /\ ~ (key = "left" /\ e.col = 0) /\ ~ (key = "right" /\ e.col >= Size(word))
            /\ ~ ((key = "left" /\ ~ (e.col = 0)) \/ (key = "right" /\ ~ (e.col >= Size(word))))
  <2>1. key # "left" /\ key # "right"
    <3>1. ASSUME key = "left" PROVE FALSE
      BY <1>18, <3>1, Zenon
    <3>2. ASSUME key = "right" PROVE FALSE
      BY <1>18, <3>2, Zenon
    <3> QED BY <3>1, <3>2, Zenon
  <2>8. PICK s \in Slips : s = (IF key = "comma" THEN key ELSE e.slip) /\ (s = None => key # "comma" /\ e.slip = None)
    <3>1. "comma" \in Slips /\ "comma" # None /\ e.slip \in Slips
      BY <1>6 DEF Slips, None, Editor
    <3>2. CASE key = "comma"
      BY <3>1, <3>2, Zenon
    <3>3. CASE key # "comma"
      BY <3>1, <3>3, Zenon
    <3> QED BY <3>2, <3>3, Zenon
  <2>9. PICK y : y = Marked(e, e.unchecked, s)
    OBVIOUS
  <2>10. /\ Edits(e, y) /\ y.block = e.block /\ y.row = e.row /\ y.cell = e.cell /\ y.col = e.col
         /\ y.onField = e.onField /\ y.onBlock = e.onBlock /\ y.slip = s
    <3>1. e.unchecked \in BOOLEAN
      BY <1>6 DEF Editor
    <3> QED BY <1>6, <2>8, <2>9, <3>1, MarkedOK
  <2>2. x = [e EXCEPT !.block[b].rows[row] = WithCell(b, @, e.cell, a), !.col = c, !.slip = s]
    <3>1. x = [e EXCEPT !.block[b].rows[row] =
                   WithCell(b, @, e.cell, (IF key = "comma" THEN Parted(word, e.col) ELSE Edited(word, e.col, key))[1]),
                 !.col = (IF key = "comma" THEN Parted(word, e.col) ELSE Edited(word, e.col, key))[2],
                 !.slip = IF key = "comma" THEN key ELSE @]
      BY <1>5, <1>18, <2>1, Zenon DEF x, StructuredKeyIn
    <3>2. <<a, c>>[1] = a /\ <<a, c>>[2] = c
      OBVIOUS
    <3> QED BY <1>16, <2>8, <3>1, <3>2, Zenon
  <2>3. PICK set \in Row(b) :
          /\ set = WithCell(b, rows[row], e.cell, a)
          /\ (e.cell = Workspace => HasWorkspace(b, rows[row])) =>
               set[e.cell] = a /\ (e.cell = Workspace => HasWorkspace(b, set))
    BY <1>6, <1>10, CellsOfBlocks, WithCellOK
  <2>4. PICK new \in Seq(Row(b)) :
          new = [rows EXCEPT ![row] = set] /\ Len(new) = Len(rows) /\ new[row] = set
    <3>1. [rows EXCEPT ![row] = set] \in Seq(Row(b))
      BY ExceptSeq
    <3>2. Len([rows EXCEPT ![row] = set]) = Len(rows)
      BY ExceptSeq
    <3>3. [rows EXCEPT ![row] = set][row] = set
      BY ExceptSeq
    <3> QED BY <3>1, <3>2, <3>3, Zenon
  <2>5. x = InRow(y, b, new, row, e.cell, c)
    <3>1. x = [e EXCEPT !.block[b].rows[row] = set, !.col = c, !.slip = s]
      <4>1. e.block[b].rows[row] = rows[row]
        BY <1>5
      <4>2. x = [e EXCEPT !.block[b].rows[row] = WithCell(b, e.block[b].rows[row], e.cell, a), !.col = c, !.slip = s]
        BY <2>2
      <4> QED BY <2>3, <4>1, <4>2
    <3>2. [e.block EXCEPT ![b].rows[row] = set] = [e.block EXCEPT ![b].rows = new]
      <4>1. e.block \in [Block -> [loaded : Seq(Seq(Name)), rows : Seq(Seq(Name))]]
        BY <1>6 DEF Editor, BlockRows
      <4> QED BY <1>5, <2>4, <4>1, CellsOfBlocks
    <3>3. x = [e EXCEPT !.block = [e.block EXCEPT ![b].rows = new], !.col = c, !.slip = s]
      BY <1>6, <3>1, <3>2 DEF Editor
    <3> QED BY <1>5, <1>6, <2>9, <3>3 DEF InRow, Marked, Editor
  <2>6. y.slip = None => CellThere(b, new, row, e.cell, c)
    <3>1. ASSUME y.slip = None PROVE CellThere(b, new, row, e.cell, c)
      <4>0. e.slip = None /\ key # "comma"
        BY <2>8, <2>10, <3>1
      <4>1. /\ e.col \in 0..Size(word) /\ (e.cell = Workspace => HasWorkspace(b, rows[row]))
        BY <1>7, <4>0 DEF CellThere
      <4>2. c \in 0..Size(a) /\ new[row][e.cell] = a /\ (e.cell = Workspace => HasWorkspace(b, new[row]))
        BY <1>16, <2>3, <2>4, <4>0, <4>1
      <4>3. row \in 1..Len(new)
        BY <2>4
      <4> QED BY <4>2, <4>3 DEF CellThere
    <3> QED BY <3>1
  <2>7. Edits(y, InRow(y, b, new, row, e.cell, c))
    <3>1. PICK cell \in {Class, Workspace} : cell = e.cell
      BY <1>6, Zenon
    <3>2. y.slip = None => CellThere(b, new, row, cell, c)
      BY <2>6, <3>1, Zenon
    <3>3. EditorOK(y) /\ y.onField = None /\ y.onBlock = b
      BY <1>5, <2>10 DEF Edits
    <3>4. Edits(y, InRow(y, b, new, row, cell, c))
      BY <1>3, <3>2, <3>3, InRowOK
    <3> QED BY <3>1, <3>4, Zenon
  <2>11. Edits(e, x)
    BY <2>5, <2>7, <2>10 DEF Edits, SameLoaded
  <2> QED BY <1>8, <2>11
<1> QED
  BY <1>11, <1>12, <1>13, <1>14, <1>15, <1>17, <1>18, Zenon

\* x is e with other rows in a block.
Rewrites(e, b, rows, x) ==
    /\ x \in Editor /\ SameLoaded(e, x) /\ x.field = e.field
    /\ x.block[b].rows = rows /\ \A c \in Block \ {b} : x.block[c] = e.block[c]
    /\ x.onField = e.onField /\ x.onBlock = e.onBlock /\ x.fieldCaret = e.fieldCaret
    /\ x.row = e.row /\ x.col = e.col /\ x.cell = e.cell /\ x.slip = e.slip
    /\ x.fault = e.fault

LEMMA RowsChanged ==
    ASSUME NEW e \in Editor, NEW b \in Block, NEW rows \in Seq(Row(b)), NEW x,
           x = [e EXCEPT !.block[b].rows = rows]
    PROVE  Rewrites(e, b, rows, x)
<1>1. LET y == [e EXCEPT !.block[b].rows = rows]
      IN  /\ y \in Editor /\ SameLoaded(e, y) /\ y.field = e.field
          /\ y.block[b].rows = rows /\ \A c \in Block \ {b} : y.block[c] = e.block[c]
          /\ y.onField = e.onField /\ y.onBlock = e.onBlock /\ y.fieldCaret = e.fieldCaret
          /\ y.row = e.row /\ y.col = e.col /\ y.cell = e.cell /\ y.slip = e.slip
          /\ y.fault = e.fault
  BY RowsChange
<1> QED
  BY <1>1 DEF Rewrites

LEMMA PressedOK ==
    ASSUME NEW e, EditorOK(e), NEW key, NEW rebuilt, EditorOK(rebuilt)
    PROVE  Edits(e, Pressed(e, key, rebuilt)) \/ Edits(rebuilt, Pressed(e, key, rebuilt))
<1> DEFINE x == Pressed(e, key, rebuilt)
<1>1. CASE e.inSearch
  <2>1. x = SearchKey(e, key)
    BY <1>1, Zenon DEF Pressed
  <2> QED BY <2>1, SearchKeyOK
<1>2. CASE ~e.inSearch /\ e.onField # None
  <2>1. x = FieldKey(e, key, rebuilt)
    BY <1>2, Zenon DEF Pressed
  <2> QED BY <1>2, <2>1, FieldKeyOK
<1>3. CASE ~e.inSearch /\ e.onField = None /\ e.onBlock \in Structured
  <2>1. x = StructuredKey(e, key)
    BY <1>3, Zenon DEF Pressed
  <2>2. PICK b \in Structured : e.onBlock = b
    BY <1>3
  <2> QED BY <1>3, <2>1, <2>2, StructuredKeyOK
<1>4. CASE ~e.inSearch /\ e.onField = None /\ e.onBlock \in Block \ Structured
  <2>1. x = RawKey(e, key)
    BY <1>4, Zenon DEF Pressed
  <2>2. e.onBlock = "bind"
    BY <1>4 DEF Structured, Block
  <2> QED BY <1>4, <2>1, <2>2, RawKeyOK
<1>5. CASE ~e.inSearch /\ e.onField = None /\ e.onBlock \notin Structured /\ e.onBlock \notin Block \ Structured
  <2>1. x = e
    BY <1>5, Zenon DEF Pressed
  <2> QED BY <2>1, EditsNothing
<1> QED
  BY <1>1, <1>2, <1>3, <1>4, <1>5

(* ------------------------------- the clicks ------------------------------ *)

LEMMA SelectCategoryOK ==
    ASSUME NEW e, EditorOK(e), NEW c \in Category
    PROVE  Edits(e, SelectCategory(e, c))
<1>0. e \in Editor
  BY DEF EditorOK
<1>1. PICK d \in Editor : /\ d = ClearFocus(e) /\ d.field = e.field /\ d.block = e.block
                          /\ d.onField = None /\ d.onBlock = None
  BY <1>0, ClearFocusOK
<1>2. PICK x : x = SelectCategory(e, c)
  OBVIOUS
<1>3. x = [d EXCEPT !.category = c, !.found = FALSE]
  BY <1>1, <1>2 DEF SelectCategory
<1>4. x \in Editor
  BY <1>3 DEF Editor
<1>5. x.field = e.field /\ x.block = e.block /\ x.onField = None /\ x.onBlock = None
  BY <1>1, <1>3 DEF Editor
<1>6. Edits(e, x)
  BY <1>4, <1>5, CellsOfBlocks DEF Edits, SameLoaded, EditorOK, InField, InLine, InCell
<1> QED
  BY <1>2, <1>6

LEMMA ClickSearchOK ==
    ASSUME NEW e, EditorOK(e)
    PROVE  Edits(e, ClickSearch(e))
<1>0. e \in Editor
  BY DEF EditorOK
<1>1. PICK d \in Editor : /\ d = ClearFocus(e) /\ d.field = e.field /\ d.block = e.block
                          /\ d.onField = None /\ d.onBlock = None
  BY <1>0, ClearFocusOK
<1>2. PICK x : x = ClickSearch(e)
  OBVIOUS
<1>3. x = [d EXCEPT !.inSearch = TRUE]
  BY <1>1, <1>2 DEF ClickSearch
<1>4. x \in Editor
  BY <1>3 DEF Editor
<1>5. x.field = e.field /\ x.block = e.block /\ x.onField = None /\ x.onBlock = None
  BY <1>1, <1>3 DEF Editor
<1>6. Edits(e, x)
  BY <1>4, <1>5, CellsOfBlocks DEF Edits, SameLoaded, EditorOK, InField, InLine, InCell
<1> QED
  BY <1>2, <1>6

LEMMA ClickFieldOK ==
    ASSUME NEW e, EditorOK(e), NEW f \in DOMAIN e.field, NEW caret \in CaretsForClick(e.field[f].now)
    PROVE  Edits(e, ClickField(e, f, caret))
<1>0. e \in Editor
  BY DEF EditorOK
<1>1. CASE f = "flag"
  <2>1. PICK d \in Editor : /\ d = ClearFocus(e) /\ d.field = e.field /\ d.block = e.block
                            /\ d.onField = None /\ d.onBlock = None /\ SameLoaded(e, d)
    BY <1>0, ClearFocusOK DEF Edits
  <2>2. PICK v \in Name : v = Toggled(d.field[f].now)
    <3>1. Toggled(d.field[f].now) = "true" \/ Toggled(d.field[f].now) = "false"
      BY Zenon DEF Toggled
    <3> QED BY <3>1, LiteralsAreNames, Zenon
  <2>3. PICK x : x = Typed(d, f, v, d.fieldCaret)
    OBVIOUS
  <2>4. ClickField(e, f, caret) = x
    <3>1. ClickField(e, f, caret) = [d EXCEPT !.field[f].now = Toggled(@)]
      BY <1>1, <2>1, Zenon DEF ClickField
    <3>2. [d EXCEPT !.field[f].now = Toggled(@)] = [d EXCEPT !.field[f].now = v]
      BY <2>2
    <3>3. [d EXCEPT !.field[f].now = v] = Typed(d, f, v, d.fieldCaret)
      BY DEF Editor, Typed
    <3> QED BY <2>3, <3>1, <3>2, <3>3, Zenon
  <2>5. d.fieldCaret \in Nat /\ f \in DOMAIN d.field
    BY <2>1 DEF Editor
  <2>6. x \in Editor /\ SameLoaded(d, x) /\ x.onField = None /\ x.onBlock = None
    <3>1. LET y == Typed(d, f, v, d.fieldCaret)
          IN  /\ y \in Editor /\ SameLoaded(d, y) /\ y.block = d.block
              /\ y.field[f].now = v
              /\ y.onField = d.onField /\ y.onBlock = d.onBlock /\ y.fieldCaret = d.fieldCaret
              /\ y.row = d.row /\ y.col = d.col /\ y.cell = d.cell /\ y.slip = d.slip
              /\ y.fault = d.fault
      BY <2>5, FieldChange
    <3> QED BY <2>1, <2>3, <3>1
  <2>7. EditorOK(x)
    BY <2>6, CellsOfBlocks DEF EditorOK, InField, InLine, InCell
  <2>8. SameLoaded(e, x)
    BY <2>1, <2>6 DEF SameLoaded
  <2> QED BY <2>4, <2>7, <2>8 DEF Edits
<1>2. CASE f # "flag"
  <2>1. ClickField(e, f, caret) = FocusField(e, f, caret)
    BY <1>2, Zenon DEF ClickField
  <2>2. caret \in 0..Size(e.field[f].now)
    BY DEF CaretsForClick
  <2> QED BY <2>1, <2>2, FocusFieldOK
<1> QED
  BY <1>1, <1>2

\* An empty block has no line the focus could be on.
LEMMA FirstRowOK ==
    ASSUME NEW e, EditorOK(e), e.block["bind"].rows = <<>>, NEW rows \in Seq(Row("bind"))
    PROVE  /\ Edits(e, [e EXCEPT !.block["bind"].rows = rows])
           /\ [e EXCEPT !.block["bind"].rows = rows].block["bind"].rows = rows
           /\ [e EXCEPT !.block["bind"].rows = rows].cell = e.cell
<1>0. e \in Editor
  BY DEF EditorOK
<1>1. PICK x : x = [e EXCEPT !.block["bind"].rows = rows]
  OBVIOUS
<1>2. /\ x \in Editor /\ SameLoaded(e, x) /\ x.field = e.field /\ x.block["bind"].rows = rows
      /\ \A c \in Block \ {"bind"} : x.block[c] = e.block[c]
      /\ x.onField = e.onField /\ x.onBlock = e.onBlock /\ x.fieldCaret = e.fieldCaret
      /\ x.row = e.row /\ x.col = e.col /\ x.cell = e.cell /\ x.slip = e.slip
  <2>1. LET y == [e EXCEPT !.block["bind"].rows = rows]
        IN  /\ y \in Editor /\ SameLoaded(e, y) /\ y.field = e.field
            /\ y.block["bind"].rows = rows
            /\ \A c \in Block \ {"bind"} : y.block[c] = e.block[c]
            /\ y.onField = e.onField /\ y.onBlock = e.onBlock /\ y.fieldCaret = e.fieldCaret
            /\ y.row = e.row /\ y.col = e.col /\ y.cell = e.cell /\ y.slip = e.slip
            /\ y.fault = e.fault
    BY <1>0, CellsOfBlocks, RowsChange
  <2> QED BY <1>1, <2>1
<1>3. e.slip = None => e.onBlock # "bind"
  <2>1. ASSUME e.slip = None, e.onBlock = "bind" PROVE FALSE
    <3>1. e.row \in 1..Len(e.block["bind"].rows)
      BY <2>1 DEF EditorOK, InLine
    <3>2. Len(<<>>) = 0
      OBVIOUS
    <3>3. e.row \in 1..0
      BY <3>1, <3>2, Zenon
    <3> QED BY <3>3, SMT
  <2> QED BY <2>1
<1>4. x.slip = None => InField(x)
  BY <1>2 DEF EditorOK, InField
<1>5. x.slip = None => InLine(x)
  BY <1>2, <1>3 DEF InLine
<1>6. x.slip = None => InCell(x)
  <2>1. e.onBlock \in Structured => x.block[e.onBlock] = e.block[e.onBlock]
    BY <1>2, CellsOfBlocks
  <2> QED BY <1>2, <2>1 DEF EditorOK, InCell
<1>7. EditorOK(x)
  BY <1>2, <1>4, <1>5, <1>6 DEF EditorOK
<1> QED
  BY <1>1, <1>2, <1>7 DEF Edits

LEMMA ClickLineOK ==
    ASSUME NEW e, EditorOK(e), NEW i, NEW col,
           IF e.block["bind"].rows = <<>> THEN i = 1 /\ col = 0
           ELSE i \in 1..Len(e.block["bind"].rows) /\ col \in 0..Size(e.block["bind"].rows[i][Text])
    PROVE  Edits(e, ClickLine(e, i, col))
<1>0. e \in Editor /\ e.cell \in {Class, Workspace}
  BY DEF EditorOK, Editor
<1>1. PICK rows \in Seq(Row("bind")) :
        /\ rows = IF e.block["bind"].rows = <<>> THEN <<<<"">>>> ELSE e.block["bind"].rows
        /\ i \in 1..Len(rows) /\ col \in 0..Size(rows[i][Text])
  <2>1. CASE e.block["bind"].rows = <<>>
    <3>1. PICK blank \in Row("bind") : blank = <<"">>
      BY CellsOfBlocks, CellsMakeRow, LiteralsAreNames, Zenon
    <3>2. <<blank>> \in Seq(Row("bind")) /\ 1 \in 1..Len(<<blank>>)
      OBVIOUS
    <3>3. 0 \in 0..Size(<<blank>>[1][Text])
      BY Sizes
    <3> QED BY <2>1, <3>1, <3>2, <3>3, Zenon
  <2>2. CASE e.block["bind"].rows # <<>>
    <3>1. e.block["bind"].rows \in Seq(Row("bind"))
      BY <1>0, CellsOfBlocks, RowsOfBlock
    <3> QED BY <2>2, <3>1, Zenon
  <2> QED BY <2>1, <2>2
<1>2. PICK y : /\ y = [e EXCEPT !.block["bind"].rows = rows]
               /\ Edits(e, y) /\ y.block["bind"].rows = rows /\ y.cell = e.cell
  <2>1. CASE e.block["bind"].rows = <<>>
    <3>1. /\ Edits(e, [e EXCEPT !.block["bind"].rows = rows])
          /\ [e EXCEPT !.block["bind"].rows = rows].block["bind"].rows = rows
          /\ [e EXCEPT !.block["bind"].rows = rows].cell = e.cell
      BY <2>1, FirstRowOK
    <3> QED BY <3>1, Zenon
  <2>2. CASE e.block["bind"].rows # <<>>
    <3>1. rows = e.block["bind"].rows
      BY <1>1, <2>2, Zenon
    <3>2. [e EXCEPT !.block["bind"].rows = rows] = e
      <4>1. e.block \in [Block -> [loaded : Seq(Seq(Name)), rows : Seq(Seq(Name))]]
        BY <1>0 DEF Editor, BlockRows
      <4>2. [e.block["bind"] EXCEPT !.rows = rows] = e.block["bind"]
        BY <3>1, <4>1, CellsOfBlocks
      <4>3. [e.block EXCEPT !["bind"].rows = rows] = e.block
        BY <4>1, <4>2
      <4> QED BY <1>0, <4>3 DEF Editor
    <3> QED BY <3>1, <3>2, EditsNothing
  <2> QED BY <2>1, <2>2
<1>3. EditorOK(y)
  BY <1>2 DEF Edits
<1>4. Edits(y, FocusRow(y, "bind", i, e.cell, col))
  <2>1. PICK b \in Block : b = "bind" /\ b \notin Structured
    BY CellsOfBlocks
  <2>2. i \in 1..Len(y.block[b].rows)
    <3>1. y.block[b].rows = rows
      BY <1>2, <2>1, Zenon
    <3> QED BY <1>1, <3>1, Zenon
  <2>3. col \in 0..Size(y.block[b].rows[i][IF b = "bind" THEN Text ELSE e.cell])
    <3>1. y.block[b].rows = rows
      BY <1>2, <2>1, Zenon
    <3>2. PICK c : c = IF b = "bind" THEN Text ELSE e.cell
      OBVIOUS
    <3>3. c = Text
      BY <2>1, <3>2, Zenon
    <3> QED BY <1>1, <3>1, <3>2, <3>3, Zenon
  <2>4. Edits(y, FocusRow(y, b, i, e.cell, col))
    BY <1>0, <1>3, <2>1, <2>2, <2>3, FocusRowOK
  <2> QED BY <2>1, <2>4
<1>5. ClickLine(e, i, col) = FocusRow(y, "bind", i, e.cell, col)
  <2>1. ClickLine(e, i, col) = [FocusRow(e, "bind", i, e.cell, col) EXCEPT !.block["bind"].rows = rows]
    BY <1>1, Zenon DEF ClickLine
  <2>2. [FocusRow(e, "bind", i, e.cell, col) EXCEPT !.block["bind"].rows = rows]
          = FocusRow(y, "bind", i, e.cell, col)
    BY <1>0, <1>2, ZenonT(60) DEF FocusRow, ClearFocus, Editor
  <2> QED BY <2>1, <2>2, Zenon
<1> QED
  BY <1>2, <1>4, <1>5 DEF Edits, SameLoaded

LEMMA AppendedRow ==
    ASSUME NEW X, NEW rows \in Seq(X), NEW row \in X
    PROVE  /\ Append(rows, row) \in Seq(X) /\ Len(Append(rows, row)) = Len(rows) + 1
           /\ Append(rows, row)[Len(rows) + 1] = row
           /\ \A k \in 1..Len(rows) : Append(rows, row)[k] = rows[k]
BY AppendProperties

LEMMA AddRowOK ==
    ASSUME NEW e, EditorOK(e), NEW b \in Structured
    PROVE  Edits(e, AddRow(e, b))
<1>0. e \in Editor /\ e.slip \in Slips
  BY DEF EditorOK, Editor
<1>1. PICK rows \in Seq(Row(b)) :
        /\ rows = Append(e.block[b].rows, DefaultRow(b))
        /\ Len(rows) \in Nat \ {0} /\ Len(rows) \in 1..Len(rows)
  <2>1. PICK old \in Seq(Row(b)) : old = e.block[b].rows
    BY <1>0, CellsOfBlocks, RowsOfBlock
  <2>2. PICK row \in Row(b) : row = DefaultRow(b)
    BY DefaultIsRow
  <2>3. Append(old, row) \in Seq(Row(b)) /\ Len(Append(old, row)) = Len(old) + 1
    BY AppendedRow
  <2>4. PICK new \in Seq(Row(b)) : new = Append(old, row) /\ Len(new) = Len(old) + 1
    BY <2>3, Zenon
  <2>5. Len(old) \in Nat
    BY LenProperties
  <2>6. Len(new) \in Nat \ {0} /\ Len(new) \in 1..Len(new)
    BY <2>4, <2>5
  <2> QED BY <2>1, <2>2, <2>4, <2>6, Zenon
<1>2. PICK slip \in Slips : /\ slip = IF e.onField = None THEN None ELSE e.slip
                            /\ slip = None => e.onField = None \/ e.slip = None
  BY <1>0 DEF Slips
<1>3. PICK d : d = [e EXCEPT !.block[b].rows = rows]
  OBVIOUS
<1>4. /\ d \in Editor /\ SameLoaded(e, d) /\ d.field = e.field
      /\ d.block[b].rows = rows
      /\ d.onField = e.onField /\ d.fieldCaret = e.fieldCaret
  <2>1. LET y == [e EXCEPT !.block[b].rows = rows]
        IN  /\ y \in Editor /\ SameLoaded(e, y) /\ y.field = e.field
            /\ y.block[b].rows = rows
            /\ \A c \in Block \ {b} : y.block[c] = e.block[c]
            /\ y.onField = e.onField /\ y.onBlock = e.onBlock /\ y.fieldCaret = e.fieldCaret
            /\ y.row = e.row /\ y.col = e.col /\ y.cell = e.cell /\ y.slip = e.slip
            /\ y.fault = e.fault
    BY <1>0, CellsOfBlocks, RowsChange
  <2> QED BY <1>3, <2>1
<1>5. PICK x : x = AddRow(e, b)
  OBVIOUS
<1>14. PICK v \in BOOLEAN : v = (e.unchecked /\ b # "windowrule")
  OBVIOUS
<1>6. x = [d EXCEPT !.unchecked = v, !.onBlock = b, !.row = Len(rows), !.cell = Class, !.col = 0, !.slip = slip]
  <2>1. x = [e EXCEPT !.block[b].rows = rows, !.unchecked = v, !.onBlock = b,
                      !.row = Len(rows), !.cell = Class, !.col = 0, !.slip = slip]
    BY <1>0, <1>1, <1>2, <1>5, <1>14 DEF AddRow, Editor
  <2> QED BY <1>0, <1>3, <2>1 DEF Editor
<1>7. x \in Editor
  BY <1>1, <1>4, <1>6, DefaultIsRow, CellsOfBlocks DEF Editor
<1>8. /\ x.field = d.field /\ x.block = d.block /\ x.onField = d.onField /\ x.fieldCaret = d.fieldCaret
      /\ x.onBlock = b /\ x.row = Len(rows) /\ x.cell = Class /\ x.col = 0 /\ x.slip = slip
  BY <1>4, <1>6 DEF Editor
<1>9. InCell(x)
  <2>1. 0 \in 0..Size(rows[Len(rows)][Class])
    BY Sizes
  <2> QED BY <1>1, <1>4, <1>8, <2>1, DefaultIsRow DEF InCell
<1>10. InLine(x)
  BY <1>8, CellsOfBlocks DEF InLine
<1>11. x.slip = None => InField(x)
  BY <1>2, <1>4, <1>8 DEF EditorOK, InField
<1>12. EditorOK(x)
  BY <1>4, <1>7, <1>8, <1>9, <1>10, <1>11 DEF EditorOK
<1>13. SameLoaded(e, x)
  BY <1>4, <1>8 DEF SameLoaded
<1> QED
  BY <1>5, <1>12, <1>13 DEF Edits

LEMMA RemoveRowOK ==
    ASSUME NEW e, EditorOK(e), NEW b \in Structured, NEW i \in 1..Len(e.block[b].rows)
    PROVE  Edits(e, RemoveRow(e, b, i))
<1>0. e \in Editor /\ e.row \in Nat \ {0}
  BY DEF EditorOK, Editor
<1>1. PICK old \in Seq(Row(b)) : old = e.block[b].rows /\ Len(old) \in Nat
  BY <1>0, CellsOfBlocks, RowsOfBlock
<1>2. i \in 1..Len(old)
  BY <1>1
<1>3. PICK rows \in Seq(Row(b)) :
        /\ rows = Without(old, i) /\ Len(rows) = Len(old) - 1
        /\ \A k \in 1..(i - 1) : rows[k] = old[k]
        /\ \A k \in i..(Len(old) - 1) : rows[k] = old[k + 1]
  <2>1. /\ Without(old, i) \in Seq(Row(b)) /\ Len(Without(old, i)) = Len(old) - 1
        /\ \A k \in 1..(i - 1) : Without(old, i)[k] = old[k]
        /\ \A k \in i..(Len(old) - 1) : Without(old, i)[k] = old[k + 1]
    BY <1>2, WithoutRows
  <2> QED BY <2>1, Zenon
<1>12. PICK v \in BOOLEAN : v = (e.unchecked /\ b # "windowrule")
  OBVIOUS
<1>13. PICK d : d = [e EXCEPT !.block[b].rows = rows]
  OBVIOUS
<1>4. PICK gone : gone = [d EXCEPT !.unchecked = v]
  OBVIOUS
<1>5. /\ gone \in Editor /\ SameLoaded(e, gone) /\ gone.field = e.field
      /\ gone.block[b].rows = rows
      /\ \A c \in Block \ {b} : gone.block[c] = e.block[c]
      /\ gone.onField = e.onField /\ gone.onBlock = e.onBlock /\ gone.fieldCaret = e.fieldCaret
      /\ gone.row = e.row /\ gone.col = e.col /\ gone.cell = e.cell /\ gone.slip = e.slip
  <2>1. b \in Block
    BY CellsOfBlocks
  <2>2. Rewrites(e, b, rows, d)
    BY <1>0, <1>13, <2>1, RowsChanged
  <2>3. gone \in Editor
    BY <1>4, <2>2 DEF Rewrites, Editor
  <2>4. /\ gone.field = d.field /\ gone.block = d.block
        /\ gone.onField = d.onField /\ gone.onBlock = d.onBlock /\ gone.fieldCaret = d.fieldCaret
        /\ gone.row = d.row /\ gone.col = d.col /\ gone.cell = d.cell /\ gone.slip = d.slip
    BY <1>4, <2>2 DEF Rewrites, Editor
  <2> QED BY <2>2, <2>3, <2>4 DEF Rewrites, SameLoaded
<1>6. PICK x : x = RemoveRow(e, b, i)
  OBVIOUS
<1>7. [e EXCEPT !.block[b].rows = Without(@, i), !.unchecked = @ /\ b # "windowrule"] = gone
  <2>1. [e EXCEPT !.block[b].rows = Without(@, i), !.unchecked = @ /\ b # "windowrule"]
          = [e EXCEPT !.block[b].rows = rows, !.unchecked = v]
    BY <1>0, <1>1, <1>3, <1>12 DEF Editor
  <2> QED BY <1>0, <1>4, <1>13, <2>1 DEF Editor
<1>8. e.slip = None => InField(gone) /\ InLine(gone)
  <2>1. e.slip = None => InField(gone)
    BY <1>5 DEF EditorOK, InField
  <2>2. gone.block["bind"] = e.block["bind"]
    BY <1>5, CellsOfBlocks
  <2>3. e.slip = None => InLine(gone)
    BY <1>5, <2>2 DEF EditorOK, InLine
  <2> QED BY <2>1, <2>3
<1>9. CASE e.onBlock = b /\ e.row = i
  <2>4. ~ (e.row > i)
    BY <1>0, <1>9
  <2>1. x = ClearFocus(gone)
    BY <1>6, <1>7, <1>9, <2>4, Zenon DEF RemoveRow
  <2>2. Edits(gone, x)
    BY <1>5, <2>1, ClearFocusOK
  <2>3. Edits(e, x)
    BY <1>5, <2>2 DEF Edits, SameLoaded
  <2> QED BY <1>6, <2>3
<1>10. CASE e.onBlock = b /\ e.row > i
  <2>0. ~ (e.row = i)
    BY <1>0, <1>2, <1>10
  <2>1. x = [gone EXCEPT !.row = @ - 1]
    BY <1>6, <1>7, <1>10, <2>0, Zenon DEF RemoveRow
  <2>2. e.row - 1 \in Nat \ {0}
    BY <1>0, <1>1, <1>2, <1>10
  <2>3. x = [gone EXCEPT !.row = e.row - 1]
    BY <1>5, <2>1
  <2>4. x \in Editor
    BY <1>5, <2>2, <2>3 DEF Editor
  <2>5. /\ x.field = gone.field /\ x.block = gone.block /\ x.onField = e.onField
        /\ x.onBlock = b /\ x.fieldCaret = e.fieldCaret /\ x.row = e.row - 1
        /\ x.col = e.col /\ x.cell = e.cell /\ x.slip = e.slip
    BY <1>5, <1>10, <2>3 DEF Editor
  <2>6. e.slip = None => InField(x)
    BY <1>5, <1>8, <2>5 DEF InField
  <2>7. InLine(x)
    BY <2>5, CellsOfBlocks DEF InLine
  <2>8. ASSUME e.slip = None PROVE InCell(x)
    <3>1. /\ e.row \in 1..Len(old) /\ e.col \in 0..Size(old[e.row][e.cell])
          /\ e.cell = Workspace => HasWorkspace(b, old[e.row])
      BY <1>1, <1>10, <2>8 DEF EditorOK, InCell
    <3>2. /\ e.row - 1 \in i..(Len(old) - 1) /\ (e.row - 1) + 1 = e.row
          /\ e.row - 1 \in 1..(Len(old) - 1)
      <4>1. PICK n \in Nat : n = Len(old)
        BY <1>1
      <4>2. PICK r \in 1..n : r = e.row
        BY <3>1, <4>1
      <4>3. i \in 1..n /\ r > i
        BY <1>2, <1>10, <4>1, <4>2
      <4>4. r - 1 \in i..(n - 1) /\ (r - 1) + 1 = r /\ r - 1 \in 1..(n - 1)
        BY <4>2, <4>3
      <4> QED BY <4>1, <4>2, <4>4, Zenon
    <3>3. rows[e.row - 1] = old[e.row]
      <4>1. rows[e.row - 1] = old[(e.row - 1) + 1]
        BY <1>3, <3>2
      <4> QED BY <3>2, <4>1, Zenon
    <3>4. e.row - 1 \in 1..Len(rows)
      BY <1>3, <3>2, Zenon
    <3> QED BY <1>5, <2>5, <3>1, <3>3, <3>4 DEF InCell
  <2>9. EditorOK(x)
    BY <1>5, <2>4, <2>5, <2>6, <2>7, <2>8 DEF EditorOK
  <2>10. SameLoaded(e, x)
    BY <1>5, <2>5 DEF SameLoaded
  <2> QED BY <1>6, <2>9, <2>10 DEF Edits
<1>11. CASE ~ (e.onBlock = b /\ e.row = i) /\ ~ (e.onBlock = b /\ e.row > i)
  <2>1. x = gone
    BY <1>6, <1>7, <1>11, Zenon DEF RemoveRow
  <2>8. ASSUME e.slip = None, e.onBlock = b PROVE InCell(gone)
    <3>1. /\ e.row \in 1..Len(old) /\ e.col \in 0..Size(old[e.row][e.cell])
          /\ e.cell = Workspace => HasWorkspace(b, old[e.row])
      BY <1>1, <2>8 DEF EditorOK, InCell
    <3>2. e.row \in 1..(i - 1) /\ e.row \in 1..(Len(old) - 1)
      <4>1. PICK n \in Nat : n = Len(old)
        BY <1>1
      <4>2. PICK r \in 1..n : r = e.row
        BY <3>1, <4>1
      <4>3. i \in 1..n /\ ~ (r > i) /\ r # i
        BY <1>2, <1>11, <2>8, <4>1, <4>2
      <4>4. r \in 1..(i - 1) /\ r \in 1..(n - 1)
        BY <4>2, <4>3
      <4> QED BY <4>1, <4>2, <4>4, Zenon
    <3>3. rows[e.row] = old[e.row]
      BY <1>3, <3>2
    <3>4. e.row \in 1..Len(rows)
      BY <1>3, <3>2, Zenon
    <3> QED BY <1>5, <2>8, <3>1, <3>3, <3>4 DEF InCell
  <2>9. ASSUME e.slip = None, e.onBlock \in Structured \ {b} PROVE InCell(gone)
    <3>1. gone.block[e.onBlock] = e.block[e.onBlock]
      BY <1>5, <2>9, CellsOfBlocks
    <3> QED BY <1>5, <2>9, <3>1 DEF EditorOK, InCell
  <2>2. e.slip = None => InCell(gone)
    BY <1>5, <2>8, <2>9 DEF InCell
  <2>3. EditorOK(gone)
    BY <1>5, <1>8, <2>2 DEF EditorOK
  <2> QED BY <1>5, <1>6, <2>1, <2>3 DEF Edits
<1> QED
  BY <1>9, <1>10, <1>11

LEMMA CycleActionOK ==
    ASSUME NEW e, EditorOK(e), NEW i \in 1..Len(e.block["windowrule"].rows)
    PROVE  Edits(e, CycleAction(e, i))
<1>0. e \in Editor /\ e.slip \in Slips /\ e.cell \in {Class, Workspace}
  BY DEF EditorOK, Editor
<1>1. PICK old \in Seq(Row("windowrule")) : old = e.block["windowrule"].rows /\ Len(old) \in Nat
  BY <1>0, CellsOfBlocks, RowsOfBlock
<1>2. PICK row \in [1..3 -> Name] : row = old[i] /\ i \in 1..Len(old)
  <2>1. i \in 1..Len(old)
    BY <1>1
  <2> QED BY <2>1, CellsOfBlocks, ElementOfSeq
<1>3. PICK next \in Row("windowrule") :
        /\ next = IF row[1] = "workspace" THEN <<"tile", row[Class], "">> ELSE [row EXCEPT ![1] = "workspace"]
        /\ next[Class] = row[Class]
  <2>1. CASE row[1] = "workspace"
    <3>1. PICK a \in Name, b \in Name, c \in Name : a = "tile" /\ b = row[Class] /\ c = ""
      <4>1. row[Class] \in Name
        BY DEF Class
      <4> QED BY <4>1, LiteralsAreNames, Zenon
    <3>2. <<a, b, c>> \in [1..3 -> Name] /\ <<a, b, c>>[Class] = b
      BY DEF Class
    <3> QED BY <2>1, <3>1, <3>2, CellsOfBlocks, Zenon
  <2>2. CASE row[1] # "workspace"
    <3>1. PICK a \in Name : a = "workspace"
      BY LiteralsAreNames, Zenon
    <3>2. [row EXCEPT ![1] = a] \in [1..3 -> Name] /\ [row EXCEPT ![1] = a][Class] = row[Class]
      BY DEF Class
    <3> QED BY <2>2, <3>1, <3>2, CellsOfBlocks, Zenon
  <2> QED BY <2>1, <2>2
<1>4. PICK rows \in Seq(Row("windowrule")) :
        /\ rows = [old EXCEPT ![i] = next] /\ Len(rows) = Len(old) /\ rows[i] = next
        /\ \A k \in 1..Len(old) \ {i} : rows[k] = old[k]
  <2>1. [old EXCEPT ![i] = next] \in Seq(Row("windowrule"))
    BY <1>2, ExceptSeq
  <2>2. Len([old EXCEPT ![i] = next]) = Len(old)
    BY <1>2, ExceptSeq
  <2>3. [old EXCEPT ![i] = next][i] = next
    BY <1>2, ExceptSeq
  <2>4. \A k \in 1..Len(old) \ {i} : [old EXCEPT ![i] = next][k] = old[k]
    BY <1>2, ExceptSeq
  <2> QED BY <2>1, <2>2, <2>3, <2>4, Zenon
<1>5. PICK slip \in Slips :
        /\ slip = IF e.onBlock = "windowrule" /\ e.row = i /\ e.cell = Workspace /\ row[1] = "workspace"
                  THEN "cycle" ELSE e.slip
        /\ slip = None => /\ e.slip = None
                          /\ ~ (e.onBlock = "windowrule" /\ e.row = i /\ e.cell = Workspace /\ row[1] = "workspace")
  BY <1>0 DEF Slips, None
<1>6. PICK d : d = [e EXCEPT !.block["windowrule"].rows = rows]
  OBVIOUS
<1>7. Rewrites(e, "windowrule", rows, d)
  BY <1>0, <1>6, CellsOfBlocks, RowsChanged
<1>8. PICK x : x = CycleAction(e, i)
  OBVIOUS
<1>9. x = [d EXCEPT !.unchecked = FALSE, !.slip = slip]
  <2>1. x = [e EXCEPT !.block["windowrule"].rows[i] = next, !.unchecked = FALSE, !.slip = slip]
    BY <1>0, <1>1, <1>2, <1>3, <1>5, <1>8 DEF CycleAction
  <2>2. [e EXCEPT !.block["windowrule"].rows[i] = next, !.unchecked = FALSE, !.slip = slip]
          = [e EXCEPT !.block["windowrule"].rows = rows, !.unchecked = FALSE, !.slip = slip]
    BY <1>1, <1>4
  <2> QED BY <1>0, <1>6, <2>1, <2>2 DEF Editor
<1>10. d \in Editor
  BY <1>7 DEF Rewrites
<1>11. x \in Editor
  BY <1>9, <1>10 DEF Editor
<1>12. /\ x.field = d.field /\ x.block = d.block /\ x.onField = d.onField /\ x.onBlock = d.onBlock
       /\ x.fieldCaret = d.fieldCaret /\ x.row = d.row /\ x.col = d.col /\ x.cell = d.cell
       /\ x.slip = slip
  BY <1>9, <1>10 DEF Editor
<1>13. x.slip = None => InField(x)
  BY <1>5, <1>7, <1>12 DEF Rewrites, EditorOK, InField
<1>14. x.slip = None => InLine(x)
  <2>1. d.block["bind"] = e.block["bind"]
    BY <1>7, CellsOfBlocks DEF Rewrites
  <2> QED BY <1>5, <1>7, <1>12, <2>1 DEF Rewrites, EditorOK, InLine
<1>15. ASSUME x.slip = None, x.onBlock = "windowrule" PROVE InCell(x)
  <2>1. e.slip = None /\ e.onBlock = "windowrule"
    BY <1>5, <1>7, <1>12, <1>15 DEF Rewrites
  <2>2. /\ e.row \in 1..Len(old) /\ e.col \in 0..Size(old[e.row][e.cell])
        /\ e.cell = Workspace => HasWorkspace("windowrule", old[e.row])
    BY <1>1, <2>1, CellsOfBlocks DEF EditorOK, InCell
  <2>3. CASE e.row # i
    <3>1. rows[e.row] = old[e.row] /\ e.row \in 1..Len(rows)
      BY <1>4, <2>2, <2>3
    <3> QED BY <1>7, <1>12, <1>15, <2>2, <3>1 DEF Rewrites, InCell
  <2>4. CASE e.row = i
    <3>1. e.cell # Workspace
      BY <1>2, <1>5, <1>12, <1>15, <2>1, <2>2, <2>4 DEF HasWorkspace
    <3>2. e.cell = Class
      BY <1>0, <3>1
    <3>3. rows[e.row][e.cell] = old[e.row][e.cell] /\ e.row \in 1..Len(rows)
      BY <1>2, <1>3, <1>4, <2>2, <2>4, <3>2
    <3> QED BY <1>7, <1>12, <1>15, <2>2, <3>1, <3>3 DEF Rewrites, InCell
  <2> QED BY <2>3, <2>4
<1>16. x.slip = None => InCell(x)
  <2>1. ASSUME x.slip = None, x.onBlock \in Structured \ {"windowrule"} PROVE InCell(x)
    <3>1. x.block[x.onBlock] = e.block[e.onBlock] /\ x.onBlock = e.onBlock
      BY <1>7, <1>12, <2>1, CellsOfBlocks DEF Rewrites
    <3>2. e.slip = None /\ x.row = e.row /\ x.col = e.col /\ x.cell = e.cell
      BY <1>5, <1>7, <1>12, <2>1 DEF Rewrites
    <3> QED BY <2>1, <3>1, <3>2 DEF EditorOK, InCell
  <2> QED BY <1>15, <2>1 DEF InCell
<1>17. EditorOK(x)
  BY <1>7, <1>11, <1>12, <1>13, <1>14, <1>16 DEF Rewrites, EditorOK
<1>18. SameLoaded(e, x)
  BY <1>7, <1>12 DEF Rewrites, SameLoaded
<1> QED
  BY <1>8, <1>17, <1>18 DEF Edits

LEMMA ResetVisibleOK ==
    ASSUME NEW e, EditorOK(e), NEW default, \A f \in Field : default[f] \in Name
    PROVE  Edits(e, ResetVisible(e, default))
<1>0. e \in Editor /\ e.slip \in Slips
  BY DEF EditorOK, Editor
<1> DEFINE fields == {f \in DOMAIN e.field : Shows(VisibleFields(e), f)}
           blocks == {b \in Block : Shows(VisibleBlocks(e), b)}
           field == [f \in DOMAIN e.field |->
                       IF f \in fields THEN [e.field[f] EXCEPT !.now = default[f]] ELSE e.field[f]]
           block == [b \in Block |->
                       IF b \in blocks THEN [e.block[b] EXCEPT !.rows = <<>>] ELSE e.block[b]]
           slip == IF e.onField \in fields \/ e.onBlock \in blocks THEN "reset" ELSE e.slip
<1>1. PICK x : x = ResetVisible(e, default)
  OBVIOUS
<1>14. PICK v \in BOOLEAN : v = (e.unchecked /\ "windowrule" \notin blocks)
  OBVIOUS
<1>2. x = [e EXCEPT !.field = field, !.block = block, !.unchecked = v, !.slip = slip]
  BY <1>0, <1>1, <1>14 DEF ResetVisible, Editor
<1>3. fields \subseteq DOMAIN e.field /\ blocks \subseteq Block
  OBVIOUS
<1> HIDE DEF fields, blocks
<1>4. /\ field \in FieldTexts /\ DOMAIN field = DOMAIN e.field
      /\ \A f \in DOMAIN e.field : field[f].loaded = e.field[f].loaded
      /\ \A f \in DOMAIN e.field \ fields : field[f] = e.field[f]
  <2>1. PICK fs \in {Built_, Field} : e.field \in [fs -> [loaded : Name, now : Name]]
    BY <1>0 DEF Editor, FieldTexts
  <2>2. fs \subseteq Field
    BY DEF Built_, Field
  <2>3. \A f \in fs : /\ [e.field[f] EXCEPT !.now = default[f]] \in [loaded : Name, now : Name]
                      /\ [e.field[f] EXCEPT !.now = default[f]].loaded = e.field[f].loaded
    BY <2>1, <2>2
  <2>4. field \in [fs -> [loaded : Name, now : Name]]
    BY <2>1, <2>3
  <2> QED BY <2>1, <2>3, <2>4 DEF FieldTexts
<1>5. /\ block \in BlockRows
      /\ \A b \in Block : block[b].loaded = e.block[b].loaded
      /\ \A b \in Block \ blocks : block[b] = e.block[b]
  <2>1. /\ e.block \in [Block -> [loaded : Seq(Seq(Name)), rows : Seq(Seq(Name))]]
        /\ \A b \in Block : e.block[b].loaded \in Seq(Row(b)) /\ e.block[b].rows \in Seq(Row(b))
    BY <1>0 DEF Editor, BlockRows
  <2>2. <<>> \in Seq(Seq(Name)) /\ \A b \in Block : <<>> \in Seq(Row(b))
    OBVIOUS
  <2>3. \A b \in Block :
          /\ [e.block[b] EXCEPT !.rows = <<>>] \in [loaded : Seq(Seq(Name)), rows : Seq(Seq(Name))]
          /\ [e.block[b] EXCEPT !.rows = <<>>].loaded = e.block[b].loaded
          /\ [e.block[b] EXCEPT !.rows = <<>>].rows = <<>>
    BY <2>1, <2>2
  <2>4. \A b \in Block :
          /\ block[b] \in [loaded : Seq(Seq(Name)), rows : Seq(Seq(Name))]
          /\ block[b].loaded = e.block[b].loaded
          /\ block[b].rows \in Seq(Row(b))
    BY <2>1, <2>2, <2>3
  <2>5. block \in [Block -> [loaded : Seq(Seq(Name)), rows : Seq(Seq(Name))]]
    BY <2>4
  <2>6. \A b \in Block : block[b].loaded \in Seq(Row(b)) /\ block[b].rows \in Seq(Row(b))
    BY <2>1, <2>4
  <2>7. block \in BlockRows
    BY <2>5, <2>6 DEF BlockRows
  <2> QED BY <2>4, <2>7
<1>6. /\ slip \in Slips
      /\ slip = None => e.slip = None /\ e.onField \notin fields /\ e.onBlock \notin blocks
  <2>1. "reset" \in Slips /\ "reset" # None
    BY DEF Slips, None
  <2> QED BY <1>0, <2>1
<1> HIDE DEF field, block, slip
<1>7. x \in Editor
  BY <1>0, <1>2, <1>4, <1>5, <1>6 DEF Editor
<1>8. /\ x.field = field /\ x.block = block /\ x.slip = slip /\ x.onField = e.onField
      /\ x.onBlock = e.onBlock /\ x.fieldCaret = e.fieldCaret /\ x.row = e.row /\ x.col = e.col
      /\ x.cell = e.cell
  BY <1>0, <1>2 DEF Editor
<1>9. x.slip = None => InField(x)
  BY <1>4, <1>6, <1>8 DEF EditorOK, InField
<1>10. x.slip = None => InLine(x)
  <2>1. ASSUME x.slip = None, x.onBlock = "bind" PROVE x.block["bind"] = e.block["bind"]
    BY <1>5, <1>6, <1>8, <2>1, CellsOfBlocks
  <2> QED BY <1>6, <1>8, <2>1 DEF EditorOK, InLine
<1>11. x.slip = None => InCell(x)
  <2>1. ASSUME x.slip = None, x.onBlock \in Structured PROVE x.block[x.onBlock] = e.block[e.onBlock]
    BY <1>5, <1>6, <1>8, <2>1, CellsOfBlocks
  <2> QED BY <1>6, <1>8, <2>1 DEF EditorOK, InCell
<1>12. EditorOK(x)
  BY <1>4, <1>7, <1>8, <1>9, <1>10, <1>11 DEF EditorOK
<1>13. SameLoaded(e, x)
  BY <1>4, <1>5, <1>8 DEF SameLoaded
<1> QED
  BY <1>1, <1>12, <1>13 DEF Edits

(* --------------------------- what the file says -------------------------- *)

LEMMA FallbackIsText ==
    ASSUME NEW f \in Field PROVE Fallback(f) \in [1..1 -> Name]
<1>1. f \notin Structured /\ Cells(f) = 1
  <2>1. f \notin Structured
    BY DEF Field, Structured
  <2> QED BY <2>1, Zenon DEF Cells
<1>2. CASE Shows(Schema, f)
  <2>1. PICK i \in DOMAIN Schema : Schema[i] = f
    BY <1>2 DEF Shows
  <2>2. DOMAIN Schema = 1..Len(Schema)
    BY SchemaIsScalar, LenProperties
  <2>3. Default[Schema[i]] \in [1..Cells(Schema[i]) -> Name]
    BY <2>2, SchemaDefaults
  <2> QED BY <1>1, <1>2, <2>1, <2>3, Zenon DEF Fallback
<1>3. CASE ~Shows(Schema, f)
  <2>1. <<"">> \in [1..1 -> Name]
    BY CellsMakeRow, LiteralsAreNames, Zenon
  <2> QED BY <1>3, <2>1, Zenon DEF Fallback
<1> QED
  BY <1>2, <1>3

LEMMA ValueOfLine ==
    ASSUME NEW l \in ConfLine, l.form # "comment"
    PROVE  l.val \in [1..Cells(l.key) -> Name]
<1>1. l.val \in Seq(Name) /\ Len(l.val) = Cells(l.key)
  BY DEF ConfLine
<1>2. l.val \in [1..Len(l.val) -> Name]
  BY <1>1, LenProperties, ElementOfSeq
<1> QED
  BY <1>1, <1>2

LEMMA ReadsText ==
    ASSUME NEW ls \in Seq(ConfLine), NEW f \in Field
    PROVE  Reads(ls, f) \in Name
<1>1. Cells(f) = 1
  <2>1. f \notin Structured
    BY DEF Field, Structured
  <2> QED BY <2>1, Zenon DEF Cells
<1>2. GetString(ls, f, Fallback(f)) \in [1..1 -> Name]
  <2>1. CASE Contains(ls, f)
    <3>1. LastActive(ls, f) \in Active(ls, f)
      BY <2>1, LastOfAll
    <3>2. PICK i \in DOMAIN ls : i = LastActive(ls, f) /\ ls[i].key = f /\ ls[i].form # "comment"
      BY <3>1 DEF Active
    <3>3. ls[i] \in ConfLine
      BY LenProperties, ElementOfSeq
    <3>4. ls[i].val \in [1..Cells(ls[i].key) -> Name]
      BY <3>2, <3>3, ValueOfLine
    <3> QED BY <1>1, <2>1, <3>2, <3>4, Zenon DEF GetString
  <2>2. CASE ~Contains(ls, f)
    BY <2>2, FallbackIsText, Zenon DEF GetString
  <2> QED BY <2>1, <2>2
<1> QED
  BY <1>2 DEF Reads

LEMMA BlockIsRows ==
    ASSUME NEW ls \in Seq(ConfLine), NEW b \in Block
    PROVE  GetRawBlock(ls, b) \in Seq(Row(b))
<1>1. InBlock(ls, b) \in SUBSET DOMAIN ls
  BY PlacesOfKeys
<1>2. ASSUME NEW i \in InBlock(ls, b) PROVE ls[i].val \in Row(b)
  <2>1. ls[i].key = b /\ ls[i].form = "plain" /\ i \in DOMAIN ls
    BY DEF InBlock
  <2>2. ls[i] \in ConfLine
    BY <2>1, LenProperties, ElementOfSeq
  <2>3. ls[i].form # "comment"
    BY <2>1
  <2>4. ls[i].val \in [1..Cells(ls[i].key) -> Name]
    BY <2>2, <2>3, ValueOfLine
  <2> QED BY <2>1, <2>4 DEF Row
<1>3. Values(ls, InBlock(ls, b)) \in Seq(Row(b))
  BY <1>1, <1>2, ValuesElements
<1> QED
  BY <1>3 DEF GetRawBlock

(* ------------------------ what the window is given ----------------------- *)

\* What counts as loaded, but for the fields of the workspaces.
KeepsLoaded(e, x) ==
    /\ \A f \in Built_ : x.field[f].loaded = e.field[f].loaded
    /\ \A b \in Block : x.block[b].loaded = e.block[b].loaded

LEMMA SameLoadedKeeps ==
    ASSUME NEW e \in Editor, NEW x, SameLoaded(e, x) PROVE KeepsLoaded(e, x)
<1>1. Built_ \subseteq DOMAIN e.field
  BY FieldsOfEditor DEF Built_, Field
<1> QED
  BY <1>1 DEF SameLoaded, KeepsLoaded

LEMMA BuildWorkspaceFieldsOK ==
    ASSUME NEW e, EditorOK(e), Reads(disk.conf.lines, "ws1") \in Name
    PROVE  LET x == BuildWorkspaceFields(e)
           IN  /\ EditorOK(x) /\ KeepsLoaded(e, x)
               /\ "ws1" \in DOMAIN x.field => x.field["ws1"].loaded = Reads(disk.conf.lines, "ws1")
<1>0. e \in Editor
  BY DEF EditorOK
<1>1. PICK word \in Name : word = Reads(disk.conf.lines, "ws1")
  OBVIOUS
<1>2. PICK ws \in SUBSET {"ws1"} : ws = IF e.field["count"].now = "" THEN {} ELSE {"ws1"}
  <2>1. CASE e.field["count"].now = ""
    BY <2>1, Zenon
  <2>2. CASE e.field["count"].now # ""
    BY <2>2, Zenon
  <2> QED BY <2>1, <2>2, Zenon
<1>3. PICK fs \in {Built_, Field} : fs = {"flag", "count"} \cup ws
  BY <1>2 DEF Built_, Field
<1>4. PICK field : field = [f \in fs |-> IF f = "ws1" THEN [loaded |-> word, now |-> word] ELSE e.field[f]]
  OBVIOUS
<1>5. PICK x : x = BuildWorkspaceFields(e)
  OBVIOUS
<1>6. x = [e EXCEPT !.onField = None, !.field = field]
  BY <1>0, <1>1, <1>2, <1>3, <1>4, <1>5, Zenon DEF BuildWorkspaceFields
<1>7. field \in FieldTexts
  <2>1. \A f \in fs \ {"ws1"} : f \in Built_
    BY DEF Built_, Field
  <2>2. \A f \in Built_ : e.field[f] \in [loaded : Name, now : Name]
    <3>1. PICK gs \in {Built_, Field} : e.field \in [gs -> [loaded : Name, now : Name]]
      BY <1>0 DEF Editor, FieldTexts
    <3>2. Built_ \subseteq gs
      BY DEF Built_, Field
    <3> QED BY <3>1, <3>2
  <2>3. [loaded |-> word, now |-> word] \in [loaded : Name, now : Name]
    OBVIOUS
  <2>4. field \in [fs -> [loaded : Name, now : Name]]
    BY <1>4, <2>1, <2>2, <2>3
  <2> QED BY <2>4 DEF FieldTexts
<1>8. x \in Editor
  BY <1>0, <1>6, <1>7 DEF Editor
<1>9. /\ x.field = field /\ x.block = e.block /\ x.onField = None /\ x.onBlock = e.onBlock
      /\ x.row = e.row /\ x.col = e.col /\ x.cell = e.cell /\ x.slip = e.slip
  BY <1>0, <1>6 DEF Editor
<1>10. EditorOK(x)
  BY <1>8, <1>9 DEF EditorOK, InField, InLine, InCell
<1>11. KeepsLoaded(e, x)
  <2>1. \A f \in Built_ : f \in fs /\ f # "ws1"
    BY <1>3 DEF Built_
  <2>2. \A f \in Built_ : field[f] = e.field[f]
    BY <1>4, <2>1
  <2> QED BY <1>9, <2>2 DEF KeepsLoaded
<1>12. "ws1" \in DOMAIN x.field => x.field["ws1"].loaded = word
  BY <1>4, <1>9
<1> QED
  BY <1>1, <1>5, <1>10, <1>11, <1>12

LEMMA BuiltOK ==
    ASSUME NEW ls \in Seq(ConfLine)
    PROVE  /\ EditorOK(Built(ls))
           /\ \A f \in Built_ : Built(ls).field[f].loaded = Reads(ls, f)
           /\ \A b \in Block : Built(ls).block[b].loaded = GetRawBlock(ls, b)
<1>1. PICK x : x = Built(ls)
  OBVIOUS
<1>2. PICK field : field = [f \in {"flag", "count"} |-> [loaded |-> Reads(ls, f), now |-> Reads(ls, f)]]
  OBVIOUS
<1>3. PICK block : block = [b \in Block |-> [loaded |-> GetRawBlock(ls, b), rows |-> GetRawBlock(ls, b)]]
  OBVIOUS
<1>4. x = [field |-> field, block |-> block, category |-> "General", found |-> FALSE,
           inSearch |-> FALSE, onField |-> None, onBlock |-> None,
           fieldCaret |-> 0, row |-> 1, col |-> 0, cell |-> Class, unchecked |-> FALSE, slip |-> None,
           fault |-> None]
  BY <1>1, <1>2, <1>3 DEF Built
<1>5. field \in FieldTexts
  <2>1. \A f \in {"flag", "count"} : f \in Field
    BY DEF Field
  <2>2. \A f \in {"flag", "count"} : Reads(ls, f) \in Name
    BY <2>1, ReadsText
  <2>3. field \in [Built_ -> [loaded : Name, now : Name]]
    BY <1>2, <2>2 DEF Built_
  <2> QED BY <2>3 DEF FieldTexts
<1>6. block \in BlockRows
  <2>1. \A b \in Block : GetRawBlock(ls, b) \in Seq(Row(b)) /\ GetRawBlock(ls, b) \in Seq(Seq(Name))
    BY BlockIsRows, RowsOfNames
  <2>2. block \in [Block -> [loaded : Seq(Seq(Name)), rows : Seq(Seq(Name))]]
    BY <1>3, <2>1
  <2> QED BY <1>3, <2>1, <2>2 DEF BlockRows
<1>7. x \in Editor
  <2>1. /\ "General" \in Category /\ None \in Field \cup {None} /\ None \in Block \cup {None}
        /\ 0 \in Nat /\ 1 \in Nat \ {0} /\ Class \in {Class, Workspace} /\ None \in Slips
    BY DEF Category, Slips
  <2> QED BY <1>4, <1>5, <1>6, <2>1 DEF Editor
<1>8. x.field = field /\ x.block = block /\ x.onField = None /\ x.onBlock = None
  BY <1>4
<1>9. EditorOK(x)
  BY <1>7, <1>8, CellsOfBlocks DEF EditorOK, InField, InLine, InCell
<1>10. \A f \in Built_ : x.field[f].loaded = Reads(ls, f)
  BY <1>2, <1>8 DEF Built_
<1>11. \A b \in Block : x.block[b].loaded = GetRawBlock(ls, b)
  BY <1>3, <1>8
<1> QED
  BY <1>1, <1>9, <1>10, <1>11

(* ------------------------- the writers in turn --------------------------- *)

Stage == {"idle", "ready", "opened", "written", "renamed"}

\* A file of the model: what its lines are does not matter here.
IsFile(f) == f = [lines |-> f.lines, is |-> f.is]

(* ------------------------- the inductive invariant ----------------------- *)

FilesOK ==
    /\ disk = [conf |-> disk.conf, tmp |-> disk.tmp, bak |-> disk.bak]
    /\ IsFile(disk.conf) /\ IsFile(disk.tmp) /\ IsFile(disk.bak)
    /\ at \in [Saver -> Stage]
    /\ pen \in [Saver -> {None, "tmp", "conf", "gone"}]
    /\ spoilt \in BOOLEAN

Busy(s) == at[s] \in {"opened", "written"}

\* One of the two at most uses the temporary file, and it has its stream there
\* exactly while it writes it.
OneWriter ==
    /\ ~(Busy("settings") /\ Busy("kohiko"))
    /\ \A s \in Saver : pen[s] = IF at[s] = "opened" THEN "tmp" ELSE None

\* What is renamed, restored or backed up is whole.
WholeFiles ==
    /\ disk.conf.is = "whole"
    /\ disk.bak = NoFile \/ disk.bak.is = "whole"
    /\ \A s \in Saver :
         /\ at[s] = "opened" => disk.tmp.lines = <<>>
         /\ at[s] = "written" => disk.tmp.is = "whole"

InTurn == FilesOK /\ (~spoilt => OneWriter /\ WholeFiles)

(* ------------------------ what a change does to files -------------------- *)

LEMMA NewFiles ==
    /\ IsFile(Torn) /\ IsFile(NoFile) /\ NoFile.is # "whole" /\ Torn.lines = <<>>
    /\ \A ls : IsFile(Whole(ls)) /\ Whole(ls).is = "whole"
BY DEF IsFile, Torn, NoFile, Whole

LEMMA NewConf ==
    ASSUME FilesOK, NEW file, IsFile(file)
    PROVE  /\ [disk EXCEPT !.conf = file] = [conf |-> file, tmp |-> disk.tmp, bak |-> disk.bak]
           /\ [disk EXCEPT !.tmp = file] = [conf |-> disk.conf, tmp |-> file, bak |-> disk.bak]
           /\ [disk EXCEPT !.bak = file] = [conf |-> disk.conf, tmp |-> disk.tmp, bak |-> file]
BY DEF FilesOK

LEMMA FilledIsFile ==
    ASSUME NEW file, NEW ls, NEW got, IsFile(file)
    PROVE  /\ IsFile(Filled(file, ls, got))
           /\ got = ls /\ file.lines = <<>> => Filled(file, ls, got).is = "whole"
<1>1. IsFile([Torn EXCEPT !.lines = got]) /\ IsFile(Whole(ls)) /\ Whole(ls).is = "whole"
  BY DEF IsFile, Torn, Whole
<1> QED
  BY <1>1 DEF Filled

LEMMA TwoSavers ==
    /\ "settings" \in Saver /\ "kohiko" \in Saver /\ "settings" # "kohiko"
    /\ \A s \in Saver : s = "settings" \/ s = "kohiko"
BY DEF Saver

(* -------------------------- ConfigWriter::Save --------------------------- *)

LEMMA OpenTempInTurn ==
    ASSUME InTurn, NEW s \in Saver, OpenTemp(s) PROVE InTurn'
<1>1. /\ at[s] = "ready" /\ at' = [at EXCEPT ![s] = "opened"]
      /\ pen' = [pen EXCEPT ![s] = "tmp"]
      /\ disk' = [disk EXCEPT !.tmp = Torn]
      /\ spoilt' = (spoilt \/ \E t \in Saver \ {s} : Busy(t))
  BY DEF OpenTemp, Busy
<1>2. FilesOK
  BY DEF InTurn
<1>3. disk' = [conf |-> disk.conf, tmp |-> Torn, bak |-> disk.bak]
  BY <1>1, <1>2, NewConf, NewFiles
<1>4. FilesOK'
  <2>1. at' \in [Saver -> Stage] /\ pen' \in [Saver -> {None, "tmp", "conf", "gone"}]
    BY <1>1, <1>2 DEF FilesOK, Stage
  <2>2. spoilt' \in BOOLEAN
    BY <1>1
  <2>3. /\ disk'.conf = disk.conf /\ disk'.tmp = Torn /\ disk'.bak = disk.bak
    BY <1>3
  <2> QED
    BY <1>2, <1>3, <2>1, <2>2, <2>3, NewFiles DEF FilesOK
<1>5. ASSUME ~spoilt' PROVE OneWriter' /\ WholeFiles'
  <2>1. ~spoilt /\ \A t \in Saver \ {s} : ~Busy(t)
    BY <1>1, <1>5
  <2>2. OneWriter /\ WholeFiles
    BY <2>1 DEF InTurn
  <2>3. /\ at'[s] = "opened" /\ pen'[s] = "tmp"
        /\ \A t \in Saver \ {s} : at'[t] = at[t] /\ pen'[t] = pen[t]
    BY <1>1, <1>2 DEF FilesOK
  <2>4. \A t \in Saver \ {s} : ~Busy(t)'
    BY <2>1, <2>3 DEF Busy
  <2>5. OneWriter'
    BY <2>2, <2>3, <2>4, TwoSavers DEF OneWriter
  <2>6. WholeFiles'
    BY <1>3, <2>2, <2>3, <2>4, NewFiles DEF WholeFiles, Busy
  <2> QED
    BY <2>5, <2>6
<1> QED
  BY <1>4, <1>5 DEF InTurn

LEMMA WriteTempInTurn ==
    ASSUME InTurn, NEW s \in Saver, NEW ls, WriteTemp(s, ls) PROVE InTurn'
<1>1. /\ at[s] = "opened" /\ at' = [at EXCEPT ![s] = "written"]
      /\ pen' = [pen EXCEPT ![s] = None]
  BY DEF WriteTemp
<1>6. PICK got \in Flushed(ls) :
        /\ disk' = CASE pen[s] = "tmp" -> [disk EXCEPT !.tmp = Filled(@, ls, got)]
                     [] pen[s] = "conf" -> [disk EXCEPT !.conf = Filled(@, ls, got)]
                     [] OTHER -> disk
        /\ spoilt' = (spoilt \/ got # ls)
  BY DEF WriteTemp
<1>2. FilesOK
  BY DEF InTurn
<1>3. /\ pen[s] = "tmp" =>
           disk' = [conf |-> disk.conf, tmp |-> Filled(disk.tmp, ls, got), bak |-> disk.bak]
      /\ pen[s] = "conf" =>
           disk' = [conf |-> Filled(disk.conf, ls, got), tmp |-> disk.tmp, bak |-> disk.bak]
      /\ pen[s] \notin {"tmp", "conf"} => disk' = disk
  <2>1. /\ pen[s] = "tmp" => disk' = [disk EXCEPT !.tmp = Filled(disk.tmp, ls, got)]
        /\ pen[s] = "conf" => disk' = [disk EXCEPT !.conf = Filled(disk.conf, ls, got)]
        /\ pen[s] \notin {"tmp", "conf"} => disk' = disk
    BY <1>6
  <2>2. IsFile(Filled(disk.tmp, ls, got)) /\ IsFile(Filled(disk.conf, ls, got))
    BY <1>2, FilledIsFile DEF FilesOK
  <2> QED
    BY <1>2, <2>1, <2>2, NewConf
<1>4. FilesOK'
  <2>1. at' \in [Saver -> Stage] /\ pen' \in [Saver -> {None, "tmp", "conf", "gone"}]
    BY <1>1, <1>2 DEF FilesOK, Stage
  <2>5. spoilt' \in BOOLEAN
    BY <1>6
  <2>2. CASE pen[s] = "tmp"
    BY <1>2, <1>3, <2>1, <2>2, <2>5, FilledIsFile DEF FilesOK
  <2>3. CASE pen[s] = "conf"
    BY <1>2, <1>3, <2>1, <2>3, <2>5, FilledIsFile DEF FilesOK
  <2>4. CASE pen[s] \notin {"tmp", "conf"}
    BY <1>2, <1>3, <2>1, <2>4, <2>5 DEF FilesOK
  <2> QED
    BY <2>2, <2>3, <2>4
<1>5. ASSUME ~spoilt' PROVE OneWriter' /\ WholeFiles'
  <2>1. got = ls /\ OneWriter /\ WholeFiles
    BY <1>5, <1>6 DEF InTurn
  <2>2. /\ at'[s] = "written" /\ pen'[s] = None
        /\ \A t \in Saver \ {s} : at'[t] = at[t] /\ pen'[t] = pen[t]
    BY <1>1, <1>2 DEF FilesOK
  <2>3. \A t \in Saver \ {s} : ~Busy(t) /\ ~Busy(t)'
    BY <1>1, <2>1, <2>2, TwoSavers DEF OneWriter, Busy
  <2>4. disk' = [conf |-> disk.conf, tmp |-> Filled(disk.tmp, ls, got), bak |-> disk.bak]
    BY <1>1, <1>3, <2>1 DEF OneWriter
  <2>5. Filled(disk.tmp, ls, got).is = "whole"
    BY <1>1, <1>2, <2>1, FilledIsFile DEF WholeFiles, FilesOK
  <2>6. OneWriter'
    BY <2>1, <2>2, <2>3, TwoSavers DEF OneWriter
  <2>7. WholeFiles'
    BY <2>1, <2>2, <2>3, <2>4, <2>5 DEF WholeFiles, Busy
  <2> QED
    BY <2>6, <2>7
<1> QED
  BY <1>4, <1>5 DEF InTurn

LEMMA RenameTempInTurn ==
    ASSUME InTurn, NEW s \in Saver, NEW next \in Stage \ {"opened", "written"},
           RenameTemp(s, next)
    PROVE  InTurn'
<1>1. /\ at[s] = "written" /\ at' = [at EXCEPT ![s] = next]
      /\ disk' = [disk EXCEPT !.conf = disk.tmp, !.tmp = NoFile]
      /\ pen' = Moved("tmp", "conf") /\ spoilt' = spoilt
  BY DEF RenameTemp
<1>2. FilesOK
  BY DEF InTurn
<1>3. disk' = [conf |-> disk.tmp, tmp |-> NoFile, bak |-> disk.bak]
  BY <1>1, <1>2 DEF FilesOK
<1>4. FilesOK'
  <2>1. at' \in [Saver -> Stage] /\ pen' \in [Saver -> {None, "tmp", "conf", "gone"}]
    BY <1>1, <1>2 DEF FilesOK, Moved
  <2> QED
    BY <1>1, <1>2, <1>3, <2>1, NewFiles DEF FilesOK
<1>5. ASSUME ~spoilt' PROVE OneWriter' /\ WholeFiles'
  <2>1. OneWriter /\ WholeFiles
    BY <1>1, <1>5 DEF InTurn
  <2>2. \A t \in Saver : at[t] # "opened"
    BY <1>1, <2>1, TwoSavers DEF OneWriter, Busy
  <2>3. \A t \in Saver : pen[t] = None
    BY <2>1, <2>2 DEF OneWriter
  <2>4. \A t \in Saver : pen'[t] = None
    BY <1>1, <2>3 DEF Moved, None
  <2>5. /\ at'[s] = next /\ \A t \in Saver \ {s} : at'[t] = at[t]
    BY <1>1, <1>2 DEF FilesOK
  <2>6. \A t \in Saver : ~Busy(t)' /\ at'[t] # "opened"
    BY <1>1, <2>1, <2>5, TwoSavers DEF OneWriter, Busy
  <2>7. OneWriter'
    BY <2>4, <2>6, TwoSavers DEF OneWriter
  <2>8. WholeFiles'
    BY <1>1, <1>3, <2>1, <2>6 DEF WholeFiles, Busy
  <2> QED
    BY <2>7, <2>8
<1> QED
  BY <1>4, <1>5 DEF InTurn

LEMMA SaveFailsInTurn ==
    ASSUME InTurn, NEW s \in Saver, SaveFails(s) PROVE InTurn'
<1>1. at' = [at EXCEPT ![s] = "idle"] /\ spoilt' = spoilt
  BY DEF SaveFails
<1>2. FilesOK
  BY DEF InTurn
<1>3. CASE at[s] = "ready"
  <2>1. disk' = disk /\ pen' = pen
    BY <1>3 DEF SaveFails
  <2>2. FilesOK'
    BY <1>1, <1>2, <2>1 DEF FilesOK, Stage
  <2>3. ASSUME ~spoilt' PROVE OneWriter' /\ WholeFiles'
    <3>1. OneWriter /\ WholeFiles
      BY <1>1, <2>3 DEF InTurn
    <3>2. at'[s] = "idle" /\ \A t \in Saver \ {s} : at'[t] = at[t]
      BY <1>1, <1>2 DEF FilesOK
    <3> QED
      BY <1>3, <2>1, <3>1, <3>2, TwoSavers DEF OneWriter, WholeFiles, Busy
  <2> QED
    BY <2>2, <2>3 DEF InTurn
<1>4. CASE at[s] # "ready"
  <2>1. /\ disk' = [disk EXCEPT !.tmp = NoFile]
        /\ pen' = [Moved("tmp", "gone") EXCEPT ![s] = None]
        /\ at[s] = "opened" \/ (at[s] = "written" /\ disk.tmp = NoFile)
    BY <1>4 DEF SaveFails
  <2>2. disk' = [conf |-> disk.conf, tmp |-> NoFile, bak |-> disk.bak]
    BY <1>2, <2>1, NewConf, NewFiles
  <2>3. FilesOK'
    <3>1. at' \in [Saver -> Stage]
      BY <1>1, <1>2 DEF FilesOK, Stage
    <3>2. pen' \in [Saver -> {None, "tmp", "conf", "gone"}]
      BY <1>2, <2>1 DEF FilesOK, Moved
    <3> QED
      BY <1>1, <1>2, <2>2, <3>1, <3>2, NewFiles DEF FilesOK
  <2>4. ASSUME ~spoilt' PROVE OneWriter' /\ WholeFiles'
    <3>1. OneWriter /\ WholeFiles
      BY <1>1, <2>4 DEF InTurn
    <3>2. /\ at'[s] = "idle" /\ pen'[s] = None
          /\ \A t \in Saver \ {s} : at'[t] = at[t] /\ pen'[t] = Moved("tmp", "gone")[t]
      BY <1>1, <1>2, <2>1 DEF FilesOK, Moved
    <3>3. \A t \in Saver \ {s} : ~Busy(t) /\ ~Busy(t)'
      BY <2>1, <3>1, <3>2, TwoSavers DEF OneWriter, Busy
    <3>4. \A t \in Saver \ {s} : pen[t] = None /\ pen'[t] = None
      BY <3>1, <3>2, <3>3 DEF OneWriter, Busy, Moved, None
    <3>5. OneWriter'
      BY <3>2, <3>3, <3>4, TwoSavers DEF OneWriter, Busy
    <3>6. WholeFiles'
      BY <2>2, <3>1, <3>2, <3>3 DEF WholeFiles, Busy
    <3> QED
      BY <3>5, <3>6
  <2> QED
    BY <2>3, <2>4 DEF InTurn
<1> QED
  BY <1>3, <1>4

(* ----------------------------- around a save ----------------------------- *)

\* A writer that was not writing, or is killed, leaves the file alone.
LEMMA SetAsideInTurn ==
    ASSUME InTurn, NEW s \in Saver, NEW next \in Stage \ {"opened", "written"},
           disk' = disk, spoilt' = spoilt, at' = [at EXCEPT ![s] = next],
           pen' = [pen EXCEPT ![s] = None]
    PROVE  InTurn'
<1>1. FilesOK
  BY DEF InTurn
<1>2. FilesOK'
  BY <1>1 DEF FilesOK
<1>3. ASSUME ~spoilt' PROVE OneWriter' /\ WholeFiles'
  <2>1. OneWriter /\ WholeFiles
    BY <1>3 DEF InTurn
  <2>2. /\ at'[s] = next /\ pen'[s] = None
        /\ \A t \in Saver \ {s} : at'[t] = at[t] /\ pen'[t] = pen[t]
    BY <1>1 DEF FilesOK
  <2>3. OneWriter'
    BY <2>1, <2>2, TwoSavers DEF OneWriter, Busy
  <2>4. WholeFiles'
    BY <2>1, <2>2 DEF WholeFiles
  <2> QED
    BY <2>3, <2>4
<1> QED
  BY <1>2, <1>3 DEF InTurn

\* As long as the two have not met, a writer that is not writing has no stream.
LEMMA MovesOnInTurn ==
    ASSUME InTurn, NEW s \in Saver, NEW next \in Stage \ {"opened", "written"},
           at[s] # "opened", disk' = disk, spoilt' = spoilt, pen' = pen,
           at' = [at EXCEPT ![s] = next]
    PROVE  InTurn'
<1>1. FilesOK
  BY DEF InTurn
<1>2. FilesOK'
  BY <1>1 DEF FilesOK
<1>3. ASSUME ~spoilt' PROVE OneWriter' /\ WholeFiles'
  <2>1. OneWriter /\ WholeFiles
    BY <1>3 DEF InTurn
  <2>2. at'[s] = next /\ \A t \in Saver \ {s} : at'[t] = at[t]
    BY <1>1 DEF FilesOK
  <2>3. OneWriter'
    BY <2>1, <2>2, TwoSavers DEF OneWriter, Busy
  <2>4. WholeFiles'
    BY <2>1, <2>2 DEF WholeFiles
  <2> QED
    BY <2>3, <2>4
<1> QED
  BY <1>2, <1>3 DEF InTurn

\* kohiko.conf or its backup is replaced by a copy of the other, or changed by
\* an editor that saves it whole.
LEMMA CopyInTurn ==
    ASSUME InTurn, at' = at, pen' = pen, spoilt' = spoilt, NEW conf, NEW bak,
           disk' = [conf |-> conf, tmp |-> disk.tmp, bak |-> bak],
           IsFile(conf), IsFile(bak),
           WholeFiles => conf.is = "whole" /\ (bak = NoFile \/ bak.is = "whole")
    PROVE  InTurn'
<1>1. FilesOK
  BY DEF InTurn
<1>2. FilesOK'
  BY <1>1 DEF FilesOK
<1>3. ASSUME ~spoilt' PROVE OneWriter' /\ WholeFiles'
  <2>1. OneWriter /\ WholeFiles
    BY <1>3 DEF InTurn
  <2>2. OneWriter'
    BY <2>1 DEF OneWriter, Busy
  <2>3. WholeFiles'
    BY <2>1 DEF WholeFiles
  <2> QED
    BY <2>2, <2>3
<1> QED
  BY <1>2, <1>3 DEF InTurn

LEMMA SameFilesInTurn ==
    ASSUME InTurn, UNCHANGED <<disk, at, pen, spoilt>> PROVE InTurn'
BY DEF InTurn, FilesOK, OneWriter, WholeFiles, Busy

LEMMA BacksUp ==
    ASSUME InTurn, disk' \in {disk, [disk EXCEPT !.bak = disk.conf]}, pen' = pen,
           spoilt' = spoilt, at' = at
    PROVE  InTurn'
<1>1. FilesOK
  BY DEF InTurn
<1>2. disk' = [conf |-> disk.conf, tmp |-> disk.tmp, bak |-> disk'.bak]
      /\ disk'.bak \in {disk.bak, disk.conf}
  <2>1. CASE disk' = disk
    BY <1>1, <2>1 DEF FilesOK
  <2>2. CASE disk' = [disk EXCEPT !.bak = disk.conf]
    BY <1>1, <2>2, NewConf DEF FilesOK
  <2> QED
    BY <2>1, <2>2
<1>3. PICK bak : bak = disk'.bak
  OBVIOUS
<1>4. IsFile(bak) /\ IsFile(disk.conf)
  BY <1>1, <1>2, <1>3 DEF FilesOK
<1>5. WholeFiles => disk.conf.is = "whole" /\ (bak = NoFile \/ bak.is = "whole")
  BY <1>2, <1>3 DEF WholeFiles
<1> QED
  BY <1>2, <1>3, <1>4, <1>5, CopyInTurn

LEMMA StartsWhole == Init => InTurn
<1> SUFFICES ASSUME Init PROVE InTurn
  OBVIOUS
<1>1. PICK f \in Files : disk = [conf |-> Whole(f), tmp |-> NoFile, bak |-> NoFile]
  BY DEF Init
<1>2. /\ \A s \in Saver : at[s] = "idle" /\ pen[s] = None
      /\ at \in [Saver -> Stage] /\ pen \in [Saver -> {None, "tmp", "conf", "gone"}]
      /\ spoilt = FALSE
  BY DEF Init, Idle, Stage
<1>3. FilesOK
  BY <1>1, <1>2, NewFiles DEF FilesOK
<1>4. OneWriter /\ WholeFiles
  BY <1>1, <1>2, NewFiles, TwoSavers DEF OneWriter, WholeFiles, Busy
<1> QED
  BY <1>3, <1>4 DEF InTurn

LEMMA SettingsInTurn ==
    ASSUME InTurn, Open \/ KeyPress \/ Click \/ Save \/ SettingsWrites \/ ReloadRunningKohiko
    PROVE  InTurn'
<1>1. CASE Open
  BY <1>1, SameFilesInTurn DEF Open
<1>2. CASE KeyPress \/ Click
  <2>1. PICK e : Gesture(e)
    BY <1>2 DEF KeyPress, Click
  <2> QED
    BY <2>1, SameFilesInTurn DEF Gesture, fileVars
<1>3. CASE Save
  <2>1. /\ at["settings"] = "idle" /\ at' = [at EXCEPT !["settings"] = "ready"]
        /\ disk' = disk /\ pen' = pen /\ spoilt' = spoilt
    BY <1>3 DEF Save, Waiting
  <2> QED
    BY <2>1, TwoSavers, MovesOnInTurn DEF Stage
<1>4. CASE SettingsWrites
  <2>1. "renamed" \in Stage \ {"opened", "written"}
    BY DEF Stage
  <2> QED
    BY <1>4, <2>1, TwoSavers, OpenTempInTurn, WriteTempInTurn, RenameTempInTurn,
       SaveFailsInTurn DEF SettingsWrites
<1>5. CASE ReloadRunningKohiko
  <2>1. /\ at["settings"] = "renamed" /\ at' = [at EXCEPT !["settings"] = "idle"]
        /\ disk' = disk /\ pen' = pen /\ spoilt' = spoilt
    BY <1>5 DEF ReloadRunningKohiko
  <2> QED
    BY <2>1, TwoSavers, MovesOnInTurn DEF Stage
<1> QED
  BY <1>1, <1>2, <1>3, <1>4, <1>5

LEMMA EventsInTurn ==
    ASSUME InTurn, Close \/ EditedByHand \/ RestoreConfig PROVE InTurn'
<1>1. FilesOK
  BY DEF InTurn
<1>2. CASE Close
  <2>1. Left("settings") /\ "idle" \in Stage \ {"opened", "written"}
    BY <1>2 DEF Close, Stage
  <2> QED
    BY <2>1, TwoSavers, SetAsideInTurn DEF Left
<1>3. CASE EditedByHand
  <2>1. PICK ls : disk' = [disk EXCEPT !.conf.lines = ls]
    BY <1>3 DEF EditedByHand
  <2>2. disk' = [conf |-> [lines |-> ls, is |-> disk.conf.is], tmp |-> disk.tmp, bak |-> disk.bak]
    BY <1>1, <2>1 DEF FilesOK, IsFile
  <2>3. IsFile([lines |-> ls, is |-> disk.conf.is]) /\ IsFile(disk.bak)
    BY <1>1 DEF FilesOK, IsFile
  <2>4. at' = at /\ pen' = pen /\ spoilt' = spoilt
    BY <1>3 DEF EditedByHand
  <2>5. WholeFiles => /\ [lines |-> ls, is |-> disk.conf.is].is = "whole"
                      /\ disk.bak = NoFile \/ disk.bak.is = "whole"
    BY DEF WholeFiles
  <2> QED
    BY <2>2, <2>3, <2>4, <2>5, CopyInTurn
<1>4. CASE RestoreConfig
  <2>1. /\ disk.bak # NoFile /\ disk' = [disk EXCEPT !.conf = disk.bak]
        /\ at' = at /\ pen' = pen /\ spoilt' = spoilt
    BY <1>4 DEF RestoreConfig
  <2>2. disk' = [conf |-> disk.bak, tmp |-> disk.tmp, bak |-> disk.bak] /\ IsFile(disk.bak)
    BY <1>1, <2>1, NewConf DEF FilesOK
  <2>3. WholeFiles => disk.bak.is = "whole"
    BY <2>1 DEF WholeFiles
  <2> QED
    BY <2>1, <2>2, <2>3, CopyInTurn
<1> QED
  BY <1>2, <1>3, <1>4

LEMMA KohikoInTurn ==
    ASSUME InTurn, KohikoStarts \/ KohikoWrites \/ KohikoReady \/ KohikoDies
    PROVE  InTurn'
<1>1. FilesOK
  BY DEF InTurn
<1>2. CASE KohikoStarts
  <2>1. at["kohiko"] = "idle" /\ pen' = pen /\ spoilt' = spoilt
    BY <1>2 DEF KohikoStarts
  <2>2. CASE Recover
    BY <2>1, <2>2, BacksUp DEF Recover
  <2>3. CASE Migrate /\ Missing(disk.conf.lines) = {}
    BY <2>1, <2>3, BacksUp DEF Migrate
  <2>4. CASE Migrate /\ Missing(disk.conf.lines) # {}
    <3>1. /\ disk' \in {disk, [disk EXCEPT !.bak = disk.conf]}
          /\ at' = [at EXCEPT !["kohiko"] = "ready"]
      BY <2>4 DEF Migrate
    <3>2. /\ disk'.conf = disk.conf /\ disk'.tmp = disk.tmp
          /\ disk'.bak \in {disk.bak, disk.conf}
          /\ disk' = [conf |-> disk.conf, tmp |-> disk.tmp, bak |-> disk'.bak]
      <4>1. CASE disk' = disk
        BY <1>1, <4>1 DEF FilesOK
      <4>2. CASE disk' = [disk EXCEPT !.bak = disk.conf]
        BY <1>1, <4>2, NewConf DEF FilesOK
      <4> QED
        BY <3>1, <4>1, <4>2
    <3>3. FilesOK'
      BY <1>1, <2>1, <3>1, <3>2 DEF FilesOK, Stage
    <3>4. /\ at'["kohiko"] = "ready"
          /\ \A t \in Saver \ {"kohiko"} : at'[t] = at[t]
      BY <1>1, <3>1, TwoSavers DEF FilesOK
    <3>5. ASSUME ~spoilt' PROVE OneWriter' /\ WholeFiles'
      <4>1. OneWriter /\ WholeFiles
        BY <2>1, <3>5 DEF InTurn
      <4>2. OneWriter'
        BY <2>1, <3>4, <4>1, TwoSavers DEF OneWriter, Busy
      <4>3. WholeFiles'
        BY <3>2, <3>4, <4>1 DEF WholeFiles
      <4> QED
        BY <4>2, <4>3
    <3> QED
      BY <3>3, <3>5 DEF InTurn
  <2> QED
    BY <1>2, <2>2, <2>3, <2>4 DEF KohikoStarts
<1>3. CASE KohikoWrites
  <2>1. "idle" \in Stage \ {"opened", "written"}
    BY DEF Stage
  <2> QED
    BY <1>3, <2>1, TwoSavers, OpenTempInTurn, WriteTempInTurn, RenameTempInTurn,
       SaveFailsInTurn DEF KohikoWrites
<1>4. CASE KohikoReady
  BY <1>4, SameFilesInTurn DEF KohikoReady, fileVars
<1>5. CASE KohikoDies
  <2>1. Left("kohiko") /\ "idle" \in Stage \ {"opened", "written"}
    BY <1>5 DEF KohikoDies, Stage
  <2> QED
    BY <2>1, TwoSavers, SetAsideInTurn DEF Left
<1> QED
  BY <1>2, <1>3, <1>4, <1>5

LEMMA StepsInTurn == InTurn /\ [Next]_vars => InTurn'
<1> SUFFICES ASSUME InTurn, [Next]_vars PROVE InTurn'
  OBVIOUS
<1>1. CASE UNCHANGED vars
  BY <1>1, SameFilesInTurn DEF vars, fileVars
<1> QED
  BY <1>1, SettingsInTurn, EventsInTurn, KohikoInTurn DEF Next

(* ------------------------------ the theorem ------------------------------ *)

\* kohiko.conf is never half-written, through crashes, failed calls, backups
\* and restores, unless Settings and Kohiko are in Save together or the flush
\* of a stream that is closed fails, which nobody notices (ConfigWriter::Save).
THEOREM NeverTorn == Spec => []WholeUnlessSpoilt
<1>1. InTurn => WholeUnlessSpoilt
  BY DEF InTurn, WholeFiles, WholeUnlessSpoilt
<1> QED
  BY <1>1, StartsWhole, StepsInTurn, PTL DEF Spec

(* ------------------------- what Kohiko runs with ------------------------- *)

KohikoOK ==
    kohiko = [at |-> kohiko.at, running |-> kohiko.running, base |-> kohiko.base,
              held |-> kohiko.held, marker |-> kohiko.marker, news |-> kohiko.news]

\* Of the keys a reload reads again, Kohiko runs with what these lines say.
RunsWith(ls) ==
    \A key \in (Scalar \cup Block) \ AtStart : kohiko.running[key] = GetAll(ls, key)

\* Kohiko is in Save only while it migrates, before it has loaded anything;
\* from then on it runs with the file unless news of it are on their way.
RunsTheFile ==
    /\ KohikoOK /\ DOMAIN kohiko.running = Scalar \cup Block
    /\ at["kohiko"] # "idle" => kohiko.at = "migrating"
    /\ (/\ kohiko.at \in {"loaded", "up"} /\ kohiko.news = "none"
        /\ at["settings"] # "renamed" /\ ~spoilt) => RunsWith(disk.conf.lines)

LEMMA InForceReads ==
    \A ls : /\ DOMAIN InForce(ls) = Scalar \cup Block
            /\ \A key \in Scalar \cup Block : InForce(ls)[key] = GetAll(ls, key)
BY DEF InForce

LEMMA StartsRunning == Init => RunsTheFile
<1> SUFFICES ASSUME Init PROVE RunsTheFile
  OBVIOUS
<1>1. PICK f : f = InForce(<<>>)
  OBVIOUS
<1>2. kohiko = [at |-> "off", running |-> f, base |-> <<>>, held |-> <<>>, marker |-> FALSE, news |-> "none"]
  BY <1>1 DEF Init
<1>3. DOMAIN f = Scalar \cup Block
  BY <1>1, InForceReads
<1>4. at["kohiko"] = "idle"
  BY TwoSavers DEF Init, Idle
<1> QED
  BY <1>2, <1>3, <1>4 DEF RunsTheFile, KohikoOK

\* The file a handler leaves as it was is still what Kohiko runs with.
LEMMA SameFileRuns ==
    ASSUME RunsTheFile, kohiko' = kohiko, disk'.conf = disk.conf,
           at'["kohiko"] = at["kohiko"], spoilt' = spoilt,
           at'["settings"] = "renamed" \/ at["settings"] # "renamed"
    PROVE  RunsTheFile'
BY DEF RunsTheFile, KohikoOK, RunsWith

LEMMA SettingsRuns ==
    ASSUME InTurn, RunsTheFile, SettingsWrites \/ Save \/ ReloadRunningKohiko
    PROVE  RunsTheFile'
<1>1. FilesOK
  BY DEF InTurn
<1>2. CASE Save
  <2>1. /\ at["settings"] = "idle" /\ at' = [at EXCEPT !["settings"] = "ready"]
        /\ disk' = disk /\ spoilt' = spoilt /\ kohiko' = kohiko
    BY <1>2 DEF Save, Waiting
  <2>2. at'["kohiko"] = at["kohiko"]
    BY <1>1, <2>1, TwoSavers DEF FilesOK
  <2> QED
    BY <2>1, <2>2, SameFileRuns
<1>3. CASE ReloadRunningKohiko
  <2>1. /\ at["settings"] = "renamed" /\ at' = [at EXCEPT !["settings"] = "idle"]
        /\ disk' = disk /\ spoilt' = spoilt /\ kohiko' = Reloaded(kohiko)
    BY <1>3 DEF ReloadRunningKohiko
  <2>2. at'["kohiko"] = at["kohiko"]
    BY <1>1, <2>1, TwoSavers DEF FilesOK
  <2>3. CASE kohiko.at = "up"
    <3> DEFINE running == [key \in DOMAIN kohiko.running |->
                             IF key \in AtStart THEN kohiko.running[key] ELSE InForce(disk.conf.lines)[key]]
    <3>1. kohiko' = [kohiko EXCEPT !.running = running, !.news = "none"]
      BY <2>1, <2>3 DEF Reloaded, RunsTheFile, KohikoOK
    <3>2. /\ kohiko' = [at |-> kohiko.at, running |-> running, base |-> kohiko.base,
                        held |-> kohiko.held, marker |-> kohiko.marker, news |-> "none"]
      BY <3>1 DEF RunsTheFile, KohikoOK
    <3>3. /\ DOMAIN running = Scalar \cup Block
          /\ \A key \in (Scalar \cup Block) \ AtStart : running[key] = GetAll(disk.conf.lines, key)
      BY InForceReads DEF RunsTheFile
    <3> HIDE DEF running
    <3> QED
      BY <2>1, <2>2, <3>2, <3>3 DEF RunsTheFile, KohikoOK, RunsWith
  <2>4. CASE kohiko.at \in {"migrating", "loaded"}
    <3>1. kohiko' = [kohiko EXCEPT !.news = "missed"]
      BY <2>1, <2>4 DEF Reloaded
    <3>2. /\ kohiko' = [at |-> kohiko.at, running |-> kohiko.running, base |-> kohiko.base,
                        held |-> kohiko.held, marker |-> kohiko.marker, news |-> "missed"]
      BY <3>1 DEF RunsTheFile, KohikoOK
    <3> QED
      BY <2>1, <2>2, <3>2 DEF RunsTheFile, KohikoOK
  <2>5. CASE kohiko.at \notin {"up", "migrating", "loaded"}
    <3>1. kohiko' = kohiko
      BY <2>1, <2>5 DEF Reloaded
    <3> QED
      BY <2>1, <2>2, <2>5, <3>1 DEF RunsTheFile, KohikoOK
  <2> QED
    BY <2>3, <2>4, <2>5
<1>4. CASE SettingsWrites
  <2>1. kohiko' = kohiko
    BY <1>4 DEF SettingsWrites
  <2>2. /\ at' = [at EXCEPT !["settings"] = at'["settings"]]
        /\ at["settings"] # "renamed"
        /\ spoilt => spoilt'
    BY <1>1, <1>4, TwoSavers
    DEF SettingsWrites, OpenTemp, WriteTemp, SaveFails, RenameTemp, FilesOK
  <2>3. at'["kohiko"] = at["kohiko"]
    BY <1>1, <2>2, TwoSavers DEF FilesOK
  <2>4. ASSUME ~spoilt', at'["settings"] # "renamed" PROVE disk'.conf = disk.conf
    <3>1. pen["settings"] \in {None, "tmp"}
      BY <2>2, <2>4, TwoSavers DEF InTurn, OneWriter
    <3>2. CASE OpenTemp("settings")
      BY <1>1, <3>2, NewConf, NewFiles DEF OpenTemp
    <3>3. CASE WriteTemp("settings", lines)
      <4>1. PICK got : disk' = [disk EXCEPT !.tmp = Filled(disk.tmp, lines, got)] \/ disk' = disk
        BY <3>1, <3>3 DEF WriteTemp, None
      <4> QED
        BY <1>1, <4>1, FilledIsFile, NewConf DEF FilesOK
    <3>4. CASE SaveFails("settings")
      <4>1. disk' = [disk EXCEPT !.tmp = NoFile] \/ disk' = disk
        BY <3>4 DEF SaveFails
      <4> QED
        BY <1>1, <4>1, NewConf, NewFiles
    <3>5. ~RenameTemp("settings", "renamed")
      BY <1>1, <2>4, TwoSavers DEF RenameTemp, FilesOK
    <3> QED
      BY <1>4, <3>2, <3>3, <3>4, <3>5 DEF SettingsWrites
  <2> QED
    BY <2>1, <2>2, <2>3, <2>4 DEF RunsTheFile, KohikoOK, RunsWith
<1> QED
  BY <1>2, <1>3, <1>4

\* Kohiko is told, or else it is not up.
LEMMA NewsRuns ==
    ASSUME RunsTheFile, kohiko' = News(kohiko, "other"), at'["kohiko"] = at["kohiko"]
    PROVE  RunsTheFile'
<1>1. CASE kohiko.at = "off"
  <2>1. kohiko' = kohiko
    BY <1>1 DEF News
  <2> QED
    BY <1>1, <2>1 DEF RunsTheFile, KohikoOK
<1>2. CASE kohiko.at # "off"
  <2>1. kohiko' = [kohiko EXCEPT !.news = "other"]
    BY <1>2 DEF News
  <2>2. kohiko' = [at |-> kohiko.at, running |-> kohiko.running, base |-> kohiko.base,
                   held |-> kohiko.held, marker |-> kohiko.marker, news |-> "other"]
    BY <2>1 DEF RunsTheFile, KohikoOK
  <2> QED
    BY <2>2 DEF RunsTheFile, KohikoOK
<1> QED
  BY <1>1, <1>2

LEMMA EventsRun ==
    ASSUME InTurn, RunsTheFile, Close \/ EditedByHand \/ RestoreConfig
    PROVE  RunsTheFile'
<1>1. FilesOK
  BY DEF InTurn
<1>2. CASE Close
  <2>1. /\ at' = [at EXCEPT !["settings"] = "idle"] /\ disk' = disk /\ spoilt' = spoilt
        /\ kohiko' = IF at["settings"] = "renamed" THEN News(kohiko, "other") ELSE kohiko
    BY <1>2 DEF Close, Left
  <2>2. at'["kohiko"] = at["kohiko"]
    BY <1>1, <2>1, TwoSavers DEF FilesOK
  <2>3. CASE at["settings"] = "renamed"
    BY <2>1, <2>2, <2>3, NewsRuns
  <2>4. CASE at["settings"] # "renamed"
    BY <2>1, <2>2, <2>4, SameFileRuns
  <2> QED
    BY <2>3, <2>4
<1>3. CASE EditedByHand \/ RestoreConfig
  BY <1>3, NewsRuns DEF EditedByHand, RestoreConfig
<1> QED
  BY <1>2, <1>3

LEMMA LoadedRuns ==
    ASSUME KohikoOK, kohiko' = Loaded(kohiko, disk'.conf.lines), at'["kohiko"] = "idle"
    PROVE  RunsTheFile'
<1>1. PICK f : f = InForce(disk'.conf.lines)
  OBVIOUS
<1>2. kohiko' = [at |-> "loaded", running |-> f, base |-> <<>>,
                 held |-> <<>>, marker |-> TRUE, news |-> "none"]
  BY <1>1 DEF Loaded, KohikoOK
<1>3. DOMAIN f = Scalar \cup Block /\ \A key \in Scalar \cup Block : f[key] = GetAll(disk'.conf.lines, key)
  BY <1>1, InForceReads
<1> QED
  BY <1>2, <1>3 DEF RunsTheFile, KohikoOK, RunsWith

LEMMA KohikoRuns ==
    ASSUME InTurn, RunsTheFile, KohikoStarts \/ KohikoWrites \/ KohikoReady \/ KohikoDies
    PROVE  RunsTheFile'
<1>1. FilesOK /\ KohikoOK
  BY DEF InTurn, RunsTheFile
<1>2. CASE KohikoStarts
  <2>1. at["kohiko"] = "idle"
    BY <1>2 DEF KohikoStarts
  <2>2. CASE Recover
    <3>1. at' = at /\ kohiko' = [kohiko EXCEPT !.at = "loaded", !.running = InForce(<<>>), !.news = "other"]
      BY <2>2 DEF Recover
    <3>3. PICK f : f = InForce(<<>>) /\ DOMAIN f = Scalar \cup Block
      BY InForceReads
    <3>2. kohiko' = [at |-> "loaded", running |-> f, base |-> kohiko.base,
                     held |-> kohiko.held, marker |-> kohiko.marker, news |-> "other"]
      BY <1>1, <3>1, <3>3 DEF KohikoOK
    <3> QED
      BY <2>1, <3>1, <3>2, <3>3 DEF RunsTheFile, KohikoOK
  <2>3. CASE Migrate /\ Missing(disk.conf.lines) = {}
    <3>1. disk' = disk /\ at' = at /\ kohiko' = Loaded(kohiko, disk.conf.lines)
      BY <2>3 DEF Migrate
    <3> QED
      BY <1>1, <2>1, <3>1, LoadedRuns
  <2>4. CASE Migrate /\ Missing(disk.conf.lines) # {}
    <3>1. kohiko' = [kohiko EXCEPT !.at = "migrating", !.base = disk.conf.lines,
                                   !.held = Migrated(disk.conf.lines), !.marker = TRUE]
      BY <2>4 DEF Migrate
    <3>2. kohiko' = [at |-> "migrating", running |-> kohiko.running, base |-> disk.conf.lines,
                     held |-> Migrated(disk.conf.lines), marker |-> TRUE, news |-> kohiko.news]
      BY <1>1, <3>1 DEF KohikoOK
    <3> QED
      BY <3>2 DEF RunsTheFile, KohikoOK
  <2> QED
    BY <1>2, <2>2, <2>3, <2>4 DEF KohikoStarts
<1>3. CASE KohikoWrites
  <2>1. CASE at'["kohiko"] = "idle"
    BY <1>1, <1>3, <2>1, LoadedRuns DEF KohikoWrites
  <2>2. CASE at'["kohiko"] # "idle"
    <3>1. kohiko' = kohiko
      BY <1>3, <2>2 DEF KohikoWrites
    <3>2. at["kohiko"] # "idle"
      BY <1>3 DEF KohikoWrites, OpenTemp, WriteTemp, SaveFails, RenameTemp
    <3>3. kohiko.at = "migrating"
      BY <3>2 DEF RunsTheFile
    <3> QED
      BY <1>1, <3>1, <3>3 DEF RunsTheFile, KohikoOK
  <2> QED
    BY <2>1, <2>2
<1>4. CASE KohikoReady
  <2>1. /\ kohiko.at = "loaded" /\ kohiko' = [kohiko EXCEPT !.at = "up", !.marker = FALSE]
        /\ disk' = disk /\ at' = at /\ spoilt' = spoilt
    BY <1>4 DEF KohikoReady, fileVars
  <2>2. kohiko' = [at |-> "up", running |-> kohiko.running, base |-> kohiko.base,
                   held |-> kohiko.held, marker |-> FALSE, news |-> kohiko.news]
    BY <1>1, <2>1 DEF KohikoOK
  <2> QED
    BY <2>1, <2>2 DEF RunsTheFile, KohikoOK, RunsWith
<1>5. CASE KohikoDies
  <2>1. /\ kohiko' = [kohiko EXCEPT !.at = "off", !.running = InForce(<<>>), !.news = "none",
                                    !.base = <<>>, !.held = <<>>]
        /\ at' = [at EXCEPT !["kohiko"] = "idle"]
    BY <1>5 DEF KohikoDies, Left
  <2>2. kohiko' = [at |-> "off", running |-> InForce(<<>>), base |-> <<>>, held |-> <<>>,
                   marker |-> kohiko.marker, news |-> "none"]
    BY <1>1, <2>1 DEF KohikoOK
  <2>3. at'["kohiko"] = "idle"
    BY <1>1, <2>1, TwoSavers DEF FilesOK
  <2> QED
    BY <2>2, <2>3, InForceReads DEF RunsTheFile, KohikoOK
<1> QED
  BY <1>2, <1>3, <1>4, <1>5

LEMMA StepsRun == InTurn /\ RunsTheFile /\ [Next]_vars => RunsTheFile'
<1> SUFFICES ASSUME InTurn, RunsTheFile, [Next]_vars PROVE RunsTheFile'
  OBVIOUS
<1>1. CASE UNCHANGED <<disk, at, spoilt, kohiko>>
  BY <1>1, SameFileRuns
<1>2. CASE Open \/ KeyPress \/ Click \/ UNCHANGED vars
  BY <1>1, <1>2 DEF Open, KeyPress, Click, Gesture, vars, fileVars
<1> QED
  BY <1>2, SettingsRuns, EventsRun, KohikoRuns DEF Next

\* A save is in force without a restart, but for the keys read at start only:
\* of every other one Kohiko runs with what the file says, unless another hand
\* changed it or the reload came before Kohiko listened
\* (SettingsWindow::Save, WindowManager::ReloadConfig; Application::Run).
THEOREM SaveIsInForce == Spec => []RunningIsSaved
<1>1. RunsTheFile => RunningIsSaved
  BY DEF RunsTheFile, RunsWith, RunningIsSaved
<1> QED
  BY <1>1, StartsWhole, StepsInTurn, StartsRunning, StepsRun, PTL DEF Spec

(* --------------------------- what Save counts as saved ------------------- *)

\* The fields and blocks in S count as loaded as they are.
Took(e, S) ==
    [e EXCEPT
       !.field = [f \in DOMAIN e.field |->
                   IF f \in S THEN [e.field[f] EXCEPT !.loaded = e.field[f].now] ELSE e.field[f]],
       !.block = [b \in Block |->
                   IF b \in S THEN [e.block[b] EXCEPT !.loaded = e.block[b].rows] ELSE e.block[b]]]

LEMMA TookOK ==
    ASSUME NEW e, EditorOK(e), NEW S
    PROVE  /\ EditorOK(Took(e, S)) /\ DOMAIN Took(e, S).field = DOMAIN e.field
           /\ \A f \in DOMAIN e.field :
                Took(e, S).field[f].loaded = IF f \in S THEN e.field[f].now ELSE e.field[f].loaded
           /\ \A b \in Block :
                Took(e, S).block[b].loaded = IF b \in S THEN e.block[b].rows ELSE e.block[b].loaded
<1>0. e \in Editor
  BY DEF EditorOK
<1>1. PICK field : field = [f \in DOMAIN e.field |->
                   IF f \in S THEN [e.field[f] EXCEPT !.loaded = e.field[f].now] ELSE e.field[f]]
  OBVIOUS
<1>2. PICK block : block = [b \in Block |->
                   IF b \in S THEN [e.block[b] EXCEPT !.loaded = e.block[b].rows] ELSE e.block[b]]
  OBVIOUS
<1>3. PICK x : x = [e EXCEPT !.field = field, !.block = block]
  OBVIOUS
<1>4. x = Took(e, S)
  BY <1>1, <1>2, <1>3, Zenon DEF Took
<1>5. /\ field \in FieldTexts /\ DOMAIN field = DOMAIN e.field
      /\ \A f \in DOMAIN e.field : /\ field[f].now = e.field[f].now
                                   /\ field[f].loaded = IF f \in S THEN e.field[f].now ELSE e.field[f].loaded
  <2>1. PICK fs \in {Built_, Field} : e.field \in [fs -> [loaded : Name, now : Name]]
    BY <1>0 DEF Editor, FieldTexts
  <2>2. DOMAIN e.field = fs
    BY <2>1
  <2>3. \A f \in fs : [e.field[f] EXCEPT !.loaded = e.field[f].now]
                        = [loaded |-> e.field[f].now, now |-> e.field[f].now]
    BY <2>1
  <2>4. \A f \in fs : /\ field[f] \in [loaded : Name, now : Name]
                      /\ field[f].now = e.field[f].now
                      /\ field[f].loaded = IF f \in S THEN e.field[f].now ELSE e.field[f].loaded
    BY <1>1, <2>1, <2>2, <2>3
  <2>5. field \in [fs -> [loaded : Name, now : Name]]
    BY <1>1, <2>2, <2>4
  <2> QED BY <2>2, <2>4, <2>5 DEF FieldTexts
<1>6. /\ block \in BlockRows
      /\ \A b \in Block : /\ block[b].rows = e.block[b].rows
                          /\ block[b].loaded = IF b \in S THEN e.block[b].rows ELSE e.block[b].loaded
  <2>1. /\ e.block \in [Block -> [loaded : Seq(Seq(Name)), rows : Seq(Seq(Name))]]
        /\ \A b \in Block : e.block[b].loaded \in Seq(Row(b)) /\ e.block[b].rows \in Seq(Row(b))
    BY <1>0 DEF Editor, BlockRows
  <2>2. \A b \in Block : [e.block[b] EXCEPT !.loaded = e.block[b].rows]
                           = [loaded |-> e.block[b].rows, rows |-> e.block[b].rows]
    BY <2>1
  <2>3. \A b \in Block : /\ block[b] \in [loaded : Seq(Seq(Name)), rows : Seq(Seq(Name))]
                         /\ block[b].rows = e.block[b].rows
                         /\ block[b].loaded = IF b \in S THEN e.block[b].rows ELSE e.block[b].loaded
    BY <1>2, <2>1, <2>2
  <2>4. block \in [Block -> [loaded : Seq(Seq(Name)), rows : Seq(Seq(Name))]]
    BY <1>2, <2>3
  <2>5. \A b \in Block : block[b].loaded \in Seq(Row(b)) /\ block[b].rows \in Seq(Row(b))
    BY <2>1, <2>3
  <2> QED BY <2>3, <2>4, <2>5 DEF BlockRows
<1>7. x \in Editor
  BY <1>0, <1>3, <1>5, <1>6 DEF Editor
<1>8. /\ x.field = field /\ x.block = block /\ x.onField = e.onField /\ x.onBlock = e.onBlock
      /\ x.fieldCaret = e.fieldCaret /\ x.row = e.row /\ x.col = e.col /\ x.cell = e.cell
      /\ x.slip = e.slip
  BY <1>0, <1>3 DEF Editor
<1>9. /\ x.onField # None => x.onField \in DOMAIN x.field /\ x.field[x.onField].now = e.field[e.onField].now
      /\ \A b \in Block : x.block[b].rows = e.block[b].rows
  BY <1>5, <1>6, <1>8 DEF EditorOK
<1>10. EditorOK(x)
  <2>1. InField(e) => InField(x)
    BY <1>8, <1>9, Zenon DEF InField
  <2>2. InLine(e) => InLine(x)
    BY <1>8, <1>9, CellsOfBlocks, Zenon DEF InLine
  <2>3. InCell(e) => InCell(x)
    BY <1>8, <1>9, CellsOfBlocks, Zenon DEF InCell
  <2> QED BY <1>7, <1>8, <1>9, <2>1, <2>2, <2>3 DEF EditorOK
<1>11. /\ DOMAIN x.field = DOMAIN e.field
       /\ \A f \in DOMAIN e.field :
            x.field[f].loaded = IF f \in S THEN e.field[f].now ELSE e.field[f].loaded
       /\ \A b \in Block :
            x.block[b].loaded = IF b \in S THEN e.block[b].rows ELSE e.block[b].loaded
  BY <1>5, <1>6, <1>8
<1> QED
  BY <1>4, <1>10, <1>11, Zenon

(* --------------------------- what Save puts in the lines ----------------- *)

\* new is old with what is typed under the keys of S, and the rest untouched.
Gets(old, new, S) ==
    /\ new \in Seq(ConfLine)
    /\ \A k : k \notin S => GetAll(new, k) = GetAll(old, k) /\ GetRawBlock(new, k) = GetRawBlock(old, k)
    /\ \A f \in Field \cap S : Reads(new, f) = ed.field[f].now
    /\ \A b \in Block \cap S : GetRawBlock(new, b) = NonBlank(ed.block[b].rows)
    /\ \A i \in DOMAIN old : old[i].form = "comment" => \E j \in DOMAIN new : new[j] = old[i]

LEMMA FieldsAndBlocks ==
    /\ \A f \in Field : f \notin Block /\ f \in Name /\ Cells(f) = 1
    /\ \A b \in Block : b \notin Field /\ b \in Name
    /\ Field = {"flag", "count", "ws1"} /\ Block = {"windowrule", "monitor", "bind"} /\ Scalar = Field
    /\ Built_ \subseteq Field
BY DEF Field, Block, Name, Cells, Structured, Scalar, Built_

LEMMA SameReads ==
    ASSUME NEW old \in Seq(ConfLine), NEW new \in Seq(ConfLine), NEW f,
           GetAll(new, f) = GetAll(old, f)
    PROVE  Reads(new, f) = Reads(old, f)
BY SameAllSameString DEF Reads

\* One more key.
LEMMA GetsOneMore ==
    ASSUME NEW old \in Seq(ConfLine), NEW mid, NEW S, Gets(old, mid, S), NEW k, k \notin S,
           NEW new \in Seq(ConfLine), SparesOthers(mid, new, k),
           k \in Field => Reads(new, k) = ed.field[k].now,
           k \in Block => GetRawBlock(new, k) = NonBlank(ed.block[k].rows)
    PROVE  Gets(old, new, S \cup {k})
<1>1. mid \in Seq(ConfLine)
  BY DEF Gets
<1>2. \A j : j \notin S \cup {k} =>
        GetAll(new, j) = GetAll(old, j) /\ GetRawBlock(new, j) = GetRawBlock(old, j)
  BY Zenon DEF Gets, SparesOthers
<1>3. \A f \in Field \cap (S \cup {k}) : Reads(new, f) = ed.field[f].now
  <2> SUFFICES ASSUME NEW f \in Field \cap (S \cup {k}) PROVE Reads(new, f) = ed.field[f].now
    OBVIOUS
  <2>1. CASE f = k
    BY <2>1
  <2>2. CASE f # k
    <3>1. f \in Field \cap S /\ GetAll(new, f) = GetAll(mid, f)
      BY <2>2 DEF SparesOthers
    <3> QED BY <1>1, <3>1, SameReads DEF Gets
  <2> QED BY <2>1, <2>2
<1>4. \A b \in Block \cap (S \cup {k}) : GetRawBlock(new, b) = NonBlank(ed.block[b].rows)
  <2> SUFFICES ASSUME NEW b \in Block \cap (S \cup {k})
               PROVE  GetRawBlock(new, b) = NonBlank(ed.block[b].rows)
    OBVIOUS
  <2>1. CASE b = k
    BY <2>1
  <2>2. CASE b # k
    BY <2>2, Zenon DEF Gets, SparesOthers
  <2> QED BY <2>1, <2>2
<1>5. \A i \in DOMAIN old : old[i].form = "comment" => \E j \in DOMAIN new : new[j] = old[i]
  <2> SUFFICES ASSUME NEW i \in DOMAIN old, old[i].form = "comment"
               PROVE  \E j \in DOMAIN new : new[j] = old[i]
    OBVIOUS
  <2>1. PICK j \in DOMAIN mid : mid[j] = old[i]
    BY Zenon DEF Gets
  <2> QED BY <2>1, Zenon DEF SparesOthers
<1> QED
  BY <1>2, <1>3, <1>4, <1>5 DEF Gets

LEMMA GetsField ==
    ASSUME EditorOK(ed), NEW old \in Seq(ConfLine), NEW mid, NEW S, Gets(old, mid, S),
           NEW f \in Field, f \notin S
    PROVE  Gets(old, ApplyField(mid, f), S \cup ({f} \cap Valid))
<1>1. CASE f \notin Valid
  <2>1. ApplyField(mid, f) = mid /\ S \cup ({f} \cap Valid) = S
    BY <1>1 DEF ApplyField
  <2> QED BY <2>1
<1>2. CASE f \in Valid
  <2>1. f \in DOMAIN ed.field
    BY <1>2, FieldsAndBlocks DEF Valid
  <2>2. PICK word \in Name : word = ed.field[f].now
    BY <2>1, FieldsOfEditor DEF EditorOK
  <2>3. <<word>> \in [1..Cells(f) -> Name] /\ <<word>>[1] = word
    BY FieldsAndBlocks, CellsMakeRow
  <2>4. f \in Name /\ f \notin Block
    BY FieldsAndBlocks
  <2>5. mid \in Seq(ConfLine)
    BY DEF Gets
  <2>6. PICK new : new = SetScalar(mid, f, <<word>>, SettingsMarker)
    OBVIOUS
  <2>7. /\ new \in Seq(ConfLine) /\ SparesOthers(mid, new, f)
        /\ \A fallback : GetString(new, f, fallback) = <<word>>
    <3>1. PICK val \in [1..Cells(f) -> Name] : val = <<word>>
      BY <2>3
    <3>2. PICK marker \in ConfLine : marker = SettingsMarker /\ marker.form = "comment"
      BY MarkersAreLines
    <3>3. /\ SetScalar(mid, f, val, marker) \in Seq(ConfLine)
          /\ SparesOthers(mid, SetScalar(mid, f, val, marker), f)
          /\ \A fallback : GetString(SetScalar(mid, f, val, marker), f, fallback) = val
      BY <2>4, <2>5, <3>2, SetScalarSets
    <3>4. new = SetScalar(mid, f, val, marker)
      BY <2>6, <3>1, <3>2
    <3> QED BY <3>1, <3>3, <3>4
  <2>8. Reads(new, f) = ed.field[f].now
    BY <2>2, <2>3, <2>7, Zenon DEF Reads
  <2>9. Gets(old, new, S \cup {f})
    BY <2>4, <2>7, <2>8, GetsOneMore
  <2>10. ApplyField(mid, f) = new
    BY <1>2, <2>2, <2>6, Zenon DEF ApplyField
  <2>11. {f} \cap Valid = {f}
    BY <1>2
  <2> QED BY <2>9, <2>10, <2>11, Zenon
<1> QED
  BY <1>1, <1>2

LEMMA GetsBlock ==
    ASSUME EditorOK(ed), NEW old \in Seq(ConfLine), NEW mid, NEW S, Gets(old, mid, S),
           NEW b \in Block, b \notin S
    PROVE  Gets(old, ApplyBlock(mid, b), S \cup ({b} \cap Valid))
<1>1. CASE b \notin Valid
  <2>1. ApplyBlock(mid, b) = mid /\ S \cup ({b} \cap Valid) = S
    BY <1>1 DEF ApplyBlock
  <2> QED BY <2>1
<1>2. CASE b \in Valid
  <2>1. PICK rows : rows = ed.block[b].rows
    OBVIOUS
  <2>2. rows \in Seq(Row(b))
    BY <2>1, RowsOfBlock DEF EditorOK
  <2>3. NonBlank(rows) \in Seq([1..Cells(b) -> Name])
    <3>1. {i \in DOMAIN rows : ~Blank(rows[i])} \in SUBSET DOMAIN rows
      OBVIOUS
    <3>2. Remaining(rows, {i \in DOMAIN rows : ~Blank(rows[i])}) \in Seq(Row(b))
      BY <2>2, <3>1, RemainingElements
    <3> QED BY <3>2 DEF NonBlank, Row
  <2>4. PICK vals : vals = NonBlank(rows)
    OBVIOUS
  <2>5. mid \in Seq(ConfLine) /\ b \in Name /\ b \notin Field
    BY FieldsAndBlocks DEF Gets
  <2>6. PICK new : new = ReplaceRawBlock(mid, b, vals)
    OBVIOUS
  <2>7. /\ new \in Seq(ConfLine) /\ SparesOthers(mid, new, b)
        /\ GetRawBlock(new, b) = vals
    BY <2>3, <2>4, <2>5, <2>6, ReplacesBlock, Zenon
  <2>8. GetRawBlock(new, b) = NonBlank(ed.block[b].rows)
    BY <2>1, <2>4, <2>7, Zenon
  <2>9. Gets(old, new, S \cup {b})
    BY <2>5, <2>7, <2>8, GetsOneMore
  <2>10. ApplyBlock(mid, b) = new
    BY <1>2, <2>1, <2>4, <2>6, Zenon DEF ApplyBlock
  <2>11. {b} \cap Valid = {b}
    BY <1>2
  <2> QED BY <2>9, <2>10, <2>11, Zenon
<1> QED
  BY <1>1, <1>2

\* Save puts what is changed and valid into the copy, and nothing else.
LEMMA SaveSets ==
    ASSUME EditorOK(ed), lines \in Seq(ConfLine), Save
    PROVE  Gets(lines, lines', Valid) /\ ed' = Took(ed, Valid)
<1>1. ed' = Took(ed, Valid)
  BY Zenon DEF Save, Took
<1>2. Valid \subseteq Field \cup Block
  <2>1. DOMAIN ed.field \subseteq Field
    BY FieldsOfEditor DEF EditorOK, Built_, Field
  <2> QED BY <2>1 DEF Valid
<1>3. PICK a : a = ApplyField(lines, "flag")
  OBVIOUS
<1>4. PICK b : b = ApplyField(a, "count")
  OBVIOUS
<1>5. PICK c : c = ApplyField(b, "ws1")
  OBVIOUS
<1>6. PICK d : d = ApplyBlock(c, "windowrule")
  OBVIOUS
<1>15. PICK d2 : d2 = ApplyBlock(d, "monitor")
  OBVIOUS
<1>7. lines' = ApplyBlock(d2, "bind")
  BY <1>3, <1>4, <1>5, <1>6, <1>15, Zenon DEF Save
<1>8. Gets(lines, lines, {})
  BY DEF Gets
<1>9. Gets(lines, a, {} \cup ({"flag"} \cap Valid))
  BY <1>3, <1>8, GetsField, FieldsAndBlocks
<1>10. Gets(lines, b, ({} \cup ({"flag"} \cap Valid)) \cup ({"count"} \cap Valid))
  BY <1>4, <1>9, GetsField, FieldsAndBlocks
<1>11. Gets(lines, c, (({} \cup ({"flag"} \cap Valid)) \cup ({"count"} \cap Valid)) \cup ({"ws1"} \cap Valid))
  BY <1>5, <1>10, GetsField, FieldsAndBlocks
<1>12. Gets(lines, d, ((({} \cup ({"flag"} \cap Valid)) \cup ({"count"} \cap Valid)) \cup ({"ws1"} \cap Valid))
                        \cup ({"windowrule"} \cap Valid))
  BY <1>6, <1>11, GetsBlock, FieldsAndBlocks
<1>16. Gets(lines, d2, (((({} \cup ({"flag"} \cap Valid)) \cup ({"count"} \cap Valid)) \cup ({"ws1"} \cap Valid))
                        \cup ({"windowrule"} \cap Valid)) \cup ({"monitor"} \cap Valid))
  BY <1>15, <1>12, GetsBlock, FieldsAndBlocks
<1>13. Gets(lines, lines', ((((({} \cup ({"flag"} \cap Valid)) \cup ({"count"} \cap Valid))
                              \cup ({"ws1"} \cap Valid)) \cup ({"windowrule"} \cap Valid))
                              \cup ({"monitor"} \cap Valid)) \cup ({"bind"} \cap Valid))
  BY <1>7, <1>16, GetsBlock, FieldsAndBlocks
<1>14. ((((({} \cup ({"flag"} \cap Valid)) \cup ({"count"} \cap Valid))
           \cup ({"ws1"} \cap Valid)) \cup ({"windowrule"} \cap Valid))
           \cup ({"monitor"} \cap Valid)) \cup ({"bind"} \cap Valid) = Valid
  BY <1>2, FieldsAndBlocks
<1> QED
  BY <1>1, <1>13, <1>14, Zenon

(* ------------------------ every text is what it should be ---------------- *)

DiskTyped ==
    disk.conf.lines \in Seq(ConfLine) /\ disk.tmp.lines \in Seq(ConfLine) /\ disk.bak.lines \in Seq(ConfLine)
CopiesTyped == lines \in Seq(ConfLine) /\ synced \in Seq(ConfLine)
KohikoTyped == kohiko.base \in Seq(ConfLine) /\ kohiko.held \in Seq(ConfLine)

TextsOK == EditorOK(ed) /\ DiskTyped /\ CopiesTyped /\ KohikoTyped

LEMMA NoLines == <<>> \in Seq(ConfLine) /\ Torn.lines = <<>> /\ NoFile.lines = <<>>
BY DEF Torn, NoFile

LEMMA FilledLines == ASSUME NEW file, NEW ls, NEW got PROVE Filled(file, ls, got).lines = got
<1>1. [Torn EXCEPT !.lines = got].lines = got /\ Whole(ls).lines = ls
  BY DEF Torn, Whole
<1> QED BY <1>1 DEF Filled

\* What the last flush leaves are lines.
LEMMA FlushedLines ==
    ASSUME NEW ls \in Seq(ConfLine), NEW got \in Flushed(ls) PROVE got \in Seq(ConfLine)
<1>1. CASE got = ls
  BY <1>1
<1>2. CASE got # ls
  <2>1. PICK n \in 0..MaxKept : n < Len(ls) /\ got = SubSeq(ls, 1, n)
    BY <1>2 DEF Flushed
  <2>2. n \in 0..Len(ls)
    BY <2>1, BoundsAreNatural, LenProperties
  <2> QED
    BY <2>1, <2>2, Front
<1> QED
  BY <1>1, <1>2

LEMMA StartsTyped == Init => TextsOK
<1> SUFFICES ASSUME Init PROVE TextsOK
  OBVIOUS
<1>1. PICK f \in Files : disk = [conf |-> Whole(f), tmp |-> NoFile, bak |-> NoFile]
  BY DEF Init
<1>2. DiskTyped
  BY <1>1, FilesAreConf, NoLines DEF DiskTyped, Whole
<1>3. CopiesTyped /\ KohikoTyped
  BY NoLines DEF Init, CopiesTyped, KohikoTyped
<1>4. ed = Built(<<>>)
  BY DEF Init
<1>5. EditorOK(ed)
  BY <1>4, NoLines, BuiltOK
<1> QED BY <1>2, <1>3, <1>5 DEF TextsOK

LEMMA SavesTyped ==
    ASSUME FilesOK, DiskTyped, NEW s \in Saver, NEW ls \in Seq(ConfLine), NEW next,
           OpenTemp(s) \/ WriteTemp(s, ls) \/ RenameTemp(s, next) \/ SaveFails(s)
    PROVE  DiskTyped'
<1>1. CASE OpenTemp(s)
  <2>1. disk' = [conf |-> disk.conf, tmp |-> Torn, bak |-> disk.bak]
    BY <1>1, NewConf, NewFiles DEF OpenTemp
  <2> QED BY <2>1, NoLines DEF DiskTyped
<1>2. CASE WriteTemp(s, ls)
  <2>1. IsFile(disk.tmp) /\ IsFile(disk.conf)
    BY DEF FilesOK
  <2>6. PICK got \in Flushed(ls) :
          disk' = CASE pen[s] = "tmp" -> [disk EXCEPT !.tmp = Filled(@, ls, got)]
                    [] pen[s] = "conf" -> [disk EXCEPT !.conf = Filled(@, ls, got)]
                    [] OTHER -> disk
    BY <1>2 DEF WriteTemp
  <2>7. got \in Seq(ConfLine)
    BY <2>6, FlushedLines
  <2>2. IsFile(Filled(disk.tmp, ls, got)) /\ IsFile(Filled(disk.conf, ls, got))
    BY <2>1, FilledIsFile
  <2>3. CASE pen[s] = "tmp"
    <3>1. disk' = [disk EXCEPT !.tmp = Filled(disk.tmp, ls, got)]
      BY <2>6, <2>3
    <3>2. disk' = [conf |-> disk.conf, tmp |-> Filled(disk.tmp, ls, got), bak |-> disk.bak]
      BY <2>2, <3>1, NewConf
    <3> QED BY <2>7, <3>2, FilledLines DEF DiskTyped
  <2>4. CASE pen[s] = "conf"
    <3>1. disk' = [disk EXCEPT !.conf = Filled(disk.conf, ls, got)]
      BY <2>6, <2>4
    <3>2. disk' = [conf |-> Filled(disk.conf, ls, got), tmp |-> disk.tmp, bak |-> disk.bak]
      BY <2>2, <3>1, NewConf
    <3> QED BY <2>7, <3>2, FilledLines DEF DiskTyped
  <2>5. CASE pen[s] \notin {"tmp", "conf"}
    <3>1. disk' = disk
      BY <2>6, <2>5
    <3> QED BY <3>1 DEF DiskTyped
  <2> QED BY <2>3, <2>4, <2>5
<1>3. CASE RenameTemp(s, next)
  <2>1. disk' = [conf |-> disk.tmp, tmp |-> NoFile, bak |-> disk.bak]
    BY <1>3 DEF RenameTemp, FilesOK
  <2> QED BY <2>1, NoLines DEF DiskTyped
<1>4. CASE SaveFails(s)
  <2>1. disk' = disk \/ disk' = [disk EXCEPT !.tmp = NoFile]
    BY <1>4 DEF SaveFails
  <2>2. disk' = disk \/ disk' = [conf |-> disk.conf, tmp |-> NoFile, bak |-> disk.bak]
    BY <2>1, NewConf, NewFiles
  <2>3. CASE disk' = disk
    BY <2>3 DEF DiskTyped
  <2>4. CASE disk' = [conf |-> disk.conf, tmp |-> NoFile, bak |-> disk.bak]
    BY <2>4, NoLines DEF DiskTyped
  <2> QED BY <2>2, <2>3, <2>4
<1> QED
  BY <1>1, <1>2, <1>3, <1>4

LEMMA GesturesTyped ==
    ASSUME TextsOK, KeyPress \/ Click
    PROVE  /\ Edits(ed, ed') \/ Edits(BuildWorkspaceFields(ed), ed')
           /\ EditorOK(ed')
<1>1. EditorOK(ed) /\ Reads(disk.conf.lines, "ws1") \in Name
  BY ReadsText, FieldsAndBlocks DEF TextsOK, DiskTyped
<1>2. PICK rebuilt : rebuilt = BuildWorkspaceFields(ed)
  OBVIOUS
<1>3. EditorOK(rebuilt)
  BY <1>1, <1>2, BuildWorkspaceFieldsOK
<1>4. PICK e : e = ed
  OBVIOUS
<1>5. EditorOK(e) /\ e \in Editor
  BY <1>1, <1>4 DEF EditorOK
<1>6. Edits(e, ed') \/ Edits(rebuilt, ed')
  <2>1. CASE KeyPress
    <3>1. CASE Gesture(Tab(ed))
      <4>1. ed' = Tab(e)
        BY <1>4, <3>1 DEF Gesture
      <4> QED BY <1>5, <4>1, TabOK
    <3>2. CASE \E key \in Key : Gesture(Pressed(ed, key, BuildWorkspaceFields(ed)))
      <4>1. PICK key \in Key : ed' = Pressed(e, key, rebuilt)
        BY <1>2, <1>4, <3>2 DEF Gesture
      <4> QED BY <1>3, <1>5, <4>1, PressedOK
    <3> QED BY <2>1, <3>1, <3>2 DEF KeyPress
  <2>2. CASE Click
    <3>0. \A b \in Block : /\ e.block[b].rows \in Seq(Row(b))
                           /\ DOMAIN e.block[b].rows = 1..Len(e.block[b].rows)
      BY <1>5, RowsOfBlock, CellsOfBlocks
    <3>1. CASE \E c \in Category : Gesture(SelectCategory(ed, c))
      <4>1. PICK c \in Category : ed' = SelectCategory(e, c)
        BY <1>4, <3>1 DEF Gesture
      <4> QED BY <1>5, <4>1, SelectCategoryOK
    <3>2. CASE Gesture(ClickSearch(ed))
      <4>1. ed' = ClickSearch(e)
        BY <1>4, <3>2 DEF Gesture
      <4> QED BY <1>5, <4>1, ClickSearchOK
    <3>3. CASE \E f \in DOMAIN ed.field : \E caret \in CaretsForClick(ed.field[f].now) : Gesture(ClickField(ed, f, caret))
      <4>1. PICK f \in DOMAIN e.field : \E caret \in CaretsForClick(e.field[f].now) : ed' = ClickField(e, f, caret)
        BY <1>4, <3>3 DEF Gesture
      <4>2. PICK caret \in CaretsForClick(e.field[f].now) : ed' = ClickField(e, f, caret)
        BY <4>1
      <4> QED BY <1>5, <4>2, ClickFieldOK
    <3>4. CASE ed.block["bind"].rows = <<>> /\ Gesture(ClickLine(ed, 1, 0))
      <4>1. ed' = ClickLine(e, 1, 0) /\ e.block["bind"].rows = <<>>
        BY <1>4, <3>4 DEF Gesture
      <4> QED BY <1>5, <4>1, ClickLineOK
    <3>5. CASE \E i \in DOMAIN ed.block["bind"].rows : \E col \in CaretsForClick(ed.block["bind"].rows[i][Text]) :
                 Gesture(ClickLine(ed, i, col))
      <4>0. PICK i \in DOMAIN e.block["bind"].rows : \E col \in CaretsForClick(e.block["bind"].rows[i][Text]) :
              ed' = ClickLine(e, i, col)
        BY <1>4, <3>5 DEF Gesture
      <4>1. PICK col \in CaretsForClick(e.block["bind"].rows[i][Text]) : ed' = ClickLine(e, i, col)
        BY <4>0
      <4>2. e.block["bind"].rows # <<>>
        BY <4>0
      <4>3. i \in 1..Len(e.block["bind"].rows) /\ col \in 0..Size(e.block["bind"].rows[i][Text])
        BY <3>0, <4>0, <4>1, CellsOfBlocks DEF CaretsForClick
      <4> QED BY <1>5, <4>1, <4>2, <4>3, ClickLineOK
    <3>6. CASE \E b \in Structured : Gesture(AddRow(ed, b))
      <4>1. PICK b \in Structured : ed' = AddRow(e, b)
        BY <1>4, <3>6 DEF Gesture
      <4> QED BY <1>5, <4>1, AddRowOK
    <3>7. CASE \E b \in Structured : \E i \in DOMAIN ed.block[b].rows : Gesture(RemoveRow(ed, b, i))
      <4>3. PICK b \in Structured : \E i \in DOMAIN e.block[b].rows : ed' = RemoveRow(e, b, i)
        BY <1>4, <3>7 DEF Gesture
      <4>1. PICK i \in DOMAIN e.block[b].rows : ed' = RemoveRow(e, b, i)
        BY <4>3
      <4>2. i \in 1..Len(e.block[b].rows)
        BY <3>0, <4>1, CellsOfBlocks
      <4> QED BY <1>5, <4>1, <4>2, RemoveRowOK
    <3>8. CASE \E i \in DOMAIN ed.block["windowrule"].rows : Gesture(CycleAction(ed, i))
      <4>1. PICK i \in DOMAIN e.block["windowrule"].rows : ed' = CycleAction(e, i)
        BY <1>4, <3>8 DEF Gesture
      <4>2. i \in 1..Len(e.block["windowrule"].rows)
        BY <3>0, <4>1, CellsOfBlocks
      <4> QED BY <1>5, <4>1, <4>2, CycleActionOK
    <3>9. CASE \E b \in Structured : \E i \in DOMAIN ed.block[b].rows : \E cell \in {Class, Workspace} :
                 /\ cell = Workspace => HasWorkspace(b, ed.block[b].rows[i])
                 /\ \E col \in CaretsForClick(ed.block[b].rows[i][cell]) :
                      Gesture(FocusRow(ed, b, i, cell, col))
      <4>6. PICK b \in Structured : \E i \in DOMAIN e.block[b].rows : \E cell \in {Class, Workspace} :
              /\ cell = Workspace => HasWorkspace(b, e.block[b].rows[i])
              /\ \E col \in CaretsForClick(e.block[b].rows[i][cell]) :
                   ed' = FocusRow(e, b, i, cell, col)
        BY <1>4, <3>9 DEF Gesture
      <4>1. PICK i \in DOMAIN e.block[b].rows, cell \in {Class, Workspace} :
              /\ cell = Workspace => HasWorkspace(b, e.block[b].rows[i])
              /\ \E col \in CaretsForClick(e.block[b].rows[i][cell]) :
                   ed' = FocusRow(e, b, i, cell, col)
        BY <4>6
      <4>2. PICK col \in CaretsForClick(e.block[b].rows[i][cell]) :
              ed' = FocusRow(e, b, i, cell, col)
        BY <4>1
      <4>5. b \in Block /\ b # "bind"
        BY CellsOfBlocks
      <4>3. i \in 1..Len(e.block[b].rows) /\ col \in 0..Size(e.block[b].rows[i][cell])
        BY <3>0, <4>1, <4>2, <4>5 DEF CaretsForClick
      <4>4. col \in 0..Size(e.block[b].rows[i][IF b = "bind" THEN Text ELSE cell])
        BY <4>3, <4>5
      <4> QED BY <1>5, <4>1, <4>2, <4>3, <4>4, <4>5, FocusRowOK
    <3>10. CASE Gesture(ResetVisible(ed, [f \in Scalar |-> Fallback(f)[1]]))
      <4>1. PICK default : default = [f \in Scalar |-> Fallback(f)[1]]
        OBVIOUS
      <4>2. ed' = ResetVisible(e, default)
        BY <1>4, <3>10, <4>1 DEF Gesture
      <4>3. \A f \in Field : default[f] \in Name
        BY <4>1, FallbackIsText, FieldsAndBlocks
      <4> QED BY <1>5, <4>2, <4>3, ResetVisibleOK
    <3> QED
      BY <2>2, <3>1, <3>2, <3>3, <3>4, <3>5, <3>6, <3>7, <3>8, <3>9, <3>10, Zenon DEF Click
  <2> QED BY <2>1, <2>2
<1> QED
  BY <1>2, <1>4, <1>6 DEF Edits

LEMMA WindowTyped ==
    ASSUME InTurn, TextsOK, Open \/ KeyPress \/ Click \/ Save \/ SettingsWrites \/ ReloadRunningKohiko,
           KohikoOK
    PROVE  TextsOK'
<1>1. FilesOK /\ EditorOK(ed) /\ DiskTyped /\ CopiesTyped /\ KohikoTyped
  BY DEF InTurn, TextsOK
<1>2. Reads(disk.conf.lines, "ws1") \in Name /\ disk.conf.lines \in Seq(ConfLine)
  BY <1>1, ReadsText, FieldsAndBlocks DEF DiskTyped
<1>3. CASE Open
  <2>1. PICK e : e = Built(disk.conf.lines)
    OBVIOUS
  <2>2. EditorOK(e)
    BY <1>2, <2>1, BuiltOK
  <2>3. ed' = BuildWorkspaceFields(e)
    BY <1>3, <2>1 DEF Open
  <2>4. EditorOK(ed')
    BY <1>2, <2>2, <2>3, BuildWorkspaceFieldsOK
  <2>5. disk' = disk /\ kohiko' = kohiko /\ lines' = disk.conf.lines /\ synced' = disk.conf.lines
    BY <1>3 DEF Open
  <2> QED BY <1>1, <1>2, <2>4, <2>5 DEF TextsOK, DiskTyped, CopiesTyped, KohikoTyped
<1>4. CASE KeyPress \/ Click
  <2>1. EditorOK(ed')
    BY <1>4, GesturesTyped
  <2>2. PICK e : Gesture(e)
    BY <1>4 DEF KeyPress, Click
  <2>3. disk' = disk /\ kohiko' = kohiko /\ lines' = lines /\ synced' = synced
    BY <2>2 DEF Gesture, fileVars
  <2> QED BY <1>1, <2>1, <2>3 DEF TextsOK, DiskTyped, CopiesTyped, KohikoTyped
<1>5. CASE Save
  <2>1. lines \in Seq(ConfLine)
    BY <1>1 DEF CopiesTyped
  <2>2. Gets(lines, lines', Valid) /\ ed' = Took(ed, Valid)
    BY <1>1, <1>5, <2>1, SaveSets
  <2>3. lines' \in Seq(ConfLine)
    BY <2>2 DEF Gets
  <2>4. EditorOK(ed')
    BY <1>1, <2>2, TookOK
  <2>5. disk' = disk /\ kohiko' = kohiko /\ synced' = synced
    BY <1>5 DEF Save
  <2> QED BY <1>1, <2>3, <2>4, <2>5 DEF TextsOK, DiskTyped, CopiesTyped, KohikoTyped
<1>6. CASE SettingsWrites
  <2>1. lines \in Seq(ConfLine)
    BY <1>1 DEF CopiesTyped
  <2>2. DiskTyped'
    BY <1>1, <1>6, <2>1, SavesTyped, TwoSavers DEF SettingsWrites
  <2>3. ed' = ed /\ lines' = lines /\ kohiko' = kohiko /\ synced' \in {synced, lines}
    BY <1>6 DEF SettingsWrites
  <2> QED BY <1>1, <2>2, <2>3 DEF TextsOK, CopiesTyped, KohikoTyped
<1>7. CASE ReloadRunningKohiko
  <2>1. ed' = BuildWorkspaceFields(ed) /\ disk' = disk /\ lines' = lines /\ synced' = synced
        /\ kohiko' = Reloaded(kohiko)
    BY <1>7 DEF ReloadRunningKohiko
  <2>2. EditorOK(ed')
    BY <1>1, <1>2, <2>1, BuildWorkspaceFieldsOK
  <2>3. kohiko'.base = kohiko.base /\ kohiko'.held = kohiko.held
    <3>1. \/ \E f : kohiko' = [kohiko EXCEPT !.running = f, !.news = "none"]
          \/ kohiko' = [kohiko EXCEPT !.news = "missed"]
          \/ kohiko' = kohiko
      BY <2>1 DEF Reloaded
    <3> QED BY <3>1 DEF KohikoOK
  <2> QED BY <1>1, <2>1, <2>2, <2>3 DEF TextsOK, DiskTyped, CopiesTyped, KohikoTyped
<1> QED
  BY <1>3, <1>4, <1>5, <1>6, <1>7

LEMMA NewsTyped ==
    ASSUME KohikoOK, NEW what
    PROVE  News(kohiko, what).base = kohiko.base /\ News(kohiko, what).held = kohiko.held
BY DEF KohikoOK, News

LEMMA LoadedTyped ==
    ASSUME KohikoOK, NEW ls
    PROVE  Loaded(kohiko, ls).base = <<>> /\ Loaded(kohiko, ls).held = <<>>
BY DEF KohikoOK, Loaded

LEMMA EventsTyped ==
    ASSUME InTurn, TextsOK, KohikoOK, Close \/ EditedByHand \/ RestoreConfig
    PROVE  TextsOK'
<1>1. FilesOK /\ EditorOK(ed) /\ DiskTyped /\ CopiesTyped /\ KohikoTyped
  BY DEF InTurn, TextsOK
<1>2. KohikoTyped'
  <2>1. kohiko' = kohiko \/ kohiko' = News(kohiko, "other")
    BY DEF Close, EditedByHand, RestoreConfig
  <2> QED BY <1>1, <2>1, NewsTyped DEF KohikoTyped
<1>3. CASE Close
  <2>1. ed' = Built(<<>>) /\ lines' = <<>> /\ synced' = <<>> /\ disk' = disk
    BY <1>3 DEF Close, Left
  <2>2. EditorOK(ed')
    BY <2>1, NoLines, BuiltOK
  <2> QED BY <1>1, <1>2, <2>1, <2>2, NoLines DEF TextsOK, DiskTyped, CopiesTyped
<1>4. CASE EditedByHand
  <2>1. PICK other \in {<<"false">>, <<"true">>} :
          disk' = [disk EXCEPT !.conf.lines = SetScalar(disk.conf.lines, "flag", other, SettingsMarker)]
    BY <1>4 DEF EditedByHand
  <2>2. PICK val \in [1..Cells("flag") -> Name] : val = other
    BY LiteralsAreNames, CellsMakeRow, FieldsAndBlocks
  <2>3. PICK marker \in ConfLine : marker = SettingsMarker /\ marker.form = "comment"
    BY MarkersAreLines
  <2>4. PICK ls : ls = disk.conf.lines
    OBVIOUS
  <2>5. SetScalar(ls, "flag", val, marker) \in Seq(ConfLine)
    BY <1>1, <2>3, <2>4, SetScalarSets, FieldsAndBlocks DEF DiskTyped
  <2>6. PICK new \in Seq(ConfLine) : new = SetScalar(ls, "flag", val, marker)
    BY <2>5
  <2>7. disk' = [disk EXCEPT !.conf.lines = new]
    BY <2>1, <2>2, <2>3, <2>4, <2>6, Zenon
  <2>8. disk' = [conf |-> [lines |-> new, is |-> disk.conf.is], tmp |-> disk.tmp, bak |-> disk.bak]
    BY <1>1, <2>7 DEF FilesOK, IsFile
  <2>9. ed' = ed /\ lines' = lines /\ synced' = synced
    BY <1>4 DEF EditedByHand, winVars
  <2> QED BY <1>1, <1>2, <2>8, <2>9 DEF TextsOK, DiskTyped, CopiesTyped
<1>5. CASE RestoreConfig
  <2>1. disk' = [conf |-> disk.bak, tmp |-> disk.tmp, bak |-> disk.bak]
    BY <1>1, <1>5, NewConf DEF RestoreConfig, FilesOK
  <2>2. ed' = ed /\ lines' = lines /\ synced' = synced
    BY <1>5 DEF RestoreConfig, winVars
  <2> QED BY <1>1, <1>2, <2>1, <2>2 DEF TextsOK, DiskTyped, CopiesTyped
<1> QED
  BY <1>3, <1>4, <1>5

LEMMA KohikoTypedStep ==
    ASSUME InTurn, TextsOK, KohikoOK, KohikoStarts \/ KohikoWrites \/ KohikoReady \/ KohikoDies
    PROVE  TextsOK'
<1>1. FilesOK /\ EditorOK(ed) /\ DiskTyped /\ CopiesTyped /\ KohikoTyped
  BY DEF InTurn, TextsOK
<1>2. EditorOK(ed') /\ CopiesTyped'
  <2>1. ed' = ed /\ lines' = lines /\ synced' = synced
    BY DEF KohikoStarts, KohikoWrites, KohikoReady, KohikoDies, winVars
  <2> QED BY <1>1, <2>1 DEF CopiesTyped
<1>3. CASE KohikoStarts
  <2>1. disk' \in {disk, [disk EXCEPT !.bak = disk.conf]}
    BY <1>3 DEF KohikoStarts, Recover, Migrate
  <2>2. DiskTyped'
    <3>1. CASE disk' = disk
      BY <1>1, <3>1 DEF DiskTyped
    <3>2. CASE disk' = [disk EXCEPT !.bak = disk.conf]
      <4>1. disk' = [conf |-> disk.conf, tmp |-> disk.tmp, bak |-> disk.conf]
        BY <1>1, <3>2, NewConf DEF FilesOK
      <4> QED BY <1>1, <4>1 DEF DiskTyped
    <3> QED BY <2>1, <3>1, <3>2
  <2>3. CASE Recover
    <3>1. PICK f : kohiko' = [kohiko EXCEPT !.at = "loaded", !.running = f, !.news = "other"]
      BY <2>3 DEF Recover
    <3>2. kohiko'.base = kohiko.base /\ kohiko'.held = kohiko.held
      BY <3>1 DEF KohikoOK
    <3> QED BY <1>1, <1>2, <2>2, <3>2 DEF TextsOK, KohikoTyped
  <2>4. CASE Migrate /\ Missing(disk.conf.lines) = {}
    <3>1. kohiko' = Loaded(kohiko, disk.conf.lines)
      BY <2>4 DEF Migrate
    <3> QED BY <1>2, <2>2, <3>1, LoadedTyped, NoLines DEF TextsOK, KohikoTyped
  <2>5. CASE Migrate /\ Missing(disk.conf.lines) # {}
    <3>1. kohiko' = [kohiko EXCEPT !.at = "migrating", !.base = disk.conf.lines,
                                   !.held = Migrated(disk.conf.lines), !.marker = TRUE]
      BY <2>5 DEF Migrate
    <3>2. kohiko'.base = disk.conf.lines /\ kohiko'.held = Migrated(disk.conf.lines)
      BY <3>1 DEF KohikoOK
    <3>3. Migrated(disk.conf.lines) \in Seq(ConfLine)
      BY <1>1, MigrationSpares DEF DiskTyped
    <3> QED BY <1>1, <1>2, <2>2, <3>2, <3>3 DEF TextsOK, KohikoTyped, DiskTyped
  <2> QED BY <1>3, <2>3, <2>4, <2>5 DEF KohikoStarts
<1>4. CASE KohikoWrites
  <2>1. kohiko.held \in Seq(ConfLine)
    BY <1>1 DEF KohikoTyped
  <2>2. DiskTyped'
    BY <1>1, <1>4, <2>1, SavesTyped, TwoSavers DEF KohikoWrites
  <2>3. kohiko' = kohiko \/ kohiko' = Loaded(kohiko, disk'.conf.lines)
    BY <1>4 DEF KohikoWrites
  <2>4. KohikoTyped'
    BY <1>1, <2>3, LoadedTyped, NoLines DEF KohikoTyped
  <2> QED BY <1>2, <2>2, <2>4 DEF TextsOK
<1>5. CASE KohikoReady
  <2>1. disk' = disk /\ kohiko' = [kohiko EXCEPT !.at = "up", !.marker = FALSE]
    BY <1>5 DEF KohikoReady, fileVars
  <2>2. kohiko'.base = kohiko.base /\ kohiko'.held = kohiko.held
    BY <2>1 DEF KohikoOK
  <2> QED BY <1>1, <1>2, <2>1, <2>2 DEF TextsOK, DiskTyped, KohikoTyped
<1>6. CASE KohikoDies
  <2>1. PICK f : disk' = disk /\ kohiko' = [kohiko EXCEPT !.at = "off", !.running = f, !.news = "none",
                                                          !.base = <<>>, !.held = <<>>]
    BY <1>6 DEF KohikoDies, Left
  <2>2. kohiko'.base = <<>> /\ kohiko'.held = <<>>
    BY <2>1 DEF KohikoOK
  <2> QED BY <1>1, <1>2, <2>1, <2>2, NoLines DEF TextsOK, DiskTyped, KohikoTyped
<1> QED
  BY <1>3, <1>4, <1>5, <1>6

LEMMA StepsTyped == InTurn /\ RunsTheFile /\ TextsOK /\ [Next]_vars => TextsOK'
<1> SUFFICES ASSUME InTurn, RunsTheFile, TextsOK, [Next]_vars PROVE TextsOK'
  OBVIOUS
<1>1. KohikoOK
  BY DEF RunsTheFile
<1>2. CASE UNCHANGED vars
  BY <1>2 DEF vars, winVars, fileVars, TextsOK, DiskTyped, CopiesTyped, KohikoTyped
<1> QED
  BY <1>1, <1>2, WindowTyped, EventsTyped, KohikoTypedStep DEF Next

\* However the window is used, a key outside the text follows Tab into a rule,
\* Reset to Default or the action button while the text has the focus, or a
\* comma in the output of a monitor rule (SettingsWindow::SetStructuredCellText,
\* SettingsWindow::HandleFieldKey, HandleRawBlockKey, HandleStructuredBlockKey).
THEOREM FaultsAreSlips == Spec => []OnlyStaleCarets
<1>1. TextsOK => OnlyStaleCarets
  BY DEF TextsOK, EditorOK, Editor, Slips, OnlyStaleCarets
<1> QED
  BY <1>1, StartsWhole, StepsInTurn, StartsRunning, StepsRun, StartsTyped, StepsTyped, PTL DEF Spec

(* -------------------- the copy, and what gets to the disk ---------------- *)

CopyKept == open => Kept(synced, lines, touched)

\* What a writer wrote is what it holds, and between two hands on the file it
\* says what the window knows of it.
InSave ==
    /\ at["settings"] # "idle" => open
    /\ at["kohiko"] # "idle" => kohiko.held = Migrated(kohiko.base)
    /\ ~spoilt => /\ at["settings"] = "written" => disk.tmp.lines = lines
                  /\ at["kohiko"] = "written" => disk.tmp.lines = kohiko.held
                  /\ open /\ ~foreign => disk.conf.lines = synced

LEMMA KeptSame == \A ls, but : Kept(ls, ls, but)
BY DEF Kept

LEMMA KeptFurther ==
    ASSUME NEW old, NEW mid \in Seq(ConfLine), NEW new, NEW but, NEW S,
           Kept(old, mid, but), Gets(mid, new, S)
    PROVE  Kept(old, new, but \cup S)
<1>1. \A key \in (Scalar \cup Block) \ (but \cup S) : GetAll(new, key) = GetAll(old, key)
  BY Zenon DEF Kept, Gets
<1>2. ASSUME NEW l \in {old[i] : i \in DOMAIN old}, l.form = "comment"
      PROVE  \E i \in DOMAIN new : new[i] = l
  <2>1. PICK j \in DOMAIN mid : mid[j] = l
    BY <1>2 DEF Kept
  <2>2. PICK k \in DOMAIN new : new[k] = mid[j]
    BY <1>2, <2>1 DEF Gets
  <2> QED BY <2>1, <2>2
<1> QED BY <1>1, <1>2 DEF Kept

LEMMA KeptMigrated ==
    ASSUME NEW ls \in Seq(ConfLine)
    PROVE  Kept(ls, Migrated(ls), Missing(ls))
<1>1. \A key \in (Scalar \cup Block) \ Missing(ls) : GetAll(Migrated(ls), key) = GetAll(ls, key)
  BY MigrationSpares
<1>2. ASSUME NEW l \in {ls[i] : i \in DOMAIN ls}, l.form = "comment"
      PROVE  \E i \in DOMAIN Migrated(ls) : Migrated(ls)[i] = l
  <2>1. PICK i \in DOMAIN ls : l = ls[i]
    OBVIOUS
  <2>2. \E j \in DOMAIN Migrated(ls) : Migrated(ls)[j] = ls[i]
    BY <1>2, <2>1, MigrationSpares
  <2> QED BY <2>1, <2>2
<1> QED BY <1>1, <1>2 DEF Kept

\* One system call of a save: what it does to the file, to what is written and
\* to the other writer.
LEMMA SaveStep ==
    ASSUME InTurn, NEW s \in Saver, NEW ls, NEW next \in {"idle", "renamed"},
           OpenTemp(s) \/ WriteTemp(s, ls) \/ RenameTemp(s, next) \/ SaveFails(s)
    PROVE  /\ \A t \in Saver \ {s} : at'[t] = at[t]
           /\ spoilt => spoilt'
           /\ at[s] \in {"ready", "opened", "written"}
           /\ at'[s] = "renamed" => RenameTemp(s, next)
           /\ RenameTemp(s, next) => at'[s] = next /\ at[s] = "written" /\ disk'.conf.lines = disk.tmp.lines
           /\ ~spoilt' => /\ ~RenameTemp(s, next) => disk'.conf.lines = disk.conf.lines
                          /\ disk'.tmp = disk.tmp \/ \A t \in Saver \ {s} : ~Busy(t)
                          /\ at'[s] = "written" => disk'.tmp.lines = ls
<1>1. FilesOK
  BY DEF InTurn
<1>2. ~spoilt => OneWriter
  BY DEF InTurn
<1>3. CASE OpenTemp(s)
  <2>1. disk' = [conf |-> disk.conf, tmp |-> Torn, bak |-> disk.bak]
    BY <1>1, <1>3, NewConf, NewFiles DEF OpenTemp
  <2>2. at[s] = "ready" /\ at' = [at EXCEPT ![s] = "opened"]
        /\ spoilt' = (spoilt \/ \E t \in Saver \ {s} : Busy(t))
    BY <1>3 DEF OpenTemp, Busy
  <2>3. at'[s] = "opened" /\ \A t \in Saver \ {s} : at'[t] = at[t]
    BY <1>1, <2>2 DEF FilesOK
  <2>4. ~RenameTemp(s, next)
    BY <2>2 DEF RenameTemp
  <2> QED BY <2>1, <2>2, <2>3, <2>4
<1>4. CASE WriteTemp(s, ls)
  <2>1. at[s] = "opened" /\ at' = [at EXCEPT ![s] = "written"]
    BY <1>4 DEF WriteTemp
  <2>5. PICK got \in Flushed(ls) :
          /\ disk' = CASE pen[s] = "tmp" -> [disk EXCEPT !.tmp = Filled(@, ls, got)]
                       [] pen[s] = "conf" -> [disk EXCEPT !.conf = Filled(@, ls, got)]
                       [] OTHER -> disk
          /\ spoilt' = (spoilt \/ got # ls)
    BY <1>4 DEF WriteTemp
  <2>2. at'[s] = "written" /\ \A t \in Saver \ {s} : at'[t] = at[t]
    BY <1>1, <2>1 DEF FilesOK
  <2>3. ~RenameTemp(s, next)
    BY <2>1 DEF RenameTemp
  <2>4. ASSUME ~spoilt'
        PROVE  /\ disk'.conf.lines = disk.conf.lines /\ disk'.tmp.lines = ls
               /\ \A t \in Saver \ {s} : ~Busy(t)
    <3>0. ~spoilt /\ got = ls
      BY <2>4, <2>5
    <3>1. pen[s] = "tmp" /\ \A t \in Saver \ {s} : ~Busy(t)
      BY <1>2, <2>1, <3>0, TwoSavers DEF OneWriter, Busy
    <3>2. disk' = [disk EXCEPT !.tmp = Filled(disk.tmp, ls, got)]
      BY <2>5, <3>1
    <3>3. IsFile(Filled(disk.tmp, ls, got))
      BY <1>1, FilledIsFile DEF FilesOK
    <3>4. disk' = [conf |-> disk.conf, tmp |-> Filled(disk.tmp, ls, got), bak |-> disk.bak]
      BY <1>1, <3>2, <3>3, NewConf
    <3> QED BY <3>0, <3>1, <3>4, FilledLines
  <2> QED BY <2>1, <2>2, <2>3, <2>4, <2>5
<1>5. CASE RenameTemp(s, next)
  <2>1. /\ disk' = [conf |-> disk.tmp, tmp |-> NoFile, bak |-> disk.bak]
        /\ at[s] = "written" /\ at' = [at EXCEPT ![s] = next] /\ spoilt' = spoilt
    BY <1>1, <1>5 DEF RenameTemp, FilesOK
  <2>2. at'[s] = next /\ \A t \in Saver \ {s} : at'[t] = at[t]
    BY <1>1, <2>1 DEF FilesOK
  <2>3. ~spoilt' => \A t \in Saver \ {s} : ~Busy(t)
    BY <1>2, <2>1, TwoSavers DEF OneWriter, Busy
  <2> QED BY <1>5, <2>1, <2>2, <2>3
<1>6. CASE SaveFails(s)
  <2>1. /\ at[s] \in {"ready", "opened"} \/ (at[s] = "written" /\ disk.tmp = NoFile)
        /\ at' = [at EXCEPT ![s] = "idle"] /\ spoilt' = spoilt
        /\ disk' = IF at[s] = "ready" THEN disk ELSE [disk EXCEPT !.tmp = NoFile]
    BY <1>6 DEF SaveFails
  <2>2. at'[s] = "idle" /\ \A t \in Saver \ {s} : at'[t] = at[t]
    BY <1>1, <2>1 DEF FilesOK
  <2>3. ~RenameTemp(s, next)
    BY <2>1 DEF RenameTemp
  <2>4. CASE at[s] = "ready"
    BY <2>1, <2>2, <2>3, <2>4
  <2>5. CASE at[s] # "ready"
    <3>1. disk' = [conf |-> disk.conf, tmp |-> NoFile, bak |-> disk.bak]
      BY <1>1, <2>1, <2>5, NewConf, NewFiles
    <3>2. Busy(s)
      BY <2>1, <2>5 DEF Busy
    <3>3. ~spoilt' => \A t \in Saver \ {s} : ~Busy(t)
      BY <1>2, <2>1, <3>2, TwoSavers DEF OneWriter
    <3> QED BY <2>1, <2>2, <2>3, <3>1, <3>3
  <2> QED BY <2>4, <2>5
<1> QED
  BY <1>3, <1>4, <1>5, <1>6

LEMMA StartsKept == Init => CopyKept /\ InSave
BY TwoSavers DEF Init, CopyKept, InSave, Idle

LEMMA WindowKept ==
    ASSUME InTurn, TextsOK, KohikoOK, CopyKept, InSave,
           Open \/ KeyPress \/ Click \/ Save \/ SettingsWrites \/ ReloadRunningKohiko
    PROVE  CopyKept' /\ InSave'
<1>1. FilesOK /\ EditorOK(ed) /\ lines \in Seq(ConfLine)
  BY DEF InTurn, TextsOK, CopiesTyped
<1>2. CASE Open
  <2>1. /\ ~open /\ open' = TRUE /\ lines' = disk.conf.lines /\ synced' = disk.conf.lines
        /\ disk' = disk /\ at' = at /\ spoilt' = spoilt /\ kohiko' = kohiko
    BY <1>2 DEF Open
  <2>2. CopyKept'
    BY <2>1, KeptSame DEF CopyKept
  <2> QED BY <2>1, <2>2 DEF InSave
<1>3. CASE KeyPress \/ Click
  <2>1. PICK e : Gesture(e)
    BY <1>3 DEF KeyPress, Click
  <2>2. UNCHANGED <<open, lines, synced, touched, disk, at, spoilt, foreign, kohiko>>
    BY <2>1 DEF Gesture, fileVars
  <2> QED BY <2>2 DEF CopyKept, InSave
<1>4. CASE Save
  <2>1. /\ open /\ open' = open /\ at["settings"] = "idle" /\ at' = [at EXCEPT !["settings"] = "ready"]
        /\ disk' = disk /\ spoilt' = spoilt /\ kohiko' = kohiko /\ foreign' = foreign /\ synced' = synced
        /\ touched' = touched \cup Valid
    BY <1>4 DEF Save, Waiting
  <2>2. Gets(lines, lines', Valid)
    BY <1>1, <1>4, SaveSets
  <2>3. CopyKept'
    BY <1>1, <2>1, <2>2, KeptFurther DEF CopyKept
  <2>4. at'["settings"] = "ready" /\ at'["kohiko"] = at["kohiko"]
    BY <1>1, <2>1, TwoSavers DEF FilesOK
  <2> QED BY <2>1, <2>3, <2>4 DEF InSave
<1>5. CASE SettingsWrites
  <2>1. OpenTemp("settings") \/ WriteTemp("settings", lines) \/ RenameTemp("settings", "renamed")
          \/ SaveFails("settings")
    BY <1>5 DEF SettingsWrites
  <2>2. open' = open /\ lines' = lines /\ kohiko' = kohiko
    BY <1>5 DEF SettingsWrites
  <2>3. /\ at'["kohiko"] = at["kohiko"] /\ (spoilt => spoilt')
        /\ at["settings"] \in {"ready", "opened", "written"}
        /\ RenameTemp("settings", "renamed") =>
             at'["settings"] = "renamed" /\ at["settings"] = "written" /\ disk'.conf.lines = disk.tmp.lines
        /\ ~spoilt' => /\ ~RenameTemp("settings", "renamed") => disk'.conf.lines = disk.conf.lines
                       /\ disk'.tmp = disk.tmp \/ ~Busy("kohiko")
                       /\ at'["settings"] = "written" => disk'.tmp.lines = lines
    BY <2>1, SaveStep, TwoSavers
  <2>4. \/ UNCHANGED <<synced, touched, foreign>> /\ ~RenameTemp("settings", "renamed")
        \/ RenameTemp("settings", "renamed") /\ synced' = lines /\ touched' = {} /\ foreign' = FALSE
    BY <1>5 DEF SettingsWrites, OpenTemp, WriteTemp, SaveFails, RenameTemp
  <2>5. CopyKept'
    BY <2>2, <2>4, KeptSame DEF CopyKept
  <2>6. at["settings"] # "idle" /\ open
    BY <2>3 DEF InSave
  <2>7. ASSUME ~spoilt'
        PROVE  /\ at'["settings"] = "written" => disk'.tmp.lines = lines'
               /\ at'["kohiko"] = "written" => disk'.tmp.lines = kohiko'.held
               /\ open' /\ ~foreign' => disk'.conf.lines = synced'
    <3>1. at'["settings"] = "written" => disk'.tmp.lines = lines'
      BY <2>2, <2>3, <2>7
    <3>2. at'["kohiko"] = "written" => disk'.tmp.lines = kohiko'.held
      BY <2>2, <2>3, <2>7 DEF InSave, Busy
    <3>3. open' /\ ~foreign' => disk'.conf.lines = synced'
      BY <2>2, <2>3, <2>4, <2>7 DEF InSave
    <3> QED BY <3>1, <3>2, <3>3
  <2> QED BY <2>2, <2>3, <2>5, <2>6, <2>7 DEF InSave
<1>6. CASE ReloadRunningKohiko
  <2>1. /\ at["settings"] = "renamed" /\ at' = [at EXCEPT !["settings"] = "idle"]
        /\ UNCHANGED <<open, lines, synced, touched, disk, spoilt, foreign>>
        /\ kohiko' = Reloaded(kohiko)
    BY <1>6 DEF ReloadRunningKohiko
  <2>2. at'["settings"] = "idle" /\ at'["kohiko"] = at["kohiko"]
    BY <1>1, <2>1, TwoSavers DEF FilesOK
  <2>3. kohiko'.base = kohiko.base /\ kohiko'.held = kohiko.held
    <3>1. \/ \E f : kohiko' = [kohiko EXCEPT !.running = f, !.news = "none"]
          \/ kohiko' = [kohiko EXCEPT !.news = "missed"]
          \/ kohiko' = kohiko
      BY <2>1 DEF Reloaded
    <3> QED BY <3>1 DEF KohikoOK
  <2> QED BY <2>1, <2>2, <2>3 DEF CopyKept, InSave
<1> QED
  BY <1>2, <1>3, <1>4, <1>5, <1>6

LEMMA EventsKept ==
    ASSUME InTurn, KohikoOK, CopyKept, InSave, Close \/ EditedByHand \/ RestoreConfig
    PROVE  CopyKept' /\ InSave'
<1>1. FilesOK
  BY DEF InTurn
<1>2. kohiko'.base = kohiko.base /\ kohiko'.held = kohiko.held
  <2>1. kohiko' = kohiko \/ kohiko' = News(kohiko, "other")
    BY DEF Close, EditedByHand, RestoreConfig
  <2> QED BY <2>1, NewsTyped
<1>3. CASE Close
  <2>1. /\ open' = FALSE /\ at' = [at EXCEPT !["settings"] = "idle"] /\ disk' = disk /\ spoilt' = spoilt
    BY <1>3 DEF Close, Left
  <2>2. at'["settings"] = "idle" /\ at'["kohiko"] = at["kohiko"]
    BY <1>1, <2>1, TwoSavers DEF FilesOK
  <2> QED BY <1>2, <2>1, <2>2 DEF CopyKept, InSave
<1>4. CASE EditedByHand \/ RestoreConfig
  <2>1. UNCHANGED <<open, lines, synced, touched, at, spoilt>> /\ foreign' = open
    BY <1>4 DEF EditedByHand, RestoreConfig, winVars
  <2>2. disk'.tmp = disk.tmp
    <3>1. CASE EditedByHand
      <4>1. PICK ls : disk' = [disk EXCEPT !.conf.lines = ls]
        BY <3>1 DEF EditedByHand
      <4> QED BY <1>1, <4>1 DEF FilesOK
    <3>2. CASE RestoreConfig
      BY <1>1, <3>2 DEF RestoreConfig, FilesOK
    <3> QED BY <1>4, <3>1, <3>2
  <2> QED BY <1>2, <2>1, <2>2 DEF CopyKept, InSave
<1> QED
  BY <1>3, <1>4

LEMMA KohikoKept ==
    ASSUME InTurn, KohikoOK, CopyKept, InSave, KohikoStarts \/ KohikoWrites \/ KohikoReady \/ KohikoDies
    PROVE  CopyKept' /\ InSave'
<1>1. FilesOK
  BY DEF InTurn
<1>2. UNCHANGED <<open, lines, synced, touched>>
  BY DEF KohikoStarts, KohikoWrites, KohikoReady, KohikoDies, winVars
<1>3. CopyKept'
  BY <1>2 DEF CopyKept
<1>4. CASE KohikoStarts
  <2>1. at["kohiko"] = "idle" /\ spoilt' = spoilt /\ foreign' = foreign
        /\ disk' \in {disk, [disk EXCEPT !.bak = disk.conf]}
    BY <1>4 DEF KohikoStarts, Recover, Migrate
  <2>2. disk'.conf = disk.conf /\ disk'.tmp = disk.tmp
    <3>1. CASE disk' = disk
      BY <3>1
    <3>2. CASE disk' = [disk EXCEPT !.bak = disk.conf]
      BY <1>1, <3>2, NewConf DEF FilesOK
    <3> QED BY <2>1, <3>1, <3>2
  <2>3. CASE Recover \/ (Migrate /\ Missing(disk.conf.lines) = {})
    <3>1. at' = at
      BY <2>3 DEF Recover, Migrate
    <3> QED BY <1>2, <1>3, <2>1, <2>2, <3>1 DEF InSave
  <2>4. CASE Migrate /\ Missing(disk.conf.lines) # {}
    <3>1. /\ kohiko' = [kohiko EXCEPT !.at = "migrating", !.base = disk.conf.lines,
                                      !.held = Migrated(disk.conf.lines), !.marker = TRUE]
          /\ at' = [at EXCEPT !["kohiko"] = "ready"]
      BY <2>4 DEF Migrate
    <3>2. kohiko'.held = Migrated(kohiko'.base)
      BY <3>1 DEF KohikoOK
    <3>3. at'["kohiko"] = "ready" /\ at'["settings"] = at["settings"]
      BY <1>1, <3>1, TwoSavers DEF FilesOK
    <3> QED BY <1>2, <1>3, <2>1, <2>2, <3>2, <3>3 DEF InSave
  <2> QED BY <1>4, <2>3, <2>4 DEF KohikoStarts
<1>5. CASE KohikoWrites
  <2>1. OpenTemp("kohiko") \/ WriteTemp("kohiko", kohiko.held) \/ RenameTemp("kohiko", "idle")
          \/ SaveFails("kohiko")
    BY <1>5 DEF KohikoWrites
  <2>2. /\ at'["settings"] = at["settings"] /\ (spoilt => spoilt')
        /\ at["kohiko"] \in {"ready", "opened", "written"}
        /\ ~spoilt' => /\ ~RenameTemp("kohiko", "idle") => disk'.conf.lines = disk.conf.lines
                       /\ disk'.tmp = disk.tmp \/ ~Busy("settings")
                       /\ at'["kohiko"] = "written" => disk'.tmp.lines = kohiko.held
    BY <2>1, SaveStep, TwoSavers
  <2>3. foreign' = open \/ (foreign' = foreign /\ ~RenameTemp("kohiko", "idle"))
    BY <1>5 DEF KohikoWrites, OpenTemp, WriteTemp, SaveFails, RenameTemp
  <2>4. at'["kohiko"] # "idle" => kohiko' = kohiko
    BY <1>5 DEF KohikoWrites
  <2>5. at'["kohiko"] # "idle" => kohiko'.held = Migrated(kohiko'.base)
    BY <2>2, <2>4 DEF InSave
  <2>6. ASSUME ~spoilt'
        PROVE  /\ at'["settings"] = "written" => disk'.tmp.lines = lines'
               /\ at'["kohiko"] = "written" => disk'.tmp.lines = kohiko'.held
               /\ open' /\ ~foreign' => disk'.conf.lines = synced'
    <3>1. at'["settings"] = "written" => disk'.tmp.lines = lines'
      BY <1>2, <2>2, <2>6 DEF InSave, Busy
    <3>2. at'["kohiko"] = "written" => disk'.tmp.lines = kohiko'.held
      BY <2>2, <2>4, <2>6
    <3>3. open' /\ ~foreign' => disk'.conf.lines = synced'
      BY <1>2, <2>2, <2>3, <2>6 DEF InSave
    <3> QED BY <3>1, <3>2, <3>3
  <2> QED BY <1>2, <1>3, <2>2, <2>5, <2>6 DEF InSave
<1>6. CASE KohikoReady
  <2>1. /\ kohiko' = [kohiko EXCEPT !.at = "up", !.marker = FALSE]
        /\ UNCHANGED <<disk, at, spoilt, foreign>>
    BY <1>6 DEF KohikoReady, fileVars
  <2>2. kohiko'.base = kohiko.base /\ kohiko'.held = kohiko.held
    BY <2>1 DEF KohikoOK
  <2> QED BY <1>2, <1>3, <2>1, <2>2 DEF InSave
<1>7. CASE KohikoDies
  <2>1. at' = [at EXCEPT !["kohiko"] = "idle"] /\ disk' = disk /\ spoilt' = spoilt /\ foreign' = foreign
    BY <1>7 DEF KohikoDies, Left
  <2>2. at'["kohiko"] = "idle" /\ at'["settings"] = at["settings"]
    BY <1>1, <2>1, TwoSavers DEF FilesOK
  <2> QED BY <1>2, <1>3, <2>1, <2>2 DEF InSave
<1> QED
  BY <1>4, <1>5, <1>6, <1>7

LEMMA StepsKept ==
    InTurn /\ RunsTheFile /\ TextsOK /\ CopyKept /\ InSave /\ [Next]_vars => CopyKept' /\ InSave'
<1> SUFFICES ASSUME InTurn, RunsTheFile, TextsOK, CopyKept, InSave, [Next]_vars
             PROVE  CopyKept' /\ InSave'
  OBVIOUS
<1>1. KohikoOK
  BY DEF RunsTheFile
<1>2. CASE UNCHANGED vars
  BY <1>2 DEF vars, winVars, fileVars, CopyKept, InSave
<1> QED
  BY <1>1, <1>2, WindowKept, EventsKept, KohikoKept DEF Next

LEMMA StepsSpareOthers ==
    InTurn /\ RunsTheFile /\ TextsOK /\ CopyKept /\ InSave /\ [Next]_vars =>
      [/\ at["settings"] = "written" /\ at'["settings"] = "renamed" /\ ~spoilt /\ disk.conf.lines = synced
            => Kept(disk.conf.lines, disk'.conf.lines, touched)
       /\ at["kohiko"] = "written" /\ at'["kohiko"] = "idle" /\ ~spoilt /\ disk.conf.lines = kohiko.base
            => Kept(disk.conf.lines, disk'.conf.lines, Missing(kohiko.base))]_vars
<1> SUFFICES ASSUME InTurn, TextsOK, CopyKept, InSave, Next
             PROVE  /\ at["settings"] = "written" /\ at'["settings"] = "renamed" /\ ~spoilt /\ disk.conf.lines = synced
                         => Kept(disk.conf.lines, disk'.conf.lines, touched)
                    /\ at["kohiko"] = "written" /\ at'["kohiko"] = "idle" /\ ~spoilt /\ disk.conf.lines = kohiko.base
                         => Kept(disk.conf.lines, disk'.conf.lines, Missing(kohiko.base))
  OBVIOUS
<1>1. FilesOK /\ disk.conf.lines \in Seq(ConfLine)
  BY DEF InTurn, TextsOK, DiskTyped
<1>2. ASSUME at["settings"] = "written", at'["settings"] = "renamed", ~spoilt, disk.conf.lines = synced
      PROVE  Kept(disk.conf.lines, disk'.conf.lines, touched)
  <2>1. CASE SettingsWrites
    <3>1. OpenTemp("settings") \/ WriteTemp("settings", lines) \/ RenameTemp("settings", "renamed")
            \/ SaveFails("settings")
      BY <2>1 DEF SettingsWrites
    <3>2. RenameTemp("settings", "renamed") /\ disk'.conf.lines = disk.tmp.lines
      BY <1>2, <3>1, SaveStep, TwoSavers
    <3>3. disk'.conf.lines = lines /\ open
      BY <1>2, <3>2 DEF InSave
    <3> QED BY <1>2, <3>3 DEF CopyKept
  <2>2. CASE KohikoWrites
    <3>1. OpenTemp("kohiko") \/ WriteTemp("kohiko", kohiko.held) \/ RenameTemp("kohiko", "idle")
            \/ SaveFails("kohiko")
      BY <2>2 DEF KohikoWrites
    <3>2. at'["settings"] = at["settings"]
      BY <3>1, SaveStep, TwoSavers
    <3> QED BY <1>2, <3>2
  <2>3. CASE Open \/ KeyPress \/ Click \/ Save \/ ReloadRunningKohiko
    <3>1. at' = at \/ at["settings"] # "written"
      BY <2>3 DEF Open, KeyPress, Click, Gesture, fileVars, Save, Waiting, ReloadRunningKohiko
    <3> QED BY <1>2, <3>1
  <2>4. CASE Close \/ EditedByHand \/ RestoreConfig \/ KohikoStarts \/ KohikoReady \/ KohikoDies
    <3>1. \E s \in Saver, next \in {"idle", "ready"} : at' = at \/ at' = [at EXCEPT ![s] = next]
      BY <2>4, TwoSavers DEF Close, Left, EditedByHand, RestoreConfig, KohikoStarts, Recover, Migrate,
         KohikoReady, KohikoDies, fileVars
    <3>2. at'["settings"] \in {at["settings"], "idle", "ready"}
      BY <1>1, <3>1, TwoSavers DEF FilesOK
    <3> QED BY <1>2, <3>2
  <2> QED BY <2>1, <2>2, <2>3, <2>4 DEF Next
<1>3. ASSUME at["kohiko"] = "written", at'["kohiko"] = "idle", ~spoilt, disk.conf.lines = kohiko.base
      PROVE  Kept(disk.conf.lines, disk'.conf.lines, Missing(kohiko.base))
  <2>0. Kept(disk.conf.lines, disk.conf.lines, Missing(kohiko.base))
    BY KeptSame
  <2>1. CASE KohikoWrites
    <3>1. OpenTemp("kohiko") \/ WriteTemp("kohiko", kohiko.held) \/ RenameTemp("kohiko", "idle")
            \/ SaveFails("kohiko")
      BY <2>1 DEF KohikoWrites
    <3>2. spoilt' = spoilt
      BY <1>3, <3>1 DEF OpenTemp, WriteTemp, RenameTemp, SaveFails
    <3>3. \/ disk'.conf.lines = disk.conf.lines
          \/ disk'.conf.lines = disk.tmp.lines
      BY <1>3, <3>1, <3>2, SaveStep, TwoSavers
    <3>4. disk.tmp.lines = Migrated(kohiko.base)
      BY <1>3 DEF InSave
    <3>5. Kept(disk.conf.lines, Migrated(kohiko.base), Missing(kohiko.base))
      BY <1>1, <1>3, KeptMigrated
    <3> QED BY <2>0, <3>3, <3>4, <3>5
  <2>2. CASE SettingsWrites
    <3>1. OpenTemp("settings") \/ WriteTemp("settings", lines) \/ RenameTemp("settings", "renamed")
            \/ SaveFails("settings")
      BY <2>2 DEF SettingsWrites
    <3>2. at'["kohiko"] = at["kohiko"]
      BY <3>1, SaveStep, TwoSavers
    <3> QED BY <1>3, <3>2
  <2>3. CASE Open \/ KeyPress \/ Click \/ Save \/ ReloadRunningKohiko \/ Close \/ KohikoReady \/ KohikoDies
    <3>1. disk' = disk
      BY <2>3 DEF Open, KeyPress, Click, Gesture, fileVars, Save, ReloadRunningKohiko, Close, Left,
         KohikoReady, KohikoDies
    <3> QED BY <2>0, <3>1
  <2>4. CASE EditedByHand \/ RestoreConfig
    <3>1. at' = at
      BY <2>4 DEF EditedByHand, RestoreConfig
    <3> QED BY <1>3, <3>1
  <2>5. CASE KohikoStarts
    BY <1>3, <2>5 DEF KohikoStarts
  <2> QED BY <2>1, <2>2, <2>3, <2>4, <2>5 DEF Next
<1> QED
  BY <1>2, <1>3

\* Nobody's lines but one's own: where nobody wrote the file in between, a save
\* changes what Config reads of the keys the user changed only, a migration of
\* those that were missing, and neither drops a comment
\* (ConfigWriter::SetScalar, ReplaceRawBlock; ConfigMigration::MigrateIfNeeded).
THEOREM SavesSpareOthers == Spec => OthersKept
BY StartsWhole, StepsInTurn, StartsRunning, StepsRun, StartsTyped, StepsTyped, StartsKept, StepsKept,
   StepsSpareOthers, PTL DEF Spec, OthersKept

(* --------------------------- what the window shows ----------------------- *)

\* What counts as loaded is what the copy says; the fields of the workspaces,
\* which are read from the file, may say what it said before.
ShownOK ==
    open =>
      /\ \A f \in Built_ : ed.field[f].loaded = Reads(lines, f)
      /\ \A b \in Block : NonBlank(ed.block[b].loaded) = NonBlank(GetRawBlock(lines, b))
      /\ ~spoilt /\ ~foreign /\ at["settings"] # "renamed" /\ "ws1" \in DOMAIN ed.field =>
           ed.field["ws1"].loaded \in {Reads(lines, "ws1"), Reads(synced, "ws1")}

LEMMA NonBlankTwice ==
    ASSUME NEW X, NEW rows \in Seq(X)
    PROVE  NonBlank(NonBlank(rows)) = NonBlank(rows)
<1>1. PICK S : S = {i \in DOMAIN rows : ~Blank(rows[i])}
  OBVIOUS
<1>2. S \in SUBSET DOMAIN rows
  BY <1>1
<1>3. PICK all : all = Remaining(rows, S)
  OBVIOUS
<1>4. all = NonBlank(rows)
  BY <1>1, <1>3 DEF NonBlank
<1>5. /\ all \in Seq(X) /\ Len(all) = Cardinality(S)
      /\ \A n \in 1..Cardinality(S) : Nth(S, n) \in S /\ all[n] = rows[Nth(S, n)]
  BY <1>2, <1>3, RemainingElements
<1>6. DOMAIN all = 1..Len(all) /\ Len(all) \in Nat
  BY <1>5
<1>7. {i \in DOMAIN all : ~Blank(all[i])} = 1..Len(all)
  BY <1>1, <1>5, <1>6
<1>8. PICK again : again = Remaining(all, 1..Len(all))
  OBVIOUS
<1>9. /\ again \in Seq(X) /\ Len(again) = Len(all)
      /\ \A n \in 1..Len(all) : again[n] = all[n]
  <2>1. Cardinality(1..Len(all)) = Len(all) /\ \A n \in 1..Len(all) : Nth(1..Len(all), n) = n
    BY <1>6, NthOfAll
  <2>2. PICK T : T = 1..Len(all)
    OBVIOUS
  <2>3. T \in SUBSET DOMAIN all
    BY <1>6, <2>2
  <2>4. /\ Remaining(all, T) \in Seq(X) /\ Len(Remaining(all, T)) = Cardinality(T)
        /\ \A n \in 1..Cardinality(T) : Nth(T, n) \in T /\ Remaining(all, T)[n] = all[Nth(T, n)]
    BY <1>5, <2>3, RemainingElements
  <2> QED BY <1>8, <2>1, <2>2, <2>4
<1>10. again = all
  BY <1>5, <1>6, <1>9
<1>11. NonBlank(all) = again
  BY <1>7, <1>8 DEF NonBlank
<1> QED
  BY <1>4, <1>10, <1>11

LEMMA StartsShown == Init => ShownOK
BY DEF Init, ShownOK

LEMMA OpenShown ==
    ASSUME TextsOK, Open PROVE ShownOK'
<1>1. disk.conf.lines \in Seq(ConfLine) /\ Reads(disk.conf.lines, "ws1") \in Name
  BY ReadsText, FieldsAndBlocks DEF TextsOK, DiskTyped
<1>2. PICK e : e = Built(disk.conf.lines)
  OBVIOUS
<1>3. /\ EditorOK(e) /\ \A f \in Built_ : e.field[f].loaded = Reads(disk.conf.lines, f)
      /\ \A b \in Block : e.block[b].loaded = GetRawBlock(disk.conf.lines, b)
  BY <1>1, <1>2, BuiltOK
<1>4. PICK x : x = BuildWorkspaceFields(e)
  OBVIOUS
<1>5. /\ KeepsLoaded(e, x)
      /\ "ws1" \in DOMAIN x.field => x.field["ws1"].loaded = Reads(disk.conf.lines, "ws1")
  BY <1>1, <1>3, <1>4, BuildWorkspaceFieldsOK
<1>6. ed' = x /\ lines' = disk.conf.lines /\ synced' = disk.conf.lines
  BY <1>2, <1>4 DEF Open
<1>7. \A f \in Built_ : x.field[f].loaded = Reads(disk.conf.lines, f)
  BY <1>3, <1>5 DEF KeepsLoaded
<1>8. \A b \in Block : x.block[b].loaded = GetRawBlock(disk.conf.lines, b)
  BY <1>3, <1>5 DEF KeepsLoaded
<1> QED
  BY <1>5, <1>6, <1>7, <1>8, Zenon DEF ShownOK, Reads, Fallback

LEMMA GesturesShown ==
    ASSUME TextsOK, InSave, ShownOK, KeyPress \/ Click PROVE ShownOK'
<1>1. EditorOK(ed) /\ Reads(disk.conf.lines, "ws1") \in Name /\ ed \in Editor
  BY ReadsText, FieldsAndBlocks DEF TextsOK, DiskTyped, EditorOK
<1>2. PICK x : x = BuildWorkspaceFields(ed)
  OBVIOUS
<1>3. /\ EditorOK(x) /\ x \in Editor /\ KeepsLoaded(ed, x)
      /\ "ws1" \in DOMAIN x.field => x.field["ws1"].loaded = Reads(disk.conf.lines, "ws1")
  BY <1>1, <1>2, BuildWorkspaceFieldsOK DEF EditorOK
<1>4. PICK e : Gesture(e)
  BY DEF KeyPress, Click
<1>5. UNCHANGED <<open, lines, synced, disk, at, spoilt, foreign>>
  BY <1>4 DEF Gesture, fileVars
<1>6. Edits(ed, ed') \/ Edits(x, ed')
  BY <1>2, GesturesTyped
<1>7. KeepsLoaded(ed, ed')
  <2>1. CASE Edits(ed, ed')
    BY <1>1, <2>1, SameLoadedKeeps DEF Edits
  <2>2. CASE Edits(x, ed')
    <3>1. KeepsLoaded(x, ed')
      BY <1>3, <2>2, SameLoadedKeeps DEF Edits
    <3> QED BY <1>3, <3>1 DEF KeepsLoaded
  <2> QED BY <1>6, <2>1, <2>2
<1>8. "ws1" \in DOMAIN ed'.field =>
        \/ "ws1" \in DOMAIN ed.field /\ ed'.field["ws1"].loaded = ed.field["ws1"].loaded
        \/ ed'.field["ws1"].loaded = Reads(disk.conf.lines, "ws1")
  <2>1. CASE Edits(ed, ed')
    BY <2>1 DEF Edits, SameLoaded
  <2>2. CASE Edits(x, ed')
    BY <1>3, <2>2 DEF Edits, SameLoaded
  <2> QED BY <1>6, <2>1, <2>2
<1>9. ASSUME open'
      PROVE  /\ \A f \in Built_ : ed'.field[f].loaded = Reads(lines, f)
             /\ \A b \in Block : NonBlank(ed'.block[b].loaded) = NonBlank(GetRawBlock(lines, b))
             /\ ~spoilt /\ ~foreign /\ at["settings"] # "renamed" /\ "ws1" \in DOMAIN ed'.field =>
                  ed'.field["ws1"].loaded \in {Reads(lines, "ws1"), Reads(synced, "ws1")}
  <2>1. open
    BY <1>5, <1>9
  <2>2. \A f \in Built_ : ed'.field[f].loaded = Reads(lines, f)
    BY <1>7, <2>1 DEF ShownOK, KeepsLoaded
  <2>3. \A b \in Block : NonBlank(ed'.block[b].loaded) = NonBlank(GetRawBlock(lines, b))
    <3> SUFFICES ASSUME NEW b \in Block
                 PROVE  NonBlank(ed'.block[b].loaded) = NonBlank(GetRawBlock(lines, b))
      OBVIOUS
    <3>1. ed'.block[b].loaded = ed.block[b].loaded
      BY <1>7 DEF KeepsLoaded
    <3>2. NonBlank(ed.block[b].loaded) = NonBlank(GetRawBlock(lines, b))
      BY <2>1 DEF ShownOK
    <3> QED BY <3>1, <3>2, Zenon
  <2>4. ~spoilt /\ ~foreign => disk.conf.lines = synced
    BY <2>1 DEF InSave
  <2>5. ASSUME ~spoilt, ~foreign, at["settings"] # "renamed", "ws1" \in DOMAIN ed'.field
        PROVE  ed'.field["ws1"].loaded \in {Reads(lines, "ws1"), Reads(synced, "ws1")}
    <3>1. CASE "ws1" \in DOMAIN ed.field /\ ed'.field["ws1"].loaded = ed.field["ws1"].loaded
      BY <2>1, <2>5, <3>1 DEF ShownOK
    <3>2. CASE ed'.field["ws1"].loaded = Reads(disk.conf.lines, "ws1")
      BY <2>4, <2>5, <3>2
    <3> QED BY <1>8, <2>5, <3>1, <3>2
  <2> QED BY <2>2, <2>3, <2>5
<1> QED
  BY <1>5, <1>9, Zenon DEF ShownOK, Reads, Fallback

LEMMA SaveShown ==
    ASSUME TextsOK, ShownOK, Save PROVE ShownOK'
<1>1. EditorOK(ed) /\ ed \in Editor /\ lines \in Seq(ConfLine)
  BY DEF TextsOK, EditorOK, CopiesTyped
<1>2. PICK new : new = lines'
  OBVIOUS
<1>3. Gets(lines, new, Valid) /\ ed' = Took(ed, Valid)
  BY <1>1, <1>2, SaveSets
<1>4. PICK x : x = Took(ed, Valid)
  OBVIOUS
<1>5. /\ DOMAIN x.field = DOMAIN ed.field
      /\ \A f \in DOMAIN ed.field :
           x.field[f].loaded = IF f \in Valid THEN ed.field[f].now ELSE ed.field[f].loaded
      /\ \A b \in Block :
           x.block[b].loaded = IF b \in Valid THEN ed.block[b].rows ELSE ed.block[b].loaded
  BY <1>1, <1>4, TookOK
<1>6. /\ open /\ at["settings"] = "idle"
      /\ UNCHANGED <<open, synced, spoilt, foreign>>
  BY DEF Save, Waiting
<1>7. Built_ \subseteq DOMAIN ed.field /\ DOMAIN ed.field \subseteq Field
  BY <1>1, FieldsOfEditor DEF Built_, Field
<1>8. \A f \in Field : IF f \in Valid THEN Reads(new, f) = ed.field[f].now ELSE Reads(new, f) = Reads(lines, f)
  <2> SUFFICES ASSUME NEW f \in Field
               PROVE  IF f \in Valid THEN Reads(new, f) = ed.field[f].now ELSE Reads(new, f) = Reads(lines, f)
    OBVIOUS
  <2>1. CASE f \in Valid
    BY <1>3, <2>1 DEF Gets
  <2>2. CASE f \notin Valid
    <3>1. GetAll(new, f) = GetAll(lines, f) /\ new \in Seq(ConfLine)
      BY <1>3, <2>2 DEF Gets
    <3> QED BY <1>1, <2>2, <3>1, SameReads
  <2> QED BY <2>1, <2>2
<1>9. \A f \in Built_ : x.field[f].loaded = Reads(new, f)
  BY <1>5, <1>6, <1>7, <1>8 DEF ShownOK
<1>10. \A b \in Block : NonBlank(x.block[b].loaded) = NonBlank(GetRawBlock(new, b))
  <2> SUFFICES ASSUME NEW b \in Block
               PROVE  NonBlank(x.block[b].loaded) = NonBlank(GetRawBlock(new, b))
    OBVIOUS
  <2>1. CASE b \in Valid
    <3>1. PICK rows : rows = ed.block[b].rows
      OBVIOUS
    <3>2. rows \in Seq(Row(b))
      BY <1>1, <3>1, RowsOfBlock
    <3>3. GetRawBlock(new, b) = NonBlank(rows)
      BY <1>3, <2>1, <3>1 DEF Gets
    <3>4. x.block[b].loaded = rows
      BY <1>5, <2>1, <3>1
    <3>5. NonBlank(NonBlank(rows)) = NonBlank(rows)
      BY <3>2, NonBlankTwice
    <3> QED BY <3>3, <3>4, <3>5, Zenon
  <2>2. CASE b \notin Valid
    <3>1. GetRawBlock(new, b) = GetRawBlock(lines, b)
      BY <1>3, <2>2, Zenon DEF Gets
    <3>2. x.block[b].loaded = ed.block[b].loaded
      BY <1>5, <2>2
    <3>3. NonBlank(ed.block[b].loaded) = NonBlank(GetRawBlock(lines, b))
      BY <1>6 DEF ShownOK
    <3> QED BY <3>1, <3>2, <3>3, Zenon
  <2> QED BY <2>1, <2>2
<1>11. ASSUME ~spoilt, ~foreign, "ws1" \in DOMAIN x.field
       PROVE  x.field["ws1"].loaded \in {Reads(new, "ws1"), Reads(synced, "ws1")}
  <2>1. "ws1" \in Field /\ "ws1" \in DOMAIN ed.field
    BY <1>5, <1>11, FieldsAndBlocks
  <2>2. ed.field["ws1"].loaded \in {Reads(lines, "ws1"), Reads(synced, "ws1")}
    BY <1>6, <1>11, <2>1 DEF ShownOK
  <2>3. CASE "ws1" \in Valid
    BY <1>5, <1>8, <2>1, <2>3
  <2>4. CASE "ws1" \notin Valid
    BY <1>5, <1>8, <2>1, <2>2, <2>4
  <2> QED BY <2>3, <2>4
<1> QED
  BY <1>2, <1>3, <1>4, <1>6, <1>9, <1>10, <1>11, Zenon DEF ShownOK, Reads, Fallback

LEMMA ReloadShown ==
    ASSUME TextsOK, InSave, ShownOK, ReloadRunningKohiko PROVE ShownOK'
<1>1. EditorOK(ed) /\ Reads(disk.conf.lines, "ws1") \in Name /\ ed \in Editor
  BY ReadsText, FieldsAndBlocks DEF TextsOK, DiskTyped, EditorOK
<1>2. PICK x : x = BuildWorkspaceFields(ed)
  OBVIOUS
<1>3. /\ KeepsLoaded(ed, x)
      /\ "ws1" \in DOMAIN x.field => x.field["ws1"].loaded = Reads(disk.conf.lines, "ws1")
  BY <1>1, <1>2, BuildWorkspaceFieldsOK
<1>4. ed' = x /\ open /\ UNCHANGED <<open, lines, synced, spoilt, foreign>>
  BY <1>2 DEF ReloadRunningKohiko
<1>5. \A f \in Built_ : x.field[f].loaded = Reads(lines, f)
  BY <1>3, <1>4 DEF KeepsLoaded, ShownOK
<1>6. \A b \in Block : NonBlank(x.block[b].loaded) = NonBlank(GetRawBlock(lines, b))
  <2> SUFFICES ASSUME NEW b \in Block
               PROVE  NonBlank(x.block[b].loaded) = NonBlank(GetRawBlock(lines, b))
    OBVIOUS
  <2>1. x.block[b].loaded = ed.block[b].loaded
    BY <1>3 DEF KeepsLoaded
  <2>2. NonBlank(ed.block[b].loaded) = NonBlank(GetRawBlock(lines, b))
    BY <1>4 DEF ShownOK
  <2> QED BY <2>1, <2>2, Zenon
<1>7. ASSUME ~spoilt, ~foreign, "ws1" \in DOMAIN x.field
      PROVE  x.field["ws1"].loaded = Reads(synced, "ws1")
  <2>1. disk.conf.lines = synced
    BY <1>4, <1>7 DEF InSave
  <2> QED BY <1>3, <1>7, <2>1
<1> QED
  BY <1>4, <1>5, <1>6, <1>7, Zenon DEF ShownOK, Reads, Fallback

\* What happens around the window does not change what it shows.
LEMMA SameShown ==
    ASSUME ShownOK, UNCHANGED <<open, ed, lines, synced>>, spoilt => spoilt', foreign => foreign' \/ ~open,
           at["settings"] = "renamed" => at'["settings"] = "renamed" \/ ~open
    PROVE  ShownOK'
<1>1. ASSUME open
      PROVE  /\ \A f \in Built_ : ed.field[f].loaded = Reads(lines, f)
             /\ \A b \in Block : NonBlank(ed.block[b].loaded) = NonBlank(GetRawBlock(lines, b))
             /\ ~spoilt' /\ ~foreign' /\ at'["settings"] # "renamed" /\ "ws1" \in DOMAIN ed.field =>
                  ed.field["ws1"].loaded \in {Reads(lines, "ws1"), Reads(synced, "ws1")}
  BY <1>1, Zenon DEF ShownOK
<1> QED
  BY <1>1, Zenon DEF ShownOK, Reads, Fallback

LEMMA StepsShown ==
    InTurn /\ RunsTheFile /\ TextsOK /\ CopyKept /\ InSave /\ ShownOK /\ [Next]_vars => ShownOK'
<1> SUFFICES ASSUME InTurn, TextsOK, InSave, ShownOK, [Next]_vars PROVE ShownOK'
  OBVIOUS
<1>1. FilesOK
  BY DEF InTurn
<1>2. CASE UNCHANGED vars
  BY <1>2, SameShown DEF vars, winVars, fileVars
<1>3. CASE SettingsWrites
  <2>1. OpenTemp("settings") \/ WriteTemp("settings", lines) \/ RenameTemp("settings", "renamed")
          \/ SaveFails("settings")
    BY <1>3 DEF SettingsWrites
  <2>2. /\ spoilt => spoilt'
        /\ at["settings"] \in {"ready", "opened", "written"}
        /\ RenameTemp("settings", "renamed") => at'["settings"] = "renamed"
    BY <2>1, SaveStep, TwoSavers
  <2>3. UNCHANGED <<open, ed, lines>>
    BY <1>3 DEF SettingsWrites
  <2>4. CASE RenameTemp("settings", "renamed")
    <3>1. open =>
            /\ \A f \in Built_ : ed.field[f].loaded = Reads(lines, f)
            /\ \A b \in Block : NonBlank(ed.block[b].loaded) = NonBlank(GetRawBlock(lines, b))
      BY Zenon DEF ShownOK
    <3>2. at'["settings"] = "renamed"
      BY <2>2, <2>4
    <3> QED BY <2>3, <3>1, <3>2, Zenon DEF ShownOK, Reads, Fallback
  <2>5. CASE ~RenameTemp("settings", "renamed")
    <3>1. synced' = synced /\ foreign' = foreign
      BY <1>3, <2>5 DEF SettingsWrites
    <3> QED BY <2>2, <2>3, <3>1, SameShown
  <2> QED BY <2>4, <2>5
<1>4. CASE KohikoWrites
  <2>1. OpenTemp("kohiko") \/ WriteTemp("kohiko", kohiko.held) \/ RenameTemp("kohiko", "idle")
          \/ SaveFails("kohiko")
    BY <1>4 DEF KohikoWrites
  <2>2. /\ at'["settings"] = at["settings"]
        /\ spoilt => spoilt'
    BY <2>1, SaveStep, TwoSavers
  <2>3. UNCHANGED <<open, ed, lines, synced>> /\ (foreign' = open \/ foreign' = foreign)
    BY <1>4 DEF KohikoWrites, winVars
  <2> QED BY <2>2, <2>3, SameShown
<1>5. CASE Close
  <2>1. open' = FALSE
    BY <1>5 DEF Close
  <2> QED BY <2>1 DEF ShownOK
<1>6. CASE EditedByHand \/ RestoreConfig \/ KohikoStarts \/ KohikoReady \/ KohikoDies
  <2>1. /\ UNCHANGED <<open, ed, lines, synced>> /\ spoilt' = spoilt
        /\ foreign' = open \/ foreign' = foreign
    BY <1>6 DEF EditedByHand, RestoreConfig, KohikoStarts, KohikoReady, KohikoDies, Left, winVars, fileVars
  <2>2. \E next \in {"idle", "ready"} : at' = at \/ at' = [at EXCEPT !["kohiko"] = next]
    BY <1>6 DEF EditedByHand, RestoreConfig, KohikoStarts, Recover, Migrate, KohikoReady, KohikoDies, Left,
       fileVars
  <2>3. at'["settings"] = at["settings"]
    BY <1>1, <2>2, TwoSavers DEF FilesOK
  <2> QED BY <2>1, <2>3, SameShown
<1> QED
  BY <1>2, <1>3, <1>4, <1>5, <1>6, OpenShown, GesturesShown, SaveShown, ReloadShown DEF Next

LEMMA ShownNow == TextsOK /\ InSave /\ ShownOK => ShownIsSaved
<1> SUFFICES ASSUME TextsOK, InSave, ShownOK, open, lines = disk.conf.lines
             PROVE  /\ \A f \in DOMAIN ed.field :
                         Fresh(f) /\ ~FieldDirty(ed, f) => ed.field[f].now = Reads(disk.conf.lines, f)
                    /\ \A b \in Block : ~BlockDirty(ed, b) =>
                         NonBlank(ed.block[b].rows) = NonBlank(GetRawBlock(disk.conf.lines, b))
  BY Zenon DEF ShownIsSaved
<1>1. DOMAIN ed.field \subseteq Built_ \cup {"ws1"}
  BY FieldsOfEditor DEF TextsOK, EditorOK, Built_, Field
<1>2. ASSUME NEW f \in DOMAIN ed.field, Fresh(f), ~FieldDirty(ed, f)
      PROVE  ed.field[f].now = Reads(disk.conf.lines, f)
  <2>1. ed.field[f].now = ed.field[f].loaded
    BY <1>2 DEF FieldDirty
  <2>2. CASE f # "ws1"
    BY <1>1, <2>1, <2>2 DEF ShownOK
  <2>3. CASE f = "ws1"
    <3>1. at["settings"] = "idle" /\ ~spoilt /\ ~foreign
      BY <1>2, <2>3 DEF Fresh
    <3>2. synced = lines
      BY <3>1 DEF InSave
    <3> QED BY <2>1, <2>3, <3>1, <3>2 DEF ShownOK
  <2> QED BY <2>2, <2>3
<1>3. ASSUME NEW b \in Block, ~BlockDirty(ed, b)
      PROVE  NonBlank(ed.block[b].rows) = NonBlank(GetRawBlock(disk.conf.lines, b))
  <2>1. ed.block[b].rows = ed.block[b].loaded
    BY <1>3 DEF BlockDirty
  <2>2. NonBlank(ed.block[b].loaded) = NonBlank(GetRawBlock(lines, b))
    BY DEF ShownOK
  <2> QED BY <2>1, <2>2
<1> QED
  BY <1>2, <1>3

\* The screen, the file and the running Kohiko say the same after a save: what
\* is not marked as changed is what the file says, whatever was typed, skipped,
\* failed or saved before, and Kohiko runs with it
\* (SettingsWindow::Save, BuildWorkspaceFields, ReloadRunningKohiko).
THEOREM SavedShows == Spec => []SavedIsShownAndRuns
<1>1. TextsOK /\ InSave /\ ShownOK /\ RunsTheFile => SavedIsShownAndRuns
  BY ShownNow DEF SavedIsShownAndRuns, RunsTheFile, RunsWith, RunningIsSaved
<1> QED
  BY <1>1, StartsWhole, StepsInTurn, StartsRunning, StepsRun, StartsTyped, StepsTyped, StartsKept,
     StepsKept, StartsShown, StepsShown, PTL DEF Spec
==============================================================================
