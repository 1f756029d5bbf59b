----------------------------- MODULE BSPTree_proofs -----------------------------
(***************************************************************************)
(* Proofs about BSPTree, for every tree, set of windows, tiling area, gap  *)
(* and minimum: the tree stays a tree under every operation (TreeStays),   *)
(* its tiles stay apart and inside the area and the neighbour found is     *)
(* across the gap (TilesStayNeighbours), neither a window that comes nor   *)
(* one that goes costs another its room (OthersKeepRoom), the rules saved  *)
(* of it rebuild it (ReplayAlwaysRebuilds), and a habit takes more than    *)
(* one vote and a window to its edge (HabitsStayEarned).                   *)
(*                                                                         *)
(* The order: induction, paths, the shape of a tree; each operation keeps  *)
(* it; the invariant TreeInv; the slots LayoutEngine gives the nodes, from *)
(* the root down (Downwards) or from the leaves up (Upwards); making room, *)
(* closing and neighbours; the order of the rules and their replay; votes, *)
(* and the walk of the nudge.                                              *)
(***************************************************************************)
EXTENDS BSPTree, SequenceTheorems, FiniteSetTheorems, WellFoundedInduction, TLAPS

(* ------------------------------- induction ------------------------------- *)

\* Any numbers have a least one.
LEMMA LeastNumber ==
    ASSUME NEW T, T \subseteq Nat, T # {}
    PROVE  \E x \in T : \A y \in T : x <= y
<1>1. PICK x \in T : \A y \in T : <<y, x>> \notin OpToRel(<, Nat)
  BY NatLessThanWellFounded, WFMin
<1>2. \A y \in T : ~(y < x)
  BY <1>1 DEF OpToRel
<1>3. \A y \in T : x <= y
  BY <1>2, SMT
<1> QED
  BY <1>3

\* Induction over the numbers, for a set: what an operator parameter would say
\* of a predicate.
LEMMA Induction ==
    ASSUME NEW T \in SUBSET Nat, 0 \in T, \A n \in T : n + 1 \in T
    PROVE  T = Nat
<1>1. SUFFICES ASSUME Nat \ T # {} PROVE FALSE
  OBVIOUS
<1>2. PICK x \in Nat \ T : \A y \in Nat \ T : x <= y
  BY <1>1, LeastNumber
<1>3. x # 0 /\ x - 1 \in Nat
  BY <1>2, SMT
<1>4. x - 1 \in T
  BY <1>2, <1>3, SMT
<1>5. (x - 1) + 1 \in T
  BY <1>4
<1> QED
  BY <1>2, <1>5, SMT

(* --------------------------------- paths --------------------------------- *)

Path == Seq({0, 1})

\* A path, its length and its steps
LEMMA PathFacts ==
    ASSUME NEW p \in Path
    PROVE  /\ Len(p) \in Nat /\ DOMAIN p = 1..Len(p)
           /\ \A i \in 1..Len(p) : p[i] \in {0, 1}
           /\ Len(p) = 0 <=> p = <<>>
<1>1. p \in Seq({0, 1})
  BY DEF Path
<1>2. Len(p) \in Nat /\ DOMAIN p = 1..Len(p) /\ \A i \in 1..Len(p) : p[i] \in {0, 1}
  BY <1>1, LenProperties, ElementOfSeq
<1>3. Len(p) = 0 <=> p = <<>>
  BY <1>1, EmptySeq
<1> QED
  BY <1>2, <1>3

\* Paths that take the same steps are the same.
LEMMA SamePath ==
    ASSUME NEW p \in Path, NEW q \in Path, Len(p) = Len(q),
           \A i \in 1..Len(p) : p[i] = q[i]
    PROVE  p = q
<1>1. p \in Seq({0, 1}) /\ q \in Seq({0, 1})
  BY DEF Path
<1> QED
  BY <1>1, SeqEqual

LEMMA RootIsPath == <<>> \in Path /\ Len(<<>>) = 0
BY EmptySeq DEF Path

\* A child is one step further.
LEMMA ChildFacts ==
    ASSUME NEW p \in Path, NEW b \in {0, 1}
    PROVE  /\ Append(p, b) \in Path /\ Append(p, b) # <<>>
           /\ Len(Append(p, b)) = Len(p) + 1
           /\ \A i \in 1..Len(p) : Append(p, b)[i] = p[i]
           /\ Append(p, b)[Len(p) + 1] = b
<1>1. p \in Seq({0, 1})
  BY DEF Path
<1> QED
  BY <1>1, AppendProperties DEF Path

\* The first steps of a path
LEMMA CutFacts ==
    ASSUME NEW p \in Path, NEW n \in 0..Len(p)
    PROVE  /\ SubSeq(p, 1, n) \in Path /\ Len(SubSeq(p, 1, n)) = n
           /\ \A i \in 1..n : SubSeq(p, 1, n)[i] = p[i]
<1>1. Len(p) \in Nat /\ \A i \in 1..Len(p) : p[i] \in {0, 1}
  BY PathFacts
<1>2. n \in Int /\ 1 \in Int /\ \A i \in 1..n : p[i] \in {0, 1}
  BY <1>1, SMT
<1>3. /\ SubSeq(p, 1, n) \in Seq({0, 1})
      /\ Len(SubSeq(p, 1, n)) = IF 1 <= n THEN n - 1 + 1 ELSE 0
      /\ \A i \in 1..n - 1 + 1 : SubSeq(p, 1, n)[i] = p[1 + i - 1]
  BY <1>2, SubSeqProperties
<1>4. Len(SubSeq(p, 1, n)) = n
  BY <1>1, <1>3, SMT
<1>5. ASSUME NEW i \in 1..n PROVE SubSeq(p, 1, n)[i] = p[i]
  <2>1. i \in 1..n - 1 + 1 /\ 1 + i - 1 = i
    BY <1>1, SMT
  <2> QED
    BY <1>3, <2>1
<1> QED
  BY <1>3, <1>4, <1>5 DEF Path

\* The last steps of a path
LEMMA RestFacts ==
    ASSUME NEW p \in Path, NEW n \in 0..Len(p)
    PROVE  /\ SubSeq(p, n + 1, Len(p)) \in Path /\ Len(SubSeq(p, n + 1, Len(p))) = Len(p) - n
           /\ \A i \in 1..(Len(p) - n) : SubSeq(p, n + 1, Len(p))[i] = p[n + i]
<1>1. Len(p) \in Nat /\ \A i \in 1..Len(p) : p[i] \in {0, 1}
  BY PathFacts
<1>2. n + 1 \in Int /\ Len(p) \in Int /\ \A i \in (n + 1)..Len(p) : p[i] \in {0, 1}
  BY <1>1, SMT
<1>3. /\ SubSeq(p, n + 1, Len(p)) \in Seq({0, 1})
      /\ Len(SubSeq(p, n + 1, Len(p))) = IF n + 1 <= Len(p) THEN Len(p) - (n + 1) + 1 ELSE 0
      /\ \A i \in 1..Len(p) - (n + 1) + 1 : SubSeq(p, n + 1, Len(p))[i] = p[(n + 1) + i - 1]
  BY <1>2, SubSeqProperties
<1>4. Len(SubSeq(p, n + 1, Len(p))) = Len(p) - n
  BY <1>1, <1>3, SMT
<1>5. ASSUME NEW i \in 1..(Len(p) - n) PROVE SubSeq(p, n + 1, Len(p))[i] = p[n + i]
  <2>1. i \in 1..Len(p) - (n + 1) + 1 /\ (n + 1) + i - 1 = n + i
    BY <1>1, SMT
  <2> QED
    BY <1>3, <2>1
<1> QED
  BY <1>3, <1>4, <1>5 DEF Path

\* One path after another
LEMMA JoinFacts ==
    ASSUME NEW p \in Path, NEW q \in Path
    PROVE  /\ p \o q \in Path /\ Len(p \o q) = Len(p) + Len(q)
           /\ \A i \in 1..Len(p) : (p \o q)[i] = p[i]
           /\ \A i \in (Len(p) + 1)..(Len(p) + Len(q)) : (p \o q)[i] = q[i - Len(p)]
<1>1. p \in Seq({0, 1}) /\ q \in Seq({0, 1}) /\ Len(p) \in Nat /\ Len(q) \in Nat
  BY PathFacts DEF Path
<1>2. /\ p \o q \in Seq({0, 1}) /\ Len(p \o q) = Len(p) + Len(q)
      /\ \A i \in 1 .. Len(p) + Len(q) :
           (p \o q)[i] = IF i <= Len(p) THEN p[i] ELSE q[i - Len(p)]
  BY <1>1, ConcatProperties
<1>3. /\ \A i \in 1..Len(p) : i \in 1 .. Len(p) + Len(q) /\ i <= Len(p)
      /\ \A i \in (Len(p) + 1)..(Len(p) + Len(q)) : i \in 1 .. Len(p) + Len(q) /\ ~(i <= Len(p))
  BY <1>1, SMT
<1> QED
  BY <1>2, <1>3 DEF Path

\* A prefix, element by element.
LEMMA PrefixAt ==
    ASSUME NEW p \in Path, NEW q \in Path
    PROVE  IsPrefix(p, q) <=> Len(p) <= Len(q) /\ \A i \in 1..Len(p) : p[i] = q[i]
<1>1. Len(p) \in Nat /\ Len(q) \in Nat
  BY PathFacts
<1>2. SUFFICES ASSUME Len(p) <= Len(q)
               PROVE  SubSeq(p, 1, Len(p)) = SubSeq(q, 1, Len(p))
                        <=> \A i \in 1..Len(p) : p[i] = q[i]
  BY DEF IsPrefix
<1>3. Len(p) \in 0..Len(p) /\ Len(p) \in 0..Len(q)
  BY <1>1, <1>2, SMT
<1>4. /\ SubSeq(p, 1, Len(p)) \in Path /\ Len(SubSeq(p, 1, Len(p))) = Len(p)
      /\ \A i \in 1..Len(p) : SubSeq(p, 1, Len(p))[i] = p[i]
  BY <1>3, CutFacts
<1>5. /\ SubSeq(q, 1, Len(p)) \in Path /\ Len(SubSeq(q, 1, Len(p))) = Len(p)
      /\ \A i \in 1..Len(p) : SubSeq(q, 1, Len(p))[i] = q[i]
  BY <1>3, CutFacts
<1>6. ASSUME SubSeq(p, 1, Len(p)) = SubSeq(q, 1, Len(p)), NEW i \in 1..Len(p)
      PROVE  p[i] = q[i]
  BY <1>4, <1>5, <1>6
<1>7. ASSUME \A i \in 1..Len(p) : p[i] = q[i]
      PROVE  SubSeq(p, 1, Len(p)) = SubSeq(q, 1, Len(p))
  BY <1>4, <1>5, <1>7, SamePath
<1> QED
  BY <1>6, <1>7

\* The parent of a node is one step less.
LEMMA ParentFacts ==
    ASSUME NEW p \in Path, p # <<>>
    PROVE  /\ Len(p) \in Nat \ {0}
           /\ Parent(p) \in Path /\ Len(Parent(p)) = Len(p) - 1
           /\ \A i \in 1..(Len(p) - 1) : Parent(p)[i] = p[i]
           /\ Last(p) = p[Len(p)] /\ Last(p) \in {0, 1} /\ 1 - Last(p) \in {0, 1}
           /\ Sibling(p) = Append(Parent(p), 1 - Last(p))
           /\ Append(Parent(p), Last(p)) = p
<1>1. Len(p) \in Nat \ {0} /\ \A i \in 1..Len(p) : p[i] \in {0, 1}
  BY PathFacts
<1>2. Len(p) - 1 \in 0..Len(p) /\ Len(p) \in 1..Len(p)
  BY <1>1, SMT
<1>3. /\ Parent(p) \in Path /\ Len(Parent(p)) = Len(p) - 1
      /\ \A i \in 1..(Len(p) - 1) : Parent(p)[i] = p[i]
  BY <1>2, CutFacts DEF Parent, Front
<1>4. Last(p) = p[Len(p)] /\ Last(p) \in {0, 1}
  BY <1>1, <1>2 DEF Last
<1>5. 1 - Last(p) \in {0, 1}
  BY <1>4, SMT
<1>6. Sibling(p) = Append(Parent(p), 1 - Last(p))
  BY DEF Sibling, Parent
<1>7. Append(Parent(p), Last(p)) = p
  <2>1. /\ Append(Parent(p), Last(p)) \in Path
        /\ Len(Append(Parent(p), Last(p))) = (Len(p) - 1) + 1
        /\ \A i \in 1..(Len(p) - 1) : Append(Parent(p), Last(p))[i] = Parent(p)[i]
        /\ Append(Parent(p), Last(p))[(Len(p) - 1) + 1] = Last(p)
    BY <1>3, <1>4, ChildFacts
  <2>2. /\ (Len(p) - 1) + 1 = Len(p)
        /\ \A i \in 1..Len(p) : i \in 1..(Len(p) - 1) \/ i = Len(p)
    BY <1>1, SMT
  <2>3. \A i \in 1..Len(p) : Append(Parent(p), Last(p))[i] = p[i]
    BY <1>3, <1>4, <2>1, <2>2
  <2> QED
    BY <2>1, <2>2, <2>3, SamePath
<1> QED
  BY <1>1, <1>3, <1>4, <1>5, <1>6, <1>7

LEMMA ChildOfParent ==
    ASSUME NEW p \in Path, NEW b \in {0, 1}
    PROVE  Parent(Append(p, b)) = p /\ Last(Append(p, b)) = b
<1> DEFINE c == Append(p, b)
<1>1. /\ Len(p) \in Nat /\ c \in Path /\ c # <<>> /\ Len(c) = Len(p) + 1
      /\ \A i \in 1..Len(p) : c[i] = p[i]
      /\ c[Len(p) + 1] = b
  BY PathFacts, ChildFacts
<1>2. /\ Parent(c) \in Path /\ Len(Parent(c)) = Len(c) - 1
      /\ \A i \in 1..(Len(c) - 1) : Parent(c)[i] = c[i] /\ Last(c) = c[Len(c)]
  BY <1>1, ParentFacts
<1> HIDE DEF c
<1>3. Len(c) - 1 = Len(p)
  BY <1>1, SMT
<1>4. Parent(c) = p
  BY <1>1, <1>2, <1>3, SamePath
<1>5. Last(c) = b
  BY <1>1 DEF Last
<1> QED
  BY <1>4, <1>5 DEF c

LEMMA PrefixOfItself ==
    ASSUME NEW p \in Path
    PROVE  IsPrefix(p, p) /\ IsPrefix(<<>>, p)
<1>1. Len(p) \in Nat /\ <<>> \in Path /\ Len(<<>>) = 0
  BY PathFacts, RootIsPath
<1>2. Len(p) <= Len(p) /\ 0 <= Len(p) /\ 1..0 = {}
  BY <1>1, SMT
<1> QED
  BY <1>1, <1>2, PrefixAt

LEMMA PrefixOfPrefix ==
    ASSUME NEW p \in Path, NEW q \in Path, NEW r \in Path, IsPrefix(p, q), IsPrefix(q, r)
    PROVE  IsPrefix(p, r)
<1>1. Len(p) \in Nat /\ Len(q) \in Nat /\ Len(r) \in Nat
  BY PathFacts
<1>2. /\ Len(p) <= Len(q) /\ \A i \in 1..Len(p) : p[i] = q[i]
      /\ Len(q) <= Len(r) /\ \A i \in 1..Len(q) : q[i] = r[i]
  BY PrefixAt
<1>3. Len(p) <= Len(r) /\ \A i \in 1..Len(p) : i \in 1..Len(q)
  BY <1>1, <1>2, SMT
<1> QED
  BY <1>2, <1>3, PrefixAt

LEMMA SameLengthPrefix ==
    ASSUME NEW p \in Path, NEW q \in Path, IsPrefix(p, q), Len(p) = Len(q)
    PROVE  p = q
BY PrefixAt, SamePath

\* Of two prefixes of a path the shorter is one of the other.
LEMMA PrefixesNest ==
    ASSUME NEW p \in Path, NEW q \in Path, NEW r \in Path, IsPrefix(p, r), IsPrefix(q, r),
           Len(p) <= Len(q)
    PROVE  IsPrefix(p, q)
<1>1. Len(p) \in Nat /\ Len(q) \in Nat /\ Len(r) \in Nat
  BY PathFacts
<1>2. /\ \A i \in 1..Len(p) : p[i] = r[i]
      /\ \A i \in 1..Len(q) : q[i] = r[i]
  BY PrefixAt
<1>3. \A i \in 1..Len(p) : i \in 1..Len(q)
  BY <1>1, SMT
<1> QED
  BY <1>2, <1>3, PrefixAt

\* The child of a node that lies on the way to one below it
LEMMA NextOnTheWay ==
    ASSUME NEW p \in Path, NEW q \in Path, IsPrefix(p, q), p # q
    PROVE  /\ Len(p) < Len(q) /\ q[Len(p) + 1] \in {0, 1}
           /\ Append(p, q[Len(p) + 1]) \in Path
           /\ IsPrefix(Append(p, q[Len(p) + 1]), q)
<1>1. Len(p) \in Nat /\ Len(q) \in Nat /\ \A i \in 1..Len(q) : q[i] \in {0, 1}
  BY PathFacts
<1>2. Len(p) <= Len(q) /\ Len(p) # Len(q) /\ \A i \in 1..Len(p) : p[i] = q[i]
  BY SameLengthPrefix, PrefixAt
<1>3. /\ Len(p) < Len(q) /\ Len(p) + 1 \in 1..Len(q) /\ Len(p) + 1 <= Len(q)
      /\ \A i \in 1..(Len(p) + 1) : i \in 1..Len(p) \/ i = Len(p) + 1
  BY <1>1, <1>2, SMT
<1> DEFINE b == q[Len(p) + 1]
<1>4. b \in {0, 1}
  BY <1>1, <1>3
<1> HIDE DEF b
<1>5. /\ Append(p, b) \in Path /\ Len(Append(p, b)) = Len(p) + 1
      /\ \A i \in 1..Len(p) : Append(p, b)[i] = p[i]
      /\ Append(p, b)[Len(p) + 1] = b
  BY <1>4, ChildFacts
<1>6. \A i \in 1..Len(Append(p, b)) : Append(p, b)[i] = q[i]
  BY <1>2, <1>3, <1>5 DEF b
<1>7. IsPrefix(Append(p, b), q)
  BY <1>3, <1>5, <1>6, PrefixAt
<1> QED
  BY <1>3, <1>4, <1>5, <1>7 DEF b

LEMMA ParentIsPrefix ==
    ASSUME NEW q \in Path, q # <<>>
    PROVE  /\ IsPrefix(Parent(q), q) /\ Parent(q) # q
           /\ \A p \in Path : IsPrefix(p, q) /\ p # q => IsPrefix(p, Parent(q))
<1>1. /\ Len(q) \in Nat \ {0} /\ Parent(q) \in Path /\ Len(Parent(q)) = Len(q) - 1
      /\ \A i \in 1..(Len(q) - 1) : Parent(q)[i] = q[i]
  BY ParentFacts
<1>2. Len(q) - 1 <= Len(q) /\ Len(q) - 1 # Len(q)
  BY <1>1, SMT
<1>3. IsPrefix(Parent(q), q) /\ Parent(q) # q
  BY <1>1, <1>2, PrefixAt
<1>4. ASSUME NEW p \in Path, IsPrefix(p, q), p # q PROVE IsPrefix(p, Parent(q))
  <2>1. Len(p) < Len(q) /\ Len(p) \in Nat
    BY <1>4, NextOnTheWay, PathFacts
  <2>2. Len(p) <= Len(Parent(q))
    BY <1>1, <2>1, SMT
  <2> QED
    BY <1>1, <1>3, <1>4, <2>2, PrefixesNest
<1> QED
  BY <1>3, <1>4

\* What is below a child is below its parent.
LEMMA PrefixOfChild ==
    ASSUME NEW p \in Path, NEW q \in Path, NEW b \in {0, 1}
    PROVE  /\ IsPrefix(p, Append(p, b)) /\ p # Append(p, b)
           /\ IsPrefix(Append(p, b), q) => IsPrefix(p, q)
           /\ IsPrefix(q, Append(p, b)) <=> IsPrefix(q, p) \/ q = Append(p, b)
           /\ IsPrefix(q, p) => IsPrefix(q, Append(p, b))
<1>1. Append(p, b) \in Path /\ Append(p, b) # <<>> /\ Parent(Append(p, b)) = p
  BY ChildFacts, ChildOfParent
<1>2. IsPrefix(p, Append(p, b)) /\ p # Append(p, b)
  BY <1>1, ParentIsPrefix
<1>3. IsPrefix(Append(p, b), q) => IsPrefix(p, q)
  BY <1>1, <1>2, PrefixOfPrefix
<1>4. IsPrefix(q, p) => IsPrefix(q, Append(p, b))
  BY <1>1, <1>2, PrefixOfPrefix
<1>5. IsPrefix(q, Append(p, b)) /\ q # Append(p, b) => IsPrefix(q, p)
  BY <1>1, ParentIsPrefix
<1>6. IsPrefix(Append(p, b), Append(p, b))
  BY <1>1, PrefixOfItself
<1> QED
  BY <1>2, <1>3, <1>4, <1>5, <1>6

(* --------------------------------- shapes -------------------------------- *)

\* The leaves and the splits of a tree, wherever they hang.
IsShape(L, S) ==
    /\ L \cup S \subseteq Path /\ L \cap S = {}
    /\ \A p \in S : Append(p, 0) \in L \cup S /\ Append(p, 1) \in L \cup S
    /\ \A p \in L \cup S : p = <<>> \/ Parent(p) \in S
    /\ \E n \in Nat : \A p \in L \cup S : Len(p) <= n

LEMMA EmptyShape == IsShape({}, {})
BY DEF IsShape

LEMMA RootShape == IsShape({<<>>}, {})
<1>1. <<>> \in Path /\ Len(<<>>) = 0 /\ 0 <= 0
  BY RootIsPath
<1> QED
  BY <1>1 DEF IsShape

\* Whatever a node hangs from is a split.
LEMMA Ancestors ==
    ASSUME NEW L, NEW S, IsShape(L, S), NEW q \in L \cup S, NEW p \in Path,
           IsPrefix(p, q), p # q
    PROVE  p \in S
<1> DEFINE Above(n) == \A r \in L \cup S : IsPrefix(p, r) /\ p # r /\ Len(r) = n => p \in S
           T == {n \in Nat : Above(n)}
<1>1. L \cup S \subseteq Path /\ \A r \in L \cup S : r = <<>> \/ Parent(r) \in S
  BY DEF IsShape
<1>2. 0 \in T
  <2> SUFFICES ASSUME NEW r \in L \cup S, IsPrefix(p, r), p # r, Len(r) = 0 PROVE FALSE
    OBVIOUS
  <2>1. Len(p) < Len(r) /\ Len(p) \in Nat
    BY <1>1, NextOnTheWay, PathFacts
  <2> QED
    BY <2>1, SMT
<1>3. ASSUME NEW n \in T PROVE n + 1 \in T
  <2>1. SUFFICES ASSUME NEW r \in L \cup S, IsPrefix(p, r), p # r, Len(r) = n + 1
                 PROVE  p \in S
    OBVIOUS
  <2>2. r \in Path /\ r # <<>>
    BY <1>1, <2>1, RootIsPath, SMT
  <2>3. /\ Parent(r) \in S /\ Parent(r) \in Path /\ Len(Parent(r)) = n
        /\ IsPrefix(p, Parent(r))
    BY <1>1, <2>1, <2>2, ParentFacts, ParentIsPrefix
  <2>4. CASE p = Parent(r)
    BY <2>3, <2>4
  <2>5. CASE p # Parent(r)
    BY <2>3, <2>5
  <2> QED
    BY <2>4, <2>5
<1>4. T \in SUBSET Nat
  OBVIOUS
<1> HIDE DEF T
<1>5. T = Nat
  BY <1>2, <1>3, <1>4, Induction
<1>6. Len(q) \in Nat
  BY <1>1, PathFacts
<1> QED
  BY <1>5, <1>6 DEF T

LEMMA NothingBelowLeaf ==
    ASSUME NEW L, NEW S, IsShape(L, S), NEW p \in L, NEW q \in L \cup S, IsPrefix(p, q)
    PROVE  p = q
<1>1. p \in Path /\ p \notin S
  BY DEF IsShape
<1> QED
  BY <1>1, Ancestors

LEMMA RootIsNode ==
    ASSUME NEW L, NEW S, IsShape(L, S), NEW q \in L \cup S
    PROVE  <<>> \in L \cup S
<1>1. q \in Path /\ <<>> \in Path
  BY RootIsPath DEF IsShape
<1>2. IsPrefix(<<>>, q)
  BY <1>1, PrefixOfItself
<1> QED
  BY <1>1, <1>2, Ancestors

\* Going always left, or always right, from a node one gets to a leaf.
LEMMA LeafAtTheEnd ==
    ASSUME NEW L, NEW S, IsShape(L, S), NEW p \in L \cup S, NEW b \in {0, 1}
    PROVE  \E q \in L : IsPrefix(p, q) /\ \A i \in (Len(p) + 1)..Len(q) : q[i] = b
<1>1. PICK bound \in Nat : \A q \in L \cup S : Len(q) <= bound
  BY DEF IsShape
<1>2. L \cup S \subseteq Path
  BY DEF IsShape
<1> DEFINE Way(q) == q \in L \cup S /\ IsPrefix(p, q) /\ \A i \in (Len(p) + 1)..Len(q) : q[i] = b
           T == {n \in Nat : \E q \in Path : Way(q) /\ n = bound - Len(q)}
<1>3. Len(p) \in Nat /\ p \in Path
  BY <1>2, PathFacts
<1>4. Way(p)
  <2>1. IsPrefix(p, p)
    BY <1>3, PrefixOfItself
  <2>2. (Len(p) + 1)..Len(p) = {}
    BY <1>3, SMT
  <2> QED
    BY <2>1, <2>2
<1>5. T # {}
  <2>1. bound - Len(p) \in Nat
    BY <1>1, <1>3, SMT
  <2> QED
    BY <1>3, <1>4, <2>1
<1>6. PICK n \in T : \A m \in T : n <= m
  <2>1. T \subseteq Nat
    OBVIOUS
  <2> QED
    BY <2>1, <1>5, LeastNumber
<1>7. PICK q \in Path : Way(q) /\ n = bound - Len(q)
  OBVIOUS
<1>8. q \notin S
  <2>1. SUFFICES ASSUME q \in S PROVE FALSE
    OBVIOUS
  <2> DEFINE r == Append(q, b)
  <2>2. /\ r \in L \cup S /\ r \in Path /\ Len(r) = Len(q) + 1 /\ IsPrefix(q, r)
        /\ \A i \in 1..Len(q) : r[i] = q[i]
        /\ r[Len(q) + 1] = b
    <3>1. r \in L \cup S
      BY <2>1 DEF IsShape
    <3> QED
      BY <3>1, ChildFacts, PrefixOfChild
  <2> HIDE DEF r
  <2>3. IsPrefix(p, r) /\ Len(q) \in Nat /\ Len(p) <= Len(q)
    BY <1>3, <1>7, <2>2, PrefixOfPrefix, PathFacts, PrefixAt
  <2>4. ASSUME NEW i \in (Len(p) + 1)..Len(r) PROVE r[i] = b
    <3>1. (i \in (Len(p) + 1)..Len(q) /\ i \in 1..Len(q)) \/ i = Len(q) + 1
      BY <1>3, <2>2, <2>3, SMT
    <3> QED
      BY <3>1, <1>7, <2>2
  <2>5. Way(r)
    BY <2>2, <2>3, <2>4
  <2>6. bound - Len(r) \in Nat /\ ~(n <= bound - Len(r))
    BY <1>1, <1>7, <2>2, <2>3, SMT
  <2>7. bound - Len(r) \in T
    BY <2>2, <2>5, <2>6
  <2> QED
    BY <1>6, <2>6, <2>7
<1> QED
  BY <1>7, <1>8

LEMMA LeafBelow ==
    ASSUME NEW L, NEW S, IsShape(L, S), NEW p \in L \cup S
    PROVE  \E q \in L : IsPrefix(p, q)
<1>1. 0 \in {0, 1}
  OBVIOUS
<1> QED
  BY <1>1, LeafAtTheEnd

(* A shape whose nodes are found in another by a renaming of the paths *)
LEMMA ShapeRenamed ==
    ASSUME NEW L, NEW S, IsShape(L, S), NEW d \in [Path -> Path],
           \A q \in Path : Len(q) <= Len(d[q]) + 1,
           \A q \in Path : d[q] \in S => d[Append(q, 0)] \in L \cup S /\ d[Append(q, 1)] \in L \cup S,
           \A q \in Path : d[q] \in L \cup S => q = <<>> \/ d[Parent(q)] \in S
    PROVE  IsShape({q \in Path : d[q] \in L}, {q \in Path : d[q] \in S})
<1> DEFINE M == {q \in Path : d[q] \in L}
           R == {q \in Path : d[q] \in S}
<1>1. L \cap S = {}
  BY DEF IsShape
<1>2. M \cup R \subseteq Path /\ M \cap R = {}
  BY <1>1
<1>3. ASSUME NEW q \in R PROVE Append(q, 0) \in M \cup R /\ Append(q, 1) \in M \cup R
  <2>1. Append(q, 0) \in Path /\ Append(q, 1) \in Path
    BY ChildFacts
  <2> QED
    BY <2>1
<1>4. ASSUME NEW q \in M \cup R, q # <<>> PROVE Parent(q) \in R
  <2>1. Parent(q) \in Path
    BY <1>2, <1>4, ParentFacts
  <2> QED
    BY <1>4, <2>1
<1>5. PICK n \in Nat : \A p \in L \cup S : Len(p) <= n
  BY DEF IsShape
<1>6. ASSUME NEW q \in M \cup R PROVE Len(q) <= n + 1
  <2>1. q \in Path /\ d[q] \in Path /\ Len(q) \in Nat /\ Len(d[q]) \in Nat /\ Len(d[q]) <= n
    BY <1>5, PathFacts
  <2>2. Len(q) <= Len(d[q]) + 1
    BY <2>1
  <2> QED
    BY <2>1, <2>2, SMT
<1>7. n + 1 \in Nat
  OBVIOUS
<1> HIDE DEF M, R
<1>8. IsShape(M, R)
  BY <1>2, <1>3, <1>4, <1>6, <1>7 DEF IsShape
<1> QED
  BY <1>8 DEF M, R

\* A leaf becomes a split of two.
LEMMA ShapeSpliced ==
    ASSUME NEW L, NEW S, IsShape(L, S), NEW a \in L
    PROVE  IsShape((L \ {a}) \cup {Append(a, 0), Append(a, 1)}, S \cup {a})
<1> DEFINE M == (L \ {a}) \cup {Append(a, 0), Append(a, 1)}
           R == S \cup {a}
<1>1. /\ a \in Path /\ L \cup S \subseteq Path /\ L \cap S = {}
      /\ 0 \in {0, 1} /\ 1 \in {0, 1}
  BY DEF IsShape
<1>2. ASSUME NEW b \in {0, 1}
      PROVE  /\ Append(a, b) \in Path /\ Append(a, b) # <<>> /\ Append(a, b) # a
             /\ Parent(Append(a, b)) = a /\ Append(a, b) \notin L \cup S
             /\ Len(Append(a, b)) = Len(a) + 1
  <2>1. /\ Append(a, b) \in Path /\ Append(a, b) # <<>> /\ Append(a, b) # a
        /\ Parent(Append(a, b)) = a /\ IsPrefix(a, Append(a, b))
        /\ Len(Append(a, b)) = Len(a) + 1
    BY <1>1, ChildFacts, ChildOfParent, PrefixOfChild
  <2>2. Append(a, b) \notin L \cup S
    BY <2>1, NothingBelowLeaf
  <2> QED
    BY <2>1, <2>2
<1>3. M \cup R \subseteq Path /\ M \cap R = {} /\ M \cup R = L \cup S \cup {Append(a, 0), Append(a, 1)}
  BY <1>1, <1>2
<1>4. ASSUME NEW p \in R PROVE Append(p, 0) \in M \cup R /\ Append(p, 1) \in M \cup R
  <2>1. CASE p = a
    BY <2>1
  <2>2. CASE p \in S
    BY <1>3, <2>2 DEF IsShape
  <2> QED
    BY <2>1, <2>2
<1>5. ASSUME NEW p \in M \cup R, p # <<>> PROVE Parent(p) \in R
  <2>1. CASE p \in L \cup S
    BY <2>1, <1>5 DEF IsShape
  <2>2. CASE p \notin L \cup S
    BY <1>1, <1>2, <1>3, <2>2
  <2> QED
    BY <2>1, <2>2
<1>6. PICK n \in Nat : \A p \in L \cup S : Len(p) <= n
  BY DEF IsShape
<1>7. ASSUME NEW p \in M \cup R PROVE Len(p) <= n + 1
  <2>1. p \in Path /\ Len(p) \in Nat /\ Len(a) \in Nat /\ Len(a) <= n
    BY <1>1, <1>3, <1>6, PathFacts
  <2>2. Len(p) <= n \/ Len(p) = Len(a) + 1
    BY <1>1, <1>2, <1>3, <1>6
  <2> QED
    BY <2>1, <2>2, SMT
<1>8. n + 1 \in Nat
  OBVIOUS
<1> HIDE DEF M, R
<1>9. IsShape(M, R)
  BY <1>3, <1>4, <1>5, <1>7, <1>8 DEF IsShape
<1> QED
  BY <1>9 DEF M, R

(* -------------------------- removal of a leaf ---------------------------- *)

\* Where what is at q once the leaf at p is gone was before.
Demoted(p, q) ==
    IF IsPrefix(Parent(p), q) THEN Sibling(p) \o SubSeq(q, Len(p), Len(q)) ELSE q

Stays(p, q) == ~IsPrefix(Parent(p), q) \/ IsPrefix(Sibling(p), q)

LEMMA SiblingFacts ==
    ASSUME NEW p \in Path, p # <<>>
    PROVE  /\ Sibling(p) \in Path /\ Sibling(p) # <<>> /\ Len(Sibling(p)) = Len(p)
           /\ Len(p) \in Nat \ {0}
           /\ \A i \in 1..(Len(p) - 1) : Sibling(p)[i] = p[i]
           /\ Sibling(p)[Len(p)] = 1 - p[Len(p)] /\ Sibling(p)[Len(p)] # p[Len(p)]
           /\ IsPrefix(Parent(p), Sibling(p)) /\ Parent(Sibling(p)) = Parent(p)
           /\ Sibling(p) # p
<1>1. /\ Len(p) \in Nat \ {0} /\ Parent(p) \in Path /\ Len(Parent(p)) = Len(p) - 1
      /\ \A i \in 1..(Len(p) - 1) : Parent(p)[i] = p[i]
      /\ Last(p) = p[Len(p)] /\ Last(p) \in {0, 1} /\ 1 - Last(p) \in {0, 1}
      /\ Sibling(p) = Append(Parent(p), 1 - Last(p))
  BY ParentFacts
<1>2. /\ Sibling(p) \in Path /\ Sibling(p) # <<>> /\ Len(Sibling(p)) = (Len(p) - 1) + 1
      /\ \A i \in 1..(Len(p) - 1) : Sibling(p)[i] = Parent(p)[i]
      /\ Sibling(p)[(Len(p) - 1) + 1] = 1 - Last(p)
      /\ IsPrefix(Parent(p), Sibling(p)) /\ Parent(Sibling(p)) = Parent(p)
  <2>1. /\ Sibling(p) \in Path /\ Sibling(p) # <<>> /\ Len(Sibling(p)) = (Len(p) - 1) + 1
        /\ \A i \in 1..(Len(p) - 1) : Sibling(p)[i] = Parent(p)[i]
        /\ Sibling(p)[(Len(p) - 1) + 1] = 1 - Last(p)
    BY <1>1, ChildFacts
  <2>2. Parent(Sibling(p)) = Parent(p)
    BY <1>1, ChildOfParent
  <2>3. IsPrefix(Parent(p), Sibling(p))
    BY <1>1, PrefixOfChild
  <2> QED
    BY <2>1, <2>2, <2>3
<1>3. (Len(p) - 1) + 1 = Len(p) /\ 1 - Last(p) # Last(p)
  BY <1>1, SMT
<1>4. Sibling(p)[Len(p)] = 1 - p[Len(p)] /\ Sibling(p)[Len(p)] # p[Len(p)]
  BY <1>1, <1>2, <1>3
<1> QED
  BY <1>1, <1>2, <1>3, <1>4

LEMMA PromotedFacts ==
    ASSUME NEW p \in Path, p # <<>>, NEW q \in Path, IsPrefix(Sibling(p), q)
    PROVE  /\ Promoted(p, q) \in Path /\ Len(Promoted(p, q)) = Len(q) - 1
           /\ Len(q) \in Nat /\ Len(p) <= Len(q)
           /\ \A i \in 1..(Len(p) - 1) : Promoted(p, q)[i] = q[i] /\ q[i] = p[i]
           /\ \A i \in Len(p)..(Len(q) - 1) : Promoted(p, q)[i] = q[i + 1]
           /\ IsPrefix(Parent(p), Promoted(p, q))
<1> DEFINE n == Len(p) - 1
           rest == SubSeq(q, Len(p) + 1, Len(q))
<1>1. /\ Len(p) \in Nat \ {0} /\ Parent(p) \in Path /\ Len(Parent(p)) = n
      /\ \A i \in 1..n : Parent(p)[i] = p[i]
  BY ParentFacts
<1>2. Sibling(p) \in Path /\ Len(Sibling(p)) = Len(p) /\ \A i \in 1..n : Sibling(p)[i] = p[i]
  BY SiblingFacts
<1>3. Len(q) \in Nat /\ Len(p) <= Len(q) /\ \A i \in 1..Len(p) : Sibling(p)[i] = q[i]
  BY <1>2, PrefixAt, PathFacts
<1>4. Len(p) \in 0..Len(q)
  BY <1>1, <1>3, SMT
<1>5. /\ rest \in Path /\ Len(rest) = Len(q) - Len(p)
      /\ \A i \in 1..(Len(q) - Len(p)) : rest[i] = q[Len(p) + i]
  BY <1>4, RestFacts
<1>6. Promoted(p, q) = Parent(p) \o rest
  BY DEF Promoted
<1> HIDE DEF rest
<1>7. /\ Parent(p) \o rest \in Path /\ Len(Parent(p) \o rest) = n + Len(rest)
      /\ \A i \in 1..n : (Parent(p) \o rest)[i] = Parent(p)[i]
      /\ \A i \in (n + 1)..(n + Len(rest)) : (Parent(p) \o rest)[i] = rest[i - n]
  <2> HIDE DEF n
  <2>1. Parent(p) \in Path /\ rest \in Path /\ Len(Parent(p)) = n
    BY <1>1, <1>5
  <2> QED
    BY <2>1, JoinFacts
<1>8. n + Len(rest) = Len(q) - 1 /\ n + 1 = Len(p) /\ n <= Len(q) - 1
  BY <1>1, <1>3, <1>5, SMT
<1>9. ASSUME NEW i \in 1..n PROVE Promoted(p, q)[i] = q[i] /\ q[i] = p[i]
  <2>1. i \in 1..Len(p)
    BY <1>1, SMT
  <2> QED
    BY <1>1, <1>2, <1>3, <1>6, <1>7, <2>1
<1>10. ASSUME NEW i \in Len(p)..(Len(q) - 1) PROVE Promoted(p, q)[i] = q[i + 1]
  <2>1. /\ i \in (n + 1)..(n + Len(rest)) /\ i - n \in 1..(Len(q) - Len(p))
        /\ Len(p) + (i - n) = i + 1
    BY <1>1, <1>3, <1>5, SMT
  <2>2. Promoted(p, q)[i] = rest[i - n]
    BY <1>6, <1>7, <2>1
  <2> QED
    BY <1>5, <2>1, <2>2
<1>11. IsPrefix(Parent(p), Promoted(p, q))
  BY <1>1, <1>6, <1>7, <1>8, PrefixAt
<1> QED
  BY <1>3, <1>6, <1>7, <1>8, <1>9, <1>10, <1>11

LEMMA DemotedFacts ==
    ASSUME NEW p \in Path, p # <<>>, NEW q \in Path, IsPrefix(Parent(p), q)
    PROVE  /\ Demoted(p, q) \in Path /\ Len(Demoted(p, q)) = Len(q) + 1
           /\ Len(q) \in Nat /\ Len(p) - 1 <= Len(q)
           /\ \A i \in 1..(Len(p) - 1) : Demoted(p, q)[i] = q[i] /\ q[i] = p[i]
           /\ Demoted(p, q)[Len(p)] = Sibling(p)[Len(p)]
           /\ \A i \in Len(p)..Len(q) : Demoted(p, q)[i + 1] = q[i]
           /\ IsPrefix(Sibling(p), Demoted(p, q))
<1> DEFINE n == Len(p) - 1
           rest == SubSeq(q, Len(p), Len(q))
           s == Sibling(p)
<1>1. /\ Len(p) \in Nat \ {0} /\ Parent(p) \in Path /\ Len(Parent(p)) = n
      /\ \A i \in 1..n : Parent(p)[i] = p[i]
  BY ParentFacts
<1>2. s \in Path /\ Len(s) = Len(p) /\ \A i \in 1..n : s[i] = p[i]
  BY SiblingFacts
<1>3. Len(q) \in Nat /\ n <= Len(q) /\ \A i \in 1..n : Parent(p)[i] = q[i]
  BY <1>1, PrefixAt, PathFacts
<1>4. n \in 0..Len(q) /\ n + 1 = Len(p)
  BY <1>1, <1>3, SMT
<1>5. /\ rest \in Path /\ Len(rest) = Len(q) - n
      /\ \A i \in 1..(Len(q) - n) : rest[i] = q[n + i]
  <2> HIDE DEF n
  <2>1. rest = SubSeq(q, n + 1, Len(q))
    BY <1>4
  <2> QED
    BY <1>4, <2>1, RestFacts
<1>6. Demoted(p, q) = s \o rest
  BY DEF Demoted
<1> HIDE DEF rest, s
<1>7. /\ s \o rest \in Path /\ Len(s \o rest) = Len(p) + Len(rest)
      /\ \A i \in 1..Len(p) : (s \o rest)[i] = s[i]
      /\ \A i \in (Len(p) + 1)..(Len(p) + Len(rest)) : (s \o rest)[i] = rest[i - Len(p)]
  <2>1. PICK m : m = Len(p)
    OBVIOUS
  <2>2. s \in Path /\ rest \in Path /\ Len(s) = m
    BY <1>2, <1>5, <2>1
  <2>3. /\ s \o rest \in Path /\ Len(s \o rest) = m + Len(rest)
        /\ \A i \in 1..m : (s \o rest)[i] = s[i]
        /\ \A i \in (m + 1)..(m + Len(rest)) : (s \o rest)[i] = rest[i - m]
    BY <2>2, JoinFacts
  <2> QED
    BY <2>1, <2>3
<1>8. Len(p) + Len(rest) = Len(q) + 1 /\ Len(p) <= Len(q) + 1 /\ Len(p) \in 1..Len(p)
  BY <1>1, <1>3, <1>5, SMT
<1>9. ASSUME NEW i \in 1..n PROVE Demoted(p, q)[i] = q[i] /\ q[i] = p[i]
  <2>1. i \in 1..Len(p)
    BY <1>1, SMT
  <2> QED
    BY <1>1, <1>2, <1>3, <1>6, <1>7, <2>1
<1>10. ASSUME NEW i \in Len(p)..Len(q) PROVE Demoted(p, q)[i + 1] = q[i]
  <2>1. /\ i + 1 \in (Len(p) + 1)..(Len(p) + Len(rest)) /\ (i + 1) - Len(p) \in 1..(Len(q) - n)
        /\ n + ((i + 1) - Len(p)) = i
    BY <1>1, <1>3, <1>5, SMT
  <2>2. Demoted(p, q)[i + 1] = rest[(i + 1) - Len(p)]
    BY <1>6, <1>7, <2>1
  <2> QED
    BY <1>5, <2>1, <2>2
<1>11. IsPrefix(s, Demoted(p, q)) /\ Demoted(p, q)[Len(p)] = s[Len(p)]
  BY <1>2, <1>6, <1>7, <1>8, PrefixAt
<1> QED
  BY <1>3, <1>6, <1>7, <1>8, <1>9, <1>10, <1>11 DEF s

LEMMA PromotedBack ==
    ASSUME NEW p \in Path, p # <<>>, NEW q \in Path
    PROVE  /\ Demoted(p, q) \in Path /\ Stays(p, Demoted(p, q))
           /\ Promoted(p, Demoted(p, q)) = q
<1>1. CASE IsPrefix(Parent(p), q)
  <2> DEFINE r == Demoted(p, q)
  <2>1. /\ r \in Path /\ Len(r) = Len(q) + 1 /\ Len(q) \in Nat /\ Len(p) - 1 <= Len(q)
        /\ \A i \in 1..(Len(p) - 1) : r[i] = q[i]
        /\ \A i \in Len(p)..Len(q) : r[i + 1] = q[i]
        /\ IsPrefix(Sibling(p), r)
    BY <1>1, DemotedFacts
  <2>2. Len(p) \in Nat \ {0}
    BY SiblingFacts
  <2> HIDE DEF r
  <2>3. /\ Promoted(p, r) \in Path /\ Len(Promoted(p, r)) = Len(r) - 1
        /\ \A i \in 1..(Len(p) - 1) : Promoted(p, r)[i] = r[i]
        /\ \A i \in Len(p)..(Len(r) - 1) : Promoted(p, r)[i] = r[i + 1]
    BY <2>1, PromotedFacts
  <2>4. /\ Len(r) - 1 = Len(q)
        /\ \A i \in 1..Len(q) : i \in 1..(Len(p) - 1) \/ i \in Len(p)..Len(q)
    BY <2>1, <2>2, SMT
  <2>5. \A i \in 1..Len(q) : Promoted(p, r)[i] = q[i]
    BY <2>1, <2>3, <2>4
  <2>6. Promoted(p, r) = q
    BY <2>3, <2>4, <2>5, SamePath
  <2> QED
    BY <2>1, <2>6 DEF r, Stays
<1>2. CASE ~IsPrefix(Parent(p), q)
  <2>1. Demoted(p, q) = q
    BY <1>2 DEF Demoted
  <2>2. ~IsPrefix(Sibling(p), q)
    BY <1>2, SiblingFacts, ParentFacts, PrefixOfPrefix
  <2>3. Promoted(p, q) = q
    BY <2>2 DEF Promoted
  <2> QED
    BY <1>2, <2>1, <2>3 DEF Stays
<1> QED
  BY <1>1, <1>2

LEMMA DemotedBack ==
    ASSUME NEW p \in Path, p # <<>>, NEW q \in Path, Stays(p, q)
    PROVE  Promoted(p, q) \in Path /\ Demoted(p, Promoted(p, q)) = q
<1>1. CASE IsPrefix(Sibling(p), q)
  <2> DEFINE r == Promoted(p, q)
  <2>1. /\ r \in Path /\ Len(r) = Len(q) - 1 /\ Len(q) \in Nat /\ Len(p) <= Len(q)
        /\ \A i \in 1..(Len(p) - 1) : r[i] = q[i]
        /\ \A i \in Len(p)..(Len(q) - 1) : r[i] = q[i + 1]
        /\ IsPrefix(Parent(p), r)
    BY <1>1, PromotedFacts
  <2>2. Len(p) \in Nat \ {0} /\ Sibling(p) \in Path /\ Len(Sibling(p)) = Len(p)
    BY SiblingFacts
  <2> HIDE DEF r
  <2>3. /\ Demoted(p, r) \in Path /\ Len(Demoted(p, r)) = Len(r) + 1
        /\ \A i \in 1..(Len(p) - 1) : Demoted(p, r)[i] = r[i]
        /\ Demoted(p, r)[Len(p)] = Sibling(p)[Len(p)]
        /\ \A i \in Len(p)..Len(r) : Demoted(p, r)[i + 1] = r[i]
    BY <2>1, DemotedFacts
  <2>4. Sibling(p)[Len(p)] = q[Len(p)]
    <3>1. Len(p) \in 1..Len(p)
      BY <2>2, SMT
    <3> QED
      BY <1>1, <2>2, <3>1, PrefixAt
  <2>5. Len(r) + 1 = Len(q)
    BY <2>1, SMT
  <2>6. ASSUME NEW i \in 1..Len(q) PROVE Demoted(p, r)[i] = q[i]
    <3>1. CASE i \in 1..(Len(p) - 1)
      BY <2>1, <2>3, <3>1
    <3>2. CASE i = Len(p)
      BY <2>3, <2>4, <3>2
    <3>3. CASE i \in (Len(p) + 1)..Len(q)
      <4>1. i - 1 \in Len(p)..(Len(q) - 1) /\ i - 1 \in Len(p)..Len(r) /\ (i - 1) + 1 = i
        BY <2>1, <2>2, <2>5, <3>3, SMT
      <4>2. r[i - 1] = q[(i - 1) + 1]
        BY <2>1, <4>1
      <4>3. Demoted(p, r)[(i - 1) + 1] = r[i - 1]
        BY <2>3, <4>1
      <4> QED
        BY <4>1, <4>2, <4>3
    <3>4. i \in 1..(Len(p) - 1) \/ i = Len(p) \/ i \in (Len(p) + 1)..Len(q)
      BY <2>1, <2>2, SMT
    <3> QED
      BY <3>1, <3>2, <3>3, <3>4
  <2>7. Demoted(p, r) = q
    BY <2>3, <2>5, <2>6, SamePath
  <2> QED
    BY <2>1, <2>7 DEF r
<1>2. CASE ~IsPrefix(Sibling(p), q)
  BY <1>2 DEF Stays, Promoted, Demoted
<1> QED
  BY <1>1, <1>2

\* Children of what stays stay children.
LEMMA DemotedChild ==
    ASSUME NEW p \in Path, p # <<>>, NEW q \in Path, NEW b \in {0, 1}
    PROVE  /\ Append(q, b) # Parent(p) => Demoted(p, Append(q, b)) = Append(Demoted(p, q), b)
           /\ Demoted(p, Parent(p)) = Sibling(p)
           /\ Append(q, b) = Parent(p) => Demoted(p, q) = q
<1>1. /\ Parent(p) \in Path /\ Len(Parent(p)) = Len(p) - 1 /\ Len(p) \in Nat \ {0}
      /\ Append(q, b) \in Path /\ Len(Append(q, b)) = Len(q) + 1 /\ Len(q) \in Nat
      /\ \A i \in 1..Len(q) : Append(q, b)[i] = q[i]
      /\ Append(q, b)[Len(q) + 1] = b
  BY ParentFacts, ChildFacts, PathFacts
<1>3. Demoted(p, Parent(p)) = Sibling(p)
  <2> DEFINE r == Parent(p)
  <2>1. r \in Path /\ IsPrefix(r, r) /\ Len(r) = Len(p) - 1
    BY <1>1, PrefixOfItself
  <2>2. /\ Demoted(p, r) \in Path /\ Len(Demoted(p, r)) = Len(r) + 1
        /\ IsPrefix(Sibling(p), Demoted(p, r))
    BY <2>1, DemotedFacts
  <2>3. Sibling(p) \in Path /\ Len(Sibling(p)) = Len(p)
    BY SiblingFacts
  <2>4. Len(Sibling(p)) = Len(Demoted(p, r))
    BY <1>1, <2>1, <2>2, <2>3, SMT
  <2> HIDE DEF r
  <2>5. Demoted(p, r) = Sibling(p)
    BY <2>2, <2>3, <2>4, SameLengthPrefix
  <2> QED
    BY <2>5 DEF r
<1>2. CASE IsPrefix(Parent(p), q)
  <2> DEFINE r == Append(q, b)
             d == Demoted(p, q)
  <2>1. IsPrefix(Parent(p), r) /\ r # Parent(p)
    <3>1. IsPrefix(Parent(p), r)
      BY <1>1, <1>2, PrefixOfChild
    <3>2. Len(p) - 1 <= Len(q)
      BY <1>1, <1>2, PrefixAt
    <3>3. r # Parent(p)
      BY <1>1, <3>2, SMT
    <3> QED
      BY <3>1, <3>3
  <2>2. /\ d \in Path /\ Len(d) = Len(q) + 1 /\ Len(p) - 1 <= Len(q)
        /\ \A i \in 1..(Len(p) - 1) : d[i] = q[i]
        /\ d[Len(p)] = Sibling(p)[Len(p)]
        /\ \A i \in Len(p)..Len(q) : d[i + 1] = q[i]
    BY <1>2, DemotedFacts
  <2>3. /\ Demoted(p, r) \in Path /\ Len(Demoted(p, r)) = Len(r) + 1
        /\ \A i \in 1..(Len(p) - 1) : Demoted(p, r)[i] = r[i]
        /\ Demoted(p, r)[Len(p)] = Sibling(p)[Len(p)]
        /\ \A i \in Len(p)..Len(r) : Demoted(p, r)[i + 1] = r[i]
    BY <1>1, <2>1, DemotedFacts
  <2> HIDE DEF d
  <2>4. /\ Append(d, b) \in Path /\ Len(Append(d, b)) = Len(d) + 1
        /\ \A i \in 1..Len(d) : Append(d, b)[i] = d[i]
        /\ Append(d, b)[Len(d) + 1] = b
    BY <2>2, ChildFacts
  <2>5. /\ Len(r) = Len(q) + 1 /\ \A i \in 1..Len(q) : r[i] = q[i]
        /\ r[Len(q) + 1] = b
    BY <1>1
  <2> HIDE DEF r
  <2>6. ASSUME NEW i \in 1..(Len(q) + 2) PROVE Demoted(p, r)[i] = Append(d, b)[i]
    <3>1. CASE i \in 1..(Len(p) - 1)
      <4>1. i \in 1..Len(q) /\ i \in 1..Len(d)
        BY <1>1, <2>2, <3>1, SMT
      <4> QED
        BY <2>2, <2>3, <2>4, <2>5, <3>1, <4>1
    <3>2. CASE i = Len(p)
      <4>1. i \in 1..Len(d)
        BY <1>1, <2>2, <3>2, SMT
      <4> QED
        BY <2>2, <2>3, <2>4, <3>2, <4>1
    <3>3. CASE i \in (Len(p) + 1)..(Len(q) + 1)
      <4>1. /\ i - 1 \in Len(p)..Len(q) /\ i - 1 \in Len(p)..Len(r) /\ (i - 1) + 1 = i
            /\ i \in 1..Len(d) /\ i - 1 \in 1..Len(q)
        BY <1>1, <2>2, <2>5, <3>3, SMT
      <4> QED
        BY <2>2, <2>3, <2>4, <2>5, <4>1
    <3>4. CASE i = Len(q) + 2
      <4>1. /\ i - 1 \in Len(p)..Len(r) /\ (i - 1) + 1 = i
            /\ i = Len(d) + 1 /\ i - 1 = Len(q) + 1
        BY <1>1, <2>2, <2>5, <3>4, SMT
      <4> QED
        BY <2>3, <2>4, <2>5, <4>1
    <3>5. \/ i \in 1..(Len(p) - 1) \/ i = Len(p) \/ i \in (Len(p) + 1)..(Len(q) + 1)
          \/ i = Len(q) + 2
      BY <1>1, <2>2, SMT
    <3> QED
      BY <3>1, <3>2, <3>3, <3>4, <3>5
  <2>7. Len(Demoted(p, r)) = Len(q) + 2 /\ Len(Append(d, b)) = Len(q) + 2
    BY <1>1, <2>2, <2>3, <2>4, <2>5, SMT
  <2>8. Demoted(p, r) = Append(d, b)
    BY <2>3, <2>4, <2>6, <2>7, SamePath
  <2> QED
    BY <2>1, <2>8, <1>3 DEF r, d
<1>4. CASE ~IsPrefix(Parent(p), q)
  <2>1. Demoted(p, q) = q
    BY <1>4 DEF Demoted
  <2>2. ASSUME Append(q, b) # Parent(p) PROVE Demoted(p, Append(q, b)) = Append(q, b)
    <3>1. ~IsPrefix(Parent(p), Append(q, b))
      BY <1>1, <1>4, <2>2, PrefixOfChild
    <3> QED
      BY <3>1 DEF Demoted
  <2> QED
    BY <1>3, <2>1, <2>2
<1>5. Append(q, b) = Parent(p) => ~IsPrefix(Parent(p), q)
  <2>1. SUFFICES ASSUME Append(q, b) = Parent(p), IsPrefix(Parent(p), q) PROVE FALSE
    OBVIOUS
  <2>2. Len(p) - 1 <= Len(q) /\ Len(p) - 1 = Len(q) + 1
    BY <1>1, <2>1, PrefixAt
  <2> QED
    BY <1>1, <2>2, SMT
<1> QED
  BY <1>2, <1>3, <1>4, <1>5

(* --------------------------------- trees --------------------------------- *)

Split == [dir : SplitDirection, ratio : Ratio]

IsTree(t) ==
    /\ t = [leaf |-> t.leaf, split |-> t.split]
    /\ t.leaf \in [Leaves(t) -> Window]
    /\ t.split \in [DOMAIN t.split -> Split]
    /\ IsShape(Leaves(t), DOMAIN t.split)
    /\ \A p, q \in Leaves(t) : t.leaf[p] = t.leaf[q] => p = q

LEMMA TreeFields ==
    ASSUME NEW f, NEW g, NEW t, t = [leaf |-> f, split |-> g]
    PROVE  t.leaf = f /\ t.split = g
OBVIOUS

LEMMA TreeOf ==
    ASSUME NEW L, NEW S, IsShape(L, S), NEW f \in [L -> Window], NEW g \in [S -> Split],
           \A p, q \in L : f[p] = f[q] => p = q,
           NEW t, t = [leaf |-> f, split |-> g]
    PROVE  /\ IsTree(t) /\ t.leaf = f /\ t.split = g
           /\ Leaves(t) = L /\ DOMAIN t.split = S /\ Windows(t) = {f[p] : p \in L}
<1>1. t.leaf = f /\ t.split = g
  OBVIOUS
<1>2. Leaves(t) = L /\ DOMAIN t.split = S
  BY <1>1 DEF Leaves
<1>3. IsTree(t)
  BY <1>1, <1>2 DEF IsTree
<1> QED
  BY <1>1, <1>2, <1>3 DEF Windows

\* LeafOf finds the leaf of a window that has one.
LEMMA LeafOfIsThere ==
    ASSUME NEW t, NEW w \in Windows(t)
    PROVE  LeafOf(t, w) \in Leaves(t) /\ t.leaf[LeafOf(t, w)] = w
<1>1. \E p \in Leaves(t) : t.leaf[p] = w
  BY DEF Windows
<1> QED
  BY <1>1 DEF LeafOf

\* The window of a leaf leads back to it.
LEMMA LeafOfLeaf ==
    ASSUME NEW t, IsTree(t), NEW p \in Leaves(t)
    PROVE  t.leaf[p] \in Windows(t) /\ LeafOf(t, t.leaf[p]) = p
<1>1. t.leaf[p] \in Windows(t)
  BY DEF Windows
<1>2. LeafOf(t, t.leaf[p]) \in Leaves(t) /\ t.leaf[LeafOf(t, t.leaf[p])] = t.leaf[p]
  BY <1>1, LeafOfIsThere
<1> QED
  BY <1>1, <1>2 DEF IsTree

LEMMA HalfIsRatio == Half \in Ratio
BY UnitIsEven, SMT DEF Half, Ratio

LEMMA EmptyIsTree ==
    /\ IsTree(EmptyTree) /\ Leaves(EmptyTree) = {} /\ Windows(EmptyTree) = {}
<1>1. EmptyTree.leaf = <<>> /\ EmptyTree.split = <<>>
  BY DEF EmptyTree
<1>2. DOMAIN <<>> = {}
  OBVIOUS
<1>3. <<>> \in [{} -> Window] /\ <<>> \in [{} -> Split]
  OBVIOUS
<1>4. IsShape({}, {})
  BY EmptyShape
<1>5. EmptyTree = [leaf |-> <<>>, split |-> <<>>]
  BY DEF EmptyTree
<1>6. Leaves(EmptyTree) = {} /\ Windows(EmptyTree) = {}
  BY <1>1, <1>2 DEF Leaves, Windows
<1> QED
  BY <1>1, <1>2, <1>3, <1>4, <1>5, <1>6 DEF IsTree

LEMMA SomeLeaf ==
    ASSUME NEW t, IsTree(t), t # EmptyTree
    PROVE  Leaves(t) # {} /\ <<>> \in Leaves(t) \cup DOMAIN t.split
<1>1. SUFFICES Leaves(t) \cup DOMAIN t.split # {}
  BY <1>1, LeafBelow, RootIsNode DEF IsTree
<1>2. SUFFICES ASSUME Leaves(t) = {}, DOMAIN t.split = {} PROVE FALSE
  OBVIOUS
<1>3. t.leaf \in [{} -> Window] /\ t.split \in [{} -> Split]
  BY <1>2 DEF IsTree
<1>4. t.leaf = <<>> /\ t.split = <<>>
  BY <1>3
<1> QED
  BY <1>4 DEF IsTree, EmptyTree

\* The one tile of a workspace
LEMMA OneLeafTree ==
    ASSUME NEW w \in Window
    PROVE  /\ IsTree(OneLeaf(w)) /\ Leaves(OneLeaf(w)) = {<<>>} /\ DOMAIN OneLeaf(w).split = {}
           /\ Windows(OneLeaf(w)) = {w} /\ OneLeaf(w).leaf[<<>>] = w
<1> DEFINE t == OneLeaf(w)
           f == [p \in {<<>>} |-> w]
<1>1. t = [leaf |-> f, split |-> <<>>]
  BY DEF OneLeaf
<1>2. f \in [{<<>>} -> Window] /\ <<>> \in [{} -> Split] /\ f[<<>>] = w
  OBVIOUS
<1>3. \A p, q \in {<<>>} : f[p] = f[q] => p = q
  OBVIOUS
<1> HIDE DEF t, f
<1>4. /\ IsTree(t) /\ t.leaf = f /\ Leaves(t) = {<<>>} /\ DOMAIN t.split = {}
      /\ Windows(t) = {f[p] : p \in {<<>>}}
  <2>1. t.leaf = f /\ t.split = <<>> /\ DOMAIN t.split = {}
    BY <1>1
  <2>2. Leaves(t) = {<<>>} /\ Windows(t) = {f[p] : p \in {<<>>}}
    BY <1>2, <2>1 DEF Leaves, Windows
  <2>3. IsTree(t)
    BY <1>1, <1>2, <1>3, <2>1, <2>2, RootShape DEF IsTree
  <2> QED
    BY <2>1, <2>2, <2>3
<1>5. Windows(t) = {w}
  BY <1>2, <1>4
<1> QED
  BY <1>2, <1>4, <1>5 DEF t

\* u is t with a split in place of leaf a, of a and of a new leaf for w.
IsSpliced(u, t, a, w, d) ==
    /\ IsTree(u) /\ Windows(u) = Windows(t) \cup {w}
    /\ Leaves(u) = (Leaves(t) \ {a}) \cup {Append(a, 0), Append(a, 1)}
    /\ DOMAIN u.split = DOMAIN t.split \cup {a}
    /\ u.leaf[Append(a, 0)] = t.leaf[a] /\ u.leaf[Append(a, 1)] = w
    /\ \A p \in Leaves(t) \ {a} : u.leaf[p] = t.leaf[p]
    /\ u.split[a] = [dir |-> d, ratio |-> Half]
    /\ \A p \in DOMAIN t.split : u.split[p] = t.split[p]

\* SpliceIn of a new window next to any leaf makes a tree of a tree.
LEMMA SpliceInTree ==
    ASSUME NEW t, IsTree(t), NEW a \in Leaves(t), NEW w \in Window, w \notin Windows(t),
           NEW d \in SplitDirection, NEW u, u = SpliceIn(t, a, w, d)
    PROVE  IsSpliced(u, t, a, w, d)
<1> DEFINE L == (Leaves(t) \ {a}) \cup {Append(a, 0), Append(a, 1)}
           S == DOMAIN t.split \cup {a}
           f == [p \in L |-> IF p = Append(a, 0) THEN t.leaf[a]
                             ELSE IF p = Append(a, 1) THEN w ELSE t.leaf[p]]
           g == [p \in S |-> IF p = a THEN [dir |-> d, ratio |-> Half] ELSE t.split[p]]
<1>1. u = [leaf |-> f, split |-> g]
  BY DEF SpliceIn
<1>2. /\ IsShape(Leaves(t), DOMAIN t.split) /\ t.leaf \in [Leaves(t) -> Window]
      /\ t.split \in [DOMAIN t.split -> Split]
      /\ \A p, q \in Leaves(t) : t.leaf[p] = t.leaf[q] => p = q
  BY DEF IsTree
<1>3. IsShape(L, S)
  BY <1>2, ShapeSpliced
<1>4. a \in Path /\ Leaves(t) \cap DOMAIN t.split = {} /\ 0 \in {0, 1} /\ 1 \in {0, 1}
  BY <1>2 DEF IsShape
<1>5. Append(a, 0) # Append(a, 1)
  <2>1. Last(Append(a, 0)) = 0 /\ Last(Append(a, 1)) = 1
    BY <1>4, ChildOfParent
  <2> QED
    BY <2>1
<1>6. Append(a, 0) \notin Leaves(t) /\ Append(a, 1) \notin Leaves(t)
  <2>1. ASSUME NEW b \in {0, 1}, Append(a, b) \in Leaves(t) PROVE FALSE
    <3>1. IsPrefix(a, Append(a, b)) /\ a # Append(a, b)
      BY <1>4, PrefixOfChild
    <3> QED
      BY <1>2, <2>1, <3>1, NothingBelowLeaf
  <2> QED
    BY <2>1
<1>7. /\ f[Append(a, 0)] = t.leaf[a] /\ f[Append(a, 1)] = w
      /\ \A p \in Leaves(t) \ {a} : f[p] = t.leaf[p]
  BY <1>5, <1>6
<1>8. w \in Window /\ \A p \in Leaves(t) : t.leaf[p] # w /\ t.leaf[p] \in Window
  BY <1>2 DEF Windows
<1>9. f \in [L -> Window]
  BY <1>8
<1>10. [dir |-> d, ratio |-> Half] \in Split
  BY HalfIsRatio DEF Split
<1>11. g \in [S -> Split]
  BY <1>2, <1>10
<1>12. g[a] = [dir |-> d, ratio |-> Half] /\ \A p \in DOMAIN t.split : g[p] = t.split[p]
  BY <1>4
<1>13. ASSUME NEW p \in L, NEW q \in L, f[p] = f[q] PROVE p = q
  <2>1. CASE p \in Leaves(t) \ {a} /\ q \in Leaves(t) \ {a}
    BY <1>2, <1>7, <1>13, <2>1
  <2>2. CASE p = Append(a, 1) \/ q = Append(a, 1)
    BY <1>7, <1>8, <1>13, <2>2
  <2>3. CASE p = Append(a, 0) \/ q = Append(a, 0)
    BY <1>2, <1>7, <1>8, <1>13, <2>3
  <2> QED
    BY <2>1, <2>2, <2>3
<1>14. {f[p] : p \in L} = Windows(t) \cup {w}
  <2>1. ASSUME NEW p \in L PROVE f[p] \in Windows(t) \cup {w}
    BY <1>7 DEF Windows
  <2>2. ASSUME NEW v \in Windows(t) PROVE \E p \in L : f[p] = v
    <3>1. PICK p \in Leaves(t) : t.leaf[p] = v
      BY DEF Windows
    <3>2. CASE p = a
      BY <1>7, <3>1, <3>2
    <3>3. CASE p # a
      BY <1>7, <3>1, <3>3
    <3> QED
      BY <3>2, <3>3
  <2>3. \E p \in L : f[p] = w
    BY <1>7
  <2> HIDE DEF f, L
  <2> QED
    BY <2>1, <2>2, <2>3
<1> HIDE DEF L, S, f, g
<1>15. /\ IsTree(u) /\ u.leaf = f /\ u.split = g /\ Leaves(u) = L /\ DOMAIN u.split = S
       /\ Windows(u) = {f[p] : p \in L}
  BY <1>1, <1>3, <1>9, <1>11, <1>13, TreeOf
<1> QED
  BY <1>7, <1>12, <1>14, <1>15 DEF L, S, IsSpliced

\* Other directions and ratios leave a tree a tree.
LEMMA SplitsChanged ==
    ASSUME NEW t, IsTree(t), NEW g \in [DOMAIN t.split -> Split], NEW u, u = [t EXCEPT !.split = g]
    PROVE  /\ IsTree(u) /\ u.leaf = t.leaf /\ u.split = g /\ DOMAIN u.split = DOMAIN t.split
           /\ Leaves(u) = Leaves(t) /\ Windows(u) = Windows(t)
<1>1. /\ t = [leaf |-> t.leaf, split |-> t.split] /\ IsShape(Leaves(t), DOMAIN t.split)
      /\ t.leaf \in [Leaves(t) -> Window]
      /\ \A p, q \in Leaves(t) : t.leaf[p] = t.leaf[q] => p = q
  BY DEF IsTree
<1>2. u = [leaf |-> t.leaf, split |-> g]
  BY <1>1
<1>3. /\ IsTree(u) /\ u.leaf = t.leaf /\ u.split = g /\ DOMAIN u.split = DOMAIN t.split
      /\ Leaves(u) = Leaves(t) /\ Windows(u) = {t.leaf[p] : p \in Leaves(t)}
  BY <1>1, <1>2, TreeOf
<1> QED
  BY <1>3 DEF Windows

\* Two windows that change leaves leave a tree a tree.
LEMMA LeavesExchanged ==
    ASSUME NEW t, IsTree(t), NEW v \in Windows(t), NEW w \in Windows(t),
           NEW u, u = Exchanged(t, v, w)
    PROVE  /\ IsTree(u) /\ Leaves(u) = Leaves(t) /\ u.split = t.split /\ Windows(u) = Windows(t)
           /\ \A p \in Leaves(t) :
                u.leaf[p] = IF p = LeafOf(t, w) THEN v
                            ELSE IF p = LeafOf(t, v) THEN w ELSE t.leaf[p]
<1> DEFINE a == LeafOf(t, v)
           b == LeafOf(t, w)
           f == [p \in Leaves(t) |-> IF p = b THEN v ELSE IF p = a THEN w ELSE t.leaf[p]]
<1>1. /\ t = [leaf |-> t.leaf, split |-> t.split] /\ IsShape(Leaves(t), DOMAIN t.split)
      /\ t.leaf \in [Leaves(t) -> Window] /\ t.split \in [DOMAIN t.split -> Split]
      /\ \A p, q \in Leaves(t) : t.leaf[p] = t.leaf[q] => p = q
  BY DEF IsTree
<1>2. /\ a \in Leaves(t) /\ t.leaf[a] = v /\ b \in Leaves(t) /\ t.leaf[b] = w
  BY LeafOfIsThere
<1> HIDE DEF a, b
<1>3. u = [leaf |-> [[t.leaf EXCEPT ![a] = w] EXCEPT ![b] = v], split |-> t.split]
  <2>1. u = [t EXCEPT !.leaf[a] = w, !.leaf[b] = v]
    BY DEF Exchanged, a, b
  <2> QED
    BY <1>1, <2>1
<1>4. [[t.leaf EXCEPT ![a] = w] EXCEPT ![b] = v] = f
  BY <1>1, <1>2
<1>5. v \in Window /\ w \in Window
  BY <1>1, <1>2
<1>6. f \in [Leaves(t) -> Window]
  BY <1>1, <1>5
<1>7. f[b] = v /\ (a # b => f[a] = w) /\ \A p \in Leaves(t) \ {a, b} : f[p] = t.leaf[p]
  BY <1>2
<1>8. ASSUME NEW p \in Leaves(t), NEW q \in Leaves(t), f[p] = f[q] PROVE p = q
  BY <1>1, <1>2, <1>7, <1>8
<1>9. {f[p] : p \in Leaves(t)} = Windows(t)
  <2>1. ASSUME NEW p \in Leaves(t) PROVE f[p] \in Windows(t)
    BY <1>7 DEF Windows
  <2>2. ASSUME NEW x \in Windows(t) PROVE \E p \in Leaves(t) : f[p] = x
    <3>1. PICK p \in Leaves(t) : t.leaf[p] = x
      BY DEF Windows
    <3> QED
      BY <1>2, <1>7, <3>1
  <2> HIDE DEF f
  <2> QED
    BY <2>1, <2>2
<1>10. \A p \in Leaves(t) : f[p] = IF p = b THEN v ELSE IF p = a THEN w ELSE t.leaf[p]
  OBVIOUS
<1> HIDE DEF f
<1>11. /\ IsTree(u) /\ u.leaf = f /\ u.split = t.split /\ Leaves(u) = Leaves(t)
       /\ Windows(u) = {f[p] : p \in Leaves(t)}
  <2>1. u = [leaf |-> f, split |-> t.split] /\ u.leaf = f /\ u.split = t.split
    <3>1. PICK h : h = [[t.leaf EXCEPT ![a] = w] EXCEPT ![b] = v]
      OBVIOUS
    <3>2. u = [leaf |-> h, split |-> t.split] /\ h = f
      BY <1>3, <1>4, <3>1, Zenon
    <3>3. u = [leaf |-> f, split |-> t.split]
      BY <3>2, Zenon
    <3>4. PICK g : g = t.split
      OBVIOUS
    <3>5. u.leaf = f /\ u.split = g
      <4>1. u = [leaf |-> f, split |-> g]
        BY <3>3, <3>4, Zenon
      <4> QED
        BY <4>1, TreeFields, ZenonT(30)
    <3> QED
      BY <3>3, <3>4, <3>5, Zenon
  <2>2. Leaves(u) = Leaves(t) /\ Windows(u) = {f[p] : p \in Leaves(t)}
    BY <1>6, <2>1 DEF Leaves, Windows
  <2>3. IsTree(u)
    BY <1>1, <1>6, <1>8, <2>1, <2>2 DEF IsTree
  <2> QED
    BY <2>1, <2>2, <2>3
<1> QED
  BY <1>9, <1>10, <1>11 DEF a, b

LEMMA PromoteIs ==
    ASSUME NEW f, DOMAIN f \subseteq Path, NEW p \in Path, p # <<>>
    PROVE  Promote(f, p) = [q \in {r \in Path : Demoted(p, r) \in DOMAIN f} |-> f[Demoted(p, q)]]
<1> DEFINE kept == {q \in DOMAIN f : ~IsPrefix(Parent(p), q) \/ IsPrefix(Sibling(p), q)}
           D == {Promoted(p, k) : k \in kept}
           E == {r \in Path : Demoted(p, r) \in DOMAIN f}
<1>1. \A k \in kept : k \in Path /\ Stays(p, k) /\ k \in DOMAIN f
  BY DEF Stays
<1>2. ASSUME NEW k \in kept
      PROVE  Promoted(p, k) \in E /\ Demoted(p, Promoted(p, k)) = k
  BY <1>1, DemotedBack
<1>3. ASSUME NEW q \in E PROVE Demoted(p, q) \in kept /\ Promoted(p, Demoted(p, q)) = q
  BY PromotedBack DEF Stays
<1>4. D = E
  <2> HIDE DEF kept, E
  <2> QED
    BY <1>2, <1>3
<1>5. ASSUME NEW q \in E PROVE (CHOOSE k \in kept : Promoted(p, k) = q) = Demoted(p, q)
  <2>1. Demoted(p, q) \in kept /\ Promoted(p, Demoted(p, q)) = q
    BY <1>3
  <2>2. ASSUME NEW k \in kept, Promoted(p, k) = q PROVE k = Demoted(p, q)
    BY <1>2, <2>2
  <2> HIDE DEF kept, E
  <2> QED
    BY <2>1, <2>2
<1>6. Promote(f, p) = [q \in D |-> f[CHOOSE k \in kept : Promoted(p, k) = q]]
  BY DEF Promote
<1> HIDE DEF kept, D, E
<1>7. Promote(f, p) = [q \in E |-> f[Demoted(p, q)]]
  BY <1>4, <1>5, <1>6
<1> QED
  BY <1>7 DEF E

LEMMA ShapePromoted ==
    ASSUME NEW L, NEW S, IsShape(L, S), NEW p \in L, p # <<>>
    PROVE  IsShape({q \in Path : Demoted(p, q) \in L}, {q \in Path : Demoted(p, q) \in S})
<1>1. /\ p \in Path /\ L \cup S \subseteq Path /\ Parent(p) \in S /\ Parent(p) \in Path
      /\ 0 \in {0, 1} /\ 1 \in {0, 1}
  BY ParentFacts DEF IsShape
<1> DEFINE d == [q \in Path |-> Demoted(p, q)]
<1>2. d \in [Path -> Path] /\ \A q \in Path : d[q] = Demoted(p, q)
  BY <1>1, PromotedBack
<1>3. ASSUME NEW q \in Path PROVE Len(q) <= Len(Demoted(p, q)) + 1
  <2>1. Len(q) \in Nat
    BY PathFacts
  <2>2. CASE IsPrefix(Parent(p), q)
    <3>1. Len(Demoted(p, q)) = Len(q) + 1
      BY <1>1, <2>2, DemotedFacts
    <3> QED
      BY <2>1, <3>1, SMT
  <2>3. CASE ~IsPrefix(Parent(p), q)
    <3>1. Len(Demoted(p, q)) = Len(q)
      BY <2>3 DEF Demoted
    <3> QED
      BY <2>1, <3>1, SMT
  <2> QED
    BY <2>2, <2>3
<1>4. Sibling(p) \in L \cup S
  <2>1. ASSUME NEW b \in {0, 1} PROVE Append(Parent(p), b) \in L \cup S
    BY <1>1 DEF IsShape
  <2> QED
    BY <1>1, <2>1, ParentFacts
<1>5. ASSUME NEW q \in Path, Demoted(p, q) \in S, NEW b \in {0, 1}
      PROVE  Demoted(p, Append(q, b)) \in L \cup S
  <2>1. CASE Append(q, b) = Parent(p)
    <3>1. Demoted(p, Append(q, b)) = Sibling(p)
      BY <1>1, <2>1, DemotedChild
    <3> QED
      BY <1>4, <3>1
  <2>2. CASE Append(q, b) # Parent(p)
    <3>1. Demoted(p, Append(q, b)) = Append(Demoted(p, q), b)
      BY <1>1, <2>2, DemotedChild
    <3> QED
      BY <1>5, <3>1 DEF IsShape
  <2> QED
    BY <2>1, <2>2
<1>6. ASSUME NEW q \in Path, Demoted(p, q) \in L \cup S, q # <<>>
      PROVE  Demoted(p, Parent(q)) \in S
  <2>1. /\ Parent(q) \in Path /\ Last(q) \in {0, 1} /\ Append(Parent(q), Last(q)) = q
    BY <1>6, ParentFacts
  <2>2. CASE q = Parent(p)
    <3>1. Demoted(p, Parent(q)) = Parent(q)
      BY <1>1, <2>1, <2>2, DemotedChild, SMTT(30)
    <3>2. Parent(q) \in S
      BY <1>1, <1>6, <2>2 DEF IsShape
    <3> QED
      BY <3>1, <3>2
  <2>3. CASE q # Parent(p)
    <3>1. Demoted(p, q) = Append(Demoted(p, Parent(q)), Last(q))
      <4>1. Append(Parent(q), Last(q)) # Parent(p)
        BY <2>1, <2>3
      <4>2. Demoted(p, Append(Parent(q), Last(q))) = Append(Demoted(p, Parent(q)), Last(q))
        BY <1>1, <2>1, <4>1, DemotedChild, ZenonT(60)
      <4> QED
        BY <2>1, <4>2
    <3>2. Demoted(p, Parent(q)) \in Path
      BY <1>1, <2>1, PromotedBack
    <3>3. Parent(Demoted(p, q)) = Demoted(p, Parent(q)) /\ Demoted(p, q) # <<>>
      BY <2>1, <3>1, <3>2, ChildFacts, ChildOfParent
    <3> QED
      BY <1>6, <3>3 DEF IsShape
  <2> QED
    BY <2>2, <2>3
<1> HIDE DEF d
<1>7. /\ \A q \in Path : Len(q) <= Len(d[q]) + 1
      /\ \A q \in Path : d[q] \in S => d[Append(q, 0)] \in L \cup S /\ d[Append(q, 1)] \in L \cup S
      /\ \A q \in Path : d[q] \in L \cup S => q = <<>> \/ d[Parent(q)] \in S
  <2>1. \A q \in Path : /\ Append(q, 0) \in Path /\ Append(q, 1) \in Path
                        /\ q # <<>> => Parent(q) \in Path
    BY <1>1, ChildFacts, ParentFacts
  <2>2. \A q \in Path : Len(q) <= Len(d[q]) + 1
    BY <1>2, <1>3
  <2>3. \A q \in Path : d[q] \in S => d[Append(q, 0)] \in L \cup S /\ d[Append(q, 1)] \in L \cup S
    BY <1>1, <1>2, <1>5, <2>1
  <2>4. \A q \in Path : d[q] \in L \cup S => q = <<>> \/ d[Parent(q)] \in S
    BY <1>2, <1>6, <2>1
  <2> QED
    BY <2>2, <2>3, <2>4
<1>8. IsShape({q \in Path : d[q] \in L}, {q \in Path : d[q] \in S})
  BY <1>2, <1>7, ShapeRenamed, ZenonT(60)
<1>9. /\ {q \in Path : d[q] \in L} = {q \in Path : Demoted(p, q) \in L}
      /\ {q \in Path : d[q] \in S} = {q \in Path : Demoted(p, q) \in S}
  BY <1>2
<1> QED
  BY <1>8, <1>9

LEMMA LeavesStay ==
    ASSUME NEW L, NEW S, IsShape(L, S), NEW p \in L, p # <<>>, NEW q \in L, q # p
    PROVE  Stays(p, q)
<1>1. /\ p \in Path /\ q \in Path /\ Parent(p) \in S /\ Parent(p) \in Path /\ L \cap S = {}
  BY ParentFacts DEF IsShape
<1>2. SUFFICES ASSUME IsPrefix(Parent(p), q) PROVE IsPrefix(Sibling(p), q)
  BY DEF Stays
<1>3. Parent(p) # q
  BY <1>1
<1>4. /\ q[Len(Parent(p)) + 1] \in {0, 1}
      /\ IsPrefix(Append(Parent(p), q[Len(Parent(p)) + 1]), q)
  BY <1>1, <1>2, <1>3, NextOnTheWay
<1>5. /\ Last(p) \in {0, 1} /\ Append(Parent(p), Last(p)) = p
      /\ Sibling(p) = Append(Parent(p), 1 - Last(p))
  BY <1>1, ParentFacts
<1>6. CASE q[Len(Parent(p)) + 1] = Last(p)
  <2>1. IsPrefix(p, q)
    BY <1>4, <1>5, <1>6
  <2> QED
    BY <2>1, NothingBelowLeaf
<1>7. CASE q[Len(Parent(p)) + 1] # Last(p)
  <2>1. q[Len(Parent(p)) + 1] = 1 - Last(p)
    BY <1>4, <1>5, <1>7, SMT
  <2> QED
    BY <1>4, <1>5, <2>1
<1> QED
  BY <1>6, <1>7

\* u is t with the sibling of its leaf p in their parent's place.
IsPromoted(u, t, p) ==
    /\ IsTree(u) /\ Windows(u) = Windows(t) \ {t.leaf[p]}
    /\ Leaves(u) = {q \in Path : Demoted(p, q) \in Leaves(t)}
    /\ DOMAIN u.split = {q \in Path : Demoted(p, q) \in DOMAIN t.split}
    /\ \A q \in Leaves(u) : u.leaf[q] = t.leaf[Demoted(p, q)]
    /\ \A q \in DOMAIN u.split : u.split[q] = t.split[Demoted(p, q)]
    /\ \A q \in Leaves(t) \ {p} : Promoted(p, q) \in Leaves(u) /\ Demoted(p, Promoted(p, q)) = q

\* What Without leaves, before directions are normal again, is a tree.
LEMMA PromotedTree ==
    ASSUME NEW t, IsTree(t), NEW p \in Leaves(t), p # <<>>,
           NEW u, u = [leaf |-> Promote(t.leaf, p), split |-> Promote(t.split, p)]
    PROVE  IsPromoted(u, t, p)
<1> DEFINE L == {q \in Path : Demoted(p, q) \in Leaves(t)}
           S == {q \in Path : Demoted(p, q) \in DOMAIN t.split}
           f == [q \in L |-> t.leaf[Demoted(p, q)]]
           g == [q \in S |-> t.split[Demoted(p, q)]]
<1>1. /\ IsShape(Leaves(t), DOMAIN t.split) /\ t.leaf \in [Leaves(t) -> Window]
      /\ t.split \in [DOMAIN t.split -> Split]
      /\ \A q, r \in Leaves(t) : t.leaf[q] = t.leaf[r] => q = r
  BY DEF IsTree
<1>2. /\ p \in Path /\ DOMAIN t.leaf \subseteq Path /\ DOMAIN t.split \subseteq Path
      /\ Leaves(t) \cap DOMAIN t.split = {} /\ DOMAIN t.leaf = Leaves(t) /\ Leaves(t) \subseteq Path
  BY <1>1 DEF IsShape, Leaves
<1>3. Promote(t.leaf, p) = f /\ Promote(t.split, p) = g
  <2>1. Promote(t.leaf, p)
          = [q \in {r \in Path : Demoted(p, r) \in DOMAIN t.leaf} |-> t.leaf[Demoted(p, q)]]
    BY <1>2, PromoteIs
  <2>2. Promote(t.split, p)
          = [q \in {r \in Path : Demoted(p, r) \in DOMAIN t.split} |-> t.split[Demoted(p, q)]]
    BY <1>2, PromoteIs
  <2> QED
    BY <1>2, <2>1, <2>2
<1>4. IsShape(L, S)
  BY <1>1, ShapePromoted
<1>5. f \in [L -> Window] /\ g \in [S -> Split]
  BY <1>1
<1>6. ASSUME NEW q \in L, NEW r \in L, f[q] = f[r] PROVE q = r
  <2>1. Demoted(p, q) = Demoted(p, r)
    BY <1>1, <1>6
  <2>2. Promoted(p, Demoted(p, q)) = q /\ Promoted(p, Demoted(p, r)) = r
    BY <1>2, PromotedBack
  <2> QED
    BY <2>1, <2>2
<1>7. ASSUME NEW q \in Leaves(t) \ {p}
      PROVE  Promoted(p, q) \in L /\ Demoted(p, Promoted(p, q)) = q
  <2>1. Stays(p, q) /\ q \in Path
    BY <1>1, <1>2, LeavesStay
  <2> QED
    BY <1>2, <2>1, DemotedBack
<1>8. ASSUME NEW q \in L PROVE Demoted(p, q) \in Leaves(t) \ {p}
  <2>1. ~Stays(p, p)
    <3>1. IsPrefix(Parent(p), p) /\ Sibling(p) \in Path /\ Len(Sibling(p)) = Len(p) /\ Sibling(p) # p
      BY <1>2, ParentIsPrefix, SiblingFacts
    <3>2. ~IsPrefix(Sibling(p), p)
      BY <1>2, <3>1, SameLengthPrefix
    <3> QED
      BY <3>1, <3>2 DEF Stays
  <2>2. Stays(p, Demoted(p, q))
    BY <1>2, PromotedBack
  <2> QED
    BY <2>1, <2>2
<1>9. {f[q] : q \in L} = Windows(t) \ {t.leaf[p]}
  <2>1. ASSUME NEW q \in L PROVE f[q] \in Windows(t) \ {t.leaf[p]}
    <3>1. f[q] = t.leaf[Demoted(p, q)] /\ Demoted(p, q) \in Leaves(t) \ {p}
      BY <1>8
    <3> QED
      BY <1>1, <3>1 DEF Windows
  <2>2. ASSUME NEW w \in Windows(t) \ {t.leaf[p]} PROVE \E q \in L : f[q] = w
    <3>1. PICK q \in Leaves(t) : t.leaf[q] = w
      BY DEF Windows
    <3>2. Promoted(p, q) \in L /\ Demoted(p, Promoted(p, q)) = q
      BY <1>7, <3>1
    <3> QED
      BY <3>1, <3>2
  <2> HIDE DEF f, L
  <2> QED
    BY <2>1, <2>2
<1>10. /\ \A q \in L : f[q] = t.leaf[Demoted(p, q)]
       /\ \A q \in S : g[q] = t.split[Demoted(p, q)]
  OBVIOUS
<1> HIDE DEF L, S, f, g
<1>11. u = [leaf |-> f, split |-> g]
  BY <1>3
<1>12. /\ IsTree(u) /\ u.leaf = f /\ u.split = g /\ Leaves(u) = L /\ DOMAIN u.split = S
       /\ Windows(u) = {f[q] : q \in L}
  BY <1>4, <1>5, <1>6, <1>11, TreeOf
<1>13. Leaves(u) = {q \in Path : Demoted(p, q) \in Leaves(t)}
  BY <1>12 DEF L
<1>14. DOMAIN u.split = {q \in Path : Demoted(p, q) \in DOMAIN t.split}
  BY <1>12 DEF S
<1> QED
  BY <1>7, <1>9, <1>10, <1>12, <1>13, <1>14 DEF IsPromoted

\* NormalizeDirections only turns splits.
LEMMA NormalizedTree ==
    ASSUME NEW t, IsTree(t), NEW top, NEW rect, NEW u, u = NormalizeDirections(t, top, rect)
    PROVE  /\ IsTree(u) /\ u.leaf = t.leaf /\ Leaves(u) = Leaves(t) /\ Windows(u) = Windows(t)
           /\ DOMAIN u.split = DOMAIN t.split
           /\ \A p \in DOMAIN t.split : u.split[p].ratio = t.split[p].ratio
           /\ \A p \in DOMAIN t.split : ~IsPrefix(top, p) => u.split[p] = t.split[p]
<1>1. PICK slot : u = [t EXCEPT !.split = [p \in DOMAIN t.split |->
                         IF p \in {q \in DOMAIN t.split : IsPrefix(top, q)}
                         THEN [t.split[p] EXCEPT !.dir = Natural(slot[p])] ELSE t.split[p]]]
  <2> DEFINE below == {q \in DOMAIN t.split : IsPrefix(top, q)}
             natural(p, s) == [t.split[p] EXCEPT !.dir = Natural(s)]
             slot[p \in below] ==
               IF p = top THEN rect
               ELSE Subdivide(natural(Parent(p), slot[Parent(p)]), slot[Parent(p)])[Last(p) + 1]
  <2>1. u = [t EXCEPT !.split = [p \in DOMAIN t.split |->
               IF p \in below THEN natural(p, slot[p]) ELSE t.split[p]]]
    BY DEF NormalizeDirections
  <2> HIDE DEF slot
  <2> QED
    BY <2>1
<1> DEFINE g == [p \in DOMAIN t.split |->
                   IF p \in {q \in DOMAIN t.split : IsPrefix(top, q)}
                   THEN [t.split[p] EXCEPT !.dir = Natural(slot[p])] ELSE t.split[p]]
<1>2. t.split \in [DOMAIN t.split -> Split]
  BY DEF IsTree
<1>3. ASSUME NEW p \in DOMAIN t.split
      PROVE  /\ g[p] \in Split /\ g[p].ratio = t.split[p].ratio
             /\ ~IsPrefix(top, p) => g[p] = t.split[p]
  <2>1. t.split[p] \in [dir : SplitDirection, ratio : Ratio]
    BY <1>2 DEF Split
  <2>2. Natural(slot[p]) \in SplitDirection
    BY DEF Natural, SplitDirection
  <2>3. CASE IsPrefix(top, p)
    <3>1. g[p] = [t.split[p] EXCEPT !.dir = Natural(slot[p])]
      BY <2>3
    <3> QED
      BY <2>1, <2>2, <2>3, <3>1 DEF Split
  <2>4. CASE ~IsPrefix(top, p)
    BY <1>2, <2>4
  <2> QED
    BY <2>3, <2>4
<1>4. g \in [DOMAIN t.split -> Split]
  BY <1>3
<1> HIDE DEF g
<1>5. u = [t EXCEPT !.split = g]
  BY <1>1 DEF g
<1>6. /\ IsTree(u) /\ u.leaf = t.leaf /\ u.split = g /\ DOMAIN u.split = DOMAIN t.split
      /\ Leaves(u) = Leaves(t) /\ Windows(u) = Windows(t)
  BY <1>4, <1>5, SplitsChanged
<1> QED
  BY <1>3, <1>6

(* -------------------------------- flipping ------------------------------- *)

LEMMA AcrossFacts ==
    ASSUME NEW p \in Path, NEW q \in Path
    PROVE  /\ Across(p, q) \in Path /\ Len(Across(p, q)) = Len(q)
           /\ \A i \in 1..Len(q) :
                Across(p, q)[i] = IF i = Len(p) + 1 /\ IsPrefix(p, q) THEN 1 - q[i] ELSE q[i]
<1>1. /\ q \in Seq({0, 1}) /\ Len(q) \in Nat /\ Len(p) \in Nat
      /\ \A i \in 1..Len(q) : q[i] \in {0, 1}
  BY PathFacts DEF Path
<1>2. CASE IsPrefix(p, q) /\ p # q
  <2>1. Len(p) < Len(q) /\ Len(p) + 1 \in 1..Len(q)
    <3>1. Len(p) < Len(q)
      BY <1>2, NextOnTheWay
    <3> QED
      BY <1>1, <3>1, SMT
  <2>2. 1 - q[Len(p) + 1] \in {0, 1}
    <3>1. q[Len(p) + 1] \in {0, 1}
      BY <1>1, <2>1
    <3> QED
      BY <3>1, SMT
  <2>3. Across(p, q) = [q EXCEPT ![Len(p) + 1] = 1 - q[Len(p) + 1]]
    BY <1>2 DEF Across, IsStrictPrefix
  <2> DEFINE k == Len(p) + 1
             e == 1 - q[Len(p) + 1]
  <2>4. k \in 1..Len(q) /\ e \in {0, 1} /\ Across(p, q) = [q EXCEPT ![k] = e]
    BY <2>1, <2>2, <2>3
  <2> HIDE DEF k, e
  <2>5. /\ [q EXCEPT ![k] = e] \in Seq({0, 1}) /\ Len([q EXCEPT ![k] = e]) = Len(q)
        /\ \A j \in 1 .. Len(q) : [q EXCEPT ![k] = e][j] = IF j = k THEN e ELSE q[j]
    BY <1>1, <2>4, ExceptSeq
  <2> QED
    BY <1>2, <2>4, <2>5 DEF k, e, Path
<1>3. CASE ~(IsPrefix(p, q) /\ p # q)
  <2>1. Across(p, q) = q
    BY <1>3 DEF Across, IsStrictPrefix
  <2>2. ASSUME NEW i \in 1..Len(q) PROVE ~(i = Len(p) + 1 /\ IsPrefix(p, q))
    <3>1. SUFFICES ASSUME i = Len(p) + 1, p = q PROVE FALSE
      BY <1>3
    <3> QED
      BY <1>1, <3>1, SMT
  <2> QED
    BY <1>1, <2>1, <2>2
<1> QED
  BY <1>2, <1>3

LEMMA AcrossPrefix ==
    ASSUME NEW p \in Path, NEW q \in Path
    PROVE  IsPrefix(p, Across(p, q)) <=> IsPrefix(p, q)
<1>1. /\ Across(p, q) \in Path /\ Len(Across(p, q)) = Len(q) /\ Len(p) \in Nat /\ Len(q) \in Nat
      /\ \A i \in 1..Len(q) :
           Across(p, q)[i] = IF i = Len(p) + 1 /\ IsPrefix(p, q) THEN 1 - q[i] ELSE q[i]
  BY AcrossFacts, PathFacts
<1>2. ASSUME Len(p) <= Len(q), NEW i \in 1..Len(p) PROVE Across(p, q)[i] = q[i]
  <2>1. i \in 1..Len(q) /\ i # Len(p) + 1
    BY <1>1, <1>2, SMT
  <2> QED
    BY <1>1, <2>1
<1> QED
  BY <1>1, <1>2, PrefixAt

LEMMA AcrossTwice ==
    ASSUME NEW p \in Path, NEW q \in Path
    PROVE  Across(p, Across(p, q)) = q
<1> DEFINE r == Across(p, q)
<1>1. /\ r \in Path /\ Len(r) = Len(q) /\ Len(q) \in Nat
      /\ \A i \in 1..Len(q) : r[i] = IF i = Len(p) + 1 /\ IsPrefix(p, q) THEN 1 - q[i] ELSE q[i]
      /\ \A i \in 1..Len(q) : q[i] \in {0, 1}
      /\ IsPrefix(p, r) <=> IsPrefix(p, q)
  BY AcrossFacts, AcrossPrefix, PathFacts
<1> HIDE DEF r
<1>2. /\ Across(p, r) \in Path /\ Len(Across(p, r)) = Len(r)
      /\ \A i \in 1..Len(r) :
           Across(p, r)[i] = IF i = Len(p) + 1 /\ IsPrefix(p, r) THEN 1 - r[i] ELSE r[i]
  BY <1>1, AcrossFacts
<1>3. ASSUME NEW i \in 1..Len(q) PROVE Across(p, r)[i] = q[i]
  <2>1. q[i] \in {0, 1} => 1 - (1 - q[i]) = q[i]
    BY SMT
  <2> QED
    BY <1>1, <1>2, <2>1
<1>4. Across(p, r) = q
  BY <1>1, <1>2, <1>3, SamePath
<1> QED
  BY <1>4 DEF r

LEMMA AcrossChild ==
    ASSUME NEW p \in Path, NEW q \in Path, NEW b \in {0, 1}
    PROVE  /\ q # p => Across(p, Append(q, b)) = Append(Across(p, q), b)
           /\ Across(p, Append(p, b)) = Append(p, 1 - b)
           /\ Across(p, p) = p
<1>1. Across(p, p) = p
  BY DEF Across, IsStrictPrefix
<1>2. 1 - b \in {0, 1}
  BY SMT
<1>3. Across(p, Append(p, b)) = Append(p, 1 - b)
  <2> DEFINE r == Append(p, b)
             o == Append(p, 1 - b)
  <2>1. /\ r \in Path /\ Len(r) = Len(p) + 1 /\ \A i \in 1..Len(p) : r[i] = p[i]
        /\ r[Len(p) + 1] = b /\ IsPrefix(p, r) /\ Len(p) \in Nat
    <3>1. IsPrefix(p, Append(p, b))
      BY PrefixOfChild
    <3> QED
      BY <3>1, ChildFacts, PathFacts
  <2>2. /\ o \in Path /\ Len(o) = Len(p) + 1 /\ \A i \in 1..Len(p) : o[i] = p[i]
        /\ o[Len(p) + 1] = 1 - b
    BY <1>2, ChildFacts
  <2> HIDE DEF r, o
  <2>3. /\ Across(p, r) \in Path /\ Len(Across(p, r)) = Len(r)
        /\ \A i \in 1..Len(r) :
             Across(p, r)[i] = IF i = Len(p) + 1 /\ IsPrefix(p, r) THEN 1 - r[i] ELSE r[i]
    BY <2>1, AcrossFacts
  <2>4. \A i \in 1..(Len(p) + 1) : (i \in 1..Len(p) /\ i # Len(p) + 1) \/ i = Len(p) + 1
    BY <2>1, SMT
  <2>5. \A i \in 1..Len(r) : Across(p, r)[i] = o[i]
    BY <2>1, <2>2, <2>3, <2>4
  <2>6. Across(p, r) = o
    BY <2>1, <2>2, <2>3, <2>5, SamePath
  <2> QED
    BY <2>6 DEF r, o
<1>4. ASSUME q # p PROVE Across(p, Append(q, b)) = Append(Across(p, q), b)
  <2> DEFINE r == Append(q, b)
             o == Append(Across(p, q), b)
  <2>1. /\ r \in Path /\ Len(r) = Len(q) + 1 /\ \A i \in 1..Len(q) : r[i] = q[i]
        /\ r[Len(q) + 1] = b /\ Len(p) \in Nat /\ Len(q) \in Nat
        /\ r # <<>>
    BY ChildFacts, PathFacts
  <2>2. /\ Across(p, q) \in Path /\ Len(Across(p, q)) = Len(q)
        /\ \A i \in 1..Len(q) :
             Across(p, q)[i] = IF i = Len(p) + 1 /\ IsPrefix(p, q) THEN 1 - q[i] ELSE q[i]
    BY AcrossFacts
  <2>3. /\ o \in Path /\ Len(o) = Len(q) + 1
        /\ \A i \in 1..Len(q) : o[i] = Across(p, q)[i]
        /\ o[Len(q) + 1] = b
    <3>1. PICK x \in Path : x = Across(p, q)
      BY <2>2
    <3>2. /\ Append(x, b) \in Path /\ Len(Append(x, b)) = Len(x) + 1
          /\ \A i \in 1..Len(x) : Append(x, b)[i] = x[i]
          /\ Append(x, b)[Len(x) + 1] = b
      BY ChildFacts
    <3> QED
      BY <2>2, <3>1, <3>2
  <2>4. IsPrefix(p, r) <=> IsPrefix(p, q) \/ p = r
    BY PrefixOfChild
  <2> HIDE DEF r, o
  <2>5. /\ Across(p, r) \in Path /\ Len(Across(p, r)) = Len(r)
        /\ \A i \in 1..Len(r) :
             Across(p, r)[i] = IF i = Len(p) + 1 /\ IsPrefix(p, r) THEN 1 - r[i] ELSE r[i]
    BY <2>1, AcrossFacts
  <2>6. ASSUME NEW i \in 1..Len(r) PROVE Across(p, r)[i] = o[i]
    <3>1. CASE i \in 1..Len(q)
      <4>1. ASSUME i = Len(p) + 1 PROVE IsPrefix(p, r) <=> IsPrefix(p, q)
        <5>1. p # r
          BY <2>1, <3>1, <4>1, SMT
        <5> QED
          BY <2>4, <5>1
      <4> QED
        BY <2>1, <2>2, <2>3, <2>5, <3>1, <4>1
    <3>2. CASE i = Len(q) + 1
      <4>1. ~(i = Len(p) + 1 /\ IsPrefix(p, r))
        <5>1. SUFFICES ASSUME Len(p) = Len(q), IsPrefix(p, r) PROVE FALSE
          BY <2>1, <3>2, SMT
        <5>2. IsPrefix(p, q) \/ p = r
          BY <2>4, <5>1
        <5>3. p # r
          BY <2>1, <5>1, SMT
        <5> QED
          BY <1>4, <5>1, <5>2, <5>3, SameLengthPrefix
      <4> QED
        BY <2>1, <2>3, <2>5, <3>2, <4>1
    <3> QED
      BY <2>1, <3>1, <3>2, SMT
  <2>7. Across(p, r) = o
    BY <2>1, <2>3, <2>5, <2>6, SamePath
  <2> QED
    BY <2>7 DEF r, o
<1> QED
  BY <1>1, <1>3, <1>4

LEMMA SwapChildrenIs ==
    ASSUME NEW f, DOMAIN f \subseteq Path, NEW p \in Path
    PROVE  SwapChildren(f, p) = [q \in {r \in Path : Across(p, r) \in DOMAIN f} |-> f[Across(p, q)]]
<1>1. {Across(p, k) : k \in DOMAIN f} = {r \in Path : Across(p, r) \in DOMAIN f}
  <2>1. ASSUME NEW k \in DOMAIN f
        PROVE  Across(p, k) \in Path /\ Across(p, Across(p, k)) \in DOMAIN f
    BY AcrossFacts, AcrossTwice
  <2>2. ASSUME NEW r \in Path, Across(p, r) \in DOMAIN f
        PROVE  \E k \in DOMAIN f : Across(p, k) = r
    BY <2>2, AcrossTwice
  <2> QED
    BY <2>1, <2>2
<1> QED
  BY <1>1 DEF SwapChildren

LEMMA ShapeFlipped ==
    ASSUME NEW L, NEW S, IsShape(L, S), NEW p \in S
    PROVE  IsShape({q \in Path : Across(p, q) \in L}, {q \in Path : Across(p, q) \in S})
<1>1. p \in Path /\ L \cup S \subseteq Path /\ 0 \in {0, 1} /\ 1 \in {0, 1}
  BY DEF IsShape
<1> DEFINE d == [q \in Path |-> Across(p, q)]
<1>2. d \in [Path -> Path] /\ \A q \in Path : d[q] = Across(p, q)
  BY <1>1, AcrossFacts
<1>3. ASSUME NEW q \in Path PROVE Len(q) <= Len(Across(p, q)) + 1
  <2>1. Len(q) \in Nat /\ Len(Across(p, q)) = Len(q)
    BY <1>1, AcrossFacts, PathFacts
  <2> QED
    BY <2>1, SMT
<1>4. ASSUME NEW q \in Path, Across(p, q) \in S, NEW b \in {0, 1}
      PROVE  Across(p, Append(q, b)) \in L \cup S
  <2>1. \A c \in {0, 1} : Append(Across(p, q), c) \in L \cup S
    BY <1>4 DEF IsShape
  <2>2. CASE q = p
    <3>1. Across(p, Append(q, b)) = Append(p, 1 - b) /\ Across(p, q) = p /\ 1 - b \in {0, 1}
      <4>1. 1 - b \in {0, 1}
        BY SMT
      <4> QED
        BY <1>1, <2>2, <4>1, AcrossChild
    <3> QED
      BY <2>1, <3>1
  <2>3. CASE q # p
    <3>1. Across(p, Append(q, b)) = Append(Across(p, q), b)
      BY <1>1, <2>3, AcrossChild
    <3> QED
      BY <2>1, <3>1
  <2> QED
    BY <2>2, <2>3
<1>5. ASSUME NEW q \in Path, Across(p, q) \in L \cup S, q # <<>>
      PROVE  Across(p, Parent(q)) \in S
  <2>1. Parent(q) \in Path /\ Last(q) \in {0, 1} /\ Append(Parent(q), Last(q)) = q
    BY <1>5, ParentFacts
  <2>2. CASE Parent(q) = p
    BY <1>1, <2>1, <2>2, AcrossChild
  <2>3. CASE Parent(q) # p
    <3>1. Across(p, Parent(q)) \in Path
      BY <1>1, <2>1, AcrossFacts
    <3>2. Across(p, Append(Parent(q), Last(q))) = Append(Across(p, Parent(q)), Last(q))
      BY <1>1, <2>1, <2>3, AcrossChild
    <3>3. Parent(Across(p, q)) = Across(p, Parent(q)) /\ Across(p, q) # <<>>
      BY <2>1, <3>1, <3>2, ChildFacts, ChildOfParent
    <3> QED
      BY <1>5, <3>3 DEF IsShape
  <2> QED
    BY <2>2, <2>3
<1> HIDE DEF d
<1>6. \A q \in Path : /\ Append(q, 0) \in Path /\ Append(q, 1) \in Path
                      /\ q # <<>> => Parent(q) \in Path
  BY <1>1, ChildFacts, ParentFacts
<1>7. \A q \in Path : Len(q) <= Len(d[q]) + 1
  BY <1>2, <1>3
<1>8. \A q \in Path : d[q] \in S => d[Append(q, 0)] \in L \cup S /\ d[Append(q, 1)] \in L \cup S
  BY <1>1, <1>2, <1>4, <1>6
<1>9. \A q \in Path : d[q] \in L \cup S => q = <<>> \/ d[Parent(q)] \in S
  BY <1>2, <1>5, <1>6
<1>10. IsShape({q \in Path : d[q] \in L}, {q \in Path : d[q] \in S})
  BY <1>2, <1>7, <1>8, <1>9, ShapeRenamed, ZenonT(60)
<1>11. /\ {q \in Path : d[q] \in L} = {q \in Path : Across(p, q) \in L}
       /\ {q \in Path : d[q] \in S} = {q \in Path : Across(p, q) \in S}
  BY <1>2
<1> QED
  BY <1>10, <1>11

\* Flip leaves a tree a tree, with the same windows.
LEMMA FlippedTree ==
    ASSUME NEW t, IsTree(t), NEW p \in DOMAIN t.split,
           NEW u, u = [leaf |-> SwapChildren(t.leaf, p), split |-> SwapChildren(t.split, p)]
    PROVE  /\ IsTree(u) /\ Windows(u) = Windows(t)
           /\ \A q \in Leaves(t) : Across(p, q) \in Leaves(u)
<1> DEFINE L == {q \in Path : Across(p, q) \in Leaves(t)}
           S == {q \in Path : Across(p, q) \in DOMAIN t.split}
           f == [q \in L |-> t.leaf[Across(p, q)]]
           g == [q \in S |-> t.split[Across(p, q)]]
<1>1. /\ IsShape(Leaves(t), DOMAIN t.split) /\ t.leaf \in [Leaves(t) -> Window]
      /\ t.split \in [DOMAIN t.split -> Split]
      /\ \A q, r \in Leaves(t) : t.leaf[q] = t.leaf[r] => q = r
  BY DEF IsTree
<1>2. /\ p \in Path /\ DOMAIN t.leaf \subseteq Path /\ DOMAIN t.split \subseteq Path
      /\ DOMAIN t.leaf = Leaves(t) /\ Leaves(t) \subseteq Path
  BY <1>1 DEF IsShape, Leaves
<1>3. SwapChildren(t.leaf, p) = f /\ SwapChildren(t.split, p) = g
  <2>1. SwapChildren(t.leaf, p)
          = [q \in {r \in Path : Across(p, r) \in DOMAIN t.leaf} |-> t.leaf[Across(p, q)]]
    BY <1>2, SwapChildrenIs
  <2>2. SwapChildren(t.split, p)
          = [q \in {r \in Path : Across(p, r) \in DOMAIN t.split} |-> t.split[Across(p, q)]]
    BY <1>2, SwapChildrenIs
  <2> QED
    BY <1>2, <2>1, <2>2
<1>4. IsShape(L, S)
  BY <1>1, ShapeFlipped
<1>5. f \in [L -> Window] /\ g \in [S -> Split]
  BY <1>1
<1>6. ASSUME NEW q \in L, NEW r \in L, f[q] = f[r] PROVE q = r
  <2>1. Across(p, q) = Across(p, r)
    BY <1>1, <1>6
  <2>2. Across(p, Across(p, q)) = q /\ Across(p, Across(p, r)) = r
    BY <1>2, AcrossTwice
  <2> QED
    BY <2>1, <2>2
<1>7. ASSUME NEW q \in Leaves(t)
      PROVE  Across(p, q) \in L /\ Across(p, Across(p, q)) = q
  BY <1>2, AcrossFacts, AcrossTwice
<1>8. {f[q] : q \in L} = Windows(t)
  <2>1. ASSUME NEW q \in L PROVE f[q] \in Windows(t)
    BY DEF Windows
  <2>2. ASSUME NEW w \in Windows(t) PROVE \E q \in L : f[q] = w
    <3>1. PICK q \in Leaves(t) : t.leaf[q] = w
      BY DEF Windows
    <3>2. Across(p, q) \in L /\ Across(p, Across(p, q)) = q
      BY <1>7
    <3> QED
      BY <3>1, <3>2
  <2> HIDE DEF f, L
  <2> QED
    BY <2>1, <2>2
<1> HIDE DEF L, S, f, g
<1>9. u = [leaf |-> f, split |-> g]
  BY <1>3
<1>10. /\ IsTree(u) /\ Leaves(u) = L /\ Windows(u) = {f[q] : q \in L}
  BY <1>4, <1>5, <1>6, <1>9, TreeOf
<1> QED
  BY <1>7, <1>8, <1>10

(* -------------------------------- planning ------------------------------- *)

LEMMA RatioFacts ==
    /\ Unit \in Nat \ {0} /\ Ratio \subseteq Nat
    /\ \A r \in Ratio : 1 <= r /\ r < Unit
BY UnitIsEven, SMT DEF Ratio

LEMMA Extremes ==
    ASSUME NEW T, T \subseteq Ratio, T # {}
    PROVE  (\E x \in T : \A y \in T : y <= x) /\ (\E x \in T : \A y \in T : y >= x)
<1>1. Unit \in Nat /\ T \subseteq Nat /\ \A x \in T : Unit - x \in Nat
  BY RatioFacts, SMT
<1>2. PICK x \in T : \A y \in T : x <= y
  BY <1>1, LeastNumber
<1>3. \A y \in T : y >= x
  BY <1>1, <1>2, SMT
<1> DEFINE D == {Unit - y : y \in T}
<1>4. D \subseteq Nat /\ D # {}
  BY <1>1
<1>5. PICK e \in D : \A d \in D : e <= d
  BY <1>4, LeastNumber
<1>6. PICK z \in T : e = Unit - z
  OBVIOUS
<1>7. \A y \in T : Unit - z <= Unit - y
  BY <1>5, <1>6
<1>8. \A y \in T : y <= z
  BY <1>1, <1>7, SMT
<1> QED
  BY <1>3, <1>8

\* Whether the other branch of an ancestor is still legal when the ancestor's
\* ratio is r
Bears(t, a, p, r) ==
    SubtreeFits(t, Append(p, 1 - a[Len(p) + 1]),
                Slots(WithRatio(t, p, r), <<>>, area)[Append(p, 1 - a[Len(p) + 1])])

\* The ratio of an ancestor in a plan is one its other branch bears, or the one
\* it had.
LEMMA ReclaimedFacts ==
    ASSUME NEW t, IsTree(t), NEW a, NEW p \in DOMAIN t.split
    PROVE  /\ Reclaimed(t, a, p) \in Ratio
           /\ IF a[Len(p) + 1] = 0 THEN Reclaimed(t, a, p) >= t.split[p].ratio
              ELSE Reclaimed(t, a, p) <= t.split[p].ratio
           /\ Reclaimed(t, a, p) = t.split[p].ratio \/ Bears(t, a, p, Reclaimed(t, a, p))
<1> DEFINE now == t.split[p].ratio
           better == {r \in Ratio : IF a[Len(p) + 1] = 0 THEN r >= now ELSE r <= now}
           legal == {r \in better : Bears(t, a, p, r)} \cup {now}
<1>1. now \in Ratio
  BY DEF IsTree, Split
<1>2. legal \subseteq Ratio /\ now \in legal
  BY <1>1
<1>3. Reclaimed(t, a, p) =
        CHOOSE r \in legal : \A q \in legal : IF a[Len(p) + 1] = 0 THEN q <= r ELSE q >= r
  BY DEF Reclaimed, Bears
<1> HIDE DEF legal
<1>4. \E r \in legal : \A q \in legal : IF a[Len(p) + 1] = 0 THEN q <= r ELSE q >= r
  <2>1. (\E r \in legal : \A q \in legal : q <= r) /\ (\E r \in legal : \A q \in legal : q >= r)
    BY <1>2, Extremes
  <2> QED
    BY <2>1
<1>5. Reclaimed(t, a, p) \in legal
  BY <1>3, <1>4
<1>6. now >= now /\ now <= now
  <2>1. \A n \in Nat : n >= n /\ n <= n
    BY SMT
  <2> QED
    BY <1>1, <2>1, RatioFacts
<1> QED
  BY <1>1, <1>2, <1>5, <1>6 DEF legal

\* A plan only changes ratios.
LEMMA PlanTree ==
    ASSUME NEW t, IsTree(t), NEW a, NEW k, NEW u, u = Plan(t, a, k)
    PROVE  /\ IsTree(u) /\ u.leaf = t.leaf /\ Leaves(u) = Leaves(t) /\ Windows(u) = Windows(t)
           /\ DOMAIN u.split = DOMAIN t.split
           /\ \A p \in DOMAIN t.split :
                /\ u.split[p].dir = t.split[p].dir
                /\ u.split[p].ratio = IF IsPrefix(p, a) /\ Len(a) - Len(p) <= k
                                      THEN Reclaimed(t, a, p) ELSE t.split[p].ratio
<1> DEFINE g == [p \in DOMAIN t.split |->
                   IF IsPrefix(p, a) /\ Len(a) - Len(p) <= k
                   THEN [t.split[p] EXCEPT !.ratio = Reclaimed(t, a, p)] ELSE t.split[p]]
<1>1. u = [t EXCEPT !.split = g]
  BY DEF Plan
<1>2. ASSUME NEW p \in DOMAIN t.split
      PROVE  /\ g[p] \in Split /\ g[p].dir = t.split[p].dir
             /\ g[p].ratio = IF IsPrefix(p, a) /\ Len(a) - Len(p) <= k
                             THEN Reclaimed(t, a, p) ELSE t.split[p].ratio
  <2>1. t.split[p] \in [dir : SplitDirection, ratio : Ratio] /\ Reclaimed(t, a, p) \in Ratio
    BY ReclaimedFacts DEF IsTree, Split
  <2>2. CASE IsPrefix(p, a) /\ Len(a) - Len(p) <= k
    <3>1. g[p] = [t.split[p] EXCEPT !.ratio = Reclaimed(t, a, p)]
      BY <2>2
    <3> HIDE DEF g
    <3> QED
      BY <2>1, <2>2, <3>1 DEF Split
  <2>3. CASE ~(IsPrefix(p, a) /\ Len(a) - Len(p) <= k)
    <3>1. g[p] = t.split[p]
      BY <2>3
    <3> HIDE DEF g
    <3> QED
      BY <2>1, <2>3, <3>1 DEF Split
  <2> QED
    BY <2>2, <2>3
<1>3. g \in [DOMAIN t.split -> Split]
  BY <1>2
<1> HIDE DEF g
<1>4. /\ IsTree(u) /\ u.leaf = t.leaf /\ u.split = g /\ DOMAIN u.split = DOMAIN t.split
      /\ Leaves(u) = Leaves(t) /\ Windows(u) = Windows(t)
  BY <1>1, <1>3, SplitsChanged
<1> QED
  BY <1>2, <1>4

\* AnchorLeaf is a leaf of any tree that is not empty.
LEMMA AnchorIsLeaf ==
    ASSUME IsTree(tree), anchor \in Leaves(tree) \cup {None}, tree # EmptyTree
    PROVE  AnchorLeaf \in Leaves(tree)
<1>1. CASE anchor # None
  BY <1>1 DEF AnchorLeaf
<1>2. CASE anchor = None
  <2>1. <<>> \in Leaves(tree) \cup DOMAIN tree.split /\ IsShape(Leaves(tree), DOMAIN tree.split)
    BY SomeLeaf DEF IsTree
  <2>2. PICK q \in Leaves(tree) : \A i \in (Len(<<>>) + 1)..Len(q) : q[i] = 1
    <3>1. 1 \in {0, 1}
      OBVIOUS
    <3> QED
      BY <2>1, <3>1, LeafAtTheEnd
  <2>3. \A i \in DOMAIN q : q[i] = 1
    <3>1. q \in Path
      BY <2>1 DEF IsShape
    <3>2. DOMAIN q = (Len(<<>>) + 1)..Len(q)
      <4>1. DOMAIN q = 1..Len(q) /\ Len(<<>>) = 0 /\ 0 + 1 = 1
        BY <3>1, PathFacts, RootIsPath
      <4> QED
        BY <4>1
    <3> QED
      BY <2>2, <3>2
  <2> QED
    BY <1>2, <2>3 DEF AnchorLeaf
<1> QED
  BY <1>1, <1>2

\* What Insert does to a tree that has a leaf
LEMMA InsertedIs ==
    ASSUME NEW w, CanInsert(w), IsTree(tree), anchor \in Leaves(tree) \cup {None}, tree # EmptyTree
    PROVE  \E a \in Leaves(tree), k \in Plans(tree, AnchorLeaf) :
             LET plan == Plan(tree, a, k)
                 d == FeasibleSplitDirection(Slots(plan, <<>>, area)[a])
             IN  /\ a = AnchorLeaf
                 /\ Inserted(w) = [tree |-> SpliceIn(plan, a, w, d), anchor |-> Append(a, 1)]
                 /\ d \in Feasible(Slots(plan, <<>>, area)[a])
<1> DEFINE a == AnchorLeaf
           k == CHOOSE i \in Plans(tree, a) : \A j \in Plans(tree, a) : i <= j
           plan == Plan(tree, a, k)
           rect == Slots(plan, <<>>, area)[a]
           d == FeasibleSplitDirection(rect)
<1>1. a \in Leaves(tree) /\ a \in Path
  BY AnchorIsLeaf DEF IsTree, IsShape
<1>2. Plans(tree, a) # {}
  BY DEF CanInsert, HasSpaceForAnotherWindow
<1>3. Plans(tree, a) \subseteq Nat
  BY SMT DEF Plans
<1>4. k \in Plans(tree, a)
  BY <1>2, <1>3, LeastNumber
<1>5. Feasible(rect) # {}
  BY <1>4 DEF Plans
<1>6. d \in Feasible(rect)
  <2>1. Feasible(rect) \subseteq SplitDirection
    BY DEF Feasible
  <2> HIDE DEF rect
  <2> QED
    BY <1>5, <2>1 DEF FeasibleSplitDirection
<1>7. Inserted(w) = [tree |-> SpliceIn(plan, a, w, d), anchor |-> Append(a, 1)]
  BY DEF Inserted
<1> QED
  BY <1>1, <1>4, <1>6, <1>7

\* Insert adds one leaf, for its window.
LEMMA InsertedTree ==
    ASSUME NEW w, CanInsert(w), IsTree(tree), anchor \in Leaves(tree) \cup {None}
    PROVE  /\ IsTree(Inserted(w).tree) /\ Inserted(w).anchor \in Leaves(Inserted(w).tree)
           /\ Windows(Inserted(w).tree) = Windows(tree) \cup {w}
<1>1. w \in Window \ Windows(tree)
  BY DEF CanInsert
<1>2. CASE tree = EmptyTree
  <2>1. Inserted(w).tree = OneLeaf(w) /\ Inserted(w).anchor = <<>>
    BY <1>2 DEF Inserted
  <2> QED
    BY <1>1, <1>2, <2>1, OneLeafTree, EmptyIsTree
<1>3. CASE tree # EmptyTree
  <2>1. PICK a \in Leaves(tree), k \in Plans(tree, AnchorLeaf) :
          LET plan == Plan(tree, a, k)
              d == FeasibleSplitDirection(Slots(plan, <<>>, area)[a])
          IN  /\ Inserted(w) = [tree |-> SpliceIn(plan, a, w, d), anchor |-> Append(a, 1)]
              /\ d \in Feasible(Slots(plan, <<>>, area)[a])
    BY <1>3, InsertedIs
  <2>2. PICK plan : plan = Plan(tree, a, k)
    OBVIOUS
  <2>3. PICK d : d = FeasibleSplitDirection(Slots(plan, <<>>, area)[a])
    OBVIOUS
  <2>4. /\ Inserted(w).tree = SpliceIn(plan, a, w, d) /\ Inserted(w).anchor = Append(a, 1)
        /\ d \in SplitDirection
    BY <2>1, <2>2, <2>3 DEF Feasible
  <2>5. IsTree(plan) /\ Leaves(plan) = Leaves(tree) /\ Windows(plan) = Windows(tree)
    BY <2>2, PlanTree
  <2>6. PICK u : u = SpliceIn(plan, a, w, d)
    OBVIOUS
  <2>7. a \in Leaves(plan) /\ w \in Window /\ w \notin Windows(plan)
    BY <1>1, <2>5
  <2>8. /\ IsTree(u) /\ Windows(u) = Windows(plan) \cup {w}
        /\ Leaves(u) = (Leaves(plan) \ {a}) \cup {Append(a, 0), Append(a, 1)}
    <3>1. IsTree(plan) /\ d \in SplitDirection
      BY <2>4, <2>5
    <3>2. IsSpliced(u, plan, a, w, d)
      BY <3>1, <2>6, <2>7, SpliceInTree
    <3> QED
      BY <3>2 DEF IsSpliced
  <2> QED
    BY <2>4, <2>5, <2>6, <2>8
<1> QED
  BY <1>2, <1>3

(* -------------------------------- walking -------------------------------- *)

Hop(u, slot, w, d) ==
    LET n == NeighborIn(u, slot, w, d)
    IN  IF n = {} THEN u ELSE Exchanged(u, w, CHOOSE v \in n : TRUE)

\* u is t with its windows on other leaves.
SameFrame(t, u) ==
    /\ IsTree(u) /\ Leaves(u) = Leaves(t) /\ u.split = t.split /\ Windows(u) = Windows(t)

LEMMA HopTree ==
    ASSUME NEW t, NEW u, SameFrame(t, u), NEW slot, NEW w \in Windows(t), NEW d
    PROVE  SameFrame(t, Hop(u, slot, w, d))
<1>1. IsTree(u) /\ w \in Windows(u)
  BY DEF SameFrame
<1> DEFINE n == NeighborIn(u, slot, w, d)
           v == CHOOSE x \in n : TRUE
<1>2. n \subseteq Windows(u)
  BY DEF NeighborIn, Windows
<1>3. CASE n = {}
  BY <1>3 DEF Hop
<1>4. CASE n # {}
  <2>1. v \in Windows(u)
    BY <1>2, <1>4
  <2>2. Hop(u, slot, w, d) = Exchanged(u, w, v)
    BY <1>4 DEF Hop
  <2> HIDE DEF v, n
  <2>3. PICK x : x = Exchanged(u, w, v)
    OBVIOUS
  <2>4. IsTree(x) /\ Leaves(x) = Leaves(u) /\ x.split = u.split /\ Windows(x) = Windows(u)
    BY <1>1, <2>1, <2>3, LeavesExchanged
  <2> QED
    BY <2>2, <2>3, <2>4 DEF SameFrame
<1> QED
  BY <1>3, <1>4

IsWalk(f, len, t, slot, w, d) ==
    f = [hops \in 0..len |-> IF hops = 0 THEN t ELSE Hop(f[hops - 1], slot, w, d)]

LEMMA WalkExists ==
    ASSUME NEW len \in Nat, NEW t, NEW slot, NEW w, NEW d
    PROVE  \E f : IsWalk(f, len, t, slot, w, d)
<1> DEFINE T == {k \in Nat : \E f : IsWalk(f, k, t, slot, w, d)}
<1>1. 0 \in T
  <2> DEFINE f == [i \in 0..0 |-> t]
  <2>1. \A i \in 0..0 : i = 0
    BY SMT
  <2>2. IsWalk(f, 0, t, slot, w, d)
    BY <2>1 DEF IsWalk
  <2> QED
    BY <2>2
<1>2. ASSUME NEW k \in T PROVE k + 1 \in T
  <2>1. k \in Nat /\ k + 1 \in Nat
    OBVIOUS
  <2>2. PICK f : IsWalk(f, k, t, slot, w, d)
    OBVIOUS
  <2>3. f = [i \in 0..k |-> IF i = 0 THEN t ELSE Hop(f[i - 1], slot, w, d)]
    BY <2>2 DEF IsWalk
  <2> DEFINE g == [i \in 0..(k + 1) |-> IF i = k + 1 THEN Hop(f[k], slot, w, d) ELSE f[i]]
  <2>4. ASSUME NEW i \in 0..(k + 1)
        PROVE  g[i] = IF i = 0 THEN t ELSE Hop(g[i - 1], slot, w, d)
    <3>1. CASE i = 0
      BY <2>1, <2>3, <3>1, SMT
    <3>2. CASE i # 0 /\ i # k + 1
      BY <2>1, <2>3, <3>2, SMT
    <3>3. CASE i = k + 1
      BY <2>1, <2>3, <3>3, SMT
    <3> QED
      BY <3>1, <3>2, <3>3
  <2>5. IsWalk(g, k + 1, t, slot, w, d)
    BY <2>1, <2>4 DEF IsWalk
  <2> QED
    BY <2>1, <2>5
<1> HIDE DEF T
<1>3. T = Nat
  <2>1. T \in SUBSET Nat
    BY DEF T
  <2> QED
    BY <2>1, <1>1, <1>2, Induction
<1> QED
  BY <1>3 DEF T

LEMMA WalkKeeps ==
    ASSUME NEW len \in Nat, NEW t, IsTree(t), NEW slot, NEW w \in Windows(t), NEW d,
           NEW f, IsWalk(f, len, t, slot, w, d)
    PROVE  \A k \in 0..len : SameFrame(t, f[k])
<1> DEFINE T == {k \in Nat : k <= len => SameFrame(t, f[k])}
<1>1. f = [i \in 0..len |-> IF i = 0 THEN t ELSE Hop(f[i - 1], slot, w, d)]
  BY DEF IsWalk
<1>2. 0 \in T
  <2>1. 0 \in 0..len
    BY SMT
  <2>2. f[0] = t
    BY <1>1, <2>1
  <2> QED
    BY <2>2 DEF SameFrame
<1>3. ASSUME NEW k \in T PROVE k + 1 \in T
  <2>1. SUFFICES ASSUME k + 1 <= len PROVE SameFrame(t, f[k + 1])
    OBVIOUS
  <2>2. k + 1 \in 0..len /\ k + 1 # 0 /\ (k + 1) - 1 = k /\ k <= len
    BY <2>1, SMT
  <2>3. f[k + 1] = Hop(f[k], slot, w, d)
    BY <1>1, <2>2
  <2> QED
    BY <2>2, <2>3, HopTree
<1>4. T \in SUBSET Nat
  OBVIOUS
<1> HIDE DEF T
<1>5. T = Nat
  BY <1>2, <1>3, <1>4, Induction
<1>6. \A k \in 0..len : k \in Nat /\ k <= len
  BY SMT
<1> QED
  BY <1>5, <1>6 DEF T

\* A walk only changes which windows are where.
LEMMA WalkedTree ==
    ASSUME NEW t, IsTree(t), NEW slot, NEW w \in Windows(t), NEW d
    PROVE  SameFrame(t, Walked(t, slot, w, d))
<1>1. MaxHopsPerDirection \in Nat /\ MaxHopsPerDirection \in 0..MaxHopsPerDirection
  BY SMT DEF MaxHopsPerDirection
<1> DEFINE after == CHOOSE f : IsWalk(f, MaxHopsPerDirection, t, slot, w, d)
<1>2. IsWalk(after, MaxHopsPerDirection, t, slot, w, d)
  BY <1>1, WalkExists
<1>3. Walked(t, slot, w, d) = after[MaxHopsPerDirection]
  BY DEF Walked, IsWalk, Hop
<1> QED
  BY <1>1, <1>2, <1>3, WalkKeeps

IsNudge(f, len, t, slot, w, directions) ==
    f = [walks \in 0..len |-> IF walks = 0 THEN t ELSE Walked(f[walks - 1], slot, w, directions[walks])]

LEMMA NudgeExists ==
    ASSUME NEW len \in Nat, NEW t, NEW slot, NEW w, NEW directions
    PROVE  \E f : IsNudge(f, len, t, slot, w, directions)
<1> DEFINE T == {k \in Nat : \E f : IsNudge(f, k, t, slot, w, directions)}
<1>1. 0 \in T
  <2> DEFINE f == [i \in 0..0 |-> t]
  <2>1. \A i \in 0..0 : i = 0
    BY SMT
  <2>2. IsNudge(f, 0, t, slot, w, directions)
    BY <2>1 DEF IsNudge
  <2> QED
    BY <2>2
<1>2. ASSUME NEW k \in T PROVE k + 1 \in T
  <2>1. k \in Nat /\ k + 1 \in Nat
    OBVIOUS
  <2>2. PICK f : IsNudge(f, k, t, slot, w, directions)
    OBVIOUS
  <2>3. f = [i \in 0..k |-> IF i = 0 THEN t ELSE Walked(f[i - 1], slot, w, directions[i])]
    BY <2>2 DEF IsNudge
  <2> DEFINE g == [i \in 0..(k + 1) |->
                     IF i = k + 1 THEN Walked(f[k], slot, w, directions[k + 1]) ELSE f[i]]
  <2>4. ASSUME NEW i \in 0..(k + 1)
        PROVE  g[i] = IF i = 0 THEN t ELSE Walked(g[i - 1], slot, w, directions[i])
    <3>1. CASE i = 0
      BY <2>1, <2>3, <3>1, SMT
    <3>2. CASE i # 0 /\ i # k + 1
      BY <2>1, <2>3, <3>2, SMT
    <3>3. CASE i = k + 1
      BY <2>1, <2>3, <3>3, SMT
    <3> QED
      BY <3>1, <3>2, <3>3
  <2>5. IsNudge(g, k + 1, t, slot, w, directions)
    BY <2>1, <2>4 DEF IsNudge
  <2> QED
    BY <2>1, <2>5
<1> HIDE DEF T
<1>3. T = Nat
  <2>1. T \in SUBSET Nat
    BY DEF T
  <2> QED
    BY <2>1, <1>1, <1>2, Induction
<1> QED
  BY <1>3 DEF T

LEMMA NudgeKeeps ==
    ASSUME NEW len \in Nat, NEW t, IsTree(t), NEW slot, NEW w \in Windows(t), NEW directions,
           NEW f, IsNudge(f, len, t, slot, w, directions)
    PROVE  \A k \in 0..len : SameFrame(t, f[k])
<1> DEFINE T == {k \in Nat : k <= len => SameFrame(t, f[k])}
<1>1. f = [i \in 0..len |-> IF i = 0 THEN t ELSE Walked(f[i - 1], slot, w, directions[i])]
  BY DEF IsNudge
<1>2. 0 \in T
  <2>1. 0 \in 0..len
    BY SMT
  <2>2. f[0] = t
    BY <1>1, <2>1
  <2> QED
    BY <2>2 DEF SameFrame
<1>3. ASSUME NEW k \in T PROVE k + 1 \in T
  <2>1. SUFFICES ASSUME k + 1 <= len PROVE SameFrame(t, f[k + 1])
    OBVIOUS
  <2>2. k + 1 \in 0..len /\ k + 1 # 0 /\ (k + 1) - 1 = k /\ k <= len
    BY <2>1, SMT
  <2>3. f[k + 1] = Walked(f[k], slot, w, directions[k + 1])
    BY <1>1, <2>2
  <2>4. SameFrame(t, f[k])
    BY <2>2
  <2>5. SameFrame(f[k], Walked(f[k], slot, w, directions[k + 1]))
    BY <2>4, WalkedTree DEF SameFrame
  <2> QED
    BY <2>3, <2>4, <2>5 DEF SameFrame
<1>4. T \in SUBSET Nat
  OBVIOUS
<1> HIDE DEF T
<1>5. T = Nat
  BY <1>2, <1>3, <1>4, Induction
<1>6. \A k \in 0..len : k \in Nat /\ k <= len
  BY SMT
<1> QED
  BY <1>5, <1>6 DEF T

LEMMA PredictedLen ==
    ASSUME NEW directions \in PredictPositions
    PROVE  Len(directions) \in Nat
<1>1. PICK habit \in Habits : directions \in Orders(habit)
  BY DEF PredictPositions
<1>2. ASSUME NEW a, NEW b
      PROVE  Predicted(habit, <<a, b>>) \in Seq({a, b})
  <2>1. <<a>> \in Seq({a, b}) /\ <<b>> \in Seq({a, b}) /\ <<>> \in Seq({a, b})
    OBVIOUS
  <2>2. <<a, b>>[1] = a /\ <<a, b>>[2] = b
    OBVIOUS
  <2>3. Predicted(habit, <<a, b>>) \in {<<a>>, <<b>>, <<>>}
    BY <2>2, Zenon DEF Predicted
  <2> QED
    BY <2>1, <2>3
<1> DEFINE across == Predicted(habit, <<"Left", "Right">>)
           along == Predicted(habit, <<"Up", "Down">>)
<1>3. across \in Seq(Direction) /\ along \in Seq(Direction)
  <2>1. Seq({"Left", "Right"}) \subseteq Seq(Direction) /\ Seq({"Up", "Down"}) \subseteq Seq(Direction)
    BY DEF Direction
  <2> QED
    BY <1>2, <2>1
<1> HIDE DEF across, along
<1>4. directions = across \o along \/ directions = along \o across
  BY <1>1 DEF Orders, across, along
<1>5. across \o along \in Seq(Direction) /\ along \o across \in Seq(Direction)
  BY <1>3
<1> QED
  BY <1>4, <1>5

\* So do the walks of a nudge.
LEMMA NudgedTree ==
    ASSUME NEW t, IsTree(t), NEW w \in Windows(t), NEW shown, NEW directions \in PredictPositions
    PROVE  SameFrame(t, Nudged(t, w, shown, directions))
<1> DEFINE slot == [Slots(t, <<>>, area) EXCEPT ![LeafOf(t, w)] = IF shown THEN NoRect ELSE @]
           after == CHOOSE f : IsNudge(f, Len(directions), t, slot, w, directions)
<1>1. Len(directions) \in Nat
  BY PredictedLen
<1>2. Len(directions) \in 0..Len(directions)
  BY <1>1, SMT
<1>3. Nudged(t, w, shown, directions) = after[Len(directions)]
  BY DEF Nudged, IsNudge
<1> HIDE DEF slot
<1>4. IsNudge(after, Len(directions), t, slot, w, directions)
  BY <1>1, NudgeExists
<1> HIDE DEF after
<1> QED
  BY <1>1, <1>2, <1>3, <1>4, NudgeKeeps

\* What stays of the tree when a leaf goes
LEMMA WithoutKeeps ==
    ASSUME NEW t, IsTree(t), NEW p \in Leaves(t), p # <<>>, NEW r, NEW u, u = Without(t, p, r)
    PROVE  /\ IsTree(u) /\ Windows(u) = Windows(t) \ {t.leaf[p]}
           /\ \A q \in Leaves(t) \ {p} : Promoted(p, q) \in Leaves(u) /\ u.leaf[Promoted(p, q)] = t.leaf[q]
           /\ DOMAIN u.split = {q \in Path : Demoted(p, q) \in DOMAIN t.split}
           /\ \A q \in DOMAIN u.split : ~IsPrefix(Parent(p), q) => u.split[q] = t.split[q]
<1> DEFINE bare == [leaf |-> Promote(t.leaf, p), split |-> Promote(t.split, p)]
<1>1. PICK b : b = bare
  OBVIOUS
<1>2. u = NormalizeDirections(b, Parent(p), Slots(t, <<>>, r)[Parent(p)])
  BY <1>1 DEF Without
<1>3. IsPromoted(b, t, p)
  BY <1>1, PromotedTree
<1> HIDE DEF bare
<1>4. /\ IsTree(b) /\ Windows(b) = Windows(t) \ {t.leaf[p]}
      /\ DOMAIN b.split = {q \in Path : Demoted(p, q) \in DOMAIN t.split}
      /\ \A q \in Leaves(b) : b.leaf[q] = t.leaf[Demoted(p, q)]
      /\ \A q \in DOMAIN b.split : b.split[q] = t.split[Demoted(p, q)]
      /\ \A q \in Leaves(t) \ {p} : Promoted(p, q) \in Leaves(b) /\ Demoted(p, Promoted(p, q)) = q
  BY <1>3 DEF IsPromoted
<1>5. /\ IsTree(u) /\ u.leaf = b.leaf /\ Leaves(u) = Leaves(b) /\ Windows(u) = Windows(b)
      /\ DOMAIN u.split = DOMAIN b.split
      /\ \A q \in DOMAIN b.split : ~IsPrefix(Parent(p), q) => u.split[q] = b.split[q]
  BY <1>2, <1>4, NormalizedTree
<1>6. \A q \in DOMAIN u.split : ~IsPrefix(Parent(p), q) => u.split[q] = t.split[q]
  BY <1>4, <1>5 DEF Demoted
<1> QED
  BY <1>4, <1>5, <1>6

LEMMA LastLeaf ==
    ASSUME NEW t, IsTree(t), <<>> \in Leaves(t)
    PROVE  Leaves(t) = {<<>>} /\ Windows(t) = {t.leaf[<<>>]}
<1>1. IsShape(Leaves(t), DOMAIN t.split) /\ Leaves(t) \subseteq Path
  BY DEF IsTree, IsShape
<1>2. ASSUME NEW q \in Leaves(t) PROVE q = <<>>
  BY <1>1, PrefixOfItself, NothingBelowLeaf
<1>3. Leaves(t) = {<<>>}
  BY <1>2
<1> QED
  BY <1>3 DEF Windows

(* ------------------------------ the invariant ----------------------------- *)

TreeInv ==
    /\ IsTree(tree)
    /\ anchor \in Leaves(tree) \cup {None}
    /\ focused \in Windows(tree) \cup {None}
    /\ area \in Areas

\* The invariant implies the type invariant.
LEMMA TreeInvTypeOK == TreeInv => BSPTypeOK
<1> SUFFICES ASSUME TreeInv PROVE BSPTypeOK
  OBVIOUS
<1>1. /\ IsTree(tree) /\ anchor \in Leaves(tree) \cup {None}
      /\ focused \in Windows(tree) \cup {None} /\ area \in Areas
  BY DEF TreeInv
<1>2. /\ tree.leaf \in [Leaves(tree) -> Window] /\ tree.split \in [DOMAIN tree.split -> Split]
      /\ IsShape(Leaves(tree), DOMAIN tree.split)
      /\ \A p, q \in Leaves(tree) : tree.leaf[p] = tree.leaf[q] => p = q
  BY <1>1 DEF IsTree
<1>3. /\ Leaves(tree) \cup DOMAIN tree.split \subseteq Seq({0, 1})
      /\ Leaves(tree) \cap DOMAIN tree.split = {}
      /\ \A p \in DOMAIN tree.split : /\ Append(p, 0) \in Leaves(tree) \cup DOMAIN tree.split
                                      /\ Append(p, 1) \in Leaves(tree) \cup DOMAIN tree.split
      /\ \A p \in Leaves(tree) \cup DOMAIN tree.split : p = <<>> \/ Parent(p) \in DOMAIN tree.split
  BY <1>2 DEF IsShape, Path
<1>4. /\ \A p \in Leaves(tree) : tree.leaf[p] \in Window
      /\ \A p \in DOMAIN tree.split : tree.split[p] \in [dir : SplitDirection, ratio : Ratio]
  BY <1>2 DEF Split
<1> QED
  BY <1>1, <1>2, <1>3, <1>4 DEF BSPTypeOK

\* Where the parent of a leaf is
LEMMA ParentOfLeaf ==
    ASSUME NEW t, IsTree(t), NEW w \in Windows(t), LeafOf(t, w) # <<>>
    PROVE  Parent(LeafOf(t, w)) \in DOMAIN t.split
BY LeafOfIsThere DEF IsTree, IsShape

LEMMA TreeInit == Init => TreeInv
BY EmptyIsTree DEF Init, TreeInv

LEMMA InsertInv == ASSUME TreeInv, NEW w \in Window, Insert(w)
    PROVE  TreeInv' /\ Windows(tree) \subseteq Windows(tree')
<1>1. CanInsert(w) /\ tree' = Inserted(w).tree /\ anchor' = Inserted(w).anchor
  BY DEF Insert
<1>2. focused' = focused /\ area' = area
  BY DEF Insert
<1>3. /\ IsTree(Inserted(w).tree) /\ Inserted(w).anchor \in Leaves(Inserted(w).tree)
      /\ Windows(Inserted(w).tree) = Windows(tree) \cup {w}
  BY <1>1, InsertedTree DEF TreeInv
<1> QED
  BY <1>1, <1>2, <1>3 DEF TreeInv

LEMMA ManageInv == ASSUME TreeInv, NEW w \in Window, Manage(w)
    PROVE  TreeInv' /\ Windows(tree) \subseteq Windows(tree')
<1>1. PICK shown \in BOOLEAN, directions \in PredictPositions :
        /\ CanInsert(w) /\ tree' = Nudged(Inserted(w).tree, w, shown, directions)
        /\ anchor' = Inserted(w).anchor
  BY DEF Manage
<1>2. focused' = focused /\ area' = area
  BY DEF Manage
<1>3. /\ IsTree(Inserted(w).tree) /\ Inserted(w).anchor \in Leaves(Inserted(w).tree)
      /\ Windows(Inserted(w).tree) = Windows(tree) \cup {w}
  BY <1>1, InsertedTree DEF TreeInv
<1>4. w \in Windows(Inserted(w).tree)
  BY <1>3
<1>5. SameFrame(Inserted(w).tree, tree')
  BY <1>1, <1>3, <1>4, NudgedTree
<1> QED
  BY <1>1, <1>2, <1>3, <1>5 DEF TreeInv, SameFrame

LEMMA InsertNextToInv ==
    ASSUME TreeInv, NEW w \in Window, NEW n \in Window, NEW d \in SplitDirection, InsertNextTo(w, n, d)
    PROVE  TreeInv' /\ Windows(tree) \subseteq Windows(tree')
<1> DEFINE a == LeafOf(tree, n)
<1>1. /\ w \in Window /\ w \notin Windows(tree) /\ n \in Windows(tree)
      /\ tree' = SpliceIn(tree, a, w, d) /\ anchor' = Append(a, 1)
      /\ focused' = focused /\ area' = area
  BY DEF InsertNextTo
<1>2. a \in Leaves(tree)
  BY <1>1, LeafOfIsThere
<1>3. IsSpliced(tree', tree, a, w, d)
  BY <1>1, <1>2, SpliceInTree DEF TreeInv
<1> QED
  BY <1>1, <1>2, <1>3 DEF TreeInv, IsSpliced

LEMMA RemoveLeafInv == ASSUME TreeInv, NEW w \in Window, RemoveLeaf(w)
    PROVE  TreeInv' /\ Windows(tree') = Windows(tree) \ {w}
<1> DEFINE p == LeafOf(tree, w)
<1>1. /\ w \in Windows(tree) /\ tree' = Without(tree, p, area) /\ anchor' = AnchorWithout(p)
      /\ focused' = (IF focused = w THEN None ELSE focused) /\ area' = area
  BY DEF RemoveLeaf
<1>2. p \in Leaves(tree) /\ tree.leaf[p] = w
  BY <1>1, LeafOfIsThere
<1>3. /\ IsTree(tree') /\ Windows(tree') = Windows(tree) \ {w}
      /\ \A q \in Leaves(tree) \ {p} : p # <<>> /\ Promoted(p, q) \in Leaves(tree')
  <2>1. CASE p = <<>>
    <3>1. tree' = EmptyTree
      BY <1>1, <2>1 DEF Without
    <3>2. Leaves(tree) = {p} /\ Windows(tree) = {w}
      BY <1>2, <2>1, LastLeaf DEF TreeInv
    <3> QED
      BY <3>1, <3>2, EmptyIsTree
  <2>2. CASE p # <<>>
    <3>1. PICK u : u = Without(tree, p, area)
      OBVIOUS
    <3>2. /\ IsTree(u) /\ Windows(u) = Windows(tree) \ {tree.leaf[p]}
          /\ \A q \in Leaves(tree) \ {p} : Promoted(p, q) \in Leaves(u)
      BY <1>2, <2>2, <3>1, WithoutKeeps DEF TreeInv
    <3> QED
      BY <1>1, <1>2, <2>2, <3>1, <3>2
  <2> QED
    BY <2>1, <2>2
<1>4. anchor' \in Leaves(tree') \cup {None}
  <2>1. CASE anchor \in {p, None}
    BY <1>1, <2>1 DEF AnchorWithout
  <2>2. CASE anchor \notin {p, None}
    BY <1>1, <1>3, <2>2 DEF AnchorWithout, TreeInv
  <2> QED
    BY <2>1, <2>2
<1> QED
  BY <1>1, <1>3, <1>4 DEF TreeInv

LEMMA FocusInv == ASSUME TreeInv, NEW w, Focus(w)
    PROVE  TreeInv' /\ Windows(tree) \subseteq Windows(tree')
<1>1. /\ w \in Windows(tree) \cup {None} /\ focused' = w /\ tree' = tree /\ area' = area
      /\ anchor' = IF w = None THEN anchor ELSE LeafOf(tree, w)
  BY DEF Focus
<1>2. anchor' \in Leaves(tree) \cup {None}
  BY <1>1, LeafOfIsThere DEF TreeInv
<1> QED
  BY <1>1, <1>2 DEF TreeInv

LEMMA SwapInv == ASSUME TreeInv, NEW v, NEW w, Swap(v, w)
    PROVE  TreeInv' /\ Windows(tree) \subseteq Windows(tree')
<1>1. /\ v \in Windows(tree) /\ w \in Windows(tree) /\ tree' = Exchanged(tree, v, w)
      /\ focused' = focused /\ area' = area
      /\ anchor' \in {anchor, LeafOf(tree, v), LeafOf(tree, w)}
  BY DEF Swap
<1>2. IsTree(tree') /\ Leaves(tree') = Leaves(tree) /\ Windows(tree') = Windows(tree)
  BY <1>1, LeavesExchanged DEF TreeInv
<1>3. anchor' \in Leaves(tree) \cup {None}
  BY <1>1, LeafOfIsThere DEF TreeInv
<1> QED
  BY <1>1, <1>2, <1>3 DEF TreeInv

\* Other splits, the same leaves
LEMMA SplitsInv ==
    ASSUME TreeInv, NEW g \in [DOMAIN tree.split -> Split], tree' = [tree EXCEPT !.split = g],
           UNCHANGED <<anchor, focused, area>>
    PROVE  TreeInv' /\ Windows(tree) \subseteq Windows(tree')
<1>1. IsTree(tree') /\ Leaves(tree') = Leaves(tree) /\ Windows(tree') = Windows(tree)
  BY SplitsChanged DEF TreeInv
<1> QED
  BY <1>1 DEF TreeInv

LEMMA ResizeInv == ASSUME TreeInv, NEW w \in Window, NEW r \in Ratio, Resize(w, r)
    PROVE  TreeInv' /\ Windows(tree) \subseteq Windows(tree')
<1> DEFINE p == Parent(LeafOf(tree, w))
           g == [tree.split EXCEPT ![p].ratio = r]
<1>1. /\ w \in Windows(tree) /\ LeafOf(tree, w) # <<>> /\ UNCHANGED <<anchor, focused, area>>
      /\ tree' = [tree EXCEPT !.split = g]
  BY DEF Resize, WithRatio
<1>2. p \in DOMAIN tree.split
  BY <1>1, ParentOfLeaf DEF TreeInv
<1>3. tree.split \in [DOMAIN tree.split -> [dir : SplitDirection, ratio : Ratio]]
  BY DEF TreeInv, IsTree, Split
<1>4. g \in [DOMAIN tree.split -> Split]
  BY <1>2, <1>3 DEF Split
<1> HIDE DEF g
<1> QED
  BY <1>1, <1>4, SplitsInv

LEMMA RotateInv == ASSUME TreeInv, NEW w \in Window, Rotate(w)
    PROVE  TreeInv' /\ Windows(tree) \subseteq Windows(tree')
<1> DEFINE p == Parent(LeafOf(tree, w))
           g == [tree.split EXCEPT ![p].dir = IF @ = "Vertical" THEN "Horizontal" ELSE "Vertical"]
<1>1. /\ w \in Windows(tree) /\ LeafOf(tree, w) # <<>> /\ UNCHANGED <<anchor, focused, area>>
      /\ tree' = [tree EXCEPT !.split = g]
  BY DEF Rotate
<1>2. p \in DOMAIN tree.split
  BY <1>1, ParentOfLeaf DEF TreeInv
<1>3. tree.split \in [DOMAIN tree.split -> [dir : SplitDirection, ratio : Ratio]]
  BY DEF TreeInv, IsTree, Split
<1>4. g \in [DOMAIN tree.split -> Split]
  BY <1>2, <1>3 DEF Split, SplitDirection
<1> HIDE DEF g
<1> QED
  BY <1>1, <1>4, SplitsInv

LEMMA FlipInv == ASSUME TreeInv, NEW w \in Window, Flip(w)
    PROVE  TreeInv' /\ Windows(tree) \subseteq Windows(tree')
<1> DEFINE p == Parent(LeafOf(tree, w))
<1>1. /\ w \in Windows(tree) /\ LeafOf(tree, w) # <<>> /\ UNCHANGED <<focused, area>>
      /\ tree' = [leaf |-> SwapChildren(tree.leaf, p), split |-> SwapChildren(tree.split, p)]
      /\ anchor' = IF anchor = None THEN None ELSE Across(p, anchor)
  BY DEF Flip
<1>2. p \in DOMAIN tree.split
  BY <1>1, ParentOfLeaf DEF TreeInv
<1>3. /\ IsTree(tree') /\ Windows(tree') = Windows(tree)
      /\ \A q \in Leaves(tree) : Across(p, q) \in Leaves(tree')
  BY <1>1, <1>2, FlippedTree DEF TreeInv
<1> QED
  BY <1>1, <1>3 DEF TreeInv

LEMMA LayOutInv == ASSUME TreeInv, NEW a \in Areas, LayOutOn(a)
    PROVE  TreeInv' /\ Windows(tree) \subseteq Windows(tree')
BY DEF TreeInv, LayOutOn

\* Only RemoveLeaf takes a window out of the tree.
LEMMA TreeNext ==
    ASSUME TreeInv, [Next]_vars
    PROVE  TreeInv' /\ \A w \in Windows(tree) \ Windows(tree') : RemoveLeaf(w)
<1> DEFINE Keeps == TreeInv' /\ Windows(tree) \subseteq Windows(tree')
<1>1. CASE \E w \in Window : Insert(w) \/ Manage(w) \/ Rotate(w) \/ Flip(w)
  <2>1. Keeps
    BY <1>1, InsertInv, ManageInv, RotateInv, FlipInv
  <2> QED
    BY <2>1
<1>2. CASE \E w, n \in Window, d \in SplitDirection : InsertNextTo(w, n, d)
  <2>1. Keeps
    BY <1>2, InsertNextToInv
  <2> QED
    BY <2>1
<1>3. CASE \E w \in Window \cup {None} : Focus(w)
  <2>1. Keeps
    BY <1>3, FocusInv
  <2> QED
    BY <2>1
<1>4. CASE \E v, w \in Window : Swap(v, w)
  <2>1. Keeps
    BY <1>4, SwapInv
  <2> QED
    BY <2>1
<1>5. CASE \E w \in Window, r \in Ratio : Resize(w, r)
  <2>1. Keeps
    BY <1>5, ResizeInv
  <2> QED
    BY <2>1
<1>6. CASE \E d \in Direction : FocusDirection(d) \/ MoveFocusedDirection(d)
  <2>1. Keeps
    BY <1>6, FocusInv, SwapInv DEF FocusDirection, MoveFocusedDirection
  <2> QED
    BY <2>1
<1>7. CASE \E a \in Areas : LayOutOn(a)
  <2>1. Keeps
    BY <1>7, LayOutInv
  <2> QED
    BY <2>1
<1>8. CASE UNCHANGED vars
  BY <1>8 DEF TreeInv, vars
<1>9. CASE \E w \in Window : RemoveLeaf(w)
  <2>1. PICK w \in Window : RemoveLeaf(w)
    BY <1>9
  <2>2. TreeInv' /\ Windows(tree') = Windows(tree) \ {w}
    BY <2>1, RemoveLeafInv
  <2> QED
    BY <2>1, <2>2
<1> QED
  BY <1>1, <1>2, <1>3, <1>4, <1>5, <1>6, <1>7, <1>8, <1>9 DEF Next

\* The tree stays one: every split has two children, every window one leaf, the
\* anchor is a leaf (Insert, Remove, Swap, Rotate, Flip, Resize of BSPTree).
THEOREM TreeStays == Spec => []BSPTypeOK
<1>1. Init => TreeInv
  BY TreeInit
<1>2. TreeInv /\ [Next]_vars => TreeInv'
  BY TreeNext
<1>3. TreeInv => BSPTypeOK
  BY TreeInvTypeOK
<1> QED
  BY <1>1, <1>2, <1>3, PTL DEF Spec

(* ------------------------------- geometry -------------------------------- *)

Rect == [x : Nat, y : Nat, width : Nat, height : Nat]

\* The share of a ratio, rounded down
LEMMA ShareFacts ==
    ASSUME NEW u \in Nat, NEW r \in Ratio
    PROVE  /\ (u * r) \div Unit \in Nat /\ (u * r) \div Unit <= u
           /\ Unit * ((u * r) \div Unit) <= u * r
           /\ u * r < Unit * ((u * r) \div Unit) + Unit
<1>1. Unit \in Nat \ {0} /\ r \in Nat /\ r < Unit
  BY RatioFacts
<1>2. u * r \in Nat
  BY <1>1, SMT
<1>3. ASSUME NEW x \in Nat, NEW m \in Nat \ {0}
      PROVE  x \div m \in Nat /\ m * (x \div m) <= x /\ x < m * (x \div m) + m
  BY <1>3, SMT
<1>4. u * r <= u * Unit
  BY <1>1, SMT
<1>5. ASSUME NEW q \in Nat, NEW m \in Nat \ {0}, m * q <= u * m PROVE q <= u
  BY <1>5, SMT
<1> QED
  BY <1>1, <1>2, <1>3, <1>4, <1>5, SMT

\* A larger slot, and a ratio in its favour, give the first child no less.
LEMMA FirstGrows ==
    ASSUME NEW u \in Nat, NEW v \in Nat, u <= v, NEW r \in Ratio, NEW s \in Ratio, r <= s
    PROVE  (u * r) \div Unit <= (v * s) \div Unit
<1> DEFINE a == (u * r) \div Unit
           b == (v * s) \div Unit
<1>1. Unit \in Nat \ {0} /\ r \in Nat /\ s \in Nat
  BY RatioFacts
<1>2. a \in Nat /\ b \in Nat /\ Unit * a <= u * r /\ v * s < Unit * b + Unit
  BY ShareFacts
<1>3. u * r <= v * s
  <2>1. u * r <= v * r
    BY <1>1, SMT
  <2>2. v * r <= v * s
    BY <1>1, SMT
  <2> QED
    BY <1>1, <2>1, <2>2, SMT
<1> HIDE DEF a, b
<1>4. Unit * a < Unit * b + Unit
  BY <1>1, <1>2, <1>3, SMT
<1>5. a < b + 1
  BY <1>1, <1>2, <1>4, SMT
<1>6. a <= b
  BY <1>2, <1>5, SMT
<1> QED
  BY <1>6 DEF a, b

LEMMA SecondGrows ==
    ASSUME NEW u \in Nat, NEW v \in Nat, u <= v, NEW r \in Ratio, NEW s \in Ratio, s <= r
    PROVE  u - (u * r) \div Unit <= v - (v * s) \div Unit
<1> DEFINE a == (u * r) \div Unit
           b == (v * s) \div Unit
<1>1. Unit \in Nat \ {0} /\ r \in Nat /\ s \in Nat /\ r < Unit
  BY RatioFacts
<1>2. a \in Nat /\ b \in Nat /\ u * r < Unit * a + Unit /\ Unit * b <= v * s
  BY ShareFacts
<1> HIDE DEF a, b
\* Unit * (v - b) >= Unit * v - v * s >= Unit * u - u * r > Unit * (u - a) - Unit
<1>3. v * s <= v * r
  BY <1>1, SMT
<1>4. u * (Unit - r) <= v * (Unit - r)
  BY <1>1, SMT
<1>5. Unit * u - u * r <= Unit * v - v * r
  <2>1. u * (Unit - r) = Unit * u - u * r /\ v * (Unit - r) = Unit * v - v * r
    BY <1>1, SMT
  <2> QED
    BY <1>4, <2>1
<1>6. Unit * (u - a) - Unit < Unit * (v - b)
  <2>1. Unit * (u - a) = Unit * u - Unit * a /\ Unit * (v - b) = Unit * v - Unit * b
    BY <1>1, <1>2, SMT
  <2> QED
    BY <1>1, <1>2, <1>3, <1>5, <2>1, SMT
<1>7. u - a - 1 < v - b
  BY <1>1, <1>2, <1>6, SMT
<1>8. u - a <= v - b
  BY <1>2, <1>7, SMT
<1> QED
  BY <1>8 DEF a, b

Nodes(t) == Leaves(t) \cup DOMAIN t.split
Below(t, top) == {p \in Nodes(t) : IsPrefix(top, p)}

LEMMA NodeFacts ==
    ASSUME NEW t, IsTree(t)
    PROVE  /\ Nodes(t) \subseteq Path /\ Leaves(t) \cap DOMAIN t.split = {}
           /\ \A p \in DOMAIN t.split : t.split[p] \in Split /\ \A b \in {0, 1} : Append(p, b) \in Nodes(t)
           /\ \A p \in Nodes(t) : p # <<>> => Parent(p) \in DOMAIN t.split
           /\ \E n \in Nat : \A p \in Nodes(t) : Len(p) <= n
<1>1. IsShape(Leaves(t), DOMAIN t.split) /\ t.split \in [DOMAIN t.split -> Split]
  BY DEF IsTree
<1>2. \A b \in {0, 1} : b = 0 \/ b = 1
  OBVIOUS
<1> QED
  BY <1>1, <1>2 DEF IsShape, Nodes

LEMMA BelowFacts ==
    ASSUME NEW t, IsTree(t), NEW top \in Nodes(t)
    PROVE  /\ top \in Below(t, top) /\ Below(t, top) \subseteq Nodes(t) /\ Below(t, top) \subseteq Path
           /\ \A p \in Below(t, top) : IsPrefix(top, p)
           /\ \A p \in Below(t, top) \ {top} :
                /\ p # <<>> /\ Parent(p) \in Below(t, top) /\ Parent(p) \in DOMAIN t.split
                /\ Last(p) \in {0, 1} /\ Append(Parent(p), Last(p)) = p
                /\ Len(Parent(p)) = Len(p) - 1 /\ Len(p) \in Nat \ {0}
           /\ \A p \in Below(t, top) \cap DOMAIN t.split, b \in {0, 1} :
                /\ Append(p, b) \in Below(t, top) \ {top} /\ Parent(Append(p, b)) = p
                /\ Last(Append(p, b)) = b
<1>1. /\ Nodes(t) \subseteq Path
      /\ \A p \in DOMAIN t.split, b \in {0, 1} : Append(p, b) \in Nodes(t)
      /\ \A p \in Nodes(t) : p # <<>> => Parent(p) \in DOMAIN t.split
      /\ DOMAIN t.split \subseteq Nodes(t)
  BY NodeFacts DEF Nodes
<1>2. top \in Path
  BY <1>1
<1>3. top \in Below(t, top) /\ Below(t, top) \subseteq Nodes(t)
  BY <1>2, PrefixOfItself DEF Below
<1>4. ASSUME NEW p \in Below(t, top), p # top
      PROVE  /\ p # <<>> /\ Parent(p) \in Below(t, top) /\ Parent(p) \in DOMAIN t.split
             /\ Last(p) \in {0, 1} /\ Append(Parent(p), Last(p)) = p
             /\ Len(Parent(p)) = Len(p) - 1 /\ Len(p) \in Nat \ {0}
  <2>1. p \in Path /\ p \in Nodes(t) /\ IsPrefix(top, p)
    BY <1>1 DEF Below
  <2>2. p # <<>>
    <3>1. SUFFICES ASSUME p = <<>> PROVE FALSE
      OBVIOUS
    <3>2. Len(top) <= 0 /\ Len(top) \in Nat /\ (Len(top) = 0 <=> top = <<>>)
      BY <1>2, <2>1, <3>1, PrefixAt, PathFacts, RootIsPath
    <3>3. top = <<>>
      BY <3>2, SMT
    <3> QED
      BY <1>4, <3>1, <3>3
  <2>3. Parent(p) \in DOMAIN t.split /\ IsPrefix(top, Parent(p))
    BY <1>1, <1>2, <1>4, <2>1, <2>2, ParentIsPrefix
  <2>4. Last(p) \in {0, 1} /\ Append(Parent(p), Last(p)) = p /\ Len(Parent(p)) = Len(p) - 1 /\ Len(p) \in Nat \ {0}
    BY <2>1, <2>2, ParentFacts
  <2> QED
    BY <1>1, <2>2, <2>3, <2>4 DEF Below
<1>5. ASSUME NEW p \in Below(t, top) \cap DOMAIN t.split, NEW b \in {0, 1}
      PROVE  /\ Append(p, b) \in Below(t, top) \ {top} /\ Parent(Append(p, b)) = p
             /\ Last(Append(p, b)) = b
  <2>1. p \in Path /\ IsPrefix(top, p) /\ Append(p, b) \in Nodes(t)
    BY <1>1 DEF Below
  <2>2. IsPrefix(top, Append(p, b)) /\ Parent(Append(p, b)) = p /\ Last(Append(p, b)) = b
    BY <1>2, <2>1, PrefixOfChild, ChildOfParent
  <2>3. Append(p, b) # top
    <3>1. Len(top) <= Len(p) /\ Len(Append(p, b)) = Len(p) + 1 /\ Len(p) \in Nat /\ Len(top) \in Nat
      BY <1>2, <2>1, PrefixAt, ChildFacts, PathFacts
    <3> QED
      BY <3>1, SMT
  <2> QED
    BY <2>1, <2>2, <2>3 DEF Below
<1> QED
  BY <1>1, <1>3, <1>4, <1>5 DEF Below

\* What holds at the top and of the children of every split it holds of
LEMMA Downwards ==
    ASSUME NEW t, IsTree(t), NEW top \in Nodes(t), NEW T, top \in T,
           \A p \in Below(t, top) \cap DOMAIN t.split, b \in {0, 1} : p \in T => Append(p, b) \in T
    PROVE  Below(t, top) \subseteq T
<1> DEFINE K == {k \in Nat : \A p \in Below(t, top) : Len(p) <= k => p \in T}
<1>1. /\ Below(t, top) \subseteq Path
      /\ \A p \in Below(t, top) \ {top} :
                /\ p # <<>> /\ Parent(p) \in Below(t, top) /\ Parent(p) \in DOMAIN t.split
                /\ Last(p) \in {0, 1} /\ Append(Parent(p), Last(p)) = p
                /\ Len(Parent(p)) = Len(p) - 1 /\ Len(p) \in Nat \ {0}
  BY BelowFacts
<1>2. 0 \in K
  <2>1. ASSUME NEW p \in Below(t, top), Len(p) <= 0 PROVE p = top
    <3>1. SUFFICES ASSUME p # top PROVE FALSE
      OBVIOUS
    <3>2. Len(p) \in Nat \ {0}
      BY <1>1, <3>1
    <3> QED
      BY <2>1, <3>2, SMT
  <2> QED
    BY <2>1
<1>3. ASSUME NEW k \in K PROVE k + 1 \in K
  <2>1. SUFFICES ASSUME NEW p \in Below(t, top), Len(p) <= k + 1, p # top PROVE p \in T
    OBVIOUS
  <2>2. Len(Parent(p)) <= k
    <3>1. Len(Parent(p)) = Len(p) - 1 /\ Len(p) \in Nat \ {0} /\ k \in Nat
      BY <1>1, <2>1
    <3> QED
      BY <2>1, <3>1, SMT
  <2>3. Parent(p) \in Below(t, top) /\ Parent(p) \in DOMAIN t.split /\ Append(Parent(p), Last(p)) = p
        /\ Last(p) \in {0, 1}
    BY <1>1, <2>1
  <2>4. Parent(p) \in T
    BY <2>2, <2>3
  <2> QED
    BY <2>3, <2>4
<1>4. K \in SUBSET Nat
  OBVIOUS
<1> HIDE DEF K
<1>5. K = Nat
  BY <1>2, <1>3, <1>4, Induction
<1>6. ASSUME NEW p \in Below(t, top) PROVE p \in T
  <2>1. Len(p) \in K /\ Len(p) \in Nat
    BY <1>1, <1>5, PathFacts
  <2>2. Len(p) <= Len(p)
    BY <2>1, SMT
  <2> QED
    BY <2>1, <2>2 DEF K
<1> QED
  BY <1>6

\* What holds of the leaves and of every split of whose children it holds
LEMMA Upwards ==
    ASSUME NEW t, IsTree(t), NEW T, Leaves(t) \subseteq T,
           \A p \in DOMAIN t.split : Append(p, 0) \in T /\ Append(p, 1) \in T => p \in T
    PROVE  Nodes(t) \subseteq T
<1>1. /\ Nodes(t) \subseteq Path
      /\ \A p \in DOMAIN t.split : \A b \in {0, 1} : Append(p, b) \in Nodes(t)
  BY NodeFacts
<1>2. PICK n \in Nat : \A p \in Nodes(t) : Len(p) <= n
  BY NodeFacts
<1> DEFINE K == {k \in Nat : \A p \in Nodes(t) : n - Len(p) <= k => p \in T}
<1>3. ASSUME NEW p \in DOMAIN t.split, NEW b \in {0, 1}
      PROVE  Append(p, b) \in Nodes(t) /\ Len(Append(p, b)) = Len(p) + 1 /\ Len(p) \in Nat
  BY <1>1, ChildFacts, PathFacts DEF Nodes
<1>4. 0 \in K
  <2>1. SUFFICES ASSUME NEW p \in Nodes(t), n - Len(p) <= 0, p \in DOMAIN t.split PROVE FALSE
    BY DEF Nodes
  <2>2. Len(p) + 1 <= n /\ Len(p) \in Nat
    BY <1>2, <1>3, <2>1
  <2> QED
    BY <2>1, <2>2, SMT
<1>5. ASSUME NEW k \in K PROVE k + 1 \in K
  <2>1. SUFFICES ASSUME NEW p \in Nodes(t), n - Len(p) <= k + 1, p \in DOMAIN t.split PROVE p \in T
    BY DEF Nodes
  <2>2. ASSUME NEW b \in {0, 1} PROVE Append(p, b) \in T
    <3>1. Append(p, b) \in Nodes(t) /\ Len(Append(p, b)) = Len(p) + 1 /\ Len(p) \in Nat
      BY <1>3, <2>1
    <3>2. n - Len(Append(p, b)) <= k
      BY <2>1, <3>1, SMT
    <3> QED
      BY <3>1, <3>2
  <2> QED
    BY <2>1, <2>2
<1>6. K \in SUBSET Nat
  OBVIOUS
<1> HIDE DEF K
<1>7. K = Nat
  BY <1>4, <1>5, <1>6, Induction
<1>8. ASSUME NEW p \in Nodes(t) PROVE p \in T
  <2>1. Len(p) \in Nat /\ Len(p) <= n
    BY <1>1, <1>2, PathFacts
  <2>2. n - Len(p) \in Nat /\ n - Len(p) <= n - Len(p)
    BY <2>1, SMT
  <2>3. n - Len(p) \in K
    BY <1>7, <2>2
  <2> QED
    BY <2>2, <2>3 DEF K
<1> QED
  BY <1>8

(* --------------------------------- slots --------------------------------- *)

Start(r, ax) == IF ax = "Vertical" THEN r.x ELSE r.y
Size(r, ax) == IF ax = "Vertical" THEN r.width ELSE r.height
Usable(r, ax) == IF Size(r, ax) > InnerGap THEN Size(r, ax) - InnerGap ELSE 0
First(s, r) == (Usable(r, s.dir) * s.ratio) \div Unit

LEMMA UsableFacts ==
    ASSUME NEW r \in Rect, NEW s \in Split
    PROVE  /\ Usable(r, s.dir) \in Nat /\ First(s, r) \in Nat /\ First(s, r) <= Usable(r, s.dir)
           /\ s.dir \in SplitDirection /\ s.ratio \in Ratio
           /\ \A ax \in SplitDirection : Start(r, ax) \in Nat /\ Size(r, ax) \in Nat
           /\ InnerGap \in Nat
<1>1. s.dir \in SplitDirection /\ s.ratio \in Ratio
  BY DEF Split
<1>2. \A ax \in SplitDirection : Start(r, ax) \in Nat /\ Size(r, ax) \in Nat
  BY DEF Rect, Start, Size
<1>3. InnerGap \in Nat
  BY SizesAreNatural
<1>4. Usable(r, s.dir) \in Nat
  BY <1>1, <1>2, <1>3, SMT DEF Usable
<1> QED
  BY <1>1, <1>2, <1>3, <1>4, ShareFacts DEF First

\* What Subdivide makes of a slot, along its direction and across it
LEMMA SubdivideFacts ==
    ASSUME NEW r \in Rect, NEW s \in Split, NEW b \in {0, 1}, NEW c, c = Subdivide(s, r)[b + 1]
    PROVE  /\ c \in Rect
           /\ \A ax \in SplitDirection \ {s.dir} : Start(c, ax) = Start(r, ax) /\ Size(c, ax) = Size(r, ax)
           /\ b = 0 => Start(c, s.dir) = Start(r, s.dir) /\ Size(c, s.dir) = First(s, r)
           /\ b = 1 => /\ Start(c, s.dir) = Start(r, s.dir) + First(s, r) + InnerGap
                       /\ Size(c, s.dir) = Usable(r, s.dir) - First(s, r)
<1> DEFINE u == Usable(r, s.dir)
           first == First(s, r)
<1>1. /\ u \in Nat /\ first \in Nat /\ first <= u /\ InnerGap \in Nat /\ u - first \in Nat
      /\ s.dir \in SplitDirection
  BY UsableFacts, SMT
<1>2. r \in [x : Nat, y : Nat, width : Nat, height : Nat]
  BY DEF Rect
<1>3. CASE s.dir = "Vertical"
  <2>1. Subdivide(s, r) = <<[r EXCEPT !.width = first],
                            [r EXCEPT !.x = @ + first + InnerGap, !.width = u - first]>>
    BY <1>3 DEF Subdivide, First, Usable, Size
  <2> HIDE DEF u, first
  <2>2. CASE b = 0
    <3>1. c = [r EXCEPT !.width = first]
      BY <2>1, <2>2
    <3>2. c \in Rect /\ c.width = first /\ c.x = r.x /\ c.y = r.y /\ c.height = r.height
      BY <1>1, <1>2, <3>1 DEF Rect
    <3> QED
      BY <1>3, <2>2, <3>2 DEF Start, Size, SplitDirection, first
  <2>3. CASE b = 1
    <3>1. c = [r EXCEPT !.x = @ + first + InnerGap, !.width = u - first]
      BY <2>1, <2>3
    <3>2. r.x \in Nat /\ r.x + first + InnerGap \in Nat
      <4>1. r.x \in Nat
        BY <1>2
      <4> QED
        BY <1>1, <4>1, SMT
    <3>3. PICK m, n : m = r.x + first + InnerGap /\ n = u - first /\ m \in Nat /\ n \in Nat
      BY <1>1, <3>2
    <3>4. c = [r EXCEPT !.x = m, !.width = n]
      BY <3>1, <3>3
    <3>5. c \in Rect /\ c.width = n /\ c.x = m /\ c.y = r.y /\ c.height = r.height
      BY <1>2, <3>3, <3>4 DEF Rect
    <3> QED
      BY <1>3, <2>3, <3>3, <3>5 DEF Start, Size, SplitDirection, first, u
  <2> QED
    BY <2>2, <2>3
<1>4. CASE s.dir = "Horizontal"
  <2>1. Subdivide(s, r) = <<[r EXCEPT !.height = first],
                            [r EXCEPT !.y = @ + first + InnerGap, !.height = u - first]>>
    BY <1>4 DEF Subdivide, First, Usable, Size
  <2> HIDE DEF u, first
  <2>2. CASE b = 0
    <3>1. c = [r EXCEPT !.height = first]
      BY <2>1, <2>2
    <3>2. c \in Rect /\ c.width = r.width /\ c.x = r.x /\ c.y = r.y /\ c.height = first
      BY <1>1, <1>2, <3>1 DEF Rect
    <3> QED
      BY <1>4, <2>2, <3>2 DEF Start, Size, SplitDirection, first
  <2>3. CASE b = 1
    <3>1. c = [r EXCEPT !.y = @ + first + InnerGap, !.height = u - first]
      BY <2>1, <2>3
    <3>2. r.y \in Nat /\ r.y + first + InnerGap \in Nat
      <4>1. r.y \in Nat
        BY <1>2
      <4> QED
        BY <1>1, <4>1, SMT
    <3>3. PICK m, n : m = r.y + first + InnerGap /\ n = u - first /\ m \in Nat /\ n \in Nat
      BY <1>1, <3>2
    <3>4. c = [r EXCEPT !.y = m, !.height = n]
      BY <3>1, <3>3
    <3>5. c \in Rect /\ c.height = n /\ c.y = m /\ c.x = r.x /\ c.width = r.width
      BY <1>2, <3>3, <3>4 DEF Rect
    <3> QED
      BY <1>4, <2>3, <3>3, <3>5 DEF Start, Size, SplitDirection, first, u
  <2> QED
    BY <2>2, <2>3
<1> QED
  BY <1>1, <1>3, <1>4 DEF SplitDirection

IsSlots(f, D, t, top, r) ==
    f = [p \in D |-> IF p = top THEN r
                     ELSE Subdivide(t.split[Parent(p)], f[Parent(p)])[Last(p) + 1]]

Shallow(t, top, k) == {p \in Below(t, top) : Len(p) <= k}

LEMMA SlotsToDepth ==
    ASSUME NEW t, IsTree(t), NEW top \in Nodes(t), NEW r, NEW n \in Nat
    PROVE  \E f : IsSlots(f, Shallow(t, top, n), t, top, r)
<1> DEFINE K == {k \in Nat : \E f : IsSlots(f, Shallow(t, top, k), t, top, r)}
<1>1. /\ Below(t, top) \subseteq Path
      /\ \A p \in Below(t, top) \ {top} :
           Parent(p) \in Below(t, top) /\ Len(Parent(p)) = Len(p) - 1 /\ Len(p) \in Nat \ {0}
  BY BelowFacts
<1>2. 0 \in K
  <2> DEFINE f == [p \in Shallow(t, top, 0) |-> r]
  <2>1. \A p \in Shallow(t, top, 0) : p = top
    <3>1. SUFFICES ASSUME NEW p \in Below(t, top), Len(p) <= 0, p # top PROVE FALSE
      BY DEF Shallow
    <3>2. Len(p) \in Nat \ {0}
      BY <1>1, <3>1
    <3> QED
      BY <3>1, <3>2, SMT
  <2>2. IsSlots(f, Shallow(t, top, 0), t, top, r)
    BY <2>1 DEF IsSlots
  <2> QED
    BY <2>2
<1>3. ASSUME NEW k \in K PROVE k + 1 \in K
  <2>1. k \in Nat /\ k + 1 \in Nat
    OBVIOUS
  <2> DEFINE D == Shallow(t, top, k)
             E == Shallow(t, top, k + 1)
  <2>2. PICK f : IsSlots(f, D, t, top, r)
    OBVIOUS
  <2>3. \A p \in D : f[p] = IF p = top THEN r
                            ELSE Subdivide(t.split[Parent(p)], f[Parent(p)])[Last(p) + 1]
    BY <2>2 DEF IsSlots
  <2>4. \A p \in E \ {top} : Parent(p) \in D
    <3>1. SUFFICES ASSUME NEW p \in Below(t, top) \ {top}, Len(p) <= k + 1
                   PROVE  Parent(p) \in Below(t, top) /\ Len(Parent(p)) <= k
      BY DEF Shallow
    <3>2. Parent(p) \in Below(t, top) /\ Len(Parent(p)) = Len(p) - 1 /\ Len(p) \in Nat
      BY <1>1, <3>1
    <3> QED
      BY <2>1, <3>1, <3>2, SMT
  <2> DEFINE child(p) == Subdivide(t.split[Parent(p)], f[Parent(p)])[Last(p) + 1]
             g == [p \in E |-> IF p \in D THEN f[p] ELSE IF p = top THEN r ELSE child(p)]
  <2>5. D \subseteq E
    <3>1. SUFFICES ASSUME NEW p \in Below(t, top), Len(p) <= k PROVE Len(p) <= k + 1
      BY DEF Shallow
    <3>2. Len(p) \in Nat
      BY <1>1, PathFacts
    <3> QED
      BY <2>1, <3>1, <3>2, SMT
  <2> HIDE DEF D, E
  <2>6. \A p \in D : g[p] = f[p]
    BY <2>5
  <2>7. ASSUME NEW p \in E
        PROVE  g[p] = IF p = top THEN r
                      ELSE Subdivide(t.split[Parent(p)], g[Parent(p)])[Last(p) + 1]
    <3>1. CASE p = top
      BY <2>3, <3>1
    <3>2. CASE p # top
      <4>1. g[Parent(p)] = f[Parent(p)]
        BY <2>4, <2>6, <3>2
      <4>2. g[p] = child(p)
        BY <2>3, <3>2
      <4> QED
        BY <3>2, <4>1, <4>2
    <3> QED
      BY <3>1, <3>2
  <2>8. IsSlots(g, E, t, top, r)
    BY <2>7 DEF IsSlots
  <2> QED
    BY <2>1, <2>8 DEF E
<1>4. K \in SUBSET Nat
  OBVIOUS
<1> HIDE DEF K
<1>5. K = Nat
  BY <1>2, <1>3, <1>4, Induction
<1> QED
  BY <1>5 DEF K

\* The recursion of Slots gives every node one slot.
LEMMA SlotsExist ==
    ASSUME NEW t, IsTree(t), NEW top \in Nodes(t), NEW r
    PROVE  IsSlots(Slots(t, top, r), Below(t, top), t, top, r)
<1>1. PICK n \in Nat : \A p \in Nodes(t) : Len(p) <= n
  BY NodeFacts
<1>2. Shallow(t, top, n) = Below(t, top)
  BY <1>1 DEF Shallow, Below
<1>3. \E f : IsSlots(f, Below(t, top), t, top, r)
  BY <1>2, SlotsToDepth
<1>4. Below(t, top) = {p \in Leaves(t) \cup DOMAIN t.split : IsPrefix(top, p)}
  BY DEF Below, Nodes
<1>5. Slots(t, top, r) = CHOOSE f : IsSlots(f, Below(t, top), t, top, r)
  BY <1>4 DEF Slots, IsSlots
<1> QED
  BY <1>3, <1>5

\* The slots of the nodes at or below one
LEMMA SlotsAre ==
    ASSUME NEW t, IsTree(t), NEW top \in Nodes(t), NEW r \in Rect, NEW slot, slot = Slots(t, top, r)
    PROVE  /\ slot \in [Below(t, top) -> Rect] /\ slot[top] = r
           /\ \A p \in Below(t, top) \cap DOMAIN t.split, b \in {0, 1} :
                slot[Append(p, b)] = Subdivide(t.split[p], slot[p])[b + 1]
<1>1. slot = [p \in Below(t, top) |->
                IF p = top THEN r ELSE Subdivide(t.split[Parent(p)], slot[Parent(p)])[Last(p) + 1]]
  BY SlotsExist DEF IsSlots
<1>2. /\ top \in Below(t, top)
      /\ \A p \in Below(t, top) \cap DOMAIN t.split, b \in {0, 1} :
           /\ Append(p, b) \in Below(t, top) \ {top} /\ Parent(Append(p, b)) = p
           /\ Last(Append(p, b)) = b
  BY BelowFacts
<1>3. slot[top] = r
  BY <1>1, <1>2
<1>4. ASSUME NEW p \in Below(t, top) \cap DOMAIN t.split, NEW b \in {0, 1}
      PROVE  slot[Append(p, b)] = Subdivide(t.split[p], slot[p])[b + 1]
  BY <1>1, <1>2, <1>4
<1> DEFINE T == {p \in Below(t, top) : slot[p] \in Rect}
<1>5. top \in T
  BY <1>2, <1>3
<1>6. ASSUME NEW p \in Below(t, top) \cap DOMAIN t.split, NEW b \in {0, 1}, p \in T
      PROVE  Append(p, b) \in T
  <2>1. slot[p] \in Rect /\ t.split[p] \in Split
    BY <1>6, NodeFacts
  <2>2. slot[Append(p, b)] \in Rect
    BY <1>4, <2>1, SubdivideFacts
  <2> QED
    BY <1>2, <2>2
<1> HIDE DEF T
<1>7. Below(t, top) \subseteq T
  BY <1>5, <1>6, Downwards
<1>8. DOMAIN slot = Below(t, top)
  BY <1>1
<1>9. \E D : slot = [p \in D |-> slot[p]]
  <2>1. PICK f : f = slot
    OBVIOUS
  <2>2. f = [p \in Below(t, top) |->
               IF p = top THEN r ELSE Subdivide(t.split[Parent(p)], slot[Parent(p)])[Last(p) + 1]]
    BY <1>1, <2>1
  <2>3. f = [p \in Below(t, top) |-> f[p]]
    BY <2>2
  <2> QED
    BY <2>1, <2>3
<1>10. slot \in [Below(t, top) -> Rect]
  BY <1>7, <1>8, <1>9 DEF T
<1> QED
  BY <1>3, <1>4, <1>10

\* The slots below a node follow from its own.
LEMMA SlotsBelow ==
    ASSUME NEW t, IsTree(t), NEW top \in Nodes(t), NEW r \in Rect,
           NEW p \in Below(t, top), NEW q \in Below(t, p)
    PROVE  q \in Below(t, top) /\ Slots(t, top, r)[q] = Slots(t, p, Slots(t, top, r)[p])[q]
<1> DEFINE slot == Slots(t, top, r)
           sub == Slots(t, p, slot[p])
<1>1. /\ slot \in [Below(t, top) -> Rect]
      /\ \A q1 \in Below(t, top) \cap DOMAIN t.split, b \in {0, 1} :
           slot[Append(q1, b)] = Subdivide(t.split[q1], slot[q1])[b + 1]
  BY SlotsAre
<1>2. p \in Nodes(t) /\ slot[p] \in Rect
  BY <1>1 DEF Below
<1> HIDE DEF slot
<1>3. /\ sub[p] = slot[p]
      /\ \A q1 \in Below(t, p) \cap DOMAIN t.split, b \in {0, 1} :
           sub[Append(q1, b)] = Subdivide(t.split[q1], sub[q1])[b + 1]
  BY <1>2, SlotsAre
<1> HIDE DEF sub
<1> DEFINE T == {q1 \in Below(t, top) : slot[q1] = sub[q1]}
<1>4. p \in T
  BY <1>3
<1>5. ASSUME NEW q1 \in Below(t, p) \cap DOMAIN t.split, NEW b \in {0, 1}, q1 \in T
      PROVE  Append(q1, b) \in T
  <2>1. Append(q1, b) \in Below(t, top)
    BY <1>5, BelowFacts
  <2> QED
    BY <1>1, <1>3, <1>5, <2>1
<1> HIDE DEF T
<1>6. Below(t, p) \subseteq T
  BY <1>2, <1>4, <1>5, Downwards
<1> QED
  BY <1>6 DEF T, slot, sub

\* A split of r into c0 and c1 that gives every cell away
Divides(r, ax, c0, c1) ==
    /\ Start(c0, ax) = Start(r, ax)
    /\ Start(c1, ax) = Start(r, ax) + Size(c0, ax) + InnerGap
    /\ Size(r, ax) = Size(c0, ax) + InnerGap + Size(c1, ax)
    /\ \A o \in SplitDirection \ {ax} :
         /\ Start(c0, o) = Start(r, o) /\ Size(c0, o) = Size(r, o)
         /\ Start(c1, o) = Start(r, o) /\ Size(c1, o) = Size(r, o)

\* The whole tree laid out on r, every tile more than m cells wide and high
Roomy(t, r, m) ==
    \A p \in Leaves(t), ax \in SplitDirection : Size(Slots(t, <<>>, r)[p], ax) > m

LEMMA WholeTree ==
    ASSUME NEW t, IsTree(t), t # EmptyTree, NEW r \in Rect, NEW slot, slot = Slots(t, <<>>, r)
    PROVE  /\ <<>> \in Nodes(t) /\ Below(t, <<>>) = Nodes(t) /\ slot \in [Nodes(t) -> Rect]
           /\ slot[<<>>] = r
           /\ \A p \in DOMAIN t.split, b \in {0, 1} :
                /\ Append(p, b) \in Nodes(t)
                /\ slot[Append(p, b)] = Subdivide(t.split[p], slot[p])[b + 1]
<1>1. <<>> \in Nodes(t)
  BY SomeLeaf DEF Nodes
<1>2. Below(t, <<>>) = Nodes(t)
  BY NodeFacts, PrefixOfItself DEF Below
<1>3. DOMAIN t.split \subseteq Nodes(t)
  BY DEF Nodes
<1> QED
  BY <1>1, <1>2, <1>3, SlotsAre, NodeFacts

\* No node has less room than its leaves, and no cell of it is lost.
LEMMA RoomyNodes ==
    ASSUME NEW t, IsTree(t), t # EmptyTree, NEW r \in Rect, NEW slot, slot = Slots(t, <<>>, r),
           NEW m \in Nat, Roomy(t, r, m)
    PROVE  /\ \A p \in Nodes(t), ax \in SplitDirection : Size(slot[p], ax) > m
           /\ \A p \in DOMAIN t.split :
                Divides(slot[p], t.split[p].dir, slot[Append(p, 0)], slot[Append(p, 1)])
<1> DEFINE T == {p \in Nodes(t) : \A ax \in SplitDirection : Size(slot[p], ax) > m}
<1>1. /\ slot \in [Nodes(t) -> Rect]
      /\ \A p \in DOMAIN t.split, b \in {0, 1} :
           /\ Append(p, b) \in Nodes(t)
           /\ slot[Append(p, b)] = Subdivide(t.split[p], slot[p])[b + 1]
  BY WholeTree
<1>2. Leaves(t) \subseteq T
  BY DEF Roomy, Nodes
<1>3. ASSUME NEW p \in DOMAIN t.split, Append(p, 0) \in T, Append(p, 1) \in T
      PROVE  p \in T /\ Divides(slot[p], t.split[p].dir, slot[Append(p, 0)], slot[Append(p, 1)])
  <2> DEFINE c0 == slot[Append(p, 0)]
             c1 == slot[Append(p, 1)]
             s == t.split[p]
             ax == s.dir
             first == First(s, slot[p])
             u == Usable(slot[p], ax)
  <2>1. p \in Nodes(t) /\ slot[p] \in Rect /\ s \in Split
    BY <1>1, NodeFacts DEF Nodes
  <2>2. /\ \A o \in SplitDirection \ {ax} : Start(c0, o) = Start(slot[p], o) /\ Size(c0, o) = Size(slot[p], o)
        /\ Start(c0, ax) = Start(slot[p], ax) /\ Size(c0, ax) = first
    <3>1. c0 = Subdivide(s, slot[p])[0 + 1] /\ 0 \in {0, 1}
      BY <1>1
    <3> QED
      BY <2>1, <3>1, SubdivideFacts
  <2>3. /\ \A o \in SplitDirection \ {ax} : Start(c1, o) = Start(slot[p], o) /\ Size(c1, o) = Size(slot[p], o)
        /\ Start(c1, ax) = Start(slot[p], ax) + first + InnerGap /\ Size(c1, ax) = u - first
    <3>1. c1 = Subdivide(s, slot[p])[1 + 1] /\ 1 \in {0, 1}
      BY <1>1
    <3> QED
      BY <2>1, <3>1, SubdivideFacts
  <2>4. /\ u \in Nat /\ first \in Nat /\ first <= u /\ ax \in SplitDirection
        /\ Size(slot[p], ax) \in Nat /\ InnerGap \in Nat
    BY <2>1, UsableFacts
  <2>5. /\ \A o \in SplitDirection : Size(c0, o) > m
        /\ \A o \in SplitDirection : Size(c1, o) > m
    BY <1>3
  <2> HIDE DEF c0, c1, first
  <2>6. first > m
    BY <2>2, <2>4, <2>5
  <2>7. u > 0
    BY <2>4, <2>6, SMT
  <2>8. Size(slot[p], ax) = u + InnerGap
    BY <2>4, <2>7, SMT DEF Usable
  <2> HIDE DEF u
  <2>9. Size(slot[p], ax) > m
    BY <2>4, <2>6, <2>8, SMT
  <2>10. \A o \in SplitDirection : Size(slot[p], o) > m
    BY <2>2, <2>5, <2>9
  <2>11. Size(slot[p], ax) = Size(c0, ax) + InnerGap + Size(c1, ax)
    <3>1. u + InnerGap = first + InnerGap + (u - first)
      BY <2>4, SMT
    <3> QED
      BY <2>2, <2>3, <2>8, <3>1
  <2>12. Divides(slot[p], ax, c0, c1)
    BY <2>2, <2>3, <2>11 DEF Divides
  <2> QED
    BY <2>1, <2>10, <2>12 DEF c0, c1
<1> HIDE DEF T
<1>4. Nodes(t) \subseteq T
  BY <1>2, <1>3, Upwards
<1>5. ASSUME NEW p \in DOMAIN t.split PROVE Append(p, 0) \in T /\ Append(p, 1) \in T
  <2>1. 0 \in {0, 1} /\ 1 \in {0, 1}
    OBVIOUS
  <2> QED
    BY <1>1, <1>4, <2>1
<1> QED
  BY <1>3, <1>4, <1>5 DEF T

LEMMA InsideFacts ==
    ASSUME NEW a \in Rect, NEW b \in Rect
    PROVE  Inside(a, b) <=> \A ax \in SplitDirection :
             /\ Start(b, ax) <= Start(a, ax)
             /\ Start(a, ax) + Size(a, ax) <= Start(b, ax) + Size(b, ax)
BY DEF Inside, Start, Size, SplitDirection

LEMMA InsideTransitive ==
    ASSUME NEW a \in Rect, NEW b \in Rect, NEW c \in Rect, Inside(a, b), Inside(b, c)
    PROVE  Inside(a, c)
BY SMT DEF Inside, Rect

LEMMA InsideItself ==
    ASSUME NEW a \in Rect
    PROVE  Inside(a, a)
BY SMT DEF Inside, Rect

LEMMA DividesInside ==
    ASSUME NEW r \in Rect, NEW c0 \in Rect, NEW c1 \in Rect, NEW ax \in SplitDirection, Divides(r, ax, c0, c1)
    PROVE  /\ Inside(c0, r) /\ Inside(c1, r)
           /\ Start(c0, ax) + Size(c0, ax) + InnerGap <= Start(c1, ax)
<1>1. /\ InnerGap \in Nat
      /\ \A o \in SplitDirection : /\ Start(r, o) \in Nat /\ Size(r, o) \in Nat
                                   /\ Start(c0, o) \in Nat /\ Size(c0, o) \in Nat
                                   /\ Start(c1, o) \in Nat /\ Size(c1, o) \in Nat
  BY SizesAreNatural DEF Rect, Start, Size
<1>2. ASSUME NEW o \in SplitDirection
      PROVE  /\ Start(r, o) <= Start(c0, o) /\ Start(c0, o) + Size(c0, o) <= Start(r, o) + Size(r, o)
             /\ Start(r, o) <= Start(c1, o) /\ Start(c1, o) + Size(c1, o) <= Start(r, o) + Size(r, o)
  <2>1. CASE o = ax
    BY <1>1, <2>1, SMT DEF Divides
  <2>2. CASE o # ax
    <3>1. /\ Start(c0, o) = Start(r, o) /\ Size(c0, o) = Size(r, o)
          /\ Start(c1, o) = Start(r, o) /\ Size(c1, o) = Size(r, o)
      BY <2>2 DEF Divides
    <3> QED
      BY <1>1, <3>1, SMT
  <2> QED
    BY <2>1, <2>2
<1>3. Start(c0, ax) + Size(c0, ax) + InnerGap <= Start(c1, ax)
  BY <1>1, SMT DEF Divides
<1> QED
  BY <1>2, <1>3, InsideFacts

\* What is below a node lies inside its slot.
LEMMA SlotsNest ==
    ASSUME NEW t, IsTree(t), t # EmptyTree, NEW r \in Rect, NEW slot, slot = Slots(t, <<>>, r),
           Roomy(t, r, 0), NEW p \in Nodes(t), NEW q \in Below(t, p)
    PROVE  Inside(slot[q], slot[p])
<1>1. slot \in [Nodes(t) -> Rect]
  BY WholeTree
<1>2. \A s \in DOMAIN t.split : /\ Divides(slot[s], t.split[s].dir, slot[Append(s, 0)], slot[Append(s, 1)])
                                /\ s \in Nodes(t) /\ Append(s, 0) \in Nodes(t) /\ Append(s, 1) \in Nodes(t)
                                /\ t.split[s].dir \in SplitDirection
  <2>1. 0 \in Nat /\ 0 \in {0, 1} /\ 1 \in {0, 1}
    OBVIOUS
  <2> QED
    BY <2>1, RoomyNodes, NodeFacts DEF Nodes, Split
<1> DEFINE T == {s \in Below(t, p) : Inside(slot[s], slot[p])}
<1>3. p \in T
  BY <1>1, BelowFacts, InsideItself
<1>4. ASSUME NEW s \in Below(t, p) \cap DOMAIN t.split, NEW b \in {0, 1}, s \in T
      PROVE  Append(s, b) \in T
  <2>1. Append(s, b) \in Below(t, p) /\ Append(s, b) \in Nodes(t) /\ s \in Nodes(t)
    BY <1>4, BelowFacts
  <2>2. Inside(slot[Append(s, 0)], slot[s]) /\ Inside(slot[Append(s, 1)], slot[s])
    BY <1>1, <1>2, DividesInside
  <2>3. Inside(slot[Append(s, b)], slot[s])
    BY <2>2
  <2>4. slot[Append(s, b)] \in Rect /\ slot[s] \in Rect /\ slot[p] \in Rect
    BY <1>1, <2>1
  <2>5. Inside(slot[s], slot[p])
    BY <1>4
  <2> HIDE DEF T
  <2>6. Inside(slot[Append(s, b)], slot[p])
    BY <2>3, <2>4, <2>5, InsideTransitive
  <2> QED
    BY <2>1, <2>6 DEF T
<1> HIDE DEF T
<1>5. Below(t, p) \subseteq T
  BY <1>3, <1>4, Downwards
<1> QED
  BY <1>5 DEF T

\* Where the ways to two nodes part
LEMMA Fork ==
    ASSUME NEW p \in Path, NEW q \in Path, ~IsPrefix(p, q), ~IsPrefix(q, p)
    PROVE  \E s \in Path, b \in {0, 1} :
             /\ IsPrefix(Append(s, b), p) /\ IsPrefix(Append(s, 1 - b), q)
             /\ IsPrefix(s, p) /\ IsPrefix(s, q) /\ s # p /\ s # q
             /\ p[Len(s) + 1] = b /\ q[Len(s) + 1] = 1 - b
<1> DEFINE T == {k \in Nat : k + 1 <= Len(p) /\ k + 1 <= Len(q) /\ p[k + 1] # q[k + 1]}
<1>1. /\ Len(p) \in Nat /\ Len(q) \in Nat
      /\ \A i \in 1..Len(p) : p[i] \in {0, 1}
      /\ \A i \in 1..Len(q) : q[i] \in {0, 1}
  BY PathFacts
<1>2. T # {}
  <2>1. SUFFICES ASSUME T = {} PROVE FALSE
    OBVIOUS
  <2>2. ASSUME NEW i \in 1..Len(p), i <= Len(q) PROVE p[i] = q[i]
    <3>1. i - 1 \in Nat /\ (i - 1) + 1 = i /\ i <= Len(p)
      BY <1>1, SMT
    <3>2. i - 1 \notin T
      BY <2>1
    <3> QED
      BY <2>2, <3>1, <3>2
  <2>3. CASE Len(p) <= Len(q)
    <3>1. \A i \in 1..Len(p) : i <= Len(q)
      BY <1>1, <2>3, SMT
    <3> QED
      BY <2>2, <2>3, <3>1, PrefixAt
  <2>4. CASE Len(q) <= Len(p)
    <3>1. \A i \in 1..Len(q) : i \in 1..Len(p) /\ i <= Len(q)
      BY <1>1, <2>4, SMT
    <3>2. \A i \in 1..Len(q) : q[i] = p[i]
      BY <2>2, <3>1
    <3> QED
      BY <2>4, <3>2, PrefixAt
  <2> QED
    BY <1>1, <2>3, <2>4, SMT
<1>3. PICK k \in T : \A j \in T : k <= j
  <2>1. T \subseteq Nat
    OBVIOUS
  <2> QED
    BY <1>2, <2>1, LeastNumber
<1>4. k \in Nat /\ k + 1 <= Len(p) /\ k + 1 <= Len(q) /\ p[k + 1] # q[k + 1]
  OBVIOUS
<1>5. \A i \in 1..k : p[i] = q[i]
  <2>1. SUFFICES ASSUME NEW i \in 1..k, p[i] # q[i] PROVE FALSE
    OBVIOUS
  <2>2. i - 1 \in Nat /\ (i - 1) + 1 = i /\ i <= Len(p) /\ i <= Len(q) /\ ~(k <= i - 1)
    BY <1>1, <1>4, SMT
  <2>3. i - 1 \in T
    BY <2>1, <2>2
  <2> QED
    BY <1>3, <2>2, <2>3
<1> HIDE DEF T
<1>6. k \in 0..Len(p) /\ k + 1 \in 1..Len(p) /\ k + 1 \in 1..Len(q) /\ k < Len(p) /\ k < Len(q)
      /\ k <= Len(p) /\ k <= Len(q)
  BY <1>1, <1>4, SMT
<1> DEFINE s == SubSeq(p, 1, k)
           b == p[k + 1]
<1>7. s \in Path /\ Len(s) = k /\ \A i \in 1..k : s[i] = p[i]
  BY <1>6, CutFacts
<1>8. b \in {0, 1} /\ q[k + 1] \in {0, 1} /\ q[k + 1] # b
  BY <1>1, <1>4, <1>6
<1>9. q[k + 1] = 1 - b
  BY <1>8
<1> HIDE DEF s, b
<1>10. IsPrefix(s, p) /\ s # p
  BY <1>6, <1>7, PrefixAt
<1>11. IsPrefix(s, q) /\ s # q
  <2>1. \A i \in 1..k : s[i] = q[i]
    BY <1>5, <1>7
  <2> QED
    BY <1>6, <1>7, <2>1, PrefixAt
<1>12. IsPrefix(Append(s, b), p) /\ IsPrefix(Append(s, 1 - b), q)
  BY <1>7, <1>9, <1>10, <1>11, NextOnTheWay DEF b
<1>13. p[Len(s) + 1] = b /\ q[Len(s) + 1] = 1 - b
  BY <1>7, <1>9 DEF b
<1> QED
  BY <1>7, <1>8, <1>10, <1>11, <1>12, <1>13

LEMMA ForkOfLeaves ==
    ASSUME NEW t, IsTree(t), NEW p \in Leaves(t), NEW q \in Leaves(t), p # q
    PROVE  \E s \in DOMAIN t.split, b \in {0, 1} :
             /\ p \in Below(t, Append(s, b)) /\ q \in Below(t, Append(s, 1 - b))
             /\ p \in Below(t, s) /\ q \in Below(t, s) /\ Append(s, b) \in Nodes(t) /\ Append(s, 1 - b) \in Nodes(t)
             /\ s \in Nodes(t) /\ p[Len(s) + 1] = b /\ q[Len(s) + 1] = 1 - b
<1>1. IsShape(Leaves(t), DOMAIN t.split) /\ Leaves(t) \subseteq Path /\ p \in Nodes(t) /\ q \in Nodes(t)
  BY NodeFacts DEF IsTree, Nodes
<1>2. p \in Path /\ q \in Path /\ q \in Leaves(t) \cup DOMAIN t.split /\ p \in Leaves(t) \cup DOMAIN t.split
  BY <1>1
<1>3. ~IsPrefix(p, q) /\ ~IsPrefix(q, p)
  BY <1>1, <1>2, NothingBelowLeaf
<1>4. PICK s \in Path, b \in {0, 1} :
             /\ IsPrefix(Append(s, b), p) /\ IsPrefix(Append(s, 1 - b), q)
             /\ IsPrefix(s, p) /\ IsPrefix(s, q) /\ s # p /\ s # q
             /\ p[Len(s) + 1] = b /\ q[Len(s) + 1] = 1 - b
  BY <1>2, <1>3, Fork
<1>5. s \in DOMAIN t.split
  BY <1>1, <1>2, <1>4, Ancestors
<1>6. 1 - b \in {0, 1}
  BY SMT
<1>7. Append(s, b) \in Nodes(t) /\ Append(s, 1 - b) \in Nodes(t) /\ s \in Nodes(t)
  BY <1>5, <1>6, NodeFacts DEF Nodes
<1> QED
  BY <1>1, <1>4, <1>5, <1>7 DEF Below

LEMMA ApartFacts ==
    ASSUME NEW a \in Rect, NEW b \in Rect, NEW c0 \in Rect, NEW c1 \in Rect, Inside(a, c0), Inside(b, c1),
           NEW ax \in SplitDirection, Start(c0, ax) + Size(c0, ax) + InnerGap <= Start(c1, ax)
    PROVE  /\ Start(a, ax) + Size(a, ax) + InnerGap <= Start(b, ax)
           /\ Apart(a, b) /\ Apart(b, a)
<1>1. /\ InnerGap \in Nat
      /\ Start(a, ax) \in Nat /\ Size(a, ax) \in Nat /\ Start(b, ax) \in Nat
      /\ Start(c0, ax) \in Nat /\ Size(c0, ax) \in Nat /\ Start(c1, ax) \in Nat
  BY SizesAreNatural DEF Rect, Start, Size
<1>2. Start(a, ax) + Size(a, ax) <= Start(c0, ax) + Size(c0, ax) /\ Start(c1, ax) <= Start(b, ax)
  BY InsideFacts
<1>3. Start(a, ax) + Size(a, ax) + InnerGap <= Start(b, ax)
  BY <1>1, <1>2, SMT
<1> QED
  BY <1>3 DEF Apart, Start, Size, SplitDirection

\* Two leaves lie on different sides of the split where their ways part.
LEMMA LeavesApart ==
    ASSUME NEW t, IsTree(t), t # EmptyTree, NEW r \in Rect, NEW slot, slot = Slots(t, <<>>, r),
           Roomy(t, r, 0), NEW p \in Leaves(t), NEW q \in Leaves(t), p # q
    PROVE  Apart(slot[p], slot[q])
<1>1. PICK s \in DOMAIN t.split, b \in {0, 1} :
        /\ p \in Below(t, Append(s, b)) /\ q \in Below(t, Append(s, 1 - b))
        /\ Append(s, b) \in Nodes(t) /\ Append(s, 1 - b) \in Nodes(t)
  BY ForkOfLeaves
<1> DEFINE c0 == slot[Append(s, 0)]
           c1 == slot[Append(s, 1)]
           ax == t.split[s].dir
<1>2. slot \in [Nodes(t) -> Rect] /\ p \in Nodes(t) /\ q \in Nodes(t) /\ s \in Nodes(t)
  BY WholeTree DEF Nodes
<1>3. Inside(slot[p], slot[Append(s, b)]) /\ Inside(slot[q], slot[Append(s, 1 - b)])
  BY <1>1, SlotsNest
<1>4. Divides(slot[s], ax, c0, c1) /\ ax \in SplitDirection
  <2>1. 0 \in Nat
    OBVIOUS
  <2> QED
    BY <2>1, RoomyNodes, NodeFacts DEF Split
<1>5. CASE b = 0
  <2>1. 1 - b = 1
    BY <1>5
  <2>2. c0 \in Rect /\ c1 \in Rect /\ slot[p] \in Rect /\ slot[q] \in Rect /\ slot[s] \in Rect
    BY <1>1, <1>2, <1>5, <2>1
  <2>3. Inside(slot[p], c0) /\ Inside(slot[q], c1)
    BY <1>3, <1>5, <2>1
  <2> HIDE DEF c0, c1
  <2> QED
    BY <1>4, <2>2, <2>3, DividesInside, ApartFacts
<1>6. CASE b = 1
  <2>1. 1 - b = 0
    BY <1>6
  <2>2. c0 \in Rect /\ c1 \in Rect /\ slot[p] \in Rect /\ slot[q] \in Rect /\ slot[s] \in Rect
    BY <1>1, <1>2, <1>6, <2>1
  <2>3. Inside(slot[p], c1) /\ Inside(slot[q], c0)
    BY <1>3, <1>6, <2>1
  <2> HIDE DEF c0, c1
  <2> QED
    BY <1>4, <2>2, <2>3, DividesInside, ApartFacts
<1> QED
  BY <1>5, <1>6

LEMMA AreaIsRect == ASSUME NEW a \in Areas PROVE a \in Rect
BY SizesAreNatural DEF Rect

\* It implies that tiles are apart and inside the area.
LEMMA TreeInvApart == TreeInv => TilesAreApart
<1> SUFFICES ASSUME TreeInv, \A p \in Leaves(tree) : /\ Slots(tree, <<>>, area)[p].width > 0
                                                     /\ Slots(tree, <<>>, area)[p].height > 0,
                    NEW p \in Leaves(tree)
             PROVE  /\ Inside(Slots(tree, <<>>, area)[p], area)
                    /\ \A q \in Leaves(tree) \ {p} : Apart(Slots(tree, <<>>, area)[p], Slots(tree, <<>>, area)[q])
  BY DEF TilesAreApart, NoneSqueezed, Calculate
<1> DEFINE slot == Slots(tree, <<>>, area)
<1>1. IsTree(tree) /\ area \in Rect
  BY AreaIsRect DEF TreeInv
<1>2. tree # EmptyTree
  BY EmptyIsTree
<1>3. Roomy(tree, area, 0)
  BY DEF Roomy, Size, SplitDirection
<1>4. <<>> \in Nodes(tree) /\ slot[<<>>] = area /\ Below(tree, <<>>) = Nodes(tree) /\ p \in Nodes(tree)
  <2>1. p \in Nodes(tree)
    BY DEF Nodes
  <2>2. PICK f : f = slot
    OBVIOUS
  <2>3. <<>> \in Nodes(tree) /\ f[<<>>] = area /\ Below(tree, <<>>) = Nodes(tree)
    BY <1>1, <1>2, <2>2, WholeTree
  <2> QED
    BY <2>1, <2>2, <2>3
<1>5. Inside(slot[p], area)
  BY <1>1, <1>2, <1>3, <1>4, SlotsNest
<1>6. \A q \in Leaves(tree) \ {p} : Apart(slot[p], slot[q])
  BY <1>1, <1>2, <1>3, LeavesApart
<1> QED
  BY <1>5, <1>6

(* ------------------------------- making room ------------------------------ *)

Larger(a, b) == \A ax \in SplitDirection : Size(b, ax) <= Size(a, ax)

LEMMA LargerItself ==
    ASSUME NEW a \in Rect
    PROVE  Larger(a, a)
<1>1. \A ax \in SplitDirection : Size(a, ax) \in Nat
  BY DEF Rect, Size
<1>2. \A n \in Nat : n <= n
  BY SMT
<1> QED
  BY <1>1, <1>2 DEF Larger

LEMMA LargerFits ==
    ASSUME NEW a \in Rect, NEW b \in Rect, Larger(a, b), Fits(b)
    PROVE  Fits(a)
<1>1. FloorWidth \in Nat /\ FloorHeight \in Nat
  BY SizesAreNatural
<1>2. b.width <= a.width /\ b.height <= a.height
  BY DEF Larger, Size, SplitDirection
<1> QED
  BY <1>1, <1>2, SMT DEF Fits, Rect

LEMMA UsableGrows ==
    ASSUME NEW a \in Rect, NEW b \in Rect, Larger(a, b), NEW ax \in SplitDirection
    PROVE  Usable(b, ax) \in Nat /\ Usable(a, ax) \in Nat /\ Usable(b, ax) <= Usable(a, ax)
<1>1. InnerGap \in Nat /\ Size(a, ax) \in Nat /\ Size(b, ax) \in Nat /\ Size(b, ax) <= Size(a, ax)
  BY SizesAreNatural DEF Rect, Size, Larger
<1> QED
  BY <1>1, SMT DEF Usable

\* A larger slot, and a ratio in its favour, make a child no smaller.
LEMMA SubdivideGrows ==
    ASSUME NEW a \in Rect, NEW b \in Rect, Larger(a, b), NEW s \in Split, NEW z \in Split, s.dir = z.dir,
           NEW side \in {0, 1}, side = 0 => s.ratio <= z.ratio, side = 1 => z.ratio <= s.ratio,
           NEW c, c = Subdivide(z, a)[side + 1], NEW e, e = Subdivide(s, b)[side + 1]
    PROVE  c \in Rect /\ e \in Rect /\ Larger(c, e)
<1> DEFINE ax == s.dir
<1>1. /\ c \in Rect
      /\ \A o \in SplitDirection \ {ax} : Size(c, o) = Size(a, o)
      /\ side = 0 => Size(c, ax) = First(z, a)
      /\ side = 1 => Size(c, ax) = Usable(a, ax) - First(z, a)
  BY SubdivideFacts
<1>2. /\ e \in Rect
      /\ \A o \in SplitDirection \ {ax} : Size(e, o) = Size(b, o)
      /\ side = 0 => Size(e, ax) = First(s, b)
      /\ side = 1 => Size(e, ax) = Usable(b, ax) - First(s, b)
  BY SubdivideFacts
<1>3. ax \in SplitDirection /\ s.ratio \in Ratio /\ z.ratio \in Ratio
  BY DEF Split
<1>4. /\ Usable(b, ax) \in Nat /\ Usable(a, ax) \in Nat /\ Usable(b, ax) <= Usable(a, ax)
  BY <1>3, UsableGrows
<1>5. First(z, a) = (Usable(a, ax) * z.ratio) \div Unit /\ First(s, b) = (Usable(b, ax) * s.ratio) \div Unit
  BY DEF First
<1>6. Size(e, ax) <= Size(c, ax)
  <2>1. CASE side = 0
    BY <1>1, <1>2, <1>3, <1>4, <1>5, <2>1, FirstGrows
  <2>2. CASE side = 1
    BY <1>1, <1>2, <1>3, <1>4, <1>5, <2>2, SecondGrows
  <2> QED
    BY <2>1, <2>2
<1>7. \A o \in SplitDirection : Size(e, o) <= Size(c, o)
  <2>1. \A o \in SplitDirection \ {ax} : Size(b, o) <= Size(a, o)
    BY DEF Larger
  <2> HIDE DEF ax
  <2>2. ASSUME NEW o \in SplitDirection PROVE Size(e, o) <= Size(c, o)
    <3>1. CASE o = ax
      BY <1>6, <3>1
    <3>2. CASE o # ax
      BY <1>1, <1>2, <2>1, <3>2
    <3> QED
      BY <3>1, <3>2
  <2> QED
    BY <2>2
<1> QED
  BY <1>1, <1>2, <1>7 DEF Larger

LaysOut(slot, t, top, r) ==
    /\ slot \in [Below(t, top) -> Rect] /\ slot[top] = r
    /\ \A p \in Below(t, top) \cap DOMAIN t.split, b \in {0, 1} :
         slot[Append(p, b)] = Subdivide(t.split[p], slot[p])[b + 1]

LEMMA SlotsLayOut ==
    ASSUME NEW t, IsTree(t), NEW top \in Nodes(t), NEW r \in Rect
    PROVE  LaysOut(Slots(t, top, r), t, top, r)
<1>1. PICK slot : slot = Slots(t, top, r)
  OBVIOUS
<1>2. LaysOut(slot, t, top, r)
  BY <1>1, SlotsAre DEF LaysOut
<1> QED
  BY <1>1, <1>2

\* Two trees that hang together alike below a node
SameBelow(t, u, top) ==
    /\ IsTree(t) /\ IsTree(u) /\ top \in Nodes(t) /\ top \in Nodes(u)
    /\ Below(u, top) = Below(t, top)
    /\ \A p \in Below(t, top) \cap DOMAIN t.split : p \in DOMAIN u.split /\ u.split[p] = t.split[p]

\* Larger slots and the same splits give larger slots below.
LEMMA SlotsGrow ==
    ASSUME NEW t, NEW u, NEW top, SameBelow(t, u, top), NEW a \in Rect, NEW b \in Rect, Larger(a, b),
           NEW q \in Below(t, top)
    PROVE  /\ Slots(u, top, a)[q] \in Rect /\ Slots(t, top, b)[q] \in Rect
           /\ Larger(Slots(u, top, a)[q], Slots(t, top, b)[q])
<1>1. PICK f : f = Slots(u, top, a)
  OBVIOUS
<1>2. PICK g : g = Slots(t, top, b)
  OBVIOUS
<1>3. /\ IsTree(t) /\ IsTree(u) /\ top \in Nodes(t) /\ top \in Nodes(u)
      /\ Below(u, top) = Below(t, top)
      /\ \A p \in Below(t, top) \cap DOMAIN t.split : p \in DOMAIN u.split /\ u.split[p] = t.split[p]
  BY DEF SameBelow
<1>4. /\ f \in [Below(t, top) -> Rect] /\ f[top] = a
      /\ \A p \in Below(t, top) \cap DOMAIN u.split, b1 \in {0, 1} :
           f[Append(p, b1)] = Subdivide(u.split[p], f[p])[b1 + 1]
  <2>1. LaysOut(f, u, top, a)
    BY <1>1, <1>3, SlotsLayOut
  <2> QED
    BY <1>3, <2>1 DEF LaysOut
<1>5. /\ g \in [Below(t, top) -> Rect] /\ g[top] = b
      /\ \A p \in Below(t, top) \cap DOMAIN t.split, b1 \in {0, 1} :
           g[Append(p, b1)] = Subdivide(t.split[p], g[p])[b1 + 1]
  <2>1. LaysOut(g, t, top, b)
    BY <1>2, <1>3, SlotsLayOut
  <2> QED
    BY <2>1 DEF LaysOut
<1> DEFINE T == {p \in Below(t, top) : Larger(f[p], g[p])}
<1>6. top \in T
  BY <1>3, <1>4, <1>5, BelowFacts
<1>7. ASSUME NEW p \in Below(t, top) \cap DOMAIN t.split, NEW side \in {0, 1}, p \in T
      PROVE  Append(p, side) \in T
  <2>1. Append(p, side) \in Below(t, top)
    BY <1>3, BelowFacts
  <2>2. f[Append(p, side)] = Subdivide(t.split[p], f[p])[side + 1]
    BY <1>3, <1>4
  <2>3. g[Append(p, side)] = Subdivide(t.split[p], g[p])[side + 1]
    BY <1>5
  <2>4. f[p] \in Rect /\ g[p] \in Rect /\ Larger(f[p], g[p]) /\ t.split[p] \in Split
    BY <1>3, <1>4, <1>5, <1>7, NodeFacts
  <2>5. t.split[p].ratio <= t.split[p].ratio
    <3>1. t.split[p].ratio \in Nat
      BY <2>4, RatioFacts DEF Split
    <3> QED
      BY <3>1, SMT
  <2>6. Larger(f[Append(p, side)], g[Append(p, side)])
    BY <2>2, <2>3, <2>4, <2>5, SubdivideGrows
  <2> QED
    BY <2>1, <2>6
<1> HIDE DEF T
<1>8. Below(t, top) \subseteq T
  BY <1>3, <1>6, <1>7, Downwards
<1> QED
  BY <1>1, <1>2, <1>4, <1>5, <1>8 DEF T

LaidOut(slot, t, r) ==
    /\ <<>> \in Nodes(t) /\ Below(t, <<>>) = Nodes(t) /\ slot \in [Nodes(t) -> Rect]
    /\ slot[<<>>] = r
    /\ \A p \in DOMAIN t.split, b \in {0, 1} :
         Append(p, b) \in Nodes(t) /\ slot[Append(p, b)] = Subdivide(t.split[p], slot[p])[b + 1]

LEMMA TreeLaidOut ==
    ASSUME NEW t, IsTree(t), t # EmptyTree, NEW r \in Rect
    PROVE  LaidOut(Slots(t, <<>>, r), t, r)
<1>1. PICK slot : slot = Slots(t, <<>>, r)
  OBVIOUS
<1>2. LaidOut(slot, t, r)
  BY <1>1, WholeTree DEF LaidOut
<1> QED
  BY <1>1, <1>2

\* A slot depends on the splits on the way to it.
LEMMA SlotsSame ==
    ASSUME NEW t, IsTree(t), t # EmptyTree, NEW u, IsTree(u), u # EmptyTree, NEW r \in Rect,
           NEW q \in Nodes(t),
           \A p \in DOMAIN t.split : IsPrefix(p, q) /\ p # q => p \in DOMAIN u.split /\ u.split[p] = t.split[p]
    PROVE  q \in Nodes(u) /\ Slots(u, <<>>, r)[q] = Slots(t, <<>>, r)[q]
<1>1. PICK f : f = Slots(u, <<>>, r)
  OBVIOUS
<1>2. PICK g : g = Slots(t, <<>>, r)
  OBVIOUS
<1>3. /\ <<>> \in Nodes(u) /\ f[<<>>] = r
      /\ \A p \in DOMAIN u.split, b \in {0, 1} :
           Append(p, b) \in Nodes(u) /\ f[Append(p, b)] = Subdivide(u.split[p], f[p])[b + 1]
  <2>1. LaidOut(f, u, r)
    BY <1>1, TreeLaidOut
  <2> QED
    BY <2>1 DEF LaidOut
<1>4. /\ <<>> \in Nodes(t) /\ g[<<>>] = r /\ Below(t, <<>>) = Nodes(t)
      /\ \A p \in DOMAIN t.split, b \in {0, 1} :
           Append(p, b) \in Nodes(t) /\ g[Append(p, b)] = Subdivide(t.split[p], g[p])[b + 1]
  BY <1>2, TreeLaidOut DEF LaidOut
<1> DEFINE T == {p \in Nodes(t) : IsPrefix(p, q) => p \in Nodes(u) /\ f[p] = g[p]}
<1>5. <<>> \in T
  BY <1>3, <1>4
<1>6. ASSUME NEW p \in DOMAIN t.split, NEW b \in {0, 1}, p \in T PROVE Append(p, b) \in T
  <2>1. SUFFICES ASSUME IsPrefix(Append(p, b), q) PROVE Append(p, b) \in Nodes(u) /\ f[Append(p, b)] = g[Append(p, b)]
    BY <1>4
  <2>2. p \in Path /\ q \in Path
    BY NodeFacts DEF Nodes
  <2>3. IsPrefix(p, q) /\ p # q
    <3>1. IsPrefix(p, q)
      BY <2>1, <2>2, PrefixOfChild
    <3>2. Len(Append(p, b)) = Len(p) + 1 /\ Len(Append(p, b)) <= Len(q) /\ Len(p) \in Nat /\ Len(q) \in Nat
      BY <2>1, <2>2, ChildFacts, PathFacts, PrefixAt
    <3>3. Len(p) # Len(q)
      BY <3>2, SMT
    <3> QED
      BY <3>1, <3>3
  <2>4. p \in DOMAIN u.split /\ u.split[p] = t.split[p] /\ f[p] = g[p]
    BY <1>6, <2>3
  <2> QED
    BY <1>3, <1>4, <2>4
<1> HIDE DEF T
<1>7. Nodes(t) \subseteq T
  BY <1>4, <1>5, <1>6, Downwards
<1>8. IsPrefix(q, q)
  BY NodeFacts, PrefixOfItself
<1> QED
  BY <1>1, <1>2, <1>7, <1>8 DEF T

\* The way to a bears whatever the plan does to it: no slot on it shrinks.
LEMMA WayGrows ==
    ASSUME NEW t, IsTree(t), t # EmptyTree, NEW r \in Rect, NEW a \in Leaves(t), NEW k,
           NEW u, u = Plan(t, a, k), NEW q \in Nodes(t), IsPrefix(q, a)
    PROVE  /\ Slots(u, <<>>, r)[q] \in Rect /\ Slots(t, <<>>, r)[q] \in Rect
           /\ Larger(Slots(u, <<>>, r)[q], Slots(t, <<>>, r)[q])
<1>1. PICK f : f = Slots(u, <<>>, r)
  OBVIOUS
<1>2. PICK g : g = Slots(t, <<>>, r)
  OBVIOUS
<1>3. /\ IsTree(u) /\ Leaves(u) = Leaves(t) /\ DOMAIN u.split = DOMAIN t.split
      /\ \A p \in DOMAIN t.split :
           /\ u.split[p].dir = t.split[p].dir
           /\ u.split[p].ratio = IF IsPrefix(p, a) /\ Len(a) - Len(p) <= k
                                 THEN Reclaimed(t, a, p) ELSE t.split[p].ratio
  BY PlanTree
<1>4. u # EmptyTree /\ Nodes(u) = Nodes(t) /\ a \in Path
  <2>1. Leaves(EmptyTree) = {}
    BY EmptyIsTree
  <2>2. Nodes(t) \subseteq Path
    BY NodeFacts
  <2> QED
    BY <1>3, <2>1, <2>2 DEF Nodes
<1>5. /\ f \in [Nodes(t) -> Rect] /\ f[<<>>] = r
      /\ \A p \in DOMAIN t.split, b \in {0, 1} : f[Append(p, b)] = Subdivide(u.split[p], f[p])[b + 1]
  <2>1. LaidOut(f, u, r)
    BY <1>1, <1>3, <1>4, TreeLaidOut
  <2> QED
    BY <1>3, <1>4, <2>1 DEF LaidOut
<1>6. /\ <<>> \in Nodes(t) /\ Below(t, <<>>) = Nodes(t) /\ g \in [Nodes(t) -> Rect] /\ g[<<>>] = r
      /\ \A p \in DOMAIN t.split, b \in {0, 1} :
           Append(p, b) \in Nodes(t) /\ g[Append(p, b)] = Subdivide(t.split[p], g[p])[b + 1]
  BY <1>2, TreeLaidOut DEF LaidOut
<1> DEFINE T == {p \in Nodes(t) : IsPrefix(p, a) => Larger(f[p], g[p])}
<1>7. <<>> \in T
  BY <1>5, <1>6, LargerItself
<1>8. ASSUME NEW p \in DOMAIN t.split, NEW b \in {0, 1}, p \in T PROVE Append(p, b) \in T
  <2>1. SUFFICES ASSUME IsPrefix(Append(p, b), a) PROVE Larger(f[Append(p, b)], g[Append(p, b)])
    BY <1>6
  <2>2. p \in Path /\ p \in Nodes(t)
    BY NodeFacts DEF Nodes
  <2>3. IsPrefix(p, a) /\ a[Len(p) + 1] = b
    <3>1. IsPrefix(p, a)
      BY <1>4, <2>1, <2>2, PrefixOfChild
    <3>2. /\ Len(Append(p, b)) = Len(p) + 1 /\ Append(p, b)[Len(p) + 1] = b /\ Len(p) \in Nat
          /\ Append(p, b) \in Path
      BY <2>2, ChildFacts, PathFacts
    <3>3. \A i \in 1..Len(Append(p, b)) : Append(p, b)[i] = a[i]
      BY <1>4, <2>1, <3>2, PrefixAt
    <3>4. Len(p) + 1 \in 1..(Len(p) + 1)
      BY <3>2, SMT
    <3> QED
      BY <3>1, <3>2, <3>3, <3>4
  <2>4. Larger(f[p], g[p]) /\ f[p] \in Rect /\ g[p] \in Rect
    BY <1>5, <1>6, <1>8, <2>2, <2>3
  <2>5. t.split[p] \in Split /\ u.split[p] \in Split /\ u.split[p].dir = t.split[p].dir
    BY <1>3, NodeFacts
  <2>6. /\ b = 0 => t.split[p].ratio <= u.split[p].ratio
        /\ b = 1 => u.split[p].ratio <= t.split[p].ratio
    <3>1. t.split[p].ratio \in Nat /\ Reclaimed(t, a, p) \in Nat
      BY <2>5, ReclaimedFacts, RatioFacts DEF Split
    <3>2. t.split[p].ratio <= t.split[p].ratio
      BY <3>1, SMT
    <3>3. IF b = 0 THEN Reclaimed(t, a, p) >= t.split[p].ratio ELSE Reclaimed(t, a, p) <= t.split[p].ratio
      BY <2>3, ReclaimedFacts
    <3>4. u.split[p].ratio = t.split[p].ratio \/ u.split[p].ratio = Reclaimed(t, a, p)
      BY <1>3
    <3>5. b = 0 => t.split[p].ratio <= Reclaimed(t, a, p)
      BY <3>1, <3>3, SMT
    <3> QED
      BY <3>2, <3>3, <3>4, <3>5
  <2>7. /\ f[Append(p, b)] = Subdivide(u.split[p], f[p])[b + 1]
        /\ g[Append(p, b)] = Subdivide(t.split[p], g[p])[b + 1]
    BY <1>5, <1>6
  <2> QED
    BY <2>4, <2>5, <2>6, <2>7, SubdivideGrows
<1> HIDE DEF T
<1>9. Nodes(t) \subseteq T
  BY <1>6, <1>7, <1>8, Downwards
<1> QED
  BY <1>1, <1>2, <1>5, <1>6, <1>9 DEF T

LEMMA WithRatioTree ==
    ASSUME NEW t, IsTree(t), NEW p \in DOMAIN t.split, NEW x \in Ratio, NEW u, u = WithRatio(t, p, x)
    PROVE  /\ IsTree(u) /\ Leaves(u) = Leaves(t) /\ DOMAIN u.split = DOMAIN t.split
           /\ \A q \in DOMAIN t.split \ {p} : u.split[q] = t.split[q]
           /\ u.split[p].dir = t.split[p].dir /\ u.split[p].ratio = x /\ u.split[p] \in Split
<1> DEFINE g == [t.split EXCEPT ![p].ratio = x]
<1>1. u = [t EXCEPT !.split = g]
  BY DEF WithRatio
<1>2. t.split \in [DOMAIN t.split -> [dir : SplitDirection, ratio : Ratio]]
  BY DEF IsTree, Split
<1>3. /\ g \in [DOMAIN t.split -> Split] /\ \A q \in DOMAIN t.split \ {p} : g[q] = t.split[q]
      /\ g[p].dir = t.split[p].dir /\ g[p].ratio = x /\ g[p] \in Split
  BY <1>2 DEF Split
<1> HIDE DEF g
<1>4. /\ IsTree(u) /\ u.split = g /\ DOMAIN u.split = DOMAIN t.split /\ Leaves(u) = Leaves(t)
  BY <1>1, <1>3, SplitsChanged
<1> QED
  BY <1>3, <1>4

\* A leaf that was of the minimum is of the minimum after a plan for another.
LEMMA PlanSpares ==
    ASSUME IsTree(tree), tree # EmptyTree, area \in Rect, NEW a \in Leaves(tree), NEW k,
           NEW u, u = Plan(tree, a, k), NEW q \in Leaves(tree), q # a,
           Fits(Slots(tree, <<>>, area)[q])
    PROVE  Fits(Slots(u, <<>>, area)[q])
<1>1. PICK f : f = Slots(u, <<>>, area)
  OBVIOUS
<1>2. PICK g : g = Slots(tree, <<>>, area)
  OBVIOUS
<1>3. /\ IsTree(u) /\ Leaves(u) = Leaves(tree) /\ DOMAIN u.split = DOMAIN tree.split
      /\ \A p \in DOMAIN tree.split :
           /\ u.split[p].dir = tree.split[p].dir
           /\ u.split[p].ratio = IF IsPrefix(p, a) /\ Len(a) - Len(p) <= k
                                 THEN Reclaimed(tree, a, p) ELSE tree.split[p].ratio
  BY PlanTree
<1>4. u # EmptyTree /\ Nodes(u) = Nodes(tree) /\ a \in Path
  <2>1. Leaves(EmptyTree) = {}
    BY EmptyIsTree
  <2>2. Nodes(tree) \subseteq Path
    BY NodeFacts
  <2> QED
    BY <1>3, <2>1, <2>2 DEF Nodes
<1>5. PICK s \in DOMAIN tree.split, b \in {0, 1} :
        /\ q \in Below(tree, Append(s, 1 - b)) /\ a \in Below(tree, s) /\ q \in Below(tree, s)
        /\ Append(s, 1 - b) \in Nodes(tree) /\ s \in Nodes(tree) /\ a[Len(s) + 1] = b
        /\ a \in Below(tree, Append(s, b)) /\ Append(s, b) \in Nodes(tree)
  BY ForkOfLeaves
<1> DEFINE other == Append(s, 1 - b)
<1>6. 1 - b \in {0, 1} /\ 1 - b # b
  BY SMT
<1>7. s \in Path /\ IsPrefix(s, a) /\ other \in Path /\ Append(s, b) \in Path
  BY <1>5, NodeFacts DEF Below
\* Below the other branch the plan changes nothing.
<1>8. \A p \in Below(tree, other) \cap DOMAIN tree.split : u.split[p] = tree.split[p]
  <2>1. SUFFICES ASSUME NEW p \in DOMAIN tree.split, IsPrefix(other, p) PROVE u.split[p] = tree.split[p]
    BY DEF Below
  <2>2. p \in Path
    BY NodeFacts DEF Nodes
  <2>3. ~IsPrefix(p, a)
    <3>1. SUFFICES ASSUME IsPrefix(p, a) PROVE FALSE
      OBVIOUS
    <3>2. IsPrefix(other, a)
      BY <1>4, <1>7, <2>1, <2>2, <3>1, PrefixOfPrefix
    <3>3. /\ Len(other) = Len(s) + 1 /\ other[Len(s) + 1] = 1 - b /\ Len(s) \in Nat
      BY <1>6, <1>7, ChildFacts, PathFacts
    <3>4. \A i \in 1..Len(other) : other[i] = a[i]
      BY <1>4, <1>7, <3>2, PrefixAt
    <3>5. Len(s) + 1 \in 1..Len(other)
      BY <3>3, SMT
    <3> QED
      BY <1>5, <1>6, <3>3, <3>4, <3>5
  <2>4. u.split[p].dir = tree.split[p].dir /\ u.split[p].ratio = tree.split[p].ratio
    BY <1>3, <2>3
  <2>5. u.split[p] \in [dir : SplitDirection, ratio : Ratio] /\ tree.split[p] \in [dir : SplitDirection, ratio : Ratio]
    BY <1>3, NodeFacts DEF Split
  <2> QED
    BY <2>4, <2>5
<1>9. Below(u, other) = Below(tree, other)
  BY <1>4 DEF Below
<1>10. SameBelow(tree, u, other)
  BY <1>3, <1>4, <1>5, <1>8, <1>9 DEF SameBelow
<1>11. /\ f \in [Nodes(tree) -> Rect] /\ f[other] = Subdivide(u.split[s], f[s])[(1 - b) + 1]
  <2>1. LaidOut(f, u, area)
    BY <1>1, <1>3, <1>4, TreeLaidOut
  <2> QED
    BY <1>3, <1>4, <1>6, <2>1 DEF LaidOut
<1>12. /\ g \in [Nodes(tree) -> Rect] /\ g[other] = Subdivide(tree.split[s], g[s])[(1 - b) + 1]
       /\ <<>> \in Nodes(tree) /\ Below(tree, <<>>) = Nodes(tree)
  BY <1>2, <1>6, TreeLaidOut DEF LaidOut
<1>13. Larger(f[s], g[s]) /\ f[s] \in Rect /\ g[s] \in Rect
  BY <1>1, <1>2, <1>5, <1>7, WayGrows
<1>14. f[q] = Slots(u, other, f[other])[q]
  <2>1. <<>> \in Nodes(u) /\ Below(u, <<>>) = Nodes(u)
    BY <1>3, <1>4, TreeLaidOut DEF LaidOut
  <2>2. other \in Below(u, <<>>) /\ q \in Below(u, other)
    BY <1>4, <1>5, <1>9, <2>1
  <2> QED
    BY <1>1, <1>3, <2>1, <2>2, SlotsBelow
<1>15. g[q] = Slots(tree, other, g[other])[q]
  <2>1. other \in Below(tree, <<>>) /\ q \in Below(tree, other)
    BY <1>5, <1>12
  <2> QED
    BY <1>2, <1>12, <2>1, SlotsBelow
<1>16. /\ tree.split[s] \in Split /\ u.split[s] \in Split /\ u.split[s].dir = tree.split[s].dir
       /\ \A n \in Ratio : n <= n
  <2>1. \A n \in Nat : n <= n
    BY SMT
  <2> QED
    BY <1>3, <2>1, NodeFacts, RatioFacts
<1>17. CASE u.split[s].ratio = tree.split[s].ratio
  <2>1. u.split[s].ratio <= tree.split[s].ratio /\ tree.split[s].ratio <= u.split[s].ratio
    BY <1>16, <1>17 DEF Split
  <2>2. Larger(f[other], g[other]) /\ f[other] \in Rect /\ g[other] \in Rect
    BY <1>6, <1>11, <1>12, <1>13, <1>16, <2>1, SubdivideGrows
  <2>3. /\ Slots(u, other, f[other])[q] \in Rect /\ Slots(tree, other, g[other])[q] \in Rect
        /\ Larger(Slots(u, other, f[other])[q], Slots(tree, other, g[other])[q])
    BY <1>5, <1>10, <2>2, SlotsGrow
  <2> QED
    BY <1>1, <1>2, <1>14, <1>15, <2>3, LargerFits
<1>18. CASE u.split[s].ratio # tree.split[s].ratio
  <2> DEFINE x == Reclaimed(tree, a, s)
  <2>1. u.split[s].ratio = x
    BY <1>3, <1>18
  <2>2. x \in Ratio /\ Bears(tree, a, s, x)
    BY <1>18, <2>1, ReclaimedFacts
  <2> HIDE DEF x
  <2>3. PICK v : v = WithRatio(tree, s, x)
    OBVIOUS
  <2>4. /\ IsTree(v) /\ Leaves(v) = Leaves(tree) /\ DOMAIN v.split = DOMAIN tree.split
        /\ \A p \in DOMAIN tree.split \ {s} : v.split[p] = tree.split[p]
        /\ v.split[s].dir = tree.split[s].dir /\ v.split[s].ratio = x /\ v.split[s] \in Split
    BY <2>2, <2>3, WithRatioTree
  <2>5. v # EmptyTree /\ Nodes(v) = Nodes(tree)
    <3>1. Leaves(EmptyTree) = {}
      BY EmptyIsTree
    <3> QED
      BY <2>4, <3>1 DEF Nodes
  <2>6. PICK h : h = Slots(v, <<>>, area)
    OBVIOUS
  <2>7. h[s] = g[s]
    BY <1>2, <1>5, <2>4, <2>5, <2>6, SlotsSame
  <2>8. h[other] = Subdivide(v.split[s], h[s])[(1 - b) + 1] /\ h[other] \in Rect
    <3>1. LaidOut(h, v, area)
      BY <2>4, <2>5, <2>6, TreeLaidOut
    <3> QED
      BY <1>5, <1>6, <2>4, <2>5, <3>1 DEF LaidOut
  <2>9. u.split[s].ratio <= v.split[s].ratio /\ v.split[s].ratio <= u.split[s].ratio
    BY <1>16, <2>1, <2>2, <2>4
  <2>10. Larger(f[other], h[other]) /\ f[other] \in Rect
    BY <1>6, <1>11, <1>13, <1>16, <2>4, <2>7, <2>8, <2>9, SubdivideGrows
  <2>11. Fits(Slots(tree, other, h[other])[q])
    <3>1. SubtreeFits(tree, other, h[other])
      BY <1>5, <2>2, <2>3, <2>6 DEF Bears
    <3>2. IsPrefix(other, q)
      BY <1>5 DEF Below
    <3> QED
      BY <3>1, <3>2 DEF SubtreeFits
  <2>12. /\ Slots(u, other, f[other])[q] \in Rect /\ Slots(tree, other, h[other])[q] \in Rect
         /\ Larger(Slots(u, other, f[other])[q], Slots(tree, other, h[other])[q])
    BY <1>5, <1>10, <2>8, <2>10, SlotsGrow
  <2> QED
    BY <1>1, <1>14, <2>11, <2>12, LargerFits
<1> QED
  BY <1>17, <1>18

\* Laid out on r, u gives a's two children the halves of its slot in t, and
\* every other node the slot it has in t.
HalvesSlot(u, t, a, d, r) ==
    /\ \A q \in Nodes(t) : Slots(u, <<>>, r)[q] = Slots(t, <<>>, r)[q]
    /\ \A b \in {0, 1} : Slots(u, <<>>, r)[Append(a, b)] =
         Subdivide([dir |-> d, ratio |-> Half], Slots(t, <<>>, r)[a])[b + 1]

\* SpliceIn divides the slot of its leaf and no other.
LEMMA SplicedSlots ==
    ASSUME NEW t, IsTree(t), NEW a \in Leaves(t), NEW w, NEW d \in SplitDirection,
           NEW u, IsSpliced(u, t, a, w, d), NEW r \in Rect
    PROVE  HalvesSlot(u, t, a, d, r)
<1>1. /\ IsTree(u) /\ DOMAIN u.split = DOMAIN t.split \cup {a}
      /\ Leaves(u) = (Leaves(t) \ {a}) \cup {Append(a, 0), Append(a, 1)}
      /\ u.split[a] = [dir |-> d, ratio |-> Half]
      /\ \A p \in DOMAIN t.split : u.split[p] = t.split[p]
  BY DEF IsSpliced
<1>2. t # EmptyTree /\ u # EmptyTree
  <2>1. Leaves(EmptyTree) = {}
    BY EmptyIsTree
  <2> QED
    BY <1>1, <2>1
<1>3. ASSUME NEW q \in Nodes(t) PROVE Slots(u, <<>>, r)[q] = Slots(t, <<>>, r)[q]
  BY <1>1, <1>2, SlotsSame
<1>4. LaidOut(Slots(u, <<>>, r), u, r)
  BY <1>1, <1>2, TreeLaidOut
<1>5. ASSUME NEW b \in {0, 1}
      PROVE  Slots(u, <<>>, r)[Append(a, b)] =
               Subdivide([dir |-> d, ratio |-> Half], Slots(t, <<>>, r)[a])[b + 1]
  <2>1. Slots(u, <<>>, r)[Append(a, b)] = Subdivide(u.split[a], Slots(u, <<>>, r)[a])[b + 1]
    BY <1>1, <1>4 DEF LaidOut
  <2>2. a \in Nodes(t)
    BY DEF Nodes
  <2> QED
    BY <1>1, <1>3, <2>1, <2>2
<1> QED
  BY <1>3, <1>5 DEF HalvesSlot

\* Nor by the split that follows it, which halves the anchor legally.
LEMMA InsertSpares ==
    ASSUME TreeInv, tree # EmptyTree, NEW w, Insert(w), NEW p \in Leaves(tree')
    PROVE  \/ Fits(Slots(tree', <<>>, area')[p])
           \/ /\ tree'.leaf[p] # w
              /\ ~Fits(Slots(tree, <<>>, area)[LeafOf(tree, tree'.leaf[p])])
<1>1. CanInsert(w) /\ tree' = Inserted(w).tree /\ area' = area
  BY DEF Insert
<1>2. /\ IsTree(tree) /\ anchor \in Leaves(tree) \cup {None} /\ area \in Rect
      /\ w \in Window /\ w \notin Windows(tree)
  BY <1>1, AreaIsRect DEF TreeInv, CanInsert
<1>3. PICK a \in Leaves(tree), k \in Plans(tree, AnchorLeaf) :
        LET plan == Plan(tree, a, k)
            d == FeasibleSplitDirection(Slots(plan, <<>>, area)[a])
        IN  /\ Inserted(w) = [tree |-> SpliceIn(plan, a, w, d), anchor |-> Append(a, 1)]
            /\ d \in Feasible(Slots(plan, <<>>, area)[a])
  BY <1>1, <1>2, InsertedIs
<1>4. PICK plan : plan = Plan(tree, a, k)
  OBVIOUS
<1>5. PICK rect : rect = Slots(plan, <<>>, area)[a]
  OBVIOUS
<1>6. PICK d : d = FeasibleSplitDirection(rect)
  OBVIOUS
<1>7. tree' = SpliceIn(plan, a, w, d) /\ d \in Feasible(rect)
  BY <1>1, <1>3, <1>4, <1>5, <1>6
<1>8. /\ d \in SplitDirection
      /\ Fits(Subdivide([dir |-> d, ratio |-> Half], rect)[0 + 1])
      /\ Fits(Subdivide([dir |-> d, ratio |-> Half], rect)[1 + 1])
  BY <1>7 DEF Feasible
<1>9. IsTree(plan) /\ plan.leaf = tree.leaf /\ Leaves(plan) = Leaves(tree) /\ Windows(plan) = Windows(tree)
  BY <1>2, <1>4, PlanTree
<1>10. IsSpliced(tree', plan, a, w, d)
  BY <1>2, <1>7, <1>8, <1>9, SpliceInTree
<1>11. /\ \A q \in Nodes(plan) : Slots(tree', <<>>, area)[q] = Slots(plan, <<>>, area)[q]
       /\ \A b \in {0, 1} : Slots(tree', <<>>, area)[Append(a, b)] =
            Subdivide([dir |-> d, ratio |-> Half], rect)[b + 1]
  <2>1. HalvesSlot(tree', plan, a, d, area)
    BY <1>2, <1>8, <1>9, <1>10, SplicedSlots
  <2> QED
    BY <1>5, <2>1 DEF HalvesSlot
<1>12. CASE p \in {Append(a, 0), Append(a, 1)}
  BY <1>1, <1>8, <1>11, <1>12
<1>13. CASE p \notin {Append(a, 0), Append(a, 1)}
  <2>1. p \in Leaves(tree) /\ p # a /\ tree'.leaf[p] = tree.leaf[p]
    BY <1>9, <1>10, <1>13 DEF IsSpliced
  <2>2. LeafOf(tree, tree.leaf[p]) = p /\ tree.leaf[p] # w
    BY <1>2, <2>1, LeafOfLeaf
  <2>3. CASE Fits(Slots(tree, <<>>, area)[p])
    <3>1. Fits(Slots(plan, <<>>, area)[p])
      BY <1>2, <1>4, <2>1, <2>3, PlanSpares
    <3>2. p \in Nodes(plan)
      BY <1>9, <2>1 DEF Nodes
    <3> QED
      BY <1>1, <1>11, <3>1, <3>2
  <2>4. CASE ~Fits(Slots(tree, <<>>, area)[p])
    BY <2>1, <2>2, <2>4
  <2> QED
    BY <2>3, <2>4
<1> QED
  BY <1>12, <1>13

(* -------------------------------- closing -------------------------------- *)

\* Off the slot a closed leaf shared, no slot changes; that one is its
\* sibling's now.
LEMMA CloseKeeps ==
    ASSUME NEW t, IsTree(t), NEW p \in Leaves(t), p # <<>>, NEW r \in Rect, NEW u, u = Without(t, p, r),
           u # EmptyTree, NEW q \in Nodes(t), ~IsPrefix(Parent(p), q) \/ q = Parent(p)
    PROVE  q \in Nodes(u) /\ Slots(u, <<>>, r)[q] = Slots(t, <<>>, r)[q]
<1>1. /\ IsTree(u) /\ DOMAIN u.split = {s \in Path : Demoted(p, s) \in DOMAIN t.split}
      /\ \A s \in DOMAIN u.split : ~IsPrefix(Parent(p), s) => u.split[s] = t.split[s]
  BY WithoutKeeps
<1>2. t # EmptyTree
  BY EmptyIsTree
<1>3. p \in Path /\ q \in Path /\ DOMAIN t.split \subseteq Path
  BY NodeFacts DEF Nodes
<1>4. Parent(p) \in Path
  BY <1>3, ParentFacts
<1>5. ASSUME NEW s \in DOMAIN t.split, IsPrefix(s, q), s # q
      PROVE  s \in DOMAIN u.split /\ u.split[s] = t.split[s]
  <2>1. s \in Path
    BY <1>3
  <2>2. ~IsPrefix(Parent(p), s)
    <3>1. SUFFICES ASSUME IsPrefix(Parent(p), s) PROVE FALSE
      OBVIOUS
    <3>2. IsPrefix(Parent(p), q)
      BY <1>3, <1>4, <1>5, <2>1, <3>1, PrefixOfPrefix
    <3>3. q = Parent(p)
      BY <3>2
    <3>4. Len(s) = Len(q)
      <4>1. Len(s) <= Len(q) /\ Len(q) <= Len(s) /\ Len(s) \in Nat /\ Len(q) \in Nat
        BY <1>3, <1>5, <2>1, <3>1, <3>3, PrefixAt, PathFacts
      <4> QED
        BY <4>1, SMT
    <3> QED
      BY <1>3, <1>5, <2>1, <3>4, SameLengthPrefix
  <2>3. Demoted(p, s) = s
    BY <2>2 DEF Demoted
  <2> QED
    BY <1>1, <2>1, <2>2, <2>3
<1> QED
  BY <1>1, <1>2, <1>5, SlotsSame

LEMMA CloseStays ==
    ASSUME TreeInv, NEW w, RemoveLeaf(w), NEW v \in Windows(tree')
    PROVE  LET slot == Slots(tree, <<>>, area)
               next == Slots(tree', <<>>, area')
               shared == Parent(LeafOf(tree, w))
           IN  IF IsPrefix(shared, LeafOf(tree, v))
                 THEN NoneSqueezed(tree', area') => Inside(next[LeafOf(tree', v)], slot[shared])
                 ELSE next[LeafOf(tree', v)] = slot[LeafOf(tree, v)]
<1> DEFINE p == LeafOf(tree, w)
           q == LeafOf(tree, v)
<1>1. /\ w \in Windows(tree) /\ tree' = Without(tree, p, area) /\ area' = area
  BY DEF RemoveLeaf
<1>2. p \in Leaves(tree) /\ tree.leaf[p] = w /\ IsTree(tree) /\ area \in Rect
  BY <1>1, LeafOfIsThere, AreaIsRect DEF TreeInv
<1>3. p # <<>> /\ tree' # EmptyTree
  <2>1. Windows(EmptyTree) = {}
    BY EmptyIsTree
  <2>2. tree' # EmptyTree
    BY <2>1
  <2> QED
    BY <1>1, <2>2 DEF Without
<1>4. /\ IsTree(tree') /\ Windows(tree') = Windows(tree) \ {w}
      /\ \A s \in Leaves(tree) \ {p} :
           Promoted(p, s) \in Leaves(tree') /\ tree'.leaf[Promoted(p, s)] = tree.leaf[s]
  BY <1>1, <1>2, <1>3, WithoutKeeps
<1>5. q \in Leaves(tree) /\ tree.leaf[q] = v /\ q # p
  BY <1>2, <1>4, LeafOfIsThere
<1>6. Promoted(p, q) \in Leaves(tree') /\ LeafOf(tree', v) = Promoted(p, q)
  <2>1. Promoted(p, q) \in Leaves(tree') /\ tree'.leaf[Promoted(p, q)] = v
    BY <1>4, <1>5
  <2>2. LeafOf(tree', tree'.leaf[Promoted(p, q)]) = Promoted(p, q)
    BY <1>4, <2>1, LeafOfLeaf
  <2> QED
    BY <2>1, <2>2
<1> HIDE DEF p, q
<1>7. p \in Path /\ q \in Path /\ q \in Nodes(tree)
  BY <1>2, <1>5, NodeFacts DEF Nodes
<1>8. Stays(p, q)
  BY <1>2, <1>3, <1>5, LeavesStay DEF IsTree
<1>9. CASE IsPrefix(Parent(p), q)
  <2>1. IsPrefix(Sibling(p), q)
    BY <1>8, <1>9 DEF Stays
  <2>2. IsPrefix(Parent(p), Promoted(p, q))
    BY <1>3, <1>7, <2>1, PromotedFacts
  <2>3. Parent(p) \in Nodes(tree)
    BY <1>2, <1>3, NodeFacts DEF Nodes
  <2>4. Parent(p) \in Nodes(tree') /\ Slots(tree', <<>>, area)[Parent(p)] = Slots(tree, <<>>, area)[Parent(p)]
    BY <1>1, <1>2, <1>3, <2>3, CloseKeeps
  <2>5. ASSUME NoneSqueezed(tree', area')
        PROVE  Inside(Slots(tree', <<>>, area)[Promoted(p, q)], Slots(tree, <<>>, area)[Parent(p)])
    <3>1. Roomy(tree', area, 0)
      BY <1>1, <2>5 DEF NoneSqueezed, Calculate, Roomy, Size, SplitDirection
    <3>2. Promoted(p, q) \in Below(tree', Parent(p))
      BY <1>6, <2>2 DEF Below, Nodes
    <3>3. Inside(Slots(tree', <<>>, area)[Promoted(p, q)], Slots(tree', <<>>, area)[Parent(p)])
      BY <1>2, <1>3, <1>4, <2>4, <3>1, <3>2, SlotsNest
    <3> QED
      BY <2>4, <3>3
  <2> QED
    BY <1>1, <1>6, <1>9, <2>5 DEF p, q
<1>10. CASE ~IsPrefix(Parent(p), q)
  <2>1. ~IsPrefix(Sibling(p), q)
    <3>1. SUFFICES ASSUME IsPrefix(Sibling(p), q) PROVE FALSE
      OBVIOUS
    <3>2. Sibling(p) \in Path /\ IsPrefix(Parent(p), Sibling(p)) /\ Parent(p) \in Path
      BY <1>3, <1>7, SiblingFacts, ParentFacts
    <3> QED
      BY <1>7, <1>10, <3>1, <3>2, PrefixOfPrefix
  <2>2. Promoted(p, q) = q
    BY <2>1 DEF Promoted
  <2>3. Slots(tree', <<>>, area)[q] = Slots(tree, <<>>, area)[q]
    BY <1>1, <1>2, <1>3, <1>7, <1>10, CloseKeeps
  <2> QED
    BY <1>1, <1>6, <1>10, <2>2, <2>3 DEF p, q
<1> QED
  BY <1>9, <1>10

\* Every step keeps what InsertRespectsFloor says.
LEMMA StepSpares ==
    ASSUME TreeInv, [Next]_vars
    PROVE  \A w \in Windows(tree') \ Windows(tree) :
             LET slot == Calculate(tree, area)
                 next == Calculate(tree', area')
             IN  \/ tree = EmptyTree
                 \/ \A p \in Leaves(tree') :
                       \/ Fits(next[p])
                       \/ /\ tree'.leaf[p] # w
                          /\ ~Fits(slot[LeafOf(tree, tree'.leaf[p])])
                 \/ ~Insert(w)
<1> SUFFICES ASSUME tree # EmptyTree, NEW w, Insert(w), NEW p \in Leaves(tree')
             PROVE  \/ Fits(Slots(tree', <<>>, area')[p])
                    \/ /\ tree'.leaf[p] # w
                       /\ ~Fits(Slots(tree, <<>>, area)[LeafOf(tree, tree'.leaf[p])])
  BY DEF Calculate
<1> QED
  BY InsertSpares

\* Every step keeps what CloseIsLocal says.
LEMMA StepIsLocal ==
    ASSUME TreeInv, [Next]_vars
    PROVE  \A w \in Windows(tree) \ Windows(tree') :
             LET slot == Calculate(tree, area)
                 next == Calculate(tree', area')
                 shared == Parent(LeafOf(tree, w))
             IN  \A v \in Windows(tree') :
                   IF IsPrefix(shared, LeafOf(tree, v))
                     THEN NoneSqueezed(tree', area') => Inside(next[LeafOf(tree', v)], slot[shared])
                     ELSE next[LeafOf(tree', v)] = slot[LeafOf(tree, v)]
<1> SUFFICES ASSUME NEW w \in Windows(tree) \ Windows(tree'), NEW v \in Windows(tree')
             PROVE  LET slot == Slots(tree, <<>>, area)
                        next == Slots(tree', <<>>, area')
                        shared == Parent(LeafOf(tree, w))
                    IN  IF IsPrefix(shared, LeafOf(tree, v))
                          THEN NoneSqueezed(tree', area') => Inside(next[LeafOf(tree', v)], slot[shared])
                          ELSE next[LeafOf(tree', v)] = slot[LeafOf(tree, v)]
  BY DEF Calculate
<1>1. RemoveLeaf(w)
  BY TreeNext
<1> QED
  BY <1>1, CloseStays

\* The search for a legal slot never takes a tile below the minimum to make
\* room for the one Insert adds, which is of the minimum itself (PlanReclaim).
THEOREM InsertSparesOthers == Spec => InsertRespectsFloor
<1>1. Init => TreeInv
  BY TreeInit
<1>2. TreeInv /\ [Next]_vars => TreeInv'
  BY TreeNext
<1> QED
  BY <1>1, <1>2, StepSpares, PTL DEF Spec, InsertRespectsFloor

\* A closed tile leaves its room to its sibling and moves nothing else
\* (BSPTree::Remove, NormalizeDirections).
THEOREM CloseIsLocalAlways == Spec => CloseIsLocal
<1>1. Init => TreeInv
  BY TreeInit
<1>2. TreeInv /\ [Next]_vars => TreeInv'
  BY TreeNext
<1> QED
  BY <1>1, <1>2, StepIsLocal, PTL DEF Spec, CloseIsLocal

\* Other tiles keep their room, whichever tile comes or goes.
THEOREM OthersKeepRoom == Spec => OthersKeepTheirRoom
BY InsertSparesOthers, CloseIsLocalAlways, PTL DEF OthersKeepTheirRoom

(* ------------------------------- neighbours ------------------------------ *)

\* The border of a slot on the side of its first or of its second child
Edge(r, ax, b) == IF b = 0 THEN Start(r, ax) ELSE Start(r, ax) + Size(r, ax)

\* What two slots have in common along an axis is not nothing.
Meets(a, b, ax) ==
    Start(a, ax) < Start(b, ax) + Size(b, ax) /\ Start(b, ax) < Start(a, ax) + Size(a, ax)

\* The axis of a direction, the one across it, and the side it leads to
Axis(d) == IF d \in {"Left", "Right"} THEN "Vertical" ELSE "Horizontal"
Crossing(d) == IF d \in {"Left", "Right"} THEN "Horizontal" ELSE "Vertical"
Side(d) == IF d \in {"Right", "Down"} THEN 1 ELSE 0

LEMMA AxisFacts ==
    ASSUME NEW d \in Direction
    PROVE  /\ Axis(d) \in SplitDirection /\ Crossing(d) \in SplitDirection /\ Axis(d) # Crossing(d)
           /\ SplitDirection = {Axis(d), Crossing(d)} /\ Side(d) \in {0, 1} /\ 1 - Side(d) \in {0, 1}
BY DEF Axis, Crossing, Side, SplitDirection

LEMMA RectSides ==
    ASSUME NEW r \in Rect
    PROVE  /\ \A ax \in SplitDirection : Start(r, ax) \in Nat /\ Size(r, ax) \in Nat
           /\ \A ax \in SplitDirection, b \in {0, 1} : Edge(r, ax, b) \in Nat
           /\ \A ax \in SplitDirection : Edge(r, ax, 0) = Start(r, ax) /\ Edge(r, ax, 1) = Start(r, ax) + Size(r, ax)
<1>1. \A ax \in SplitDirection : Start(r, ax) \in Nat /\ Size(r, ax) \in Nat
  BY DEF Rect, Start, Size
<1>2. \A ax \in SplitDirection : Edge(r, ax, 0) = Start(r, ax) /\ Edge(r, ax, 1) = Start(r, ax) + Size(r, ax)
  BY DEF Edge
<1>3. ASSUME NEW ax \in SplitDirection, NEW b \in {0, 1} PROVE Edge(r, ax, b) \in Nat
  BY <1>1, SMT DEF Edge
<1> QED
  BY <1>1, <1>2, <1>3

\* Gap is the way from one border to the facing one.
LEMMA GapFacts ==
    ASSUME NEW r \in Rect, NEW c \in Rect, NEW d \in Direction
    PROVE  Gap(r, c, d) = IF Side(d) = 1 THEN Edge(c, Axis(d), 0) - Edge(r, Axis(d), 1)
                          ELSE Edge(r, Axis(d), 0) - Edge(c, Axis(d), 1)
<1>1. d \in {"Left", "Right", "Up", "Down"}
  BY DEF Direction
<1> QED
  BY <1>1 DEF Gap, Side, Axis, Edge, Start, Size

\* Reaches says that two borders are the same.
LEMMA ReachesFacts ==
    ASSUME NEW r \in Rect, NEW d \in Direction
    PROVE  Reaches(r, d) <=> Edge(r, Axis(d), Side(d)) = Edge(area, Axis(d), Side(d))
<1>1. d \in {"Left", "Right", "Up", "Down"}
  BY DEF Direction
<1>2. CASE d = "Right"
  BY <1>2 DEF Reaches, Side, Axis, Edge, Start, Size
<1>3. CASE d = "Left"
  BY <1>3 DEF Reaches, Side, Axis, Edge, Start, Size
<1>4. CASE d = "Down"
  BY <1>4 DEF Reaches, Side, Axis, Edge, Start, Size
<1>5. CASE d = "Up"
  BY <1>5 DEF Reaches, Side, Axis, Edge, Start, Size
<1> QED
  BY <1>1, <1>2, <1>3, <1>4, <1>5

\* Overlap is positive where two slots have something in common.
LEMMA OverlapFacts ==
    ASSUME NEW r \in Rect, NEW c \in Rect, NEW d \in Direction,
           Size(r, Crossing(d)) > 0, Size(c, Crossing(d)) > 0
    PROVE  /\ Overlap(r, c, d) > 0 <=> Meets(r, c, Crossing(d))
           /\ Overlap(r, c, d) \in Int /\ Overlap(r, c, d) <= Size(r, Crossing(d))
<1> DEFINE o == Crossing(d)
<1>1. /\ Start(r, o) \in Nat /\ Size(r, o) \in Nat /\ Start(c, o) \in Nat /\ Size(c, o) \in Nat
      /\ Size(r, o) > 0 /\ Size(c, o) > 0
  BY AxisFacts, RectSides
<1>2. Overlap(r, c, d) = SmallerOf(Start(r, o) + Size(r, o), Start(c, o) + Size(c, o))
                           - LargerOf(Start(r, o), Start(c, o))
  BY DEF Overlap, Crossing, Start, Size
<1> HIDE DEF o
<1>3. Overlap(r, c, d) > 0 <=> Meets(r, c, o)
  BY <1>1, <1>2, SMT DEF SmallerOf, LargerOf, Meets
<1>4. Overlap(r, c, d) \in Int /\ Overlap(r, c, d) <= Size(r, o)
  BY <1>1, <1>2, SMT DEF SmallerOf, LargerOf
<1> QED
  BY <1>3, <1>4 DEF o

\* The borders of the two children of a split
LEMMA DividesEdges ==
    ASSUME NEW r \in Rect, NEW c0 \in Rect, NEW c1 \in Rect, NEW ax \in SplitDirection, Divides(r, ax, c0, c1)
    PROVE  /\ Edge(c0, ax, 0) = Edge(r, ax, 0) /\ Edge(c1, ax, 1) = Edge(r, ax, 1)
           /\ Edge(c1, ax, 0) = Edge(c0, ax, 1) + InnerGap
           /\ \A o \in SplitDirection \ {ax}, b \in {0, 1} :
                Edge(c0, o, b) = Edge(r, o, b) /\ Edge(c1, o, b) = Edge(r, o, b)
           /\ \A o \in SplitDirection \ {ax}, x \in Rect :
                (Meets(x, c0, o) <=> Meets(x, r, o)) /\ (Meets(x, c1, o) <=> Meets(x, r, o))
<1>1. /\ Start(r, ax) \in Nat /\ Size(r, ax) \in Nat /\ Start(c0, ax) \in Nat /\ Size(c0, ax) \in Nat
      /\ Start(c1, ax) \in Nat /\ Size(c1, ax) \in Nat /\ InnerGap \in Nat
  BY RectSides, SizesAreNatural
<1>2. /\ Start(c0, ax) = Start(r, ax)
      /\ Start(c1, ax) = Start(r, ax) + Size(c0, ax) + InnerGap
      /\ Size(r, ax) = Size(c0, ax) + InnerGap + Size(c1, ax)
      /\ \A o \in SplitDirection \ {ax} :
           /\ Start(c0, o) = Start(r, o) /\ Size(c0, o) = Size(r, o)
           /\ Start(c1, o) = Start(r, o) /\ Size(c1, o) = Size(r, o)
  BY DEF Divides
<1>3. /\ Edge(c0, ax, 0) = Edge(r, ax, 0) /\ Edge(c1, ax, 1) = Edge(r, ax, 1)
      /\ Edge(c1, ax, 0) = Edge(c0, ax, 1) + InnerGap
  BY <1>1, <1>2, SMT DEF Edge
<1>4. \A o \in SplitDirection \ {ax}, b \in {0, 1} :
        Edge(c0, o, b) = Edge(r, o, b) /\ Edge(c1, o, b) = Edge(r, o, b)
  BY <1>2 DEF Edge
<1>5. \A o \in SplitDirection \ {ax}, x \in Rect :
        (Meets(x, c0, o) <=> Meets(x, r, o)) /\ (Meets(x, c1, o) <=> Meets(x, r, o))
  BY <1>2 DEF Meets
<1> QED
  BY <1>3, <1>4, <1>5

\* What is longer than the gap meets one of the two if it meets their slot.
LEMMA MeetsAChild ==
    ASSUME NEW r \in Rect, NEW c0 \in Rect, NEW c1 \in Rect, NEW ax \in SplitDirection, Divides(r, ax, c0, c1),
           Size(c0, ax) > 0, Size(c1, ax) > 0, NEW x \in Rect, Size(x, ax) > InnerGap, Meets(x, r, ax)
    PROVE  Meets(x, c0, ax) \/ Meets(x, c1, ax)
<1>1. /\ Start(r, ax) \in Nat /\ Size(r, ax) \in Nat /\ Start(c0, ax) \in Nat /\ Size(c0, ax) \in Nat
      /\ Start(c1, ax) \in Nat /\ Size(c1, ax) \in Nat /\ InnerGap \in Nat
      /\ Start(x, ax) \in Nat /\ Size(x, ax) \in Nat
  BY RectSides, SizesAreNatural
<1>2. /\ Start(c0, ax) = Start(r, ax)
      /\ Start(c1, ax) = Start(r, ax) + Size(c0, ax) + InnerGap
      /\ Size(r, ax) = Size(c0, ax) + InnerGap + Size(c1, ax)
  BY DEF Divides
<1> QED
  BY <1>1, <1>2, SMT DEF Meets

\* What the laid-out tree t says of every split
Tiled(slot, t) ==
    /\ slot \in [Nodes(t) -> Rect]
    /\ \A p \in Nodes(t), ax \in SplitDirection : Size(slot[p], ax) > 0
    /\ \A s \in DOMAIN t.split :
         /\ t.split[s].dir \in SplitDirection
         /\ s \in Nodes(t) /\ Append(s, 0) \in Nodes(t) /\ Append(s, 1) \in Nodes(t)
         /\ Divides(slot[s], t.split[s].dir, slot[Append(s, 0)], slot[Append(s, 1)])

LEMMA TreeIsTiled ==
    ASSUME NEW t, IsTree(t), t # EmptyTree, NEW r \in Rect, Roomy(t, r, 0)
    PROVE  Tiled(Slots(t, <<>>, r), t)
<1>1. PICK slot : slot = Slots(t, <<>>, r)
  OBVIOUS
<1>2. slot \in [Nodes(t) -> Rect]
  BY <1>1, WholeTree
<1>3. 0 \in Nat /\ 0 \in {0, 1} /\ 1 \in {0, 1}
  OBVIOUS
<1>4. /\ \A p \in Nodes(t), ax \in SplitDirection : Size(slot[p], ax) > 0
      /\ \A s \in DOMAIN t.split :
           Divides(slot[s], t.split[s].dir, slot[Append(s, 0)], slot[Append(s, 1)])
  BY <1>1, <1>3, RoomyNodes
<1>5. \A s \in DOMAIN t.split : /\ t.split[s].dir \in SplitDirection
                                /\ s \in Nodes(t) /\ Append(s, 0) \in Nodes(t) /\ Append(s, 1) \in Nodes(t)
  BY <1>3, NodeFacts DEF Nodes, Split
<1> QED
  BY <1>1, <1>2, <1>4, <1>5 DEF Tiled

\* Of the tiles below a node, one at its border on side c faces whatever is
\* longer than the gap and faces the node.
LEMMA OneFaces ==
    ASSUME NEW t, IsTree(t), NEW slot, Tiled(slot, t), NEW n \in Nodes(t),
           NEW ax \in SplitDirection, NEW o \in SplitDirection, ax # o, NEW c \in {0, 1},
           NEW x \in Rect, Size(x, o) > InnerGap, Meets(x, slot[n], o)
    PROVE  \E q \in Leaves(t) : /\ IsPrefix(n, q) /\ Meets(x, slot[q], o)
                                /\ Edge(slot[q], ax, c) = Edge(slot[n], ax, c)
<1> DEFINE Faced(m) == \E q \in Leaves(t) : /\ IsPrefix(m, q) /\ Meets(x, slot[q], o)
                                            /\ Edge(slot[q], ax, c) = Edge(slot[m], ax, c)
           T == {m \in Nodes(t) : Meets(x, slot[m], o) => Faced(m)}
<1>1. /\ slot \in [Nodes(t) -> Rect]
      /\ \A p \in Nodes(t), a \in SplitDirection : Size(slot[p], a) > 0
      /\ \A s \in DOMAIN t.split :
         /\ t.split[s].dir \in SplitDirection
         /\ s \in Nodes(t) /\ Append(s, 0) \in Nodes(t) /\ Append(s, 1) \in Nodes(t)
         /\ Divides(slot[s], t.split[s].dir, slot[Append(s, 0)], slot[Append(s, 1)])
  BY DEF Tiled
<1>2. Nodes(t) \subseteq Path /\ Leaves(t) \subseteq Nodes(t)
  BY NodeFacts DEF Nodes
<1>3. Leaves(t) \subseteq T
  BY <1>2, PrefixOfItself
<1>4. ASSUME NEW s \in DOMAIN t.split, Append(s, 0) \in T, Append(s, 1) \in T PROVE s \in T
  <2> DEFINE c0 == slot[Append(s, 0)]
             c1 == slot[Append(s, 1)]
             r == slot[s]
             dir == t.split[s].dir
  <2>1. /\ r \in Rect /\ c0 \in Rect /\ c1 \in Rect /\ dir \in SplitDirection /\ Divides(r, dir, c0, c1)
        /\ s \in Nodes(t) /\ s \in Path
        /\ Size(c0, o) > 0 /\ Size(c1, o) > 0
    BY <1>1, <1>2
  <2>2. SUFFICES ASSUME Meets(x, r, o) PROVE Faced(s)
    BY <2>1
  <2>3. ASSUME NEW b \in {0, 1}, Meets(x, slot[Append(s, b)], o),
               Edge(slot[Append(s, b)], ax, c) = Edge(r, ax, c)
        PROVE  Faced(s)
    <3>1. Append(s, b) \in T
      BY <1>4
    <3>2. PICK q \in Leaves(t) : /\ IsPrefix(Append(s, b), q) /\ Meets(x, slot[q], o)
                                 /\ Edge(slot[q], ax, c) = Edge(slot[Append(s, b)], ax, c)
      BY <2>3, <3>1
    <3>3. IsPrefix(s, q)
      BY <1>2, <2>1, <3>2, PrefixOfChild
    <3> QED
      BY <2>3, <3>2, <3>3
  <2>4. 0 \in {0, 1} /\ 1 \in {0, 1}
    OBVIOUS
  <2> HIDE DEF c0, c1, r, dir
  <2>5. CASE dir = ax
    <3>1. /\ Edge(c0, ax, 0) = Edge(r, ax, 0) /\ Edge(c1, ax, 1) = Edge(r, ax, 1)
          /\ Meets(x, c0, o) /\ Meets(x, c1, o)
      BY <2>1, <2>2, <2>5, DividesEdges
    <3>2. CASE c = 0
      BY <2>3, <2>4, <3>1, <3>2 DEF c0
    <3>3. CASE c = 1
      BY <2>3, <2>4, <3>1, <3>3 DEF c1
    <3> QED
      BY <3>2, <3>3
  <2>6. CASE dir # ax
    <3>1. dir = o
      BY <2>1, <2>6 DEF SplitDirection
    <3>2. Edge(c0, ax, c) = Edge(r, ax, c) /\ Edge(c1, ax, c) = Edge(r, ax, c)
      BY <2>1, <2>6, DividesEdges
    <3>3. Meets(x, c0, o) \/ Meets(x, c1, o)
      BY <2>1, <2>2, <3>1, MeetsAChild
    <3> QED
      BY <2>3, <2>4, <3>2, <3>3 DEF c0, c1
  <2> QED
    BY <2>5, <2>6
<1> HIDE DEF T
<1>5. Nodes(t) \subseteq T
  BY <1>3, <1>4, Upwards
<1> QED
  BY <1>5 DEF T

\* A border is the one of the whole area, or that of the child of a split
\* across which the other child lies.
LEMMA EdgeComesFrom ==
    ASSUME NEW t, IsTree(t), NEW slot, Tiled(slot, t), <<>> \in Nodes(t), Below(t, <<>>) = Nodes(t),
           NEW n \in Nodes(t), NEW ax \in SplitDirection, NEW b \in {0, 1}
    PROVE  \/ Edge(slot[n], ax, b) = Edge(slot[<<>>], ax, b)
           \/ \E s \in DOMAIN t.split :
                /\ t.split[s].dir = ax /\ IsPrefix(Append(s, 1 - b), n)
                /\ Edge(slot[n], ax, b) = Edge(slot[Append(s, 1 - b)], ax, b)
<1> DEFINE From(m) == \E s \in DOMAIN t.split :
                        /\ t.split[s].dir = ax /\ IsPrefix(Append(s, 1 - b), m)
                        /\ Edge(slot[m], ax, b) = Edge(slot[Append(s, 1 - b)], ax, b)
           T == {m \in Nodes(t) : Edge(slot[m], ax, b) = Edge(slot[<<>>], ax, b) \/ From(m)}
<1>1. /\ slot \in [Nodes(t) -> Rect]
      /\ \A s \in DOMAIN t.split :
         /\ t.split[s].dir \in SplitDirection
         /\ s \in Nodes(t) /\ Append(s, 0) \in Nodes(t) /\ Append(s, 1) \in Nodes(t)
         /\ Divides(slot[s], t.split[s].dir, slot[Append(s, 0)], slot[Append(s, 1)])
  BY DEF Tiled
<1>2. Nodes(t) \subseteq Path /\ DOMAIN t.split \subseteq Nodes(t)
  BY NodeFacts DEF Nodes
<1>3. <<>> \in T
  OBVIOUS
<1>4. ASSUME NEW m \in DOMAIN t.split, NEW j \in {0, 1}, m \in T PROVE Append(m, j) \in T
  <2> DEFINE c0 == slot[Append(m, 0)]
             c1 == slot[Append(m, 1)]
             r == slot[m]
             dir == t.split[m].dir
             child == Append(m, j)
  <2>1. /\ r \in Rect /\ c0 \in Rect /\ c1 \in Rect /\ dir \in SplitDirection /\ Divides(r, dir, c0, c1)
        /\ m \in Nodes(t) /\ m \in Path /\ child \in Nodes(t) /\ child \in Path
        /\ slot[child] = IF j = 0 THEN c0 ELSE c1
    BY <1>1, <1>2
  <2>2. CASE Edge(slot[child], ax, b) = Edge(r, ax, b)
    <3>1. CASE Edge(r, ax, b) = Edge(slot[<<>>], ax, b)
      BY <2>1, <2>2, <3>1
    <3>2. CASE From(m)
      <4>1. PICK s \in DOMAIN t.split :
              /\ t.split[s].dir = ax /\ IsPrefix(Append(s, 1 - b), m)
              /\ Edge(slot[m], ax, b) = Edge(slot[Append(s, 1 - b)], ax, b)
        BY <3>2
      <4>2. Append(s, 1 - b) \in Path
        <5>1. 1 - b \in {0, 1}
          BY SMT
        <5> QED
          BY <1>2, <5>1, ChildFacts
      <4>3. IsPrefix(m, child)
        BY <2>1, PrefixOfChild
      <4>4. IsPrefix(Append(s, 1 - b), child)
        BY <2>1, <4>1, <4>2, <4>3, PrefixOfPrefix
      <4>5. From(child)
        BY <2>2, <4>1, <4>4
      <4> QED
        BY <2>1, <4>5
    <3> QED
      BY <1>4, <3>1, <3>2
  <2>3. CASE dir = ax /\ j = 1 - b
    <3>1. IsPrefix(child, child)
      BY <2>1, PrefixOfItself
    <3>2. From(child)
      BY <2>3, <3>1
    <3> QED
      BY <2>1, <3>2
  <2>4. CASE ~(dir = ax /\ j = 1 - b)
    <3> HIDE DEF c0, c1, r, dir, child, T
    <3>1. CASE dir # ax
      <4>1. Edge(c0, ax, b) = Edge(r, ax, b) /\ Edge(c1, ax, b) = Edge(r, ax, b)
        BY <2>1, <3>1, DividesEdges
      <4> QED
        BY <2>1, <2>2, <4>1
    <3>2. CASE dir = ax
      <4>1. Edge(c0, ax, 0) = Edge(r, ax, 0) /\ Edge(c1, ax, 1) = Edge(r, ax, 1)
        BY <2>1, <3>2, DividesEdges
      <4>2. j = b
        BY <2>4, <3>2, SMT
      <4>3. Edge(slot[child], ax, b) = Edge(r, ax, b)
        <5>1. CASE b = 0
          BY <2>1, <4>1, <4>2, <5>1
        <5>2. CASE b = 1
          BY <2>1, <4>1, <4>2, <5>2
        <5> QED
          BY <5>1, <5>2
      <4> QED
        BY <2>2, <4>3 DEF child
    <3> QED
      BY <3>1, <3>2
  <2> QED
    BY <2>3, <2>4
<1> HIDE DEF T
<1>5. Nodes(t) \subseteq T
  BY <1>3, <1>4, Downwards
<1> QED
  BY <1>5 DEF T

\* What lies inside a slot meets it.
LEMMA MeetsInside ==
    ASSUME NEW a \in Rect, NEW b \in Rect, Inside(a, b), NEW o \in SplitDirection, Size(a, o) > 0, Size(b, o) > 0
    PROVE  Meets(a, b, o)
<1>1. /\ Start(a, o) \in Nat /\ Size(a, o) \in Nat /\ Start(b, o) \in Nat /\ Size(b, o) \in Nat
      /\ Start(b, o) <= Start(a, o) /\ Start(a, o) + Size(a, o) <= Start(b, o) + Size(b, o)
  BY RectSides, InsideFacts
<1> QED
  BY <1>1, SMT DEF Meets

\* Off the border of the area a tile faces another across the gap.
LEMMA SomeTileFaces ==
    ASSUME NEW t, IsTree(t), t # EmptyTree, NEW r \in Rect, Roomy(t, r, 0),
           NEW slot, slot = Slots(t, <<>>, r), NEW p \in Leaves(t), NEW d \in Direction,
           Size(slot[p], Crossing(d)) > InnerGap,
           Edge(slot[p], Axis(d), Side(d)) # Edge(r, Axis(d), Side(d))
    PROVE  \E q \in Leaves(t) \ {p} : Meets(slot[p], slot[q], Crossing(d)) /\ Gap(slot[p], slot[q], d) = InnerGap
<1> DEFINE ax == Axis(d)
           o == Crossing(d)
           b == Side(d)
<1>1. ax \in SplitDirection /\ o \in SplitDirection /\ ax # o /\ b \in {0, 1} /\ 1 - b \in {0, 1}
  BY AxisFacts
<1>2. Tiled(slot, t)
  BY TreeIsTiled
<1>3. /\ slot \in [Nodes(t) -> Rect]
      /\ \A s \in DOMAIN t.split :
         /\ t.split[s].dir \in SplitDirection
         /\ s \in Nodes(t) /\ Append(s, 0) \in Nodes(t) /\ Append(s, 1) \in Nodes(t)
         /\ Divides(slot[s], t.split[s].dir, slot[Append(s, 0)], slot[Append(s, 1)])
      /\ \A m \in Nodes(t), a \in SplitDirection : Size(slot[m], a) > 0
  BY <1>2 DEF Tiled
<1>4. <<>> \in Nodes(t) /\ Below(t, <<>>) = Nodes(t) /\ slot[<<>>] = r
  BY WholeTree
<1>5. p \in Nodes(t) /\ Nodes(t) \subseteq Path
  BY NodeFacts DEF Nodes
<1> HIDE DEF ax, o, b
<1>6. PICK s \in DOMAIN t.split :
        /\ t.split[s].dir = ax /\ IsPrefix(Append(s, 1 - b), p)
        /\ Edge(slot[p], ax, b) = Edge(slot[Append(s, 1 - b)], ax, b)
  <2>1. \/ Edge(slot[p], ax, b) = Edge(slot[<<>>], ax, b)
        \/ \E s \in DOMAIN t.split :
                /\ t.split[s].dir = ax /\ IsPrefix(Append(s, 1 - b), p)
                /\ Edge(slot[p], ax, b) = Edge(slot[Append(s, 1 - b)], ax, b)
    BY <1>1, <1>2, <1>4, <1>5, EdgeComesFrom
  <2>2. Edge(slot[p], ax, b) # Edge(slot[<<>>], ax, b)
    BY <1>4 DEF ax, b
  <2> QED
    BY <2>1, <2>2
<1> DEFINE here == Append(s, 1 - b)
           there == Append(s, b)
           c0 == slot[Append(s, 0)]
           c1 == slot[Append(s, 1)]
<1>7. /\ s \in Path /\ here \in Nodes(t) /\ there \in Nodes(t) /\ Divides(slot[s], ax, c0, c1)
      /\ c0 \in Rect /\ c1 \in Rect /\ slot[s] \in Rect /\ slot[p] \in Rect
      /\ slot[here] \in Rect /\ slot[there] \in Rect
  BY <1>1, <1>3, <1>5, <1>6
<1>8. (b = 0 /\ 1 - b = 1) \/ (b = 1 /\ 1 - b = 0)
  <2>1. \A n \in {0, 1} : (n = 0 /\ 1 - n = 1) \/ (n = 1 /\ 1 - n = 0)
    BY SMT
  <2> QED
    BY <1>1, <2>1
<1>9. slot[here] = (IF b = 1 THEN c0 ELSE c1) /\ slot[there] = (IF b = 1 THEN c1 ELSE c0)
  BY <1>8
<1>10. p \in Below(t, here)
  BY <1>5, <1>6 DEF Below
<1> HIDE DEF here, there, c0, c1
<1>11. Meets(slot[p], slot[there], o)
  <2>1. Inside(slot[p], slot[here])
    BY <1>7, <1>10, SlotsNest
  <2>2. Meets(slot[p], slot[here], o)
    BY <1>1, <1>3, <1>5, <1>7, <2>1, MeetsInside
  <2>3. /\ Meets(slot[p], c0, o) <=> Meets(slot[p], slot[s], o)
        /\ Meets(slot[p], c1, o) <=> Meets(slot[p], slot[s], o)
    BY <1>1, <1>7, DividesEdges
  <2> QED
    BY <1>9, <2>2, <2>3
<1>12. PICK q \in Leaves(t) : /\ IsPrefix(there, q) /\ Meets(slot[p], slot[q], o)
                              /\ Edge(slot[q], ax, 1 - b) = Edge(slot[there], ax, 1 - b)
  <2>1. Size(slot[p], o) > InnerGap
    BY DEF o
  <2> QED
    BY <1>1, <1>2, <1>7, <1>11, <2>1, OneFaces
<1>13. Edge(c1, ax, 0) = Edge(c0, ax, 1) + InnerGap
  BY <1>1, <1>7, DividesEdges
<1>14. q \in Nodes(t) /\ slot[q] \in Rect
  BY <1>3 DEF Nodes
<1>15. Gap(slot[p], slot[q], d) = InnerGap
  <2>1. Gap(slot[p], slot[q], d) = IF b = 1 THEN Edge(slot[q], ax, 0) - Edge(slot[p], ax, 1)
                                   ELSE Edge(slot[p], ax, 0) - Edge(slot[q], ax, 1)
    BY <1>7, <1>14, GapFacts DEF ax, b
  <2>2. Edge(c0, ax, 1) \in Nat /\ Edge(c1, ax, 0) \in Nat /\ InnerGap \in Nat
    BY <1>1, <1>7, RectSides, SizesAreNatural
  <2>3. CASE b = 1
    <3>1. Edge(slot[p], ax, 1) = Edge(c0, ax, 1) /\ Edge(slot[q], ax, 0) = Edge(c1, ax, 0)
      BY <1>6, <1>8, <1>9, <1>12, <2>3 DEF here
    <3> QED
      BY <1>13, <2>1, <2>2, <2>3, <3>1, SMT
  <2>4. CASE b = 0
    <3>1. Edge(slot[p], ax, 0) = Edge(c1, ax, 0) /\ Edge(slot[q], ax, 1) = Edge(c0, ax, 1)
      BY <1>6, <1>8, <1>9, <1>12, <2>4 DEF here
    <3> QED
      BY <1>13, <2>1, <2>2, <2>4, <3>1, SMT
  <2> QED
    BY <1>8, <2>3, <2>4
<1>16. q # p
  <2>1. SUFFICES ASSUME q = p PROVE FALSE
    OBVIOUS
  <2>2. Gap(slot[p], slot[p], d) = InnerGap
    BY <1>15, <2>1
  <2>3. Gap(slot[p], slot[p], d) = IF b = 1 THEN Edge(slot[p], ax, 0) - Edge(slot[p], ax, 1)
                                   ELSE Edge(slot[p], ax, 0) - Edge(slot[p], ax, 1)
    BY <1>7, GapFacts DEF ax, b
  <2>4. Edge(slot[p], ax, 0) = Start(slot[p], ax) /\ Edge(slot[p], ax, 1) = Start(slot[p], ax) + Size(slot[p], ax)
    BY <1>1, <1>7, RectSides
  <2>5. Start(slot[p], ax) \in Nat /\ Size(slot[p], ax) \in Nat /\ Size(slot[p], ax) > 0 /\ InnerGap \in Nat
    BY <1>1, <1>3, <1>5, <1>7, RectSides, SizesAreNatural
  <2> QED
    BY <2>2, <2>3, <2>4, <2>5, SMT
<1> QED
  BY <1>12, <1>15, <1>16 DEF o

\* Whatever is ahead is past the gap.
LEMMA AheadIsPastTheGap ==
    ASSUME NEW a \in Rect, NEW b \in Rect, NEW d \in Direction, Apart(a, b), Meets(a, b, Crossing(d)),
           \A ax \in SplitDirection : Size(a, ax) > 0 /\ Size(b, ax) > 0, Gap(a, b, d) >= -1
    PROVE  Gap(a, b, d) \in Nat /\ InnerGap <= Gap(a, b, d)
<1> DEFINE ax == Axis(d)
           o == Crossing(d)
<1>1. /\ Start(a, ax) \in Nat /\ Size(a, ax) \in Nat /\ Start(b, ax) \in Nat /\ Size(b, ax) \in Nat
      /\ Start(a, o) \in Nat /\ Size(a, o) \in Nat /\ Start(b, o) \in Nat /\ Size(b, o) \in Nat
      /\ Size(a, ax) > 0 /\ Size(b, ax) > 0 /\ InnerGap \in Nat
      /\ Side(d) \in {0, 1}
      /\ Edge(a, ax, 0) = Start(a, ax) /\ Edge(a, ax, 1) = Start(a, ax) + Size(a, ax)
      /\ Edge(b, ax, 0) = Start(b, ax) /\ Edge(b, ax, 1) = Start(b, ax) + Size(b, ax)
  BY AxisFacts, RectSides, SizesAreNatural
<1>2. \/ Start(a, ax) + Size(a, ax) + InnerGap <= Start(b, ax)
      \/ Start(b, ax) + Size(b, ax) + InnerGap <= Start(a, ax)
      \/ Start(a, o) + Size(a, o) + InnerGap <= Start(b, o)
      \/ Start(b, o) + Size(b, o) + InnerGap <= Start(a, o)
  BY DEF Apart, Axis, Crossing, Start, Size
<1>3. Gap(a, b, d) = IF Side(d) = 1 THEN Edge(b, ax, 0) - Edge(a, ax, 1)
                     ELSE Edge(a, ax, 0) - Edge(b, ax, 1)
  BY GapFacts
<1> HIDE DEF ax, o
<1>4. Start(a, o) < Start(b, o) + Size(b, o) /\ Start(b, o) < Start(a, o) + Size(a, o)
  BY DEF Meets, o
<1>5. \/ Start(a, ax) + Size(a, ax) + InnerGap <= Start(b, ax)
      \/ Start(b, ax) + Size(b, ax) + InnerGap <= Start(a, ax)
  BY <1>1, <1>2, <1>4, SMT
<1>6. CASE Side(d) = 1
  <2>1. Gap(a, b, d) = Start(b, ax) - (Start(a, ax) + Size(a, ax))
    BY <1>1, <1>3, <1>6
  <2> QED
    BY <1>1, <1>5, <2>1, SMT
<1>7. CASE Side(d) # 1
  <2>1. Gap(a, b, d) = Start(a, ax) - (Start(b, ax) + Size(b, ax))
    BY <1>1, <1>3, <1>7
  <2> QED
    BY <1>1, <1>5, <2>1, SMT
<1> QED
  BY <1>6, <1>7

\* Nothing inside the area is ahead of a tile at its edge.
LEMMA NothingPastTheArea ==
    ASSUME NEW a \in Rect, NEW b \in Rect, NEW r \in Rect, NEW d \in Direction, Inside(b, r),
           \A ax \in SplitDirection : Size(b, ax) > 0, Gap(a, b, d) >= 0
    PROVE  Edge(a, Axis(d), Side(d)) # Edge(r, Axis(d), Side(d))
<1> DEFINE ax == Axis(d)
<1> SUFFICES Edge(a, ax, Side(d)) # Edge(r, ax, Side(d))
  OBVIOUS
<1>1. /\ Start(a, ax) \in Nat /\ Size(a, ax) \in Nat /\ Start(b, ax) \in Nat /\ Size(b, ax) \in Nat
      /\ Start(r, ax) \in Nat /\ Size(r, ax) \in Nat
      /\ Size(b, ax) > 0 /\ Side(d) \in {0, 1}
      /\ Edge(a, ax, 0) = Start(a, ax) /\ Edge(a, ax, 1) = Start(a, ax) + Size(a, ax)
      /\ Edge(b, ax, 0) = Start(b, ax) /\ Edge(b, ax, 1) = Start(b, ax) + Size(b, ax)
      /\ Edge(r, ax, 0) = Start(r, ax) /\ Edge(r, ax, 1) = Start(r, ax) + Size(r, ax)
  BY AxisFacts, RectSides
<1>2. Start(r, ax) <= Start(b, ax) /\ Start(b, ax) + Size(b, ax) <= Start(r, ax) + Size(r, ax)
  BY AxisFacts, InsideFacts
<1>3. Gap(a, b, d) = IF Side(d) = 1 THEN Edge(b, ax, 0) - Edge(a, ax, 1)
                     ELSE Edge(a, ax, 0) - Edge(b, ax, 1)
  BY GapFacts
<1> HIDE DEF ax
<1>4. CASE Side(d) = 1
  <2>1. Gap(a, b, d) = Start(b, ax) - (Start(a, ax) + Size(a, ax))
    BY <1>1, <1>3, <1>4
  <2>2. Start(a, ax) + Size(a, ax) # Start(r, ax) + Size(r, ax)
    BY <1>1, <1>2, <2>1, SMT
  <2> QED
    BY <1>1, <1>4, <2>2
<1>5. CASE Side(d) = 0
  <2>1. Gap(a, b, d) = Start(a, ax) - (Start(b, ax) + Size(b, ax))
    BY <1>1, <1>3, <1>5
  <2>2. Start(a, ax) # Start(r, ax)
    BY <1>1, <1>2, <2>1, SMT
  <2> QED
    BY <1>1, <1>5, <2>2
<1> QED
  BY <1>1, <1>4, <1>5

\* A walk comes through the first child of a split before the second.
LEMMA WalkedFirst ==
    ASSUME NEW s \in Path, NEW p \in Path, NEW q \in Path,
           IsPrefix(Append(s, 0), p), IsPrefix(Append(s, 1), q)
    PROVE  WalkOrder(p, q)
<1> DEFINE i == Len(s) + 1
<1>1. /\ 0 \in {0, 1} /\ 1 \in {0, 1} /\ Len(s) \in Nat /\ Len(p) \in Nat /\ Len(q) \in Nat
      /\ DOMAIN p = 1..Len(p) /\ DOMAIN q = 1..Len(q)
  BY PathFacts
<1>2. /\ Append(s, 0) \in Path /\ Len(Append(s, 0)) = i /\ Append(s, 0)[i] = 0
      /\ \A j \in 1..Len(s) : Append(s, 0)[j] = s[j]
      /\ Append(s, 1) \in Path /\ Len(Append(s, 1)) = i /\ Append(s, 1)[i] = 1
      /\ \A j \in 1..Len(s) : Append(s, 1)[j] = s[j]
  BY <1>1, ChildFacts
<1>3. i <= Len(p) /\ \A j \in 1..i : p[j] = Append(s, 0)[j]
  <2>1. PICK f \in Path : f = Append(s, 0) /\ Len(f) = i /\ IsPrefix(f, p)
    BY <1>2
  <2>2. Len(f) <= Len(p) /\ \A j \in 1..Len(f) : f[j] = p[j]
    BY <2>1, PrefixAt
  <2> QED
    BY <2>1, <2>2
<1>4. i <= Len(q) /\ \A j \in 1..i : q[j] = Append(s, 1)[j]
  <2>1. PICK f \in Path : f = Append(s, 1) /\ Len(f) = i /\ IsPrefix(f, q)
    BY <1>2
  <2>2. Len(f) <= Len(q) /\ \A j \in 1..Len(f) : f[j] = q[j]
    BY <2>1, PrefixAt
  <2> QED
    BY <2>1, <2>2
<1>5. i \in 1..i /\ i \in DOMAIN p \cap DOMAIN q /\ 1..(i - 1) = 1..Len(s) /\ 1..Len(s) \subseteq 1..i
  BY <1>1, <1>3, <1>4
<1> HIDE DEF i
<1>6. p[i] < q[i]
  <2>1. p[i] = 0 /\ q[i] = 1
    BY <1>2, <1>3, <1>4, <1>5
  <2> QED
    BY <2>1
<1>7. \A j \in 1..(i - 1) : p[j] = q[j]
  BY <1>2, <1>3, <1>4, <1>5
<1> QED
  BY <1>5, <1>6, <1>7 DEF WalkOrder

\* Of some leaves a walk comes to one first.
LEMMA WalkFirst ==
    ASSUME NEW t, IsTree(t), NEW A, A \subseteq Leaves(t), A # {}
    PROVE  \E q \in A : \A o \in A \ {q} : WalkOrder(q, o)
<1> DEFINE FirstOf(n) == \E q \in A : IsPrefix(n, q) /\ \A o \in A \ {q} : IsPrefix(n, o) => WalkOrder(q, o)
           T == {n \in Nodes(t) : (\E p \in A : IsPrefix(n, p)) => FirstOf(n)}
<1>1. /\ Nodes(t) \subseteq Path /\ Leaves(t) \subseteq Nodes(t) /\ A \subseteq Path /\ A \subseteq Nodes(t)
      /\ Leaves(t) \cap DOMAIN t.split = {} /\ DOMAIN t.split \subseteq Path /\ DOMAIN t.split \subseteq Nodes(t)
      /\ IsShape(Leaves(t), DOMAIN t.split)
  BY NodeFacts DEF Nodes, IsTree
<1>2. Leaves(t) \subseteq T
  <2> SUFFICES ASSUME NEW n \in Leaves(t), NEW p \in A, IsPrefix(n, p) PROVE FirstOf(n)
    BY <1>1
  <2>1. \A o \in A : IsPrefix(n, o) => o = n
    BY <1>1, NothingBelowLeaf DEF Nodes
  <2>2. p = n
    BY <2>1
  <2> QED
    BY <2>1, <2>2
<1>3. ASSUME NEW s \in DOMAIN t.split, Append(s, 0) \in T, Append(s, 1) \in T PROVE s \in T
  <2>1. SUFFICES ASSUME NEW p \in A, IsPrefix(s, p) PROVE FirstOf(s)
    BY <1>1
  <2>2. s \in Path /\ 0 \in {0, 1} /\ 1 \in {0, 1}
    BY <1>1
  <2>3. \A o \in A : IsPrefix(s, o) => IsPrefix(Append(s, 0), o) \/ IsPrefix(Append(s, 1), o)
    <3> SUFFICES ASSUME NEW o \in A, IsPrefix(s, o)
                 PROVE  IsPrefix(Append(s, 0), o) \/ IsPrefix(Append(s, 1), o)
      OBVIOUS
    <3>1. o \in Path /\ o # s
      BY <1>1
    <3>2. PICK b \in {0, 1} : b = o[Len(s) + 1] /\ IsPrefix(Append(s, b), o)
      BY <2>2, <3>1, NextOnTheWay
    <3> QED
      BY <3>2
  <2>4. \A b \in {0, 1}, o \in A : IsPrefix(Append(s, b), o) => IsPrefix(s, o)
    BY <1>1, <2>2, PrefixOfChild
  <2>5. CASE \E o \in A : IsPrefix(Append(s, 0), o)
    <3>1. FirstOf(Append(s, 0))
      BY <1>3, <2>5
    <3>2. PICK q \in A : /\ IsPrefix(Append(s, 0), q)
                         /\ \A o \in A \ {q} : IsPrefix(Append(s, 0), o) => WalkOrder(q, o)
      BY <3>1
    <3>3. \A o \in A : IsPrefix(Append(s, 1), o) => WalkOrder(q, o)
      BY <1>1, <2>2, <3>2, WalkedFirst
    <3>4. IsPrefix(s, q)
      BY <2>2, <2>4, <3>2
    <3> QED
      BY <2>3, <3>2, <3>3, <3>4
  <2>6. CASE ~ \E o \in A : IsPrefix(Append(s, 0), o)
    <3>1. IsPrefix(Append(s, 1), p)
      BY <2>1, <2>3, <2>6
    <3>2. FirstOf(Append(s, 1))
      BY <1>3, <3>1
    <3>3. PICK q \in A : /\ IsPrefix(Append(s, 1), q)
                         /\ \A o \in A \ {q} : IsPrefix(Append(s, 1), o) => WalkOrder(q, o)
      BY <3>2
    <3>4. IsPrefix(s, q)
      BY <2>2, <2>4, <3>3
    <3> QED
      BY <2>3, <2>6, <3>3, <3>4
  <2> QED
    BY <2>5, <2>6
<1> HIDE DEF T
<1>4. Nodes(t) \subseteq T
  BY <1>2, <1>3, Upwards
<1>5. PICK p : p \in A
  OBVIOUS
<1>6. <<>> \in Nodes(t)
  <2>1. t # EmptyTree
    BY <1>5, EmptyIsTree
  <2> QED
    BY <2>1, SomeLeaf DEF Nodes
<1>7. \A o \in A : IsPrefix(<<>>, o)
  BY <1>1, RootIsPath, PathFacts, PrefixAt
<1>8. FirstOf(<<>>)
  BY <1>4, <1>5, <1>6, <1>7 DEF T
<1> QED
  BY <1>7, <1>8

\* Some elements of a set have the least number.
LEMMA LeastOf ==
    ASSUME NEW A, A # {}, NEW f \in [A -> Nat]
    PROVE  \E x \in A : \A y \in A : f[x] <= f[y]
<1> DEFINE T == {f[x] : x \in A}
<1>1. T \subseteq Nat /\ T # {}
  OBVIOUS
<1> HIDE DEF T
<1>2. PICK n \in T : \A m \in T : n <= m
  BY <1>1, LeastNumber
<1> QED
  BY <1>2 DEF T

\* One leaf is nearer than the others, or as near and faces more, or comes
\* first in a walk.
Nearest(A, g, v, q) ==
    \A o \in A \ {q} : \/ g[q] < g[o]
                       \/ g[q] = g[o] /\ v[q] > v[o]
                       \/ g[q] = g[o] /\ v[q] = v[o] /\ WalkOrder(q, o)

\* Of some leaves there is one that is nearest.
LEMMA NearestExists ==
    ASSUME NEW t, IsTree(t), NEW A, A \subseteq Leaves(t), A # {},
           NEW g \in [A -> Nat], NEW v \in [A -> Int], NEW m \in Nat, \A x \in A : v[x] <= m
    PROVE  \E q \in A : Nearest(A, g, v, q) /\ \A o \in A : g[q] <= g[o]
<1>1. PICK a \in A : \A o \in A : g[a] <= g[o]
  BY LeastOf
<1> DEFINE B == {x \in A : g[x] = g[a]}
           h == [x \in B |-> m - v[x]]
<1>2. h \in [B -> Nat] /\ B # {} /\ B \subseteq A
  <2>1. ASSUME NEW x \in B PROVE m - v[x] \in Nat
    <3>1. v[x] \in Int /\ v[x] <= m
      OBVIOUS
    <3> QED
      BY <3>1
  <2> QED
    BY <2>1
<1>3. \A x \in B : h[x] = m - v[x] /\ g[x] = g[a]
  OBVIOUS
<1>4. \A x \in A \ B : g[x] # g[a]
  OBVIOUS
<1> HIDE DEF B, h
<1>5. PICK c \in B : \A o \in B : h[c] <= h[o]
  BY <1>2, LeastOf
<1>6. \A o \in B : v[o] <= v[c]
  <2> SUFFICES ASSUME NEW o \in B PROVE v[o] <= v[c]
    OBVIOUS
  <2>1. v[o] \in Int /\ v[c] \in Int /\ m - v[c] <= m - v[o]
    BY <1>2, <1>3, <1>5
  <2> QED
    BY <2>1, SMT
<1> DEFINE C == {x \in B : v[x] = v[c]}
<1>7. C \subseteq Leaves(t) /\ C # {}
  BY <1>2
<1>8. \A x \in C : x \in B /\ v[x] = v[c]
  OBVIOUS
<1>9. \A x \in B \ C : v[x] # v[c]
  OBVIOUS
<1> HIDE DEF C
<1>10. PICK q \in C : \A o \in C \ {q} : WalkOrder(q, o)
  BY <1>7, WalkFirst
<1>11. q \in A /\ q \in B /\ g[q] = g[a] /\ v[q] = v[c]
  BY <1>2, <1>3, <1>8
<1>12. Nearest(A, g, v, q)
  <2> SUFFICES ASSUME NEW o \in A \ {q}
               PROVE  \/ g[q] < g[o]
                      \/ g[q] = g[o] /\ v[q] > v[o]
                      \/ g[q] = g[o] /\ v[q] = v[o] /\ WalkOrder(q, o)
    BY DEF Nearest
  <2>1. g[q] \in Nat /\ g[o] \in Nat /\ v[q] \in Int /\ v[o] \in Int
    BY <1>11
  <2>2. CASE o \notin B
    <3>1. g[a] <= g[o] /\ g[o] # g[a]
      BY <1>1, <1>4, <2>2
    <3> QED
      BY <1>11, <2>1, <3>1
  <2>3. CASE o \in B /\ o \notin C
    <3>1. v[o] <= v[c] /\ v[o] # v[c] /\ g[o] = g[a]
      BY <1>3, <1>6, <1>9, <2>3
    <3> QED
      BY <1>11, <2>1, <3>1
  <2>4. CASE o \in C
    BY <1>3, <1>8, <1>10, <1>11, <2>4
  <2> QED
    BY <2>2, <2>3, <2>4
<1> QED
  BY <1>1, <1>11, <1>12

\* What is ahead of a leaf of the tree, how far, and how much of it faces the leaf
Ahead(slot, p, d) ==
    {q \in Leaves(tree) \ {p} : Gap(slot[p], slot[q], d) >= -1 /\ Overlap(slot[p], slot[q], d) > 0}
Gaps(slot, p, d) == [q \in Ahead(slot, p, d) |-> LargerOf(Gap(slot[p], slot[q], d), 0)]
Overlaps(slot, p, d) == [q \in Ahead(slot, p, d) |-> Overlap(slot[p], slot[q], d)]

\* NeighborIn finds the nearest of what is ahead.
LEMMA NearestIsFound ==
    ASSUME IsTree(tree), NEW p \in Leaves(tree), NEW slot, NEW d \in Direction,
           NEW q \in Ahead(slot, p, d),
           Nearest(Ahead(slot, p, d), Gaps(slot, p, d), Overlaps(slot, p, d), q)
    PROVE  tree.leaf[q] \in NeighborIn(tree, slot, tree.leaf[p], d)
<1>1. LeafOf(tree, tree.leaf[p]) = p
  BY LeafOfLeaf
<1>2. PICK A : A = Ahead(slot, p, d)
  OBVIOUS
<1>3. \A o \in A : /\ Gaps(slot, p, d)[o] = LargerOf(Gap(slot[p], slot[o], d), 0)
                   /\ Overlaps(slot, p, d)[o] = Overlap(slot[p], slot[o], d)
  BY <1>2 DEF Gaps, Overlaps
<1>4. \A o \in A \ {q} :
        LET gap(x) == LargerOf(Gap(slot[p], slot[x], d), 0)
            overlap(x) == Overlap(slot[p], slot[x], d)
        IN  \/ gap(q) < gap(o)
            \/ gap(q) = gap(o) /\ overlap(q) > overlap(o)
            \/ gap(q) = gap(o) /\ overlap(q) = overlap(o) /\ WalkOrder(q, o)
  BY <1>2, <1>3 DEF Nearest
<1>5. A = {x \in Leaves(tree) \ {p} : Gap(slot[p], slot[x], d) >= -1 /\ Overlap(slot[p], slot[x], d) > 0}
  BY <1>2 DEF Ahead
<1> QED
  BY <1>1, <1>2, <1>4, <1>5 DEF NeighborIn

\* It finds nothing where nothing is ahead.
LEMMA FoundIsAhead ==
    ASSUME IsTree(tree), NEW p \in Leaves(tree), NEW slot, NEW d, Ahead(slot, p, d) = {}
    PROVE  NeighborIn(tree, slot, tree.leaf[p], d) = {}
<1>1. LeafOf(tree, tree.leaf[p]) = p
  BY LeafOfLeaf
<1> QED
  BY <1>1 DEF NeighborIn, Ahead

\* The neighbour of a tile wider and higher than the gap is across the gap,
\* and there is none at the edge of the area.
LEMMA NeighbourAcross ==
    ASSUME TreeInv, NEW slot, slot = Slots(tree, <<>>, area), Roomy(tree, area, 0),
           NEW p \in Leaves(tree), NEW d \in Direction, slot[p].width > InnerGap, slot[p].height > InnerGap
    PROVE  /\ Reaches(slot[p], d) => FindNeighbor(tree.leaf[p], d) = {}
           /\ ~Reaches(slot[p], d) =>
                \E n \in FindNeighbor(tree.leaf[p], d) : Gap(slot[p], slot[LeafOf(tree, n)], d) = InnerGap
<1> DEFINE A == Ahead(slot, p, d)
           o == Crossing(d)
<1>1. IsTree(tree) /\ area \in Rect /\ tree # EmptyTree /\ InnerGap \in Nat
  BY AreaIsRect, EmptyIsTree, SizesAreNatural DEF TreeInv
<1>2. /\ slot \in [Nodes(tree) -> Rect]
      /\ \A m \in Nodes(tree), a \in SplitDirection : Size(slot[m], a) > 0
  BY <1>1, TreeIsTiled DEF Tiled
<1>3. /\ Leaves(tree) \subseteq Nodes(tree)
      /\ \A q \in Leaves(tree) : slot[q] \in Rect /\ \A a \in SplitDirection : Size(slot[q], a) > 0
  BY <1>2 DEF Nodes
<1>4. o \in SplitDirection /\ Size(slot[p], o) > InnerGap
  BY AxisFacts DEF Size
<1>5. \A q \in Leaves(tree) : /\ Overlap(slot[p], slot[q], d) > 0 <=> Meets(slot[p], slot[q], o)
                              /\ Overlap(slot[p], slot[q], d) \in Int
                              /\ Overlap(slot[p], slot[q], d) <= Size(slot[p], o)
  BY <1>3, <1>4, OverlapFacts
<1>6. \A q \in A : q \in Leaves(tree) /\ q # p /\ Gap(slot[p], slot[q], d) >= -1 /\ Meets(slot[p], slot[q], o)
  BY <1>5 DEF Ahead
<1> HIDE DEF A, o
<1>7. \A q \in A : Gap(slot[p], slot[q], d) \in Nat /\ InnerGap <= Gap(slot[p], slot[q], d)
  <2> SUFFICES ASSUME NEW q \in A
               PROVE  Gap(slot[p], slot[q], d) \in Nat /\ InnerGap <= Gap(slot[p], slot[q], d)
    OBVIOUS
  <2>1. Apart(slot[p], slot[q])
    BY <1>1, <1>6, LeavesApart
  <2> QED
    BY <1>3, <1>6, <2>1, AheadIsPastTheGap DEF o
<1>8. FindNeighbor(tree.leaf[p], d) = NeighborIn(tree, slot, tree.leaf[p], d)
  BY DEF FindNeighbor
<1>9. ASSUME Reaches(slot[p], d) PROVE A = {}
  <2> SUFFICES ASSUME NEW q \in A PROVE FALSE
    OBVIOUS
  <2>1. Edge(slot[p], Axis(d), Side(d)) = Edge(area, Axis(d), Side(d))
    BY <1>3, <1>9, ReachesFacts
  <2>2. Inside(slot[q], area)
    <3>1. <<>> \in Nodes(tree) /\ slot[<<>>] = area /\ Below(tree, <<>>) = Nodes(tree)
      BY <1>1, WholeTree
    <3> QED
      BY <1>1, <1>3, <1>6, <3>1, SlotsNest
  <2>3. Gap(slot[p], slot[q], d) >= 0
    BY <1>7
  <2> QED
    BY <1>1, <1>3, <1>6, <2>1, <2>2, <2>3, NothingPastTheArea
<1>10. ASSUME ~Reaches(slot[p], d)
       PROVE  \E n \in FindNeighbor(tree.leaf[p], d) : Gap(slot[p], slot[LeafOf(tree, n)], d) = InnerGap
  <2>1. PICK f \in Leaves(tree) \ {p} : Meets(slot[p], slot[f], o) /\ Gap(slot[p], slot[f], d) = InnerGap
    <3>1. Edge(slot[p], Axis(d), Side(d)) # Edge(area, Axis(d), Side(d))
      BY <1>3, <1>10, ReachesFacts
    <3> QED
      BY <1>1, <1>4, <3>1, SomeTileFaces DEF o
  <2>2. f \in A
    <3>1. Gap(slot[p], slot[f], d) >= -1
      BY <1>1, <2>1
    <3> QED
      BY <1>5, <2>1, <3>1 DEF A, Ahead
  <2> DEFINE g == Gaps(slot, p, d)
             v == Overlaps(slot, p, d)
  <2>3. \A q \in A : g[q] = Gap(slot[p], slot[q], d) /\ v[q] = Overlap(slot[p], slot[q], d)
    <3>1. \A n \in Nat : LargerOf(n, 0) = n
      BY DEF LargerOf
    <3> QED
      BY <1>7, <3>1 DEF Gaps, Overlaps, A
  <2>4. g \in [A -> Nat] /\ v \in [A -> Int]
    <3>1. \A q \in A : g[q] \in Nat /\ v[q] \in Int
      BY <1>5, <1>6, <1>7, <2>3
    <3>2. g = [q \in A |-> g[q]] /\ v = [q \in A |-> v[q]]
      BY DEF Gaps, Overlaps, A
    <3> QED
      BY <3>1, <3>2
  <2>5. Size(slot[p], o) \in Nat /\ \A q \in A : v[q] <= Size(slot[p], o)
    BY <1>3, <1>4, <1>5, <1>6, <2>3, RectSides
  <2> HIDE DEF g, v
  <2>6. PICK q \in A : Nearest(A, g, v, q) /\ \A x \in A : g[q] <= g[x]
    <3>1. A \subseteq Leaves(tree) /\ A # {}
      BY <1>6, <2>2
    <3> QED
      BY <1>1, <2>4, <2>5, <3>1, NearestExists
  <2>7. tree.leaf[q] \in FindNeighbor(tree.leaf[p], d)
    BY <1>1, <1>8, <2>6, NearestIsFound DEF A, g, v
  <2>8. LeafOf(tree, tree.leaf[q]) = q
    BY <1>1, <1>6, <2>6, LeafOfLeaf
  <2>9. Gap(slot[p], slot[q], d) = InnerGap
    <3>1. Gap(slot[p], slot[q], d) <= InnerGap
      BY <2>1, <2>2, <2>3, <2>6
    <3>2. Gap(slot[p], slot[q], d) \in Nat /\ InnerGap <= Gap(slot[p], slot[q], d)
      BY <1>7, <2>6
    <3> QED
      BY <1>1, <3>1, <3>2, SMT
  <2> QED
    BY <2>7, <2>8, <2>9
<1> QED
  BY <1>1, <1>8, <1>9, <1>10, FoundIsAhead DEF A

\* It implies that the neighbour is across the gap.
LEMMA TreeInvNeighbours == TreeInv => NeighborIsAcrossTheGap
<1> SUFFICES ASSUME TreeInv, NoneSqueezed(tree, area), NEW p \in Leaves(tree), NEW d \in Direction,
                    Slots(tree, <<>>, area)[p].width > InnerGap, Slots(tree, <<>>, area)[p].height > InnerGap
             PROVE  IF Reaches(Slots(tree, <<>>, area)[p], d) THEN FindNeighbor(tree.leaf[p], d) = {}
                    ELSE \E n \in FindNeighbor(tree.leaf[p], d) :
                           Gap(Slots(tree, <<>>, area)[p], Slots(tree, <<>>, area)[LeafOf(tree, n)], d) = InnerGap
  BY DEF NeighborIsAcrossTheGap, Calculate
<1>1. Roomy(tree, area, 0)
  BY DEF NoneSqueezed, Calculate, Roomy, Size, SplitDirection
<1>2. PICK slot : slot = Slots(tree, <<>>, area)
  OBVIOUS
<1>3. /\ Reaches(slot[p], d) => FindNeighbor(tree.leaf[p], d) = {}
      /\ ~Reaches(slot[p], d) =>
           \E n \in FindNeighbor(tree.leaf[p], d) : Gap(slot[p], slot[LeafOf(tree, n)], d) = InnerGap
  BY <1>1, <1>2, NeighbourAcross
<1> QED
  BY <1>2, <1>3

\* Tiles stay the inner gap apart and inside the area, and the neighbour of one
\* is across the gap (LayoutEngine::Calculate, FindNeighbor).
THEOREM TilesStayNeighbours == Spec => []TilesAreNeighbours
<1>1. Init => TreeInv
  BY TreeInit
<1>2. TreeInv /\ [Next]_vars => TreeInv'
  BY TreeNext
<1>3. TreeInv => TilesAreNeighbours
  BY TreeInvApart, TreeInvNeighbours DEF TilesAreNeighbours
<1> QED
  BY <1>1, <1>2, <1>3, PTL DEF Spec

(* --------------------------------- replay -------------------------------- *)

\* A tree has finitely many nodes.
LEMMA FiniteTree ==
    ASSUME NEW t, IsTree(t)
    PROVE  IsFiniteSet(Leaves(t)) /\ IsFiniteSet(DOMAIN t.split)
<1>1. CASE t = EmptyTree
  <2>1. Leaves(t) = {} /\ DOMAIN t.split = {}
    BY <1>1 DEF EmptyTree, Leaves
  <2> QED
    BY <2>1, FS_EmptySet
<1>2. CASE t # EmptyTree
  <2> DEFINE T == {p \in Nodes(t) : IsFiniteSet(Below(t, p))}
  <2>1. /\ Nodes(t) \subseteq Path /\ Leaves(t) \subseteq Nodes(t) /\ DOMAIN t.split \subseteq Nodes(t)
        /\ IsShape(Leaves(t), DOMAIN t.split)
    BY NodeFacts DEF Nodes, IsTree
  <2>2. ASSUME NEW p \in Leaves(t) PROVE p \in T
    <3>1. Below(t, p) \subseteq {p}
      BY NothingBelowLeaf, <2>1 DEF Below, Nodes
    <3>2. IsFiniteSet({p})
      BY FS_Singleton
    <3>3. IsFiniteSet(Below(t, p))
      BY <3>1, <3>2, FS_Subset
    <3> QED
      BY <2>1, <3>3
  <2>3. ASSUME NEW p \in DOMAIN t.split, Append(p, 0) \in T, Append(p, 1) \in T PROVE p \in T
    <3>1. Below(t, p) \subseteq {p} \cup (Below(t, Append(p, 0)) \cup Below(t, Append(p, 1)))
      <4> SUFFICES ASSUME NEW q \in Nodes(t), IsPrefix(p, q), q # p
                   PROVE  IsPrefix(Append(p, 0), q) \/ IsPrefix(Append(p, 1), q)
        BY DEF Below
      <4>1. q[Len(p) + 1] \in {0, 1} /\ IsPrefix(Append(p, q[Len(p) + 1]), q)
        BY <2>1, NextOnTheWay
      <4> QED
        BY <4>1
    <3>2. IsFiniteSet(Below(t, Append(p, 0)) \cup Below(t, Append(p, 1)))
      BY <2>3, FS_Union
    <3>3. IsFiniteSet({p})
      BY FS_Singleton
    <3>4. IsFiniteSet({p} \cup (Below(t, Append(p, 0)) \cup Below(t, Append(p, 1))))
      BY <3>2, <3>3, FS_Union
    <3>5. IsFiniteSet(Below(t, p))
      BY <3>1, <3>4, FS_Subset
    <3> QED
      BY <2>1, <3>5
  <2> HIDE DEF T
  <2>4. Nodes(t) \subseteq T
    BY <2>2, <2>3, Upwards
  <2>5. <<>> \in Nodes(t)
    BY <1>2, SomeLeaf DEF Nodes
  <2>6. IsFiniteSet(Below(t, <<>>))
    BY <2>4, <2>5 DEF T
  <2>7. Leaves(t) \subseteq Below(t, <<>>) /\ DOMAIN t.split \subseteq Below(t, <<>>)
    BY <2>1, PrefixOfItself DEF Below
  <2> QED
    BY <2>6, <2>7, FS_Subset
<1> QED
  BY <1>1, <1>2

\* q first differs from p at i, or begins to go on from it.
LEMMA BeforeAt ==
    ASSUME NEW p \in Path, NEW q \in Path
    PROVE  Before(p, q) <=> \E i \in 1..Len(q) :
                              /\ \A j \in 1..(i - 1) : j <= Len(p) /\ p[j] = q[j]
                              /\ i > Len(p) \/ p[i] < q[i]
<1>1. /\ Len(p) \in Nat /\ Len(q) \in Nat /\ DOMAIN p = 1..Len(p) /\ DOMAIN q = 1..Len(q)
      /\ IsPrefix(p, q) <=> Len(p) <= Len(q) /\ \A i \in 1..Len(p) : p[i] = q[i]
  BY PathFacts, PrefixAt
<1>2. ASSUME IsStrictPrefix(p, q)
      PROVE  \E i \in 1..Len(q) : /\ \A j \in 1..(i - 1) : j <= Len(p) /\ p[j] = q[j]
                                  /\ i > Len(p) \/ p[i] < q[i]
  <2>1. IsPrefix(p, q) /\ p # q
    BY <1>2 DEF IsStrictPrefix
  <2>2. Len(p) < Len(q)
    BY <2>1, NextOnTheWay
  <2>3. /\ Len(p) + 1 \in 1..Len(q) /\ Len(p) + 1 > Len(p)
        /\ \A j \in 1..((Len(p) + 1) - 1) : j \in 1..Len(p) /\ j <= Len(p)
    BY <1>1, <2>2, SMT
  <2> QED
    BY <1>1, <2>1, <2>3
<1>3. ASSUME WalkOrder(p, q)
      PROVE  \E i \in 1..Len(q) : /\ \A j \in 1..(i - 1) : j <= Len(p) /\ p[j] = q[j]
                                  /\ i > Len(p) \/ p[i] < q[i]
  <2>1. PICK i \in 1..Len(p) : i \in 1..Len(q) /\ p[i] < q[i] /\ \A j \in 1..(i - 1) : p[j] = q[j]
    BY <1>1, <1>3 DEF WalkOrder
  <2>2. \A j \in 1..(i - 1) : j <= Len(p)
    BY <1>1, <2>1, SMT
  <2> QED
    BY <2>1, <2>2
<1>4. ASSUME NEW i \in 1..Len(q), \A j \in 1..(i - 1) : j <= Len(p) /\ p[j] = q[j],
             i > Len(p) \/ p[i] < q[i]
      PROVE  Before(p, q)
  <2>1. CASE i <= Len(p)
    <3>1. i \in 1..Len(p) /\ ~(i > Len(p))
      BY <1>1, <2>1, SMT
    <3> QED
      BY <1>1, <1>4, <3>1 DEF Before, WalkOrder
  <2>2. CASE i > Len(p)
    <3>1. \A j \in 1..Len(p) : j \in 1..(i - 1)
      BY <1>1, <2>2, SMT
    <3>2. Len(p) <= Len(q) /\ Len(p) # Len(q)
      <4>1. Len(p) \in Nat /\ Len(q) \in Nat
        BY <1>1
      <4> QED
        BY <2>2, <4>1, SMT
    <3>3. \A j \in 1..Len(p) : p[j] = q[j]
      BY <1>4, <3>1
    <3>4. IsPrefix(p, q) /\ p # q
      BY <1>1, <3>2, <3>3
    <3> QED
      BY <3>4 DEF Before, IsStrictPrefix
  <2> QED
    BY <1>1, <2>1, <2>2, SMT
<1> QED
  BY <1>2, <1>3, <1>4 DEF Before

\* The rules come in a total order, a split before those inside it.
LEMMA BeforeIsOrder ==
    ASSUME NEW p \in Path, NEW q \in Path
    PROVE  /\ ~Before(p, p)
           /\ p # q => Before(p, q) \/ Before(q, p)
           /\ \A r \in Path : Before(p, q) /\ Before(q, r) => Before(p, r)
<1>1. Len(p) \in Nat /\ Len(q) \in Nat /\ \A i \in 1..Len(p) : p[i] \in Nat
  BY PathFacts
<1>2. ~Before(p, p)
  <2>1. SUFFICES ASSUME NEW i \in 1..Len(p), i > Len(p) \/ p[i] < p[i] PROVE FALSE
    BY BeforeAt
  <2>2. p[i] \in Nat
    BY <1>1
  <2> QED
    BY <1>1, <2>1, <2>2, SMT
<1>3. ASSUME p # q PROVE Before(p, q) \/ Before(q, p)
  <2>1. CASE IsPrefix(p, q) \/ IsPrefix(q, p)
    BY <1>3, <2>1 DEF Before, IsStrictPrefix
  <2>2. CASE ~IsPrefix(p, q) /\ ~IsPrefix(q, p)
    <3>1. PICK s \in Path, b \in {0, 1} : IsPrefix(Append(s, b), p) /\ IsPrefix(Append(s, 1 - b), q)
      BY <2>2, Fork
    <3>2. 1 - 0 = 1 /\ 1 - 1 = 0
      BY SMT
    <3>3. WalkOrder(p, q) \/ WalkOrder(q, p)
      <4>1. CASE b = 0
        BY <3>1, <3>2, <4>1, WalkedFirst
      <4>2. CASE b = 1
        BY <3>1, <3>2, <4>2, WalkedFirst
      <4> QED
        BY <4>1, <4>2
    <3> QED
      BY <3>3 DEF Before
  <2> QED
    BY <2>1, <2>2
<1>4. ASSUME NEW r \in Path, Before(p, q), Before(q, r) PROVE Before(p, r)
  <2>1. PICK i \in 1..Len(q) : /\ \A j \in 1..(i - 1) : j <= Len(p) /\ p[j] = q[j]
                               /\ i > Len(p) \/ p[i] < q[i]
    BY <1>4, BeforeAt
  <2>2. PICK k \in 1..Len(r) : /\ \A j \in 1..(k - 1) : j <= Len(q) /\ q[j] = r[j]
                               /\ k > Len(q) \/ q[k] < r[k]
    BY <1>4, BeforeAt
  <2>3. /\ Len(r) \in Nat /\ \A j \in 1..Len(q) : q[j] \in {0, 1} /\ q[j] \in Int
        /\ \A j \in 1..Len(r) : r[j] \in {0, 1} /\ r[j] \in Int
        /\ \A j \in 1..Len(p) : p[j] \in {0, 1} /\ p[j] \in Int
    BY PathFacts
  <2>4. SUFFICES \E m \in 1..Len(r) : /\ \A j \in 1..(m - 1) : j <= Len(p) /\ p[j] = r[j]
                                      /\ m > Len(p) \/ p[m] < r[m]
    BY BeforeAt
  <2>5. CASE i <= k - 1
    <3>1. i \in 1..(k - 1) /\ i \in 1..Len(r) /\ \A j \in 1..(i - 1) : j \in 1..(k - 1)
      BY <2>3, <2>5, SMT
    <3> QED
      BY <2>1, <2>2, <3>1
  <2>6. CASE k <= i - 1
    <3>1. k \in 1..(i - 1) /\ ~(k > Len(q)) /\ \A j \in 1..(k - 1) : j \in 1..(i - 1)
      BY <1>1, <2>3, <2>6, SMT
    <3>2. p[k] < r[k]
      BY <2>1, <2>2, <3>1
    <3> QED
      BY <2>1, <2>2, <3>1, <3>2
  <2>7. CASE i = k
    <3>1. ~(k > Len(q))
      BY <1>1, <2>7, SMT
    <3>2. q[k] < r[k]
      BY <2>2, <3>1
    <3>3. k > Len(p) \/ p[k] < r[k]
      <4>1. SUFFICES ASSUME ~(k > Len(p)) PROVE p[k] < r[k]
        OBVIOUS
      <4>2. p[k] < q[k] /\ k \in 1..Len(p) /\ k \in 1..Len(q) /\ k \in 1..Len(r)
        BY <1>1, <2>1, <2>7, <4>1
      <4>3. p[k] \in Int /\ q[k] \in Int /\ r[k] \in Int
        BY <2>3, <4>2
      <4> QED
        BY <3>2, <4>2, <4>3, SMT
    <3>4. \A j \in 1..(k - 1) : j <= Len(p) /\ p[j] = r[j]
      BY <2>1, <2>2, <2>7
    <3> QED
      BY <3>3, <3>4
  <2>8. i <= k - 1 \/ k <= i - 1 \/ i = k
    BY <1>1, <2>3, SMT
  <2> QED
    BY <2>5, <2>6, <2>7, <2>8
<1> QED
  BY <1>2, <1>3, <1>4

\* How many of S come before p, and S in order
Rank(S, p) == Cardinality({q \in S : Before(q, p)})
InOrder(S) == [i \in 1..Cardinality(S) |-> CHOOSE p \in S : Rank(S, p) = i - 1]

LEMMA RankGrows ==
    ASSUME NEW S, S \subseteq Path, IsFiniteSet(S), NEW p \in S
    PROVE  /\ Rank(S, p) \in Nat /\ Rank(S, p) < Cardinality(S)
           /\ \A q \in S : Before(q, p) => Rank(S, q) < Rank(S, p)
<1> DEFINE B(r) == {q \in S : Before(q, r)}
<1>1. ASSUME NEW r \in S PROVE IsFiniteSet(B(r)) /\ Cardinality(B(r)) \in Nat
  <2>1. B(r) \in SUBSET S
    OBVIOUS
  <2> QED
    BY <2>1, FS_Subset, FS_CardinalityType
<1>2. Cardinality(S) \in Nat
  BY FS_CardinalityType
<1>3. Cardinality(B(p)) < Cardinality(S)
  <2>1. B(p) \in SUBSET S /\ p \notin B(p)
    BY BeforeIsOrder
  <2>2. Cardinality(B(p)) <= Cardinality(S) /\ Cardinality(B(p)) # Cardinality(S)
    BY <2>1, FS_Subset
  <2>3. Cardinality(B(p)) \in Nat
    BY <1>1
  <2> HIDE DEF B
  <2> QED
    BY <1>2, <2>2, <2>3, SMT
<1>4. ASSUME NEW q \in S, Before(q, p) PROVE Cardinality(B(q)) < Cardinality(B(p))
  <2>1. q \in B(p) /\ q \notin B(q)
    BY <1>4, BeforeIsOrder
  <2>2. B(q) \subseteq B(p)
    BY <1>4, BeforeIsOrder
  <2>3. Cardinality(B(p)) \in Nat /\ Cardinality(B(q)) \in Nat /\ IsFiniteSet(B(p))
    BY <1>1
  <2> HIDE DEF B
  <2>4. Cardinality(B(q)) <= Cardinality(B(p)) /\ Cardinality(B(q)) # Cardinality(B(p))
    BY <2>1, <2>2, <2>3, FS_Subset
  <2> QED
    BY <2>3, <2>4, SMT
<1> QED
  BY <1>1, <1>3, <1>4 DEF Rank

\* Every element has its place, after those before it.
LEMMA OrderFacts ==
    ASSUME NEW S, S \subseteq Path, IsFiniteSet(S)
    PROVE  /\ Cardinality(S) \in Nat
           /\ \A i \in 1..Cardinality(S) : InOrder(S)[i] \in S /\ Rank(S, InOrder(S)[i]) = i - 1
           /\ \A p \in S : Rank(S, p) + 1 \in 1..Cardinality(S) /\ InOrder(S)[Rank(S, p) + 1] = p
<1> DEFINE n == Cardinality(S)
           f == [p \in S |-> Rank(S, p)]
<1>1. n \in Nat
  BY FS_CardinalityType
<1>2. ASSUME NEW p \in S PROVE Rank(S, p) \in 0..(n - 1) /\ Rank(S, p) + 1 \in 1..n
  <2>1. Rank(S, p) \in Nat /\ Rank(S, p) < n
    BY RankGrows
  <2> QED
    BY <1>1, <2>1, SMT
<1>3. ASSUME NEW p \in S, NEW q \in S, Rank(S, p) = Rank(S, q) PROVE p = q
  <2>1. SUFFICES ASSUME p # q PROVE FALSE
    OBVIOUS
  <2>2. Before(p, q) \/ Before(q, p)
    BY <2>1, BeforeIsOrder
  <2>3. Rank(S, p) < Rank(S, q) \/ Rank(S, q) < Rank(S, p)
    BY <2>2, RankGrows
  <2>4. Rank(S, p) \in Nat
    BY RankGrows
  <2> QED
    BY <1>3, <2>3, <2>4, SMT
<1>4. f \in Injection(S, 0..(n - 1))
  <2>1. f \in [S -> 0..(n - 1)]
    BY <1>2
  <2>2. \A p, q \in S : f[p] = f[q] => p = q
    BY <1>3
  <2>3. DOMAIN f = S
    OBVIOUS
  <2> HIDE DEF f
  <2> QED
    BY <2>1, <2>2, <2>3 DEF Injection, IsInjective
<1>5. IsFiniteSet(0..(n - 1)) /\ Cardinality(0..(n - 1)) = n
  <2>1. 0 \in Int /\ n - 1 \in Int
    BY <1>1, SMT
  <2>2. IsFiniteSet(0..(n - 1)) /\ Cardinality(0..(n - 1)) = IF 0 > n - 1 THEN 0 ELSE (n - 1) - 0 + 1
    BY <2>1, FS_Interval
  <2> HIDE DEF n
  <2>3. (IF 0 > n - 1 THEN 0 ELSE (n - 1) - 0 + 1) = n
    BY <1>1, SMT
  <2> QED
    BY <2>2, <2>3
<1>6. f \in Surjection(S, 0..(n - 1))
  BY <1>4, <1>5, FS_Injection
<1>7. ASSUME NEW i \in 1..n PROVE InOrder(S)[i] \in S /\ Rank(S, InOrder(S)[i]) = i - 1
  <2>1. i - 1 \in 0..(n - 1)
    BY <1>1, SMT
  <2>2. \E p \in S : f[p] = i - 1
    BY <1>6, <2>1 DEF Surjection
  <2>3. \E p \in S : Rank(S, p) = i - 1
    BY <2>2
  <2>4. InOrder(S)[i] = CHOOSE p \in S : Rank(S, p) = i - 1
    BY DEF InOrder
  <2> QED
    BY <2>3, <2>4
<1>8. ASSUME NEW p \in S PROVE InOrder(S)[Rank(S, p) + 1] = p
  <2> DEFINE i == Rank(S, p) + 1
  <2>1. i \in 1..n /\ i - 1 = Rank(S, p)
    <3>1. Rank(S, p) \in Nat
      BY RankGrows
    <3> QED
      BY <1>2, <3>1, SMT
  <2> HIDE DEF i
  <2>2. InOrder(S)[i] \in S /\ Rank(S, InOrder(S)[i]) = Rank(S, p)
    BY <1>7, <2>1
  <2>3. InOrder(S)[i] = p
    BY <1>3, <2>2
  <2> QED
    BY <2>3 DEF i
<1> QED
  BY <1>1, <1>2, <1>7, <1>8

\* The leaf one comes to from p by always going left
FirstLeaf(t, p) ==
    CHOOSE q \in Leaves(t) : IsPrefix(p, q) /\ \A i \in (Len(p) + 1)..Len(q) : q[i] = 0

LEMMA FirstLeafFacts ==
    ASSUME NEW t, IsTree(t), NEW p \in Nodes(t)
    PROVE  /\ FirstLeaf(t, p) \in Leaves(t) /\ IsPrefix(p, FirstLeaf(t, p))
           /\ Representative(t, p) = t.leaf[FirstLeaf(t, p)]
           /\ p \in Leaves(t) => FirstLeaf(t, p) = p
           /\ p \in DOMAIN t.split => FirstLeaf(t, Append(p, 0)) = FirstLeaf(t, p)
<1> DEFINE Way(n, q) == IsPrefix(n, q) /\ \A i \in (Len(n) + 1)..Len(q) : q[i] = 0
<1>1. /\ IsShape(Leaves(t), DOMAIN t.split) /\ Nodes(t) \subseteq Path /\ p \in Path
      /\ Leaves(t) \subseteq Path /\ Leaves(t) \subseteq Nodes(t) /\ 0 \in {0, 1}
  BY NodeFacts DEF IsTree, Nodes
<1>2. ASSUME NEW n \in Nodes(t) PROVE FirstLeaf(t, n) \in Leaves(t) /\ Way(n, FirstLeaf(t, n))
  <2>1. \E q \in Leaves(t) : Way(n, q)
    <3>1. n \in Leaves(t) \cup DOMAIN t.split
      BY DEF Nodes
    <3> QED
      BY <1>1, <3>1, LeafAtTheEnd
  <2> QED
    BY <2>1 DEF FirstLeaf
<1>3. ASSUME NEW q \in Leaves(t), NEW r \in Leaves(t), Way(p, q), Way(p, r), Len(q) <= Len(r)
      PROVE  q = r
  <2>1. /\ Len(p) \in Nat /\ Len(q) \in Nat /\ Len(r) \in Nat
        /\ Len(p) <= Len(q) /\ \A i \in 1..Len(p) : p[i] = q[i]
        /\ \A i \in 1..Len(p) : p[i] = r[i]
    BY <1>1, <1>3, PathFacts, PrefixAt
  <2>2. ASSUME NEW i \in 1..Len(q) PROVE q[i] = r[i]
    <3>1. i \in 1..Len(p) \/ (i \in (Len(p) + 1)..Len(q) /\ i \in (Len(p) + 1)..Len(r))
      <4>1. Len(p) \in Nat /\ Len(q) \in Nat /\ Len(r) \in Nat /\ Len(q) <= Len(r)
        BY <1>3, <2>1
      <4> QED
        BY <4>1, SMT
    <3> QED
      BY <1>3, <2>1, <3>1
  <2>3. IsPrefix(q, r)
    BY <1>1, <1>3, <2>2, PrefixAt
  <2> QED
    BY <1>1, <2>3, NothingBelowLeaf DEF Nodes
<1>4. ASSUME NEW q \in Leaves(t), Way(p, q) PROVE q = FirstLeaf(t, p)
  <2>1. FirstLeaf(t, p) \in Leaves(t) /\ Way(p, FirstLeaf(t, p))
    BY <1>2
  <2>2. Len(q) \in Nat /\ Len(FirstLeaf(t, p)) \in Nat
    BY <1>1, <2>1, PathFacts
  <2>3. Len(q) <= Len(FirstLeaf(t, p)) \/ Len(FirstLeaf(t, p)) <= Len(q)
    BY <2>2, SMT
  <2> HIDE DEF Way
  <2> QED
    BY <1>3, <1>4, <2>1, <2>3
<1>5. ASSUME p \in Leaves(t) PROVE FirstLeaf(t, p) = p
  <2>1. IsPrefix(p, p)
    BY <1>1, PrefixOfItself
  <2>2. Len(p) \in Nat /\ (Len(p) + 1)..Len(p) = {}
    BY <1>1, PathFacts, SMT
  <2> QED
    BY <1>4, <1>5, <2>1, <2>2
<1>6. ASSUME p \in DOMAIN t.split PROVE FirstLeaf(t, Append(p, 0)) = FirstLeaf(t, p)
  <2> DEFINE c == Append(p, 0)
             q == FirstLeaf(t, c)
  <2>1. /\ c \in Nodes(t) /\ c \in Path /\ Len(c) = Len(p) + 1 /\ c[Len(p) + 1] = 0
        /\ \A i \in 1..Len(p) : c[i] = p[i]
    <3>1. c \in Nodes(t)
      BY <1>6, NodeFacts
    <3> QED
      BY <1>1, <3>1, ChildFacts
  <2>2. q \in Leaves(t) /\ Way(c, q)
    BY <1>2, <2>1
  <2>3. IsPrefix(p, q)
    BY <1>1, <2>2, PrefixOfChild
  <2> HIDE DEF c, q
  <2>4. /\ Len(c) <= Len(q) /\ \A i \in 1..Len(c) : c[i] = q[i]
        /\ Len(p) \in Nat /\ Len(q) \in Nat
    BY <1>1, <2>1, <2>2, PathFacts, PrefixAt
  <2>5. ASSUME NEW i \in (Len(p) + 1)..Len(q) PROVE q[i] = 0
    <3>1. i \in (Len(c) + 1)..Len(q) \/ (i = Len(p) + 1 /\ i \in 1..Len(c))
      <4>1. Len(p) \in Nat /\ Len(q) \in Nat /\ Len(c) = Len(p) + 1
        BY <2>1, <2>4
      <4> QED
        BY <4>1, SMT
    <3> QED
      BY <2>1, <2>2, <2>4, <3>1
  <2>6. q = FirstLeaf(t, p)
    BY <1>4, <2>2, <2>3, <2>5
  <2> QED
    BY <2>6 DEF c, q
<1>7. Representative(t, p) = t.leaf[FirstLeaf(t, p)]
  BY DEF Representative, FirstLeaf
<1> QED
  BY <1>2, <1>5, <1>6, <1>7

\* What the rules of the splits S have built: these splits, and for whatever
\* hangs from them one leaf, with the window that stands for it.
Undone(t, S) == {p \in Nodes(t) \ S : p = <<>> \/ Parent(p) \in S}
Rebuilt(t, S) ==
    [leaf  |-> [p \in Undone(t, S) |-> Representative(t, p)],
     split |-> [p \in S |-> [dir |-> t.split[p].dir, ratio |-> Half]]]

\* The splits S hang together from the root.
FromRoot(t, S) == S \subseteq DOMAIN t.split /\ \A p \in S : p = <<>> \/ Parent(p) \in S

LEMMA RebuiltFirst ==
    ASSUME NEW t, IsTree(t), t # EmptyTree
    PROVE  Rebuilt(t, {}) = OneLeaf(Representative(t, <<>>))
<1>1. Undone(t, {}) = {<<>>}
  BY SomeLeaf DEF Undone, Nodes
<1>2. [p \in {} |-> [dir |-> t.split[p].dir, ratio |-> Half]] = <<>>
  OBVIOUS
<1>3. [p \in {<<>>} |-> Representative(t, p)] = [p \in {<<>>} |-> Representative(t, <<>>)]
  OBVIOUS
<1> QED
  BY <1>1, <1>2, <1>3 DEF Rebuilt, OneLeaf

LEMMA RebuiltLast ==
    ASSUME NEW t, IsTree(t)
    PROVE  Rebuilt(t, DOMAIN t.split)
             = [t EXCEPT !.split = [p \in DOMAIN t.split |-> [t.split[p] EXCEPT !.ratio = Half]]]
<1> DEFINE S == DOMAIN t.split
           g == [p \in S |-> [dir |-> t.split[p].dir, ratio |-> Half]]
<1>1. /\ t = [leaf |-> t.leaf, split |-> t.split] /\ t.leaf \in [Leaves(t) -> Window]
      /\ Leaves(t) \cap S = {} /\ \A p \in Nodes(t) : p # <<>> => Parent(p) \in S
      /\ \A p \in S : t.split[p] \in Split
  BY NodeFacts DEF IsTree
<1>2. Undone(t, S) = Leaves(t)
  BY <1>1 DEF Undone, Nodes
<1>3. [p \in Leaves(t) |-> Representative(t, p)] = t.leaf
  <2>1. ASSUME NEW p \in Leaves(t) PROVE Representative(t, p) = t.leaf[p]
    BY FirstLeafFacts DEF Nodes
  <2> QED
    BY <1>1, <2>1
<1>4. [p \in S |-> [t.split[p] EXCEPT !.ratio = Half]] = g
  <2>1. ASSUME NEW p \in S PROVE [t.split[p] EXCEPT !.ratio = Half] = [dir |-> t.split[p].dir, ratio |-> Half]
    <3>1. t.split[p] \in [dir : SplitDirection, ratio : Ratio]
      BY <1>1 DEF Split
    <3> QED
      BY <3>1
  <2> QED
    BY <2>1
<1> HIDE DEF g
<1>5. [t EXCEPT !.split = g] = [leaf |-> t.leaf, split |-> g]
  BY <1>1
<1>6. Rebuilt(t, S) = [leaf |-> t.leaf, split |-> g]
  BY <1>2, <1>3 DEF Rebuilt, g
<1> QED
  BY <1>4, <1>5, <1>6

\* A window stands for one of them only.
LEMMA UndoneApart ==
    ASSUME NEW t, IsTree(t), NEW S, FromRoot(t, S), NEW p \in Undone(t, S), NEW q \in Undone(t, S),
           Representative(t, p) = Representative(t, q)
    PROVE  p = q
<1>1. /\ Nodes(t) \subseteq Path /\ p \in Nodes(t) /\ q \in Nodes(t) /\ Leaves(t) \subseteq Path
      /\ p \in Path /\ q \in Path /\ S \subseteq Path
  BY NodeFacts DEF Undone, FromRoot, Nodes
<1>2. PICK r \in Leaves(t) : IsPrefix(p, r) /\ IsPrefix(q, r)
  <2>1. /\ FirstLeaf(t, p) \in Leaves(t) /\ IsPrefix(p, FirstLeaf(t, p))
        /\ FirstLeaf(t, q) \in Leaves(t) /\ IsPrefix(q, FirstLeaf(t, q))
        /\ t.leaf[FirstLeaf(t, p)] = t.leaf[FirstLeaf(t, q)]
    BY <1>1, FirstLeafFacts
  <2>2. FirstLeaf(t, p) = FirstLeaf(t, q)
    BY <2>1 DEF IsTree
  <2> QED
    BY <2>1, <2>2
<1>3. ASSUME NEW m \in S, NEW n \in Path, IsPrefix(n, m) PROVE n \in S
  <2> DEFINE T == {k \in Nat : \A x \in S : Len(x) <= k /\ IsPrefix(n, x) => n \in S}
  <2>1. 0 \in T
    <3> SUFFICES ASSUME NEW x \in S, Len(x) <= 0, IsPrefix(n, x) PROVE n \in S
      OBVIOUS
    <3>1. Len(x) \in Nat /\ Len(n) \in Nat /\ Len(n) <= Len(x)
      BY <1>1, PathFacts, PrefixAt
    <3>2. Len(n) = Len(x)
      BY <3>1, SMT
    <3> QED
      BY <1>1, <3>2, SameLengthPrefix
  <2>2. ASSUME NEW k \in T PROVE k + 1 \in T
    <3> SUFFICES ASSUME NEW x \in S, Len(x) <= k + 1, IsPrefix(n, x), n # x PROVE n \in S
      OBVIOUS
    <3>1. x \in Path /\ x # <<>>
      <4>1. Len(n) < Len(x) /\ Len(n) \in Nat /\ x \in Path
        BY <1>1, NextOnTheWay, PathFacts
      <4>2. Len(x) # 0
        BY <4>1, SMT
      <4> QED
        BY <4>1, <4>2, RootIsPath
    <3>2. Parent(x) \in S /\ Len(Parent(x)) = Len(x) - 1 /\ Len(x) \in Nat
      BY <3>1, ParentFacts, PathFacts DEF FromRoot
    <3>3. IsPrefix(n, Parent(x))
      BY <3>1, ParentIsPrefix
    <3>4. Len(Parent(x)) <= k
      <4>1. k \in Nat
        OBVIOUS
      <4> QED
        BY <3>2, <4>1, SMT
    <3> QED
      BY <3>2, <3>3, <3>4
  <2>3. T \in SUBSET Nat
    OBVIOUS
  <2> HIDE DEF T
  <2>4. T = Nat
    BY <2>1, <2>2, <2>3, Induction
  <2>5. Len(m) \in Nat /\ Len(m) <= Len(m)
    <3>1. Len(m) \in Nat
      BY <1>1, PathFacts
    <3> QED
      BY <3>1, SMT
  <2>6. Len(m) \in T
    BY <2>4, <2>5
  <2> QED
    BY <1>3, <2>5, <2>6 DEF T
<1>4. ASSUME NEW x \in Undone(t, S), NEW y \in Undone(t, S), IsPrefix(x, y), x # y PROVE FALSE
  <2>1. x \in Path /\ y \in Path /\ x \notin S /\ (y = <<>> \/ Parent(y) \in S)
    BY <1>1 DEF Undone
  <2>2. y # <<>>
    <3>1. Len(x) < Len(y) /\ Len(x) \in Nat /\ Len(y) \in Nat
      BY <1>4, <2>1, NextOnTheWay, PathFacts
    <3>2. Len(y) # 0
      BY <3>1, SMT
    <3> QED
      BY <3>2, RootIsPath
  <2>3. IsPrefix(x, Parent(y))
    BY <1>4, <2>1, <2>2, ParentIsPrefix
  <2> QED
    BY <1>3, <2>1, <2>2, <2>3
<1>5. IsPrefix(p, q) \/ IsPrefix(q, p)
  <2>1. Len(p) \in Nat /\ Len(q) \in Nat
    BY <1>1, PathFacts
  <2>2. Len(p) <= Len(q) \/ Len(q) <= Len(p)
    BY <2>1, SMT
  <2> QED
    BY <1>1, <1>2, <2>2, PrefixesNest
<1> QED
  BY <1>4, <1>5

\* The rule of a split that hangs from these, or of the root, adds it to them.
LEMMA RebuiltNext ==
    ASSUME NEW t, IsTree(t), NEW S, FromRoot(t, S), NEW a \in DOMAIN t.split \ S,
           a = <<>> \/ Parent(a) \in S
    PROVE  /\ FromRoot(t, S \cup {a})
           /\ Applied(Rebuilt(t, S), Rule(t, a)) = Rebuilt(t, S \cup {a})
<1> DEFINE d == t.split[a].dir
           w == Representative(t, Append(a, 1))
           n == Representative(t, Append(a, 0))
<1>1. PICK u : u = Rebuilt(t, S)
  OBVIOUS
<1>2. /\ u.split = [p \in S |-> [dir |-> t.split[p].dir, ratio |-> Half]]
      /\ Leaves(u) = Undone(t, S) /\ DOMAIN u.split = S
      /\ \A p \in Undone(t, S) : u.leaf[p] = Representative(t, p)
  BY <1>1 DEF Rebuilt, Leaves
<1>3. /\ Nodes(t) \subseteq Path /\ DOMAIN t.split \subseteq Nodes(t) /\ a \in Path /\ a \in Nodes(t)
      /\ Append(a, 0) \in Nodes(t) /\ Append(a, 1) \in Nodes(t)
      /\ S \subseteq DOMAIN t.split /\ \A p \in S : p = <<>> \/ Parent(p) \in S
  BY NodeFacts DEF Nodes, FromRoot
<1>4. /\ Append(a, 0) # <<>> /\ Parent(Append(a, 0)) = a
      /\ Append(a, 1) # <<>> /\ Parent(Append(a, 1)) = a
      /\ Last(Append(a, 0)) = 0 /\ Last(Append(a, 1)) = 1
      /\ Append(a, 0) # a /\ Append(a, 1) # a
  <2>1. 0 \in {0, 1} /\ 1 \in {0, 1}
    OBVIOUS
  <2> QED
    BY <1>3, <2>1, ChildFacts, ChildOfParent, PrefixOfChild
<1>5. a \in Undone(t, S)
  BY <1>3 DEF Undone
<1>6. n = Representative(t, a)
  BY <1>3, FirstLeafFacts
<1>7. n \in Windows(u) /\ LeafOf(u, n) = a
  <2>1. n \in Windows(u)
    BY <1>2, <1>5, <1>6 DEF Windows
  <2>2. LeafOf(u, n) \in Undone(t, S) /\ u.leaf[LeafOf(u, n)] = n
    BY <1>2, <2>1, LeafOfIsThere
  <2>3. Representative(t, LeafOf(u, n)) = Representative(t, a)
    BY <1>2, <1>6, <2>2
  <2> QED
    BY <1>5, <2>1, <2>2, <2>3, UndoneApart
<1>8. (Undone(t, S) \ {a}) \cup {Append(a, 0), Append(a, 1)} = Undone(t, S \cup {a})
  <2>1. ASSUME NEW p \in Undone(t, S) \ {a} PROVE p \in Undone(t, S \cup {a})
    BY DEF Undone
  <2>2. Append(a, 0) \notin S /\ Append(a, 1) \notin S
    BY <1>3, <1>4
  <2>3. Append(a, 0) \in Undone(t, S \cup {a}) /\ Append(a, 1) \in Undone(t, S \cup {a})
    BY <1>3, <1>4, <2>2 DEF Undone
  <2>4. ASSUME NEW p \in Undone(t, S \cup {a}), p \notin Undone(t, S) \ {a}
        PROVE  p \in {Append(a, 0), Append(a, 1)}
    <3>1. p \in Path /\ p # <<>> /\ Parent(p) = a
      BY <1>3, <2>4 DEF Undone
    <3>2. Append(Parent(p), Last(p)) = p /\ Last(p) \in {0, 1}
      BY <3>1, ParentFacts
    <3> QED
      BY <3>1, <3>2
  <2> QED
    BY <2>1, <2>3, <2>4
<1>9. Rule(t, a) = [window |-> w, neighbor |-> n, direction |-> d]
  BY DEF Rule
<1>10. Applied(u, Rule(t, a)) = SpliceIn(u, a, w, d)
  BY <1>7, <1>9 DEF Applied
<1> HIDE DEF w, n, d
<1> DEFINE L == [p \in Undone(t, S \cup {a}) |-> Representative(t, p)]
           R == [p \in S \cup {a} |-> [dir |-> t.split[p].dir, ratio |-> Half]]
<1>11. [p \in (Leaves(u) \ {a}) \cup {Append(a, 0), Append(a, 1)} |->
          IF p = Append(a, 0) THEN u.leaf[a] ELSE IF p = Append(a, 1) THEN w ELSE u.leaf[p]] = L
  <2>1. ASSUME NEW p \in (Undone(t, S) \ {a}) \cup {Append(a, 0), Append(a, 1)}
        PROVE  (IF p = Append(a, 0) THEN u.leaf[a] ELSE IF p = Append(a, 1) THEN w ELSE u.leaf[p])
                 = Representative(t, p)
    <3>1. CASE p = Append(a, 0)
      BY <1>2, <1>5, <1>6, <3>1 DEF n
    <3>2. CASE p # Append(a, 0) /\ p = Append(a, 1)
      BY <3>2 DEF w
    <3>3. CASE p # Append(a, 0) /\ p # Append(a, 1)
      BY <1>2, <3>3
    <3> QED
      BY <3>1, <3>2, <3>3
  <2> QED
    BY <1>2, <1>8, <2>1
<1>12. [p \in DOMAIN u.split \cup {a} |->
          IF p = a THEN [dir |-> d, ratio |-> Half] ELSE u.split[p]] = R
  <2>1. ASSUME NEW p \in S \cup {a}
        PROVE  (IF p = a THEN [dir |-> d, ratio |-> Half] ELSE u.split[p])
                 = [dir |-> t.split[p].dir, ratio |-> Half]
    BY <1>2 DEF d
  <2>2. R = [p \in S \cup {a} |-> [dir |-> t.split[p].dir, ratio |-> Half]] /\ DOMAIN u.split = S
    BY <1>2
  <2> HIDE DEF R, d
  <2> QED
    BY <2>1, <2>2, SMTT(30)
<1>13. SpliceIn(u, a, w, d) = Rebuilt(t, S \cup {a})
  BY <1>11, <1>12 DEF SpliceIn, Rebuilt
<1>14. FromRoot(t, S \cup {a})
  BY <1>3 DEF FromRoot
<1> QED
  BY <1>1, <1>10, <1>13, <1>14

(* Replay is a recursive function over the rules. *)
IsReplay(f, len, first, rules) ==
    f = [n \in 0..len |-> IF n = 0 THEN first ELSE Applied(f[n - 1], rules[n])]

LEMMA ReplayExists ==
    ASSUME NEW len \in Nat, NEW first, NEW rules
    PROVE  \E f : IsReplay(f, len, first, rules)
<1> DEFINE T == {k \in Nat : \E f : IsReplay(f, k, first, rules)}
<1>1. 0 \in T
  <2> DEFINE f == [i \in 0..0 |-> first]
  <2>1. \A i \in 0..0 : i = 0
    BY SMT
  <2>2. IsReplay(f, 0, first, rules)
    BY <2>1 DEF IsReplay
  <2> QED
    BY <2>2
<1>2. ASSUME NEW k \in T PROVE k + 1 \in T
  <2>1. k \in Nat /\ k + 1 \in Nat
    OBVIOUS
  <2>2. PICK f : IsReplay(f, k, first, rules)
    OBVIOUS
  <2>3. f = [i \in 0..k |-> IF i = 0 THEN first ELSE Applied(f[i - 1], rules[i])]
    BY <2>2 DEF IsReplay
  <2> DEFINE g == [i \in 0..(k + 1) |-> IF i = k + 1 THEN Applied(f[k], rules[i]) ELSE f[i]]
  <2>4. ASSUME NEW i \in 0..(k + 1)
        PROVE  g[i] = IF i = 0 THEN first ELSE Applied(g[i - 1], rules[i])
    <3>1. CASE i = 0
      BY <2>1, <2>3, <3>1, SMT
    <3>2. CASE i # 0 /\ i # k + 1
      BY <2>1, <2>3, <3>2, SMT
    <3>3. CASE i = k + 1
      BY <2>1, <2>3, <3>3, SMT
    <3> QED
      BY <3>1, <3>2, <3>3
  <2>5. IsReplay(g, k + 1, first, rules)
    BY <2>1, <2>4 DEF IsReplay
  <2> QED
    BY <2>1, <2>5
<1> HIDE DEF T
<1>3. T = Nat
  <2>1. T \in SUBSET Nat
    BY DEF T
  <2> QED
    BY <2>1, <1>1, <1>2, Induction
<1> QED
  BY <1>3 DEF T

\* Replayed one by one, the rules of a tree build it up from the root.
LEMMA ReplayedTree ==
    ASSUME NEW t, IsTree(t), t # EmptyTree
    PROVE  Replay(t) = Rebuilt(t, DOMAIN t.split)
<1> DEFINE S == DOMAIN t.split
           len == Cardinality(S)
           order == InOrder(S)
           Done(k) == {order[i] : i \in 1..k}
           rules == CollectPlacementRules(t)
           first == OneLeaf(Representative(t, <<>>))
<1>1. /\ S \subseteq Path /\ S \subseteq Nodes(t) /\ IsFiniteSet(S)
      /\ \A p \in Nodes(t) : p # <<>> => Parent(p) \in S
  BY FiniteTree, NodeFacts DEF Nodes
<1>2. /\ len \in Nat
      /\ \A i \in 1..len : order[i] \in S /\ Rank(S, order[i]) = i - 1
      /\ \A p \in S : Rank(S, p) + 1 \in 1..len /\ order[Rank(S, p) + 1] = p
  BY <1>1, OrderFacts
<1>3. rules = [i \in 1..len |-> Rule(t, CHOOSE p \in S : Rank(S, p) = i - 1)]
  BY DEF CollectPlacementRules, Rank
<1>4. Len(rules) = len /\ \A i \in 1..len : rules[i] = Rule(t, order[i])
  <2>1. DOMAIN rules = 1..len
    BY <1>3
  <2>2. \A i \in 1..len : rules[i] = Rule(t, order[i])
    BY <1>3 DEF InOrder
  <2> HIDE DEF rules, len
  <2>3. Len(rules) = len
    BY <1>2, <2>1
  <2> QED
    BY <2>2, <2>3
<1> DEFINE after == CHOOSE f : IsReplay(f, len, first, rules)
<1>5. IsReplay(after, len, first, rules)
  BY <1>2, ReplayExists
<1>6. Replay(t) = after[len]
  BY <1>4 DEF Replay, IsReplay
<1>7. after = [n \in 0..len |-> IF n = 0 THEN first ELSE Applied(after[n - 1], rules[n])]
  BY <1>5 DEF IsReplay
<1> HIDE DEF rules, after, order, first, len
<1> DEFINE T == {k \in Nat : k <= len => FromRoot(t, Done(k)) /\ after[k] = Rebuilt(t, Done(k))}
<1>8. 0 \in T
  <2>1. Done(0) = {}
    BY SMT
  <2>2. 0 \in 0..len /\ 0 \in Nat
    BY <1>2, SMT
  <2>3. after[0] = Rebuilt(t, {})
    BY <1>7, <2>2, RebuiltFirst DEF first
  <2>4. FromRoot(t, {})
    BY DEF FromRoot
  <2> QED
    BY <2>1, <2>2, <2>3, <2>4
<1>9. ASSUME NEW k \in T PROVE k + 1 \in T
  <2>1. SUFFICES ASSUME k + 1 <= len
                 PROVE  FromRoot(t, Done(k + 1)) /\ after[k + 1] = Rebuilt(t, Done(k + 1))
    BY SMT
  <2>2. /\ k \in Nat /\ k <= len /\ k + 1 \in 1..len /\ k + 1 \in 0..len /\ k + 1 # 0
        /\ (k + 1) - 1 = k /\ 1..(k + 1) = (1..k) \cup {k + 1} /\ 1..k \subseteq 1..len
        /\ k + 1 \notin 1..k
    BY <1>2, <2>1, SMT
  <2>3. FromRoot(t, Done(k)) /\ after[k] = Rebuilt(t, Done(k))
    BY <2>2
  <2> DEFINE a == order[k + 1]
  <2>4. Done(k + 1) = Done(k) \cup {a}
    BY <2>2
  <2>5. a \in S /\ Rank(S, a) = k
    BY <1>2, <2>2
  <2>6. a \notin Done(k)
    <3>1. ASSUME NEW i \in 1..k PROVE order[i] # a
      <4>1. Rank(S, order[i]) = i - 1
        BY <1>2, <2>2
      <4>2. i - 1 # k
        BY <2>2, SMT
      <4> QED
        BY <2>5, <4>1, <4>2
    <3> QED
      BY <3>1
  <2>7. a = <<>> \/ Parent(a) \in Done(k)
    <3>1. SUFFICES ASSUME a # <<>> PROVE Parent(a) \in Done(k)
      OBVIOUS
    <3>2. a \in Path /\ Parent(a) \in S
      BY <1>1, <2>5, <3>1
    <3>3. Before(Parent(a), a)
      BY <3>1, <3>2, ParentIsPrefix DEF Before, IsStrictPrefix
    <3>4. Rank(S, Parent(a)) \in Nat /\ Rank(S, Parent(a)) < k
      BY <1>1, <2>5, <3>2, <3>3, RankGrows
    <3>5. Rank(S, Parent(a)) + 1 \in 1..k
      BY <2>2, <3>4, SMT
    <3>6. order[Rank(S, Parent(a)) + 1] = Parent(a)
      BY <1>2, <3>2
    <3> QED
      BY <3>5, <3>6
  <2>8. after[k + 1] = Applied(after[k], Rule(t, a))
    BY <1>4, <1>7, <2>2
  <2>9. PICK D : D = Done(k)
    OBVIOUS
  <2> HIDE DEF a, Done
  <2>10. a \in DOMAIN t.split \ D /\ FromRoot(t, D) /\ (a = <<>> \/ Parent(a) \in D)
    BY <2>3, <2>5, <2>6, <2>7, <2>9
  <2>11. FromRoot(t, D \cup {a}) /\ Applied(Rebuilt(t, D), Rule(t, a)) = Rebuilt(t, D \cup {a})
    BY <2>10, RebuiltNext
  <2> QED
    BY <2>3, <2>4, <2>8, <2>9, <2>11
<1>10. T \in SUBSET Nat
  OBVIOUS
<1> HIDE DEF T
<1>11. T = Nat
  BY <1>8, <1>9, <1>10, Induction
<1>12. len \in T /\ len <= len
  BY <1>2, <1>11, SMT
<1>13. Done(len) = S
  BY <1>2
<1> QED
  BY <1>6, <1>12, <1>13 DEF T

\* Whatever has been done to a workspace, the rules SaveSessionPositions would
\* save of it rebuild its tree (CollectPlacementRules, TryRestoreSessionPosition).
THEOREM ReplayAlwaysRebuilds == Spec => []ReplayRebuilds
<1>1. Init => TreeInv
  BY TreeInit
<1>2. TreeInv /\ [Next]_vars => TreeInv'
  BY TreeNext
<1>3. TreeInv => ReplayRebuilds
  BY ReplayedTree, RebuiltLast DEF TreeInv, ReplayRebuilds
<1> QED
  BY <1>1, <1>2, <1>3, PTL DEF Spec

(* --------------------------------- habits -------------------------------- *)

\* A side with a votes against b is predicted; one more vote for it never
\* withdraws that, and only makes its own.
LEMMA OneVote ==
    ASSUME NEW a \in Nat, NEW b \in Nat
    PROVE  /\ IsConfident(a, a + b) => IsConfident(a + 1, (a + 1) + b)
           /\ IsConfident(b, (a + 1) + b) => IsConfident(b, a + b)
           /\ IsConfident(b, a + b) => ~IsConfident(a + 1, (a + 1) + b)
           /\ ~(IsConfident(a, a + b) /\ IsConfident(b, a + b))
BY SMT DEF IsConfident, MinObservations

\* The first one neither makes a habit nor withdraws the other side's.
LEMMA FirstVote ==
    ASSUME NEW a \in Nat, NEW b \in Nat, a = 0
    PROVE  /\ ~IsConfident(a + 1, (a + 1) + b)
           /\ IsConfident(b, a + b) => IsConfident(b, (a + 1) + b)
BY SMT DEF IsConfident, MinObservations

LEMMA PredictedIs ==
    ASSUME NEW habit \in [Direction -> Nat], NEW axis \in Axes
    PROVE  /\ axis[1] \in Direction /\ axis[2] \in Direction /\ axis[1] # axis[2]
           /\ Other(axis[1]) = axis[2] /\ Other(axis[2]) = axis[1]
           /\ \A d \in {axis[1], axis[2]} :
                d \in ToSet(Predicted(habit, axis))
                  <=> IsConfident(habit[d], habit[d] + habit[Other(d)])
           /\ ToSet(Predicted(habit, axis)) \subseteq {axis[1], axis[2]}
<1>1. /\ axis[1] \in Direction /\ axis[2] \in Direction /\ axis[1] # axis[2]
      /\ Other(axis[1]) = axis[2] /\ Other(axis[2]) = axis[1]
  <2>1. axis = <<"Left", "Right">> \/ axis = <<"Up", "Down">>
    BY DEF Axes
  <2>2. /\ <<"Left", "Right">>[1] = "Left" /\ <<"Left", "Right">>[2] = "Right"
        /\ <<"Up", "Down">>[1] = "Up" /\ <<"Up", "Down">>[2] = "Down"
    OBVIOUS
  <2>3. \A d, e \in Direction :
          (\E x \in Axes : {d, e} = {x[1], x[2]})
            <=> {d, e} = {"Left", "Right"} \/ {d, e} = {"Up", "Down"}
    BY <2>2 DEF Axes
  <2>4. /\ Other("Left") = "Right" /\ Other("Right") = "Left"
        /\ Other("Up") = "Down" /\ Other("Down") = "Up"
    <3>1. Direction = {"Left", "Right", "Up", "Down"}
      BY DEF Direction
    <3>2. \A e \in Direction : {"Left", e} = {"Left", "Right"} \/ {"Left", e} = {"Up", "Down"} <=> e = "Right"
      BY <3>1
    <3>3. \A e \in Direction : {"Right", e} = {"Left", "Right"} \/ {"Right", e} = {"Up", "Down"} <=> e = "Left"
      BY <3>1
    <3>4. \A e \in Direction : {"Up", e} = {"Left", "Right"} \/ {"Up", e} = {"Up", "Down"} <=> e = "Down"
      BY <3>1
    <3>5. \A e \in Direction : {"Down", e} = {"Left", "Right"} \/ {"Down", e} = {"Up", "Down"} <=> e = "Up"
      BY <3>1
    <3>6. Other("Left") = "Right"
      <4>1. \A e \in Direction : (\E x \in Axes : {"Left", e} = {x[1], x[2]}) <=> e = "Right"
        BY <2>3, <3>1, <3>2
      <4> QED
        BY <3>1, <4>1 DEF Other
    <3>7. Other("Right") = "Left"
      BY <2>3, <3>1, <3>3 DEF Other
    <3>8. Other("Up") = "Down"
      BY <2>3, <3>1, <3>4 DEF Other
    <3>9. Other("Down") = "Up"
      BY <2>3, <3>1, <3>5 DEF Other
    <3> QED
      BY <3>6, <3>7, <3>8, <3>9
  <2> QED
    BY <2>1, <2>2, <2>4 DEF Direction
<1> DEFINE x == axis[1]
           y == axis[2]
<1>2. PICK a \in Nat, b \in Nat : a = habit[x] /\ b = habit[y]
  BY <1>1
<1>3. a + b = b + a
  BY <1>2, SMT
<1>4. ~(IsConfident(a, a + b) /\ IsConfident(b, a + b))
  BY <1>2, OneVote
<1>5. ToSet(Predicted(habit, axis)) = {d \in {x} : IsConfident(a, a + b)} \cup {d \in {y} : IsConfident(b, a + b)}
  <2>1. ToSet(<<>>) = {} /\ ToSet(<<x>>) = {x} /\ ToSet(<<y>>) = {y}
    <3>1. DOMAIN <<>> = {} /\ DOMAIN <<x>> = {1} /\ DOMAIN <<y>> = {1} /\ <<x>>[1] = x /\ <<y>>[1] = y
      BY SMT
    <3> QED
      BY <3>1 DEF ToSet
  <2>2. CASE IsConfident(a, a + b)
    <3>1. Predicted(habit, axis) = <<x>>
      BY <1>2, <1>4, <2>2 DEF Predicted
    <3> QED
      BY <1>4, <2>1, <2>2, <3>1
  <2>3. CASE ~IsConfident(a, a + b) /\ IsConfident(b, a + b)
    <3>1. Predicted(habit, axis) = <<y>>
      BY <1>2, <2>3 DEF Predicted
    <3> QED
      BY <2>1, <2>3, <3>1
  <2>4. CASE ~IsConfident(a, a + b) /\ ~IsConfident(b, a + b)
    <3>1. Predicted(habit, axis) = <<>>
      BY <1>2, <2>4 DEF Predicted
    <3> QED
      BY <2>1, <2>4, <3>1
  <2> QED
    BY <2>2, <2>3, <2>4
<1>6. /\ habit[x] + habit[Other(x)] = a + b /\ habit[x] = a
      /\ habit[y] + habit[Other(y)] = a + b /\ habit[y] = b
  BY <1>1, <1>2, <1>3
<1> QED
  BY <1>1, <1>5, <1>6

\* A vote for either side of an axis makes and turns no other habit of it.
LEMMA SideEarned ==
    ASSUME NEW habit \in [Direction -> Nat], NEW axis \in Axes, NEW sides, sides \subseteq Direction,
           NEW d \in {axis[1], axis[2]}, d \in sides, Other(d) \notin sides
    PROVE  LET before == ToSet(Predicted(habit, axis))
               after == ToSet(Predicted(RecordPositionMove(habit, sides), axis))
           IN  /\ after \subseteq before \cup {d}
               /\ d \in before => d \in after
               /\ Other(d) \in before => d \notin after
               /\ habit[d] = 0 => d \notin after /\ (Other(d) \in before => Other(d) \in after)
<1> DEFINE next == RecordPositionMove(habit, sides)
           o == Other(d)
           before == ToSet(Predicted(habit, axis))
           after == ToSet(Predicted(next, axis))
<1>1. next \in [Direction -> Nat]
  BY DEF RecordPositionMove
<1>2. /\ d \in Direction /\ o \in Direction /\ d # o /\ {axis[1], axis[2]} = {d, o} /\ Other(o) = d
  BY PredictedIs
<1>3. PICK a \in Nat, b \in Nat : a = habit[d] /\ b = habit[o]
  BY <1>2
<1>4. next[d] = a + 1 /\ next[o] = b
  BY <1>2, <1>3 DEF RecordPositionMove
<1>5. /\ d \in before <=> IsConfident(a, a + b)
      /\ o \in before <=> IsConfident(b, a + b)
      /\ before \subseteq {d, o}
  <2>1. b + a = a + b
    BY <1>3, SMT
  <2> QED
    BY <1>2, <1>3, <2>1, PredictedIs
<1>6. /\ d \in after <=> IsConfident(a + 1, (a + 1) + b)
      /\ o \in after <=> IsConfident(b, (a + 1) + b)
      /\ after \subseteq {d, o}
  <2>1. b + (a + 1) = (a + 1) + b
    BY <1>3, SMT
  <2> HIDE DEF next
  <2> QED
    BY <1>1, <1>2, <1>4, <2>1, PredictedIs
<1> HIDE DEF before, after, o
<1>7. /\ after \subseteq before \cup {d}
      /\ d \in before => d \in after
      /\ o \in before => d \notin after
  BY <1>3, <1>5, <1>6, OneVote
<1>8. ASSUME a = 0 PROVE d \notin after /\ (o \in before => o \in after)
  <2>1. /\ ~IsConfident(a + 1, (a + 1) + b)
        /\ IsConfident(b, a + b) => IsConfident(b, (a + 1) + b)
    BY <1>3, <1>8, FirstVote
  <2> QED
    BY <1>5, <1>6, <2>1
<1> QED
  BY <1>3, <1>7, <1>8 DEF before, after, o

\* Wherever a window is, its vote is for one side of each axis.
LEMMA SidesAreEarned ==
    ASSUME NEW rect, NEW workArea
    PROVE  SideIsEarned(rect, workArea)
<1> SUFFICES ASSUME PositionVotes(rect, workArea) # {}
             PROVE  EarnedBy[PositionVotes(rect, workArea)]
  BY DEF SideIsEarned
<1>1. PICK across \in {"Left", "Right"}, along \in {"Up", "Down"} :
        PositionVotes(rect, workArea) = {across, along}
  BY DEF PositionVotes, Sides
<1> DEFINE sides == {across, along}
<1>2. SUFFICES ASSUME NEW pair \in OneAxis
               PROVE  LET axis == pair[1]
                          before == ToSet(Predicted(pair[2], axis))
                          after == ToSet(Predicted(RecordPositionMove(pair[2], sides), axis))
                      IN  \E d \in sides \cap {axis[1], axis[2]} :
                            /\ after \subseteq before \cup {d}
                            /\ d \in before => d \in after
                            /\ Other(d) \in before => d \notin after
                            /\ pair[2][d] = 0 => d \notin after /\ (Other(d) \in before => Other(d) \in after)
  BY <1>1 DEF EarnedBy
<1>3. pair[1] \in Axes /\ pair[2] \in [Direction -> Nat]
  <2>1. pair \in Axes \X Habits
    BY DEF OneAxis
  <2>2. MaxVotes \in Nat
    BY HabitsAssumption
  <2>3. \A m \in 0..MaxVotes : m \in Nat
    BY <2>2, SMT
  <2>4. pair[1] \in Axes /\ pair[2] \in [Direction -> 0..MaxVotes]
    BY <2>1 DEF Habits
  <2> QED
    BY <2>3, <2>4
<1>4. PICK d \in {pair[1][1], pair[1][2]} : d \in sides /\ Other(d) \notin sides
  <2>1. pair[1] = <<"Left", "Right">> \/ pair[1] = <<"Up", "Down">>
    BY <1>3 DEF Axes
  <2>2. /\ <<"Left", "Right">>[1] = "Left" /\ <<"Left", "Right">>[2] = "Right"
        /\ <<"Up", "Down">>[1] = "Up" /\ <<"Up", "Down">>[2] = "Down"
    OBVIOUS
  <2>3. Other(pair[1][1]) = pair[1][2] /\ Other(pair[1][2]) = pair[1][1]
    BY <1>3, PredictedIs
  <2>4. CASE pair[1] = <<"Left", "Right">>
    BY <2>2, <2>3, <2>4
  <2>5. CASE pair[1] = <<"Up", "Down">>
    BY <2>2, <2>3, <2>5
  <2> QED
    BY <2>1, <2>4, <2>5
<1>5. sides \subseteq Direction
  BY DEF Direction
<1> HIDE DEF sides
<1> QED
  BY <1>3, <1>4, <1>5, SideEarned

(* The votes for the workspaces W, one by one *)
Ballots(votes, W) == {ballot \in W \X (Nat \ {0}) : ballot[2] <= votes[ballot[1]]}
Total(votes) == Cardinality(Ballots(votes, VotedWorkspaces))

LEMMA BallotsAdded ==
    ASSUME NEW votes, NEW W, IsFiniteSet(Ballots(votes, W)), NEW id, id \notin W, votes[id] \in Nat
    PROVE  /\ IsFiniteSet(Ballots(votes, W \cup {id}))
           /\ Cardinality(Ballots(votes, W \cup {id})) = Cardinality(Ballots(votes, W)) + votes[id]
           /\ Cardinality(Ballots(votes, W)) \in Nat
<1> DEFINE own == {id} \X (1..votes[id])
<1>1. IsFiniteSet({id}) /\ Cardinality({id}) = 1
  BY FS_Singleton
<1>2. IsFiniteSet(1..votes[id]) /\ Cardinality(1..votes[id]) = votes[id]
  <2>1. 1 \in Int /\ votes[id] \in Int
    BY SMT
  <2>2. IsFiniteSet(1..votes[id]) /\ Cardinality(1..votes[id]) = IF 1 > votes[id] THEN 0 ELSE votes[id] - 1 + 1
    BY <2>1, FS_Interval
  <2>3. (IF 1 > votes[id] THEN 0 ELSE votes[id] - 1 + 1) = votes[id]
    BY SMT
  <2> QED
    BY <2>2, <2>3
<1>3. IsFiniteSet(own) /\ Cardinality(own) = votes[id]
  <2>1. IsFiniteSet(own) /\ Cardinality(own) = Cardinality({id}) * Cardinality(1..votes[id])
    BY <1>1, <1>2, FS_Product
  <2>2. 1 * votes[id] = votes[id]
    BY SMT
  <2> QED
    BY <1>1, <1>2, <2>1, <2>2
<1>4. Ballots(votes, W \cup {id}) = Ballots(votes, W) \cup own
  <2>1. \A n : n \in 1..votes[id] <=> n \in Nat \ {0} /\ n <= votes[id]
    BY SMT
  <2>2. own = {ballot \in {id} \X (Nat \ {0}) : ballot[2] <= votes[id]}
    BY <2>1
  <2> HIDE DEF own
  <2> QED
    BY <2>2 DEF Ballots
<1>5. Ballots(votes, W) \cap own = {}
  BY DEF Ballots
<1> HIDE DEF own
<1>6. Cardinality(Ballots(votes, W) \cap own) = 0
  BY <1>5, FS_EmptySet
<1>7. Cardinality(Ballots(votes, W)) \in Nat
  BY FS_CardinalityType
<1>8. /\ IsFiniteSet(Ballots(votes, W) \cup own)
      /\ Cardinality(Ballots(votes, W) \cup own) = Cardinality(Ballots(votes, W)) + votes[id] - 0
  BY <1>3, <1>6, FS_Union
<1>9. Cardinality(Ballots(votes, W)) + votes[id] - 0 = Cardinality(Ballots(votes, W)) + votes[id]
  BY <1>7, SMT
<1> QED
  BY <1>4, <1>7, <1>8, <1>9

LEMMA NoBallots ==
    ASSUME NEW votes
    PROVE  IsFiniteSet(Ballots(votes, {})) /\ Cardinality(Ballots(votes, {})) = 0
<1>1. Ballots(votes, {}) = {}
  BY DEF Ballots
<1> QED
  BY <1>1, FS_EmptySet

(* The count is a recursive function over the workspaces. *)
IsCount(f, len, votes, order) ==
    f = [n \in 0..len |-> IF n = 0 THEN [best |-> 0, most |-> 0, total |-> 0]
                           ELSE Counted(votes, f[n - 1], order[n])]

LEMMA CountExists ==
    ASSUME NEW len \in Nat, NEW votes, NEW order
    PROVE  \E f : IsCount(f, len, votes, order)
<1> DEFINE none == [best |-> 0, most |-> 0, total |-> 0]
<1>1. PICK first : first = none
  OBVIOUS
<1> HIDE DEF none
<1> DEFINE T == {k \in Nat : \E f : IsCount(f, k, votes, order)}
<1>2. \A f, k : IsCount(f, k, votes, order)
                  <=> f = [i \in 0..k |-> IF i = 0 THEN first ELSE Counted(votes, f[i - 1], order[i])]
  BY <1>1 DEF IsCount, none
<1>3. 0 \in T
  <2> DEFINE f == [i \in 0..0 |-> first]
  <2>1. \A i \in 0..0 : i = 0
    BY SMT
  <2>2. f = [i \in 0..0 |-> IF i = 0 THEN first ELSE Counted(votes, f[i - 1], order[i])]
    BY <2>1
  <2> QED
    BY <1>2, <2>2
<1>4. ASSUME NEW k \in T PROVE k + 1 \in T
  <2>1. k \in Nat /\ k + 1 \in Nat
    OBVIOUS
  <2>2. PICK f : IsCount(f, k, votes, order)
    OBVIOUS
  <2>3. f = [i \in 0..k |-> IF i = 0 THEN first ELSE Counted(votes, f[i - 1], order[i])]
    BY <1>2, <2>2
  <2> DEFINE g == [i \in 0..(k + 1) |-> IF i = k + 1 THEN Counted(votes, f[k], order[i]) ELSE f[i]]
  <2>4. ASSUME NEW i \in 0..(k + 1)
        PROVE  g[i] = IF i = 0 THEN first ELSE Counted(votes, g[i - 1], order[i])
    <3>1. CASE i = 0
      BY <2>1, <2>3, <3>1, SMT
    <3>2. CASE i # 0 /\ i # k + 1
      BY <2>1, <2>3, <3>2, SMT
    <3>3. CASE i = k + 1
      BY <2>1, <2>3, <3>3, SMT
    <3> QED
      BY <3>1, <3>2, <3>3
  <2>5. g = [i \in 0..(k + 1) |-> IF i = 0 THEN first ELSE Counted(votes, g[i - 1], order[i])]
    BY <2>1, <2>4
  <2>6. IsCount(g, k + 1, votes, order)
    BY <1>2, <2>5
  <2> QED
    BY <2>1, <2>6
<1> HIDE DEF T
<1>5. T = Nat
  <2>1. T \in SUBSET Nat
    BY DEF T
  <2> QED
    BY <2>1, <1>3, <1>4, Induction
<1> QED
  BY <1>5 DEF T

\* An order of the workspaces names each of them once.
LEMMA OrderOfWorkspaces ==
    ASSUME NEW order \in SetToSeqs(VotedWorkspaces)
    PROVE  LET len == Cardinality(VotedWorkspaces)
           IN  /\ len \in Nat /\ Len(order) = len /\ order \in [1..len -> VotedWorkspaces]
               /\ \A i, j \in 1..len : order[i] = order[j] => i = j
               /\ \A id \in VotedWorkspaces : \E i \in 1..len : order[i] = id
<1> DEFINE len == Cardinality(VotedWorkspaces)
<1>1. IsFiniteSet(VotedWorkspaces) /\ len \in Nat
  BY HabitsAssumption, FS_CardinalityType
<1>2. /\ order \in [1..len -> VotedWorkspaces]
      /\ \A i, j \in 1..len : i # j => order[i] # order[j]
  BY DEF SetToSeqs
<1> HIDE DEF len
<1>3. Len(order) = len
  BY <1>1, <1>2
<1>4. order \in Injection(1..len, VotedWorkspaces)
  BY <1>2 DEF Injection, IsInjective
<1>5. IsFiniteSet(1..len) /\ Cardinality(1..len) = len
  <2>1. 1 \in Int /\ len \in Int
    BY <1>1, SMT
  <2>2. IsFiniteSet(1..len) /\ Cardinality(1..len) = IF 1 > len THEN 0 ELSE len - 1 + 1
    BY <2>1, FS_Interval
  <2>3. (IF 1 > len THEN 0 ELSE len - 1 + 1) = len
    BY <1>1, SMT
  <2> QED
    BY <2>2, <2>3
<1>6. order \in Surjection(1..len, VotedWorkspaces)
  BY <1>1, <1>4, <1>5, FS_Injection DEF len
<1>7. \A id \in VotedWorkspaces : \E i \in 1..len : order[i] = id
  BY <1>6 DEF Surjection
<1> QED
  BY <1>1, <1>2, <1>3, <1>7 DEF len

LEMMA SomeOrder == SetToSeqs(VotedWorkspaces) # {}
<1>1. ExistsBijection(1..Cardinality(VotedWorkspaces), VotedWorkspaces)
  BY HabitsAssumption, FS_CardinalityType
<1>2. PICK f : f \in Bijection(1..Cardinality(VotedWorkspaces), VotedWorkspaces)
  BY <1>1 DEF ExistsBijection
<1>3. /\ f \in [1..Cardinality(VotedWorkspaces) -> VotedWorkspaces]
      /\ \A i, j \in 1..Cardinality(VotedWorkspaces) : f[i] = f[j] => i = j
  BY <1>2 DEF Bijection, Injection, IsInjective
<1>4. f \in SetToSeqs(VotedWorkspaces)
  BY <1>3 DEF SetToSeqs
<1> QED
  BY <1>4

\* What the count comes to does not depend on the order.
LEMMA CountIs ==
    ASSUME NEW votes \in [VotedWorkspaces -> Nat], NEW order \in SetToSeqs(VotedWorkspaces)
    PROVE  \E all : /\ PredictedIn(votes, order) = IF IsConfident(all.most, all.total) THEN all.best ELSE 0
                    /\ all.total = Total(votes) /\ all.total \in Nat /\ all.most \in Nat
                    /\ IsFiniteSet(Ballots(votes, VotedWorkspaces))
                    /\ \A id \in VotedWorkspaces : votes[id] <= all.most
                    /\ (all.best \in VotedWorkspaces /\ votes[all.best] = all.most) \/ all.most = 0
<1> DEFINE len == Cardinality(VotedWorkspaces)
           Seen(k) == {order[i] : i \in 1..k}
           count == CHOOSE f : IsCount(f, len, votes, order)
           IsAll(all, W) ==
             /\ all.total = Cardinality(Ballots(votes, W)) /\ all.total \in Nat /\ all.most \in Nat
             /\ IsFiniteSet(Ballots(votes, W))
             /\ \A id \in W : votes[id] <= all.most
             /\ (all.best \in W /\ votes[all.best] = all.most) \/ all.most = 0
<1>1. /\ len \in Nat /\ Len(order) = len /\ order \in [1..len -> VotedWorkspaces]
      /\ \A i, j \in 1..len : order[i] = order[j] => i = j
      /\ \A id \in VotedWorkspaces : \E i \in 1..len : order[i] = id
  BY OrderOfWorkspaces
<1>2. IsCount(count, len, votes, order)
  BY <1>1, CountExists
<1>3. PredictedIn(votes, order) = IF IsConfident(count[len].most, count[len].total) THEN count[len].best ELSE 0
  BY <1>1 DEF PredictedIn, IsCount
<1>4. count = [n \in 0..len |-> IF n = 0 THEN [best |-> 0, most |-> 0, total |-> 0]
                                ELSE Counted(votes, count[n - 1], order[n])]
  BY <1>2 DEF IsCount
<1> HIDE DEF count, len
<1> DEFINE T == {k \in Nat : k <= len => IsAll(count[k], Seen(k))}
<1>5. 0 \in T
  <2>1. Seen(0) = {}
    BY SMT
  <2>2. 0 \in 0..len /\ 0 \in Nat
    BY <1>1, SMT
  <2>3. count[0] = [best |-> 0, most |-> 0, total |-> 0]
    BY <1>4, <2>2
  <2>4. IsAll(count[0], {})
    BY <2>2, <2>3, NoBallots
  <2> HIDE DEF IsAll, Seen
  <2> QED
    BY <2>1, <2>2, <2>4
<1>6. ASSUME NEW k \in T PROVE k + 1 \in T
  <2>1. SUFFICES ASSUME k + 1 <= len PROVE IsAll(count[k + 1], Seen(k + 1))
    BY SMT
  <2>2. /\ k \in Nat /\ k <= len /\ k + 1 \in 1..len /\ k + 1 \in 0..len /\ k + 1 # 0
        /\ (k + 1) - 1 = k /\ 1..(k + 1) = (1..k) \cup {k + 1} /\ 1..k \subseteq 1..len
        /\ k + 1 \notin 1..k
    BY <1>1, <2>1, SMT
  <2>3. IsAll(count[k], Seen(k))
    BY <2>2
  <2> DEFINE id == order[k + 1]
  <2>4. Seen(k + 1) = Seen(k) \cup {id}
    BY <2>2
  <2>5. id \notin Seen(k) /\ votes[id] \in Nat
    BY <1>1, <2>2
  <2>6. count[k + 1] = Counted(votes, count[k], id)
    BY <1>4, <2>2
  <2>7. PICK W, c, n : W = Seen(k) /\ c = count[k] /\ n = count[k + 1]
    OBVIOUS
  <2> HIDE DEF id, Seen
  <2>8. /\ n.best = (IF votes[id] > c.most THEN id ELSE c.best)
        /\ n.most = (IF votes[id] > c.most THEN votes[id] ELSE c.most)
        /\ n.total = c.total + votes[id]
    BY <2>6, <2>7 DEF Counted
  <2>9. /\ c.total = Cardinality(Ballots(votes, W)) /\ c.total \in Nat /\ c.most \in Nat
        /\ IsFiniteSet(Ballots(votes, W))
        /\ \A x \in W : votes[x] <= c.most
        /\ (c.best \in W /\ votes[c.best] = c.most) \/ c.most = 0
    BY <2>3, <2>7
  <2>10. /\ IsFiniteSet(Ballots(votes, W \cup {id}))
         /\ Cardinality(Ballots(votes, W \cup {id})) = c.total + votes[id]
    BY <2>5, <2>7, <2>9, BallotsAdded
  <2>11. n.total \in Nat /\ n.most \in Nat
    BY <2>5, <2>8, <2>9, SMT
  <2>12. W \subseteq VotedWorkspaces
    BY <1>1, <2>2, <2>7 DEF Seen
  <2>13. ASSUME NEW x \in W \cup {id} PROVE votes[x] <= n.most
    <3>1. CASE x = id
      BY <2>5, <2>8, <2>9, <3>1, SMT
    <3>2. CASE x \in W
      <4>1. votes[x] \in Nat /\ votes[x] <= c.most
        BY <2>9, <2>12, <3>2
      <4> QED
        BY <2>5, <2>8, <2>9, <4>1, SMT
    <3> QED
      BY <3>1, <3>2
  <2>14. (n.best \in W \cup {id} /\ votes[n.best] = n.most) \/ n.most = 0
    BY <2>8, <2>9
  <2>15. IsAll(n, W \cup {id})
    BY <2>8, <2>10, <2>11, <2>13, <2>14
  <2> QED
    BY <2>4, <2>7, <2>15
<1>7. T \in SUBSET Nat
  OBVIOUS
<1> HIDE DEF T
<1>8. T = Nat
  BY <1>5, <1>6, <1>7, Induction
<1>9. len \in T /\ len <= len
  BY <1>1, <1>8, SMT
<1>10. Seen(len) = VotedWorkspaces
  BY <1>1
<1>11. IsAll(count[len], VotedWorkspaces)
  BY <1>9, <1>10 DEF T
<1> QED
  BY <1>3, <1>11 DEF Total

\* No two workspaces have more votes than there are.
LEMMA TotalFacts ==
    ASSUME NEW votes \in [VotedWorkspaces -> Nat]
    PROVE  /\ IsFiniteSet(Ballots(votes, VotedWorkspaces)) /\ Total(votes) \in Nat
           /\ \A id \in VotedWorkspaces : votes[id] <= Total(votes)
           /\ \A id, other \in VotedWorkspaces : id # other => votes[id] + votes[other] <= Total(votes)
<1>1. IsFiniteSet(Ballots(votes, VotedWorkspaces)) /\ Total(votes) \in Nat
  BY SomeOrder, CountIs
<1>2. IsFiniteSet(Ballots(votes, {})) /\ Cardinality(Ballots(votes, {})) = 0
  BY NoBallots
<1>3. ASSUME NEW id \in VotedWorkspaces
      PROVE  /\ IsFiniteSet(Ballots(votes, {id})) /\ Cardinality(Ballots(votes, {id})) = votes[id]
             /\ votes[id] <= Total(votes)
  <2>1. /\ IsFiniteSet(Ballots(votes, {} \cup {id}))
        /\ Cardinality(Ballots(votes, {} \cup {id})) = Cardinality(Ballots(votes, {})) + votes[id]
    BY <1>2, BallotsAdded
  <2>2. {} \cup {id} = {id} /\ 0 + votes[id] = votes[id]
    BY SMT
  <2>3. Ballots(votes, {id}) \in SUBSET Ballots(votes, VotedWorkspaces)
    BY DEF Ballots
  <2>4. Cardinality(Ballots(votes, {id})) <= Total(votes)
    BY <1>1, <2>3, FS_Subset DEF Total
  <2> QED
    BY <1>2, <2>1, <2>2, <2>4
<1>4. ASSUME NEW id \in VotedWorkspaces, NEW other \in VotedWorkspaces, id # other
      PROVE  votes[id] + votes[other] <= Total(votes)
  <2>1. Cardinality(Ballots(votes, {id} \cup {other})) = votes[id] + votes[other]
    <3>1. PICK W : W = {id}
      OBVIOUS
    <3>2. other \notin W /\ votes[other] \in Nat /\ IsFiniteSet(Ballots(votes, W))
      BY <1>3, <1>4, <3>1
    <3>3. Cardinality(Ballots(votes, W \cup {other})) = Cardinality(Ballots(votes, W)) + votes[other]
      BY <3>2, BallotsAdded
    <3> QED
      BY <1>3, <3>1, <3>3
  <2>2. Ballots(votes, {id} \cup {other}) \in SUBSET Ballots(votes, VotedWorkspaces)
    BY DEF Ballots
  <2>3. Cardinality(Ballots(votes, {id} \cup {other})) <= Total(votes)
    BY <1>1, <2>2, FS_Subset DEF Total
  <2> QED
    BY <2>1, <2>3
<1> QED
  BY <1>1, <1>3, <1>4

LEMMA TotalOfOne ==
    ASSUME NEW votes \in [VotedWorkspaces -> Nat], NEW id \in VotedWorkspaces,
           \A x \in VotedWorkspaces \ {id} : votes[x] = 0
    PROVE  Total(votes) = votes[id]
<1>1. IsFiniteSet(Ballots(votes, {})) /\ Cardinality(Ballots(votes, {})) = 0
  BY NoBallots
<1>2. Cardinality(Ballots(votes, {} \cup {id})) = Cardinality(Ballots(votes, {})) + votes[id]
  BY <1>1, BallotsAdded
<1>3. {} \cup {id} = {id} /\ 0 + votes[id] = votes[id]
  BY SMT
<1>4. ASSUME NEW x \in VotedWorkspaces \ {id}, NEW n \in Nat \ {0} PROVE ~(n <= votes[x])
  <2>1. votes[x] = 0
    BY <1>4
  <2> QED
    BY <2>1, SMT
<1>5. Ballots(votes, VotedWorkspaces) = Ballots(votes, {id})
  BY <1>4 DEF Ballots
<1> QED
  BY <1>1, <1>2, <1>3, <1>5 DEF Total

\* Whether a workspace has the majority it takes
Sure(votes, id) == IsConfident(votes[id], Total(votes))

\* What is predicted: the workspace that has the majority, 0 if none has it.
LEMMA WorkspaceIs ==
    ASSUME NEW votes \in [VotedWorkspaces -> Nat]
    PROVE  \E p : /\ PredictWorkspace(votes) = {p}
                  /\ \/ p \in VotedWorkspaces /\ Sure(votes, p)
                     \/ p = 0 /\ \A id \in VotedWorkspaces : ~Sure(votes, id)
                  /\ \A id \in VotedWorkspaces : Sure(votes, id) <=> p = id
<1> DEFINE IsIt(p) == \/ p \in VotedWorkspaces /\ Sure(votes, p)
                      \/ p = 0 /\ \A id \in VotedWorkspaces : ~Sure(votes, id)
<1>1. /\ Total(votes) \in Nat /\ 0 \notin VotedWorkspaces
      /\ \A id, other \in VotedWorkspaces : id # other => votes[id] + votes[other] <= Total(votes)
  BY TotalFacts, HabitsAssumption
<1>2. ASSUME NEW id \in VotedWorkspaces, NEW other \in VotedWorkspaces, Sure(votes, id), Sure(votes, other)
      PROVE  id = other
  <2>1. SUFFICES ASSUME id # other PROVE FALSE
    OBVIOUS
  <2>2. votes[id] \in Nat /\ votes[other] \in Nat /\ votes[id] + votes[other] <= Total(votes)
    BY <1>1, <2>1
  <2>3. IsConfident(votes[id], Total(votes)) /\ IsConfident(votes[other], Total(votes))
    BY <1>2 DEF Sure
  <2> QED
    BY <1>1, <2>2, <2>3, SMT DEF IsConfident, MinObservations
<1>3. ASSUME NEW order \in SetToSeqs(VotedWorkspaces) PROVE IsIt(PredictedIn(votes, order))
  <2>1. PICK all : /\ PredictedIn(votes, order) = IF IsConfident(all.most, all.total) THEN all.best ELSE 0
                   /\ all.total = Total(votes) /\ all.total \in Nat /\ all.most \in Nat
                   /\ \A id \in VotedWorkspaces : votes[id] <= all.most
                   /\ (all.best \in VotedWorkspaces /\ votes[all.best] = all.most) \/ all.most = 0
    BY CountIs
  <2>2. CASE IsConfident(all.most, all.total)
    <3>1. all.most # 0
      BY <2>1, <2>2, SMT DEF IsConfident, MinObservations
    <3> QED
      BY <2>1, <2>2, <3>1 DEF Sure
  <2>3. CASE ~IsConfident(all.most, all.total)
    <3>1. ASSUME NEW id \in VotedWorkspaces, Sure(votes, id) PROVE FALSE
      <4>1. votes[id] \in Nat /\ votes[id] <= all.most /\ IsConfident(votes[id], all.total)
        BY <2>1, <3>1 DEF Sure
      <4>2. all.total \in Nat /\ all.most \in Nat
        BY <2>1
      <4> QED
        BY <2>3, <4>1, <4>2, SMT DEF IsConfident, MinObservations
    <3> QED
      BY <2>1, <2>3, <3>1
  <2> QED
    BY <2>2, <2>3
<1>4. \A p, q : IsIt(p) /\ IsIt(q) => p = q
  BY <1>2
<1>5. PICK order \in SetToSeqs(VotedWorkspaces) : TRUE
  BY SomeOrder
<1> DEFINE p == PredictedIn(votes, order)
<1>6. IsIt(p)
  BY <1>3
<1>7. PredictWorkspace(votes) = {p}
  <2> HIDE DEF IsIt
  <2> QED
    BY <1>3, <1>4, <1>6 DEF PredictWorkspace
<1>8. \A id \in VotedWorkspaces : Sure(votes, id) <=> p = id
  BY <1>1, <1>2, <1>6
<1> HIDE DEF p
<1> QED
  BY <1>6, <1>7, <1>8

\* One more vote is one more in all.
LEMMA TotalGrows ==
    ASSUME NEW votes \in [VotedWorkspaces -> Nat], NEW id \in VotedWorkspaces,
           NEW next, next = RecordWorkspaceMove(votes, id)
    PROVE  /\ next \in [VotedWorkspaces -> Nat] /\ next[id] = votes[id] + 1
           /\ \A other \in VotedWorkspaces \ {id} : next[other] = votes[other]
           /\ Total(next) = Total(votes) + 1
<1>1. /\ next \in [VotedWorkspaces -> Nat] /\ next[id] = votes[id] + 1
      /\ \A other \in VotedWorkspaces \ {id} : next[other] = votes[other]
  BY DEF RecordWorkspaceMove
<1> DEFINE ballot == <<id, votes[id] + 1>>
<1>2. Ballots(next, VotedWorkspaces) = Ballots(votes, VotedWorkspaces) \cup {ballot}
  <2>1. \A n \in Nat \ {0} : n <= votes[id] + 1 <=> n <= votes[id] \/ n = votes[id] + 1
    <3>1. votes[id] \in Nat
      OBVIOUS
    <3> QED
      BY <3>1, SMT
  <2>2. ballot \in VotedWorkspaces \X (Nat \ {0})
    <3>1. votes[id] \in Nat
      OBVIOUS
    <3>2. votes[id] + 1 \in Nat \ {0}
      BY <3>1, SMT
    <3> QED
      BY <3>2
  <2>3. ASSUME NEW x \in VotedWorkspaces \X (Nat \ {0})
        PROVE  x[2] <= next[x[1]] <=> x[2] <= votes[x[1]] \/ x = ballot
    <3>1. CASE x[1] = id
      BY <1>1, <2>1, <3>1
    <3>2. CASE x[1] # id
      BY <1>1, <3>2
    <3> QED
      BY <3>1, <3>2
  <2> HIDE DEF ballot
  <2> QED
    BY <2>2, <2>3 DEF Ballots
<1>3. ballot \notin Ballots(votes, VotedWorkspaces)
  <2>1. ~(votes[id] + 1 <= votes[id])
    <3>1. votes[id] \in Nat
      OBVIOUS
    <3> QED
      BY <3>1, SMT
  <2> QED
    BY <2>1 DEF Ballots
<1>4. IsFiniteSet(Ballots(votes, VotedWorkspaces))
  BY TotalFacts
<1> HIDE DEF ballot
<1>5. Total(next) = Total(votes) + 1
  BY <1>2, <1>3, <1>4, FS_AddElement DEF Total
<1> QED
  BY <1>1, <1>5

\* One vote makes no workspace's habit but its own, withdraws none that it
\* agrees with and turns none around, in whatever order they are counted.
LEMMA VotesAreEarned == WorkspacesAreEarned
<1> SUFFICES ASSUME NEW votes \in WorkspaceVotes, NEW id \in VotedWorkspaces
             PROVE  LET before == PredictWorkspace(votes)
                        after == PredictWorkspace(RecordWorkspaceMove(votes, id))
                    IN  /\ \E p \in before : before = {p}
                        /\ after \subseteq {0, id} \cup before
                        /\ id \in before => id \in after
                        /\ id \in after => before \subseteq {0, id}
                        /\ votes[id] = 0 => id \notin after
                        /\ \A w \in before \ {0, id} :
                             (\A x \in VotedWorkspaces \ {w} : votes[x] = 0) => w \in after
  BY DEF WorkspacesAreEarned
<1>1. votes \in [VotedWorkspaces -> Nat]
  <2>1. MaxVotes \in Nat
    BY HabitsAssumption
  <2>2. \A m \in 0..MaxVotes : m \in Nat
    BY <2>1, SMT
  <2> QED
    BY <2>2 DEF WorkspaceVotes
<1>2. PICK next : next = RecordWorkspaceMove(votes, id)
  OBVIOUS
<1>3. /\ next \in [VotedWorkspaces -> Nat] /\ next[id] = votes[id] + 1
      /\ \A other \in VotedWorkspaces \ {id} : next[other] = votes[other]
      /\ Total(next) = Total(votes) + 1
  BY <1>1, <1>2, TotalGrows
<1>4. PICK p : /\ PredictWorkspace(votes) = {p}
               /\ (p \in VotedWorkspaces /\ Sure(votes, p)) \/ p = 0
               /\ \A w \in VotedWorkspaces : Sure(votes, w) <=> p = w
  BY <1>1, WorkspaceIs
<1>5. PICK q : /\ PredictWorkspace(next) = {q}
               /\ (q \in VotedWorkspaces /\ Sure(next, q)) \/ q = 0
               /\ \A w \in VotedWorkspaces : Sure(next, w) <=> q = w
  BY <1>3, WorkspaceIs
<1>6. PICK m \in Nat, v \in Nat : m = Total(votes) /\ v = votes[id] /\ v <= m
  BY <1>1, TotalFacts
<1>7. /\ Sure(votes, id) <=> IsConfident(v, m)
      /\ Sure(next, id) <=> IsConfident(v + 1, m + 1)
  BY <1>3, <1>6 DEF Sure
<1>8. ASSUME NEW w \in VotedWorkspaces, w # id
      PROVE  \E o \in Nat : /\ o + v <= m
                            /\ Sure(votes, w) <=> IsConfident(o, m)
                            /\ Sure(next, w) <=> IsConfident(o, m + 1)
  <2>1. votes[w] \in Nat /\ votes[w] + v <= m
    BY <1>1, <1>6, <1>8, TotalFacts
  <2>2. Sure(votes, w) <=> IsConfident(votes[w], m)
    BY <1>6 DEF Sure
  <2>3. Sure(next, w) <=> IsConfident(votes[w], m + 1)
    BY <1>3, <1>6, <1>8 DEF Sure
  <2> QED
    BY <2>1, <2>2, <2>3
<1>9. q \in {0, id} \cup {p}
  <2> SUFFICES ASSUME q \in VotedWorkspaces, q # id, Sure(next, q) PROVE Sure(votes, q)
    BY <1>4, <1>5
  <2>1. PICK o \in Nat : /\ o + v <= m
                         /\ Sure(votes, q) <=> IsConfident(o, m)
                         /\ Sure(next, q) <=> IsConfident(o, m + 1)
    BY <1>8
  <2>2. IsConfident(o, m + 1) => IsConfident(o, m)
    BY <2>1, SMT DEF IsConfident, MinObservations
  <2> QED
    BY <2>1, <2>2
<1>10. p = id => q = id
  <2>1. IsConfident(v, m) => IsConfident(v + 1, m + 1)
    BY SMT DEF IsConfident, MinObservations
  <2> QED
    BY <1>4, <1>5, <1>7, <2>1
<1>11. q = id => p \in {0, id}
  <2> SUFFICES ASSUME Sure(next, id), p \in VotedWorkspaces, p # id, Sure(votes, p) PROVE FALSE
    BY <1>4, <1>5
  <2>1. PICK o \in Nat : o + v <= m /\ (Sure(votes, p) <=> IsConfident(o, m))
    BY <1>8
  <2>2. ~(IsConfident(o, m) /\ IsConfident(v + 1, m + 1))
    BY <2>1, SMT DEF IsConfident, MinObservations
  <2> QED
    BY <1>7, <2>1, <2>2
<1>12. v = 0 => q # id
  <2> SUFFICES ASSUME v = 0, IsConfident(v + 1, m + 1) PROVE FALSE
    BY <1>5, <1>7
  <2> QED
    BY SMT DEF IsConfident, MinObservations
<1>13. ASSUME p \notin {0, id}, \A x \in VotedWorkspaces \ {p} : votes[x] = 0
       PROVE  q = p
  <2>1. p \in VotedWorkspaces /\ Sure(votes, p)
    BY <1>4, <1>13
  <2>2. PICK o \in Nat : /\ Sure(votes, p) <=> IsConfident(o, m)
                         /\ Sure(next, p) <=> IsConfident(o, m + 1)
                         /\ o = votes[p]
    <3>1. votes[p] \in Nat
      BY <1>1, <2>1
    <3>2. Sure(votes, p) <=> IsConfident(votes[p], m)
      BY <1>6 DEF Sure
    <3>3. Sure(next, p) <=> IsConfident(votes[p], m + 1)
      BY <1>3, <1>6, <1>13, <2>1 DEF Sure
    <3> QED
      BY <3>1, <3>2, <3>3
  <2>3. o = m
    BY <1>1, <1>6, <1>13, <2>1, <2>2, TotalOfOne
  <2>4. IsConfident(o, m) => IsConfident(o, m + 1)
    BY <2>2, <2>3, SMT DEF IsConfident, MinObservations
  <2> QED
    BY <1>5, <2>1, <2>2, <2>4
<1> QED
  BY <1>2, <1>4, <1>5, <1>6, <1>9, <1>10, <1>11, <1>12, <1>13

(* ------------------------- the walk of the nudge ------------------------- *)

\* The leaves NeighborIn finds from leaf p
Found(t, slot, p, d) ==
    LET gap(q) == LargerOf(Gap(slot[p], slot[q], d), 0)
        overlap(q) == Overlap(slot[p], slot[q], d)
        ahead == {q \in Leaves(t) \ {p} : Gap(slot[p], slot[q], d) >= -1 /\ overlap(q) > 0}
        beats(q, o) == \/ gap(q) < gap(o)
                       \/ gap(q) = gap(o) /\ overlap(q) > overlap(o)
                       \/ gap(q) = gap(o) /\ overlap(q) = overlap(o) /\ WalkOrder(q, o)
    IN  {q \in ahead : \A o \in ahead \ {q} : beats(q, o)}

\* The windows on some leaves
On(t, F) == {t.leaf[q] : q \in F}

\* Whoever is on the leaves, the same are found.
LEMMA FoundLeaves ==
    ASSUME NEW t, NEW u, SameFrame(t, u), NEW slot, NEW p \in Leaves(t), NEW d,
           NEW F, F = Found(t, slot, p, d), NEW N, N = NeighborIn(u, slot, u.leaf[p], d)
    PROVE  N = On(u, F)
<1>1. IsTree(u) /\ Leaves(u) = Leaves(t)
  BY DEF SameFrame
<1>2. LeafOf(u, u.leaf[p]) = p
  BY <1>1, LeafOfLeaf
<1>3. F = Found(u, slot, p, d)
  BY <1>1 DEF Found
<1> QED
  BY <1>2, <1>3 DEF NeighborIn, Found, On

\* Only one is.
LEMMA OneIsFound ==
    ASSUME NEW t, IsTree(t), NEW slot, Tiled(slot, t), NEW p \in Leaves(t), NEW d \in Direction,
           NEW x \in Found(t, slot, p, d), NEW y \in Found(t, slot, p, d)
    PROVE  x = y
<1> SUFFICES ASSUME x # y PROVE FALSE
  OBVIOUS
<1> DEFINE gap(q) == LargerOf(Gap(slot[p], slot[q], d), 0)
           overlap(q) == Overlap(slot[p], slot[q], d)
           beats(q, o) == \/ gap(q) < gap(o)
                          \/ gap(q) = gap(o) /\ overlap(q) > overlap(o)
                          \/ gap(q) = gap(o) /\ overlap(q) = overlap(o) /\ WalkOrder(q, o)
<1>1. beats(x, y) /\ beats(y, x) /\ x \in Leaves(t) /\ y \in Leaves(t)
  BY DEF Found
<1>2. ASSUME NEW q \in Leaves(t) PROVE gap(q) \in Int /\ overlap(q) \in Int
  <2>1. /\ slot[p] \in Rect /\ slot[q] \in Rect /\ Crossing(d) \in SplitDirection
        /\ Size(slot[p], Crossing(d)) > 0 /\ Size(slot[q], Crossing(d)) > 0
    BY AxisFacts DEF Tiled, Nodes
  <2>2. overlap(q) \in Int
    BY <2>1, OverlapFacts
  <2>3. Gap(slot[p], slot[q], d) \in Int
    <3>1. /\ Edge(slot[p], Axis(d), 0) \in Nat /\ Edge(slot[p], Axis(d), 1) \in Nat
          /\ Edge(slot[q], Axis(d), 0) \in Nat /\ Edge(slot[q], Axis(d), 1) \in Nat
      <4>1. Axis(d) \in SplitDirection /\ 0 \in {0, 1} /\ 1 \in {0, 1}
        BY AxisFacts
      <4> QED
        BY <2>1, <4>1, RectSides
    <3>2. \A m, n \in Nat : m - n \in Int
      BY SMT
    <3> QED
      BY <2>1, <3>1, <3>2, GapFacts
  <2> QED
    BY <2>2, <2>3 DEF LargerOf
<1>3. ~(WalkOrder(x, y) /\ WalkOrder(y, x))
  <2>1. x \in Path /\ y \in Path
    BY <1>1, NodeFacts DEF Nodes
  <2>2. ~(Before(x, y) /\ Before(y, x))
    BY <2>1, BeforeIsOrder
  <2> QED
    BY <2>2 DEF Before
<1>4. gap(x) \in Int /\ gap(y) \in Int /\ overlap(x) \in Int /\ overlap(y) \in Int
  BY <1>1, <1>2
<1> HIDE DEF gap, overlap
<1> QED
  BY <1>1, <1>3, <1>4, SMT

\* A hop from the edge goes nowhere, any other to a leaf across the gap.
LEMMA HopGoes ==
    ASSUME TreeInv, NEW slot, slot = Slots(tree, <<>>, area), Roomy(tree, area, 0),
           \A p \in Leaves(tree) : slot[p].width > InnerGap /\ slot[p].height > InnerGap,
           NEW u, SameFrame(tree, u), NEW w \in Windows(tree), NEW d \in Direction
    PROVE  LET p == LeafOf(u, w)
               h == Hop(u, slot, w, d)
               q == LeafOf(h, w)
           IN  /\ p \in Leaves(tree) /\ q \in Leaves(tree)
               /\ Reaches(slot[p], d) => h = u
               /\ ~Reaches(slot[p], d) => Gap(slot[p], slot[q], d) = InnerGap
<1> DEFINE n == NeighborIn(u, slot, w, d)
           v == CHOOSE x \in n : TRUE
<1>1. IsTree(tree) /\ area \in Rect /\ IsTree(u) /\ Leaves(u) = Leaves(tree) /\ w \in Windows(u)
  BY AreaIsRect DEF TreeInv, SameFrame
<1>2. PICK p : p = LeafOf(u, w)
  OBVIOUS
<1>3. p \in Leaves(tree) /\ u.leaf[p] = w
  BY <1>1, <1>2, LeafOfIsThere
<1>4. tree # EmptyTree
  BY <1>3, EmptyIsTree
<1>5. PICK F : F = Found(tree, slot, p, d)
  OBVIOUS
<1>6. n = {u.leaf[q] : q \in F} /\ F \subseteq Leaves(tree) \ {p}
  <2>1. PICK N : N = NeighborIn(u, slot, u.leaf[p], d)
    OBVIOUS
  <2>2. N = On(u, F)
    BY <1>3, <1>5, <2>1, FoundLeaves
  <2>3. F \subseteq Leaves(tree) \ {p}
    BY <1>5 DEF Found
  <2> QED
    BY <1>3, <2>1, <2>2, <2>3 DEF On
<1>7. FindNeighbor(tree.leaf[p], d) = {tree.leaf[q] : q \in F}
  <2>1. PICK N : N = NeighborIn(tree, slot, tree.leaf[p], d)
    OBVIOUS
  <2>2. SameFrame(tree, tree)
    BY <1>1 DEF SameFrame
  <2>3. N = On(tree, F)
    BY <1>3, <1>5, <2>1, <2>2, FoundLeaves
  <2> QED
    BY <2>1, <2>3 DEF FindNeighbor, On
<1>8. /\ Reaches(slot[p], d) => FindNeighbor(tree.leaf[p], d) = {}
      /\ ~Reaches(slot[p], d) =>
           \E x \in FindNeighbor(tree.leaf[p], d) : Gap(slot[p], slot[LeafOf(tree, x)], d) = InnerGap
  BY <1>3, NeighbourAcross
<1>9. CASE Reaches(slot[p], d)
  <2>1. n = {}
    BY <1>6, <1>7, <1>8, <1>9
  <2>2. Hop(u, slot, w, d) = u
    BY <2>1 DEF Hop
  <2> QED
    BY <1>2, <1>3, <1>9, <2>2
<1>10. CASE ~Reaches(slot[p], d)
  <2>1. PICK q \in F : Gap(slot[p], slot[q], d) = InnerGap
    <3>1. PICK x \in FindNeighbor(tree.leaf[p], d) : Gap(slot[p], slot[LeafOf(tree, x)], d) = InnerGap
      BY <1>8, <1>10
    <3>2. PICK q \in F : x = tree.leaf[q]
      BY <1>7, <3>1
    <3>3. LeafOf(tree, x) = q
      BY <1>1, <1>6, <3>2, LeafOfLeaf
    <3> QED
      BY <3>1, <3>3
  <2>2. Tiled(slot, tree)
    BY <1>1, <1>4, TreeIsTiled
  <2>3. F = {q}
    BY <1>1, <1>3, <1>5, <2>1, <2>2, OneIsFound
  <2>4. v = u.leaf[q] /\ n # {}
    BY <1>6, <2>3
  <2>5. v \in Windows(u) /\ LeafOf(u, v) = q /\ q \in Leaves(u) /\ q # p
    <3>1. q \in Leaves(u) /\ q # p
      BY <1>1, <1>6, <2>1
    <3> QED
      BY <1>1, <2>4, <3>1, LeafOfLeaf
  <2>6. Hop(u, slot, w, d) = Exchanged(u, w, v)
    BY <2>4 DEF Hop
  <2> HIDE DEF v, n
  <2>7. PICK h : h = Exchanged(u, w, v)
    OBVIOUS
  <2>8. /\ IsTree(h) /\ Leaves(h) = Leaves(u)
        /\ h.leaf[q] = IF q = LeafOf(u, v) THEN w ELSE IF q = LeafOf(u, w) THEN v ELSE u.leaf[q]
    BY <1>1, <2>5, <2>7, LeavesExchanged
  <2>9. h.leaf[q] = w
    BY <2>5, <2>8
  <2>10. LeafOf(h, w) = q
    BY <2>5, <2>8, <2>9, LeafOfLeaf
  <2> QED
    BY <1>1, <1>2, <1>3, <1>10, <2>1, <2>5, <2>6, <2>7, <2>10
<1> QED
  BY <1>9, <1>10

\* How far along direction d a slot is
Along(r, d) == IF Side(d) = 1 THEN Edge(r, Axis(d), 0) ELSE -Edge(r, Axis(d), 1)

LEMMA AlongIsInt == ASSUME NEW r \in Rect, NEW d \in Direction PROVE Along(r, d) \in Int
<1>1. Axis(d) \in SplitDirection /\ 0 \in {0, 1} /\ 1 \in {0, 1}
  BY AxisFacts
<1>2. Edge(r, Axis(d), 0) \in Nat /\ Edge(r, Axis(d), 1) \in Nat
  BY <1>1, RectSides
<1> QED
  BY <1>2, SMT DEF Along

LEMMA AcrossIsFurther ==
    ASSUME NEW r \in Rect, NEW c \in Rect, NEW d \in Direction, Size(r, Axis(d)) > 0,
           Gap(r, c, d) = InnerGap
    PROVE  Along(r, d) \in Int /\ Along(c, d) \in Int /\ Along(r, d) < Along(c, d)
<1>1. Axis(d) \in SplitDirection /\ 0 \in {0, 1} /\ 1 \in {0, 1} /\ Side(d) \in {0, 1}
  BY AxisFacts
<1> DEFINE r0 == Edge(r, Axis(d), 0)
           r1 == Edge(r, Axis(d), 1)
           c0 == Edge(c, Axis(d), 0)
           c1 == Edge(c, Axis(d), 1)
           s == Size(r, Axis(d))
<1>2. r0 \in Nat /\ r1 \in Nat /\ c0 \in Nat /\ c1 \in Nat /\ s \in Nat /\ r1 = r0 + s
  <2>1. r0 = Start(r, Axis(d)) /\ r1 = Start(r, Axis(d)) + s
    BY <1>1, RectSides
  <2>2. r0 \in Nat /\ r1 \in Nat /\ c0 \in Nat /\ c1 \in Nat /\ s \in Nat
    BY <1>1, RectSides
  <2> QED
    BY <2>1, <2>2
<1>3. InnerGap = IF Side(d) = 1 THEN c0 - r1 ELSE r0 - c1
  BY GapFacts
<1>4. /\ Along(r, d) = IF Side(d) = 1 THEN r0 ELSE -r1
      /\ Along(c, d) = IF Side(d) = 1 THEN c0 ELSE -c1
  BY DEF Along
<1>5. InnerGap \in Nat /\ s > 0
  BY SizesAreNatural
<1> HIDE DEF r0, r1, c0, c1, s
<1>6. CASE Side(d) = 1
  <2>1. c0 - r1 = InnerGap /\ Along(r, d) = r0 /\ Along(c, d) = c0
    BY <1>3, <1>4, <1>6
  <2> QED
    BY <1>2, <1>5, <2>1, SMT
<1>7. CASE Side(d) # 1
  <2>1. r0 - c1 = InnerGap /\ Along(r, d) = -r1 /\ Along(c, d) = -c1
    BY <1>3, <1>4, <1>7
  <2> QED
    BY <1>2, <1>5, <2>1, SMT
<1> QED
  BY <1>6, <1>7

\* A walk can be one hop longer.
LEMMA WalkGoesOn ==
    ASSUME NEW len \in Nat, NEW t, NEW slot, NEW w, NEW d, NEW f, IsWalk(f, len, t, slot, w, d)
    PROVE  \E g : IsWalk(g, len + 1, t, slot, w, d) /\ \A i \in 0..len : g[i] = f[i]
<1>1. f = [i \in 0..len |-> IF i = 0 THEN t ELSE Hop(f[i - 1], slot, w, d)]
  BY DEF IsWalk
<1> DEFINE g == [i \in 0..(len + 1) |-> IF i = len + 1 THEN Hop(f[len], slot, w, d) ELSE f[i]]
<1>2. ASSUME NEW i \in 0..(len + 1)
      PROVE  g[i] = IF i = 0 THEN t ELSE Hop(g[i - 1], slot, w, d)
  <2>1. CASE i = 0
    BY <1>1, <2>1, SMT
  <2>2. CASE i # 0 /\ i # len + 1
    BY <1>1, <2>2, SMT
  <2>3. CASE i = len + 1
    BY <1>1, <2>3, SMT
  <2> QED
    BY <2>1, <2>2, <2>3
<1>3. IsWalk(g, len + 1, t, slot, w, d)
  BY <1>2 DEF IsWalk
<1>4. \A i \in 0..len : i \in 0..(len + 1) /\ i # len + 1
  BY SMT
<1>5. \A i \in 0..len : g[i] = f[i]
  BY <1>4
<1> HIDE DEF g
<1> QED
  BY <1>3, <1>5

\* Whoever climbs passes as many places as he takes steps.
LEMMA Climbing ==
    ASSUME NEW len \in Nat, NEW S, IsFiniteSet(S), NEW a \in [0..len -> S], NEW height \in [S -> Int],
           \A i \in 0..len : i < len => height[a[i]] < height[a[i + 1]]
    PROVE  len + 1 <= Cardinality(S)
<1> DEFINE T == {k \in Nat : \A i \in 0..len : i < k /\ k <= len => height[a[i]] < height[a[k]]}
<1>1. 0 \in T
  BY SMT
<1>2. ASSUME NEW k \in T PROVE k + 1 \in T
  <2>1. SUFFICES ASSUME NEW i \in 0..len, i < k + 1, k + 1 <= len
                 PROVE  height[a[i]] < height[a[k + 1]]
    OBVIOUS
  <2>2. k \in 0..len /\ k < len /\ k <= len /\ k + 1 \in 0..len /\ (i < k \/ i = k)
    BY <2>1, SMT
  <2>3. height[a[k]] < height[a[k + 1]]
    BY <2>2
  <2>4. /\ height[a[i]] \in Int /\ height[a[k]] \in Int /\ height[a[k + 1]] \in Int
    BY <2>2
  <2>5. i < k => height[a[i]] < height[a[k]]
    BY <2>2
  <2> QED
    BY <2>2, <2>3, <2>4, <2>5, SMT
<1>3. T \in SUBSET Nat
  OBVIOUS
<1> HIDE DEF T
<1>4. T = Nat
  BY <1>1, <1>2, <1>3, Induction
<1>5. ASSUME NEW i \in 0..len, NEW k \in 0..len, i < k PROVE a[i] # a[k]
  <2>1. k \in Nat /\ k <= len
    BY SMT
  <2>2. height[a[i]] < height[a[k]]
    BY <1>4, <1>5, <2>1 DEF T
  <2>3. height[a[i]] \in Int
    OBVIOUS
  <2> QED
    BY <2>2, <2>3, SMT
<1>6. \A i, k \in 0..len : i # k => i < k \/ k < i
  BY SMT
<1>7. \A i, k \in 0..len : a[i] = a[k] => i = k
  BY <1>5, <1>6
<1>8. a \in Injection(0..len, S)
  BY <1>7 DEF Injection, IsInjective
<1>9. Cardinality(0..len) <= Cardinality(S)
  BY <1>8, FS_Injection
<1>10. Cardinality(0..len) = IF 0 > len THEN 0 ELSE len - 0 + 1
  <2>1. 0 \in Int /\ len \in Int
    BY SMT
  <2> QED
    BY <2>1, FS_Interval
<1>11. Cardinality(S) \in Nat
  BY FS_CardinalityType
<1> QED
  BY <1>9, <1>10, <1>11, SMT

\* There are as many leaves as windows.
LEMMA LeavesOfWindows ==
    ASSUME NEW t, IsTree(t)
    PROVE  IsFiniteSet(Leaves(t)) /\ Cardinality(Leaves(t)) = Cardinality(Windows(t))
<1> DEFINE f == t.leaf
<1>1. f \in [Leaves(t) -> Windows(t)]
  BY DEF IsTree, Windows
<1>2. \A x \in Windows(t) : \E p \in Leaves(t) : f[p] = x
  BY DEF Windows
<1>3. \A p, q \in Leaves(t) : f[p] = f[q] => p = q
  BY DEF IsTree
<1>4. IsFiniteSet(Leaves(t))
  BY FiniteTree
<1>5. DOMAIN f = Leaves(t)
  BY DEF Leaves
<1> HIDE DEF f
<1>6. f \in Surjection(Leaves(t), Windows(t)) /\ f \in Injection(Leaves(t), Windows(t))
  BY <1>1, <1>2, <1>3, <1>5 DEF Surjection, Injection, IsInjective
<1> QED
  BY <1>4, <1>6, FS_Surjection

\* The walk ends at the edge.
LEMMA WalkArrives ==
    ASSUME TreeInv, NEW slot, slot = Slots(tree, <<>>, area), Roomy(tree, area, 0),
           \A p \in Leaves(tree) : slot[p].width > InnerGap /\ slot[p].height > InnerGap,
           Cardinality(Windows(tree)) <= MaxHopsPerDirection + 1,
           NEW w \in Windows(tree), NEW d \in Direction
    PROVE  Reaches(slot[LeafOf(Walked(tree, slot, w, d), w)], d)
<1>1. PICK n : n = MaxHopsPerDirection
  OBVIOUS
<1>2. n \in Nat /\ n + 1 \in Nat /\ n \in 0..n
  BY <1>1, SMT DEF MaxHopsPerDirection
<1>3. IsTree(tree) /\ area \in Rect
  BY AreaIsRect DEF TreeInv
<1> DEFINE after == CHOOSE f : IsWalk(f, MaxHopsPerDirection, tree, slot, w, d)
<1>4. IsWalk(after, n, tree, slot, w, d)
  BY <1>1, <1>2, WalkExists
<1>5. Walked(tree, slot, w, d) = after[n]
  BY <1>1 DEF Walked, IsWalk, Hop
<1> HIDE DEF after
<1>6. PICK g : IsWalk(g, n + 1, tree, slot, w, d) /\ \A i \in 0..n : g[i] = after[i]
  BY <1>2, <1>4, WalkGoesOn
<1> DEFINE a == [k \in 0..(n + 1) |-> LeafOf(g[k], w)]
           There(k) == Reaches(slot[a[k]], d)
           height == [p \in Leaves(tree) |-> Along(slot[p], d)]
<1>7. ASSUME NEW k \in 0..n
      PROVE  /\ a[k] \in Leaves(tree) /\ a[k + 1] \in Leaves(tree)
             /\ There(k) => a[k + 1] = a[k]
             /\ ~There(k) => Gap(slot[a[k]], slot[a[k + 1]], d) = InnerGap
  <2>1. k \in 0..(n + 1) /\ k + 1 \in 0..(n + 1) /\ k + 1 # 0 /\ (k + 1) - 1 = k
    BY <1>2, SMT
  <2>2. SameFrame(tree, g[k])
    BY <1>2, <1>3, <1>6, <2>1, WalkKeeps
  <2>3. g[k + 1] = Hop(g[k], slot, w, d)
    <3>1. g = [i \in 0..(n + 1) |-> IF i = 0 THEN tree ELSE Hop(g[i - 1], slot, w, d)]
      BY <1>6 DEF IsWalk
    <3> QED
      BY <2>1, <3>1
  <2>4. a[k] = LeafOf(g[k], w) /\ a[k + 1] = LeafOf(g[k + 1], w)
    BY <2>1
  <2>5. PICK u : u = g[k]
    OBVIOUS
  <2>6. LET p == LeafOf(u, w)
            h == Hop(u, slot, w, d)
            q == LeafOf(h, w)
        IN  /\ p \in Leaves(tree) /\ q \in Leaves(tree)
            /\ Reaches(slot[p], d) => h = u
            /\ ~Reaches(slot[p], d) => Gap(slot[p], slot[q], d) = InnerGap
    BY <2>2, <2>5, HopGoes
  <2> HIDE DEF a
  <2> QED
    BY <2>3, <2>4, <2>5, <2>6
<1>8. SUFFICES ASSUME ~There(n) PROVE FALSE
  <2>1. a[n] = LeafOf(Walked(tree, slot, w, d), w)
    BY <1>2, <1>5, <1>6
  <2> QED
    BY <2>1
<1> HIDE DEF a
<1>9. \A k \in 0..n : ~There(k)
  <2> DEFINE T == {k \in Nat : k <= n => ~There(n - k)}
  <2>1. 0 \in T
    <3>1. n - 0 = n
      BY <1>2, SMT
    <3> QED
      BY <1>8, <3>1
  <2>2. ASSUME NEW k \in T PROVE k + 1 \in T
    <3>1. SUFFICES ASSUME k + 1 <= n, There(n - (k + 1)) PROVE FALSE
      OBVIOUS
    <3>2. k <= n /\ n - (k + 1) \in 0..n /\ (n - (k + 1)) + 1 = n - k
      BY <1>2, <3>1, SMT
    <3>3. a[n - k] = a[n - (k + 1)]
      BY <1>7, <3>1, <3>2
    <3>4. ~There(n - k)
      BY <3>2
    <3> QED
      BY <3>1, <3>3, <3>4
  <2>3. T \in SUBSET Nat
    OBVIOUS
  <2> HIDE DEF T
  <2>4. T = Nat
    BY <2>1, <2>2, <2>3, Induction
  <2>5. ASSUME NEW k \in 0..n PROVE ~There(k)
    <3>1. n - k \in Nat /\ n - k <= n /\ n - (n - k) = k
      BY <1>2, SMT
    <3>2. n - k \in T
      BY <2>4, <3>1
    <3>3. ~There(n - (n - k))
      BY <3>1, <3>2 DEF T
    <3> QED
      BY <3>1, <3>3
  <2> QED
    BY <2>5
<1>10. a \in [0..(n + 1) -> Leaves(tree)]
  <2>1. ASSUME NEW k \in 0..(n + 1) PROVE a[k] \in Leaves(tree)
    <3>1. k \in 0..n \/ (k - 1 \in 0..n /\ (k - 1) + 1 = k)
      BY <1>2, SMT
    <3> QED
      BY <1>7, <3>1
  <2> QED
    BY <2>1 DEF a
<1>11. ASSUME NEW p \in Leaves(tree), NEW q \in Leaves(tree), Gap(slot[p], slot[q], d) = InnerGap
       PROVE  Along(slot[p], d) < Along(slot[q], d)
  <2>1. tree # EmptyTree
    BY EmptyIsTree
  <2>2. Tiled(slot, tree)
    BY <1>3, <2>1, TreeIsTiled
  <2>3. slot[p] \in Rect /\ slot[q] \in Rect /\ Size(slot[p], Axis(d)) > 0
    BY <2>2, AxisFacts DEF Tiled, Nodes
  <2> QED
    BY <1>11, <2>3, AcrossIsFurther
<1>12. height \in [Leaves(tree) -> Int]
  <2>1. ASSUME NEW p \in Leaves(tree) PROVE Along(slot[p], d) \in Int
    <3>1. tree # EmptyTree
      BY EmptyIsTree
    <3>2. slot[p] \in Rect
      BY <1>3, <3>1, TreeIsTiled DEF Tiled, Nodes
    <3> QED
      BY <3>2, AlongIsInt
  <2> QED
    BY <2>1
<1>13. \A k \in 0..(n + 1) : k < n + 1 => height[a[k]] < height[a[k + 1]]
  <2>1. ASSUME NEW k \in 0..n PROVE height[a[k]] < height[a[k + 1]]
    <3>1. Along(slot[a[k]], d) < Along(slot[a[k + 1]], d)
      BY <1>7, <1>9, <1>11
    <3> QED
      BY <1>7, <3>1
  <2>2. \A k \in 0..(n + 1) : k < n + 1 => k \in 0..n
    BY <1>2, SMT
  <2> QED
    BY <2>1, <2>2
<1> HIDE DEF height
<1>14. IsFiniteSet(Leaves(tree)) /\ Cardinality(Leaves(tree)) = Cardinality(Windows(tree))
  BY <1>3, LeavesOfWindows
<1>15. (n + 1) + 1 <= Cardinality(Leaves(tree))
  BY <1>2, <1>10, <1>12, <1>13, <1>14, Climbing
<1>16. Cardinality(Leaves(tree)) \in Nat
  BY <1>14, FS_CardinalityType
<1> QED
  BY <1>1, <1>2, <1>14, <1>15, <1>16, SMT

\* The invariant implies that a walk ends at the edge.
LEMMA TreeInvWalks == TreeInv => WalksToTheEdge
<1> SUFFICES ASSUME TreeInv, Cardinality(Windows(tree)) <= MaxHopsPerDirection + 1,
                    \A p \in Leaves(tree) : /\ Slots(tree, <<>>, area)[p].width > InnerGap
                                           /\ Slots(tree, <<>>, area)[p].height > InnerGap,
                    NEW w \in Windows(tree), NEW d \in Direction
             PROVE  Reaches(Slots(tree, <<>>, area)[LeafOf(Walked(tree, Slots(tree, <<>>, area), w, d), w)], d)
  BY DEF WalksToTheEdge, Calculate
<1>1. PICK slot : slot = Slots(tree, <<>>, area)
  OBVIOUS
<1>2. \A p \in Leaves(tree) : slot[p].width > InnerGap /\ slot[p].height > InnerGap
  BY <1>1
<1>3. Roomy(tree, area, 0)
  <2>1. InnerGap \in Nat /\ area \in Rect /\ IsTree(tree)
    BY SizesAreNatural, AreaIsRect DEF TreeInv
  <2>2. ASSUME NEW p \in Leaves(tree) PROVE slot[p].width > 0 /\ slot[p].height > 0
    <3>1. tree # EmptyTree
      BY EmptyIsTree
    <3>2. slot[p] \in Rect
      <4>1. slot \in [Nodes(tree) -> Rect]
        BY <1>1, <2>1, <3>1, WholeTree
      <4> QED
        BY <4>1 DEF Nodes
    <3>3. slot[p].width \in Nat /\ slot[p].height \in Nat
      BY <3>2 DEF Rect
    <3>4. slot[p].width > InnerGap /\ slot[p].height > InnerGap
      BY <1>2
    <3> QED
      BY <2>1, <3>3, <3>4, SMT
  <2> QED
    BY <1>1, <2>2 DEF Roomy, Size, SplitDirection
<1>4. Reaches(slot[LeafOf(Walked(tree, slot, w, d), w)], d)
  BY <1>1, <1>2, <1>3, WalkArrives
<1> QED
  BY <1>1, <1>4

\* Whatever has been done to a workspace, and whatever the votes so far: no vote
\* SwapWindows or a move casts turns or makes a habit by itself, and a window
\* that walks for a habit ends at the edge it names (PlacementHabitStore,
\* ApplyAdaptivePlacementNudge).
THEOREM HabitsStayEarned == Spec => []HabitsAreEarned
<1>1. Init => TreeInv
  BY TreeInit
<1>2. TreeInv /\ [Next]_vars => TreeInv'
  BY TreeNext
<1>3. TreeInv => HabitsAreEarned
  BY TreeInvWalks, VotesAreEarned, SidesAreEarned DEF HabitsAreEarned
<1> QED
  BY <1>1, <1>2, <1>3, PTL DEF Spec
=================================================================================
