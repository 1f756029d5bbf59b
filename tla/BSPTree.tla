------------------------------ MODULE BSPTree ------------------------------
(***************************************************************************)
(* The binary space partition of one workspace, and where LayoutEngine     *)
(* puts its tiles: insertion next to the anchor with the search for a      *)
(* legal slot (PlanReclaim), removal with promotion of the sibling, swap,  *)
(* rotate, flip, resize, directional neighbours, and the placement rules   *)
(* a restart replays.                                                      *)
(*                                                                         *)
(* A node is named by its path from the root, a sequence of 0 (left) and   *)
(* 1 (right): parent pointers and ownership are prefixes.  Ratios are      *)
(* counted in units of 1/Unit (the code's floats, of which Resize and the  *)
(* bisection of PlanReclaim can produce any); rectangles are the slots of  *)
(* LayoutEngine::Calculate, in cells, without borders.                     *)
(***************************************************************************)
EXTENDS PlacementHabits

CONSTANTS
  Window,       \* windows of the workspace
  None,         \* no window, no leaf
  Areas,        \* tiling areas of the monitors the workspace is shown on
  InnerGap,     \* general.inner_gap
  FloorWidth,   \* general.min_tile_width
  FloorHeight,  \* general.min_tile_height
  Unit          \* ratios are multiples of 1/Unit; 20 gives the code's clamp

ASSUME NoneIsNoLeaf == None \notin Window /\ None \notin Seq({0, 1})
ASSUME UnitIsEven == Unit \in Nat \ {0} /\ Unit % 2 = 0
ASSUME SizesAreNatural ==
  /\ InnerGap \in Nat /\ FloorWidth \in Nat /\ FloorHeight \in Nat
  /\ \A a \in Areas : a \in [x : Nat, y : Nat, width : Nat, height : Nat]

VARIABLES
  tree,     \* m_root: the window of each leaf, direction and ratio of each split
  anchor,   \* m_lastFocused: a leaf, or None
  focused,  \* the window whose Focused() is set (None: none of this workspace)
  area      \* the tiling area of the monitor the workspace is laid out on

vars == <<tree, anchor, focused, area>>

SplitDirection == {"Vertical", "Horizontal"}
Half == Unit \div 2
Ratio == 1..(Unit - 1)   \* SetRatio clamps to 0.05 .. 0.95

EmptyTree == [leaf |-> <<>>, split |-> <<>>]   \* <<>>: no path at all
OneLeaf(w) == [leaf |-> [p \in {<<>>} |-> w], split |-> <<>>]
Leaves(t) == DOMAIN t.leaf
Windows(t) == {t.leaf[p] : p \in Leaves(t)}
LeafOf(t, w) == CHOOSE p \in Leaves(t) : t.leaf[p] = w
Parent(p) == Front(p)
Sibling(p) == Append(Front(p), 1 - Last(p))

\* Every split has two children, every other node a split for a parent, and
\* every window one leaf; an anchor is a leaf.
BSPTypeOK ==
  LET nodes == Leaves(tree) \cup DOMAIN tree.split
  IN  /\ nodes \subseteq Seq({0, 1})
      /\ Leaves(tree) \cap DOMAIN tree.split = {}
      /\ \A p \in Leaves(tree) : tree.leaf[p] \in Window
      /\ \A p \in DOMAIN tree.split :
           /\ tree.split[p] \in [dir : SplitDirection, ratio : Ratio]
           /\ Append(p, 0) \in nodes /\ Append(p, 1) \in nodes
      /\ \A p \in nodes : p = <<>> \/ Parent(p) \in DOMAIN tree.split
      /\ \A p, q \in Leaves(tree) : tree.leaf[p] = tree.leaf[q] => p = q
      /\ anchor \in Leaves(tree) \cup {None}
      /\ focused \in Windows(tree) \cup {None}
      /\ area \in Areas

----------------------------------------------------------------------------
(***************************************************************************)
(* Geometry                                                                *)
(***************************************************************************)

\* BSPSplit::Subdivide: the slots of the left and of the right child
Subdivide_NoGap(s, rect) ==
  LET along == IF s.dir = "Vertical" THEN rect.width ELSE rect.height
      first == (along * s.ratio) \div Unit
  IN  IF s.dir = "Vertical"
        THEN <<[rect EXCEPT !.width = first],
               [rect EXCEPT !.x = @ + first, !.width = along - first]>>
        ELSE <<[rect EXCEPT !.height = first],
               [rect EXCEPT !.y = @ + first, !.height = along - first]>>
Subdivide(s, rect) ==
  LET along == IF s.dir = "Vertical" THEN rect.width ELSE rect.height
      usable == IF along > InnerGap THEN along - InnerGap ELSE 0
      first == (usable * s.ratio) \div Unit
  IN  IF s.dir = "Vertical"
        THEN <<[rect EXCEPT !.width = first],
               [rect EXCEPT !.x = @ + first + InnerGap, !.width = usable - first]>>
        ELSE <<[rect EXCEPT !.height = first],
               [rect EXCEPT !.y = @ + first + InnerGap, !.height = usable - first]>>

\* ComputeNodeGeometry, Calculate: the slot of every node at or below top,
\* when top's is rect
Slots(t, top, rect) ==
  LET nodes == {p \in Leaves(t) \cup DOMAIN t.split : IsPrefix(top, p)}
      slot[p \in nodes] ==
        IF p = top THEN rect
        ELSE Subdivide(t.split[Parent(p)], slot[Parent(p)])[Last(p) + 1]
  IN  slot

Fits(rect) == rect.width >= FloorWidth /\ rect.height >= FloorHeight

SubtreeFits(t, top, rect) ==
  LET slot == Slots(t, top, rect)
  IN  \A p \in Leaves(t) : IsPrefix(top, p) => Fits(slot[p])

\* DirectionForRect: split the longer side
Natural(rect) == IF rect.width >= rect.height THEN "Vertical" ELSE "Horizontal"

\* FeasibleSplitDirection tries the natural direction, then the other one.
Feasible_NewOnly(rect) ==
  {d \in SplitDirection : Fits(Subdivide([dir |-> d, ratio |-> Half], rect)[2])}
Feasible(rect) ==
  {d \in SplitDirection :
     LET halves == Subdivide([dir |-> d, ratio |-> Half], rect)
     IN  Fits(halves[1]) /\ Fits(halves[2])}
FeasibleSplitDirection(rect) ==
  IF Natural(rect) \in Feasible(rect)
    THEN Natural(rect) ELSE CHOOSE d \in SplitDirection : d \in Feasible(rect)

----------------------------------------------------------------------------
(***************************************************************************)
(* Surgery                                                                 *)
(***************************************************************************)

\* SpliceIn: leaf a becomes a split of itself and w.
SpliceIn(t, a, w, d) ==
  [leaf |-> [p \in (Leaves(t) \ {a}) \cup {Append(a, 0), Append(a, 1)} |->
               IF p = Append(a, 0) THEN t.leaf[a]
               ELSE IF p = Append(a, 1) THEN w ELSE t.leaf[p]],
   split |-> [p \in DOMAIN t.split \cup {a} |->
               IF p = a THEN [dir |-> d, ratio |-> Half] ELSE t.split[p]]]

\* Where a node below p's sibling is, once the sibling has taken the place
\* of p's parent, and where it came from
Promoted(p, q) ==
  IF IsPrefix(Sibling(p), q) THEN Parent(p) \o SubSeq(q, Len(p) + 1, Len(q)) ELSE q
Promote(f, p) ==
  LET kept == {q \in DOMAIN f : ~IsPrefix(Parent(p), q) \/ IsPrefix(Sibling(p), q)}
  IN  [q \in {Promoted(p, k) : k \in kept} |->
         f[CHOOSE k \in kept : Promoted(p, k) = q]]

\* NormalizeDirections: the splits at or below top, given the slot rect,
\* divide their longer side again.
NormalizeDirections(t, top, rect) ==
  LET below == {p \in DOMAIN t.split : IsPrefix(top, p)}
      natural(p, slot) == [t.split[p] EXCEPT !.dir = Natural(slot)]
      slot[p \in below] ==
        IF p = top THEN rect
        ELSE Subdivide(natural(Parent(p), slot[Parent(p)]), slot[Parent(p)])[Last(p) + 1]
  IN  [t EXCEPT !.split = [p \in DOMAIN t.split |->
         IF p \in below THEN natural(p, slot[p]) ELSE t.split[p]]]

\* The tree without the leaf at p
Without_AllNormal(t, p, rect) ==
  IF p = <<>> THEN EmptyTree
  ELSE NormalizeDirections(
         [leaf |-> Promote(t.leaf, p), split |-> Promote(t.split, p)], <<>>, rect)
Without(t, p, rect) ==
  IF p = <<>> THEN EmptyTree
  ELSE NormalizeDirections(
         [leaf |-> Promote(t.leaf, p), split |-> Promote(t.split, p)],
         Parent(p), Slots(t, <<>>, rect)[Parent(p)])

\* AnchorLeaf: the last one focused, else the last one of a walk
AnchorLeaf ==
  IF anchor # None THEN anchor
  ELSE CHOOSE p \in Leaves(tree) : \A i \in DOMAIN p : p[i] = 1

\* m_lastFocused once the leaf at p is gone: cleared with it, else where its
\* leaf is now
AnchorWithout_Dangling(p) ==
  IF anchor = None \/ p = <<>> THEN None ELSE Promoted(p, anchor)
AnchorWithout(p) == IF anchor \in {p, None} THEN None ELSE Promoted(p, anchor)

(***************************************************************************)
(* PlanReclaim.  Ancestor k of leaf a is k levels above it.  Each ancestor *)
(* of the plan moves its ratio as far in a's favour as its other branch    *)
(* bears, in the slot it has now.                                          *)
(***************************************************************************)

WithRatio(t, p, r) == [t EXCEPT !.split[p].ratio = r]

Reclaimed_Unchecked(t, a, p) == IF a[Len(p) + 1] = 0 THEN Unit - 1 ELSE 1
Reclaimed(t, a, p) ==
  LET other == Append(p, 1 - a[Len(p) + 1])
      now == t.split[p].ratio
      bears(r) == SubtreeFits(t, other, Slots(WithRatio(t, p, r), <<>>, area)[other])
      better == {r \in Ratio : IF a[Len(p) + 1] = 0 THEN r >= now ELSE r <= now}
      legal == {r \in better : bears(r)} \cup {now}
  IN  CHOOSE r \in legal : \A q \in legal : IF a[Len(p) + 1] = 0 THEN q <= r ELSE q >= r

\* The tree with the k nearest ancestors of a reclaimed
Plan(t, a, k) ==
  [t EXCEPT !.split = [p \in DOMAIN t.split |->
     IF IsPrefix(p, a) /\ Len(a) - Len(p) <= k
       THEN [t.split[p] EXCEPT !.ratio = Reclaimed(t, a, p)] ELSE t.split[p]]]

\* The shortest plan, 0 being none, after which a can be halved
Plans(t, a) ==
  {k \in 0..Len(a) : Feasible(Slots(Plan(t, a, k), <<>>, area)[a]) # {}}

HasSpaceForAnotherWindow ==
  IF tree = EmptyTree THEN TRUE ELSE Plans(tree, AnchorLeaf) # {}

----------------------------------------------------------------------------
(***************************************************************************)
(* Operations                                                              *)
(***************************************************************************)

CanInsert(w) == w \in Window \ Windows(tree) /\ HasSpaceForAnotherWindow

Inserted(w) ==
  IF tree = EmptyTree
    THEN [tree |-> OneLeaf(w), anchor |-> <<>>]
    ELSE LET a == AnchorLeaf
             k == CHOOSE k \in Plans(tree, a) : \A j \in Plans(tree, a) : k <= j
             plan == Plan(tree, a, k)
             d == FeasibleSplitDirection(Slots(plan, <<>>, area)[a])
         IN  [tree |-> SpliceIn(plan, a, w, d), anchor |-> Append(a, 1)]

\* The placement-aware Insert of TryTile; it does nothing when it refuses.
Insert(w) ==
  /\ CanInsert(w)
  /\ tree' = Inserted(w).tree /\ anchor' = Inserted(w).anchor
  /\ UNCHANGED <<focused, area>>

\* A window whose session record names its neighbour goes next to it, however
\* small the two become.
InsertNextTo(w, neighbor, d) ==
  /\ w \in Window \ Windows(tree)
  /\ neighbor \in Windows(tree)
  /\ LET a == LeafOf(tree, neighbor)
     IN  /\ tree' = SpliceIn(tree, a, w, d)
         /\ anchor' = Append(a, 1)
  /\ UNCHANGED <<focused, area>>

\* The placement-aware Remove
RemoveLeaf(w) ==
  /\ w \in Windows(tree)
  /\ LET p == LeafOf(tree, w)
     IN  /\ tree' = Without(tree, p, area)
         /\ anchor' = AnchorWithout(p)
  /\ focused' = IF focused = w THEN None ELSE focused
  /\ UNCHANGED area

\* Focus of a tile, or (None) of something that is not in this tree
Focus(w) ==
  /\ w \in Windows(tree) \cup {None}
  /\ focused' = w
  /\ anchor' = IF w = None THEN anchor ELSE LeafOf(tree, w)
  /\ UNCHANGED <<tree, area>>

\* The tree in which two windows have changed leaves
Exchanged(u, first, second) ==
  LET a == LeafOf(u, first)
      b == LeafOf(u, second)
  IN  [u EXCEPT !.leaf[a] = second, !.leaf[b] = first]

\* The anchor follows the window that is focused.
Swap(first, second) ==
  LET a == LeafOf(tree, first)
      b == LeafOf(tree, second)
  IN
  /\ {first, second} \subseteq Windows(tree) /\ first # second
  /\ tree' = Exchanged(tree, first, second)
  /\ anchor' = IF anchor \notin {a, b} THEN anchor
               ELSE IF focused = first THEN b
               ELSE IF focused = second THEN a ELSE anchor
  /\ UNCHANGED <<focused, area>>

\* Resize: the divider next to w is dragged to any ratio within the clamp.
Resize(w, ratio) ==
  /\ w \in Windows(tree) /\ LeafOf(tree, w) # <<>>
  /\ tree' = WithRatio(tree, Parent(LeafOf(tree, w)), ratio)
  /\ UNCHANGED <<anchor, focused, area>>

Rotate(w) ==
  /\ w \in Windows(tree) /\ LeafOf(tree, w) # <<>>
  /\ tree' = [tree EXCEPT !.split[Parent(LeafOf(tree, w))].dir =
                IF @ = "Vertical" THEN "Horizontal" ELSE "Vertical"]
  /\ UNCHANGED <<anchor, focused, area>>

\* Where what is at q is once the children of p have changed sides
Across(p, q) ==
  IF IsStrictPrefix(p, q) THEN [q EXCEPT ![Len(p) + 1] = 1 - @] ELSE q
SwapChildren(f, p) == [q \in {Across(p, k) : k \in DOMAIN f} |-> f[Across(p, q)]]

\* Flip: SwapChildren on the parent; whole subtrees change sides.
Flip(w) ==
  /\ w \in Windows(tree) /\ LeafOf(tree, w) # <<>>
  /\ LET p == Parent(LeafOf(tree, w))
     IN  /\ tree' = [leaf |-> SwapChildren(tree.leaf, p), split |-> SwapChildren(tree.split, p)]
         /\ anchor' = IF anchor = None THEN None ELSE Across(p, anchor)
  /\ UNCHANGED <<focused, area>>

\* The workspace is switched to, or its monitor changes size.
LayOutOn(a) ==
  /\ area' = a
  /\ UNCHANGED <<tree, anchor, focused>>

(***************************************************************************)
(* FindNeighbor: among the tiles that begin where w ends and overlap it    *)
(* across, the nearest, and of these the one that overlaps most; the first *)
(* of a walk when that leaves several.                                     *)
(***************************************************************************)

SmallerOf(a, b) == IF a <= b THEN a ELSE b
LargerOf(a, b) == IF a >= b THEN a ELSE b

\* How far "to" lies from "from" in direction d, and how much of it faces it
Gap(from, to, d) ==
  CASE d = "Right" -> to.x - (from.x + from.width)
    [] d = "Left"  -> from.x - (to.x + to.width)
    [] d = "Down"  -> to.y - (from.y + from.height)
    [] d = "Up"    -> from.y - (to.y + to.height)
Overlap(from, to, d) ==
  IF d \in {"Left", "Right"}
    THEN SmallerOf(from.y + from.height, to.y + to.height) - LargerOf(from.y, to.y)
    ELSE SmallerOf(from.x + from.width, to.x + to.width) - LargerOf(from.x, to.x)

WalkOrder(p, q) ==   \* CollectLeaves: left before right
  \E i \in DOMAIN p \cap DOMAIN q :
    p[i] < q[i] /\ \A j \in 1..(i - 1) : p[j] = q[j]

\* As a set: empty when there is no neighbour.  slot is the geometry the
\* nodes of t were last given.
NeighborIn(t, slot, w, d) ==
  LET from == slot[LeafOf(t, w)]
      gap(p) == LargerOf(Gap(from, slot[p], d), 0)
      overlap(p) == Overlap(from, slot[p], d)
      ahead == {p \in Leaves(t) \ {LeafOf(t, w)} :
                  Gap(from, slot[p], d) >= -1 /\ overlap(p) > 0}
      beats(p, q) == \/ gap(p) < gap(q)
                     \/ gap(p) = gap(q) /\ overlap(p) > overlap(q)
                     \/ gap(p) = gap(q) /\ overlap(p) = overlap(q) /\ WalkOrder(p, q)
  IN  {t.leaf[p] : p \in {q \in ahead : \A o \in ahead \ {q} : beats(q, o)}}

FindNeighbor_AnyOverlap(w, d) ==
  LET slot == Slots(tree, <<>>, area)
      from == slot[LeafOf(tree, w)]
      ahead == {p \in Leaves(tree) \ {LeafOf(tree, w)} : Gap(from, slot[p], d) >= -1}
  IN  {tree.leaf[p] : p \in {q \in ahead : \A o \in ahead :
         Gap(from, slot[q], d) <= Gap(from, slot[o], d)}}
FindNeighbor(w, d) == NeighborIn(tree, Slots(tree, <<>>, area), w, d)

\* FocusDirection and MoveFocusedDirection
FocusDirection(d) ==
  /\ focused # None
  /\ \E n \in FindNeighbor(focused, d) : Focus(n)
MoveFocusedDirection(d) ==
  /\ focused # None
  /\ \E n \in FindNeighbor(focused, d) : Swap(focused, n)

(***************************************************************************)
(* ApplyAdaptivePlacementNudge: a window that has just been tiled walks    *)
(* from neighbour to neighbour towards the edges its class has a habit of. *)
(***************************************************************************)

\* PredictPositions, whatever the votes of the window's class.
PredictPositions == UNION {Orders(habit) : habit \in Habits}

MaxHopsPerDirection == 16

Walked_OneHop(t, slot, w, d) ==
  LET n == NeighborIn(t, slot, w, d)
  IN  IF n = {} THEN t ELSE Exchanged(t, w, CHOOSE v \in n : TRUE)
Walked(t, slot, w, d) ==
  LET after[hops \in 0..MaxHopsPerDirection] ==
        IF hops = 0 THEN t
        ELSE LET u == after[hops - 1]
                 n == NeighborIn(u, slot, w, d)
             IN  IF n = {} THEN u ELSE Exchanged(u, w, CHOOSE v \in n : TRUE)
  IN  after[MaxHopsPerDirection]

\* On a hidden workspace TryTile has just laid the tree out.  On one that is
\* shown nothing has: the new leaf still has the empty rectangle it was made
\* with, which no tile faces.
NoRect == [x |-> 0, y |-> 0, width |-> 0, height |-> 0]
Nudged(t, w, shown, directions) ==
  LET slot == [Slots(t, <<>>, area) EXCEPT ![LeafOf(t, w)] = IF shown THEN NoRect ELSE @]
      after[walks \in 0..Len(directions)] ==
        IF walks = 0 THEN t ELSE Walked(after[walks - 1], slot, w, directions[walks])
  IN  after[Len(directions)]

\* Manage of a window that has no session record: TryTile, then the nudge.
\* The anchor stays at the leaf where the window was inserted.
Manage(w) ==
  /\ CanInsert(w)
  /\ \E new \in {Inserted(w)}, shown \in BOOLEAN, directions \in PredictPositions :
       /\ tree' = Nudged(new.tree, w, shown, directions)
       /\ anchor' = new.anchor
  /\ UNCHANGED <<focused, area>>

----------------------------------------------------------------------------
(***************************************************************************)
(* Session restore: what is saved of a tree, and its replay.               *)
(***************************************************************************)

\* The window reached from p by always going left
Representative(t, p) ==
  t.leaf[CHOOSE q \in Leaves(t) :
           IsPrefix(p, q) /\ \A i \in (Len(p) + 1)..Len(q) : q[i] = 0]

\* CollectPlacementRules: a split before the ones inside it
Before_PostOrder(p, q) == IsStrictPrefix(q, p) \/ WalkOrder(p, q)
Before(p, q) == IsStrictPrefix(p, q) \/ WalkOrder(p, q)
Rule(t, p) == [window    |-> Representative(t, Append(p, 1)),
               neighbor  |-> Representative(t, Append(p, 0)),
               direction |-> t.split[p].dir]
CollectPlacementRules(t) ==
  LET splits == DOMAIN t.split
      rank(p) == Cardinality({q \in splits : Before(q, p)})
  IN  [i \in 1..Cardinality(splits) |-> Rule(t, CHOOSE p \in splits : rank(p) = i - 1)]

\* A rule is applied through InsertNextTo; one whose neighbour is not there yet
\* is skipped.
Applied(u, r) ==
  IF r.neighbor \in Windows(u)
    THEN SpliceIn(u, LeafOf(u, r.neighbor), r.window, r.direction) ELSE u

\* The rules applied one by one to the window that has none
Replay(t) ==
  LET rules == CollectPlacementRules(t)
      after[n \in 0..Len(rules)] ==
        IF n = 0 THEN OneLeaf(Representative(t, <<>>))
        ELSE Applied(after[n - 1], rules[n])
  IN  after[Len(rules)]

----------------------------------------------------------------------------

Init ==
  /\ tree = EmptyTree
  /\ anchor = None
  /\ focused = None
  /\ area \in Areas

Next ==
  \/ \E w \in Window : Insert(w) \/ Manage(w) \/ RemoveLeaf(w) \/ Rotate(w) \/ Flip(w)
  \/ \E w, n \in Window, d \in SplitDirection : InsertNextTo(w, n, d)
  \/ \E w \in Window \cup {None} : Focus(w)
  \/ \E v, w \in Window : Swap(v, w)
  \/ \E w \in Window, r \in Ratio : Resize(w, r)
  \/ \E d \in Direction : FocusDirection(d) \/ MoveFocusedDirection(d)
  \/ \E a \in Areas : LayOutOn(a)

Spec == Init /\ [][Next]_vars

----------------------------------------------------------------------------
(***************************************************************************)
(* Properties                                                              *)
(***************************************************************************)

\* LayoutEngine::Calculate: every tile's place on the monitor
Calculate(t, rect) == Slots(t, <<>>, rect)

NoneSqueezed(t, rect) ==
  LET slot == Calculate(t, rect)
  IN  \A p \in Leaves(t) : slot[p].width > 0 /\ slot[p].height > 0

\* As long as no tile is squeezed to nothing, tiles keep the inner gap
\* between them and stay inside the tiling area: what HitTest and
\* FindNeighbor rely on.
Apart(a, b) == \/ a.x + a.width + InnerGap <= b.x
               \/ b.x + b.width + InnerGap <= a.x
               \/ a.y + a.height + InnerGap <= b.y
               \/ b.y + b.height + InnerGap <= a.y
Inside(a, b) == /\ b.x <= a.x /\ a.x + a.width <= b.x + b.width
                /\ b.y <= a.y /\ a.y + a.height <= b.y + b.height
TilesAreApart ==
  LET slot == Calculate(tree, area)
  IN  NoneSqueezed(tree, area)
        => \A p \in Leaves(tree) :
             /\ Inside(slot[p], area)
             /\ \A q \in Leaves(tree) \ {p} : Apart(slot[p], slot[q])

\* A tile that does not touch the edge of the area has a neighbour on that
\* side, and the one found is across the gap, not further away: of a tile that
\* is wider and higher than the gap, which could else face nothing but one.
Reaches(from, d) ==
  CASE d = "Right" -> from.x + from.width = area.x + area.width
    [] d = "Left"  -> from.x = area.x
    [] d = "Down"  -> from.y + from.height = area.y + area.height
    [] d = "Up"    -> from.y = area.y
NeighborIsAcrossTheGap ==
  LET slot == Calculate(tree, area)
  IN  NoneSqueezed(tree, area)
        => \A p \in Leaves(tree), d \in Direction :
             slot[p].width > InnerGap /\ slot[p].height > InnerGap
               => LET found == FindNeighbor(tree.leaf[p], d)
                  IN  IF Reaches(slot[p], d) THEN found = {}
                      ELSE \E n \in found :
                             Gap(slot[p], slot[LeafOf(tree, n)], d) = InnerGap

\* A tile that walks towards an edge gets there, however the tiles in between
\* are divided: ApplyAdaptivePlacementNudge stops only when "there's nothing
\* left in that direction to trade with (window is now flush against that
\* edge)", the hops it may take being enough for as many tiles.  A tile that is
\* no wider than the gap would be stepped over.
WalksToTheEdge ==
  LET slot == Calculate(tree, area)
  IN  /\ Cardinality(Windows(tree)) <= MaxHopsPerDirection + 1
      /\ \A p \in Leaves(tree) : slot[p].width > InnerGap /\ slot[p].height > InnerGap
      => \A w \in Windows(tree), d \in Direction :
           Reaches(slot[LeafOf(Walked(tree, slot, w, d), w)], d)

\* What HitTest, FocusDirection, MoveFocusedDirection and the nudge rely on.
TilesAreNeighbours == TilesAreApart /\ NeighborIsAcrossTheGap

\* A tile Insert adds to others is at least of the configured minimum, and no
\* tile that was falls below it to make room, whatever plan of ratios that took.
InsertRespectsFloor ==
  [][\A w \in Windows(tree') \ Windows(tree) :
       LET slot == Calculate(tree, area)
           next == Calculate(tree', area')
       IN  \/ tree = EmptyTree
           \/ \A p \in Leaves(tree') :
                 \/ Fits(next[p])
                 \/ /\ tree'.leaf[p] # w
                    /\ ~Fits(slot[LeafOf(tree, tree'.leaf[p])])
           \/ ~Insert(w)]_vars

\* Closing a tile moves nothing outside the slot it shared with its sibling,
\* and everything that was in that slot stays there, unless that squeezes a
\* tile to nothing: a split gives its second child a start past the inner gap
\* even where its slot is narrower than the gap.
CloseIsLocal ==
  [][\A w \in Windows(tree) \ Windows(tree') :
       LET slot == Calculate(tree, area)
           next == Calculate(tree', area')
           shared == Parent(LeafOf(tree, w))
       IN  \A v \in Windows(tree') :
             IF IsPrefix(shared, LeafOf(tree, v))
               THEN NoneSqueezed(tree', area') => Inside(next[LeafOf(tree', v)], slot[shared])
               ELSE next[LeafOf(tree', v)] = slot[LeafOf(tree, v)]]_vars

\* Other tiles keep their room: they make way only above the minimum, and only
\* the sibling takes over what a closed tile leaves.
OthersKeepTheirRoom == InsertRespectsFloor /\ CloseIsLocal

\* Replayed in order, the saved placement rules rebuild the tree: every leaf
\* and direction, at even ratios.
ReplayRebuilds ==
  tree # EmptyTree =>
    Replay(tree) = [tree EXCEPT !.split =
                      [p \in DOMAIN tree.split |-> [tree.split[p] EXCEPT !.ratio = Half]]]

\* SwapWindows lets both tiles it has exchanged vote for where they are now:
\* wherever that is, one vote never makes or turns a habit (PlacementHabits);
\* and a tile that does walk for a habit, as it does where its workspace has
\* been laid out, ends at the edge.
HabitsAreEarned ==
  /\ WalksToTheEdge
  /\ WorkspacesAreEarned
  /\ LET slot == Calculate(tree, area)
     IN  \A p \in Leaves(tree) : SideIsEarned(slot[p], area)

============================================================================
