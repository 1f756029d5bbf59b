--------------------------- MODULE PlacementHabits ---------------------------
(***************************************************************************)
(* PlacementHabitStore: the moves a user has made by hand are votes of the *)
(* window's class, for a side of the screen on each axis and for a         *)
(* workspace.  A side or a workspace with a clear majority is predicted    *)
(* for new windows of the class.  Votes are never taken back.              *)
(***************************************************************************)
EXTENDS Integers, SequencesExt

CONSTANTS
  MaxVotes,        \* bound: votes for one side or workspace
  VotedWorkspaces  \* the workspaces windows get sent to

ASSUME HabitsAssumption ==
  /\ MaxVotes \in Nat
  /\ VotedWorkspaces \subseteq Nat \ {0} /\ IsFiniteSet(VotedWorkspaces)

Direction == {"Left", "Right", "Up", "Down"}
Axes == {<<"Left", "Right">>, <<"Up", "Down">>}
Other(d) == CHOOSE e \in Direction : \E axis \in Axes : {d, e} = {axis[1], axis[2]}

Habits == [Direction -> 0..MaxVotes]
WorkspaceVotes == [VotedWorkspaces -> 0..MaxVotes]

----------------------------------------------------------------------------

MinObservations_One == 1
MinObservations == 3

\* kMinShare: seven tenths of the votes.
IsConfident_SixTenths(votes, total) == total >= MinObservations /\ 10 * votes >= 6 * total
IsConfident(votes, total) == total >= MinObservations /\ 10 * votes >= 7 * total

\* A window right on the middle counts as right, or bottom.
Sides(rect, workArea) ==
  LET center(start, size) == start + size \div 2
  IN  {IF center(rect.x, rect.width) < center(workArea.x, workArea.width) THEN "Left" ELSE "Right",
       IF center(rect.y, rect.height) < center(workArea.y, workArea.height) THEN "Up" ELSE "Down"}

\* One vote on each axis, none from a window of no size.
PositionVotes(rect, workArea) ==
  IF rect.width <= 0 \/ rect.height <= 0 THEN {} ELSE Sides(rect, workArea)

RecordPositionMove(habit, sides) ==
  [d \in Direction |-> IF d \in sides THEN habit[d] + 1 ELSE habit[d]]

RecordWorkspaceMove(votes, id) == [votes EXCEPT ![id] = @ + 1]

\* The predicted side of an axis, if there is one.
Predicted(habit, axis) ==
  LET total == habit[axis[1]] + habit[axis[2]]
  IN  CASE IsConfident(habit[axis[1]], total) -> <<axis[1]>>
        [] ~IsConfident(habit[axis[1]], total) /\ IsConfident(habit[axis[2]], total) -> <<axis[2]>>
        [] OTHER -> <<>>

\* The surer axis first; of two alike either may be.
Orders(habit) ==
  LET across == Predicted(habit, <<"Left", "Right">>)
      along == Predicted(habit, <<"Up", "Down">>)
      share(d, e) == habit[d] * (habit[e] + habit[Other(e)])   \* to compare d's with e's
  IN  IF across = <<>> \/ along = <<>> THEN {across \o along}
      ELSE (IF share(across[1], along[1]) >= share(along[1], across[1])
              THEN {across \o along} ELSE {})
           \cup (IF share(along[1], across[1]) >= share(across[1], along[1])
                   THEN {along \o across} ELSE {})

\* A workspace's votes are added to the total, and compared with the most so far.
Counted(votes, count, id) ==
  [best  |-> IF votes[id] > count.most THEN id ELSE count.best,
   most  |-> IF votes[id] > count.most THEN votes[id] ELSE count.most,
   total |-> count.total + votes[id]]

\* The one with the most votes, the first of them in the hash map's order, if
\* it has the majority it takes; 0 otherwise.
PredictedIn(votes, order) ==
  LET count[n \in 0..Len(order)] ==
        IF n = 0 THEN [best |-> 0, most |-> 0, total |-> 0]
        ELSE Counted(votes, count[n - 1], order[n])
      all == count[Len(order)]
  IN  IF IsConfident(all.most, all.total) THEN all.best ELSE 0
PredictWorkspace(votes) ==
  {PredictedIn(votes, order) : order \in SetToSeqs(VotedWorkspaces)}

----------------------------------------------------------------------------

\* "A one-off manual move never immediately becomes a habit" and "a prediction
\* is silently withdrawn the moment the user's own votes stop agreeing"
\* (README.md; PlacementHabitStore.h): whatever the votes so far, one more
\* makes no side and no workspace predicted but its own, and that only if it is
\* not the first of its kind; it withdraws none that it agrees with or that all
\* the others agree on, and turns no prediction around; and the order in which a
\* hash map lists the workspaces never decides.  The axes keep separate votes.
OneAxis ==
  {pair \in Axes \X Habits :
     \A d \in Direction : d \notin {pair[1][1], pair[1][2]} => pair[2][d] = 0}

EarnedBy ==   \* by the sides a window may be on
  [sides \in {{across, along} : across \in {"Left", "Right"}, along \in {"Up", "Down"}} |->
     \A pair \in OneAxis :
       LET axis == pair[1]
           before == ToSet(Predicted(pair[2], axis))
           after == ToSet(Predicted(RecordPositionMove(pair[2], sides), axis))
       IN  \E d \in sides \cap {axis[1], axis[2]} :
             /\ after \subseteq before \cup {d}
             /\ d \in before => d \in after
             /\ Other(d) \in before => d \notin after
             /\ pair[2][d] = 0 => d \notin after /\ (Other(d) \in before => Other(d) \in after)]

SideIsEarned(rect, workArea) ==
  LET sides == PositionVotes(rect, workArea) IN sides # {} => EarnedBy[sides]

WorkspacesAreEarned ==
  \A votes \in WorkspaceVotes : \A id \in VotedWorkspaces :
    LET before == PredictWorkspace(votes)
        after == PredictWorkspace(RecordWorkspaceMove(votes, id))
    IN  /\ \E p \in before : before = {p}
        /\ after \subseteq {0, id} \cup before
        /\ id \in before => id \in after
        /\ id \in after => before \subseteq {0, id}
        /\ votes[id] = 0 => id \notin after
        /\ \A w \in before \ {0, id} : (\A v \in VotedWorkspaces \ {w} : votes[v] = 0) => w \in after

============================================================================
