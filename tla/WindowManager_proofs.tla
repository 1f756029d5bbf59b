----------------------- MODULE WindowManager_proofs -----------------------
(***************************************************************************)
(* Safety of WindowManager, and of the gestures of MouseDrag over it, for  *)
(* every set of windows, every set of monitors and every number of         *)
(* workspaces.                                                             *)
(*                                                                         *)
(* The invariant that carries the proof is Consistent: the types and the   *)
(* trees together.  Types alone are not inductive, because the pointer can *)
(* focus whatever has a leaf in a tree (SyncFocusToPointer): that it is a  *)
(* managed window is what TreeMatchesClients says.                         *)
(***************************************************************************)
EXTENDS MouseDrag, FiniteSetTheorems, TLAPS

Input == Window \cup Popup \cup {"root"}
FocusRecord == [win : managed \cup {None}, mon : Monitor, input : Input]

\* The clients and their trees.
ClientsOK ==
  /\ managed \subseteq Window
  /\ state \in [Window -> WindowState]
  /\ prev \in [Window -> WindowState]
  /\ wsOf \in [Window -> Workspace]
  /\ strikes \in [Window -> Nat]
  /\ tree \in [Workspace -> SUBSET Window]
  /\ TreeMatchesClients

\* What the screen shows of them.
ScreenOK ==
  /\ monOf \in [Window -> Monitor]
  /\ active \in [Monitor -> Workspace]
  /\ mapped \subseteq managed
  /\ scratch \in [win : managed \cup {None}, shown : BOOLEAN]
  /\ popups \subseteq Popup
  /\ before \in Window \cup {None}
  /\ dragging \in Window \cup {None}

Consistent == ClientsOK /\ ScreenOK /\ focus \in FocusRecord

\* What the focus operators may assume of the state a handler leaves.
Settled ==
  /\ managed' \subseteq Window
  /\ state' \in [Window -> WindowState]
  /\ wsOf' \in [Window -> Workspace]
  /\ tree' \in [Workspace -> SUBSET managed']
  /\ active' \in [Monitor -> Workspace]
  /\ scratch' \in [win : managed' \cup {None}, shown : BOOLEAN]

LEMMA ConsistentSettles ==
  ASSUME ClientsOK', ScreenOK'
  PROVE  Settled
  BY DEF ClientsOK, ScreenOK, Settled, TreeMatchesClients

LEMMA SameClients ==
  ASSUME ClientsOK, UNCHANGED clientVars
  PROVE  ClientsOK'
  BY DEF ClientsOK, clientVars, TreeMatchesClients, OccupiesTreeSlot

----------------------------------------------------------------------------
(***************************************************************************)
(* Arrange.                                                                *)
(***************************************************************************)

\* Arrange maps managed windows only.
LEMMA ArrangedMapsManaged ==
  ASSUME NEW shown, NEW a \in Arranged(shown)
  PROVE  a \subseteq managed'
  BY DEF Arranged, ArrangedWith

\* A workspace that is shown is shown by a monitor.
LEMMA ShowingMonitor ==
  ASSUME NEW ws, ShownNext(ws)
  PROVE  MonitorShowingNext(ws) \in Monitor
  BY DEF ShownNext, MonitorShowingNext

\* Recording the showing monitors keeps monOf a function to monitors.
LEMMA HomedType ==
  ASSUME NEW home \in [Window -> Monitor]
  PROVE  Homed(home) \in [Window -> Monitor]
  BY ShowingMonitor DEF Homed

(***************************************************************************)
(* Focus: each operator returns focus records over managed windows.        *)
(***************************************************************************)

LEMMA FocusType ==
  ASSUME NEW f, f.mon \in Monitor, f.input \in Input, Settled,
         NEW w \in managed', NEW screen
  PROVE  Focus(f, w, screen) \in FocusRecord'
  BY ShowingMonitor DEF Focus, FocusRecord, Settled, Input

LEMMA NextAvailableType ==
  ASSUME NEW f \in FocusRecord', Settled, NEW m \in Monitor, NEW screen
  PROVE  FocusNextAvailableOn(f, m, screen) \subseteq FocusRecord'
<1>1. f.mon \in Monitor /\ f.input \in Input
  BY DEF FocusRecord
<1>2. VisibleNext(active'[m]) \subseteq managed'
  BY DEF VisibleNext
<1>3. {Focus(f, w, screen) : w \in VisibleNext(active'[m])} \subseteq FocusRecord'
  BY <1>1, <1>2, FocusType
<1>4. scratch'.win # None => Focus(f, scratch'.win, screen) \in FocusRecord'
  <2>1. scratch'.win # None => scratch'.win \in managed'
    BY DEF Settled
  <2>2. QED BY <1>1, <2>1, FocusType
<1>5. [f EXCEPT !.win = None, !.input = "root"] \in FocusRecord'
  BY DEF FocusRecord, Input
<1>6. QED BY <1>3, <1>4, <1>5 DEF FocusNextAvailableOn

LEMMA FocusMonitorType ==
  ASSUME NEW f \in FocusRecord', Settled, NEW m \in Monitor, NEW screen
  PROVE  FocusMonitor(f, m, screen) \subseteq FocusRecord'
<1>1. [f EXCEPT !.mon = m] \in FocusRecord'
  BY DEF FocusRecord
<1>2. QED BY <1>1, NextAvailableType DEF FocusMonitor

LEMMA FollowPointerType ==
  ASSUME NEW f \in FocusRecord', Settled, NEW m \in Monitor
  PROVE  FollowPointer(f, m) \subseteq FocusRecord'
  BY FocusMonitorType DEF FollowPointer

LEMMA SyncType ==
  ASSUME NEW f \in FocusRecord', Settled
  PROVE  SyncFocusToPointer(f) \subseteq FocusRecord'
<1> SUFFICES ASSUME NEW h \in SyncFocusToPointer(f) PROVE h \in FocusRecord'
  OBVIOUS
<1>1. PICK m \in Monitor :
        \/ h \in FollowPointer(f, m)
        \/ \E g \in FollowPointer(f, m) : \E w \in UnderPointer(m) \ {g.win} :
             h = Focus(g, w, After)
  BY DEF SyncFocusToPointer
<1>2. CASE h \in FollowPointer(f, m)
  BY <1>2, FollowPointerType
<1>3. CASE \E g \in FollowPointer(f, m) : \E w \in UnderPointer(m) \ {g.win} :
             h = Focus(g, w, After)
  <2>1. PICK g \in FollowPointer(f, m) : \E w \in UnderPointer(m) \ {g.win} :
          h = Focus(g, w, After)
    BY <1>3
  <2>2. g.mon \in Monitor /\ g.input \in Input
    BY FollowPointerType DEF FocusRecord
  <2>3. UnderPointer(m) \subseteq managed'
    BY DEF UnderPointer, Settled
  <2>4. QED BY <2>1, <2>2, <2>3, FocusType
<1>4. QED BY <1>1, <1>2, <1>3

LEMMA RevertedType ==
  ASSUME NEW f \in FocusRecord'
  PROVE  Reverted(f) \in FocusRecord'
  BY DEF Reverted, FocusRecord, Input

LEMMA RestoreType ==
  ASSUME NEW f \in FocusRecord', Settled, NEW p
  PROVE  RestoreFocusAfterModal(f, p) \subseteq FocusRecord'
<1> DEFINE g == IF f.input = p THEN [f EXCEPT !.input = "root"] ELSE f
<1>1. g \in FocusRecord'
  BY DEF FocusRecord, Input
<1>2. g.mon \in Monitor /\ g.input \in Input
  BY <1>1 DEF FocusRecord
<1>3. before \in managed' => Focus(g, before, After) \in FocusRecord'
  BY <1>2, FocusType
<1>4. FocusNextAvailable(g, After) \subseteq FocusRecord'
  BY <1>1, <1>2, NextAvailableType DEF FocusNextAvailable
<1>5. QED BY <1>3, <1>4 DEF RestoreFocusAfterModal

\* While no window goes away, today's focus is a focus of the next state.
LEMMA FocusKept ==
  ASSUME focus \in FocusRecord, managed \subseteq managed'
  PROVE  focus \in FocusRecord'
  BY DEF FocusRecord

----------------------------------------------------------------------------
(***************************************************************************)
(* Each handler keeps the clients and their trees consistent.              *)
(***************************************************************************)

LEMMA ManageClients ==
  ASSUME ClientsOK, NEW w \in Window, NEW hasParent \in BOOLEAN,
         NEW full \in BOOLEAN, NEW ws \in Workspace, NEW sm \in Monitor,
         NEW place \in Placement(ws), Manage(w, hasParent, place, full, sm)
  PROVE  ClientsOK'
<1>1. place.ws \in Workspace /\ place.st \in {"Tiled", "Floating"}
  BY DEF Placement, FindWorkspaceWithRoom
<1>2. w \notin tree[ws] /\ w \notin managed
  BY DEF Manage, ClientsOK, TreeMatchesClients
<1>3. tree' = IF place.st = "Tiled"
                THEN [tree EXCEPT ![place.ws] = @ \cup {w}] ELSE tree
  BY DEF Manage
<1>4. OccupiesTreeSlot(w)' <=> place.st = "Tiled"
  BY <1>1 DEF Manage, ClientsOK, OccupiesTreeSlot, WindowState
<1>5. \A v \in managed : /\ OccupiesTreeSlot(v)' <=> OccupiesTreeSlot(v)
                         /\ wsOf'[v] = wsOf[v]
  BY <1>2 DEF Manage, ClientsOK, OccupiesTreeSlot
<1>6. TreeMatchesClients'
  BY <1>1, <1>2, <1>3, <1>4, <1>5 DEF Manage, ClientsOK, TreeMatchesClients
<1>7. QED BY <1>1, <1>6 DEF Manage, ClientsOK, WindowState, Forgiven, OpensInBackground

LEMMA UnmanageClients ==
  ASSUME ClientsOK, NEW w \in Window, Unmanage(w)
  PROVE  ClientsOK'
<1>1. \A v \in managed' : /\ OccupiesTreeSlot(v)' <=> OccupiesTreeSlot(v)
                          /\ wsOf'[v] = wsOf[v] /\ v # w /\ v \in managed
  BY DEF Unmanage, ClientsOK, OccupiesTreeSlot
<1>2. \A ws \in Workspace : tree'[ws] = tree[ws] \ {w}
  BY DEF Unmanage, ClientsOK, TreeMatchesClients, Forgiven, WithoutLeaf, Released
<1>3. TreeMatchesClients'
  BY <1>1, <1>2 DEF Unmanage, ClientsOK, TreeMatchesClients
<1>4. QED BY <1>3, WorkspacesExist DEF Unmanage, ClientsOK, WindowState, Workspace, Forgiven, WithoutLeaf, Released

LEMMA ConfigureRequestClients ==
  ASSUME ClientsOK, NEW w \in Window, HandleConfigureRequest(w)
  PROVE  ClientsOK'
<1> DEFINE old == wsOf[w]
<1>1. w \in managed /\ state[w] = "Tiled" /\ old \in Workspace
  BY DEF HandleConfigureRequest, ApplyTilingMisbehaviorFallback, ClientsOK
<1>2. CASE strikes' = [strikes EXCEPT ![w] = @ + 1] /\ UNCHANGED <<managed, state, prev, wsOf, tree>>
  BY <1>2 DEF ClientsOK, TreeMatchesClients, OccupiesTreeSlot
<1>3. CASE /\ tree' = [tree EXCEPT ![old] = @ \ {w}]
           /\ strikes' = [strikes EXCEPT ![w] = 0]
           /\ \E ws \in Workspace : wsOf' = [wsOf EXCEPT ![w] = ws]
           /\ state' = [state EXCEPT ![w] = "Floating"]
           /\ UNCHANGED <<managed, prev>>
  <2>1. \A v \in managed \ {w} : /\ OccupiesTreeSlot(v)' <=> OccupiesTreeSlot(v)
                                 /\ wsOf'[v] = wsOf[v]
    BY <1>3 DEF ClientsOK, OccupiesTreeSlot
  <2>2. ~OccupiesTreeSlot(w)'
    BY <1>1, <1>3 DEF ClientsOK, OccupiesTreeSlot
  <2>3. \A ws \in Workspace : tree'[ws] = tree[ws] \ {w}
    BY <1>1, <1>3 DEF ClientsOK, TreeMatchesClients
  <2>4. TreeMatchesClients'
    BY <1>3, <2>1, <2>2, <2>3 DEF ClientsOK, TreeMatchesClients
  <2>5. QED BY <1>3, <2>4 DEF ClientsOK, WindowState
<1>4. \A ws \in FewestWindows(old) : ws \in Workspace
  BY DEF FewestWindows
<1>5. QED BY <1>1, <1>2, <1>3, <1>4 DEF HandleConfigureRequest, ApplyTilingMisbehaviorFallback, Forgiven, WithoutLeaf, OccupiesTreeSlot

LEMMA RelocateClients ==
  ASSUME ClientsOK, NEW w \in managed, NEW ws \in Workspace, ws # wsOf[w],
         NEW fits \in BOOLEAN, Relocate(w, ws, fits), managed' = managed
  PROVE  ClientsOK'
<1> DEFINE slot == OccupiesTreeSlot(w)
           old == wsOf[w]
<1>1. old \in Workspace /\ w \in Window
  BY DEF ClientsOK
<1>2. \A v \in managed \ {w} : /\ OccupiesTreeSlot(v)' <=> OccupiesTreeSlot(v)
                               /\ wsOf'[v] = wsOf[v]
  BY DEF Relocate, ClientsOK, OccupiesTreeSlot
<1>3. wsOf'[w] = ws /\ (OccupiesTreeSlot(w)' <=> slot /\ fits)
  BY <1>1 DEF Relocate, ClientsOK, OccupiesTreeSlot
<1>4. \A v \in Workspace : w \in tree[v] <=> v = old /\ slot
  BY DEF ClientsOK, TreeMatchesClients
<1>5. \A v \in Workspace :
        tree'[v] = IF v = ws /\ slot /\ fits THEN tree[v] \cup {w} ELSE tree[v] \ {w}
  <2>1. CASE slot /\ fits
    <3>1. tree' = [[tree EXCEPT ![old] = @ \ {w}] EXCEPT ![ws] = @ \cup {w}]
      BY <2>1 DEF Relocate, WithoutLeaf, Forgiven
    <3>2. QED BY <1>1, <1>4, <2>1, <3>1 DEF ClientsOK
  <2>2. CASE ~(slot /\ fits)
    <3>1. tree' = IF slot THEN [tree EXCEPT ![old] = @ \ {w}] ELSE tree
      BY <2>2 DEF Relocate, WithoutLeaf, Forgiven
    <3>2. QED BY <1>1, <1>4, <2>2, <3>1 DEF ClientsOK
  <2>3. QED BY <2>1, <2>2
<1>6. TreeMatchesClients'
  <2> SUFFICES ASSUME NEW v \in Workspace, NEW u
               PROVE  u \in tree'[v] <=> /\ u \in managed
                                         /\ wsOf'[u] = v
                                         /\ OccupiesTreeSlot(u)'
    BY DEF TreeMatchesClients
  <2>1. u \in tree[v] <=> u \in managed /\ wsOf[u] = v /\ OccupiesTreeSlot(u)
    BY DEF ClientsOK, TreeMatchesClients
  <2>2. CASE u = w
    BY <1>3, <1>5, <2>2
  <2>3. CASE u # w
    BY <1>2, <1>5, <2>1, <2>3
  <2>4. QED BY <2>2, <2>3
<1>7. QED BY <1>1, <1>6 DEF Relocate, ClientsOK, WindowState, WithoutLeaf, Forgiven

LEMMA ToggleFloatingClients ==
  ASSUME ClientsOK, ScreenOK, focus \in FocusRecord, NEW fits \in BOOLEAN,
         ToggleFloating(fits)
  PROVE  ClientsOK'
<1>1. PICK w \in {focus.win} \cap managed :
        \/ /\ state[w] = "Scratchpad"
           /\ wsOf' = [wsOf EXCEPT ![w] = active[focus.mon]]
           /\ state' = [state EXCEPT ![w] = "Floating"]
           /\ UNCHANGED <<strikes, tree, managed, prev>>
        \/ /\ state[w] = "Tiled"
           /\ tree' = [tree EXCEPT ![wsOf[w]] = @ \ {w}]
           /\ state' = [state EXCEPT ![w] = "Floating"]
           /\ UNCHANGED <<wsOf, strikes, managed, prev>>
        \/ /\ state[w] = "Floating"
           /\ IF fits
                THEN /\ tree' = [tree EXCEPT ![wsOf[w]] = @ \cup {w}]
                     /\ state' = [state EXCEPT ![w] = "Tiled"]
                     /\ strikes' = [strikes EXCEPT ![w] = 0]
                ELSE UNCHANGED <<tree, state, strikes>>
           /\ UNCHANGED <<wsOf, managed, prev>>
  BY DEF ToggleFloating, WithoutLeaf, Forgiven, Released, OccupiesTreeSlot
<1>2. w \in Window /\ wsOf[w] \in Workspace /\ active[focus.mon] \in Workspace
  BY DEF ClientsOK, ScreenOK, FocusRecord
<1>3. \A v \in managed \ {w} : /\ OccupiesTreeSlot(v)' <=> OccupiesTreeSlot(v)
                               /\ wsOf'[v] = wsOf[v]
  BY <1>1 DEF ClientsOK, OccupiesTreeSlot
<1>4. CASE state[w] = "Scratchpad"
  <2>1. ~OccupiesTreeSlot(w) /\ ~OccupiesTreeSlot(w)'
    BY <1>1, <1>2, <1>4 DEF ClientsOK, OccupiesTreeSlot
  <2>2. TreeMatchesClients'
    BY <1>1, <1>3, <1>4, <2>1 DEF ClientsOK, TreeMatchesClients
  <2>3. QED BY <1>1, <1>2, <1>4, <2>2 DEF ClientsOK, WindowState
<1>5. CASE state[w] = "Tiled"
  <2>1. ~OccupiesTreeSlot(w)' /\ wsOf' = wsOf
    BY <1>1, <1>2, <1>5 DEF ClientsOK, OccupiesTreeSlot
  <2>2. \A ws \in Workspace : tree'[ws] = tree[ws] \ {w}
    BY <1>1, <1>2, <1>5 DEF ClientsOK, TreeMatchesClients
  <2>3. TreeMatchesClients'
    BY <1>1, <1>3, <1>5, <2>1, <2>2 DEF ClientsOK, TreeMatchesClients
  <2>4. QED BY <1>1, <1>2, <1>5, <2>3 DEF ClientsOK, WindowState
<1>6. CASE state[w] = "Floating" /\ fits
  <2>1. OccupiesTreeSlot(w)' /\ wsOf' = wsOf
    BY <1>1, <1>2, <1>6 DEF ClientsOK, OccupiesTreeSlot
  <2>2. \A ws \in Workspace :
          tree'[ws] = IF ws = wsOf[w] THEN tree[ws] \cup {w} ELSE tree[ws]
    BY <1>1, <1>2, <1>6 DEF ClientsOK
  <2>3. TreeMatchesClients'
    BY <1>1, <1>3, <1>6, <2>1, <2>2 DEF ClientsOK, TreeMatchesClients
  <2>4. QED BY <1>1, <1>2, <1>6, <2>3 DEF ClientsOK, WindowState
<1>7. CASE state[w] = "Floating" /\ ~fits
  BY <1>1, <1>7, SameClients DEF clientVars
<1>8. QED BY <1>1, <1>4, <1>5, <1>6, <1>7

LEMMA SetFullscreenClients ==
  ASSUME ClientsOK, NEW w, SetFullscreen(w)
  PROVE  ClientsOK'
<1>1. w \in Window /\ w \in managed /\ managed' = managed
  BY DEF SetFullscreen, ClientsOK
<1>2. \A v \in managed : OccupiesTreeSlot(v)' <=> OccupiesTreeSlot(v)
  BY <1>1 DEF SetFullscreen, ClientsOK, OccupiesTreeSlot
<1>3. TreeMatchesClients'
  BY <1>2 DEF SetFullscreen, ClientsOK, TreeMatchesClients
<1>4. QED BY <1>1, <1>3 DEF SetFullscreen, ClientsOK, WindowState

LEMMA AssignScratchpadClients ==
  ASSUME ClientsOK, AssignScratchpad
  PROVE  ClientsOK'
<1>1. PICK w \in {focus.win} \cap managed :
        /\ tree' = IF OccupiesTreeSlot(w)
                     THEN [tree EXCEPT ![wsOf[w]] = @ \ {w}] ELSE tree
        /\ prev' = [prev EXCEPT ![w] = state[w]]
        /\ state' = [state EXCEPT ![w] = "Scratchpad"]
        /\ UNCHANGED <<managed, wsOf, strikes>>
  BY DEF AssignScratchpad, WithoutLeaf
<1>2. w \in Window /\ ~OccupiesTreeSlot(w)'
  BY <1>1 DEF ClientsOK, OccupiesTreeSlot
<1>3. \A v \in managed \ {w} : OccupiesTreeSlot(v)' <=> OccupiesTreeSlot(v)
  BY <1>1 DEF ClientsOK, OccupiesTreeSlot
<1>4. \A ws \in Workspace : tree'[ws] = tree[ws] \ {w}
  BY <1>1 DEF ClientsOK, TreeMatchesClients
<1>5. TreeMatchesClients'
  BY <1>1, <1>2, <1>3, <1>4 DEF ClientsOK, TreeMatchesClients
<1>6. QED BY <1>1, <1>2, <1>5 DEF ClientsOK, WindowState

----------------------------------------------------------------------------
(***************************************************************************)
(* Each action keeps Consistent: the clients first, then the screen, then  *)
(* the focus the handler ends with.                                        *)
(***************************************************************************)

\* A handler that only moves the focus leaves the rest as it was.
LEMMA OnlyFocus ==
  ASSUME Consistent,
         UNCHANGED <<clientVars, monOf, active, mapped, scratch, popups, dragging>>,
         before' \in Window \cup {None}
  PROVE  /\ ClientsOK' /\ ScreenOK' /\ Settled
         /\ focus \in FocusRecord' /\ focus.mon \in Monitor /\ focus.input \in Input
<1>1. ClientsOK'
  BY SameClients DEF Consistent
<1>2. ScreenOK'
  BY DEF Consistent, ScreenOK, clientVars
<1>3. focus \in FocusRecord'
  BY FocusKept DEF Consistent, clientVars
<1>4. focus.mon \in Monitor /\ focus.input \in Input
  BY <1>3 DEF FocusRecord
<1>5. QED BY <1>1, <1>2, <1>3, <1>4, ConsistentSettles

\* A handler that rearranges the screen.
LEMMA Rearranges ==
  ASSUME Consistent, ClientsOK', managed \subseteq managed',
         monOf' \in [Window -> Monitor],
         mapped' \subseteq managed',
         active' \in [Monitor -> Workspace],
         scratch' \in [win : managed' \cup {None}, shown : BOOLEAN],
         UNCHANGED <<popupVars, dragging>>
  PROVE  ScreenOK' /\ Settled /\ focus \in FocusRecord' /\ Reverted(focus) \in FocusRecord'
<1>1. ScreenOK'
  BY DEF Consistent, ScreenOK, popupVars
<1>2. focus \in FocusRecord'
  BY FocusKept DEF Consistent
<1>3. QED BY <1>1, <1>2, ConsistentSettles, RevertedType

\* Arrange keeps the record of each window's monitor well typed, and so it is
\* when the handler moved one window to another monitor.
LEMMA SameHome ==
  ASSUME Consistent
  PROVE  Homed(monOf) \in [Window -> Monitor]
  BY HomedType DEF Consistent, ScreenOK

LEMMA NewHome ==
  ASSUME Consistent, NEW w, NEW m \in Monitor
  PROVE  Homed([monOf EXCEPT ![w] = m]) \in [Window -> Monitor]
<1>1. [monOf EXCEPT ![w] = m] \in [Window -> Monitor]
  BY DEF Consistent, ScreenOK
<1>2. QED BY <1>1, HomedType

LEMMA ManageKeeps ==
  ASSUME Consistent, NEW w \in Window, NEW hasParent \in BOOLEAN,
         NEW full \in BOOLEAN, NEW ws \in Workspace, NEW sm \in Monitor,
         NEW place \in Placement(ws), Manage(w, hasParent, place, full, sm)
  PROVE  Consistent'
<1> DEFINE visible == IsShown(place.ws)
           switch == hasParent /\ ~visible
           more == IF visible \/ switch THEN {w} ELSE {}
           typing == IF "launcher" \in popups THEN "launcher" ELSE "notepad"
<1>1. ClientsOK'
  BY ManageClients DEF Consistent
<1>2. place.ws \in Workspace
  BY DEF Placement, FindWorkspaceWithRoom
<1>3. managed \subseteq managed' /\ w \in managed' /\ wsOf'[w] = place.ws
  BY DEF Manage, Consistent, ClientsOK
<1>4. active' \in [Monitor -> Workspace]
  BY <1>2 DEF Manage, Consistent, ScreenOK
<1>5. mapped' \subseteq managed'
  BY <1>3, ArrangedMapsManaged DEF Manage
<1>6. ScreenOK' /\ Settled /\ focus \in FocusRecord' /\ Reverted(focus) \in FocusRecord'
  <2>1. scratch' \in [win : managed' \cup {None}, shown : BOOLEAN]
    BY <1>3 DEF Manage, Consistent, ScreenOK
  <2>2. monOf' \in [Window -> Monitor] /\ UNCHANGED <<popupVars, dragging>>
    BY NewHome DEF Manage, popupVars
  <2>3. QED BY <1>1, <1>3, <1>4, <1>5, <2>1, <2>2, Rearranges
<1>7. focus' \in FocusRecord'
  <2>1. CASE ~visible /\ ~switch
    BY <1>6, <2>1 DEF Manage, Forgiven, OpensInBackground
  <2>2. CASE ~(~visible /\ ~switch) /\ ~TypingPopupOpen
    <3>1. focus' = Focus(Reverted(focus), w, After)
      BY <2>2 DEF Manage, Forgiven, OpensInBackground
    <3>2. Reverted(focus).mon \in Monitor /\ Reverted(focus).input \in Input
      BY <1>6 DEF FocusRecord
    <3>3. QED BY <1>3, <1>6, <3>1, <3>2, FocusType
  <2>3. CASE ~(~visible /\ ~switch) /\ TypingPopupOpen
    <3>1. PICK f \in IF hasParent
                       THEN FocusMonitor(focus, MonitorShowingNext(place.ws), After)
                       ELSE {focus} :
            focus' = [f EXCEPT !.input = typing]
      BY <2>3 DEF Manage, Forgiven, OpensInBackground
    <3>2. ShownNext(place.ws)
      BY <2>3, <1>2 DEF Manage, Consistent, ScreenOK, FocusRecord, IsShown, ShownNext
    <3>3. f \in FocusRecord'
      BY <1>6, <3>2, ShowingMonitor, FocusMonitorType
    <3>4. QED BY <3>1, <3>3 DEF FocusRecord, Input, Popup, TypingPopup
  <2>4. QED BY <2>1, <2>2, <2>3
<1>8. QED BY <1>1, <1>6, <1>7 DEF Consistent

LEMMA UnmanageKeeps ==
  ASSUME Consistent, NEW w \in Window, Unmanage(w)
  PROVE  Consistent'
<1> DEFINE gone == [mapped |-> mapped \ {w}, home |-> monOf]
           bare == [Reverted(focus) EXCEPT !.win = None]
<1>1. ClientsOK'
  BY UnmanageClients DEF Consistent
<1>2. ScreenOK'
  <2>1. mapped' \subseteq managed'
    BY ArrangedMapsManaged DEF Unmanage
  <2>2. monOf' \in [Window -> Monitor]
    <3>1. (CHOOSE m \in Monitor : TRUE) \in Monitor
      BY MonitorsExist
    <3>2. QED BY <3>1, NewHome DEF Unmanage
  <2>3. scratch' \in [win : managed' \cup {None}, shown : BOOLEAN]
    BY DEF Unmanage, Consistent, ScreenOK, NoScratch, Forgiven, WithoutLeaf, Released
  <2>4. QED BY <2>1, <2>2, <2>3 DEF Unmanage, Consistent, ScreenOK
<1>3. Settled
  BY <1>1, <1>2, ConsistentSettles
<1>4. bare \in FocusRecord' /\ bare.mon \in Monitor
  BY DEF Consistent, FocusRecord, Reverted, Input
<1>5. CASE focus.win = w
  <2>1. focus' \in FocusNextAvailableOn(bare, bare.mon, gone)
    BY <1>5 DEF Unmanage, FocusNextAvailable
  <2>2. QED BY <1>1, <1>2, <1>3, <1>4, <2>1, NextAvailableType DEF Consistent
<1>6. CASE focus.win # w
  <2>1. focus \in FocusRecord'
    BY <1>6 DEF Unmanage, Consistent, FocusRecord
  <2>2. focus' = Reverted(focus)
    BY <1>6 DEF Unmanage
  <2>3. QED BY <1>1, <1>2, <2>1, <2>2, RevertedType DEF Consistent
<1>7. QED BY <1>5, <1>6

LEMMA ConfigureRequestKeeps ==
  ASSUME Consistent, NEW w \in Window, HandleConfigureRequest(w)
  PROVE  Consistent'
<1>1. ClientsOK'
  BY ConfigureRequestClients DEF Consistent
<1>2. CASE UNCHANGED <<managed, monOf, active, focus, mapped, scratch, popupVars, dragging>>
  BY <1>1, <1>2 DEF Consistent, ScreenOK, FocusRecord, popupVars
<1>3. CASE /\ UNCHANGED <<managed, active, scratch, popupVars, dragging>>
           /\ monOf' = Homed(monOf)
           /\ mapped' \in Arranged(mapped)
           /\ focus' = Reverted(focus)
  <2>1. mapped' \subseteq managed' /\ monOf' \in [Window -> Monitor]
    BY <1>3, ArrangedMapsManaged, SameHome
  <2>2. /\ active' \in [Monitor -> Workspace]
        /\ scratch' \in [win : managed' \cup {None}, shown : BOOLEAN]
    BY <1>3 DEF Consistent, ScreenOK
  <2>3. ScreenOK' /\ focus' \in FocusRecord'
    BY <1>1, <1>3, <2>1, <2>2, Rearranges
  <2>4. QED BY <1>1, <2>3 DEF Consistent
<1>4. QED BY <1>2, <1>3 DEF HandleConfigureRequest, ApplyTilingMisbehaviorFallback

LEMMA SwitchWorkspaceKeeps ==
  ASSUME Consistent, NEW ws \in Workspace, SwitchWorkspace(ws)
  PROVE  Consistent'
<1>1. ClientsOK' /\ managed' = managed
  BY SameClients DEF Consistent, SwitchWorkspace, clientVars
<1>2. mapped' \subseteq managed' /\ monOf' \in [Window -> Monitor]
  BY ArrangedMapsManaged, SameHome DEF SwitchWorkspace
<1>3. /\ active' \in [Monitor -> Workspace]
      /\ scratch' \in [win : managed' \cup {None}, shown : BOOLEAN]
      /\ UNCHANGED <<popupVars, dragging>>
  BY <1>1 DEF SwitchWorkspace, Consistent, ScreenOK
<1>4. ScreenOK' /\ Settled /\ Reverted(focus) \in FocusRecord'
  BY <1>1, <1>2, <1>3, Rearranges
<1>5. PICK f \in FocusMonitor(Reverted(focus), focus.mon, After) :
        focus' \in SyncFocusToPointer(f)
  BY DEF SwitchWorkspace
<1>6. focus.mon \in Monitor
  BY DEF Consistent, FocusRecord
<1>7. f \in FocusRecord'
  BY <1>4, <1>6, FocusMonitorType
<1>8. QED BY <1>1, <1>4, <1>5, <1>7, SyncType DEF Consistent

LEMMA FocusMonitorCommandKeeps ==
  ASSUME Consistent, NEW m \in Monitor, FocusMonitorCommand(m)
  PROVE  Consistent'
<1>1. ClientsOK' /\ ScreenOK' /\ Settled /\ focus \in FocusRecord'
  <2>1. before' \in Window \cup {None}
    BY DEF FocusMonitorCommand, popupVars, Consistent, ScreenOK
  <2>2. QED BY <2>1, OnlyFocus DEF FocusMonitorCommand, popupVars
<1>2. QED BY <1>1, FocusMonitorType DEF FocusMonitorCommand, Consistent

\* What both moves to another workspace leave to be checked.
LEMMA RelocateKeeps ==
  ASSUME Consistent, NEW w \in managed, NEW ws \in Workspace, ws # wsOf[w],
         NEW fits \in BOOLEAN, Relocate(w, ws, fits),
         NEW m \in Monitor,
         monOf' \in {Homed(monOf), Homed([monOf EXCEPT ![w] = m])},
         mapped' \in Arranged(mapped),
         UNCHANGED <<managed, active, scratch, popupVars, dragging>>
  PROVE  ClientsOK' /\ ScreenOK' /\ Settled /\ Reverted(focus) \in FocusRecord'
<1>1. ClientsOK'
  BY RelocateClients DEF Consistent
<1>2. mapped' \subseteq managed' /\ monOf' \in [Window -> Monitor]
  BY ArrangedMapsManaged, SameHome, NewHome
<1>3. /\ active' \in [Monitor -> Workspace]
      /\ scratch' \in [win : managed' \cup {None}, shown : BOOLEAN]
  BY DEF Consistent, ScreenOK
<1>4. QED BY <1>1, <1>2, <1>3, Rearranges

LEMMA MoveToWorkspaceKeeps ==
  ASSUME Consistent, NEW ws \in Workspace, NEW fits \in BOOLEAN,
         MoveFocusedToWorkspace(ws, fits)
  PROVE  Consistent'
<1>1. PICK w \in managed :
        /\ ws # wsOf[w]
        /\ Relocate(w, ws, fits)
        /\ UNCHANGED <<managed, active, scratch, popupVars, dragging>>
        /\ monOf' = Homed(monOf)
        /\ mapped' \in Arranged(mapped)
        /\ focus' \in FocusNextAvailable(Reverted(focus), After)
  BY DEF MoveFocusedToWorkspace
<1>2. PICK m \in Monitor : TRUE
  BY MonitorsExist
<1>3. ClientsOK' /\ ScreenOK' /\ Settled /\ Reverted(focus) \in FocusRecord'
  BY <1>1, <1>2, RelocateKeeps
<1>4. Reverted(focus).mon \in Monitor
  BY <1>3 DEF FocusRecord
<1>5. focus' \in FocusRecord'
  BY <1>1, <1>3, <1>4, NextAvailableType DEF FocusNextAvailable
<1>6. QED BY <1>3, <1>5 DEF Consistent

LEMMA MoveToMonitorKeeps ==
  ASSUME Consistent, NEW m \in Monitor, NEW fits \in BOOLEAN,
         MoveWindowToMonitor(m, fits)
  PROVE  Consistent'
<1>1. PICK w \in managed :
        /\ active[m] # wsOf[w]
        /\ Relocate(w, active[m], fits)
        /\ UNCHANGED <<managed, active, scratch, popupVars, dragging>>
        /\ monOf' = Homed([monOf EXCEPT ![w] = m])
        /\ mapped' \in Arranged(mapped)
        /\ focus' \in IF IsShown(wsOf[w])
                        THEN FocusNextAvailableOn(Reverted(focus),
                               MonitorShowingNext(wsOf[w]), After)
                        ELSE {Reverted(focus)}
  BY DEF MoveWindowToMonitor
<1>2. active[m] \in Workspace
  BY DEF Consistent, ScreenOK
<1>3. ClientsOK' /\ ScreenOK' /\ Settled /\ Reverted(focus) \in FocusRecord'
  BY <1>1, <1>2, RelocateKeeps
<1>4. IsShown(wsOf[w]) => MonitorShowingNext(wsOf[w]) \in Monitor
  BY <1>1, ShowingMonitor DEF IsShown, ShownNext
<1>5. focus' \in FocusRecord'
  BY <1>1, <1>3, <1>4, NextAvailableType
<1>6. QED BY <1>3, <1>5 DEF Consistent

LEMMA ToggleFloatingKeeps ==
  ASSUME Consistent, NEW fits \in BOOLEAN, ToggleFloating(fits)
  PROVE  Consistent'
<1>1. ClientsOK'
  BY ToggleFloatingClients DEF Consistent
<1>2. PICK w \in managed :
        /\ scratch' \in {scratch, NoScratch}
        /\ UNCHANGED <<managed, active, popupVars, dragging>>
        /\ monOf' = Homed(IF state[w] = "Scratchpad"
                            THEN [monOf EXCEPT ![w] = focus.mon] ELSE monOf)
        /\ mapped' \in Arranged(mapped)
        /\ focus' = Reverted(focus)
  BY DEF ToggleFloating, WithoutLeaf, Forgiven, Released, OccupiesTreeSlot
<1>3. focus.mon \in Monitor
  BY DEF Consistent, FocusRecord
<1>4. mapped' \subseteq managed' /\ monOf' \in [Window -> Monitor]
  BY <1>2, <1>3, ArrangedMapsManaged, SameHome, NewHome
<1>5. /\ active' \in [Monitor -> Workspace]
      /\ scratch' \in [win : managed' \cup {None}, shown : BOOLEAN]
  <2>1. NoScratch \in [win : managed \cup {None}, shown : BOOLEAN]
    BY DEF NoScratch
  <2>2. QED BY <1>2, <2>1 DEF Consistent, ScreenOK
<1>6. ScreenOK' /\ focus' \in FocusRecord'
  BY <1>1, <1>2, <1>4, <1>5, Rearranges
<1>7. QED BY <1>1, <1>6 DEF Consistent

LEMMA SetFullscreenKeeps ==
  ASSUME Consistent, NEW w, SetFullscreen(w)
  PROVE  Consistent'
<1>1. ClientsOK'
  BY SetFullscreenClients DEF Consistent
<1>2. mapped' \subseteq managed' /\ monOf' \in [Window -> Monitor]
  BY ArrangedMapsManaged, SameHome DEF SetFullscreen
<1>3. /\ active' \in [Monitor -> Workspace]
      /\ scratch' \in [win : managed' \cup {None}, shown : BOOLEAN]
      /\ managed' = managed
      /\ UNCHANGED <<popupVars, dragging>>
  BY DEF SetFullscreen, Consistent, ScreenOK
<1>4. ScreenOK' /\ Reverted(focus) \in FocusRecord'
  BY <1>1, <1>2, <1>3, Rearranges
<1>5. QED BY <1>1, <1>4 DEF SetFullscreen, Consistent

LEMMA AssignScratchpadKeeps ==
  ASSUME Consistent, AssignScratchpad
  PROVE  Consistent'
<1>1. ClientsOK'
  BY AssignScratchpadClients DEF Consistent
<1>2. PICK w \in managed :
        /\ scratch' = [win |-> w, shown |-> FALSE]
        /\ UNCHANGED <<managed, active, popupVars, dragging>>
        /\ monOf' = Homed(monOf)
        /\ mapped' \in Arranged(mapped \ {w})
        /\ focus' \in FocusNextAvailable(Reverted(focus), After)
  BY DEF AssignScratchpad
<1>3. mapped' \subseteq managed' /\ monOf' \in [Window -> Monitor]
  BY <1>2, ArrangedMapsManaged, SameHome
<1>4. /\ active' \in [Monitor -> Workspace]
      /\ scratch' \in [win : managed' \cup {None}, shown : BOOLEAN]
  BY <1>2 DEF Consistent, ScreenOK
<1>5. ScreenOK' /\ Settled /\ Reverted(focus) \in FocusRecord'
  BY <1>1, <1>2, <1>3, <1>4, Rearranges
<1>6. Reverted(focus).mon \in Monitor
  BY <1>5 DEF FocusRecord
<1>7. focus' \in FocusRecord'
  BY <1>2, <1>5, <1>6, NextAvailableType DEF FocusNextAvailable
<1>8. QED BY <1>1, <1>5, <1>7 DEF Consistent

\* Showing and hiding do not go through Arrange.
LEMMA ShowScratchpadKeeps ==
  ASSUME Consistent, ShowScratchpad
  PROVE  Consistent'
<1>1. PICK w \in managed :
        /\ scratch' = [scratch EXCEPT !.shown = TRUE]
        /\ monOf' = [monOf EXCEPT ![w] = focus.mon]
        /\ mapped' = mapped \cup {w}
        /\ UNCHANGED <<clientVars, active, popupVars, dragging>>
        /\ focus' = Focus(focus, w, After)
  BY DEF ShowScratchpad
<1>2. ClientsOK' /\ managed' = managed
  BY <1>1, SameClients DEF Consistent, clientVars
<1>3. focus.mon \in Monitor /\ focus.input \in Input
  BY DEF Consistent, FocusRecord
<1>4. ScreenOK' /\ Settled
  <2>1. monOf' \in [Window -> Monitor] /\ mapped' \subseteq managed'
    BY <1>1, <1>2, <1>3 DEF Consistent, ScreenOK
  <2>2. /\ active' \in [Monitor -> Workspace]
        /\ scratch' \in [win : managed' \cup {None}, shown : BOOLEAN]
    BY <1>1, <1>2 DEF Consistent, ScreenOK
  <2>3. QED BY <1>1, <1>2, <2>1, <2>2, Rearranges
<1>5. QED BY <1>1, <1>2, <1>3, <1>4, FocusType DEF Consistent

LEMMA HideScratchpadKeeps ==
  ASSUME Consistent, HideScratchpad
  PROVE  Consistent'
<1>1. PICK w \in managed :
        /\ scratch' = [scratch EXCEPT !.shown = FALSE]
        /\ mapped' = mapped \ {w}
        /\ UNCHANGED <<clientVars, monOf, active, popupVars, dragging>>
        /\ focus' \in IF focus.win = w
                        THEN FocusNextAvailable(Reverted(focus), After)
                        ELSE {Reverted(focus)}
  BY DEF HideScratchpad
<1>2. ClientsOK' /\ managed' = managed
  BY <1>1, SameClients DEF Consistent, clientVars
<1>3. ScreenOK' /\ Settled /\ Reverted(focus) \in FocusRecord'
  <2>1. monOf' \in [Window -> Monitor] /\ mapped' \subseteq managed'
    BY <1>1, <1>2 DEF Consistent, ScreenOK
  <2>2. /\ active' \in [Monitor -> Workspace]
        /\ scratch' \in [win : managed' \cup {None}, shown : BOOLEAN]
    BY <1>1, <1>2 DEF Consistent, ScreenOK
  <2>3. QED BY <1>1, <1>2, <2>1, <2>2, Rearranges
<1>4. Reverted(focus).mon \in Monitor
  BY <1>3 DEF FocusRecord
<1>5. focus' \in FocusRecord'
  BY <1>1, <1>3, <1>4, NextAvailableType DEF FocusNextAvailable
<1>6. QED BY <1>2, <1>3, <1>5 DEF Consistent

LEMMA FocusDirectionKeeps ==
  ASSUME Consistent, NEW n \in Window, FocusDirection(n)
  PROVE  Consistent'
<1>1. PICK w \in managed : n \in tree[wsOf[w]]
  BY DEF FocusDirection
<1>2. n \in managed
  BY <1>1 DEF Consistent, ClientsOK, TreeMatchesClients
<1>3. before' \in Window \cup {None}
  BY DEF FocusDirection, popupVars, Consistent, ScreenOK
<1>4. /\ ClientsOK' /\ ScreenOK' /\ Settled
      /\ focus.mon \in Monitor /\ focus.input \in Input /\ managed' = managed
  BY <1>3, OnlyFocus DEF FocusDirection, popupVars, clientVars
<1>5. focus' = Focus(focus, n, After)
  BY DEF FocusDirection
<1>6. QED BY <1>2, <1>4, <1>5, FocusType DEF Consistent

LEMMA FocusCycleKeeps ==
  ASSUME Consistent, NEW n \in Window, FocusCycle(n)
  PROVE  Consistent'
<1>1. n \in managed /\ focus' = Focus(focus, n, After)
  BY DEF FocusCycle, Visible
<1>2. before' \in Window \cup {None}
  BY DEF FocusCycle, popupVars, Consistent, ScreenOK
<1>3. /\ ClientsOK' /\ ScreenOK' /\ Settled
      /\ focus.mon \in Monitor /\ focus.input \in Input /\ managed' = managed
  BY <1>2, OnlyFocus DEF FocusCycle, popupVars, clientVars
<1>4. QED BY <1>1, <1>3, FocusType DEF Consistent

LEMMA RearrangeKeeps ==
  ASSUME Consistent, Rearrange \/ RotateOrFlipFocused
  PROVE  Consistent'
<1>1. ClientsOK' /\ managed' = managed
  BY SameClients DEF Consistent, Rearrange, RotateOrFlipFocused, clientVars
<1>2. mapped' \subseteq managed' /\ monOf' \in [Window -> Monitor]
  BY ArrangedMapsManaged, SameHome DEF Rearrange, RotateOrFlipFocused
<1>3. /\ active' \in [Monitor -> Workspace]
      /\ scratch' \in [win : managed' \cup {None}, shown : BOOLEAN]
      /\ UNCHANGED <<popupVars, dragging>>
  BY <1>1 DEF Rearrange, RotateOrFlipFocused, Consistent, ScreenOK
<1>4. ScreenOK' /\ Settled /\ Reverted(focus) \in FocusRecord'
  BY <1>1, <1>2, <1>3, Rearranges
<1>5. CASE Rearrange
  BY <1>1, <1>4, <1>5 DEF Rearrange, Consistent
<1>6. CASE RotateOrFlipFocused
  BY <1>1, <1>4, <1>6, SyncType DEF RotateOrFlipFocused, Consistent
<1>7. QED BY <1>5, <1>6

\* Input handlers and popups leave clients and screen alone.
LEMMA EnterNotifyKeeps ==
  ASSUME Consistent, NEW m \in Monitor, NEW w \in Window \cup {None},
         HandleEnterNotify(m, w)
  PROVE  Consistent'
<1>1. before' \in Window \cup {None}
  BY DEF HandleEnterNotify, popupVars, Consistent, ScreenOK
<1>2. /\ ClientsOK' /\ ScreenOK' /\ Settled /\ focus \in FocusRecord'
      /\ managed' = managed
  BY <1>1, OnlyFocus DEF HandleEnterNotify, popupVars, clientVars
<1>3. PICK f \in FollowPointer(focus, m) :
        focus' = IF TypingPopupOpen \/ w \in {None, f.win}
                   THEN f ELSE Focus(f, w, After)
  BY DEF HandleEnterNotify
<1>4. f \in FocusRecord' /\ f.mon \in Monitor /\ f.input \in Input
  BY <1>2, <1>3, FollowPointerType DEF FocusRecord
<1>5. w # None => w \in managed'
  BY <1>2 DEF HandleEnterNotify, Consistent, ScreenOK
<1>6. QED BY <1>2, <1>3, <1>4, <1>5, FocusType DEF Consistent

LEMMA ButtonPressKeeps ==
  ASSUME Consistent, NEW w \in Window, HandleButtonPressOnClient(w)
  PROVE  Consistent'
<1>1. before' \in Window \cup {None} /\ popups' \subseteq Popup
  BY DEF HandleButtonPressOnClient, Consistent, ScreenOK
<1>2. ClientsOK' /\ managed' = managed
  BY SameClients DEF HandleButtonPressOnClient, clientVars, Consistent
<1>3. ScreenOK' /\ Settled
  <2>1. ScreenOK'
    BY <1>1, <1>2 DEF HandleButtonPressOnClient, Consistent, ScreenOK
  <2>2. QED BY <1>2, <2>1, ConsistentSettles
<1>4. focus \in FocusRecord'
  BY <1>2, FocusKept DEF Consistent
<1>5. w \in managed'
  BY <1>2 DEF HandleButtonPressOnClient, Consistent, ScreenOK
<1>6. PICK f : /\ f = focus \/ \E p \in popups : f \in RestoreFocusAfterModal(focus, p)
               /\ focus' = Focus(f, w, After)
  BY DEF HandleButtonPressOnClient
<1>7. f \in FocusRecord'
  BY <1>3, <1>4, <1>6, RestoreType
<1>8. f.mon \in Monitor /\ f.input \in Input
  BY <1>7 DEF FocusRecord
<1>9. QED BY <1>2, <1>3, <1>5, <1>6, <1>8, FocusType DEF Consistent

LEMMA OpenPopupKeeps ==
  ASSUME Consistent, NEW p \in Popup, OpenPopup(p)
  PROVE  Consistent'
<1> DEFINE closing == Closing(p)
<1>1. ClientsOK' /\ managed' = managed
  BY SameClients DEF OpenPopup, clientVars, Consistent
<1>2. focus \in FocusRecord'
  BY <1>1, FocusKept DEF Consistent
<1>3. Settled
  BY <1>1 DEF OpenPopup, Consistent, ScreenOK, ClientsOK, Settled, TreeMatchesClients
<1>4. PICK f \in IF closing = {} THEN {focus}
                 ELSE UNION {RestoreFocusAfterModal(focus, c) : c \in closing} :
        focus' = [f EXCEPT !.input = p] /\ before' = f.win
  BY DEF OpenPopup
<1>5. f \in FocusRecord'
  BY <1>2, <1>3, <1>4, RestoreType
<1>6. focus' \in FocusRecord' /\ before' \in Window \cup {None}
  BY <1>1, <1>4, <1>5 DEF FocusRecord, Input, Consistent, ClientsOK
<1>7. ScreenOK'
  BY <1>1, <1>6 DEF OpenPopup, Consistent, ScreenOK
<1>8. QED BY <1>1, <1>6, <1>7 DEF Consistent

LEMMA ClosePopupKeeps ==
  ASSUME Consistent, NEW p \in Popup, ClosePopup(p)
  PROVE  Consistent'
<1>1. ClientsOK' /\ managed' = managed
  BY SameClients DEF ClosePopup, clientVars, Consistent
<1>2. ScreenOK'
  BY <1>1 DEF ClosePopup, Consistent, ScreenOK
<1>3. Settled
  BY <1>1, <1>2, ConsistentSettles
<1>4. focus \in FocusRecord'
  BY <1>1, FocusKept DEF Consistent
<1>5. focus' \in FocusRecord'
  BY <1>3, <1>4, RestoreType DEF ClosePopup
<1>6. QED BY <1>1, <1>2, <1>5 DEF Consistent

\* A window that takes the input focus, and the launcher taking it back.
LEMMA InputKeeps ==
  ASSUME Consistent, HandleFocusIn \/ \E w \in Window : ClientTakesFocus(w)
  PROVE  Consistent'
<1>1. /\ UNCHANGED <<clientVars, monOf, active, mapped, scratch, popupVars, dragging>>
      /\ \E i \in Input : focus' = [focus EXCEPT !.input = i]
  BY DEF HandleFocusIn, ClientTakesFocus, Input, Popup, TypingPopup
<1>2. before' \in Window \cup {None}
  BY <1>1 DEF popupVars, Consistent, ScreenOK
<1>3. ClientsOK' /\ ScreenOK' /\ focus \in FocusRecord'
  BY <1>1, <1>2, OnlyFocus DEF popupVars
<1>4. focus' \in FocusRecord'
  BY <1>1, <1>3 DEF FocusRecord
<1>5. QED BY <1>3, <1>4 DEF Consistent

----------------------------------------------------------------------------
(***************************************************************************)
(* The invariant.                                                          *)
(***************************************************************************)

LEMMA InitConsistent == Init => Consistent
<1> SUFFICES ASSUME Init PROVE Consistent
  OBVIOUS
<1>1. (CHOOSE m \in Monitor : TRUE) \in Monitor
  BY MonitorsExist
<1>2. 1 \in Workspace
  BY WorkspacesExist DEF Workspace
<1>3. ClientsOK
  BY <1>2 DEF Init, ClientsOK, WindowState, TreeMatchesClients
<1>4. ScreenOK
  BY <1>1 DEF Init, ScreenOK, NoScratch
<1>5. focus \in FocusRecord
  BY DEF Init, FocusRecord, Input
<1>6. QED BY <1>3, <1>4, <1>5 DEF Consistent

LEMMA ManageAnyKeeps ==
  ASSUME Consistent, ManageAny
  PROVE  Consistent'
  BY ManageKeeps DEF ManageAny

LEMMA NextKeepsConsistent == Consistent /\ [Next]_vars => Consistent'
<1> SUFFICES ASSUME Consistent, [Next]_vars PROVE Consistent'
  OBVIOUS
<1>1. CASE ClientNext
  BY <1>1, ManageAnyKeeps, UnmanageKeeps, ConfigureRequestKeeps,
     SetFullscreenKeeps, InputKeeps DEF ClientNext, HandleClientMessage
<1>2. CASE CommandNext
  BY <1>2, SwitchWorkspaceKeeps, FocusMonitorCommandKeeps, MoveToWorkspaceKeeps,
     MoveToMonitorKeeps, ToggleFloatingKeeps, SetFullscreenKeeps,
     AssignScratchpadKeeps, ShowScratchpadKeeps, HideScratchpadKeeps,
     FocusDirectionKeeps, FocusCycleKeeps, RearrangeKeeps
     DEF CommandNext, ToggleFullscreen
<1>3. CASE InputNext
  BY <1>3, EnterNotifyKeeps, ButtonPressKeeps, OpenPopupKeeps, ClosePopupKeeps,
     InputKeeps DEF InputNext
<1>4. CASE UNCHANGED vars
  BY <1>4 DEF vars, Consistent, ClientsOK, ScreenOK, FocusRecord,
              TreeMatchesClients, OccupiesTreeSlot
<1>5. QED BY <1>1, <1>2, <1>3, <1>4 DEF Next

THEOREM Consistency == Spec => []Consistent
<1>1. QED BY InitConsistent, NextKeepsConsistent, PTL DEF Spec

\* Every variable keeps its type: in particular, the focused window, the
\* scratchpad's window and every mapped window are windows WindowRepository
\* still has, after any sequence of handlers (m_focusedWindow and Scratchpad
\* keep raw pointers into it).
THEOREM TypeCorrect == Spec => []TypeOK
<1>1. Consistent => TypeOK
  BY DEF Consistent, ClientsOK, ScreenOK, FocusRecord, Input, TypeOK
<1>2. QED BY <1>1, Consistency, PTL

\* Every workspace's BSP tree has a leaf for exactly the windows that live
\* there and occupy a slot: no handler leaves a leaf behind or forgets one.
THEOREM TreesMatchClients == Spec => []TreeMatchesClients
<1>1. Consistent => TreeMatchesClients
  BY DEF Consistent, ClientsOK
<1>2. QED BY <1>1, Consistency, PTL

----------------------------------------------------------------------------
(***************************************************************************)
(* Workspaces on monitors.                                                 *)
(***************************************************************************)

\* A step shows at most one workspace that was not on any monitor, and shows
\* it on the focused monitor.
LEMMA OneHiddenWorkspace ==
  ASSUME [Next]_vars
  PROVE  \/ active' = active
         \/ \E ws \in Workspace : /\ ~IsShown(ws)
                                  /\ active' = [active EXCEPT ![focus.mon] = ws]
<1> DEFINE Goal == \/ active' = active
                   \/ \E ws \in Workspace : /\ ~IsShown(ws)
                                            /\ active' = [active EXCEPT ![focus.mon] = ws]
<1>1. ASSUME NEW w \in Window, NEW hasParent \in BOOLEAN, NEW full \in BOOLEAN,
             NEW ws \in Workspace, NEW sm \in Monitor, NEW place \in Placement(ws),
             Manage(w, hasParent, place, full, sm)
      PROVE  Goal
  <2>1. place.ws \in Workspace
    BY DEF Placement, FindWorkspaceWithRoom
  <2>2. QED BY <1>1, <2>1 DEF Manage
<1>2. ManageAny => Goal
  BY <1>1 DEF ManageAny
<1>3. ASSUME NEW w \in Window, Unmanage(w) \/ HandleConfigureRequest(w)
                               \/ HandleClientMessage(w) \/ ClientTakesFocus(w)
      PROVE  Goal
  BY <1>3 DEF Unmanage, HandleConfigureRequest, ApplyTilingMisbehaviorFallback, HandleClientMessage,
              SetFullscreen, ClientTakesFocus
<1>4. ASSUME CommandNext PROVE Goal
  <2>1. ASSUME NEW ws \in Workspace, SwitchWorkspace(ws) PROVE Goal
    BY <2>1 DEF SwitchWorkspace
  <2>2. ASSUME NEW m \in Monitor, NEW fits,
               FocusMonitorCommand(m) \/ MoveWindowToMonitor(m, fits)
        PROVE  Goal
    BY <2>2 DEF FocusMonitorCommand, MoveWindowToMonitor
  <2>3. ASSUME NEW ws, NEW fits,
               MoveFocusedToWorkspace(ws, fits) \/ ToggleFloating(fits)
        PROVE  Goal
    BY <2>3 DEF MoveFocusedToWorkspace, ToggleFloating
  <2>4. ToggleFullscreen \/ AssignScratchpad \/ ShowScratchpad \/ HideScratchpad => Goal
    BY DEF ToggleFullscreen, SetFullscreen, AssignScratchpad, ShowScratchpad, HideScratchpad
  <2>5. ASSUME NEW w, FocusDirection(w) \/ FocusCycle(w) \/ RotateOrFlipFocused \/ Rearrange
        PROVE  Goal
    BY <2>5 DEF FocusDirection, FocusCycle, RotateOrFlipFocused, Rearrange
  <2>6. QED BY <1>4, <2>1, <2>2, <2>3, <2>4, <2>5 DEF CommandNext
<1>5. ASSUME InputNext PROVE active' = active
  BY <1>5 DEF InputNext, HandleEnterNotify, HandleButtonPressOnClient, OpenPopup,
              ClosePopup, HandleFocusIn
<1>6. QED BY <1>2, <1>3, <1>4, <1>5 DEF Next, ClientNext, vars

\* No sequence of handlers ever puts one workspace on two monitors:
\* SwitchWorkspaceOnMonitor refuses a workspace that is shown elsewhere, and
\* Manage raises a dialog's workspace only when no monitor shows it.
THEOREM NoSharedWorkspace == Spec => []MonitorsNeverShare
<1>1. Init => MonitorsNeverShare
  BY DEF Init, MonitorsNeverShare
<1>2. ASSUME Consistent, MonitorsNeverShare, [Next]_vars PROVE MonitorsNeverShare'
  BY <1>2, OneHiddenWorkspace
     DEF Consistent, ScreenOK, FocusRecord, MonitorsNeverShare, IsShown
<1>3. QED BY <1>1, <1>2, Consistency, PTL DEF Spec

\* A step changes what the focused monitor shows, and no other monitor.
THEOREM SwitchesAreLocal == Spec => SwitchIsLocal
<1>1. ASSUME Consistent, [Next]_vars
      PROVE  \A m \in Monitor : active'[m] # active[m] => m = focus.mon
  BY <1>1, OneHiddenWorkspace DEF Consistent, ScreenOK
<1>2. QED BY <1>1, Consistency, PTL DEF Spec, SwitchIsLocal

----------------------------------------------------------------------------
(***************************************************************************)
(* The scratchpad.                                                         *)
(***************************************************************************)

\* A window that is in the scratchpad, or will return to it from fullscreen.
InScratchpad(w) == \/ state[w] = "Scratchpad"
                   \/ state[w] = "Fullscreen" /\ prev[w] = "Scratchpad"

ScratchOK == \A w \in managed : scratch.win = w <=> InScratchpad(w)

\* Steps that leave windows, states and the scratchpad's window alone.
LEMMA ScratchKept ==
  ASSUME ScratchOK, UNCHANGED <<managed, state, prev>>, scratch'.win = scratch.win
  PROVE  ScratchOK'
  BY DEF ScratchOK, InScratchpad

LEMMA ManageScratch ==
  ASSUME Consistent, ScratchOK, NEW w \in Window, NEW hasParent, NEW full \in BOOLEAN,
         NEW ws \in Workspace, NEW sm, NEW place \in Placement(ws),
         Manage(w, hasParent, place, full, sm)
  PROVE  ScratchOK'
<1>1. place.st \in {"Tiled", "Floating"}
  BY DEF Placement, FindWorkspaceWithRoom
<1>2. \A v \in managed : state'[v] = state[v] /\ prev'[v] = prev[v]
  BY DEF Manage, Consistent, ClientsOK
<1>3. scratch'.win # w /\ scratch' = scratch
  BY NoneIsNoWindow DEF Manage, Consistent, ScreenOK
<1>4. ~InScratchpad(w)'
  BY <1>1 DEF Manage, InScratchpad, Consistent, ClientsOK
<1>5. managed' = managed \cup {w}
  BY DEF Manage
<1>6. QED BY <1>2, <1>3, <1>4, <1>5 DEF ScratchOK, InScratchpad

LEMMA UnmanageScratch ==
  ASSUME Consistent, ScratchOK, NEW w \in Window, Unmanage(w)
  PROVE  ScratchOK'
<1>1. \A v \in managed' : /\ v \in managed /\ v # w
                          /\ state'[v] = state[v] /\ prev'[v] = prev[v]
  BY DEF Unmanage, Consistent, ClientsOK
<1>2. scratch'.win = IF scratch.win = w THEN None ELSE scratch.win
  BY DEF Unmanage, NoScratch, Forgiven, WithoutLeaf, Released
<1>3. None \notin managed'
  BY NoneIsNoWindow DEF Unmanage, Consistent, ClientsOK
<1>4. QED BY <1>1, <1>2, <1>3 DEF ScratchOK, InScratchpad

LEMMA ConfigureRequestScratch ==
  ASSUME Consistent, ScratchOK, NEW w \in Window, HandleConfigureRequest(w)
  PROVE  ScratchOK'
<1>1. UNCHANGED <<managed, prev, scratch>> /\ state[w] = "Tiled"
  BY DEF HandleConfigureRequest, ApplyTilingMisbehaviorFallback
<1>2. state' \in {state, [state EXCEPT ![w] = "Floating"]}
  BY DEF HandleConfigureRequest, ApplyTilingMisbehaviorFallback
<1>3. QED BY <1>1, <1>2 DEF ScratchOK, InScratchpad, Consistent, ClientsOK

LEMMA RelocateScratch ==
  ASSUME Consistent, ScratchOK, NEW w \in managed, NEW ws, NEW fits,
         Relocate(w, ws, fits), UNCHANGED <<managed, scratch>>
  PROVE  ScratchOK'
<1>1. \A v \in managed \ {w} : state'[v] = state[v] /\ prev'[v] = prev[v]
  BY DEF Relocate, Consistent, ClientsOK
<1>2. InScratchpad(w)' <=> InScratchpad(w)
  BY DEF Relocate, Consistent, ClientsOK, InScratchpad, OccupiesTreeSlot
<1>3. QED BY <1>1, <1>2 DEF ScratchOK, InScratchpad

LEMMA ToggleFloatingScratch ==
  ASSUME Consistent, ScratchOK, NEW fits \in BOOLEAN, ToggleFloating(fits)
  PROVE  ScratchOK'
<1>1. PICK w \in managed :
        /\ \/ /\ state[w] = "Scratchpad"
              /\ scratch' = IF scratch.win = w THEN NoScratch ELSE scratch
              /\ state' = [state EXCEPT ![w] = "Floating"]
           \/ /\ state[w] \in {"Tiled", "Floating"}
              /\ scratch' = scratch
              /\ state' \in {state, [state EXCEPT ![w] = "Floating"],
                                    [state EXCEPT ![w] = "Tiled"]}
        /\ UNCHANGED <<managed, prev>>
  BY DEF ToggleFloating, WithoutLeaf, Forgiven, Released, OccupiesTreeSlot
<1>2. \A v \in managed \ {w} : state'[v] = state[v] /\ prev'[v] = prev[v]
  BY <1>1 DEF Consistent, ClientsOK
<1>3. CASE state[w] = "Scratchpad"
  <2>1. scratch.win = w
    BY <1>3 DEF ScratchOK, InScratchpad
  <2>2. scratch'.win = None
    BY <1>1, <1>3, <2>1 DEF NoScratch
  <2>3. None \notin managed
    BY NoneIsNoWindow DEF Consistent, ClientsOK
  <2>4. ~InScratchpad(w)'
    BY <1>1, <1>3 DEF InScratchpad, Consistent, ClientsOK
  <2>5. QED BY <1>1, <1>2, <2>1, <2>2, <2>3, <2>4 DEF ScratchOK, InScratchpad
<1>4. CASE state[w] # "Scratchpad"
  <2>1. ~InScratchpad(w) /\ ~InScratchpad(w)'
    BY <1>1, <1>4 DEF InScratchpad, Consistent, ClientsOK
  <2>2. QED BY <1>1, <1>2, <1>4, <2>1 DEF ScratchOK, InScratchpad
<1>5. QED BY <1>3, <1>4

LEMMA SetFullscreenScratch ==
  ASSUME Consistent, ScratchOK, NEW w, SetFullscreen(w)
  PROVE  ScratchOK'
<1>1. w \in managed /\ UNCHANGED <<managed, scratch>>
  BY DEF SetFullscreen
<1>2. \A v \in managed \ {w} : state'[v] = state[v] /\ prev'[v] = prev[v]
  BY DEF SetFullscreen, Consistent, ClientsOK
<1>3. InScratchpad(w)' <=> InScratchpad(w)
  BY DEF SetFullscreen, Consistent, ClientsOK, InScratchpad
<1>4. QED BY <1>1, <1>2, <1>3 DEF ScratchOK, InScratchpad

LEMMA AssignScratch ==
  ASSUME Consistent, ScratchOK, AssignScratchpad
  PROVE  ScratchOK'
<1>1. PICK w \in managed :
        /\ prev' = [prev EXCEPT ![w] = state[w]]
        /\ state' = [state EXCEPT ![w] = "Scratchpad"]
        /\ scratch' = [win |-> w, shown |-> FALSE]
        /\ UNCHANGED managed
  BY DEF AssignScratchpad
<1>2. scratch.win = None /\ None \notin managed
  BY NoneIsNoWindow DEF AssignScratchpad, Consistent, ClientsOK
<1>3. \A v \in managed \ {w} : ~InScratchpad(v) /\ ~InScratchpad(v)'
  BY <1>1, <1>2 DEF Consistent, ClientsOK, ScratchOK, InScratchpad
<1>4. scratch'.win = w /\ InScratchpad(w)'
  BY <1>1 DEF Consistent, ClientsOK, InScratchpad
<1>5. QED BY <1>1, <1>3, <1>4 DEF ScratchOK

LEMMA NextKeepsScratch ==
  ASSUME Consistent, ScratchOK, [Next]_vars
  PROVE  ScratchOK'
<1>1. CASE ClientNext
  <2>1. ASSUME ManageAny PROVE ScratchOK'
    BY <2>1, ManageScratch DEF ManageAny
  <2>2. ASSUME NEW w \in Window, ClientTakesFocus(w) PROVE ScratchOK'
    BY <2>2, ScratchKept DEF ClientTakesFocus, clientVars
  <2>3. QED BY <1>1, <2>1, <2>2, UnmanageScratch, ConfigureRequestScratch,
               SetFullscreenScratch DEF ClientNext, HandleClientMessage
<1>2. CASE CommandNext
  <2>1. ASSUME NEW ws \in Workspace, SwitchWorkspace(ws) PROVE ScratchOK'
    BY <2>1, ScratchKept DEF SwitchWorkspace, clientVars
  <2>2. ASSUME NEW m \in Monitor, FocusMonitorCommand(m) PROVE ScratchOK'
    BY <2>2, ScratchKept DEF FocusMonitorCommand, clientVars
  <2>3. ASSUME NEW ws \in Workspace, NEW fits \in BOOLEAN, MoveFocusedToWorkspace(ws, fits)
        PROVE  ScratchOK'
    BY <2>3, RelocateScratch DEF MoveFocusedToWorkspace
  <2>4. ASSUME NEW m \in Monitor, NEW fits \in BOOLEAN, MoveWindowToMonitor(m, fits)
        PROVE  ScratchOK'
    BY <2>4, RelocateScratch DEF MoveWindowToMonitor
  <2>5. ASSUME ShowScratchpad \/ HideScratchpad PROVE ScratchOK'
    <3>1. scratch'.win = scratch.win /\ UNCHANGED <<managed, state, prev>>
      BY <2>5 DEF ShowScratchpad, HideScratchpad, clientVars, Consistent, ScreenOK
    <3>2. QED BY <3>1, ScratchKept
  <2>6. ASSUME NEW w \in Window, FocusDirection(w) \/ FocusCycle(w) PROVE ScratchOK'
    BY <2>6, ScratchKept DEF FocusDirection, FocusCycle, clientVars
  <2>7. ASSUME RotateOrFlipFocused \/ Rearrange PROVE ScratchOK'
    BY <2>7, ScratchKept DEF RotateOrFlipFocused, Rearrange, clientVars
  <2>8. QED BY <1>2, <2>1, <2>2, <2>3, <2>4, <2>5, <2>6, <2>7, ToggleFloatingScratch,
               SetFullscreenScratch, AssignScratch DEF CommandNext, ToggleFullscreen
<1>3. CASE InputNext
  <2>1. UNCHANGED <<clientVars, scratch>>
    BY <1>3 DEF InputNext, HandleEnterNotify, HandleButtonPressOnClient, OpenPopup,
                ClosePopup, HandleFocusIn
  <2>2. QED BY <2>1, ScratchKept DEF clientVars
<1>4. CASE UNCHANGED vars
  BY <1>4, ScratchKept DEF vars
<1>5. QED BY <1>1, <1>2, <1>3, <1>4 DEF Next

\* Scratchpad and the windows' states never disagree: the slot names exactly
\* the window in (or fullscreen from) the scratchpad, so the toggle can
\* always reach it and no second window is ever stranded in that state.
THEOREM ScratchpadIsKnown == Spec => []ScratchpadMatchesClients
<1>1. Init => ScratchOK
  BY DEF Init, ScratchOK
<1>2. ScratchOK => ScratchpadMatchesClients
  BY DEF ScratchOK, InScratchpad, ScratchpadMatchesClients
<1>3. QED BY <1>1, <1>2, NextKeepsScratch, Consistency, PTL DEF Spec

\* Every window managed has its leaf in the tree of its workspace, and the one
\* whose state says so is in the scratchpad's slot, through every handler.
THEOREM WindowsAreAccountedFor == Spec => []WindowsAccountedFor
<1>1. TreeMatchesClients /\ ScratchpadMatchesClients => WindowsAccountedFor
  BY DEF WindowsAccountedFor
<1>2. QED BY <1>1, TreesMatchClients, ScratchpadIsKnown, PTL

----------------------------------------------------------------------------
(***************************************************************************)
(* Strikes.                                                                *)
(***************************************************************************)

\* What any step does to the strikes of a window that gains a leaf.
StrikesStep ==
  \A w \in Window, ws \in Workspace :
    w \in tree'[ws] \ tree[ws] => strikes'[w] = 0

LEMMA SameStrikes ==
  ASSUME Consistent, UNCHANGED <<strikes, tree>>
  PROVE  StrikesStep
  BY DEF StrikesStep

LEMMA NextStrikes ==
  ASSUME Consistent, [Next]_vars
  PROVE  StrikesStep
<1>1. ASSUME NEW w \in Window, NEW hasParent, NEW full,
             NEW ws \in Workspace, NEW sm, NEW place \in Placement(ws),
             Manage(w, hasParent, place, full, sm)
      PROVE  StrikesStep
  <2>1. place.ws \in Workspace
    BY DEF Placement, FindWorkspaceWithRoom
  <2>2. strikes' = [strikes EXCEPT ![w] = 0]
        /\ tree' \in {tree, [tree EXCEPT ![place.ws] = @ \cup {w}]}
    BY <1>1 DEF Manage, Forgiven, OpensInBackground
  <2>3. QED BY <2>1, <2>2 DEF StrikesStep, Consistent, ClientsOK
<1>2. ASSUME NEW w \in Window, Unmanage(w) PROVE StrikesStep
  <2>1. strikes' = [strikes EXCEPT ![w] = 0]
        /\ tree' \in {tree, [tree EXCEPT ![wsOf[w]] = @ \ {w}]}
    BY <1>2 DEF Unmanage, Forgiven, WithoutLeaf, Released
  <2>2. QED BY <2>1 DEF StrikesStep, Consistent, ClientsOK
<1>3. ASSUME NEW w \in Window, HandleConfigureRequest(w) PROVE StrikesStep
  <2>1. CASE strikes' = [strikes EXCEPT ![w] = 0] /\ tree' = [tree EXCEPT ![wsOf[w]] = @ \ {w}]
    BY <2>1 DEF StrikesStep, Consistent, ClientsOK
  <2>2. CASE /\ strikes' = [strikes EXCEPT ![w] = @ + 1]
             /\ tree' = tree
    BY <2>2 DEF StrikesStep, Consistent, ClientsOK
  <2>3. QED BY <1>3, <2>1, <2>2 DEF HandleConfigureRequest, ApplyTilingMisbehaviorFallback, Forgiven, WithoutLeaf, OccupiesTreeSlot
<1>4. ASSUME NEW w \in managed, NEW ws \in Workspace, NEW fits, Relocate(w, ws, fits)
      PROVE  StrikesStep
  <2>1. CASE OccupiesTreeSlot(w) /\ fits
    <3>1. /\ strikes' = [strikes EXCEPT ![w] = 0]
          /\ tree' = [[tree EXCEPT ![wsOf[w]] = @ \ {w}] EXCEPT ![ws] = @ \cup {w}]
      BY <1>4, <2>1 DEF Relocate, WithoutLeaf, Forgiven
    <3>2. QED BY <3>1 DEF StrikesStep, Consistent, ClientsOK
  <2>2. CASE ~(OccupiesTreeSlot(w) /\ fits)
    <3>1. strikes' = strikes /\ tree' \in {tree, [tree EXCEPT ![wsOf[w]] = @ \ {w}]}
      BY <1>4, <2>2 DEF Relocate, WithoutLeaf, Forgiven
    <3>2. QED BY <3>1 DEF StrikesStep, Consistent, ClientsOK
  <2>3. QED BY <2>1, <2>2
<1>5. ASSUME NEW fits, ToggleFloating(fits) PROVE StrikesStep
  <2>1. PICK w \in managed :
          \/ /\ strikes' = strikes
             /\ tree' \in {tree, [tree EXCEPT ![wsOf[w]] = @ \ {w}]}
          \/ /\ strikes' = [strikes EXCEPT ![w] = 0]
             /\ tree' = [tree EXCEPT ![wsOf[w]] = @ \cup {w}]
    BY <1>5 DEF ToggleFloating, WithoutLeaf, Forgiven, Released
  <2>2. QED BY <2>1 DEF StrikesStep, Consistent, ClientsOK
<1>6. ASSUME AssignScratchpad PROVE StrikesStep
  <2>1. PICK w \in managed : /\ strikes' = strikes
                             /\ tree' \in {tree, [tree EXCEPT ![wsOf[w]] = @ \ {w}]}
    BY <1>6 DEF AssignScratchpad, WithoutLeaf
  <2>2. QED BY <2>1 DEF StrikesStep, Consistent, ClientsOK
<1>7. CASE ClientNext
  <2>1. ASSUME NEW w \in Window, HandleClientMessage(w) \/ ClientTakesFocus(w)
        PROVE  StrikesStep
    BY <2>1, SameStrikes DEF HandleClientMessage, SetFullscreen, ClientTakesFocus, clientVars
  <2>2. QED BY <1>1, <1>2, <1>3, <1>7, <2>1 DEF ClientNext, ManageAny
<1>8. CASE CommandNext
  <2>1. ASSUME NEW ws \in Workspace, SwitchWorkspace(ws) PROVE StrikesStep
    BY <2>1, SameStrikes DEF SwitchWorkspace, clientVars
  <2>2. ASSUME NEW m \in Monitor, FocusMonitorCommand(m) PROVE StrikesStep
    BY <2>2, SameStrikes DEF FocusMonitorCommand, clientVars
  <2>3. ASSUME NEW w \in Window, FocusDirection(w) \/ FocusCycle(w) PROVE StrikesStep
    BY <2>3, SameStrikes DEF FocusDirection, FocusCycle, clientVars
  <2>4. ASSUME \/ ToggleFullscreen \/ ShowScratchpad \/ HideScratchpad
               \/ RotateOrFlipFocused \/ Rearrange
        PROVE  StrikesStep
    BY <2>4, SameStrikes DEF ToggleFullscreen, SetFullscreen, ShowScratchpad,
                             HideScratchpad, RotateOrFlipFocused, Rearrange, clientVars
  <2>5. ASSUME NEW ws \in Workspace, NEW fits \in BOOLEAN, MoveFocusedToWorkspace(ws, fits)
        PROVE  StrikesStep
    BY <1>4, <2>5 DEF MoveFocusedToWorkspace
  <2>6. ASSUME NEW m \in Monitor, NEW fits \in BOOLEAN, MoveWindowToMonitor(m, fits)
        PROVE  StrikesStep
    BY <1>4, <2>6 DEF MoveWindowToMonitor, Consistent, ScreenOK
  <2>7. QED BY <1>5, <1>6, <1>8, <2>1, <2>2, <2>3, <2>4, <2>5, <2>6 DEF CommandNext
<1>9. CASE InputNext
  <2>1. UNCHANGED clientVars
    BY <1>9 DEF InputNext, HandleEnterNotify, HandleButtonPressOnClient, OpenPopup,
                ClosePopup, HandleFocusIn
  <2>2. QED BY <2>1, SameStrikes DEF clientVars
<1>10. CASE UNCHANGED vars
  BY <1>10, SameStrikes DEF vars
<1>11. QED BY <1>7, <1>8, <1>9, <1>10 DEF Next

\* Whatever handler gives a window a leaf forgives its strikes.
THEOREM TilingForgives == Spec => StrikesRestart
<1>1. ASSUME Consistent, [Next]_vars
      PROVE  \A w \in Window, ws \in Workspace :
               w \in tree'[ws] \ tree[ws] => strikes'[w] = 0
  BY <1>1, NextStrikes DEF StrikesStep
<1>2. QED BY <1>1, Consistency, PTL DEF Spec, StrikesRestart

----------------------------------------------------------------------------
(***************************************************************************)
(* What is mapped and what is focused: X maps exactly what should be on    *)
(* screen, and the keyboard is at a window that can be seen, on the        *)
(* monitor that is focused.                                                *)
(*                                                                         *)
(* Both are false in general, and the hypotheses name when they are: a     *)
(* client may ask for fullscreen while it is in the scratchpad, and the    *)
(* focus is not looked at again when the misbehavior fallback moves the    *)
(* focused window to a hidden workspace, when a popup remembers a window,  *)
(* and when one fullscreen window covers another.                          *)
(***************************************************************************)

(* ------------------------------ the screen ------------------------------- *)

\* The window in the scratchpad is mapped while it is shown, and no window will
\* return to it from fullscreen.
ScratchScreen ==
  /\ dragging = None
  /\ \A w \in managed :
       /\ state[w] = "Fullscreen" => prev[w] # "Scratchpad"
       /\ state[w] = "Scratchpad" => (w \in mapped <=> scratch.shown)

\* The same, of the windows a handler hands to Arrange.
ShownIsRight(shown) ==
  /\ dragging' = None
  /\ \A w \in managed' :
       /\ state'[w] = "Fullscreen" => prev'[w] # "Scratchpad"
       /\ state'[w] = "Scratchpad" => (w \in shown <=> scratch'.shown)

ScreenInv == ScratchScreen /\ MappedMatchesScreen

\* One fullscreen window of each monitor is on top, and hides at most its own
\* kind: whatever was mapped before, Arrange leaves exactly what is on screen.
LEMMA ArrangeIsRight ==
  ASSUME Consistent', ScratchOK', NEW shown, ShownIsRight(shown),
         NEW arranged \in Arranged(shown), arranged \subseteq mapped',
         \A w \in mapped' \ arranged : state'[w] # "Scratchpad" /\ ShownNext(wsOf'[w])
  PROVE  ScreenInv'
<1>1. PICK top \in SUBSET managed' :
        TopFullscreen(top) /\ arranged = ArrangedWith(shown, top)
  BY DEF Arranged
<1>2. \A w \in managed' : w # dragging'
  BY NoneIsNoWindow DEF ShownIsRight, Consistent, ClientsOK
<1>3. \A w \in managed' :
        IF state'[w] = "Scratchpad" THEN w \in mapped' <=> w \in shown
        ELSE /\ w \in mapped' => ShownNext(wsOf'[w])
             /\ ShownNext(wsOf'[w]) /\ w \notin mapped' =>
                  state'[w] = "Fullscreen" /\ w \notin top
  BY <1>1, <1>2 DEF ArrangedWith
<1>4. \A w \in managed' : OnScreen(w)' <=>
        IF state'[w] = "Scratchpad" THEN scratch'.win = w /\ scratch'.shown
        ELSE ShownNext(wsOf'[w])
  BY DEF OnScreen, IsShown, ShownNext
<1>5. \A w \in managed' : state'[w] = "Scratchpad" => scratch'.win = w
  BY DEF ScratchOK, InScratchpad
<1>6. ScratchScreen'
  BY <1>3 DEF ShownIsRight, ScratchScreen
<1>7. ASSUME NEW w \in managed', state'[w] = "Fullscreen", w \notin top, ShownNext(wsOf'[w])
      PROVE  \E v \in mapped' \ {w} : wsOf'[v] = wsOf'[w] /\ state'[v] = "Fullscreen"
  <2>1. PICK m \in Monitor : active'[m] = wsOf'[w]
    BY <1>7 DEF ShownNext
  <2> DEFINE full == {v \in VisibleNext(active'[m]) : state'[v] = "Fullscreen" /\ v # dragging'}
  <2>2. w \in full
    BY <1>2, <1>7, <2>1 DEF VisibleNext
  <2>3. PICK v \in full : full \cap top = {v}
    BY <1>1, <2>2 DEF TopFullscreen
  <2>4. v \in managed' /\ v \in top /\ v # w /\ wsOf'[v] = wsOf'[w] /\ state'[v] = "Fullscreen"
    BY <1>7, <2>1, <2>3 DEF VisibleNext
  <2>5. v \in mapped'
    BY <1>1, <1>2, <1>7, <2>4 DEF ArrangedWith
  <2>6. QED BY <2>4, <2>5
<1>8. MappedMatchesScreen'
  <2> SUFFICES ASSUME NEW w \in managed' \ {dragging'}
               PROVE  /\ w \in mapped' => OnScreen(w)'
                      /\ OnScreen(w)' /\ w \notin mapped' =>
                           \E v \in mapped' \ {w} :
                             /\ wsOf'[v] = wsOf'[w]
                             /\ state'[w] = "Fullscreen" /\ state'[v] = "Fullscreen"
    BY DEF MappedMatchesScreen
  <2>1. CASE state'[w] = "Scratchpad"
    BY <1>3, <1>4, <1>5, <2>1 DEF ShownIsRight
  <2>2. CASE state'[w] # "Scratchpad"
    BY <1>3, <1>4, <1>7, <2>2
  <2>3. QED BY <2>1, <2>2
<1>9. QED BY <1>6, <1>8 DEF ScreenInv

\* All but one handler leave it at that.
LEMMA RearrangeIsRight ==
  ASSUME Consistent', ScratchOK', NEW shown, ShownIsRight(shown), mapped' \in Arranged(shown)
  PROVE  ScreenInv'
<1>1. \A S : S \subseteq S /\ S \ S = {}
  OBVIOUS
<1>2. QED BY <1>1, ArrangeIsRight

\* A handler that only moves the focus.
LEMMA SameScreen ==
  ASSUME ScreenInv, UNCHANGED <<managed, state, prev, wsOf, active, mapped, scratch, dragging>>
  PROVE  ScreenInv'
  BY DEF ScreenInv, ScratchScreen, MappedMatchesScreen, OnScreen, IsShown

LEMMA ManageScreen ==
  ASSUME Consistent, Consistent', ScratchOK', ScreenInv, NEW w \in Window, NEW hasParent \in BOOLEAN,
         NEW full \in BOOLEAN, NEW ws \in Workspace, NEW sm, NEW place \in Placement(ws),
         Manage(w, hasParent, place, full, sm)
  PROVE  ScreenInv'
<1>1. place.st \in {"Tiled", "Floating"} /\ place.ws \in Workspace
  BY DEF Placement, FindWorkspaceWithRoom
<1>2. \A v \in managed : /\ state'[v] = state[v] /\ prev'[v] = prev[v]
  BY DEF Manage, Consistent, ClientsOK
<1>3. /\ managed' = managed \cup {w} /\ UNCHANGED <<scratch, dragging>>
      /\ state'[w] \in {"Tiled", "Floating", "Fullscreen"} /\ prev'[w] \in {"Tiled", "Floating"}
      /\ wsOf'[w] = place.ws
  BY <1>1 DEF Manage, Consistent, ClientsOK
<1>4. ShownIsRight(mapped)
  BY <1>2, <1>3 DEF ShownIsRight, ScreenInv, ScratchScreen
<1> DEFINE background == OpensInBackground(place.ws, hasParent)
           extra == IF background THEN {} ELSE {w}
<1>5. PICK a \in Arranged(mapped) : mapped' = a \cup extra
  BY DEF Manage
<1>6. ~background => ShownNext(place.ws)
  <2>1. focus.mon \in Monitor
    BY DEF Consistent, FocusRecord
  <2>2. CASE IsShown(place.ws)
    <3>1. active' = active
      BY <2>2 DEF Manage
    <3>2. QED BY <2>2, <3>1 DEF IsShown, ShownNext
  <2>3. CASE ~IsShown(place.ws) /\ hasParent
    <3>1. active' = [active EXCEPT ![focus.mon] = place.ws]
      BY <2>3 DEF Manage
    <3>2. QED BY <2>1, <3>1 DEF ShownNext, Consistent, ScreenOK
  <2>4. QED BY <2>2, <2>3 DEF OpensInBackground
<1>7. \A v \in mapped' \ a : state'[v] # "Scratchpad" /\ ShownNext(wsOf'[v])
  BY <1>3, <1>5, <1>6
<1> HIDE DEF extra
<1>8. QED BY <1>4, <1>5, <1>7, ArrangeIsRight

LEMMA UnmanageScreen ==
  ASSUME Consistent, Consistent', ScratchOK, ScratchOK', ScreenInv, NEW w \in Window, Unmanage(w)
  PROVE  ScreenInv'
<1>1. \A v \in managed' : v \in managed /\ v # w /\ state'[v] = state[v] /\ prev'[v] = prev[v]
  BY DEF Unmanage, Consistent, ClientsOK
<1>2. dragging' = dragging /\ scratch' = IF scratch.win = w THEN NoScratch ELSE scratch
  BY DEF Unmanage, Released
<1>3. scratch'.win # None => scratch' = scratch
  BY <1>2 DEF NoScratch
<1>4. \A v \in managed' : state'[v] = "Scratchpad" => scratch'.win = v /\ v # None
  BY NoneIsNoWindow DEF ScratchOK, InScratchpad, Consistent, ClientsOK
<1>5. ShownIsRight(mapped \ {w})
  BY <1>1, <1>2, <1>3, <1>4 DEF ShownIsRight, ScreenInv, ScratchScreen
<1>6. mapped' \in Arranged(mapped \ {w})
  BY DEF Unmanage
<1>7. QED BY <1>5, <1>6, RearrangeIsRight

\* Most handlers rearrange what was mapped, and take no window to the scratchpad.
LEMMA StatesRight ==
  ASSUME ScreenInv, UNCHANGED <<managed, scratch, dragging>>,
         \A v \in managed : /\ state'[v] = "Scratchpad" => state[v] = "Scratchpad"
                            /\ state'[v] = "Fullscreen" => prev'[v] # "Scratchpad"
  PROVE  ShownIsRight(mapped)
  BY DEF ShownIsRight, ScreenInv, ScratchScreen

LEMMA SameStatesRight ==
  ASSUME ScreenInv, UNCHANGED <<managed, state, prev, scratch, dragging>>
  PROVE  ShownIsRight(mapped)
  BY StatesRight DEF ScreenInv, ScratchScreen

LEMMA ConfigureRequestScreen ==
  ASSUME Consistent, Consistent', ScratchOK', ScreenInv, NEW w \in Window, HandleConfigureRequest(w)
  PROVE  ScreenInv'
<1>1. CASE strikes[w] + 1 >= Threshold
  <2>1. /\ UNCHANGED <<managed, prev, scratch, dragging>> /\ mapped' \in Arranged(mapped)
        /\ state' = [state EXCEPT ![w] = "Floating"]
    BY <1>1 DEF HandleConfigureRequest, ApplyTilingMisbehaviorFallback
  <2>2. ShownIsRight(mapped)
    BY <2>1, StatesRight DEF Consistent, ClientsOK, ScreenInv, ScratchScreen
  <2>3. QED BY <2>1, <2>2, RearrangeIsRight
<1>2. CASE ~(strikes[w] + 1 >= Threshold)
  BY <1>2, SameScreen DEF HandleConfigureRequest
<1>3. QED BY <1>1, <1>2

LEMMA RelocateScreen ==
  ASSUME Consistent, Consistent', ScratchOK', ScreenInv, NEW w \in managed, NEW ws, NEW fits,
         Relocate(w, ws, fits), UNCHANGED <<managed, scratch, dragging>>,
         mapped' \in Arranged(mapped)
  PROVE  ScreenInv'
<1>1. \A v \in managed : v # w => state'[v] = state[v] /\ prev'[v] = prev[v]
  BY DEF Relocate, Consistent, ClientsOK
<1>2. /\ state'[w] = "Scratchpad" => state[w] = "Scratchpad"
      /\ state'[w] = "Fullscreen" => state[w] = "Fullscreen" /\ prev'[w] \in {prev[w], "Floating"}
  BY DEF Relocate, Consistent, ClientsOK
<1>3. ShownIsRight(mapped)
  BY <1>1, <1>2, StatesRight DEF ScreenInv, ScratchScreen
<1>4. QED BY <1>3, RearrangeIsRight

LEMMA ToggleFloatingScreen ==
  ASSUME Consistent, Consistent', ScratchOK, ScratchOK', ScreenInv, NEW fits, ToggleFloating(fits)
  PROVE  ScreenInv'
<1>1. PICK w \in managed :
        /\ scratch' = IF state[w] = "Scratchpad" THEN Released(w) ELSE scratch
        /\ state' \in {state, [state EXCEPT ![w] = "Floating"], [state EXCEPT ![w] = "Tiled"]}
        /\ UNCHANGED <<managed, prev, dragging>>
        /\ mapped' \in Arranged(mapped)
  BY DEF ToggleFloating
<1>2. \A v \in managed : state'[v] \in {state[v], "Floating", "Tiled"}
  BY <1>1 DEF Consistent, ClientsOK
<1>3. CASE state[w] = "Scratchpad"
  <2>1. scratch'.win = None
    BY <1>1, <1>3 DEF Released, NoScratch, ScratchOK, InScratchpad
  <2>2. \A v \in managed' : state'[v] # "Scratchpad"
    BY <1>1, <2>1, NoneIsNoWindow DEF ScratchOK, InScratchpad, Consistent, ClientsOK
  <2>3. ShownIsRight(mapped)
    BY <1>1, <1>2, <2>2 DEF ShownIsRight, ScreenInv, ScratchScreen
  <2>4. QED BY <1>1, <2>3, RearrangeIsRight
<1>4. CASE state[w] # "Scratchpad"
  <2>1. ShownIsRight(mapped)
    BY <1>1, <1>2, <1>4, StatesRight DEF ScreenInv, ScratchScreen
  <2>2. QED BY <1>1, <2>1, RearrangeIsRight
<1>5. QED BY <1>3, <1>4

LEMMA SetFullscreenScreen ==
  ASSUME Consistent, Consistent', ScratchOK, ScratchOK', ScreenInv, ~ScratchFullscreen,
         NEW w, SetFullscreen(w)
  PROVE  ScreenInv'
<1>1. w \in managed /\ w # scratch.win /\ UNCHANGED <<managed, scratch, dragging>>
      /\ mapped' \in Arranged(mapped)
  BY DEF SetFullscreen
<1>2. state[w] # "Scratchpad" /\ (state[w] = "Fullscreen" => prev[w] # "Scratchpad")
  BY <1>1 DEF ScratchOK, InScratchpad
<1>3. \A v \in managed : v # w => state'[v] = state[v] /\ prev'[v] = prev[v]
  BY DEF SetFullscreen, Consistent, ClientsOK
<1>4. /\ state'[w] = "Scratchpad" => state[w] = "Scratchpad"
      /\ state'[w] = "Fullscreen" => prev'[w] # "Scratchpad"
  BY <1>1, <1>2 DEF SetFullscreen, Consistent, ClientsOK
<1>5. ShownIsRight(mapped)
  BY <1>1, <1>3, <1>4, StatesRight DEF ScreenInv, ScratchScreen
<1>6. QED BY <1>1, <1>5, RearrangeIsRight

LEMMA AssignScreen ==
  ASSUME Consistent, Consistent', ScratchOK, ScratchOK', ScreenInv, AssignScratchpad
  PROVE  ScreenInv'
<1>1. PICK w \in managed :
        /\ state' = [state EXCEPT ![w] = "Scratchpad"] /\ prev' = [prev EXCEPT ![w] = state[w]]
        /\ scratch' = [win |-> w, shown |-> FALSE]
        /\ UNCHANGED <<managed, dragging>> /\ mapped' \in Arranged(mapped \ {w})
  BY DEF AssignScratchpad
<1>2. \A v \in managed : v # w => state[v] # "Scratchpad" /\ state'[v] = state[v] /\ prev'[v] = prev[v]
  BY <1>1, NoneIsNoWindow DEF AssignScratchpad, ScratchOK, InScratchpad, Consistent, ClientsOK
<1>3. state'[w] = "Scratchpad"
  BY <1>1 DEF Consistent, ClientsOK
<1>4. ShownIsRight(mapped \ {w})
  BY <1>1, <1>2, <1>3 DEF ShownIsRight, ScreenInv, ScratchScreen
<1>5. QED BY <1>1, <1>4, RearrangeIsRight

LEMMA ToggleScratchScreen ==
  ASSUME Consistent, ScratchOK, ScreenInv, ShowScratchpad \/ HideScratchpad
  PROVE  ScreenInv'
<1>1. PICK w \in managed :
        /\ scratch.win = w
        /\ \/ scratch' = [scratch EXCEPT !.shown = TRUE] /\ mapped' = mapped \cup {w}
           \/ scratch' = [scratch EXCEPT !.shown = FALSE] /\ mapped' = mapped \ {w}
        /\ UNCHANGED <<managed, state, prev, wsOf, active, dragging>>
  BY DEF ShowScratchpad, HideScratchpad, clientVars
<1>2. state[w] = "Scratchpad" /\ \A v \in managed : state[v] = "Scratchpad" => v = w
  BY <1>1 DEF ScratchOK, InScratchpad, ScreenInv, ScratchScreen
<1>3. scratch'.win = w /\ (w \in mapped' <=> scratch'.shown)
  BY <1>1 DEF Consistent, ScreenOK
<1>4. \A v \in managed : v # w => (v \in mapped' <=> v \in mapped)
  BY <1>1
<1>5. ScratchScreen'
  BY <1>1, <1>2, <1>3 DEF ScreenInv, ScratchScreen
<1>6. MappedMatchesScreen'
  BY <1>1, <1>2, <1>3, <1>4 DEF ScreenInv, MappedMatchesScreen, OnScreen, IsShown
<1>7. QED BY <1>5, <1>6 DEF ScreenInv

\* Every handler and command, while the scratchpad's window may not go
\* fullscreen.
LEMMA NextKeepsScreen ==
  ASSUME Consistent, ScratchOK, ScreenInv, ~ScratchFullscreen, [Next]_vars
  PROVE  ScreenInv'
<1>0. Consistent' /\ ScratchOK'
  BY NextKeepsConsistent, NextKeepsScratch
<1>1. CASE ClientNext
  <2>1. ASSUME ManageAny PROVE ScreenInv'
    BY <1>0, <2>1, ManageScreen DEF ManageAny
  <2>2. ASSUME NEW w \in Window, ClientTakesFocus(w) PROVE ScreenInv'
    BY <2>2, SameScreen DEF ClientTakesFocus, clientVars
  <2>3. QED BY <1>0, <1>1, <2>1, <2>2, UnmanageScreen, ConfigureRequestScreen, SetFullscreenScreen
            DEF ClientNext, HandleClientMessage
<1>2. ASSUME UNCHANGED <<managed, state, prev, scratch, dragging>>, mapped' \in Arranged(mapped)
      PROVE  ScreenInv'
  BY <1>0, <1>2, SameStatesRight, RearrangeIsRight
<1>3. CASE CommandNext
  <2>1. ASSUME NEW ws \in Workspace, SwitchWorkspace(ws) PROVE ScreenInv'
    BY <1>2, <2>1 DEF SwitchWorkspace, clientVars
  <2>2. ASSUME NEW m \in Monitor, FocusMonitorCommand(m) PROVE ScreenInv'
    BY <2>2, SameScreen DEF FocusMonitorCommand, clientVars
  <2>3. ASSUME NEW ws \in Workspace, NEW fits \in BOOLEAN, MoveFocusedToWorkspace(ws, fits)
        PROVE  ScreenInv'
    BY <1>0, <2>3, RelocateScreen DEF MoveFocusedToWorkspace
  <2>4. ASSUME NEW m \in Monitor, NEW fits \in BOOLEAN, MoveWindowToMonitor(m, fits)
        PROVE  ScreenInv'
    BY <1>0, <2>4, RelocateScreen DEF MoveWindowToMonitor
  <2>5. ASSUME NEW w \in Window, FocusDirection(w) \/ FocusCycle(w) PROVE ScreenInv'
    BY <2>5, SameScreen DEF FocusDirection, FocusCycle, clientVars
  <2>6. ASSUME RotateOrFlipFocused \/ Rearrange PROVE ScreenInv'
    BY <1>2, <2>6 DEF RotateOrFlipFocused, Rearrange, clientVars
  <2>7. QED BY <1>0, <1>3, <2>1, <2>2, <2>3, <2>4, <2>5, <2>6, ToggleFloatingScreen,
               SetFullscreenScreen, AssignScreen, ToggleScratchScreen DEF CommandNext, ToggleFullscreen
<1>4. CASE InputNext
  <2>1. UNCHANGED <<managed, state, prev, wsOf, active, mapped, scratch, dragging>>
    BY <1>4 DEF InputNext, HandleEnterNotify, HandleButtonPressOnClient, OpenPopup,
                ClosePopup, HandleFocusIn, clientVars
  <2>2. QED BY <2>1, SameScreen
<1>5. CASE UNCHANGED vars
  BY <1>5, SameScreen DEF vars
<1>6. QED BY <1>1, <1>3, <1>4, <1>5 DEF Next

\* Scratchpad and screen together, for the theorems.
Screened == Consistent /\ ScratchOK /\ ScreenInv

LEMMA ScreenedStarts == Init => Screened
<1>1. Init => ScratchOK /\ ScreenInv
  BY DEF Init, ScratchOK, ScreenInv, ScratchScreen, MappedMatchesScreen
<1>2. QED BY <1>1, InitConsistent DEF Screened

LEMMA StaysScreened == ASSUME ~ScratchFullscreen PROVE Spec => []Screened
<1>1. ASSUME Screened, [Next]_vars PROVE Screened'
  <2> USE DEF Screened
  <2>1. Consistent' /\ ScratchOK'
    BY <1>1, NextKeepsConsistent, NextKeepsScratch
  <2>2. ScreenInv'
    BY <1>1, NextKeepsScreen
  <2>3. QED BY <2>1, <2>2
<1>2. QED BY <1>1, ScreenedStarts, PTL DEF Spec

\* As long as no fullscreen is asked of the scratchpad's window, X maps exactly
\* what belongs on screen after every event: nothing of a hidden workspace, the
\* scratchpad when it is shown, and everything of a workspace that a monitor
\* shows, but for a fullscreen window under another one (Arrange,
\* ArrangeMonitor, Manage, ShowScratchpad, HideScratchpad).
THEOREM ScreenIsRight == ASSUME ~ScratchFullscreen PROVE Spec => []MappedMatchesScreen
  BY StaysScreened, PTL DEF Screened, ScreenInv

----------------------------------------------------------------------------
(***************************************************************************)
(* Focus.  As in WindowManager, the operators read the handler's result:   *)
(* a handler settles the screen first and chooses among it.                *)
(***************************************************************************)

\* A window the screen shows once the handler is done.
SeenNext(w) ==
  IF state'[w] = "Scratchpad" THEN scratch'.win = w /\ scratch'.shown
                              ELSE ShownNext(wsOf'[w])

\* The scratchpad is shown on the focused monitor of f, and nothing else is.
OnlyScratchpad(f) ==
  /\ scratch'.shown
  /\ monOf'[scratch'.win] = f.mon
  /\ VisibleNext(active'[f.mon]) = {}

\* FocusIsRight, of a focus that is not m_focusedWindow yet.
RightNext(f) ==
  /\ f.mon \in Monitor
  /\ IF f.win = None
       THEN /\ VisibleNext(active'[f.mon]) = {} /\ ~OnlyScratchpad(f)
            /\ f.input = "root"
       ELSE /\ f.win \in managed' /\ SeenNext(f.win)
            /\ state'[f.win] # "Scratchpad" => active'[f.mon] = wsOf'[f.win]
            /\ f.input = f.win

\* What the operators may assume of the screen that is settled.
ScreenSettled ==
  /\ Settled
  /\ \A w \in managed' : state'[w] = "Scratchpad" <=> scratch'.win = w
  /\ scratch'.shown => scratch'.win # None
  /\ \A m, n \in Monitor : active'[m] = active'[n] => m = n

\* X maps what the handler will show, and the scratchpad's monitor is known.
Serves(screen) ==
  /\ \A w \in managed' : SeenNext(w) => w \in screen.mapped
  /\ scratch'.win # None => screen.home[scratch'.win] = monOf'[scratch'.win]

Foci == [win : Window \cup {None}, mon : Monitor, input : Input]

\* The monitor that shows a workspace, when no two monitors share one.
LEMMA ShowingMonitorShows ==
  ASSUME NEW ws, ShownNext(ws)
  PROVE  MonitorShowingNext(ws) \in Monitor /\ active'[MonitorShowingNext(ws)] = ws
  BY DEF ShownNext, MonitorShowingNext

\* Focusing a window that is seen makes everything right.
LEMMA FocusMakesRight ==
  ASSUME ScreenSettled, NEW screen, Serves(screen), NEW f \in Foci,
         NEW w \in managed', SeenNext(w)
  PROVE  Focus(f, w, screen) \in Foci /\ RightNext(Focus(f, w, screen))
<1> DEFINE g == Focus(f, w, screen)
<1>1. w \in Window /\ w # None /\ w \in screen.mapped
  BY NoneIsNoWindow DEF ScreenSettled, Settled, Serves
<1>2. g.win = w /\ g.input = w
  BY <1>1 DEF Focus
<1>3. CASE state'[w] = "Scratchpad"
  <2>1. g.mon = f.mon /\ g = [win |-> w, mon |-> f.mon, input |-> w]
    BY <1>1, <1>3 DEF Focus
  <2>2. QED BY <1>1, <1>3, <2>1 DEF RightNext, Foci, Input
<1>4. CASE state'[w] # "Scratchpad"
  <2>1. ShownNext(wsOf'[w])
    BY <1>4 DEF SeenNext
  <2>2. g = [win |-> w, mon |-> MonitorShowingNext(wsOf'[w]), input |-> w]
    BY <1>1, <1>4, <2>1 DEF Focus
  <2>3. g.mon \in Monitor /\ active'[g.mon] = wsOf'[w]
    BY <2>1, <2>2, ShowingMonitorShows
  <2>4. QED BY <1>1, <1>2, <2>2, <2>3 DEF RightNext, Foci, Input
<1>5. QED BY <1>3, <1>4

\* What a monitor shows can be seen.
LEMMA VisibleIsSeen ==
  ASSUME NEW m \in Monitor, NEW w \in VisibleNext(active'[m])
  PROVE  w \in managed' /\ SeenNext(w)
  BY DEF VisibleNext, SeenNext, ShownNext

\* The next available window, on the focused monitor or from a focus that was
\* right already.
LEMMA NextAvailableIsRight ==
  ASSUME ScreenSettled, NEW screen, Serves(screen), NEW f \in Foci, NEW m \in Monitor,
         m = f.mon \/ RightNext(f), NEW g \in FocusNextAvailableOn(f, m, screen)
  PROVE  g \in Foci /\ RightNext(g)
<1>1. f.mon \in Monitor
  BY DEF Foci
<1>2. CASE VisibleNext(active'[m]) # {}
  <2>1. PICK w \in VisibleNext(active'[m]) : g = Focus(f, w, screen)
    BY <1>2 DEF FocusNextAvailableOn
  <2>2. w \in managed' /\ SeenNext(w)
    BY VisibleIsSeen
  <2>3. QED BY <2>1, <2>2, FocusMakesRight
<1>3. CASE VisibleNext(active'[m]) = {} /\ m # f.mon
  BY <1>3 DEF FocusNextAvailableOn
<1>4. CASE VisibleNext(active'[m]) = {} /\ m = f.mon
  <2> DEFINE s == scratch'.win
             there == s # None /\ scratch'.shown /\ screen.home[s] = m
  <2>1. CASE there
    <3>1. g = Focus(f, s, screen) /\ s \in managed'
      BY <1>4, <2>1 DEF FocusNextAvailableOn, ScreenSettled, Settled
    <3>2. SeenNext(s)
      BY <2>1, <3>1 DEF ScreenSettled, SeenNext
    <3>3. QED BY <3>1, <3>2, FocusMakesRight
  <2>2. CASE ~there
    <3>1. g = [[f EXCEPT !.win = None] EXCEPT !.input = "root"]
      BY <1>4, <2>2 DEF FocusNextAvailableOn, Foci
    <3>2. g.win = None /\ g.mon = f.mon /\ g.input = "root" /\ g \in Foci
      BY <3>1 DEF Foci, Input
    <3>3. ~OnlyScratchpad(g)
      BY <1>4, <2>2, <3>2 DEF OnlyScratchpad, Serves, ScreenSettled
    <3>4. QED BY <1>1, <1>4, <3>2, <3>3 DEF RightNext
  <2>3. QED BY <2>1, <2>2
<1>5. QED BY <1>2, <1>3, <1>4

LEMMA FocusMonitorIsRight ==
  ASSUME ScreenSettled, NEW screen, Serves(screen), NEW f \in Foci, NEW m \in Monitor,
         NEW g \in FocusMonitor(f, m, screen)
  PROVE  g \in Foci /\ RightNext(g)
<1>1. [f EXCEPT !.mon = m] \in Foci /\ [f EXCEPT !.mon = m].mon = m
  BY DEF Foci
<1>2. QED BY <1>1, NextAvailableIsRight DEF FocusMonitor

\* The pointer's place keeps the focus right.
LEMMA FollowPointerIsRight ==
  ASSUME ScreenSettled, Serves(After), NEW f \in Foci, RightNext(f), NEW m \in Monitor,
         NEW g \in FollowPointer(f, m)
  PROVE  g \in Foci /\ RightNext(g)
  BY FocusMonitorIsRight DEF FollowPointer

LEMMA SyncIsRight ==
  ASSUME ScreenSettled, ClientsOK', Serves(After), NEW f \in Foci, RightNext(f),
         NEW h \in SyncFocusToPointer(f)
  PROVE  h \in Foci /\ RightNext(h)
<1>1. PICK m \in Monitor :
        \/ h \in FollowPointer(f, m)
        \/ \E g \in FollowPointer(f, m) : \E w \in UnderPointer(m) \ {g.win} :
             h = Focus(g, w, After)
  BY DEF SyncFocusToPointer
<1>2. CASE h \in FollowPointer(f, m)
  BY <1>2, FollowPointerIsRight
<1>3. CASE \E g \in FollowPointer(f, m) : \E w \in UnderPointer(m) \ {g.win} :
             h = Focus(g, w, After)
  <2>1. PICK g \in FollowPointer(f, m) : \E w \in UnderPointer(m) \ {g.win} :
          h = Focus(g, w, After)
    BY <1>3
  <2>2. PICK w \in UnderPointer(m) : h = Focus(g, w, After)
    BY <2>1
  <2>3. g \in Foci
    BY FollowPointerIsRight
  <2>4. active'[m] \in Workspace
    BY DEF ScreenSettled, Settled
  <2>5. CASE w \in tree'[active'[m]]
    <3>1. w \in managed' /\ wsOf'[w] = active'[m] /\ OccupiesTreeSlot(w)'
      BY <2>4, <2>5 DEF ClientsOK, TreeMatchesClients
    <3>2. SeenNext(w)
      BY <3>1 DEF SeenNext, ShownNext, OccupiesTreeSlot
    <3>3. QED BY <2>2, <2>3, <3>1, <3>2, FocusMakesRight
  <2>6. CASE w \in managed' /\ state'[w] = "Floating" /\ ShownNext(wsOf'[w])
    <3>1. SeenNext(w)
      BY <2>6 DEF SeenNext
    <3>2. QED BY <2>2, <2>3, <2>6, <3>1, FocusMakesRight
  <2>7. QED BY <2>2, <2>5, <2>6 DEF UnderPointer
<1>4. QED BY <1>1, <1>2, <1>3

----------------------------------------------------------------------------
(***************************************************************************)
(* The calm desktop, and what every step leaves of it.                     *)
(***************************************************************************)

\* No popup and no client takes the keyboard for itself, a window that fights
\* its tile is floated where it is, the scratchpad's window does not go
\* fullscreen, and one window at most does.
Calm ==
  /\ Popups = {} /\ Thieves = {}
  /\ Threshold = 0 \/ Fallback = "floating"
  /\ ~ScratchFullscreen
  /\ \A v, w \in FullscreenClients : v = w

Plain ==
  /\ popups = {}
  /\ \A w \in managed : state[w] = "Fullscreen" => w \in FullscreenClients
  /\ scratch.shown => scratch.win # None

Ordered == Screened /\ MonitorsNeverShare /\ Plain

Orderly == Ordered /\ FocusIsRight

\* Who may be fullscreen, and what the scratchpad can be, in each step.
LEMMA NextKeepsPlain ==
  ASSUME Calm, Consistent, Plain, [Next]_vars
  PROVE  Plain'
<1> DEFINE OnlyClients == \A w \in managed' : state'[w] = "Fullscreen" => w \in FullscreenClients
           FullscreenStep(w) == \/ state'[w] # "Fullscreen" \/ w \in FullscreenClients
                                \/ w \in managed /\ state[w] = "Fullscreen"
<1>1. popups' = {}
  <2>1. CASE ClientNext
    <3>1. ASSUME ManageAny PROVE popups' = popups
      BY <3>1 DEF ManageAny, Manage
    <3>2. ASSUME NEW w, \/ Unmanage(w) \/ HandleConfigureRequest(w)
                        \/ SetFullscreen(w) \/ ClientTakesFocus(w)
          PROVE  popups' = popups
      BY <3>2 DEF Unmanage, HandleConfigureRequest, ApplyTilingMisbehaviorFallback,
         SetFullscreen, ClientTakesFocus, popupVars
    <3>3. QED BY <2>1, <3>1, <3>2 DEF Plain, ClientNext, HandleClientMessage
  <2>2. CASE CommandNext
    BY <2>2 DEF Plain, CommandNext, SwitchWorkspace, FocusMonitorCommand, MoveFocusedToWorkspace,
       MoveWindowToMonitor, ToggleFloating, ToggleFullscreen, SetFullscreen, AssignScratchpad,
       ShowScratchpad, HideScratchpad, FocusDirection, FocusCycle, RotateOrFlipFocused, Rearrange,
       popupVars
  <2>3. CASE InputNext
    BY <2>3 DEF Calm, Plain, InputNext, HandleEnterNotify, HandleButtonPressOnClient, OpenPopup,
       ClosePopup, HandleFocusIn, popupVars
  <2>4. QED BY <2>1, <2>2, <2>3 DEF Next, Plain, vars
<1>2. ASSUME UNCHANGED <<managed, state>> PROVE OnlyClients
  BY <1>2 DEF Plain
<1>3. ASSUME UNCHANGED managed, NEW w \in managed, FullscreenStep(w),
             \A v \in managed \ {w} : state'[v] = state[v]
      PROVE  OnlyClients
  BY <1>3 DEF Plain
<1>4. OnlyClients
  <2>1. ASSUME NEW w \in Window, NEW hasParent, NEW full \in BOOLEAN,
               NEW ws \in Workspace, NEW sm, NEW place \in Placement(ws),
               Manage(w, hasParent, place, full, sm)
        PROVE  OnlyClients
    <3>1. place.st # "Fullscreen"
      BY DEF Placement, FindWorkspaceWithRoom
    <3>2. managed' = managed \cup {w} /\ \A v \in managed : state'[v] = state[v]
      BY <2>1 DEF Manage, Consistent, ClientsOK
    <3>3. state'[w] = "Fullscreen" => w \in FullscreenClients
      BY <2>1, <3>1 DEF Manage, Consistent, ClientsOK
    <3>4. QED BY <3>2, <3>3 DEF Plain
  <2>2. ASSUME NEW w \in Window, Unmanage(w) PROVE OnlyClients
    BY <2>2 DEF Unmanage, Plain, Consistent, ClientsOK
  <2>3. ASSUME NEW w \in Window, HandleConfigureRequest(w) PROVE OnlyClients
    BY <2>3 DEF HandleConfigureRequest, ApplyTilingMisbehaviorFallback, Plain, Consistent, ClientsOK
  <2>4. ASSUME NEW w, SetFullscreen(w) PROVE OnlyClients
    BY <2>4 DEF SetFullscreen, Plain, Consistent, ClientsOK
  <2>5. ASSUME NEW w \in Window, ClientTakesFocus(w) PROVE OnlyClients
    BY <1>2, <2>5 DEF ClientTakesFocus, clientVars
  <2>6. ASSUME NEW w \in managed, NEW ws, NEW fits, Relocate(w, ws, fits), UNCHANGED managed
        PROVE  OnlyClients
    <3>1. state'[w] # "Fullscreen" \/ state'[w] = state[w]
      BY <2>6 DEF Relocate, Consistent, ClientsOK
    <3>2. \A v \in managed \ {w} : state'[v] = state[v]
      BY <2>6 DEF Relocate, Consistent, ClientsOK
    <3>3. QED BY <1>3, <2>6, <3>1, <3>2
  <2>7. ASSUME NEW fits, ToggleFloating(fits) PROVE OnlyClients
    <3>1. UNCHANGED managed /\ \E w \in managed :
            state' \in {state, [state EXCEPT ![w] = "Floating"], [state EXCEPT ![w] = "Tiled"]}
      BY <2>7 DEF ToggleFloating
    <3>2. QED BY <3>1 DEF Plain, Consistent, ClientsOK
  <2>8. ASSUME AssignScratchpad PROVE OnlyClients
    BY <2>8 DEF AssignScratchpad, Plain, Consistent, ClientsOK
  <2>9. CASE ClientNext
    BY <2>1, <2>2, <2>3, <2>4, <2>5, <2>9 DEF ClientNext, ManageAny, HandleClientMessage
  <2>10. CASE CommandNext
    <3>1. ASSUME NEW ws, NEW fits, MoveFocusedToWorkspace(ws, fits) \/ MoveWindowToMonitor(ws, fits)
          PROVE  OnlyClients
      BY <2>6, <3>1 DEF MoveFocusedToWorkspace, MoveWindowToMonitor
    <3>2. ASSUME NEW m, SwitchWorkspace(m) \/ FocusMonitorCommand(m) \/ FocusDirection(m) \/ FocusCycle(m)
          PROVE  OnlyClients
      BY <1>2, <3>2 DEF SwitchWorkspace, FocusMonitorCommand, FocusDirection, FocusCycle, clientVars
    <3>3. ASSUME ShowScratchpad \/ HideScratchpad \/ RotateOrFlipFocused \/ Rearrange
          PROVE  OnlyClients
      BY <1>2, <3>3 DEF ShowScratchpad, HideScratchpad, RotateOrFlipFocused, Rearrange, clientVars
    <3>4. QED BY <2>4, <2>7, <2>8, <2>10, <3>1, <3>2, <3>3 DEF CommandNext, ToggleFullscreen
  <2>11. CASE InputNext
    BY <1>2, <2>11 DEF InputNext, HandleEnterNotify, HandleButtonPressOnClient, OpenPopup,
       ClosePopup, HandleFocusIn, clientVars
  <2>12. CASE UNCHANGED vars
    BY <1>2, <2>12 DEF vars
  <2>13. QED BY <2>9, <2>10, <2>11, <2>12 DEF Next
<1>5. scratch'.shown => scratch'.win # None
  <2>1. scratch \in [win : managed \cup {None}, shown : BOOLEAN]
    BY DEF Consistent, ScreenOK
  <2>2. \/ scratch' = scratch \/ scratch' = NoScratch
        \/ \E w \in managed : \E b \in BOOLEAN : scratch' = [win |-> w, shown |-> b]
    <3>1. CASE ClientNext
      <4>1. ASSUME ManageAny PROVE scratch' = scratch
        BY <4>1 DEF ManageAny, Manage
      <4>2. ASSUME NEW w, \/ Unmanage(w) \/ HandleConfigureRequest(w)
                          \/ SetFullscreen(w) \/ ClientTakesFocus(w)
            PROVE  scratch' = scratch \/ scratch' = NoScratch
        BY <4>2 DEF Unmanage, Released, HandleConfigureRequest, ApplyTilingMisbehaviorFallback,
           SetFullscreen, ClientTakesFocus
      <4>3. QED BY <3>1, <4>1, <4>2 DEF ClientNext, HandleClientMessage
    <3>2. CASE CommandNext
      <4>1. ASSUME ShowScratchpad \/ HideScratchpad
            PROVE  \E w \in managed : \E b \in BOOLEAN : scratch' = [win |-> w, shown |-> b]
        BY <2>1, <4>1 DEF ShowScratchpad, HideScratchpad
      <4>2. ASSUME NEW ws, NEW fits, MoveFocusedToWorkspace(ws, fits) \/ MoveWindowToMonitor(ws, fits)
            PROVE  scratch' = scratch
        BY <4>2 DEF MoveFocusedToWorkspace, MoveWindowToMonitor
      <4>3. QED BY <3>2, <4>1, <4>2 DEF CommandNext, SwitchWorkspace, FocusMonitorCommand,
         ToggleFloating, ToggleFullscreen, SetFullscreen, AssignScratchpad, Released,
         FocusDirection, FocusCycle, RotateOrFlipFocused, Rearrange
    <3>3. CASE InputNext
      BY <3>3 DEF InputNext, HandleEnterNotify, HandleButtonPressOnClient, OpenPopup,
         ClosePopup, HandleFocusIn
    <3>4. QED BY <3>1, <3>2, <3>3 DEF Next, vars
  <2>3. QED BY <2>2, NoneIsNoWindow DEF Plain, NoScratch, Consistent, ClientsOK
<1>6. QED BY <1>1, <1>4, <1>5 DEF Plain

\* The state a step ends in, as the focus operators need it.
LEMMA EndsSettled ==
  ASSUME Calm, Screened', MonitorsNeverShare', Plain'
  PROVE  ScreenSettled /\ Serves(After)
<1> USE DEF Screened
<1>1. Settled
  BY ConsistentSettles DEF Consistent
<1>2. \A w \in managed' : state'[w] = "Scratchpad" <=> scratch'.win = w
  BY DEF ScratchOK, InScratchpad, ScreenInv, ScratchScreen
<1>3. ScreenSettled
  BY <1>1, <1>2 DEF ScreenSettled, Plain, MonitorsNeverShare
<1>4. ASSUME NEW w \in managed', SeenNext(w) PROVE w \in mapped'
  <2>1. OnScreen(w)' /\ w # dragging'
    BY <1>1, <1>4, NoneIsNoWindow
       DEF SeenNext, OnScreen, ShownNext, IsShown, Settled, ScreenInv, ScratchScreen
  <2>2. w \notin mapped' => \E v \in managed' \ {w} : state'[w] = "Fullscreen" /\ state'[v] = "Fullscreen"
    BY <2>1 DEF ScreenInv, MappedMatchesScreen, Consistent, ScreenOK
  <2>3. QED BY <1>4, <2>2 DEF Plain, Calm
<1>5. QED BY <1>3, <1>4 DEF Serves, After

\* The state a step starts from.
LEMMA OrderedNow ==
  ASSUME Ordered
  PROVE  /\ focus \in Foci /\ focus.mon \in Monitor /\ popups = {}
         /\ focus.win # None => focus.win \in managed
         /\ \A w \in managed : state[w] = "Scratchpad" <=> scratch.win = w
<1> USE DEF Ordered, Screened
<1>1. focus \in Foci /\ focus.mon \in Monitor /\ (focus.win # None => focus.win \in managed)
  BY DEF Consistent, ClientsOK, FocusRecord, Foci
<1>2. \A w \in managed : state[w] = "Scratchpad" <=> scratch.win = w
  BY DEF ScratchOK, InScratchpad, ScreenInv, ScratchScreen
<1>3. QED BY <1>1, <1>2 DEF Plain

\* The same, when the focus is right.
LEMMA OrderlyNow ==
  ASSUME Orderly
  PROVE  /\ focus \in Foci /\ focus.mon \in Monitor /\ popups = {}
         /\ focus.win # None => /\ focus.win \in managed /\ OnScreen(focus.win)
                                /\ focus.input = focus.win
                                /\ state[focus.win] # "Scratchpad" =>
                                     active[focus.mon] = wsOf[focus.win]
         /\ focus.win = None => /\ focus.input = "root"
                                /\ Visible(active[focus.mon]) = {}
                                /\ ~(scratch.shown /\ monOf[scratch.win] = focus.mon)
         /\ \A w \in managed : state[w] = "Scratchpad" <=> scratch.win = w
<1> USE DEF Orderly
<1>1. focus \in Foci /\ focus.mon \in Monitor /\ (focus.win # None => focus.win \in managed)
  BY OrderedNow
<1>2. \A w \in managed : state[w] = "Scratchpad" <=> scratch.win = w
  BY OrderedNow
<1>3. focus.win # None => OnScreen(focus.win) /\ focus.input = focus.win
  BY DEF FocusIsRight, FocusIsOnScreen, InputMatchesFocus
<1>4. focus.win # None /\ state[focus.win] # "Scratchpad" => active[focus.mon] = wsOf[focus.win]
  BY <1>3 DEF OnScreen, FocusIsRight, FocusedMonitorAgrees
<1>5. focus.win = None => /\ focus.input = "root" /\ Visible(active[focus.mon]) = {}
                          /\ ~(scratch.shown /\ monOf[scratch.win] = focus.mon)
  BY DEF FocusIsRight, InputMatchesFocus, SomethingIsFocused, ScratchpadKeepsFocus, Ordered, Plain
<1>6. QED BY <1>1, <1>2, <1>3, <1>4, <1>5, OrderedNow

\* A focus that is right in the state a step ends in is right there.
LEMMA RightThen ==
  ASSUME RightNext(focus'), ScreenSettled
  PROVE  FocusIsRight'
<1>1. CASE focus'.win = None
  BY <1>1 DEF RightNext, OnlyScratchpad, VisibleNext, FocusIsRight, FocusIsOnScreen, Visible,
     FocusedMonitorAgrees, SomethingIsFocused, ScratchpadKeepsFocus, InputMatchesFocus
<1>2. CASE focus'.win # None
  <2>1. SeenNext(focus'.win) /\ focus'.win \in managed'
    BY <1>2 DEF RightNext
  <2>2. FocusIsOnScreen' /\ FocusedMonitorAgrees'
    BY <1>2, <2>1 DEF RightNext, SeenNext, ShownNext, FocusIsOnScreen, OnScreen, IsShown,
       FocusedMonitorAgrees
  <2>3. SomethingIsFocused' /\ InputMatchesFocus'
    BY <1>2 DEF RightNext, SomethingIsFocused, InputMatchesFocus
  <2>4. ScratchpadKeepsFocus'
    <3>1. state'[focus'.win] = "Scratchpad" => scratch'.win = focus'.win
      BY <2>1 DEF ScreenSettled
    <3>2. state'[focus'.win] # "Scratchpad" => focus'.win \in Visible(active[focus.mon])'
      BY <1>2, <2>1 DEF RightNext, Visible
    <3>3. QED BY <3>1, <3>2 DEF ScratchpadKeepsFocus
  <2>5. QED BY <2>2, <2>3, <2>4 DEF FocusIsRight
<1>3. QED BY <1>1, <1>2

\* What a handler that leaves the focus where it is must not have disturbed.
LEMMA FocusStays ==
  ASSUME Orderly, ScreenSettled, Serves(After),
         focus.win # None => /\ focus.win \in managed' /\ SeenNext(focus.win)
                             /\ state'[focus.win] # "Scratchpad" =>
                                  active'[focus.mon] = wsOf'[focus.win],
         focus.win = None => VisibleNext(active'[focus.mon]) = {} /\ ~OnlyScratchpad(focus)
  PROVE  focus \in Foci /\ RightNext(focus) /\ Reverted(focus) = focus
<1>1. RightNext(focus) /\ focus \in Foci
  BY OrderlyNow DEF RightNext
<1>2. focus.input \notin Window \ mapped'
  <2>1. CASE focus.win = None
    BY <2>1, OrderlyNow, WindowIsNoPopup
  <2>2. CASE focus.win # None
    BY <2>2, OrderlyNow DEF Serves, After
  <2>3. QED BY <2>1, <2>2
<1>3. QED BY <1>1, <1>2 DEF Reverted

\* Most leave every monitor's workspace, the scratchpad and the focused window
\* alone, and nothing comes to the focused monitor while it has no window.
LEMMA FocusUndisturbed ==
  ASSUME Orderly, ScreenSettled, Serves(After), UNCHANGED <<active, scratch>>,
         focus.win # None => /\ focus.win \in managed' /\ wsOf'[focus.win] = wsOf[focus.win]
                             /\ state'[focus.win] = "Scratchpad" <=> state[focus.win] = "Scratchpad",
         focus.win = None => VisibleNext(active[focus.mon]) \subseteq Visible(active[focus.mon]),
         scratch.win # None => monOf'[scratch.win] = monOf[scratch.win]
  PROVE  focus \in Foci /\ RightNext(focus) /\ Reverted(focus) = focus
<1>1. focus.win # None => SeenNext(focus.win)
  BY OrderlyNow DEF OnScreen, SeenNext, IsShown, ShownNext
<1>2. focus.win # None /\ state'[focus.win] # "Scratchpad" => active'[focus.mon] = wsOf'[focus.win]
  BY OrderlyNow
<1>3. focus.win = None => VisibleNext(active'[focus.mon]) = {} /\ ~OnlyScratchpad(focus)
  BY OrderlyNow DEF OnlyScratchpad, ScreenSettled
<1>4. QED BY <1>1, <1>2, <1>3, FocusStays

\* ArrangeMonitor records no monitor for the scratchpad's window.
LEMMA HomeKept ==
  ASSUME NEW home, NEW w \in Window, w \notin managed' \/ state'[w] = "Scratchpad"
  PROVE  Homed(home)[w] = home[w]
  BY DEF Homed

\* A handler that changes no client and only arranges again.
LEMMA FocusUntouched ==
  ASSUME Orderly, ScreenSettled, Serves(After), UNCHANGED <<managed, wsOf, active, scratch>>,
         \A w \in managed : state'[w] = "Scratchpad" <=> state[w] = "Scratchpad",
         monOf' = Homed(monOf) \/ UNCHANGED monOf
  PROVE  focus \in Foci /\ RightNext(focus) /\ Reverted(focus) = focus
<1>1. VisibleNext(active[focus.mon]) \subseteq Visible(active[focus.mon])
  BY DEF VisibleNext, Visible
<1>2. scratch.win # None => scratch.win \in managed /\ scratch.win \in Window
  BY DEF Orderly, Ordered, Screened, Consistent, ClientsOK, ScreenOK
<1>3. scratch.win # None => state'[scratch.win] = "Scratchpad"
  BY <1>2, OrderlyNow
<1>4. scratch.win # None => monOf'[scratch.win] = monOf[scratch.win]
  BY <1>2, <1>3, HomeKept
<1>5. focus.win # None => /\ focus.win \in managed' /\ wsOf'[focus.win] = wsOf[focus.win]
                          /\ state'[focus.win] = "Scratchpad" <=> state[focus.win] = "Scratchpad"
  BY OrderlyNow
<1>6. QED BY <1>1, <1>4, <1>5, FocusUndisturbed

----------------------------------------------------------------------------
(***************************************************************************)
(* Each handler leaves the focus right.                                    *)
(***************************************************************************)

\* X maps nothing that should not be seen.
LEMMA MappedIsSeen ==
  ASSUME Screened', NEW w \in mapped'
  PROVE  w \in managed' /\ SeenNext(w)
<1>1. w \in managed' /\ w \in Window /\ w # dragging'
  BY NoneIsNoWindow DEF Screened, Consistent, ClientsOK, ScreenOK, ScreenInv, ScratchScreen
<1>2. OnScreen(w)'
  BY <1>1 DEF Screened, ScreenInv, MappedMatchesScreen
<1>3. QED BY <1>1, <1>2 DEF SeenNext, OnScreen, IsShown, ShownNext

LEMMA ManageFocus ==
  ASSUME Orderly, Screened', ScreenSettled, Serves(After), NEW w \in Window,
         NEW hasParent \in BOOLEAN, NEW full \in BOOLEAN, NEW ws \in Workspace,
         NEW sm \in Monitor, NEW place \in Placement(ws), Manage(w, hasParent, place, full, sm)
  PROVE  RightNext(focus')
<1> USE DEF Orderly, Ordered, Screened
<1>1. /\ place.ws \in Workspace /\ w \notin managed /\ managed' = managed \cup {w}
      /\ \A v \in managed : state'[v] = state[v] /\ wsOf'[v] = wsOf[v]
      /\ wsOf'[w] = place.ws /\ scratch' = scratch
      /\ monOf' = Homed([monOf EXCEPT ![w] = sm])
  BY DEF Manage, Placement, FindWorkspaceWithRoom, Consistent, ClientsOK
<1>2. CASE OpensInBackground(place.ws, hasParent)
  <2>1. active' = active /\ focus' = Reverted(focus) /\ ~IsShown(place.ws)
    BY <1>2 DEF Manage, OpensInBackground
  <2>2. VisibleNext(active[focus.mon]) \subseteq Visible(active[focus.mon])
    BY <1>1, <2>1, OrderlyNow DEF VisibleNext, Visible, IsShown
  <2>3. ASSUME scratch.win # None PROVE monOf'[scratch.win] = monOf[scratch.win]
    <3>1. scratch.win \in managed /\ scratch.win \in Window /\ scratch.win # w
      BY <1>1, <2>3 DEF Consistent, ClientsOK, ScreenOK
    <3>2. state'[scratch.win] = "Scratchpad"
      BY <1>1, <3>1, OrderlyNow
    <3>3. monOf'[scratch.win] = [monOf EXCEPT ![w] = sm][scratch.win]
      BY <1>1, <3>1, <3>2, HomeKept
    <3>4. QED BY <3>1, <3>3 DEF Consistent, ScreenOK
  <2>4. focus.win # None => /\ focus.win \in managed' /\ wsOf'[focus.win] = wsOf[focus.win]
                            /\ state'[focus.win] = "Scratchpad" <=> state[focus.win] = "Scratchpad"
    BY <1>1, OrderlyNow
  <2>5. QED BY <1>1, <2>1, <2>2, <2>3, <2>4, FocusUndisturbed
<1>3. CASE ~OpensInBackground(place.ws, hasParent)
  <2>1. ~TypingPopupOpen
    BY OrderlyNow DEF TypingPopupOpen
  <2>2. focus' = Focus(Reverted(focus), w, After) /\ w \in mapped'
    BY <1>3, <2>1 DEF Manage
  <2>3. Reverted(focus) \in Foci
    BY OrderlyNow DEF Reverted, Foci, Input
  <2>4. w \in managed' /\ SeenNext(w)
    BY <2>2, MappedIsSeen
  <2>5. QED BY <2>2, <2>3, <2>4, FocusMakesRight
<1>4. QED BY <1>2, <1>3

\* What the end of a window leaves of the others.
LEMMA UnmanageLeaves ==
  ASSUME Ordered, ScreenSettled, NEW w \in Window, Unmanage(w)
  PROVE  /\ w \in managed /\ managed' = managed \ {w} /\ active' = active
         /\ scratch' = IF scratch.win = w THEN NoScratch ELSE scratch
         /\ \A v \in managed' : state'[v] = state[v] /\ wsOf'[v] = wsOf[v]
         /\ scratch'.win # None => scratch' = scratch /\ monOf'[scratch'.win] = monOf[scratch.win]
<1> USE DEF Ordered, Screened
<1>1. /\ w \in managed /\ managed' = managed \ {w} /\ active' = active
      /\ scratch' = IF scratch.win = w THEN NoScratch ELSE scratch
      /\ \A v \in managed' : state'[v] = state[v] /\ wsOf'[v] = wsOf[v]
      /\ monOf' = Homed([monOf EXCEPT ![w] = CHOOSE m \in Monitor : TRUE])
  BY DEF Unmanage, Released, Consistent, ClientsOK
<1>2. ASSUME scratch'.win # None
      PROVE  scratch' = scratch /\ monOf'[scratch'.win] = monOf[scratch.win]
  <2>1. scratch' = scratch /\ scratch.win # w
    BY <1>1, <1>2 DEF NoScratch
  <2>2. scratch.win \in managed' /\ scratch.win \in Window
    BY <1>1, <1>2, <2>1 DEF Consistent, ClientsOK, ScreenOK
  <2>3. state'[scratch.win] = "Scratchpad"
    BY <2>1, <2>2 DEF ScreenSettled
  <2>4. monOf'[scratch.win] = [monOf EXCEPT ![w] = CHOOSE m \in Monitor : TRUE][scratch.win]
    BY <1>1, <2>2, <2>3, HomeKept
  <2>5. QED BY <2>1, <2>2, <2>4 DEF Consistent, ScreenOK
<1>3. QED BY <1>1, <1>2

LEMMA UnmanageFocusedFocus ==
  ASSUME Calm, Ordered, ScreenSettled, Serves(After), NEW w \in Window, Unmanage(w), focus.win = w
  PROVE  RightNext(focus')
<1> USE DEF Ordered, Screened
<1>1. /\ w \in managed /\ managed' = managed \ {w} /\ active' = active
      /\ scratch' = IF scratch.win = w THEN NoScratch ELSE scratch
      /\ \A v \in managed' : state'[v] = state[v] /\ wsOf'[v] = wsOf[v]
  BY UnmanageLeaves
<1>2. scratch'.win # None => scratch' = scratch /\ monOf'[scratch'.win] = monOf[scratch.win]
  BY UnmanageLeaves
<1>3. CASE focus.win = w
  <2> DEFINE screen == [mapped |-> mapped \ {w}, home |-> monOf]
             f == [Reverted(focus) EXCEPT !.win = None]
  <2>1. f \in Foci /\ f.mon = focus.mon /\ focus' \in FocusNextAvailableOn(f, f.mon, screen)
    BY <1>3, OrderedNow DEF Unmanage, FocusNextAvailable, Reverted, Foci, Input
  <2>2. ASSUME NEW v \in managed', SeenNext(v) PROVE v \in screen.mapped
    <3>1. v \in managed /\ v # w /\ v # dragging
      BY <1>1, NoneIsNoWindow DEF Consistent, ClientsOK, ScreenInv, ScratchScreen
    <3>2. OnScreen(v)
      <4>1. CASE state'[v] = "Scratchpad"
        BY <1>1, <1>2, <2>2, <3>1, <4>1, NoneIsNoWindow
           DEF SeenNext, OnScreen, Consistent, ClientsOK
      <4>2. CASE state'[v] # "Scratchpad"
        BY <1>1, <2>2, <3>1, <4>2 DEF SeenNext, OnScreen, IsShown, ShownNext
      <4>3. QED BY <4>1, <4>2
    <3>3. v \notin mapped => \E u \in managed \ {v} : state[v] = "Fullscreen" /\ state[u] = "Fullscreen"
      BY <3>1, <3>2 DEF ScreenInv, MappedMatchesScreen, Consistent, ScreenOK
    <3>4. QED BY <3>1, <3>3 DEF Plain, Calm
  <2>3. Serves(screen)
    BY <1>2, <2>2 DEF Serves
  <2>4. QED BY <2>1, <2>3, NextAvailableIsRight, OrderedNow
<1>4. QED BY <1>3

LEMMA UnmanageFocus ==
  ASSUME Calm, Orderly, ScreenSettled, Serves(After), NEW w \in Window, Unmanage(w)
  PROVE  RightNext(focus')
<1>1. /\ w \in managed /\ managed' = managed \ {w} /\ active' = active
      /\ scratch' = IF scratch.win = w THEN NoScratch ELSE scratch
      /\ \A v \in managed' : state'[v] = state[v] /\ wsOf'[v] = wsOf[v]
  BY UnmanageLeaves DEF Orderly
<1>2. scratch'.win # None => scratch' = scratch /\ monOf'[scratch'.win] = monOf[scratch.win]
  BY UnmanageLeaves DEF Orderly
<1>3. CASE focus.win = w
  BY <1>3, UnmanageFocusedFocus DEF Orderly
<1>4. CASE focus.win # w
  <2>1. focus' = Reverted(focus)
    BY <1>4 DEF Unmanage
  <2>2. ASSUME focus.win # None
        PROVE  /\ focus.win \in managed' /\ SeenNext(focus.win)
               /\ state'[focus.win] # "Scratchpad" => active'[focus.mon] = wsOf'[focus.win]
    <3>1. focus.win \in managed'
      BY <1>1, <1>4, <2>2, OrderlyNow
    <3>2. state'[focus.win] = "Scratchpad" => scratch'.win = focus.win /\ scratch' = scratch
      BY <1>2, <2>2, <3>1 DEF ScreenSettled
    <3>3. SeenNext(focus.win)
      BY <1>1, <2>2, <3>1, <3>2, OrderlyNow DEF OnScreen, SeenNext, IsShown, ShownNext
    <3>4. QED BY <1>1, <2>2, <3>1, <3>3, OrderlyNow
  <2>3. ASSUME focus.win = None
        PROVE  VisibleNext(active'[focus.mon]) = {} /\ ~OnlyScratchpad(focus)
    <3>1. VisibleNext(active'[focus.mon]) \subseteq Visible(active[focus.mon])
      BY <1>1 DEF VisibleNext, Visible
    <3>2. ~OnlyScratchpad(focus)
      BY <1>2, <2>3, OrderlyNow DEF OnlyScratchpad, ScreenSettled
    <3>3. QED BY <2>3, <3>1, <3>2, OrderlyNow
  <2>4. QED BY <2>1, <2>2, <2>3, FocusStays
<1>5. QED BY <1>3, <1>4

\* Floated on its own workspace, or with one strike more.
LEMMA ConfigureRequestFocus ==
  ASSUME Calm, Orderly, ScreenSettled, Serves(After), NEW w \in Window, HandleConfigureRequest(w)
  PROVE  RightNext(focus')
<1> USE DEF Orderly, Ordered, Screened
<1>1. CASE strikes[w] + 1 >= Threshold
  <2>1. Fallback = "floating" /\ state[w] = "Tiled" /\ w \in managed
    BY ConfigIsLegal DEF HandleConfigureRequest, Calm
  <2>2. /\ UNCHANGED <<managed, active, scratch>> /\ focus' = Reverted(focus)
        /\ wsOf' = [wsOf EXCEPT ![w] = wsOf[w]] /\ state' = [state EXCEPT ![w] = "Floating"]
        /\ monOf' = Homed(monOf)
    BY <1>1, <2>1 DEF HandleConfigureRequest, ApplyTilingMisbehaviorFallback
  <2>3. wsOf' = wsOf
    BY <2>2 DEF Consistent, ClientsOK
  <2>4. \A v \in managed : state'[v] = "Scratchpad" <=> state[v] = "Scratchpad"
    BY <2>1, <2>2 DEF Consistent, ClientsOK
  <2>5. QED BY <2>2, <2>3, <2>4, FocusUntouched
<1>2. CASE ~(strikes[w] + 1 >= Threshold)
  <2>1. UNCHANGED <<managed, state, wsOf, monOf, active, focus, scratch>>
    BY <1>2 DEF HandleConfigureRequest
  <2>2. QED BY <2>1, FocusUntouched
<1>3. QED BY <1>1, <1>2

LEMMA SetFullscreenFocus ==
  ASSUME Calm, Orderly, ScreenSettled, Serves(After), NEW w, SetFullscreen(w)
  PROVE  RightNext(focus')
<1>1. /\ w \in managed /\ w # scratch.win /\ UNCHANGED <<managed, wsOf, active, scratch>>
      /\ monOf' = Homed(monOf) /\ focus' = Reverted(focus)
  BY DEF SetFullscreen, Calm
<1>2. \A v \in managed : state'[v] = "Scratchpad" <=> state[v] = "Scratchpad"
  BY <1>1, OrderlyNow DEF ScreenSettled
<1>3. QED BY <1>1, <1>2, FocusUntouched

LEMMA RearrangeFocus ==
  ASSUME Orderly, Screened', ScreenSettled, Serves(After), RotateOrFlipFocused \/ Rearrange
  PROVE  RightNext(focus')
<1>1. /\ UNCHANGED <<managed, state, wsOf, active, scratch>> /\ monOf' = Homed(monOf)
      /\ focus' = Reverted(focus) \/ focus' \in SyncFocusToPointer(Reverted(focus))
  BY DEF RotateOrFlipFocused, Rearrange, clientVars
<1>2. focus \in Foci /\ RightNext(focus) /\ Reverted(focus) = focus
  BY <1>1, FocusUntouched
<1>3. QED BY <1>1, <1>2, SyncIsRight DEF Screened, Consistent

\* The X server's revert keeps a focus record.
LEMMA RevertedIsFocus ==
  ASSUME Ordered
  PROVE  Reverted(focus) \in Foci /\ Reverted(focus).mon = focus.mon /\ focus.mon \in Monitor
  BY OrderedNow DEF Reverted, Foci, Input

LEMMA SwitchWorkspaceFocus ==
  ASSUME Ordered, Screened', ScreenSettled, Serves(After), NEW ws, SwitchWorkspace(ws)
  PROVE  RightNext(focus')
<1>1. PICK f \in FocusMonitor(Reverted(focus), focus.mon, After) : focus' \in SyncFocusToPointer(f)
  BY DEF SwitchWorkspace
<1>2. f \in Foci /\ RightNext(f)
  BY <1>1, RevertedIsFocus, FocusMonitorIsRight
<1>3. QED BY <1>1, <1>2, SyncIsRight DEF Screened, Consistent

LEMMA FocusMonitorCommandFocus ==
  ASSUME Ordered, ScreenSettled, Serves(After), NEW m \in Monitor, FocusMonitorCommand(m)
  PROVE  RightNext(focus')
<1>1. focus' \in FocusMonitor(focus, m, After)
  BY DEF FocusMonitorCommand
<1>2. QED BY <1>1, OrderedNow, FocusMonitorIsRight

LEMMA MoveToWorkspaceFocus ==
  ASSUME Ordered, ScreenSettled, Serves(After), NEW ws, NEW fits, MoveFocusedToWorkspace(ws, fits)
  PROVE  RightNext(focus')
<1>1. focus' \in FocusNextAvailableOn(Reverted(focus), Reverted(focus).mon, After)
  BY DEF MoveFocusedToWorkspace, FocusNextAvailable
<1>2. QED BY <1>1, RevertedIsFocus, NextAvailableIsRight

\* The scratchpad's window keeps the focus when it moves to another monitor
\* (unless another window takes it there); every other window leaves the
\* focused monitor, which is where its workspace was shown.
LEMMA MoveToMonitorFocus ==
  ASSUME Orderly, ScreenSettled, Serves(After), NEW m \in Monitor, NEW fits,
         MoveWindowToMonitor(m, fits)
  PROVE  RightNext(focus')
<1> USE DEF Orderly, Ordered, Screened
<1> DEFINE w == focus.win
           from == MonitorShowingNext(wsOf[w])
<1>1. /\ w \in managed /\ Relocate(w, active[m], fits) /\ UNCHANGED <<managed, active, scratch>>
      /\ w # None /\ m # focus.mon
      /\ IF IsShown(wsOf[w]) THEN focus' \in FocusNextAvailableOn(Reverted(focus), from, After)
                             ELSE focus' = Reverted(focus)
  BY NoneIsNoWindow DEF MoveWindowToMonitor, Consistent, ClientsOK
<1>2. IsShown(wsOf[w]) => from \in Monitor /\ active'[from] = wsOf[w]
  BY <1>1, ShowingMonitorShows DEF IsShown, ShownNext
<1>3. CASE state[w] # "Scratchpad"
  <2>1. IsShown(wsOf[w]) /\ from = focus.mon
    BY <1>1, <1>2, <1>3, OrderlyNow DEF OnScreen, ScreenSettled
  <2>2. QED BY <1>1, <2>1, RevertedIsFocus, NextAvailableIsRight
<1>4. CASE state[w] = "Scratchpad"
  <2>1. state'[w] = "Scratchpad" /\ scratch.win = w
    BY <1>1, <1>4, OrderlyNow DEF ScreenSettled
  <2>2. SeenNext(w)
    BY <1>1, <1>4, <2>1, OrderlyNow DEF SeenNext, OnScreen
  <2>3. focus \in Foci /\ RightNext(focus) /\ Reverted(focus) = focus
    BY <1>1, <2>1, <2>2, FocusStays
  <2>4. QED BY <1>1, <1>2, <2>3, NextAvailableIsRight
<1>5. QED BY <1>3, <1>4

LEMMA ToggleFloatingFocus ==
  ASSUME Orderly, ScreenSettled, Serves(After), NEW fits, ToggleFloating(fits)
  PROVE  RightNext(focus')
<1> USE DEF Orderly, Ordered, Screened
<1> DEFINE w == focus.win
<1>1. /\ w \in managed /\ w # None /\ UNCHANGED <<managed, active>> /\ focus' = Reverted(focus)
      /\ \/ /\ state[w] = "Scratchpad" /\ wsOf' = [wsOf EXCEPT ![w] = active[focus.mon]]
            /\ state' = [state EXCEPT ![w] = "Floating"]
         \/ state[w] # "Scratchpad" /\ UNCHANGED <<wsOf, scratch>>
  BY NoneIsNoWindow DEF ToggleFloating, Consistent, ClientsOK
<1>2. CASE state[w] = "Scratchpad"
  <2>1. state'[w] = "Floating" /\ wsOf'[w] = active'[focus.mon] /\ ShownNext(wsOf'[w])
    BY <1>1, <1>2, OrderlyNow DEF Consistent, ClientsOK, ShownNext
  <2>2. w \in managed' /\ SeenNext(w)
    BY <1>1, <2>1 DEF SeenNext
  <2>3. QED BY <1>1, <2>1, <2>2, FocusStays
<1>3. CASE state[w] # "Scratchpad"
  <2>1. w \in managed' /\ state'[w] # "Scratchpad" /\ wsOf'[w] = wsOf[w]
    BY <1>1, <1>3, OrderlyNow DEF ScreenSettled
  <2>2. SeenNext(w) /\ active'[focus.mon] = wsOf'[w]
    BY <1>1, <1>3, <2>1, OrderlyNow DEF SeenNext, OnScreen, IsShown, ShownNext
  <2>3. QED BY <1>1, <2>1, <2>2, FocusStays
<1>4. QED BY <1>2, <1>3

LEMMA AssignFocus ==
  ASSUME Ordered, ScreenSettled, Serves(After), AssignScratchpad
  PROVE  RightNext(focus')
<1>1. focus' \in FocusNextAvailableOn(Reverted(focus), Reverted(focus).mon, After)
  BY DEF AssignScratchpad, FocusNextAvailable
<1>2. QED BY <1>1, RevertedIsFocus, NextAvailableIsRight

LEMMA ShowFocus ==
  ASSUME Ordered, ScreenSettled, Serves(After), ShowScratchpad
  PROVE  RightNext(focus')
<1>1. PICK w \in managed : /\ w = scratch.win /\ scratch' = [scratch EXCEPT !.shown = TRUE]
                           /\ managed' = managed /\ focus' = Focus(focus, w, After)
  BY DEF ShowScratchpad, clientVars
<1>2. scratch'.win = w /\ scratch'.shown
  BY <1>1 DEF Ordered, Screened, Consistent, ScreenOK
<1>3. w \in managed' /\ SeenNext(w)
  BY <1>1, <1>2 DEF SeenNext, ScreenSettled
<1>4. QED BY <1>1, <1>3, OrderedNow, FocusMakesRight

LEMMA HideFocus ==
  ASSUME Orderly, ScreenSettled, Serves(After), HideScratchpad
  PROVE  RightNext(focus')
<1>1. PICK w \in managed : /\ w = scratch.win /\ scratch' = [scratch EXCEPT !.shown = FALSE]
                           /\ UNCHANGED <<managed, state, wsOf, active>>
                           /\ focus' \in IF focus.win = w
                                THEN FocusNextAvailable(Reverted(focus), After)
                                ELSE {Reverted(focus)}
  BY DEF HideScratchpad, clientVars
<1>2. CASE focus.win = w
  BY <1>1, <1>2, RevertedIsFocus, NextAvailableIsRight DEF FocusNextAvailable, Orderly
<1>3. CASE focus.win # w
  <2>1. ~scratch'.shown
    BY <1>1 DEF Orderly, Ordered, Screened, Consistent, ScreenOK
  <2>2. focus.win = None => VisibleNext(active'[focus.mon]) = {} /\ ~OnlyScratchpad(focus)
    BY <1>1, <2>1, OrderlyNow DEF VisibleNext, Visible, OnlyScratchpad
  <2>3. focus.win # None => state[focus.win] # "Scratchpad"
    BY <1>1, <1>3, OrderlyNow
  <2>4. focus.win # None => /\ focus.win \in managed' /\ SeenNext(focus.win)
                            /\ active'[focus.mon] = wsOf'[focus.win]
    BY <1>1, <2>3, OrderlyNow DEF SeenNext, OnScreen, IsShown, ShownNext
  <2>5. QED BY <1>1, <1>3, <2>2, <2>4, FocusStays
<1>4. QED BY <1>2, <1>3

LEMMA FocusDirectionFocus ==
  ASSUME Orderly, ScreenSettled, Serves(After), NEW n, FocusDirection(n) \/ FocusCycle(n)
  PROVE  RightNext(focus')
<1> USE DEF Orderly, Ordered, Screened
<1>1. UNCHANGED <<managed, state, wsOf, active, scratch>> /\ focus' = Focus(focus, n, After)
  BY DEF FocusDirection, FocusCycle, clientVars
<1>2. n \in managed /\ state[n] # "Scratchpad" /\ IsShown(wsOf[n])
  <2>1. CASE FocusDirection(n)
    <3>1. /\ focus.win \in managed /\ state[focus.win] = "Tiled" /\ n \in tree[wsOf[focus.win]]
      BY <2>1 DEF FocusDirection
    <3>2. wsOf[focus.win] \in Workspace /\ IsShown(wsOf[focus.win])
      BY <3>1, OrderlyNow, NoneIsNoWindow DEF Consistent, ClientsOK, OnScreen
    <3>3. n \in managed /\ wsOf[n] = wsOf[focus.win] /\ OccupiesTreeSlot(n)
      BY <3>1, <3>2 DEF Consistent, ClientsOK, TreeMatchesClients
    <3>4. QED BY <3>2, <3>3 DEF OccupiesTreeSlot
  <2>2. CASE FocusCycle(n)
    BY <2>2, OrderlyNow DEF FocusCycle, Visible, IsShown
  <2>3. QED BY <2>1, <2>2
<1>3. n \in managed' /\ SeenNext(n)
  BY <1>1, <1>2 DEF SeenNext, IsShown, ShownNext
<1>4. QED BY <1>1, <1>3, OrderlyNow, FocusMakesRight

\* The pointer enters, or the user clicks, what is still mapped.
LEMMA PointerFocus ==
  ASSUME Orderly, Screened', ScreenSettled, Serves(After), NEW m \in Monitor, NEW w,
         HandleEnterNotify(m, w) \/ HandleButtonPressOnClient(w), ~LateEvent
  PROVE  RightNext(focus')
<1>1. UNCHANGED <<managed, state, wsOf, monOf, active, mapped, scratch>>
  BY DEF HandleEnterNotify, HandleButtonPressOnClient, clientVars
<1>2. focus \in Foci /\ RightNext(focus)
  BY <1>1, FocusUntouched
<1>3. w \in mapped => w \in managed' /\ SeenNext(w)
  BY <1>1, MappedIsSeen
<1>4. CASE HandleEnterNotify(m, w)
  <2>1. PICK f \in FollowPointer(focus, m) :
          focus' = f \/ (w \in mapped /\ focus' = Focus(f, w, After))
    BY <1>4 DEF HandleEnterNotify, LateEvent
  <2>2. f \in Foci /\ RightNext(f)
    BY <1>2, FollowPointerIsRight
  <2>3. QED BY <1>3, <2>1, <2>2, FocusMakesRight
<1>5. CASE HandleButtonPressOnClient(w)
  <2>1. w \in mapped
    BY <1>5 DEF HandleButtonPressOnClient, LateEvent
  <2>2. focus' = Focus(focus, w, After)
    BY <1>5, OrderlyNow DEF HandleButtonPressOnClient
  <2>3. QED BY <1>2, <1>3, <2>1, <2>2, FocusMakesRight
<1>6. QED BY <1>4, <1>5

----------------------------------------------------------------------------

\* Every handler and command on a calm desktop.
LEMMA NextKeepsFocus ==
  ASSUME Calm, Orderly, Screened', ScreenSettled, Serves(After), [Next]_vars, ~LateEvent
  PROVE  RightNext(focus')
<1>1. CASE ClientNext
  <2>1. ASSUME ManageAny PROVE RightNext(focus')
    BY <2>1, ManageFocus DEF ManageAny
  <2>2. ASSUME NEW w \in Window, \/ Unmanage(w) \/ HandleConfigureRequest(w) \/ SetFullscreen(w)
        PROVE  RightNext(focus')
    BY <2>2, UnmanageFocus, ConfigureRequestFocus, SetFullscreenFocus
  <2>3. ASSUME NEW w \in Window PROVE ~ClientTakesFocus(w)
    BY DEF ClientTakesFocus, Calm
  <2>4. QED BY <1>1, <2>1, <2>2, <2>3 DEF ClientNext, HandleClientMessage
<1>2. CASE CommandNext
  BY <1>2, SwitchWorkspaceFocus, FocusMonitorCommandFocus, MoveToWorkspaceFocus, MoveToMonitorFocus,
     ToggleFloatingFocus, SetFullscreenFocus, AssignFocus, ShowFocus, HideFocus, FocusDirectionFocus,
     RearrangeFocus DEF CommandNext, ToggleFullscreen, Orderly
<1>3. CASE InputNext
  <2>1. popups = {} /\ Popups = {}
    BY OrderlyNow DEF Calm
  <2>2. ~HandleFocusIn
    BY <2>1 DEF HandleFocusIn, TypingPopupOpen
  <2>3. ASSUME NEW p, OpenPopup(p) \/ ClosePopup(p) PROVE FALSE
    BY <2>1, <2>3 DEF OpenPopup, ClosePopup
  <2>4. \E m : m \in Monitor
    BY MonitorsExist
  <2>5. QED BY <1>3, <2>2, <2>3, <2>4, PointerFocus DEF InputNext
<1>4. CASE UNCHANGED vars
  <2>1. UNCHANGED <<managed, state, wsOf, monOf, active, scratch, focus>>
    BY <1>4 DEF vars
  <2>2. QED BY <2>1, FocusUntouched
<1>5. QED BY <1>1, <1>2, <1>3, <1>4 DEF Next

\* A step that hands the keyboard to a window, or does not.
Handed(g) == g.input # focus.input /\ g.input \in Window

LEMMA RevertedIsNotHanded ==
  ASSUME Ordered
  PROVE  ~Handed(Reverted(focus)) /\ ~Handed(focus)
  BY OrderedNow, WindowIsNoPopup DEF Handed, Reverted, Foci

\* From a focus that may be wrong, the operators go to one that is right or
\* leave it.
LEMMA NextAvailableGoesRight ==
  ASSUME ScreenSettled, Serves(After), NEW f \in Foci, NEW m \in Monitor,
         NEW g \in FocusNextAvailableOn(f, m, After)
  PROVE  g = f \/ RightNext(g)
<1>1. CASE m = f.mon
  BY <1>1, NextAvailableIsRight
<1>2. CASE m # f.mon /\ VisibleNext(active'[m]) = {}
  BY <1>2 DEF FocusNextAvailableOn
<1>3. CASE VisibleNext(active'[m]) # {}
  <2>1. PICK w \in VisibleNext(active'[m]) : g = Focus(f, w, After)
    BY <1>3 DEF FocusNextAvailableOn
  <2>2. QED BY <2>1, VisibleIsSeen, FocusMakesRight
<1>4. QED BY <1>1, <1>2, <1>3

LEMMA FollowPointerGoesRight ==
  ASSUME ScreenSettled, Serves(After), NEW f \in Foci, NEW m \in Monitor, NEW g \in FollowPointer(f, m)
  PROVE  g \in Foci /\ (g = f \/ RightNext(g))
  BY FocusMonitorIsRight DEF FollowPointer

LEMMA SyncGoesRight ==
  ASSUME ScreenSettled, ClientsOK', Serves(After), NEW f \in Foci, NEW h \in SyncFocusToPointer(f)
  PROVE  h = f \/ RightNext(h)
<1>1. PICK m \in Monitor :
        \/ h \in FollowPointer(f, m)
        \/ \E g \in FollowPointer(f, m) : \E w \in UnderPointer(m) \ {g.win} :
             h = Focus(g, w, After)
  BY DEF SyncFocusToPointer
<1>2. CASE h \in FollowPointer(f, m)
  BY <1>2, FollowPointerGoesRight
<1>3. CASE \E g \in FollowPointer(f, m) : \E w \in UnderPointer(m) \ {g.win} :
             h = Focus(g, w, After)
  <2>1. PICK g \in FollowPointer(f, m) : \E w \in UnderPointer(m) \ {g.win} :
          h = Focus(g, w, After)
    BY <1>3
  <2>2. PICK w \in UnderPointer(m) : h = Focus(g, w, After)
    BY <2>1
  <2>3. g \in Foci
    BY FollowPointerGoesRight
  <2>4. active'[m] \in Workspace
    BY DEF ScreenSettled, Settled
  <2>5. CASE w \in tree'[active'[m]]
    <3>1. w \in managed' /\ wsOf'[w] = active'[m] /\ OccupiesTreeSlot(w)'
      BY <2>4, <2>5 DEF ClientsOK, TreeMatchesClients
    <3>2. SeenNext(w)
      BY <3>1 DEF SeenNext, ShownNext, OccupiesTreeSlot
    <3>3. QED BY <2>2, <2>3, <3>1, <3>2, FocusMakesRight
  <2>6. CASE w \in managed' /\ state'[w] = "Floating" /\ ShownNext(wsOf'[w])
    <3>1. SeenNext(w)
      BY <2>6 DEF SeenNext
    <3>2. QED BY <2>2, <2>3, <2>6, <3>1, FocusMakesRight
  <2>7. QED BY <2>2, <2>5, <2>6 DEF UnderPointer
<1>4. QED BY <1>1, <1>2, <1>3

\* Every handler and command on a calm desktop, whatever is focused before.
LEMMA HandedIsRight ==
  ASSUME Calm, Ordered, Screened', ScreenSettled, Serves(After), [Next]_vars, Handed(focus'), ~LateEvent
  PROVE  RightNext(focus')
<1>1. focus \in Foci /\ Reverted(focus) \in Foci /\ popups = {} /\ focus.mon \in Monitor
  BY OrderedNow, RevertedIsFocus
<1>2. focus' # Reverted(focus) /\ focus' # focus
  BY RevertedIsNotHanded
<1>3. ASSUME NEW w \in Window, NEW hasParent \in BOOLEAN, NEW full \in BOOLEAN, NEW ws \in Workspace,
             NEW sm \in Monitor, NEW place \in Placement(ws), Manage(w, hasParent, place, full, sm)
      PROVE  RightNext(focus')
  <2>1. focus' = Focus(Reverted(focus), w, After) /\ w \in mapped'
    BY <1>1, <1>2, <1>3 DEF Manage, TypingPopupOpen
  <2>2. w \in managed' /\ SeenNext(w)
    BY <2>1, MappedIsSeen
  <2>3. QED BY <1>1, <2>1, <2>2, FocusMakesRight
<1>4. ASSUME NEW w \in Window, Unmanage(w) PROVE RightNext(focus')
  <2>1. focus.win = w
    BY <1>2, <1>4 DEF Unmanage
  <2>2. QED BY <1>4, <2>1, UnmanageFocusedFocus
<1>5. ASSUME NEW w, \/ HandleConfigureRequest(w) \/ SetFullscreen(w) \/ ClientTakesFocus(w)
      PROVE  FALSE
  BY <1>2, <1>5 DEF HandleConfigureRequest, ApplyTilingMisbehaviorFallback, SetFullscreen,
     ClientTakesFocus, Calm
<1>6. CASE ClientNext
  BY <1>3, <1>4, <1>5, <1>6 DEF ClientNext, ManageAny, HandleClientMessage
<1>7. ASSUME RotateOrFlipFocused \/ Rearrange PROVE RightNext(focus')
  <2>1. focus' \in SyncFocusToPointer(Reverted(focus))
    BY <1>2, <1>7 DEF RotateOrFlipFocused, Rearrange
  <2>2. QED BY <1>1, <1>2, <2>1, SyncGoesRight DEF Screened, Consistent
<1>8. ASSUME NEW m \in Monitor, NEW fits, MoveWindowToMonitor(m, fits) PROVE RightNext(focus')
  <2>1. /\ UNCHANGED active /\ IsShown(wsOf[focus.win])
        /\ focus' \in FocusNextAvailableOn(Reverted(focus), MonitorShowingNext(wsOf[focus.win]), After)
    BY <1>2, <1>8 DEF MoveWindowToMonitor
  <2>2. MonitorShowingNext(wsOf[focus.win]) \in Monitor
    BY <2>1, ShowingMonitorShows DEF IsShown, ShownNext
  <2>3. QED BY <1>1, <1>2, <2>1, <2>2, NextAvailableGoesRight
<1>9. ASSUME HideScratchpad PROVE RightNext(focus')
  <2>1. focus' \in FocusNextAvailableOn(Reverted(focus), Reverted(focus).mon, After)
    BY <1>2, <1>9 DEF HideScratchpad, FocusNextAvailable
  <2>2. QED BY <2>1, RevertedIsFocus, NextAvailableIsRight
<1>10. ASSUME NEW n, FocusDirection(n) \/ FocusCycle(n) PROVE RightNext(focus')
  <2>1. focus' = Focus(focus, n, After)
    BY <1>10 DEF FocusDirection, FocusCycle
  <2>2. n \in mapped'
    BY <2>1 DEF Focus, After, Handed
  <2>3. QED BY <1>1, <2>1, <2>2, MappedIsSeen, FocusMakesRight
<1>11. CASE CommandNext
  <2>1. ASSUME NEW fits PROVE ~ToggleFloating(fits)
    BY <1>2 DEF ToggleFloating
  <2>2. QED BY <1>5, <1>7, <1>8, <1>9, <1>10, <1>11, <2>1, SwitchWorkspaceFocus,
       FocusMonitorCommandFocus, MoveToWorkspaceFocus, AssignFocus, ShowFocus
       DEF CommandNext, ToggleFullscreen
<1>12. ASSUME NEW m \in Monitor, NEW w, HandleEnterNotify(m, w) PROVE RightNext(focus')
  <2>1. PICK f \in FollowPointer(focus, m) :
          focus' = f \/ (w \in mapped' /\ focus' = Focus(f, w, After))
    BY <1>12 DEF HandleEnterNotify, LateEvent
  <2>2. f \in Foci /\ (f = focus \/ RightNext(f))
    BY <1>1, FollowPointerGoesRight
  <2>3. QED BY <1>2, <2>1, <2>2, MappedIsSeen, FocusMakesRight
<1>13. ASSUME NEW w, HandleButtonPressOnClient(w) PROVE RightNext(focus')
  <2>1. \E m : m \in Monitor
    BY MonitorsExist
  <2>2. w \in mapped' /\ focus' = Focus(focus, w, After)
    BY <1>1, <1>13, <2>1 DEF HandleButtonPressOnClient, LateEvent
  <2>3. QED BY <1>1, <2>2, MappedIsSeen, FocusMakesRight
<1>14. CASE InputNext
  <2>1. ASSUME NEW p PROVE ~OpenPopup(p) /\ ~ClosePopup(p)
    BY <1>1 DEF OpenPopup, ClosePopup, Calm
  <2>2. ~HandleFocusIn
    BY <1>1 DEF HandleFocusIn, TypingPopupOpen
  <2>3. QED BY <1>12, <1>13, <1>14, <2>1, <2>2 DEF InputNext
<1>15. ~UNCHANGED vars
  BY <1>2 DEF vars
<1>16. QED BY <1>6, <1>11, <1>14, <1>15 DEF Next

\* On a calm desktop the keyboard is right: at a window that can be seen, on
\* the monitor that shows it, which is the one marked as focused; at none only
\* while that monitor has no window; and with the scratchpad while it is shown
\* there alone.  It goes wrong only by a pointer event of a window that was
\* hidden before the event was handled, and is right again once any handler
\* hands the keyboard to another window (Focus, FocusNextAvailableOn,
\* FocusMonitor, SyncFocusToPointer and every handler that ends in one of them,
\* or in none).
THEOREM KeyboardIsRight == ASSUME Calm PROVE Spec => FocusStaysRight
<1>1. Init => Ordered /\ FocusIsRight
  <2> SUFFICES ASSUME Init PROVE Ordered /\ FocusIsRight
    OBVIOUS
  <2>1. Screened
    BY ScreenedStarts
  <2>2. MonitorsNeverShare /\ Plain
    BY DEF Init, MonitorsNeverShare, Plain, NoScratch
  <2>3. FocusIsRight
    BY DEF Init, NoScratch, FocusIsRight, FocusIsOnScreen, FocusedMonitorAgrees, SomethingIsFocused,
       ScratchpadKeepsFocus, InputMatchesFocus, Visible
  <2>4. QED BY <2>1, <2>2, <2>3 DEF Ordered
<1>2. ASSUME Ordered, [Next]_vars PROVE Ordered' /\ ScreenSettled /\ Serves(After)
  <2>1. Consistent /\ ScratchOK /\ ScreenInv /\ MonitorsNeverShare /\ Plain
    BY <1>2 DEF Ordered, Screened
  <2>2. Screened'
    BY <1>2, <2>1, NextKeepsConsistent, NextKeepsScratch, NextKeepsScreen DEF Screened, Calm
  <2>3. MonitorsNeverShare'
    BY <1>2, <2>1, OneHiddenWorkspace
       DEF Consistent, ScreenOK, FocusRecord, MonitorsNeverShare, IsShown
  <2>4. Plain'
    BY <1>2, <2>1, NextKeepsPlain
  <2>5. ScreenSettled /\ Serves(After)
    BY <2>2, <2>3, <2>4, EndsSettled
  <2>6. QED BY <2>2, <2>3, <2>4, <2>5 DEF Ordered
<1> DEFINE Right == FocusIsRight \/ (focus'.input # focus.input /\ focus'.input \in Window)
                      => FocusIsRight' \/ LateEvent
<1>3. ASSUME Ordered, [Next]_vars PROVE [Right]_vars
  <2>1. Screened' /\ ScreenSettled /\ Serves(After)
    BY <1>2, <1>3 DEF Ordered
  <2>2. CASE LateEvent
    BY <2>2
  <2>3. CASE ~LateEvent /\ FocusIsRight
    BY <1>3, <2>1, <2>3, NextKeepsFocus, RightThen DEF Orderly
  <2>4. CASE ~LateEvent /\ Handed(focus')
    BY <1>3, <2>1, <2>4, HandedIsRight, RightThen
  <2>5. QED BY <2>2, <2>3, <2>4 DEF Handed
<1>4. QED BY <1>1, <1>2, <1>3, PTL DEF Spec, FocusStaysRight

----------------------------------------------------------------------------
(***************************************************************************)
(* Gestures (MouseDrag) end clean: what MouseManager and WindowManager     *)
(* remember of a drag is a managed window until the button is released,    *)
(* and nothing afterwards.                                                 *)
(*                                                                         *)
(* This holds of calm gestures only, and the hypotheses name what is       *)
(* missing: nothing cancels a gesture when its window closes or a command  *)
(* takes it elsewhere (Disturb), nor when a second button is pressed       *)
(* (TwoButtons).                                                           *)
(***************************************************************************)
----------------------------------------------------------------------------
(***************************************************************************)
(* Clients and screen.  Everything WindowManager does keeps them           *)
(* consistent, and so does every step of a gesture.                        *)
(***************************************************************************)

\* A gesture changes the workspace of windows without a leaf at most.
LEMMA GestureClients ==
  ASSUME ClientsOK, UNCHANGED <<managed, state, prev, strikes, tree>>,
         wsOf' \in [Window -> Workspace],
         \A w \in managed : OccupiesTreeSlot(w) => wsOf'[w] = wsOf[w]
  PROVE  ClientsOK'
<1>1. \A w \in managed : OccupiesTreeSlot(w)' <=> OccupiesTreeSlot(w)
  BY DEF OccupiesTreeSlot
<1>2. TreeMatchesClients'
  <2> SUFFICES ASSUME NEW ws \in Workspace, NEW w
               PROVE  w \in tree[ws] <=> /\ w \in managed /\ wsOf'[w] = ws
                                         /\ OccupiesTreeSlot(w)'
    BY DEF TreeMatchesClients
  <2>1. w \in tree[ws] <=> w \in managed /\ wsOf[w] = ws /\ OccupiesTreeSlot(w)
    BY DEF ClientsOK, TreeMatchesClients
  <2>2. QED BY <1>1, <2>1
<1>3. QED BY <1>2 DEF ClientsOK

LEMMA SameWorkspaces ==
  ASSUME Consistent, UNCHANGED clientVars
  PROVE  ClientsOK' /\ managed' = managed
  BY SameClients DEF Consistent, clientVars

LEMMA GestureConsistent ==
  ASSUME Consistent, ClientsOK', UNCHANGED <<managed, active, scratch, popupVars>>,
         monOf' \in [Window -> Monitor], mapped' \subseteq managed',
         dragging' \in Window \cup {None},
         \/ focus' = focus \/ focus' = Reverted(focus)
         \/ focus' \in SyncFocusToPointer(Reverted(focus))
  PROVE  Consistent'
<1>1. ScreenOK'
  BY DEF Consistent, ScreenOK, popupVars
<1>2. Settled
  BY <1>1, ConsistentSettles
<1>3. focus \in FocusRecord' /\ Reverted(focus) \in FocusRecord'
  BY FocusKept, RevertedType DEF Consistent
<1>4. focus' \in FocusRecord'
  BY <1>2, <1>3, SyncType
<1>5. QED BY <1>1, <1>4 DEF Consistent

----------------------------------------------------------------------------
(***************************************************************************)
(* What is remembered of a gesture.                                        *)
(***************************************************************************)

CalmGestures == ~Disturb /\ ~TwoButtons

\* What MouseManager and WindowManager keep of a gesture is one managed window,
\* and it is known what kind of gesture that is: a floating window is moved, a
\* leaf swapped.
Remembered ==
  /\ mouse \in [mode : DragMode, win : managed \cup {None}]
  /\ mouse.mode = "Idle" => mouse.win = None
  /\ dragging # None => mouse.mode \in {"Swap", "Move"} /\ dragging = mouse.win
  /\ resizing # None => mouse.mode = "FloatingResize" /\ resizing = mouse.win
  /\ resizing \in Window \cup {None} /\ hover \in Window \cup {None} /\ tweens \subseteq Window

MovesNoLeaf == mouse.mode = "Move" /\ mouse.win # None => ~OccupiesTreeSlot(mouse.win)

Gesture == Consistent /\ Remembered /\ MovesNoLeaf

LEMMA PressKeeps ==
  ASSUME CalmGestures, Gesture, NEW m \in Monitor, HandlePress(m)
  PROVE  Gesture'
<1> USE DEF Gesture
<1>1. mouse.mode = "Idle" /\ mouse.win = None /\ dragging = None /\ resizing = None
  BY DEF HandlePress, CalmGestures, Remembered
<1>2. /\ UNCHANGED <<clientVars, monOf, active, focus, mapped, scratch, popupVars, tweens>>
      /\ UNCHANGED <<managed, state, prev>>
  BY DEF HandlePress, clientVars
<1>3. ASSUME NEW w \in FloatingOnScreen PROVE w \in managed /\ w \in Window /\ ~OccupiesTreeSlot(w)
  BY DEF FloatingOnScreen, OccupiesTreeSlot, Consistent, ClientsOK
<1>4. ASSUME NEW w \in tree[active[m]] PROVE w \in managed /\ w \in Window
  BY DEF Consistent, ClientsOK, ScreenOK, TreeMatchesClients
<1>5. /\ mouse' \in [mode : DragMode, win : managed' \cup {None}]
      /\ \/ /\ mouse'.mode = "Idle" /\ mouse'.win = None
            /\ UNCHANGED <<dragging, resizing, hover>>
         \/ /\ mouse'.mode = "Move" /\ mouse'.win \in managed /\ ~OccupiesTreeSlot(mouse'.win)
            /\ dragging' = mouse'.win /\ UNCHANGED <<resizing, hover>>
         \/ /\ mouse'.mode = "Swap" /\ mouse'.win \in managed
            /\ dragging' \in {dragging, mouse'.win}
            /\ hover' \in {hover, None} /\ resizing' = resizing
         \/ /\ mouse'.mode = "FloatingResize" /\ mouse'.win \in managed
            /\ resizing' = mouse'.win /\ UNCHANGED <<dragging, hover>>
         \/ /\ mouse'.mode = "Resize" /\ mouse'.win \in managed
            /\ UNCHANGED <<dragging, resizing, hover>>
  <2>1. CASE PressNothing
    <3>1. mouse' = [mouse EXCEPT !.win = None] /\ UNCHANGED <<dragging, resizing, hover>>
      BY <2>1 DEF PressNothing
    <3>2. QED BY <1>1, <1>2, <3>1 DEF Remembered
  <2>2. CASE PressSwap(m) /\ ~PressNothing
    BY <1>2, <1>3, <1>4, <2>2 DEF PressSwap, DragMode
  <2>3. CASE PressResize(m) /\ ~PressNothing
    BY <1>2, <1>3, <1>4, <2>3 DEF PressResize, DragMode
  <2>4. QED BY <2>1, <2>2, <2>3 DEF HandlePress
<1>6. dragging' \in Window \cup {None} /\ resizing' \in Window \cup {None} /\ hover' \in Window \cup {None}
  BY <1>1, <1>5 DEF Remembered, Consistent, ClientsOK
<1>7. Remembered'
  BY <1>1, <1>2, <1>5, <1>6 DEF Remembered
<1>8. MovesNoLeaf'
  BY <1>2, <1>5 DEF MovesNoLeaf, OccupiesTreeSlot
<1>9. Consistent'
  BY <1>2, <1>6, SameWorkspaces, GestureConsistent DEF Consistent, ScreenOK
<1>10. QED BY <1>7, <1>8, <1>9

\* Carried over another monitor, the window takes on its workspace.
LEMMA CrossMonitorKeeps ==
  ASSUME Gesture, NEW m \in Monitor, CrossMonitor(m)
  PROVE  Gesture'
<1> USE DEF Gesture
<1>1. PICK w \in managed :
        /\ w = mouse.win /\ mouse.mode = "Move" /\ wsOf' = [wsOf EXCEPT ![w] = active[m]]
        /\ UNCHANGED <<managed, state, prev, strikes, tree, active, scratch, popupVars, dragging>>
        /\ UNCHANGED <<mouse, resizing, hover, tweens>>
        /\ monOf' = Homed([monOf EXCEPT ![w] = m])
        /\ mapped' \in Arranged(mapped) /\ focus' = Reverted(focus)
  BY DEF CrossMonitor, gestureVars
<1>2. w \in Window /\ w # None /\ active[m] \in Workspace /\ ~OccupiesTreeSlot(w)
  BY <1>1, NoneIsNoWindow DEF Consistent, ClientsOK, ScreenOK, MovesNoLeaf
<1>3. wsOf' \in [Window -> Workspace] /\ \A v \in managed : v # w => wsOf'[v] = wsOf[v]
  BY <1>1, <1>2 DEF Consistent, ClientsOK
<1>4. ClientsOK'
  BY <1>1, <1>2, <1>3, GestureClients DEF Consistent
<1>5. mapped' \subseteq managed' /\ monOf' \in [Window -> Monitor]
  BY <1>1, ArrangedMapsManaged, NewHome
<1>6. Consistent'
  BY <1>1, <1>4, <1>5, GestureConsistent DEF Consistent, ScreenOK
<1>7. Remembered' /\ MovesNoLeaf'
  BY <1>1 DEF Remembered, MovesNoLeaf, OccupiesTreeSlot
<1>8. QED BY <1>6, <1>7

LEMMA UpdateSwapKeeps ==
  ASSUME Gesture, NEW target, UpdateSwapDrag(target)
  PROVE  Gesture'
<1> USE DEF Gesture
<1>1. /\ mouse.win # None /\ target \in tree[wsOf[mouse.win]] \cup {None} /\ hover' = target
      /\ UNCHANGED <<vars, mouse, resizing, tweens>>
  BY DEF UpdateSwapDrag
<1>2. mouse.win \in managed /\ wsOf[mouse.win] \in Workspace
  BY <1>1 DEF Remembered, Consistent, ClientsOK
<1>3. hover' \in Window \cup {None}
  BY <1>1, <1>2 DEF Consistent, ClientsOK
<1>4. Consistent'
  BY <1>1, NextKeepsConsistent
<1>5. Remembered' /\ MovesNoLeaf'
  BY <1>1, <1>3 DEF vars, Remembered, MovesNoLeaf, OccupiesTreeSlot
<1>6. QED BY <1>4, <1>5

\* A gesture that is over is over for all three that remember it.
LEMMA OverIsRemembered ==
  ASSUME Consistent', mouse' = [mode |-> "Idle", win |-> None], dragging' = None, resizing' = None,
         hover' \in Window \cup {None}, tweens' \subseteq Window
  PROVE  Gesture'
  BY DEF Gesture, Remembered, MovesNoLeaf, DragMode

LEMMA EndSwapKeeps ==
  ASSUME Gesture, NEW target, EndSwapDrag(target)
  PROVE  Gesture'
<1> USE DEF Gesture
<1>1. /\ mouse.mode = "Swap" /\ mouse' = [mode |-> "Idle", win |-> None]
      /\ UNCHANGED <<clientVars, active, scratch, popupVars, resizing>> /\ resizing = None
  BY DEF EndSwapDrag, GestureOver, Remembered
<1>2. ClientsOK' /\ managed' = managed
  BY <1>1, SameWorkspaces
<1>3. CASE mouse.win = None \/ mouse.win # dragging
  <2>1. UNCHANGED <<dragging, monOf, mapped, focus, hover, tweens>>
    BY <1>3 DEF EndSwapDrag
  <2>2. dragging = None
    BY <1>3 DEF Remembered
  <2>3. Consistent'
    BY <1>1, <1>2, <2>1, GestureConsistent DEF Consistent, ScreenOK
  <2>4. QED BY <1>1, <2>1, <2>2, <2>3, OverIsRemembered DEF Remembered
<1>4. CASE ~(mouse.win = None \/ mouse.win # dragging)
  <2>1. /\ target \in tree[wsOf[mouse.win]] \cup {None} /\ dragging' = None /\ hover' = None
        /\ tweens' = tweens \cup {mouse.win} \cup ({target} \ {None})
        /\ \/ UNCHANGED <<monOf, mapped, focus>>
           \/ /\ monOf' = Homed(monOf) /\ mapped' \in Arranged(mapped)
              /\ focus' \in SyncFocusToPointer(Reverted(focus))
    BY <1>4 DEF EndSwapDrag, Dropped
  <2>2. mouse.win \in Window /\ wsOf[mouse.win] \in Workspace
    BY <1>4 DEF Remembered, Consistent, ClientsOK
  <2>3. tweens' \subseteq Window
    BY <2>1, <2>2 DEF Remembered, Consistent, ClientsOK
  <2>4. mapped' \subseteq managed' /\ monOf' \in [Window -> Monitor]
    BY <1>2, <2>1, ArrangedMapsManaged, SameHome DEF Consistent, ScreenOK
  <2>5. Consistent'
    BY <1>1, <1>2, <2>1, <2>4, GestureConsistent DEF Consistent, ScreenOK
  <2>6. QED BY <1>1, <2>1, <2>3, <2>5, OverIsRemembered
<1>5. QED BY <1>3, <1>4

LEMMA EndFloatingKeeps ==
  ASSUME Gesture, NEW m \in Monitor, EndFloatingDrag(m)
  PROVE  Gesture'
<1> USE DEF Gesture
<1>1. /\ mouse.mode = "Move" /\ mouse' = [mode |-> "Idle", win |-> None] /\ resizing = None
      /\ UNCHANGED <<managed, state, prev, strikes, tree, active, scratch, popupVars,
                     resizing, hover, tweens>>
  BY DEF EndFloatingDrag, GestureOver, Remembered
<1>2. CASE mouse.win = None \/ mouse.win # dragging
  <2>1. UNCHANGED <<dragging, wsOf, monOf, mapped, focus>>
    BY <1>2 DEF EndFloatingDrag
  <2>2. dragging = None
    BY <1>2 DEF Remembered
  <2>3. Consistent'
    BY <1>1, <2>1, SameWorkspaces, GestureConsistent DEF clientVars, Consistent, ScreenOK
  <2>4. QED BY <1>1, <2>1, <2>2, <2>3, OverIsRemembered DEF Remembered
<1>3. CASE ~(mouse.win = None \/ mouse.win # dragging)
  <2> DEFINE w == mouse.win
  <2>1. w \in managed /\ w \in Window /\ active[m] \in Workspace /\ ~OccupiesTreeSlot(w)
    BY <1>1, <1>3 DEF Remembered, Consistent, ClientsOK, ScreenOK, MovesNoLeaf
  <2>2. /\ dragging' = None /\ wsOf' = [wsOf EXCEPT ![w] = active[m]]
        /\ monOf' = Homed([monOf EXCEPT ![w] = m])
        /\ mapped' \in Arranged(mapped) /\ focus' = Reverted(focus)
    BY <1>3, <2>1 DEF EndFloatingDrag, Dropped
  <2>3. wsOf' \in [Window -> Workspace] /\ \A v \in managed : v # w => wsOf'[v] = wsOf[v]
    BY <2>1, <2>2 DEF Consistent, ClientsOK
  <2>4. ClientsOK'
    BY <1>1, <2>1, <2>3, GestureClients DEF Consistent
  <2>5. mapped' \subseteq managed' /\ monOf' \in [Window -> Monitor]
    BY <2>2, ArrangedMapsManaged, NewHome
  <2>6. Consistent'
    BY <1>1, <2>2, <2>4, <2>5, GestureConsistent
  <2>7. QED BY <1>1, <2>2, <2>6, OverIsRemembered DEF Remembered
<1>4. QED BY <1>2, <1>3

LEMMA EndResizeKeeps ==
  ASSUME Gesture, EndResize
  PROVE  Gesture'
<1> USE DEF Gesture
<1>1. /\ mouse' = [mode |-> "Idle", win |-> None] /\ dragging = None
      /\ UNCHANGED <<clientVars, active, scratch, popupVars, dragging, hover, tweens>>
  BY DEF EndResize, GestureOver, Remembered
<1>2. /\ resizing' = None
      /\ \/ UNCHANGED <<monOf, mapped, focus>>
         \/ monOf' = Homed(monOf) /\ mapped' \in Arranged(mapped) /\ focus' = Reverted(focus)
  BY DEF EndResize, Remembered
<1>3. ClientsOK' /\ managed' = managed
  BY <1>1, SameWorkspaces
<1>4. mapped' \subseteq managed' /\ monOf' \in [Window -> Monitor]
  BY <1>2, <1>3, ArrangedMapsManaged, SameHome DEF Consistent, ScreenOK
<1>5. Consistent'
  BY <1>1, <1>2, <1>3, <1>4, GestureConsistent DEF Consistent, ScreenOK
<1>6. QED BY <1>1, <1>2, <1>5, OverIsRemembered DEF Remembered

\* No handler of WindowManager's touches what is dragged.
LEMMA NextKeepsDragging ==
  ASSUME [Next]_vars
  PROVE  dragging' = dragging
<1>1. ManageAny => dragging' = dragging
  BY DEF ManageAny, Manage
<1>2. ASSUME NEW w \in Window, \/ Unmanage(w) \/ HandleConfigureRequest(w)
                               \/ HandleClientMessage(w) \/ ClientTakesFocus(w)
      PROVE  dragging' = dragging
  BY <1>2 DEF Unmanage, HandleConfigureRequest, ApplyTilingMisbehaviorFallback, HandleClientMessage,
              SetFullscreen, ClientTakesFocus
<1>3. ASSUME NEW m, NEW fits, \/ SwitchWorkspace(m) \/ FocusMonitorCommand(m) \/ FocusDirection(m)
                              \/ FocusCycle(m) \/ MoveFocusedToWorkspace(m, fits)
                              \/ MoveWindowToMonitor(m, fits) \/ ToggleFloating(fits)
      PROVE  dragging' = dragging
  BY <1>3 DEF SwitchWorkspace, FocusMonitorCommand, FocusDirection, FocusCycle,
              MoveFocusedToWorkspace, MoveWindowToMonitor, ToggleFloating
<1>4. ASSUME \/ ToggleFullscreen \/ AssignScratchpad \/ ShowScratchpad \/ HideScratchpad
             \/ RotateOrFlipFocused \/ Rearrange
      PROVE  dragging' = dragging
  BY <1>4 DEF ToggleFullscreen, SetFullscreen, AssignScratchpad, ShowScratchpad, HideScratchpad,
              RotateOrFlipFocused, Rearrange
<1>5. InputNext => dragging' = dragging
  BY DEF InputNext, HandleEnterNotify, HandleButtonPressOnClient, OpenPopup, ClosePopup, HandleFocusIn
<1>6. QED BY <1>1, <1>2, <1>3, <1>4, <1>5 DEF Next, ClientNext, CommandNext, vars

\* What other clients, and a client that goes fullscreen, do while a button is
\* held: the window of the gesture stays, and keeps its leaf or its lack of one.
LEMMA OthersKeepWindow ==
  ASSUME Consistent, NEW g \in managed,
         \/ ManageAny
         \/ \E w \in Window : \/ HandleConfigureRequest(w) \/ HandleClientMessage(w)
                              \/ w # g /\ Unmanage(w)
  PROVE  g \in managed' /\ (~OccupiesTreeSlot(g) => ~OccupiesTreeSlot(g)')
<1>1. CASE ManageAny
  <2>1. PICK w \in Window, hasParent, full \in BOOLEAN, ws \in Workspace, sm \in Monitor :
          \E place \in Placement(ws) : Manage(w, hasParent, place, full, sm)
    BY <1>1 DEF ManageAny
  <2>2. PICK place \in Placement(ws) : Manage(w, hasParent, place, full, sm)
    BY <2>1
  <2>3. g \in managed' /\ g # w /\ state'[g] = state[g] /\ prev'[g] = prev[g]
    BY <2>2 DEF Manage, Consistent, ClientsOK
  <2>4. QED BY <2>3 DEF OccupiesTreeSlot
<1>2. ASSUME NEW w \in Window, w # g, Unmanage(w)
      PROVE  g \in managed' /\ state'[g] = state[g] /\ prev'[g] = prev[g]
  BY <1>2 DEF Unmanage, Consistent, ClientsOK
<1>3. ASSUME NEW w \in Window, HandleConfigureRequest(w)
      PROVE  /\ g \in managed' /\ prev' = prev
             /\ state'[g] = state[g] \/ state[g] = "Tiled"
  BY <1>3 DEF HandleConfigureRequest, ApplyTilingMisbehaviorFallback, Consistent, ClientsOK
<1>4. ASSUME NEW w \in Window, SetFullscreen(w)
      PROVE  g \in managed' /\ (~OccupiesTreeSlot(g) => ~OccupiesTreeSlot(g)')
  <2>1. managed' = managed
    BY <1>4 DEF SetFullscreen
  <2>2. CASE g # w
    BY <1>4, <2>1, <2>2 DEF SetFullscreen, OccupiesTreeSlot, Consistent, ClientsOK
  <2>3. CASE g = w
    BY <1>4, <2>1, <2>3 DEF SetFullscreen, OccupiesTreeSlot, Consistent, ClientsOK
  <2>4. QED BY <2>2, <2>3
<1>5. QED BY <1>1, <1>2, <1>3, <1>4 DEF OccupiesTreeSlot, HandleClientMessage

LEMMA MeanwhileKeeps ==
  ASSUME CalmGestures, Gesture, Meanwhile
  PROVE  Gesture'
<1> USE DEF Gesture
<1>1. UNCHANGED <<mouse, resizing, hover, tweens>>
  BY DEF Meanwhile, gestureVars
<1>2. \/ mouse.mode = "Idle" /\ Next
      \/ /\ mouse.mode # "Idle"
         /\ \/ ManageAny
            \/ \E w \in Window : \/ HandleConfigureRequest(w) \/ HandleClientMessage(w)
                                 \/ w # mouse.win /\ Unmanage(w)
  BY DEF Meanwhile, CalmGestures
<1>3. Next
  BY <1>2 DEF Next, ClientNext
<1>4. Consistent' /\ dragging' = dragging
  BY <1>3, NextKeepsConsistent, NextKeepsDragging
<1>5. CASE mouse.win = None
  <2>1. mouse' \in [mode : DragMode, win : managed' \cup {None}]
    BY <1>1, <1>5 DEF Remembered
  <2>2. QED BY <1>1, <1>4, <1>5, <2>1 DEF Remembered, MovesNoLeaf
<1>6. CASE mouse.win # None
  <2>1. PICK g \in managed : g = mouse.win /\ mouse.mode # "Idle"
    BY <1>6 DEF Remembered
  <2>2. g \in managed' /\ (~OccupiesTreeSlot(g) => ~OccupiesTreeSlot(g)')
    BY <1>2, <2>1, OthersKeepWindow
  <2>3. mouse' \in [mode : DragMode, win : managed' \cup {None}]
    BY <1>1, <2>1, <2>2 DEF Remembered
  <2>4. Remembered'
    BY <1>1, <1>4, <2>3 DEF Remembered
  <2>5. MovesNoLeaf'
    BY <1>1, <2>1, <2>2 DEF MovesNoLeaf, OccupiesTreeSlot
  <2>6. QED BY <1>4, <2>4, <2>5
<1>7. QED BY <1>5, <1>6

LEMMA DragNextKeeps ==
  ASSUME CalmGestures, Gesture, [DragNext]_dragVars
  PROVE  Gesture'
<1> USE DEF Gesture
<1>1. ASSUME UNCHANGED <<vars, mouse, resizing, hover>>, tweens' \subseteq Window PROVE Gesture'
  <2>1. Consistent'
    BY <1>1, NextKeepsConsistent
  <2>2. QED BY <1>1, <2>1 DEF vars, Remembered, MovesNoLeaf, OccupiesTreeSlot
<1>2. ASSUME DragSplit PROVE Gesture'
  <2>1. Next /\ Rearrange /\ UNCHANGED <<mouse, resizing, hover, tweens>>
    BY <1>2 DEF DragSplit, gestureVars, Next, CommandNext
  <2>2. Consistent' /\ dragging' = dragging
    BY <2>1, NextKeepsConsistent, NextKeepsDragging
  <2>3. UNCHANGED <<managed, state, prev>>
    BY <2>1 DEF Rearrange, clientVars
  <2>4. QED BY <2>1, <2>2, <2>3 DEF Remembered, MovesNoLeaf, OccupiesTreeSlot
<1>3. ASSUME AnimatorStep PROVE Gesture'
  BY <1>1, <1>3 DEF AnimatorStep, gestureVars, Remembered
<1>4. ASSUME UNCHANGED dragVars PROVE Gesture'
  BY <1>1, <1>4 DEF dragVars, gestureVars, Remembered
<1>5. QED BY <1>2, <1>3, <1>4, PressKeeps, CrossMonitorKeeps, UpdateSwapKeeps, EndSwapKeeps,
             EndFloatingKeeps, EndResizeKeeps, MeanwhileKeeps DEF DragNext, HandleRelease

LEMMA DragStarts == DragInit => Gesture
<1> SUFFICES ASSUME DragInit PROVE Gesture
  OBVIOUS
<1>1. Consistent
  BY InitConsistent DEF DragInit
<1>2. QED BY <1>1 DEF DragInit, Init, Gesture, Remembered, MovesNoLeaf, DragMode

LEMMA GesturesAreRemembered == ASSUME CalmGestures PROVE DragSpec => []Gesture
  BY DragStarts, DragNextKeeps, PTL DEF DragSpec

\* However other windows come, go, misbehave and go fullscreen around it, a
\* calm gesture ends clean: MouseManager, m_activeDragWindow and
\* m_activeResizeWindow name a managed window while the button is held and none
\* afterwards, and the window has its leaf if it should have one.
THEOREM GesturesEndClean == ASSUME CalmGestures PROVE DragSpec => []DragEndsClean
<1>1. Gesture => DragEndsClean
  <2> SUFFICES ASSUME Gesture PROVE DragEndsClean
    OBVIOUS
  <2> USE DEF Gesture
  <2>1. TypeOK /\ TreeMatchesClients
    BY DEF Consistent, ClientsOK, ScreenOK, FocusRecord, Input, TypeOK
  <2>2. DragTypeOK
    BY <2>1 DEF DragTypeOK, Remembered, Consistent, ClientsOK
  <2>3. NothingDraggedWhenIdle
    BY DEF NothingDraggedWhenIdle, Remembered
  <2>4. NoDanglingDrag
    BY DEF NoDanglingDrag, Remembered
  <2>5. QED BY <2>1, <2>2, <2>3, <2>4 DEF DragEndsClean
<1>2. QED BY <1>1, GesturesAreRemembered, PTL

----------------------------------------------------------------------------
(***************************************************************************)
(* Where a dropped window belongs.                                         *)
(***************************************************************************)

\* A window on a workspace that is shown is recorded on the monitor that shows
\* it; a floating one is mapped only then, or while it is dragged.
AtHome ==
  /\ \A w \in managed : w # scratch.win /\ IsShown(wsOf[w]) => active[monOf[w]] = wsOf[w]
  /\ \A w \in mapped : state[w] = "Floating" /\ w # dragging => IsShown(wsOf[w])

\* Arrange brings every window home, whatever was mapped before.
LEMMA ArrangeBringsHome ==
  ASSUME Consistent', ScratchOK', NEW home, monOf' = Homed(home),
         NEW shown, NEW arranged \in Arranged(shown), arranged \subseteq mapped',
         \A w \in mapped' \ arranged : ShownNext(wsOf'[w])
  PROVE  AtHome'
<1>1. PICK top : arranged = ArrangedWith(shown, top)
  BY DEF Arranged
<1>2. ASSUME NEW w \in managed', w # scratch'.win, ShownNext(wsOf'[w])
      PROVE  active'[monOf'[w]] = wsOf'[w]
  <2>1. w \in Window /\ state'[w] # "Scratchpad"
    BY <1>2 DEF Consistent, ClientsOK, ScratchOK, InScratchpad
  <2>2. monOf'[w] = MonitorShowingNext(wsOf'[w])
    BY <1>2, <2>1 DEF Homed
  <2>3. QED BY <1>2, <2>2 DEF ShownNext, MonitorShowingNext
<1>3. ASSUME NEW w \in mapped', state'[w] = "Floating", w # dragging'
      PROVE  ShownNext(wsOf'[w])
  BY <1>1, <1>3 DEF ArrangedWith
<1>4. QED BY <1>2, <1>3 DEF AtHome, IsShown, ShownNext

LEMMA RearrangeBringsHome ==
  ASSUME Consistent', ScratchOK', NEW home, monOf' = Homed(home), NEW shown, mapped' \in Arranged(shown)
  PROVE  AtHome'
<1>1. \A S : S \subseteq S /\ S \ S = {}
  OBVIOUS
<1>2. QED BY <1>1, ArrangeBringsHome

LEMMA StaysHome ==
  ASSUME AtHome, UNCHANGED <<managed, state, wsOf, monOf, active, mapped>>,
         scratch'.win = scratch.win,
         \A w \in mapped : state[w] = "Floating" /\ w # dragging' => w # dragging
  PROVE  AtHome'
  BY DEF AtHome, IsShown

\* A window that does not open in the background opens on a workspace that is
\* shown by then.
LEMMA ManageIsSeen ==
  ASSUME Consistent, NEW w \in Window, NEW hasParent, NEW full, NEW sm, NEW place,
         place.ws \in Workspace, Manage(w, hasParent, place, full, sm),
         ~OpensInBackground(place.ws, hasParent)
  PROVE  ShownNext(place.ws)
<1>1. focus.mon \in Monitor
  BY DEF Consistent, FocusRecord
<1>2. CASE IsShown(place.ws)
  <2>1. active' = active
    BY <1>2 DEF Manage
  <2>2. QED BY <1>2, <2>1 DEF IsShown, ShownNext
<1>3. CASE ~IsShown(place.ws) /\ hasParent
  <2>1. active' = [active EXCEPT ![focus.mon] = place.ws]
    BY <1>3 DEF Manage
  <2>2. QED BY <1>1, <2>1 DEF ShownNext, Consistent, ScreenOK
<1>4. QED BY <1>2, <1>3 DEF OpensInBackground

LEMMA ManageHome ==
  ASSUME Consistent, Consistent', ScratchOK', NEW w \in Window, NEW hasParent \in BOOLEAN,
         NEW full \in BOOLEAN, NEW ws \in Workspace, NEW sm, NEW place \in Placement(ws),
         Manage(w, hasParent, place, full, sm)
  PROVE  AtHome'
<1>1. place.ws \in Workspace /\ wsOf'[w] = place.ws
  BY DEF Placement, FindWorkspaceWithRoom, Manage, Consistent, ClientsOK
<1> DEFINE background == OpensInBackground(place.ws, hasParent)
           extra == IF background THEN {} ELSE {w}
<1>2. PICK a \in Arranged(mapped) : mapped' = a \cup extra
  BY DEF Manage
<1>3. ~background => ShownNext(place.ws)
  BY <1>1, ManageIsSeen
<1>4. \A v \in mapped' \ a : ShownNext(wsOf'[v])
  BY <1>1, <1>2, <1>3
<1>5. monOf' = Homed([monOf EXCEPT ![w] = sm])
  BY DEF Manage
<1> HIDE DEF extra
<1>6. QED BY <1>2, <1>4, <1>5, ArrangeBringsHome

\* Showing and hiding the scratchpad concerns its window alone.
LEMMA ToggleScratchHome ==
  ASSUME Consistent, ScratchOK, AtHome, ShowScratchpad \/ HideScratchpad
  PROVE  AtHome'
<1>1. PICK w \in managed :
        /\ scratch.win = w /\ UNCHANGED <<managed, state, wsOf, active, dragging>>
        /\ \/ scratch' = [scratch EXCEPT !.shown = TRUE]
           \/ scratch' = [scratch EXCEPT !.shown = FALSE]
        /\ monOf' \in {monOf, [monOf EXCEPT ![w] = focus.mon]}
        /\ mapped' \subseteq mapped \cup {w}
  BY DEF ShowScratchpad, HideScratchpad, clientVars
<1>2. scratch'.win = w
  BY <1>1 DEF Consistent, ScreenOK
<1>3. state[w] # "Floating"
  BY <1>1 DEF ScratchOK, InScratchpad
<1>4. \A v \in managed : v # w => monOf'[v] = monOf[v]
  BY <1>1 DEF Consistent, ClientsOK, ScreenOK
<1>5. QED BY <1>1, <1>2, <1>3, <1>4 DEF AtHome, IsShown

LEMMA NextKeepsHome ==
  ASSUME Consistent, ScratchOK, AtHome, [Next]_vars
  PROVE  AtHome'
<1>0. Consistent' /\ ScratchOK'
  BY NextKeepsConsistent, NextKeepsScratch
<1>1. CASE ClientNext
  <2>1. ASSUME ManageAny PROVE AtHome'
    BY <1>0, <2>1, ManageHome DEF ManageAny
  <2>2. ASSUME NEW w \in Window, Unmanage(w) PROVE AtHome'
    <3>1. /\ monOf' = Homed([monOf EXCEPT ![w] = CHOOSE m \in Monitor : TRUE])
          /\ mapped' \in Arranged(mapped \ {w})
      BY <2>2 DEF Unmanage
    <3>2. QED BY <1>0, <3>1, RearrangeBringsHome
  <2>3. ASSUME NEW w \in Window, HandleConfigureRequest(w) PROVE AtHome'
    <3>1. CASE strikes[w] + 1 >= Threshold
      BY <1>0, <2>3, <3>1, RearrangeBringsHome DEF HandleConfigureRequest, ApplyTilingMisbehaviorFallback
    <3>2. CASE ~(strikes[w] + 1 >= Threshold)
      BY <2>3, <3>2, StaysHome DEF HandleConfigureRequest
    <3>3. QED BY <3>1, <3>2
  <2>4. ASSUME NEW w \in Window, HandleClientMessage(w) PROVE AtHome'
    BY <1>0, <2>4, RearrangeBringsHome DEF HandleClientMessage, SetFullscreen
  <2>5. ASSUME NEW w \in Window, ClientTakesFocus(w) PROVE AtHome'
    BY <2>5, StaysHome DEF ClientTakesFocus, clientVars
  <2>6. QED BY <1>1, <2>1, <2>2, <2>3, <2>4, <2>5 DEF ClientNext
<1>2. ASSUME NEW home, monOf' = Homed(home), mapped' \in Arranged(mapped) PROVE AtHome'
  BY <1>0, <1>2, RearrangeBringsHome
<1>3. CASE CommandNext
  <2>1. ASSUME NEW ws, SwitchWorkspace(ws) PROVE AtHome'
    BY <1>2, <2>1 DEF SwitchWorkspace
  <2>2. ASSUME NEW m, FocusMonitorCommand(m) \/ FocusDirection(m) \/ FocusCycle(m) PROVE AtHome'
    BY <2>2, StaysHome DEF FocusMonitorCommand, FocusDirection, FocusCycle, clientVars
  <2>3. ASSUME NEW ws, NEW fits, MoveFocusedToWorkspace(ws, fits) PROVE AtHome'
    BY <1>2, <2>3 DEF MoveFocusedToWorkspace
  <2>4. ASSUME NEW m, NEW fits, MoveWindowToMonitor(m, fits) PROVE AtHome'
    BY <1>2, <2>4 DEF MoveWindowToMonitor
  <2>5. ASSUME NEW fits, ToggleFloating(fits) PROVE AtHome'
    <3>1. PICK w \in managed :
            /\ monOf' = Homed(IF state[w] = "Scratchpad" THEN [monOf EXCEPT ![w] = focus.mon] ELSE monOf)
            /\ mapped' \in Arranged(mapped)
      BY <2>5 DEF ToggleFloating
    <3>2. QED BY <1>2, <3>1
  <2>6. ASSUME ToggleFullscreen PROVE AtHome'
    BY <1>2, <2>6 DEF ToggleFullscreen, SetFullscreen
  <2>7. ASSUME AssignScratchpad PROVE AtHome'
    <3>1. PICK w \in managed : monOf' = Homed(monOf) /\ mapped' \in Arranged(mapped \ {w})
      BY <2>7 DEF AssignScratchpad
    <3>2. QED BY <1>0, <3>1, RearrangeBringsHome
  <2>8. ASSUME RotateOrFlipFocused \/ Rearrange PROVE AtHome'
    BY <1>2, <2>8 DEF RotateOrFlipFocused, Rearrange
  <2>9. QED BY <1>3, <2>1, <2>2, <2>3, <2>4, <2>5, <2>6, <2>7, <2>8, ToggleScratchHome DEF CommandNext
<1>4. CASE InputNext
  <2>1. UNCHANGED <<managed, state, wsOf, monOf, active, mapped, scratch, dragging>>
    BY <1>4 DEF InputNext, HandleEnterNotify, HandleButtonPressOnClient, OpenPopup,
                ClosePopup, HandleFocusIn, clientVars
  <2>2. QED BY <2>1, StaysHome
<1>5. CASE UNCHANGED vars
  BY <1>5, StaysHome DEF vars
<1>6. QED BY <1>1, <1>3, <1>4, <1>5 DEF Next

\* Arrange leaves everything it maps where it belongs, but what is dragged and
\* the scratchpad's window.
LEMMA ArrangeBelongs ==
  ASSUME Consistent', ScratchOK', NEW home, monOf' = Homed(home),
         NEW shown, NEW arranged \in Arranged(shown), arranged \subseteq mapped',
         \A w \in mapped' \ arranged : ShownNext(wsOf'[w])
  PROVE  EverythingBelongs'
<1>1. PICK top : arranged = ArrangedWith(shown, top)
  BY DEF Arranged
<1> SUFFICES ASSUME NEW w \in mapped', w # dragging', w # scratch'.win
             PROVE  active'[monOf'[w]] = wsOf'[w]
  BY DEF EverythingBelongs
<1>2. w \in managed' /\ w \in Window
  BY DEF Consistent, ScreenOK, ClientsOK
<1>3. state'[w] # "Scratchpad"
  BY <1>2 DEF ScratchOK, InScratchpad
<1>4. ShownNext(wsOf'[w])
  BY <1>1, <1>3 DEF ArrangedWith
<1>5. monOf'[w] = MonitorShowingNext(wsOf'[w])
  BY <1>2, <1>3, <1>4 DEF Homed
<1>6. QED BY <1>4, <1>5 DEF ShownNext, MonitorShowingNext

LEMMA RearrangeBelongs ==
  ASSUME Consistent', ScratchOK', NEW home, monOf' = Homed(home), NEW shown, mapped' \in Arranged(shown)
  PROVE  EverythingBelongs'
<1>1. \A S : S \subseteq S /\ S \ S = {}
  OBVIOUS
<1>2. QED BY <1>1, ArrangeBelongs

LEMMA StaysBelonging ==
  ASSUME EverythingBelongs, UNCHANGED <<wsOf, monOf, active, mapped>>,
         scratch'.win = scratch.win,
         dragging \in mapped => dragging' = dragging
  PROVE  EverythingBelongs'
  BY DEF EverythingBelongs

LEMMA ManageBelongs ==
  ASSUME Consistent, Consistent', ScratchOK', NEW w \in Window, NEW hasParent \in BOOLEAN,
         NEW full \in BOOLEAN, NEW ws \in Workspace, NEW sm, NEW place \in Placement(ws),
         Manage(w, hasParent, place, full, sm)
  PROVE  EverythingBelongs'
<1>1. place.ws \in Workspace /\ wsOf'[w] = place.ws
  BY DEF Placement, FindWorkspaceWithRoom, Manage, Consistent, ClientsOK
<1> DEFINE background == OpensInBackground(place.ws, hasParent)
           extra == IF background THEN {} ELSE {w}
<1>2. PICK a \in Arranged(mapped) : mapped' = a \cup extra
  BY DEF Manage
<1>3. ~background => ShownNext(place.ws)
  BY <1>1, ManageIsSeen
<1>4. \A v \in mapped' \ a : ShownNext(wsOf'[v])
  BY <1>1, <1>2, <1>3
<1>5. monOf' = Homed([monOf EXCEPT ![w] = sm])
  BY DEF Manage
<1> HIDE DEF extra
<1>6. QED BY <1>2, <1>4, <1>5, ArrangeBelongs

\* Showing and hiding the scratchpad concerns its window alone.
LEMMA ToggleScratchBelongs ==
  ASSUME Consistent, EverythingBelongs, ShowScratchpad \/ HideScratchpad
  PROVE  EverythingBelongs'
<1>1. PICK w \in managed :
        /\ scratch.win = w /\ UNCHANGED <<wsOf, active, dragging>>
        /\ \/ scratch' = [scratch EXCEPT !.shown = TRUE]
           \/ scratch' = [scratch EXCEPT !.shown = FALSE]
        /\ monOf' \in {monOf, [monOf EXCEPT ![w] = focus.mon]}
        /\ mapped' \subseteq mapped \cup {w}
  BY DEF ShowScratchpad, HideScratchpad, clientVars
<1>2. scratch'.win = w
  BY <1>1 DEF Consistent, ScreenOK
<1>3. \A v \in mapped : v # w => monOf'[v] = monOf[v]
  BY <1>1 DEF Consistent, ClientsOK, ScreenOK
<1>4. QED BY <1>1, <1>2, <1>3 DEF EverythingBelongs

LEMMA NextBelongs ==
  ASSUME Consistent, ScratchOK, EverythingBelongs, [Next]_vars
  PROVE  EverythingBelongs'
<1>0. Consistent' /\ ScratchOK'
  BY NextKeepsConsistent, NextKeepsScratch
<1>1. ASSUME NEW home, monOf' = Homed(home), NEW shown, mapped' \in Arranged(shown)
      PROVE  EverythingBelongs'
  BY <1>0, <1>1, RearrangeBelongs
<1>2. ASSUME UNCHANGED <<wsOf, monOf, active, mapped, scratch, dragging>> PROVE EverythingBelongs'
  BY <1>2, StaysBelonging
<1>3. CASE ClientNext
  <2>1. ASSUME ManageAny PROVE EverythingBelongs'
    BY <1>0, <2>1, ManageBelongs DEF ManageAny
  <2>2. ASSUME NEW w \in Window, Unmanage(w) PROVE EverythingBelongs'
    BY <1>1, <2>2 DEF Unmanage
  <2>3. ASSUME NEW w \in Window, HandleConfigureRequest(w) PROVE EverythingBelongs'
    <3>1. CASE strikes[w] + 1 >= Threshold
      BY <1>1, <2>3, <3>1 DEF HandleConfigureRequest, ApplyTilingMisbehaviorFallback
    <3>2. CASE ~(strikes[w] + 1 >= Threshold)
      BY <1>2, <2>3, <3>2 DEF HandleConfigureRequest
    <3>3. QED BY <3>1, <3>2
  <2>4. ASSUME NEW w \in Window, HandleClientMessage(w) PROVE EverythingBelongs'
    BY <1>1, <2>4 DEF HandleClientMessage, SetFullscreen
  <2>5. ASSUME NEW w \in Window, ClientTakesFocus(w) PROVE EverythingBelongs'
    BY <1>2, <2>5 DEF ClientTakesFocus, clientVars
  <2>6. QED BY <1>3, <2>1, <2>2, <2>3, <2>4, <2>5 DEF ClientNext
<1>4. CASE CommandNext
  <2>1. ASSUME NEW ws, SwitchWorkspace(ws) PROVE EverythingBelongs'
    BY <1>1, <2>1 DEF SwitchWorkspace
  <2>2. ASSUME NEW m, FocusMonitorCommand(m) \/ FocusDirection(m) \/ FocusCycle(m)
        PROVE  EverythingBelongs'
    BY <1>2, <2>2 DEF FocusMonitorCommand, FocusDirection, FocusCycle, clientVars
  <2>3. ASSUME NEW ws, NEW fits, MoveFocusedToWorkspace(ws, fits) PROVE EverythingBelongs'
    BY <1>1, <2>3 DEF MoveFocusedToWorkspace
  <2>4. ASSUME NEW m, NEW fits, MoveWindowToMonitor(m, fits) PROVE EverythingBelongs'
    BY <1>1, <2>4 DEF MoveWindowToMonitor
  <2>5. ASSUME NEW fits, ToggleFloating(fits) PROVE EverythingBelongs'
    <3>1. PICK w \in managed :
            /\ monOf' = Homed(IF state[w] = "Scratchpad" THEN [monOf EXCEPT ![w] = focus.mon] ELSE monOf)
            /\ mapped' \in Arranged(mapped)
      BY <2>5 DEF ToggleFloating
    <3>2. QED BY <1>1, <3>1
  <2>6. ASSUME ToggleFullscreen PROVE EverythingBelongs'
    BY <1>1, <2>6 DEF ToggleFullscreen, SetFullscreen
  <2>7. ASSUME AssignScratchpad PROVE EverythingBelongs'
    <3>1. PICK w \in managed : monOf' = Homed(monOf) /\ mapped' \in Arranged(mapped \ {w})
      BY <2>7 DEF AssignScratchpad
    <3>2. QED BY <1>1, <3>1
  <2>8. ASSUME RotateOrFlipFocused \/ Rearrange PROVE EverythingBelongs'
    BY <1>1, <2>8 DEF RotateOrFlipFocused, Rearrange
  <2>9. QED BY <1>4, <2>1, <2>2, <2>3, <2>4, <2>5, <2>6, <2>7, <2>8, ToggleScratchBelongs
            DEF CommandNext
<1>5. CASE InputNext
  <2>1. UNCHANGED <<wsOf, monOf, active, mapped, scratch, dragging>>
    BY <1>5 DEF InputNext, HandleEnterNotify, HandleButtonPressOnClient, OpenPopup,
                ClosePopup, HandleFocusIn, clientVars
  <2>2. QED BY <1>2, <2>1
<1>6. CASE UNCHANGED vars
  BY <1>2, <1>6 DEF vars
<1>7. QED BY <1>3, <1>4, <1>5, <1>6 DEF Next

\* A floating window is dragged from the press to the release.
Carries == mouse.mode = "Move" => mouse.win # None /\ dragging = mouse.win

\* The gesture, the scratchpad, and what is carried.
Carrying == Gesture /\ ScratchOK /\ Carries

LEMMA DragNextCarries ==
  ASSUME CalmGestures, Carrying, [DragNext]_dragVars
  PROVE  Carrying'
<1>1. Gesture'
  BY DragNextKeeps DEF Carrying
<1>2. ASSUME UNCHANGED <<managed, state, prev>>, scratch'.win = scratch.win,
             \/ mouse' = mouse /\ dragging' = dragging
             \/ mouse'.mode # "Move"
             \/ mouse'.win # None /\ dragging' = mouse'.win
      PROVE  Carrying'
  <2>1. ScratchOK'
    BY <1>2, ScratchKept DEF Carrying
  <2>2. QED BY <1>1, <1>2, <2>1 DEF Carrying, Carries
<1>3. ASSUME NEW m \in Monitor, HandlePress(m) PROVE Carrying'
  <2>1. UNCHANGED <<managed, state, prev, scratch>> /\ mouse.mode = "Idle"
    BY <1>3 DEF HandlePress, clientVars, CalmGestures
  <2>2. \A w \in FloatingOnScreen : w # None
    BY NoneIsNoWindow DEF FloatingOnScreen, Carrying, Gesture, Consistent, ClientsOK
  <2>3. mouse'.mode # "Move" \/ (mouse'.win # None /\ dragging' = mouse'.win)
    BY <1>3, <2>1, <2>2 DEF HandlePress, PressSwap, PressResize, PressNothing, Carrying,
                            Gesture, Remembered
  <2>4. QED BY <1>2, <2>1, <2>3
<1>4. ASSUME NEW m \in Monitor, CrossMonitor(m) PROVE Carrying'
  <2>1. UNCHANGED <<managed, state, prev, scratch, mouse, dragging>>
    BY <1>4 DEF CrossMonitor, gestureVars
  <2>2. QED BY <1>2, <2>1
<1>5. ASSUME DragSplit PROVE Carrying'
  <2>1. UNCHANGED <<managed, state, prev, scratch, mouse, dragging>>
    BY <1>5 DEF DragSplit, Rearrange, gestureVars, clientVars
  <2>2. QED BY <1>2, <2>1
<1>6. ASSUME (\E target : UpdateSwapDrag(target)) \/ AnimatorStep \/ UNCHANGED dragVars
      PROVE  Carrying'
  <2>1. UNCHANGED <<managed, state, prev, scratch, mouse, dragging>>
    BY <1>6 DEF UpdateSwapDrag, AnimatorStep, dragVars, vars, gestureVars
  <2>2. QED BY <1>2, <2>1
<1>7. ASSUME HandleRelease PROVE Carrying'
  <2>1. UNCHANGED <<managed, state, prev, scratch>>
    BY <1>7 DEF HandleRelease, EndSwapDrag, EndFloatingDrag, EndResize, clientVars
  <2>2. GestureOver
    BY <1>7 DEF HandleRelease, EndSwapDrag, EndFloatingDrag, EndResize
  <2>3. QED BY <1>2, <2>1, <2>2 DEF GestureOver
<1>8. ASSUME Meanwhile PROVE Carrying'
  <2>1. Next /\ mouse' = mouse
    BY <1>8 DEF Meanwhile, CalmGestures, Next, ClientNext, gestureVars
  <2>2. ScratchOK' /\ dragging' = dragging
    BY <2>1, NextKeepsScratch, NextKeepsDragging DEF Carrying, Gesture
  <2>3. QED BY <1>1, <2>1, <2>2 DEF Carrying, Carries
<1>9. QED BY <1>3, <1>4, <1>5, <1>6, <1>7, <1>8 DEF DragNext

LEMMA DragStartsCarrying == DragInit => Carrying
<1> SUFFICES ASSUME DragInit PROVE Carrying
  OBVIOUS
<1>1. Gesture
  BY DragStarts
<1>2. QED BY <1>1 DEF DragInit, Init, Carrying, Carries, ScratchOK

\* The end of a gesture.
LEMMA DropBelongs ==
  ASSUME Carrying, Carrying', HandleRelease, EverythingBelongs \/ mouse.mode = "Move"
  PROVE  EverythingBelongs' \/ SnapsBack
<1>1. Consistent' /\ ScratchOK'
  BY DEF Carrying, Gesture
<1>2. ASSUME NEW target, EndSwapDrag(target) PROVE EverythingBelongs' \/ SnapsBack
  <2>1. mouse.mode = "Swap" /\ EverythingBelongs /\ UNCHANGED <<wsOf, active, scratch>>
    BY <1>2 DEF EndSwapDrag, clientVars
  <2>2. CASE mouse.win = None \/ mouse.win # dragging
    <3>1. UNCHANGED <<monOf, mapped, dragging>>
      BY <1>2, <2>2 DEF EndSwapDrag
    <3>2. QED BY <2>1, <3>1, StaysBelonging
  <2>3. CASE ~(mouse.win = None \/ mouse.win # dragging) /\ target = None
    BY <1>2, <2>3 DEF EndSwapDrag, SnapsBack, Dropped
  <2>4. CASE ~(mouse.win = None \/ mouse.win # dragging) /\ target # None
    <3>1. monOf' = Homed(monOf) /\ mapped' \in Arranged(mapped)
      BY <1>2, <2>4 DEF EndSwapDrag
    <3>2. QED BY <1>1, <3>1, RearrangeBelongs
  <2>5. QED BY <2>2, <2>3, <2>4
<1>3. ASSUME NEW m \in Monitor, EndFloatingDrag(m) PROVE EverythingBelongs'
  <2>1. mouse.win # None /\ dragging = mouse.win
    BY <1>3 DEF EndFloatingDrag, Carrying, Carries
  <2>2. \E home : monOf' = Homed(home)
    BY <1>3, <2>1 DEF EndFloatingDrag
  <2>3. mapped' \in Arranged(mapped)
    BY <1>3, <2>1 DEF EndFloatingDrag
  <2>4. QED BY <1>1, <2>2, <2>3, RearrangeBelongs
<1>4. ASSUME EndResize PROVE EverythingBelongs'
  <2>1. UNCHANGED <<wsOf, active, scratch, dragging>> /\ EverythingBelongs
    BY <1>4 DEF EndResize, clientVars
  <2>2. CASE UNCHANGED <<monOf, mapped>>
    BY <2>1, <2>2, StaysBelonging
  <2>3. CASE monOf' = Homed(monOf) /\ mapped' \in Arranged(mapped)
    BY <1>1, <2>3, RearrangeBelongs
  <2>4. QED BY <1>4, <2>2, <2>3 DEF EndResize
<1>5. QED BY <1>2, <1>3, <1>4 DEF HandleRelease

\* Whatever is mapped stays where it belongs through every step of a gesture
\* and every event between two of them.  What the drop of a tile on nothing
\* leaves behind, the drop of a floating window puts right.
LEMMA DragNextBelongs ==
  ASSUME CalmGestures, Carrying, Carrying', [DragNext]_dragVars,
         EverythingBelongs \/ (mouse.mode = "Move" /\ mouse'.mode = "Idle")
  PROVE  EverythingBelongs' \/ SnapsBack
<1>1. Consistent' /\ ScratchOK'
  BY DEF Carrying, Gesture
<1>2. CASE HandleRelease
  BY <1>2, DropBelongs
<1>3. ASSUME NEW m \in Monitor, HandlePress(m) PROVE EverythingBelongs'
  <2>1. mouse.mode = "Idle" /\ dragging = None /\ UNCHANGED <<wsOf, monOf, active, mapped, scratch>>
    BY <1>3 DEF HandlePress, clientVars, CalmGestures, Carrying, Gesture, Remembered
  <2>2. dragging \notin mapped
    BY <2>1, NoneIsNoWindow DEF Carrying, Gesture, Consistent, ClientsOK, ScreenOK
  <2>3. QED BY <2>1, <2>2, StaysBelonging
<1>4. ASSUME NEW m \in Monitor, CrossMonitor(m) PROVE EverythingBelongs'
  <2>1. mapped' \in Arranged(mapped) /\ \E home : monOf' = Homed(home)
    BY <1>4 DEF CrossMonitor
  <2>2. QED BY <1>1, <2>1, RearrangeBelongs
<1>5. ASSUME DragSplit PROVE EverythingBelongs'
  BY <1>1, <1>5, RearrangeBelongs DEF DragSplit, Rearrange
<1>6. ASSUME (\E target : UpdateSwapDrag(target)) \/ AnimatorStep \/ UNCHANGED dragVars
      PROVE  EverythingBelongs'
  <2>1. UNCHANGED <<wsOf, monOf, active, mapped, scratch, mouse, dragging>>
    BY <1>6 DEF UpdateSwapDrag, AnimatorStep, dragVars, vars, gestureVars
  <2>2. EverythingBelongs
    BY <2>1
  <2>3. QED BY <2>1, <2>2, StaysBelonging
<1>7. ASSUME Meanwhile PROVE EverythingBelongs'
  <2>1. Next /\ mouse' = mouse
    BY <1>7 DEF Meanwhile, CalmGestures, Next, ClientNext, gestureVars
  <2>2. EverythingBelongs
    BY <2>1
  <2>3. QED BY <2>1, <2>2, NextBelongs DEF Carrying, Gesture
<1>8. QED BY <1>2, <1>3, <1>4, <1>5, <1>6, <1>7 DEF DragNext

\* However its workspace comes to leave the monitor while a window is dragged
\* (a dialog that raises its parent's, the misbehaviour fallback, a carry to
\* another monitor), every mapped window is where it belongs again when the
\* gesture is over, unless it was a tile that was dropped on nothing; for calm
\* gestures and every threshold and fallback.
THEOREM DroppedWhereTheyAre ==
  ASSUME CalmGestures
  PROVE  DragSpec => DroppedWhereItIs
<1>1. DragInit => EverythingBelongs
  BY DEF DragInit, Init, EverythingBelongs
<1>2. Carrying /\ Carrying' /\ [DragNext]_dragVars
        => [EverythingBelongs \/ (mouse.mode = "Move" /\ mouse'.mode = "Idle")
              => EverythingBelongs' \/ SnapsBack]_dragVars
  BY DragNextBelongs
<1>3. QED BY <1>1, <1>2, DragStartsCarrying, DragNextCarries, PTL
          DEF DragSpec, DroppedWhereItIs


----------------------------------------------------------------------------
(***************************************************************************)
(* The rest of the desktop: whose keys they are, and what a handler leaves *)
(* alone.                                                                  *)
(***************************************************************************)

\* The X server never leaves the keyboard with a window that is not mapped, and
\* no handler gives it to one.
KeysAreSeen == focus.input \in Window => focus.input \in mapped
KeysAreManaged == focus.input \in Window => focus.input \in managed

\* Focus values under which the keys go to a window of S, or to none.  Each of
\* the operators stays among them if it looks at a screen within S.
Keyed(S) == {f \in FocusRecord' : f.input \in Window => f.input \in S}

LEMMA FocusKeyed ==
  ASSUME Settled, NEW S, NEW f \in Keyed(S), NEW w \in managed', NEW screen, screen.mapped \subseteq S
  PROVE  Focus(f, w, screen) \in Keyed(S)
<1>1. f.mon \in Monitor /\ f.input \in Input
  BY DEF Keyed, FocusRecord
<1>2. Focus(f, w, screen) \in FocusRecord'
  BY <1>1, FocusType
<1>3. QED BY <1>2 DEF Focus, Keyed

LEMMA NextAvailableKeyed ==
  ASSUME Settled, NEW S, NEW f \in Keyed(S), NEW m, NEW screen, screen.mapped \subseteq S
  PROVE  FocusNextAvailableOn(f, m, screen) \subseteq Keyed(S)
<1>1. VisibleNext(active'[m]) \subseteq managed'
  BY DEF VisibleNext
<1>2. {Focus(f, w, screen) : w \in VisibleNext(active'[m])} \subseteq Keyed(S)
  BY <1>1, FocusKeyed
<1>3. scratch'.win # None => Focus(f, scratch'.win, screen) \in Keyed(S)
  <2>1. scratch'.win # None => scratch'.win \in managed'
    BY DEF Settled
  <2>2. QED BY <2>1, FocusKeyed
<1>4. [f EXCEPT !.win = None, !.input = "root"] \in Keyed(S)
  <2> DEFINE g == [f EXCEPT !.win = None, !.input = "root"]
  <2>1. g \in FocusRecord'
    BY DEF Keyed, FocusRecord, Input
  <2>2. g.input = "root"
    BY DEF Keyed, FocusRecord
  <2>3. QED BY <2>1, <2>2, WindowIsNoPopup DEF Keyed
<1>5. QED BY <1>2, <1>3, <1>4 DEF FocusNextAvailableOn

LEMMA FocusMonitorKeyed ==
  ASSUME Settled, NEW S, NEW f \in Keyed(S), NEW m \in Monitor, NEW screen, screen.mapped \subseteq S
  PROVE  FocusMonitor(f, m, screen) \subseteq Keyed(S)
<1>1. [f EXCEPT !.mon = m] \in Keyed(S)
  BY DEF Keyed, FocusRecord
<1>2. QED BY <1>1, NextAvailableKeyed DEF FocusMonitor

LEMMA FollowPointerKeyed ==
  ASSUME Settled, NEW S, mapped' \subseteq S, NEW f \in Keyed(S), NEW m \in Monitor
  PROVE  FollowPointer(f, m) \subseteq Keyed(S)
<1>1. After.mapped \subseteq S
  BY DEF After
<1>2. QED BY <1>1, FocusMonitorKeyed DEF FollowPointer

LEMMA SyncKeyed ==
  ASSUME Settled, NEW S, mapped' \subseteq S, NEW f \in Keyed(S)
  PROVE  SyncFocusToPointer(f) \subseteq Keyed(S)
<1> SUFFICES ASSUME NEW h \in SyncFocusToPointer(f) PROVE h \in Keyed(S)
  OBVIOUS
<1>1. PICK m \in Monitor :
        \/ h \in FollowPointer(f, m)
        \/ \E g \in FollowPointer(f, m) : \E w \in UnderPointer(m) \ {g.win} :
             h = Focus(g, w, After)
  BY DEF SyncFocusToPointer
<1>2. FollowPointer(f, m) \subseteq Keyed(S)
  BY FollowPointerKeyed
<1>3. UnderPointer(m) \subseteq managed'
  BY DEF UnderPointer, Settled
<1>4. After.mapped \subseteq S
  BY DEF After
<1>5. QED BY <1>1, <1>2, <1>3, <1>4, FocusKeyed

\* What the server does to a window that is unmapped.
LEMMA RevertedKeyed ==
  ASSUME NEW S, mapped' \subseteq S, NEW f \in FocusRecord'
  PROVE  Reverted(f) \in Keyed(S) /\ Reverted(f).mon = f.mon /\ Reverted(f).win = f.win
<1>1. Reverted(f) \in FocusRecord'
  BY RevertedType
<1>2. CASE f.input \in Window \ mapped'
  <2>1. Reverted(f) = [f EXCEPT !.input = "root"]
    BY <1>2 DEF Reverted
  <2>2. QED BY <1>1, <2>1, WindowIsNoPopup DEF Keyed, FocusRecord
<1>3. CASE f.input \notin Window \ mapped'
  BY <1>1, <1>3 DEF Reverted, Keyed
<1>4. QED BY <1>2, <1>3

LEMMA RestoreKeyed ==
  ASSUME Settled, NEW S, mapped' \subseteq S, NEW f \in Keyed(S), NEW p
  PROVE  RestoreFocusAfterModal(f, p) \subseteq Keyed(S)
<1> DEFINE g == IF f.input = p THEN [f EXCEPT !.input = "root"] ELSE f
<1>1. g \in Keyed(S)
  BY WindowIsNoPopup DEF Keyed, FocusRecord, Input
<1>2. After.mapped \subseteq S
  BY DEF After
<1>3. before \in managed' => Focus(g, before, After) \in Keyed(S)
  BY <1>1, <1>2, FocusKeyed
<1>4. FocusNextAvailable(g, After) \subseteq Keyed(S)
  BY <1>1, <1>2, NextAvailableKeyed DEF FocusNextAvailable
<1>5. QED BY <1>3, <1>4 DEF RestoreFocusAfterModal

(* ------------------------- where handlers leave them --------------------- *)

\* Arrange unmaps none of the windows that were rightly mapped before and are
\* neither moved nor changed.
LEMMA KeptMapped ==
  ASSUME Consistent, ScreenInv, UNCHANGED <<active, dragging>>,
         NEW shown, shown \subseteq mapped \cap managed',
         \A v \in shown : state'[v] = state[v] /\ wsOf'[v] = wsOf[v],
         NEW a \in Arranged(shown)
  PROVE  shown \subseteq a
<1>1. PICK top : a = ArrangedWith(shown, top)
  BY DEF Arranged
<1>2. ASSUME NEW v \in shown PROVE v \in a
  <2>1. v \in managed \ {dragging} /\ v # dragging' /\ v \in mapped
    BY NoneIsNoWindow DEF Consistent, ClientsOK, ScreenOK, ScreenInv, ScratchScreen
  <2>2. state[v] # "Scratchpad" => ShownNext(wsOf'[v])
    BY <2>1 DEF ScreenInv, MappedMatchesScreen, OnScreen, IsShown, ShownNext
  <2>3. QED BY <1>1, <2>1, <2>2 DEF ArrangedWith
<1>3. QED BY <1>2

\* What S has to hold, for a step: whatever will be mapped, the window that has
\* the keys now if nothing is unmapped, and what a close leaves mapped.
Holds(S) ==
  /\ mapped' \subseteq S
  /\ managed' = managed /\ mapped' = mapped /\ focus.input \in Window => focus.input \in S
  /\ \A w \in managed \ managed' : mapped \ {w} \subseteq S

\* A handler that only moves the focus starts from one that is in order.
LEMMA KeptKeyed ==
  ASSUME Consistent, NEW S, Holds(S), mapped' = mapped, managed' = managed
  PROVE  focus \in Keyed(S)
  BY FocusKept DEF Consistent, Holds, Keyed

\* A handler that arranges the screen reads the focus the server leaves.
LEMMA ArrangedKeyed ==
  ASSUME Consistent, NEW S, Holds(S), managed \subseteq managed'
  PROVE  Reverted(focus) \in Keyed(S) /\ Reverted(focus).mon \in Monitor
<1>1. focus \in FocusRecord'
  BY FocusKept DEF Consistent
<1>2. QED BY <1>1, RevertedKeyed DEF Holds, FocusRecord

LEMMA ManageKeyed ==
  ASSUME Consistent, Consistent', NEW S, Holds(S), NEW w \in Window, NEW hasParent \in BOOLEAN,
         NEW full \in BOOLEAN, NEW ws \in Workspace, NEW sm \in Monitor,
         NEW place \in Placement(ws), Manage(w, hasParent, place, full, sm)
  PROVE  focus' \in Keyed(S)
<1>1. managed \subseteq managed' /\ w \in managed'
  BY DEF Manage
<1>2. Settled
  BY ConsistentSettles DEF Consistent
<1>3. Reverted(focus) \in Keyed(S)
  BY <1>1, ArrangedKeyed
<1>4. After.mapped \subseteq S
  BY DEF After, Holds
<1>5. CASE OpensInBackground(place.ws, hasParent)
  BY <1>3, <1>5 DEF Manage
<1>6. CASE ~OpensInBackground(place.ws, hasParent) /\ ~TypingPopupOpen
  <2>1. focus' = Focus(Reverted(focus), w, After)
    BY <1>6 DEF Manage
  <2>2. QED BY <1>1, <1>2, <1>3, <1>4, <2>1, FocusKeyed
<1>7. CASE ~OpensInBackground(place.ws, hasParent) /\ TypingPopupOpen
  <2> DEFINE typing == IF "launcher" \in popups THEN "launcher" ELSE "notepad"
  <2>1. PICK f : focus' = [f EXCEPT !.input = typing]
    BY <1>7 DEF Manage
  <2>2. focus' \in FocusRecord'
    BY DEF Consistent
  <2>3. "input" \in DOMAIN f
    BY <2>1, <2>2 DEF FocusRecord
  <2>4. focus'.input = typing
    BY <2>1, <2>3
  <2>5. typing \notin Window
    BY WindowIsNoPopup DEF Popup, TypingPopup
  <2>6. QED BY <2>2, <2>4, <2>5 DEF Keyed
<1>8. QED BY <1>5, <1>6, <1>7

LEMMA UnmanageKeyed ==
  ASSUME Consistent, Consistent', NEW S, Holds(S), NEW w \in Window, Unmanage(w)
  PROVE  focus' \in Keyed(S)
<1> DEFINE gone == [mapped |-> mapped \ {w}, home |-> monOf]
           bare == [Reverted(focus) EXCEPT !.win = None]
<1>1. w \in managed \ managed' /\ managed' = managed \ {w}
  BY DEF Unmanage
<1>2. Settled
  BY ConsistentSettles DEF Consistent
<1>3. gone.mapped \subseteq S
  BY <1>1 DEF Holds
<1>4. CASE focus.win = w
  <2>1. focus' \in FocusNextAvailableOn(bare, bare.mon, gone)
    BY <1>4 DEF Unmanage, FocusNextAvailable
  <2>2. bare \in FocusRecord'
    BY DEF Consistent, FocusRecord, Reverted, Input
  <2>3. bare.input = Reverted(focus).input
    BY DEF Consistent, FocusRecord, Reverted
  <2>4. Reverted(focus).input \in Window => Reverted(focus).input \in mapped'
    BY WindowIsNoPopup DEF Consistent, FocusRecord, Reverted
  <2>5. bare \in Keyed(S)
    BY <2>2, <2>3, <2>4 DEF Keyed, Holds
  <2>6. QED BY <1>2, <1>3, <2>1, <2>5, NextAvailableKeyed
<1>5. CASE focus.win # w
  <2>1. focus \in FocusRecord' /\ focus' = Reverted(focus)
    BY <1>5 DEF Unmanage, Consistent, FocusRecord
  <2>2. QED BY <2>1, RevertedKeyed DEF Holds
<1>6. QED BY <1>4, <1>5

LEMMA CommandKeyed ==
  ASSUME Consistent, Consistent', NEW S, Holds(S), CommandNext
  PROVE  focus' \in Keyed(S)
<1>1. managed' = managed
  BY DEF CommandNext, SwitchWorkspace, FocusMonitorCommand, MoveFocusedToWorkspace,
         MoveWindowToMonitor, ToggleFloating, ToggleFullscreen, SetFullscreen, AssignScratchpad,
         ShowScratchpad, HideScratchpad, FocusDirection, FocusCycle, RotateOrFlipFocused, Rearrange,
         clientVars
<1>2. Settled /\ focus.mon \in Monitor
  BY ConsistentSettles DEF Consistent, FocusRecord
<1>3. Reverted(focus) \in Keyed(S) /\ Reverted(focus).mon \in Monitor
  BY <1>1, ArrangedKeyed
<1>4. mapped' \subseteq S /\ After.mapped \subseteq S
  BY DEF After, Holds
<1>5. mapped' = mapped => focus \in Keyed(S)
  BY <1>1, KeptKeyed
<1>6. FocusNextAvailable(Reverted(focus), After) \subseteq Keyed(S)
  BY <1>2, <1>3, <1>4, NextAvailableKeyed DEF FocusNextAvailable
<1>7. ASSUME NEW ws \in Workspace, SwitchWorkspace(ws) PROVE focus' \in Keyed(S)
  <2>1. PICK f \in FocusMonitor(Reverted(focus), focus.mon, After) : focus' \in SyncFocusToPointer(f)
    BY <1>7 DEF SwitchWorkspace
  <2>2. f \in Keyed(S)
    BY <1>2, <1>3, <1>4, FocusMonitorKeyed
  <2>3. QED BY <1>2, <1>4, <2>1, <2>2, SyncKeyed
<1>8. ASSUME NEW m \in Monitor, FocusMonitorCommand(m) PROVE focus' \in Keyed(S)
  BY <1>2, <1>4, <1>5, <1>8, FocusMonitorKeyed DEF FocusMonitorCommand
<1>9. ASSUME NEW ws, NEW fits, MoveFocusedToWorkspace(ws, fits) PROVE focus' \in Keyed(S)
  BY <1>6, <1>9 DEF MoveFocusedToWorkspace
<1>10. ASSUME NEW m, NEW fits, MoveWindowToMonitor(m, fits) PROVE focus' \in Keyed(S)
  <2>1. \/ \E n : focus' \in FocusNextAvailableOn(Reverted(focus), n, After)
        \/ focus' = Reverted(focus)
    BY <1>10 DEF MoveWindowToMonitor
  <2>2. QED BY <1>2, <1>3, <1>4, <2>1, NextAvailableKeyed
<1>11. ASSUME NEW fits, ToggleFloating(fits) \/ ToggleFullscreen \/ Rearrange
       PROVE  focus' \in Keyed(S)
  BY <1>3, <1>11 DEF ToggleFloating, ToggleFullscreen, SetFullscreen, Rearrange
<1>12. ASSUME AssignScratchpad \/ HideScratchpad PROVE focus' \in Keyed(S)
  BY <1>3, <1>6, <1>12 DEF AssignScratchpad, HideScratchpad
<1>13. ASSUME ShowScratchpad PROVE focus' \in Keyed(S)
  <2>1. PICK w \in managed : mapped' = mapped \cup {w} /\ focus' = Focus(focus, w, After)
    BY <1>13 DEF ShowScratchpad
  <2>2. focus' \in FocusRecord'
    BY DEF Consistent
  <2>3. focus'.input = w /\ w \in mapped'
    BY <2>1 DEF Focus, After
  <2>4. QED BY <1>4, <2>2, <2>3 DEF Keyed
<1>14. ASSUME NEW n, FocusDirection(n) \/ FocusCycle(n) PROVE focus' \in Keyed(S)
  <2>1. mapped' = mapped /\ focus' = Focus(focus, n, After)
    BY <1>14 DEF FocusDirection, FocusCycle
  <2>2. focus'.input = IF n \in mapped' THEN n ELSE focus.input
    BY <2>1 DEF Focus, After
  <2>3. QED BY <1>4, <1>5, <2>1, <2>2 DEF Keyed, Consistent
<1>15. ASSUME RotateOrFlipFocused PROVE focus' \in Keyed(S)
  BY <1>2, <1>3, <1>4, <1>15, SyncKeyed DEF RotateOrFlipFocused
<1>16. QED BY <1>7, <1>8, <1>9, <1>10, <1>11, <1>12, <1>13, <1>14, <1>15 DEF CommandNext

LEMMA InputKeyed ==
  ASSUME Consistent, Consistent', NEW S, Holds(S),
         InputNext \/ \E w \in Window : ClientTakesFocus(w)
  PROVE  focus' \in Keyed(S)
<1>1. managed' = managed /\ mapped' = mapped
  BY DEF InputNext, HandleEnterNotify, HandleButtonPressOnClient, OpenPopup, ClosePopup, HandleFocusIn,
         ClientTakesFocus, clientVars
<1>2. Settled
  BY ConsistentSettles DEF Consistent
<1>3. focus \in Keyed(S)
  BY <1>1, KeptKeyed
<1>4. mapped' \subseteq S /\ After.mapped \subseteq S
  BY DEF After, Holds
<1>5. \A w \in managed : w \in managed'
  BY <1>1
<1>6. ASSUME NEW m \in Monitor, NEW w, HandleEnterNotify(m, w) PROVE focus' \in Keyed(S)
  <2>1. PICK f \in FollowPointer(focus, m) : focus' = f \/ (w # None /\ focus' = Focus(f, w, After))
    BY <1>6 DEF HandleEnterNotify
  <2>2. f \in Keyed(S)
    BY <1>2, <1>3, <1>4, FollowPointerKeyed
  <2>3. w # None => w \in managed'
    BY <1>5, <1>6 DEF HandleEnterNotify
  <2>4. QED BY <1>2, <1>4, <2>1, <2>2, <2>3, FocusKeyed
<1>7. ASSUME NEW w \in Window, HandleButtonPressOnClient(w) PROVE focus' \in Keyed(S)
  <2>1. PICK f : /\ f = focus \/ \E p \in popups : f \in RestoreFocusAfterModal(focus, p)
                 /\ focus' = Focus(f, w, After)
    BY <1>7 DEF HandleButtonPressOnClient
  <2>2. f \in Keyed(S)
    BY <1>2, <1>3, <1>4, <2>1, RestoreKeyed
  <2>3. w \in managed'
    BY <1>5, <1>7 DEF HandleButtonPressOnClient
  <2>4. QED BY <1>2, <1>4, <2>1, <2>2, <2>3, FocusKeyed
<1>8. ASSUME NEW p \in Popup, OpenPopup(p) PROVE focus' \in Keyed(S)
  <2>1. PICK f \in IF Closing(p) = {} THEN {focus}
                   ELSE UNION {RestoreFocusAfterModal(focus, c) : c \in Closing(p)} :
          focus' = [f EXCEPT !.input = p]
    BY <1>8 DEF OpenPopup
  <2>2. f \in Keyed(S)
    BY <1>2, <1>3, <1>4, <2>1, RestoreKeyed
  <2>3. focus'.input = p
    BY <2>1, <2>2 DEF Keyed, FocusRecord
  <2>4. QED BY <2>3, WindowIsNoPopup DEF Keyed, Consistent
<1>9. ASSUME NEW p, ClosePopup(p) PROVE focus' \in Keyed(S)
  BY <1>2, <1>3, <1>4, <1>9, RestoreKeyed DEF ClosePopup
<1>10. ASSUME HandleFocusIn PROVE focus' \in Keyed(S)
  <2>1. focus'.input \in TypingPopup
    BY <1>10 DEF HandleFocusIn, Consistent, FocusRecord, TypingPopup
  <2>2. QED BY <2>1, WindowIsNoPopup DEF Keyed, Consistent, Popup
<1>11. ASSUME NEW w \in Window, ClientTakesFocus(w) PROVE focus' \in Keyed(S)
  <2>1. focus'.input = w /\ w \in mapped'
    BY <1>1, <1>11 DEF ClientTakesFocus, Consistent, FocusRecord
  <2>2. QED BY <1>4, <2>1 DEF Keyed, Consistent
<1>12. QED BY <1>6, <1>7, <1>8, <1>9, <1>10, <1>11 DEF InputNext

LEMMA NextKeyed ==
  ASSUME Consistent, [Next]_vars, NEW S, Holds(S)
  PROVE  focus' \in Keyed(S)
<1>0. Consistent'
  BY NextKeepsConsistent
<1>1. ASSUME ManageAny PROVE focus' \in Keyed(S)
  BY <1>0, <1>1, ManageKeyed DEF ManageAny
<1>2. ASSUME NEW w \in Window, HandleConfigureRequest(w) PROVE focus' \in Keyed(S)
  <2>1. managed' = managed /\ ((mapped' = mapped /\ focus' = focus)
                              \/ focus' = Reverted(focus))
    BY <1>2 DEF HandleConfigureRequest, ApplyTilingMisbehaviorFallback
  <2>2. QED BY <2>1, KeptKeyed, ArrangedKeyed
<1>3. ASSUME NEW w \in Window, HandleClientMessage(w) PROVE focus' \in Keyed(S)
  <2>1. managed' = managed /\ focus' = Reverted(focus)
    BY <1>3 DEF HandleClientMessage, SetFullscreen
  <2>2. QED BY <2>1, ArrangedKeyed
<1>4. CASE UNCHANGED vars
  BY <1>4, KeptKeyed DEF vars
<1>5. QED BY <1>0, <1>1, <1>2, <1>3, <1>4, UnmanageKeyed, CommandKeyed, InputKeyed DEF Next, ClientNext

\* Windows come by Manage and go by Unmanage only.
LEMMA ComeAndGo ==
  ASSUME [Next]_vars
  PROVE  /\ managed' \subseteq managed \/ ManageAny
         /\ \A w \in managed \ managed' : Unmanage(w) /\ managed' = managed \ {w}
<1>1. managed' = managed \/ ManageAny \/ \E w \in Window : Unmanage(w)
  BY DEF Next, ClientNext, CommandNext, InputNext, HandleConfigureRequest,
         ApplyTilingMisbehaviorFallback, HandleClientMessage, ClientTakesFocus,
         SwitchWorkspace, FocusMonitorCommand, MoveFocusedToWorkspace,
         MoveWindowToMonitor, ToggleFloating, ToggleFullscreen, SetFullscreen, AssignScratchpad,
         ShowScratchpad, HideScratchpad, FocusDirection, FocusCycle, RotateOrFlipFocused, Rearrange,
         HandleEnterNotify, HandleButtonPressOnClient, OpenPopup, ClosePopup, HandleFocusIn,
         clientVars, vars
<1>2. ManageAny => managed \subseteq managed'
  BY DEF ManageAny, Manage
<1>3. ASSUME NEW v \in Window, Unmanage(v) PROVE managed' = managed \ {v}
  BY <1>3 DEF Unmanage
<1>4. ASSUME NEW w \in managed \ managed' PROVE Unmanage(w) /\ managed' = managed \ {w}
  <2>1. PICK v \in Window : Unmanage(v)
    BY <1>1, <1>2, <1>4
  <2>2. managed' = managed \ {v}
    BY <1>3, <2>1
  <2>3. v = w
    BY <1>4, <2>2
  <2>4. QED BY <2>1, <2>2, <2>3
<1>5. managed' \subseteq managed \/ ManageAny
  <2>1. CASE \E v \in Window : Unmanage(v)
    BY <1>3, <2>1
  <2>2. QED BY <1>1, <2>1
<1>6. QED BY <1>4, <1>5

\* The keys are always those of a managed window, and of one that is mapped while
\* the screen is right.
LEMMA KeysStayManaged ==
  ASSUME Consistent, KeysAreManaged, [Next]_vars
  PROVE  KeysAreManaged'
<1>1. Consistent'
  BY NextKeepsConsistent
<1>2. mapped \subseteq managed /\ mapped' \subseteq managed'
  BY <1>1 DEF Consistent, ScreenOK
<1>3. Holds(managed')
  <2>1. ASSUME NEW w \in managed \ managed' PROVE managed' = managed \ {w}
    BY <2>1, ComeAndGo
  <2>2. QED BY <1>2, <2>1 DEF Holds, KeysAreManaged
<1>4. QED BY <1>3, NextKeyed DEF Keyed, KeysAreManaged

LEMMA KeysStaySeen ==
  ASSUME Screened, Screened', KeysAreSeen, [Next]_vars
  PROVE  KeysAreSeen'
<1>1. Consistent
  BY DEF Screened
<1>2. ASSUME NEW w \in managed \ managed' PROVE mapped \ {w} \subseteq mapped'
  <2>1. Unmanage(w) /\ managed' = managed \ {w}
    BY <1>2, ComeAndGo
  <2>2. UNCHANGED <<active, dragging>> /\ mapped' \in Arranged(mapped \ {w})
    BY <2>1 DEF Unmanage
  <2>3. mapped \ {w} \subseteq mapped \cap managed'
    BY <2>1 DEF Screened, Consistent, ScreenOK
  <2>4. \A u \in mapped \ {w} : state'[u] = state[u] /\ wsOf'[u] = wsOf[u]
    BY <2>1 DEF Unmanage, Screened, Consistent, ScreenOK, ClientsOK
  <2>5. QED BY <1>1, <2>2, <2>3, <2>4, KeptMapped DEF Screened
<1>3. Holds(mapped')
  BY <1>2 DEF Holds, KeysAreSeen
<1>4. QED BY <1>1, <1>3, NextKeyed DEF Keyed, KeysAreSeen

(* -------------------------- what is left alone --------------------------- *)

\* A tile of a workspace that stays where it is stays where it is.
LEMMA TileStays ==
  ASSUME Screened, Screened', AtHome, AtHome', MonitorsNeverShare, MonitorsNeverShare',
         NEW m \in Monitor, active'[m] = active[m],
         NEW w \in tree[active[m]] \cap tree'[active[m]], state[w] = "Tiled", state'[w] = "Tiled"
  PROVE  w \in mapped' /\ monOf'[w] = monOf[w]
<1>1. active[m] \in Workspace
  BY DEF Screened, Consistent, ScreenOK
<1>2. w \in managed /\ wsOf[w] = active[m] /\ w \in managed' /\ wsOf'[w] = active'[m]
  BY <1>1 DEF Screened, Consistent, ClientsOK, TreeMatchesClients
<1>3. w \in mapped'
  <2>1. w \in managed' \ {dragging'}
    BY <1>2, NoneIsNoWindow DEF Screened, Consistent, ClientsOK, ScreenInv, ScratchScreen
  <2>2. OnScreen(w)'
    BY <1>2 DEF OnScreen, IsShown
  <2>3. QED BY <2>1, <2>2 DEF Screened, ScreenInv, MappedMatchesScreen
<1>4. monOf[w] \in Monitor /\ active[monOf[w]] = active[m]
  <2>1. w # scratch.win /\ IsShown(wsOf[w]) /\ w \in Window
    BY <1>2 DEF Screened, ScratchOK, InScratchpad, IsShown, Consistent, ClientsOK
  <2>2. QED BY <1>2, <2>1 DEF AtHome, Screened, Consistent, ScreenOK
<1>5. monOf'[w] \in Monitor /\ active'[monOf'[w]] = active'[m]
  <2>1. w # scratch'.win /\ IsShown(wsOf[w])' /\ w \in Window
    BY <1>2 DEF Screened, ScratchOK, InScratchpad, IsShown, Consistent, ClientsOK
  <2>2. QED BY <1>2, <2>1 DEF AtHome, Screened, Consistent, ScreenOK
<1>6. monOf[w] = m /\ monOf'[w] = m
  BY <1>4, <1>5 DEF MonitorsNeverShare
<1>7. QED BY <1>3, <1>6

\* A window that opens where nobody looks.
LEMMA BackgroundIsQuiet ==
  ASSUME Screened, Screened', KeysAreSeen, [Next]_vars,
         NEW w \in managed' \ managed, ~ShownNext(wsOf'[w])
  PROVE  focus' = focus /\ active' = active
<1>1. PICK v \in Window, hasParent, full \in BOOLEAN, ws \in Workspace, sm \in Monitor :
        \E place \in Placement(ws) : Manage(v, hasParent, place, full, sm)
  BY ComeAndGo DEF ManageAny
<1>2. PICK place \in Placement(ws) : Manage(v, hasParent, place, full, sm)
  BY <1>1
<1>3. v = w /\ managed' = managed \cup {w} /\ w \in Window
  BY <1>2 DEF Manage
<1>4. place.ws \in Workspace /\ wsOf'[w] = place.ws
  BY <1>2, <1>3 DEF Placement, FindWorkspaceWithRoom, Manage, Screened, Consistent, ClientsOK
<1>5. ~IsShown(place.ws) /\ ~hasParent
  <2>1. focus.mon \in Monitor
    BY DEF Screened, Consistent, FocusRecord
  <2>2. CASE IsShown(place.ws)
    <3>1. active' = active
      BY <1>2, <2>2 DEF Manage
    <3>2. QED BY <1>4, <2>2, <3>1 DEF IsShown, ShownNext
  <2>3. CASE ~IsShown(place.ws) /\ hasParent
    <3>1. active' = [active EXCEPT ![focus.mon] = place.ws]
      BY <1>2, <2>3 DEF Manage
    <3>2. QED BY <1>4, <2>1, <3>1 DEF ShownNext, Screened, Consistent, ScreenOK
  <2>4. QED BY <2>2, <2>3
<1>6. /\ active' = active /\ dragging' = dragging /\ focus' = Reverted(focus)
      /\ \E a \in Arranged(mapped) : mapped' = a \cup {}
  BY <1>2, <1>5 DEF Manage, OpensInBackground
<1>7. PICK a \in Arranged(mapped) : mapped' = a
  BY <1>6
<1>8. mapped \subseteq mapped \cap managed'
  BY <1>3 DEF Screened, Consistent, ScreenOK
<1>9. \A u \in mapped : state'[u] = state[u] /\ wsOf'[u] = wsOf[u]
  BY <1>2, <1>3 DEF Manage, Screened, Consistent, ClientsOK, ScreenOK
<1>10. mapped \subseteq mapped'
  BY <1>6, <1>7, <1>8, <1>9, KeptMapped DEF Screened
<1>11. Reverted(focus) = focus
  BY <1>10 DEF Reverted, KeysAreSeen
<1>12. QED BY <1>6, <1>11

\* A window that closes.
LEMMA CloseIsLocal ==
  ASSUME Screened, Screened', MonitorsNeverShare', [Next]_vars, NEW w \in managed \ managed'
  PROVE  focus'.mon = focus.mon /\ (focus.win # w => focus'.win = focus.win)
<1> DEFINE gone == [mapped |-> mapped \ {w}, home |-> monOf]
           bare == [Reverted(focus) EXCEPT !.win = None]
<1>1. Unmanage(w)
  BY ComeAndGo
<1>2. /\ Reverted(focus).mon = focus.mon /\ Reverted(focus).win = focus.win
      /\ bare.mon = focus.mon /\ focus.mon \in Monitor /\ bare.mon \in Monitor
  BY DEF Reverted, Screened, Consistent, FocusRecord
<1>3. CASE focus.win # w
  BY <1>1, <1>2, <1>3 DEF Unmanage
<1>4. CASE focus.win = w
  <2>1. focus' \in FocusNextAvailableOn(bare, bare.mon, gone)
    BY <1>1, <1>4 DEF Unmanage, FocusNextAvailable
  <2> HIDE DEF bare, gone
  <2>2. ASSUME NEW v \in VisibleNext(active'[bare.mon]), focus' = Focus(bare, v, gone)
        PROVE  focus'.mon = bare.mon
    <3>1. state'[v] # "Scratchpad" /\ wsOf'[v] = active'[bare.mon] /\ ShownNext(wsOf'[v])
      BY <1>2, <2>2 DEF VisibleNext, ShownNext
    <3>2. focus'.mon = MonitorShowingNext(wsOf'[v])
      BY <2>2, <3>1 DEF Focus
    <3>3. QED BY <1>2, <3>1, <3>2, ShowingMonitorShows DEF MonitorsNeverShare
  <2>3. ASSUME scratch'.win # None, focus' = Focus(bare, scratch'.win, gone)
        PROVE  focus'.mon = bare.mon
    <3>1. scratch'.win \in managed'
      BY <2>3 DEF Screened, Consistent, ScreenOK
    <3>2. state'[scratch'.win] = "Scratchpad"
      BY <3>1 DEF Screened, ScratchOK, InScratchpad, ScreenInv, ScratchScreen
    <3>3. QED BY <2>3, <3>2 DEF Focus
  <2>4. [bare EXCEPT !.win = None, !.input = "root"].mon = bare.mon
    BY DEF bare, Reverted, Screened, Consistent, FocusRecord
  <2>5. focus'.mon = bare.mon
    BY <2>1, <2>2, <2>3, <2>4 DEF FocusNextAvailableOn
  <2>6. QED BY <1>2, <1>4, <2>5
<1>5. QED BY <1>3, <1>4

\* What opens, closes, moves or switches leaves the rest of the desktop alone:
\* the tiles of monitors that keep their workspace, the keyboard when a window
\* opens out of sight, the monitor and the focus when another one closes
\* (ArrangeMonitor, Manage, Unmanage with FocusNextAvailable), as long as no
\* fullscreen is asked of the scratchpad's window.
THEOREM RestIsUndisturbed == ASSUME ~ScratchFullscreen PROVE Spec => NobodyIsDisturbed
<1>1. Init => AtHome /\ KeysAreSeen
  BY WindowIsNoPopup DEF Init, AtHome, KeysAreSeen
<1>2. Screened /\ AtHome /\ [Next]_vars => AtHome'
  BY NextKeepsHome DEF Screened
<1>3. Screened /\ Screened' /\ KeysAreSeen /\ [Next]_vars => KeysAreSeen'
  BY KeysStaySeen
<1>4. Spec => [](Screened /\ MonitorsNeverShare /\ AtHome /\ KeysAreSeen)
  BY <1>1, <1>2, <1>3, StaysScreened, NoSharedWorkspace, PTL DEF Spec
<1> DEFINE Quiet == Screened /\ MonitorsNeverShare /\ AtHome /\ KeysAreSeen
<1>5. Quiet /\ Quiet' /\ [Next]_vars =>
        [\A m \in Monitor : active'[m] = active[m] =>
           \A w \in tree[active[m]] \cap tree'[active[m]] :
             state[w] = "Tiled" /\ state'[w] = "Tiled" /\ w \in mapped
               => w \in mapped' /\ monOf'[w] = monOf[w]]_vars
  BY TileStays
<1>6. Quiet /\ Quiet' /\ [Next]_vars =>
        [(\E w \in managed' \ managed : ~ShownNext(wsOf'[w])) => focus' = focus /\ active' = active]_vars
  BY BackgroundIsQuiet
<1>7. Quiet /\ Quiet' /\ [Next]_vars =>
        [\A w \in managed \ managed' :
           /\ focus'.mon = focus.mon
           /\ focus.win # w => focus'.win = focus.win]_vars
  BY CloseIsLocal
<1>8. QED
  BY <1>4, <1>5, <1>6, <1>7, PTL DEF Spec, NobodyIsDisturbed, OtherMonitorsUndisturbed,
     QuietInBackground, CloseMovesNoFocus

(* -------------------------------- popups --------------------------------- *)

\* The launcher and the notepad close each other.
Apart == \A p, q \in popups \cap TypingPopup : p = q

LEMMA NextKeepsApart ==
  ASSUME Apart, [Next]_vars
  PROVE  Apart'
<1>1. popups' \subseteq popups \/ \E p \in Popup : OpenPopup(p)
  <2>1. CASE ClientNext
    <3>1. ASSUME ManageAny PROVE popups' = popups
      BY <3>1 DEF ManageAny, Manage
    <3>2. ASSUME NEW w \in Window, Unmanage(w) PROVE popups' = popups
      BY <3>2 DEF Unmanage
    <3>3. ASSUME NEW w \in Window, HandleConfigureRequest(w) PROVE popups' = popups
      BY <3>3 DEF HandleConfigureRequest, ApplyTilingMisbehaviorFallback, popupVars
    <3>4. ASSUME NEW w \in Window, HandleClientMessage(w) PROVE popups' = popups
      BY <3>4 DEF HandleClientMessage, SetFullscreen, popupVars
    <3>5. ASSUME NEW w \in Window, ClientTakesFocus(w) PROVE popups' = popups
      BY <3>5 DEF ClientTakesFocus, popupVars
    <3>6. QED BY <2>1, <3>1, <3>2, <3>3, <3>4, <3>5 DEF ClientNext
  <2>2. CASE CommandNext
    BY <2>2 DEF CommandNext, SwitchWorkspace, FocusMonitorCommand, MoveFocusedToWorkspace,
       MoveWindowToMonitor, ToggleFloating, ToggleFullscreen, SetFullscreen, AssignScratchpad,
       ShowScratchpad, HideScratchpad, FocusDirection, FocusCycle, RotateOrFlipFocused, Rearrange,
       popupVars
  <2>3. CASE InputNext
    BY <2>3 DEF InputNext, HandleEnterNotify, HandleButtonPressOnClient, ClosePopup, HandleFocusIn,
       popupVars
  <2>4. CASE UNCHANGED vars
    BY <2>4 DEF vars
  <2>5. QED BY <2>1, <2>2, <2>3, <2>4 DEF Next
<1>2. CASE popups' \subseteq popups
  BY <1>2 DEF Apart
<1>3. ASSUME NEW p \in Popup, OpenPopup(p) PROVE Apart'
  <2>1. popups' = (popups \ Closing(p)) \cup {p}
    BY <1>3 DEF OpenPopup
  <2>2. CASE p \in TypingPopup
    BY <2>1, <2>2 DEF Closing, Apart
  <2>3. CASE p \notin TypingPopup
    BY <2>1, <2>3 DEF Apart
  <2>4. QED BY <2>2, <2>3
<1>4. QED BY <1>1, <1>2, <1>3

LEMMA ApartIsOne == Apart => OneTypingPopup
<1> SUFFICES ASSUME Apart PROVE OneTypingPopup
  OBVIOUS
<1>1. CASE popups \cap TypingPopup = {}
  BY <1>1, FS_EmptySet DEF OneTypingPopup
<1>2. ASSUME NEW p \in popups \cap TypingPopup PROVE OneTypingPopup
  <2>1. popups \cap TypingPopup = {p}
    BY <1>2 DEF Apart
  <2>2. QED BY <2>1, FS_Singleton DEF OneTypingPopup
<1>3. QED BY <1>1, <1>2

LEMMA OpeningIsPolite ==
  ASSUME Consistent, KeysAreManaged, [Next]_vars, NEW w \in managed' \ managed, TypingPopupOpen
  PROVE  focus'.input # w /\ (focus.input \in popups => focus'.input \in popups)
<1>1. PICK v \in Window, hasParent, full \in BOOLEAN, ws \in Workspace, sm \in Monitor :
        \E place \in Placement(ws) : Manage(v, hasParent, place, full, sm)
  BY ComeAndGo DEF ManageAny
<1>2. PICK place \in Placement(ws) : Manage(v, hasParent, place, full, sm)
  BY <1>1
<1>3. v = w /\ w \in Window /\ w # "root"
  BY <1>2, WindowIsNoPopup DEF Manage
<1> DEFINE typing == IF "launcher" \in popups THEN "launcher" ELSE "notepad"
<1>4. typing \in popups /\ typing # w
  BY <1>3, WindowIsNoPopup DEF TypingPopupOpen, TypingPopup, Popup
<1>5. CASE OpensInBackground(place.ws, hasParent)
  <2>1. focus' = Reverted(focus)
    BY <1>2, <1>5 DEF Manage
  <2>2. focus'.input = focus.input \/ (focus'.input = "root" /\ focus.input \in Window)
    BY <2>1 DEF Reverted, Consistent, FocusRecord
  <2>3. focus.input # w
    BY <1>3 DEF KeysAreManaged
  <2>4. focus.input \in popups => focus.input \notin Window
    BY WindowIsNoPopup DEF Consistent, ScreenOK
  <2>5. QED BY <1>3, <2>2, <2>3, <2>4
<1>6. CASE ~OpensInBackground(place.ws, hasParent)
  <2>1. PICK f : focus' = [f EXCEPT !.input = typing]
    BY <1>2, <1>6 DEF Manage
  <2>2. focus' \in FocusRecord'
    BY NextKeepsConsistent DEF Consistent
  <2>3. "input" \in DOMAIN f
    BY <2>1, <2>2 DEF FocusRecord
  <2>4. focus'.input = typing
    BY <2>1, <2>3
  <2>5. QED BY <1>4, <2>4
<1>7. QED BY <1>5, <1>6

\* The keyboard is one popup's at a time, and a window that opens takes no key
\* from it, a dialog that pulls its workspace into view included, whatever
\* clients and commands do meanwhile (ToggleLauncher, ToggleNotepad, Manage).
THEOREM PopupsDoNotClash == Spec => PopupsTakeTurns
<1>1. Init => KeysAreManaged /\ Apart
  BY WindowIsNoPopup DEF Init, KeysAreManaged, Apart
<1>2. Consistent /\ KeysAreManaged /\ [Next]_vars => KeysAreManaged'
  BY KeysStayManaged
<1>3. Apart /\ [Next]_vars => Apart'
  BY NextKeepsApart
<1>4. Spec => [](Consistent /\ KeysAreManaged /\ Apart)
  BY <1>1, <1>2, <1>3, Consistency, PTL DEF Spec
<1>5. Consistent /\ KeysAreManaged /\ [Next]_vars =>
        [\A w \in managed' \ managed : popups \cap TypingPopup # {} =>
           /\ focus'.input # w
           /\ focus.input \in popups => focus'.input \in popups]_vars
  BY OpeningIsPolite DEF TypingPopupOpen
<1>6. QED
  BY <1>4, <1>5, ApartIsOne, PTL DEF Spec, PopupsTakeTurns, OpeningStealsNoKeys
============================================================================
