--------------------------- MODULE WindowManager ---------------------------
(***************************************************************************)
(* The state WindowManager keeps about its clients, and every handler and  *)
(* command that changes it: which workspace a client belongs to, whether   *)
(* it holds a leaf of that workspace's BSP tree, what each monitor shows,  *)
(* which window is focused, which are mapped, the scratchpad, and the      *)
(* popups (launcher, notepad, power menu) that borrow the keyboard.        *)
(*                                                                         *)
(* One action is one event or command handler, run to completion: the      *)
(* event loop is single-threaded.  Commands stay possible while a popup is *)
(* open because they also arrive over IPC.  Geometry is left out: whether  *)
(* a workspace has room for one more tile is nondeterministic (an empty    *)
(* tree always has), and so is where the pointer is and which window       *)
(* m_repository (an unordered_map) lists first or last.                    *)
(*                                                                         *)
(* Handlers settle the screen first and the focus last, so the operators   *)
(* below read the handler's result, i.e. primed variables.                 *)
(***************************************************************************)
EXTENDS Integers, FiniteSets

CONSTANTS
  Window,             \* X client windows
  None,               \* "no window": a null pointer, or window id 0
  Monitor,            \* connected monitors
  NumWorkspaces,      \* general.workspaces
  Threshold,          \* general.tiling_misbehavior_threshold (0 = never)
  Fallback,           \* general.tiling_misbehavior_fallback
  Popups,             \* the popups the user opens
  Thieves,            \* clients that call XSetInputFocus on themselves
  FullscreenClients,  \* windows that go fullscreen
  ScratchFullscreen   \* may the scratchpad's window go fullscreen?

Workspace == 1..NumWorkspaces
WindowState == {"Tiled", "Floating", "Fullscreen", "Scratchpad"}
TypingPopup == {"launcher", "notepad"}
Popup == TypingPopup \cup {"powermenu"}

ASSUME NoneIsNoWindow == None \notin Window /\ None \notin Popup \cup {"root"}
ASSUME WindowIsNoPopup == Window \cap (Popup \cup {"root"}) = {}
ASSUME WorkspacesExist == NumWorkspaces \in Nat \ {0}
ASSUME MonitorsExist == IsFiniteSet(Monitor) /\ Monitor # {}
ASSUME ConfigIsLegal ==
  /\ Threshold \in Nat
  /\ Fallback \in {"floating", "new_workspace"}
  /\ Popups \subseteq Popup
  /\ Thieves \subseteq Window
  /\ FullscreenClients \subseteq Window
  /\ ScratchFullscreen \in BOOLEAN

VARIABLES
  managed,   \* m_repository: the managed windows
  state,     \* ManagedWindow::State
  prev,      \* ManagedWindow::PreviousState
  wsOf,      \* ManagedWindow::Workspace
  monOf,     \* ManagedWindow::Monitor
  strikes,   \* ManagedWindow::TilingMisbehaviorCount
  tree,      \* the windows with a leaf in each workspace's BSP tree
  active,    \* Monitor::ActiveWorkspace
  focus,     \* focused window and monitor, and where X input focus is
  mapped,    \* the managed windows X reports as mapped
  scratch,   \* Scratchpad: its window, and whether it is shown
  popups,    \* the open popups
  before,    \* m_focusBeforeModal
  dragging   \* m_activeDragWindow (set by module MouseDrag)

clientVars == <<managed, state, prev, wsOf, strikes, tree>>
popupVars == <<popups, before>>
vars == <<managed, state, prev, wsOf, monOf, strikes, tree, active, focus,
          mapped, scratch, popups, before, dragging>>

NoScratch == [win |-> None, shown |-> FALSE]

\* An operator named X_Y is X with the mistake Y: no action uses it, and the
\* properties are checked to tell it from X.

TypeOK ==
  /\ managed \subseteq Window
  /\ state \in [Window -> WindowState]
  /\ prev \in [Window -> WindowState]
  /\ wsOf \in [Window -> Workspace]
  /\ monOf \in [Window -> Monitor]
  /\ strikes \in [Window -> Nat]
  /\ tree \in [Workspace -> SUBSET Window]
  /\ active \in [Monitor -> Workspace]
  /\ focus \in [win : managed \cup {None}, mon : Monitor,
                input : Window \cup Popup \cup {"root"}]
  /\ mapped \subseteq managed
  /\ scratch \in [win : managed \cup {None}, shown : BOOLEAN]
  /\ popups \subseteq Popup
  /\ before \in Window \cup {None}
  /\ dragging \in Window \cup {None}

(***************************************************************************)
(* Queries on the current state.                                           *)
(***************************************************************************)

\* ManagedWindow::OccupiesTreeSlot
OccupiesTreeSlot(w) ==
  \/ state[w] = "Tiled"
  \/ state[w] = "Fullscreen" /\ prev[w] = "Tiled"

\* WindowManager::IsWorkspaceVisible
IsShown_FocusedOnly(ws) == active[focus.mon] = ws
IsShown(ws) == \E m \in Monitor : active[m] = ws

\* WindowRepository::Visible
Visible(ws) == {w \in managed : wsOf[w] = ws /\ state[w] # "Scratchpad"}

\* The trees once w has given up its leaf, if it has one
WithoutLeaf_TiledOnly(w) ==
  IF state[w] = "Tiled" THEN [tree EXCEPT ![wsOf[w]] = @ \ {w}] ELSE tree
WithoutLeaf(w) ==
  IF OccupiesTreeSlot(w) THEN [tree EXCEPT ![wsOf[w]] = @ \ {w}] ELSE tree

\* ManagedWindow::ResetTilingMisbehavior
Forgiven_Never(w) == strikes
Forgiven(w) == [strikes EXCEPT ![w] = 0]

\* Scratchpad::Clear, when it is w's turn to leave it
Released_Never(w) == scratch
Released(w) == IF scratch.win = w THEN NoScratch ELSE scratch

TypingPopupOpen_LauncherOnly == "launcher" \in popups
TypingPopupOpen == popups \cap TypingPopup # {}

\* WindowManager::FindWorkspaceWithFewestWindows, for at least two workspaces:
\* the lowest-numbered one of those with the fewest windows, as a singleton.
FewestWindows(exclude) ==
  LET count(ws) == Cardinality({w \in managed : wsOf[w] = ws})
      others == Workspace \ {exclude}
  IN  {ws \in others : \A v \in others :
         count(ws) < count(v) \/ (count(ws) = count(v) /\ ws <= v)}

(***************************************************************************)
(* Arrange: what is mapped, and on which monitor a window is recorded,     *)
(* once the handler has decided everything else.  "shown" is the set of    *)
(* windows mapped before the pass.                                         *)
(***************************************************************************)

ShownNext(ws) == \E m \in Monitor : active'[m] = ws
MonitorShowingNext(ws) == CHOOSE m \in Monitor : active'[m] = ws
VisibleNext(ws) ==
  {w \in managed' : wsOf'[w] = ws /\ state'[w] # "Scratchpad"}

\* The last fullscreen window each monitor's pass comes across: the only one
\* that ArrangeMonitor maps.
TopFullscreen(top) ==
  \A m \in Monitor :
    LET full == {w \in VisibleNext(active'[m]) :
                   state'[w] = "Fullscreen" /\ w # dragging'}
    IN  full # {} => \E w \in full : full \cap top = {w}

ArrangedWith_KeepsFloating(shown, top) ==
  {w \in managed' :
     IF state'[w] \in {"Scratchpad", "Floating"} \/ w = dragging'
       THEN w \in shown
       ELSE /\ ShownNext(wsOf'[w])
            /\ state'[w] = "Fullscreen" => w \in shown \cup top}
ArrangedWith(shown, top) ==
  {w \in managed' :
     IF state'[w] = "Scratchpad" \/ w = dragging'
       THEN w \in shown
       ELSE /\ ShownNext(wsOf'[w])
            /\ state'[w] = "Fullscreen" => w \in shown \cup top}

Arranged(shown) ==
  {ArrangedWith(shown, top) : top \in {t \in SUBSET managed' : TopFullscreen(t)}}

\* ArrangeMonitor's SetMonitor for everything it finds on screen
Homed_OnFocused(home) ==
  [w \in Window |->
     IF w \in managed' /\ state'[w] # "Scratchpad" /\ ShownNext(wsOf'[w])
       THEN focus.mon ELSE home[w]]
Homed(home) ==
  [w \in Window |->
     IF w \in managed' /\ state'[w] # "Scratchpad" /\ ShownNext(wsOf'[w])
       THEN MonitorShowingNext(wsOf'[w])
       ELSE home[w]]

(***************************************************************************)
(* Focus.  Each operator takes the focus so far and the screen it looks    *)
(* at, and gives the set of focus values that can result.                  *)
(***************************************************************************)

After == [mapped |-> mapped', home |-> monOf']

\* The X server: a window that is unmapped or destroyed loses the input
\* focus, which reverts to the pointer root.
Reverted(f) ==
  IF f.input \in Window \ mapped' THEN [f EXCEPT !.input = "root"] ELSE f

\* WindowManager::Focus.  XSetInputFocus on an unmapped window is an error
\* and moves nothing.
Focus_KeepsMonitor(f, w, screen) ==
  [win |-> w, mon |-> f.mon, input |-> IF w \in screen.mapped THEN w ELSE f.input]
Focus(f, w, screen) ==
  [win   |-> w,
   mon   |-> IF state'[w] # "Scratchpad" /\ ShownNext(wsOf'[w])
               THEN MonitorShowingNext(wsOf'[w]) ELSE f.mon,
   input |-> IF w \in screen.mapped THEN w ELSE f.input]

\* Variants that forget, in turn, to clear the focus, to clear X's, the
\* scratchpad, and floating windows
Next_NeverClears(f, m, screen) ==
  LET visible == VisibleNext(active'[m])
  IN  IF visible # {} THEN {Focus(f, w, screen) : w \in visible} ELSE {f}
Next_KeepsInput(f, m, screen) ==
  LET visible == VisibleNext(active'[m])
  IN  IF visible # {} THEN {Focus(f, w, screen) : w \in visible}
      ELSE IF m # f.mon THEN {f} ELSE {[f EXCEPT !.win = None]}
Next_ForgetsScratchpad(f, m, screen) ==
  LET visible == VisibleNext(active'[m])
  IN  IF visible # {} THEN {Focus(f, w, screen) : w \in visible}
      ELSE IF m # f.mon THEN {f} ELSE {[f EXCEPT !.win = None, !.input = "root"]}
Next_TilesOnly(f, m, screen) ==
  LET tiles == tree'[active'[m]]
  IN  IF tiles # {} THEN {Focus(f, w, screen) : w \in tiles}
      ELSE IF m # f.mon THEN {f} ELSE {[f EXCEPT !.win = None, !.input = "root"]}
FocusNextAvailableOn(f, m, screen) ==
  LET visible == VisibleNext(active'[m])
  IN  IF visible # {} THEN {Focus(f, w, screen) : w \in visible}
      ELSE IF m # f.mon THEN {f}
      ELSE IF /\ scratch'.win # None
              /\ scratch'.shown
              /\ screen.home[scratch'.win] = m
             THEN {Focus(f, scratch'.win, screen)}
             ELSE {[f EXCEPT !.win = None, !.input = "root"]}

NextAvailable_Anywhere(f, screen) ==
  UNION {FocusNextAvailableOn(f, m, screen) : m \in Monitor}
FocusNextAvailable(f, screen) == FocusNextAvailableOn(f, f.mon, screen)

FocusMonitor(f, m, screen) ==
  FocusNextAvailableOn([f EXCEPT !.mon = m], m, screen)

\* UpdateFocusedMonitorFromPointer, the pointer being over monitor m
FollowPointer(f, m) ==
  IF popups' \cap TypingPopup # {} \/ m = f.mon
    THEN {f} ELSE FocusMonitor(f, m, After)

\* The windows FloatingWindowAt or WindowAt can find with the pointer over m
UnderPointer(m) ==
  tree'[active'[m]] \cup
  {w \in managed' : state'[w] = "Floating" /\ ShownNext(wsOf'[w])}

\* Nothing under the pointer, or focus_follows_mouse off: the first set only.
SyncFocusToPointer(f) ==
  UNION {LET followed == FollowPointer(f, m) IN
           IF popups' \cap TypingPopup # {} THEN followed
           ELSE followed \cup
             UNION {{Focus(g, w, After) : w \in UnderPointer(m) \ {g.win}} :
                      g \in followed}
         : m \in Monitor}

\* RestoreFocusAfterModal; the popup's own window is already unmapped
RestoreFocusAfterModal(f, popup) ==
  LET g == IF f.input = popup THEN [f EXCEPT !.input = "root"] ELSE f
  IN  IF before \in managed' THEN {Focus(g, before, After)}
                             ELSE FocusNextAvailable(g, After)

----------------------------------------------------------------------------
(***************************************************************************)
(* Windows come and go.                                                    *)
(***************************************************************************)

\* The lowest-numbered other workspace with room (an empty tree always has),
\* for a window without room on ws: any of those up to the first empty one.
FindWorkspaceWithRoom(ws) ==
  {a \in Workspace \ {ws} : \A v \in (1..(a - 1)) \cup {ws} : tree[v] # {}}

\* Where Manage puts a window meant for workspace ws: a tile there if there
\* is room, else a tile on another workspace with room, else floating.
Placement(ws) ==
  {[ws |-> ws, st |-> st] : st \in {"Floating", "Tiled"}} \cup
  {[ws |-> alt, st |-> "Tiled"] : alt \in FindWorkspaceWithRoom(ws)}

\* A window on a workspace nobody looks at opens there unseen, unless it is a
\* dialog, which raises its parent's workspace.
Background_Never(ws, hasParent) == FALSE
OpensInBackground(ws, hasParent) == ~IsShown(ws) /\ ~hasParent

\* A client asks to be mapped (or is adopted at startup).  The workspace it
\* is meant for comes from the session, a window rule, autostart, its
\* transient parent, a placement habit or the focused monitor; place.ws is
\* where it ends up.  "sm" is the monitor of its session record, if any.
Manage(w, hasParent, place, full, sm) ==
  LET background == OpensInBackground(place.ws, hasParent)
      switch == hasParent /\ ~IsShown(place.ws)
      typing == IF "launcher" \in popups THEN "launcher" ELSE "notepad"
  IN
  /\ w \notin managed
  /\ full => w \in FullscreenClients
  /\ hasParent => managed # {}
  /\ managed' = managed \cup {w}
  /\ state' = [state EXCEPT ![w] = IF full THEN "Fullscreen" ELSE place.st]
  /\ prev' = [prev EXCEPT ![w] = IF full THEN place.st ELSE "Tiled"]
  /\ wsOf' = [wsOf EXCEPT ![w] = place.ws]
  /\ strikes' = Forgiven(w)
  /\ tree' = IF place.st = "Tiled"
               THEN [tree EXCEPT ![place.ws] = @ \cup {w}] ELSE tree
  /\ active' = IF switch THEN [active EXCEPT ![focus.mon] = place.ws] ELSE active
  /\ UNCHANGED <<scratch, popups, before, dragging>>
  /\ monOf' = Homed([monOf EXCEPT ![w] = sm])
  /\ mapped' \in {a \cup (IF background THEN {} ELSE {w}) :
                    a \in Arranged(mapped)}
  /\ IF background THEN focus' = Reverted(focus)
     ELSE IF ~TypingPopupOpen THEN focus' = Focus(Reverted(focus), w, After)
     ELSE \E f \in IF hasParent
                     THEN FocusMonitor(focus, MonitorShowingNext(place.ws), After)
                     ELSE {focus} :
            focus' = [f EXCEPT !.input = typing]

\* The window is destroyed, withdraws itself, or is docked in the tray.
Unmanage(w) ==
  /\ w \in managed
  /\ managed' = managed \ {w}
  /\ tree' = WithoutLeaf(w)
  /\ state' = [state EXCEPT ![w] = "Tiled"]
  /\ prev' = [prev EXCEPT ![w] = "Tiled"]
  /\ wsOf' = [wsOf EXCEPT ![w] = 1]
  /\ strikes' = Forgiven(w)
  /\ scratch' = Released(w)
  /\ UNCHANGED <<active, popups, before, dragging>>
  /\ monOf' = Homed([monOf EXCEPT ![w] = CHOOSE m \in Monitor : TRUE])
  /\ mapped' \in Arranged(mapped \ {w})
  /\ focus' \in IF focus.win = w
                  THEN FocusNextAvailable([Reverted(focus) EXCEPT !.win = None],
                         [mapped |-> mapped \ {w}, home |-> monOf])
                  ELSE {Reverted(focus)}

(***************************************************************************)
(* A client fights the size of its tile.                                   *)
(***************************************************************************)

ApplyTilingMisbehaviorFallback(w) ==
  LET targets == IF Fallback = "new_workspace" /\ NumWorkspaces > 1
                   THEN FewestWindows(wsOf[w]) ELSE {wsOf[w]}
  IN
  /\ tree' = WithoutLeaf(w)
  /\ strikes' = Forgiven(w)
  /\ wsOf' \in {[wsOf EXCEPT ![w] = target] : target \in targets}
  /\ state' = [state EXCEPT ![w] = "Floating"]
  /\ UNCHANGED <<managed, prev, active, scratch, popupVars, dragging>>
  /\ monOf' = Homed(monOf)
  /\ mapped' \in Arranged(mapped)
  /\ focus' = Reverted(focus)

HandleConfigureRequest(w) ==
  /\ w \in managed /\ state[w] = "Tiled" /\ Threshold > 0
  /\ IF strikes[w] + 1 >= Threshold
       THEN ApplyTilingMisbehaviorFallback(w)
       ELSE /\ strikes' = [strikes EXCEPT ![w] = @ + 1]
            /\ UNCHANGED <<managed, state, prev, wsOf, monOf, tree, active, focus,
                           mapped, scratch, popupVars, dragging>>

(***************************************************************************)
(* Workspaces and monitors.                                                *)
(***************************************************************************)

\* SwitchWorkspaceOnMonitor on the focused monitor; refused while another
\* monitor shows the workspace.
SwitchWorkspace(ws) ==
  /\ ~IsShown(ws)
  /\ active' = [active EXCEPT ![focus.mon] = ws]
  /\ UNCHANGED <<clientVars, scratch, popupVars, dragging>>
  /\ monOf' = Homed(monOf)
  /\ mapped' \in Arranged(mapped)
  /\ focus' \in UNION {SyncFocusToPointer(f) :
                         f \in FocusMonitor(Reverted(focus), focus.mon, After)}

FocusMonitorCommand(m) ==
  /\ m # focus.mon
  /\ UNCHANGED <<clientVars, monOf, active, mapped, scratch, popupVars, dragging>>
  /\ focus' \in FocusMonitor(focus, m, After)

\* The part MoveFocusedToWorkspace and MoveWindowToMonitor share: give up the
\* leaf on the old workspace, take one on the new if it fits.
Relocate(w, ws, fits) ==
  LET slot == OccupiesTreeSlot(w)
  IN
  /\ tree[ws] = {} => fits
  /\ wsOf' = [wsOf EXCEPT ![w] = ws]
  /\ tree' = IF slot /\ fits THEN [WithoutLeaf(w) EXCEPT ![ws] = @ \cup {w}]
                             ELSE WithoutLeaf(w)
  /\ state' = IF state[w] = "Tiled" /\ ~fits
                THEN [state EXCEPT ![w] = "Floating"] ELSE state
  /\ prev' = IF slot /\ state[w] = "Fullscreen" /\ ~fits
               THEN [prev EXCEPT ![w] = "Floating"] ELSE prev
  /\ strikes' = IF slot /\ fits THEN Forgiven(w) ELSE strikes

MoveFocusedToWorkspace(ws, fits) ==
  \E w \in {focus.win} \cap managed :
    /\ ws # wsOf[w]
    /\ Relocate(w, ws, fits)
    /\ UNCHANGED <<managed, active, scratch, popupVars, dragging>>
    /\ monOf' = Homed(monOf)
    /\ mapped' \in Arranged(mapped)
    /\ focus' \in FocusNextAvailable(Reverted(focus), After)

MoveWindowToMonitor(m, fits) ==
  \E w \in {focus.win} \cap managed :
    /\ m # focus.mon
    /\ active[m] # wsOf[w]
    /\ Relocate(w, active[m], fits)
    /\ UNCHANGED <<managed, active, scratch, popupVars, dragging>>
    /\ monOf' = Homed([monOf EXCEPT ![w] = m])
    /\ mapped' \in Arranged(mapped)
    /\ focus' \in IF IsShown(wsOf[w])
                    THEN FocusNextAvailableOn(Reverted(focus),
                           MonitorShowingNext(wsOf[w]), After)
                    ELSE {Reverted(focus)}

(***************************************************************************)
(* Commands on the focused window.                                         *)
(***************************************************************************)

ToggleFloating(fits) ==
  \E w \in {focus.win} \cap managed :
    /\ \/ /\ state[w] = "Scratchpad"
          /\ scratch' = Released(w)
          /\ wsOf' = [wsOf EXCEPT ![w] = active[focus.mon]]
          /\ state' = [state EXCEPT ![w] = "Floating"]
          /\ UNCHANGED <<strikes, tree>>
       \/ /\ state[w] = "Tiled"
          /\ tree' = WithoutLeaf(w)
          /\ state' = [state EXCEPT ![w] = "Floating"]
          /\ UNCHANGED <<wsOf, strikes, scratch>>
       \/ /\ state[w] = "Floating"
          /\ tree[wsOf[w]] = {} => fits
          /\ IF fits
               THEN /\ tree' = [tree EXCEPT ![wsOf[w]] = @ \cup {w}]
                    /\ state' = [state EXCEPT ![w] = "Tiled"]
                    /\ strikes' = Forgiven(w)
               ELSE UNCHANGED <<tree, state, strikes>>
          /\ UNCHANGED <<wsOf, scratch>>
    /\ UNCHANGED <<managed, prev, active, popupVars, dragging>>
    /\ monOf' = Homed(IF state[w] = "Scratchpad"
                        THEN [monOf EXCEPT ![w] = focus.mon] ELSE monOf)
    /\ mapped' \in Arranged(mapped)
    /\ focus' = Reverted(focus)

\* Shared by ToggleFullscreen and a client's _NET_WM_STATE request
SetFullscreen(w) ==
  /\ w \in managed \cap FullscreenClients
  /\ ScratchFullscreen \/ w # scratch.win
  /\ IF state[w] = "Fullscreen"
       THEN /\ state' = [state EXCEPT ![w] = prev[w]]
            /\ UNCHANGED prev
       ELSE /\ prev' = [prev EXCEPT ![w] = state[w]]
            /\ state' = [state EXCEPT ![w] = "Fullscreen"]
  /\ UNCHANGED <<managed, wsOf, strikes, tree, active, scratch, popupVars, dragging>>
  /\ monOf' = Homed(monOf)
  /\ mapped' \in Arranged(mapped)
  /\ focus' = Reverted(focus)

ToggleFullscreen == focus.win # None /\ SetFullscreen(focus.win)

HandleClientMessage(w) == SetFullscreen(w)

\* First use: the focused window goes into the scratchpad, hidden.
AssignScratchpad ==
  /\ scratch.win = None
  /\ \E w \in {focus.win} \cap managed :
       /\ state[w] # "Scratchpad"
       /\ tree' = WithoutLeaf(w)
       /\ prev' = [prev EXCEPT ![w] = state[w]]
       /\ state' = [state EXCEPT ![w] = "Scratchpad"]
       /\ scratch' = [win |-> w, shown |-> FALSE]
       /\ UNCHANGED <<managed, wsOf, strikes, active, popupVars, dragging>>
       /\ monOf' = Homed(monOf)
       /\ mapped' \in Arranged(mapped \ {w})
       /\ focus' \in FocusNextAvailable(Reverted(focus), After)

\* Later uses show it on the focused monitor, or hide it.
ShowScratchpad ==
  \E w \in {scratch.win} \cap managed :
    /\ ~scratch.shown
    /\ scratch' = [scratch EXCEPT !.shown = TRUE]
    /\ monOf' = [monOf EXCEPT ![w] = focus.mon]
    /\ mapped' = mapped \cup {w}
    /\ UNCHANGED <<clientVars, active, popupVars, dragging>>
    /\ focus' = Focus(focus, w, After)

HideScratchpad ==
  \E w \in {scratch.win} \cap managed :
    /\ scratch.shown
    /\ scratch' = [scratch EXCEPT !.shown = FALSE]
    /\ mapped' = mapped \ {w}
    /\ UNCHANGED <<clientVars, monOf, active, popupVars, dragging>>
    /\ focus' \in IF focus.win = w THEN FocusNextAvailable(Reverted(focus), After)
                                   ELSE {Reverted(focus)}

\* FindNeighbor can find any other leaf of the same tree.
FocusDirection(n) ==
  \E w \in {focus.win} \cap managed :
    /\ state[w] = "Tiled"
    /\ n \in tree[wsOf[w]] \ {w}
    /\ UNCHANGED <<clientVars, monOf, active, mapped, scratch, popupVars, dragging>>
    /\ focus' = Focus(focus, n, After)

FocusCycle(n) ==
  /\ n \in Visible(active[focus.mon])
  /\ UNCHANGED <<clientVars, monOf, active, mapped, scratch, popupVars, dragging>>
  /\ focus' = Focus(focus, n, After)

\* Rotate, Flip: the tree keeps its leaves, but other windows may come to
\* lie under the pointer.
RotateOrFlipFocused ==
  /\ focus.win # None /\ state[focus.win] = "Tiled"
  /\ UNCHANGED <<clientVars, active, scratch, popupVars, dragging>>
  /\ monOf' = Homed(monOf)
  /\ mapped' \in Arranged(mapped)
  /\ focus' \in SyncFocusToPointer(Reverted(focus))

\* MoveFocusedDirection and a tiled resize exchange or resize leaves;
\* ReloadConfig changes none of this state: all three just rearrange.
Rearrange ==
  /\ UNCHANGED <<clientVars, active, scratch, popupVars, dragging>>
  /\ monOf' = Homed(monOf)
  /\ mapped' \in Arranged(mapped)
  /\ focus' = Reverted(focus)

(***************************************************************************)
(* The pointer.                                                            *)
(***************************************************************************)

\* The pointer enters window w (None: a bar, the root, an unmanaged window)
\* at a point of monitor m.  Also HandlePointerMotion, for w = None.  The event
\* may be older than the handlers before it: w need not be where the pointer
\* was, nor mapped, any more.
HandleEnterNotify(m, w) ==
  /\ w \in managed \cup {None}
  /\ UNCHANGED <<clientVars, monOf, active, mapped, scratch, popupVars, dragging>>
  /\ \E f \in FollowPointer(focus, m) :
       focus' = IF TypingPopupOpen \/ w \in {None, f.win}
                  THEN f ELSE Focus(f, w, After)

\* A click on a client dismisses whatever popup is open, then focuses it.  The
\* client may have been hidden since.
HandleButtonPressOnClient(w) ==
  /\ w \in managed
  /\ popups' = {}
  /\ before' = IF popups = {} THEN before ELSE None
  /\ UNCHANGED <<clientVars, monOf, active, mapped, scratch, dragging>>
  /\ focus' \in IF popups = {} THEN {Focus(focus, w, After)}
                ELSE {Focus(f, w, After) :
                        f \in UNION {RestoreFocusAfterModal(focus, p) : p \in popups}}

(***************************************************************************)
(* Popups.                                                                 *)
(***************************************************************************)

\* The launcher and the notepad close each other; the power menu opens over
\* both.
Closing_LauncherOnly(p) == IF p = "launcher" THEN popups \cap TypingPopup ELSE {}
Closing(p) == IF p \in TypingPopup THEN popups \cap TypingPopup ELSE {}

\* ToggleLauncher, ToggleNotepad and the bar's power button, when it opens.
OpenPopup(p) ==
  LET closing == Closing(p)
  IN
  /\ p \in Popups \ popups
  /\ popups' = (popups \ closing) \cup {p}
  /\ UNCHANGED <<clientVars, monOf, active, mapped, scratch, dragging>>
  /\ \E f \in IF closing = {} THEN {focus}
              ELSE UNION {RestoreFocusAfterModal(focus, c) : c \in closing} :
       /\ focus' = [f EXCEPT !.input = p]
       /\ before' = f.win

ClosePopup(p) ==
  /\ p \in popups
  /\ popups' = popups \ {p}
  /\ before' = None
  /\ UNCHANGED <<clientVars, monOf, active, mapped, scratch, dragging>>
  /\ focus' \in RestoreFocusAfterModal(focus, p)

\* External: a client gives itself the input focus.
ClientTakesFocus(w) ==
  /\ w \in Thieves \cap mapped
  /\ focus' = [focus EXCEPT !.input = w]
  /\ UNCHANGED <<clientVars, monOf, active, mapped, scratch, popupVars, dragging>>

\* FocusIn is only selected on client windows; while the launcher or notepad
\* is open the input focus is taken straight back.
FocusIn_LauncherOnly ==
  /\ "launcher" \in popups
  /\ focus.input \in Window
  /\ focus' = [focus EXCEPT !.input = "launcher"]
  /\ UNCHANGED <<clientVars, monOf, active, mapped, scratch, popupVars, dragging>>
HandleFocusIn ==
  /\ TypingPopupOpen
  /\ focus.input \in Window
  /\ focus' = [focus EXCEPT !.input =
                 IF "launcher" \in popups THEN "launcher" ELSE "notepad"]
  /\ UNCHANGED <<clientVars, monOf, active, mapped, scratch, popupVars, dragging>>

----------------------------------------------------------------------------

\* MonitorManager::Detect hands every monitor a workspace of its own.
Init ==
  /\ managed = {}
  /\ state = [w \in Window |-> "Tiled"]
  /\ prev = [w \in Window |-> "Tiled"]
  /\ wsOf = [w \in Window |-> 1]
  /\ monOf = [w \in Window |-> CHOOSE m \in Monitor : TRUE]
  /\ strikes = [w \in Window |-> 0]
  /\ tree = [ws \in Workspace |-> {}]
  /\ active \in [Monitor -> Workspace]
  /\ \A m, n \in Monitor : active[m] = active[n] => m = n
  /\ focus \in [win : {None}, mon : Monitor, input : {"root"}]
  /\ mapped = {}
  /\ scratch = NoScratch
  /\ popups = {}
  /\ before = None
  /\ dragging = None

ManageAny ==
  \E w \in Window, hasParent, full \in BOOLEAN, ws \in Workspace, sm \in Monitor :
    \E place \in Placement(ws) : Manage(w, hasParent, place, full, sm)

ClientNext ==
  \/ ManageAny
  \/ \E w \in Window : \/ Unmanage(w)
                       \/ HandleConfigureRequest(w)
                       \/ HandleClientMessage(w)
                       \/ ClientTakesFocus(w)

CommandNext ==
  \/ \E ws \in Workspace : SwitchWorkspace(ws)
  \/ \E m \in Monitor : FocusMonitorCommand(m)
  \/ \E ws \in Workspace, fits \in BOOLEAN : MoveFocusedToWorkspace(ws, fits)
  \/ \E m \in Monitor, fits \in BOOLEAN : MoveWindowToMonitor(m, fits)
  \/ \E fits \in BOOLEAN : ToggleFloating(fits)
  \/ ToggleFullscreen
  \/ AssignScratchpad
  \/ ShowScratchpad
  \/ HideScratchpad
  \/ \E w \in Window : FocusDirection(w) \/ FocusCycle(w)
  \/ RotateOrFlipFocused
  \/ Rearrange

InputNext ==
  \/ \E m \in Monitor, w \in Window \cup {None} : HandleEnterNotify(m, w)
  \/ \E w \in Window : HandleButtonPressOnClient(w)
  \/ \E p \in Popup : OpenPopup(p) \/ ClosePopup(p)
  \/ HandleFocusIn

Next == ClientNext \/ CommandNext \/ InputNext

Spec == Init /\ [][Next]_vars

----------------------------------------------------------------------------
(***************************************************************************)
(* Properties.                                                             *)
(***************************************************************************)

\* A workspace's tree has a leaf for exactly the windows that live there and
\* occupy a slot.  A leaf left behind by a close, a move, a float, a
\* scratchpad assignment or the misbehavior fallback is dead screen space
\* for the rest of the session; a missing one is a window nobody lays out.
TreeMatchesClients ==
  \A ws \in Workspace :
    tree[ws] = {w \in managed : wsOf[w] = ws /\ OccupiesTreeSlot(w)}

\* The scratchpad slot names exactly the window whose state says so, directly
\* or under a fullscreen it will return from.
ScratchpadMatchesClients ==
  \A w \in managed :
    scratch.win = w <=> \/ state[w] = "Scratchpad"
                        \/ state[w] = "Fullscreen" /\ prev[w] = "Scratchpad"

\* No two monitors ever show the same workspace (Arrange and MonitorShowing
\* rely on it).
MonitorsNeverShare ==
  \A m, n \in Monitor : active[m] = active[n] => m = n

\* Whether the screen shows w: its workspace is on a monitor, or it is the
\* scratchpad's window while that is shown.
OnScreen(w) ==
  IF state[w] = "Scratchpad" THEN scratch.win = w /\ scratch.shown
                             ELSE IsShown(wsOf[w])

\* Between two events X maps exactly what should be on screen.  A fullscreen
\* window may stay unmapped under another one on its workspace.
MappedMatchesScreen ==
  \A w \in managed \ {dragging} :
    /\ w \in mapped => OnScreen(w)
    /\ OnScreen(w) /\ w \notin mapped =>
         \E v \in mapped \ {w} : /\ wsOf[v] = wsOf[w]
                               /\ state[w] = "Fullscreen" /\ state[v] = "Fullscreen"

\* The focused window is one the user can see.
FocusIsOnScreen == focus.win # None => OnScreen(focus.win)

\* The focused monitor is the one showing the focused window.
FocusedMonitorAgrees ==
  focus.win # None /\ state[focus.win] # "Scratchpad" /\ IsShown(wsOf[focus.win])
    => active[focus.mon] = wsOf[focus.win]

\* The keyboard is never left unassigned while the focused monitor has a window.
SomethingIsFocused ==
  focus.win = None => Visible(active[focus.mon]) = {}

\* A shown scratchpad on an otherwise empty monitor keeps the keyboard.
ScratchpadKeepsFocus ==
  /\ scratch.shown
  /\ monOf[scratch.win] = focus.mon
  /\ Visible(active[focus.mon]) = {}
  => focus.win = scratch.win

\* Tiling a window again, by whatever handler, starts its count of
\* size-fighting requests afresh: one strike from an earlier tile never
\* counts towards floating it (ResetTilingMisbehavior).
StrikesRestart ==
  [][\A w \in Window, ws \in Workspace :
       w \in tree'[ws] \ tree[ws] => strikes'[w] = 0]_vars

\* A step shows at most one other workspace, on the focused monitor.
SwitchIsLocal ==
  [][\A m \in Monitor : active'[m] # active[m] => m = focus.mon]_vars

\* Nothing that happens on one monitor takes a tile off another one: a tiled
\* window that stays a tile of a workspace whose monitor keeps showing it is
\* neither unmapped nor recorded elsewhere by any handler.
OtherMonitorsUndisturbed ==
  [][\A m \in Monitor : active'[m] = active[m] =>
       \A w \in tree[active[m]] \cap tree'[active[m]] :
         state[w] = "Tiled" /\ state'[w] = "Tiled" /\ w \in mapped
           => w \in mapped' /\ monOf'[w] = monOf[w]]_vars

\* A window that opens on a workspace nobody looks at disturbs nothing: no
\* monitor switches to it and the keyboard stays where it is.
QuietInBackground ==
  [][(\E w \in managed' \ managed : ~ShownNext(wsOf'[w]))
       => focus' = focus /\ active' = active]_vars

\* A window that closes never moves the user to another monitor, and only
\* the focused window's own end moves the focus.
CloseMovesNoFocus ==
  [][\A w \in managed \ managed' :
       /\ focus'.mon = focus.mon
       /\ focus.win # w => focus'.win = focus.win]_vars

\* X input focus is where WindowManager believes it is (m_focusedWindow):
\* what the border and the bar show as focused is what the keys reach.
InputMatchesFocus ==
  focus.input = IF focus.win = None THEN "root" ELSE focus.win

\* Every window managed has its leaf, its workspace and, if it is the one in
\* the scratchpad, its slot, through every way in and out of them.
WindowsAccountedFor == TreeMatchesClients /\ ScratchpadMatchesClients

\* What the user types goes to a window on the monitor that is focused, one
\* that can be seen and that is marked as focused, if there is any.
FocusIsRight ==
  /\ FocusIsOnScreen /\ FocusedMonitorAgrees /\ SomethingIsFocused
  /\ ScratchpadKeepsFocus /\ InputMatchesFocus

\* A pointer event of a window that was hidden before the event was handled:
\* neither handler asks whether it still is on screen.
LateEvent ==
  \E m \in Monitor, w \in managed \ mapped :
    HandleEnterNotify(m, w) \/ HandleButtonPressOnClient(w)

\* That is the only thing that makes the focus wrong; and however long it was,
\* it is right again once a handler hands the keyboard to another window.
FocusStaysRight ==
  FocusIsRight /\
  [][FocusIsRight \/ (focus'.input # focus.input /\ focus'.input \in Window)
       => FocusIsRight' \/ LateEvent]_vars

\* What opens, closes, moves or switches leaves the rest of the desktop alone.
NobodyIsDisturbed == OtherMonitorsUndisturbed /\ QuietInBackground /\ CloseMovesNoFocus

\* While the launcher or the notepad is open, keys never go to the root
\* window, where nobody reads them: Manage and HandleFocusIn's comments
\* promise that the popup keeps the keyboard.  No run checks this one: a
\* switch over IPC to an empty workspace, or a close, makes it false.
LauncherHears == TypingPopupOpen => focus.input # "root"

\* Only one popup at a time reads the keyboard.
OneTypingPopup == Cardinality(popups \cap TypingPopup) <= 1

\* A window that opens under the launcher or the notepad, a dialog that
\* pulls its parent's workspace into view included, takes no keys from it.
OpeningStealsNoKeys ==
  [][\A w \in managed' \ managed : popups \cap TypingPopup # {} =>
       /\ focus'.input # w
       /\ focus.input \in popups => focus'.input \in popups]_vars

\* The keyboard is one popup's at a time, and stays with it.
PopupsTakeTurns == []OneTypingPopup /\ OpeningStealsNoKeys

\* A client that takes the keyboard from the launcher or the notepad does not
\* keep it: HandleFocusIn hands it back, unless the popup closes first.
InputReturns ==
  (TypingPopupOpen /\ focus.input \in Window)
    ~> (~TypingPopupOpen \/ focus.input \notin Window)

\* Every event the X server delivers is handled: EventLoop drains the queue
\* before it sleeps.
LiveSpec == Spec /\ WF_vars(HandleFocusIn)

============================================================================
