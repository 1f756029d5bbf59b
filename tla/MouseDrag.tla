----------------------------- MODULE MouseDrag -----------------------------
(***************************************************************************)
(* Super+drag gestures on top of WindowManager: MouseManager picks a       *)
(* window up on a button press, and WindowManager's Begin/Update/End       *)
(* functions swap two tiles, move a floating window between monitors, or   *)
(* resize one.  A drop starts an animation (Animator) that later ticks     *)
(* carry on.  Every other event can arrive between the press and the       *)
(* release, and between a tick and the next.                               *)
(*                                                                         *)
(* All three keep raw pointers to windows.  Using one whose window is gone *)
(* is undefined: here writes through it are lost, and a window             *)
(* managed later under the same identity stands for one that the allocator *)
(* puts at the same address.                                               *)
(***************************************************************************)
EXTENDS WindowManager

CONSTANTS
  Disturb,      \* commands, and the dragged window's end, may fall mid-gesture
  TwoButtons,   \* a second button may be pressed mid-gesture
  MidAnimation  \* other events may fall between two frames of an animation

ASSUME DragConfigIsLegal == {Disturb, TwoButtons, MidAnimation} \subseteq BOOLEAN

VARIABLES
  mouse,     \* MouseManager: m_mode and m_dragWindow
  resizing,  \* m_activeResizeWindow
  hover,     \* m_dragHoverTarget
  tweens     \* Animator::m_tweens: the windows being animated

DragMode == {"Idle", "Swap", "Move", "Resize", "FloatingResize"}
gestureVars == <<mouse, resizing, hover>>
dragVars == <<vars, gestureVars, tweens>>

DragTypeOK ==
  /\ TypeOK
  /\ mouse \in [mode : DragMode, win : Window \cup {None}]
  /\ resizing \in Window \cup {None}
  /\ hover \in Window \cup {None}
  /\ tweens \subseteq Window

\* What FloatingWindowAt can find anywhere on screen
FloatingOnScreen_AnyState == {w \in managed : IsShown(wsOf[w])}
FloatingOnScreen ==
  {w \in managed : state[w] = "Floating" /\ IsShown(wsOf[w])}

\* The press finds nothing: the pointer is cleared, the mode is not.
PressNothing ==
  mouse' = [mouse EXCEPT !.win = None] /\ UNCHANGED <<dragging, resizing, hover>>

\* m_swapBinding: a floating window is moved, a tile is swapped (BeginSwapDrag
\* ignores a leaf whose window is fullscreen).
PressSwap(m) ==
  \/ \E w \in FloatingOnScreen :
       /\ mouse' = [mode |-> "Move", win |-> w]
       /\ dragging' = w
       /\ UNCHANGED <<resizing, hover>>
  \/ \E w \in tree[active[m]] :
       /\ mouse' = [mode |-> "Swap", win |-> w]
       /\ IF state[w] = "Tiled" THEN dragging' = w /\ hover' = None
                                ELSE UNCHANGED <<dragging, hover>>
       /\ UNCHANGED resizing
  \/ PressNothing

\* m_resizeBinding
PressResize(m) ==
  \/ \E w \in FloatingOnScreen :
       /\ mouse' = [mode |-> "FloatingResize", win |-> w]
       /\ resizing' = w
       /\ UNCHANGED <<dragging, hover>>
  \/ \E w \in tree[active[m]] :
       /\ mouse' = [mode |-> "Resize", win |-> w]
       /\ UNCHANGED <<dragging, resizing, hover>>
  \/ PressNothing

HandlePress(m) ==
  /\ TwoButtons \/ mouse.mode = "Idle"
  /\ MidAnimation \/ tweens = {}
  /\ PressSwap(m) \/ PressResize(m)
  /\ UNCHANGED <<clientVars, monOf, active, focus, mapped, scratch, popupVars, tweens>>

\* UpdateSwapDrag: the tile under the cursor is highlighted as the target.
UpdateSwapDrag(target) ==
  /\ mouse.mode = "Swap" /\ mouse.win # None /\ mouse.win = dragging
  /\ target \in (tree[wsOf[mouse.win]] \ {mouse.win}) \cup {None}
  /\ hover' = target
  /\ UNCHANGED <<vars, mouse, resizing, tweens>>

\* UpdateFloatingDrag: the window's center is over monitor m.
CrossMonitor(m) ==
  \E w \in {mouse.win} \cap {dragging} \cap managed :
    /\ mouse.mode = "Move"
    /\ m # monOf[w]
    /\ wsOf' = [wsOf EXCEPT ![w] = active[m]]
    /\ UNCHANGED <<managed, state, prev, strikes, tree, active, scratch,
                   popupVars, dragging, gestureVars, tweens>>
    /\ monOf' = Homed([monOf EXCEPT ![w] = m])
    /\ mapped' \in Arranged(mapped)
    /\ focus' = Reverted(focus)

\* ResizeWindow moves split ratios and rearranges
DragSplit ==
  mouse.mode = "Resize" /\ mouse.win # None /\ Rearrange /\ UNCHANGED <<gestureVars, tweens>>

\* MouseManager forgets the gesture; WindowManager forgets what it dragged.
GestureOver_KeepsWindow == mouse' = [mouse EXCEPT !.mode = "Idle"]
GestureOver == mouse' = [mode |-> "Idle", win |-> None]
Dropped_Never == UNCHANGED dragging
Dropped == dragging' = None

\* EndSwapDrag, over another leaf or over none.  The windows that moved are
\* animated into place.
EndSwapDrag(target) ==
  /\ mouse.mode = "Swap" /\ GestureOver
  /\ UNCHANGED <<clientVars, active, scratch, popupVars, resizing>>
  /\ IF mouse.win = None \/ mouse.win # dragging
       THEN target = None /\ UNCHANGED <<dragging, monOf, mapped, focus, hover, tweens>>
       ELSE /\ target \in (tree[wsOf[mouse.win]] \ {mouse.win}) \cup {None}
            /\ Dropped
            /\ hover' = None
            /\ tweens' = tweens \cup {mouse.win} \cup ({target} \ {None})
            /\ IF target = None
                 THEN UNCHANGED <<monOf, mapped, focus>>
                 ELSE /\ monOf' = Homed(monOf)
                      /\ mapped' \in Arranged(mapped)
                      /\ focus' \in SyncFocusToPointer(Reverted(focus))

\* EndFloatingDrag, landing on monitor m
EndFloatingDrag(m) ==
  /\ mouse.mode = "Move" /\ GestureOver
  /\ UNCHANGED <<managed, state, prev, strikes, tree, active, scratch, popupVars,
                 resizing, hover, tweens>>
  /\ IF mouse.win = None \/ mouse.win # dragging
       THEN UNCHANGED <<dragging, wsOf, monOf, mapped, focus>>
       ELSE LET lost == mouse.win \notin managed IN
            /\ Dropped
            /\ wsOf' = IF lost THEN wsOf ELSE [wsOf EXCEPT ![mouse.win] = active[m]]
            /\ monOf' = Homed(IF lost THEN monOf ELSE [monOf EXCEPT ![mouse.win] = m])
            /\ mapped' \in Arranged(mapped)
            /\ focus' = Reverted(focus)

EndResize ==
  /\ mouse.mode \in {"Resize", "FloatingResize", "Idle"} /\ GestureOver
  /\ UNCHANGED <<clientVars, active, scratch, popupVars, dragging, hover, tweens>>
  /\ IF mouse.mode = "FloatingResize" /\ mouse.win # None /\ mouse.win = resizing
       THEN /\ resizing' = None
            /\ monOf' = Homed(monOf)
            /\ mapped' \in Arranged(mapped)
            /\ focus' = Reverted(focus)
       ELSE UNCHANGED <<resizing, monOf, mapped, focus>>

\* Whichever button is released ends the gesture.
HandleRelease ==
  \/ \E target \in Window \cup {None} : EndSwapDrag(target)
  \/ \E m \in Monitor : EndFloatingDrag(m)
  \/ EndResize

\* Animator::Step: a frame moves every animated window, and drops the
\* animations whose time is up.
AnimatorStep ==
  /\ tweens # {}
  /\ tweens' \in SUBSET tweens
  /\ UNCHANGED <<vars, gestureVars>>

\* Everything else that can happen, with the grab in the way of the pointer:
\* crossings caused by a grab are ignored and clicks belong to the gesture.
Meanwhile ==
  /\ MidAnimation \/ tweens = {}
  /\ UNCHANGED <<gestureVars, tweens>>
  /\ \/ mouse.mode = "Idle" /\ Next
     \/ mouse.mode # "Idle" /\ Disturb /\ (ClientNext \/ CommandNext)
     \/ /\ mouse.mode # "Idle"
        /\ \/ ManageAny
           \/ \E w \in Window : \/ HandleConfigureRequest(w)
                                \/ HandleClientMessage(w)
                                \/ w # mouse.win /\ Unmanage(w)

DragInit ==
  /\ Init
  /\ mouse = [mode |-> "Idle", win |-> None]
  /\ resizing = None /\ hover = None /\ tweens = {}

DragNext ==
  \/ \E m \in Monitor : HandlePress(m) \/ CrossMonitor(m)
  \/ \E target \in Window \cup {None} : UpdateSwapDrag(target)
  \/ DragSplit
  \/ HandleRelease
  \/ AnimatorStep
  \/ Meanwhile

DragSpec == DragInit /\ [][DragNext]_dragVars

----------------------------------------------------------------------------

\* m_activeDragWindow and m_activeResizeWindow are null outside a gesture:
\* Arrange leaves a window alone for as long as one of them names it.
NothingDraggedWhenIdle ==
  mouse.mode = "Idle" => dragging = None /\ resizing = None

\* A window that closes once its gesture is over leaves nothing behind that
\* points to it, whatever other windows did meanwhile: every way a gesture ends
\* forgets the window in all three places that keep it.  (One that closes in
\* the middle of its own gesture does not get that: Unmanage forgets nothing.)
NoDanglingDrag ==
  {mouse.win, dragging, resizing} \subseteq managed \cup {None}

\* A gesture ends clean however the windows around it changed: no window is
\* left dragged, named or without its leaf.
DragEndsClean ==
  DragTypeOK /\ TreeMatchesClients /\ NothingDraggedWhenIdle /\ NoDanglingDrag

\* Nor do the highlighted drop target and the running animations: the next
\* motion, release or frame would reach through a freed ManagedWindow.
\* Animator.h has Cancel for "when a window is closed/unmanaged
\* mid-animation", and nothing calls it: no run checks this one, it is false.
NoFreedWindow == {hover} \cup tweens \subseteq managed \cup {None}

\* Whatever X maps belongs to the workspace that its monitor shows, but for
\* the scratchpad and what is just being dragged.
EverythingBelongs ==
  \A w \in mapped \ {dragging, scratch.win} : active[monOf[w]] = wsOf[w]

\* A tile that is dropped on nothing snaps back without an Arrange.
SnapsBack ==
  /\ mouse.mode = "Swap" /\ dragging # None /\ dragging' = None
  /\ UNCHANGED mapped

\* A gesture leaves every window where it belongs, however its workspace left
\* the monitor meanwhile: a floating window that was carried over lives on the
\* monitor it was dropped on.  Only a tile that is dropped on nothing may stay
\* mapped although its workspace is shown no more; the next floating window to
\* be dropped, if nothing before it, puts that right.
DroppedWhereItIs ==
  EverythingBelongs /\
  [][EverythingBelongs \/ (mouse.mode = "Move" /\ mouse'.mode = "Idle")
       => EverythingBelongs' \/ SnapsBack]_dragVars

============================================================================
