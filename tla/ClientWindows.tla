--------------------------- MODULE ClientWindows ---------------------------
(***************************************************************************)
(* The asynchronous half of window management: clients map, withdraw,      *)
(* destroy and dock their windows at the X server, WindowManager learns of *)
(* it later, in order, from its event queue, and its own XMapWindow and    *)
(* XUnmapWindow calls reach the server among the clients' requests.        *)
(*                                                                         *)
(* WindowManager cannot tell its own unmaps from a client's: each of its   *)
(* own is counted (ManagedWindow::IgnoreNextUnmap) and as many             *)
(* UnmapNotify events are discounted (ConsumeIgnoredUnmap).  A window with *)
(* _XEMBED_INFO is held back, unmapped, for a tray dock request, but only  *)
(* for so long (m_pendingXEmbedWindows).                                   *)
(*                                                                         *)
(* Which workspaces are shown is abstracted to the set of windows on them. *)
(* A handler runs to its end before the next, but the server may process   *)
(* client requests between Arrange's GetWindowAttributes and its           *)
(* XUnmapWindow, so Arrange has its own steps.                             *)
(***************************************************************************)
EXTENDS Integers, Sequences, SequencesExt, FiniteSets

CONSTANTS
  Window,     \* client windows
  None,
  Embedders,  \* those with _XEMBED_INFO; they may ask the tray to dock them
  GivesUp,    \* may a client withdraw a window still held back for the tray?
  MaxQueue    \* bound: clients and commands wait while so many events do

ASSUME NoneIsNoWindow == None \notin Window
ASSUME EmbeddersAreWindows == Embedders \subseteq Window
ASSUME ClientsAreBounded == GivesUp \in BOOLEAN /\ MaxQueue \in Nat \ {0}

VARIABLES
  alive,     \* X server: windows that exist
  viewable,  \* X server: mapped windows
  inTray,    \* X server: reparented into the tray's container
  wants,     \* clients: windows last asked to be shown
  queue,     \* events on their way to EventDispatcher
  managed,   \* m_repository
  ignored,   \* ManagedWindow::m_ignoredUnmaps
  onScreen,  \* managed windows whose workspace is shown
  scratch,   \* Scratchpad: its window, and whether it is shown
  pending,   \* m_pendingXEmbedWindows
  expired,   \* those of them whose deadline has passed
  icons,     \* SystemTray::m_icons
  arrange    \* progress of Arrange's loop over hidden windows

server == <<alive, viewable, inTray, wants>>
docking == <<pending, expired, icons>>
vars == <<server, queue, managed, ignored, onScreen, scratch, docking, arrange>>

EventType == {"MapRequest", "Unmap", "Destroy", "Dock"}
Idle == [todo |-> {}, hiding |-> None, phase |-> "idle"]
NoScratch == [win |-> None, shown |-> FALSE]

ClientTypeOK ==
  /\ viewable \subseteq alive /\ alive \subseteq Window
  /\ inTray \subseteq Embedders /\ wants \subseteq Window
  /\ queue \in Seq([type : EventType, win : Window])
  /\ managed \subseteq Window /\ onScreen \subseteq managed
  /\ ignored \in [Window -> Nat]
  /\ scratch \in [win : managed \cup {None}, shown : BOOLEAN]
  /\ pending \subseteq Embedders /\ expired \subseteq pending
  /\ icons \subseteq Embedders
  /\ arrange \in [todo : SUBSET Window, hiding : Window \cup {None},
                  phase : {"idle", "hide"}]

Event(type, w) == [type |-> type, win |-> w]
Waiting(w) == {i \in 1..Len(queue) : queue[i].win = w}
Unmaps(w) == {i \in Waiting(w) : queue[i].type = "Unmap"}

----------------------------------------------------------------------------
(***************************************************************************)
(* Clients.                                                                *)
(***************************************************************************)

Room == Len(queue) < MaxQueue
WMVars == <<managed, ignored, onScreen, scratch, docking, arrange>>

\* XMapWindow: redirected to WindowManager for an unmapped child of the root.
ClientMap(w) ==
  /\ w \in alive \ inTray
  /\ w \notin wants
  /\ Room
  /\ wants' = wants \cup {w}
  /\ queue' = IF w \in viewable THEN queue ELSE Append(queue, Event("MapRequest", w))
  /\ UNCHANGED <<alive, viewable, inTray, WMVars>>

\* XWithdrawWindow (ICCCM 4.1.4): unmaps the window and sends a synthetic
\* UnmapNotify, whether it was mapped or not.  Clients wait for their request
\* to map it to have been handled first.
ClientWithdraw(w) ==
  /\ w \in (wants \cap alive) \ inTray
  /\ \A i \in Waiting(w) : queue[i].type # "MapRequest"
  /\ w \in pending => GivesUp
  /\ Room
  /\ wants' = wants \ {w}
  /\ viewable' = viewable \ {w}
  /\ queue' = queue \o (IF w \in viewable THEN <<Event("Unmap", w)>> ELSE <<>>)
                    \o <<Event("Unmap", w)>>
  /\ UNCHANGED <<alive, inTray, WMVars>>

ClientDestroy(w) ==
  /\ w \in alive
  /\ Room
  /\ alive' = alive \ {w}
  /\ viewable' = viewable \ {w}
  /\ wants' = wants \ {w}
  /\ queue' = queue \o (IF w \in viewable \ inTray THEN <<Event("Unmap", w)>> ELSE <<>>)
                    \o <<Event("Destroy", w)>>
  /\ UNCHANGED <<inTray, WMVars>>

\* TrayIconClient::TryDock: asks for a dock and maps at once.  A client may ask
\* again when it is docked.
ClientDock(w) ==
  /\ w \in Embedders \cap alive
  /\ \A i \in Waiting(w) : queue[i].type # "Dock"
  /\ Room
  /\ wants' = wants \cup {w}
  /\ queue' = queue \o <<Event("Dock", w)>>
                    \o (IF w \in viewable THEN <<>> ELSE <<Event("MapRequest", w)>>)
  /\ UNCHANGED <<alive, viewable, inTray, WMVars>>

----------------------------------------------------------------------------
(***************************************************************************)
(* WindowManager's handlers.                                               *)
(***************************************************************************)

Ready == arrange.phase = "idle"

\* What Arrange goes through: every managed window on a hidden workspace.
ArrangeStarts ==
  arrange' = [todo |-> managed' \ (onScreen' \cup {scratch'.win}),
              hiding |-> None, phase |-> "hide"]

\* Manage, its workspace shown or not.  Arrange maps it.
Manage(w, shown) ==
  /\ managed' = managed \cup {w}
  /\ ignored' = [ignored EXCEPT ![w] = 0]
  /\ onScreen' = IF shown THEN onScreen \cup {w} ELSE onScreen
  /\ UNCHANGED scratch
  /\ ArrangeStarts

\* Scratchpad::Forget
Forgotten_Never(w) == scratch
Forgotten(w) == IF scratch.win = w THEN NoScratch ELSE scratch

Unmanage(w) ==
  /\ managed' = managed \ {w}
  /\ ignored' = [ignored EXCEPT ![w] = 0]
  /\ onScreen' = onScreen \ {w}
  /\ scratch' = Forgotten(w)
  /\ ArrangeStarts

Ignore == UNCHANGED <<managed, ignored, onScreen, scratch, arrange>>

\* Manage's early exits: managed already, or held back for the tray.
HandleMapRequest(w) ==
  /\ UNCHANGED <<server, icons, expired>>
  /\ \/ w \in managed /\ Ignore /\ UNCHANGED pending
     \/ w \in Embedders \ managed
        /\ pending' = pending \cup {w} /\ Ignore
     \/ w \notin managed \cup Embedders
        /\ UNCHANGED pending
        /\ \E shown \in BOOLEAN : Manage(w, shown)

\* ConsumeIgnoredUnmap
Consumed_Kept(w) == ignored
Consumed(w) == [ignored EXCEPT ![w] = @ - 1]

HandleUnmapNotify(w) ==
  /\ UNCHANGED <<server, docking>>
  /\ \/ w \notin managed /\ Ignore
     \/ w \in managed /\ ignored[w] > 0
        /\ ignored' = Consumed(w)
        /\ UNCHANGED <<managed, onScreen, scratch, arrange>>
     \/ w \in managed /\ ignored[w] = 0 /\ Unmanage(w)

NoLongerPending_Kept(w) == UNCHANGED <<pending, expired>>
NoLongerPending(w) == pending' = pending \ {w} /\ expired' = expired \ {w}

HandleDestroyNotify(w) ==
  /\ NoLongerPending(w)
  /\ icons' = icons \ {w}
  /\ UNCHANGED server
  /\ IF w \in managed THEN Unmanage(w) ELSE Ignore

\* SystemTray::DockIcon reparents and maps; what WindowManager made of the
\* window before is undone (a mapped window unmaps on its way).
Undone_Never(w) == Ignore
Undone(w) == IF w \in managed THEN Unmanage(w) ELSE Ignore

HandleDockRequest(w, rest) ==
  IF w \in icons
    THEN queue' = rest /\ Ignore /\ UNCHANGED <<server, docking>>
    ELSE /\ icons' = icons \cup {w}
         /\ inTray' = inTray \cup ({w} \cap alive)
         /\ viewable' = viewable \cup ({w} \cap alive)
         /\ queue' = IF w \in viewable THEN Append(rest, Event("Unmap", w)) ELSE rest
         /\ NoLongerPending(w)
         /\ Undone(w)
         /\ UNCHANGED <<alive, wants>>

\* EventDispatcher::Dispatch
Dispatch ==
  /\ Ready /\ queue # <<>>
  /\ LET w == Head(queue).win
         type == Head(queue).type
     IN \/ type = "MapRequest" /\ queue' = Tail(queue) /\ HandleMapRequest(w)
        \/ type = "Unmap" /\ queue' = Tail(queue) /\ HandleUnmapNotify(w)
        \/ type = "Destroy" /\ queue' = Tail(queue) /\ HandleDestroyNotify(w)
        \/ type = "Dock" /\ HandleDockRequest(w, Tail(queue))

\* Two seconds have passed since w was held back.
DeadlinePasses(w) ==
  /\ w \in pending \ expired
  /\ expired' = expired \cup {w}
  /\ UNCHANGED <<server, queue, managed, ignored, onScreen, scratch, pending,
                 icons, arrange>>

\* CheckPendingXEmbedWindows, for one window that it gives up on: if it still
\* exists, Manage must not look at _XEMBED_INFO again (skipXEmbedCheck).
GiveUpOn_Asks(w) ==
  expired' = expired \ {w} /\ UNCHANGED pending /\ Ignore
GiveUpOn(w) ==
  /\ NoLongerPending(w)
  /\ IF w \in alive \ managed
       THEN \E shown \in BOOLEAN : Manage(w, shown)
       ELSE Ignore

\* Tick sweeps the list.
TickPending(w) ==
  /\ Ready /\ w \in pending
  /\ UNCHANGED <<server, queue, icons>>
  /\ \/ w \in icons /\ NoLongerPending(w) /\ Ignore
     \/ w \in expired \ icons /\ GiveUpOn(w)

(***************************************************************************)
(* Arrange, whichever handler or command called it.                        *)
(***************************************************************************)

\* GetWindowAttributes: only a window X reports as mapped is counted.  (So is
\* one that no longer exists; its count goes with it at the DestroyNotify.)
Counted_Blindly(w) == TRUE
Counted(w) == w \in viewable

ArrangeCheck(w) ==
  /\ arrange.phase = "hide" /\ arrange.hiding = None /\ w \in arrange.todo
  /\ arrange' = [arrange EXCEPT !.todo = @ \ {w},
                                !.hiding = IF Counted(w) THEN w ELSE None]
  /\ ignored' = IF Counted(w) THEN [ignored EXCEPT ![w] = @ + 1] ELSE ignored
  /\ UNCHANGED <<server, queue, managed, onScreen, scratch, docking>>

\* XUnmapWindow, a moment later
ArrangeHide ==
  LET w == arrange.hiding IN
  /\ w # None
  /\ arrange' = [arrange EXCEPT !.hiding = None]
  /\ viewable' = viewable \ {w}
  /\ queue' = IF w \in viewable THEN Append(queue, Event("Unmap", w)) ELSE queue
  /\ UNCHANGED <<alive, inTray, wants, managed, ignored, onScreen, scratch, docking>>

\* ArrangeMonitor maps everything on a shown workspace, whether or not an
\* unmap of it is still on its way.
ToShow_Settled == {w \in onScreen \ {scratch.win} : ignored[w] = 0}
ToShow == onScreen \ {scratch.win}

ArrangeShow ==
  /\ arrange.phase = "hide" /\ arrange.hiding = None /\ arrange.todo = {}
  /\ arrange' = Idle
  /\ viewable' = viewable \cup (ToShow \cap alive)
  /\ UNCHANGED <<alive, inTray, wants, queue, managed, ignored, onScreen, scratch, docking>>

----------------------------------------------------------------------------
(***************************************************************************)
(* Commands.                                                               *)
(***************************************************************************)

\* SwitchWorkspace, MoveFocusedToWorkspace: other windows are on screen now.
Switch(shown) ==
  /\ Ready /\ Room /\ shown # onScreen
  /\ onScreen' = shown
  /\ UNCHANGED <<server, queue, managed, ignored, scratch, docking>>
  /\ ArrangeStarts

\* The scratchpad's XUnmapWindow is counted without a look at the window (the
\* count of one that no longer exists goes with it, again).
Hidden(w) ==
  /\ ignored' = IF w \in alive THEN [ignored EXCEPT ![w] = @ + 1] ELSE ignored
  /\ viewable' = viewable \ {w}
  /\ queue' = IF w \in viewable THEN Append(queue, Event("Unmap", w)) ELSE queue

ScratchAssign(w) ==
  /\ Ready /\ Room /\ scratch.win = None /\ w \in onScreen
  /\ scratch' = [win |-> w, shown |-> FALSE]
  /\ Hidden(w)
  /\ UNCHANGED <<alive, inTray, wants, managed, onScreen, docking>>
  /\ ArrangeStarts

ScratchToggle ==
  LET w == scratch.win IN
  /\ Ready /\ Room /\ w # None
  /\ scratch' = [scratch EXCEPT !.shown = ~@]
  /\ IF scratch.shown
       THEN Hidden(w)
       ELSE viewable' = viewable \cup ({w} \cap alive) /\ UNCHANGED <<queue, ignored>>
  /\ UNCHANGED <<alive, inTray, wants, managed, onScreen, docking, arrange>>

\* ToggleFloating takes the window out of the scratchpad.
ScratchRelease ==
  /\ Ready /\ Room /\ scratch.win # None /\ scratch.shown
  /\ scratch' = NoScratch
  /\ onScreen' = onScreen \cup {scratch.win}
  /\ UNCHANGED <<server, queue, managed, ignored, docking>>
  /\ ArrangeStarts

----------------------------------------------------------------------------

Init ==
  /\ alive = Window
  /\ queue = <<>>
  /\ ignored = [w \in Window |-> 0]
  /\ scratch = NoScratch /\ arrange = Idle
  /\ viewable = {} /\ inTray = {} /\ wants = {}
  /\ managed = {} /\ onScreen = {}
  /\ pending = {} /\ expired = {} /\ icons = {}

ArrangeNext == (\E w \in Window : ArrangeCheck(w)) \/ ArrangeHide \/ ArrangeShow

Next ==
  \/ \E w \in Window : \/ ClientMap(w) \/ ClientWithdraw(w)
                       \/ ClientDestroy(w) \/ ClientDock(w)
                       \/ DeadlinePasses(w) \/ TickPending(w)
                       \/ ScratchAssign(w)
  \/ Dispatch
  \/ ArrangeNext
  \/ \E shown \in SUBSET managed : Switch(shown)
  \/ ScratchToggle
  \/ ScratchRelease

Spec == Init /\ [][Next]_vars

\* The event loop never stops dispatching, finishing handlers and ticking,
\* and time passes.
FairSpec ==
  /\ Spec
  /\ WF_vars(Dispatch) /\ WF_vars(ArrangeNext)
  /\ \A w \in Window : WF_vars(DeadlinePasses(w)) /\ SF_vars(TickPending(w))

----------------------------------------------------------------------------
(***************************************************************************)
(* Properties.                                                             *)
(***************************************************************************)

Quiet == Ready /\ queue = <<>>

\* Every unmap that is going to be discounted has its event in the queue: the
\* count never reaches a close that has not happened yet (Arrange's comment
\* on why it asks GetWindowAttributes, IgnoreNextUnmap in HideScratchpad).
CountsAreBacked ==
  Ready => \A w \in managed : w \in alive => ignored[w] <= Cardinality(Unmaps(w))

\* Once the events are handled, a window its client took back or destroyed is
\* not managed any more: its own unmap was not mistaken for one of Arrange's
\* or the scratchpad's, however the two were interleaved.
CloseIsNoticed == Quiet => managed \subseteq wants

\* What a client closes is closed, and what Kohiko hides is not.
ClosesAreNoticed == ClientTypeOK /\ CountsAreBacked /\ CloseIsNoticed

\* Once the events are handled, what is on a shown workspace is on screen,
\* although unmaps and maps of it may have crossed.
ShownIsMapped == Quiet => onScreen \ {scratch.win} \subseteq viewable

\* A window is never a tray icon and a managed window at once, whichever of
\* its map request, dock request and timeout comes first.
DockedOrManaged == icons \cap managed = {}

\* A destroyed window is not held back: its deadline manages nothing.
PendingIsAlive ==
  \A w \in pending \ alive : \E i \in Waiting(w) : queue[i].type = "Destroy"

\* A window is in one place: shown, docked, held back or gone.
NoneIsLost == ShownIsMapped /\ DockedOrManaged /\ PendingIsAlive

\* A window held back for a dock request is shown, docked or destroyed in the
\* end: none stays invisible forever (Manage's comment on _XEMBED_INFO).
HeldBackOnlyForAWhile ==
  \A w \in Window : w \in pending ~> w \in managed \cup icons \cup (Window \ alive)

\* Nothing that WindowManager does not manage stays mapped on the root window.
\* No run checks this one, it is false: ArrangeMonitor maps a window that its
\* client has just withdrawn, and the UnmapNotify behind it only unmanages it.
NoGhost == Quiet => viewable \ inTray \subseteq managed

============================================================================
