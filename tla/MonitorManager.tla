-------------------------- MODULE MonitorManager --------------------------
(***************************************************************************)
(* Monitors across hotplug and restart: MonitorManager::Detect reconciles  *)
(* the monitors with the outputs the X server reports, WindowManager       *)
(* re-homes floating windows that were left on no monitor, and             *)
(* SessionStore carries workspaces and floating geometry over a clean      *)
(* shutdown.                                                               *)
(*                                                                         *)
(* The screen is a set of places; a monitor covers some, a floating window *)
(* is at the one its centre is in.  Tiled windows, which any monitor lays  *)
(* out, and ToggleFloating are left to WindowManager.tla.                  *)
(***************************************************************************)
EXTENDS Integers, SequencesExt, FiniteSetsExt

CONSTANTS
  OutputOrder,    \* outputs in the order XRandR lists them
  Fallback,       \* the output "default", when XRandR reports none
  Window,         \* windows, floating unless in the scratchpad
  None,
  Places,         \* the screen, from left to right: 1..Places
  NumWorkspaces,
  Rule,           \* monitor= rules: the workspace an output is pinned to, or 0
  ReplugWhileOff, \* may outputs change between a shutdown and the next start?
  MaxRestarts     \* bound

Output == ToSet(OutputOrder)
Place == 1..Places
WorkspaceId == 1..NumWorkspaces

ASSUME NumbersAreNatural ==
  Places \in Nat \ {0} /\ NumWorkspaces \in Nat \ {0} /\ MaxRestarts \in Nat
ASSUME OutputsAreListedOnce ==
  OutputOrder \in Seq(Output) /\ IsInjective(OutputOrder) /\ Fallback \notin Output
ASSUME NoneIsNothing == None \notin Output \cup Window
ASSUME RulesNameNumbers == Rule \in [Output \cup {Fallback} -> Nat]
ASSUME ReplugIsBoolean == ReplugWhileOff \in BOOLEAN

VARIABLES
  layout,    \* X server: the connected outputs and where each one is
  stale,     \* an RandR event is on its way
  monitors,  \* m_monitors by name, with the area and the workspace of each
  focused,   \* m_focused's name
  managed,   \* m_repository
  home,      \* ManagedWindow::Workspace
  at,        \* the place of a window's Geometry
  scratch,   \* Scratchpad: its window, and whether it is shown
  session,   \* SessionStore's workspaces of monitors, as of the last start
  restarts

windows == <<managed, home, at, scratch>>
vars == <<layout, stale, monitors, focused, windows, session, restarts>>

Layouts == UNION {{l \in [S -> Place] : IsInjective(l)} : S \in SUBSET Output}
NoScratch == [win |-> None, shown |-> FALSE]
Covered(ms) == UNION {ms[n].area : n \in DOMAIN ms}
Showing(ms, id) == {n \in DOMAIN ms : ms[n].ws = id}

MonitorTypeOK ==
  /\ layout \in Layouts /\ stale \in BOOLEAN
  /\ DOMAIN monitors \in ((SUBSET Output) \cup {{Fallback}}) \ {{}}
  /\ \A n \in DOMAIN monitors :
       monitors[n] \in [area : (SUBSET Place) \ {{}}, ws : WorkspaceId]
  /\ focused \in DOMAIN monitors
  /\ managed \subseteq Window
  /\ home \in [Window -> WorkspaceId] /\ at \in [Window -> Place]
  /\ scratch \in [win : managed \cup {None}, shown : BOOLEAN]
  /\ restarts \in 0..MaxRestarts

----------------------------------------------------------------------------
(***************************************************************************)
(* MonitorManager.                                                         *)
(***************************************************************************)

\* A Monitor: what part of the screen it is, and its active workspace.
Monitor(area, ws) == [area |-> area, ws |-> ws]

\* QueryOutputs: never empty, "default" spans the whole display.
Names == Append(OutputOrder, Fallback)
Connected(l) == IF DOMAIN l = {} THEN {Fallback} ELSE DOMAIN l
DetectedArea(l, n) == IF n = Fallback THEN Place ELSE {l[n]}

\* WorkspaceTaken: by a monitor decided already, or by any not looked at yet,
\* even one about to go.
Taken_DecidedOnly(id, next, rest) == Showing(next, id) # {}
Taken(id, next, rest) == Showing(next, id) \cup Showing(rest, id) # {}

\* The workspace of a new output: its rule's, else the one it was last saved
\* with, else the first free one, else 1.
Placed_FirstFree(n, next, rest, saved) ==
  LET free == {id \in WorkspaceId : ~Taken(id, next, rest)}
  IN  IF Rule[n] \in free THEN Rule[n] ELSE IF free # {} THEN Min(free) ELSE 1
Placed(n, next, rest, saved) ==
  LET free == {id \in WorkspaceId : ~Taken(id, next, rest)}
  IN  CASE Rule[n] \in free -> Rule[n]
        [] Rule[n] \notin free /\ n \in DOMAIN saved /\ saved[n] \in free -> saved[n]
        [] OTHER -> IF free # {} THEN Min(free) ELSE 1

\* An output found by name among the old monitors keeps its workspace.
Known_Never(n, rest) == FALSE
Known(n, rest) == n \in DOMAIN rest

\* What Detect does with the next output, once those of done.next are decided
\* and those of done.rest are the old monitors not looked at yet.
Decided(l, done, n, saved) ==
  LET ws == IF Known(n, done.rest) THEN done.rest[n].ws
            ELSE Placed(n, done.next, done.rest, saved)
  IN  [next |-> [m \in {n} \cup DOMAIN done.next |->
                   IF m = n THEN Monitor(DetectedArea(l, n), ws) ELSE done.next[m]],
       rest |-> [m \in DOMAIN done.rest \ {n} |-> done.rest[m]]]

\* Detect, over the outputs in order.
Detected(l, old, saved) ==
  LET done[i \in 0..Len(Names)] ==
        IF i = 0 THEN [next |-> <<>>, rest |-> old]
        ELSE IF Names[i] \in Connected(l) THEN Decided(l, done[i - 1], Names[i], saved)
        ELSE done[i - 1]
  IN  done[Len(Names)].next

\* Primary: the output XRandR says is primary, which may be any; if it says
\* nothing, the leftmost.
Primaries(ms) == DOMAIN ms

\* m_focused, if its output is still there, else Primary.
Refocused_Kept(ms) == {focused}
Refocused(ms) == IF focused \in DOMAIN ms THEN {focused} ELSE Primaries(ms)

\* UpdateFocusedMonitorFromPointer: the pointer may be over any monitor, over
\* none, or a popup may be open.
Followed(fs) == fs \cup DOMAIN monitors'

----------------------------------------------------------------------------
(***************************************************************************)
(* Hotplug.                                                                *)
(***************************************************************************)

\* X server: outputs are connected, disconnected or moved.
Replug ==
  /\ layout' \in Layouts \ {layout}
  /\ stale' = TRUE
  /\ UNCHANGED <<monitors, focused, windows, session, restarts>>

\* Where a window is put when it is placed on monitor n.
On(ms, n) == Min(ms[n].area)

\* RelocateOrphanedFloatingWindows: onto the monitor that shows its workspace,
\* or the primary one; floating windows still on some monitor stay.
Orphan_Shown(w) ==
  w \in managed \ {scratch.win} /\ at[w] \notin Covered(monitors')
  /\ Showing(monitors', home[w]) # {}
Orphan(w) == w \in managed \ {scratch.win} /\ at[w] \notin Covered(monitors')
Relocated(w, primary) ==
  LET shown == Showing(monitors', home[w])
  IN  On(monitors', IF shown # {} THEN CHOOSE n \in shown : TRUE ELSE primary)

\* HandleMonitorEvent, HandleMonitorTopologyChanged
HandleMonitorEvent ==
  /\ stale /\ stale' = FALSE
  /\ UNCHANGED layout
  /\ monitors' = Detected(layout, monitors, session)
  /\ focused' \in Followed(Refocused(monitors'))
  /\ \E primary \in Primaries(monitors') :
       at' = [w \in Window |-> IF Orphan(w) THEN Relocated(w, primary) ELSE at[w]]
  /\ UNCHANGED <<managed, home, scratch, session, restarts>>

----------------------------------------------------------------------------
(***************************************************************************)
(* Commands and gestures.                                                  *)
(***************************************************************************)

\* UpdateFocusedMonitorFromPointer, FocusMonitorCommand
FocusMonitor(n) ==
  /\ n \in DOMAIN monitors \ {focused}
  /\ focused' = n
  /\ UNCHANGED <<layout, stale, monitors, windows, session, restarts>>

\* SwitchWorkspaceOnMonitor: refused for a workspace shown anywhere.
SwitchWorkspace(id) ==
  /\ Showing(monitors, id) = {}
  /\ monitors' = [monitors EXCEPT ![focused].ws = id]
  /\ focused' \in Followed({focused})
  /\ UNCHANGED <<layout, stale, windows, session, restarts>>

\* EndFloatingDrag, or MoveWindowToMonitor: it belongs to the monitor it is on.
MoveToMonitor(w, n) ==
  /\ w \in managed \ {scratch.win} /\ n \in DOMAIN monitors
  /\ home' = [home EXCEPT ![w] = monitors[n].ws]
  /\ \E p \in monitors[n].area : at' = [at EXCEPT ![w] = p]
  /\ UNCHANGED <<layout, stale, monitors, focused, managed, scratch, session, restarts>>

\* MoveFocusedToWorkspace: a floating window's geometry follows only to a
\* workspace another monitor shows.
MoveToWorkspace(w, id) ==
  /\ w \in managed \ {scratch.win}
  /\ home[w] = monitors[focused].ws /\ id # home[w]
  /\ home' = [home EXCEPT ![w] = id]
  /\ IF Showing(monitors, id) \ {focused} = {} THEN UNCHANGED at
     ELSE \E n \in Showing(monitors, id) \ {focused} :
            at' = [at EXCEPT ![w] = On(monitors, n)]
  /\ UNCHANGED <<layout, stale, monitors, focused, managed, scratch, session, restarts>>

\* ToggleScratchpadForFocused
ScratchAssign(w) ==
  /\ scratch.win = None
  /\ w \in managed /\ home[w] = monitors[focused].ws
  /\ scratch' = [win |-> w, shown |-> FALSE]
  /\ UNCHANGED <<layout, stale, monitors, focused, managed, home, at, session, restarts>>

ScratchToggle ==
  /\ scratch.win # None
  /\ scratch' = [scratch EXCEPT !.shown = ~@]
  /\ at' = IF scratch.shown THEN at
           ELSE [at EXCEPT ![scratch.win] = On(monitors, focused)]
  /\ UNCHANGED <<layout, stale, monitors, focused, managed, home, session, restarts>>

----------------------------------------------------------------------------
(***************************************************************************)
(* Restart.                                                                *)
(***************************************************************************)

\* SessionStore::Save: every connected monitor, every window but the
\* scratchpad's.
Saved ==
  [monitor |-> [n \in DOMAIN monitors |-> monitors[n].ws],
   window  |-> [w \in managed \ {scratch.win} |-> [ws |-> home[w], at |-> at[w]]]]

\* SessionStore::Load and Find: a window's record, if there is one.
Recorded(w) == w \in DOMAIN Saved.window
Restored(w, fresh) == IF Recorded(w) THEN Saved.window[w] ELSE fresh

Mapped(w) ==
  w \in managed /\ IF w = scratch.win THEN scratch.shown ELSE Showing(monitors, home[w]) # {}

\* Shutdown, then Initialize of the next WindowManager: AdoptExistingWindows
\* takes what is mapped or has a record, and Manage uses a record as it is.
Restart ==
  /\ restarts < MaxRestarts /\ restarts' = restarts + 1
  /\ ReplugWhileOff \/ ~stale
  /\ layout' \in IF ReplugWhileOff THEN Layouts ELSE {layout}
  /\ stale' = FALSE
  /\ session' = Saved.monitor
  /\ monitors' = Detected(layout', <<>>, Saved.monitor)
  /\ \E primary \in Primaries(monitors') :
       /\ focused' \in Followed({primary})
       /\ managed' = {w \in Window : Recorded(w) \/ Mapped(w)}
       /\ LET fresh == [ws |-> monitors'[primary].ws, at |-> On(monitors', primary)]
          IN /\ home' = [w \in Window |-> Restored(w, fresh).ws]
             /\ at' = [w \in Window |-> Restored(w, fresh).at]
  /\ scratch' = NoScratch

----------------------------------------------------------------------------

Init ==
  /\ layout \in {l \in Layouts : DOMAIN l # {}}
  /\ stale = FALSE /\ restarts = 0
  /\ session = <<>>
  /\ monitors = Detected(layout, <<>>, <<>>)
  /\ focused \in DOMAIN monitors
  /\ managed = Window /\ scratch = NoScratch
  /\ home = [w \in Window |-> monitors[focused].ws]
  /\ at = [w \in Window |-> On(monitors, focused)]

Next ==
  \/ Replug
  \/ HandleMonitorEvent
  \/ \E n \in Output \cup {Fallback} : FocusMonitor(n)
  \/ \E id \in WorkspaceId : SwitchWorkspace(id)
  \/ \E w \in Window : \/ \E n \in Output \cup {Fallback} : MoveToMonitor(w, n)
                       \/ \E id \in WorkspaceId : MoveToWorkspace(w, id)
                       \/ ScratchAssign(w)
  \/ ScratchToggle
  \/ Restart

Spec == Init /\ [][Next]_vars

----------------------------------------------------------------------------
(***************************************************************************)
(* Properties.                                                             *)
(***************************************************************************)

\* No two monitors show one workspace, however outputs come and go, if there
\* are workspaces enough for the outputs before and after (Monitor.h on
\* SetWorkspace).
EachItsOwnWorkspace ==
  \A id \in WorkspaceId : Cardinality(Showing(monitors, id)) <= 1

\* Hotplug leaves the workspace of every output that stays connected alone, as
\* a switch does that of every monitor but the focused one; no rule or saved
\* session takes it (README.md on multi-monitor).
SurvivorsKeepTheirWorkspace ==
  [][restarts' = restarts =>
       \A n \in DOMAIN monitors \cap DOMAIN monitors' :
         monitors'[n].ws # monitors[n].ws => n = focused /\ stale' = stale]_vars

\* Once a hotplug is handled, every floating window is on some monitor, shown
\* or not: switching to its workspace later never shows it nowhere
\* (README.md: "nothing is ever left positioned in space that no longer
\* exists").
FloatingIsReachable ==
  ~stale => \A w \in managed \ {scratch.win} : at[w] \in Covered(monitors)

\* Whatever outputs come and go, everything is somewhere, and nothing twice.
MonitorSafety == MonitorTypeOK /\ EachItsOwnWorkspace /\ FloatingIsReachable

\* After a clean restart with the same outputs every monitor is back on its
\* workspace, if no rule says otherwise (README.md on persistent monitor
\* preferences).
RestartRestores ==
  [][restarts' # restarts /\ DOMAIN monitors' = DOMAIN monitors
       /\ (\A n \in DOMAIN monitors : Rule[n] \in WorkspaceId => Rule[n] = monitors[n].ws)
     => \A n \in DOMAIN monitors : monitors'[n].ws = monitors[n].ws]_vars

\* The same for the scratchpad when it is shown.  No run checks this one, it is
\* false: only floating windows are relocated.
NothingOffScreen ==
  /\ FloatingIsReachable
  /\ ~stale /\ scratch.shown => at[scratch.win] \in Covered(monitors)

\* A restart loses no window: SessionStore's comment has a scratchpad window
\* adopted back as an ordinary one.  No run checks this one, it is false of a
\* window hidden there.
NothingLost == managed = Window

============================================================================
