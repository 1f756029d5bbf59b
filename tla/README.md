# Verification of KohikoDE

TLA+ models of the window manager, its session wrapper and two of its companion programs
(`src/src`, `src/include`, `src/scripts`), TLC configurations that check them on small instances, and
TLAPS proofs that hold for any number of windows, monitors and workspaces. Line numbers below are those of the sources; `PROJECT.json` maps every definition to
the lines it models.

Contents

1. The system: components, state, interactions, what is hard
2. The modules, and how they correspond to the code
3. The runs: what each asks, its bounds, what it shows
4. Fairness
5. The proofs
6. Where code and documentation disagree
7. Other behaviours found on the way
8. What is not modelled
9. Plan

## 1. The system

KohikoDE is a tiling window manager with its own bar, launcher, notepad, lock screen, power menu,
notifications and system tray in one process (`kohiko`), and companion programs (settings, audio,
network, Bluetooth) in others. The window manager is **single-threaded**: `EventLoop::Run` handles X
events until none is left, then ticks, then serves IPC and D-Bus, then sleeps at most a second. A
handler therefore never overlaps another handler. What overlaps is everything outside the process:

* **clients**, which map, unmap, resize, focus and destroy their windows at the X server whenever
  they like, including between two requests of one handler;
* **the X server's queue**, which delivers what they did later and in order;
* **`kohikoctl`**, whose commands come over a socket between any two events, also while the user is
  in the middle of something (a popup open, a button held);
* **hardware**: outputs that come and go;
* **restarts**: the process ends or crashes, a wrapper script starts another, which adopts its windows
  and owes the user a lock screen if there was one;
* **the buses**: applications on the session bus that crash with a cookie in hand, NetworkManager that
  changes while it is being read;
* **files**: application directories, the configuration and the cache, each with several writers;
* **one thread** besides the loop's: the launcher's index is built in it.

| component | state it keeps | operations | correct when |
|---|---|---|---|
| `WindowManager` (clients, focus) | `m_repository`, `m_focusedWindow`, `m_scratchpad`, popups, `m_focusBeforeModal` | `Manage`, `Unmanage`, `Arrange`, `Focus`, every `Execute` command and every `Handle…` of an event | trees, mapping, focus, scratchpad and monitors agree with the clients after every handler |
| `ManagedWindow`, `WindowRepository` | state, previous state, workspace, monitor, ignored unmaps, strikes | setters | as above |
| `BSPTree`, `LayoutEngine` | one tree per workspace, ratios, directions, insertion anchor | `Insert`, `InsertNextTo`, `Remove`, `Swap`, `Resize`, `Rotate`, `Flip`, `FindNeighbor`, placement rules | stays a tree with each window once; tiles apart and above the minimum; a close is local; a restart rebuilds it |
| `MouseManager`, gesture functions, `Animator` | mode, dragged window, resized window, drop target, tweens (all raw pointers) | press, motion, release, frame | ends clean; no pointer outlives its window; the dropped window belongs where it is |
| `MonitorManager` | monitors by name, focus, rules | `Detect`, `SwitchWorkspaceOnMonitor`, `Focus` | workspaces are not shared; survivors are undisturbed; nothing is left off screen |
| client events (`EventDispatcher`, unmap counting, `SystemTray`, XEmbed) | ignored-unmap counts, windows held back with deadlines, icons | `MapRequest`, `UnmapNotify`, `DestroyNotify`, dock request, tick | a close is never mistaken for an own unmap; a window is docked or managed, not both nor neither |
| `SessionStore`, `PlacementStore`, `PlacementHabitStore` | files: workspaces of monitors, floating geometry, placement rules; votes by class | save at exit or at each vote, apply at start, predict | a restart restores what the documentation says; a habit is earned |
| `LockScreen`, `LockRecovery`, `Authenticator`, `SessionLockBridge`, `kohiko-session` | locked?, lock marker, how far a handler has come, failures in a row | lock (by command, idle, suspend, logind, start), verify, unlock, crash, restart, end of the session | a session locked is locked again after any crash; ending it ends it |
| `RecoveryMode`, `Application::Run` | start-up marker | note the attempt, load, mark success | a configuration that crashes the start is tried once |
| `EventLoop` | tick deadline, X's queue, descriptors | one turn: events, tick, select, serve | nobody waits longer than an interval and a turn |
| `NotificationCenter` | toasts by monitor, their offsets and ages | Post, Tick | stacked without hole or overlap; each goes in time |
| `ScreenSaverInhibitor` | cookies with their owners | Inhibit, UnInhibit, owner vanishes | awake while one is held; a dead owner's is taken back |
| `AppIndex`, `AppDirWatcher`, `Launcher` | list, cache file, stamps, thread, watch; query, results, selection | build, reload, notice, type, scroll | the list becomes what the directories hold; none lost or twice |
| `Notepad`, `PowerMenu` | open?, text | open, type, close | one reads the keyboard; closing gives it back |
| `AppInstanceLock` | a socket file | knock, take over, raise | one window per application |
| `NetworkManagerClient`, `NetworkWindow`, `UiWindow`, `UiScrollView` | copy of the service, parked signals, page, focused and pressed widget, retired content | refresh, dispatch, interval, click, key, connect, prompt | copy and page catch up; no event reaches a freed widget |
| `SettingsWindow`, `ConfigWriter`, `ConfigMigration`, `Config` | fields, rows, carets; the file's lines; the file, its temporary and its backup | click, key, reset, save, migrate, recover, reload | carets in their text; the file whole; what is shown, saved and running agree; nobody's lines lost |
| window rules, key bindings, bars, wallpaper, drawing, D-Bus wire format, text parsing, systemd units | parsed options, pixels | pure functions and I/O | not a matter for a model checker |

What interacts with what: `EventDispatcher` calls one `WindowManager` handler per event;
`WindowManager` calls `BSPTree` to decide whether and where a tile fits, `MonitorManager` for who
shows what, `Scratchpad` for its slot, and X for the result; `Arrange` maps and unmaps, which comes
back later as events; `MonitorManager` changes under `WindowManager` on RandR events; the mouse
gestures call `Arrange` and `SyncFocusToPointer`; `SessionStore` reads all of them at exit.

`Application::Run` starts all of it under
`kohiko-session`, and two markers on disk pass from one process to the next. Kohiko Settings writes
the file that a starting Kohiko migrates, and asks a running one over IPC to load it.

The hard parts, each at its line, are the `hazards` of `PROJECT.json`. They fall in these groups:
long mixes of legal commands (a leaf left behind in a tree, focus on a hidden window); state read and
then used late (an ignored unmap counted for a window its client has just unmapped, a modal's
remembered focus, raw pointers of a gesture); races between a client, the queue and a timeout (XEmbed
docking); geometry at its limits (the search for a legal slot, slots rounded to cells); hotplug
and restart; crashes between two steps of locking, of a start, of a save; blocking calls (PAM, D-Bus)
in a single thread; several writers of one file or one socket; and callbacks that free what called
them.

## 2. The modules

| module | models | uses |
|---|---|---|
| `WindowManager` | the clients' state and every handler and command that changes it | – |
| `MouseDrag` | gestures and animations around all of `WindowManager`'s actions | EXTENDS `WindowManager` |
| `ClientWindows` | the race between clients, the X server's queue and the handlers | – |
| `MonitorManager` | outputs, workspaces on monitors, floating windows over hotplug and clean restarts | – |
| `PlacementHabits` | a class's votes and what is predicted of them | – |
| `BSPTree` | one tree, its geometry, its placement rules, the nudge of a new tile | EXTENDS `PlacementHabits` |
| `LockPromise` | what the lock screen promises, in three variables | – |
| `LockSession` | wrapper, start, lock screen, PAM, both markers; implements `LockPromise` | INSTANCE `LockPromise` |
| `Positions` | what is left of a list when some places stay, and which comes n-th | – |
| `NotificationCenter` | the toasts of each monitor | EXTENDS `Positions` |
| `EventLoop` | one turn of the loop on a clock, with toasts to tick | EXTENDS `NotificationCenter` |
| `SleepInhibition` | cookies, their owners, the bus between | – |
| `AppList` | the two deduplications, as pure functions of what the directories hold | – |
| `AppIndex` | directories, cache, stamps, build thread, watch | EXTENDS `AppList` |
| `Launcher` | the box over that list | EXTENDS `AppIndex` |
| `AppInstanceLock` | processes at one socket | – |
| `UiWindow` | lifetimes of the widgets of a window | – |
| `NetworkWindow` | kohiko-network against NetworkManager | EXTENDS `AppInstanceLock`, `UiWindow` |
| `ConfigFile` | the lines of a configuration file, reading and editing them | EXTENDS `Positions` |
| `SettingsEditor` | the clicks and keys that edit in Kohiko Settings: fields, rows, carets, focus | EXTENDS `Positions` |
| `SettingsWindow` | Settings, Kohiko, the user and the file | EXTENDS `SettingsEditor`, `ConfigFile` |
| `WindowManager_proofs` | theorems about the desktop and the gestures | EXTENDS `MouseDrag` |
| `ClientWindows_proofs`, `MonitorManager_proofs`, `BSPTree_proofs`, `NetworkWindow_proofs`, `SettingsWindow_proofs` | theorems | EXTEND their module |
| `LoopAndLauncher_proofs` | theorems about the loop, its toasts and the launcher's list | EXTENDS `EventLoop`, `Launcher` |
| `SleepAndLock_proofs` | theorems about the unattended session | EXTENDS `SleepInhibition`, `LockSession` |
| `MC…` | instances for TLC | EXTEND their module |

One action is one handler run to completion, with its trailing `Arrange`, refocus and record keeping,
because the event loop runs one handler at a time. The exceptions are where something else acts in the
middle of a handler: the X server *between* the requests of one `Arrange` (`ClientWindows`), a crash
between two steps (`LockSession`, `SettingsWindow`), NetworkManager between two blocking reads
(`NetworkWindow`), another process between two system calls (`AppInstanceLock`).

A definition named `X_Y` next to a definition `X` is a deliberately wrong variant (`Forgiven_Never`:
the reset forgotten). No action uses one. `PROJECT.json` lists for every checked property the
variant that breaks it, which shows that the property can fail.

### WindowManager

| variable | code |
|---|---|
| `managed` | `m_repository` |
| `state`, `prev`, `wsOf`, `monOf`, `strikes` | `ManagedWindow`'s `State`, `PreviousState`, `Workspace`, `Monitor`, `TilingMisbehaviorCount` |
| `tree` | the windows with a leaf in each workspace's `BSPTree` |
| `active` | `Monitor::ActiveWorkspace` |
| `focus` | `m_focusedWindow`, `MonitorManager::Focused`, and the window X sends keys to |
| `mapped` | what X shows, `Arrange`'s doing |
| `scratch` | `Scratchpad` |
| `popups`, `before` | open popups, `m_focusBeforeModal` |
| `dragging` | `m_activeDragWindow`, which `Arrange` leaves alone |

`ClientNext` holds what clients cause (`Manage`, `Unmanage`, `HandleConfigureRequest` with
`RecordTilingMisbehavior`, `HandleClientMessage`, and a client that calls `XSetInputFocus` itself),
`CommandNext` every command of `Execute` that changes this state, `InputNext` pointer crossings,
clicks, popups and `FocusIn`. Commands do not ask for an idle screen: they also come over IPC.

`Manage` chooses its placement freely among those the code can compute (rules, dialog parent, saved
placement, session): any workspace, tiled or floating, fullscreen or not. What geometry decides is
nondeterministic: whether a tree has room for one more (an empty one has), where the pointer is
(`UnderPointer`), and which window `m_repository`, an `unordered_map`, lists first or last
(`NextAvailable`, `TopFullscreen`). `BSPTree` models what decides it. The commands on `wsOf` and the
tree alone are written out where they are different in the code: `Relocate` is the part
`MoveFocusedToWorkspace` and `MoveWindowToMonitor` share.

### MouseDrag

`mouse` is `MouseManager`'s mode and window; `resizing`, `hover` and `tweens` are
`m_activeResizeWindow`, `m_dragHoverTarget` and `Animator::m_tweens`. All hold raw pointers. Reading
through one whose window is gone is undefined: the model loses writes through it, and lets a window
managed later under the same identity stand for one the allocator puts at the same address. Any
event of `WindowManager` may come between two steps (`Meanwhile`), except where the constants keep
them out (below).

### ClientWindows

`alive`, `viewable`, `inTray` are the server's; `wants` is what the client last asked for; `queue`
is what the server has sent and `EventDispatcher` has not yet handled. `ignored` is
`ManagedWindow::m_ignoredUnmaps`, `pending` with `expired` is `m_pendingXEmbedWindows` with its
deadlines, `icons` is `SystemTray::m_icons`. Which workspace is shown is abstracted to the set
`onScreen`, which `Switch` replaces by any other. `ArrangeCheck` is `GetWindowAttributes` with the
count, `ArrangeHide` the `XUnmapWindow`, `ArrangeShow` the rest; `Room` bounds the queue by
`MaxQueue`.

### MonitorManager

`layout` is what XRandR would answer, `stale` that its event is on the way; `monitors` with `area`
and `ws` is `m_monitors`; `home` and `at` are a window's workspace and where its geometry is.
`Detected` computes `Detect`'s result by going through the positions of the outputs in order, as the code does, so
that an early one is decided before a late one; `Decided` is one turn of that loop. The screen is `1..Places`; a monitor covers one place (the fallback
monitor all), a floating window is where its centre is. `Restart` is a clean exit (session saved) and
a start (detect, restore, adopt what is viewable or has a record).

### BSPTree

A node is named by its path from the root, so that parents, siblings and subtrees are prefixes, and
`Promote` is what the promotion of a sibling does to the paths below it. `tree.leaf` and `tree.split`
are the leaves' windows and the splits' direction and ratio; `anchor` and `focused` are
`m_lastFocused` and the window commands act on; `area` is the monitor's tiling area. `Slots` is
`LayoutEngine::Calculate` in whole cells, rounded as `Subdivide` rounds; `Plans` is `PlanReclaim`
with the search for a ratio at each ancestor, `Insert` what `TryTile` does with it. Ratios are
multiples of `1/Unit`; `Manage` is the tiling path of `WindowManager::Manage`: an insertion and the nudge of
`ApplyAdaptivePlacementNudge`, whose `Walked` trades places with `FindNeighbor`'s answer up to sixteen times
in each direction `PredictPositions` may name. With `Unit = 20` the bounds 1 and `Unit - 1` are the code's clamp to 0.05 and
0.95. In the code they are floats, of which `Resize` and the bisection can produce any: a coarse grid
makes the same kind of plan, with a coarser best ratio.

Of `PlacementHabits`, `Habits` are all tallies a class can have of its four sides, `Orders` the directions
`PredictPositions` may give for one (of two equally sure axes either may come first), `PredictedIn` the
workspace for one order of the hash map, `Counted` one turn of its loop. Votes are no variable: `HabitsAreEarned` goes through every
tally up to `MaxVotes`, for the places tiles really have in a state, and `Manage` through every
prediction some tally gives.

### LockSession

`wrapper` with `failures` is where `kohiko-session` is, `stage` how far `Application::Run` has come, `step`
how far the handler it is in has come. `lockMark` and `startMark` are the two files. Every step can be
followed by `Crash`, by TERM to kohiko or by the end of the session; while `step = "asking"` kohiko waits
for PAM and does nothing else. `setup` is chosen at login: when to lock (`lockscreen.after`), an account
without a password, a configuration that crashes the start.

`KeepsPromise` is the refinement: with `face <- Face` and `owed <- lockMark`, every step is one of
`LockPromise` or a stutter. `Face` takes the lock screen for up once the marker is written and for
down once it is removed, which is what makes each crash window come out right: between engaging and
writing the marker nothing is promised yet; between removing the marker and dropping the screen
nothing is owed any more.

### EventLoop and NotificationCenter

Time is counted in the cost of the slowest handler. `queued` and `socket` split the X events into those
select() sees and those a round trip of some handler has already read into Xlib's queue, where it does
not. `since`, `waited` and a toast's `left` are what the bounds are about.

### SleepInhibition

`inbox` is kohiko's connection: what the bus has accepted and `HandleMessage` has not seen. `held` is what an
application was answered and has not returned; it vanishes with a signal that only arrives if `AddMatch`
had been seen, and adding that match may fail. Any application may return any cookie, as the service asks nobody;
`stray` records the ones returned by who did not hold them.

### AppList, AppIndex and Launcher

The directories' content is a function from files to absent, hidden or shown. `Lists[disk]` are the lists
`Build` may make of it; it depends on the order the files are read in. The two loops of the deduplications are
recursive functions over the entries (`KeptById` and `Accepted` are their bodies), the three hash maps of the second
one function from keys to rows. The builder is a state
machine of its own, because it runs in a thread: looking (is the cache fresh?), scanning, scanned
(the stamps are read *after* the files), saving (a truncated file first), publishing, done. The scan is recursive, the
stamps and the watch are not: `Nested` are the files below an application directory, of which neither tells, and
`watched` the directories `AppDirWatcher::Initialize` found (those of files that are there, others perhaps, none where
inotify fails). `missed` is a history variable that says why the last change may go unseen, if it may.

### AppInstanceLock, UiWindow and NetworkWindow

`pc` is each process's place between its knock and its `listen`, or between its `close` and its `unlink`; a process
that could not knock, get a socket or bind it goes on (`"unguarded"`: without a lock). A widget is named by its kind and by how many
pages were built since its own, so that `SetContent` retires 0 to 1 and frees 1. `svc` is NetworkManager
and `nm` the window's copy; `wire` and `parked` are the signals poll() sees and does not see. `reading` is what
remains of a refresh: the service may change before each part, and each part may fail or time out, which leaves of the
lists some or nothing (`unread` says which parts). `link` says whether the bus was there and took the matches.

### ConfigFile, SettingsEditor and SettingsWindow

A file is a sequence of lines (a setting, a comment, a marker). `ed` is the editor; a text is empty or
one character, which is enough for a caret past its end. A binding that is typed is whole (`"1"`) or lacks its command (`"half"`),
which `Save` refuses; a comma is a key of its own only in the output of a monitor rule, where it ends the output when the
line is parsed again (`Parted`). `slip` says what moved the text from under the caret, `fault` records an access outside a
text or the rows. `unchecked` is the one case in which the errors `Save` asks for are older than the rows.
The Class cell of a window rule stands for its three text cells, of a monitor rule for the output; `"tile"` stands for the
four actions without a workspace. `disk` holds the file, the shared temporary and the backup; `at` and `pen` are each
saver's place in `ConfigWriter::Save` and the file its stream writes to, so that two savers can meet; `WriteTemp` may lose the end
of the lines unnoticed (`Flushed`). `kohiko.running` is what is in force, key by key: a reload changes all but `AtStart`, the
keys that the constructor, `Initialize` or the autostart reads.
What a loop keeps of a list (`GetAll`, `GetRawBlock`, `ReplaceRawBlock`, `VisibleFields`) is a function over the
places it keeps (`Positions`), and the migration a function over the schema's keys in their order: that is what makes
them provable. `synced`, `touched`, `foreign` and `spoilt` are histories, read by properties only: what the
window last knew of the file, what it changed since, whether another hand wrote the file in between, whether two saved at once or the
end of a write was lost.

## 3. The runs

Twelve runs, all pass, 40 properties. Each explores its instance completely; the bounds are the
constants of its configuration. Monitors and windows are a symmetry set where no constant tells them apart
and the run checks no liveness.

| run | configuration | distinct states | liveness |
|---|---|---|---|
| `desktop` | `WM_desktop.cfg` | 266,724 | |
| `popups` | `WM_popups.cfg` | 33,598 | yes |
| `drag` | `MouseDrag.cfg` | 489,966 | |
| `clients` | `ClientWindows.cfg` | 77,826 | yes |
| `monitors` | `MonitorManager.cfg` | 97,416 | |
| `tree` | `BSPTree.cfg` | 35,254 | |
| `session` | `LockSession.cfg` | 6,498 | yes, and a refinement |
| `loop` | `EventLoop.cfg` | 94,616 | |
| `sleep` | `SleepInhibition.cfg` | 219,908 | yes |
| `launcher` | `Launcher.cfg` | about 790,000 | yes |
| `companion` | `NetworkWindow.cfg` | 898,739 | yes |
| `settings` | `SettingsWindow.cfg` | 1,400,035 | |

(The `launcher` run's count varies a little: which of several equally good orders a `CHOOSE` takes
depends on how TLC numbers its model values.)

**desktop**: two monitors, three workspaces (one is always hidden, which is what switching, moving and
hiding need), two windows (enough for an order between them, a dialog and its parent, a window on each
monitor or both on one), threshold 2 (so that a count can be between 0 and the limit) and one window that
goes fullscreen. `WindowsAccountedFor` (trees and scratchpad against the clients' states),
`MonitorsNeverShare` and `MappedMatchesScreen` relate the parts of the state to each other after every handler.
`FocusStaysRight`: the focus is right (`FocusIsRight`: on screen, on the focused monitor, somewhere if there is
something to focus, the scratchpad's while that is shown, and where X sends the keys) until a pointer event is
handled whose window has been hidden since, which focuses that window (section 7), and right again as soon as a
handler gives the keyboard to another one. `StrikesRestart` and
`NobodyIsDisturbed` say what a step may not do: change what another monitor shows, take the focus with a
window that opens out of sight, move it by closing another window. No popup is opened here; section 7
says what popups change.

**popups**: one monitor, two workspaces, all three popups, and a client that takes the keyboard on its own.
`PopupsTakeTurns`: one typing popup at a time, and a window that opens beneath takes no keys.
`InputReturns`: the keyboard comes back to the popup.

**drag**: the same desktop with gestures. `DragEndsClean`: with no button held nothing is left dragged,
named or without its leaf, and nothing dangles; `DroppedWhereItIs`: what is mapped is where it belongs, but for
what is dragged, and after a drop too, unless a tile was dropped on nothing (section 6). `Disturb = FALSE` keeps commands and
the end of the *dragged* window out of a gesture; windows open and close around it, and every window, the dragged
one too, fights its tile's size and goes fullscreen during it. `Fallback = "new_workspace"` moves such a tile to
another workspace, in the middle of its own drag; `Threshold = 1` does so at the first request (`desktop` counts
up to a threshold). `TwoButtons = FALSE` keeps a second bound button out, `MidAnimation = FALSE` other events between
two frames of an animation, of which neither property speaks.

**clients**: an ordinary client and one with `_XEMBED_INFO`, a queue of up to three events before clients and
commands wait (three is a withdraw, a map and one more in flight for the same window; the handlers' own
events are not bounded). `ClosesAreNoticed` (every discounted unmap is in the queue, and no close is
taken for one), `NoneIsLost` (shown, docked, held back or gone, once the queue is empty),
`HeldBackOnlyForAWhile`. `GivesUp = FALSE`: a client does not withdraw a window that is still held back.

**monitors**: two outputs in two places that come, go and swap, three workspaces, a rule that pins one
output, one that names no workspace, one window, one clean restart. Two outputs are enough for the order
of `Detect` to matter. `MonitorSafety` (no workspace on two monitors while there are enough; a
floating window where a monitor is), `SurvivorsKeepTheirWorkspace`, `RestartRestores`.

**tree**: four windows in a 14x8 and a 7x13 area with gap 1 and minimum 3x2. Four are needed for a split whose
both children are splits, and for a plan that moves two ancestors. Ratios are quarters: one between the
extremes and the middle on each side. The areas are small enough that some inserts are refused, some need a
plan and some do not, and odd enough that halves are rounded. `TilesAreNeighbours` (apart, each one's
neighbour across the gap), `OthersKeepTheirRoom` (a new tile makes nobody too small, a closed one leaves its
room to its sibling), `ReplayRebuilds`. Where a tile and its neighbour lie is claimed as long as no tile is
squeezed to nothing (`NoneSqueezed`), and of the neighbours of tiles wider and higher than the gap: section 7
says what happens otherwise. Four votes for a side are the least
at which the minimum of three observations and the share of seven tenths disagree in both directions;
`HabitsAreEarned` covers all 625 tallies and 125 of three workspaces: the first vote for a side makes no habit and unmakes
none that had every vote. It also says that a walk towards a habit, where the code has laid the tree out and does walk (section 6.7),
ends at the edge, of trees of at most seventeen tiles (here four) that are all wider and higher than the gap.

**session**: every account and configuration (`After` all three, with and without a password, with and
without a configuration that crashes the start); three failures in a row are too many, where the
script has five: it takes a lock, an unlock and a start between two of them, so three is the least
that lets them differ. `LockSafety` (a bad configuration is tried once, among others), `KeepsPromise`
(the refinement), `StopEnds`, `LockedAgain`.

**loop**: an idle interval of 5, a prompt one of 2 and a frame of 1, in units of the slowest handler; one X
event that follows another at once, one noisy descriptor, one `kohikoctl`, two monitors with up to three
toasts that live for 2. The ratio of the intervals is not the code's (1000, 100, 16 ms): what counts is
their order, and that a handler takes time at all.
`NothingWaitsLong` and `ToastsBehave`.

**sleep**: two applications, three cookies (one has two while the other has one), one cookie returned by who does not
hold it (one application robs the other, or guesses), the match added or not, `EarlyCalls = FALSE`: no call
arrives before `Initialize` is through. `CookiesKeepAwake` (a held cookie works unless it is that one), `NeverWedged` (a dead
owner's cookie goes, with the match).

**launcher**: three `.desktop` files of one application (the user's own of an id, the system's of the same id, and
an older one of another id with the same name, in a subdirectory), two changes of them, directories that come and go, a watch on
some, all or none, one visible row, crashes at every point
of a save. `ListIsTrue` (what the cache calls fresh is; no application twice), `IndexCatchesUp`: both but for a last change of a
kind that `missed` names.

**companion**: two processes at one socket, one secured network hidden by the search, a right and a wrong
password. One process's window is modelled; it rests while the other starts and until it has come up when asked to, and a process without a lock is followed no further
than its start. Any one part of the copy may be unread at a time (`MaxUnread = 1`), and calls fail only where all matches were
added: a window without them promises nothing anyway. Deadlock is allowed: both may have ended. `MirrorIsCurrent`, `PageCatchesUp`, `OnlyHeldFieldDangles`, `OneWindow`.

**settings**: a boolean and a number, a list of bindings, one of window rules, one of monitor rules and a workspace's fields, over an
old file (a key missing, one set twice, one commented out, a binding with blanks) and a full one; four gestures and two events of others (Kohiko
starting, the user's own editor, a last flush that fails and leaves nothing of the lines, `MaxKept = 0`). A lost caret takes at most
four gestures (a cell, a character, a comma, a character), a clash of two savers two
events. Reset, Escape and Save in a focused block (section 7) take five gestures, so that no run sees them; the theorems do. `OnlyStaleCarets`, `WholeUnlessSpoilt`, `SavedIsShownAndRuns`, `OthersKept`. Deadlock is
allowed: the bounds may be used up. `ShownIsSaved` compares a block's rows with the file's without their blank
lines, which `Save` leaves out and keeps on screen, and asks of a workspace's field, which is read from the file and not
from the copy, only while no other hand wrote the file and no save is under way. `OthersKept` asks of a migration nothing about
keys the file lacked.

## 4. Fairness

Nothing is assumed of a user, a client or a crash: only that Kohiko's own code goes on.

* `LiveSpec` of `WindowManager`: weak fairness of `HandleFocusIn`. The X server reports every focus change,
  and `EventLoop::Run` takes events until `XPending` says none is left.
* `FairSpec` of `ClientWindows`: weak fairness of `Dispatch` and `ArrangeNext` (the same loop; a handler
  that has begun ends) and `DeadlinePasses` (time goes on), strong fairness of `TickPending`: the tick is
  skipped while there are events, and comes back at most a second after them. Strong fairness assumes that
  the queue is empty again and again; the loop at `EventLoop.cpp:91` does not tick while clients keep it
  full for ever. That assumption is the client's and not the code's.
* `FairSpec` of `LockSession`: weak fairness of the script's steps (`Launch`, `WaitReturns`,
  `BackoffEnds`, `KillStuck`, `Stopped`) and of kohiko's start (`StartNext`) with the writing of the
  marker. Nobody is bound to lock, unlock, log in, crash, or answer PAM.
* `FairSpec` of `EventLoop`: weak fairness of a turn (`LoopNext`); its properties are bounds on the clock,
  which need none.
* `SleepInhibition`: weak fairness of `ServiceNext`, kohiko reading its bus connection. Applications need not
  return anything.
* `Launcher`: weak fairness of the builder thread (written as what it means, `[]<>~ThreadRuns` or infinitely
  many steps, because that is cheaper to check), of a start and of the handlers of the watch. The
  property asks nothing of runs in which kohiko keeps dying.
* `NetworkWindow`: weak fairness of `Reads`, `Dispatch` and `Interval`: the blocking calls return, `poll`
  returns when there is something, the window's refresh interval passes.

## 5. The proofs

Eight modules hold theorems, each about a specification of its own and about every value of its
constants: any windows, monitors, workspaces, thresholds, processes, access points, outputs or bounds. What is
assumed of constants are the named assumptions of the modules (identities are distinct, there is a
workspace, sets that the code keeps in vectors are finite, the options are legal). A theorem that needs
more says so itself, in an `ASSUME … PROVE`; these further hypotheses exclude behaviours section 7 describes (`Patient` a timing: a
toast lives for 2.5 s, a handler for milliseconds), and the run that checks the property has the constants they ask for.

| theorem | the property | needs |
|---|---|---|
| **`WindowManager_proofs`** | | |
| `TypeCorrect`, `Consistency` | `TypeOK`; the focused and the scratchpad's window are managed ones | |
| `TreesMatchClients` | no handler leaves a leaf behind or loses one | |
| `ScratchpadIsKnown` | the scratchpad's slot and its window's state agree | |
| `WindowsAreAccountedFor` | `WindowsAccountedFor`, both of these | |
| `NoSharedWorkspace` | `MonitorsNeverShare` | |
| `SwitchesAreLocal` | a step changes at most what the focused monitor shows | |
| `TilingForgives` | `StrikesRestart` | |
| `ScreenIsRight` | `MappedMatchesScreen` | `~ScratchFullscreen` |
| `KeyboardIsRight` | `FocusStaysRight` | `Calm` |
| `RestIsUndisturbed` | `NobodyIsDisturbed` | `~ScratchFullscreen` |
| `PopupsDoNotClash` | `PopupsTakeTurns` | |
| `GesturesEndClean` | `DragEndsClean`, of `MouseDrag` | `CalmGestures` |
| `DroppedWhereTheyAre` | `DroppedWhereItIs`, of `MouseDrag`, for any threshold and fallback | `CalmGestures` |
| **`ClientWindows_proofs`** | | |
| `ClosesComeThrough` | `ClosesAreNoticed` | `~GivesUp` |
| `WindowsAreNotLost` | `NoneIsLost` | |
| **`MonitorManager_proofs`** | | |
| `HotplugIsSafe` | `MonitorSafety` | more workspaces than outputs, `~ReplugWhileOff` |
| `HotplugSparesOthers` | `SurvivorsKeepTheirWorkspace` | |
| `RestartIsFaithful` | `RestartRestores` | more workspaces than outputs |
| **`SleepAndLock_proofs`** | | |
| `SessionIsSafe` | `LockSafety` | |
| `PromiseIsKept` | `KeepsPromise`, the refinement of `LockPromise` | |
| `HeldCookiesWork` | `CookiesKeepAwake` | |
| `UnheldCookiesComeBack` | a cookie nobody holds is on its way back: `NeverWedged` but for its liveness | says `~EarlyCalls`, and of dead owners `matched`, itself |
| **`LoopAndLauncher_proofs`** | | |
| `NobodyWaitsLong` | `NothingWaitsLong` | |
| `ToastsComeAndGo` | `ToastsBehave` | `Patient` |
| `ListStaysTrue` | `ListIsTrue`, for any number of files, whatever they say and wherever they lie | says `missed` itself |
| **`NetworkWindow_proofs`** | | |
| `OneWindowUnlessRaced` | `OneWindow`, for any number of processes | says `raced` and unguarded processes itself |
| `NoOtherWidgetDangles` | `OnlyHeldFieldDangles` | |
| `CopyIsCurrent` | `MirrorIsCurrent`, for any number of failed reads | says `unread` and `link` itself |
| **`BSPTree_proofs`** | | |
| `TreeStays` | `BSPTypeOK`, for any number of windows and any depth | |
| `TilesStayNeighbours` | `TilesAreNeighbours`, for any area and gap | |
| `InsertSparesOthers`, `CloseIsLocalAlways`, `OthersKeepRoom` | `OthersKeepTheirRoom`, for any floor and any plan | |
| `ReplayAlwaysRebuilds` | `ReplayRebuilds`, for a tree of any depth | |
| `HabitsStayEarned` | `HabitsAreEarned`, for any tallies, workspaces and places of a tile | |
| **`SettingsWindow_proofs`** | | |
| `NeverTorn` | `WholeUnlessSpoilt` | |
| `SaveIsInForce` | `RunningIsSaved`, the part of `SavedIsShownAndRuns` about Kohiko | |
| `SavesSpareOthers` | `OthersKept`, for any file, schema and defaults | |
| `SavedShows` | `SavedIsShownAndRuns` | |
| `FaultsAreSlips` | `OnlyStaleCarets`, for any number of gestures | |

`Calm` is: no popups, no clients that take the keyboard, no fullscreen of the scratchpad's window, at most
one client that goes fullscreen, and a misbehaving tile is floated where it is (or tolerated). Each of these is
necessary; section 6.2, 6.3 and section 7 say what happens otherwise. `CalmGestures` is: the dragged window does
not close during the gesture and there is no second button. `Patient` is: serving every other descriptor once
takes no longer than a toast is shown. A shorter lifetime than that is used up before the tick is pulled forward.

### The invariants

No property of the list is inductive as it stands. What is proved instead, and why it is needed:

* **`Consistent`** (desktop): types and trees together. `SyncFocusToPointer` and the pointer handlers focus whatever
  window has a leaf where the pointer is; that it is a *managed* one is what `TreeMatchesClients` says. One
  lemma per handler says what it does to clients and trees (`…Clients`) and that all of `Consistent` survives
  (`…Keeps`), on top of lemmas about the operators handlers share: `ArrangedMapsManaged`, `FocusType`,
  `NextAvailableType`, `SyncType` and the like state what `Arrange` and the focus functions return in a
  state that is `Settled`. `NoSharedWorkspace` and `SwitchesAreLocal` add `OneHiddenWorkspace`: a step
  shows at most one workspace that no monitor showed, on the focused monitor.
* **`Screened`**: `Consistent`, the scratchpad's slot and what is mapped. `Arrange` brings the screen in order
  (`ArrangeIsRight`), and the handlers without one have to leave it so: hence the invariant says too
  that nothing fullscreen came from the scratchpad and that its window is mapped just when it is shown.
* **`Ordered`**: `Screened`, `MonitorsNeverShare` and who may be fullscreen (`Plain`); with `FocusIsRight` it is `Orderly`,
  which every step keeps but a late pointer event. The focus functions read the screen a handler has just settled; their
  lemmas say that each returns a focus that is right on that screen (`RightNext`) from one that may not be, or else
  one whose keyboard went to no other window: that is how the focus becomes right again (`HandedIsRight`).
* **`KeysAreSeen`** and **`KeysAreManaged`**: the keyboard is with a mapped, or a managed, window if it is with a window at all.
  `KeyboardIsRight` knows *which* window that is but needs `Calm`; these two hold with popups and thieves too, and are all
  that a window opened out of sight needs to leave the keyboard where it was. One lemma per focus function serves both
  (`Keyed(S)`, the focus values whose keys go to a window of `S`, for `S` what will be mapped and what will
  be managed); `KeptMapped` says that `Arrange` unmaps nothing that was rightly mapped and is neither moved nor changed.
* **`Gesture`** and **`Carrying`**: what `MouseManager` remembers is one managed window, and a window that is moved is the one
  that `Arrange` leaves alone, from the press to the release. Every handler with an `Arrange` brings all it maps
  to where it belongs (`ArrangeBelongs`), from whatever was mapped before; the others must leave it there (`NextBelongs`).
* **`Accounted`** (clients): `Tidy` says what order the queue is in (a destroyed window's `DestroyNotify` is its last event,
  whoever is gone has one coming, map requests are those of clients that want to be mapped); `Balanced`
  is the account behind `ignored`: unmaps to discount, plus one if the client wants the window gone, plus one
  if it should be on screen and is not, are at most the unmaps on their way. With an empty queue all three are
  zero, which is both theorems at once. Counting events of a queue is by cardinality of positions.
* **`Placing`**, **`Differing`** (hotplug): monitors are where the outputs are; their workspaces differ. The work
  is in `Detect`, a loop over outputs in order: `LoopKeeps` says that the decided ones are sound and those not yet
  reached are as before, `Apart` that no workspace is given twice while there are enough; both hold after any
  number of outputs by induction (`DetectKeeps`). `DetectReplays` runs the loop beside the saved
  session of a restart.
* **`Bookkeeping`** (session): which marker can be there at which `stage` and `step`, and what PAM's answer means
  there. Of the refinement, initial states map to initial states, and every action is shown to be a step
  of `LockPromise` or a stutter of its three variables (`Face`, the marker, the answer).
* **`OnTime`** (loop): a budget of lateness. Every turn of the loop serves the descriptors it found ready, at most all of
  them; X events are taken from a burst that is counted; so `due` is never below what the rest of the burst and
  one turn cost.
* **`InTime`**, with `Stacked` (toasts): a toast's place is how many older ones its monitor has. Erasing others changes that on
  their monitors only (`OlderRemains`, by a bijection between the positions before and after), which is why restacking those is enough.
  A toast that the next tick comes for (`Reached`) is due with it, one posted in this turn (`Fresh`) has its lifetime for the rest of the turn.
* **`WellKept`**, **`Recorded`** (launcher): what either deduplication has made of the entries it has seen has each id once and a
  row in every *family*, a set of entries closed under being alike, that it has seen one of. The second needs to know more: a
  key leads to a row of the family of every entry with that key (`KeysLead`), although the row may by now show an
  entry that has not that key itself. Induction over the entries (`ByDesktopIdWell`, `AcrossIdsWell`) makes it true of every list
  of any directories (`EveryListIsWhole`).
* **`IndexInv`** (launcher): the list on its way from the scan over the stamps to the cache is one of what the directories hold, or
  the change that made it old is on record; a change between two of the thread's steps puts the directories' time past every stamp
  there is. `LoopInv` ties the loop to the thread and the watch, `BoxInv` the selection and the scrolled part to the rows.
* **`HeldWorks`**, **`ComesBack`** (sleep): what an application holds the service has under its name, what is on its way
  back is held by nobody, strays apart, and the message that a client is gone stands behind its calls.
* **`SocketInv`**, **`TreeInv`**, **`CopyInv`** (companion): who owns the path at which step of the start; which
  widget a stale pointer can name; and which part of the copy is current at which point of `Refresh`, which
  reads one part after the other while the service goes on.
* **`TreeInv`** (tree): `IsTree` is `BSPTypeOK` with a bound on the length of paths. Without it an infinite tree satisfies the type
  invariant too: every split has its children, and no leaf is where `AnchorLeaf` and the walk of `Representative` look for one. One
  lemma per operation says what it does to the *shape*, the set of leaves and the set of splits: `SpliceInTree`, `ShapePromoted` (the
  sibling in its parent's place, by the renaming `Promoted` and the one back), `ShapeFlipped`; the others only change what hangs there.
* **Slots** (tree): `Slots` is shown to exist and to be what `Subdivide` cuts, node by node. What holds at the root and of the children
  of every split it holds of, holds everywhere (`Downwards`); what holds of the leaves and of every split of whose children it holds,
  too (`Upwards`). So: a tree none of whose tiles is squeezed loses no cell in any split (`RoomyNodes`), every node lies inside
  the ones it hangs from (`SlotsNest`), and two leaves are apart because they lie on different sides of the split where their ways part.
* **Making room**: a larger slot, and a ratio in its favour, make no child smaller, rounding included (`SubdivideGrows`,
  from `FirstGrows` and `SecondGrows` about products and quotients). Hence on the way to the anchor no slot shrinks by a plan
  (`WayGrows`), and each branch the plan takes from bears in at least the slot it was measured in: that is why
  deciding each ancestor by itself, in the slot it has before the wider ones move, is safe if pessimistic (section 6.6).
* **Neighbours**: the border of a tile is the area's or that of a child in one split (`EdgeComesFrom`, downwards); across that split
  some tile at the border faces it, if it is longer than the gap (`OneFaces`, upwards). Whatever is ahead is at least the
  gap away (`AheadIsPastTheGap`), so the nearest is exactly there; and the order of gap, overlap and walk has a first
  (`NearestExists`), so `FindNeighbor` does answer.
* **Replay**: `Before` orders the splits (`BeforeIsOrder`), so a finite set of them is numbered by how many come before each
  (`RankGrows`, `OrderFacts`). After any number of rules the tree is `Rebuilt` from the splits they came from, which are closed under
  parents (`FromRoot`), with the *first* window below every leaf that is yet to be split: the rule of a split finds its neighbour on just
  that leaf, because going left from the split and going left from its left child end at one leaf (`RebuiltNext`).
* **Votes**: an order of the workspaces has a running total, which `Ballots` and `Total` make independent of the order (`BallotsAdded`),
  and only one workspace can have seven tenths of it (`WorkspaceIs`); so the hash map's order decides nothing, and one vote more
  is arithmetic (`TotalGrows`, `OneVote`, `FirstVote`).
* **Walks**: trading places moves windows and no leaf, so each hop leads to the leaf the neighbour relation of the *first* tree names
  (`FoundLeaves`, `HopGoes`); that is across the gap, hence further along (`AcrossIsFurther`). A walk that had not arrived after sixteen hops
  would have climbed through eighteen leaves with the next one (`Climbing`, `WalkArrives`). That is what the bound on the number of tiles
  in `WalksToTheEdge` is for, and the bound on their size is what `NeighbourAcross` needs.
* **`InTurn`**, **`RunsTheFile`** (settings): as long as nobody clashed and no end of a write was lost, one writer at a time is
  between opening and renaming, and the file it left is empty, complete or renamed; what runs is the file, but for the keys read at
  start, unless news are on their way.
* **`EditorOK`**, **`TextsOK`** (settings): every text, row and line is one of its kind, and *unless a slip is on record*
  (`slip`) the caret is within its text, on a row and in a cell that are there, and a workspace cell is one of a row that
  has a workspace. One lemma per key and click (`TabOK`, `RawKeyOK`, `StructuredKeyOK`, `RemoveRowOK`, `ResetVisibleOK`,
  …) says that it survives and that nothing counts as loaded that was not (`Edits`). So a fault has a slip to explain it.
* **`CopyKept`**, **`InSave`**: the copy has of every key nobody touched what the file had when it was last read or written; what a
  writer has written is what it holds; without another hand the file is what the window knows. They rest on what
  `ConfigWriter`'s operators do, proved for any lines: `SetScalarSets` and `ReplacesBlock` (what is written is read back, every other
  key's values and every comment stay, in order), `MigrationSpares` (over the schema's keys one after the other),
  and below them `SameInOrder`, which counts the places of two lists along a map that keeps the order.
* **`ShownOK`**: what counts as loaded is what the copy says (a block's blank lines apart: `NonBlankTwice`), and a
  workspace's field what the copy says now or said when it was last in step with the file.

### Induction

The library's induction theorems take an operator as a parameter, which the provers cannot instantiate.
An induction over a *set* of numbers needs none: `MonitorManager_proofs` (like `BSPTree_proofs` for the depth of a tree and
`LoopAndLauncher_proofs` for the entries of a list) derives `LeastNumber` and `Induction`
(a set with 0 and the successors of its members is `Nat`) from the well-foundedness of `<`, shows with it that the recursive function
`Detected` chooses exists (`RunExists`), and proves what its loop keeps. For this `Detected` is a function over
the positions of the outputs and no recursive operator; `Migrated` in `ConfigFile` is one over the schema's keys
(`MigrationExists`, `MigratedInTurns`), `Replay` one over the rules (`ReplayExists`), `Walked` and `Nudged` over the hops (`WalkExists`)
and `PredictedIn` over the workspaces (`CountExists`).

### Only model-checked

* Liveness: `InputReturns`, `HeldBackOnlyForAWhile`, `NeverWedged`, `StopEnds`, `LockedAgain`, `IndexCatchesUp`,
  `PageCatchesUp`. The prover has no `ENABLED`.

Every invariant and every action property of the runs is a theorem, some under the conditions the table names.

## 6. Where code and documentation disagree

None of these is checked by a run: a configuration here only holds properties that are true. Those with a
property's name can be reproduced by adding it to the configuration named and changing the constants
given; the rest were met while reading.

1. **A freed window is used** (`NoFreedWindow` of `MouseDrag`). `Unmanage` (`WindowManager.cpp:2109`)
   frees the window and neither cancels its animation nor clears `m_dragHoverTarget`; the next frame or
   the end of the gesture reaches through the pointer. `Animator.h:41-42` describes `Cancel` as
   "used when a window is closed/unmanaged mid-animation"; nothing calls it.
2. **The launcher goes deaf** (`LauncherHears` of `WindowManager`, `WM_popups.cfg`). When a command over IPC
   or a close empties the focused monitor, `FocusNextAvailableOn` gives the keyboard to the root window
   although the launcher is open, and no `FocusIn` comes to undo it. `README.md:1312` says the launcher
   depends on holding the input focus.
3. **The focused window is not the one with the keyboard** (`FocusIsRight` of `WindowManager`, `WM_desktop.cfg` with
   `FullscreenClients = {w1, w2}`).
   With two fullscreen windows on a workspace, `Arrange` maps the last and `FocusMonitor` focuses the
   first. `WindowManager.h:611-612` says the bar shows "whatever window actually holds real X input focus
   right now".
4. **Unplugging leaves a shown scratchpad where no monitor is** (`NothingOffScreen` of `MonitorManager`):
   `RelocateOrphanedFloatingWindows` looks at floating windows only. `README.md:797-800`: "nothing is ever
   left positioned in space that no longer exists".
5. **A restart loses a hidden scratchpad window** (`NothingLost` of `MonitorManager`): it has no session
   record and is unmapped, so `AdoptExistingWindows` skips it. `SessionStore.cpp:184-185` says it "just gets
   adopted back as an ordinary window".
6. **A tile is refused although there is room**: `PlanReclaim` decides an ancestor's ratio in the slot it has
   before the wider ones move, and keeps it (four windows in an area of 15x3 cells). `BSPTree.h:377-381`
   says it gives up only "if no combination of shrinks, however extreme, would create enough room".
7. **The nudge does nothing on a shown workspace**. `ApplyAdaptivePlacementNudge` (`WindowManager.cpp:3505-3550`)
   asks `FindNeighbor` before anything has laid the tree out: on a shown workspace the new leaf still has
   the geometry {0,0,0,0} and no tile faces it. On a hidden one it works, but with habits on both axes the
   second walk may undo the first. The comment at 3526-3533 says it walks
   "until there's nothing left in that direction", and `README.md:1761-1772` that new windows are placed on the
   habitual side. (`shown` of `BSPTree.Manage`.)
8. **Newest is not always closest to the corner** (`NewestInCorner` of `NotificationCenter`, `loop`'s
   configuration). A toast is put above those that are there (`NotificationCenter.cpp:58-59`);
   `NotificationCenter.h:62-63` says the newest is closest to the corner and older ones are pushed up.
9. **A commented key counts as missing**: `ConfigMigration.h:41-46` and `README.md:618-632` say that a key
   mentioned in a comment is "already there"; `Contains` looks at active lines only, and the migration
   adds it.
10. **Changes of the application directories are lost**: `AppIndex.h:76-81` says of stamps that match that `Build` "would
    produce the same result", and `README.md:1321-1325` that the list "refreshes itself the moment a `.desktop` file is installed,
    edited, or removed". `missed` in `AppIndex` names four kinds of change of which at least one of the two is not true:
    * `"nested"`: `ParseAllDesktopEntries` (70) goes into subdirectories, `CurrentDirStamps` (443-460) and
      `AppDirWatcher::Initialize` (47-63) do not. Nothing notices such a change, and the cache passes for fresh after a restart too.
    * `"in place"`: an edit changes no directory's time. The watch notices it; the rebuild it causes finds the cache fresh.
    * `"unstamped"`: a change between a build's scan and its stamps, which count it as seen.
    * `"unwatched"`: a change before the watch begins (`WindowManager.cpp:117`, `:124`), in a directory that was created
      after it, or where inotify fails. The cache is stale then, and the next start notices.
11. **Torn files**: `ConfigWriter.h:47-51` says that a write that is interrupted partway, "disk full, killed process, ...", "can
    never leave kohiko.conf half-written". Two things do (`spoilt`; `WholeUnlessSpoilt` fails without its premise):
    * two savers share `.kohiko-settings.tmp`, so that the rename of one can publish the other's half-written file;
    * `Save` asks `good()` while the end of the lines is still in the stream's buffer (`ConfigWriter.cpp:82`). The destructor flushes it;
      if the disk is full then, nobody is told, and the shortened file is renamed over the configuration (91). Nothing calls `fsync`.
12. **A tile dropped on nothing need not be where it was**: `EndSwapDrag` without a target (`WindowManager.cpp:1348-1354`)
    arranges nothing, as "the tree assignment was never touched during the drag" and the window snaps "back to exactly
    where it was". While it was held `Arrange` passed it over; if its workspace left the monitor meanwhile (a dialog
    raised its parent's, or the misbehaviour fallback moved the tile to a hidden workspace) the tile stays mapped
    over another workspace until something else arranges. (`SnapsBack` in `DroppedWhereItIs`; the run violates
    the property without it.)
13. **A reload does not put everything in force**: `README.md:564-569` says that Save asks a running Kohiko "to pick it up immediately",
    so that "there's never a reason to restart Kohiko"; 612-615 names `auto_start_programs` and `workspace<N>=` as "the one exception".
    `ReloadConfig` (`WindowManager.cpp:3137-3166`) does not configure the launcher, the notepad, the power menu and the lock screen
    (117-120, in `Initialize`), nor the bars (4113, when monitors change), and `workspace.count` is read by the constructor only (39).
    (`AtStart`; the run violates `RunningIsSaved` without it.) A monitor rule waits for a hotplug, which `config/default.conf:131-136` says.
14. Small ones: `EventLoop.h:27` says there are no threads anywhere in Kohiko, against the launcher's `m_buildThread`;
    `SessionStore`'s comments speak of version 3, `kFormatVersion` is "KOHIKO_SESSION_V2";
    `ArrangeMonitor` takes an unset `outer_gap` for 6, `TryTile` for 8, where a comment says that the two agree
    exactly; `BSPTree.h` speaks of a window's own minimum size, `EffectiveMinSize` uses the configured floor
    only; `PlacementHabitStore.cpp:22-24` says a single contrary move should not visibly flip a prediction, which it does to one
    of four votes against one, and the next agreeing one flips it back (only a habit with every vote stays);
    `NetworkManagerClient.h:160-182` speaks of "a usable secret", which is one that is not empty.

## 7. Other behaviours found on the way

No line of the repository promises the opposite of these; they are what a maintainer should know, and why
some runs restrict a constant. Those with a property's name violate it when the configuration is changed
as described.

*Windows and focus*

* `FocusIsRight` after a late pointer event: `HandleEnterNotify` (`WindowManager.cpp:740-743`) and
  `HandleButtonPressOnClient` (863-864) ask whether the window is managed and not whether it is still shown. An event that was queued
  before a switch or a toggle of the scratchpad hid its window makes that one the focused one. `FocusStaysRight` excepts exactly
  these (`LateEvent`).
* `FocusIsRight` with `Popups = {"launcher"}`: `m_focusBeforeModal` is kept while a command hides that window;
  closing the launcher focuses a window nobody sees.
* `FocusIsRight` with `Fallback = "new_workspace"`, `Threshold = 1`: the focused window misbehaves, is moved to
  a hidden workspace and stays focused.
* `MappedMatchesScreen` with `ScratchFullscreen = TRUE`: `_NET_WM_STATE` fullscreen of a hidden scratchpad
  window maps it.
* `DragEndsClean` with `TwoButtons = TRUE`: a second bound button replaces the gesture, whose window stays in
  `m_activeDragWindow`; `Arrange` leaves it alone from then on. With `Disturb = TRUE`: the dragged window closes
  during its own gesture and `MouseManager` keeps the pointer.
* `NoGhost` of `ClientWindows`: `ArrangeShow` maps a window its client has just withdrawn, and the queued
  `UnmapNotify` only unmanages it: a mapped window that nobody manages.
* `ClosesAreNoticed` with `GivesUp = TRUE`: a window withdrawn while it is held back is managed and mapped at its
  deadline.
* `MonitorSafety` with `ReplugWhileOff = TRUE`: `Manage` uses a saved floating geometry as it is, also when its
  monitor is gone. With three outputs (`OutputOrder <- Three`) and `NumWorkspaces = 2`: beyond the plain
  lack of workspaces, those of outputs about to disappear count as taken.
* A shown scratchpad released by `ToggleFloating` after an unplug stays off screen; a floating window keeps its
  geometry when another monitor comes to show its workspace; a toast keeps its monitor's old rectangle.
* A split of a slot that is narrower than the inner gap starts its second child past the slot's edge, with no width
  (`Subdivide`): of tiles squeezed to nothing some lie outside the area. And a tile no wider than the gap may face nothing but the gap
  between two others: `FindNeighbor` then finds one further away, or none. A walk of the nudge may then step over a tile, and among more
  than seventeen tiles it may end before the edge (`kMaxHopsPerDirection`).
* The first window of a workspace is never refused, however small the area is (`BSPTree.cpp:90-96`); `OthersKeepTheirRoom` is about the
  ones Insert adds to others.
* Closing a tile can push another, manually resized one below the minimum, when its split's direction is
  derived anew (four windows; not with three).
* Session restore replays placement rules in the order windows are adopted, which is X's stacking order and
  not the rules'; a rule whose neighbour is not there yet is skipped. `ReplayRebuilds` says that the
  rules in their own order suffice.
* `SwapWindows` lets the displaced window vote as well: two windows of one class vote for both sides with every
  swap, and no habit can form. `PlacementHabitStore::Save` and `HistoryStore::Save` truncate their file in
  place.

*Session, sleep, loop*

* `NeverWedged` with `EarlyCalls = TRUE`: a cookie taken and its owner dead before kohiko's `AddMatch` arrives stays.
  So does any dead owner's when the match could not be added: `ScreenSaverInhibitor.cpp:125` says that it leaks. The death of the
  session bus leaves all cookies. `UnInhibit` does not ask whose cookie it is (314-322): whoever returns another's lets the display
  sleep in its film. `CookiesKeepAwake` and `NeverWedged` except exactly these two.
* `SessionLockBridge.cpp:62` connects to the session bus; logind is on the system bus.
* `kohiko-session` killed by TERM between `&` and `child_pid=$!` leaves kohiko running. TERM during the
  backoff, or SIGKILL, leaves the lock marker; a failed start leaves the start-up marker. The lock marker is
  written after logind has been told.
* Descriptors are not close-on-exec: `kohikoctl dispatch exec` waits for the program it starts.
* Messages that libdbus queued during `Initialize` are not seen by `select` until others come.

*Launcher*

* Hidden entries are dropped before the deduplication by id (`AppIndex.cpp:82-92`, `101-105`), so that a hidden override does not hide what it overrides.
* `DeduplicateAcrossIds` keeps the first entry's keywords only. Escape and a click outside record a
  launch. Ctrl+U leaves the old matches; typing keeps the selected row's number; a reload updates matches
  without drawing them. `StartIndexRebuild` joins the thread on the UI's. The score of an empty
  query can equal "no match" (`LauncherScoring.cpp:427`).

*Kohiko Settings*

* `OnlyStaleCarets` names four ways to a caret outside its text: Tab into a structured block
  (`SettingsWindow.cpp:785-795`), Reset to Default while typing (1938-1960), the action button with the
  workspace cell focused (1790-1813), and a comma typed in the output of a monitor rule: the line that `SetStructuredCellText` writes
  (1707-1716) is parsed again up to the first comma (1645-1664), the caret stays behind it, and the next character is
  inserted there (1297).
* Errors are those of the last check (1884-1886). Reset to Default empties them with the rows; Escape, Left or Right in the focused block then
  adds the default row and checks nothing (1197-1207), so that a rule without a window is saved.
* A boolean or enumeration reached by Tab accepts any characters, is saved and read as the default. `AddRow`
  leaves the previous field focused. Editing a structured cell drops tokens the cells do not represent.
* Lines are loaded once and there is no instance lock: an edit made meanwhile is lost. A failed save marks
  the fields clean (1869). After a save the workspace fields are built anew, unsaved ones included.
* "bind = x" with blanks is read by `Config` and not by `GetRawBlock`.
* `RecoveryMode` copies the suspect file over a good backup; copies are in place; their failure is ignored. A reload in
  recovery mode loads the suspect file, one during the start is lost.

*Kohiko Network and the widgets*

* `OnlyHeldFieldDangles` names the one: a search field typed into twice while a button is held on it
  (`UiScrollView.cpp:20-35`, `UiWindow.cpp:437-447`).
* `PageCatchesUp` names its gaps: signals that a blocking call left in libdbus, which poll does not see
  (`DBusClient.cpp:461`, `UiWindow.cpp:538-545`; the scan at the start, `NetworkWindow.cpp:315`, is such a call);
  `SetWirelessEnabled`, whose result is ignored; a read that failed or ran into its 4 s, after
  which the list stays empty or cut short with nothing pending (`NetworkManagerClient.cpp:171-175`, `290-294`); no bus, or a match it
  did not take. `MirrorIsCurrent` speaks of the parts that were read.
* `OneWindow` names its own: starts that overlap (`AppInstanceLock.cpp:52-94`); a start between a quitting process's
  `close` and `unlink` (43-50), which removes the new socket, so that the next start finds nobody; a start that gets no descriptor for
  its knock; and a process without a lock, which knows of nobody and nobody of it (78-90).
* A double click on Connect adds a second profile; `ForgetConnection` is not wired; `Dispatch` does not return while signals
  arrive; `PromptForPassword` swallows resize and close; when the bus dies `poll` returns at once for ever;
  `TrayIconClient::m_docked` is not reset when the tray restarts.

## 8. What is not modelled

* A **crash of `WindowManager`'s own state** (as against a clean exit, and as against the lock's): it leaves no
  session record, so windows of hidden workspaces are unmapped and not adopted.
* **Pixels**: borders, bars, decorations, easing, fonts, wallpaper; `smart_gaps`, which only matters to a
  single tile; the bisection inside `PlanReclaim`, which finds the best ratio that the grid of the model
  finds by comparison.
* **`WindowManager` with a changing set of monitors**: there `MonitorManager` is alone, and keeps of windows only
  what hotplug can change.
* **Bluetooth, audio, the tray applications, and the VPN and Ethernet pages**: the toolkit, the client pattern and
  the instance lock they share with Kohiko Network are modelled there; what differs is the service they
  read.
* **The launcher's ranking**: an arbitrary answer per query, of which only the order of two alike is
  open. Typing in the notepad.
* **Text and I/O**: the syntax of window rules, key bindings, desktop files and D-Bus messages, the files of sessions and placements, PAM's messages, the installation and autologin
  scripts. They are pure functions or belong to the services they talk to.

## 9. Plan

Done: the models of the desktop (`WindowManager`, its gestures, clients, monitors, tree and habits), the session
with its lock, the loop with notifications, sleep inhibition, the launcher, Kohiko Network and Kohiko
Settings; the theorems of section 5 in all of these.

Next, most important first:

1. A model of `WindowManager` over a changing set of monitors.
