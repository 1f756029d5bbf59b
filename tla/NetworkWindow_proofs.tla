-------------------------- MODULE NetworkWindow_proofs --------------------------
(***************************************************************************)
(* Proofs about kohiko-network, for any number of processes, access points *)
(* and queries: when a second window can be open (OneWindow), that no      *)
(* event reaches a widget that is gone but for the one known case          *)
(* (OnlyHeldFieldDangles), and that a part of the copy of the service's    *)
(* state is behind only while a signal is on its way or when its last read *)
(* failed (MirrorIsCurrent).                                               *)
(***************************************************************************)
EXTENDS NetworkWindow, TLAPS

(***************************************************************************)
(* The socket                                                              *)
(***************************************************************************)

Claims(p) == Between(p) \/ pc[p] = "running"

\* While no start has overlapped another's or a quit, one process at most is
\* between its knock and its unlink, and from its bind on the file is its own.
\* Nothing less is inductive: a second window comes from what a process finds
\* at the socket.
Claimed ==
    \/ raced
    \/ /\ \A p, q \in Proc : Claims(p) /\ Claims(q) => p = q
       /\ \A p \in Proc : /\ pc[p] = "unlinked" => path = None
                          /\ pc[p] \in {"bound", "running", "closing"} => path = p

SocketInv ==
    /\ pc \in [Proc -> {"off", "starting", "probed", "unlinked", "bound",
                        "running", "unguarded", "closing"}]
    /\ Claimed

LEMMA SocketStarts == Init => SocketInv
  BY DEF Init, LockInit, SocketInv, Claimed, Claims, Between, Running

LEMMA StartsKeepSocket ==
    ASSUME SocketInv, NEW p \in Proc, Spawn(p) \/ Probe(p)
    PROVE  SocketInv'
<1> USE DEF SocketInv, Claimed, Claims, Between, Running
<1>1. CASE Spawn(p)
  BY <1>1 DEF Spawn
<1>2. CASE Probe(p)
  <2>0. pc[p] = "starting" /\ path' = path
    BY <1>2 DEF Probe
  <2>1. CASE Listening # {} /\ pc' = [pc EXCEPT ![p] = "off"] /\ UNCHANGED raced
    BY <2>0, <2>1
  <2>2. CASE /\ Listening = {} /\ pc' = [pc EXCEPT ![p] = "probed"]
             /\ raced' = (raced \/ \E q \in Proc \ {p} : Between(q))
    <3>1. ~raced => \A q \in Proc : pc[q] # "running"
      BY <2>2 DEF Listening
    <3>2. QED BY <2>0, <2>2, <3>1
  <2>3. CASE pc' = [pc EXCEPT ![p] = "probed"] /\ raced'
    BY <2>0, <2>3
  <2>4. QED BY <1>2, <2>1, <2>2, <2>3 DEF Probe
<1>3. QED BY <1>1, <1>2

LEMMA BindsKeepSocket ==
    ASSUME SocketInv, NEW p \in Proc, Unlink(p) \/ Bind(p) \/ Listen(p)
    PROVE  SocketInv'
<1> USE NoneIsNoProcess DEF SocketInv, Claimed, Claims, Between, Running
<1>1. CASE Unlink(p)
  BY <1>1 DEF Unlink
<1>2. CASE Bind(p)
  BY <1>2 DEF Bind
<1>3. CASE Listen(p)
  BY <1>3 DEF Listen
<1>4. QED BY <1>1, <1>2, <1>3

LEMMA EndsKeepSocket ==
    ASSUME SocketInv, NEW p \in Proc,
           \/ Running(p) /\ CloseLock(p)
           \/ UnlinkClosed(p) \/ Crash(p) \/ Raise(p) \/ UNCHANGED lockVars
    PROVE  SocketInv'
<1> USE DEF SocketInv, Claimed, Claims, Between, Running
<1>1. CASE Running(p) /\ CloseLock(p)
  BY <1>1 DEF CloseLock
<1>2. CASE Crash(p)
  BY <1>2 DEF Crash
<1>3. CASE Raise(p) \/ UNCHANGED lockVars
  BY <1>3 DEF Raise, lockVars
<1>4. CASE UnlinkClosed(p)
  BY <1>4 DEF UnlinkClosed
<1>5. QED BY <1>1, <1>2, <1>3, <1>4

\* Whoever tries again to start, and whatever the window does meanwhile.
LEMMA NextKeepsSocket == SocketInv /\ [Next]_vars => SocketInv'
<1> SUFFICES ASSUME SocketInv, [Next]_vars PROVE SocketInv'
  OBVIOUS
<1>1. ASSUME NEW p \in Proc, Start(p) \/ LaunchOrRaise(p) PROVE SocketInv'
  <2>1. Spawn(p) \/ UNCHANGED <<pc, path, raced>>
    BY <1>1 DEF Start, LaunchOrRaise
  <2>2. CASE Spawn(p)
    BY <2>2, StartsKeepSocket
  <2>3. CASE UNCHANGED <<pc, path, raced>>
    BY <2>3 DEF SocketInv, Claimed, Claims, Between, Running
  <2>4. QED BY <2>1, <2>2, <2>3
<1>2. ASSUME NEW p \in Proc, Quit(p) \/ Killed(p) \/ RaiseAndFocus(p) \/ OpenWindow(p)
      PROVE  SocketInv'
  BY <1>2, EndsKeepSocket DEF Quit, Killed, RaiseAndFocus, OpenWindow
<1>3. CASE LockNext
  BY <1>1, <1>2, <1>3, StartsKeepSocket, BindsKeepSocket, EndsKeepSocket DEF LockNext
<1>4. CASE UNCHANGED lockVars
  BY <1>4 DEF lockVars, SocketInv, Claimed, Claims, Between, Running
<1>5. ServiceChanges \/ (\E a \in Secured : PasswordChanges(a)) \/ Reads \/ Dispatch \/ Interval
        => UNCHANGED lockVars
  BY DEF ServiceChanges, PasswordChanges, Reads, Dispatch, Interval, RefreshGlobalState,
         RefreshDevices, RefreshSavedConnections, ShowRefreshed, RequestWiFiScan
<1>6. UserNext => UNCHANGED lockVars
  BY DEF UserNext, ButtonPress, ReleaseElsewhere, Motion, ToggleWifi, RefreshClicked, SelectRow,
         TurnPage, Disconnect, Connect, Typed, Dismissed, Resize, KeyPress
<1>7. QED BY <1>3, <1>4, <1>5, <1>6 DEF Next, vars

\* Any number of processes, started, killed and quit in any order, with a file
\* left behind or not: two windows only when one of them got no lock, or after a
\* start that could not knock or whose knock fell between another's knock and its
\* listen or its close and its unlink (AppInstanceLock, AcquireOrListen).
THEOREM OneWindowUnlessRaced == Spec => []OneWindow
<1>1. SocketInv => OneWindow
  BY DEF SocketInv, Claimed, Claims, Running, OneWindow
<1>2. QED BY <1>1, SocketStarts, NextKeepsSocket, PTL DEF Spec

(***************************************************************************)
(* The widgets                                                             *)
(***************************************************************************)

Name == Widgets \cup {"none"}
Slot == [what : Name, age : {0, 1, Freed}]
Tree == [pressed : Slot, focus : Slot, faulted : Name]

\* Only a search field is ever held over a rebuild: the others release into the
\* page that replaced theirs.  And what is held while the field has the focus is
\* the field itself.
Held(u) ==
    /\ u \in Tree
    /\ u.focus \in {NoWidget, Widget("search")}
    /\ u.pressed.age # 0 => u.pressed.what = "search"
    /\ u.focus # NoWidget => u.pressed.what \in {"none", "search"}
    /\ u.faulted \in {"none", "search"}

TreeInv == Held(ui)

\* What a place in the tree can hold, and what a rebuild makes of it.
LEMMA Slots ==
    /\ NoWidget \in Slot /\ NoWidget.what = "none" /\ NoWidget.age = 0
    /\ \A w \in Name : Widget(w) \in Slot /\ Widget(w).what = w /\ Widget(w).age = 0
    /\ Widget("search") # NoWidget /\ "search" \in Name
    /\ \A w \in Slot : /\ Aged(w) \in Slot /\ Aged(w).what = w.what
                       /\ Aged(w).age = Freed => w.age # 0
                       /\ w.what = "none" => Aged(w) = w
<1>1. NoWidget \in Slot /\ NoWidget.what = "none" /\ NoWidget.age = 0
  BY DEF NoWidget, Slot, Name
<1>2. \A w \in Name : Widget(w) \in Slot /\ Widget(w).what = w /\ Widget(w).age = 0
  BY DEF Widget, Slot
<1>3. Widget("search") # NoWidget /\ "search" \in Name
  BY DEF Widget, NoWidget, Name, Widgets
<1>4. ASSUME NEW w \in Slot
      PROVE  /\ Aged(w) \in Slot /\ Aged(w).what = w.what
             /\ Aged(w).age = Freed => w.age # 0
             /\ w.what = "none" => Aged(w) = w
  BY DEF Aged, Slot, Freed
<1>5. QED BY <1>1, <1>2, <1>3, <1>4

LEMMA ContentParts ==
    ASSUME NEW u \in Tree
    PROVE  SetContent(u) =
              [pressed |-> Aged(u.pressed), focus |-> Aged(u.focus), faulted |-> u.faulted]
<1>1. [u EXCEPT !.pressed = Aged(u.pressed)] =
         [pressed |-> Aged(u.pressed), focus |-> u.focus, faulted |-> u.faulted]
  BY DEF Tree
<1>2. SetContent(u) = [[u EXCEPT !.pressed = Aged(u.pressed)] EXCEPT !.focus = Aged(u.focus)]
  BY <1>1 DEF SetContent, Tree
<1>3. QED BY <1>1, <1>2

\* What each step of a rebuild leaves, part by part.
LEMMA Parts ==
    ASSUME NEW u, Held(u)
    PROVE  /\ u.pressed \in Slot /\ u.focus \in Slot /\ u.faulted \in Name
           /\ HandleRelease(u) =
                 [pressed |-> NoWidget, focus |-> u.focus,
                  faulted |-> IF u.pressed.age = Freed THEN u.pressed.what ELSE u.faulted]
           /\ ClearFocus(u) = [pressed |-> u.pressed, focus |-> NoWidget, faulted |-> u.faulted]
           /\ ClearFocus(u) \in Tree
<1> USE Slots DEF Held, Tree
<1>1. u.pressed \in Slot /\ u.focus \in Slot /\ u.faulted \in Name
  OBVIOUS
<1>2. u.focus.age = 0 /\ 0 # Freed
  BY DEF Freed, Name, Widgets
<1>3. Touch(u, u.focus) = u
  BY <1>2 DEF Touch
<1>4. ClearFocus(u) = [pressed |-> u.pressed, focus |-> NoWidget, faulted |-> u.faulted]
  BY <1>3 DEF ClearFocus
<1>5. HandleRelease(u) =
         [pressed |-> NoWidget, focus |-> u.focus,
          faulted |-> IF u.pressed.age = Freed THEN u.pressed.what ELSE u.faulted]
  BY DEF HandleRelease, Touch
<1>6. ClearFocus(u) \in Tree
  BY <1>1, <1>4
<1>7. QED BY <1>1, <1>4, <1>5, <1>6

\* A tree is held when its parts are.
LEMMA Whole ==
    ASSUME NEW p \in Slot, NEW f \in {NoWidget, Widget("search")}, NEW x \in {"none", "search"},
           p.age # 0 => p.what = "search",
           f # NoWidget => p.what \in {"none", "search"}
    PROVE  Held([pressed |-> p, focus |-> f, faulted |-> x])
  BY Slots DEF Held, Tree, Name

LEMMA NoTreeHeld == Held(NoTree)
  BY Slots, Whole DEF NoTree

LEMMA RebuiltParts ==
    ASSUME NEW u, Held(u), NEW view
    PROVE  \E f \in {NoWidget, Widget("search")} :
              /\ Rebuilt(u, view) = [pressed |-> Aged(u.pressed), focus |-> f, faulted |-> u.faulted]
              /\ f # NoWidget => u.focus # NoWidget
<1> DEFINE fresh == [pressed |-> Aged(u.pressed), focus |-> NoWidget, faulted |-> u.faulted]
<1>1. SetContent(ClearFocus(u)) = fresh
  BY Slots, Parts, ContentParts
<1>2. CASE u.focus.what = "search" /\ view = "main"
  <2>1. SetFocus(fresh, Widget("search")) = [fresh EXCEPT !.focus = Widget("search")]
    BY Slots DEF SetFocus, Touch, WantsFocus, Freed
  <2>2. u.focus # NoWidget
    BY <1>2, Slots
  <2>3. QED BY <1>1, <1>2, <2>1, <2>2 DEF Rebuilt
<1>3. CASE ~(u.focus.what = "search" /\ view = "main")
  BY <1>1, <1>3 DEF Rebuilt
<1>4. QED BY <1>2, <1>3

\* A page that is rebuilt from inside the release of one of its widgets.
LEMMA ReleasedHeld ==
    ASSUME NEW u, Held(u), NEW view
    PROVE  Held(HandleRelease(u)) /\ Held(HandleRelease(Rebuilt(u, view)))
<1>1. u.pressed \in Slot /\ u.focus \in {NoWidget, Widget("search")} /\ u.faulted \in {"none", "search"}
      /\ (u.pressed.age # 0 => u.pressed.what = "search")
  BY DEF Held, Tree
<1> DEFINE y == IF u.pressed.age = Freed THEN u.pressed.what ELSE u.faulted
<1>a. y \in {"none", "search"}
  BY <1>1 DEF Freed
<1>b. HandleRelease(u) = [pressed |-> NoWidget, focus |-> u.focus, faulted |-> y]
  BY Parts
<1> HIDE DEF y
<1>2. Held(HandleRelease(u))
  BY <1>1, <1>a, <1>b, Slots, Whole
<1>3. PICK f \in {NoWidget, Widget("search")} :
         Rebuilt(u, view) = [pressed |-> Aged(u.pressed), focus |-> f, faulted |-> u.faulted]
  BY RebuiltParts
<1> DEFINE x == IF Aged(u.pressed).age = Freed THEN Aged(u.pressed).what ELSE u.faulted
<1>4. HandleRelease(Rebuilt(u, view)) = [pressed |-> NoWidget, focus |-> f, faulted |-> x]
  BY <1>3 DEF HandleRelease, Touch
<1>5. x \in {"none", "search"}
  BY <1>1, Slots
<1> HIDE DEF x
<1>6. Held(HandleRelease(Rebuilt(u, view)))
  BY <1>4, <1>5, Slots, Whole
<1>7. QED BY <1>2, <1>6

\* A page that is rebuilt by the timer, by a key or by a new root.
LEMMA RebuiltHeld ==
    ASSUME NEW u, Held(u), u.pressed.what \in {"none", "search"}, NEW view
    PROVE  Held(Rebuilt(u, view))
<1>1. u.pressed \in Slot /\ u.faulted \in {"none", "search"}
      /\ (u.pressed.age # 0 => u.pressed.what = "search")
  BY DEF Held, Tree
<1>2. Aged(u.pressed).age # 0 => u.pressed.what = "search"
  BY <1>1 DEF Aged, Freed
<1>3. PICK f \in {NoWidget, Widget("search")} :
         Rebuilt(u, view) = [pressed |-> Aged(u.pressed), focus |-> f, faulted |-> u.faulted]
  BY RebuiltParts
<1>4. Aged(u.pressed) \in Slot /\ Aged(u.pressed).what = u.pressed.what
  BY <1>1, Slots
<1> DEFINE p == Aged(u.pressed)
<1>5. p \in Slot /\ p.what \in {"none", "search"} /\ (p.age # 0 => p.what = "search")
  BY <1>2, <1>4
<1> HIDE DEF p
<1>6. Held([pressed |-> p, focus |-> f, faulted |-> u.faulted])
  BY <1>1, <1>5, Whole
<1>7. QED BY <1>3, <1>6 DEF p

LEMMA RootHeld ==
    ASSUME NEW u, Held(u)
    PROVE  Held(SetRoot(u)) /\ SetRoot(u).pressed.what = "none"
<1>1. SetRoot(u) = [pressed |-> NoWidget, focus |-> NoWidget, faulted |-> u.faulted]
  BY Parts DEF SetRoot
<1>2. u.faulted \in {"none", "search"}
  BY DEF Held
<1>3. Held([pressed |-> NoWidget, focus |-> NoWidget, faulted |-> u.faulted])
  BY <1>2, Slots, Whole
<1>4. QED BY <1>1, <1>3, Slots

LEMMA TouchedHeld ==
    ASSUME NEW u, Held(u)
    PROVE  Held(Touch(u, u.pressed)) /\ Touch(u, u.focus) = u
<1>1. u.focus.age = 0 /\ (u.pressed.age = Freed => u.pressed.what = "search")
  BY Slots DEF Held, Tree, Freed
<1>2. Touch(u, u.focus) = u
  BY <1>1 DEF Touch, Freed
<1>3. CASE u.pressed.age = Freed
  <2>1. Touch(u, u.pressed) = [u EXCEPT !.faulted = "search"]
    BY <1>1, <1>3 DEF Touch
  <2>2. QED BY <1>2, <2>1, Slots DEF Held, Tree
<1>4. CASE u.pressed.age # Freed
  BY <1>2, <1>4 DEF Touch
<1>5. QED BY <1>3, <1>4

LEMMA PressedHeld ==
    ASSUME NEW u, Held(u), NEW w \in Widgets
    PROVE  Held(HandlePress(u, IF w = "background" THEN NoWidget ELSE Widget(w)))
<1> DEFINE s == IF w = "background" THEN NoWidget ELSE Widget(w)
<1>1. s \in Slot /\ s.age = 0 /\ (s.what = "search" => s = Widget("search"))
  BY Slots DEF Name
<1>2. u.focus \in {NoWidget, Widget("search")} /\ u.faulted \in {"none", "search"} /\ u \in Tree
  BY DEF Held
<1> DEFINE g == IF s.what = "search" THEN s ELSE NoWidget
<1> HIDE DEF s
<1> DEFINE v == [pressed |-> s, focus |-> u.focus, faulted |-> u.faulted]
<1>3. [u EXCEPT !.pressed = s] = v
  BY <1>2 DEF Tree
<1>4. Touch(v, v.focus) = v
  BY <1>2, Slots DEF Touch, Freed, Name
<1>5. SetFocus(v, s) = [pressed |-> s, focus |-> g, faulted |-> u.faulted]
  <2>1. CASE s = v.focus
    <3>1. SetFocus(v, s) = v
      BY <2>1 DEF SetFocus
    <3>2. g = u.focus
      BY <1>2, <2>1, Slots
    <3>3. QED BY <3>1, <3>2
  <2>2. CASE s # v.focus
    <3>1. SetFocus(v, s) = [v EXCEPT !.focus = g]
      BY <1>4, <2>2 DEF SetFocus, WantsFocus
    <3>2. QED BY <3>1
  <2>3. QED BY <2>1, <2>2
<1>6. g \in {NoWidget, Widget("search")} /\ (g # NoWidget => s.what \in {"none", "search"})
  BY <1>1
<1> HIDE DEF g
<1>7. Held([pressed |-> s, focus |-> g, faulted |-> u.faulted])
  BY <1>1, <1>2, <1>6, Whole
<1>8. HandlePress(u, s) = [pressed |-> s, focus |-> g, faulted |-> u.faulted]
  BY <1>3, <1>5 DEF HandlePress
<1>9. QED BY <1>7, <1>8 DEF s

\* Each event of the user, each timer and each read that ends in a new page.
LEMMA NextKeepsHeld == TreeInv /\ [Next]_vars => TreeInv'
<1> SUFFICES ASSUME Held(ui), [Next]_vars PROVE Held(ui')
  BY DEF TreeInv
<1>1. CASE LockNext
  BY <1>1, NoTreeHeld DEF LockNext, Quit, Killed, RaiseAndFocus, OpenWindow, WindowGone, netVars, pageVars
<1>2. CASE ServiceChanges \/ (\E a \in Secured : PasswordChanges(a)) \/ Dispatch
           \/ RefreshGlobalState \/ RefreshDevices \/ RefreshSavedConnections
           \/ RequestWiFiScan \/ UNCHANGED vars
  BY <1>2 DEF ServiceChanges, PasswordChanges, Dispatch, RefreshGlobalState, RefreshDevices,
              RefreshSavedConnections, RequestWiFiScan, pageVars, vars, netVars
<1>3. CASE ShowRefreshed
  BY <1>3, ReleasedHeld, RebuiltHeld, RootHeld DEF ShowRefreshed, RebuildChrome, RebuildPage
<1>4. CASE Interval
  <2>1. ui.pressed.what = "none" /\ ui' = Rebuilt(ui, page.view)
    BY <1>4 DEF Interval, IsInteracting, RebuildPage
  <2>2. QED BY <2>1, RebuiltHeld
<1>5. ASSUME NEW w \in Widgets, ButtonPress(w) PROVE Held(ui')
  BY <1>5, PressedHeld DEF ButtonPress
<1>6. CASE ReleaseElsewhere
  <2>1. ui' = HandleRelease(Touch(ui, ui.pressed))
    BY <1>6 DEF ReleaseElsewhere
  <2>2. QED BY <2>1, TouchedHeld, ReleasedHeld
<1>7. CASE Motion
  BY <1>7, TouchedHeld DEF Motion
<1>8. CASE ToggleWifi \/ Disconnect \/ Connect \/ Dismissed
           \/ \E a \in AP, text \in Texts : Typed(a, text)
  <2>1. ui' = HandleRelease(ui) \/ ui' = ui
    BY <1>8 DEF ToggleWifi, Disconnect, Connect, Dismissed, Typed
  <2>2. QED BY <2>1, ReleasedHeld
<1>9. CASE (\E a \in AP : SelectRow(a)) \/ TurnPage("advanced", "advanced") \/ TurnPage("back", "main")
  BY <1>9, ReleasedHeld DEF SelectRow, TurnPage
<1>10. ASSUME NEW nonempty \in BOOLEAN, KeyPress(nonempty) PROVE Held(ui')
  <2>1. ui.focus # NoWidget /\ ui' = Rebuilt(Touch(ui, ui.focus), "main")
    BY <1>10 DEF KeyPress, RebuildPage, NoWidget
  <2>2. ui.pressed.what \in {"none", "search"}
    BY <2>1 DEF Held
  <2>3. QED BY <2>1, <2>2, TouchedHeld, RebuiltHeld
<1>11. CASE RefreshClicked
  BY <1>11 DEF RefreshClicked, pageVars
<1>12. CASE Resize
  BY <1>12, RootHeld, RebuiltHeld DEF Resize, RebuildChrome, RebuildPage
<1>13. CASE UserNext
  BY <1>5, <1>6, <1>7, <1>8, <1>9, <1>10, <1>11, <1>12, <1>13 DEF UserNext
<1>14. QED BY <1>1, <1>2, <1>3, <1>4, <1>13 DEF Next, Reads

LEMMA HeldStarts == Init => TreeInv
  BY NoTreeHeld DEF Init, NetInit, TreeInv

LEMMA HeldIsSafe == TreeInv => OnlyHeldFieldDangles
<1> SUFFICES ASSUME Held(ui) PROVE OnlyHeldFieldDangles
  BY DEF TreeInv
<1>1. ui.focus.age = 0
  BY Slots DEF Held
<1>2. ui.pressed.age # 0 => ui.pressed.what = "search"
  BY DEF Held
<1>3. ui.pressed.age = Freed => ui.pressed.what = "search"
  BY <1>2 DEF Freed
<1>4. ui.faulted \in {"none", "search"}
  BY DEF Held
<1>5. QED BY <1>1, <1>3, <1>4 DEF OnlyHeldFieldDangles

\* Whatever the user presses, types and lets go of, and whenever a page is
\* rebuilt under it: no event reaches a widget that is gone, except that a search
\* field may be, which was typed into twice while the button was held down on it
\* (ScrollView::SetContent, m_pressedWidget, m_focusedWidget).
THEOREM NoOtherWidgetDangles == Spec => []OnlyHeldFieldDangles
  BY HeldStarts, HeldIsSafe, NextKeepsHeld, PTL DEF Spec

(***************************************************************************)
(* The copy of the service's state                                         *)
(***************************************************************************)

Copies == [wifi : BOOLEAN, aps : SUBSET AP, active : AP \cup {None}, saved : SUBSET AP]
Services == [wifi : BOOLEAN, aps : SUBSET AP, active : AP \cup {None}, saved : [AP -> Psk]]

Settled == {"no", "shown", "scan"}

\* Of a Refresh that is not through, the parts that were read are right unless a
\* signal came after them, on the socket or parked by the reads since.
PartsAreCurrent ==
    link = "heard" /\ ~wire /\ ~parked =>
        /\ "state" \notin unread /\ reading # "state" => nm.wifi = svc.wifi
        /\ "devices" \notin unread /\ reading \notin {"state", "devices"} =>
              nm.aps = svc.aps /\ nm.active = svc.active
        /\ "saved" \notin unread /\ reading \in Settled => nm.saved = Profiles(svc)

Shapes == [view : {"main", "advanced"}, wifi : BOOLEAN, rows : SUBSET AP, active : AP \cup {None},
           selected : AP \cup {None}, refused : BOOLEAN]

CopyInv ==
    /\ svc \in Services /\ nm \in Copies /\ page \in Shapes
    /\ wire \in BOOLEAN /\ parked \in BOOLEAN
    /\ link = "heard" => win # None
    /\ PartsAreCurrent

LEMMA CopyStarts == Init => CopyInv
<1> SUFFICES ASSUME Init PROVE CopyInv
  OBVIOUS
<1> USE DEF Init, NetInit
<1>1. svc \in Services
  BY DEF Services, Psk
<1>2. nm \in Copies
  BY DEF NoCopy, Copies
<1>3. page \in Shapes
  BY DEF NoPage, Shapes
<1>4. wire \in BOOLEAN /\ parked \in BOOLEAN /\ link = "none"
  BY Zenon
<1>5. QED BY <1>1, <1>2, <1>3, <1>4 DEF CopyInv, PartsAreCurrent

\* Every page is made of what the copy has.
LEMMA ShownTyped ==
    ASSUME CopyInv, NEW view, NEW filtered, NEW s \in AP \cup {None}, NEW shown \in Pages(view, filtered, s)
    PROVE  shown \in Shapes /\ page.selected \in AP \cup {None}
<1>1. page.selected \in AP \cup {None}
  BY DEF CopyInv, Shapes
<1>2. CASE view = "advanced"
  <2>1. shown = [[NoPage EXCEPT !.view = "advanced"] EXCEPT !.selected = s]
    BY <1>2 DEF Pages, AdvancedPage, NoPage
  <2>2. QED BY <1>1, <2>1 DEF NoPage, Shapes
<1>3. CASE view # "advanced"
  <2>1. nm.wifi \in BOOLEAN /\ nm.aps \subseteq AP /\ nm.active \in AP \cup {None}
    BY DEF CopyInv, Copies
  <2>2. Rows(filtered) \subseteq AP
    BY <2>1 DEF Rows
  <2>6. WirelessEnabled \in BOOLEAN
    BY <2>1 DEF WirelessEnabled
  <2>3. EnsureSelection(s, Rows(filtered), nm.active) \subseteq AP \cup {None}
    BY <2>2 DEF EnsureSelection
  <2>4. PICK t \in AP \cup {None} :
           shown = [view |-> "main", wifi |-> WirelessEnabled, rows |-> Rows(filtered),
                    refused |-> FALSE,
                    active |-> IF nm.active \in Rows(filtered) THEN nm.active ELSE None,
                    selected |-> t]
    BY <1>3, <2>3 DEF Pages, MainPages
  <2>5. QED BY <1>1, <2>1, <2>2, <2>4, <2>6 DEF Shapes
<1>4. QED BY <1>2, <1>3

\* What a blocking call, or the service's answer, does to the signals: if the
\* service changed, one is left.
LEMMA AnswerKeeps ==
    ASSUME CopyInv, svc' \in Services, page' \in Shapes,
           UNCHANGED <<nm, reading, link, unread, win>>,
           (svc' = svc /\ Blocks) \/ Signalled
    PROVE  CopyInv'
  BY DEF CopyInv, PartsAreCurrent, Blocks, Signalled, Profiles

\* Each part is read at one moment, after which every change leaves a signal.
LEMMA ReadsKeep ==
    ASSUME CopyInv, Reads \/ Dispatch
    PROVE  CopyInv'
<1> USE DEF CopyInv, PartsAreCurrent, Settled, Copies, Services, Blocks, Profiles, pageVars
<1>1. CASE RefreshGlobalState
  BY <1>1 DEF RefreshGlobalState, Obtained, Missed
<1>2. CASE RefreshDevices
  <2>1. CASE nm' = [nm EXCEPT !.aps = svc.aps, !.active = svc.active] /\ Obtained("devices")
    BY <1>2, <2>1 DEF RefreshDevices, Obtained
  <2>2. CASE /\ \E aps \in SUBSET svc.aps, active \in {svc.active, None} :
                   nm' = [nm EXCEPT !.aps = aps, !.active = IF active \in aps THEN active ELSE None]
             /\ Missed("devices")
    BY <1>2, <2>2 DEF RefreshDevices, Missed
  <2>3. QED BY <1>2, <2>1, <2>2 DEF RefreshDevices
<1>3. CASE RefreshSavedConnections
  <2>0. /\ nm' \in Copies /\ nm'.wifi = nm.wifi /\ nm'.aps = nm.aps /\ nm'.active = nm.active
        /\ "saved" \notin unread' => nm'.saved = Profiles(svc)
        /\ unread' \in {unread \ {"saved"}, unread \union {"saved"}}
    BY <1>3 DEF RefreshSavedConnections, SavedRead, Obtained, Missed
  <2>1. CASE reader = "dispatch"
    BY <1>3, <2>0, <2>1 DEF RefreshSavedConnections
  <2>2. CASE reader # "dispatch"
    BY <1>3, <2>0, <2>2 DEF RefreshSavedConnections
  <2>3. QED BY <2>1, <2>2
<1>4. CASE ShowRefreshed
  <2>1. \E view : page' \in Pages(view, query, page.selected)
    BY <1>4 DEF ShowRefreshed, RebuildChrome, RebuildPage
  <2>2. page.selected \in AP \cup {None}
    BY DEF Shapes
  <2>3. page' \in Shapes
    BY <2>1, <2>2, ShownTyped
  <2>4. UNCHANGED <<svc, nm, link, unread, wire, parked, win>> /\ reading = "shown"
    BY <1>4 DEF ShowRefreshed
  <2>5. QED BY <2>3, <2>4
<1>5. CASE Dispatch
  BY <1>5 DEF Dispatch, RefreshBy
<1>6. CASE RequestWiFiScan
  BY <1>6 DEF RequestWiFiScan
<1>7. QED BY <1>1, <1>2, <1>3, <1>4, <1>5, <1>6 DEF Reads

LEMMA RadioTyped ==
    ASSUME NEW s \in Services, NEW on \in BOOLEAN
    PROVE  RadioSet(s, on) \in Services
<1> DEFINE points == IF on THEN s.aps ELSE {}
           used == IF on THEN s.active ELSE None
<1>1. points \subseteq AP /\ used \in AP \cup {None}
  BY DEF Services
<1>2. RadioSet(s, on) = [[[s EXCEPT !.wifi = on] EXCEPT !.aps = points] EXCEPT !.active = used]
  BY DEF RadioSet, Services
<1> HIDE DEF points, used
<1>3. QED BY <1>1, <1>2 DEF Services

\* The service changes, and says so to a window that is there; a password that
\* is changed leaves the set of profiles as it was.
LEMMA ServiceKeeps ==
    ASSUME CopyInv, ServiceChanges \/ (\E a \in Secured : PasswordChanges(a))
    PROVE  CopyInv'
<1>1. CASE ServiceChanges
  <2>0. svc \in Services
    BY DEF CopyInv
  <2>1. svc' \in Services
    <3>1. CASE svc' = RadioSet(svc, ~svc.wifi)
      BY <2>0, <3>1, RadioTyped DEF Services
    <3>2. ASSUME NEW a \in AP,
                 svc' = IF a \in svc.aps
                        THEN [svc EXCEPT !.aps = @ \ {a},
                                         !.active = IF @ = a THEN None ELSE @]
                        ELSE [svc EXCEPT !.aps = @ \union {a}]
          PROVE  svc' \in Services
      BY <2>0, <3>2 DEF Services
    <3>3. CASE svc' = [svc EXCEPT !.active = None]
      BY <2>0, <3>3 DEF Services
    <3>4. ASSUME NEW a \in AP,
                 svc' = IF svc.saved[a] = "none"
                        THEN [svc EXCEPT !.saved[a] = "right"]
                        ELSE [svc EXCEPT !.saved[a] = "none",
                                         !.active = IF @ = a THEN None ELSE @]
          PROVE  svc' \in Services
      BY <2>0, <3>4 DEF Services, Psk
    <3>5. QED BY <1>1, <3>1, <3>2, <3>3, <3>4 DEF ServiceChanges
  <2>2. /\ UNCHANGED <<nm, page, parked, reading, link, unread, win>>
        /\ wire' \in BOOLEAN /\ (link = "heard" => wire')
    BY <1>1 DEF ServiceChanges, pageVars, CopyInv
  <2>3. QED BY <2>1, <2>2 DEF CopyInv, PartsAreCurrent
<1>2. ASSUME NEW a \in Secured, PasswordChanges(a) PROVE CopyInv'
  <2>1. a \in AP /\ svc.saved[a] = "right" /\ svc' = [svc EXCEPT !.saved[a] = "wrong"]
    BY <1>2, APsAreSplit DEF PasswordChanges
  <2>2. svc \in Services
    BY DEF CopyInv
  <2>3. svc' \in Services /\ svc'.wifi = svc.wifi /\ svc'.aps = svc.aps /\ svc'.active = svc.active
        /\ svc'.saved = [svc.saved EXCEPT ![a] = "wrong"]
    BY <2>1, <2>2 DEF Services, Psk
  <2>4. Profiles(svc') = Profiles(svc)
    BY <2>1, <2>2, <2>3 DEF Profiles, Services
  <2>5. UNCHANGED <<nm, page, wire, parked, reading, link, unread, win>>
    BY <1>2 DEF PasswordChanges, busVars, pageVars
  <2>6. QED BY <2>3, <2>4, <2>5 DEF CopyInv, PartsAreCurrent
<1>3. QED BY <1>1, <1>2

LEMMA ActivatedTyped ==
    ASSUME NEW s \in Services, NEW a
    PROVE  Activated(s, a) \in Services
  BY DEF Activated, Services

LEMMA ConnectKeeps ==
    ASSUME CopyInv, NEW a, NEW typed \in Psk, ConnectToAccessPoint(a, typed),
           UNCHANGED <<nm, page, reading, link, unread, win>>
    PROVE  CopyInv'
<1> DEFINE known == a \in nm.saved /\ svc.saved[a] # "none"
           psk == IF typed # "unset" THEN typed ELSE IF known THEN svc.saved[a] ELSE "unset"
           updated == [svc EXCEPT !.saved[a] = psk]
<1>1. psk \in Psk
  <2>1. known => svc.saved[a] \in Psk
    BY DEF CopyInv, Services, Copies
  <2>2. "unset" \in Psk
    BY DEF Psk
  <2>3. QED BY <2>1, <2>2
<1>2. svc' \in {svc, Activated(updated, a), updated} /\ IF svc' = svc THEN Blocks ELSE Signalled
  BY DEF ConnectToAccessPoint
<1> HIDE DEF psk
<1>3. svc \in Services /\ updated \in Services
  BY <1>1 DEF CopyInv, Services
<1> HIDE DEF updated
<1>4. svc' \in Services
  BY <1>2, <1>3, ActivatedTyped
<1>5. page' \in Shapes
  BY DEF CopyInv
<1>6. QED BY <1>2, <1>4, <1>5, AnswerKeeps

\* What the user does, some of it a request to the service.
LEMMA UserKeepsCopy ==
    ASSUME CopyInv, UserNext
    PROVE  CopyInv'
<1>1. CASE ToggleWifi
  <2>1. UNCHANGED <<nm, reading, link, unread, win>>
    BY <1>1 DEF ToggleWifi
  <2>2. page' \in Shapes
    <3>1. CASE page' = [page EXCEPT !.wifi = ~@]
      BY <3>1 DEF CopyInv, Shapes
    <3>2. CASE page' = [page EXCEPT !.wifi = ~@, !.refused = TRUE]
      <4>1. page' = [[page EXCEPT !.wifi = ~@] EXCEPT !.refused = TRUE]
        BY <3>2 DEF CopyInv, Shapes
      <4>2. QED BY <4>1 DEF CopyInv, Shapes
    <3>3. QED BY <1>1, <3>1, <3>2 DEF ToggleWifi
  <2>3. CASE UNCHANGED svc /\ Blocks
    <3>1. svc' \in Services
      BY <2>3 DEF CopyInv
    <3>2. QED BY <2>1, <2>2, <2>3, <3>1, AnswerKeeps
  <2>4. CASE svc' = RadioSet(svc, page'.wifi) /\ IF svc' = svc THEN Blocks ELSE Signalled
    <3>1. page'.wifi \in BOOLEAN
      BY <2>2 DEF Shapes
    <3>2. svc' \in Services
      BY <2>4, <3>1, RadioTyped DEF CopyInv
    <3>3. QED BY <2>1, <2>2, <2>4, <3>2, AnswerKeeps
  <2>5. QED BY <1>1, <2>3, <2>4 DEF ToggleWifi
<1>2. CASE Disconnect
  <2>1. svc' \in Services
    BY <1>2 DEF Disconnect, CopyInv, Services
  <2>2. /\ UNCHANGED <<nm, page, reading, link, unread, win>>
        /\ IF svc' = svc THEN Blocks ELSE Signalled
    BY <1>2 DEF Disconnect
  <2>3. page' \in Shapes
    BY <2>2 DEF CopyInv
  <2>4. QED BY <2>1, <2>2, <2>3, AnswerKeeps
<1>3. CASE Connect
  <2>1. UNCHANGED <<nm, page, reading, link, unread, win>>
    BY <1>3 DEF Connect
  <2>2. ConnectToAccessPoint(page.selected, "unset") \/ (UNCHANGED svc /\ Blocks)
    BY <1>3 DEF Connect
  <2>3. CASE ConnectToAccessPoint(page.selected, "unset")
    BY <2>1, <2>3, ConnectKeeps DEF Psk
  <2>4. CASE UNCHANGED svc /\ Blocks
    <3>1. svc' \in Services /\ page' \in Shapes
      BY <2>1, <2>4 DEF CopyInv
    <3>2. QED BY <2>1, <2>4, <3>1, AnswerKeeps
  <2>5. QED BY <2>2, <2>3, <2>4
<1>4. ASSUME NEW a \in AP, NEW text \in Texts, Typed(a, text) PROVE CopyInv'
  <2>1. UNCHANGED <<nm, page, reading, link, unread, win>> /\ ConnectToAccessPoint(a, text)
    BY <1>4 DEF Typed
  <2>2. text \in Psk
    BY TextsAreTyped DEF Psk
  <2>3. QED BY <2>1, <2>2, ConnectKeeps
<1>5. CASE RefreshClicked
  BY <1>5 DEF RefreshClicked, RefreshBy, Blocks, CopyInv, PartsAreCurrent, Settled, pageVars
<1>6. CASE \/ \E w \in Widgets : ButtonPress(w)
           \/ ReleaseElsewhere \/ Motion \/ Dismissed
  <2>1. UNCHANGED <<svc, nm, page, wire, parked, reading, link, unread, win>>
    BY <1>6 DEF ButtonPress, ReleaseElsewhere, Motion, Dismissed, busVars
  <2>2. QED BY <2>1 DEF CopyInv, PartsAreCurrent, Profiles
<1>7. CASE \/ \E a \in AP : SelectRow(a)
           \/ TurnPage("advanced", "advanced") \/ TurnPage("back", "main")
           \/ Resize \/ \E nonempty \in BOOLEAN : KeyPress(nonempty)
  <2>1. UNCHANGED <<svc, nm, wire, parked, reading, link, unread, win>>
    BY <1>7 DEF SelectRow, TurnPage, Resize, KeyPress, busVars
  <2>2. page.selected \in AP \cup {None}
    BY DEF CopyInv, Shapes
  <2>3. page' \in Shapes
    BY <1>7, <2>2, ShownTyped DEF SelectRow, TurnPage, Resize, KeyPress, RebuildChrome, RebuildPage
  <2>4. QED BY <2>1, <2>3 DEF CopyInv, PartsAreCurrent, Profiles
<1>8. QED BY <1>1, <1>2, <1>3, <1>4, <1>5, <1>6, <1>7 DEF UserNext

\* A window that opens reads everything; one that is gone claims nothing.
LEMMA NextKeepsCopy == CopyInv /\ [Next]_vars => CopyInv'
<1> SUFFICES ASSUME CopyInv, [Next]_vars PROVE CopyInv'
  OBVIOUS
<1>1. ASSUME UNCHANGED netVars PROVE CopyInv'
  BY <1>1 DEF netVars, busVars, pageVars, CopyInv, PartsAreCurrent, Profiles
<1>2. NoCopy \in Copies /\ NoPage \in Shapes
  BY DEF NoCopy, Copies, NoPage, Shapes
<1>3. ASSUME NEW p, WindowGone(p) PROVE CopyInv'
  <2>1. CASE win = p
    BY <1>2, <1>3, <2>1 DEF WindowGone, CopyInv, PartsAreCurrent
  <2>2. QED BY <1>1, <1>3, <2>1 DEF WindowGone
<1>4. ASSUME NEW p \in Proc, OpenWindow(p) PROVE CopyInv'
  <2>1. /\ svc' = svc /\ nm' = NoCopy /\ page' = NoPage /\ wire' = FALSE /\ parked' = FALSE
        /\ win' = p /\ link' \in {"none", "deaf", "heard"}
        /\ reading' = IF link' = "none" THEN "shown" ELSE "state"
    BY <1>4 DEF OpenWindow
  <2>2. p # None
    BY NoneIsNoProcess
  <2>3. QED BY <1>2, <2>1, <2>2 DEF CopyInv, PartsAreCurrent, Settled
<1>5. CASE LockNext
  BY <1>1, <1>3, <1>4, <1>5 DEF LockNext, Quit, Killed, RaiseAndFocus
<1>6. CASE Interval
  <2>1. UNCHANGED <<svc, nm, wire, parked, reading, link, unread, win>>
    BY <1>6 DEF Interval, busVars
  <2>2. page.selected \in AP \cup {None}
    BY DEF CopyInv, Shapes
  <2>3. page' \in Shapes
    BY <1>6, <2>2, ShownTyped DEF Interval, RebuildPage
  <2>4. QED BY <2>1, <2>3 DEF CopyInv, PartsAreCurrent, Profiles
<1>7. CASE UNCHANGED vars
  BY <1>1, <1>7 DEF vars
<1>8. QED BY <1>5, <1>6, <1>7, ServiceKeeps, ReadsKeep, UserKeepsCopy DEF Next

\* Whatever the service does between the reads of one Refresh, whoever asked for
\* it, whatever the window asks of the service meanwhile and whichever of its
\* calls fail: once no signal is left, every part of the copy whose last read
\* came through is as the service has it (NetworkManagerClient::Refresh, Dispatch,
\* Connect).
THEOREM CopyIsCurrent == Spec => []MirrorIsCurrent
<1>1. CopyInv => MirrorIsCurrent
  BY DEF CopyInv, PartsAreCurrent, Settled, MirrorIsCurrent
<1>2. QED BY <1>1, CopyStarts, NextKeepsCopy, PTL DEF Spec
=================================================================================
