---------------------------- MODULE NetworkWindow ----------------------------
(***************************************************************************)
(* kohiko-network and NetworkManager.  The window shows a page built from  *)
(* a copy of the service's state.  Signals tell it that the copy is old;   *)
(* the copy is then read again with one blocking call after another, while *)
(* the service goes on changing.  A blocking call takes every signal that  *)
(* came before its reply off the socket and parks it in libdbus, where     *)
(* poll() does not see it.  The page is rebuilt from the copy by a timer,  *)
(* but never under the user's hands.  The bus may be missing, a match may  *)
(* be refused, and any call may fail or run into its time limit.           *)
(***************************************************************************)
EXTENDS AppInstanceLock, UiWindow, Naturals, FiniteSets

CONSTANTS AP,           \* access points, each with a name of its own
          Secured,      \* those that want a password
          Matching,     \* those the search query leaves
          Texts,        \* what is typed into the password prompt
          MaxUnread,    \* a bound on the parts of the copy unread at once
          Shown         \* the process whose window is followed

ASSUME APsAreSplit == Secured \subseteq AP /\ Matching \subseteq AP
ASSUME TextsAreTyped == Texts \subseteq {"unset", "right", "wrong"} /\ Shown \in Proc

VARIABLES
    svc,                \* NetworkManager: radio, points in range, the one in
                        \* use, and the saved profile of each
    nm,                 \* the window's copy of it
    link,               \* "none": Connect failed; "deaf": it got no match for
                        \* some signals; "heard": the bus tells everything
    unread,             \* history: parts whose last read failed
    wire, parked,       \* signals on the socket, signals parked in libdbus
    dirty,              \* m_networkDirty
    reading, reader,    \* the part of Refresh to come, and who asked for it
    page,               \* what is on screen
    query,              \* m_searchQuery is not empty
    prompt,             \* the access point PromptForPassword is up for
    ui,                 \* the widget tree
    win                 \* Shown while its window is open

busVars == <<nm, link, unread, wire, parked, reading, reader>>
pageVars == <<dirty, page, query, prompt, ui>>
netVars == <<svc, busVars, pageVars, win>>
vars == <<lockVars, netVars>>

Psk == {"none", "unset", "right", "wrong"}      \* "none": no profile at all
Profiles(s) == {a \in AP : s.saved[a] # "none"}

NoCopy == [wifi |-> TRUE, aps |-> {}, active |-> None, saved |-> {}]
NoPage == [view |-> "main", wifi |-> FALSE, rows |-> {}, active |-> None,
           selected |-> None, refused |-> FALSE]

NetInit ==
    /\ svc = [wifi |-> TRUE, aps |-> AP, active |-> None,
              saved |-> [a \in AP |-> "none"]]
    /\ nm = NoCopy /\ page = NoPage /\ ui = NoTree
    /\ wire = FALSE /\ parked = FALSE /\ dirty = FALSE /\ query = FALSE
    /\ reading = "no" /\ reader = "start" /\ link = "none" /\ unread = {}
    /\ prompt = None /\ win = None

(* Bound: the window rests while another process starts or waits for it to *)
(* come up, and after a race has let a second one in; the two share        *)
(* nothing but the socket.                                                 *)
Alone == ~raced /\ raised = {} /\ \A p \in Proc \ {win} : pc[p] = "off"

(* The window's one thread is in its poll loop; or in the prompt's.        *)
Polling == reading = "no" /\ prompt = None /\ ui.faulted = "none"
Open == win # None /\ Alone /\ reading = "no" /\ ui.faulted = "none"
Free == Open /\ prompt = None

-------------------------------------------------------------------------------
(* The page. *)

(* Keep the selected row while it is listed, else the network in use, else *)
(* the strongest one: any.                                                 *)
EnsureSelection(selected, rows, active) ==
    IF selected \in rows THEN {selected}
    ELSE IF active \in rows THEN {active}
    ELSE IF rows = {} THEN {None} ELSE rows

WirelessEnabled == link # "none" /\ nm.wifi

(* The networks that are listed: all there are, or those that match.       *)
Rows(filtered) ==
    IF WirelessEnabled THEN (IF filtered THEN nm.aps \intersect Matching ELSE nm.aps) ELSE {}

(* The main page, from the copy as it is.  A switch that was turned        *)
(* without effect shows the truth again.  With the radio off there is no   *)
(* list, and the selection is left alone.                                  *)
MainPages(filtered, selected) ==
    LET rows == Rows(filtered)
    IN  {[view |-> "main", wifi |-> WirelessEnabled, rows |-> rows, refused |-> FALSE,
          active |-> IF nm.active \in rows THEN nm.active ELSE None,
          selected |-> s] :
         s \in IF WirelessEnabled THEN EnsureSelection(selected, rows, nm.active) ELSE {selected}}

(* The advanced page shows nothing of the radio.                           *)
AdvancedPage(selected) ==
    [NoPage EXCEPT !.view = "advanced", !.selected = selected]

Pages(view, filtered, selected) ==
    IF view = "advanced" THEN {AdvancedPage(selected)} ELSE MainPages(filtered, selected)

(* A mutant: the page is rebuilt without dropping the focus first.         *)
Rebuilt_KeepsFocus(u, view) == SetContent(u)

(* RebuildPage: focus goes, the new content replaces the old one, and a    *)
(* search field that had the focus hands it to its successor.              *)
Rebuilt(u, view) ==
    LET fresh == SetContent(ClearFocus(u))
    IN  IF u.focus.what = "search" /\ view = "main"
        THEN SetFocus(fresh, Widget("search"))
        ELSE fresh

RebuildPage(u, view, filtered) ==
    /\ page' \in Pages(view, filtered, page.selected)
    /\ ui' = Rebuilt(u, view)

(* RebuildChrome: a new root, then a new page in it.                       *)
RebuildChrome(u) == RebuildPage(SetRoot(u), page.view, query)

-------------------------------------------------------------------------------
(* The copy: NetworkManagerClient. *)

(* A blocking call: what was sent before its reply is parked.              *)
Blocks == parked' = (parked \/ wire) /\ wire' = FALSE

RefreshBy(who) == reading' = "state" /\ reader' = who

Obtained(part) == unread' = unread \ {part}

(* A call fails or times out.  Bound: in a window that is not deaf as well. *)
Missed(part) ==
    /\ link = "heard"
    /\ unread' = unread \union {part}
    /\ Cardinality(unread') <= MaxUnread

(* A property that cannot be read keeps its old value.                     *)
RefreshGlobalState ==
    /\ reading = "state"
    /\ \/ nm' = [nm EXCEPT !.wifi = svc.wifi] /\ Obtained("state")
       \/ UNCHANGED nm /\ Missed("state")
    /\ reading' = "devices"
    /\ Blocks
    /\ UNCHANGED <<svc, reader, link, pageVars, win, lockVars>>

(* The list is cleared first: a failed call leaves some of it, or nothing. *)
RefreshDevices ==
    /\ reading = "devices"
    /\ \/ nm' = [nm EXCEPT !.aps = svc.aps, !.active = svc.active] /\ Obtained("devices")
       \/ /\ \E aps \in SUBSET svc.aps, active \in {svc.active, None} :
                nm' = [nm EXCEPT !.aps = aps, !.active = IF active \in aps THEN active ELSE None]
          /\ Missed("devices")
    /\ reading' = "saved"
    /\ Blocks
    /\ UNCHANGED <<svc, reader, link, pageVars, win, lockVars>>

SavedRead ==
    \/ nm' = [nm EXCEPT !.saved = Profiles(svc)] /\ Obtained("saved")
    \/ /\ \E saved \in SUBSET Profiles(svc) : nm' = [nm EXCEPT !.saved = saved]
       /\ Missed("saved")

(* A mutant: Dispatch stops after one message.                             *)
RefreshSavedConnections_Once ==
    /\ reading = "saved"
    /\ SavedRead
    /\ wire' = FALSE /\ parked' = FALSE
    /\ dirty' = (dirty \/ reader = "dispatch")
    /\ reading' = IF reader = "dispatch" THEN "no" ELSE "shown"
    /\ UNCHANGED <<svc, reader, link, page, ui, query, prompt, win, lockVars>>

(* The last part.  A handler's Refresh is followed by the change handler,  *)
(* and Dispatch goes on while a parked signal remains; a Refresh the       *)
(* button asked for is followed by a rebuild, and leaves them parked.      *)
RefreshSavedConnections ==
    /\ reading = "saved"
    /\ SavedRead
    /\ wire' = FALSE
    /\ LET queued == parked \/ wire
       IN  CASE reader = "dispatch" ->
                  /\ dirty' = TRUE
                  /\ reading' = IF queued THEN "state" ELSE "no"
                  /\ parked' = FALSE
                  /\ UNCHANGED <<page, ui>>
             [] OTHER ->
                  /\ reading' = "shown"
                  /\ parked' = queued
                  /\ UNCHANGED <<dirty, page, ui>>
    /\ UNCHANGED <<svc, reader, link, query, prompt, win, lockVars>>

(* The rebuild after Initialize's and after the button's Refresh.          *)
ShowRefreshed ==
    /\ reading = "shown"
    /\ reading' = IF reader = "start" /\ link # "none" THEN "scan" ELSE "no"
    /\ IF reader = "start"
       THEN RebuildChrome(ui)
       ELSE /\ page' \in Pages(page.view, query, page.selected)
            /\ ui' = HandleRelease(Rebuilt(ui, page.view))
    /\ UNCHANGED <<svc, nm, link, unread, wire, parked, reader, dirty, query, prompt, win, lockVars>>

(* The scan Initialize asks for last: a call that waits for each device.   *)
RequestWiFiScan ==
    /\ reading = "scan"
    /\ reading' = "no"
    /\ Blocks \/ ("devices" \in unread /\ UNCHANGED <<wire, parked>>)
    /\ UNCHANGED <<svc, nm, link, unread, reader, pageVars, win, lockVars>>

(* The bus socket is readable: the signals are handled, each by a Refresh. *)
Dispatch ==
    /\ Free /\ wire
    /\ RefreshBy("dispatch")
    /\ wire' = FALSE /\ parked' = FALSE
    /\ UNCHANGED <<svc, nm, link, unread, pageVars, win, lockVars>>

(* A mutant: the flag is cleared although the user is in the way.          *)
Interval_Forgets ==
    /\ Free /\ dirty
    /\ dirty' = FALSE
    /\ IF IsInteracting(ui) THEN UNCHANGED <<page, ui>>
                            ELSE RebuildPage(ui, page.view, query)
    /\ UNCHANGED <<svc, busVars, query, prompt, win, lockVars>>

(* The 300 ms timer.                                                       *)
Interval ==
    /\ Free /\ dirty /\ ~IsInteracting(ui)
    /\ dirty' = FALSE
    /\ RebuildPage(ui, page.view, query)
    /\ UNCHANGED <<svc, busVars, query, prompt, win, lockVars>>

-------------------------------------------------------------------------------
(* The service, on its own account and on the window's. *)

(* A change while the window is waiting in a call of its own: the signal   *)
(* comes before the reply or after it, or not at all.                      *)
Signalled ==
    \/ parked' = TRUE /\ wire' = FALSE
    \/ parked' = (parked \/ wire) /\ wire' = TRUE
    \/ link = "deaf" /\ Blocks

RadioSet(s, on) ==
    [s EXCEPT !.wifi = on,
              !.aps = IF on THEN @ ELSE {},
              !.active = IF on THEN @ ELSE None]

(* Activation of a's profile works out when its password is right.         *)
Activated(s, a) ==
    IF a \in s.aps /\ (a \in Secured => s.saved[a] = "right")
    THEN [s EXCEPT !.active = a] ELSE s

(* Bound: one unread signal at a time; more would be read as one.          *)
ServiceChanges ==
    /\ Alone /\ ~wire
    /\ \/ svc' = RadioSet(svc, ~svc.wifi)
       \/ \E a \in AP :
            /\ svc.wifi
            /\ svc' = IF a \in svc.aps
                      THEN [svc EXCEPT !.aps = @ \ {a},
                                       !.active = IF @ = a THEN None ELSE @]
                      ELSE [svc EXCEPT !.aps = @ \union {a}]
       \/ svc.active # None /\ svc' = [svc EXCEPT !.active = None]
       \/ \E a \in AP :
            svc' = IF svc.saved[a] = "none"
                   THEN [svc EXCEPT !.saved[a] = "right"]
                   ELSE [svc EXCEPT !.saved[a] = "none",
                                    !.active = IF @ = a THEN None ELSE @]
    /\ \/ wire' = (win # None /\ link # "none")
       \/ link = "deaf" /\ UNCHANGED wire
    /\ UNCHANGED <<nm, link, unread, parked, reading, reader, pageVars, win, lockVars>>

(* The password of a network is changed at the network: nobody is told.    *)
PasswordChanges(a) ==
    /\ Alone /\ svc.saved[a] = "right" /\ svc.active # a
    /\ svc' = [svc EXCEPT !.saved[a] = "wrong"]
    /\ UNCHANGED <<busVars, pageVars, win, lockVars>>

(* HasUsableSavedSecret: the first profile of the copy that still answers, *)
(* and any password at all in it.                                          *)
HasUsableSavedSecret(a) ==
    a \in nm.saved /\ svc.saved[a] \in {"right", "wrong"}

(* ConnectToAccessPoint: a known profile is updated with a password that   *)
(* was typed and activated; otherwise a new one is added and activated.    *)
(* Nobody asks whether the calls were carried out.                         *)
ConnectToAccessPoint(a, typed) ==
    LET known == a \in nm.saved /\ svc.saved[a] # "none"
        psk   == IF typed # "unset" THEN typed
                 ELSE IF known THEN svc.saved[a] ELSE "unset"
        updated == [svc EXCEPT !.saved[a] = psk]
    IN  /\ svc' \in {svc, Activated(updated, a)} \union (IF known THEN {updated} ELSE {})
        /\ IF svc' = svc THEN Blocks ELSE Signalled

-------------------------------------------------------------------------------
(* The user's hands, one X event each. *)

Widgets == {"search", "refresh", "advanced", "back", "background"}
             \union {"wifi", "disconnect", "connect", "row"}

OnScreen(w) ==
    CASE w = "back" -> page.view = "advanced"
      [] w = "background" -> TRUE
      [] w = "row" -> page.view = "main" /\ page.rows # {}
      [] w = "disconnect" -> page.selected \in page.rows /\ page.selected = page.active
                             /\ page.view = "main"
      [] w = "connect" -> page.selected \in page.rows /\ page.selected # page.active
                          /\ page.view = "main"
      [] OTHER -> page.view = "main"

(* Bounds: nobody uses a window that is deaf, and of one with a short copy *)
(* only what reads it again or works with it.                              *)
ButtonPress(w) ==
    /\ Free /\ OnScreen(w)
    /\ link # "deaf" /\ (unread # {} => w \in {"refresh", "connect"})
    /\ ui' = HandlePress(ui, IF w = "background" THEN NoWidget ELSE Widget(w))
    /\ UNCHANGED <<svc, busVars, dirty, page, query, prompt, win, lockVars>>

(* A release outside the widget, or on one that does nothing.              *)
ReleaseElsewhere ==
    /\ Free /\ ui.pressed.what # "none"
    /\ ui' = HandleRelease(Touch(ui, ui.pressed))
    /\ UNCHANGED <<svc, busVars, dirty, page, query, prompt, win, lockVars>>

Motion ==
    /\ Free /\ ui.pressed.age = Freed
    /\ ui' = Touch(ui, ui.pressed)
    /\ UNCHANGED <<svc, busVars, dirty, page, query, prompt, win, lockVars>>

Released(w) == Free /\ ui.pressed.what = w /\ ui.pressed.age < Freed

(* The switch turns over at once; whether the service obeys is not asked.  *)
ToggleWifi ==
    /\ Released("wifi") /\ link # "none"
    /\ \/ /\ page' = [page EXCEPT !.wifi = ~@]
          /\ svc' = RadioSet(svc, page'.wifi)
          /\ IF svc' = svc THEN Blocks ELSE Signalled
       \/ /\ page' = [page EXCEPT !.wifi = ~@, !.refused = TRUE]
          /\ UNCHANGED svc /\ Blocks
    /\ ui' = HandleRelease(ui)
    /\ UNCHANGED <<nm, link, unread, reading, reader, dirty, query, prompt, win, lockVars>>

RefreshClicked ==
    /\ Released("refresh") /\ link # "none"
    /\ RefreshBy("button")
    /\ Blocks
    /\ UNCHANGED <<svc, nm, link, unread, pageVars, win, lockVars>>

SelectRow(a) ==
    /\ Released("row") /\ a \in page.rows
    /\ page' \in Pages("main", query, a)
    /\ ui' = HandleRelease(Rebuilt(ui, "main"))
    /\ UNCHANGED <<svc, busVars, dirty, query, prompt, win, lockVars>>

TurnPage(w, view) ==
    /\ Released(w)
    /\ page' \in Pages(view, query, page.selected)
    /\ ui' = HandleRelease(Rebuilt(ui, view))
    /\ UNCHANGED <<svc, busVars, dirty, query, prompt, win, lockVars>>

Disconnect ==
    /\ Released("disconnect")
    /\ svc' \in {svc, [svc EXCEPT !.active = None]}
    /\ IF svc' = svc THEN Blocks ELSE Signalled
    /\ ui' = HandleRelease(ui)
    /\ UNCHANGED <<nm, link, unread, reading, reader, dirty, page, query, prompt, win, lockVars>>

(* The button knows the access point its panel was built for.  It asks for *)
(* a password too when the question whether there is one fails.            *)
Connect ==
    /\ Released("connect")
    /\ LET a == page.selected
       IN  \/ /\ a \notin Secured \/ HasUsableSavedSecret(a)
              /\ ConnectToAccessPoint(a, "unset")
              /\ ui' = HandleRelease(ui)
              /\ UNCHANGED prompt
           \/ /\ a \in Secured
              /\ prompt' = a
              /\ Blocks
              /\ UNCHANGED <<svc, ui>>
    /\ UNCHANGED <<nm, link, unread, reading, reader, dirty, page, query, win, lockVars>>

(* PromptForPassword has a loop of its own: nothing else happens in the    *)
(* window until Enter (with any text, also none), Escape or a click        *)
(* outside.                                                                *)
Typed(a, text) ==
    /\ Open /\ prompt = a
    /\ ConnectToAccessPoint(a, text)
    /\ prompt' = None
    /\ ui' = HandleRelease(ui)
    /\ UNCHANGED <<nm, link, unread, reading, reader, dirty, page, query, win, lockVars>>

Dismissed ==
    /\ Open /\ prompt # None
    /\ prompt' = None
    /\ ui' = HandleRelease(ui)
    /\ UNCHANGED <<svc, busVars, dirty, page, query, win, lockVars>>

(* A key in the search field: the list is filtered again by a new page.    *)
KeyPress(nonempty) ==
    /\ Free /\ ui.focus.what # "none"
    /\ query' = nonempty
    /\ RebuildPage(Touch(ui, ui.focus), "main", nonempty)
    /\ UNCHANGED <<svc, busVars, dirty, prompt, win, lockVars>>

Resize ==
    /\ Free
    /\ RebuildChrome(ui)
    /\ UNCHANGED <<svc, busVars, dirty, query, prompt, win, lockVars>>

-------------------------------------------------------------------------------
(* The window's process. *)

Interacting == prompt # None \/ IsInteracting(ui)

(* Initialize, once the lock is held: the copy is read before the page, if *)
(* there is a bus.  Bound: a process without a lock is followed no further *)
(* than here, its window is like any other.                                *)
OpenWindow(p) ==
    /\ p = Shown /\ win = None /\ pc[p] = "running"
    /\ win' = p
    /\ nm' = NoCopy /\ page' = NoPage /\ ui' = NoTree /\ unread' = {}
    /\ link' \in {"none", "deaf", "heard"}
    /\ reading' = (IF link' = "none" THEN "shown" ELSE "state") /\ reader' = "start"
    /\ dirty' = FALSE /\ query' = FALSE /\ prompt' = None
    /\ wire' = FALSE /\ parked' = FALSE
    /\ UNCHANGED <<svc, lockVars>>

WindowGone(p) ==
    IF win = p
    THEN /\ win' = None /\ nm' = NoCopy /\ page' = NoPage /\ ui' = NoTree
         /\ wire' = FALSE /\ parked' = FALSE /\ dirty' = FALSE /\ query' = FALSE
         /\ reading' = "no" /\ reader' = "start" /\ prompt' = None
         /\ link' = "none" /\ unread' = {}
         /\ UNCHANGED svc
    ELSE UNCHANGED netVars

Quit(p) ==
    /\ Running(p) /\ (win = p => Polling)
    /\ CloseLock(p)
    /\ WindowGone(p)

Killed(p) == Crash(p) /\ WindowGone(p)

RaiseAndFocus(p) ==
    /\ Raise(p)
    /\ Running(p) /\ (win = p => Polling)
    /\ UNCHANGED netVars

Init == LockInit /\ NetInit

(* Bound: a start is tried on a window that nobody is using, or on none.   *)
AtRest == ~Interacting /\ reading = "no" /\ ~wire /\ ~parked /\ ~dirty /\ ~query

LockNext ==
    \E p \in Proc :
        \/ AtRest /\ (Start(p) \/ LaunchOrRaise(p)) /\ UNCHANGED netVars
        \/ (Probe(p) \/ Unlink(p) \/ Bind(p) \/ Listen(p) \/ UnlinkClosed(p)) /\ UNCHANGED netVars
        \/ Quit(p) \/ Killed(p) \/ RaiseAndFocus(p) \/ OpenWindow(p)

Reads ==
    \/ RefreshGlobalState \/ RefreshDevices \/ RefreshSavedConnections
    \/ ShowRefreshed \/ RequestWiFiScan

UserNext ==
    \/ \E w \in Widgets : ButtonPress(w)
    \/ ReleaseElsewhere \/ Motion \/ ToggleWifi \/ RefreshClicked
    \/ \E a \in AP : SelectRow(a)
    \/ TurnPage("advanced", "advanced") \/ TurnPage("back", "main")
    \/ Disconnect \/ Connect
    \/ \E a \in AP, text \in Texts : Typed(a, text)
    \/ Dismissed \/ Resize
    \/ \E nonempty \in BOOLEAN : KeyPress(nonempty)

Next == LockNext \/ ServiceChanges \/ (\E a \in Secured : PasswordChanges(a)) \/ Reads \/ Dispatch \/ Interval \/ UserNext

(* The loop serves its descriptors and its timer, and the bus answers.     *)
Spec == Init /\ [][Next]_vars
        /\ WF_vars(Reads) /\ WF_vars(Dispatch) /\ WF_vars(Interval)
-------------------------------------------------------------------------------
(* A signal lies in libdbus and poll() does not know: only the next one    *)
(* the service happens to send will bring it out.                          *)
Stranded == parked /\ ~wire /\ reading = "no"

PageIsCurrent ==
    page.view = "main" =>
        /\ page.wifi = svc.wifi
        /\ svc.wifi =>
             LET rows == IF query THEN svc.aps \intersect Matching ELSE svc.aps
             IN  /\ page.rows = rows
                 /\ page.active = IF svc.active \in rows THEN svc.active ELSE None

(* A part of the copy is only ever behind while a signal is on its way, or *)
(* when its last read failed: whatever the service did between the reads   *)
(* of one Refresh, whoever asked for it and whichever other read failed, a *)
(* part that was read is right once no signal is left (Connect subscribes  *)
(* before it reads, Dispatch goes on while there are signals).             *)
MirrorIsCurrent ==
    link = "heard" /\ reading \in {"no", "shown", "scan"} /\ ~wire /\ ~parked =>
        /\ "state" \notin unread => nm.wifi = svc.wifi
        /\ "devices" \notin unread => nm.aps = svc.aps /\ nm.active = svc.active
        /\ "saved" \notin unread => nm.saved = Profiles(svc)

(* What is on screen catches up with the service, as long as the user's    *)
(* hands are off the page now and then and the service lets the window     *)
(* finish reading.  The gaps are known and named: no bus or not all of its *)
(* matches, a signal stranded by a call of the window's own, a read that   *)
(* failed, and a switch whose request was refused (Interval, Dispatch,     *)
(* the result of SetProperty).                                             *)
PageCatchesUp ==
    []<>(win = None \/ ~Alone \/ Interacting \/ ui.faulted # "none"
           \/ reading # "no" \/ link # "heard" \/ Stranded \/ unread # {}
           \/ page.refused \/ PageIsCurrent)

(* No event reaches a widget that is gone, although pages are rebuilt from *)
(* inside their own callbacks, with one known exception: a search field    *)
(* that is typed into twice while a mouse button is held down on it        *)
(* (ScrollView::SetContent, m_pressedWidget, m_focusedWidget).             *)
OnlyHeldFieldDangles ==
    /\ ui.focus.age = 0
    /\ ui.pressed.age = Freed => ui.pressed.what = "search"
    /\ ui.faulted \in {"none", "search"}
=============================================================================
