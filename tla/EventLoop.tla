------------------------------- MODULE EventLoop -------------------------------
(***************************************************************************)
(* EventLoop::Run with the clock in it: one turn handles what Xlib has,    *)
(* ticks if a tick is due, sleeps in select() until then or until a file   *)
(* descriptor is ready, and serves those that were.  Every handler takes   *)
(* time, the other ends write whenever they like, and a handler that asks  *)
(* the X server something moves the events on the socket into Xlib's       *)
(* queue, where select() does not see them.                                *)
(*                                                                         *)
(* One unit of time is what the slowest handler takes (MaxCost = 1).       *)
(***************************************************************************)
EXTENDS NotificationCenter

CONSTANTS
    Sources,    \* the other descriptors: D-Bus, inotify, the session bus
    Clients,    \* kohikoctl processes
    Idle,       \* tickInterval with nothing to show, in time units
    Prompt,     \* tickInterval while a toast is shown
    Frame,      \* tickInterval while a window is animated
    Burst       \* X events at most between two ticks

ASSUME LoopAssumption ==
    /\ Idle \in Nat /\ Prompt \in Nat /\ Frame \in Nat
    /\ 0 < Frame /\ Frame <= Prompt /\ Prompt <= Idle
    /\ Burst \in Nat /\ Clients \cap Sources = {}
    /\ IsFiniteSet(Sources) /\ "ipc" \notin Sources

VARIABLES
    pc,         \* where in its turn the loop is
    due,        \* nextTick, as the time left until then
    since,      \* time since the last tick (history)
    animating,  \* HasActiveAnimation
    socket,     \* X events on the socket
    queued,     \* X events in Xlib's queue
    waited,     \* how long the oldest of them has waited (history)
    budget,     \* X events that may still come before the next tick
    ready,      \* other descriptors with something to read
    asking,     \* kohikoctl processes that have connected, in order
    serving     \* descriptors select() has reported

xEvents == <<socket, queued, waited, budget>>
vars == <<pc, due, since, animating, xEvents, ready, asking, serving, active>>

Ipc == "ipc"
MaxLate == Cardinality(Sources) + Burst + 3

LoopTypeOK ==
    /\ pc \in {"drain", "schedule", "select", "serve"}
    /\ due \in (0 - MaxLate)..Idle /\ since \in Nat /\ animating \in BOOLEAN
    /\ socket \in 0..Burst /\ queued \in 0..Burst /\ budget \in 0..Burst
    /\ waited \in Nat
    /\ ready \subseteq Sources /\ asking \in Seq(Clients)
    /\ serving \subseteq Sources \cup {Ipc}
    /\ (Ipc \in serving) => asking # <<>>
    /\ (pc = "schedule") => queued = 0
    /\ (serving # {}) => pc = "serve"

Init ==
    /\ pc = "drain" /\ due = 0 /\ since = 0 /\ animating = FALSE
    /\ socket = 0 /\ queued = 0 /\ waited = 0 /\ budget = Burst
    /\ ready = {} /\ asking = <<>> /\ serving = {}
    /\ active = NoToasts

(* ------------------------------- the clock ------------------------------- *)

\* What `time' does to everything that waits, given what is left of X events.
Waiting(time, events) == IF events = 0 THEN 0 ELSE waited + time

Elapse(time) ==
    /\ due' = due - time
    /\ since' = since + time
    /\ active' = Aged(active, time)

(* ------------------------------ the outside ------------------------------ *)

XArrives ==
    /\ budget > 0 /\ socket' = socket + 1 /\ budget' = budget - 1
    /\ UNCHANGED <<pc, due, since, animating, queued, waited, ready, asking, serving, active>>

SourceReady(s) ==
    /\ s \notin ready /\ ready' = ready \cup {s}
    /\ UNCHANGED <<pc, due, since, animating, xEvents, asking, serving, active>>

\* kohikoctl connects, writes its request and shuts its side down.
Connect(c) ==
    /\ c \notin Range(asking) /\ asking' = Append(asking, c)
    /\ UNCHANGED <<pc, due, since, animating, xEvents, ready, serving, active>>

(* ------------------------------- the loop -------------------------------- *)

\* A round trip reads everything the server has sent so far.
RoundTrip(trip) ==
    IF trip THEN queued' = queued + socket /\ socket' = 0 ELSE UNCHANGED <<queued, socket>>

\* XPending reads the socket when the queue is empty; one event is handled.
HandleXEvent ==
    /\ pc = "drain" /\ queued + socket > 0
    /\ queued' = queued + socket - 1 /\ socket' = 0
    /\ animating' \in BOOLEAN
    /\ \E cost \in 0..1 : Elapse(cost) /\ waited' = Waiting(cost, queued')
    /\ UNCHANGED <<pc, budget, ready, asking, serving>>

\* Mutant.  Xlib's queue is looked at only when its socket is readable.
Drained_SocketOnly ==
    /\ pc = "drain" /\ socket = 0
    /\ pc' = "schedule"
    /\ UNCHANGED <<due, since, animating, xEvents, ready, asking, serving, active>>

Drained ==
    /\ pc = "drain" /\ queued + socket = 0
    /\ pc' = "schedule"
    /\ UNCHANGED <<due, since, animating, xEvents, ready, asking, serving, active>>

TickInterval ==
    IF animating THEN Frame ELSE IF HasActive THEN Prompt ELSE Idle

\* Mutant.  The deadline is set anew in every turn.
PullForward_Anew(interval) == interval

\* Mutant.  A shorter interval waits for the tick that was already set.
PullForward_Never(interval) == due

PullForward(interval) == IF interval < due THEN interval ELSE due

\* WindowManager::Tick: the animation may end, expired toasts go, and what it
\* asks the X server fills Xlib's queue.
Tick ==
    /\ pc = "schedule" /\ PullForward(TickInterval) <= 0
    /\ animating' \in {animating, FALSE}
    /\ due' = TickInterval /\ since' = 0
    /\ \E cost \in 0..1, trip \in BOOLEAN :
         /\ active' = Aged(TickToasts, cost)
         /\ RoundTrip(trip) /\ waited' = Waiting(cost, queued + socket)
    /\ budget' = Burst - (socket + queued)
    /\ pc' = "select"
    /\ UNCHANGED <<ready, asking, serving>>

NotYet ==
    /\ pc = "schedule" /\ PullForward(TickInterval) > 0
    /\ due' = PullForward(TickInterval)
    /\ pc' = "select"
    /\ UNCHANGED <<since, animating, xEvents, ready, asking, serving, active>>

Readable == ready \cup (IF asking # <<>> THEN {Ipc} ELSE {})

SelectReturns ==
    /\ pc = "select" /\ (socket > 0 \/ Readable # {} \/ due <= 0)
    /\ serving' = Readable
    /\ pc' = "serve"
    /\ UNCHANGED <<due, since, animating, xEvents, ready, asking, active>>

\* Nothing to do until the deadline.
Sleep ==
    /\ pc = "select" /\ due > 0 /\ socket = 0 /\ Readable = {}
    /\ Elapse(1) /\ waited' = Waiting(1, queued)
    /\ UNCHANGED <<pc, animating, socket, queued, budget, ready, asking, serving>>

\* IPCServer::Poll answers one request; `notify' posts a toast, and any
\* command may animate, or ask the X server.
ServeIpc ==
    /\ pc = "serve" /\ Ipc \in serving
    /\ serving' = serving \ {Ipc}
    /\ asking' = Tail(asking)
    /\ animating' \in BOOLEAN
    /\ \E cost \in 0..1, trip \in BOOLEAN :
         /\ due' = due - cost /\ since' = since + cost
         /\ RoundTrip(trip) /\ waited' = Waiting(cost, queued + socket)
         /\ \/ active' = Aged(active, cost)
            \/ \E mon \in Monitor : Post(Aged(active, cost), mon)
    /\ UNCHANGED <<pc, budget, ready>>

\* The other handlers take everything there is to read.
ServeSource ==
    /\ pc = "serve" /\ Ipc \notin serving /\ serving # {}
    /\ \E s \in serving : serving' = serving \ {s} /\ ready' = ready \ {s}
    /\ \E cost \in 0..1, trip \in BOOLEAN :
         Elapse(cost) /\ RoundTrip(trip) /\ waited' = Waiting(cost, queued + socket)
    /\ UNCHANGED <<pc, animating, budget, asking>>

Served ==
    /\ pc = "serve" /\ serving = {} /\ pc' = "drain"
    /\ UNCHANGED <<due, since, animating, xEvents, ready, asking, serving, active>>

LoopNext ==
    \/ HandleXEvent \/ Drained \/ Tick \/ NotYet
    \/ SelectReturns \/ Sleep \/ ServeIpc \/ ServeSource \/ Served

Next ==
    \/ LoopNext
    \/ XArrives
    \/ \E s \in Sources : SourceReady(s)
    \/ \E c \in Clients : Connect(c)

\* The loop runs; nothing outside it has to.
FairSpec == Init /\ [][Next]_vars /\ WF_vars(LoopNext)

(* ------------------------------ properties ------------------------------- *)

\* The most one turn takes beside sleeping: every X event there can be, one
\* request, and each other descriptor once.
Turn == Burst + 1 + Cardinality(Sources)

\* "Other fd traffic can only delay a tick by the time it takes to service it,
\* never indefinitely" (EventLoop::Run, TickSchedule): a tick comes an interval
\* after the last one and at most one turn later, however busy the
\* descriptors are.
TickComes == since <= Idle + Turn

\* An X event waits for one turn and an interval at most, even if it was read
\* into Xlib's queue by somebody else's round trip and select() does not see
\* it: the tick's deadline is what gets it handled.
EventsAreHandled == waited <= Idle + Turn

\* No busy descriptor, command, animation or hidden event keeps a tick or an X
\* event waiting.
NothingWaitsLong == LoopTypeOK /\ TickComes /\ EventsAreHandled

\* A toast goes when it has been shown for its lifetime, up to the short
\* interval and one turn (PullForward, NotificationCenter::Tick).
ToastsGoInTime ==
    \A i \in DOMAIN active : active[i].left >= 0 - (Prompt + Turn)

\* However busy the loop is, there are never more toasts than there may be,
\* each goes in time and what is left closes up (NotificationCenter::Post, Tick).
ToastsBehave == Len(active) <= MaxStacked /\ ToastsGoInTime /\ ToastsStack
==============================================================================
