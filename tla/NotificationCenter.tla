-------------------------- MODULE NotificationCenter --------------------------
(***************************************************************************)
(* The toasts kohiko (and kohiko-audio-tray) show: a short list, oldest    *)
(* first, each stacked in the corner of the monitor it was posted on and   *)
(* gone once it has been shown for its lifetime.  Every toast has the same *)
(* height, so a place in a stack is a number: 0 is the corner itself.      *)
(* Nothing here runs by itself: the event loop of the process calls Post   *)
(* and Tick and lets time pass.                                            *)
(***************************************************************************)
EXTENDS Integers, Sequences, SequencesExt, Positions

CONSTANTS
    Monitor,        \* the monitors toasts are posted on
    MaxStacked,     \* NotificationLayout::kMaxStacked
    Lifetime        \* NotificationLayout::kDefaultLifetime, in time units

ASSUME ToastAssumption == MaxStacked \in Nat \ {0} /\ Lifetime \in Nat \ {0}

VARIABLE active     \* m_active: the toasts shown, oldest first

NoToasts == <<>>

(* -------------------------------- stacks --------------------------------- *)

\* The positions of a monitor's toasts, and how many of them are older than one.
On(toasts, mon) == {i \in DOMAIN toasts : toasts[i].mon = mon}

Older(toasts, i) == Before(On(toasts, toasts[i].mon), i)

\* RestackMonitor on each of them: their toasts move down to the places they
\* have in their stack.
RestackMonitor(toasts, mons) ==
    [i \in DOMAIN toasts |->
        IF toasts[i].mon \in mons THEN [toasts[i] EXCEPT !.place = Older(toasts, i)]
        ELSE toasts[i]]

(* ----------------------------- Post and Tick ----------------------------- *)

\* Mutant.  The monitor of the new toast is restacked, not the one that lost one.
Evicted_ElsewhereRestacked(toasts, mon) ==
    IF Len(toasts) < MaxStacked THEN toasts
    ELSE RestackMonitor(Remaining(toasts, 2..Len(toasts)), {mon})

\* At the limit the oldest toast, on whatever monitor, makes room.
Evicted(toasts, mon) ==
    IF Len(toasts) < MaxStacked THEN toasts
    ELSE RestackMonitor(Remaining(toasts, 2..Len(toasts)), {toasts[1].mon})

Posted(toasts, mon) ==
    LET kept == Evicted(toasts, mon)
        toast == [mon |-> mon, place |-> Cardinality(On(kept, mon)), left |-> Lifetime]
    IN Append(kept, toast)

\* The popup's window may not come to be: the one that made room is gone all
\* the same.
Post(toasts, mon) == active' \in {Posted(toasts, mon), Evicted(toasts, mon)}

\* What has expired goes, and the monitors it was on are restacked.
TickToasts ==
    LET expired == {i \in DOMAIN active : active[i].left <= 0}
    IN RestackMonitor(Remaining(active, DOMAIN active \ expired),
                      {active[i].mon : i \in expired})

Aged(toasts, time) ==
    [i \in DOMAIN toasts |-> [toasts[i] EXCEPT !.left = @ - time]]

HasActive == active # NoToasts

\* No two toasts cover each other and none leaves a hole in its stack, whatever
\* was evicted or has expired on whichever monitor (Post, Tick,
\* RestackMonitor).
ToastsStack ==
    \A mon \in Monitor :
        LET stack == On(active, mon)
        IN {active[i].place : i \in stack} = 0..(Cardinality(stack) - 1)

\* "Newest closest to the corner, older ones pushed up" (NotificationCenter.h).
NewestInCorner ==
    \A mon \in Monitor, i \in DOMAIN active :
        active[i].mon = mon /\ (\A j \in On(active, mon) : j <= i) => active[i].place = 0
==============================================================================
