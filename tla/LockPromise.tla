----------------------------- MODULE LockPromise -----------------------------
(***************************************************************************)
(* What the lock screen and its recovery marker promise, without saying    *)
(* how: a locked session stays locked, over any number of crashes and      *)
(* restarts, until its user has authenticated or the session was ended on  *)
(* purpose.                                                                *)
(***************************************************************************)
VARIABLES
    face,     \* what a running window manager shows, if one runs
    owed,     \* a lock screen is owed to whoever comes next
    answer    \* the last verdict of authentication

promiseVars == <<face, owed, answer>>

Faces == {"none", "desktop", "locked", "leaving"}

Init == face = "none" /\ owed = FALSE /\ answer = "none"

\* A window manager has come up; what is owed is paid at once.
Appear ==
    /\ face = "none" /\ face' \in {"desktop", "locked"}
    /\ owed => face' = "locked"
    /\ owed' = (face' = "locked")
    /\ UNCHANGED answer

Engage ==
    /\ face = "desktop" /\ face' = "locked" /\ owed' = TRUE
    /\ UNCHANGED answer

\* The user asks, and authentication has its say.
Ask == face = "locked" /\ answer' = "none" /\ UNCHANGED <<face, owed>>

Verdict ==
    /\ face = "locked" /\ answer = "none"
    /\ answer' \in {"yes", "no"} /\ UNCHANGED <<face, owed>>

Open ==
    /\ face = "locked" /\ answer = "yes"
    /\ face' = "desktop" /\ owed' = FALSE /\ answer' = "none"

\* A crash takes the lock screen away, never the debt; neither does a crash
\* while the lock screen is being put up or taken down settle it.
Vanish == face # "none" /\ face' = "none" /\ answer' = "none" /\ UNCHANGED owed

Leave == face \in {"desktop", "locked"} /\ face' = "leaving" /\ UNCHANGED <<owed, answer>>

Gone == face = "leaving" /\ face' = "none" /\ owed' = FALSE /\ answer' = "none"

\* A lock screen shown while starting up may already be owed.
StartingUp == face = "none" /\ owed' = TRUE /\ UNCHANGED <<face, answer>>

Next ==
    \/ Appear \/ Engage \/ Ask \/ Verdict \/ Open
    \/ Vanish \/ Leave \/ Gone \/ StartingUp

Spec == Init /\ [][Next]_promiseVars
==============================================================================
