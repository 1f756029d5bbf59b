----------------------------- MODULE LockSession -----------------------------
(***************************************************************************)
(* One login of kohiko: the wrapper script that restarts it                *)
(* (scripts/kohiko-session), the way it starts and ends (Application::Run),*)
(* its lock screen with PAM behind it (LockScreen, Authenticator), and the *)
(* two markers on disk that outlive a crash: RecoveryMode's, which makes   *)
(* the next start ignore the configuration, and LockRecovery's, which      *)
(* makes it come up locked.                                                *)
(*                                                                         *)
(* kohiko is single-threaded.  `step' is how far the handler it is in has  *)
(* come: it can crash, or be killed, after any of them, and while it waits *)
(* for PAM it does nothing else.                                           *)
(***************************************************************************)
EXTENDS Naturals

CONSTANTS
    MaxFailures,    \* MAX_CONSECUTIVE_FAILURES of the wrapper
    After,          \* the values of lockscreen.after to consider
    Passwordless,   \* may the account have no password?
    BadConfig       \* may the configuration crash the start?

ASSUME SessionAssumption ==
    /\ MaxFailures \in Nat \ {0}
    /\ After \subseteq {"never", "suspend", "always"}
    /\ Passwordless \in BOOLEAN /\ BadConfig \in BOOLEAN

VARIABLES
    setup,      \* the account and its configuration file
    stage,      \* how far kohiko is from starting to ending
    step,       \* how far the handler it runs has come
    locked,     \* LockScreen::m_locked
    answer,     \* the verdict of the last authentication
    safe,       \* it runs on built-in defaults
    term,       \* g_terminateRequested
    status,     \* exit status of the last process, until the wrapper sees it
    startMark,  \* the file startup-in-progress exists
    lockMark,   \* the file session-locked exists
    wrapper,    \* what kohiko-session is doing
    failures,   \* consecutive_failures
    steady,     \* kohiko has run for STABLE_RUN_SECONDS
    blamed      \* starts the configuration crashed since one succeeded (history)

kohiko == <<stage, step, locked, answer, safe, term, steady>>
marks == <<startMark, lockMark>>
script == <<wrapper, failures>>
vars == <<setup, kohiko, status, marks, script, blamed>>

Setups == [after: After, passwordless: BOOLEAN, bad: BOOLEAN]
Starting == {"noted", "loading", "relocking", "autolocking", "finishing"}
Running == Starting \cup {"up", "leaving"}
Steps == {"idle", "asking", "engaged", "verifying", "opened"}

LockTypeOK ==
    /\ setup \in Setups
    /\ stage \in Running \cup {"off"} /\ step \in Steps
    /\ locked \in BOOLEAN /\ answer \in {"none", "yes", "no"}
    /\ safe \in BOOLEAN /\ term \in BOOLEAN /\ steady \in BOOLEAN
    /\ status \in {"none", "clean", "failed"}
    /\ startMark \in BOOLEAN /\ lockMark \in BOOLEAN
    /\ wrapper \in {"running", "stopping", "backoff", "over"}
    /\ failures \in 0..(MaxFailures + 1) /\ blamed \in Nat
    /\ (step \in {"engaged", "verifying"}) => locked
    /\ (step \in {"asking", "opened"}) => ~locked
    /\ (stage = "off") => (step = "idle" /\ ~locked /\ ~term)
    /\ (stage # "off") => (status = "none" /\ wrapper \in {"running", "stopping"})

Init ==
    /\ setup \in Setups
    /\ setup.passwordless => Passwordless
    /\ setup.bad => BadConfig
    /\ stage = "off" /\ step = "idle" /\ locked = FALSE /\ answer = "none"
    /\ safe = FALSE /\ term = FALSE /\ steady = FALSE /\ status = "none"
    /\ startMark = FALSE /\ lockMark = FALSE
    /\ wrapper = "running" /\ failures = 0 /\ blamed = 0

(* ------------------------------ starting up ------------------------------ *)

\* The option as this run of kohiko reads it: the built-in default when the
\* configuration is left aside.
LockAfter == IF safe THEN "suspend" ELSE setup.after
ManualAllowed == LockAfter # "never"

\* Mutant.  The startup marker is taken away by the start that found it.
NoteStartupAttempt_Consumes ==
    /\ safe' = startMark
    /\ startMark' = ~startMark

NoteStartupAttempt ==
    /\ safe' = startMark
    /\ startMark' = TRUE

Launch ==
    /\ wrapper = "running" /\ stage = "off" /\ status = "none"
    /\ NoteStartupAttempt
    /\ stage' = "noted"
    /\ steady' = FALSE
    /\ UNCHANGED <<setup, step, locked, answer, term, status, lockMark, script, blamed>>

\* The process is gone, and with it everything but the files.
Ended(how) ==
    /\ stage' = "off" /\ step' = "idle" /\ locked' = FALSE /\ answer' = "none"
    /\ safe' = FALSE /\ term' = FALSE /\ status' = how
    /\ UNCHANGED <<setup, steady>>

Fails == Ended("failed") /\ UNCHANGED <<marks, blamed>>

\* No display, or another window manager owns it.
StartFails ==
    /\ stage = "noted" /\ Fails /\ UNCHANGED script

Stage(from, to) ==
    /\ stage = from /\ step = "idle" /\ stage' = to
    /\ UNCHANGED <<setup, locked, answer, safe, term, status, marks, script, steady>>

Connects == Stage("noted", "loading") /\ UNCHANGED <<step, blamed>>

\* Whatever is wrong with the configuration bites before the lock screen is
\* looked at.
ConfigCrash ==
    /\ stage = "loading" /\ setup.bad /\ ~safe
    /\ Ended("failed")
    /\ blamed' = blamed + 1
    /\ UNCHANGED <<marks, script>>

Loads ==
    /\ setup.bad => safe
    /\ Stage("loading", "relocking")
    /\ UNCHANGED <<step, blamed>>

\* Mutant.  Lock does not ask whether it is locked already.
LockStep_Again == "asking"

\* LockScreen::Lock, up to the empty password it tries first.
LockStep == IF locked THEN "idle" ELSE "asking"

\* Mutant.  On built-in defaults the lock marker is not looked at.
RelockAtStart_UnlessSafe ==
    /\ Stage("relocking", "autolocking")
    /\ step' = IF lockMark /\ ~safe THEN LockStep ELSE "idle"
    /\ UNCHANGED blamed

RelockAtStart ==
    /\ Stage("relocking", "autolocking")
    /\ step' = IF lockMark THEN LockStep ELSE "idle"
    /\ UNCHANGED blamed

AutoLockAtStart ==
    /\ Stage("autolocking", "finishing")
    /\ step' = IF LockAfter = "always" THEN LockStep ELSE "idle"
    /\ UNCHANGED blamed

MarkStartupSucceeded ==
    /\ stage = "finishing" /\ step = "idle"
    /\ stage' = "up"
    /\ startMark' = FALSE
    /\ blamed' = 0
    /\ UNCHANGED <<setup, step, locked, answer, safe, term, steady, status, lockMark, script>>

StartNext ==
    \/ StartFails \/ Connects \/ ConfigCrash \/ Loads
    \/ RelockAtStart \/ AutoLockAtStart \/ MarkStartupSucceeded

(* ------------------------ the lock screen's handlers --------------------- *)

Serving == stage = "up" /\ step = "idle"

\* Only the handler's progress changes.
Proceeds(to) ==
    /\ step' = to
    /\ UNCHANGED <<setup, stage, safe, term, status, script, steady, blamed>>

Requested == Proceeds(LockStep) /\ UNCHANGED <<locked, answer, marks>>

LockCommand == Serving /\ ManualAllowed /\ Requested
IdleTimeout == Serving /\ ~locked /\ ManualAllowed /\ Requested
Suspend == Serving /\ LockAfter \in {"suspend", "always"} /\ Requested
LogindLock == Serving /\ Requested

\* An account without a password is not locked at all.
NothingToLock ==
    /\ step = "asking" /\ setup.passwordless
    /\ Proceeds("idle")
    /\ UNCHANGED <<locked, answer, marks>>

Engages ==
    /\ step = "asking" /\ ~setup.passwordless
    /\ locked' = TRUE /\ answer' = "none"
    /\ Proceeds("engaged")
    /\ UNCHANGED marks

\* Mutant.  The marker is not written when the lock screen is up.
NoteLocked_Never ==
    /\ step = "engaged"
    /\ Proceeds("idle")
    /\ UNCHANGED <<locked, answer, marks>>

NoteLocked ==
    /\ step = "engaged"
    /\ lockMark' = TRUE
    /\ Proceeds("idle")
    /\ UNCHANGED <<locked, answer, startMark>>

PressReturn ==
    /\ Serving /\ locked
    /\ answer' = "none"
    /\ Proceeds("verifying")
    /\ UNCHANGED <<locked, marks>>

\* Any other key while locked only edits what was typed.
Verified(verdict) ==
    /\ step = "verifying"
    /\ answer' = verdict
    /\ locked' = (verdict = "no")
    /\ Proceeds(IF verdict = "yes" THEN "opened" ELSE "idle")
    /\ UNCHANGED marks

NoteUnlocked ==
    /\ step = "opened"
    /\ lockMark' = FALSE /\ answer' = "none"
    /\ Proceeds("idle")
    /\ UNCHANGED <<locked, startMark>>

Authentication ==
    NothingToLock \/ Engages \/ \E verdict \in {"yes", "no"} : Verified(verdict)

LockNext ==
    \/ LockCommand \/ IdleTimeout \/ Suspend \/ LogindLock \/ PressReturn
    \/ Authentication \/ NoteLocked \/ NoteUnlocked

(* ----------------------------- ways to end ------------------------------- *)

\* quit, from a key or over IPC, or the flag the signal handler has set: the
\* loop looks at both when no handler runs.
Leave ==
    /\ stage = "up" /\ step = "idle"
    /\ stage' = "leaving"
    /\ UNCHANGED <<setup, step, locked, answer, safe, term, steady, status, marks, script, blamed>>

Shutdown ==
    /\ stage = "leaving"
    /\ lockMark' = FALSE
    /\ Ended("clean")
    /\ UNCHANGED <<startMark, script, blamed>>

Crash == stage \in Running /\ Fails /\ UNCHANGED script

\* SIGTERM or SIGINT to kohiko: before the handlers are there it kills.
Signalled ==
    IF stage = "noted" THEN Fails
    ELSE /\ term' = TRUE
         /\ UNCHANGED <<setup, stage, step, locked, answer, safe, steady, status, marks, blamed>>

TermToKohiko == stage \in Running /\ ~term /\ Signalled /\ UNCHANGED script

RunsSteadily ==
    /\ stage = "up" /\ ~steady /\ steady' = TRUE
    /\ UNCHANGED <<setup, stage, step, locked, answer, safe, term, status, marks, script, blamed>>

(* ---------------------------- kohiko-session ----------------------------- *)

Counted == 1 + IF steady THEN 0 ELSE failures

Wrapper(to, count) ==
    /\ wrapper' = to /\ failures' = count
    /\ UNCHANGED <<setup, kohiko, marks, blamed>>

\* `wait' returns: a clean exit ends the session, a failure is counted.
WaitReturns ==
    /\ wrapper = "running" /\ stage = "off" /\ status # "none"
    /\ status' = "none"
    /\ IF status = "clean" THEN Wrapper("over", failures)
       ELSE Wrapper(IF Counted > MaxFailures THEN "over" ELSE "backoff", Counted)

BackoffEnds ==
    /\ wrapper = "backoff" /\ Wrapper("running", failures)
    /\ UNCHANGED status

\* The display manager ends the session: the signal is passed on.
EndSession ==
    /\ wrapper = "running" /\ stage \in Running
    /\ wrapper' = "stopping" /\ UNCHANGED failures
    /\ Signalled

\* There is no child to signal.
EndSessionNow ==
    /\ wrapper \in {"running", "backoff"} /\ stage = "off"
    /\ status' = "none"
    /\ Wrapper("over", failures)

\* Mutant.  The wrapper waits for kohiko to finish what it is doing.
KillStuck_Patient ==
    /\ wrapper = "stopping" /\ stage \in Running /\ step = "idle"
    /\ Fails /\ UNCHANGED script

\* kohiko did not end within ten seconds.
KillStuck ==
    /\ wrapper = "stopping" /\ stage \in Running
    /\ Fails /\ UNCHANGED script

Stopped ==
    /\ wrapper = "stopping" /\ stage = "off"
    /\ status' = "none"
    /\ Wrapper("over", failures)

\* The next login finds the files the last one left.
Login ==
    /\ wrapper = "over" /\ stage = "off"
    /\ Wrapper("running", 0)
    /\ UNCHANGED status

WrapperNext ==
    \/ WaitReturns \/ BackoffEnds \/ EndSession \/ EndSessionNow
    \/ KillStuck \/ Stopped \/ Login

Next ==
    \/ Launch \/ StartNext \/ LockNext
    \/ Leave \/ Shutdown \/ Crash \/ TermToKohiko \/ RunsSteadily
    \/ WrapperNext

Spec == Init /\ [][Next]_vars

\* The script and kohiko keep going, except that PAM may never answer; nobody
\* is bound to lock, to unlock, to log in or to crash.
Fairness ==
    /\ WF_vars(Launch) /\ WF_vars(WaitReturns) /\ WF_vars(BackoffEnds)
    /\ WF_vars(KillStuck) /\ WF_vars(Stopped)
    /\ WF_vars(StartNext) /\ WF_vars(NoteLocked)

FairSpec == Spec /\ Fairness

(* ------------------------------ properties ------------------------------- *)

\* What a bystander sees: the lock screen counts as up once the marker is
\* written, and as down once it is removed.
Face ==
    CASE stage = "leaving" -> "leaving"
      [] stage \notin {"up", "leaving"} -> "none"
      [] stage = "up" /\ (step = "opened" \/ (locked /\ step # "engaged")) -> "locked"
      [] OTHER -> "desktop"

Promise == INSTANCE LockPromise WITH face <- Face, owed <- lockMark

\* A locked session is locked again after any crash, at whatever step, until
\* PAM has said yes or the session was ended on purpose (LockRecovery with
\* LockScreen::Lock and Unlock, and Shutdown's NoteUnlocked).
KeepsPromise == Promise!Spec

\* A configuration that crashes the start is tried once: whatever happens to
\* the starts after it, the file is left aside until one of them has succeeded
\* (RecoveryMode), so that it alone never uses up the wrapper's restarts.
ConfigCrashesOnce == blamed <= 1

\* The wrapper and its child are in a state the script can be in, and the
\* marks they leave each other protect the next start.
LockSafety == LockTypeOK /\ ConfigCrashesOnce

\* Ending the session ends it, even if kohiko hangs in PAM (forward_and_exit
\* "must never itself hang forever").
StopEnds == (wrapper = "stopping") ~> (wrapper = "over")

\* After a crash while locked the lock screen is put up again, or the session
\* is given up: the restarts do not go on without it (kohiko-session with
\* LockRecovery::WasLockedAtLastExit).
LockedAgain ==
    (lockMark /\ stage = "off" /\ wrapper # "over")
        ~> (locked \/ step = "asking" \/ wrapper = "over")
==============================================================================
