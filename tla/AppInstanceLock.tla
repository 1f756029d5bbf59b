--------------------------- MODULE AppInstanceLock ---------------------------
(***************************************************************************)
(* One window per companion application.  A process that starts first      *)
(* knocks on the application's socket; if nobody answers it removes the    *)
(* socket file, binds its own and listens.  These are separate system      *)
(* calls of separate processes, and nothing holds them together.  A tray   *)
(* icon's click does the same knock, and starts a process when nobody      *)
(* answers.  A crash leaves the file behind.  A quitting process closes its  *)
(* socket and then removes the file, in two calls as well; and a process   *)
(* that gets no socket, or cannot bind it, runs on without a lock.         *)
(***************************************************************************)
CONSTANTS Proc,         \* processes of one companion application
          None          \* no process, no window, no prompt

ASSUME NoneIsNoProcess == None \notin Proc

VARIABLES
    pc,                 \* pc[p]: how far p has come in AcquireOrListen
    path,               \* whose socket the file at m_socketPath is
    raised,             \* processes with a raise request to accept
    raced               \* some start's knock went unanswered while another
                        \* process was between its knock and its listen or
                        \* between its close and its unlink, or was left
                        \* out (never reset: names the window)

lockVars == <<pc, path, raised, raced>>

Running(p) == pc[p] \in {"running", "unguarded"}
Listening == {p \in Proc : path = p /\ pc[p] = "running"}
Between(p) == pc[p] \in {"probed", "unlinked", "bound", "closing"}

LockInit ==
    /\ pc = [p \in Proc |-> "off"]
    /\ path = None
    /\ raised = {}
    /\ raced = FALSE

Spawn(p) ==
    /\ pc[p] = "off"
    /\ pc' = [pc EXCEPT ![p] = "starting"]
    /\ UNCHANGED <<path, raised, raced>>

(* A process of its own, started from a menu or a shell.                   *)
Start(p) == Spawn(p)

(* RequestRaise, and a process of its own only when nobody answered.       *)
LaunchOrRaise(p) ==
    IF Listening # {}
    THEN /\ raised' = raised \union Listening
         /\ UNCHANGED <<pc, path, raced>>
    ELSE Spawn(p)

(* A mutant: the socket file is taken without knocking.                    *)
Probe_Silent(p) ==
    /\ pc[p] = "starting"
    /\ pc' = [pc EXCEPT ![p] = "probed"]
    /\ raced' = (raced \/ \E q \in Proc \ {p} : Between(q))
    /\ UNCHANGED <<path, raised>>

(* The knock.  It is accepted like any other: the running window comes up. *)
(* A process that gets no descriptor for it does without.                  *)
Probe(p) ==
    /\ pc[p] = "starting"
    /\ \/ /\ Listening # {}
          /\ pc' = [pc EXCEPT ![p] = "off"]
          /\ raised' = raised \union Listening
          /\ UNCHANGED raced
       \/ /\ Listening = {}
          /\ pc' = [pc EXCEPT ![p] = "probed"]
          /\ raced' = (raced \/ \E q \in Proc \ {p} : Between(q))
          /\ UNCHANGED raised
       \/ /\ pc' = [pc EXCEPT ![p] = "probed"]
          /\ raced' = TRUE
          /\ UNCHANGED raised
    /\ UNCHANGED path

Unlink(p) ==
    /\ pc[p] = "probed"
    /\ pc' = [pc EXCEPT ![p] = "unlinked"]
    /\ path' = None
    /\ UNCHANGED <<raised, raced>>

(* socket() and bind(): they may fail for reasons of their own, and do when *)
(* the path is taken.  Then the process runs without a lock.               *)
Bind(p) ==
    /\ pc[p] = "unlinked"
    /\ \/ path = None /\ path' = p /\ pc' = [pc EXCEPT ![p] = "bound"]
       \/ UNCHANGED path /\ pc' = [pc EXCEPT ![p] = "unguarded"]
    /\ UNCHANGED <<raised, raced>>

Listen(p) ==
    /\ pc[p] = "bound"
    /\ pc' = [pc EXCEPT ![p] = "running"]
    /\ UNCHANGED <<path, raised, raced>>

(* The destructor, where there is a lock: close, and knocks go unanswered. *)
CloseLock(p) ==
    /\ pc' = [pc EXCEPT ![p] = IF @ = "running" THEN "closing" ELSE "off"]
    /\ raised' = raised \ {p}
    /\ UNCHANGED <<path, raced>>

(* Then it unlinks the path, whoever's socket is there by now.             *)
UnlinkClosed(p) ==
    /\ pc[p] = "closing"
    /\ pc' = [pc EXCEPT ![p] = "off"]
    /\ path' = None
    /\ UNCHANGED <<raised, raced>>

(* Killed anywhere: the file stays, and nobody listens behind it.          *)
Crash(p) ==
    /\ pc[p] # "off"
    /\ pc' = [pc EXCEPT ![p] = "off"]
    /\ raised' = raised \ {p}
    /\ UNCHANGED <<path, raced>>

(* Dispatch: accept every request; the window is brought to the front.     *)
Raise(p) ==
    /\ p \in raised
    /\ raised' = raised \ {p}
    /\ UNCHANGED <<pc, path, raced>>

(* Two windows of one application are only ever open when one of them got  *)
(* no lock, or after a start that overlapped another's way from its knock  *)
(* to its listen or from its close to its unlink, or that could not knock: *)
(* a crash, a stale file or a quit that is through never lets a second one *)
(* in, however often it is tried (AcquireOrListen; "whichever process can  *)
(* bind it is the instance").                                              *)
OneWindow ==
    \A p, q \in Proc : p # q /\ Running(p) /\ Running(q) =>
        raced \/ pc[p] = "unguarded" \/ pc[q] = "unguarded"
=============================================================================
