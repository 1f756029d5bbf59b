---------------------------- MODULE SleepInhibition ----------------------------
(***************************************************************************)
(* ScreenSaverInhibitor: kohiko offers org.freedesktop.ScreenSaver (and    *)
(* .PowerManagement) on the session bus, hands out a cookie per Inhibit,   *)
(* takes it back on UnInhibit or when the bus says that its holder is      *)
(* gone, and keeps the display awake while any is left.                    *)
(*                                                                         *)
(* The bus is external: it delivers what it accepts in order, on each      *)
(* connection, and a signal only to those whose match it has seen.  The    *)
(* three calls of Initialize wait for their replies; messages that come in *)
(* meanwhile stay in the connection's queue.                               *)
(***************************************************************************)
EXTENDS Naturals, Sequences, SequencesExt, FiniteSets

CONSTANTS
    Client,         \* applications on the bus
    MaxCookies,     \* a bound on the cookies handed out
    MaxStray,       \* a bound on the cookies returned by who does not hold them
    EarlyCalls      \* may clients call while Initialize is not through?

ASSUME InhibitAssumption == MaxCookies \in Nat /\ MaxStray \in Nat /\ EarlyCalls \in BOOLEAN

VARIABLES
    progress,   \* how far Initialize has come
    owner,      \* whether kohiko owns the service's name
    matched,    \* whether the bus has kohiko's match for NameOwnerChanged
    inbox,      \* messages on kohiko's connection, oldest first
    cookies,    \* m_inhibitors: cookie -> the name of its holder
    next,       \* m_nextCookie
    fullscreen, \* a fullscreen window is visible
    alive,      \* the applications that are connected
    held,       \* the cookies each application has been given and not returned
    asked,      \* applications whose Inhibit has not been answered
    stray       \* history: cookies somebody returned who did not hold them

bus == <<owner, matched, inbox>>
service == <<progress, cookies, next>>
clients == <<alive, held, asked, stray>>
inhibitVars == <<bus, service, clients, fullscreen>>

NoCookies == [c \in {} |-> 0]

InhibitInit ==
    /\ progress = "name" /\ owner = FALSE /\ matched = FALSE /\ inbox = <<>>
    /\ cookies = NoCookies /\ next = 1 /\ fullscreen = FALSE
    /\ alive = Client /\ held = [c \in Client |-> {}] /\ asked = {} /\ stray = {}

InhibitTypeOK ==
    /\ progress \in {"name", "match", "serving", "unavailable"}
    /\ DOMAIN cookies \subseteq 1..(next - 1)
    /\ \A k \in DOMAIN cookies : cookies[k] \in Client
    /\ asked \subseteq alive
    /\ \A c \in Client : held[c] \subseteq 1..(next - 1)
    /\ (progress = "unavailable") => (~owner /\ cookies = NoCookies)
    /\ \A c, d \in Client : c # d => held[c] \cap held[d] = {}

(* -------------------------------- start ---------------------------------- *)

\* Another desktop's service may have the names: then kohiko stays out of it.
RequestName ==
    /\ progress = "name"
    /\ \/ owner' = TRUE /\ progress' = "match"
       \/ owner' = FALSE /\ progress' = "unavailable"
    /\ UNCHANGED <<matched, inbox, cookies, next, clients, fullscreen>>

\* A match that could not be added is not an error: kohiko serves without it.
AddMatch ==
    /\ progress = "match"
    /\ matched' \in BOOLEAN /\ progress' = "serving"
    /\ UNCHANGED <<owner, inbox, cookies, next, clients, fullscreen>>

(* ----------------------------- applications ------------------------------ *)

MayCall(c) == owner /\ c \in alive /\ (EarlyCalls \/ progress = "serving")

Inhibits(c) ==
    /\ MayCall(c) /\ c \notin asked /\ next + Cardinality(asked) <= MaxCookies
    /\ asked' = asked \cup {c}
    /\ inbox' = Append(inbox, [call |-> "Inhibit", from |-> c])
    /\ UNCHANGED <<owner, matched, service, alive, held, stray, fullscreen>>

\* An application gives back what it was given, or any other number: the
\* service does not ask whose it is.
UnInhibits(c, k) ==
    /\ MayCall(c) /\ (k \in held[c] \/ (k \notin stray /\ Cardinality(stray) < MaxStray))
    /\ held' = [held EXCEPT ![c] = @ \ {k}]
    /\ stray' = IF k \in held[c] THEN stray ELSE stray \cup {k}
    /\ inbox' = Append(inbox, [call |-> "UnInhibit", from |-> c, cookie |-> k])
    /\ UNCHANGED <<owner, matched, service, alive, asked, fullscreen>>

\* It exits or crashes; whoever has a match learns of it after everything it
\* sent before.
Vanishes(c) ==
    /\ c \in alive /\ alive' = alive \ {c}
    /\ asked' = asked \ {c} /\ held' = [held EXCEPT ![c] = {}]
    /\ inbox' = IF matched THEN Append(inbox, [call |-> "Gone", from |-> c]) ELSE inbox
    /\ UNCHANGED <<owner, matched, service, stray, fullscreen>>

(* ------------------------------ the service ------------------------------ *)

\* Mutant.  The bus's signal that a name is gone is not looked at.
Without_Gone(c) == cookies

Without(c) == [k \in {j \in DOMAIN cookies : cookies[j] # c} |-> cookies[k]]

Return(k) == [j \in DOMAIN cookies \ {k} |-> cookies[j]]

\* Mutant.  A holder has one cookie: the new one replaces what it had.
Granted_One(c) ==
    [k \in {j \in DOMAIN cookies : cookies[j] # c} \cup {next} |->
        IF k = next THEN c ELSE cookies[k]]

Granted(c) == [k \in DOMAIN cookies \cup {next} |-> IF k = next THEN c ELSE cookies[k]]

\* Mutant.  Every Inhibit gets the same cookie.
NextCookie_Same == next

NextCookie == next + 1

\* The reply reaches a caller that is still there.
HandleMessage(message) ==
    CASE message.call = "Inhibit" ->
           /\ cookies' = Granted(message.from) /\ next' = NextCookie
           /\ held' = IF message.from \in alive
                        THEN [held EXCEPT ![message.from] = @ \cup {next}] ELSE held
           /\ asked' = asked \ {message.from}
      [] message.call = "UnInhibit" ->
           cookies' = Return(message.cookie) /\ UNCHANGED <<next, held, asked>>
      [] message.call = "Gone" ->
           cookies' = Without(message.from) /\ UNCHANGED <<next, held, asked>>

Dispatch ==
    /\ progress = "serving" /\ inbox # <<>>
    /\ HandleMessage(inbox[1]) /\ inbox' = Tail(inbox)
    /\ UNCHANGED <<progress, owner, matched, alive, stray, fullscreen>>

ToggleFullscreen ==
    /\ fullscreen' = ~fullscreen /\ UNCHANGED <<bus, service, clients>>

ServiceNext == RequestName \/ AddMatch \/ Dispatch

InhibitNext ==
    \/ ServiceNext
    \/ \E c \in Client :
         Inhibits(c) \/ Vanishes(c) \/ \E k \in 1..MaxCookies : UnInhibits(c, k)
    \/ ToggleFullscreen

InhibitSpec == InhibitInit /\ [][InhibitNext]_inhibitVars /\ WF_inhibitVars(ServiceNext)

(* ------------------------------ properties ------------------------------- *)

AnyActiveInhibit == cookies # NoCookies

\* WindowManager::CheckSleepInhibition, in every tick.
KeepsAwake == AnyActiveInhibit \/ fullscreen

\* While an application holds a cookie the display stays awake, however often it
\* asked, whatever others do with theirs and however they die (HandleMessage);
\* unless somebody returned this very cookie without holding it: UnInhibit erases
\* what it is told, whoever asks (ScreenSaverInhibitor.cpp:314-322).
AwakeWhileHeld == (\E c \in Client : held[c] \ stray # {}) => KeepsAwake

\* Every cookie is one application's, and works as long as it is held.
CookiesKeepAwake == InhibitTypeOK /\ AwakeWhileHeld

\* "A crashed browser can never wedge sleep inhibition on forever"
\* (ScreenSaverInhibitor.cpp): a cookie whose holder is gone is taken back, if the
\* match for vanishing names could be added.
NeverWedged ==
    \A k \in 1..MaxCookies :
        (matched /\ k \in DOMAIN cookies /\ cookies[k] \notin alive) ~> (k \notin DOMAIN cookies)
==============================================================================
