-------------------------- MODULE SleepAndLock_proofs --------------------------
(***************************************************************************)
(* Proofs about SleepInhibition and LockSession, the two components that   *)
(* decide what happens to an unattended session.                           *)
(*                                                                         *)
(* SleepInhibition, for every set of applications: a cookie that is held   *)
(* works (CookiesKeepAwake) unless another application returned it, and    *)
(* one that is held no longer has on the way what takes it back            *)
(* (ComesBack), so that nothing stays awake for ever once the queue is     *)
(* served.                                                                 *)
(*                                                                         *)
(* LockSession, for every number of failures, every account and every      *)
(* configuration: the two marks on disk and the process that reads them    *)
(* agree at every step (Bookkeeping), from which follow that a bad         *)
(* configuration is tried once, and that every step keeps the promise of   *)
(* LockPromise.                                                            *)
(***************************************************************************)
EXTENDS SleepInhibition, LockSession, TLAPS

(* ----------------------------- SleepInhibition ---------------------------- *)

Message ==
    [call : {"Inhibit", "Gone"}, from : Client]
      \cup [call : {"UnInhibit"}, from : Client, cookie : Nat]

(***************************************************************************)
(* The inductive invariant                                                 *)
(***************************************************************************)

Typed ==
    /\ inbox \in Seq(Message) /\ next \in Nat \ {0}
    /\ owner \in BOOLEAN /\ matched \in BOOLEAN
    /\ progress \in {"name", "match", "serving", "unavailable"}
    /\ alive \subseteq Client /\ asked \subseteq alive
    /\ held \in [Client -> SUBSET (1..(next - 1))]
    /\ DOMAIN cookies \subseteq 1..(next - 1)
    /\ \A k \in DOMAIN cookies : cookies[k] \in Client

\* Before the service serves nobody has a cookie, and it never does without
\* the name.
Unserved ==
    /\ progress # "serving" => DOMAIN cookies = {}
    /\ matched => progress = "serving"
    /\ progress \in {"name", "unavailable"} => ~owner

\* What an application holds, the service has under the application's name,
\* unless somebody else returned it.
HeldIsKept == \A c \in Client : \A k \in held[c] \ stray : k \in DOMAIN cookies /\ cookies[k] = c

\* No cookie is given to two.
HeldOnce == \A c, d \in Client : c # d => held[c] \cap held[d] = {}

\* Whoever is gone holds nothing, and only who is gone is said to be.
GoneAreGone ==
    /\ \A c \in Client : c \notin alive => held[c] = {}
    /\ \A i \in DOMAIN inbox : inbox[i].call = "Gone" => inbox[i].from \notin alive

\* A cookie on its way back was handed out once and is held by nobody, or it is
\* known that somebody returned it who did not hold it.
ReturnedIsFree ==
    \A i \in DOMAIN inbox : inbox[i].call = "UnInhibit" /\ inbox[i].cookie \notin stray =>
        /\ inbox[i].cookie < next
        /\ \A c \in Client : inbox[i].cookie \notin held[c]

HeldWorks == Typed /\ Unserved /\ HeldIsKept /\ HeldOnce /\ GoneAreGone /\ ReturnedIsFree

\* The death of an application that asked comes after its call, when it could
\* only call with the match in place.
CallsEndInGone ==
    /\ \A k \in DOMAIN cookies : cookies[k] \notin alive =>
          \E j \in DOMAIN inbox : inbox[j].call = "Gone" /\ inbox[j].from = cookies[k]
    /\ \A i \in DOMAIN inbox :
          inbox[i].call = "Inhibit" /\ inbox[i].from \notin alive =>
          \E j \in DOMAIN inbox :
              i < j /\ inbox[j].call = "Gone" /\ inbox[j].from = inbox[i].from

\* What a living application does not hold any more, it has sent back.
SentBack ==
    \A k \in DOMAIN cookies : cookies[k] \in alive /\ k \notin held[cookies[k]] =>
        \E j \in DOMAIN inbox : inbox[j].call = "UnInhibit" /\ inbox[j].cookie = k

\* Every cookie that is not held is on its way back: the service never keeps the
\* display awake for somebody who is not coming back (NameOwnerChanged).  Of those
\* who died it learns only with the match.
ComesBack ==
    ~EarlyCalls =>
        /\ matched => CallsEndInGone
        /\ SentBack
        /\ progress # "serving" => inbox = <<>>

(***************************************************************************)
(* The queue                                                               *)
(***************************************************************************)

\* What is sent stands behind everything that was there.
LEMMA Sent ==
    ASSUME NEW e \in Message, inbox \in Seq(Message)
    PROVE  /\ Append(inbox, e) \in Seq(Message)
           /\ DOMAIN Append(inbox, e) = DOMAIN inbox \cup {Len(inbox) + 1}
           /\ Append(inbox, e)[Len(inbox) + 1] = e
           /\ \A i \in DOMAIN inbox : Append(inbox, e)[i] = inbox[i] /\ i < Len(inbox) + 1
           /\ Len(inbox) + 1 \in Nat /\ \A i \in DOMAIN inbox : i \in Nat
           /\ \A i \in DOMAIN Append(inbox, e) :
                 Append(inbox, e)[i] = e \/ (i \in DOMAIN inbox /\ Append(inbox, e)[i] = inbox[i])
  OBVIOUS

\* What is taken stood in front, and the rest moves up by one.
LEMMA Taken ==
    ASSUME inbox \in Seq(Message), inbox # <<>>
    PROVE  /\ inbox[1] \in Message /\ 1 \in DOMAIN inbox
           /\ Tail(inbox) \in Seq(Message)
           /\ \A i \in DOMAIN Tail(inbox) : i + 1 \in DOMAIN inbox /\ Tail(inbox)[i] = inbox[i + 1]
           /\ \A i \in DOMAIN inbox : i # 1 =>
                 i - 1 \in DOMAIN Tail(inbox) /\ Tail(inbox)[i - 1] = inbox[i]
           /\ \A i \in DOMAIN inbox : i \in Nat /\ i >= 1
  OBVIOUS

(***************************************************************************)
(* What is held works                                                      *)
(***************************************************************************)

LEMMA HeldWorksStarts == InhibitInit => HeldWorks
<1> SUFFICES ASSUME InhibitInit PROVE HeldWorks
  OBVIOUS
<1> USE DEF InhibitInit, NoCookies
<1>1. next = 1 /\ inbox = <<>> /\ DOMAIN cookies = {} /\ \A c \in Client : held[c] = {}
  OBVIOUS
<1>2. inbox \in Seq(Message) /\ DOMAIN inbox = {}
  BY <1>1
<1>3. held \in [Client -> SUBSET (1..(next - 1))]
  OBVIOUS
<1>4. Typed
  <2>1. next \in Nat \ {0}
    BY <1>1
  <2>2. owner \in BOOLEAN /\ matched \in BOOLEAN /\ alive \subseteq Client /\ asked \subseteq alive
    OBVIOUS
  <2>3. QED BY <1>1, <1>2, <1>3, <2>1, <2>2 DEF Typed
<1>5. Unserved /\ HeldIsKept /\ HeldOnce /\ GoneAreGone /\ ReturnedIsFree
  BY <1>1, <1>2 DEF Unserved, HeldIsKept, HeldOnce, GoneAreGone, ReturnedIsFree
<1>6. QED BY <1>4, <1>5 DEF HeldWorks

\* The start gives nobody a cookie.
LEMMA ServiceKeeps ==
    ASSUME HeldWorks, RequestName \/ AddMatch \/ ToggleFullscreen \/ UNCHANGED inhibitVars
    PROVE  HeldWorks'
<1> USE DEF HeldWorks, Typed, Unserved, HeldIsKept, HeldOnce, GoneAreGone, ReturnedIsFree
<1>1. CASE RequestName
  BY <1>1 DEF RequestName, clients
<1>2. CASE AddMatch
  BY <1>2 DEF AddMatch, clients
<1>3. CASE ToggleFullscreen
  BY <1>3 DEF ToggleFullscreen, bus, service, clients
<1>4. CASE UNCHANGED inhibitVars
  BY <1>4 DEF inhibitVars, bus, service, clients
<1>5. QED BY <1>1, <1>2, <1>3, <1>4

\* An application asks, returns what it holds, or is gone.
LEMMA ClientKeeps ==
    ASSUME HeldWorks, NEW c \in Client,
           Inhibits(c) \/ Vanishes(c) \/ \E k \in 1..MaxCookies : UnInhibits(c, k)
    PROVE  HeldWorks'
<1> USE DEF HeldWorks, Typed, Unserved, HeldIsKept, HeldOnce, GoneAreGone, ReturnedIsFree
<1>1. CASE Inhibits(c)
  <2> DEFINE e == [call |-> "Inhibit", from |-> c]
  <2>1. e \in Message
    BY DEF Message
  <2>2. inbox' = Append(inbox, e) /\ owner /\ c \in alive
    BY <1>1 DEF Inhibits, MayCall
  <2> HIDE DEF e
  <2>3. UNCHANGED <<owner, matched, progress, cookies, next, alive, held, stray>> /\ asked' = asked \cup {c}
    BY <1>1 DEF Inhibits, service
  <2>4. e.call = "Inhibit"
    BY DEF e
  <2>5. Typed' /\ Unserved' /\ HeldIsKept' /\ HeldOnce'
    BY <2>1, <2>2, <2>3, Sent
  <2>6. GoneAreGone' /\ ReturnedIsFree'
    BY <2>1, <2>2, <2>3, <2>4, Sent
  <2>7. QED BY <2>5, <2>6
<1>2. CASE Vanishes(c)
  <2> DEFINE e == [call |-> "Gone", from |-> c]
  <2>1. e \in Message
    BY DEF Message
  <2>2. inbox' = Append(inbox, e) \/ inbox' = inbox
    BY <1>2 DEF Vanishes
  <2>3. e.call = "Gone" /\ e.from = c
    OBVIOUS
  <2> HIDE DEF e
  <2>4. /\ UNCHANGED <<owner, matched, progress, cookies, next, stray>>
        /\ alive' = alive \ {c} /\ asked' = asked \ {c} /\ held' = [held EXCEPT ![c] = {}]
    BY <1>2 DEF Vanishes, service
  <2>5. held'[c] = {} /\ \A d \in Client : held'[d] \subseteq held[d]
    BY <2>4
  <2>6. /\ inbox' \in Seq(Message)
        /\ \A i \in DOMAIN inbox' : inbox'[i] = e \/ (i \in DOMAIN inbox /\ inbox'[i] = inbox[i])
    <3>1. CASE inbox' = Append(inbox, e)
      <4>1. e \in Message
        BY <2>1
      <4>2. QED BY <3>1, <4>1, Sent
    <3>2. CASE inbox' = inbox
      BY <3>2
    <3>3. QED BY <2>2, <3>1, <3>2
  <2>7. held' \in [Client -> SUBSET (1..(next - 1))]
    BY <2>4
  <2>8. Typed'
    BY <2>4, <2>6, <2>7
  <2>9. Unserved' /\ HeldIsKept' /\ HeldOnce'
    BY <2>4, <2>5
  <2>10. GoneAreGone'
    BY <2>3, <2>4, <2>5, <2>6
  <2>11. ReturnedIsFree'
    BY <2>3, <2>4, <2>5, <2>6
  <2>12. QED BY <2>8, <2>9, <2>10, <2>11
<1>3. ASSUME NEW k \in 1..MaxCookies, UnInhibits(c, k) PROVE HeldWorks'
  <2> DEFINE e == [call |-> "UnInhibit", from |-> c, cookie |-> k]
  <2>1. k \in Nat /\ e \in Message
    BY InhibitAssumption DEF Message
  <2>2. inbox' = Append(inbox, e)
    BY <1>3 DEF UnInhibits
  <2>3. e.call = "UnInhibit" /\ e.cookie = k
    OBVIOUS
  <2> HIDE DEF e
  <2>4. /\ UNCHANGED <<owner, matched, progress, cookies, next, alive, asked>>
        /\ held' = [held EXCEPT ![c] = @ \ {k}]
        /\ stray' = IF k \in held[c] THEN stray ELSE stray \cup {k}
    BY <1>3 DEF UnInhibits, service
  <2>5. /\ \A d \in Client : held'[d] \subseteq held[d]
        /\ k \in stray' \/ (k < next /\ \A d \in Client : k \notin held'[d])
    <3>1. CASE k \in held[c]
      BY <2>4, <3>1
    <3>2. CASE k \notin held[c]
      BY <2>4, <3>2
    <3>3. QED BY <3>1, <3>2
  <2>6. held' \in [Client -> SUBSET (1..(next - 1))]
    BY <2>4
  <2>7. Typed'
    BY <2>1, <2>2, <2>4, <2>6, Sent
  <2>8. Unserved' /\ HeldIsKept' /\ HeldOnce'
    BY <2>4, <2>5
  <2>9. GoneAreGone'
    BY <2>1, <2>2, <2>3, <2>4, <2>5, Sent
  <2>10. ReturnedIsFree'
    BY <2>1, <2>2, <2>3, <2>4, <2>5, Sent
  <2>11. QED BY <2>7, <2>8, <2>9, <2>10
<1>4. QED BY <1>1, <1>2, <1>3

\* The service answers the oldest message.
LEMMA DispatchKeeps ==
    ASSUME HeldWorks, Dispatch
    PROVE  HeldWorks'
<1> USE DEF HeldWorks, Typed, Unserved, HeldIsKept, HeldOnce, GoneAreGone, ReturnedIsFree
<1> DEFINE m == inbox[1]
<1>1. progress = "serving" /\ inbox # <<>> /\ inbox' = Tail(inbox)
  BY DEF Dispatch
<1>2. UNCHANGED <<progress, owner, matched, alive, stray>> /\ HandleMessage(m)
  BY DEF Dispatch
<1>3. m \in Message /\ 1 \in DOMAIN inbox
  BY <1>1, Taken
<1>4. GoneAreGone' \/ ~(\A d \in Client : d \notin alive => held'[d] = {})
  BY <1>1, <1>2, Taken
<1>5. CASE m.call = "Inhibit"
  <2> DEFINE d == m.from
  <2>1. d \in Client
    BY <1>3, <1>5 DEF Message
  <2>2. /\ cookies' = Granted(d) /\ next' = next + 1 /\ asked' = asked \ {d}
        /\ held' = IF d \in alive THEN [held EXCEPT ![d] = @ \cup {next}] ELSE held
    BY <1>2, <1>5 DEF HandleMessage, NextCookie
  <2> HIDE DEF d
  <2>3. /\ DOMAIN cookies' = DOMAIN cookies \cup {next} /\ cookies'[next] = d
        /\ \A k \in DOMAIN cookies : cookies'[k] = cookies[k]
    BY <2>2 DEF Granted
  <2>4. \A b \in Client : held'[b] \subseteq held[b] \cup {next} /\ (next \in held'[b] => b = d)
    BY <2>1, <2>2
  <2>5. Typed'
    BY <1>1, <1>2, <2>1, <2>2, <2>3, Taken
  <2>6. Unserved' /\ HeldIsKept' /\ HeldOnce'
    BY <1>1, <1>2, <2>1, <2>2, <2>3, <2>4
  <2>7. GoneAreGone'
    BY <1>2, <1>4, <2>1, <2>2
  <2>8. ReturnedIsFree'
    <3>1. \A i \in DOMAIN inbox : inbox[i].call = "UnInhibit" /\ inbox[i].cookie \notin stray =>
              inbox[i].cookie < next + 1 /\ inbox[i].cookie # next
      BY DEF Message
    <3>2. QED BY <1>1, <1>2, <2>2, <2>4, <3>1, Taken
  <2>9. QED BY <2>5, <2>6, <2>7, <2>8
<1>6. CASE m.call = "UnInhibit"
  <2> DEFINE k == m.cookie
  <2>1. cookies' = Return(k) /\ UNCHANGED <<next, held, asked>>
    BY <1>2, <1>6 DEF HandleMessage
  <2>2. \A c \in Client : k \notin held[c] \ stray
    BY <1>3, <1>6
  <2> HIDE DEF k
  <2>3. DOMAIN cookies' = DOMAIN cookies \ {k} /\ \A j \in DOMAIN cookies' : cookies'[j] = cookies[j]
    BY <2>1 DEF Return
  <2>4. Typed' /\ Unserved' /\ HeldIsKept' /\ HeldOnce'
    BY <1>1, <1>2, <2>1, <2>2, <2>3, Taken
  <2>5. GoneAreGone' /\ ReturnedIsFree'
    BY <1>1, <1>2, <2>1, Taken
  <2>6. QED BY <2>4, <2>5
<1>7. CASE m.call = "Gone"
  <2> DEFINE d == m.from
  <2>1. cookies' = Without(d) /\ UNCHANGED <<next, held, asked>>
    BY <1>2, <1>7 DEF HandleMessage
  <2>2. d \in Client /\ held[d] = {}
    BY <1>3, <1>7 DEF Message
  <2> HIDE DEF d
  <2>3. /\ DOMAIN cookies' = {j \in DOMAIN cookies : cookies[j] # d}
        /\ \A j \in DOMAIN cookies' : cookies'[j] = cookies[j]
    BY <2>1 DEF Without
  <2>4. Typed' /\ Unserved' /\ HeldIsKept' /\ HeldOnce'
    BY <1>1, <1>2, <2>1, <2>2, <2>3, Taken
  <2>5. GoneAreGone' /\ ReturnedIsFree'
    BY <1>1, <1>2, <2>1, Taken
  <2>6. QED BY <2>4, <2>5
<1>8. m.call \in {"Inhibit", "UnInhibit", "Gone"}
  BY <1>3 DEF Message
<1>9. QED BY <1>5, <1>6, <1>7, <1>8

\* Every step of applications, bus and service.
LEMMA NextKeepsHeld == HeldWorks /\ [InhibitNext]_inhibitVars => HeldWorks'
  BY ServiceKeeps, ClientKeeps, DispatchKeeps DEF InhibitNext, ServiceNext

\* The invariant gives what the run checks.
LEMMA HeldIsAwake == HeldWorks => CookiesKeepAwake
<1> SUFFICES ASSUME HeldWorks PROVE CookiesKeepAwake
  OBVIOUS
<1> USE DEF HeldWorks, Typed, Unserved, HeldIsKept, HeldOnce
<1>1. InhibitTypeOK
  <2>1. progress = "unavailable" => ~owner /\ cookies = NoCookies
    BY DEF NoCookies
  <2>2. QED BY <2>1 DEF InhibitTypeOK
<1>2. AwakeWhileHeld
  BY DEF AwakeWhileHeld, KeepsAwake, AnyActiveInhibit, NoCookies
<1>3. QED BY <1>1, <1>2 DEF CookiesKeepAwake

\* The invariant holds throughout.
LEMMA HeldStays == InhibitSpec => []HeldWorks
  BY HeldWorksStarts, NextKeepsHeld, PTL DEF InhibitSpec

\* However many applications ask, return and crash in whatever order, whether or not
\* they call before the service is ready, and whatever cookies they return that are
\* not theirs: each cookie is one application's, and while one is held that nobody
\* else returned the display stays awake (Inhibit, UnInhibit, HandleNameOwnerChanged,
\* CheckSleepInhibition).
THEOREM HeldCookiesWork == InhibitSpec => []CookiesKeepAwake
  BY HeldStays, HeldIsAwake, PTL

(***************************************************************************)
(* What is held no longer is on its way back                               *)
(***************************************************************************)

\* Nothing an application does to the queue hides what is in it already.
LEMMA ClientReturns ==
    ASSUME HeldWorks, ComesBack, ~EarlyCalls, NEW c \in Client,
           Inhibits(c) \/ Vanishes(c) \/ \E k \in 1..MaxCookies : UnInhibits(c, k)
    PROVE  ComesBack'
<1> USE DEF HeldWorks, Typed, ComesBack, CallsEndInGone, SentBack
<1>1. CASE Inhibits(c)
  <2> DEFINE e == [call |-> "Inhibit", from |-> c]
  <2>1. e \in Message /\ e.call = "Inhibit" /\ e.from = c
    BY DEF Message
  <2>2. inbox' = Append(inbox, e) /\ c \in alive /\ progress' = "serving"
    BY <1>1 DEF Inhibits, MayCall, service
  <2> HIDE DEF e
  <2>3. UNCHANGED <<matched, cookies, alive, held>>
    BY <1>1 DEF Inhibits, service
  <2>4. matched' => CallsEndInGone'
    BY <2>1, <2>2, <2>3, Sent
  <2>5. SentBack'
    BY <2>1, <2>2, <2>3, Sent
  <2>6. QED BY <2>2, <2>3, <2>4, <2>5
<1>2. CASE Vanishes(c)
  <2> DEFINE e == [call |-> "Gone", from |-> c]
  <2>1. e \in Message /\ e.call = "Gone" /\ e.from = c
    BY DEF Message
  <2>2. inbox' = IF matched THEN Append(inbox, e) ELSE inbox
    BY <1>2 DEF Vanishes
  <2> HIDE DEF e
  <2>3. /\ UNCHANGED <<matched, cookies>> /\ alive' = alive \ {c}
        /\ held' = [held EXCEPT ![c] = {}]
    BY <1>2 DEF Vanishes, service
  <2>4. CASE matched
    <3>1. CallsEndInGone'
      <4>1. \A k \in DOMAIN cookies' : cookies'[k] \notin alive' =>
               \E j \in DOMAIN inbox' : inbox'[j].call = "Gone" /\ inbox'[j].from = cookies'[k]
        BY <2>1, <2>2, <2>3, <2>4, Sent
      <4>2. \A i \in DOMAIN inbox' :
               inbox'[i].call = "Inhibit" /\ inbox'[i].from \notin alive' =>
               \E j \in DOMAIN inbox' :
                   i < j /\ inbox'[j].call = "Gone" /\ inbox'[j].from = inbox'[i].from
        BY <2>1, <2>2, <2>3, <2>4, Sent
      <4>3. QED BY <4>1, <4>2
    <3>2. SentBack'
      BY <2>1, <2>2, <2>3, <2>4, Sent
    <3>3. QED BY <1>2, <2>3, <2>4, <3>1, <3>2 DEF Vanishes, service, Unserved
  <2>5. CASE ~matched
    <3>1. inbox' = inbox
      BY <2>2, <2>5
    <3>2. SentBack'
      BY <2>3, <3>1
    <3>3. QED BY <1>2, <2>3, <2>5, <3>1, <3>2 DEF Vanishes, service
  <2>6. QED BY <2>4, <2>5
<1>3. ASSUME NEW k \in 1..MaxCookies, UnInhibits(c, k) PROVE ComesBack'
  <2> DEFINE e == [call |-> "UnInhibit", from |-> c, cookie |-> k]
  <2>1. e \in Message /\ e.call = "UnInhibit" /\ e.cookie = k
    BY InhibitAssumption DEF Message
  <2>2. inbox' = Append(inbox, e) /\ progress' = "serving"
    BY <1>3 DEF UnInhibits, MayCall, service
  <2> HIDE DEF e
  <2>3. UNCHANGED <<matched, cookies, alive>> /\ held' = [held EXCEPT ![c] = @ \ {k}]
    BY <1>3 DEF UnInhibits, service
  <2>4. matched' => CallsEndInGone'
    BY <2>1, <2>2, <2>3, Sent, SMTT(40)
  <2>5. SentBack'
    <3>1. SUFFICES ASSUME NEW j \in DOMAIN cookies', cookies'[j] \in alive',
                          j \notin held'[cookies'[j]]
                   PROVE  \E i \in DOMAIN inbox' :
                             inbox'[i].call = "UnInhibit" /\ inbox'[i].cookie = j
      OBVIOUS
    <3>2. j = k \/ j \notin held[cookies[j]]
      BY <2>3, <3>1
    <3>3. QED BY <2>1, <2>2, <2>3, <3>1, <3>2, Sent
  <2>6. QED BY <2>2, <2>3, <2>4, <2>5
<1>4. QED BY <1>1, <1>2, <1>3

\* The service takes from the queue only what it carries out.
LEMMA DispatchReturns ==
    ASSUME HeldWorks, ComesBack, ~EarlyCalls, Dispatch
    PROVE  ComesBack'
<1> USE DEF HeldWorks, Typed, ComesBack, CallsEndInGone, SentBack
<1> DEFINE m == inbox[1]
<1>1. progress = "serving" /\ inbox # <<>> /\ inbox' = Tail(inbox) /\ progress' = "serving"
  BY DEF Dispatch
<1>2. UNCHANGED <<alive, matched>> /\ HandleMessage(m)
  BY DEF Dispatch
<1>3. m \in Message /\ 1 \in DOMAIN inbox
  BY <1>1, Taken
<1>4. \A i \in DOMAIN inbox : i # 1 => \E j \in DOMAIN inbox' : j = i - 1 /\ inbox'[j] = inbox[i]
  BY <1>1, Taken
<1>5. ASSUME NEW i \in DOMAIN inbox', inbox'[i].call = "Inhibit", inbox'[i].from \notin alive',
             matched
      PROVE  \E j \in DOMAIN inbox' :
                 i < j /\ inbox'[j].call = "Gone" /\ inbox'[j].from = inbox'[i].from
  <2>1. i + 1 \in DOMAIN inbox /\ inbox[i + 1] = inbox'[i] /\ i \in Nat
    BY <1>1, Taken
  <2>2. PICK j \in DOMAIN inbox :
            i + 1 < j /\ inbox[j].call = "Gone" /\ inbox[j].from = inbox[i + 1].from
    BY <1>2, <1>5, <2>1
  <2>3. j \in Nat /\ j # 1
    BY <1>1, <2>1, <2>2, Taken
  <2>4. QED BY <1>4, <2>1, <2>2, <2>3
<1>6. CASE m.call = "Inhibit"
  <2> DEFINE d == m.from
  <2>1. d \in Client
    BY <1>3, <1>6 DEF Message
  <2>2. /\ cookies' = Granted(d)
        /\ held' = IF d \in alive THEN [held EXCEPT ![d] = @ \cup {next}] ELSE held
    BY <1>2, <1>6 DEF HandleMessage
  <2>3. d \notin alive /\ matched =>
           \E j \in DOMAIN inbox : 1 < j /\ inbox[j].call = "Gone" /\ inbox[j].from = d
    BY <1>3, <1>6
  <2> HIDE DEF d
  <2>4. /\ DOMAIN cookies' = DOMAIN cookies \cup {next} /\ cookies'[next] = d
        /\ \A k \in DOMAIN cookies : cookies'[k] = cookies[k] /\ k # next
    BY <2>2 DEF Granted
  <2>5. matched => \A k \in DOMAIN cookies' : cookies'[k] \notin alive' =>
            \E j \in DOMAIN inbox' : inbox'[j].call = "Gone" /\ inbox'[j].from = cookies'[k]
    <3>1. SUFFICES ASSUME matched, NEW k \in DOMAIN cookies', cookies'[k] \notin alive'
                   PROVE  \E j \in DOMAIN inbox' :
                              inbox'[j].call = "Gone" /\ inbox'[j].from = cookies'[k]
      OBVIOUS
    <3>2. \E j \in DOMAIN inbox :
              j # 1 /\ inbox[j].call = "Gone" /\ inbox[j].from = cookies'[k]
      BY <1>2, <1>6, <2>3, <2>4, <3>1
    <3>3. QED BY <1>4, <3>2
  <2>6. matched' => CallsEndInGone'
    BY <1>2, <1>5, <2>5
  <2>7. SentBack'
    <3>1. SUFFICES ASSUME NEW k \in DOMAIN cookies', cookies'[k] \in alive',
                          k \notin held'[cookies'[k]]
                   PROVE  \E j \in DOMAIN inbox' :
                              inbox'[j].call = "UnInhibit" /\ inbox'[j].cookie = k
      OBVIOUS
    <3>2. k \in DOMAIN cookies /\ cookies[k] \in alive /\ k \notin held[cookies[k]]
      BY <1>2, <2>1, <2>2, <2>4, <3>1
    <3>3. QED BY <1>4, <1>6, <3>2
  <2>8. QED BY <1>1, <2>6, <2>7
<1>7. CASE m.call = "UnInhibit"
  <2> DEFINE k == m.cookie
  <2>1. cookies' = Return(k) /\ UNCHANGED held
    BY <1>2, <1>7 DEF HandleMessage
  <2>2. DOMAIN cookies' = DOMAIN cookies \ {k} /\ \A j \in DOMAIN cookies' : cookies'[j] = cookies[j]
    BY <2>1 DEF Return
  <2>3. matched' => CallsEndInGone'
    BY <1>2, <1>4, <1>5, <1>7, <2>2
  <2>4. SentBack'
    BY <1>2, <1>4, <2>1, <2>2
  <2>5. QED BY <1>1, <2>3, <2>4
<1>8. CASE m.call = "Gone"
  <2> DEFINE d == m.from
  <2>1. cookies' = Without(d) /\ UNCHANGED held
    BY <1>2, <1>8 DEF HandleMessage
  <2>2. /\ DOMAIN cookies' = {j \in DOMAIN cookies : cookies[j] # d}
        /\ \A j \in DOMAIN cookies' : cookies'[j] = cookies[j]
    BY <2>1 DEF Without
  <2>3. matched' => CallsEndInGone'
    BY <1>2, <1>4, <1>5, <2>2
  <2>4. SentBack'
    BY <1>2, <1>4, <1>8, <2>1, <2>2
  <2>5. QED BY <1>1, <2>3, <2>4
<1>9. m.call \in {"Inhibit", "UnInhibit", "Gone"}
  BY <1>3 DEF Message
<1>10. QED BY <1>6, <1>7, <1>8, <1>9

\* The start finds the queue empty, and leaves it so.
LEMMA StartReturns ==
    ASSUME HeldWorks, ComesBack, ~EarlyCalls,
           RequestName \/ AddMatch \/ ToggleFullscreen \/ UNCHANGED inhibitVars
    PROVE  ComesBack'
<1>1. /\ UNCHANGED <<inbox, cookies, alive, held>>
      /\ UNCHANGED <<matched, progress>> \/ (progress # "serving" /\ inbox = <<>> /\ DOMAIN cookies = {})
  BY DEF RequestName, AddMatch, ToggleFullscreen, clients, bus, service, inhibitVars,
     HeldWorks, Unserved, ComesBack
<1>2. QED BY <1>1 DEF ComesBack, CallsEndInGone, SentBack, HeldWorks, Typed

\* When applications call only after the start is through, a cookie that its holder
\* returned, or, with the match for vanishing names in place, whose holder died at
\* whatever moment, has the message that takes it back in the queue: no order of
\* calls and deaths leaves the display awake for nobody (HandleNameOwnerChanged; "A
\* crashed browser can never wedge sleep inhibition on forever",
\* ScreenSaverInhibitor.cpp).  Without the match only the returned ones come back.
THEOREM UnheldCookiesComeBack == InhibitSpec => []ComesBack
<1>1. InhibitInit => ComesBack
  <2>1. InhibitInit => DOMAIN cookies = {} /\ inbox = <<>> /\ DOMAIN inbox = {}
    BY DEF InhibitInit, NoCookies
  <2>2. QED BY <2>1 DEF ComesBack, CallsEndInGone, SentBack
<1>2. HeldWorks /\ ComesBack /\ [InhibitNext]_inhibitVars => ComesBack'
  <2> SUFFICES ASSUME HeldWorks, ComesBack, [InhibitNext]_inhibitVars PROVE ComesBack'
    OBVIOUS
  <2>1. CASE EarlyCalls
    BY <2>1 DEF ComesBack
  <2>2. CASE ~EarlyCalls
    BY <2>2, StartReturns, ClientReturns, DispatchReturns DEF InhibitNext, ServiceNext
  <2>3. QED BY <2>1, <2>2
<1>3. QED BY <1>1, <1>2, HeldStays, PTL DEF InhibitSpec

(* ------------------------------- LockSession ------------------------------ *)

(***************************************************************************)
(* The inductive invariant                                                 *)
(***************************************************************************)

\* A handler that is not through runs in a process that is past relocking,
\* and authentication is for one that is up.
HandlerPlace ==
    /\ step # "idle" => stage \in {"autolocking", "finishing", "up"}
    /\ step \in {"verifying", "opened"} => stage = "up"

\* A verdict is only kept while the lock screen it is about is there, and
\* only a yes opens it.
VerdictPlace ==
    /\ answer # "none" => stage \in {"up", "leaving"} /\ (locked \/ step = "opened")
    /\ step = "verifying" => answer = "none"
    /\ step = "engaged" => answer = "none"
    /\ step = "opened" => answer = "yes"

\* From relocking on, a marker means a lock screen, or one on the way, and the
\* other way round; an account without a password never has either.
MarkerPlace ==
    /\ lockMark \/ locked => ~setup.passwordless
    /\ stage \in {"noted", "loading", "relocking"} => ~locked
    /\ stage \in {"autolocking", "finishing"} =>
          /\ lockMark => (locked \/ step = "asking")
          /\ locked => (lockMark \/ step = "engaged")
    /\ stage = "up" =>
          /\ lockMark => (locked \/ step = "opened")
          /\ locked => (lockMark \/ step = "engaged")
          /\ step = "opened" => lockMark

\* A start leaves its mark until it has succeeded, and the start after one that
\* the configuration has crashed leaves the configuration aside.
BlamePlace ==
    /\ stage \in Starting => startMark
    /\ blamed # 0 => startMark
    /\ stage \in Starting /\ ~safe => blamed = 0
    /\ blamed <= 1

\* The wrapper gives up with the failure after the last it allows.
CountPlace == wrapper # "over" => failures <= MaxFailures

Bookkeeping ==
    LockTypeOK /\ HandlerPlace /\ VerdictPlace /\ MarkerPlace /\ BlamePlace /\ CountPlace

LEMMA BookkeepingStarts == Init => Bookkeeping
<1> SUFFICES ASSUME Init PROVE Bookkeeping
  OBVIOUS
<1>1. LockTypeOK /\ CountPlace
  <2>1. failures \in 0..(MaxFailures + 1) /\ failures <= MaxFailures /\ blamed \in Nat
    BY SessionAssumption DEF Init
  <2>2. QED BY <2>1, Zenon DEF Init, LockTypeOK, CountPlace, Running, Starting, Steps
<1>2. HandlerPlace /\ VerdictPlace
  BY DEF Init, HandlerPlace, VerdictPlace
<1>3. MarkerPlace
  BY DEF Init, MarkerPlace
<1>4. BlamePlace
  BY DEF Init, BlamePlace, Starting
<1>5. QED BY <1>1, <1>2, <1>3, <1>4 DEF Bookkeeping

\* Launching and starting up.
LEMMA StartKeeps ==
  ASSUME Bookkeeping, Launch \/ StartNext
  PROVE  Bookkeeping'
<1> USE DEF Bookkeeping, LockTypeOK, HandlerPlace, VerdictPlace, MarkerPlace, BlamePlace, CountPlace,
            Starting, Running, Steps, script, marks
<1>1. CASE Launch
  BY <1>1 DEF Launch, NoteStartupAttempt
<1>2. CASE StartFails
  BY <1>2 DEF StartFails, Fails, Ended
<1>3. CASE Connects
  BY <1>3 DEF Connects, Stage
<1>4. CASE ConfigCrash
  <2>1. startMark /\ blamed = 0 /\ blamed' = 1 /\ startMark' = startMark
    BY <1>4 DEF ConfigCrash
  <2>2. BlamePlace'
    BY <1>4, <2>1 DEF ConfigCrash, Ended
  <2>3. HandlerPlace' /\ VerdictPlace' /\ MarkerPlace'
    BY <1>4, <2>1 DEF ConfigCrash, Ended
  <2>4. CountPlace'
    BY <1>4 DEF ConfigCrash, Ended
  <2>5. blamed' \in Nat
    BY <2>1
  <2>6. LockTypeOK'
    BY <1>4, <2>5, Zenon DEF ConfigCrash, Ended
  <2>7. QED BY <2>2, <2>3, <2>4, <2>6
<1>5. CASE Loads
  BY <1>5 DEF Loads, Stage
<1>6. CASE RelockAtStart
  BY <1>6 DEF RelockAtStart, Stage, LockStep
<1>7. CASE AutoLockAtStart
  BY <1>7 DEF AutoLockAtStart, Stage, LockStep
<1>8. CASE MarkStartupSucceeded
  <2>1. BlamePlace'
    BY <1>8 DEF MarkStartupSucceeded
  <2>2. LockTypeOK' /\ CountPlace'
    BY <1>8 DEF MarkStartupSucceeded
  <2>3. HandlerPlace' /\ VerdictPlace' /\ MarkerPlace'
    BY <1>8 DEF MarkStartupSucceeded
  <2>4. QED BY <2>1, <2>2, <2>3
<1>9. QED BY <1>1, <1>2, <1>3, <1>4, <1>5, <1>6, <1>7, <1>8 DEF StartNext

\* The lock screen's handlers.
LEMMA LockKeeps ==
  ASSUME Bookkeeping, LockNext
  PROVE  Bookkeeping'
<1> USE DEF Bookkeeping, LockTypeOK, HandlerPlace, VerdictPlace, MarkerPlace, BlamePlace, CountPlace,
            Starting, Running, Steps, script, marks, Proceeds
<1>1. CASE LockCommand \/ IdleTimeout \/ Suspend \/ LogindLock
  <2>1. Serving /\ Requested
    BY <1>1 DEF LockCommand, IdleTimeout, Suspend, LogindLock
  <2>2. QED BY <2>1 DEF Serving, Requested, LockStep
<1>2. CASE PressReturn
  BY <1>2 DEF PressReturn, Serving
<1>3. CASE NothingToLock
  BY <1>3 DEF NothingToLock
<1>4. CASE Engages
  BY <1>4 DEF Engages
<1>5. ASSUME NEW verdict \in {"yes", "no"}, Verified(verdict)
      PROVE  Bookkeeping'
  BY <1>5 DEF Verified
<1>6. CASE NoteLocked
  BY <1>6 DEF NoteLocked
<1>7. CASE NoteUnlocked
  BY <1>7 DEF NoteUnlocked
<1>8. QED BY <1>1, <1>2, <1>3, <1>4, <1>5, <1>6, <1>7 DEF LockNext, Authentication

\* The ends of a process, and the wrapper around it.
LEMMA EndKeeps ==
  ASSUME Bookkeeping, Leave \/ Shutdown \/ Crash \/ TermToKohiko \/ RunsSteadily
  PROVE  Bookkeeping'
<1> USE DEF Bookkeeping, LockTypeOK, HandlerPlace, VerdictPlace, MarkerPlace, BlamePlace, CountPlace,
            Starting, Running, Steps, script, marks
<1>1. CASE Leave
  BY <1>1 DEF Leave
<1>2. CASE Shutdown
  BY <1>2 DEF Shutdown, Ended
<1>3. CASE Crash
  BY <1>3 DEF Crash, Fails, Ended
<1>4. CASE TermToKohiko
  <2>1. CASE stage = "noted"
    BY <1>4, <2>1 DEF TermToKohiko, Signalled, Fails, Ended
  <2>2. CASE stage # "noted"
    BY <1>4, <2>2 DEF TermToKohiko, Signalled
  <2>3. QED BY <2>1, <2>2
<1>5. CASE RunsSteadily
  BY <1>5 DEF RunsSteadily
<1>6. QED BY <1>1, <1>2, <1>3, <1>4, <1>5

LEMMA WrapperKeeps ==
  ASSUME Bookkeeping, WrapperNext
  PROVE  Bookkeeping'
<1> USE SessionAssumption
    DEF Bookkeeping, LockTypeOK, HandlerPlace, VerdictPlace, MarkerPlace, BlamePlace, CountPlace,
            Starting, Running, Steps, script, marks, kohiko, Wrapper
<1>1. CASE WaitReturns
  BY <1>1 DEF WaitReturns, Counted
<1>2. CASE BackoffEnds
  BY <1>2 DEF BackoffEnds
<1>3. CASE EndSession
  BY <1>3, ZenonT(60) DEF EndSession, Signalled, Fails, Ended
<1>4. CASE EndSessionNow \/ Stopped
  BY <1>4 DEF EndSessionNow, Stopped
<1>5. CASE KillStuck
  BY <1>5 DEF KillStuck, Fails, Ended
<1>6. CASE Login
  BY <1>6 DEF Login
<1>7. QED BY <1>1, <1>2, <1>3, <1>4, <1>5, <1>6 DEF WrapperNext

LEMMA NextKeepsBookkeeping == Bookkeeping /\ [Next]_vars => Bookkeeping'
<1> SUFFICES ASSUME Bookkeeping, [Next]_vars PROVE Bookkeeping'
  OBVIOUS
<1>1. CASE UNCHANGED vars
  BY <1>1 DEF vars, kohiko, marks, script, Bookkeeping, LockTypeOK, HandlerPlace, VerdictPlace,
    MarkerPlace, BlamePlace, CountPlace
<1>2. QED BY <1>1, StartKeeps, LockKeeps, EndKeeps, WrapperKeeps DEF Next

\* Holds in every reachable state, for every number of allowed failures.
LEMMA Bookkept == Spec => []Bookkeeping
BY BookkeepingStarts, NextKeepsBookkeeping, PTL DEF Spec

\* A configuration that crashes the start is tried once, whatever else happens
\* to the starts after it (RecoveryMode::NoteStartupAttempt), and the wrapper and
\* its child stay in step.
THEOREM SessionIsSafe == Spec => []LockSafety
<1>1. Bookkeeping => LockSafety
  BY DEF Bookkeeping, BlamePlace, LockSafety, ConfigCrashesOnce
<1>2. QED BY <1>1, Bookkept, PTL

(***************************************************************************)
(* The refinement                                                          *)
(***************************************************************************)

Stutter == Face' = Face /\ lockMark' = lockMark /\ answer' = answer
Kept == Promise!Next \/ Stutter

\* Nothing shows before the start is over: only its marker can be written then.
LEMMA StartKeepsPromise ==
  ASSUME Bookkeeping, Launch \/ StartNext
  PROVE  Kept
<1> USE DEF Bookkeeping, Kept, Stutter, Running, Starting
<1>1. CASE MarkStartupSucceeded
  <2>1. stage = "finishing" /\ step = "idle" /\ stage' = "up" /\ step' = step
        /\ locked' = locked /\ lockMark' = lockMark /\ answer' = answer
    BY <1>1 DEF MarkStartupSucceeded
  <2>2. locked \in BOOLEAN /\ lockMark \in BOOLEAN /\ lockMark = locked
    BY <2>1 DEF LockTypeOK, MarkerPlace
  <2>3. Face = "none" /\ Face' = IF locked THEN "locked" ELSE "desktop"
    BY <2>1, <2>2 DEF Face
  <2>4. Promise!Appear
    BY <2>1, <2>2, <2>3 DEF Promise!Appear
  <2>5. QED BY <2>4 DEF Promise!Next
<1>2. CASE Launch \/ StartFails \/ Connects \/ ConfigCrash \/ Loads \/ RelockAtStart \/ AutoLockAtStart
  <2>1. stage \notin {"up", "leaving"} /\ stage' \notin {"up", "leaving"} /\ lockMark' = lockMark
    BY <1>2 DEF Launch, NoteStartupAttempt, StartFails, Connects, ConfigCrash, Loads, RelockAtStart,
      AutoLockAtStart, Stage, Fails, Ended, marks
  <2>2. answer = "none" /\ answer' = "none"
    BY <1>2, <2>1 DEF VerdictPlace, Launch, StartFails, Connects, ConfigCrash, Loads, RelockAtStart,
      AutoLockAtStart, Stage, Fails, Ended
  <2>3. Face = "none" /\ Face' = "none"
    BY <2>1 DEF Face
  <2>4. QED BY <2>1, <2>2, <2>3
<1>3. QED BY <1>1, <1>2 DEF StartNext

\* The lock screen counts as up from the writing of its marker to the removal.
LEMMA LockKeepsPromise ==
  ASSUME Bookkeeping, LockNext
  PROVE  Kept
<1> USE DEF Bookkeeping, Kept, Stutter, Proceeds
<1>1. CASE LockCommand \/ IdleTimeout \/ Suspend \/ LogindLock
  <2>1. Serving /\ Requested
    BY <1>1 DEF LockCommand, IdleTimeout, Suspend, LogindLock
  <2>2. Stutter
    BY <2>1 DEF Serving, Requested, LockStep, Face, marks
  <2>3. QED BY <2>2
<1>2. CASE PressReturn
  <2>1. stage = "up" /\ stage' = "up" /\ step = "idle" /\ step' = "verifying" /\ locked /\ locked'
        /\ lockMark' = lockMark /\ answer' = "none"
    BY <1>2 DEF PressReturn, Serving, marks
  <2>2. Face = "locked" /\ Face' = "locked"
    BY <2>1 DEF Face
  <2>3. Promise!Ask
    BY <2>1, <2>2 DEF Promise!Ask
  <2>4. QED BY <2>3 DEF Promise!Next
<1>3. CASE NothingToLock
  BY <1>3 DEF NothingToLock, Face, marks, LockTypeOK
<1>4. CASE Engages
  <2>1. step = "asking" /\ step' = "engaged" /\ stage' = stage /\ ~locked
        /\ lockMark' = lockMark /\ answer' = "none"
    BY <1>4 DEF Engages, marks, LockTypeOK
  <2>2. Face' = Face
    BY <2>1 DEF Face
  <2>3. answer = "none"
    BY <2>1 DEF VerdictPlace
  <2>4. QED BY <2>1, <2>2, <2>3
<1>5. ASSUME NEW verdict \in {"yes", "no"}, Verified(verdict)
      PROVE  Kept
  <2>1. step = "verifying" /\ stage = "up" /\ stage' = "up" /\ locked /\ answer = "none"
        /\ lockMark' = lockMark /\ answer' = verdict
    BY <1>5 DEF Verified, marks, HandlerPlace, VerdictPlace, LockTypeOK
  <2>2. step' = "opened" \/ (locked' /\ step' = "idle")
    BY <1>5 DEF Verified
  <2>3. Face = "locked" /\ Face' = "locked"
    BY <2>1, <2>2 DEF Face
  <2>4. Promise!Verdict
    BY <2>1, <2>3 DEF Promise!Verdict
  <2>5. QED BY <2>4 DEF Promise!Next
<1>6. CASE NoteLocked
  <2>1. step = "engaged" /\ step' = "idle" /\ stage' = stage /\ locked /\ locked'
        /\ lockMark' = TRUE /\ answer' = answer
    BY <1>6 DEF NoteLocked, LockTypeOK
  <2>2. CASE stage = "up"
    <3>1. Face = "desktop" /\ Face' = "locked"
      BY <2>1, <2>2 DEF Face
    <3>2. Promise!Engage
      BY <2>1, <3>1 DEF Promise!Engage
    <3>3. QED BY <3>2 DEF Promise!Next
  <2>3. CASE stage \in {"autolocking", "finishing"}
    <3>1. Face = "none" /\ Face' = "none"
      BY <2>1, <2>3 DEF Face
    <3>2. Promise!StartingUp
      BY <2>1, <3>1 DEF Promise!StartingUp
    <3>3. QED BY <3>2 DEF Promise!Next
  <2>4. QED BY <2>1, <2>2, <2>3 DEF HandlerPlace
<1>7. CASE NoteUnlocked
  <2>1. step = "opened" /\ step' = "idle" /\ stage = "up" /\ stage' = "up" /\ ~locked /\ ~locked'
        /\ answer = "yes" /\ lockMark' = FALSE /\ answer' = "none"
    BY <1>7 DEF NoteUnlocked, LockTypeOK, HandlerPlace, VerdictPlace
  <2>2. Face = "locked" /\ Face' = "desktop"
    BY <2>1 DEF Face
  <2>3. Promise!Open
    BY <2>1, <2>2 DEF Promise!Open
  <2>4. QED BY <2>3 DEF Promise!Next
<1>8. QED BY <1>1, <1>2, <1>3, <1>4, <1>5, <1>6, <1>7 DEF LockNext, Authentication

\* The process ends: what it owed is still owed, unless it said goodbye.
LEMMA EndedKeepsPromise ==
  ASSUME Bookkeeping, stage' = "off", answer' = "none", lockMark' = lockMark
  PROVE  Kept
<1>1. Face' = "none"
  BY DEF Face
<1>2. CASE Face = "none"
  <2>1. answer = "none"
    BY <1>2 DEF Face, Bookkeeping, VerdictPlace
  <2>2. QED BY <1>1, <1>2, <2>1 DEF Kept, Stutter
<1>3. CASE Face # "none"
  BY <1>1, <1>3 DEF Kept, Promise!Next, Promise!Vanish
<1>4. QED BY <1>2, <1>3

LEMMA EndKeepsPromise ==
  ASSUME Bookkeeping, Leave \/ Shutdown \/ Crash \/ TermToKohiko \/ RunsSteadily
  PROVE  Kept
<1>1. CASE Leave
  <2>1. stage = "up" /\ stage' = "leaving" /\ lockMark' = lockMark /\ answer' = answer
    BY <1>1 DEF Leave, marks
  <2>2. Face \in {"desktop", "locked"} /\ Face' = "leaving"
    BY <2>1 DEF Face
  <2>3. QED BY <2>1, <2>2 DEF Kept, Promise!Next, Promise!Leave
<1>2. CASE Shutdown
  <2>1. stage = "leaving" /\ stage' = "off" /\ lockMark' = FALSE /\ answer' = "none"
    BY <1>2 DEF Shutdown, Ended
  <2>2. Face = "leaving" /\ Face' = "none"
    BY <2>1 DEF Face
  <2>3. QED BY <2>1, <2>2 DEF Kept, Promise!Next, Promise!Gone
<1>3. CASE Crash
  BY <1>3, EndedKeepsPromise DEF Crash, Fails, Ended, marks
<1>4. CASE TermToKohiko
  <2>1. CASE stage = "noted"
    BY <1>4, <2>1, EndedKeepsPromise DEF TermToKohiko, Signalled, Fails, Ended, marks
  <2>2. CASE stage # "noted"
    BY <1>4, <2>2 DEF TermToKohiko, Signalled, Face, Kept, Stutter, marks
  <2>3. QED BY <2>1, <2>2
<1>5. CASE RunsSteadily
  BY <1>5 DEF RunsSteadily, Face, Kept, Stutter, marks
<1>6. QED BY <1>1, <1>2, <1>3, <1>4, <1>5

LEMMA WrapperKeepsPromise ==
  ASSUME Bookkeeping, WrapperNext
  PROVE  Kept
<1>1. CASE WaitReturns \/ BackoffEnds \/ EndSessionNow \/ Stopped \/ Login
  <2>1. \E to, count : Wrapper(to, count)
    BY <1>1 DEF WaitReturns, BackoffEnds, EndSessionNow, Stopped, Login
  <2>2. QED BY <2>1 DEF Wrapper, kohiko, marks, Face, Kept, Stutter
<1>2. CASE EndSession
  <2>1. CASE stage = "noted"
    BY <1>2, <2>1, EndedKeepsPromise DEF EndSession, Signalled, Fails, Ended, marks
  <2>2. CASE stage # "noted"
    BY <1>2, <2>2 DEF EndSession, Signalled, Face, Kept, Stutter, marks
  <2>3. QED BY <2>1, <2>2
<1>3. CASE KillStuck
  BY <1>3, EndedKeepsPromise DEF KillStuck, Fails, Ended, marks
<1>4. QED BY <1>1, <1>2, <1>3 DEF WrapperNext

\* LockScreen, LockRecovery and kohiko-session together implement LockPromise:
\* a locked session stays locked, wherever a handler is cut off and however
\* often it is started again, until PAM has said yes or it was ended on purpose.
THEOREM PromiseIsKept == Spec => KeepsPromise
<1>1. Init => Promise!Init
  BY DEF Init, Promise!Init, Face
<1>2. Bookkeeping /\ [Next]_vars => [Promise!Next]_(Promise!promiseVars)
  <2> SUFFICES ASSUME Bookkeeping, [Next]_vars PROVE [Promise!Next]_(Promise!promiseVars)
    OBVIOUS
  <2>1. CASE UNCHANGED vars
    BY <2>1 DEF vars, kohiko, marks, Face, Promise!promiseVars
  <2>2. CASE Next
    <3>1. Kept
      BY <2>2, StartKeepsPromise, LockKeepsPromise, EndKeepsPromise, WrapperKeepsPromise DEF Next
    <3>2. QED BY <3>1 DEF Kept, Stutter, Promise!promiseVars
  <2>3. QED BY <2>1, <2>2
<1>3. QED BY <1>1, <1>2, Bookkept, PTL DEF Spec, KeepsPromise, Promise!Spec
==============================================================================
