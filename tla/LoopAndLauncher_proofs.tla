------------------------ MODULE LoopAndLauncher_proofs ------------------------
(***************************************************************************)
(* The event loop, and the launcher whose list is rebuilt beside it.       *)
(*                                                                         *)
(* No descriptor, command, animation or hidden event keeps a tick or an X  *)
(* event waiting for more than an interval and a turn, for any number of   *)
(* descriptors, any burst of X events and any intervals.  The argument is  *)
(* a budget of lateness.  The tick was at most `due' away from where it is *)
(* since it was last set, so how long ago the last one is follows from how *)
(* late the next one is; and it can only get late by what this turn still  *)
(* has to serve: every descriptor once in "serve", then each X event once  *)
(* in "drain", where those that are neither to come nor waiting have been  *)
(* handled since the last tick.                                            *)
(*                                                                         *)
(* The second part is about the toasts the tick is for.  A toast's place   *)
(* is how many older ones its monitor has, which erasing others changes on *)
(* their monitors only; and it goes in time by the same budget.            *)
(*                                                                         *)
(* The third part is about the launcher's list.  What each of the two      *)
(* deduplications has made of the entries so far has each id once, and a   *)
(* row for every application an entry of which it has seen; a key leads to *)
(* a row of its application, whichever entry that row shows by now.  So do *)
(* the lists that are built of any directories.  That a fresh cache holds  *)
(* such a list of these directories follows the list on its way from the   *)
(* scan over the stamps to the file.                                       *)
(***************************************************************************)
EXTENDS EventLoop, Launcher, FiniteSetTheorems, SequenceTheorems, WellFoundedInduction, TLAPS

Descriptors == 1 + Cardinality(Sources)

\* X events handled since the last tick.
Handled == Burst - (budget + socket + queued)

(* ------------------------- the inductive invariant ----------------------- *)

Shape ==
    /\ pc \in {"drain", "schedule", "select", "serve"}
    /\ due \in Int /\ since \in Nat /\ animating \in BOOLEAN
    /\ socket \in Nat /\ queued \in Nat /\ budget \in Nat /\ waited \in Nat
    /\ ready \subseteq Sources /\ asking \in Seq(Clients)

\* Every X event is to come, waits or has been handled.
EventsAreCounted == budget + socket + queued <= Burst

\* What select() has reported is there, and is served in this turn.
ServesWhatIsThere ==
    /\ serving \subseteq Sources \cup {Ipc}
    /\ (Ipc \in serving) => asking # <<>>
    /\ (serving # {}) => pc = "serve"

\* The loop ticks and sleeps with Xlib's queue empty.
DrainsFirst ==
    /\ (pc = "schedule") => (queued = 0 /\ waited = 0)
    /\ (queued + socket = 0) => waited = 0

\* How late the tick may be at each place of a turn.
LateByTheTurn ==
    /\ (pc = "select") => due >= 0
    /\ (pc = "serve") => due >= Cardinality(serving) - Descriptors
    /\ (pc \in {"drain", "schedule"}) => due >= 0 - Descriptors - Handled

\* What has waited since the last tick has waited no longer than the tick.
ClocksAgree ==
    /\ since + due <= Idle
    /\ waited + due <= Idle + 1

OnTime ==
    /\ Shape /\ EventsAreCounted /\ ServesWhatIsThere
    /\ DrainsFirst /\ LateByTheTurn /\ ClocksAgree

(* ---------------------------- what steps share --------------------------- *)

LEMMA DescriptorsAreFinite ==
    /\ IsFiniteSet(Sources) /\ Descriptors \in Nat
    /\ Cardinality(Sources \cup {Ipc}) = Descriptors
<1>1. IsFiniteSet(Sources) /\ Ipc \notin Sources
  BY LoopAssumption DEF Ipc
<1>2. Cardinality(Sources) \in Nat
  BY <1>1, FS_CardinalityType
<1>3. Cardinality(Sources \cup {Ipc}) = Cardinality(Sources) + 1
  BY <1>1, FS_AddElement
<1> QED
  BY <1>1, <1>2, <1>3, SMT DEF Descriptors

LEMMA IntervalsAreShort ==
    /\ TickInterval \in Nat /\ 0 < TickInterval /\ TickInterval <= Idle
    /\ Idle \in Nat /\ Burst \in Nat
BY LoopAssumption, SMT DEF TickInterval

LEMMA BoundsAreNumbers == Idle \in Nat /\ Burst \in Nat
BY LoopAssumption

\* select() reports each descriptor once.
LEMMA ServedFew ==
    ASSUME NEW some \in SUBSET (Sources \cup {Ipc})
    PROVE  IsFiniteSet(some) /\ Cardinality(some) \in Nat /\ Cardinality(some) <= Descriptors
<1>1. IsFiniteSet(Sources \cup {Ipc})
  BY DescriptorsAreFinite, FS_AddElement
<1> QED
  BY <1>1, DescriptorsAreFinite, FS_Subset, FS_CardinalityType

\* A round trip moves events from the socket to the queue and loses none.
LEMMA RoundTripKeepsEvents ==
    ASSUME NEW trip \in BOOLEAN, RoundTrip(trip), socket \in Nat, queued \in Nat
    PROVE  /\ socket' \in Nat /\ queued' \in Nat /\ socket' + queued' = socket + queued
           /\ (queued' + socket' = 0) => queued + socket = 0
<1>1. CASE trip
  BY <1>1, SMT DEF RoundTrip
<1>2. CASE ~trip
  BY <1>2, SMT DEF RoundTrip
<1> QED
  BY <1>1, <1>2

\* Two pairs of numbers with one sum are as good as each other in a bound.
LEMMA SameSumBound ==
    ASSUME NEW a \in Nat, NEW b \in Nat, NEW c \in Nat, NEW d \in Nat,
           NEW more \in Nat, NEW most \in Nat, a + b = c + d, more + c + d <= most
    PROVE  more + a + b <= most
BY SMT

LEMMA SumBound ==
    ASSUME NEW a \in Int, NEW b \in Int, NEW c \in Int, NEW d \in Int, a <= c, b <= d
    PROVE  a + b <= d + c
BY SMT

LEMMA WaitingIsBounded ==
    ASSUME NEW cost \in 0..1, NEW events \in Nat, waited \in Nat
    PROVE  /\ Waiting(cost, events) \in Nat
           /\ (events = 0) => Waiting(cost, events) = 0
           /\ Waiting(cost, events) <= waited + cost
BY SMT DEF Waiting

\* Time that passes for the tick passes for what waits.
LEMMA TimePasses ==
    ASSUME NEW left \in Int, NEW cost \in Int, NEW wait \in Int, NEW longer \in Int,
           NEW most \in Int, wait + left <= most, longer <= wait + cost
    PROVE  longer + (left - cost) <= most
BY SMT

LEMMA ClocksPass ==
    ASSUME OnTime, NEW cost \in 0..1, due' = due - cost, since' = since + cost,
           waited' \in Nat, waited' <= waited + cost
    PROVE  ClocksAgree'
<1>1. /\ since + due <= Idle /\ waited + due <= Idle + 1
      /\ since \in Int /\ due \in Int /\ waited \in Int /\ cost \in Int
  BY SMT DEF OnTime, ClocksAgree, Shape
<1>2. waited' \in Int /\ since' \in Int /\ since' <= since + cost
  BY <1>1, SMT
<1>3. Idle \in Int /\ Idle + 1 \in Int
  BY IntervalsAreShort, SMT
<1> QED
  BY <1>1, <1>2, <1>3, TimePasses DEF ClocksAgree

LEMMA StartsOnTime == Init => OnTime
<1> SUFFICES ASSUME Init PROVE OnTime
  OBVIOUS
<1> USE DEF Init
<1>1. Shape
  <2>1. Burst \in Nat /\ <<>> \in Seq(Clients)
    BY LoopAssumption
  <2>2. pc \in {"drain", "schedule", "select", "serve"}
    OBVIOUS
  <2>3. ready \subseteq Sources /\ asking \in Seq(Clients) /\ animating \in BOOLEAN
    BY <2>1
  <2>4. /\ due \in Int /\ since \in Nat
        /\ socket \in Nat /\ queued \in Nat /\ budget \in Nat /\ waited \in Nat
    BY <2>1, SMT
  <2> QED
    BY <2>2, <2>3, <2>4 DEF Shape
<1>2. Descriptors \in Nat /\ Burst \in Nat /\ Idle \in Nat
  BY DescriptorsAreFinite, LoopAssumption
<1>3. Handled = 0
  BY <1>2, SMT DEF Handled
<1>4. EventsAreCounted /\ DrainsFirst /\ ClocksAgree
  BY <1>2, SMT DEF EventsAreCounted, DrainsFirst, ClocksAgree
<1>5. ServesWhatIsThere
  BY DEF ServesWhatIsThere
<1>6. LateByTheTurn
  BY <1>2, <1>3, SMT DEF LateByTheTurn
<1> QED
  BY <1>1, <1>4, <1>5, <1>6 DEF OnTime

(* ------------------------------ the outside ------------------------------ *)

LEMMA XArrivesOnTime ==
    ASSUME OnTime, XArrives PROVE OnTime'
<1> USE DEF OnTime, XArrives
<1>1. Shape'
  BY SMT DEF Shape
<1>2. Descriptors \in Nat /\ Burst \in Nat /\ Idle \in Nat
  BY DescriptorsAreFinite, LoopAssumption
<1>3. Handled' = Handled
  BY <1>2, SMT DEF Handled, Shape
<1>4. EventsAreCounted' /\ DrainsFirst' /\ ClocksAgree'
  BY <1>2, SMT DEF EventsAreCounted, DrainsFirst, ClocksAgree, Shape
<1>5. ServesWhatIsThere'
  BY DEF ServesWhatIsThere
<1>6. LateByTheTurn'
  BY <1>3 DEF LateByTheTurn, Descriptors
<1> QED
  BY <1>1, <1>4, <1>5, <1>6

LEMMA OthersWriteOnTime ==
    ASSUME OnTime,
           (\E s \in Sources : SourceReady(s)) \/ (\E c \in Clients : Connect(c))
    PROVE  OnTime'
<1>1. /\ UNCHANGED <<pc, due, since, animating, xEvents, serving>>
      /\ ready' \subseteq Sources /\ asking' \in Seq(Clients)
      /\ asking # <<>> => asking' # <<>>
  BY SMT DEF SourceReady, Connect, OnTime, Shape
<1>2. Shape'
  BY <1>1 DEF OnTime, Shape, xEvents
<1>3. EventsAreCounted' /\ DrainsFirst' /\ ClocksAgree' /\ LateByTheTurn'
  BY <1>1 DEF OnTime, EventsAreCounted, DrainsFirst, ClocksAgree, LateByTheTurn,
              Handled, Descriptors, xEvents
<1>4. ServesWhatIsThere'
  BY <1>1 DEF OnTime, ServesWhatIsThere
<1> QED
  BY <1>2, <1>3, <1>4 DEF OnTime

(* -------------------------------- draining ------------------------------- *)

LEMMA HandleXEventOnTime ==
    ASSUME OnTime, HandleXEvent PROVE OnTime'
<1> USE DEF OnTime
<1>1. PICK cost \in 0..1 : Elapse(cost) /\ waited' = Waiting(cost, queued')
  BY DEF HandleXEvent
<1>2. /\ pc = "drain" /\ pc' = pc /\ queued + socket > 0
      /\ queued' = queued + socket - 1 /\ socket' = 0
      /\ animating' \in BOOLEAN /\ budget' = budget
      /\ ready' = ready /\ asking' = asking /\ serving' = serving
  BY DEF HandleXEvent
<1>3. due' = due - cost /\ since' = since + cost
  BY <1>1 DEF Elapse
<1>4. queued' \in Nat /\ socket' \in Nat
  BY <1>2, SMT DEF Shape
<1>5. waited' \in Nat /\ (queued' = 0 => waited' = 0) /\ waited' <= waited + cost
  BY <1>1, <1>4, WaitingIsBounded DEF Shape
<1>6. Descriptors \in Nat /\ Burst \in Nat /\ Idle \in Nat
  BY DescriptorsAreFinite, LoopAssumption
<1>7. Handled' = Handled + 1 /\ Handled \in Int
  BY <1>2, <1>6, SMT DEF Handled, Shape
<1>8. Shape'
  BY <1>2, <1>3, <1>4, <1>5, SMT DEF Shape
<1>9. EventsAreCounted' /\ DrainsFirst'
  BY <1>2, <1>4, <1>5, <1>6, SMT DEF EventsAreCounted, DrainsFirst, Shape
<1>10. ServesWhatIsThere'
  BY <1>2 DEF ServesWhatIsThere
<1>11. due' >= 0 - Descriptors - Handled'
  BY <1>2, <1>3, <1>6, <1>7, SMT DEF LateByTheTurn, Shape
<1>12. LateByTheTurn'
  BY <1>2, <1>11 DEF LateByTheTurn, Descriptors
<1>13. ClocksAgree'
  BY <1>3, <1>5, ClocksPass
<1> QED
  BY <1>8, <1>9, <1>10, <1>12, <1>13

LEMMA DrainedOnTime ==
    ASSUME OnTime, Drained PROVE OnTime'
<1> USE DEF OnTime, Drained, xEvents
<1>1. queued = 0 /\ waited = 0
  BY SMT DEF DrainsFirst, Shape
<1>2. Shape' /\ EventsAreCounted' /\ ClocksAgree'
  BY DEF Shape, EventsAreCounted, ClocksAgree
<1>3. ServesWhatIsThere'
  BY DEF ServesWhatIsThere
<1>4. DrainsFirst'
  BY <1>1 DEF DrainsFirst
<1>5. LateByTheTurn'
  BY DEF LateByTheTurn, Handled, Descriptors
<1> QED
  BY <1>2, <1>3, <1>4, <1>5

(* ---------------------------- the tick and sleep ------------------------- *)

LEMMA TickOnTime ==
    ASSUME OnTime, Tick PROVE OnTime'
<1>1. PICK cost \in 0..1, trip \in BOOLEAN :
         RoundTrip(trip) /\ waited' = Waiting(cost, queued + socket)
  BY DEF Tick
<1>2. /\ pc = "schedule" /\ pc' = "select" /\ due' = TickInterval /\ since' = 0
      /\ animating' \in {animating, FALSE} /\ budget' = Burst - (socket + queued)
      /\ ready' = ready /\ asking' = asking /\ serving' = serving
  BY DEF Tick
<1>3. /\ socket \in Nat /\ queued \in Nat /\ budget \in Nat /\ waited \in Nat
      /\ budget + socket + queued <= Burst /\ waited = 0
  BY <1>2 DEF OnTime, Shape, EventsAreCounted, DrainsFirst
<1>4. /\ socket' \in Nat /\ queued' \in Nat /\ socket' + queued' = socket + queued
      /\ (queued' + socket' = 0) => queued + socket = 0
  BY <1>1, <1>3, RoundTripKeepsEvents
<1>5. queued + socket \in Nat
  BY <1>3, SMT
<1>6. /\ waited' \in Nat /\ waited' <= waited + cost
      /\ (queued + socket = 0) => waited' = 0
  BY <1>1, <1>3, <1>5, WaitingIsBounded
<1>7. waited' <= 1
  BY <1>3, <1>6, SMT
<1>8. budget' \in Nat /\ budget' + socket' + queued' <= Burst
  <2>1. Burst - (socket + queued) \in Nat
    BY <1>3, BoundsAreNumbers, SMT
  <2>2. (Burst - (socket + queued)) + socket' + queued' <= Burst
    <3>1. (Burst - (socket + queued)) + socket + queued <= Burst
      BY <1>3, BoundsAreNumbers, SMT
    <3> QED
      BY <1>3, <1>4, <2>1, <3>1, BoundsAreNumbers, SameSumBound
  <2> QED
    BY <1>2, <2>1, <2>2
<1>9. due' \in Nat /\ due' <= Idle
  BY <1>2, IntervalsAreShort
<1>10. Shape'
  <2>1. animating' \in BOOLEAN /\ ready' \subseteq Sources /\ asking' \in Seq(Clients)
    BY <1>2 DEF OnTime, Shape
  <2>2. due' \in Int /\ since' \in Nat
    BY <1>2, <1>9, SMT
  <2> QED
    BY <1>2, <1>4, <1>6, <1>8, <2>1, <2>2 DEF Shape
<1>11. EventsAreCounted'
  BY <1>8 DEF EventsAreCounted
<1>12. ServesWhatIsThere'
  BY <1>2 DEF OnTime, ServesWhatIsThere
<1>13. DrainsFirst'
  <2>1. (queued' + socket' = 0) => queued + socket = 0
    BY <1>4
  <2> QED
    BY <1>2, <1>6, <2>1 DEF DrainsFirst
<1>14. LateByTheTurn'
  <2>1. due' >= 0
    BY <1>9, SMT
  <2> QED
    BY <1>2, <2>1 DEF LateByTheTurn
<1>15. ClocksAgree'
  <2>1. since' + due' <= Idle
    BY <1>2, <1>9, IntervalsAreShort, SMT
  <2>2. waited' + due' <= Idle + 1
    <3>1. waited' \in Int /\ due' \in Int /\ Idle \in Int /\ 1 \in Int
      BY <1>6, <1>9, IntervalsAreShort, SMT
    <3> QED
      BY <1>7, <1>9, <3>1, SumBound
  <2> QED
    BY <2>1, <2>2 DEF ClocksAgree
<1> QED
  BY <1>10, <1>11, <1>12, <1>13, <1>14, <1>15 DEF OnTime

LEMMA NotYetOnTime ==
    ASSUME OnTime, NotYet PROVE OnTime'
<1>1. /\ pc = "schedule" /\ pc' = "select" /\ due' = PullForward(TickInterval)
      /\ PullForward(TickInterval) > 0
      /\ UNCHANGED <<since, animating, socket, queued, waited, budget,
                     ready, asking, serving>>
  BY DEF NotYet, xEvents
<1>2. due \in Int /\ since \in Nat /\ waited \in Nat
      /\ since + due <= Idle /\ waited + due <= Idle + 1
  BY DEF OnTime, Shape, ClocksAgree
<1>3. due' \in Int /\ due' <= due /\ due' > 0
  BY <1>1, <1>2, IntervalsAreShort, SMT DEF PullForward
<1>4. Shape'
  BY <1>1, <1>3 DEF OnTime, Shape
<1>5. EventsAreCounted' /\ ServesWhatIsThere' /\ DrainsFirst'
  BY <1>1 DEF OnTime, EventsAreCounted, ServesWhatIsThere, DrainsFirst
<1>6. LateByTheTurn'
  <2>1. due' >= 0
    BY <1>3, SMT
  <2> QED
    BY <1>1, <2>1 DEF LateByTheTurn
<1>7. ClocksAgree'
  <2>1. since' + due' <= Idle /\ waited' + due' <= Idle + 1
    BY <1>1, <1>2, <1>3, IntervalsAreShort, SMT
  <2> QED
    BY <2>1 DEF ClocksAgree
<1> QED
  BY <1>4, <1>5, <1>6, <1>7 DEF OnTime

LEMMA SleepOnTime ==
    ASSUME OnTime, Sleep PROVE OnTime'
<1>1. /\ pc = "select" /\ pc' = "select" /\ due > 0
      /\ due' = due - 1 /\ since' = since + 1 /\ waited' = Waiting(1, queued)
      /\ socket = 0
      /\ UNCHANGED <<animating, socket, queued, budget, ready, asking, serving>>
  BY DEF Sleep, Elapse
<1>2. /\ due \in Int /\ since \in Nat /\ waited \in Nat /\ queued \in Nat
  BY DEF OnTime, Shape
<1>3. 1 \in 0..1
  BY SMT
<1>4. waited' \in Nat /\ waited' <= waited + 1 /\ (queued = 0 => waited' = 0)
  BY <1>1, <1>2, <1>3, WaitingIsBounded
<1>5. Shape'
  <2>1. due' \in Int /\ since' \in Nat
    BY <1>1, <1>2, SMT
  <2> QED
    BY <1>1, <1>4, <2>1 DEF OnTime, Shape
<1>6. EventsAreCounted' /\ ServesWhatIsThere'
  BY <1>1 DEF OnTime, EventsAreCounted, ServesWhatIsThere
<1>7. DrainsFirst'
  <2>1. (queued' + socket' = 0) => queued = 0
    BY <1>1, <1>2, SMT
  <2> QED
    BY <1>1, <1>4, <2>1 DEF DrainsFirst
<1>8. LateByTheTurn'
  <2>1. due' >= 0
    BY <1>1, <1>2, SMT
  <2> QED
    BY <1>1, <2>1 DEF LateByTheTurn
<1>9. ClocksAgree'
  BY <1>1, <1>3, <1>4, ClocksPass
<1> QED
  BY <1>5, <1>6, <1>7, <1>8, <1>9 DEF OnTime

(* -------------------------------- serving -------------------------------- *)

LEMMA SelectReturnsOnTime ==
    ASSUME OnTime, SelectReturns PROVE OnTime'
<1>1. /\ pc = "select" /\ pc' = "serve" /\ serving' = Readable
      /\ UNCHANGED <<due, since, animating, socket, queued, waited, budget, ready, asking>>
  BY DEF SelectReturns, xEvents
<1>2. serving' \in SUBSET (Sources \cup {Ipc}) /\ ((Ipc \in serving') => asking # <<>>)
  <2>1. Ipc \notin Sources
    BY LoopAssumption DEF Ipc
  <2> QED
    BY <1>1, <2>1 DEF OnTime, Shape, Readable
<1>3. Shape' /\ EventsAreCounted' /\ ClocksAgree'
  BY <1>1 DEF OnTime, Shape, EventsAreCounted, ClocksAgree
<1>4. ServesWhatIsThere'
  BY <1>1, <1>2 DEF ServesWhatIsThere
<1>5. DrainsFirst'
  BY <1>1 DEF OnTime, DrainsFirst
<1>6. LateByTheTurn'
  <2>1. Cardinality(serving') \in Nat /\ Cardinality(serving') <= Descriptors
    BY <1>2, ServedFew
  <2>2. due \in Int /\ due >= 0
    BY <1>1 DEF OnTime, Shape, LateByTheTurn
  <2>3. due' >= Cardinality(serving') - Descriptors
    BY <1>1, <2>1, <2>2, DescriptorsAreFinite, SMT
  <2> QED
    BY <1>1, <2>3 DEF LateByTheTurn, Descriptors
<1> QED
  BY <1>3, <1>4, <1>5, <1>6 DEF OnTime

\* What serving one descriptor has in common, whichever it is.
LEMMA ServingOnTime ==
    ASSUME OnTime, NEW some \in serving, NEW cost \in 0..1, NEW trip \in BOOLEAN,
           pc = "serve", pc' = pc, serving' = serving \ {some},
           due' = due - cost, since' = since + cost, RoundTrip(trip),
           waited' = Waiting(cost, queued + socket), animating' \in BOOLEAN,
           ready' \subseteq Sources, asking' \in Seq(Clients),
           (Ipc \in serving') => asking' # <<>>, budget' = budget
    PROVE  OnTime'
<1>1. /\ due \in Int /\ since \in Nat /\ cost \in Nat
      /\ socket \in Nat /\ queued \in Nat /\ budget \in Nat /\ waited \in Nat
      /\ budget + socket + queued <= Burst
  BY SMT DEF OnTime, Shape, EventsAreCounted
<1>2. /\ socket' \in Nat /\ queued' \in Nat /\ socket' + queued' = socket + queued
      /\ (queued' + socket' = 0) => queued + socket = 0
  BY <1>1, RoundTripKeepsEvents
<1>3. queued + socket \in Nat
  BY <1>1, SMT
<1>4. /\ waited' \in Nat /\ waited' <= waited + cost
      /\ (queued + socket = 0) => waited' = 0
  BY <1>1, <1>3, WaitingIsBounded
<1>5. Shape'
  <2>1. due' \in Int /\ since' \in Nat
    BY <1>1, SMT
  <2> QED
    BY <1>1, <1>2, <1>4, <2>1 DEF OnTime, Shape
<1>6. EventsAreCounted'
  <2>1. budget + socket' + queued' <= Burst
    BY <1>1, <1>2, BoundsAreNumbers, SameSumBound
  <2> QED
    BY <2>1 DEF EventsAreCounted
<1>7. ServesWhatIsThere'
  BY DEF OnTime, ServesWhatIsThere
<1>8. DrainsFirst'
  <2>1. (queued' + socket' = 0) => queued + socket = 0
    BY <1>2
  <2> QED
    BY <1>4, <2>1 DEF DrainsFirst
<1>9. LateByTheTurn'
  <2>1. serving \in SUBSET (Sources \cup {Ipc})
    BY DEF OnTime, ServesWhatIsThere
  <2>2. IsFiniteSet(serving) /\ Cardinality(serving) \in Nat
    BY <2>1, ServedFew
  <2>3. Cardinality(serving') = Cardinality(serving) - 1
    BY <2>2, FS_RemoveElement
  <2>4. due >= Cardinality(serving) - Descriptors
    BY DEF OnTime, LateByTheTurn
  <2>5. cost <= 1
    BY SMT
  <2>6. due - cost >= (Cardinality(serving) - 1) - Descriptors
    BY <1>1, <2>2, <2>4, <2>5, DescriptorsAreFinite, SMT
  <2>7. due' >= Cardinality(serving') - Descriptors
    BY <2>3, <2>6
  <2> QED
    BY <2>7 DEF LateByTheTurn, Descriptors
<1>10. ClocksAgree'
  BY <1>4, ClocksPass
<1> QED
  BY <1>5, <1>6, <1>7, <1>8, <1>9, <1>10 DEF OnTime

LEMMA ServeIpcOnTime ==
    ASSUME OnTime, ServeIpc PROVE OnTime'
<1>1. PICK cost \in 0..1, trip \in BOOLEAN :
         /\ due' = due - cost /\ since' = since + cost
         /\ RoundTrip(trip) /\ waited' = Waiting(cost, queued + socket)
  BY DEF ServeIpc
<1>2. /\ pc = "serve" /\ pc' = pc /\ Ipc \in serving /\ serving' = serving \ {Ipc}
      /\ asking' = Tail(asking) /\ animating' \in BOOLEAN
      /\ budget' = budget /\ ready' = ready
  BY DEF ServeIpc
<1>3. asking' \in Seq(Clients) /\ ready' \subseteq Sources
  BY <1>2 DEF OnTime, Shape, ServesWhatIsThere
<1> QED
  BY <1>1, <1>2, <1>3, ServingOnTime

LEMMA ServeSourceOnTime ==
    ASSUME OnTime, ServeSource PROVE OnTime'
<1>1. PICK cost \in 0..1, trip \in BOOLEAN :
         Elapse(cost) /\ RoundTrip(trip) /\ waited' = Waiting(cost, queued + socket)
  BY DEF ServeSource
<1>2. PICK s \in serving : serving' = serving \ {s} /\ ready' = ready \ {s}
  BY DEF ServeSource
<1>3. /\ pc = "serve" /\ pc' = pc /\ animating' = animating
      /\ budget' = budget /\ asking' = asking /\ Ipc \notin serving'
  BY <1>2 DEF ServeSource
<1>4. due' = due - cost /\ since' = since + cost
  BY <1>1 DEF Elapse
<1>5. animating' \in BOOLEAN /\ ready' \subseteq Sources /\ asking' \in Seq(Clients)
  BY <1>2, <1>3 DEF OnTime, Shape
<1> QED
  BY <1>1, <1>2, <1>3, <1>4, <1>5, ServingOnTime

LEMMA ServedOnTime ==
    ASSUME OnTime, Served PROVE OnTime'
<1>1. /\ pc = "serve" /\ serving = {} /\ pc' = "drain"
      /\ UNCHANGED <<due, since, animating, socket, queued, waited, budget,
                     ready, asking, serving>>
  BY DEF Served, xEvents
<1>2. Shape' /\ EventsAreCounted' /\ ServesWhatIsThere' /\ DrainsFirst' /\ ClocksAgree'
  BY <1>1 DEF OnTime, Shape, EventsAreCounted, ServesWhatIsThere, DrainsFirst, ClocksAgree
<1>3. LateByTheTurn'
  <2>1. due >= Cardinality(serving) - Descriptors /\ Cardinality(serving) = 0
    BY <1>1, FS_EmptySet DEF OnTime, LateByTheTurn
  <2>2. Handled \in Nat /\ due \in Int
    BY IntervalsAreShort, SMT DEF OnTime, Shape, EventsAreCounted, Handled
  <2>3. due >= 0 - Descriptors
    BY <2>1
  <2>4. due >= 0 - Descriptors - Handled
    BY <2>2, <2>3, DescriptorsAreFinite, SMT
  <2> QED
    BY <1>1, <2>4 DEF LateByTheTurn, Handled, Descriptors
<1> QED
  BY <1>2, <1>3 DEF OnTime

LEMMA StepsOnTime == OnTime /\ [Next]_vars => OnTime'
<1> SUFFICES ASSUME OnTime, [Next]_vars PROVE OnTime'
  OBVIOUS
<1>1. CASE LoopNext
  BY <1>1, HandleXEventOnTime, DrainedOnTime, TickOnTime, NotYetOnTime,
     SelectReturnsOnTime, SleepOnTime, ServeIpcOnTime, ServeSourceOnTime,
     ServedOnTime DEF LoopNext
<1>2. CASE XArrives
  BY <1>2, XArrivesOnTime
<1>3. CASE (\E s \in Sources : SourceReady(s)) \/ (\E c \in Clients : Connect(c))
  BY <1>3, OthersWriteOnTime
<1>4. CASE UNCHANGED vars
  BY <1>4 DEF vars, xEvents, OnTime, Shape, EventsAreCounted, ServesWhatIsThere,
              DrainsFirst, LateByTheTurn, ClocksAgree, Handled, Descriptors
<1> QED
  BY <1>1, <1>2, <1>3, <1>4 DEF Next

(* ------------------------------ the theorem ------------------------------ *)

\* The budget is what Turn says: all of it can be late, none of it twice.
LEMMA OnTimeIsEnough == OnTime => NothingWaitsLong
<1> SUFFICES ASSUME OnTime PROVE NothingWaitsLong
  OBVIOUS
<1>1. /\ Descriptors \in Nat /\ Descriptors = 1 + Cardinality(Sources)
      /\ Cardinality(Sources) \in Nat /\ Idle \in Nat /\ Burst \in Nat
  BY DescriptorsAreFinite, FS_CardinalityType, IntervalsAreShort DEF Descriptors
<1>2. /\ due \in Int /\ since \in Nat /\ waited \in Nat
      /\ socket \in Nat /\ queued \in Nat /\ budget \in Nat
      /\ budget + socket + queued <= Burst
      /\ since + due <= Idle /\ waited + due <= Idle + 1
      /\ (queued + socket = 0) => waited = 0
  BY DEF OnTime, Shape, EventsAreCounted, ClocksAgree, DrainsFirst
<1>3. Handled \in Nat /\ Handled = Burst - (budget + socket + queued)
  BY <1>1, <1>2, SMT DEF Handled
<1>4. due >= 0 - Descriptors - Handled
  <2>1. CASE pc = "select"
    <3>1. due >= 0
      BY <2>1 DEF OnTime, LateByTheTurn
    <3> QED
      BY <1>1, <1>2, <1>3, <3>1, SMT
  <2>2. CASE pc = "serve"
    <3>1. due >= Cardinality(serving) - Descriptors
      BY <2>2 DEF OnTime, LateByTheTurn
    <3>2. Cardinality(serving) \in Nat
      BY ServedFew DEF OnTime, ServesWhatIsThere
    <3> QED
      BY <1>1, <1>2, <1>3, <3>1, <3>2, SMT
  <2>3. CASE pc \in {"drain", "schedule"}
    BY <2>3 DEF OnTime, LateByTheTurn
  <2> QED
    BY <2>1, <2>2, <2>3 DEF OnTime, Shape
<1>5. TickComes
  BY <1>1, <1>2, <1>3, <1>4, SMT DEF TickComes, Turn
<1>6. EventsAreHandled
  <2>1. CASE waited = 0
    BY <1>1, <2>1, SMT DEF EventsAreHandled, Turn
  <2>2. CASE waited # 0
    <3>1. queued + socket >= 1
      BY <1>2, <2>2, SMT
    <3>2. Handled <= Burst - 1
      BY <1>1, <1>2, <1>3, <3>1, SMT
    <3> QED
      BY <1>1, <1>2, <1>3, <1>4, <3>2, SMT DEF EventsAreHandled, Turn
  <2> QED
    BY <2>1, <2>2
<1>7. LoopTypeOK
  <2>1. due \in (0 - MaxLate)..Idle
    BY <1>1, <1>2, <1>3, <1>4, SMT DEF MaxLate
  <2>2. socket \in 0..Burst /\ queued \in 0..Burst /\ budget \in 0..Burst
    BY <1>1, <1>2, SMT
  <2> QED
    BY <2>1, <2>2 DEF LoopTypeOK, OnTime, Shape, ServesWhatIsThere, DrainsFirst
<1> QED
  BY <1>5, <1>6, <1>7 DEF NothingWaitsLong

\* Ticks and X events are never late by more than a turn, however busy the
\* descriptors are and whatever a round trip hides from select() (EventLoop::Run,
\* TickSchedule).
THEOREM NobodyWaitsLong == FairSpec => []NothingWaitsLong
<1>1. FairSpec => []OnTime
  BY StartsOnTime, StepsOnTime, PTL DEF FairSpec
<1> QED
  BY <1>1, OnTimeIsEnough, PTL

(* ------------------------------- counting -------------------------------- *)

\* Counting those before is counting from 0, in order and without a gap.
LEMMA BeforeCounts ==
    ASSUME NEW positions \in SUBSET Nat, IsFiniteSet(positions)
    PROVE  /\ \A i \in positions : Before(positions, i) \in 0..(Cardinality(positions) - 1)
           /\ \A i, k \in positions : i < k => Before(positions, i) < Before(positions, k)
           /\ {Before(positions, i) : i \in positions} = 0..(Cardinality(positions) - 1)
<1> DEFINE earlier(i) == {j \in positions : j < i}
<1>0. Cardinality(positions) \in Nat
  BY FS_CardinalityType
<1>1. ASSUME NEW i \in positions
      PROVE  IsFiniteSet(earlier(i)) /\ Before(positions, i) \in 0..(Cardinality(positions) - 1)
  <2>1. i \in Nat
    OBVIOUS
  <2>2. earlier(i) \in SUBSET (positions \ {i})
    BY <2>1, SMT
  <2>3. IsFiniteSet(positions \ {i}) /\ Cardinality(positions \ {i}) = Cardinality(positions) - 1
    BY FS_RemoveElement
  <2>4. /\ IsFiniteSet(earlier(i)) /\ Cardinality(earlier(i)) \in Nat
        /\ Cardinality(earlier(i)) <= Cardinality(positions) - 1
    <3>1. IsFiniteSet(earlier(i)) /\ Cardinality(earlier(i)) <= Cardinality(positions \ {i})
      BY <2>2, <2>3, FS_Subset
    <3> QED BY <2>3, <3>1, FS_CardinalityType
  <2>5. Before(positions, i) = Cardinality(earlier(i))
    BY DEF Before
  <2> HIDE DEF earlier
  <2> QED BY <1>0, <2>4, <2>5, SMT
<1>2. ASSUME NEW i \in positions, NEW k \in positions, i < k
      PROVE  Before(positions, i) < Before(positions, k)
  <2>1. i \in Nat /\ k \in Nat
    OBVIOUS
  <2>2. i \in earlier(k) /\ earlier(i) \in SUBSET (earlier(k) \ {i})
    <3>1. \A j \in positions : j < i => j < k /\ j # i
      BY <1>2, <2>1, SMT
    <3> QED BY <1>2, <3>1
  <2>3. /\ IsFiniteSet(earlier(k) \ {i})
        /\ Cardinality(earlier(k) \ {i}) = Cardinality(earlier(k)) - 1
    BY <1>1, <2>2, FS_RemoveElement
  <2>4. Cardinality(earlier(i)) <= Cardinality(earlier(k) \ {i})
    BY <2>2, <2>3, FS_Subset
  <2>5. Cardinality(earlier(i)) \in Nat /\ Cardinality(earlier(k)) \in Nat
    BY <1>1, FS_CardinalityType
  <2>6. Before(positions, i) = Cardinality(earlier(i)) /\ Before(positions, k) = Cardinality(earlier(k))
    BY DEF Before
  <2> HIDE DEF earlier
  <2> QED BY <2>3, <2>4, <2>5, <2>6, SMT
<1>3. {Before(positions, i) : i \in positions} = 0..(Cardinality(positions) - 1)
  <2> DEFINE places == 0..(Cardinality(positions) - 1)
             f == [i \in positions |-> Before(positions, i)]
  <2>1. f \in Injection(positions, places)
    <3>1. \A i \in positions : f[i] \in Nat
      <4>1. \A n \in places : n \in Nat
        BY <1>0, SMT
      <4> QED BY <1>1, <4>1
    <3>2. \A i, k \in positions : i # k => i < k \/ k < i
      BY SMT
    <3>3. ASSUME NEW i \in positions, NEW k \in positions, i < k PROVE f[i] # f[k]
      <4>1. f[i] < f[k]
        BY <1>2, <3>3
      <4> QED BY <3>1, <4>1, SMT
    <3>4. \A i, k \in positions : f[i] = f[k] => i = k
      BY <3>2, <3>3
    <3> QED BY <1>1, <3>4 DEF Injection, IsInjective
  <2>2. IsFiniteSet(places) /\ Cardinality(places) = Cardinality(positions)
    <3>1. 0 \in Int /\ Cardinality(positions) - 1 \in Int
      BY <1>0, SMT
    <3>2. /\ IsFiniteSet(places)
          /\ Cardinality(places) = IF 0 > Cardinality(positions) - 1 THEN 0
                                   ELSE (Cardinality(positions) - 1) - 0 + 1
      BY <3>1, FS_Interval
    <3> HIDE DEF places
    <3> QED BY <1>0, <3>2, SMT
  <2>3. f \in Surjection(positions, places)
    BY <2>1, <2>2, FS_Injection
  <2>4. \A place \in places : \E i \in positions : f[i] = place
    BY <2>3 DEF Surjection
  <2> QED BY <1>1, <2>4
<1> QED
  BY <1>1, <1>2, <1>3

\* The positions that are kept can be counted through.
LEMMA NthCounts ==
    ASSUME NEW kept \in SUBSET Nat, IsFiniteSet(kept)
    PROVE  /\ \A n \in 1..Cardinality(kept) : Nth(kept, n) \in kept /\ Before(kept, Nth(kept, n)) = n - 1
           /\ \A n, m \in 1..Cardinality(kept) : n < m => Nth(kept, n) < Nth(kept, m)
           /\ \A i \in kept : \E n \in 1..Cardinality(kept) : Nth(kept, n) = i
<1>0. Cardinality(kept) \in Nat
  BY FS_CardinalityType
<1>1. ASSUME NEW n \in 1..Cardinality(kept)
      PROVE  Nth(kept, n) \in kept /\ Before(kept, Nth(kept, n)) = n - 1
  <2>1. n - 1 \in 0..(Cardinality(kept) - 1)
    BY <1>0, SMT
  <2>2. n - 1 \in {Before(kept, i) : i \in kept}
    BY <2>1, BeforeCounts
  <2> QED BY <2>2 DEF Nth
<1>2. ASSUME NEW i \in kept, NEW k \in kept, Before(kept, i) = Before(kept, k) PROVE i = k
  <2>1. i < k \/ k < i \/ i = k
    BY SMT
  <2>2. Before(kept, i) \in Int
    BY <1>0, BeforeCounts, SMT
  <2>3. ~ (Before(kept, i) < Before(kept, k)) /\ ~ (Before(kept, k) < Before(kept, i))
    BY <1>2, <2>2, SMT
  <2> QED BY <2>1, <2>3, BeforeCounts
<1>3. ASSUME NEW n \in 1..Cardinality(kept), NEW m \in 1..Cardinality(kept), n < m
      PROVE  Nth(kept, n) < Nth(kept, m)
  <2>1. Nth(kept, n) \in Nat /\ Nth(kept, m) \in Nat
    BY <1>1
  <2>2. n - 1 # m - 1 /\ ~ (m - 1 < n - 1)
    BY <1>3, SMT
  <2>3. Nth(kept, n) # Nth(kept, m)
    BY <1>1, <2>2
  <2>4. ~ (Nth(kept, m) < Nth(kept, n))
    BY <1>1, <2>2, BeforeCounts
  <2> QED BY <2>1, <2>3, <2>4, SMT
<1>4. ASSUME NEW i \in kept PROVE \E n \in 1..Cardinality(kept) : Nth(kept, n) = i
  <2>1. Before(kept, i) \in 0..(Cardinality(kept) - 1)
    BY BeforeCounts
  <2>2. PICK n \in 1..Cardinality(kept) : n - 1 = Before(kept, i)
    BY <1>0, <2>1, SMT
  <2> QED BY <1>1, <1>2, <2>2
<1> QED
  BY <1>1, <1>3, <1>4

(* -------------------------------- stacks --------------------------------- *)

Toast == [mon : Monitor, place : Nat, left : Int]

\* The place of a toast is how many older ones its monitor has: no matter what
\* else is in the list, a monitor's stack has neither hole nor overlap.
Stacked(toasts) == \A i \in DOMAIN toasts : toasts[i].place = Older(toasts, i)

LEMMA OnIsFinite ==
    ASSUME NEW toasts \in Seq(Toast), NEW mon
    PROVE  On(toasts, mon) \in SUBSET Nat /\ IsFiniteSet(On(toasts, mon))
<1>1. Len(toasts) \in Nat /\ DOMAIN toasts = 1..Len(toasts)
  BY SMT
<1>2. IsFiniteSet(1..Len(toasts))
  BY <1>1, FS_Interval, SMT
<1>3. On(toasts, mon) \in SUBSET (1..Len(toasts))
  BY <1>1 DEF On
<1>4. (1..Len(toasts)) \subseteq Nat
  BY <1>1, SMT
<1> QED BY <1>2, <1>3, <1>4, FS_Subset

LEMMA StackedIsStack ==
    ASSUME NEW toasts \in Seq(Toast), Stacked(toasts), NEW mon
    PROVE  {toasts[i].place : i \in On(toasts, mon)} = 0..(Cardinality(On(toasts, mon)) - 1)
<1>1. \A i \in On(toasts, mon) : toasts[i].place = Before(On(toasts, mon), i)
  BY DEF Stacked, On, Older
<1>2. {Before(On(toasts, mon), i) : i \in On(toasts, mon)} = 0..(Cardinality(On(toasts, mon)) - 1)
  BY OnIsFinite, BeforeCounts
<1> QED BY <1>1, <1>2

LEMMA OlderIsNat ==
    ASSUME NEW toasts \in Seq(Toast), NEW i \in DOMAIN toasts
    PROVE  Older(toasts, i) \in Nat
<1> DEFINE mine == On(toasts, toasts[i].mon)
<1>1. mine \in SUBSET Nat /\ IsFiniteSet(mine) /\ i \in mine
  BY OnIsFinite DEF On
<1>2. Cardinality(mine) \in Nat
  BY <1>1, FS_CardinalityType
<1> HIDE DEF mine
<1>3. Before(mine, i) \in 0..(Cardinality(mine) - 1)
  BY <1>1, BeforeCounts
<1>4. Before(mine, i) \in Nat
  BY <1>2, <1>3, SMT
<1> QED BY <1>4 DEF Older, mine

\* Toasts that differ in place and age only are stacked alike.
LEMMA OlderAlike ==
    ASSUME NEW toasts \in Seq(Toast), NEW others \in Seq(Toast),
           DOMAIN others = DOMAIN toasts, \A i \in DOMAIN toasts : others[i].mon = toasts[i].mon
    PROVE  \A i \in DOMAIN toasts : Older(others, i) = Older(toasts, i)
<1>1. \A mon : On(others, mon) = On(toasts, mon)
  BY DEF On
<1> QED BY <1>1 DEF Older

LEMMA AgedToasts ==
    ASSUME NEW toasts \in Seq(Toast), NEW time \in Int
    PROVE  /\ Aged(toasts, time) \in Seq(Toast)
           /\ Len(Aged(toasts, time)) = Len(toasts)
           /\ DOMAIN Aged(toasts, time) = DOMAIN toasts
           /\ \A i \in DOMAIN toasts : Aged(toasts, time)[i].left = toasts[i].left - time
           /\ Stacked(toasts) => Stacked(Aged(toasts, time))
<1> DEFINE aged == Aged(toasts, time)
<1>1. DOMAIN aged = DOMAIN toasts
  BY DEF Aged
<1>2. ASSUME NEW i \in DOMAIN toasts
      PROVE  /\ aged[i] \in Toast /\ aged[i].left = toasts[i].left - time
             /\ aged[i].mon = toasts[i].mon /\ aged[i].place = toasts[i].place
  <2>1. toasts[i] \in Toast
    OBVIOUS
  <2>2. aged[i] = [toasts[i] EXCEPT !.left = @ - time]
    BY DEF Aged
  <2>3. toasts[i].left - time \in Int
    BY <2>1, SMT DEF Toast
  <2> HIDE DEF aged
  <2> QED BY <2>1, <2>2, <2>3 DEF Toast
<1>3. aged \in Seq(Toast) /\ Len(aged) = Len(toasts)
  <2>1. Len(toasts) \in Nat /\ DOMAIN toasts = 1..Len(toasts)
    BY SMT
  <2>2. aged = [i \in 1..Len(toasts) |-> aged[i]]
    BY <2>1 DEF Aged
  <2>3. \A i \in 1..Len(toasts) : aged[i] \in Toast
    BY <1>2, <2>1
  <2> HIDE DEF aged
  <2> QED BY <2>1, <2>2, <2>3
<1>4. Stacked(toasts) => Stacked(aged)
  BY <1>1, <1>2, <1>3, OlderAlike DEF Stacked
<1> QED BY <1>1, <1>2, <1>3, <1>4

LEMMA RestackedToasts ==
    ASSUME NEW toasts \in Seq(Toast), NEW mons,
           NEW restacked, RestackMonitor(toasts, mons) = restacked
    PROVE  /\ restacked \in Seq(Toast)
           /\ Len(restacked) = Len(toasts) /\ DOMAIN restacked = DOMAIN toasts
           /\ \A i \in DOMAIN toasts :
                /\ restacked[i].left = toasts[i].left
                /\ toasts[i].mon \in mons => restacked[i].place = Older(restacked, i)
                /\ toasts[i].mon \notin mons => restacked[i].place = toasts[i].place
           /\ \A i \in DOMAIN toasts : restacked[i].mon = toasts[i].mon
<1>1. DOMAIN restacked = DOMAIN toasts
  BY DEF RestackMonitor
<1>2. ASSUME NEW i \in DOMAIN toasts
      PROVE  /\ restacked[i] \in Toast /\ restacked[i].left = toasts[i].left
             /\ restacked[i].mon = toasts[i].mon
             /\ restacked[i].place = IF toasts[i].mon \in mons THEN Older(toasts, i)
                                     ELSE toasts[i].place
  <2>1. toasts[i] \in Toast /\ Older(toasts, i) \in Nat
    BY OlderIsNat
  <2>2. restacked[i] = IF toasts[i].mon \in mons THEN [toasts[i] EXCEPT !.place = Older(toasts, i)]
                       ELSE toasts[i]
    BY DEF RestackMonitor
  <2> QED BY <2>1, <2>2 DEF Toast
<1>3. restacked \in Seq(Toast) /\ Len(restacked) = Len(toasts)
  <2>1. Len(toasts) \in Nat /\ DOMAIN toasts = 1..Len(toasts)
    BY SMT
  <2>2. restacked = [i \in 1..Len(toasts) |-> restacked[i]]
    BY <2>1 DEF RestackMonitor
  <2>3. \A i \in 1..Len(toasts) : restacked[i] \in Toast
    BY <1>2, <2>1
  <2> QED BY <2>1, <2>2, <2>3
<1>4. \A i \in DOMAIN toasts : Older(restacked, i) = Older(toasts, i)
  BY <1>1, <1>2, <1>3, OlderAlike
<1> QED BY <1>1, <1>2, <1>3, <1>4

LEMMA RemainingToasts ==
    ASSUME NEW toasts \in Seq(Toast), NEW kept \in SUBSET DOMAIN toasts
    PROVE  /\ kept \in SUBSET Nat /\ IsFiniteSet(kept) /\ Cardinality(kept) \in Nat
           /\ Remaining(toasts, kept) \in Seq(Toast)
           /\ Len(Remaining(toasts, kept)) = Cardinality(kept)
           /\ DOMAIN Remaining(toasts, kept) = 1..Cardinality(kept)
           /\ \A n \in 1..Cardinality(kept) :
                Nth(kept, n) \in kept /\ Remaining(toasts, kept)[n] = toasts[Nth(kept, n)]
<1>1. Len(toasts) \in Nat /\ DOMAIN toasts = 1..Len(toasts)
  BY SMT
<1>2. IsFiniteSet(1..Len(toasts))
  BY <1>1, FS_Interval, SMT
<1>3. (1..Len(toasts)) \subseteq Nat
  BY <1>1, SMT
<1>4. kept \in SUBSET Nat /\ IsFiniteSet(kept) /\ Cardinality(kept) \in Nat
  BY <1>1, <1>2, <1>3, FS_Subset, FS_CardinalityType
<1>5. \A n \in 1..Cardinality(kept) : Nth(kept, n) \in kept
  BY <1>4, NthCounts
<1>6. \A n \in 1..Cardinality(kept) : toasts[Nth(kept, n)] \in Toast
  BY <1>5
<1> DEFINE remaining == Remaining(toasts, kept)
<1>7. remaining = [n \in 1..Cardinality(kept) |-> toasts[Nth(kept, n)]]
  BY DEF Remaining
<1> HIDE DEF remaining
<1>8. remaining \in Seq(Toast) /\ Len(remaining) = Cardinality(kept)
  BY <1>4, <1>6, <1>7
<1> QED BY <1>4, <1>5, <1>7, <1>8 DEF remaining

\* A monitor that loses no toast keeps its stack, whatever goes elsewhere.
LEMMA OlderRemains ==
    ASSUME NEW toasts \in Seq(Toast), NEW kept \in SUBSET DOMAIN toasts,
           NEW n \in 1..Cardinality(kept), On(toasts, toasts[Nth(kept, n)].mon) \subseteq kept
    PROVE  Older(Remaining(toasts, kept), n) = Older(toasts, Nth(kept, n))
<1> DEFINE remaining == Remaining(toasts, kept)
           mon == toasts[Nth(kept, n)].mon
           new == {m \in On(remaining, mon) : m < n}
           old == {j \in On(toasts, mon) : j < Nth(kept, n)}
           f == [m \in new |-> Nth(kept, m)]
<1>1. /\ kept \in SUBSET Nat /\ IsFiniteSet(kept) /\ Cardinality(kept) \in Nat
      /\ remaining \in Seq(Toast) /\ DOMAIN remaining = 1..Cardinality(kept)
      /\ \A m \in 1..Cardinality(kept) : Nth(kept, m) \in kept /\ remaining[m] = toasts[Nth(kept, m)]
  BY RemainingToasts
<1> HIDE DEF remaining
<1>2. /\ \A i, m \in 1..Cardinality(kept) : i < m => Nth(kept, i) < Nth(kept, m)
      /\ \A i \in kept : \E m \in 1..Cardinality(kept) : Nth(kept, m) = i
  BY <1>1, NthCounts
<1>3. \A i, m \in 1..Cardinality(kept) : i < m \/ m < i \/ i = m
  BY <1>1, SMT
<1>4. new \subseteq 1..Cardinality(kept)
  BY <1>1 DEF On
<1>5. \A m \in new : f[m] \in old
  BY <1>1, <1>2, <1>4 DEF On
<1>6. \A i, m \in new : f[i] = f[m] => i = m
  <2>1. \A i, m \in 1..Cardinality(kept) : i < m => Nth(kept, i) # Nth(kept, m)
    <3>1. \A i, m \in kept : i < m => i # m
      BY <1>1, SMT
    <3> QED BY <1>1, <1>2, <3>1
  <2> QED BY <1>3, <1>4, <2>1
<1>7. \A j \in old : \E m \in new : f[m] = j
  <2> SUFFICES ASSUME NEW j \in old PROVE \E m \in new : f[m] = j
    OBVIOUS
  <2>1. j \in kept /\ j < Nth(kept, n) /\ toasts[j].mon = mon
    BY DEF On
  <2>2. PICK m \in 1..Cardinality(kept) : Nth(kept, m) = j
    BY <1>2, <2>1
  <2>3. ~ (Nth(kept, n) < j) /\ j # Nth(kept, n)
    BY <1>1, <2>1, SMT
  <2>4. m < n
    BY <1>2, <1>3, <2>2, <2>3
  <2>5. m \in new
    BY <1>1, <2>1, <2>2, <2>4 DEF On
  <2> QED BY <2>2, <2>5
<1>8. f \in Bijection(new, old)
  BY <1>5, <1>6, <1>7 DEF Bijection, Injection, Surjection, IsInjective
<1>9. IsFiniteSet(new)
  <2>1. new \in SUBSET On(remaining, mon)
    OBVIOUS
  <2> QED BY <1>1, <2>1, OnIsFinite, FS_Subset
<1>10. Cardinality(old) = Cardinality(new)
  BY <1>8, <1>9, FS_Bijection DEF ExistsBijection
<1> QED BY <1>1, <1>10 DEF Older, Before, remaining

\* Restacking where a toast went is enough.
LEMMA ErasedStacked ==
    ASSUME NEW toasts \in Seq(Toast), Stacked(toasts), NEW kept \in SUBSET DOMAIN toasts,
           NEW mons, \A i \in DOMAIN toasts \ kept : toasts[i].mon \in mons
    PROVE  Stacked(RestackMonitor(Remaining(toasts, kept), mons))
<1> DEFINE remaining == Remaining(toasts, kept)
           restacked == RestackMonitor(remaining, mons)
<1>1. /\ remaining \in Seq(Toast) /\ DOMAIN remaining = 1..Cardinality(kept)
      /\ \A n \in 1..Cardinality(kept) : Nth(kept, n) \in kept /\ remaining[n] = toasts[Nth(kept, n)]
  BY RemainingToasts
<1>2. /\ restacked \in Seq(Toast) /\ DOMAIN restacked = DOMAIN remaining
      /\ \A n \in DOMAIN remaining :
           /\ remaining[n].mon \in mons => restacked[n].place = Older(restacked, n)
           /\ remaining[n].mon \notin mons => restacked[n].place = remaining[n].place
      /\ \A n \in DOMAIN remaining : restacked[n].mon = remaining[n].mon
  <2> HIDE DEF remaining, restacked
  <2>1. RestackMonitor(remaining, mons) = restacked
    BY DEF restacked
  <2>2. remaining \in Seq(Toast)
    BY <1>1
  <2>3. restacked \in Seq(Toast) /\ DOMAIN restacked = DOMAIN remaining
    BY <2>1, <2>2, RestackedToasts
  <2>4. \A n \in DOMAIN remaining : restacked[n].mon = remaining[n].mon
    BY <2>1, <2>2, RestackedToasts
  <2>5. \A n \in DOMAIN remaining :
           /\ remaining[n].mon \in mons => restacked[n].place = Older(restacked, n)
           /\ remaining[n].mon \notin mons => restacked[n].place = remaining[n].place
    BY <2>1, <2>2, RestackedToasts
  <2> QED BY <2>3, <2>4, <2>5
<1>3. \A n \in DOMAIN remaining : Older(restacked, n) = Older(remaining, n)
  <2> HIDE DEF remaining, restacked
  <2> QED BY <1>1, <1>2, OlderAlike
<1> SUFFICES ASSUME NEW n \in DOMAIN remaining PROVE restacked[n].place = Older(restacked, n)
  BY <1>2 DEF Stacked
<1>4. CASE remaining[n].mon \in mons
  BY <1>2, <1>4
<1>5. CASE remaining[n].mon \notin mons
  <2>1. restacked[n].place = toasts[Nth(kept, n)].place /\ Nth(kept, n) \in DOMAIN toasts
    BY <1>1, <1>2, <1>5
  <2>2. On(toasts, toasts[Nth(kept, n)].mon) \subseteq kept
    BY <1>1, <1>5 DEF On
  <2>3. Older(remaining, n) = Older(toasts, Nth(kept, n))
    BY <1>1, <2>2, OlderRemains
  <2> QED BY <1>3, <2>1, <2>3 DEF Stacked
<1> QED BY <1>4, <1>5

(* ---------------------------- Post and Tick ------------------------------ *)

ToastsOK(toasts) == toasts \in Seq(Toast) /\ Stacked(toasts) /\ Len(toasts) <= MaxStacked

Lefts(toasts) == {toasts[i].left : i \in DOMAIN toasts}

LEMMA AgedOK ==
    ASSUME NEW toasts, ToastsOK(toasts), NEW time \in Int
    PROVE  /\ ToastsOK(Aged(toasts, time))
           /\ \A left \in Lefts(Aged(toasts, time)) : \E older \in Lefts(toasts) : left = older - time
<1>1. /\ Aged(toasts, time) \in Seq(Toast)
      /\ Len(Aged(toasts, time)) = Len(toasts)
      /\ DOMAIN Aged(toasts, time) = DOMAIN toasts
      /\ \A i \in DOMAIN toasts : Aged(toasts, time)[i].left = toasts[i].left - time
      /\ Stacked(Aged(toasts, time))
  BY AgedToasts DEF ToastsOK
<1>2. ToastsOK(Aged(toasts, time))
  BY <1>1 DEF ToastsOK
<1> QED BY <1>1, <1>2 DEF Lefts

\* Erasing toasts and restacking where they were.
LEMMA ErasedOK ==
    ASSUME NEW toasts, ToastsOK(toasts), NEW kept \in SUBSET DOMAIN toasts,
           NEW mons, \A i \in DOMAIN toasts \ kept : toasts[i].mon \in mons,
           NEW erased, RestackMonitor(Remaining(toasts, kept), mons) = erased
    PROVE  /\ erased \in Seq(Toast) /\ Stacked(erased)
           /\ Len(erased) = Cardinality(kept) /\ Len(erased) <= Len(toasts)
           /\ \A left \in Lefts(erased) : \E i \in kept : left = toasts[i].left
<1> DEFINE remaining == Remaining(toasts, kept)
<1>0. toasts \in Seq(Toast) /\ Stacked(toasts)
  BY DEF ToastsOK
<1>1. /\ remaining \in Seq(Toast) /\ Len(remaining) = Cardinality(kept)
      /\ DOMAIN remaining = 1..Cardinality(kept)
      /\ \A n \in 1..Cardinality(kept) : Nth(kept, n) \in kept /\ remaining[n] = toasts[Nth(kept, n)]
  BY <1>0, RemainingToasts
<1>2. Stacked(erased)
  BY <1>0, ErasedStacked
<1>3. RestackMonitor(remaining, mons) = erased /\ remaining \in Seq(Toast)
  BY <1>1
<1> HIDE DEF remaining
<1>4. erased \in Seq(Toast) /\ Len(erased) = Len(remaining) /\ DOMAIN erased = DOMAIN remaining
  BY <1>3, RestackedToasts
<1>5. \A i \in DOMAIN remaining : erased[i].left = remaining[i].left
  BY <1>3, RestackedToasts
<1>6. \A left \in Lefts(erased) : \E i \in kept : left = toasts[i].left
  BY <1>1, <1>4, <1>5 DEF Lefts
<1>7. Cardinality(kept) <= Len(toasts)
  <2>1. Len(toasts) \in Nat /\ DOMAIN toasts = 1..Len(toasts)
    BY <1>0, SMT
  <2>2. IsFiniteSet(1..Len(toasts)) /\ Cardinality(1..Len(toasts)) = Len(toasts)
    BY <2>1, FS_Interval, SMT
  <2> QED BY <2>1, <2>2, FS_Subset
<1> QED BY <1>1, <1>2, <1>4, <1>6, <1>7

LEMMA TickedOK ==
    ASSUME ToastsOK(active), NEW ticked, TickToasts = ticked
    PROVE  /\ ToastsOK(ticked)
           /\ \A left \in Lefts(ticked) : left \in Int /\ left > 0 /\ HasActive
<1> DEFINE expired == {i \in DOMAIN active : active[i].left <= 0}
           kept == DOMAIN active \ expired
           mons == {active[i].mon : i \in expired}
<1>1. RestackMonitor(Remaining(active, kept), mons) = ticked
  BY DEF TickToasts
<1>2. kept \in SUBSET DOMAIN active /\ \A i \in DOMAIN active \ kept : active[i].mon \in mons
  OBVIOUS
<1>3. active \in Seq(Toast) /\ Len(active) <= MaxStacked
  BY DEF ToastsOK
<1>4. \A i \in kept : active[i].left \in Int /\ active[i].left > 0 /\ HasActive
  <2> SUFFICES ASSUME NEW i \in kept PROVE active[i].left \in Int /\ active[i].left > 0 /\ HasActive
    OBVIOUS
  <2>1. active[i] \in Toast
    BY <1>3
  <2>2. active[i].left \in Int /\ ~ (active[i].left <= 0)
    BY <2>1 DEF Toast
  <2>3. HasActive
    BY <1>3 DEF HasActive, NoToasts
  <2> QED BY <2>2, <2>3, SMT
<1> HIDE DEF kept, mons
<1>5. /\ ticked \in Seq(Toast) /\ Stacked(ticked) /\ Len(ticked) <= Len(active)
      /\ \A left \in Lefts(ticked) : \E i \in kept : left = active[i].left
  BY <1>1, <1>2, ErasedOK
<1>6. Len(ticked) <= MaxStacked
  BY <1>3, <1>5, ToastAssumption, SMT
<1> QED BY <1>4, <1>5, <1>6 DEF ToastsOK

LEMMA EvictedOK ==
    ASSUME NEW toasts, ToastsOK(toasts), NEW mon, NEW evicted, Evicted(toasts, mon) = evicted
    PROVE  /\ ToastsOK(evicted) /\ Len(evicted) < MaxStacked
           /\ Lefts(evicted) \subseteq Lefts(toasts)
<1>1. CASE Len(toasts) < MaxStacked
  BY <1>1 DEF Evicted, ToastsOK
<1>2. CASE ~ (Len(toasts) < MaxStacked)
  <2>1. /\ toasts \in Seq(Toast) /\ Len(toasts) \in Nat /\ DOMAIN toasts = 1..Len(toasts)
        /\ Len(toasts) = MaxStacked /\ Len(toasts) >= 1
    BY <1>2, ToastAssumption, SMT DEF ToastsOK
  <2> DEFINE kept == 2..Len(toasts)
             mons == {toasts[1].mon}
  <2>2. RestackMonitor(Remaining(toasts, kept), mons) = evicted
    BY <1>2 DEF Evicted
  <2>3. kept \in SUBSET DOMAIN toasts /\ \A i \in DOMAIN toasts \ kept : i = 1
    BY <2>1, SMT
  <2>4. \A i \in DOMAIN toasts \ kept : toasts[i].mon \in mons
    BY <2>3
  <2>5. Cardinality(kept) = Len(toasts) - 1
    BY <2>1, FS_Interval, SMT
  <2> HIDE DEF kept, mons
  <2>6. evicted \in Seq(Toast) /\ Stacked(evicted) /\ Len(evicted) = Cardinality(kept)
    BY <2>2, <2>3, <2>4, ErasedOK
  <2>7. \A left \in Lefts(evicted) : \E i \in kept : left = toasts[i].left
    BY <2>2, <2>3, <2>4, ErasedOK
  <2>8. Len(evicted) < MaxStacked /\ Len(evicted) <= MaxStacked
    BY <2>1, <2>5, <2>6, SMT
  <2>9. Lefts(evicted) \subseteq Lefts(toasts)
    BY <2>3, <2>7 DEF Lefts
  <2> QED BY <2>6, <2>8, <2>9 DEF ToastsOK
<1> QED BY <1>1, <1>2

LEMMA PostedOK ==
    ASSUME NEW toasts, ToastsOK(toasts), NEW mon \in Monitor, NEW posted, Posted(toasts, mon) = posted
    PROVE  ToastsOK(posted) /\ Lefts(posted) \subseteq Lefts(toasts) \cup {Lifetime}
<1> DEFINE kept == Evicted(toasts, mon)
           toast == [mon |-> mon, place |-> Cardinality(On(kept, mon)), left |-> Lifetime]
           last == Len(kept) + 1
<1>1. posted = Append(kept, toast)
  BY DEF Posted
<1>2. ToastsOK(kept) /\ Len(kept) < MaxStacked /\ Lefts(kept) \subseteq Lefts(toasts)
  BY EvictedOK
<1> HIDE DEF kept
<1>3. kept \in Seq(Toast) /\ Len(kept) \in Nat /\ DOMAIN kept = 1..Len(kept) /\ last \in Nat
  BY <1>2, SMT DEF ToastsOK
<1>4. toast \in Toast
  <2>1. IsFiniteSet(On(kept, mon))
    BY <1>3, OnIsFinite
  <2>2. Cardinality(On(kept, mon)) \in Nat
    BY <2>1, FS_CardinalityType
  <2>3. Lifetime \in Int
    BY ToastAssumption, SMT
  <2> QED BY <2>2, <2>3 DEF Toast
<1>5. toast.mon = mon /\ toast.place = Cardinality(On(kept, mon)) /\ toast.left = Lifetime
  OBVIOUS
<1> HIDE DEF toast
<1>6. /\ posted \in Seq(Toast) /\ Len(posted) = last /\ DOMAIN posted = 1..last
      /\ \A i \in 1..Len(kept) : posted[i] = kept[i]
      /\ posted[last] = toast
  BY <1>1, <1>3, <1>4, SMT
<1>7. Len(posted) <= MaxStacked
  BY <1>2, <1>3, <1>6, ToastAssumption, SMT
<1>8. \A i \in 1..last : i \in 1..Len(kept) \/ i = last
  BY <1>3, SMT
<1>9. \A i \in 1..Len(kept) : i \in 1..last /\ i < last /\ ~ (last < i)
  BY <1>3, SMT
<1>10. ~ (last < last)
  BY <1>3, SMT
<1> HIDE DEF last
<1>11. \A m : {j \in On(posted, m) : j < last} = On(kept, m)
  BY <1>3, <1>6, <1>8, <1>9, <1>10 DEF On
<1>12. \A m : \A i \in 1..Len(kept) : {j \in On(posted, m) : j < i} = {j \in On(kept, m) : j < i}
  BY <1>3, <1>6, <1>8, <1>9 DEF On
<1>13. Stacked(posted)
  <2> SUFFICES ASSUME NEW i \in 1..last PROVE posted[i].place = Older(posted, i)
    BY <1>6 DEF Stacked
  <2>1. CASE i \in 1..Len(kept)
    <3>1. Older(posted, i) = Older(kept, i)
      BY <1>6, <1>12, <2>1 DEF Older, Before
    <3> QED BY <1>2, <1>3, <1>6, <2>1, <3>1 DEF ToastsOK, Stacked
  <2>2. CASE i = last
    BY <1>5, <1>6, <1>11, <2>2 DEF Older, Before
  <2> QED BY <1>8, <2>1, <2>2
<1>14. Lefts(posted) \subseteq Lefts(kept) \cup {Lifetime}
  BY <1>3, <1>5, <1>6, <1>8 DEF Lefts
<1> QED BY <1>2, <1>6, <1>7, <1>13, <1>14 DEF ToastsOK

(* ------------------------- toasts go in time ----------------------------- *)

\* The next tick, or the one it is pulled forward to, comes for a toast within
\* the short interval.  Each X event that is handled meanwhile is counted, and
\* makes up for the time it takes.
Reached(left) ==
    /\ left + Handled >= due - Prompt
    /\ pc # "select" => left + Handled >= Cardinality(serving) - Descriptors - Prompt

\* Posted in this turn, while the tick may still be an idle interval away: it has
\* all of its lifetime for the descriptors that are still to be served.
Fresh(left) ==
    /\ pc # "select" /\ Ipc \notin serving
    /\ left + Handled >= Cardinality(serving)

Timely(left) == left \in Int /\ (Reached(left) \/ Fresh(left))

InTime == ToastsOK(active) /\ \A left \in Lefts(active) : Timely(left)

\* What every step's arithmetic is about.
LEMMA Numbers ==
    ASSUME OnTime
    PROVE  /\ due \in Int /\ Handled \in Nat
           /\ Cardinality(serving) \in Nat /\ IsFiniteSet(serving)
           /\ Cardinality(serving) <= Descriptors
           /\ pc # "serve" => serving = {} /\ Cardinality(serving) = 0
           /\ Descriptors \in Nat /\ Prompt \in Nat /\ Lifetime \in Nat
<1>1. due \in Int /\ Handled \in Nat
  BY BoundsAreNumbers, SMT DEF OnTime, Shape, EventsAreCounted, Handled
<1>2. serving \in SUBSET (Sources \cup {Ipc}) /\ (pc # "serve" => serving = {})
  BY DEF OnTime, ServesWhatIsThere
<1>3. /\ Cardinality(serving) \in Nat /\ IsFiniteSet(serving)
      /\ Cardinality(serving) <= Descriptors
  BY <1>2, ServedFew
<1>4. serving = {} => Cardinality(serving) = 0
  BY FS_EmptySet
<1>5. Prompt \in Nat /\ Lifetime \in Nat
  BY LoopAssumption, ToastAssumption
<1> QED BY <1>1, <1>2, <1>3, <1>4, <1>5, DescriptorsAreFinite

\* Time that passes, outside select() or within it, with what is handled meanwhile.
LEMMA TimelyAges ==
    ASSUME OnTime, OnTime', pc' = pc, serving' = serving, NEW cost \in 0..1, due' = due - cost,
           Handled' = Handled + 1 \/ (pc = "select" /\ Handled' = Handled),
           NEW left, Timely(left)
    PROVE  Timely(left - cost)'
<1> USE DEF Timely
<1>1. /\ left \in Int /\ cost \in Int /\ cost <= 1 /\ left - cost \in Int
      /\ Handled \in Int /\ Handled' \in Int /\ due \in Int
      /\ Cardinality(serving) \in Int /\ Descriptors \in Int /\ Prompt \in Int
      /\ Cardinality(serving') = Cardinality(serving) /\ Descriptors' = Descriptors
  BY Numbers, SMT DEF Descriptors
<1>2. pc # "select" => left - cost + Handled' >= left + Handled
  <2>1. Handled' = Handled + 1 => left - cost + Handled' >= left + Handled
    BY <1>1, SMT
  <2> QED BY <2>1
<1>3. CASE Reached(left)
  <2>1. left + Handled >= due - Prompt
    BY <1>3 DEF Reached
  <2>2. due' \in Int /\ due' = due - cost
    BY <1>1, SMT
  <2>3. left - cost + Handled' >= due' - Prompt
    <3>1. CASE Handled' = Handled + 1
      BY <1>1, <2>1, <2>2, <3>1, SMT
    <3>2. CASE Handled' = Handled
      BY <1>1, <2>1, <2>2, <3>2, SMT
    <3> QED BY <3>1, <3>2
  <2>4. pc # "select" => left - cost + Handled' >= Cardinality(serving) - Descriptors - Prompt
    <3> SUFFICES ASSUME pc # "select"
                 PROVE  left - cost + Handled' >= Cardinality(serving) - Descriptors - Prompt
      OBVIOUS
    <3>1. left + Handled >= Cardinality(serving) - Descriptors - Prompt
      BY <1>3 DEF Reached
    <3>2. left - cost + Handled' >= left + Handled
      BY <1>2
    <3> QED BY <1>1, <3>1, <3>2, SMT
  <2> QED BY <1>1, <2>3, <2>4 DEF Reached
<1>4. CASE Fresh(left)
  <2>1. left + Handled >= Cardinality(serving) /\ pc # "select" /\ Ipc \notin serving
    BY <1>4 DEF Fresh
  <2>2. left - cost + Handled' >= left + Handled
    BY <1>2, <2>1
  <2>3. left - cost + Handled' >= Cardinality(serving)
    BY <1>1, <2>1, <2>2, SMT
  <2> QED BY <1>1, <2>1, <2>3 DEF Fresh
<1> QED BY <1>3, <1>4

\* Serving one descriptor takes no more than what its place in the turn allows.
LEMMA TimelyServed ==
    ASSUME OnTime, OnTime', pc = "serve", pc' = pc, NEW some \in serving, serving' = serving \ {some},
           NEW cost \in 0..1, due' = due - cost, Handled' = Handled, NEW left, Timely(left)
    PROVE  Timely(left - cost)'
<1> USE DEF Timely
<1>1. /\ left \in Int /\ cost \in Int /\ cost <= 1 /\ left - cost \in Int
      /\ Handled \in Int /\ due \in Int
      /\ Cardinality(serving) \in Int /\ Descriptors \in Int /\ Prompt \in Int
      /\ Descriptors' = Descriptors
  BY Numbers, SMT DEF Descriptors
<1>2. Cardinality(serving') = Cardinality(serving) - 1
  BY Numbers, FS_RemoveElement
<1>3. CASE Reached(left)
  <2>1. left + Handled >= due - Prompt /\ left + Handled >= Cardinality(serving) - Descriptors - Prompt
    BY <1>3 DEF Reached
  <2>2. left - cost + Handled' >= due' - Prompt
    BY <1>1, <2>1, SMT
  <2>3. left - cost + Handled' >= (Cardinality(serving) - 1) - Descriptors - Prompt
    BY <1>1, <2>1, SMT
  <2> QED BY <1>1, <1>2, <2>2, <2>3 DEF Reached
<1>4. CASE Fresh(left)
  <2>1. left + Handled >= Cardinality(serving) /\ Ipc \notin serving
    BY <1>4 DEF Fresh
  <2>2. left - cost + Handled' >= Cardinality(serving) - 1
    BY <1>1, <2>1, SMT
  <2> QED BY <1>1, <1>2, <2>1, <2>2 DEF Fresh
<1> QED BY <1>3, <1>4

\* The loop goes on to a place where no more is asked of a toast.
LEMMA TimelyGoesOn ==
    ASSUME OnTime, pc # "select", pc' # "select", serving = {}, serving' = {},
           due' = due, Handled' = Handled, NEW left, Timely(left)
    PROVE  Timely(left)'
BY DEF Timely, Reached, Fresh, Descriptors

\* select() is entered with a toast only if the tick is near.
LEMMA TimelyScheduled ==
    ASSUME OnTime, NotYet, HasActive, Handled' = Handled, NEW left, Timely(left)
    PROVE  Timely(left)'
<1>1. /\ pc = "schedule" /\ pc' = "select" /\ due' = PullForward(TickInterval)
      /\ left \in Int /\ Handled \in Int /\ due \in Int /\ Prompt \in Int
      /\ Cardinality(serving) = 0
  BY Numbers, SMT DEF NotYet, Timely
<1>2. TickInterval \in Int /\ TickInterval <= Prompt
  BY LoopAssumption, SMT DEF TickInterval
<1>3. due' \in Int /\ due' <= Prompt /\ due' <= due
  BY <1>1, <1>2, SMT DEF PullForward
<1>4. left + Handled >= due - Prompt \/ left + Handled >= 0
  BY <1>1 DEF Timely, Reached, Fresh
<1>5. left + Handled' >= due' - Prompt
  <2>1. CASE left + Handled >= due - Prompt
    BY <1>1, <1>3, <2>1, SMT
  <2>2. CASE left + Handled >= 0
    BY <1>1, <1>3, <2>2, SMT
  <2> QED BY <1>4, <2>1, <2>2
<1> QED BY <1>1, <1>5 DEF Timely, Reached

LEMMA TimelySelected ==
    ASSUME OnTime, OnTime', SelectReturns, Handled' = Handled, NEW left, Timely(left)
    PROVE  Timely(left)'
<1>1. /\ pc = "select" /\ due' = due /\ due >= 0
      /\ left \in Int /\ Handled \in Int /\ due \in Int /\ Prompt \in Int
      /\ left + Handled >= due - Prompt
  BY Numbers, SMT DEF SelectReturns, Timely, Reached, Fresh, OnTime, LateByTheTurn
<1>2. /\ Cardinality(serving') \in Int /\ Descriptors \in Int /\ Descriptors' = Descriptors
      /\ Cardinality(serving') <= Descriptors
  <2>1. Descriptors' = Descriptors
    BY DEF Descriptors
  <2>2. serving' \in SUBSET (Sources \cup {Ipc})
    BY DEF OnTime, ServesWhatIsThere
  <2>3. Cardinality(serving') \in Nat /\ Cardinality(serving') <= Descriptors
    BY <2>2, ServedFew
  <2> QED BY <2>1, <2>3, Numbers, SMT
<1>3. left + Handled >= Cardinality(serving') - Descriptors - Prompt
  BY <1>1, <1>2, SMT
<1> QED BY <1>1, <1>2, <1>3 DEF Timely, Reached

\* Serving every other descriptor takes no longer than a toast is shown.
Patient == Cardinality(Sources) <= Lifetime

LEMMA SameToastsInTime ==
    ASSUME InTime, active' = active, \A left \in Lefts(active) : Timely(left) => Timely(left)'
    PROVE  InTime'
BY DEF InTime, ToastsOK, Stacked, Older, On, Before, Lefts

LEMMA AgedInTime ==
    ASSUME InTime, NEW cost \in Int, active' = Aged(active, cost),
           \A left \in Lefts(active) : Timely(left) => Timely(left - cost)'
    PROVE  InTime'
<1>1. ToastsOK(active) /\ \A left \in Lefts(active) : Timely(left)
  BY DEF InTime
<1>2. /\ ToastsOK(active')
      /\ \A left \in Lefts(active') : \E older \in Lefts(active) : left = older - cost
  BY <1>1, AgedOK
<1>3. ASSUME NEW left \in Lefts(active') PROVE Timely(left)'
  <2>1. PICK older \in Lefts(active) : left = older - cost
    BY <1>2
  <2> QED BY <1>1, <2>1
<1> QED BY <1>2, <1>3 DEF InTime

LEMMA HandledStays ==
    ASSUME UNCHANGED <<budget, socket, queued>>
    PROVE  Handled' = Handled
BY DEF Handled

LEMMA TripKeepsHandled ==
    ASSUME OnTime, NEW trip \in BOOLEAN, RoundTrip(trip), budget' = budget
    PROVE  Handled' = Handled
<1>1. socket \in Nat /\ queued \in Nat /\ budget \in Nat
  BY DEF OnTime, Shape
<1>2. budget + socket' + queued' = budget + socket + queued
  <2>1. CASE trip
    <3>1. queued' = queued + socket /\ socket' = 0
      BY <2>1 DEF RoundTrip
    <3> QED BY <1>1, <3>1, SMT
  <2>2. CASE ~trip
    BY <2>2 DEF RoundTrip
  <2> QED BY <2>1, <2>2
<1> QED BY <1>2 DEF Handled

LEMMA OutsideInTime ==
    ASSUME OnTime, InTime,
           \/ XArrives
           \/ (\E s \in Sources : SourceReady(s)) \/ (\E c \in Clients : Connect(c))
    PROVE  InTime'
<1>1. UNCHANGED <<pc, due, serving, active>>
  BY DEF XArrives, SourceReady, Connect
<1>2. Handled' = Handled
  <2>1. CASE XArrives
    BY <2>1, BoundsAreNumbers, SMT DEF XArrives, Handled, OnTime, Shape
  <2>2. CASE (\E s \in Sources : SourceReady(s)) \/ (\E c \in Clients : Connect(c))
    BY <2>2, HandledStays DEF SourceReady, Connect, xEvents
  <2> QED BY <2>1, <2>2
<1>3. \A left \in Lefts(active) : Timely(left) => Timely(left)'
  BY <1>1, <1>2 DEF Timely, Reached, Fresh, Descriptors
<1> QED BY <1>1, <1>3, SameToastsInTime

LEMMA HandleXEventInTime ==
    ASSUME OnTime, OnTime', InTime, HandleXEvent PROVE InTime'
<1>1. PICK cost \in 0..1 : Elapse(cost)
  BY DEF HandleXEvent
<1>2. /\ pc' = pc /\ serving' = serving /\ budget' = budget
      /\ queued' = queued + socket - 1 /\ socket' = 0
  BY DEF HandleXEvent
<1>3. Handled' = Handled + 1
  BY <1>2, BoundsAreNumbers, SMT DEF Handled, OnTime, Shape
<1>4. due' = due - cost /\ active' = Aged(active, cost) /\ cost \in Int
  BY <1>1, SMT DEF Elapse
<1>5. \A left \in Lefts(active) : Timely(left) => Timely(left - cost)'
  BY <1>2, <1>3, <1>4, TimelyAges
<1> QED BY <1>4, <1>5, AgedInTime

LEMMA SleepInTime ==
    ASSUME OnTime, OnTime', InTime, Sleep PROVE InTime'
<1>1. /\ pc = "select" /\ pc' = pc /\ serving' = serving
      /\ due' = due - 1 /\ active' = Aged(active, 1)
      /\ UNCHANGED <<budget, socket, queued>>
  BY DEF Sleep, Elapse
<1>2. Handled' = Handled /\ 1 \in 0..1 /\ 1 \in Int
  BY <1>1, HandledStays, SMT
<1>3. \A left \in Lefts(active) : Timely(left) => Timely(left - 1)'
  BY <1>1, <1>2, TimelyAges
<1> QED BY <1>1, <1>2, <1>3, AgedInTime

LEMMA TurnsInTime ==
    ASSUME OnTime, InTime, Drained \/ Served PROVE InTime'
<1>1. /\ pc # "select" /\ pc' # "select" /\ serving = {} /\ serving' = serving
      /\ UNCHANGED <<due, active, budget, socket, queued>>
  BY DEF Drained, Served, xEvents, OnTime, ServesWhatIsThere
<1>2. Handled' = Handled
  BY <1>1, HandledStays
<1>3. \A left \in Lefts(active) : Timely(left) => Timely(left)'
  BY <1>1, <1>2, TimelyGoesOn
<1> QED BY <1>1, <1>3, SameToastsInTime

LEMMA NotYetInTime ==
    ASSUME OnTime, InTime, NotYet PROVE InTime'
<1>1. active' = active /\ UNCHANGED <<budget, socket, queued>>
  BY DEF NotYet, xEvents
<1>2. Handled' = Handled
  BY <1>1, HandledStays
<1>3. ASSUME NEW left \in Lefts(active) PROVE HasActive
  <2>1. DOMAIN active # {}
    BY <1>3 DEF Lefts
  <2> QED BY <2>1, SMT DEF HasActive, NoToasts
<1>4. \A left \in Lefts(active) : Timely(left) => Timely(left)'
  BY <1>2, <1>3, TimelyScheduled
<1> QED BY <1>1, <1>4, SameToastsInTime

LEMMA SelectReturnsInTime ==
    ASSUME OnTime, OnTime', InTime, SelectReturns PROVE InTime'
<1>1. active' = active /\ UNCHANGED <<budget, socket, queued>>
  BY DEF SelectReturns, xEvents
<1>2. \A left \in Lefts(active) : Timely(left) => Timely(left)'
  BY <1>1, HandledStays, TimelySelected
<1> QED BY <1>1, <1>2, SameToastsInTime

LEMMA TickInTime ==
    ASSUME OnTime, OnTime', InTime, Tick PROVE InTime'
<1>1. PICK cost \in 0..1, trip \in BOOLEAN : active' = Aged(TickToasts, cost) /\ RoundTrip(trip)
  BY DEF Tick
<1>2. due' = TickInterval /\ budget' = Burst - (socket + queued) /\ pc' = "select"
  BY DEF Tick
<1> DEFINE ticked == TickToasts
<1>3. /\ ToastsOK(ticked)
      /\ \A left \in Lefts(ticked) : left \in Int /\ left > 0 /\ HasActive
  BY TickedOK DEF InTime
<1>4. active' = Aged(ticked, cost) /\ cost \in Int /\ cost <= 1
  BY <1>1, SMT
<1> HIDE DEF ticked
<1>5. /\ ToastsOK(active')
      /\ \A left \in Lefts(active') : \E older \in Lefts(ticked) : left = older - cost
  BY <1>3, <1>4, AgedOK
<1>6. Handled' = 0
  <2>1. socket \in Nat /\ queued \in Nat /\ Burst \in Nat
    BY BoundsAreNumbers DEF OnTime, Shape
  <2>2. CASE trip
    <3>1. queued' = queued + socket /\ socket' = 0
      BY <1>1, <2>2 DEF RoundTrip
    <3> QED BY <1>2, <2>1, <3>1, SMT DEF Handled
  <2>3. CASE ~trip
    <3>1. queued' = queued /\ socket' = socket
      BY <1>1, <2>3 DEF RoundTrip
    <3> QED BY <1>2, <2>1, <3>1, SMT DEF Handled
  <2> QED BY <2>2, <2>3
<1>7. ASSUME NEW left \in Lefts(active') PROVE Timely(left)'
  <2>1. PICK older \in Lefts(ticked) : left = older - cost
    BY <1>5
  <2>2. older \in Int /\ older > 0 /\ HasActive
    BY <1>3
  <2>3. left \in Int /\ left >= 0
    BY <1>4, <2>1, <2>2, SMT
  <2>4. TickInterval \in Int /\ TickInterval <= Prompt /\ Prompt \in Int
    BY <2>2, LoopAssumption, SMT DEF TickInterval
  <2>5. left + 0 >= TickInterval - Prompt
    BY <2>3, <2>4, SMT
  <2>6. left + Handled' >= due' - Prompt
    BY <1>2, <1>6, <2>5
  <2> QED BY <1>2, <2>3, <2>6 DEF Timely, Reached
<1> QED BY <1>5, <1>7 DEF InTime

LEMMA ServeSourceInTime ==
    ASSUME OnTime, OnTime', InTime, ServeSource PROVE InTime'
<1>1. PICK cost \in 0..1, trip \in BOOLEAN : Elapse(cost) /\ RoundTrip(trip)
  BY DEF ServeSource
<1>2. PICK s \in serving : serving' = serving \ {s}
  BY DEF ServeSource
<1>3. pc = "serve" /\ pc' = pc /\ budget' = budget
  BY DEF ServeSource
<1>4. due' = due - cost /\ active' = Aged(active, cost) /\ cost \in Int
  BY <1>1, SMT DEF Elapse
<1>5. Handled' = Handled
  BY <1>1, <1>3, TripKeepsHandled
<1>6. \A left \in Lefts(active) : Timely(left) => Timely(left - cost)'
  BY <1>2, <1>3, <1>4, <1>5, TimelyServed
<1> QED BY <1>4, <1>6, AgedInTime

LEMMA ServeIpcInTime ==
    ASSUME Patient, OnTime, OnTime', InTime, ServeIpc PROVE InTime'
<1>1. PICK cost \in 0..1, trip \in BOOLEAN :
         /\ due' = due - cost /\ RoundTrip(trip)
         /\ \/ active' = Aged(active, cost)
            \/ \E mon \in Monitor : Post(Aged(active, cost), mon)
  BY DEF ServeIpc
<1>2. pc = "serve" /\ pc' = pc /\ budget' = budget /\ Ipc \in serving /\ serving' = serving \ {Ipc}
  BY DEF ServeIpc
<1>3. Handled' = Handled /\ cost \in Int
  BY <1>1, <1>2, TripKeepsHandled, SMT
<1>4. \A left \in Lefts(active) : Timely(left) => Timely(left - cost)'
  BY <1>1, <1>2, <1>3, TimelyServed
<1> DEFINE aged == Aged(active, cost)
<1>5. /\ ToastsOK(aged)
      /\ \A left \in Lefts(aged) : \E older \in Lefts(active) : left = older - cost
  BY <1>3, AgedOK DEF InTime
<1> HIDE DEF aged
<1>6. \A left \in Lefts(aged) : Timely(left)'
  BY <1>4, <1>5 DEF InTime
<1>7. Timely(Lifetime)'
  <2>1. serving' \in SUBSET Sources
    BY <1>2 DEF OnTime, ServesWhatIsThere
  <2>2. Cardinality(serving') \in Nat /\ Cardinality(serving') <= Cardinality(Sources)
    <3>1. IsFiniteSet(Sources)
      BY LoopAssumption
    <3> QED BY <2>1, <3>1, FS_Subset, FS_CardinalityType
  <2>3. Cardinality(Sources) \in Nat
    BY LoopAssumption, FS_CardinalityType
  <2>4. Lifetime \in Nat /\ Handled \in Nat /\ Lifetime \in Int
    BY Numbers, SMT
  <2>5. Lifetime + Handled >= Cardinality(serving')
    BY <2>2, <2>3, <2>4, SMT DEF Patient
  <2> QED BY <1>2, <1>3, <2>4, <2>5 DEF Timely, Fresh
<1>8. CASE active' = aged
  BY <1>5, <1>6, <1>8 DEF InTime
<1>9. ASSUME NEW mon \in Monitor, Post(aged, mon) PROVE InTime'
  <2>1. CASE active' = Evicted(aged, mon)
    <3>1. ToastsOK(active') /\ Lefts(active') \subseteq Lefts(aged)
      BY <1>5, <2>1, EvictedOK
    <3> QED BY <1>6, <3>1 DEF InTime
  <2>2. CASE active' = Posted(aged, mon)
    <3>1. ToastsOK(active') /\ Lefts(active') \subseteq Lefts(aged) \cup {Lifetime}
      BY <1>5, <2>2, PostedOK
    <3> QED BY <1>6, <1>7, <3>1 DEF InTime
  <2> QED BY <1>9, <2>1, <2>2 DEF Post
<1> QED BY <1>1, <1>8, <1>9 DEF aged

LEMMA StepsInTime ==
    ASSUME Patient, OnTime, OnTime', InTime, [Next]_vars PROVE InTime'
<1>1. CASE LoopNext
  BY <1>1, HandleXEventInTime, TickInTime, NotYetInTime, SelectReturnsInTime, SleepInTime,
     ServeIpcInTime, ServeSourceInTime, TurnsInTime DEF LoopNext
<1>2. CASE UNCHANGED vars
  <2>1. UNCHANGED <<pc, due, serving, active, budget, socket, queued>>
    BY <1>2 DEF vars, xEvents
  <2>2. Handled' = Handled
    BY <2>1, HandledStays
  <2>3. \A left \in Lefts(active) : Timely(left) => Timely(left)'
    BY <2>1, <2>2 DEF Timely, Reached, Fresh, Descriptors
  <2> QED BY <2>1, <2>3, SameToastsInTime
<1> QED BY <1>1, <1>2, OutsideInTime DEF Next

LEMMA StartsInTime == Init => InTime
<1> SUFFICES ASSUME Init PROVE InTime
  OBVIOUS
<1>1. active = <<>>
  BY DEF Init, NoToasts
<1>2. active \in Seq(Toast) /\ Len(active) = 0 /\ DOMAIN active = {}
  BY <1>1, SMT
<1>3. Len(active) <= MaxStacked
  BY <1>2, ToastAssumption, SMT
<1> QED BY <1>2, <1>3 DEF InTime, ToastsOK, Stacked, Lefts

LEMMA InTimeIsEnough == OnTime /\ InTime => ToastsBehave
<1> SUFFICES ASSUME OnTime, InTime PROVE ToastsBehave
  OBVIOUS
<1>1. ToastsOK(active) /\ \A left \in Lefts(active) : Timely(left)
  BY DEF InTime
<1>2. ToastsStack
  BY <1>1, StackedIsStack DEF ToastsOK, ToastsStack
<1>3. ASSUME NEW i \in DOMAIN active PROVE active[i].left >= 0 - (Prompt + Turn)
  <2> DEFINE left == active[i].left
  <2>1. Timely(left)
    BY <1>1 DEF Lefts
  <2> HIDE DEF left
  <2>2. /\ left \in Int /\ due \in Int /\ Handled \in Nat /\ Cardinality(serving) \in Nat
        /\ Descriptors \in Nat /\ Prompt \in Nat /\ Burst \in Nat
    BY <2>1, Numbers, BoundsAreNumbers DEF Timely
  <2>3. Handled <= Burst
    BY <2>2, SMT DEF Handled, OnTime, Shape
  <2>4. Turn = Burst + Descriptors
    <3>1. Cardinality(Sources) \in Nat
      BY LoopAssumption, FS_CardinalityType
    <3> QED BY <2>2, <3>1, SMT DEF Turn, Descriptors
  <2>5. left + Handled >= 0 - Descriptors - Prompt
    <3>1. CASE Fresh(left)
      <4>1. left + Handled >= Cardinality(serving)
        BY <3>1 DEF Fresh
      <4> QED BY <2>2, <4>1, SMT
    <3>2. CASE Reached(left) /\ pc = "select"
      <4>1. left + Handled >= due - Prompt /\ due >= 0
        BY <3>2 DEF Reached, OnTime, LateByTheTurn
      <4> QED BY <2>2, <4>1, SMT
    <3>3. CASE Reached(left) /\ pc # "select"
      <4>1. left + Handled >= Cardinality(serving) - Descriptors - Prompt
        BY <3>3 DEF Reached
      <4> QED BY <2>2, <4>1, SMT
    <3> QED BY <2>1, <3>1, <3>2, <3>3 DEF Timely
  <2>6. left >= 0 - (Prompt + (Burst + Descriptors))
    BY <2>2, <2>3, <2>5, SMT
  <2> QED BY <2>4, <2>6 DEF left
<1> QED BY <1>1, <1>2, <1>3 DEF ToastsBehave, ToastsGoInTime, ToastsOK

\* There are never more toasts than there may be, each monitor's are stacked
\* without hole or overlap, and each goes a turn after its lifetime and the short
\* interval at the latest, however busy the loop is (NotificationCenter::Post,
\* Tick, RestackMonitor; PullForward).
THEOREM ToastsComeAndGo == ASSUME Patient PROVE FairSpec => []ToastsBehave
<1>1. Init => OnTime /\ InTime
  BY StartsOnTime, StartsInTime
<1>2. OnTime /\ [Next]_vars => OnTime'
  BY StepsOnTime
<1>3. OnTime /\ OnTime' /\ InTime /\ [Next]_vars => InTime'
  BY StepsInTime
<1>4. FairSpec => [](OnTime /\ InTime)
  BY <1>1, <1>2, <1>3, PTL DEF FairSpec
<1> QED
  BY <1>4, InTimeIsEnough, PTL

(* ------------------------------- induction ------------------------------- *)

\* Any numbers have a least one.
LEMMA LeastNumber ==
    ASSUME NEW T, T \subseteq Nat, T # {}
    PROVE  \E x \in T : \A y \in T : x <= y
<1>1. PICK x \in T : \A y \in T : <<y, x>> \notin OpToRel(<, Nat)
  BY NatLessThanWellFounded, WFMin
<1>2. \A y \in T : ~(y < x)
  BY <1>1 DEF OpToRel
<1>3. \A y \in T : x <= y
  BY <1>2, SMT
<1> QED
  BY <1>3

LEMMA Induction ==
    ASSUME NEW T \in SUBSET Nat, 0 \in T, \A n \in T : n + 1 \in T
    PROVE  T = Nat
<1>1. SUFFICES ASSUME Nat \ T # {} PROVE FALSE
  OBVIOUS
<1>2. PICK x \in Nat \ T : \A y \in Nat \ T : x <= y
  BY <1>1, LeastNumber
<1>3. x # 0 /\ x - 1 \in Nat
  BY <1>2, SMT
<1>4. x - 1 \in T
  BY <1>2, <1>3, SMT
<1>5. (x - 1) + 1 \in T
  BY <1>4
<1> QED
  BY <1>2, <1>5, SMT

(* --------------------------- one entry per id ---------------------------- *)

\* Entries that share their window class, program or name are of one application.
IsFamily(family, shown) ==
    family \subseteq shown /\ \A a \in family, b \in shown : Alike(a, b) => b \in family

\* No two rows have one id.
OneEach(rows) ==
    \A i, j \in DOMAIN rows : i # j => About[rows[i]].id # About[rows[j]].id

\* Every application an entry of `seen' belongs to has a row.
StandsFor(rows, seen, shown) ==
    \A family : IsFamily(family, shown) /\ family \cap seen # {} =>
        \E i \in DOMAIN rows : rows[i] \in family

WellKept(rows, seen, shown) ==
    rows \in Seq(seen) /\ OneEach(rows) /\ StandsFor(rows, seen, shown)

LEMMA SeqFacts ==
    ASSUME NEW S, NEW s \in Seq(S)
    PROVE  /\ Len(s) \in Nat /\ DOMAIN s = 1..Len(s)
           /\ \A i \in DOMAIN s : s[i] \in S
<1>1. Len(s) \in Nat /\ DOMAIN s = 1..Len(s)
  BY LenProperties
<1> QED
  BY <1>1, ElementOfSeq

LEMMA AppendFacts ==
    ASSUME NEW S, NEW s \in Seq(S), NEW a
    PROVE  /\ Append(s, a) \in Seq(S \cup {a})
           /\ Len(Append(s, a)) = Len(s) + 1
           /\ Append(s, a)[Len(s) + 1] = a
           /\ \A i \in DOMAIN s : Append(s, a)[i] = s[i]
           /\ DOMAIN Append(s, a) = DOMAIN s \cup {Len(s) + 1}
<1>1. s \in Seq(S \cup {a})
  BY SeqMonotonic
<1>2. Len(s) \in Nat /\ DOMAIN s = 1..Len(s)
  BY SeqFacts
<1>3. Append(s, a) \in Seq(S \cup {a})
  BY <1>1
<1>4. Len(Append(s, a)) = Len(s) + 1
  BY <1>1
<1>5. \A i \in 1..(Len(s) + 1) : Append(s, a)[i] = IF i <= Len(s) THEN s[i] ELSE a
  BY <1>1, <1>2, SMT
<1>6. DOMAIN Append(s, a) = 1..(Len(s) + 1)
  BY <1>3, <1>4, SeqFacts
<1>7. 1..(Len(s) + 1) = 1..Len(s) \cup {Len(s) + 1} /\ ~(Len(s) + 1 <= Len(s))
      /\ Len(s) + 1 \in 1..(Len(s) + 1)
  BY <1>2, SMT
<1>8. \A i \in 1..Len(s) : i <= Len(s)
  BY <1>2, SMT
<1> QED
  BY <1>2, <1>3, <1>4, <1>5, <1>6, <1>7, <1>8

LEMMA SwapFacts ==
    ASSUME NEW S, NEW s \in Seq(S), NEW a, NEW new,
           DOMAIN new = DOMAIN s, new \in [DOMAIN new -> S \cup {a}]
    PROVE  new \in Seq(S \cup {a}) /\ Len(new) = Len(s)
<1>1. Len(s) \in Nat /\ DOMAIN s = 1..Len(s)
  BY SeqFacts
<1>2. new \in [1..Len(s) -> S \cup {a}]
  BY <1>1
<1>3. new \in Seq(S \cup {a})
  BY <1>1, <1>2, SeqDef
<1> QED
  BY <1>1, <1>2, <1>3, LenProperties, SMT

LEMMA SameIdAlike ==
    ASSUME NEW a, NEW b, About[a].id = About[b].id
    PROVE  Alike(a, b)
BY DEF Alike

\* What is said of one more entry (DeduplicateByDesktopId).
LEMMA KeptByIdWell ==
    ASSUME NEW shown, NEW seen, seen \subseteq shown, NEW a \in shown,
           NEW kept, WellKept(kept, seen, shown)
    PROVE  WellKept(KeptById(kept, a), seen \cup {a}, shown)
<1> DEFINE same == {i \in DOMAIN kept : About[kept[i]].id = About[a].id}
           new == KeptById(kept, a)
<1>1. kept \in Seq(seen) /\ OneEach(kept) /\ StandsFor(kept, seen, shown)
  BY DEF WellKept
<1>2. Len(kept) \in Nat /\ DOMAIN kept = 1..Len(kept) /\ \A i \in DOMAIN kept : kept[i] \in seen
  BY <1>1, SeqFacts
<1>3. CASE same = {}
  <2>1. new = Append(kept, a)
    BY <1>3 DEF KeptById
  <2>2. /\ new \in Seq(seen \cup {a}) /\ DOMAIN new = DOMAIN kept \cup {Len(kept) + 1}
        /\ new[Len(kept) + 1] = a /\ \A i \in DOMAIN kept : new[i] = kept[i]
    BY <1>1, <2>1, AppendFacts
  <2>3. \A i \in DOMAIN kept : About[kept[i]].id # About[a].id
    BY <1>3
  <2> HIDE DEF new
  <2>4. OneEach(new)
    BY <1>1, <2>2, <2>3 DEF OneEach
  <2>5. StandsFor(new, seen \cup {a}, shown)
    BY <1>1, <2>2 DEF StandsFor
  <2> QED
    BY <2>2, <2>4, <2>5 DEF WellKept, new
<1>4. CASE same # {}
  <2>1. new = [i \in DOMAIN kept |->
                 IF i \in same /\ About[a].dir < About[kept[i]].dir THEN a ELSE kept[i]]
    BY <1>4 DEF KeptById
  <2>2. DOMAIN new = DOMAIN kept /\ \A i \in DOMAIN kept : new[i] = kept[i] \/ (i \in same /\ new[i] = a)
    BY <2>1
  <2>3. new \in [DOMAIN new -> seen \cup {a}]
    BY <1>2, <2>1
  <2> HIDE DEF new
  <2>4. new \in Seq(seen \cup {a})
    BY <1>1, <2>2, <2>3, SwapFacts
  <2>5. \A i \in DOMAIN kept : About[new[i]].id = About[kept[i]].id
    BY <2>2
  <2>6. OneEach(new)
    BY <1>1, <2>2, <2>5 DEF OneEach
  <2>7. ASSUME NEW family, IsFamily(family, shown), family \cap (seen \cup {a}) # {}
        PROVE  \E i \in DOMAIN new : new[i] \in family
    <3>1. \A i \in same : kept[i] \in shown /\ Alike(a, kept[i]) /\ Alike(kept[i], a)
      BY <1>2, SameIdAlike
    <3>2. \A i \in same : a \in family <=> kept[i] \in family
      BY <2>7, <3>1 DEF IsFamily
    <3>3. \A i \in DOMAIN kept : kept[i] \in family => new[i] \in family
      BY <2>2, <3>2
    <3>4. PICK i \in DOMAIN kept : kept[i] \in family
      <4>1. CASE a \in family
        BY <1>4, <3>2, <4>1
      <4>2. CASE a \notin family
        BY <1>1, <2>7, <4>2 DEF StandsFor
      <4> QED
        BY <4>1, <4>2
    <3> QED
      BY <2>2, <3>3, <3>4
  <2>8. StandsFor(new, seen \cup {a}, shown)
    BY <2>7 DEF StandsFor
  <2> QED
    BY <2>4, <2>6, <2>8 DEF WellKept, new
<1> QED
  BY <1>3, <1>4

\* The entries up to a place.
Upto(entries, n) == {entries[m] : m \in 1..n}

LEMMA UptoGrows ==
    ASSUME NEW entries, NEW n \in Nat
    PROVE  Upto(entries, n + 1) = Upto(entries, n) \cup {entries[n + 1]}
<1>1. 1..(n + 1) = 1..n \cup {n + 1}
  BY SMT
<1> QED
  BY <1>1 DEF Upto

LEMMA UptoAll ==
    ASSUME NEW S, NEW entries \in Seq(S)
    PROVE  Upto(entries, Len(entries)) = ToSet(entries)
BY SeqFacts DEF Upto, ToSet

LEMMA UptoSome ==
    ASSUME NEW S, NEW entries \in Seq(S), NEW n \in Nat, n < Len(entries)
    PROVE  Upto(entries, n) \subseteq S /\ n + 1 \in DOMAIN entries /\ entries[n + 1] \in S
<1>1. DOMAIN entries = 1..Len(entries) /\ Len(entries) \in Nat
      /\ \A i \in DOMAIN entries : entries[i] \in S
  BY SeqFacts
<1>2. n + 1 \in 1..Len(entries) /\ 1..n \subseteq 1..Len(entries)
  BY <1>1, SMT
<1> QED
  BY <1>1, <1>2 DEF Upto

IsKept(kept, len, entries) ==
    kept = [n \in 0..len |-> IF n = 0 THEN <<>> ELSE KeptById(kept[n - 1], entries[n])]

LEMMA KeptExists ==
    ASSUME NEW len \in Nat, NEW entries
    PROVE  \E kept : IsKept(kept, len, entries)
<1> DEFINE T == {k \in Nat : \E kept : IsKept(kept, k, entries)}
<1>1. 0 \in T
  <2> DEFINE f == [n \in 0..0 |-> <<>>]
  <2>1. \A n \in 0..0 : n = 0
    BY SMT
  <2>2. IsKept(f, 0, entries)
    BY <2>1 DEF IsKept
  <2> QED
    BY <2>2
<1>2. ASSUME NEW k \in T PROVE k + 1 \in T
  <2>1. k \in Nat /\ k + 1 \in Nat
    OBVIOUS
  <2>2. PICK f : IsKept(f, k, entries)
    OBVIOUS
  <2>3. f = [n \in 0..k |-> IF n = 0 THEN <<>> ELSE KeptById(f[n - 1], entries[n])]
    BY <2>2 DEF IsKept
  <2> DEFINE g == [n \in 0..(k + 1) |-> IF n = k + 1 THEN KeptById(f[k], entries[k + 1]) ELSE f[n]]
  <2>4. ASSUME NEW n \in 0..(k + 1)
        PROVE  g[n] = IF n = 0 THEN <<>> ELSE KeptById(g[n - 1], entries[n])
    <3>1. CASE n = 0
      BY <2>1, <2>3, <3>1, SMT
    <3>2. CASE n # 0 /\ n # k + 1
      BY <2>1, <2>3, <3>2, SMT
    <3>3. CASE n = k + 1
      BY <2>1, <2>3, <3>3, SMT
    <3> QED
      BY <3>1, <3>2, <3>3
  <2>5. IsKept(g, k + 1, entries)
    BY <2>1, <2>4 DEF IsKept
  <2> QED
    BY <2>1, <2>5
<1> HIDE DEF T
<1>3. T = Nat
  <2>1. T \in SUBSET Nat
    BY DEF T
  <2> QED
    BY <2>1, <1>1, <1>2, Induction
<1> QED
  BY <1>3 DEF T

\* One row for each id, and none lost (DeduplicateByDesktopId).
LEMMA ByDesktopIdWell ==
    ASSUME NEW shown, NEW entries \in Seq(shown)
    PROVE  WellKept(DeduplicateByDesktopId(entries), ToSet(entries), shown)
<1>1. Len(entries) \in Nat
  BY SeqFacts
<1> DEFINE kept == CHOOSE f : IsKept(f, Len(entries), entries)
<1>2. IsKept(kept, Len(entries), entries)
  BY <1>1, KeptExists
<1>3. DeduplicateByDesktopId(entries) = kept[Len(entries)]
  BY DEF DeduplicateByDesktopId, IsKept
<1> HIDE DEF kept
<1>4. kept = [n \in 0..Len(entries) |-> IF n = 0 THEN <<>> ELSE KeptById(kept[n - 1], entries[n])]
  BY <1>2 DEF IsKept
<1> DEFINE T == {n \in Nat : n <= Len(entries) => WellKept(kept[n], Upto(entries, n), shown)}
<1>5. 0 \in T
  <2>1. 0 \in 0..Len(entries)
    BY <1>1, SMT
  <2>2. kept[0] = <<>>
    BY <1>4, <2>1
  <2>3. Upto(entries, 0) = {}
    BY SMT DEF Upto
  <2>4. <<>> \in Seq({}) /\ DOMAIN <<>> = {}
    BY EmptySeq
  <2>5. WellKept(<<>>, {}, shown)
    BY <2>4 DEF WellKept, OneEach, StandsFor
  <2> QED
    BY <2>2, <2>3, <2>5
<1>6. ASSUME NEW n \in T PROVE n + 1 \in T
  <2>1. SUFFICES ASSUME n + 1 <= Len(entries)
                 PROVE  WellKept(kept[n + 1], Upto(entries, n + 1), shown)
    OBVIOUS
  <2>2. n \in Nat /\ n < Len(entries) /\ n + 1 \in 0..Len(entries) /\ n + 1 # 0 /\ (n + 1) - 1 = n
    BY <1>1, <2>1, SMT
  <2>3. kept[n + 1] = KeptById(kept[n], entries[n + 1])
    BY <1>4, <2>2
  <2>4. WellKept(kept[n], Upto(entries, n), shown)
    BY <1>1, <2>2, SMT
  <2>5. Upto(entries, n) \subseteq shown /\ entries[n + 1] \in shown
    BY <2>2, UptoSome
  <2> QED
    BY <2>2, <2>3, <2>4, <2>5, KeptByIdWell, UptoGrows
<1>7. T \in SUBSET Nat
  OBVIOUS
<1> HIDE DEF T
<1>8. T = Nat
  BY <1>5, <1>6, <1>7, Induction
<1>9. Len(entries) <= Len(entries)
  BY <1>1, SMT
<1>10. WellKept(kept[Len(entries)], Upto(entries, Len(entries)), shown)
  BY <1>1, <1>8, <1>9 DEF T
<1> QED
  BY <1>3, <1>10, UptoAll

(* ----------------------- one entry per application ----------------------- *)

\* What a row is known by leads to the row of its application.
KeysLead(acc, shown) ==
    \A family : IsFamily(family, shown) =>
        \A key \in DOMAIN acc.at, x \in shown :
            key \in Keys(x) => (x \in family <=> acc.apps[acc.at[key]] \in family)

Recorded(acc, seen, shown) ==
    /\ acc = [apps |-> acc.apps, at |-> acc.at]
    /\ WellKept(acc.apps, seen, shown)
    /\ \A key \in DOMAIN acc.at : acc.at[key] \in DOMAIN acc.apps
    /\ KeysLead(acc, shown)

LEMMA PairFacts ==
    ASSUME NEW i, NEW x
    PROVE  <<i, x>>[1] = i /\ <<i, x>>[2] = x
OBVIOUS

LEMMA KeyIs ==
    ASSUME NEW a, NEW key \in Keys(a)
    PROVE  /\ key[1] \in {1, 2, 3} /\ key[2] # ""
           /\ key[1] = 1 => key[2] = About[a]["class"]
           /\ key[1] = 2 => key[2] = About[a]["exec"]
           /\ key[1] = 3 => key[2] = About[a]["name"]
<1>1. key[2] # "" /\ key \in Fields(a)
  BY DEF Keys
<1>2. \/ key = <<1, About[a]["class"]>>
      \/ key = <<2, About[a]["exec"]>>
      \/ key = <<3, About[a]["name"]>>
  BY <1>1 DEF Fields
<1>3. 1 # 2 /\ 1 # 3 /\ 2 # 3
  BY SMT
<1>4. CASE key = <<1, About[a]["class"]>>
  <2>1. key[1] = 1 /\ key[2] = About[a]["class"]
    BY <1>4, PairFacts, Zenon
  <2> QED
    BY <1>1, <1>3, <2>1, Zenon
<1>5. CASE key = <<2, About[a]["exec"]>>
  <2>1. key[1] = 2 /\ key[2] = About[a]["exec"]
    BY <1>5, PairFacts, Zenon
  <2> QED
    BY <1>1, <1>3, <2>1, Zenon
<1>6. CASE key = <<3, About[a]["name"]>>
  <2>1. key[1] = 3 /\ key[2] = About[a]["name"]
    BY <1>6, PairFacts, Zenon
  <2> QED
    BY <1>1, <1>3, <2>1, Zenon
<1> QED
  BY <1>2, <1>4, <1>5, <1>6

LEMMA SameKeyAlike ==
    ASSUME NEW a, NEW b, NEW key, key \in Keys(a), key \in Keys(b)
    PROVE  Alike(a, b)
<1>1. key[1] \in {1, 2, 3} /\ key[2] # ""
  BY KeyIs
<1>2. \E field \in {"class", "exec", "name"} : key[2] = About[a][field] /\ key[2] = About[b][field]
  <2>1. CASE key[1] = 1
    <3>1. key[2] = About[a]["class"] /\ key[2] = About[b]["class"]
      BY <2>1, KeyIs
    <3> QED
      BY <3>1
  <2>2. CASE key[1] = 2
    <3>1. key[2] = About[a]["exec"] /\ key[2] = About[b]["exec"]
      BY <2>2, KeyIs
    <3> QED
      BY <3>1
  <2>3. CASE key[1] = 3
    <3>1. key[2] = About[a]["name"] /\ key[2] = About[b]["name"]
      BY <2>3, KeyIs
    <3> QED
      BY <3>1
  <2> QED
    BY <1>1, <2>1, <2>2, <2>3
<1>3. \E field \in {"class", "exec", "name"} : About[a][field] = About[b][field] /\ About[a][field] # ""
  BY <1>1, <1>2
<1> QED
  BY <1>3 DEF Alike

\* The first of the keys that are known is one of them.
LEMMA FirstKnown ==
    ASSUME NEW a, NEW known, known \subseteq Keys(a), known # {}
    PROVE  (CHOOSE key \in known : \A other \in known : key[1] <= other[1]) \in known
<1>1. \A key \in known : key[1] \in {1, 2, 3}
  BY KeyIs
<1>2. \E key \in known : \A other \in known : key[1] <= other[1]
  <2> DEFINE ranks == {key[1] : key \in known}
  <2>1. ranks \subseteq Nat /\ ranks # {}
    BY <1>1
  <2>2. PICK least \in ranks : \A rank \in ranks : least <= rank
    BY <2>1, LeastNumber
  <2> QED
    BY <2>2
<1> QED
  BY <1>2

\* What is said of one more entry (DeduplicateAcrossIds): it gets a row, or the
\* row of its application shows the better of the two.
LEMMA AcceptedRecorded ==
    ASSUME NEW shown, NEW seen, seen \subseteq shown, NEW a \in shown,
           \A x \in seen : About[x].id # About[a].id,
           NEW acc, Recorded(acc, seen, shown)
    PROVE  Recorded(Accepted(acc, a), seen \cup {a}, shown)
<1> DEFINE known == Keys(a) \cap DOMAIN acc.at
           first == CHOOSE key \in known : \A other \in known : key[1] <= other[1]
           place == acc.at[first]
           rows == acc.apps
           new == Accepted(acc, a)
<1>1. /\ rows \in Seq(seen) /\ OneEach(rows) /\ StandsFor(rows, seen, shown)
      /\ \A key \in DOMAIN acc.at : acc.at[key] \in DOMAIN rows
      /\ KeysLead(acc, shown)
  BY DEF Recorded, WellKept
<1>2. Len(rows) \in Nat /\ DOMAIN rows = 1..Len(rows) /\ \A i \in DOMAIN rows : rows[i] \in seen
  BY <1>1, SeqFacts
<1>3. CASE known = {}
  <2>1. new = [apps |-> Append(rows, a),
               at |-> [key \in DOMAIN acc.at \cup Keys(a) |->
                         IF key \in DOMAIN acc.at THEN acc.at[key] ELSE Len(rows) + 1]]
    BY <1>3 DEF Accepted
  <2>2. /\ Append(rows, a) \in Seq(seen \cup {a})
        /\ DOMAIN Append(rows, a) = DOMAIN rows \cup {Len(rows) + 1}
        /\ Append(rows, a)[Len(rows) + 1] = a /\ \A i \in DOMAIN rows : Append(rows, a)[i] = rows[i]
    BY <1>1, AppendFacts
  <2>3. /\ new = [apps |-> new.apps, at |-> new.at]
        /\ new.apps \in Seq(seen \cup {a}) /\ DOMAIN new.apps = DOMAIN rows \cup {Len(rows) + 1}
        /\ new.apps[Len(rows) + 1] = a /\ \A i \in DOMAIN rows : new.apps[i] = rows[i]
    BY <2>1, <2>2
  <2>4. /\ DOMAIN new.at = DOMAIN acc.at \cup Keys(a)
        /\ \A key \in DOMAIN acc.at : new.at[key] = acc.at[key]
        /\ \A key \in DOMAIN new.at : key \notin DOMAIN acc.at => key \in Keys(a) /\ new.at[key] = Len(rows) + 1
    BY <2>1
  <2> HIDE DEF new
  <2>5. \A i \in DOMAIN rows : About[rows[i]].id # About[a].id
    BY <1>2
  <2>6. OneEach(new.apps)
    BY <1>1, <2>3, <2>5 DEF OneEach
  <2>7. StandsFor(new.apps, seen \cup {a}, shown)
    BY <1>1, <2>3 DEF StandsFor
  <2>8. \A key \in DOMAIN new.at : new.at[key] \in DOMAIN new.apps
    BY <1>1, <2>3, <2>4
  <2>9. ASSUME NEW family, IsFamily(family, shown), NEW key \in DOMAIN new.at, NEW x \in shown,
               key \in Keys(x)
        PROVE  x \in family <=> new.apps[new.at[key]] \in family
    <3>1. CASE key \in DOMAIN acc.at
      BY <1>1, <2>3, <2>4, <2>9, <3>1 DEF KeysLead
    <3>2. CASE key \notin DOMAIN acc.at
      <4>1. key \in Keys(a) /\ new.apps[new.at[key]] = a
        BY <2>3, <2>4, <3>2
      <4>2. Alike(a, x) /\ Alike(x, a)
        BY <2>9, <4>1, SameKeyAlike
      <4> QED
        BY <2>9, <4>1, <4>2 DEF IsFamily
    <3> QED
      BY <3>1, <3>2
  <2>10. KeysLead(new, shown)
    BY <2>9 DEF KeysLead
  <2>11. WellKept(new.apps, seen \cup {a}, shown)
    BY <2>3, <2>6, <2>7 DEF WellKept
  <2> QED
    BY <2>3, <2>8, <2>10, <2>11 DEF Recorded, new
<1>4. CASE known # {}
  <2>1. first \in known
    BY <1>4, FirstKnown
  <2>2. first \in Keys(a) /\ place \in DOMAIN rows
    BY <1>1, <2>1
  <2>3. new = [acc EXCEPT !.apps[place] = IF IsBetterCandidate(a, @) THEN a ELSE @]
    BY <1>4 DEF Accepted
  <2> HIDE DEF new, first, place
  <2>4. acc = [apps |-> acc.apps, at |-> acc.at]
    BY DEF Recorded
  <2>5. new = [apps |-> [rows EXCEPT ![place] = IF IsBetterCandidate(a, @) THEN a ELSE @],
               at |-> acc.at]
    BY <2>3, <2>4
  <2>6. /\ new = [apps |-> new.apps, at |-> new.at] /\ new.at = acc.at
        /\ new.apps = [rows EXCEPT ![place] = IF IsBetterCandidate(a, @) THEN a ELSE @]
    BY <2>5
  <2>7. /\ DOMAIN new.apps = DOMAIN rows
        /\ \A i \in DOMAIN rows : new.apps[i] = rows[i] \/ (i = place /\ new.apps[i] = a)
    BY <1>2, <2>2, <2>6
  <2>8. new.apps \in [DOMAIN new.apps -> seen \cup {a}]
    BY <1>2, <2>6, <2>7
  <2>9. new.apps \in Seq(seen \cup {a})
    BY <1>1, <2>7, <2>8, SwapFacts
  <2>10. \A i \in DOMAIN rows : About[rows[i]].id # About[a].id
    BY <1>2
  <2>11. OneEach(new.apps)
    BY <1>1, <2>7, <2>10 DEF OneEach
  <2>12. ASSUME NEW family, IsFamily(family, shown)
         PROVE  \A i \in DOMAIN rows : new.apps[i] \in family <=> rows[i] \in family
    <3>1. a \in family <=> rows[place] \in family
      BY <1>1, <2>1, <2>2, <2>12 DEF KeysLead, place
    <3> QED
      BY <2>7, <3>1
  <2>13. ASSUME NEW family, IsFamily(family, shown), family \cap (seen \cup {a}) # {}
         PROVE  \E i \in DOMAIN new.apps : new.apps[i] \in family
    <3>1. a \in family <=> rows[place] \in family
      BY <1>1, <2>1, <2>2, <2>13 DEF KeysLead, place
    <3>2. PICK i \in DOMAIN rows : rows[i] \in family
      <4>1. CASE a \in family
        BY <2>2, <3>1, <4>1
      <4>2. CASE a \notin family
        BY <1>1, <2>13, <4>2 DEF StandsFor
      <4> QED
        BY <4>1, <4>2
    <3> QED
      BY <2>7, <2>12, <2>13, <3>2
  <2>14. StandsFor(new.apps, seen \cup {a}, shown)
    BY <2>13 DEF StandsFor
  <2>15. \A key \in DOMAIN new.at : new.at[key] \in DOMAIN new.apps
    BY <1>1, <2>6, <2>7
  <2>16. KeysLead(new, shown)
    <3>1. ASSUME NEW family, IsFamily(family, shown), NEW key \in DOMAIN acc.at, NEW x \in shown,
                 key \in Keys(x)
          PROVE  x \in family <=> new.apps[acc.at[key]] \in family
      <4>1. acc.at[key] \in DOMAIN rows
        BY <1>1
      <4>2. x \in family <=> rows[acc.at[key]] \in family
        BY <1>1, <3>1 DEF KeysLead
      <4> QED
        BY <2>12, <3>1, <4>1, <4>2
    <3> QED
      BY <2>6, <3>1 DEF KeysLead
  <2>17. WellKept(new.apps, seen \cup {a}, shown)
    BY <2>9, <2>11, <2>14 DEF WellKept
  <2> QED
    BY <2>6, <2>15, <2>16, <2>17 DEF Recorded, new
<1> QED
  BY <1>3, <1>4

NoRecord == [apps |-> <<>>, at |-> <<>>]

IsAccepted(accepted, len, entries) ==
    accepted = [n \in 0..len |-> IF n = 0 THEN [apps |-> <<>>, at |-> <<>>]
                                 ELSE Accepted(accepted[n - 1], entries[n])]

LEMMA AcceptedExists ==
    ASSUME NEW len \in Nat, NEW entries
    PROVE  \E accepted : IsAccepted(accepted, len, entries)
<1> DEFINE T == {k \in Nat : \E accepted : IsAccepted(accepted, k, entries)}
<1>1. 0 \in T
  <2> DEFINE f == [n \in 0..0 |-> NoRecord]
  <2>1. \A n \in 0..0 : n = 0
    BY SMT
  <2>2. IsAccepted(f, 0, entries)
    BY <2>1 DEF IsAccepted, NoRecord
  <2> QED
    BY <2>2
<1>2. ASSUME NEW k \in T PROVE k + 1 \in T
  <2>1. k \in Nat /\ k + 1 \in Nat
    OBVIOUS
  <2>2. PICK f : IsAccepted(f, k, entries)
    OBVIOUS
  <2>3. f = [n \in 0..k |-> IF n = 0 THEN NoRecord ELSE Accepted(f[n - 1], entries[n])]
    BY <2>2 DEF IsAccepted, NoRecord
  <2> DEFINE g == [n \in 0..(k + 1) |-> IF n = k + 1 THEN Accepted(f[k], entries[k + 1]) ELSE f[n]]
  <2>4. ASSUME NEW n \in 0..(k + 1)
        PROVE  g[n] = IF n = 0 THEN NoRecord ELSE Accepted(g[n - 1], entries[n])
    <3>1. CASE n = 0
      BY <2>1, <2>3, <3>1, SMT
    <3>2. CASE n # 0 /\ n # k + 1
      BY <2>1, <2>3, <3>2, SMT
    <3>3. CASE n = k + 1
      BY <2>1, <2>3, <3>3, SMT
    <3> QED
      BY <3>1, <3>2, <3>3
  <2>5. IsAccepted(g, k + 1, entries)
    BY <2>1, <2>4 DEF IsAccepted, NoRecord
  <2> QED
    BY <2>1, <2>5
<1> HIDE DEF T
<1>3. T = Nat
  <2>1. T \in SUBSET Nat
    BY DEF T
  <2> QED
    BY <2>1, <1>1, <1>2, Induction
<1> QED
  BY <1>3 DEF T

LEMMA NothingRecorded ==
    ASSUME NEW shown
    PROVE  Recorded(NoRecord, {}, shown)
<1>1. <<>> \in Seq({}) /\ DOMAIN <<>> = {}
  BY EmptySeq
<1>2. NoRecord.apps = <<>> /\ NoRecord.at = <<>> /\ NoRecord = [apps |-> NoRecord.apps, at |-> NoRecord.at]
  BY DEF NoRecord
<1>3. WellKept(<<>>, {}, shown)
  BY <1>1 DEF WellKept, OneEach, StandsFor
<1> QED
  BY <1>1, <1>2, <1>3 DEF Recorded, KeysLead

\* One row for each application, its ids still its own, and none lost
\* (DeduplicateAcrossIds).
LEMMA AcrossIdsWell ==
    ASSUME NEW shown, NEW entries \in Seq(shown), OneEach(entries)
    PROVE  WellKept(DeduplicateAcrossIds(entries), ToSet(entries), shown)
<1>1. Len(entries) \in Nat /\ DOMAIN entries = 1..Len(entries)
  BY SeqFacts
<1> DEFINE accepted == CHOOSE f : IsAccepted(f, Len(entries), entries)
<1>2. IsAccepted(accepted, Len(entries), entries)
  BY <1>1, AcceptedExists
<1>3. DeduplicateAcrossIds(entries) = accepted[Len(entries)].apps
  BY DEF DeduplicateAcrossIds, IsAccepted
<1> HIDE DEF accepted
<1>4. accepted = [n \in 0..Len(entries) |->
                    IF n = 0 THEN NoRecord ELSE Accepted(accepted[n - 1], entries[n])]
  BY <1>2 DEF IsAccepted, NoRecord
<1> DEFINE T == {n \in Nat : n <= Len(entries) => Recorded(accepted[n], Upto(entries, n), shown)}
<1>5. 0 \in T
  <2>1. 0 \in 0..Len(entries)
    BY <1>1, SMT
  <2>2. accepted[0] = NoRecord
    BY <1>4, <2>1
  <2>3. Upto(entries, 0) = {}
    BY SMT DEF Upto
  <2> QED
    BY <2>2, <2>3, NothingRecorded
<1>6. ASSUME NEW n \in T PROVE n + 1 \in T
  <2>1. SUFFICES ASSUME n + 1 <= Len(entries)
                 PROVE  Recorded(accepted[n + 1], Upto(entries, n + 1), shown)
    OBVIOUS
  <2>2. n \in Nat /\ n < Len(entries) /\ n + 1 \in 0..Len(entries) /\ n + 1 # 0 /\ (n + 1) - 1 = n
    BY <1>1, <2>1, SMT
  <2>3. accepted[n + 1] = Accepted(accepted[n], entries[n + 1])
    BY <1>4, <2>2
  <2>4. Recorded(accepted[n], Upto(entries, n), shown)
    BY <1>1, <2>2, SMT
  <2>5. Upto(entries, n) \subseteq shown /\ entries[n + 1] \in shown /\ n + 1 \in DOMAIN entries
    BY <2>2, UptoSome
  <2>6. \A m \in 1..n : m \in DOMAIN entries /\ m # n + 1
    BY <1>1, <2>2, SMT
  <2>7. \A x \in Upto(entries, n) : About[x].id # About[entries[n + 1]].id
    BY <2>5, <2>6 DEF OneEach, Upto
  <2> QED
    BY <2>2, <2>3, <2>4, <2>5, <2>7, AcceptedRecorded, UptoGrows
<1>7. T \in SUBSET Nat
  OBVIOUS
<1> HIDE DEF T
<1>8. T = Nat
  BY <1>5, <1>6, <1>7, Induction
<1>9. Len(entries) <= Len(entries)
  BY <1>1, SMT
<1>10. Recorded(accepted[Len(entries)], Upto(entries, Len(entries)), shown)
  BY <1>1, <1>8, <1>9 DEF T
<1> QED
  BY <1>3, <1>10, UptoAll DEF Recorded

\* Whatever the directories hold: one entry per id, and no application lost
\* (AppIndex::Build).
LEMMA OrderIsWhole ==
    ASSUME NEW S, IsFiniteSet(S), NEW order \in SetToSeqs(S)
    PROVE  order \in Seq(S) /\ ToSet(order) = S
<1> DEFINE n == Cardinality(S)
<1>1. n \in Nat
  BY FS_CardinalityType
<1>2. order \in [1..n -> S] /\ \A i, j \in 1..n : i # j => order[i] # order[j]
  BY DEF SetToSeqs
<1>3. order \in Seq(S)
  BY <1>1, <1>2, SeqDef
<1>4. order \in Injection(1..n, S)
  BY <1>2 DEF Injection, IsInjective
<1>5. Cardinality(1..n) = n
  BY <1>1, FS_Interval, SMT
<1>6. order \in Surjection(1..n, S)
  BY <1>4, <1>5, FS_Injection
<1>7. \A x \in S : \E i \in 1..n : order[i] = x
  BY <1>6 DEF Surjection
<1> QED
  BY <1>2, <1>3, <1>7 DEF ToSet

Shown(files) == {a \in App : files[a] = "shown"}

LEMMA ShownIsFinite ==
    ASSUME NEW files
    PROVE  IsFiniteSet(Shown(files)) /\ Shown(files) \subseteq App
BY AboutAssumption, FS_Subset DEF Shown

LEMMA BuiltWell ==
    ASSUME NEW files \in Disks, NEW list \in Builds(files)
    PROVE  /\ list \subseteq Shown(files)
           /\ \A a, b \in list : a # b => About[a].id # About[b].id
           /\ \A family : IsFamily(family, Shown(files)) /\ family # {} => family \cap list # {}
<1> DEFINE shown == Shown(files)
<1>1. PICK order \in Orders(files) :
         list = ToSet(DeduplicateAcrossIds(DeduplicateByDesktopId(order)))
  BY DEF Builds
<1>2. order \in SetToSeqs(shown)
  BY DEF Orders, Shown
<1>3. order \in Seq(shown) /\ ToSet(order) = shown
  BY <1>2, ShownIsFinite, OrderIsWhole
<1> DEFINE kept == DeduplicateByDesktopId(order)
           rows == DeduplicateAcrossIds(kept)
<1> HIDE DEF shown
<1>4. WellKept(kept, shown, shown)
  BY <1>3, ByDesktopIdWell
<1>5. kept \in Seq(shown) /\ OneEach(kept)
  BY <1>4 DEF WellKept
<1>6. WellKept(rows, ToSet(kept), shown)
  BY <1>5, AcrossIdsWell
<1>7. list = ToSet(rows)
  BY <1>1
<1> HIDE DEF kept, rows
<1>8. ToSet(kept) \subseteq shown
  BY <1>5, SeqFacts DEF ToSet
<1>9. ToSet(rows) \subseteq ToSet(kept)
  BY <1>6, SeqFacts DEF WellKept, ToSet
<1>10. ASSUME NEW a \in list, NEW b \in list, a # b PROVE About[a].id # About[b].id
  <2>1. PICK i \in DOMAIN rows : a = rows[i]
    BY <1>7 DEF ToSet
  <2>2. PICK j \in DOMAIN rows : b = rows[j]
    BY <1>7 DEF ToSet
  <2> QED
    BY <1>6, <1>10, <2>1, <2>2 DEF WellKept, OneEach
<1>11. ASSUME NEW family, IsFamily(family, shown), family # {}
       PROVE  family \cap list # {}
  <2>1. family \cap shown # {}
    BY <1>11 DEF IsFamily
  <2>2. PICK i \in DOMAIN kept : kept[i] \in family
    BY <1>4, <1>11, <2>1 DEF WellKept, StandsFor
  <2>3. family \cap ToSet(kept) # {}
    BY <2>2 DEF ToSet
  <2>4. PICK j \in DOMAIN rows : rows[j] \in family
    BY <1>6, <1>11, <2>3 DEF WellKept, StandsFor
  <2> QED
    BY <1>7, <2>4 DEF ToSet
<1> QED
  BY <1>7, <1>8, <1>9, <1>10, <1>11 DEF shown

LEMMA EveryListIsWhole ==
    ASSUME NEW files \in Disks
    PROVE  ListsWell[files] /\ Lists[files] = Builds(files) /\ Lists[files] \subseteq SUBSET App
<1>1. Lists[files] = Builds(files)
  BY DEF Lists
<1>2. \A list \in Lists[files] : list \subseteq App
  BY <1>1, BuiltWell, ShownIsFinite
<1> DEFINE shown == {a \in App : files[a] = "shown"}
           Families == {family \in SUBSET shown :
                           \A a \in family, b \in shown : Alike(a, b) => b \in family}
<1>3. ListsWell[files] =
        \A list \in Lists[files] :
              /\ \A a, b \in list : a # b => About[a].id # About[b].id
              /\ \A family \in Families \ {{}} : family \cap list # {}
  BY DEF ListsWell
<1>4. shown = Shown(files)
  BY DEF Shown
<1>5. \A family \in Families : IsFamily(family, Shown(files))
  BY <1>4 DEF IsFamily
<1> HIDE DEF Families
<1>6. \A list \in Lists[files] :
              /\ \A a, b \in list : a # b => About[a].id # About[b].id
              /\ \A family \in Families \ {{}} : family \cap list # {}
  BY <1>1, <1>5, BuiltWell
<1> QED
  BY <1>1, <1>2, <1>3, <1>6

(* ------------------------------- the index ------------------------------- *)

\* A list of what the directories hold, or a change that may go unseen.
Current(list) == list \in Lists[disk] \/ missed \in {"unstamped", "in place", "nested"}

\* What a fresh cache holds, and what the thread has read as long as nothing
\* has changed since.
IndexInv ==
    /\ IndexTypeOK
    /\ IsFresh => Current(cache.apps)
    /\ builder = "scanned" => Current(found)
    /\ builder = "saving" /\ stamp = mtime => Current(found)

\* Where the loop is agrees with the thread and the watch.
LoopInv ==
    /\ loop \in {"down", "starting", "idle", "joining"}
    /\ loop = "down" <=> builder = "none"
    /\ loop \in {"down", "starting"} => watched = {} /\ ~noticed
    /\ open \in BOOLEAN /\ (open => loop # "down")

\* The selection and the scrolled part are inside the rows.
BoxInv ==
    /\ query \in Query /\ matches \in Seq(Row) /\ scroll \in Nat
    /\ selected \in 1..Len(matches) \/ selected = 1
    /\ scroll + Rows <= Len(matches) \/ scroll = 0

LauncherInv == IndexInv /\ LoopInv /\ BoxInv

LEMMA InvIsEnough == LauncherInv => ListIsTrue
<1>1. IndexTypeOK => ListIsWhole
  BY EveryListIsWhole DEF IndexTypeOK, ListIsWhole
<1>2. LauncherInv => LauncherTypeOK
  BY DEF LauncherInv, IndexInv, LoopInv, BoxInv, LauncherTypeOK
<1>3. LauncherInv => FreshIsTrue
  BY DEF LauncherInv, IndexInv, FreshIsTrue, Current
<1> QED
  BY <1>1, <1>2, <1>3 DEF ListIsTrue, LauncherInv, IndexInv

LEMMA IndexStays ==
    ASSUME IndexInv, UNCHANGED indexVars
    PROVE  IndexInv'
BY DEF IndexInv, IndexTypeOK, IsFresh, Current, indexVars, directories, build, watch

LEMMA Times ==
    ASSUME IndexTypeOK
    PROVE  /\ MaxChanges \in Nat /\ changes \in Nat /\ changes <= MaxChanges
           /\ mtime \in Nat /\ 1 <= mtime /\ mtime <= changes + 1
           /\ 0 \in 0..mtime /\ mtime \in 0..mtime
<1>1. changes \in 0..MaxChanges /\ mtime \in 1..(changes + 1)
  BY DEF IndexTypeOK
<1> QED
  BY <1>1, IndexAssumption, SMT

\* A change adds no directory to the watch, and nothing to notice without one.
LEMMA DirectoriesKeepWatch ==
    ASSUME IndexTypeOK, NEW a \in App, DirectoryChanges(a) \/ FileEdited(a)
    PROVE  /\ watched' \subseteq Dirs /\ noticed' \in BOOLEAN
           /\ builder' = builder
           /\ watched = {} /\ ~noticed => watched' = {} /\ ~noticed'
<1>1. watched \subseteq Dirs /\ noticed \in BOOLEAN
  BY DEF IndexTypeOK
<1>2. /\ watched' \subseteq watched /\ builder' = builder
      /\ noticed' = (noticed \/ Watched(a))
  BY DEF DirectoryChanges, FileEdited, WatchKept, build
<1>3. noticed' \in BOOLEAN
  BY <1>1, <1>2 DEF Watched
<1>4. watched = {} => ~Watched(a)
  BY DEF Watched
<1> QED
  BY <1>1, <1>2, <1>3, <1>4

LEMMA DirectoriesKeepIndex ==
    ASSUME IndexInv, DirectoriesNext
    PROVE  IndexInv'
<1>1. IndexTypeOK
  BY DEF IndexInv
<1>2. PICK a \in App : DirectoryChanges(a) \/ FileEdited(a)
  BY DEF DirectoriesNext
<1>3. disk' \in Disks
  BY <1>2 DEF DirectoryChanges, FileEdited, IndexInv, IndexTypeOK, Disks
<1>4. CASE DirectoryChanges(a) /\ a \notin Nested
  <2>1. /\ changes' = changes + 1 /\ mtime' = mtime + 1 /\ changes < MaxChanges
        /\ cache' = cache /\ builder' = builder /\ found' = found /\ stamp' = stamp
        /\ index' = index
    BY <1>4 DEF DirectoryChanges, build
  <2>2. missed' \in {"no", "unstamped", "unwatched", "in place", "nested"}
    BY <1>4 DEF DirectoryChanges
  <2>3. builder = "scanned" => missed' = "unstamped"
    BY <1>4 DEF DirectoryChanges
  <2>4. /\ changes \in 0..MaxChanges /\ mtime \in 1..(changes + 1) /\ stamp \in 0..mtime
        /\ cache \in [stamp : 0..mtime, apps : SUBSET App, whole : BOOLEAN]
    BY DEF IndexInv, IndexTypeOK
  <2>5. /\ changes' \in 0..MaxChanges /\ mtime' \in 1..(changes' + 1) /\ stamp' \in 0..mtime'
        /\ stamp' # mtime' /\ \A t \in 0..mtime : t \in 0..mtime' /\ t # mtime'
    BY <1>1, <2>1, <2>4, Times, SMT
  <2>6. cache' \in [stamp : 0..mtime', apps : SUBSET App, whole : BOOLEAN] /\ cache'.stamp # mtime'
    BY <2>1, <2>4, <2>5
  <2>7. watched' \subseteq Dirs /\ noticed' \in BOOLEAN
    BY <1>1, <1>4, DirectoriesKeepWatch
  <2>8. IndexTypeOK'
    BY <1>3, <2>1, <2>2, <2>5, <2>6, <2>7 DEF IndexInv, IndexTypeOK
  <2> QED
    BY <2>1, <2>3, <2>5, <2>6, <2>8 DEF IndexInv, IsFresh, Current
<1>5. CASE FileEdited(a) \/ (DirectoryChanges(a) /\ a \in Nested)
  <2>1. /\ changes' = changes + 1 /\ mtime' = mtime /\ changes < MaxChanges
        /\ cache' = cache /\ builder' = builder /\ found' = found /\ stamp' = stamp
        /\ index' = index /\ missed' \in {"in place", "nested"}
    BY <1>5 DEF FileEdited, DirectoryChanges, build
  <2>2. /\ MaxChanges \in Nat /\ changes \in Nat /\ mtime \in Nat
        /\ 1 <= mtime /\ mtime <= changes + 1
    BY <1>1, Times
  <2>3. changes + 1 \in 0..MaxChanges /\ mtime \in 1..((changes + 1) + 1)
    <3>1. changes < MaxChanges
      BY <2>1
    <3> QED
      BY <2>2, <3>1, SMT
  <2>4. watched' \subseteq Dirs /\ noticed' \in BOOLEAN
    BY <1>1, <1>5, DirectoriesKeepWatch
  <2>5. IndexTypeOK'
    BY <1>3, <2>1, <2>3, <2>4 DEF IndexInv, IndexTypeOK
  <2> QED
    BY <2>1, <2>5 DEF IndexInv, Current
<1> QED
  BY <1>2, <1>4, <1>5

\* The type of the index after a step of the thread.
LEMMA ThreadTypeOK ==
    ASSUME IndexTypeOK, UNCHANGED <<directories, watch>>,
           builder' \in {"scanning", "scanned", "saving", "publishing", "done"},
           found' \subseteq App, index' \subseteq App, stamp' \in 0..mtime,
           cache' \in [stamp : 0..mtime, apps : SUBSET App, whole : BOOLEAN]
    PROVE  IndexTypeOK'
BY DEF IndexTypeOK, directories, watch

LEMMA BuilderKeepsIndex ==
    ASSUME IndexInv, BuilderNext
    PROVE  IndexInv'
<1>1. UNCHANGED <<directories, watch>> /\ disk' = disk /\ mtime' = mtime /\ missed' = missed
  BY DEF BuilderNext, LooksAtCache, Scans, Stamps, Saves, Publishes, directories, watch
<1>2. IndexTypeOK
  BY DEF IndexInv
<1>3. /\ disk \in Disks /\ mtime \in 0..mtime
      /\ cache \in [stamp : 0..mtime, apps : SUBSET App, whole : BOOLEAN]
      /\ found \subseteq App /\ index \subseteq App /\ stamp \in 0..mtime
  BY <1>2, Times DEF IndexTypeOK
<1>4. NoCache \in [stamp : 0..mtime, apps : SUBSET App, whole : BOOLEAN] /\ NoCache.whole = FALSE
  BY <1>2, Times DEF NoCache
<1>5. CASE LooksAtCache
  <2>1. /\ cache' = cache /\ stamp' = stamp /\ index' = index
        /\ \/ found' = cache.apps /\ builder' = "publishing"
           \/ found' = found /\ builder' = "scanning"
    BY <1>5 DEF LooksAtCache
  <2>2. cache.apps \subseteq App
    BY <1>3
  <2>3. IndexTypeOK'
    BY <1>1, <1>2, <1>3, <2>1, <2>2, ThreadTypeOK
  <2> QED
    BY <1>1, <2>1, <2>3 DEF IndexInv, IsFresh, Current
<1>6. CASE Scans
  <2>1. /\ builder' = "scanned" /\ found' \in Builds(disk)
        /\ cache' = cache /\ stamp' = stamp /\ index' = index
    BY <1>6 DEF Scans
  <2>2. found' \in Lists[disk] /\ found' \subseteq App
    BY <1>3, <2>1, EveryListIsWhole
  <2>3. IndexTypeOK'
    BY <1>1, <1>2, <1>3, <2>1, <2>2, ThreadTypeOK
  <2> QED
    BY <1>1, <2>1, <2>2, <2>3 DEF IndexInv, IsFresh, Current
<1>7. CASE Stamps
  <2>1. /\ builder = "scanned" /\ builder' = "saving" /\ stamp' = mtime /\ cache' \in {NoCache, cache}
        /\ found' = found /\ index' = index
    BY <1>7 DEF Stamps
  <2>2. IndexTypeOK'
    BY <1>1, <1>2, <1>3, <1>4, <2>1, ThreadTypeOK
  <2> QED
    BY <1>1, <1>4, <2>1, <2>2 DEF IndexInv, IsFresh, Current
<1>8. CASE Saves
  <2>1. /\ builder = "saving" /\ builder' = "publishing"
        /\ cache' = cache \/ cache' = [stamp |-> stamp, apps |-> found, whole |-> TRUE]
        /\ found' = found /\ stamp' = stamp /\ index' = index
    BY <1>8 DEF Saves
  <2>2. cache' \in [stamp : 0..mtime, apps : SUBSET App, whole : BOOLEAN]
    <3>1. CASE cache' = cache
      BY <1>3, <3>1
    <3>2. CASE cache' = [stamp |-> stamp, apps |-> found, whole |-> TRUE]
      BY <1>3, <3>2
    <3> QED
      BY <2>1, <3>1, <3>2
  <2>3. IndexTypeOK'
    BY <1>1, <1>2, <1>3, <2>1, <2>2, ThreadTypeOK
  <2>4. IsFresh' => Current(cache.apps)'
    <3>1. CASE cache' = cache
      BY <1>1, <3>1 DEF IndexInv, IsFresh, Current
    <3>2. CASE cache' = [stamp |-> stamp, apps |-> found, whole |-> TRUE]
      BY <1>1, <2>1, <3>2 DEF IndexInv, IsFresh, Current
    <3> QED
      BY <2>1, <3>1, <3>2
  <2> QED
    BY <2>1, <2>3, <2>4 DEF IndexInv
<1>9. CASE Publishes
  <2>1. builder' = "done" /\ index' = found /\ cache' = cache /\ found' = found /\ stamp' = stamp
    BY <1>9 DEF Publishes
  <2>2. IndexTypeOK'
    BY <1>1, <1>2, <1>3, <2>1, ThreadTypeOK
  <2> QED
    BY <1>1, <2>1, <2>2 DEF IndexInv, IsFresh, Current
<1> QED
  BY <1>5, <1>6, <1>7, <1>8, <1>9 DEF BuilderNext

\* The loop starts the thread, which has read nothing yet.
LEMMA StartKeepsIndex ==
    ASSUME IndexInv, builder' = "looking", UNCHANGED <<directories, cache, found, stamp, index, watch>>
    PROVE  IndexInv'
BY DEF IndexInv, IndexTypeOK, IsFresh, Current, directories, watch

\* Only the watch changes, which has nothing to say before it runs.
LEMMA WatchKeepsIndex ==
    ASSUME IndexInv, UNCHANGED <<directories, cache, build>>,
           watched' \subseteq Dirs, noticed' \in BOOLEAN
    PROVE  IndexInv'
BY DEF IndexInv, IndexTypeOK, IsFresh, Current, directories, build

LEMMA EndKeepsIndex ==
    ASSUME IndexInv, Ends
    PROVE  IndexInv'
<1>1. 0 \in 0..mtime
  BY Times DEF IndexInv
<1> QED
  BY <1>1 DEF IndexInv, IndexTypeOK, IsFresh, Current, Ends, directories

(* -------------------------------- the box -------------------------------- *)

LEMMA SeqOfSet ==
    ASSUME NEW S, IsFiniteSet(S)
    PROVE  SetToSeq(S) \in Seq(S)
<1> DEFINE n == Cardinality(S)
<1>1. n \in Nat /\ ExistsBijection(1..n, S)
  BY FS_CardinalityType
<1>2. \E f \in [1..n -> S] : IsInjective(f)
  BY <1>1 DEF ExistsBijection, Bijection, Injection
<1>3. SetToSeq(S) \in [1..n -> S]
  BY <1>2 DEF SetToSeq
<1> QED
  BY <1>1, <1>3, SeqDef

LEMMA RankedRows ==
    ASSUME NEW text \in Query
    PROVE  Ranked(text) \in Seq(Row)
<1> DEFINE apps == Scored(text)
           files == IF text = "" THEN {} ELSE File
           web == IF text # "" /\ apps \cup files = {} THEN {Web} ELSE {}
<1>1. Answers[text] \subseteq App
  BY LauncherAssumption
<1>2. apps \subseteq App /\ IsFiniteSet(apps)
  BY <1>1, AboutAssumption, FS_Subset DEF Scored
<1>3. files \subseteq File /\ IsFiniteSet(files)
  BY LauncherAssumption, FS_EmptySet
<1>4. web \subseteq {Web} /\ IsFiniteSet(web)
  BY FS_EmptySet, FS_Singleton
<1>5. apps \subseteq Row /\ files \subseteq Row /\ web \subseteq Row
  BY <1>2, <1>3, <1>4 DEF Row
<1>6. Ranked(text) = SetToSeq(apps) \o SetToSeq(files) \o SetToSeq(web)
  BY DEF Ranked
<1> HIDE DEF apps, files, web
<1>7. SetToSeq(apps) \in Seq(Row) /\ SetToSeq(files) \in Seq(Row) /\ SetToSeq(web) \in Seq(Row)
  BY <1>2, <1>3, <1>4, <1>5, SeqOfSet, SeqMonotonic
<1> QED
  BY <1>6, <1>7, ConcatProperties

LEMMA UpdatedBox ==
    ASSUME NEW text \in Query, NEW row \in Nat \ {0}, UpdateMatches(text, row), query' \in Query
    PROVE  BoxInv'
<1>1. matches' \in Seq(Row) /\ scroll' = 0 /\ selected' = Clamped(matches', row)
  BY RankedRows DEF UpdateMatches
<1>2. Len(matches') \in Nat
  BY <1>1, LenProperties
<1>3. selected' \in 1..Len(matches') \/ selected' = 1
  BY <1>1, <1>2, SMT DEF Clamped
<1> QED
  BY <1>1, <1>3, SMT DEF BoxInv

LEMMA SelectedIsRow ==
    ASSUME BoxInv
    PROVE  selected \in Nat \ {0} /\ Len(matches) \in Nat /\ Rows \in Nat \ {0} /\ scroll \in Nat
<1>1. Len(matches) \in Nat
  BY LenProperties DEF BoxInv
<1>2. Rows \in Nat \ {0}
  BY LauncherAssumption
<1>3. scroll \in Nat /\ (selected \in 1..Len(matches) \/ selected = 1)
  BY DEF BoxInv
<1> QED
  BY <1>1, <1>2, <1>3, SMT

LEMMA UpKeepsBox == ASSUME BoxInv, Up PROVE BoxInv'
<1>1. /\ selected > 1 /\ selected' = selected - 1 /\ query' = query /\ matches' = matches
      /\ scroll' = IF selected' - 1 < scroll THEN selected' - 1 ELSE scroll
  BY DEF Up
<1>2. /\ selected \in 1..Len(matches) \/ selected = 1
      /\ scroll + Rows <= Len(matches) \/ scroll = 0
  BY DEF BoxInv
<1>3. /\ selected' \in 1..Len(matches) /\ scroll' \in Nat
      /\ scroll' + Rows <= Len(matches) \/ scroll' = 0
  BY <1>1, <1>2, SelectedIsRow, SMT
<1> QED
  BY <1>1, <1>3 DEF BoxInv

LEMMA DownKeepsBox == ASSUME BoxInv, Down PROVE BoxInv'
<1>1. /\ selected < Len(matches) /\ selected' = selected + 1 /\ query' = query /\ matches' = matches
      /\ scroll' = IF selected' > scroll + Rows THEN scroll + 1 ELSE scroll
  BY DEF Down
<1>2. /\ selected \in 1..Len(matches) \/ selected = 1
      /\ scroll + Rows <= Len(matches) \/ scroll = 0
  BY DEF BoxInv
<1>3. /\ selected' \in 1..Len(matches) /\ scroll' \in Nat
      /\ scroll' + Rows <= Len(matches) \/ scroll' = 0
  BY <1>1, <1>2, SelectedIsRow, SMT
<1> QED
  BY <1>1, <1>3 DEF BoxInv

LEMMA WheelKeepsBox == ASSUME BoxInv, Wheel PROVE BoxInv'
<1>1. /\ query' = query /\ matches' = matches /\ selected' = selected
      /\ \/ scroll > 0 /\ scroll' = scroll - 1
         \/ scroll + Rows < Len(matches) /\ scroll' = scroll + 1
  BY DEF Wheel
<1>2. scroll + Rows <= Len(matches) \/ scroll = 0
  BY DEF BoxInv
<1>3. scroll' \in Nat /\ (scroll' + Rows <= Len(matches) \/ scroll' = 0)
  BY <1>1, <1>2, SelectedIsRow, SMT
<1> QED
  BY <1>1, <1>3 DEF BoxInv

(* ------------------------------- every step ------------------------------ *)

LEMMA LauncherStarts == LauncherInit => LauncherInv
<1> SUFFICES ASSUME LauncherInit PROVE LauncherInv
  OBVIOUS
<1>1. 0 \in 0..1 /\ 0 \in 0..MaxChanges /\ 1 \in 1..(0 + 1)
  BY IndexAssumption, SMT
<1>2. IndexTypeOK
  BY <1>1 DEF LauncherInit, IndexInit, IndexTypeOK, NoCache, Disks
<1>3. IndexInv
  BY <1>2 DEF LauncherInit, IndexInit, IndexInv, IsFresh, NoCache
<1>4. LoopInv
  BY DEF LauncherInit, IndexInit, LoopInv
<1>5. BoxInv
  BY LauncherAssumption, EmptySeq DEF LauncherInit, BoxInv
<1> QED
  BY <1>3, <1>4, <1>5 DEF LauncherInv

LEMMA EndKeepsAll == ASSUME LauncherInv, Ends PROVE LauncherInv'
<1>1. IndexInv'
  BY EndKeepsIndex DEF LauncherInv
<1>2. LoopInv'
  BY DEF Ends, LoopInv
<1>3. BoxInv'
  BY LauncherAssumption, EmptySeq DEF Ends, BoxInv
<1> QED
  BY <1>1, <1>2, <1>3 DEF LauncherInv

\* One of the handlers of the event loop.
LEMMA HandlersKeepAll == ASSUME LauncherInv, Handlers PROVE LauncherInv'
<1>1. IndexInv /\ LoopInv /\ BoxInv
  BY DEF LauncherInv
<1>2. CASE HandleAppDirChanged
  <2>1. IndexInv'
    BY <1>1, <1>2, WatchKeepsIndex DEF HandleAppDirChanged, IndexInv, IndexTypeOK
  <2>2. LoopInv'
    BY <1>1, <1>2 DEF HandleAppDirChanged, LoopInv, build, box
  <2>3. BoxInv'
    BY <1>1, <1>2 DEF HandleAppDirChanged, BoxInv, box
  <2> QED
    BY <2>1, <2>2, <2>3 DEF LauncherInv
<1>3. CASE LauncherReload
  <2>1. IndexInv'
    BY <1>1, <1>3, IndexStays DEF LauncherReload
  <2>2. LoopInv'
    BY <1>1, <1>3 DEF LauncherReload, LoopInv, indexVars, build, watch, box
  <2>3. BoxInv'
    BY <1>1, <1>3 DEF LauncherReload, BoxInv, box
  <2> QED
    BY <2>1, <2>2, <2>3 DEF LauncherInv
<1>4. CASE ReloadDesktopEntries
  <2>1. IndexInv'
    BY <1>1, <1>4, StartKeepsIndex DEF ReloadDesktopEntries
  <2>2. LoopInv'
    BY <1>1, <1>4 DEF ReloadDesktopEntries, LoopInv, watch
  <2>3. BoxInv'
    BY <1>1, <1>4, UpdatedBox, SelectedIsRow DEF ReloadDesktopEntries, BoxInv
  <2> QED
    BY <2>1, <2>2, <2>3 DEF LauncherInv
<1>5. CASE Quit
  BY <1>5, EndKeepsAll DEF Quit
<1>6. CASE Open
  <2>1. IndexInv'
    BY <1>1, <1>6, IndexStays DEF Open
  <2>2. LoopInv'
    BY <1>1, <1>6 DEF Open, LoopInv, indexVars, build, watch
  <2>3. 1 \in Nat \ {0}
    BY SMT
  <2>4. BoxInv'
    BY <1>6, <2>3, UpdatedBox, LauncherAssumption DEF Open
  <2> QED
    BY <2>1, <2>2, <2>4 DEF LauncherInv
<1>7. ASSUME InBox PROVE IndexInv' /\ LoopInv'
  <2>1. IndexInv'
    BY <1>1, <1>7, IndexStays DEF InBox
  <2>2. LoopInv'
    BY <1>1, <1>7 DEF InBox, LoopInv, indexVars, build, watch
  <2> QED
    BY <2>1, <2>2
<1>8. CASE ClearLine
  <2>1. BoxInv'
    BY <1>1, <1>8, LauncherAssumption DEF ClearLine, BoxInv
  <2> QED
    BY <1>7, <1>8, <2>1 DEF LauncherInv, ClearLine
<1>9. CASE Up
  BY <1>1, <1>7, <1>9, UpKeepsBox DEF LauncherInv, Up
<1>10. CASE Down
  BY <1>1, <1>7, <1>10, DownKeepsBox DEF LauncherInv, Down
<1>11. CASE Wheel
  BY <1>1, <1>7, <1>11, WheelKeepsBox DEF LauncherInv, Wheel
<1>12. CASE CloseLauncher
  <2>1. IndexInv'
    BY <1>1, <1>12, IndexStays DEF CloseLauncher
  <2>2. LoopInv'
    BY <1>1, <1>12 DEF CloseLauncher, LoopInv, indexVars, build, watch
  <2>3. BoxInv'
    BY <1>1, <1>12 DEF CloseLauncher, BoxInv
  <2> QED
    BY <2>1, <2>2, <2>3 DEF LauncherInv
<1>13. ASSUME NEW text \in Query, Type(text) PROVE LauncherInv'
  <2>1. BoxInv'
    BY <1>1, <1>13, UpdatedBox, SelectedIsRow DEF Type
  <2> QED
    BY <1>7, <1>13, <2>1 DEF LauncherInv, Type
<1> QED
  BY <1>2, <1>3, <1>4, <1>5, <1>6, <1>8, <1>9, <1>10, <1>11, <1>12, <1>13 DEF Handlers

LEMMA LauncherSteps == LauncherInv /\ [LauncherNext]_launcherVars => LauncherInv'
<1> SUFFICES ASSUME LauncherInv, [LauncherNext]_launcherVars PROVE LauncherInv'
  OBVIOUS
<1>1. IndexInv /\ LoopInv /\ BoxInv
  BY DEF LauncherInv
<1>2. CASE Start
  <2>1. IndexInv'
    BY <1>1, <1>2, StartKeepsIndex DEF Start
  <2>2. LoopInv'
    BY <1>1, <1>2 DEF Start, LoopInv, watch, box
  <2>3. BoxInv'
    BY <1>1, <1>2 DEF Start, BoxInv, box
  <2> QED
    BY <2>1, <2>2, <2>3 DEF LauncherInv
<1>3. CASE WatchStarts
  <2>1. IndexInv'
    BY <1>1, <1>3, WatchKeepsIndex DEF WatchStarts, IndexInv, IndexTypeOK, Dirs
  <2>2. LoopInv'
    BY <1>1, <1>3 DEF WatchStarts, LoopInv, build, box
  <2>3. BoxInv'
    BY <1>1, <1>3 DEF WatchStarts, BoxInv, box
  <2> QED
    BY <2>1, <2>2, <2>3 DEF LauncherInv
<1>4. CASE Handlers
  BY <1>4, HandlersKeepAll
<1>5. CASE Crash
  BY <1>5, EndKeepsAll DEF Crash
<1>6. CASE BuilderStep
  <2>1. IndexInv'
    BY <1>1, <1>6, BuilderKeepsIndex DEF BuilderStep
  <2>2. builder # "none" /\ builder' # "none" /\ watched' = watched /\ noticed' = noticed
    BY <1>6 DEF BuilderStep, BuilderNext, LooksAtCache, Scans, Stamps, Saves, Publishes, watch
  <2>3. LoopInv'
    BY <1>1, <1>6, <2>2 DEF BuilderStep, LoopInv, boxVars, box
  <2>4. BoxInv'
    BY <1>1, <1>6 DEF BuilderStep, BoxInv, boxVars, box
  <2> QED
    BY <2>1, <2>3, <2>4 DEF LauncherInv
<1>7. CASE DirectoriesStep
  <2>1. IndexInv'
    BY <1>1, <1>7, DirectoriesKeepIndex DEF DirectoriesStep
  <2>2. builder' = builder /\ (watched = {} /\ ~noticed => watched' = {} /\ ~noticed')
    BY <1>1, <1>7, DirectoriesKeepWatch DEF DirectoriesStep, DirectoriesNext, IndexInv
  <2>3. LoopInv'
    BY <1>1, <1>7, <2>2 DEF DirectoriesStep, LoopInv, boxVars, box
  <2>4. BoxInv'
    BY <1>1, <1>7 DEF DirectoriesStep, BoxInv, boxVars, box
  <2> QED
    BY <2>1, <2>3, <2>4 DEF LauncherInv
<1>8. CASE UNCHANGED launcherVars
  <2>1. IndexInv'
    BY <1>1, <1>8, IndexStays DEF launcherVars
  <2>2. LoopInv'
    BY <1>1, <1>8 DEF launcherVars, boxVars, box, indexVars, build, watch, LoopInv
  <2>3. BoxInv'
    BY <1>1, <1>8 DEF launcherVars, boxVars, box, BoxInv
  <2> QED
    BY <2>1, <2>2, <2>3 DEF LauncherInv
<1> QED
  BY <1>2, <1>3, <1>4, <1>5, <1>6, <1>7, <1>8 DEF LauncherNext

\* The list never holds an id twice and never loses an application, a cache that
\* passes for fresh is the list of what the directories hold, and the selection
\* is inside the rows: for any .desktop files, any changes of the directories
\* while the thread runs, and any crashes (AppIndex::Build, IsFresh, SaveCache;
\* Launcher::UpdateMatches).  The cache may be behind after a change the stamps
\* do not show: an edit in place, a file below an application directory, or one
\* between the reading and the stamps.
THEOREM ListStaysTrue == LauncherSpec => []ListIsTrue
<1>1. LauncherInit => LauncherInv
  BY LauncherStarts
<1>2. LauncherInv /\ [LauncherNext]_launcherVars => LauncherInv'
  BY LauncherSteps
<1>3. LauncherInv => ListIsTrue
  BY InvIsEnough
<1> QED
  BY <1>1, <1>2, <1>3, PTL DEF LauncherSpec
==============================================================================
