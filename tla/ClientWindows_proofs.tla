-------------------------- MODULE ClientWindows_proofs --------------------------
(***************************************************************************)
(* Proofs about clients and WindowManager's event queue, for any set of    *)
(* windows, any of them asking for the tray, and a queue of any length:    *)
(* whatever the order in which clients and Kohiko map, withdraw, hide and  *)
(* destroy windows, a close is noticed (ClosesAreNoticed) and no window is *)
(* lost (NoneIsLost).                                                      *)
(***************************************************************************)
EXTENDS ClientWindows, FiniteSetTheorems, SequenceTheorems, TLAPS

\* Only who has _XEMBED_INFO asks to be docked.
Message == {e \in [type : EventType, win : Window] : e.type = "Dock" => e.win \in Embedders}

----------------------------------------------------------------------------
(***************************************************************************)
(* Counting the unmaps of a window in a queue.                             *)
(***************************************************************************)

UnmapsIn(q, w) == {i \in 1..Len(q) : q[i].win = w /\ q[i].type = "Unmap"}
Count(q, w) == Cardinality(UnmapsIn(q, w))
IsUnmapOf(e, w) == e.win = w /\ e.type = "Unmap"

LEMMA CountIsNat ==
  ASSUME NEW q \in Seq(Message), NEW w
  PROVE  IsFiniteSet(UnmapsIn(q, w)) /\ Count(q, w) \in Nat
<1>1. Len(q) \in Nat
  OBVIOUS
<1>2. IsFiniteSet(1..Len(q))
  BY <1>1, FS_Interval
<1>3. UnmapsIn(q, w) \in SUBSET (1..Len(q))
  BY DEF UnmapsIn
<1>4. IsFiniteSet(UnmapsIn(q, w))
  BY <1>2, <1>3, FS_Subset
<1>5. QED BY <1>4, FS_CardinalityType DEF Count

LEMMA CountAppend ==
  ASSUME NEW q \in Seq(Message), NEW e \in Message, NEW w
  PROVE  Count(Append(q, e), w) = Count(q, w) + (IF IsUnmapOf(e, w) THEN 1 ELSE 0)
<1> DEFINE n == Len(q) + 1
<1>1. Len(Append(q, e)) = n /\ n \notin 1..Len(q) /\ Len(q) \in Nat
  OBVIOUS
<1>2. \A i \in 1..n : Append(q, e)[i] = IF i = n THEN e ELSE q[i]
  OBVIOUS
<1>3. IsFiniteSet(UnmapsIn(q, w)) /\ Count(q, w) \in Nat
  BY CountIsNat
<1>4. CASE IsUnmapOf(e, w)
  <2>1. UnmapsIn(Append(q, e), w) = UnmapsIn(q, w) \cup {n}
    BY <1>1, <1>2, <1>4 DEF UnmapsIn, IsUnmapOf
  <2>2. n \notin UnmapsIn(q, w)
    BY <1>1 DEF UnmapsIn
  <2>3. QED BY <1>3, <1>4, <2>1, <2>2, FS_AddElement DEF Count
<1>5. CASE ~IsUnmapOf(e, w)
  <2>1. UnmapsIn(Append(q, e), w) = UnmapsIn(q, w)
    BY <1>1, <1>2, <1>5 DEF UnmapsIn, IsUnmapOf
  <2>2. QED BY <1>3, <1>5, <2>1 DEF Count
<1>6. QED BY <1>4, <1>5

LEMMA CountTail ==
  ASSUME NEW q \in Seq(Message), q # <<>>, NEW w
  PROVE  Count(q, w) = Count(Tail(q), w) + (IF IsUnmapOf(Head(q), w) THEN 1 ELSE 0)
<1> DEFINE S == UnmapsIn(Tail(q), w)
           T == UnmapsIn(q, w) \ {1}
           f == [i \in S |-> i + 1]
<1>1. /\ Len(q) \in Nat /\ Len(q) >= 1 /\ Len(Tail(q)) = Len(q) - 1 /\ Head(q) = q[1]
      /\ \A i \in 1..(Len(q) - 1) : Tail(q)[i] = q[i + 1]
      /\ Tail(q) \in Seq(Message)
  OBVIOUS
<1>2. \A i \in S : i \in Nat /\ f[i] = i + 1 /\ f[i] \in T
  BY <1>1 DEF UnmapsIn
<1>3. \A j \in T : j - 1 \in S /\ f[j - 1] = j
  BY <1>1 DEF UnmapsIn
<1>4. f \in Bijection(S, T)
  <2>1. f \in Injection(S, T)
    <3>1. \A a, b \in S : f[a] = f[b] => a = b
      BY <1>2
    <3>2. f \in [S -> T]
      BY <1>2
    <3>3. QED BY <3>1, <3>2 DEF Injection, IsInjective
  <2>2. f \in Surjection(S, T)
    BY <1>2, <1>3 DEF Surjection
  <2>3. QED BY <2>1, <2>2 DEF Bijection
<1>5. IsFiniteSet(S) /\ Cardinality(S) = Count(Tail(q), w) /\ Count(Tail(q), w) \in Nat
  BY <1>1, CountIsNat DEF Count
<1>6. Cardinality(T) = Count(Tail(q), w)
  BY <1>4, <1>5, FS_Bijection DEF ExistsBijection
<1>7. IsFiniteSet(UnmapsIn(q, w)) /\ Count(q, w) \in Nat
  BY CountIsNat
<1>8. 1 \in UnmapsIn(q, w) <=> IsUnmapOf(Head(q), w)
  BY <1>1 DEF UnmapsIn, IsUnmapOf
<1>9. Cardinality(T) = IF 1 \in UnmapsIn(q, w) THEN Count(q, w) - 1 ELSE Count(q, w)
  BY <1>7, FS_RemoveElement DEF Count
<1> HIDE DEF T
<1>10. QED BY <1>5, <1>6, <1>7, <1>8, <1>9

LEMMA CountIsUnmaps ==
  ASSUME NEW w
  PROVE  Cardinality(Unmaps(w)) = Count(queue, w)
<1>1. Unmaps(w) = UnmapsIn(queue, w)
  BY DEF Unmaps, Waiting, UnmapsIn
<1>2. QED BY <1>1 DEF Count

----------------------------------------------------------------------------
(***************************************************************************)
(* What is in the queue.                                                   *)
(***************************************************************************)

\* The last that is heard of a dead window is its DestroyNotify.
DestroyIsLast(q, dead) ==
  \A i \in 1..Len(q) : q[i].win \in dead =>
    \E j \in i..Len(q) : q[j] = Event("Destroy", q[i].win)

\* The end of each of these windows is still to be heard of.
Announced(q, gone) == \A w \in gone : \E i \in 1..Len(q) : q[i] = Event("Destroy", w)

\* Only a living window that wants to be shown asks to be mapped.
MapsAreWanted(q, refused) ==
  \A i \in 1..Len(q) : q[i].type = "MapRequest" => q[i].win \notin refused

LEMMA EventIsMessage ==
  ASSUME NEW w \in Window, NEW type \in EventType, type = "Dock" => w \in Embedders
  PROVE  /\ Event(type, w) \in Message
         /\ Event(type, w).win = w /\ Event(type, w).type = type
  BY DEF Event, Message

LEMMA QueueAppends ==
  ASSUME NEW q \in Seq(Message), NEW e \in Message
  PROVE  /\ Append(q, e) \in Seq(Message)
         /\ q \o <<e>> = Append(q, e) /\ q \o <<>> = q
         /\ Len(Append(q, e)) = Len(q) + 1 /\ Append(q, e)[Len(q) + 1] = e
         /\ \A i \in 1..Len(q) : Append(q, e)[i] = q[i]
         /\ Len(q) \in Nat
  OBVIOUS

LEMMA QueueAdvances ==
  ASSUME NEW q \in Seq(Message), q # <<>>
  PROVE  /\ Head(q) \in Message /\ Head(q) = q[1] /\ Tail(q) \in Seq(Message)
         /\ Len(Tail(q)) = Len(q) - 1 /\ \A i \in 1..(Len(q) - 1) : Tail(q)[i] = q[i + 1]
         /\ Len(q) \in Nat /\ Len(q) >= 1
  OBVIOUS

\* Another event does not disturb this, unless it is about a dead window.
LEMMA FactsAppend ==
  ASSUME NEW q \in Seq(Message), NEW e \in Message, NEW dead, NEW gone, NEW refused
  PROVE  /\ DestroyIsLast(q, dead) /\ (e.win \in dead => e = Event("Destroy", e.win))
              => DestroyIsLast(Append(q, e), dead)
         /\ Announced(q, gone) => Announced(Append(q, e), gone)
         /\ MapsAreWanted(q, refused) /\ (e.type = "MapRequest" => e.win \notin refused)
              => MapsAreWanted(Append(q, e), refused)
<1> DEFINE r == Append(q, e)
           n == Len(q) + 1
<1>1. /\ Len(r) = n /\ r[n] = e /\ Len(q) \in Nat /\ \A i \in 1..Len(q) : r[i] = q[i]
  BY QueueAppends
<1>2. ASSUME DestroyIsLast(q, dead), e.win \in dead => e = Event("Destroy", e.win)
      PROVE  DestroyIsLast(r, dead)
  <2> SUFFICES ASSUME NEW i \in 1..n, r[i].win \in dead
               PROVE  \E j \in i..n : r[j] = Event("Destroy", r[i].win)
    BY <1>1 DEF DestroyIsLast
  <2>1. CASE i = n
    BY <1>1, <1>2, <2>1
  <2>2. CASE i # n
    <3>1. i \in 1..Len(q) /\ r[i] = q[i]
      BY <1>1, <2>2
    <3>2. PICK j \in i..Len(q) : q[j] = Event("Destroy", q[i].win)
      BY <1>2, <3>1 DEF DestroyIsLast
    <3>3. j \in i..n /\ r[j] = q[j]
      BY <1>1, <3>1, <3>2
    <3>4. QED BY <3>1, <3>2, <3>3
  <2>3. QED BY <2>1, <2>2
<1>3. ASSUME Announced(q, gone) PROVE Announced(r, gone)
  <2> SUFFICES ASSUME NEW w \in gone PROVE \E i \in 1..n : r[i] = Event("Destroy", w)
    BY <1>1 DEF Announced
  <2>1. PICK i \in 1..Len(q) : q[i] = Event("Destroy", w)
    BY <1>3 DEF Announced
  <2>2. QED BY <1>1, <2>1
<1>4. ASSUME MapsAreWanted(q, refused), e.type = "MapRequest" => e.win \notin refused
      PROVE  MapsAreWanted(r, refused)
  BY <1>1, <1>4 DEF MapsAreWanted
<1>5. QED BY <1>2, <1>3, <1>4

LEMMA FactsTail ==
  ASSUME NEW q \in Seq(Message), q # <<>>, NEW dead, NEW gone, NEW refused
  PROVE  /\ DestroyIsLast(q, dead) => DestroyIsLast(Tail(q), dead)
         /\ Announced(q, gone) /\ (Head(q).type = "Destroy" => Head(q).win \notin gone)
              => Announced(Tail(q), gone)
         /\ DestroyIsLast(q, dead) /\ Head(q).type # "Destroy" /\ Head(q).win \in dead
              => Announced(Tail(q), {Head(q).win})
         /\ MapsAreWanted(q, refused) => MapsAreWanted(Tail(q), refused)
<1> DEFINE r == Tail(q)
           n == Len(q) - 1
<1>1. /\ Len(r) = n /\ Head(q) = q[1] /\ n \in Nat /\ Len(q) = n + 1 /\ \A i \in 1..n : r[i] = q[i + 1]
  BY QueueAdvances
<1> HIDE DEF r, n
<1>2. ASSUME DestroyIsLast(q, dead) PROVE DestroyIsLast(r, dead)
  <2> SUFFICES ASSUME NEW i \in 1..n, r[i].win \in dead
               PROVE  \E j \in i..n : r[j] = Event("Destroy", r[i].win)
    BY <1>1 DEF DestroyIsLast
  <2>1. i + 1 \in 1..Len(q) /\ r[i] = q[i + 1]
    BY <1>1
  <2>2. PICK j \in (i + 1)..Len(q) : q[j] = Event("Destroy", q[i + 1].win)
    BY <1>2, <2>1 DEF DestroyIsLast
  <2>3. j - 1 \in i..n /\ r[j - 1] = q[j]
    BY <1>1, <2>2
  <2>4. QED BY <2>1, <2>2, <2>3
<1>3. ASSUME NEW w, NEW j \in 1..Len(q), q[j] = Event("Destroy", w), j # 1
      PROVE  \E i \in 1..n : r[i] = Event("Destroy", w)
  <2>1. j - 1 \in 1..n /\ r[j - 1] = q[j]
    BY <1>1, <1>3
  <2>2. QED BY <1>3, <2>1
<1>4. ASSUME Announced(q, gone), Head(q).type = "Destroy" => Head(q).win \notin gone
      PROVE  Announced(r, gone)
  <2> SUFFICES ASSUME NEW w \in gone PROVE \E i \in 1..n : r[i] = Event("Destroy", w)
    BY <1>1 DEF Announced
  <2>1. PICK j \in 1..Len(q) : q[j] = Event("Destroy", w)
    BY <1>4 DEF Announced
  <2>2. j # 1
    BY <1>1, <1>4, <2>1 DEF Event
  <2>3. QED BY <1>3, <2>1, <2>2
<1>5. ASSUME DestroyIsLast(q, dead), Head(q).type # "Destroy", Head(q).win \in dead
      PROVE  Announced(r, {Head(q).win})
  <2>1. PICK j \in 1..Len(q) : q[j] = Event("Destroy", q[1].win)
    BY <1>1, <1>5 DEF DestroyIsLast
  <2>2. j # 1
    BY <1>1, <1>5, <2>1 DEF Event
  <2>3. QED BY <1>1, <1>3, <2>1, <2>2 DEF Announced
<1>6. ASSUME MapsAreWanted(q, refused) PROVE MapsAreWanted(r, refused)
  <2> SUFFICES ASSUME NEW i \in 1..n, r[i].type = "MapRequest" PROVE r[i].win \notin refused
    BY <1>1 DEF MapsAreWanted
  <2>1. i + 1 \in 1..Len(q) /\ r[i] = q[i + 1]
    BY <1>1
  <2>2. QED BY <1>6, <2>1 DEF MapsAreWanted
<1>7. QED BY <1>2, <1>4, <1>5, <1>6 DEF r

\* A window that dies says so.
LEMMA FactsDestroy ==
  ASSUME NEW q \in Seq(Message), NEW w \in Window, NEW dead, DestroyIsLast(q, dead),
         NEW gone, Announced(q, gone)
  PROVE  /\ DestroyIsLast(Append(q, Event("Destroy", w)), dead \cup {w})
         /\ Announced(Append(q, Event("Destroy", w)), gone \cup {w})
<1> DEFINE e == Event("Destroy", w)
           r == Append(q, e)
           n == Len(q) + 1
<1>0. e \in Message /\ e.win = w
  BY EventIsMessage DEF EventType
<1>1. Len(r) = n /\ r[n] = e /\ Len(q) \in Nat /\ \A i \in 1..Len(q) : r[i] = q[i]
  BY <1>0, QueueAppends
<1>2. DestroyIsLast(r, dead \cup {w})
  <2> SUFFICES ASSUME NEW i \in 1..n, r[i].win \in dead \cup {w}
               PROVE  \E j \in i..n : r[j] = Event("Destroy", r[i].win)
    BY <1>1 DEF DestroyIsLast
  <2>1. CASE r[i].win = w
    <3>1. n \in i..n
      BY <1>1
    <3>2. QED BY <1>1, <2>1, <3>1
  <2>2. CASE r[i].win # w
    <3>1. i \in 1..Len(q) /\ r[i] = q[i] /\ q[i].win \in dead
      BY <1>0, <1>1, <2>2
    <3>2. PICK j \in i..Len(q) : q[j] = Event("Destroy", q[i].win)
      BY <3>1 DEF DestroyIsLast
    <3>3. j \in i..n /\ r[j] = q[j]
      BY <1>1, <3>1, <3>2
    <3>4. QED BY <3>1, <3>2, <3>3
  <2>3. QED BY <2>1, <2>2
<1>3. Announced(r, gone \cup {w})
  <2>1. Announced(r, gone)
    BY <1>0, FactsAppend
  <2>2. n \in 1..Len(r)
    BY <1>1
  <2>3. QED BY <1>1, <2>1, <2>2 DEF Announced
<1>4. QED BY <1>2, <1>3

----------------------------------------------------------------------------
(***************************************************************************)
(* The parts of the state, and what each handler does to its own.          *)
(***************************************************************************)

ServerOK ==
  /\ viewable \subseteq alive /\ alive \subseteq Window
  /\ inTray \subseteq Embedders /\ wants \subseteq Window

\* Arrange only hides what is managed and not in the scratchpad, and nothing
\* when it is not running.
RepositoryOK ==
  /\ managed \subseteq Window /\ onScreen \subseteq managed
  /\ ignored \in [Window -> Nat]
  /\ scratch \in [win : managed \cup {None}, shown : BOOLEAN]
  /\ arrange \in [todo : SUBSET Window, hiding : Window \cup {None}, phase : {"idle", "hide"}]
  /\ arrange.todo \subseteq managed \ {scratch.win}
  /\ arrange.hiding \in (managed \ {scratch.win}) \cup {None}
  /\ Ready => arrange.hiding = None

\* A window held back is one its client wants to see, unless clients give up
\* waiting for the tray.
DockingOK ==
  /\ pending \subseteq Embedders /\ expired \subseteq pending /\ icons \subseteq Embedders
  /\ icons \cap managed = {}
  /\ GivesUp \/ pending \cap alive \subseteq wants

QueueOK ==
  /\ queue \in Seq(Message)
  /\ DestroyIsLast(queue, Window \ alive)
  /\ Announced(queue, (managed \cup pending) \ alive)
  /\ MapsAreWanted(queue, alive \ wants)

Tidy == ServerOK /\ RepositoryOK /\ DockingOK /\ QueueOK

LEMMA ArrangeStartsRight ==
  ASSUME ArrangeStarts, managed' \subseteq Window
  PROVE  /\ arrange' \in [todo : SUBSET Window, hiding : Window \cup {None}, phase : {"idle", "hide"}]
         /\ arrange'.todo \subseteq managed' \ {scratch'.win}
         /\ arrange'.hiding = None /\ ~Ready'
  BY DEF ArrangeStarts, Ready

LEMMA ManageRepository ==
  ASSUME RepositoryOK, NEW w \in Window, NEW shown, Manage(w, shown)
  PROVE  RepositoryOK'
<1>1. managed' \subseteq Window /\ managed \subseteq managed'
  BY DEF RepositoryOK, Manage
<1>2. onScreen' \subseteq managed'
  BY DEF RepositoryOK, Manage
<1>3. QED BY <1>1, <1>2, ArrangeStartsRight DEF RepositoryOK, Manage

LEMMA UnmanageRepository ==
  ASSUME RepositoryOK, NEW w \in Window, Unmanage(w)
  PROVE  RepositoryOK'
<1>1. managed' \subseteq Window /\ onScreen' \subseteq managed'
  BY DEF RepositoryOK, Unmanage
<1>2. scratch' \in [win : managed' \cup {None}, shown : BOOLEAN]
  BY DEF RepositoryOK, Unmanage, Forgotten, NoScratch
<1>3. QED BY <1>1, <1>2, ArrangeStartsRight DEF RepositoryOK, Unmanage

LEMMA IgnoreRepository ==
  ASSUME RepositoryOK, Ignore
  PROVE  RepositoryOK'
  BY DEF RepositoryOK, Ignore, Ready

\* What WindowManager adds to the queue is about living windows.
LEMMA QueueKept ==
  ASSUME QueueOK, ServerOK, UNCHANGED <<alive, wants>>,
         queue' = queue \/ \E w \in alive : queue' = Append(queue, Event("Unmap", w)),
         managed' \cup pending' \subseteq managed \cup pending \cup alive
  PROVE  QueueOK'
<1>1. (managed' \cup pending') \ alive' \subseteq (managed \cup pending) \ alive
  OBVIOUS
<1>2. CASE queue' = queue
  BY <1>1, <1>2 DEF QueueOK, Announced
<1>3. ASSUME NEW w \in alive, queue' = Append(queue, Event("Unmap", w)) PROVE QueueOK'
  <2>1. /\ Event("Unmap", w) \in Message /\ Event("Unmap", w).win = w
        /\ Event("Unmap", w).type = "Unmap"
    BY EventIsMessage DEF ServerOK, EventType
  <2>2. DestroyIsLast(queue', Window \ alive) /\ MapsAreWanted(queue', alive \ wants)
    BY <1>3, <2>1, FactsAppend DEF QueueOK
  <2>3. Announced(queue', (managed \cup pending) \ alive)
    BY <1>3, <2>1, FactsAppend DEF QueueOK
  <2>4. Announced(queue', (managed' \cup pending') \ alive')
    BY <1>1, <2>3 DEF Announced
  <2>5. queue' \in Seq(Message)
    BY <1>3, <2>1, QueueAppends DEF QueueOK
  <2>6. QED BY <2>2, <2>4, <2>5 DEF QueueOK
<1>4. QED BY <1>2, <1>3

----------------------------------------------------------------------------
(***************************************************************************)
(* Clients.                                                                *)
(***************************************************************************)

LEMMA WMUntouched ==
  ASSUME Tidy, UNCHANGED WMVars, ServerOK', QueueOK', GivesUp \/ pending \cap alive' \subseteq wants'
  PROVE  Tidy'
  BY DEF Tidy, WMVars, docking, RepositoryOK, DockingOK, Ready

LEMMA ClientMapTidy ==
  ASSUME Tidy, NEW w \in Window, ClientMap(w)
  PROVE  Tidy'
<1> USE DEF Tidy
<1>1. /\ w \in alive /\ wants' = wants \cup {w} /\ UNCHANGED <<alive, viewable, inTray, WMVars>>
      /\ queue' = queue \/ queue' = Append(queue, Event("MapRequest", w))
  BY DEF ClientMap
<1>2. /\ Event("MapRequest", w) \in Message /\ Event("MapRequest", w).win = w
  BY EventIsMessage DEF EventType
<1>3. MapsAreWanted(queue, alive' \ wants') /\ UNCHANGED <<managed, pending>>
  BY <1>1 DEF QueueOK, MapsAreWanted, WMVars, docking
<1>4. QueueOK'
  <2>1. CASE queue' = queue
    BY <1>1, <1>3, <2>1 DEF QueueOK
  <2>2. CASE queue' = Append(queue, Event("MapRequest", w))
    <3>1. queue' \in Seq(Message)
      BY <1>2, <2>2, QueueAppends DEF QueueOK
    <3>2. DestroyIsLast(queue', Window \ alive') /\ MapsAreWanted(queue', alive' \ wants')
      BY <1>1, <1>2, <1>3, <2>2, FactsAppend DEF QueueOK
    <3>3. Announced(queue', (managed' \cup pending') \ alive')
      BY <1>1, <1>2, <1>3, <2>2, FactsAppend DEF QueueOK
    <3>4. QED BY <3>1, <3>2, <3>3 DEF QueueOK
  <2>3. QED BY <1>1, <2>1, <2>2
<1>5. ServerOK'
  BY <1>1 DEF ServerOK
<1>6. QED BY <1>1, <1>4, <1>5, WMUntouched DEF DockingOK

LEMMA ClientWithdrawTidy ==
  ASSUME Tidy, NEW w \in Window, ClientWithdraw(w)
  PROVE  Tidy'
<1> DEFINE e == Event("Unmap", w)
<1> USE DEF Tidy
<1>1. /\ w \in alive /\ (w \in pending => GivesUp) /\ wants' = wants \ {w}
      /\ viewable' = viewable \ {w}
      /\ UNCHANGED <<alive, inTray, WMVars>> /\ UNCHANGED <<managed, pending>>
      /\ \A i \in 1..Len(queue) : queue[i].win = w => queue[i].type # "MapRequest"
  BY DEF ClientWithdraw, WMVars, docking, Waiting
<1>2. e \in Message /\ e.win = w /\ e.type = "Unmap"
  BY EventIsMessage DEF EventType
<1>3. /\ DestroyIsLast(queue, Window \ alive') /\ MapsAreWanted(queue, alive' \ wants')
      /\ Announced(queue, (managed' \cup pending') \ alive') /\ queue \in Seq(Message)
  BY <1>1 DEF QueueOK, MapsAreWanted
<1> DEFINE q == Append(queue, e)
<1>4. /\ q \in Seq(Message) /\ DestroyIsLast(q, Window \ alive') /\ MapsAreWanted(q, alive' \ wants')
      /\ Announced(q, (managed' \cup pending') \ alive')
  BY <1>1, <1>2, <1>3, FactsAppend, QueueAppends
<1>5. queue' = q \/ queue' = Append(q, e)
  <2>1. queue \o <<e>> = q /\ queue \o <<>> = queue /\ q \o <<e>> = Append(q, e)
    BY <1>2, <1>3, <1>4, QueueAppends
  <2>2. QED BY <2>1 DEF ClientWithdraw
<1>6. QueueOK'
  <2>1. CASE queue' = q
    BY <1>4, <2>1 DEF QueueOK
  <2>2. CASE queue' = Append(q, e)
    <3> HIDE DEF q
    <3>1. /\ queue' \in Seq(Message) /\ DestroyIsLast(queue', Window \ alive')
          /\ MapsAreWanted(queue', alive' \ wants') /\ Announced(queue', (managed' \cup pending') \ alive')
      BY <1>1, <1>2, <1>4, <2>2, FactsAppend, QueueAppends
    <3>2. QED BY <3>1 DEF QueueOK
  <2>3. QED BY <1>5, <2>1, <2>2
<1>7. ServerOK'
  BY <1>1 DEF ServerOK
<1>8. QED BY <1>1, <1>6, <1>7, WMUntouched DEF DockingOK

LEMMA ClientDestroyTidy ==
  ASSUME Tidy, NEW w \in Window, ClientDestroy(w)
  PROVE  Tidy'
<1> DEFINE u == Event("Unmap", w)
           d == Event("Destroy", w)
           dead == Window \ alive
           gone == (managed \cup pending) \ alive
<1> USE DEF Tidy
<1>1. /\ w \in alive /\ alive' = alive \ {w} /\ wants' = wants \ {w} /\ viewable' = viewable \ {w}
      /\ UNCHANGED <<inTray, WMVars>> /\ UNCHANGED <<managed, pending>>
  BY DEF ClientDestroy, WMVars, docking
<1>2. u \in Message /\ u.win = w /\ u.type = "Unmap" /\ d \in Message /\ d.type = "Destroy"
  BY EventIsMessage DEF EventType
<1>3. PICK q \in {queue, Append(queue, u)} : queue' = Append(q, d)
  <2>1. queue \o <<u>> = Append(queue, u) /\ queue \o <<>> = queue
    BY <1>2, QueueAppends DEF QueueOK
  <2>2. \A q \in {queue, Append(queue, u)} : q \o <<d>> = Append(q, d)
    BY <1>2, QueueAppends DEF QueueOK
  <2>3. QED BY <2>1, <2>2 DEF ClientDestroy
<1>4. /\ q \in Seq(Message) /\ DestroyIsLast(q, dead) /\ Announced(q, gone)
      /\ MapsAreWanted(q, alive \ wants)
  <2>1. CASE q = queue
    BY <2>1 DEF QueueOK
  <2>2. CASE q = Append(queue, u)
    BY <1>1, <1>2, <2>2, FactsAppend, QueueAppends DEF QueueOK
  <2>3. QED BY <1>3, <2>1, <2>2
<1>5. DestroyIsLast(queue', dead \cup {w}) /\ Announced(queue', gone \cup {w})
  BY <1>3, <1>4, FactsDestroy
<1>6. queue' \in Seq(Message) /\ MapsAreWanted(queue', alive \ wants)
  BY <1>2, <1>3, <1>4, FactsAppend, QueueAppends
<1>7. Window \ alive' = dead \cup {w} /\ (managed' \cup pending') \ alive' \subseteq gone \cup {w}
  BY <1>1
<1>8. alive' \ wants' \subseteq alive \ wants
  BY <1>1
<1>9. QueueOK'
  BY <1>5, <1>6, <1>7, <1>8 DEF QueueOK, Announced, MapsAreWanted
<1>10. ServerOK'
  BY <1>1 DEF ServerOK
<1>11. QED BY <1>1, <1>9, <1>10, WMUntouched DEF DockingOK

LEMMA ClientDockTidy ==
  ASSUME Tidy, NEW w \in Window, ClientDock(w)
  PROVE  Tidy'
<1> DEFINE e == Event("Dock", w)
           m == Event("MapRequest", w)
           q == Append(queue, e)
<1> USE DEF Tidy
<1>1. /\ w \in alive /\ wants' = wants \cup {w} /\ UNCHANGED <<alive, viewable, inTray, WMVars>>
      /\ UNCHANGED <<managed, pending>> /\ w \in Embedders
  BY DEF ClientDock, WMVars, docking
<1>2. e \in Message /\ e.win = w /\ e.type = "Dock" /\ m \in Message /\ m.win = w
  BY <1>1, EventIsMessage DEF EventType
<1>3. /\ DestroyIsLast(queue, Window \ alive') /\ MapsAreWanted(queue, alive' \ wants')
      /\ Announced(queue, (managed' \cup pending') \ alive') /\ queue \in Seq(Message)
  BY <1>1 DEF QueueOK, MapsAreWanted
<1>4. /\ q \in Seq(Message) /\ DestroyIsLast(q, Window \ alive') /\ MapsAreWanted(q, alive' \ wants')
      /\ Announced(q, (managed' \cup pending') \ alive')
  BY <1>1, <1>2, <1>3, FactsAppend, QueueAppends
<1>5. queue' = q \/ queue' = Append(q, m)
  <2>1. queue \o <<e>> = q /\ q \o <<>> = q /\ q \o <<m>> = Append(q, m)
    BY <1>2, <1>3, <1>4, QueueAppends
  <2>2. QED BY <2>1 DEF ClientDock
<1>6. QueueOK'
  <2>1. CASE queue' = q
    BY <1>4, <2>1 DEF QueueOK
  <2>2. CASE queue' = Append(q, m)
    <3> HIDE DEF q
    <3>1. /\ queue' \in Seq(Message) /\ DestroyIsLast(queue', Window \ alive')
          /\ MapsAreWanted(queue', alive' \ wants') /\ Announced(queue', (managed' \cup pending') \ alive')
      BY <1>1, <1>2, <1>4, <2>2, FactsAppend, QueueAppends
    <3>2. QED BY <3>1 DEF QueueOK
  <2>3. QED BY <1>5, <2>1, <2>2
<1>7. ServerOK'
  BY <1>1 DEF ServerOK
<1>8. QED BY <1>1, <1>6, <1>7, WMUntouched DEF DockingOK

----------------------------------------------------------------------------
(***************************************************************************)
(* WindowManager's handlers.                                               *)
(***************************************************************************)

LEMMA QueueAdvanced ==
  ASSUME QueueOK, ServerOK, queue # <<>>, UNCHANGED <<alive, wants>>,
         NEW w \in Window, w = Head(queue).win,
         \/ queue' = Tail(queue)
         \/ w \in alive /\ queue' = Append(Tail(queue), Event("Unmap", w)),
         managed' \cup pending' \subseteq managed \cup pending \cup {w},
         Head(queue).type = "Destroy" => w \notin managed' \cup pending'
  PROVE  QueueOK'
<1> DEFINE rest == Tail(queue)
           dead == Window \ alive
           gone == (managed' \cup pending') \ alive
           refused == alive \ wants
<1>1. /\ rest \in Seq(Message) /\ DestroyIsLast(rest, dead) /\ MapsAreWanted(rest, refused)
  BY QueueAdvances, FactsTail DEF QueueOK
<1>2. Announced(rest, gone)
  <2>1. Announced(queue, gone \ {w})
    BY DEF QueueOK, Announced
  <2>2. Announced(rest, gone \ {w})
    BY <2>1, FactsTail DEF QueueOK
  <2>3. CASE w \notin gone
    BY <2>2, <2>3 DEF Announced
  <2>4. CASE w \in gone
    <3>1. Announced(rest, {w})
      BY <2>4, FactsTail DEF QueueOK
    <3>2. QED BY <2>2, <3>1 DEF Announced
  <2>5. QED BY <2>3, <2>4
<1> HIDE DEF rest, dead, gone, refused
<1>3. CASE queue' = rest
  BY <1>1, <1>2, <1>3 DEF QueueOK, dead, gone, refused
<1>4. CASE w \in alive /\ queue' = Append(rest, Event("Unmap", w))
  <2>1. /\ Event("Unmap", w) \in Message /\ Event("Unmap", w).win = w
        /\ Event("Unmap", w).type = "Unmap"
    BY EventIsMessage DEF EventType
  <2>2. w \notin dead
    BY <1>4 DEF dead
  <2>3. /\ queue' \in Seq(Message) /\ DestroyIsLast(queue', dead) /\ MapsAreWanted(queue', refused)
        /\ Announced(queue', gone)
    BY <1>1, <1>2, <1>4, <2>1, <2>2, FactsAppend, QueueAppends
  <2>4. QED BY <2>3 DEF QueueOK, dead, gone, refused
<1>5. QED BY <1>3, <1>4 DEF rest

LEMMA MapRequestTidy ==
  ASSUME Tidy, queue # <<>>, NEW w \in Window, w = Head(queue).win, Head(queue).type = "MapRequest",
         queue' = Tail(queue), HandleMapRequest(w)
  PROVE  Tidy'
<1> USE DEF Tidy
<1>1. UNCHANGED <<alive, viewable, inTray, wants, icons, expired>>
  BY DEF HandleMapRequest, server
<1>2. w \in alive => w \in wants
  <2>1. 1 \in 1..Len(queue) /\ queue[1] = Head(queue)
    BY QueueAdvances DEF QueueOK
  <2>2. QED BY <2>1 DEF QueueOK, MapsAreWanted
<1>3. /\ RepositoryOK' /\ managed' \subseteq managed \cup ({w} \ Embedders)
      /\ pending' \in {pending, pending \cup ({w} \cap Embedders)}
  <2>1. CASE w \in managed /\ Ignore /\ UNCHANGED pending
    BY <2>1, IgnoreRepository DEF Ignore
  <2>2. CASE w \in Embedders \ managed /\ pending' = pending \cup {w} /\ Ignore
    BY <2>2, IgnoreRepository DEF Ignore
  <2>3. ASSUME w \notin managed \cup Embedders, UNCHANGED pending, NEW shown, Manage(w, shown)
        PROVE  RepositoryOK' /\ managed' \subseteq managed \cup ({w} \ Embedders)
    BY <2>3, ManageRepository DEF Manage
  <2>4. QED BY <2>1, <2>2, <2>3 DEF HandleMapRequest
<1>4. DockingOK'
  BY <1>1, <1>2, <1>3 DEF DockingOK
<1>5. QueueOK'
  BY <1>1, <1>3, QueueAdvanced
<1>6. QED BY <1>1, <1>3, <1>4, <1>5 DEF ServerOK

LEMMA UnmapNotifyTidy ==
  ASSUME Tidy, queue # <<>>, NEW w \in Window, w = Head(queue).win, Head(queue).type = "Unmap",
         queue' = Tail(queue), HandleUnmapNotify(w)
  PROVE  Tidy'
<1> USE DEF Tidy
<1>1. UNCHANGED <<alive, viewable, inTray, wants, pending, icons, expired>>
  BY DEF HandleUnmapNotify, server, docking
<1>2. RepositoryOK' /\ managed' \subseteq managed
  <2>1. CASE Ignore
    BY <2>1, IgnoreRepository DEF Ignore
  <2>2. CASE ignored[w] > 0 /\ ignored' = Consumed(w) /\ UNCHANGED <<managed, onScreen, scratch, arrange>>
    <3>1. ignored' \in [Window -> Nat]
      BY <2>2 DEF RepositoryOK, Consumed
    <3>2. QED BY <2>2, <3>1 DEF RepositoryOK, Ready
  <2>3. CASE Unmanage(w)
    BY <2>3, UnmanageRepository DEF Unmanage
  <2>4. QED BY <2>1, <2>2, <2>3 DEF HandleUnmapNotify
<1>3. DockingOK'
  BY <1>1, <1>2 DEF DockingOK
<1>4. QueueOK'
  BY <1>1, <1>2, QueueAdvanced
<1>5. QED BY <1>1, <1>2, <1>3, <1>4 DEF ServerOK

LEMMA DestroyNotifyTidy ==
  ASSUME Tidy, queue # <<>>, NEW w \in Window, w = Head(queue).win,
         queue' = Tail(queue), HandleDestroyNotify(w)
  PROVE  Tidy'
<1> USE DEF Tidy
<1>1. /\ UNCHANGED <<alive, viewable, inTray, wants>> /\ icons' = icons \ {w}
      /\ pending' = pending \ {w} /\ expired' = expired \ {w}
  BY DEF HandleDestroyNotify, server, NoLongerPending
<1>2. RepositoryOK' /\ managed' = managed \ {w}
  <2>1. CASE w \notin managed
    BY <2>1, IgnoreRepository DEF HandleDestroyNotify, Ignore
  <2>2. CASE w \in managed
    BY <2>2, UnmanageRepository DEF HandleDestroyNotify, Unmanage
  <2>3. QED BY <2>1, <2>2
<1>3. DockingOK'
  BY <1>1, <1>2 DEF DockingOK
<1>4. QueueOK'
  BY <1>1, <1>2, QueueAdvanced
<1>5. QED BY <1>1, <1>2, <1>3, <1>4 DEF ServerOK

LEMMA DockRequestTidy ==
  ASSUME Tidy, queue # <<>>, NEW w \in Embedders, w = Head(queue).win, Head(queue).type = "Dock",
         HandleDockRequest(w, Tail(queue))
  PROVE  Tidy'
<1> USE DEF Tidy
<1>0. w \in Window
  BY EmbeddersAreWindows
<1>1. CASE w \in icons
  <2>1. /\ UNCHANGED <<alive, viewable, inTray, wants, pending, icons, expired>> /\ Ignore
        /\ queue' = Tail(queue) /\ managed' = managed
    BY <1>1 DEF HandleDockRequest, server, docking, Ignore
  <2>2. RepositoryOK'
    BY <2>1, IgnoreRepository
  <2>3. DockingOK'
    BY <2>1 DEF DockingOK
  <2>4. QueueOK'
    BY <1>0, <2>1, QueueAdvanced
  <2>5. QED BY <2>1, <2>2, <2>3, <2>4 DEF ServerOK
<1>2. CASE w \notin icons
  <2>1. /\ icons' = icons \cup {w} /\ UNCHANGED <<alive, wants>>
        /\ inTray' = inTray \cup ({w} \cap alive) /\ viewable' = viewable \cup ({w} \cap alive)
        /\ pending' = pending \ {w} /\ expired' = expired \ {w}
        /\ \/ queue' = Tail(queue)
           \/ w \in viewable /\ queue' = Append(Tail(queue), Event("Unmap", w))
    BY <1>2 DEF HandleDockRequest, NoLongerPending
  <2>2. RepositoryOK' /\ managed' = managed \ {w}
    <3>1. CASE w \notin managed
      BY <1>2, <3>1, IgnoreRepository DEF HandleDockRequest, Undone, Ignore
    <3>2. CASE w \in managed
      BY <1>0, <1>2, <3>2, UnmanageRepository DEF HandleDockRequest, Undone, Unmanage
    <3>3. QED BY <3>1, <3>2
  <2>3. DockingOK'
    BY <2>1, <2>2 DEF DockingOK
  <2>4. w \in viewable => w \in alive
    BY DEF ServerOK
  <2>5. QueueOK'
    BY <1>0, <2>1, <2>2, <2>4, QueueAdvanced
  <2>6. QED BY <2>1, <2>2, <2>3, <2>5 DEF ServerOK
<1>3. QED BY <1>1, <1>2

LEMMA TickPendingTidy ==
  ASSUME Tidy, NEW w \in Window, TickPending(w)
  PROVE  Tidy'
<1> USE DEF Tidy
<1>1. /\ UNCHANGED <<alive, viewable, inTray, wants, queue, icons>>
      /\ pending' = pending \ {w} /\ expired' = expired \ {w}
  BY DEF TickPending, server, GiveUpOn, NoLongerPending
<1>2. /\ RepositoryOK' /\ managed' \subseteq managed \cup ({w} \cap (alive \ icons))
  <2>1. CASE Ignore
    BY <2>1, IgnoreRepository DEF Ignore
  <2>2. ASSUME w \notin icons, w \in alive, NEW shown, Manage(w, shown)
        PROVE  RepositoryOK' /\ managed' \subseteq managed \cup ({w} \cap (alive \ icons))
    BY <2>2, ManageRepository DEF Manage
  <2>3. QED BY <2>1, <2>2 DEF TickPending, GiveUpOn
<1>3. DockingOK'
  BY <1>1, <1>2 DEF DockingOK
<1>4. QueueOK'
  BY <1>1, <1>2, QueueKept
<1>5. QED BY <1>1, <1>2, <1>3, <1>4 DEF ServerOK

----------------------------------------------------------------------------
(***************************************************************************)
(* Arrange and the commands.                                               *)
(***************************************************************************)

\* What neither Arrange nor a command touches.
LEMMA ScreenOnly ==
  ASSUME Tidy, UNCHANGED <<alive, inTray, wants, managed, docking>>,
         viewable' \subseteq viewable \cup alive, RepositoryOK',
         queue' = queue \/ \E w \in alive : queue' = Append(queue, Event("Unmap", w))
  PROVE  Tidy'
<1>1. ServerOK' /\ DockingOK'
  BY DEF Tidy, ServerOK, DockingOK, docking
<1>2. QueueOK'
  BY QueueKept DEF Tidy, docking
<1>3. QED BY <1>1, <1>2 DEF Tidy

LEMMA ArrangeTidy ==
  ASSUME Tidy, ArrangeNext
  PROVE  Tidy'
<1> USE DEF Tidy
<1>1. ASSUME NEW w \in Window, ArrangeCheck(w) PROVE Tidy'
  <2>1. /\ UNCHANGED <<alive, viewable, inTray, wants, queue, managed, onScreen, scratch, docking>>
        /\ w \in arrange.todo /\ arrange.phase = "hide"
        /\ arrange'.phase = "hide" /\ arrange'.todo = arrange.todo \ {w}
        /\ arrange'.hiding \in {w, None}
        /\ arrange' \in [todo : SUBSET Window, hiding : Window \cup {None}, phase : {"idle", "hide"}]
    BY <1>1 DEF ArrangeCheck, server, RepositoryOK
  <2>2. ignored' \in [Window -> Nat]
    BY <1>1 DEF ArrangeCheck, RepositoryOK
  <2>3. RepositoryOK'
    BY <2>1, <2>2 DEF RepositoryOK, Ready
  <2>4. QED BY <2>1, <2>3, ScreenOnly
<1>2. ASSUME ArrangeHide PROVE Tidy'
  <2>1. /\ UNCHANGED <<alive, inTray, wants, managed, ignored, onScreen, scratch, docking>>
        /\ viewable' \subseteq viewable /\ arrange.hiding # None
        /\ arrange' = [arrange EXCEPT !.hiding = None]
    BY <1>2 DEF ArrangeHide
  <2>2. queue' = queue \/ \E w \in alive : queue' = Append(queue, Event("Unmap", w))
    BY <1>2 DEF ArrangeHide, ServerOK
  <2>3. RepositoryOK'
    BY <2>1 DEF RepositoryOK, Ready
  <2>4. QED BY <2>1, <2>2, <2>3, ScreenOnly
<1>3. ASSUME ArrangeShow PROVE Tidy'
  <2>1. /\ UNCHANGED <<alive, inTray, wants, queue, managed, ignored, onScreen, scratch, docking>>
        /\ arrange' = Idle /\ viewable' \subseteq viewable \cup alive
    BY <1>3 DEF ArrangeShow
  <2>2. RepositoryOK'
    BY <2>1 DEF RepositoryOK, Ready, Idle
  <2>3. QED BY <2>1, <2>2, ScreenOnly
<1>4. QED BY <1>1, <1>2, <1>3 DEF ArrangeNext

LEMMA HiddenCounts ==
  ASSUME Tidy, NEW w \in Window, Hidden(w)
  PROVE  /\ ignored' \in [Window -> Nat] /\ viewable' \subseteq viewable
         /\ queue' = queue \/ \E v \in alive : queue' = Append(queue, Event("Unmap", v))
<1>1. ignored' \in [Window -> Nat]
  BY DEF Hidden, Tidy, RepositoryOK
<1>2. QED BY <1>1 DEF Hidden, Tidy, ServerOK

LEMMA CommandsTidy ==
  ASSUME Tidy, \/ \E shown \in SUBSET managed : Switch(shown)
               \/ \E w \in Window : ScratchAssign(w)
               \/ ScratchToggle \/ ScratchRelease
  PROVE  Tidy'
<1> USE DEF Tidy
<1>1. ASSUME NEW shown \in SUBSET managed, Switch(shown) PROVE Tidy'
  <2>1. /\ UNCHANGED <<alive, viewable, inTray, wants, queue, managed, ignored, scratch, docking>>
        /\ onScreen' = shown /\ ArrangeStarts
    BY <1>1 DEF Switch, server
  <2>2. RepositoryOK'
    BY <2>1, ArrangeStartsRight DEF RepositoryOK
  <2>3. QED BY <2>1, <2>2, ScreenOnly
<1>2. ASSUME NEW w \in Window, ScratchAssign(w) PROVE Tidy'
  <2>1. /\ UNCHANGED <<alive, inTray, wants, managed, onScreen, docking>>
        /\ scratch' = [win |-> w, shown |-> FALSE] /\ w \in managed /\ ArrangeStarts /\ Hidden(w)
    BY <1>2 DEF ScratchAssign, RepositoryOK
  <2>2. RepositoryOK'
    BY <2>1, HiddenCounts, ArrangeStartsRight DEF RepositoryOK
  <2>3. QED BY <2>1, <2>2, HiddenCounts, ScreenOnly
<1>3. ASSUME ScratchToggle PROVE Tidy'
  <2>1. /\ UNCHANGED <<alive, inTray, wants, managed, onScreen, docking, arrange>>
        /\ scratch.win \in Window /\ scratch'.win = scratch.win
        /\ scratch' \in [win : managed \cup {None}, shown : BOOLEAN]
    BY <1>3 DEF ScratchToggle, RepositoryOK
  <2>2. /\ ignored' \in [Window -> Nat] /\ viewable' \subseteq viewable \cup alive
        /\ queue' = queue \/ \E v \in alive : queue' = Append(queue, Event("Unmap", v))
    <3>1. CASE Hidden(scratch.win)
      BY <2>1, <3>1, HiddenCounts
    <3>2. CASE viewable' = viewable \cup ({scratch.win} \cap alive) /\ UNCHANGED <<queue, ignored>>
      BY <3>2 DEF RepositoryOK
    <3>3. QED BY <1>3, <3>1, <3>2 DEF ScratchToggle
  <2>3. RepositoryOK'
    BY <2>1, <2>2 DEF RepositoryOK, Ready
  <2>4. QED BY <2>1, <2>2, <2>3, ScreenOnly
<1>4. ASSUME ScratchRelease PROVE Tidy'
  <2>1. /\ UNCHANGED <<alive, viewable, inTray, wants, queue, managed, ignored, docking>>
        /\ scratch' = NoScratch /\ ArrangeStarts
        /\ scratch.win \in managed /\ onScreen' = onScreen \cup {scratch.win}
    BY <1>4 DEF ScratchRelease, server, RepositoryOK
  <2>2. RepositoryOK'
    BY <2>1, ArrangeStartsRight DEF RepositoryOK, NoScratch
  <2>3. QED BY <2>1, <2>2, ScreenOnly
<1>5. QED BY <1>1, <1>2, <1>3, <1>4

LEMMA NextKeepsTidy ==
  ASSUME Tidy, [Next]_vars
  PROVE  Tidy'
<1>1. ASSUME NEW w \in Window, DeadlinePasses(w) PROVE Tidy'
  <2>1. /\ UNCHANGED <<server, queue, managed, ignored, onScreen, scratch, pending, icons, arrange>>
        /\ w \in pending /\ expired' = expired \cup {w}
    BY <1>1 DEF DeadlinePasses
  <2>2. QED BY <2>1 DEF Tidy, server, ServerOK, RepositoryOK, DockingOK, QueueOK, Ready
<1>2. ASSUME Dispatch PROVE Tidy'
  <2>1. PICK w \in Window :
          /\ w = Head(queue).win /\ queue # <<>>
          /\ Head(queue).type = "Dock" => w \in Embedders
    BY <1>2, QueueAdvances DEF Dispatch, Tidy, QueueOK, Message
  <2>2. \/ Head(queue).type = "MapRequest" /\ queue' = Tail(queue) /\ HandleMapRequest(w)
        \/ Head(queue).type = "Unmap" /\ queue' = Tail(queue) /\ HandleUnmapNotify(w)
        \/ Head(queue).type = "Destroy" /\ queue' = Tail(queue) /\ HandleDestroyNotify(w)
        \/ Head(queue).type = "Dock" /\ HandleDockRequest(w, Tail(queue))
    BY <1>2, <2>1 DEF Dispatch
  <2>3. QED BY <2>1, <2>2, MapRequestTidy, UnmapNotifyTidy, DestroyNotifyTidy, DockRequestTidy
<1>3. CASE UNCHANGED vars
  BY <1>3 DEF Tidy, vars, server, docking, ServerOK, RepositoryOK, DockingOK, QueueOK, Ready
<1>4. QED BY <1>1, <1>2, <1>3, ClientMapTidy, ClientWithdrawTidy, ClientDestroyTidy, ClientDockTidy,
             TickPendingTidy, ArrangeTidy, CommandsTidy DEF Next

LEMMA InitTidy == Init => Tidy
<1> SUFFICES ASSUME Init PROVE Tidy
  OBVIOUS
<1>1. queue \in Seq(Message) /\ Len(queue) = 0
  BY DEF Init
<1>2. QueueOK
  BY <1>1 DEF Init, QueueOK, DestroyIsLast, Announced, MapsAreWanted
<1>3. RepositoryOK
  BY DEF Init, RepositoryOK, Idle, NoScratch
<1>4. ServerOK /\ DockingOK
  BY DEF Init, ServerOK, DockingOK
<1>5. QED BY <1>2, <1>3, <1>4 DEF Tidy

----------------------------------------------------------------------------
(***************************************************************************)
(* The balance of unmaps.  Of a window that is managed, as many            *)
(* UnmapNotify events are on their way, or certain to be, as are to be     *)
(* discounted; one more if its client took it back, and one more if it is  *)
(* not on screen although it should be.  That the counts are backed is not *)
(* inductive without the two others: HideScratchpad counts an unmap of a   *)
(* window that its client has withdrawn already, and only the client's own *)
(* second UnmapNotify keeps that from being mistaken.                      *)
(***************************************************************************)

\* Meant to be mapped (Arrange is about to see to the others)
Meant(w) == \/ Ready /\ w \in onScreen /\ w # scratch.win
            \/ w = scratch.win /\ scratch.shown

\* (None is, where clients give up: their withdrawals are forgotten.)
Unwanted(w) == IF w \in wants \/ GivesUp THEN 0 ELSE 1
Unseen(w) == IF Meant(w) /\ w \notin viewable THEN 1 ELSE 0
\* Arrange has counted it and is going to unmap it.
Leaving(w) == IF w = arrange.hiding /\ w \in viewable THEN 1 ELSE 0

Balance(w) ==
  w \in managed \cap alive =>
    ignored[w] + Unwanted(w) + Unseen(w) <= Count(queue, w) + Leaving(w)

Balanced == \A w \in Window : Balance(w)

LEMMA BalanceIsNat ==
  ASSUME Tidy, NEW w \in Window
  PROVE  ignored[w] \in Nat /\ Count(queue, w) \in Nat
  BY CountIsNat DEF Tidy, RepositoryOK, QueueOK

\* What can only help a window
LEMMA BalanceKept ==
  ASSUME Tidy, Tidy', NEW w \in Window, Balance(w),
         w \in managed' \cap alive' => w \in managed \cap alive /\ ignored'[w] = ignored[w],
         Count(queue', w) >= Count(queue, w), w \in wants => w \in wants',
         w \in viewable => w \in viewable', Meant(w)' => Meant(w) \/ w \in viewable',
         w = arrange.hiding /\ w \in viewable => w = arrange'.hiding
  PROVE  Balance(w)'
<1> SUFFICES ASSUME w \in managed' \cap alive'
             PROVE  ignored'[w] + Unwanted(w)' + Unseen(w)' <= Count(queue', w) + Leaving(w)'
  BY DEF Balance
<1>0. ignored[w] \in Nat /\ Count(queue, w) \in Nat /\ Count(queue', w) \in Nat
  BY BalanceIsNat, CountIsNat DEF Tidy, QueueOK
<1>1. /\ ignored'[w] = ignored[w]
      /\ ignored[w] + Unwanted(w) + Unseen(w) <= Count(queue, w) + Leaving(w)
  BY Zenon DEF Balance
<1>2. Unwanted(w)' \in {0, 1} /\ Unwanted(w) \in {0, 1} /\ Unwanted(w)' <= Unwanted(w)
  BY DEF Unwanted
<1>3. Unseen(w)' \in {0, 1} /\ Unseen(w) \in {0, 1} /\ Unseen(w)' <= Unseen(w)
  BY DEF Unseen
<1>4. Leaving(w)' \in {0, 1} /\ Leaving(w) \in {0, 1} /\ Leaving(w)' >= Leaving(w)
  BY DEF Leaving
<1>5. QED BY <1>0, <1>1, <1>2, <1>3, <1>4

LEMMA CountOfOthers ==
  ASSUME NEW q \in Seq(Message), NEW e \in Message, NEW w, ~IsUnmapOf(e, w)
  PROVE  Count(Append(q, e), w) = Count(q, w)
  BY CountAppend, CountIsNat

LEMMA CountGrows ==
  ASSUME NEW q \in Seq(Message), NEW e \in Message, NEW w
  PROVE  Count(Append(q, e), w) >= Count(q, w)
  BY CountAppend, CountIsNat

\* Its client takes a window back: two events if it was mapped, and one if not.
LEMMA WithdrawBalanced ==
  ASSUME Tidy, Tidy', Balanced, NEW w \in Window, ClientWithdraw(w)
  PROVE  Balanced'
<1> DEFINE e == Event("Unmap", w)
           q == Append(queue, e)
<1>1. /\ w \in wants /\ w \in alive /\ wants' = wants \ {w} /\ viewable' = viewable \ {w}
      /\ UNCHANGED <<alive, managed, ignored, onScreen, scratch, arrange>>
  BY DEF ClientWithdraw, WMVars
<1>2. e \in Message /\ queue \in Seq(Message) /\ q \in Seq(Message)
  BY EventIsMessage DEF EventType, Tidy, QueueOK
<1>3. /\ w \in viewable => queue' = Append(q, e)
      /\ w \notin viewable => queue' = q
  <2>1. queue \o <<e>> = q /\ queue \o <<>> = queue /\ q \o <<e>> = Append(q, e)
    BY <1>2, QueueAppends
  <2>2. QED BY <2>1 DEF ClientWithdraw
<1>4. e.win = w /\ e.type = "Unmap"
  BY EventIsMessage DEF EventType
<1> HIDE DEF e
<1>5. ASSUME NEW v \in Window, v # w PROVE Balance(v)'
  <2>1. Count(q, v) >= Count(queue, v) /\ Count(Append(q, e), v) >= Count(q, v)
    BY <1>2, CountGrows
  <2>2. Count(queue, v) \in Nat /\ Count(q, v) \in Nat /\ Count(Append(q, e), v) \in Nat
    BY <1>2, CountIsNat, QueueAppends
  <2>3. Count(queue', v) >= Count(queue, v)
    <3>1. CASE w \in viewable
      <4>1. Count(queue', v) = Count(Append(q, e), v)
        BY <1>3, <3>1
      <4>2. QED BY <2>1, <2>2, <4>1
    <3>2. CASE w \notin viewable
      BY <1>3, <2>1, <3>2
    <3>3. QED BY <3>1, <3>2
  <2>4. QED BY <1>1, <1>5, <2>3, BalanceKept DEF Balanced, Meant, Ready
<1>6. Balance(w)'
  <2> SUFFICES ASSUME w \in managed
               PROVE  ignored'[w] + Unwanted(w)' + Unseen(w)' <= Count(queue', w) + Leaving(w)'
    BY <1>1 DEF Balance
  <2>1. /\ ignored[w] \in Nat /\ ignored'[w] = ignored[w] /\ Count(queue, w) \in Nat
        /\ ignored[w] + Unwanted(w) + Unseen(w) <= Count(queue, w) + Leaving(w)
    BY <1>1, BalanceIsNat DEF Balanced, Balance
  <2>2. Count(q, w) = Count(queue, w) + 1 /\ Count(Append(q, e), w) = Count(q, w) + 1
    BY <1>2, <1>4, CountAppend DEF IsUnmapOf
  <2>3. Unwanted(w) = 0 /\ Unwanted(w)' \in {0, 1} /\ Leaving(w)' = 0
    BY <1>1 DEF Unwanted, Leaving
  <2>4. /\ Unseen(w) \in {0, 1} /\ Unseen(w)' \in {0, 1}
        /\ w \notin viewable => Unseen(w)' = Unseen(w) /\ Leaving(w) = 0
    BY <1>1 DEF Unseen, Leaving, Meant, Ready
  <2>9. Leaving(w) = 0 \/ (Leaving(w) = 1 /\ ~Meant(w))
    <3>1. w = arrange.hiding => ~Ready /\ w # scratch.win
      BY NoneIsNoWindow DEF Tidy, RepositoryOK
    <3>2. w = arrange.hiding => ~Meant(w)
      BY <3>1 DEF Meant
    <3>3. (w = arrange.hiding /\ Leaving(w) = 1) \/ Leaving(w) = 0
      BY DEF Leaving
    <3>4. QED BY <3>2, <3>3
  <2>5. ~Meant(w) => Unseen(w)' = 0
    BY <1>1 DEF Unseen, Meant, Ready
  <2>6. CASE w \in viewable
    <3>1. Count(queue', w) = Count(queue, w) + 2
      <4>1. Count(queue', w) = Count(Append(q, e), w)
        BY <1>3, <2>6
      <4>2. QED BY <2>1, <2>2, <4>1
    <3>2. Leaving(w) = 0 \/ (Leaving(w) = 1 /\ Unseen(w)' = 0)
      BY <2>5, <2>9
    <3>3. QED BY <2>1, <2>3, <2>4, <3>1, <3>2
  <2>7. CASE w \notin viewable
    <3>1. Count(queue', w) = Count(queue, w) + 1
      BY <1>3, <2>2, <2>7
    <3>2. QED BY <2>1, <2>3, <2>4, <2>7, <3>1
  <2>8. QED BY <2>6, <2>7
<1>7. QED BY <1>5, <1>6 DEF Balanced

\* No other request of a client's upsets the balance of a living window.
LEMMA ClientsBalanced ==
  ASSUME Tidy, Tidy', Balanced, NEW w \in Window, ClientMap(w) \/ ClientDestroy(w) \/ ClientDock(w)
  PROVE  Balanced'
<1>1. UNCHANGED <<managed, ignored, onScreen, scratch, arrange>>
  BY DEF ClientMap, ClientDestroy, ClientDock, WMVars
<1>2. /\ wants \ {w} \subseteq wants' /\ viewable \ {w} \subseteq viewable'
      /\ w \in alive' => w \in wants' /\ (w \in viewable => w \in viewable')
      /\ alive' \subseteq alive
  BY DEF ClientMap, ClientDestroy, ClientDock
<1>3. ASSUME NEW v \in Window PROVE Count(queue', v) >= Count(queue, v)
  <2> DEFINE Longer(q) == q \in Seq(Message) /\ Count(q, v) >= Count(queue, v)
  <2>1. Longer(queue) /\ queue \o <<>> = queue
    BY QueueAppends, CountIsNat DEF Tidy, QueueOK
  <2>2. ASSUME NEW e \in Message, NEW q, Longer(q)
        PROVE  Longer(q \o <<e>>) /\ q \o <<>> = q
    <3>1. q \o <<e>> = Append(q, e) /\ Append(q, e) \in Seq(Message) /\ q \o <<>> = q
      BY <2>2, QueueAppends
    <3>2. Count(Append(q, e), v) >= Count(q, v)
      BY <2>2, CountGrows
    <3>3. Count(Append(q, e), v) \in Nat /\ Count(q, v) \in Nat /\ Count(queue, v) \in Nat
      BY <2>1, <2>2, <3>1, CountIsNat
    <3>4. Count(Append(q, e), v) >= Count(queue, v)
      BY <2>2, <3>2, <3>3
    <3>5. QED BY <3>1, <3>4
  <2>3. /\ Event("Unmap", w) \in Message /\ Event("Destroy", w) \in Message
        /\ Event("MapRequest", w) \in Message
        /\ w \in Embedders => Event("Dock", w) \in Message
    BY EventIsMessage DEF EventType
  <2> HIDE DEF Longer
  <2>4. Longer(queue')
    <3>1. CASE ClientMap(w)
      <4>1. queue' = queue \/ queue' = queue \o <<Event("MapRequest", w)>>
        <5>1. queue \o <<Event("MapRequest", w)>> = Append(queue, Event("MapRequest", w))
          BY <2>3, QueueAppends DEF Tidy, QueueOK
        <5>2. QED BY <3>1, <5>1 DEF ClientMap
      <4>2. QED BY <2>1, <2>2, <2>3, <4>1
    <3>2. CASE ClientDestroy(w)
      <4>1. PICK q : /\ q \in {queue \o <<>>, queue \o <<Event("Unmap", w)>>}
                     /\ queue' = q \o <<Event("Destroy", w)>>
        BY <3>2 DEF ClientDestroy
      <4>2. Longer(q)
        BY <2>1, <2>2, <2>3, <4>1
      <4>3. QED BY <2>2, <2>3, <4>1, <4>2
    <3>3. CASE ClientDock(w)
      <4>1. /\ w \in Embedders
            /\ queue' \in {(queue \o <<Event("Dock", w)>>) \o <<>>,
                          (queue \o <<Event("Dock", w)>>) \o <<Event("MapRequest", w)>>}
        BY <3>3 DEF ClientDock
      <4>2. Longer(queue \o <<Event("Dock", w)>>)
        BY <2>1, <2>2, <2>3, <4>1
      <4>3. QED BY <2>2, <2>3, <4>1, <4>2
    <3>4. QED BY <3>1, <3>2, <3>3
  <2>5. QED BY <2>4 DEF Longer
<1>4. ASSUME NEW v \in Window PROVE Balance(v)'
  <2>1. CASE v \in managed' \cap alive'
    <3>1. (v \in wants => v \in wants') /\ (v \in viewable => v \in viewable')
      BY <1>2, <2>1
    <3>2. QED BY <1>1, <1>2, <1>3, <3>1, BalanceKept DEF Balanced, Meant, Ready
  <2>2. CASE v \notin managed' \cap alive'
    BY <2>2 DEF Balance
  <2>3. QED BY <2>1, <2>2
<1>5. QED BY <1>4 DEF Balanced

\* Whatever a handler makes of the window w, the others keep their balance, and
\* w starts anew or is forgotten.
LEMMA HandlerBalanced ==
  ASSUME Tidy, Tidy', Balanced, Ready, NEW w \in Window, UNCHANGED <<alive, wants>>,
         viewable \subseteq viewable',
         \A v \in Window : v # w => Count(queue', v) >= Count(queue, v),
         \/ Ignore /\ (w \in managed => Count(queue', w) >= Count(queue, w))
         \/ Unmanage(w)
         \/ w \notin managed /\ (w \in alive => w \in wants \/ GivesUp) /\ \E shown : Manage(w, shown)
  PROVE  Balanced'
<1>1. arrange.hiding = None /\ w # None /\ \A v \in Window : v # None
  BY NoneIsNoWindow DEF Tidy, RepositoryOK
<1>2. CASE Ignore
  <2>1. UNCHANGED <<managed, ignored, onScreen, scratch, arrange>>
    BY <1>2 DEF Ignore
  <2>2. ASSUME NEW v \in Window PROVE Balance(v)'
    <3>1. CASE v \in managed /\ v = w
      <4>1. Count(queue', v) >= Count(queue, v)
        BY <1>2, <3>1 DEF Unmanage, Manage, Ignore
      <4>2. QED BY <1>1, <2>1, <4>1, BalanceKept DEF Balanced, Meant, Ready
    <3>2. CASE v # w
      <4>1. Count(queue', v) >= Count(queue, v)
        BY <3>2
      <4>2. QED BY <1>1, <2>1, <4>1, BalanceKept DEF Balanced, Meant, Ready
    <3>3. CASE v \notin managed
      BY <2>1, <3>3 DEF Balance
    <3>4. QED BY <3>1, <3>2, <3>3
  <2>3. QED BY <2>2 DEF Balanced
<1>3. ASSUME NEW v \in Window, v # w, ignored'[v] = ignored[v], managed' \ {w} \subseteq managed,
             ~Ready', scratch'.win = v => scratch' = scratch
      PROVE  Balance(v)'
  <2>1. Meant(v)' => Meant(v)
    BY <1>3 DEF Meant
  <2>2. Count(queue', v) >= Count(queue, v)
    BY <1>3
  <2>3. v \in managed' \cap alive' => v \in managed \cap alive
    BY <1>3
  <2>4. QED BY <1>1, <1>3, <2>1, <2>2, <2>3, BalanceKept DEF Balanced
<1>4. CASE Unmanage(w)
  <2>1. /\ managed' = managed \ {w} /\ ignored' = [ignored EXCEPT ![w] = 0]
        /\ scratch' = Forgotten(w) /\ ~Ready'
    BY <1>4, ArrangeStartsRight DEF Unmanage, ArrangeStarts, Ready
  <2>2. \A v \in Window : v # w => ignored'[v] = ignored[v]
    BY <2>1 DEF Tidy, RepositoryOK
  <2>3. \A v \in Window : scratch'.win = v => scratch' = scratch
    BY <1>1, <2>1 DEF Forgotten, NoScratch
  <2>4. Balance(w)'
    BY <2>1 DEF Balance
  <2>5. QED BY <1>3, <2>1, <2>2, <2>3, <2>4 DEF Balanced
<1>5. CASE w \notin managed /\ (w \in alive => w \in wants \/ GivesUp) /\ \E shown : Manage(w, shown)
  <2>1. /\ managed' = managed \cup {w} /\ ignored' = [ignored EXCEPT ![w] = 0]
        /\ scratch' = scratch /\ ~Ready' /\ arrange'.hiding = None
    BY <1>5 DEF Manage, ArrangeStarts, Ready
  <2>2. \A v \in Window : v # w => ignored'[v] = ignored[v]
    BY <2>1 DEF Tidy, RepositoryOK
  <2>3. Balance(w)'
    <3>1. ignored'[w] = 0
      BY <2>1 DEF Tidy, RepositoryOK
    <3>2. Count(queue', w) \in Nat
      BY CountIsNat DEF Tidy, QueueOK
    <3>3. ~Meant(w)'
      BY <1>1, <1>5, <2>1 DEF Meant, Tidy, RepositoryOK
    <3>4. Unseen(w)' = 0 /\ Leaving(w)' = 0
      BY <1>1, <2>1, <3>3 DEF Unseen, Leaving
    <3>5. w \in alive' => Unwanted(w)' = 0
      BY <1>5 DEF Unwanted
    <3>6. QED BY <3>1, <3>2, <3>4, <3>5 DEF Balance
  <2>4. QED BY <1>3, <2>1, <2>2, <2>3 DEF Balanced
<1>6. QED BY <1>2, <1>4, <1>5

LEMMA DispatchBalanced ==
  ASSUME Tidy, Tidy', Balanced, Dispatch
  PROVE  Balanced'
<1>1. PICK w \in Window :
        /\ w = Head(queue).win /\ queue # <<>>
        /\ Head(queue).type = "Dock" => w \in Embedders
  BY QueueAdvances DEF Dispatch, Tidy, QueueOK, Message
<1> DEFINE rest == Tail(queue)
           type == Head(queue).type
<1>2. Ready /\ queue \in Seq(Message) /\ rest \in Seq(Message)
  BY <1>1, QueueAdvances DEF Dispatch, Tidy, QueueOK
<1>3. \A v \in Window : v # w \/ type # "Unmap" => Count(rest, v) = Count(queue, v)
  <2> TAKE v \in Window
  <2>1. v # w \/ type # "Unmap" => ~IsUnmapOf(Head(queue), v)
    BY <1>1 DEF IsUnmapOf
  <2>2. Count(queue, v) \in Nat /\ Count(rest, v) \in Nat
    BY <1>2, CountIsNat
  <2>3. QED BY <1>1, <1>2, <2>1, <2>2, CountTail
<1>4. \A v \in Window : Count(queue, v) \in Nat
  BY <1>2, CountIsNat
<1>5. \A v \in Window : v # w \/ type # "Unmap" => Count(rest, v) >= Count(queue, v)
  BY <1>3, <1>4
<1>6. CASE type = "MapRequest" /\ queue' = rest /\ HandleMapRequest(w)
  <2>1. w \in alive => w \in wants
    <3>1. 1 \in 1..Len(queue) /\ queue[1] = Head(queue)
      BY <1>1, <1>2, QueueAdvances
    <3>2. QED BY <1>1, <1>6, <3>1 DEF Tidy, QueueOK, MapsAreWanted
  <2>2. /\ UNCHANGED <<alive, wants, viewable>>
        /\ \/ Ignore
           \/ w \notin managed /\ \E shown : Manage(w, shown)
    BY <1>6 DEF HandleMapRequest, server
  <2>3. \A v \in Window : Count(queue', v) >= Count(queue, v)
    BY <1>5, <1>6
  <2>4. QED BY <1>2, <2>1, <2>2, <2>3, HandlerBalanced
<1>7. CASE type = "Unmap" /\ queue' = rest /\ HandleUnmapNotify(w)
  <2>1. UNCHANGED <<alive, wants, viewable>> /\ \A v \in Window : v # w => Count(queue', v) >= Count(queue, v)
    BY <1>5, <1>7 DEF HandleUnmapNotify, server
  <2>2. CASE w \notin managed /\ Ignore
    BY <1>2, <2>1, <2>2, HandlerBalanced
  <2>3. CASE Unmanage(w)
    BY <1>2, <2>1, <2>3, HandlerBalanced
  <2>4. CASE /\ ignored[w] > 0 /\ ignored' = Consumed(w)
             /\ UNCHANGED <<managed, onScreen, scratch, arrange>>
    <3>1. ASSUME NEW v \in Window, v # w PROVE Balance(v)'
      <4>1. ignored'[v] = ignored[v]
        BY <2>4, <3>1 DEF Consumed, Tidy, RepositoryOK
      <4>2. Count(queue', v) >= Count(queue, v)
        BY <2>1, <3>1
      <4>3. QED BY <2>1, <2>4, <4>1, <4>2, BalanceKept DEF Balanced, Meant, Ready
    <3>2. Balance(w)'
      <4>1. ignored[w] \in Nat /\ ignored'[w] = ignored[w] - 1
        BY <2>4 DEF Consumed, Tidy, RepositoryOK
      <4>2. Count(queue, w) = Count(rest, w) + 1 /\ Count(rest, w) \in Nat
        BY <1>1, <1>2, <1>7, CountTail, CountIsNat DEF IsUnmapOf
      <4>3. Unwanted(w)' = Unwanted(w) /\ Unseen(w)' = Unseen(w) /\ Leaving(w)' = Leaving(w)
        BY <2>1, <2>4 DEF Unwanted, Unseen, Leaving, Meant, Ready
      <4>4. Unwanted(w) \in {0, 1} /\ Unseen(w) \in {0, 1} /\ Leaving(w) \in {0, 1}
        BY DEF Unwanted, Unseen, Leaving
      <4>5. CASE w \in managed \cap alive
        <5>1. ignored[w] + Unwanted(w) + Unseen(w) <= Count(queue, w) + Leaving(w)
          BY <4>5 DEF Balanced, Balance
        <5>2. ignored'[w] + Unwanted(w)' + Unseen(w)' <= Count(queue', w) + Leaving(w)'
          <6>1. queue' = rest
            BY <1>7
          <6>2. QED BY <4>1, <4>2, <4>3, <4>4, <5>1, <6>1
        <5>3. QED BY <5>2 DEF Balance
      <4>6. CASE w \notin managed \cap alive
        BY <2>1, <2>4, <4>6 DEF Balance
      <4>7. QED BY <4>5, <4>6
    <3>3. QED BY <3>1, <3>2 DEF Balanced
  <2>5. QED BY <1>7, <2>2, <2>3, <2>4 DEF HandleUnmapNotify
<1>8. CASE type = "Destroy" /\ queue' = rest /\ HandleDestroyNotify(w)
  <2>1. UNCHANGED <<alive, wants, viewable>> /\ \A v \in Window : v # w => Count(queue', v) >= Count(queue, v)
    BY <1>5, <1>8 DEF HandleDestroyNotify, server
  <2>2. (Ignore /\ w \notin managed) \/ Unmanage(w)
    BY <1>8 DEF HandleDestroyNotify
  <2>3. QED BY <1>2, <2>1, <2>2, HandlerBalanced
<1>9. CASE type = "Dock" /\ HandleDockRequest(w, rest)
  <2>1. UNCHANGED <<alive, wants>> /\ viewable \subseteq viewable'
    BY <1>9 DEF HandleDockRequest, server
  <2>2. (Ignore /\ w \notin managed) \/ Unmanage(w)
    BY <1>9 DEF HandleDockRequest, Undone, Tidy, DockingOK
  <2>3. ASSUME NEW v \in Window PROVE Count(queue', v) >= Count(queue, v)
    <3>1. queue' = rest \/ queue' = Append(rest, Event("Unmap", w))
      BY <1>9 DEF HandleDockRequest
    <3>2. Event("Unmap", w) \in Message
      BY EventIsMessage DEF EventType
    <3>3. Count(rest, v) = Count(queue, v) /\ Count(queue, v) \in Nat
      BY <1>3, <1>4, <1>9
    <3>4. Count(Append(rest, Event("Unmap", w)), v) >= Count(rest, v)
      BY <1>2, <3>2, CountGrows
    <3>5. CASE queue' = rest
      BY <3>3, <3>5
    <3>6. CASE queue' = Append(rest, Event("Unmap", w))
      BY <3>3, <3>4, <3>6
    <3>7. QED BY <3>1, <3>5, <3>6
  <2>4. QED BY <1>2, <2>1, <2>2, <2>3, HandlerBalanced
<1>10. QED BY <1>1, <1>6, <1>7, <1>8, <1>9 DEF Dispatch

LEMMA TickBalanced ==
  ASSUME Tidy, Tidy', Balanced, NEW w \in Window, TickPending(w)
  PROVE  Balanced'
<1>1. Ready /\ UNCHANGED <<alive, wants, viewable, queue>> /\ w \in pending
  BY DEF TickPending, server
<1>2. \/ Ignore
      \/ w \in alive \ managed /\ \E shown : Manage(w, shown)
  BY DEF TickPending, GiveUpOn
<1>3. w \in alive => w \in wants \/ GivesUp
  BY <1>1 DEF Tidy, DockingOK
<1>4. \A v \in Window : Count(queue', v) >= Count(queue, v)
  BY <1>1, BalanceIsNat
<1>5. QED BY <1>1, <1>2, <1>3, <1>4, HandlerBalanced

\* An unmap that Kohiko causes adds at most one event.
LEMMA UnmapCounts ==
  ASSUME Tidy, NEW w \in Window,
         queue' = IF w \in viewable THEN Append(queue, Event("Unmap", w)) ELSE queue
  PROVE  /\ \A v \in Window : Count(queue', v) >= Count(queue, v)
         /\ w \in viewable => Count(queue', w) = Count(queue, w) + 1
         /\ w \notin viewable => Count(queue', w) = Count(queue, w)
<1>1. /\ Event("Unmap", w) \in Message /\ IsUnmapOf(Event("Unmap", w), w) /\ queue \in Seq(Message)
  BY EventIsMessage DEF EventType, IsUnmapOf, Tidy, QueueOK
<1>2. CASE w \in viewable
  <2>1. queue' = Append(queue, Event("Unmap", w))
    BY <1>2
  <2>2. QED BY <1>1, <1>2, <2>1, CountGrows, CountAppend
<1>3. CASE w \notin viewable
  <2>1. \A v \in Window : Count(queue, v) \in Nat
    BY <1>1, CountIsNat
  <2>2. QED BY <1>3, <2>1
<1>4. QED BY <1>2, <1>3

LEMMA ArrangeBalanced ==
  ASSUME Tidy, Tidy', Balanced, ArrangeNext
  PROVE  Balanced'
<1>0. \A v \in Window : v # None /\ Count(queue, v) \in Nat
  BY NoneIsNoWindow, BalanceIsNat
<1>1. ASSUME NEW w \in Window, ArrangeCheck(w) PROVE Balanced'
  <2>1. /\ UNCHANGED <<alive, viewable, wants, queue, managed, onScreen, scratch>>
        /\ arrange.phase = "hide" /\ arrange.hiding = None /\ w \in arrange.todo
        /\ arrange'.phase = "hide"
        /\ w \in viewable => arrange'.hiding = w /\ ignored' = [ignored EXCEPT ![w] = @ + 1]
        /\ w \notin viewable => arrange'.hiding = None /\ ignored' = ignored
    BY <1>1 DEF ArrangeCheck, Counted, server, Tidy, RepositoryOK
  <2>2. ASSUME NEW v \in Window, v # w \/ w \notin viewable PROVE Balance(v)'
    <3>1. ignored'[v] = ignored[v] /\ Count(queue', v) >= Count(queue, v) /\ v # arrange.hiding
      BY <1>0, <2>1, <2>2 DEF Tidy, RepositoryOK
    <3>2. QED BY <2>1, <3>1, BalanceKept DEF Balanced, Meant, Ready
  <2>3. ASSUME w \in viewable PROVE Balance(w)'
    <3>1. /\ ignored[w] \in Nat /\ ignored'[w] = ignored[w] + 1
      BY <2>1, <2>3 DEF Tidy, RepositoryOK
    <3>2. Leaving(w) = 0 /\ Leaving(w)' = 1
      BY <1>0, <2>1, <2>3 DEF Leaving
    <3>3. Unwanted(w)' = Unwanted(w) /\ Unseen(w)' = Unseen(w)
      BY <2>1 DEF Unwanted, Unseen, Meant, Ready
    <3>4. Unwanted(w) \in {0, 1} /\ Unseen(w) \in {0, 1}
      BY DEF Unwanted, Unseen
    <3>5. CASE w \in managed \cap alive
      <4>1. ignored[w] + Unwanted(w) + Unseen(w) <= Count(queue, w) + Leaving(w)
        BY <3>5 DEF Balanced, Balance
      <4>2. ignored'[w] + Unwanted(w)' + Unseen(w)' <= Count(queue, w) + Leaving(w)'
        BY <1>0, <3>1, <3>2, <3>3, <3>4, <4>1
      <4>3. QED BY <2>1, <4>2 DEF Balance
    <3>6. CASE w \notin managed \cap alive
      BY <2>1, <3>6 DEF Balance
    <3>7. QED BY <3>5, <3>6
  <2>4. QED BY <2>2, <2>3 DEF Balanced
<1>2. ASSUME ArrangeHide PROVE Balanced'
  <2>1. PICK w \in Window : w = arrange.hiding
    BY <1>2 DEF ArrangeHide, Tidy, RepositoryOK
  <2>2. /\ UNCHANGED <<alive, wants, managed, ignored, onScreen, scratch>>
        /\ arrange'.hiding = None /\ arrange'.phase = arrange.phase /\ viewable' = viewable \ {w}
        /\ queue' = IF w \in viewable THEN Append(queue, Event("Unmap", w)) ELSE queue
    BY <1>2, <2>1 DEF ArrangeHide, Tidy, RepositoryOK
  <2>3. ASSUME NEW v \in Window, v # w PROVE Balance(v)'
    <3>1. Count(queue', v) >= Count(queue, v)
      BY <2>2, UnmapCounts
    <3>2. QED BY <2>1, <2>2, <2>3, <3>1, BalanceKept DEF Balanced, Meant, Ready
  <2>4. Balance(w)'
    <3>1. ~Meant(w) /\ ~Meant(w)'
      <4>1. ~Ready /\ ~Ready' /\ w # scratch.win
        BY <1>0, <2>1, <2>2 DEF Tidy, RepositoryOK, Ready
      <4>2. QED BY <2>2, <4>1 DEF Meant
    <3>2. Unseen(w) = 0 /\ Unseen(w)' = 0 /\ Unwanted(w)' = Unwanted(w) /\ Unwanted(w) \in {0, 1}
      BY <2>2, <3>1 DEF Unseen, Unwanted
    <3>3. ignored[w] \in Nat /\ ignored'[w] = ignored[w] /\ Count(queue, w) \in Nat
      BY <2>2, BalanceIsNat
    <3>4. Count(queue', w) + Leaving(w)' = Count(queue, w) + Leaving(w)
      <4>1. CASE w \in viewable
        <5>1. Leaving(w) = 1 /\ Leaving(w)' = 0
          BY <1>0, <2>1, <2>2, <4>1 DEF Leaving
        <5>2. QED BY <2>2, <3>3, <4>1, <5>1, UnmapCounts
      <4>2. CASE w \notin viewable
        <5>1. Leaving(w) = 0 /\ Leaving(w)' = 0
          BY <2>2, <4>2 DEF Leaving
        <5>2. QED BY <2>2, <3>3, <4>2, <5>1, UnmapCounts
      <4>3. QED BY <4>1, <4>2
    <3>5. CASE w \in managed \cap alive
      <4>1. ignored[w] + Unwanted(w) + Unseen(w) <= Count(queue, w) + Leaving(w)
        BY <3>5 DEF Balanced, Balance
      <4>2. ignored'[w] + Unwanted(w)' + Unseen(w)' <= Count(queue', w) + Leaving(w)'
        BY <3>2, <3>3, <3>4, <4>1
      <4>3. QED BY <4>2 DEF Balance
    <3>6. CASE w \notin managed \cap alive
      BY <2>2, <3>6 DEF Balance
    <3>7. QED BY <3>5, <3>6
  <2>5. QED BY <2>3, <2>4 DEF Balanced
<1>3. ASSUME ArrangeShow PROVE Balanced'
  <2>1. /\ UNCHANGED <<alive, wants, queue, managed, ignored, onScreen, scratch>>
        /\ arrange.hiding = None /\ viewable' = viewable \cup ((onScreen \ {scratch.win}) \cap alive)
    BY <1>3 DEF ArrangeShow, ToShow
  <2>2. ASSUME NEW v \in Window, v \in alive PROVE Balance(v)'
    <3>1. Meant(v)' => Meant(v) \/ v \in viewable'
      BY <2>1, <2>2 DEF Meant
    <3>2. Count(queue', v) >= Count(queue, v) /\ v # arrange.hiding
      BY <1>0, <2>1
    <3>3. QED BY <2>1, <3>1, <3>2, BalanceKept DEF Balanced
  <2>3. ASSUME NEW v \in Window, v \notin alive PROVE Balance(v)'
    BY <2>1, <2>3 DEF Balance
  <2>4. QED BY <2>2, <2>3 DEF Balanced
<1>4. QED BY <1>1, <1>2, <1>3 DEF ArrangeNext

\* The scratchpad's unmap, counted whether the window is mapped or not, takes
\* a window off the screen that was meant to be there.
LEMMA HiddenBalanced ==
  ASSUME Tidy, Tidy', Balanced, Ready, NEW w \in Window, Meant(w), ~Meant(w)', Hidden(w),
         UNCHANGED <<alive, wants, managed>>, \A v \in Window : v # w => (Meant(v)' => Meant(v))
  PROVE  Balanced'
<1>0. arrange.hiding = None /\ \A v \in Window : v # None
  BY NoneIsNoWindow DEF Tidy, RepositoryOK
<1>1. /\ ignored' = IF w \in alive THEN [ignored EXCEPT ![w] = @ + 1] ELSE ignored
      /\ viewable' = viewable \ {w}
      /\ queue' = IF w \in viewable THEN Append(queue, Event("Unmap", w)) ELSE queue
  BY DEF Hidden
<1>2. ASSUME NEW v \in Window, v # w PROVE Balance(v)'
  <2>1. ignored'[v] = ignored[v] /\ (v \in viewable => v \in viewable')
    BY <1>1, <1>2 DEF Tidy, RepositoryOK
  <2>2. Count(queue', v) >= Count(queue, v) /\ v # arrange.hiding
    BY <1>0, <1>1, UnmapCounts
  <2>3. Meant(v)' => Meant(v)
    BY <1>2
  <2>4. QED BY <2>1, <2>2, <2>3, BalanceKept DEF Balanced
<1>3. Balance(w)'
  <2>1. CASE w \in managed \cap alive
    <3>1. ignored[w] \in Nat /\ ignored'[w] = ignored[w] + 1 /\ Count(queue, w) \in Nat
      BY <1>1, <2>1, BalanceIsNat DEF Tidy, RepositoryOK
    <3>2. ignored[w] + Unwanted(w) + Unseen(w) <= Count(queue, w) + Leaving(w)
      BY <2>1 DEF Balanced, Balance
    <3>3. /\ Leaving(w) = 0 /\ Leaving(w)' = 0 /\ Unseen(w)' = 0
          /\ Unwanted(w)' = Unwanted(w) /\ Unwanted(w) \in {0, 1}
      BY <1>0, <1>1 DEF Leaving, Unseen, Unwanted
    <3>4. Count(queue', w) = Count(queue, w) + (1 - Unseen(w)) /\ Unseen(w) \in {0, 1}
      <4>1. CASE w \in viewable
        <5>1. Unseen(w) = 0
          BY <4>1 DEF Unseen
        <5>2. QED BY <1>1, <3>1, <4>1, <5>1, UnmapCounts
      <4>2. CASE w \notin viewable
        <5>1. Unseen(w) = 1
          BY <4>2 DEF Unseen
        <5>2. QED BY <1>1, <3>1, <4>2, <5>1, UnmapCounts
      <4>3. QED BY <4>1, <4>2
    <3>5. ignored'[w] + Unwanted(w)' + Unseen(w)' <= Count(queue', w) + Leaving(w)'
      BY <3>1, <3>2, <3>3, <3>4
    <3>6. QED BY <3>5 DEF Balance
  <2>2. CASE w \notin managed \cap alive
    BY <2>2 DEF Balance
  <2>3. QED BY <2>1, <2>2
<1>4. QED BY <1>2, <1>3 DEF Balanced

LEMMA CommandsBalanced ==
  ASSUME Tidy, Tidy', Balanced, \/ \E shown \in SUBSET managed : Switch(shown)
                                \/ \E w \in Window : ScratchAssign(w)
                                \/ ScratchToggle \/ ScratchRelease
  PROVE  Balanced'
<1>0. /\ Ready /\ arrange.hiding = None /\ \A v \in Window : v # None /\ Count(queue, v) \in Nat
  BY NoneIsNoWindow, BalanceIsNat DEF Switch, ScratchAssign, ScratchToggle, ScratchRelease, Tidy, RepositoryOK
<1>1. ASSUME UNCHANGED <<alive, wants, queue, managed, ignored>>, viewable \subseteq viewable',
             \A v \in Window : v \in alive => (Meant(v)' => Meant(v) \/ v \in viewable')
      PROVE  Balanced'
  <2>1. ASSUME NEW v \in Window, v \in alive PROVE Balance(v)'
    <3>1. Count(queue', v) >= Count(queue, v) /\ v # arrange.hiding
      BY <1>0, <1>1
    <3>2. Meant(v)' => Meant(v) \/ v \in viewable'
      BY <1>1, <2>1
    <3>3. QED BY <1>1, <3>1, <3>2, BalanceKept DEF Balanced
  <2>2. ASSUME NEW v \in Window, v \notin alive PROVE Balance(v)'
    BY <1>1, <2>2 DEF Balance
  <2>3. QED BY <2>1, <2>2 DEF Balanced
<1>2. ArrangeStarts => ~Ready'
  BY DEF ArrangeStarts, Ready
<1>3. ASSUME NEW shown, Switch(shown) PROVE Balanced'
  <2>1. UNCHANGED <<alive, wants, viewable, queue, managed, ignored, scratch>> /\ ~Ready'
    BY <1>2, <1>3 DEF Switch, server
  <2>2. QED BY <1>1, <2>1 DEF Meant
<1>4. ASSUME NEW w \in Window, ScratchAssign(w) PROVE Balanced'
  <2>1. /\ scratch.win = None /\ w \in onScreen /\ scratch' = [win |-> w, shown |-> FALSE]
        /\ Hidden(w) /\ UNCHANGED <<alive, wants, managed>> /\ ~Ready'
    BY <1>2, <1>4 DEF ScratchAssign
  <2>2. Meant(w) /\ \A v \in Window : ~Meant(v)'
    BY <1>0, <2>1 DEF Meant
  <2>3. QED BY <1>0, <2>1, <2>2, HiddenBalanced
<1>5. ASSUME ScratchToggle PROVE Balanced'
  <2>1. PICK w \in Window : w = scratch.win
    BY <1>5 DEF ScratchToggle, Tidy, RepositoryOK
  <2>2. /\ UNCHANGED <<alive, wants, managed, onScreen, arrange>> /\ scratch'.win = w
        /\ scratch'.shown = ~scratch.shown
    BY <1>5, <2>1 DEF ScratchToggle, Tidy, RepositoryOK
  <2>3. \A v \in Window : v # w => (Meant(v)' => Meant(v))
    BY <2>1, <2>2 DEF Meant, Ready
  <2>4. CASE scratch.shown
    <3>1. Hidden(w) /\ Meant(w) /\ ~Meant(w)'
      BY <1>5, <2>1, <2>2, <2>4 DEF ScratchToggle, Meant
    <3>2. QED BY <1>0, <2>2, <2>3, <3>1, HiddenBalanced
  <2>5. CASE ~scratch.shown
    <3>1. viewable' = viewable \cup ({w} \cap alive) /\ UNCHANGED <<queue, ignored>>
      BY <1>5, <2>1, <2>5 DEF ScratchToggle
    <3>2. QED BY <1>1, <2>2, <2>3, <3>1
  <2>6. QED BY <2>4, <2>5
<1>6. ASSUME ScratchRelease PROVE Balanced'
  <2>1. /\ UNCHANGED <<alive, wants, viewable, queue, managed, ignored>> /\ ~Ready'
        /\ scratch' = [win |-> None, shown |-> FALSE]
    BY <1>2, <1>6 DEF ScratchRelease, NoScratch, server
  <2>2. \A v \in Window : ~Meant(v)'
    BY <2>1 DEF Meant
  <2>3. QED BY <1>1, <2>1, <2>2
<1>7. QED BY <1>3, <1>4, <1>5, <1>6

LEMMA NextKeepsBalance ==
  ASSUME Tidy, Balanced, [Next]_vars
  PROVE  Balanced'
<1>0. Tidy'
  BY NextKeepsTidy
<1>1. ASSUME UNCHANGED <<alive, wants, viewable, queue, managed, ignored, onScreen, scratch, arrange>>
      PROVE  Balanced'
  BY <1>1 DEF Balanced, Balance, Unwanted, Unseen, Leaving, Meant, Ready
<1>2. ASSUME NEW w \in Window, DeadlinePasses(w) PROVE Balanced'
  BY <1>1, <1>2 DEF DeadlinePasses, server
<1>3. CASE UNCHANGED vars
  BY <1>1, <1>3 DEF vars, server
<1>4. QED BY <1>0, <1>2, <1>3, WithdrawBalanced, ClientsBalanced, DispatchBalanced, TickBalanced,
             ArrangeBalanced, CommandsBalanced DEF Next

----------------------------------------------------------------------------
(***************************************************************************)
(* The theorems.                                                           *)
(***************************************************************************)

Accounted == Tidy /\ Balanced

LEMMA AlwaysAccounted == Spec => []Accounted
<1>1. Init => Accounted
  <2> SUFFICES ASSUME Init PROVE Accounted
    OBVIOUS
  <2>1. Tidy
    BY InitTidy
  <2>2. Balanced
    BY DEF Init, Balanced, Balance
  <2>3. QED BY <2>1, <2>2 DEF Accounted
<1>2. Accounted /\ [Next]_vars => Accounted'
  BY NextKeepsTidy, NextKeepsBalance DEF Accounted
<1>3. QED BY <1>1, <1>2, PTL DEF Spec

\* What has nothing on its way any more.
LEMMA QuietIsSettled ==
  ASSUME Accounted, Quiet
  PROVE  /\ managed \cup pending \subseteq alive
         /\ \A w \in managed : (w \in wants \/ GivesUp) /\ (Meant(w) => w \in viewable)
<1>1. Len(queue) = 0 /\ arrange.hiding = None
  BY DEF Quiet, Accounted, Tidy, RepositoryOK
<1>2. managed \cup pending \subseteq alive
  BY <1>1 DEF Accounted, Tidy, QueueOK, Announced
<1>3. ASSUME NEW w \in managed PROVE (w \in wants \/ GivesUp) /\ (Meant(w) => w \in viewable)
  <2>1. w \in Window /\ w # None
    BY NoneIsNoWindow DEF Accounted, Tidy, RepositoryOK
  <2>2. Count(queue, w) = 0
    <3>1. UnmapsIn(queue, w) = {}
      BY <1>1 DEF UnmapsIn
    <3>2. QED BY <3>1, FS_EmptySet DEF Count
  <2>3. ignored[w] + Unwanted(w) + Unseen(w) <= Count(queue, w) + Leaving(w) /\ ignored[w] \in Nat
    BY <1>2, <2>1, BalanceIsNat DEF Accounted, Balanced, Balance
  <2>4. Leaving(w) = 0 /\ Unwanted(w) \in {0, 1} /\ Unseen(w) \in {0, 1}
    BY <1>1, <2>1 DEF Leaving, Unwanted, Unseen
  <2>5. Unwanted(w) = 0 /\ Unseen(w) = 0
    BY <2>2, <2>3, <2>4
  <2>6. QED BY <2>5 DEF Unwanted, Unseen
<1>4. QED BY <1>2, <1>3

\* What a client closes is closed and what Kohiko hides is not, however their
\* requests cross: the count of unmaps to discount never exceeds those on their
\* way (Arrange, HideScratchpad, ConsumeIgnoredUnmap), so that no close is
\* taken for one of them.  Clients are assumed not to take back a window that
\* is still held back for the tray: of one that does, the UnmapNotify is
\* discarded and the window managed when its time is up.
THEOREM ClosesComeThrough == ASSUME ~GivesUp PROVE Spec => []ClosesAreNoticed
<1>1. Accounted => ClosesAreNoticed
  <2> SUFFICES ASSUME Accounted PROVE ClosesAreNoticed
    OBVIOUS
  <2> USE DEF Accounted
  <2>1. ClientTypeOK
    <3>1. queue \in Seq([type : EventType, win : Window])
      <4>1. Message \subseteq [type : EventType, win : Window]
        BY DEF Message
      <4>2. QED BY <4>1, SeqMonotonic DEF Tidy, QueueOK
    <3>2. QED BY <3>1 DEF ClientTypeOK, Tidy, ServerOK, RepositoryOK, DockingOK
  <2>2. CountsAreBacked
    <3> SUFFICES ASSUME Ready, NEW w \in managed, w \in alive
                 PROVE  ignored[w] <= Count(queue, w)
      BY CountIsUnmaps DEF CountsAreBacked
    <3>1. w \in Window /\ w # arrange.hiding
      BY NoneIsNoWindow DEF Tidy, RepositoryOK
    <3>2. ignored[w] + Unwanted(w) + Unseen(w) <= Count(queue, w) + Leaving(w)
      BY <3>1 DEF Balanced, Balance
    <3>3. Leaving(w) = 0 /\ Unwanted(w) \in {0, 1} /\ Unseen(w) \in {0, 1}
      BY <3>1 DEF Leaving, Unwanted, Unseen
    <3>4. QED BY <3>1, <3>2, <3>3, BalanceIsNat
  <2>3. CloseIsNoticed
    BY QuietIsSettled DEF CloseIsNoticed
  <2>4. QED BY <2>1, <2>2, <2>3 DEF ClosesAreNoticed
<1>2. QED BY <1>1, AlwaysAccounted, PTL

\* Nor is a window lost: once events are handled, what is on a shown workspace
\* is mapped although maps and unmaps of it may have crossed (ArrangeMonitor
\* maps it with an unmap still on its way); no window is both a tray icon and
\* managed; and one that dies while it is held back is let go.
THEOREM WindowsAreNotLost == Spec => []NoneIsLost
<1>1. Accounted => NoneIsLost
  <2> SUFFICES ASSUME Accounted PROVE NoneIsLost
    OBVIOUS
  <2>1. ShownIsMapped
    <3> SUFFICES ASSUME Quiet, NEW w \in onScreen \ {scratch.win} PROVE w \in viewable
      BY DEF ShownIsMapped
    <3>1. w \in managed /\ Meant(w)
      BY DEF Accounted, Tidy, RepositoryOK, Meant, Quiet
    <3>2. QED BY <3>1, QuietIsSettled
  <2>2. DockedOrManaged
    BY DEF DockedOrManaged, Accounted, Tidy, DockingOK
  <2>3. PendingIsAlive
    <3> SUFFICES ASSUME NEW w \in pending \ alive
                 PROVE  \E i \in Waiting(w) : queue[i].type = "Destroy"
      BY DEF PendingIsAlive
    <3>1. PICK i \in 1..Len(queue) : queue[i] = Event("Destroy", w)
      BY DEF Accounted, Tidy, QueueOK, Announced
    <3>2. QED BY <3>1 DEF Waiting, Event
  <2>4. QED BY <2>1, <2>2, <2>3 DEF NoneIsLost
<1>2. QED BY <1>1, AlwaysAccounted, PTL

=============================================================================
