---------------------------- MODULE InjectorProofs ----------------------------
(* The invariants of Injector, for any keys, tools and bound on the queue, on   *)
(* Wayland and Xorg, with and without the controller's hook.                   *)
EXTENDS Injector, SequenceTheorems, FiniteSetTheorems, TLAPS

-----------------------------------------------------------------------------
(* The order of the backends.                                                  *)

\* Sequences of two and of three, by their elements.
LEMMA PairIs ==
    ASSUME NEW S, NEW r \in Seq(S), Len(r) = 2, NEW a \in S, NEW b \in S,
           r[1] = a, r[2] = b
    PROVE  r = <<a, b>>
<1>1. <<a, b>> \in Seq(S) /\ Len(<<a, b>>) = 2
  OBVIOUS
<1> QED
  BY <1>1, SeqEqual

LEMMA TripleIs ==
    ASSUME NEW S, NEW r \in Seq(S), Len(r) = 3, NEW a \in S, NEW b \in S, NEW c \in S,
           r[1] = a, r[2] = b, r[3] = c
    PROVE  r = <<a, b, c>>
<1>1. <<a, b, c>> \in Seq(S) /\ Len(<<a, b, c>>) = 3
  OBVIOUS
<1>2. \A i \in 1..Len(r) : i = 1 \/ i = 2 \/ i = 3
  OBVIOUS
<1> QED
  BY <1>1, <1>2, SeqEqual

\* What putting them together gives.
LEMMA Joined ==
    ASSUME NEW a, NEW b, NEW c
    PROVE  /\ <<a>> \o <<b>> = <<a, b>>
           /\ <<a>> \o <<b, c>> = <<a, b, c>>
           /\ <<a, b>> \o <<c>> = <<a, b, c>>
<1> DEFINE S == {a, b, c}
           p == <<a>> \o <<b>>
           q == <<a>> \o <<b, c>>
           r == <<a, b>> \o <<c>>
<1>1. p \in Seq(S) /\ Len(p) = 2 /\ p[1] = a /\ p[2] = b
  OBVIOUS
<1>2. q \in Seq(S) /\ Len(q) = 3 /\ q[1] = a /\ q[2] = b /\ q[3] = c
  OBVIOUS
<1>3. r \in Seq(S) /\ Len(r) = 3 /\ r[1] = a /\ r[2] = b /\ r[3] = c
  OBVIOUS
<1> HIDE DEF p, q, r
<1>4. p = <<a, b>> /\ q = <<a, b, c>> /\ r = <<a, b, c>>
  BY <1>1, <1>2, <1>3, PairIs, TripleIs
<1> QED
  BY <1>4 DEF p, q, r

\* list.remove of three different elements.
LEMMA RemoveOfThree ==
    ASSUME NEW a, NEW b, NEW c, a # b, b # c, a # c
    PROVE  /\ RemoveFirst(<<a, b, c>>, a) = <<b, c>>
           /\ RemoveFirst(<<a, b, c>>, b) = <<a, c>>
           /\ RemoveFirst(<<a, b, c>>, c) = <<a, b>>
<1> DEFINE S == {a, b, c}
           s == <<a, b, c>>
<1>1. s \in Seq(S) /\ s[1] = a /\ s[2] = b /\ s[3] = c /\ Len(s) = 3
  OBVIOUS
<1> HIDE DEF s
<1>2. RemoveAt(s, 1) = <<b, c>>
  <2>1. /\ RemoveAt(s, 1) \in Seq(S) /\ Len(RemoveAt(s, 1)) = 2
        /\ RemoveAt(s, 1)[1] = b /\ RemoveAt(s, 1)[2] = c
    BY <1>1 DEF RemoveAt
  <2> QED
    BY <2>1, PairIs
<1>3. RemoveAt(s, 2) = <<a, c>>
  <2>1. /\ RemoveAt(s, 2) \in Seq(S) /\ Len(RemoveAt(s, 2)) = 2
        /\ RemoveAt(s, 2)[1] = a /\ RemoveAt(s, 2)[2] = c
    BY <1>1 DEF RemoveAt
  <2> QED
    BY <2>1, PairIs
<1>4. RemoveAt(s, 3) = <<a, b>>
  <2>1. /\ RemoveAt(s, 3) \in Seq(S) /\ Len(RemoveAt(s, 3)) = 2
        /\ RemoveAt(s, 3)[1] = a /\ RemoveAt(s, 3)[2] = b
    BY <1>1 DEF RemoveAt
  <2> QED
    BY <2>1, PairIs
<1>5. ASSUME NEW i \in 1..3
      PROVE  RemoveFirst(s, s[i]) = RemoveAt(s, i)
  <2> DEFINE e == s[i]
  <2>1. {j \in 1..Len(s) : s[j] = e} = {i}
    BY <1>1
  <2>2. Min({i}) = i
    BY DEF Min
  <2>3. i \in 1..Len(s) /\ s[i] = e
    BY <1>1
  <2> HIDE DEF e
  <2>4. SelectInSeq(s, LAMBDA v : v = e) = i
    BY <2>1, <2>2 DEF SelectInSeq
  <2>5. RemoveFirst(s, e) = RemoveAt(s, i)
    BY <2>3, <2>4 DEF RemoveFirst
  <2> QED
    BY <2>5 DEF e
<1>6. /\ RemoveFirst(s, a) = RemoveAt(s, 1)
      /\ RemoveFirst(s, b) = RemoveAt(s, 2)
      /\ RemoveFirst(s, c) = RemoveAt(s, 3)
  BY <1>1, <1>5
<1> QED
  BY <1>2, <1>3, <1>4, <1>6 DEF s

\* Each backend is in the order once, wherever the one that worked last has put it.
LEMMA OrderIsWhole ==
    ASSUME InjectorAssumption, backend \in Backends \cup {NoBackend}
    PROVE  \E a, b, c \in Backends : a # b /\ b # c /\ a # c /\ Order = <<a, b, c>>
<1> DEFINE x == "xdotool"
           y == "ydotool"
           p == "portal"
<1>1. NoBackend \notin Backends /\ Backends = {x, y, p}
  BY DEF InjectorAssumption, Backends
<1>2. x # y /\ y # p /\ x # p
  OBVIOUS
<1> DEFINE all == IF wayland THEN <<y, p, x>> ELSE <<x, y, p>>
<1>3. /\ RemoveFirst(<<y, p, x>>, x) = <<y, p>>
      /\ RemoveFirst(<<y, p, x>>, y) = <<p, x>>
      /\ RemoveFirst(<<y, p, x>>, p) = <<y, x>>
      /\ RemoveFirst(<<x, y, p>>, x) = <<y, p>>
      /\ RemoveFirst(<<x, y, p>>, y) = <<x, p>>
      /\ RemoveFirst(<<x, y, p>>, p) = <<x, y>>
  BY <1>2, RemoveOfThree
<1>4. Order = IF backend = NoBackend THEN all ELSE <<backend>> \o RemoveFirst(all, backend)
  BY DEF Order
<1>5. \A a, b, c \in Backends : <<a>> \o <<b, c>> = <<a, b, c>>
  BY Joined, Zenon
<1>6. CASE backend = NoBackend
  <2>1. Order = <<y, p, x>> \/ Order = <<x, y, p>>
    BY <1>4, <1>6
  <2> QED
    BY <1>1, <1>2, <2>1
<1>7. CASE backend = x
  <2>1. Order = <<x>> \o <<y, p>>
    BY <1>1, <1>3, <1>4, <1>7
  <2>2. Order = <<x, y, p>>
    BY <1>1, <1>5, <2>1
  <2> QED
    BY <1>1, <1>2, <2>2
<1>8. CASE backend = y
  <2>1. Order = <<y>> \o <<p, x>> \/ Order = <<y>> \o <<x, p>>
    BY <1>1, <1>3, <1>4, <1>8
  <2>2. Order = <<y, p, x>> \/ Order = <<y, x, p>>
    BY <1>1, <1>5, <2>1
  <2> QED
    BY <1>1, <1>2, <2>2
<1>9. CASE backend = p
  <2>1. Order = <<p>> \o <<y, x>> \/ Order = <<p>> \o <<x, y>>
    BY <1>1, <1>3, <1>4, <1>9
  <2>2. Order = <<p, y, x>> \/ Order = <<p, x, y>>
    BY <1>1, <1>5, <2>1
  <2> QED
    BY <1>1, <1>2, <2>2
<1> QED
  BY <1>1, <1>6, <1>7, <1>8, <1>9

\* Elements of s are different.
Distinct(s) == \A i, j \in 1..Len(s) : s[i] = s[j] => i = j

\* What is tried for a key: backends that can take it, each once.
LEMMA UsableOnce ==
    ASSUME InjectorAssumption, backend \in Backends \cup {NoBackend}, NEW k
    PROVE  /\ UsableFor(k) \in Seq(Backends) /\ Distinct(UsableFor(k))
           /\ \A i \in 1..Len(UsableFor(k)) : Usable(UsableFor(k)[i], k)
<1>1. PICK a \in Backends, b \in Backends, c \in Backends :
          a # b /\ b # c /\ a # c /\ Order = <<a, b, c>>
  BY OrderIsWhole
<1> DEFINE Try(d) == IF Usable(d, k) THEN <<d>> ELSE <<>>
<1>2. Order[1] = a /\ Order[2] = b /\ Order[3] = c
  BY <1>1
<1>3. UsableFor(k) = Try(a) \o Try(b) \o Try(c)
  BY <1>2 DEF UsableFor
<1>4. \A d \in Backends : \/ Try(d) = <<d>> /\ Usable(d, k)
                          \/ Try(d) = <<>>
  OBVIOUS
<1> HIDE DEF Try
<1> DEFINE s == UsableFor(k)
<1>5. \/ s = <<>>
      \/ s = <<a>> /\ Usable(a, k)
      \/ s = <<b>> /\ Usable(b, k)
      \/ s = <<c>> /\ Usable(c, k)
      \/ s = <<a, b>> /\ Usable(a, k) /\ Usable(b, k)
      \/ s = <<a, c>> /\ Usable(a, k) /\ Usable(c, k)
      \/ s = <<b, c>> /\ Usable(b, k) /\ Usable(c, k)
      \/ s = <<a, b, c>> /\ Usable(a, k) /\ Usable(b, k) /\ Usable(c, k)
  <2>1. /\ <<a>> \o <<b>> = <<a, b>> /\ <<a>> \o <<c>> = <<a, c>> /\ <<b>> \o <<c>> = <<b, c>>
        /\ <<a, b>> \o <<c>> = <<a, b, c>>
    BY Joined, Zenon
  <2>2. \A d \in Seq(Backends) : d \o <<>> = d /\ <<>> \o d = d
    BY ConcatEmptySeq
  <2>3. /\ {<<a>>, <<b>>, <<c>>} \subseteq Seq(Backends)
        /\ {<<a, b>>, <<a, c>>, <<b, c>>, <<>>} \subseteq Seq(Backends)
    OBVIOUS
  <2>4. \/ Try(a) \o Try(b) = <<a, b>> /\ Usable(a, k) /\ Usable(b, k)
        \/ Try(a) \o Try(b) = <<a>> /\ Usable(a, k)
        \/ Try(a) \o Try(b) = <<b>> /\ Usable(b, k)
        \/ Try(a) \o Try(b) = <<>>
    BY <1>4, <2>1, <2>2, <2>3
  <2> QED
    BY <1>3, <1>4, <2>1, <2>2, <2>3, <2>4
<1> HIDE DEF s
<1>6. s \in Seq(Backends) /\ Distinct(s)
  <2>1. /\ {<<>>, <<a>>, <<b>>, <<c>>} \subseteq Seq(Backends)
        /\ {<<a, b>>, <<a, c>>, <<b, c>>, <<a, b, c>>} \subseteq Seq(Backends)
    OBVIOUS
  <2>2. /\ Distinct(<<>>) /\ Distinct(<<a>>) /\ Distinct(<<b>>) /\ Distinct(<<c>>)
        /\ Distinct(<<a, b>>) /\ Distinct(<<a, c>>) /\ Distinct(<<b, c>>)
    BY <1>1 DEF Distinct
  <2>3. Distinct(<<a, b, c>>)
    BY <1>1 DEF Distinct
  <2> QED
    BY <1>5, <2>1, <2>2, <2>3
<1>7. \A i \in 1..Len(s) : Usable(s[i], k)
  BY <1>5
<1> QED
  BY <1>6, <1>7 DEF s

-----------------------------------------------------------------------------
(* The invariant.                                                              *)

\* Keys that are held are not tapped.
TapsNotHeld == tapping \notin Sticky

\* What is left to try for an event has not failed, and is tried once.
TodoSound ==
    busy => /\ Distinct(todo)
            /\ \A i \in 1..Len(todo) : todo[i] \in (Installed \cup {"portal"}) \ failed

HeldUsed == held \subseteq used \X Keys

\* Key k is to be down when everything asked for has reached a device ...
Wanted(k) == k \in pressed \cap Sticky \/ k = tapping

\* ... and is down now.
Down(k) == \E d \in Devices : <<d, k>> \in held

\* The last event for k that is queued.
LastFor(i, k) ==
    /\ i \in 1..Len(queue) /\ queue[i].key = k
    /\ \A j \in 1..Len(queue) : queue[j].key = k => j <= i

\* A key will be as it is wanted: its last event brings it there, or it is there.
Follows(k) ==
    /\ \A i \in 1..Len(queue) : LastFor(i, k) => (queue[i].down <=> Wanted(k))
    /\ (\A i \in 1..Len(queue) : queue[i].key # k) => (Down(k) <=> Wanted(k))

OneDevice == \E d \in Devices : used \subseteq {d}

Tracked == PreferInjector /\ OneDevice => \A k \in Keys : Follows(k)

Shape == TypeOK /\ TapsNotHeld /\ TodoSound /\ HeldUsed /\ GivesUpInTime

IInv == Shape /\ Tracked

LEMMA InitInv == Init => IInv
<1> SUFFICES ASSUME Init PROVE IInv
  OBVIOUS
<1>1. TypeOK
  <2>1. (busy <=> todo # <<>>) /\ (busy => queue # <<>>)
    BY Zenon DEF Init
  <2>2. queue \in Seq(Events) /\ todo \in Seq(Backends)
    BY DEF Init
  <2> QED
    BY <2>1, <2>2 DEF Init, TypeOK
<1>2. TapsNotHeld /\ TodoSound /\ HeldUsed
  BY InjectorAssumption DEF Init, TapsNotHeld, TodoSound, HeldUsed, InjectorAssumption
<1>3. GivesUpInTime
  BY DEF Init, GivesUpInTime
<1>4. Tracked
  BY InjectorAssumption DEF Init, Tracked, Follows, Wanted, Down, InjectorAssumption
<1> QED
  BY <1>1, <1>2, <1>3, <1>4 DEF IInv, Shape

-----------------------------------------------------------------------------
(* What is queued, and what reaches a device.                                  *)

LEMMA ReachesSound ==
    ASSUME TypeOK, HeldUsed, NEW d \in Devices, NEW e \in Events, Reaches(d, e)
    PROVE  /\ used' = used \cup {d} /\ used' \subseteq Devices
           /\ held' \subseteq Devices \X Keys /\ HeldUsed'
<1>1. e.key \in Keys
  BY DEF Events
<1>2. used' = used \cup {d}
  BY DEF Reaches
<1>3. held' \subseteq held \cup {<<d, e.key>>}
  BY DEF Reaches
<1> QED
  BY <1>1, <1>2, <1>3 DEF TypeOK, HeldUsed

\* The caller's side: an event is queued, reaches a device or is lost; as long as
\* the injector is the better path it is queued.
LEMMA Synthesized ==
    ASSUME TypeOK, HeldUsed, NEW e \in Events, SynthDone(e) \/ SynthFails(e)
    PROVE  /\ queue' \in Seq(Events) /\ (queue # <<>> => queue' # <<>>)
           /\ used \subseteq used' /\ used' \subseteq Devices
           /\ held' \subseteq Devices \X Keys /\ HeldUsed'
           /\ PreferInjector => queue' = Append(queue, e) /\ held' = held /\ used' = used
<1>1. ASSUME queue' = queue \/ queue' = Append(queue, e)
      PROVE  queue' \in Seq(Events) /\ (queue # <<>> => queue' # <<>>)
  BY <1>1 DEF TypeOK
<1>2. CASE Queue(e)
  <2>1. queue' = Append(queue, e) /\ held' = held /\ used' = used
    BY <1>2 DEF Queue, deviceVars
  <2> QED
    BY <1>1, <2>1 DEF TypeOK, HeldUsed
<1>3. CASE ~PreferInjector /\ Reaches("xtest", e) /\ queue' = queue
  <2>1. "xtest" \in Devices
    BY DEF Devices
  <2> QED
    BY <1>1, <1>3, <2>1, ReachesSound
<1>4. CASE exhausted /\ queue' = queue /\ held' = held /\ used' = used
  BY <1>1, <1>4 DEF TypeOK, HeldUsed, PreferInjector
<1> QED
  BY <1>2, <1>3, <1>4 DEF SynthDone, SynthFails, deviceVars

\* What can be tried is installed, or is the portal, and has not failed.
LEMMA UsableSound ==
    ASSUME NEW b \in Backends, NEW k, Usable(b, k)
    PROVE  b \in (Installed \cup {"portal"}) \ failed
  BY DEF Usable, Backends

LEMMA DeviceKnown == \A b : Device(b) \in Devices
  BY DEF Device, Devices

\* A step of the caller's that queues or injects leaves the worker as it is.
LEMMA CallerShape ==
    ASSUME Shape, UNCHANGED <<sessionVars, workerVars>>,
           queue' \in Seq(Events), queue # <<>> => queue' # <<>>,
           used' \subseteq Devices, held' \subseteq Devices \X Keys, HeldUsed',
           pressed' \subseteq Keys, tapping' \in Keys \cup {NoKey}, tapping' \notin Sticky
    PROVE  Shape'
<1>1. TypeOK'
  <2>1. (busy' <=> todo' # <<>>) /\ (busy' => queue' # <<>>)
    BY Zenon DEF Shape, TypeOK, workerVars
  <2> QED
    BY <2>1 DEF Shape, TypeOK, sessionVars, workerVars
<1>2. TapsNotHeld' /\ TodoSound' /\ GivesUpInTime'
  BY DEF Shape, TapsNotHeld, TodoSound, GivesUpInTime, workerVars
<1> QED
  BY <1>1, <1>2 DEF Shape

\* What a worker with something to try is busy with.
LEMMA WorkerBusy ==
    ASSUME TypeOK, busy
    PROVE  /\ todo \in Seq(Backends) /\ Head(todo) \in Backends /\ Head(todo) = todo[1]
           /\ Len(todo) \in Nat /\ 1 \in 1..Len(todo)
           /\ Tail(todo) \in Seq(Backends) /\ Len(Tail(todo)) = Len(todo) - 1
           /\ \A i \in 1..Len(Tail(todo)) : Tail(todo)[i] = todo[i + 1] /\ i + 1 \in 1..Len(todo)
           /\ Head(queue) \in Events /\ Head(queue) = queue[1]
           /\ Len(queue) \in Nat /\ 1 \in 1..Len(queue)
           /\ Tail(queue) \in Seq(Events) /\ Len(Tail(queue)) = Len(queue) - 1
           /\ \A i \in 1..Len(Tail(queue)) : Tail(queue)[i] = queue[i + 1]
                                             /\ i + 1 \in 1..Len(queue)
<1>1. todo # <<>> /\ queue # <<>> /\ todo \in Seq(Backends) /\ queue \in Seq(Events)
  BY DEF TypeOK
<1> QED
  BY <1>1

LEMMA ShapeStep == Shape /\ [Next]_vars => Shape'
<1> SUFFICES ASSUME Shape, [Next]_vars PROVE Shape'
  OBVIOUS
<1>0. TypeOK /\ HeldUsed /\ TapsNotHeld /\ InjectorAssumption
  BY InjectorAssumption DEF Shape
<1>1. ASSUME NEW k \in Keys, Press(k)
      PROVE  Shape'
  <2>1. Event(k, TRUE) \in Events
    BY DEF Event, Events
  <2>2. /\ SynthDone(Event(k, TRUE)) \/ SynthFails(Event(k, TRUE))
        /\ UNCHANGED <<sessionVars, workerVars>>
    BY <1>1 DEF Press
  <2>3. /\ pressed' \subseteq Keys /\ tapping' \in Keys \cup {NoKey} /\ tapping' \notin Sticky
    BY <1>0, <1>1 DEF Press, callerVars, TypeOK, TapsNotHeld, InjectorAssumption
  <2> QED
    BY <1>0, <2>1, <2>2, <2>3, Synthesized, CallerShape
<1>2. CASE EndTap
  <2>1. Event(tapping, FALSE) \in Events
    BY <1>0, <1>2 DEF EndTap, Event, Events, TypeOK
  <2>2. /\ SynthDone(Event(tapping, FALSE)) \/ SynthFails(Event(tapping, FALSE))
        /\ UNCHANGED <<sessionVars, workerVars>>
    BY <1>2 DEF EndTap
  <2>3. /\ pressed' \subseteq Keys /\ tapping' \in Keys \cup {NoKey} /\ tapping' \notin Sticky
    BY <1>0, <1>2 DEF EndTap, TypeOK, InjectorAssumption
  <2> QED
    BY <1>0, <2>1, <2>2, <2>3, Synthesized, CallerShape
<1>3. ASSUME NEW k \in Keys, Release(k)
      PROVE  Shape'
  <2>1. Event(k, FALSE) \in Events
    BY DEF Event, Events
  <2>2. /\ pressed' \subseteq Keys /\ tapping' \in Keys \cup {NoKey} /\ tapping' \notin Sticky
        /\ UNCHANGED <<sessionVars, workerVars>>
    BY <1>0, <1>3 DEF Release, TypeOK, TapsNotHeld, InjectorAssumption
  <2>3. CASE k \in Sticky
    <3>1. SynthDone(Event(k, FALSE)) \/ SynthFails(Event(k, FALSE))
      BY <1>3, <2>3 DEF Release
    <3> QED
      BY <1>0, <2>1, <2>2, <3>1, Synthesized, CallerShape
  <2>4. CASE k \notin Sticky
    <3>1. UNCHANGED <<queue, used, held>>
      BY <1>3, <2>4 DEF Release, deviceVars
    <3>2. queue' \in Seq(Events) /\ used' \subseteq Devices /\ held' \subseteq Devices \X Keys
          /\ HeldUsed' /\ (queue # <<>> => queue' # <<>>)
      BY <1>0, <3>1 DEF TypeOK, HeldUsed
    <3> QED
      BY <2>2, <3>2, CallerShape
  <2> QED
    BY <2>3, <2>4
<1>4. CASE DispatchNowhere
  <2>1. /\ ~busy /\ queue # <<>> /\ queue' = Tail(queue) /\ exhausted' = TRUE
        /\ UNCHANGED <<sessionVars, callerVars, todo, busy, backend, failed, deviceVars>>
    BY <1>4 DEF DispatchNowhere
  <2>2. queue' \in Seq(Events)
    BY <1>0, <2>1 DEF TypeOK
  <2>3. (busy' <=> todo' # <<>>) /\ ~busy'
    BY <1>0, <2>1, Zenon DEF TypeOK
  <2>4. TypeOK'
    BY <1>0, <2>1, <2>2, <2>3 DEF TypeOK, sessionVars, callerVars, deviceVars
  <2>5. TapsNotHeld' /\ TodoSound' /\ HeldUsed'
    BY <1>0, <2>1 DEF TapsNotHeld, TodoSound, HeldUsed, callerVars, deviceVars
  <2>6. GivesUpInTime'
    BY <2>1 DEF GivesUpInTime
  <2> QED
    BY <2>4, <2>5, <2>6 DEF Shape
<1>5. CASE BeginDispatch
  <2> DEFINE k == Head(queue).key
  <2>1. /\ ~busy /\ queue # <<>> /\ UsableFor(k) # <<>> /\ todo' = UsableFor(k) /\ busy' = TRUE
        /\ UNCHANGED <<sessionVars, callerVars, queue, backend, failed, exhausted, deviceVars>>
    BY <1>5 DEF BeginDispatch
  <2>2. /\ UsableFor(k) \in Seq(Backends) /\ Distinct(UsableFor(k))
        /\ \A i \in 1..Len(UsableFor(k)) : Usable(UsableFor(k)[i], k)
    BY <1>0, UsableOnce DEF TypeOK
  <2> HIDE DEF k
  <2>3. \A i \in 1..Len(UsableFor(k)) : UsableFor(k)[i] \in (Installed \cup {"portal"}) \ failed
    <3> SUFFICES ASSUME NEW i \in 1..Len(UsableFor(k))
                 PROVE  UsableFor(k)[i] \in (Installed \cup {"portal"}) \ failed
      OBVIOUS
    <3>1. UsableFor(k)[i] \in Backends /\ Usable(UsableFor(k)[i], k)
      BY <2>2
    <3> QED
      BY <3>1, UsableSound
  <2>4. (busy' <=> todo' # <<>>) /\ (busy' => queue' # <<>>)
    BY <2>1, Zenon
  <2>5. TypeOK'
    BY <1>0, <2>1, <2>2, <2>4 DEF TypeOK, sessionVars, callerVars, deviceVars
  <2>6. TodoSound'
    BY <2>1, <2>2, <2>3 DEF TodoSound
  <2>7. TapsNotHeld' /\ HeldUsed' /\ GivesUpInTime'
    BY <1>0, <2>1 DEF TapsNotHeld, HeldUsed, GivesUpInTime, callerVars, deviceVars
  <2> QED
    BY <2>5, <2>6, <2>7 DEF Shape
<1>6. CASE BackendTakes
  <2>1. /\ busy /\ busy' = FALSE /\ Reaches(Device(Head(todo)), Head(queue))
        /\ backend' = Head(todo) /\ queue' = Tail(queue) /\ todo' = <<>>
        /\ UNCHANGED <<sessionVars, callerVars, failed, exhausted>>
    BY <1>6 DEF BackendTakes
  <2>2. /\ Head(todo) \in Backends /\ Head(queue) \in Events /\ Tail(queue) \in Seq(Events)
        /\ Head(todo) = todo[1] /\ 1 \in 1..Len(todo)
    BY <1>0, <2>1, WorkerBusy
  <2>3. used' \subseteq Devices /\ held' \subseteq Devices \X Keys /\ HeldUsed'
    BY <1>0, <2>1, <2>2, DeviceKnown, ReachesSound
  <2>4. (busy' <=> todo' # <<>>) /\ (busy' => queue' # <<>>)
    BY <2>1, Zenon
  <2>9. /\ queue' \in Seq(Events) /\ todo' \in Seq(Backends)
        /\ backend' \in Backends \cup {NoBackend} /\ busy' \in BOOLEAN
        /\ UNCHANGED <<wayland, hook, pressed, tapping, failed, exhausted>>
    <3>1. <<>> \in Seq(Backends)
      OBVIOUS
    <3>2. UNCHANGED <<wayland, hook, pressed, tapping, failed, exhausted>>
      BY <2>1, Zenon DEF sessionVars, callerVars
    <3>3. busy' \in BOOLEAN
      BY <2>1, Zenon
    <3> QED
      BY <2>1, <2>2, <3>1, <3>2, <3>3, Zenon
  <2>5. TypeOK'
    BY <1>0, <2>3, <2>4, <2>9 DEF TypeOK
  <2>6. TapsNotHeld' /\ TodoSound'
    BY <1>0, <2>1 DEF TapsNotHeld, TodoSound, callerVars
  <2>7. Head(todo) \in (Installed \cup {"portal"}) \ failed
    BY <2>1, <2>2 DEF Shape, TodoSound
  <2>8. GivesUpInTime'
    BY <2>1, <2>7 DEF GivesUpInTime
  <2> QED
    BY <2>3, <2>5, <2>6, <2>8 DEF Shape
<1>7. CASE BackendFails
  <2>1. /\ busy /\ failed' = failed \cup {Head(todo)}
        /\ Reaches(Device(Head(todo)), Head(queue)) \/ (held' = held /\ used' = used)
        /\ UNCHANGED <<sessionVars, callerVars, backend>>
    BY <1>7 DEF BackendFails, deviceVars
  <2>2. /\ Head(todo) \in Backends /\ Head(queue) \in Events
        /\ Tail(queue) \in Seq(Events) /\ Tail(todo) \in Seq(Backends)
        /\ Head(todo) = todo[1] /\ Len(todo) \in Nat /\ 1 \in 1..Len(todo)
        /\ Len(Tail(todo)) = Len(todo) - 1
        /\ \A i \in 1..Len(Tail(todo)) : Tail(todo)[i] = todo[i + 1] /\ i + 1 \in 1..Len(todo)
    BY <1>0, <2>1, WorkerBusy
  <2>3. used' \subseteq Devices /\ held' \subseteq Devices \X Keys /\ HeldUsed'
    <3>1. CASE Reaches(Device(Head(todo)), Head(queue))
      BY <1>0, <2>2, <3>1, DeviceKnown, ReachesSound
    <3>2. CASE held' = held /\ used' = used
      BY <1>0, <3>2 DEF TypeOK, HeldUsed
    <3> QED
      BY <2>1, <3>1, <3>2
  <2>4. TapsNotHeld' /\ failed' \subseteq Backends
    BY <1>0, <2>1, <2>2 DEF TapsNotHeld, TypeOK, callerVars
  <2>5. CASE Len(todo) = 1
    <3>1. busy' = FALSE /\ todo' = <<>> /\ queue' = Tail(queue) /\ exhausted' = TRUE
      BY <1>7, <2>5 DEF BackendFails
    <3>2. (busy' <=> todo' # <<>>) /\ (busy' => queue' # <<>>)
      BY <3>1, Zenon
    <3>4. /\ queue' \in Seq(Events) /\ todo' \in Seq(Backends)
          /\ exhausted' \in BOOLEAN /\ busy' \in BOOLEAN
          /\ UNCHANGED <<wayland, hook, pressed, tapping, backend>>
      <4>1. <<>> \in Seq(Backends)
        OBVIOUS
      <4>2. UNCHANGED <<wayland, hook, pressed, tapping, backend>>
        BY <2>1, Zenon DEF sessionVars, callerVars
      <4>3. busy' \in BOOLEAN /\ exhausted' \in BOOLEAN
        BY <3>1, Zenon
      <4> QED
        BY <2>2, <3>1, <4>1, <4>2, <4>3, Zenon
    <3>3. TypeOK'
      BY <1>0, <2>3, <2>4, <3>2, <3>4 DEF TypeOK
    <3> QED
      BY <2>3, <2>4, <3>1, <3>3 DEF Shape, TodoSound, GivesUpInTime
  <2>6. CASE Len(todo) # 1
    <3>1. todo' = Tail(todo) /\ UNCHANGED <<busy, queue, exhausted>>
      BY <1>7, <2>6 DEF BackendFails
    <3>2. todo' # <<>> /\ queue # <<>>
      <4>1. Len(Tail(todo)) # 0
        BY <2>2, <2>6
      <4>2. todo' # <<>>
        <5>1. Len(<<>>) = 0
          OBVIOUS
        <5> QED
          BY <3>1, <4>1, <5>1, Zenon
      <4>3. queue # <<>>
        BY <1>0, <2>1, Zenon DEF TypeOK
      <4> QED
        BY <4>2, <4>3
    <3>3. (busy' <=> todo' # <<>>) /\ (busy' => queue' # <<>>)
      BY <2>1, <3>1, <3>2, Zenon
    <3>4. TypeOK'
      BY <1>0, <2>1, <2>2, <2>3, <2>4, <3>1, <3>3 DEF TypeOK, sessionVars, callerVars
    <3>5. TodoSound'
      <4>1. /\ Distinct(todo)
            /\ \A i \in 1..Len(todo) : todo[i] \in (Installed \cup {"portal"}) \ failed
        BY <2>1 DEF Shape, TodoSound
      <4>2. Distinct(todo')
        <5> SUFFICES ASSUME NEW i \in 1..Len(todo'), NEW j \in 1..Len(todo'), todo'[i] = todo'[j]
                     PROVE  i = j
          BY DEF Distinct
        <5>1. i + 1 \in 1..Len(todo) /\ j + 1 \in 1..Len(todo) /\ todo[i + 1] = todo[j + 1]
          BY <2>2, <3>1
        <5>2. i + 1 = j + 1
          BY <4>1, <5>1 DEF Distinct
        <5> QED
          BY <5>2
      <4>3. ASSUME NEW i \in 1..Len(todo')
            PROVE  todo'[i] \in (Installed \cup {"portal"}) \ failed'
        <5>1. i + 1 \in 1..Len(todo) /\ todo'[i] = todo[i + 1] /\ i + 1 # 1
          BY <2>2, <3>1
        <5>2. todo[i + 1] # todo[1]
          BY <2>2, <4>1, <5>1 DEF Distinct
        <5> QED
          BY <2>1, <2>2, <4>1, <5>1, <5>2
      <4> QED
        BY <4>2, <4>3 DEF TodoSound
    <3>6. GivesUpInTime'
      BY <2>1, <3>1 DEF GivesUpInTime
    <3> QED
      BY <2>3, <2>4, <3>4, <3>5, <3>6 DEF Shape
  <2> QED
    BY <2>5, <2>6
<1>8. CASE UNCHANGED vars
  <2>1. (busy' <=> todo' # <<>>) /\ (busy' => queue' # <<>>)
    BY <1>0, <1>8, Zenon DEF TypeOK, vars, workerVars
  <2>2. TypeOK'
    BY <1>0, <1>8, <2>1 DEF TypeOK, vars, sessionVars, callerVars, workerVars, deviceVars
  <2>3. TapsNotHeld' /\ TodoSound' /\ HeldUsed' /\ GivesUpInTime'
    BY <1>8 DEF Shape, TapsNotHeld, TodoSound, HeldUsed, GivesUpInTime, vars, callerVars,
                workerVars, deviceVars
  <2> QED
    BY <2>2, <2>3 DEF Shape
<1> QED
  BY <1>1, <1>2, <1>3, <1>4, <1>5, <1>6, <1>7, <1>8 DEF Next

-----------------------------------------------------------------------------
(* Nothing stays down, nothing is lifted early.                                *)

\* A key whose event is queued follows it; the others are not touched.
LEMMA FollowsQueued ==
    ASSUME TypeOK, \A k \in Keys : Follows(k), NEW e \in Events,
           queue' = Append(queue, e), held' = held, e.down <=> Wanted(e.key)',
           \A k \in Keys \ {e.key} : Wanted(k)' <=> Wanted(k)
    PROVE  \A k \in Keys : Follows(k)'
<1> SUFFICES ASSUME NEW k \in Keys PROVE Follows(k)'
  OBVIOUS
<1>1. /\ Len(queue) \in Nat /\ Len(queue') = Len(queue) + 1
      /\ \A i \in 1..Len(queue) : queue'[i] = queue[i] /\ i \in 1..Len(queue')
      /\ queue'[Len(queue) + 1] = e /\ Len(queue) + 1 \in 1..Len(queue')
      /\ \A i \in 1..Len(queue') : i \in 1..Len(queue) \/ i = Len(queue) + 1
  BY DEF TypeOK
<1>2. CASE e.key = k
  <2>1. ASSUME NEW i \in 1..Len(queue'), LastFor(i, k)'
        PROVE  queue'[i].down <=> Wanted(k)'
    <3>1. Len(queue) + 1 <= i
      BY <1>1, <1>2, <2>1 DEF LastFor
    <3>2. queue'[i] = e
      BY <1>1, <3>1
    <3> QED
      BY <1>2, <3>2
  <2>2. \E i \in 1..Len(queue') : queue'[i].key = k
    BY <1>1, <1>2
  <2> QED
    BY <2>1, <2>2 DEF Follows
<1>3. CASE e.key # k
  <2>1. ASSUME NEW i \in 1..Len(queue'), LastFor(i, k)'
        PROVE  queue'[i].down <=> Wanted(k)'
    <3>1. i \in 1..Len(queue) /\ queue'[i] = queue[i]
      BY <1>1, <1>3, <2>1 DEF LastFor
    <3>2. LastFor(i, k)
      BY <1>1, <2>1, <3>1 DEF LastFor
    <3> QED
      BY <1>3, <3>1, <3>2 DEF Follows
  <2>2. ASSUME \A i \in 1..Len(queue') : queue'[i].key # k
        PROVE  Down(k)' <=> Wanted(k)'
    <3>1. \A i \in 1..Len(queue) : queue[i].key # k
      BY <1>1, <2>2
    <3> QED
      BY <1>3, <3>1 DEF Follows, Down
  <2> QED
    BY <2>1, <2>2 DEF Follows
<1> QED
  BY <1>2, <1>3

\* The event at the head reaches the only device there is, and leaves the queue.
LEMMA FollowsTaken ==
    ASSUME TypeOK, HeldUsed', \A k \in Keys : Follows(k), busy, queue' = Tail(queue),
           NEW d \in Devices, Reaches(d, Head(queue)), OneDevice',
           UNCHANGED callerVars
    PROVE  \A k \in Keys : Follows(k)'
<1> SUFFICES ASSUME NEW k \in Keys PROVE Follows(k)'
  OBVIOUS
<1> DEFINE e == Head(queue)
<1>1. /\ e \in Events /\ e = queue[1] /\ Len(queue) \in Nat /\ 1 \in 1..Len(queue)
      /\ Len(queue') = Len(queue) - 1
      /\ \A i \in 1..Len(queue') : queue'[i] = queue[i + 1] /\ i + 1 \in 1..Len(queue)
      /\ \A i \in 1..Len(queue) : i = 1 \/ (i - 1 \in 1..Len(queue') /\ (i - 1) + 1 = i)
  BY WorkerBusy
<1>2. /\ used' = used \cup {d}
      /\ held' = IF e.down THEN held \cup {<<d, e.key>>} ELSE held \ {<<d, e.key>>}
  BY DEF Reaches
<1> HIDE DEF e
<1>3. Wanted(k)' <=> Wanted(k)
  BY DEF Wanted, callerVars
<1>4. ASSUME NEW i \in 1..Len(queue'), LastFor(i, k)'
      PROVE  queue'[i].down <=> Wanted(k)'
  <2>1. i + 1 \in 1..Len(queue) /\ queue'[i] = queue[i + 1]
    BY <1>1
  <2>2. ASSUME NEW j \in 1..Len(queue), queue[j].key = k
        PROVE  j <= i + 1
    <3>1. CASE j = 1
      BY <3>1
    <3>2. CASE j # 1
      <4>1. j - 1 \in 1..Len(queue') /\ queue'[j - 1] = queue[j]
        BY <1>1, <3>2
      <4>2. j - 1 <= i
        BY <1>4, <2>2, <4>1 DEF LastFor
      <4> QED
        BY <4>2
    <3> QED
      BY <3>1, <3>2
  <2>3. LastFor(i + 1, k)
    BY <1>4, <2>1, <2>2 DEF LastFor
  <2> QED
    BY <1>3, <2>1, <2>3 DEF Follows
<1>5. ASSUME \A i \in 1..Len(queue') : queue'[i].key # k
      PROVE  Down(k)' <=> Wanted(k)'
  <2>1. \A i \in 1..Len(queue) : queue[i].key = k => i = 1
    BY <1>1, <1>5
  <2>2. CASE e.key = k
    <3>1. LastFor(1, k)
      BY <1>1, <2>1, <2>2 DEF LastFor
    <3>2. e.down <=> Wanted(k)
      BY <1>1, <3>1 DEF Follows
    <3>3. CASE e.down
      BY <1>2, <1>3, <2>2, <3>2, <3>3 DEF Down
    <3>4. CASE ~e.down
      <4>1. <<d, k>> \notin held'
        BY <1>2, <2>2, <3>4
      <4>2. \A c \in Devices : <<c, k>> \in held' => c = d
        BY <1>2 DEF HeldUsed, OneDevice
      <4>3. ~Down(k)'
        BY <4>1, <4>2 DEF Down
      <4> QED
        BY <1>3, <3>2, <3>4, <4>3
    <3> QED
      BY <3>3, <3>4
  <2>3. CASE e.key # k
    <3>1. \A i \in 1..Len(queue) : queue[i].key # k
      BY <1>1, <2>1, <2>3
    <3>2. Down(k)' <=> Down(k)
      BY <1>2, <2>3 DEF Down
    <3> QED
      BY <1>3, <3>1, <3>2 DEF Follows
  <2> QED
    BY <2>2, <2>3
<1> QED
  BY <1>4, <1>5 DEF Follows

\* A backend that fails may have injected the event: it is still queued.
LEMMA FollowsRetried ==
    ASSUME TypeOK, \A k \in Keys : Follows(k), busy, UNCHANGED <<queue, callerVars>>,
           NEW d \in Devices, Reaches(d, Head(queue)) \/ held' = held
    PROVE  \A k \in Keys : Follows(k)'
<1> SUFFICES ASSUME NEW k \in Keys PROVE Follows(k)'
  OBVIOUS
<1>1. Head(queue) = queue[1] /\ 1 \in 1..Len(queue)
  BY WorkerBusy
<1>2. Wanted(k)' <=> Wanted(k)
  BY DEF Wanted, callerVars
<1>3. \A i \in 1..Len(queue) : LastFor(i, k)' <=> LastFor(i, k)
  BY DEF LastFor
<1>4. ASSUME \A i \in 1..Len(queue) : queue[i].key # k
      PROVE  Down(k)' <=> Down(k)
  <2>1. Head(queue).key # k
    BY <1>1, <1>4
  <2> QED
    BY <2>1 DEF Down, Reaches
<1> QED
  BY <1>2, <1>3, <1>4 DEF Follows

LEMMA TrackedStep == Shape /\ Tracked /\ [Next]_vars => Tracked'
<1> SUFFICES ASSUME Shape, Tracked, [Next]_vars, PreferInjector', OneDevice'
             PROVE  \A k \in Keys : Follows(k)'
  BY DEF Tracked
<1>0. TypeOK /\ HeldUsed /\ HeldUsed' /\ TapsNotHeld /\ InjectorAssumption
  BY InjectorAssumption, ShapeStep DEF Shape
<1>2. ASSUME UNCHANGED <<sessionVars, exhausted>>
      PROVE  PreferInjector
  BY <1>2 DEF PreferInjector, sessionVars
<1>3. ASSUME used \subseteq used'
      PROVE  OneDevice
  BY <1>3 DEF OneDevice
<1>4. ASSUME NEW k0 \in Keys, Press(k0)
      PROVE  \A k \in Keys : Follows(k)'
  <2> DEFINE e == Event(k0, TRUE)
  <2>1. /\ tapping = NoKey /\ UNCHANGED <<sessionVars, workerVars>>
        /\ SynthDone(e) \/ SynthFails(e)
    BY <1>4 DEF Press
  <2>2. PreferInjector /\ ~exhausted
    BY <1>2, <2>1 DEF workerVars, PreferInjector
  <2>3. /\ pressed' = pressed \cup {k0}
        /\ tapping' = IF k0 \in Sticky THEN NoKey ELSE k0
    BY <1>4, <2>2 DEF Press, SynthFails
  <2>4. e \in Events /\ e.key = k0 /\ e.down = TRUE
    BY DEF Event, Events
  <2>5. queue' = Append(queue, e) /\ held' = held /\ used' = used
    BY <1>0, <2>1, <2>2, <2>4, Synthesized
  <2>6. Wanted(k0)' /\ \A k \in Keys \ {k0} : Wanted(k)' <=> Wanted(k)
    BY <1>0, <2>1, <2>3 DEF Wanted, InjectorAssumption
  <2>7. \A k \in Keys : Follows(k)
    BY <1>3, <2>2, <2>5 DEF Tracked
  <2> HIDE DEF e
  <2>8. e.down <=> Wanted(e.key)'
    BY <2>4, <2>6
  <2> QED
    BY <1>0, <2>4, <2>5, <2>6, <2>7, <2>8, FollowsQueued
<1>5. CASE EndTap
  <2>1. tapping # NoKey /\ tapping' = NoKey /\ UNCHANGED <<sessionVars, workerVars, pressed>>
    BY <1>5 DEF EndTap
  <2>2. PreferInjector
    BY <1>2, <2>1 DEF workerVars
  <2>3. PICK t \in Keys : t = tapping /\ t \notin Sticky
    BY <1>0, <2>1 DEF TypeOK, TapsNotHeld
  <2> DEFINE e == Event(t, FALSE)
  <2>4. e \in Events /\ e.key = t /\ e.down = FALSE
    BY DEF Event, Events
  <2>5. queue' = Append(queue, e) /\ held' = held /\ used' = used
    <3>1. SynthDone(e) \/ SynthFails(e)
      BY <1>5, <2>3 DEF EndTap
    <3> QED
      BY <1>0, <2>2, <2>4, <3>1, Synthesized
  <2>6. ~Wanted(t)' /\ \A k \in Keys \ {t} : Wanted(k)' <=> Wanted(k)
    BY <1>0, <2>1, <2>3 DEF Wanted, InjectorAssumption
  <2>7. \A k \in Keys : Follows(k)
    BY <1>3, <2>2, <2>5 DEF Tracked
  <2> HIDE DEF e
  <2>8. e.down <=> Wanted(e.key)'
    BY <2>4, <2>6
  <2> QED
    BY <1>0, <2>4, <2>5, <2>6, <2>7, <2>8, FollowsQueued
<1>6. ASSUME NEW k0 \in Keys, Release(k0)
      PROVE  \A k \in Keys : Follows(k)'
  <2> DEFINE e == Event(k0, FALSE)
  <2>1. /\ tapping = NoKey /\ pressed' = pressed \ {k0}
        /\ UNCHANGED <<sessionVars, tapping, workerVars>>
    BY <1>6 DEF Release
  <2>2. PreferInjector
    BY <1>2, <2>1 DEF workerVars
  <2>3. CASE k0 \in Sticky
    <3>1. SynthDone(e) \/ SynthFails(e)
      BY <1>6, <2>3 DEF Release
    <3>2. e \in Events /\ e.key = k0 /\ e.down = FALSE
      BY DEF Event, Events
    <3>3. queue' = Append(queue, e) /\ held' = held /\ used' = used
      BY <1>0, <2>2, <3>1, <3>2, Synthesized
    <3>4. ~Wanted(k0)' /\ \A k \in Keys \ {k0} : Wanted(k)' <=> Wanted(k)
      BY <1>0, <2>1 DEF Wanted, InjectorAssumption
    <3>5. \A k \in Keys : Follows(k)
      BY <1>3, <2>2, <3>3 DEF Tracked
    <3> HIDE DEF e
    <3>6. e.down <=> Wanted(e.key)'
      BY <3>2, <3>4
    <3> QED
      BY <1>0, <3>2, <3>3, <3>4, <3>5, <3>6, FollowsQueued
  <2>4. CASE k0 \notin Sticky
    <3>1. UNCHANGED <<queue, held, used>>
      BY <1>6, <2>4 DEF Release, deviceVars
    <3>2. \A k \in Keys : Follows(k)
      BY <1>3, <2>2, <3>1 DEF Tracked
    <3>3. \A k \in Keys : Wanted(k)' <=> Wanted(k)
      BY <2>1, <2>4 DEF Wanted
    <3> QED
      BY <3>1, <3>2, <3>3 DEF Follows, LastFor, Down
  <2> QED
    BY <2>3, <2>4
<1>7. CASE DispatchNowhere
  BY <1>7 DEF DispatchNowhere, PreferInjector
<1>8. CASE BeginDispatch \/ UNCHANGED vars
  <2>1. UNCHANGED <<sessionVars, callerVars, queue, exhausted, held, used>>
    BY <1>8 DEF BeginDispatch, vars, workerVars, deviceVars
  <2>2. \A k \in Keys : Follows(k)
    BY <1>2, <1>3, <2>1 DEF Tracked
  <2> QED
    BY <2>1, <2>2 DEF Follows, LastFor, Down, Wanted, callerVars
<1>9. CASE BackendTakes
  <2>1. /\ busy /\ Reaches(Device(Head(todo)), Head(queue)) /\ queue' = Tail(queue)
        /\ UNCHANGED <<sessionVars, callerVars, exhausted>>
    BY <1>9 DEF BackendTakes
  <2>2. used \subseteq used'
    BY <2>1 DEF Reaches
  <2>3. \A k \in Keys : Follows(k)
    BY <1>2, <1>3, <2>1, <2>2 DEF Tracked
  <2> QED
    BY <1>0, <2>1, <2>3, DeviceKnown, FollowsTaken
<1>10. CASE BackendFails
  <2>1. /\ busy
        /\ \/ Reaches(Device(Head(todo)), Head(queue))
           \/ held' = held /\ used' = used
        /\ UNCHANGED <<sessionVars, callerVars>>
    BY <1>10 DEF BackendFails, deviceVars
  <2>2. UNCHANGED <<queue, exhausted>>
    BY <1>10 DEF BackendFails, PreferInjector
  <2>3. used \subseteq used'
    BY <2>1 DEF Reaches
  <2>4. \A k \in Keys : Follows(k)
    BY <1>2, <1>3, <2>1, <2>2, <2>3 DEF Tracked
  <2> DEFINE d == Device(Head(todo))
  <2>5. d \in Devices /\ (Reaches(d, Head(queue)) \/ held' = held)
    BY <2>1, DeviceKnown
  <2>6. UNCHANGED <<queue, callerVars>>
    BY <2>1, <2>2
  <2> HIDE DEF d
  <2> QED
    BY <1>0, <2>1, <2>4, <2>5, <2>6, FollowsRetried
<1> QED
  BY <1>4, <1>5, <1>6, <1>7, <1>8, <1>9, <1>10 DEF Next

LEMMA StepInv == IInv /\ [Next]_vars => IInv'
  BY ShapeStep, TrackedStep DEF IInv

\* Of at most one device there is one to name.
LEMMA AtMostOne ==
    ASSUME TypeOK, Cardinality(used) <= 1
    PROVE  OneDevice
<1>1. Devices = {"xtest", "uinput", "portal"}
  BY DEF Devices
<1>2. IsFiniteSet(Devices) /\ used \subseteq Devices
  <2>1. IsFiniteSet({"xtest"})
    BY FS_Singleton
  <2>2. IsFiniteSet({"xtest"} \cup {"uinput"})
    BY <2>1, FS_AddElement
  <2>3. IsFiniteSet(({"xtest"} \cup {"uinput"}) \cup {"portal"})
    BY <2>2, FS_AddElement
  <2>4. Devices = ({"xtest"} \cup {"uinput"}) \cup {"portal"}
    BY <1>1
  <2> QED
    BY <2>3, <2>4 DEF TypeOK
<1>3. IsFiniteSet(used) /\ Cardinality(used) \in Nat
  BY <1>2, FS_Subset, FS_CardinalityType
<1>4. CASE Cardinality(used) = 0
  <2>1. used = {}
    BY <1>3, <1>4, FS_EmptySet
  <2> QED
    BY <1>1, <2>1 DEF OneDevice
<1>5. CASE Cardinality(used) = 1
  <2>1. PICK d : used = {d}
    BY <1>3, <1>5, FS_Singleton
  <2> QED
    BY <1>2, <2>1 DEF OneDevice
<1> QED
  BY <1>3, <1>4, <1>5

-----------------------------------------------------------------------------
\* The state is of the declared types; in particular the worker is busy just
\* when it has something left to try for an event it has not taken off the queue.
THEOREM TypeCorrect == Spec => []TypeOK
<1>1. IInv => TypeOK
  BY DEF IInv, Shape
<1> QED
  BY <1>1, InitInv, StepInv, PTL DEF Spec

\* When every backend there is has failed, the injector knows, whichever of them
\* the session has, in whatever order they failed and whatever keys they know.
THEOREM InjectorGivesUp == Spec => []GivesUpInTime
<1>1. IInv => GivesUpInTime
  BY DEF IInv, Shape
<1> QED
  BY <1>1, InitInv, StepInv, PTL DEF Spec

\* Queue, taps and backends that fail half-way leave no key stuck and lift none
\* early, as long as one device does the work.
THEOREM NoKeyStuck == Spec => []NothingStuck
<1>1. IInv => NothingStuck
  <2> SUFFICES ASSUME IInv, Quiescent, PreferInjector, Cardinality(used) <= 1
               PROVE  held = used \X (pressed \cap Sticky)
    BY DEF NothingStuck
  <2>1. TypeOK /\ HeldUsed /\ queue = <<>> /\ tapping = NoKey /\ InjectorAssumption
    BY InjectorAssumption DEF IInv, Shape, Quiescent
  <2>2. PICK d \in Devices : used \subseteq {d}
    BY <2>1, AtMostOne DEF OneDevice
  <2>3. \A k \in Keys : Down(k) <=> k \in pressed \cap Sticky
    BY <2>1, <2>2 DEF IInv, Tracked, OneDevice, Follows, Wanted, InjectorAssumption
  <2>4. \A k \in Keys : <<d, k>> \in held <=> k \in pressed \cap Sticky
    BY <2>1, <2>2, <2>3 DEF Down, HeldUsed
  <2>5. pressed \cap Sticky \subseteq Keys /\ (held # {} => d \in used)
    BY <2>1, <2>2 DEF TypeOK, HeldUsed
  <2> QED
    BY <2>1, <2>2, <2>4, <2>5 DEF HeldUsed
<1> QED
  BY <1>1, InitInv, StepInv, PTL DEF Spec
=============================================================================
