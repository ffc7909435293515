-------------------------- MODULE MasterKeysProofs --------------------------
(***************************************************************************)
(* Proofs about MasterKeys for every keyboard, key map and queue bound.     *)
(***************************************************************************)
EXTENDS MasterKeys, FiniteSetTheorems, TLAPS

-----------------------------------------------------------------------------
(* The queue grows at its end and shrinks at its head.                      *)

\* An order of releasing the finite set ks is a sequence of release frames
\* that names every key of ks.
LEMMA ReleasesTyped ==
    ASSUME NEW ks \in SUBSET Vks, NEW rel \in Releases(ks)
    PROVE  /\ rel \in Seq(Work)
           /\ \A i \in DOMAIN rel : \E v \in ks : rel[i] = Frame(v, FALSE)
           /\ \A v \in ks : \E i \in DOMAIN rel : rel[i] = Frame(v, FALSE)
  <1>1. Cardinality(ks) \in Nat
    BY MasterAssumption, FS_Subset, FS_CardinalityType
  <1>2. PICK order \in [1..Cardinality(ks) -> ks] :
            /\ \A v \in ks : \E i \in 1..Cardinality(ks) : order[i] = v
            /\ rel = [i \in 1..Cardinality(ks) |-> Frame(order[i], FALSE)]
    BY DEF Releases
  <1>3. \A v \in ks : Frame(v, FALSE) \in Work
    BY DEF Frame, Work, Frames
  <1>4. rel \in [1..Cardinality(ks) -> Work]
    BY <1>2, <1>3
  <1>5. rel \in Seq(Work)
    BY <1>1, <1>4
  <1>. QED  BY <1>2, <1>5

\* What the actions queue is work for the loop.
LEMMA WorkTyped ==
    /\ Start \in Work /\ Stop \in Work
    /\ \A v \in Vks, down \in BOOLEAN : Frame(v, down) \in Work
  BY DEF Start, Stop, Frame, Work, Frames

\* Appending work keeps the queue a queue of work.
LEMMA AppendTyped ==
    ASSUME NEW q \in Seq(Work), NEW w \in Work
    PROVE  /\ Append(q, w) \in Seq(Work)
           /\ Append(q, w)[Len(Append(q, w))] = w
  OBVIOUS

\* A press is not a release, a stop or a start, and names its key.
LEMMA WorkDistinct ==
    ASSUME NEW v, NEW u
    PROVE  /\ Frame(v, TRUE) # Stop /\ Frame(v, TRUE) # Start /\ Start # Stop
           /\ Frame(v, FALSE) # Stop
           /\ Frame(v, TRUE) # Frame(u, FALSE)
           /\ v # u => Frame(v, TRUE) # Frame(u, TRUE)
           /\ v # u => Frame(v, FALSE) # Frame(u, FALSE)
  <1>1. Frame(v, TRUE).op # Stop.op /\ Frame(v, FALSE).op # Stop.op
    BY DEF Frame, Stop
  <1>2. Frame(v, TRUE).op # Start.op /\ Start.op # Stop.op
    BY DEF Frame, Start, Stop
  <1>3. Frame(v, TRUE).down # Frame(u, FALSE).down
    BY DEF Frame
  <1>4. v # u => /\ Frame(v, TRUE).vk # Frame(u, TRUE).vk
                 /\ Frame(v, FALSE).vk # Frame(u, FALSE).vk
    BY DEF Frame
  <1>. QED  BY <1>1, <1>2, <1>3, <1>4

\* LeaveFocus queues releases of all that was forwarded, then `after`.
LEMMA LeaveQueues ==
    ASSUME TypeOK, ~transport => fwd = {}, NEW after \in Seq(Work), LeaveFocus(after)
    PROVE  \E rel \in Seq(Work) :
              /\ loopQ' = loopQ \o (rel \o after)
              /\ \A i \in DOMAIN rel : \E v \in fwd : rel[i] = Frame(v, FALSE)
              /\ \A v \in fwd : \E i \in DOMAIN rel : rel[i] = Frame(v, FALSE)
  <1>1. PICK rel \in Releases(fwd) : loopQ' = Scheduled(rel) \o after
    BY DEF LeaveFocus
  <1>2. /\ rel \in Seq(Work)
        /\ \A i \in DOMAIN rel : \E v \in fwd : rel[i] = Frame(v, FALSE)
        /\ \A v \in fwd : \E i \in DOMAIN rel : rel[i] = Frame(v, FALSE)
    BY ReleasesTyped DEF TypeOK
  <1>3. CASE transport
    <2>1. loopQ' = loopQ \o (rel \o after)
      BY SMTT(30), <1>1, <1>2, <1>3 DEF Scheduled, TypeOK
    <2>. QED  BY <1>2, <2>1
  <1>4. CASE ~transport
    <2>1. loopQ' = loopQ \o (<<>> \o after)
      BY <1>1, <1>4 DEF Scheduled, TypeOK
    <2>2. <<>> \in Seq(Work) /\ DOMAIN <<>> = {} /\ fwd = {}
      BY <1>4
    <2>. QED  BY <2>1, <2>2
  <1>. QED  BY <1>3, <1>4

-----------------------------------------------------------------------------
(* Type correctness.                                                        *)

\* The three flags stay Boolean.
Flags == focus \in BOOLEAN /\ grab \in BOOLEAN /\ transport \in BOOLEAN

LEMMA FlagStep == Flags /\ [Next]_vars => Flags'
  <1> SUFFICES ASSUME Flags, [Next]_vars PROVE Flags'
    OBVIOUS
  <1>1. ASSUME UNCHANGED <<focus, grab, transport>> PROVE Flags'
    BY <1>1, Zenon DEF Flags
  <1>2. ASSUME NEW after, LeaveFocus(after), transport' \in BOOLEAN PROVE Flags'
    BY <1>2, Zenon DEF Flags, LeaveFocus
  <1>3. CASE FocusRemote
    BY <1>3, Zenon DEF Flags, FocusRemote
  <1>4. CASE FocusLocal \/ RunDisconnected
    BY <1>2, <1>4, Zenon DEF Flags, FocusLocal, RunDisconnected
  <1>5. ASSUME NEW restart \in BOOLEAN, StopTransport(restart) PROVE Flags'
    BY <1>2, <1>5, Zenon DEF StopTransport
  <1>6. CASE ConnectUp \/ LinkLost \/ RunLoop \/ UNCHANGED vars
    BY <1>1, <1>6 DEF ConnectUp, LinkLost, RunLoop, SendKey, RunStart, RunStop,
                      Takes, vars, glibVars
  <1>7. ASSUME NEW p \in PhysKeys, NEW down \in BOOLEAN, KeyEvent(p, down)
        PROVE  Flags'
    BY <1>1, <1>7 DEF KeyEvent
  <1>. QED
    BY <1>3, <1>4, <1>5, <1>6, <1>7
       DEF Next, PassEvent, ForwardPress, ForwardRelease, SwallowRelease

\* Every event, command, callback and loop step keeps the types.
LEMMA TypeStep == TypeOK /\ (~transport => fwd = {}) /\ [Next]_vars => TypeOK'
  <1> SUFFICES ASSUME TypeOK, ~transport => fwd = {}, [Next]_vars
               PROVE  TypeOK'
    OBVIOUS
  <1>. Flags'
    BY FlagStep DEF Flags, TypeOK
  <1> USE WorkTyped DEF Flags, TypeOK, glibVars, loopVars
  <1>1. ASSUME NEW p \in PhysKeys, NEW down \in BOOLEAN, KeyEvent(p, down),
               fwd' \subseteq Vks, loopQ' \in Seq(Work)
        PROVE  TypeOK'
    <2>1. SymOf(p) \in Keysyms
      BY MasterAssumption DEF SymOf
    <2>. QED  BY <1>1, <2>1 DEF KeyEvent, TrackOrcaMods
  <1>2. ASSUME NEW after \in Seq(Work), LeaveFocus(after),
               UNCHANGED <<phys, modsDown, link, wireHeld>>, lostCalls' \in Nat
        PROVE  TypeOK'
    <2>1. PICK rel \in Seq(Work) : loopQ' = loopQ \o (rel \o after)
      BY <1>2, LeaveQueues
    <2>2. loopQ' \in Seq(Work) /\ fwd' = {}
      BY <1>2, <2>1 DEF LeaveFocus
    <2>. QED  BY <1>2, <2>2
  <1>3. ASSUME NEW p \in PhysKeys, NEW down \in BOOLEAN, PassEvent(p, down)
        PROVE  TypeOK'
    BY <1>1, <1>3 DEF PassEvent
  <1>4. ASSUME NEW p \in PhysKeys, NEW v \in Vks,
               ForwardPress(p, v) \/ ForwardRelease(p, v) \/ SwallowRelease(p, v)
        PROVE  TypeOK'
    <2>1. fwd' \subseteq Vks /\ loopQ' \in Seq(Work)
      <3>1. Frame(v, TRUE) \in Work /\ Frame(v, FALSE) \in Work
        BY Zenon
      <3>2. /\ Append(loopQ, Frame(v, TRUE)) \in Seq(Work)
            /\ Append(loopQ, Frame(v, FALSE)) \in Seq(Work)
        BY <3>1, AppendTyped
      <3>3. CASE ForwardPress(p, v)
        BY <3>2, <3>3 DEF ForwardPress
      <3>4. CASE ForwardRelease(p, v)
        BY <3>2, <3>4 DEF ForwardRelease
      <3>5. CASE SwallowRelease(p, v)
        BY <3>5 DEF SwallowRelease
      <3>. QED  BY <1>4, <3>3, <3>4, <3>5
    <2>2. KeyEvent(p, TRUE) \/ KeyEvent(p, FALSE)
      BY <1>4 DEF ForwardPress, ForwardRelease, SwallowRelease
    <2>3. TRUE \in BOOLEAN /\ FALSE \in BOOLEAN
      OBVIOUS
    <2>. QED  BY <1>1, <2>1, <2>2, <2>3
  <1>5. CASE FocusRemote
    BY <1>5 DEF FocusRemote
  <1>6. CASE FocusLocal
    <2>1. <<>> \in Seq(Work) /\ LeaveFocus(<<>>)
      BY <1>6 DEF FocusLocal
    <2>. QED  BY <1>2, <1>6, <2>1 DEF FocusLocal
  <1>7. ASSUME NEW restart \in BOOLEAN, StopTransport(restart)
        PROVE  TypeOK'
    <2> DEFINE after == (IF transport THEN <<Stop>> ELSE <<>>)
                           \o (IF restart THEN <<Start>> ELSE <<>>)
    <2>1. after \in Seq(Work)
      OBVIOUS
    <2>2. LeaveFocus(after)
      BY <1>7 DEF StopTransport
    <2>. QED  BY <1>2, <1>7, <2>1, <2>2 DEF StopTransport
  <1>8. CASE RunDisconnected
    <2>1. <<>> \in Seq(Work) /\ LeaveFocus(<<>>) /\ lostCalls' \in Nat
      BY <1>8 DEF RunDisconnected
    <2>. QED  BY <1>2, <1>8, <2>1 DEF RunDisconnected
  <1>9. CASE RunLoop
    <2>1. loopQ' \in Seq(Work)
      BY <1>9 DEF RunLoop, SendKey, RunStart, RunStop, Takes
    <2>. QED
      BY <1>9, <2>1 DEF RunLoop, SendKey, RunStart, RunStop, Takes, ConnectionEnds
  <1>10. CASE ConnectUp \/ LinkLost
    BY <1>10 DEF ConnectUp, LinkLost, ConnectionEnds
  <1>11. CASE UNCHANGED vars
    BY <1>11 DEF vars
  <1>. QED
    BY <1>3, <1>4, <1>5, <1>6, <1>7, <1>8, <1>9, <1>10, <1>11 DEF Next

\* Two facts of the strengthening that need nothing of the queue.
PlainInv == (~transport => fwd = {}) /\ (link # "up" => wireHeld = {})

LEMMA PlainStep == PlainInv /\ [Next]_vars => PlainInv'
  BY DEF PlainInv, Next, vars, glibVars, loopVars, KeyEvent, PassEvent,
         ForwardPress, ForwardRelease, SwallowRelease, Forwardable, FocusRemote,
         FocusLocal, StopTransport, RunDisconnected, LeaveFocus, RunLoop, SendKey,
         RunStart, RunStop, ConnectUp, LinkLost, ConnectionEnds, Takes

\* Both facts and the types hold in every reachable state.
THEOREM TypeCorrect == Spec => [](TypeOK /\ PlainInv)
  <1>1. Init => TypeOK /\ PlainInv
    <2>1. Init => /\ focus \in BOOLEAN /\ grab \in BOOLEAN
                  /\ transport \in BOOLEAN /\ PlainInv
      BY Zenon DEF Init, PlainInv
    <2>. QED  BY <2>1 DEF Init, TypeOK
  <1>2. TypeOK /\ PlainInv /\ [Next]_vars => (TypeOK /\ PlainInv)'
    BY TypeStep, PlainStep DEF PlainInv
  <1>. QED  BY <1>1, <1>2, PTL DEF Spec

-----------------------------------------------------------------------------
(* No half of a pair is forgotten.                                          *)

\* Queueing more work, none of it a press of v, keeps what covers v.
LEMMA CoverKept ==
    ASSUME TypeOK, wireHeld' = wireHeld, NEW ext \in Seq(Work), loopQ' = loopQ \o ext,
           NEW v, NEW n \in Nat, NEW m \in Nat,
           n <= Len(loopQ), n <= m, m <= Len(loopQ'),
           \A i \in Nat : n < i /\ i <= m => loopQ'[i] # Frame(v, TRUE),
           Covered(v, n)
    PROVE  Covered(v, m)'
  <1>1. \A i \in 1..n : loopQ'[i] = loopQ[i] /\ i \in 1..m
    BY DEF TypeOK
  <1>2. {i \in 1..m : loopQ'[i] = Frame(v, TRUE)}
            = {i \in 1..n : loopQ[i] = Frame(v, TRUE)}
    <2>1. ASSUME NEW i \in 1..m, loopQ'[i] = Frame(v, TRUE)
          PROVE  i \in 1..n
      <3>1. i \in Nat /\ i <= m /\ 1 <= i
        OBVIOUS
      <3>2. ~ (n < i)
        BY <2>1, <3>1, Zenon
      <3>. QED  BY <3>1, <3>2
    <2>. QED  BY <1>1, <2>1
  <1>. QED  BY <1>1, <1>2 DEF Covered

\* A release of v queued behind everything, with no press of v after it, covers v.
LEMMA CoverMade ==
    ASSUME TypeOK, NEW ext \in Seq(Work), loopQ' = loopQ \o ext,
           NEW v, NEW m \in Nat, NEW k \in Nat,
           Len(loopQ) < k, k <= m, m <= Len(loopQ'),
           loopQ'[k] = Frame(v, FALSE),
           \A i \in Nat : Len(loopQ) < i /\ i <= m => loopQ'[i] # Frame(v, TRUE)
    PROVE  Covered(v, m)'
  <1>1. Len(loopQ) \in Nat /\ k \in 1..m
    BY DEF TypeOK
  <1>2. ASSUME NEW i \in 1..m, loopQ'[i] = Frame(v, TRUE)
        PROVE  i < k
    <2>1. i \in Nat /\ i <= m
      OBVIOUS
    <2>2. ~ (Len(loopQ) < i)
      BY <1>2, <2>1, Zenon
    <2>. QED  BY <1>1, <2>1, <2>2
  <1>. QED  BY <1>1, <1>2 DEF Covered

\* Running the head of the queue keeps what covers v.
LEMMA CoverTaken ==
    ASSUME TypeOK, PlainInv, RunLoop, NEW v \in Vks,
           NEW n \in Nat, n >= 1, n <= Len(loopQ), Covered(v, n)
    PROVE  Covered(v, n - 1)'
  <1>1. /\ loopQ # <<>> /\ loopQ' = Tail(loopQ) /\ Head(loopQ) = loopQ[1]
        /\ Len(loopQ) \in Nat
        /\ \A i \in 1 .. n - 1 : loopQ'[i] = loopQ[i + 1] /\ i + 1 \in 1..n
    <2>1. loopQ # <<>> /\ loopQ' = Tail(loopQ)
      BY DEF RunLoop, SendKey, RunStart, RunStop, Takes
    <2>. QED  BY <2>1 DEF TypeOK
  <1>2. v \in wireHeld' => v \in wireHeld \/ loopQ[1] = Frame(v, TRUE)
    <2>1. CASE \E u \in Vks, down \in BOOLEAN : SendKey(u, down)
      <3>1. PICK u \in Vks, down \in BOOLEAN : SendKey(u, down)
        BY <2>1
      <3>2. CASE down = TRUE
        BY <1>1, <3>1, <3>2 DEF SendKey, Takes
      <3>3. CASE down = FALSE
        BY <1>1, <3>1, <3>3 DEF SendKey, Takes
      <3>. QED  BY <3>2, <3>3
    <2>2. CASE RunStart \/ RunStop
      BY <2>2 DEF RunStart, RunStop, ConnectionEnds
    <2>. QED  BY <2>1, <2>2 DEF RunLoop
  <1>3. loopQ[1] \in {Frame(v, FALSE), Stop} => v \notin wireHeld'
    <2>1. CASE \E u \in Vks, down \in BOOLEAN : SendKey(u, down)
      <3>1. PICK u \in Vks, down \in BOOLEAN : SendKey(u, down)
        BY <2>1
      <3>2. loopQ[1] = Frame(u, down)
        BY <1>1, <3>1 DEF SendKey, Takes
      <3>3. CASE down = TRUE
        BY <3>2, <3>3, WorkDistinct
      <3>4. CASE down = FALSE
        <4>1. loopQ[1] = Frame(v, FALSE) => u = v
          BY <3>2, <3>4, WorkDistinct
        <4>2. loopQ[1] # Stop
          BY <3>2, <3>4, WorkDistinct
        <4>3. u \notin wireHeld'
          BY <3>1, <3>4 DEF SendKey, PlainInv
        <4>. QED  BY <4>1, <4>2, <4>3
      <3>. QED  BY <3>3, <3>4
    <2>2. CASE RunStart
      BY <2>2 DEF RunStart
    <2>3. CASE RunStop
      BY <2>3 DEF RunStop, ConnectionEnds, PlainInv
    <2>. QED  BY <2>1, <2>2, <2>3 DEF RunLoop
  <1> SUFFICES ASSUME \/ v \in wireHeld'
                      \/ \E i \in 1 .. n - 1 : loopQ'[i] = Frame(v, TRUE)
               PROVE  \E j \in 1 .. n - 1 :
                         /\ loopQ'[j] \in {Frame(v, FALSE), Stop}
                         /\ \A i \in 1 .. n - 1 : loopQ'[i] = Frame(v, TRUE) => i < j
    BY DEF Covered
  <1>4. v \in wireHeld \/ \E i \in 1..n : loopQ[i] = Frame(v, TRUE)
    <2>1. CASE v \in wireHeld'
      <3>1. 1 \in 1..n
        OBVIOUS
      <3>. QED  BY <1>2, <2>1, <3>1
    <2>2. CASE \E i \in 1 .. n - 1 : loopQ'[i] = Frame(v, TRUE)
      BY <1>1, <2>2
    <2>. QED  BY <2>1, <2>2
  <1>5. PICK j \in 1..n : /\ loopQ[j] \in {Frame(v, FALSE), Stop}
                          /\ \A i \in 1..n : loopQ[i] = Frame(v, TRUE) => i < j
    BY <1>4 DEF Covered
  <1>6. j # 1
    <2>1. ASSUME j = 1 PROVE FALSE
      <3>1. v \notin wireHeld'
        BY <1>3, <1>5, <2>1
      <3>2. PICK i \in 1 .. n - 1 : loopQ[i + 1] = Frame(v, TRUE) /\ i + 1 \in 1..n
        BY <1>1, <3>1
      <3>3. i + 1 < j
        BY <1>5, <3>2
      <3>. QED  BY <2>1, <3>3
    <2>. QED  BY <2>1
  <1>7. j - 1 \in 1 .. n - 1
    BY <1>6
  <1>8. (j - 1) + 1 = j
    OBVIOUS
  <1>9. loopQ'[j - 1] = loopQ[j]
    BY <1>1, <1>7, <1>8
  <1>10. ASSUME NEW i \in 1 .. n - 1, loopQ'[i] = Frame(v, TRUE)
         PROVE  i < j - 1
    <2>1. i + 1 \in 1..n /\ loopQ[i + 1] = Frame(v, TRUE)
      BY <1>1, <1>10
    <2>2. i + 1 < j
      BY <1>5, <2>1
    <2>. QED  BY <2>2
  <1>. QED  BY <1>5, <1>7, <1>9, <1>10

Tracked == HeldAreTracked /\ StopsAreClean

\* A step that neither queues nor sends, or that ends the connection, keeps it.
LEMMA TrackedQuiet ==
    ASSUME Tracked, UNCHANGED <<loopQ, fwd>>, wireHeld' \in {wireHeld, {}}
    PROVE  Tracked'
  <1>1. \A v, n : Covered(v, n) => Covered(v, n)'
    BY DEF Covered
  <1>. QED  BY <1>1 DEF Tracked, HeldAreTracked, StopsAreClean

\* Queueing a key frame: its own key is tracked, or was just released.
LEMMA TrackedFrame ==
    ASSUME TypeOK, Tracked, NEW v \in Vks, NEW down \in BOOLEAN,
           loopQ' = Append(loopQ, Frame(v, down)), UNCHANGED wireHeld,
           fwd' = IF down THEN fwd \cup {v} ELSE fwd \ {v}
    PROVE  Tracked'
  <1>1. PICK len \in Nat : len = Len(loopQ)
    BY DEF TypeOK
  <1>2. /\ Len(loopQ') = len + 1 /\ loopQ'[len + 1] = Frame(v, down)
        /\ DOMAIN loopQ = 1..len /\ DOMAIN loopQ' = 1 .. len + 1
        /\ \A i \in 1..len : loopQ'[i] = loopQ[i]
    BY <1>1 DEF TypeOK
  <1>3. PICK ext \in Seq(Work) : loopQ' = loopQ \o ext
    <2>1. Frame(v, down) \in Work
      BY WorkTyped
    <2>2. <<Frame(v, down)>> \in Seq(Work) /\ loopQ' = loopQ \o <<Frame(v, down)>>
      BY <2>1 DEF TypeOK
    <2>. QED  BY <2>2
  <1>4. ASSUME NEW n \in Nat, n <= len, NEW u, Covered(u, n)
        PROVE  Covered(u, n)'
    <2>1. n <= n /\ n <= Len(loopQ) /\ n <= Len(loopQ')
      BY <1>1, <1>2, <1>4
    <2>2. \A i \in Nat : n < i /\ i <= n => loopQ'[i] # Frame(u, TRUE)
      OBVIOUS
    <2>. QED  BY <1>3, <1>4, <2>1, <2>2, CoverKept
  <1>5. \A i \in Nat : len < i /\ i <= len + 1 => i = len + 1
    OBVIOUS
  <1>6. len + 1 \in Nat /\ len <= len + 1 /\ len < len + 1 /\ len + 1 <= Len(loopQ')
    BY <1>2
  <1>7. ASSUME NEW u \in Vks PROVE u \in fwd' \/ Covered(u, len + 1)'
    <2>1. CASE u # v
      <3>1. loopQ'[len + 1] # Frame(u, TRUE)
        <4>1. CASE down = TRUE
          BY <1>2, <2>1, <4>1, WorkDistinct
        <4>2. CASE down = FALSE
          BY <1>2, <4>2, WorkDistinct
        <4>. QED  BY <4>1, <4>2
      <3>2. u \in fwd \/ Covered(u, len)
        BY <1>1 DEF Tracked, HeldAreTracked
      <3>3. ASSUME Covered(u, len) PROVE Covered(u, len + 1)'
        <4>1. len <= Len(loopQ)
          BY <1>1
        <4>2. \A i \in Nat : len < i /\ i <= len + 1 => loopQ'[i] # Frame(u, TRUE)
          BY <1>5, <3>1
        <4>. QED  BY <1>3, <1>6, <3>3, <4>1, <4>2, CoverKept
      <3>. QED  BY <2>1, <3>2, <3>3
    <2>2. CASE u = v /\ down = TRUE
      BY <2>2
    <2>3. CASE u = v /\ down = FALSE
      <3>1. loopQ'[len + 1] = Frame(v, FALSE) /\ Frame(v, FALSE) # Frame(v, TRUE)
        BY <1>2, <2>3, WorkDistinct
      <3>2. \A i \in Nat : Len(loopQ) < i /\ i <= len + 1 => loopQ'[i] # Frame(v, TRUE)
        BY <1>1, <1>5, <3>1
      <3>3. Len(loopQ) < len + 1 /\ len + 1 <= len + 1
        BY <1>1
      <3>4. Covered(v, len + 1)'
        BY <1>3, <1>6, <3>1, <3>2, <3>3, CoverMade
      <3>. QED  BY <2>3, <3>4
    <2>. QED  BY <2>1, <2>2, <2>3
  <1>8. HeldAreTracked'
    BY <1>2, <1>7 DEF HeldAreTracked
  <1>9. ASSUME NEW n \in 1 .. len + 1, loopQ'[n] = Stop, NEW u \in Vks
        PROVE  Covered(u, n - 1)'
    <2>1. n # len + 1
      <3>1. Frame(v, down) # Stop
        BY WorkDistinct
      <3>. QED  BY <1>2, <1>9, <3>1
    <2>2. n \in 1..len /\ n - 1 \in Nat /\ n - 1 <= len
      BY <2>1
    <2>3. n \in DOMAIN loopQ /\ loopQ[n] = Stop
      BY <1>2, <1>9, <2>2
    <2>4. Covered(u, n - 1)
      BY <2>3 DEF Tracked, StopsAreClean
    <2>. QED  BY <1>4, <2>2, <2>4
  <1>10. StopsAreClean'
    BY <1>2, <1>9 DEF StopsAreClean
  <1>. QED  BY <1>8, <1>10 DEF Tracked

\* Leaving remote focus: everything tracked is released, and only then comes
\* what the caller queues.
LEMMA TrackedLeave ==
    ASSUME TypeOK, PlainInv, Tracked, NEW after \in Seq({Start, Stop}),
           LeaveFocus(after), UNCHANGED wireHeld
    PROVE  Tracked'
  <1>1. after \in Seq(Work)
    BY WorkTyped
  <1>2. PICK rel \in Seq(Work) :
            /\ loopQ' = loopQ \o (rel \o after)
            /\ \A i \in DOMAIN rel : \E v \in fwd : rel[i] = Frame(v, FALSE)
            /\ \A v \in fwd : \E i \in DOMAIN rel : rel[i] = Frame(v, FALSE)
    BY <1>1, LeaveQueues DEF PlainInv
  <1>3. PICK len \in Nat, mid \in Nat, end \in Nat :
            /\ len = Len(loopQ) /\ mid = len + Len(rel) /\ end = mid + Len(after)
    <2>1. Len(loopQ) \in Nat /\ Len(rel) \in Nat /\ Len(after) \in Nat
      BY <1>1 DEF TypeOK
    <2>. QED  BY <2>1
  <1>4. PICK ext \in Seq(Work) : ext = rel \o after
    <2>1. rel \o after \in Seq(Work)
      BY <1>1
    <2>. QED  BY <2>1, Zenon
  <1>5. /\ loopQ' = loopQ \o ext /\ end = Len(loopQ') /\ len <= mid /\ mid <= end
        /\ DOMAIN loopQ' = 1..end /\ DOMAIN loopQ = 1..len
    BY <1>1, <1>2, <1>3, <1>4 DEF TypeOK
  <1>6. \A i \in 1..len : loopQ'[i] = loopQ[i]
    BY <1>3, <1>5 DEF TypeOK
  <1>7. ASSUME NEW i \in Nat, len < i, i <= mid
        PROVE  loopQ'[i] = rel[i - len] /\ i - len \in DOMAIN rel
    <2>1. Len(ext) \in Nat /\ Len(rel) \in Nat /\ Len(loopQ) \in Nat
      BY DEF TypeOK
    <2>2. i - len \in 1..Len(rel) /\ i \in (Len(loopQ) + 1) .. (Len(loopQ) + Len(ext))
      BY <1>1, <1>3, <1>4, <1>7, <2>1
    <2>3. loopQ'[i] = ext[i - len]
      BY <1>3, <1>5, <2>2 DEF TypeOK
    <2>4. ext[i - len] = rel[i - len]
      BY <1>1, <1>4, <2>2
    <2>. QED  BY <2>2, <2>3, <2>4
  <1>8. ASSUME NEW i \in Nat, mid < i, i <= end
        PROVE  loopQ'[i] \in {Start, Stop}
    <2>1. i - mid \in 1..Len(after)
      BY <1>1, <1>3, <1>8
    <2>2. loopQ'[i] = after[i - mid]
      BY <1>1, <1>2, <1>3, <1>8 DEF TypeOK
    <2>. QED  BY <2>1, <2>2
  <1>9. ASSUME NEW v, NEW i \in Nat, len < i, i <= end
        PROVE  loopQ'[i] # Frame(v, TRUE)
    <2>1. CASE i <= mid
      <3>1. PICK u \in fwd : loopQ'[i] = Frame(u, FALSE)
        BY <1>2, <1>7, <1>9, <2>1
      <3>. QED  BY <3>1, WorkDistinct
    <2>2. CASE mid < i
      <3>1. loopQ'[i] \in {Start, Stop}
        BY <1>8, <1>9, <2>2
      <3>2. Frame(v, TRUE) # Start /\ Frame(v, TRUE) # Stop
        BY WorkDistinct, Zenon
      <3>. QED  BY <3>1, <3>2, Zenon
    <2>3. i <= mid \/ mid < i
      OBVIOUS
    <2>. QED  BY <2>1, <2>2, <2>3, Zenon
  <1>10. ASSUME NEW v \in Vks, NEW m \in Nat, mid <= m, m <= end
         PROVE  Covered(v, m)'
    <2>1. len <= m /\ m <= Len(loopQ') /\ len <= Len(loopQ)
      BY <1>3, <1>5, <1>10
    <2>2. ASSUME NEW i \in Nat, len < i, i <= m PROVE loopQ'[i] # Frame(v, TRUE)
      <3>1. i <= end
        BY <1>10, <2>2
      <3>. QED  BY <1>9, <2>2, <3>1
    <2>3. CASE v \in fwd
      <3>1. PICK i \in DOMAIN rel : rel[i] = Frame(v, FALSE)
        BY <1>2, <2>3
      <3>2. PICK k \in Nat : k = len + i /\ len < k /\ k <= mid /\ k - len = i
        <4>1. i \in 1..Len(rel) /\ Len(rel) \in Nat
          BY <3>1
        <4>2. /\ len + i \in Nat /\ len < len + i /\ len + i <= mid
              /\ (len + i) - len = i
          BY <1>3, <4>1
        <4>. QED  BY <4>2, Zenon
      <3>3. loopQ'[k] = Frame(v, FALSE)
        BY <1>7, <3>1, <3>2
      <3>4. k <= m /\ Len(loopQ) < k
        BY <1>3, <1>10, <3>2
      <3>5. \A i_1 \in Nat : Len(loopQ) < i_1 /\ i_1 <= m => loopQ'[i_1] # Frame(v, TRUE)
        BY <1>3, <2>2
      <3>. QED  BY <1>5, <2>1, <3>3, <3>4, <3>5, CoverMade
    <2>4. CASE v \notin fwd
      <3>1. Covered(v, len)
        BY <1>3, <2>4 DEF Tracked, HeldAreTracked
      <3>. QED  BY <1>5, <2>1, <2>2, <3>1, CoverKept
    <2>. QED  BY <2>3, <2>4
  <1>11. HeldAreTracked'
    BY <1>5, <1>10 DEF HeldAreTracked
  <1>12. ASSUME NEW n \in 1..end, loopQ'[n] = Stop, NEW v \in Vks
         PROVE  Covered(v, n - 1)'
    <2>1. CASE n <= len
      <3>1. n \in DOMAIN loopQ /\ loopQ[n] = Stop
        BY <1>5, <1>6, <1>12, <2>1
      <3>2. PICK m \in Nat : m = n - 1 /\ m <= len
        BY <2>1
      <3>3. Covered(v, m)
        BY <3>1, <3>2 DEF Tracked, StopsAreClean
      <3>4. m <= m /\ m <= Len(loopQ') /\ m <= Len(loopQ)
        BY <1>3, <1>5, <3>2
      <3>5. \A i \in Nat : m < i /\ i <= m => loopQ'[i] # Frame(v, TRUE)
        OBVIOUS
      <3>6. Covered(v, m)'
        BY <1>5, <3>3, <3>4, <3>5, CoverKept
      <3>. QED  BY <3>2, <3>6
    <2>2. CASE len < n /\ n <= mid
      <3>0. n \in Nat
        OBVIOUS
      <3>1. PICK u \in fwd : loopQ'[n] = Frame(u, FALSE)
        BY <1>2, <1>7, <2>2, <3>0
      <3>. QED  BY <1>12, <3>1, WorkDistinct
    <2>3. CASE mid < n
      <3>1. n - 1 \in Nat /\ mid <= n - 1 /\ n - 1 <= end
        BY <2>3
      <3>. QED  BY <1>10, <3>1
    <2>. QED  BY <2>1, <2>2, <2>3
  <1>13. StopsAreClean'
    BY <1>5, <1>12 DEF StopsAreClean
  <1>. QED  BY <1>11, <1>13 DEF Tracked

\* The loop running the head of its queue keeps it.
LEMMA TrackedLoop ==
    ASSUME TypeOK, PlainInv, Tracked, RunLoop
    PROVE  Tracked'
  <1>1. /\ loopQ # <<>> /\ loopQ' = Tail(loopQ) /\ fwd' = fwd
        /\ Len(loopQ) \in Nat /\ Len(loopQ) >= 1 /\ Len(loopQ') = Len(loopQ) - 1
        /\ DOMAIN loopQ' = 1..Len(loopQ') /\ DOMAIN loopQ = 1..Len(loopQ)
        /\ \A i \in DOMAIN loopQ' : loopQ'[i] = loopQ[i + 1]
    <2>1. loopQ # <<>> /\ loopQ' = Tail(loopQ) /\ fwd' = fwd
      BY DEF RunLoop, SendKey, RunStart, RunStop, Takes, glibVars
    <2>. QED  BY <2>1 DEF TypeOK
  <1>2. HeldAreTracked'
    BY <1>1, CoverTaken DEF Tracked, HeldAreTracked
  <1>3. ASSUME NEW n \in DOMAIN loopQ', loopQ'[n] = Stop, NEW v \in Vks
        PROVE  Covered(v, n - 1)'
    <2>1. n + 1 \in DOMAIN loopQ /\ loopQ[n + 1] = Stop /\ (n + 1) - 1 = n
      BY <1>1, <1>3
    <2>2. Covered(v, n)
      BY <2>1 DEF Tracked, StopsAreClean
    <2>3. n \in Nat /\ n >= 1 /\ n <= Len(loopQ)
      BY <1>1
    <2>. QED  BY <2>2, <2>3, CoverTaken
  <1>. QED  BY <1>2, <1>3 DEF Tracked, StopsAreClean

\* Stopping a transport leaves remote focus and queues stops and starts.
LEMMA StopLeaves ==
    ASSUME NEW restart \in BOOLEAN, StopTransport(restart)
    PROVE  \E after \in Seq({Start, Stop}) : LeaveFocus(after)
  <1>1. (IF transport THEN <<Stop>> ELSE <<>>)
           \o (IF restart THEN <<Start>> ELSE <<>>) \in Seq({Start, Stop})
    <2>1. \A s, t \in Seq({Start, Stop}) : s \o t \in Seq({Start, Stop})
      OBVIOUS
    <2>2. /\ <<Stop>> \in Seq({Start, Stop}) /\ <<Start>> \in Seq({Start, Stop})
          /\ <<>> \in Seq({Start, Stop})
      OBVIOUS
    <2>3. /\ (IF transport THEN <<Stop>> ELSE <<>>) \in Seq({Start, Stop})
          /\ (IF restart THEN <<Start>> ELSE <<>>) \in Seq({Start, Stop})
      BY <2>2, Zenon
    <2>. QED  BY <2>1, <2>3, Zenon
  <1>. QED  BY <1>1 DEF StopTransport

\* Every step keeps every held key tracked or its release queued, and every
\* stop behind the releases.
LEMMA TrackedStep ==
    TypeOK /\ PlainInv /\ Tracked /\ [Next]_vars => Tracked'
  <1> SUFFICES ASSUME TypeOK, PlainInv, Tracked, [Next]_vars PROVE Tracked'
    OBVIOUS
  <1> USE DEF glibVars, loopVars
  <1>1. ASSUME NEW p \in PhysKeys, NEW down \in BOOLEAN, PassEvent(p, down)
        PROVE  Tracked'
    BY <1>1, TrackedQuiet DEF PassEvent, KeyEvent
  <1>2. ASSUME NEW p \in PhysKeys, NEW v \in Vks, ForwardPress(p, v)
        PROVE  Tracked'
    BY <1>2, TrackedFrame DEF ForwardPress, KeyEvent
  <1>3. ASSUME NEW p \in PhysKeys, NEW v \in Vks, ForwardRelease(p, v)
        PROVE  Tracked'
    BY <1>3, TrackedFrame DEF ForwardRelease, KeyEvent
  <1>4. ASSUME NEW p \in PhysKeys, NEW v \in Vks, SwallowRelease(p, v)
        PROVE  Tracked'
    BY <1>4, TrackedQuiet DEF SwallowRelease, KeyEvent
  <1>5. CASE FocusRemote \/ ConnectUp \/ LinkLost \/ UNCHANGED vars
    BY <1>5, TrackedQuiet
       DEF FocusRemote, ConnectUp, LinkLost, ConnectionEnds, vars
  <1>6. CASE FocusLocal \/ RunDisconnected
    <2>1. <<>> \in Seq({Start, Stop}) /\ LeaveFocus(<<>>) /\ UNCHANGED wireHeld
      BY <1>6 DEF FocusLocal, RunDisconnected
    <2>. QED  BY <2>1, TrackedLeave
  <1>7. ASSUME NEW restart \in BOOLEAN, StopTransport(restart)
        PROVE  Tracked'
    <2>1. PICK after \in Seq({Start, Stop}) : LeaveFocus(after)
      BY <1>7, StopLeaves
    <2>. QED  BY <1>7, <2>1, TrackedLeave DEF StopTransport
  <1>8. CASE RunLoop
    BY <1>8, TrackedLoop
  <1>. QED
    BY <1>1, <1>2, <1>3, <1>4, <1>5, <1>6, <1>7, <1>8 DEF Next

\* The strengthened invariant holds in every reachable state.
THEOREM Strengthened == Spec => []IInv
  <1>1. Init => IInv
    <2>1. Init => /\ focus \in BOOLEAN /\ grab \in BOOLEAN /\ transport \in BOOLEAN
                  /\ PlainInv
      BY Zenon DEF Init, PlainInv
    <2>2. Init => Tracked
      BY DEF Init, Tracked, HeldAreTracked, StopsAreClean, Covered
    <2>. QED  BY <2>1, <2>2 DEF Init, IInv, TypeOK, PlainInv, Tracked
  <1>2. IInv /\ [Next]_vars => IInv'
    BY TypeStep, PlainStep, TrackedStep DEF IInv, PlainInv, Tracked
  <1>. QED  BY <1>1, <1>2, PTL DEF Spec

\* No half of a pair is forgotten: what the peer may hold for us is tracked,
\* or its release is queued behind every press of it.
THEOREM NoHalfForgotten == Spec => []HeldAreTracked
  <1>1. IInv => HeldAreTracked
    BY DEF IInv
  <1>. QED  BY <1>1, Strengthened, PTL

\* Keys are tracked, and the keyboard grabbed, only while focused remotely.
THEOREM OnlyInFocus == Spec => []FocusOwnsKeys
  <1>1. Init => FocusOwnsKeys
    BY DEF Init, FocusOwnsKeys
  <1>2. FocusOwnsKeys /\ [Next]_vars => FocusOwnsKeys'
    <2> SUFFICES ASSUME FocusOwnsKeys, [Next]_vars PROVE FocusOwnsKeys'
      OBVIOUS
    <2>1. ASSUME UNCHANGED <<focus, grab, fwd>> PROVE FocusOwnsKeys'
      BY <2>1, Zenon DEF FocusOwnsKeys
    <2>2. ASSUME NEW after, LeaveFocus(after) PROVE FocusOwnsKeys'
      BY <2>2, Zenon DEF FocusOwnsKeys, LeaveFocus
    <2>3. ASSUME focus, UNCHANGED focus PROVE FocusOwnsKeys'
      BY <2>3, Zenon DEF FocusOwnsKeys
    <2>4. CASE FocusRemote
      BY <2>4, Zenon DEF FocusOwnsKeys, FocusRemote
    <2>5. CASE FocusLocal \/ RunDisconnected
      BY <2>2, <2>5, Zenon DEF FocusLocal, RunDisconnected
    <2>6. ASSUME NEW restart \in BOOLEAN, StopTransport(restart)
          PROVE  FocusOwnsKeys'
      BY <2>2, <2>6, Zenon DEF StopTransport
    <2>7. CASE ConnectUp \/ LinkLost \/ RunLoop \/ UNCHANGED vars
      BY <2>1, <2>7 DEF ConnectUp, LinkLost, RunLoop, SendKey, RunStart, RunStop,
                        Takes, vars, glibVars
    <2>8. ASSUME NEW p \in PhysKeys, NEW down \in BOOLEAN, PassEvent(p, down)
          PROVE  FocusOwnsKeys'
      BY <2>1, <2>8 DEF PassEvent, KeyEvent
    <2>9. ASSUME NEW p \in PhysKeys, NEW v \in Vks,
                 ForwardPress(p, v) \/ ForwardRelease(p, v) \/ SwallowRelease(p, v)
          PROVE  FocusOwnsKeys'
      BY <2>3, <2>9 DEF ForwardPress, ForwardRelease, SwallowRelease,
                        Forwardable, KeyEvent
    <2>. QED
      BY <2>4, <2>5, <2>6, <2>7, <2>8, <2>9 DEF Next
  <1>. QED  BY <1>1, <1>2, PTL DEF Spec

\* Back on the local machine with everything sent, the peer holds nothing.
THEOREM NothingHeldLocally == Spec => []NothingHeldWhenLocal
  <1>1. IInv /\ FocusOwnsKeys => NothingHeldWhenLocal
    <2>1. SUFFICES ASSUME IInv, FocusOwnsKeys, ~focus, loopQ = <<>>
                   PROVE  wireHeld = {}
      BY DEF NothingHeldWhenLocal
    <2>2. ASSUME NEW v \in Vks, v \in wireHeld PROVE FALSE
      <3>1. Covered(v, 0)
        BY <2>1 DEF IInv, HeldAreTracked, FocusOwnsKeys
      <3>. QED  BY <2>2, <3>1 DEF Covered
    <2>. QED  BY <2>1, <2>2 DEF IInv, TypeOK
  <1>. QED  BY <1>1, Strengthened, OnlyInFocus, PTL

\* A stop tears a connection down only when nothing pressed over it is held.
THEOREM CleanTeardown == Spec => ReleasedBeforeStop
  <1>1. IInv /\ [Next]_vars => [RunStop => wireHeld = {}]_vars
    <2>1. SUFFICES ASSUME IInv, RunStop PROVE wireHeld = {}
      OBVIOUS
    <2>2. 1 \in DOMAIN loopQ /\ loopQ[1] = Stop
      BY <2>1 DEF IInv, TypeOK, RunStop, Takes
    <2>3. ASSUME NEW v \in Vks, v \in wireHeld PROVE FALSE
      <3>1. Covered(v, 0)
        BY <2>1, <2>2 DEF IInv, StopsAreClean
      <3>. QED  BY <2>3, <3>1 DEF Covered
    <2>. QED  BY <2>1, <2>3 DEF IInv, TypeOK
  <1>. QED  BY <1>1, Strengthened, PTL DEF Spec, ReleasedBeforeStop

-----------------------------------------------------------------------------
(* Our own chords.                                                          *)

\* The user's Orca modifiers are known as such, whenever they were pressed.
ModsKnown == \A q \in phys : SteadyMod(q) => Keysym[q][1] \in modsDown

\* Every key event keeps the steady Orca modifiers known, and no other step
\* touches them.
LEMMA ModsStep ==
    ASSUME TypeOK, ModsKnown, [Next]_vars PROVE ModsKnown'
  <1>1. ASSUME UNCHANGED <<phys, modsDown>> PROVE ModsKnown'
    BY <1>1 DEF ModsKnown
  <1>2. ASSUME NEW p \in PhysKeys, NEW down \in BOOLEAN, KeyEvent(p, down)
        PROVE  ModsKnown'
    <2> SUFFICES ASSUME NEW q \in phys', SteadyMod(q)
                 PROVE  Keysym[q][1] \in modsDown'
      BY DEF ModsKnown
    <2>1. PICK s \in 1..2 : SymOf(p) = Keysym[p][s]
      BY DEF SymOf
    <2>2. q \in PhysKeys
      BY <1>2 DEF KeyEvent, TypeOK
    <2>3. CASE q = p
      <3>1. SymOf(p) = Keysym[q][1]
        BY <2>1, <2>2, <2>3 DEF SteadyMod
      <3>2. down = TRUE
        BY <1>2, <2>3 DEF KeyEvent
      <3>. QED  BY <1>2, <3>1, <3>2 DEF KeyEvent, TrackOrcaMods, SteadyMod
    <2>4. CASE q # p
      <3>1. SymOf(p) # Keysym[q][1]
        BY <2>1, <2>2, <2>4 DEF SteadyMod
      <3>2. q \in phys
        BY <1>2, <2>4 DEF KeyEvent
      <3>3. Keysym[q][1] \in modsDown
        BY <3>2 DEF ModsKnown
      <3>. QED  BY <1>2, <3>1, <3>3 DEF KeyEvent, TrackOrcaMods
    <2>. QED  BY <2>3, <2>4
  <1>3. CASE \E p \in PhysKeys, down \in BOOLEAN : PassEvent(p, down)
    BY <1>2, <1>3 DEF PassEvent
  <1>4. ASSUME NEW p \in PhysKeys, NEW v \in Vks,
               ForwardPress(p, v) \/ ForwardRelease(p, v) \/ SwallowRelease(p, v)
        PROVE  ModsKnown'
    BY <1>2, <1>4 DEF ForwardPress, ForwardRelease, SwallowRelease
  <1>5. CASE FocusRemote \/ FocusLocal \/ RunDisconnected \/ ConnectUp \/ LinkLost
    BY <1>1, <1>5 DEF FocusRemote, FocusLocal, RunDisconnected, ConnectUp, LinkLost,
                      glibVars
  <1>6. ASSUME NEW restart \in BOOLEAN, StopTransport(restart) PROVE ModsKnown'
    BY <1>1, <1>6 DEF StopTransport
  <1>7. CASE RunLoop \/ UNCHANGED vars
    BY <1>1, <1>7 DEF RunLoop, SendKey, RunStart, RunStop, Takes, vars, glibVars
  <1>. QED  BY <1>3, <1>4, <1>5, <1>6, <1>7 DEF Next

\* Only the press of a key puts a press at the end of a queue that grows.
LEMMA OnlyPressesPress ==
    ASSUME TypeOK, PlainInv, [Next]_vars, NEW u, Len(loopQ') > Len(loopQ),
           loopQ'[Len(loopQ')] = Frame(u, TRUE)
    PROVE  \E r \in PhysKeys, v \in Vks : ForwardPress(r, v) /\ u = v
  <1>1. Len(loopQ) \in Nat
    BY DEF TypeOK
  <1>2. ASSUME UNCHANGED loopQ PROVE FALSE
    BY <1>1, <1>2
  <1>3. ASSUME NEW after \in Seq({Start, Stop}), LeaveFocus(after) PROVE FALSE
    <2>1. after \in Seq(Work)
      BY WorkTyped
    <2>2. PICK rel \in Seq(Work) :
              /\ loopQ' = loopQ \o (rel \o after)
              /\ \A i \in DOMAIN rel : \E v \in fwd : rel[i] = Frame(v, FALSE)
      BY <1>3, <2>1, LeaveQueues DEF PlainInv
    <2>3. PICK ext \in Seq(Work) : ext = rel \o after
      <3>1. rel \o after \in Seq(Work)
        BY <2>1
      <3>. QED  BY <3>1, Zenon
    <2>4. Len(ext) \in Nat /\ Len(ext) >= 1 /\ loopQ'[Len(loopQ')] = ext[Len(ext)]
      <3>1. \A q \in Seq(Work) : Len(q \o ext) = Len(q) + Len(ext)
        BY <2>3
      <3>2. Len(ext) >= 1
        BY <1>1, <2>2, <2>3, <3>1 DEF TypeOK
      <3>3. \A q \in Seq(Work) : (q \o ext)[Len(q) + Len(ext)] = ext[Len(ext)]
        BY <2>3, <3>2
      <3>4. loopQ \in Seq(Work) /\ loopQ' = loopQ \o ext /\ Len(ext) \in Nat
        BY <2>2, <2>3 DEF TypeOK
      <3>5. loopQ'[Len(loopQ) + Len(ext)] = ext[Len(ext)]
        BY <3>3, <3>4, Zenon
      <3>. QED  BY <3>1, <3>2, <3>4, <3>5
    <2>5. CASE Len(after) = 0
      <3>1. Len(rel) \in DOMAIN rel /\ ext[Len(ext)] = rel[Len(rel)]
        BY <2>1, <2>3, <2>4, <2>5
      <3>. QED  BY <2>2, <2>4, <3>1, WorkDistinct
    <2>6. CASE Len(after) # 0
      <3>1. Len(after) \in DOMAIN after /\ ext[Len(ext)] = after[Len(after)]
        BY <2>1, <2>3, <2>4, <2>6
      <3>2. after[Len(after)] \in {Start, Stop}
        BY <3>1
      <3>. QED  BY <2>4, <3>1, <3>2, WorkDistinct
    <2>. QED  BY <2>5, <2>6
  <1>4. CASE \E p \in PhysKeys, down \in BOOLEAN : PassEvent(p, down)
    BY <1>2, <1>4 DEF PassEvent
  <1>5. ASSUME NEW r \in PhysKeys, NEW v \in Vks, ForwardPress(r, v)
        PROVE  u = v
    <2>1. loopQ' = Append(loopQ, Frame(v, TRUE))
      BY <1>5 DEF ForwardPress
    <2>2. loopQ'[Len(loopQ')] = Frame(v, TRUE)
      BY <2>1, WorkTyped, AppendTyped DEF TypeOK
    <2>. QED  BY <2>2, WorkDistinct
  <1>6. ASSUME NEW r \in PhysKeys, NEW v \in Vks, ForwardRelease(r, v)
        PROVE  FALSE
    <2>1. loopQ' = Append(loopQ, Frame(v, FALSE))
      BY <1>6 DEF ForwardRelease
    <2>2. loopQ'[Len(loopQ')] = Frame(v, FALSE)
      BY <2>1, WorkTyped, AppendTyped DEF TypeOK
    <2>. QED  BY <2>2, WorkDistinct
  <1>7. ASSUME NEW r \in PhysKeys, NEW v \in Vks, SwallowRelease(r, v)
        PROVE  FALSE
    BY <1>2, <1>7 DEF SwallowRelease
  <1>8. CASE FocusLocal \/ RunDisconnected
    <2>1. <<>> \in Seq({Start, Stop}) /\ LeaveFocus(<<>>)
      BY <1>8 DEF FocusLocal, RunDisconnected
    <2>. QED  BY <1>3, <2>1
  <1>9. ASSUME NEW restart \in BOOLEAN, StopTransport(restart) PROVE FALSE
    BY <1>3, <1>9, StopLeaves
  <1>10. CASE FocusRemote \/ ConnectUp \/ LinkLost \/ UNCHANGED vars
    BY <1>2, <1>10 DEF FocusRemote, ConnectUp, LinkLost, vars
  <1>11. CASE RunLoop
    <2>1. loopQ # <<>> /\ loopQ' = Tail(loopQ)
      BY <1>11 DEF RunLoop, SendKey, RunStart, RunStop, Takes
    <2>. QED  BY <2>1 DEF TypeOK
  <1>. QED  BY <1>4, <1>5, <1>6, <1>7, <1>8, <1>9, <1>10, <1>11 DEF Next

\* The triggers of our own chords -- with Ctrl, with Ctrl and Shift, with Alt --
\* are never queued for the peer while an Orca modifier is held, however it was
\* pressed, when no other key sends the Windows key of a trigger.
THEOREM OwnChords ==
    ASSUME TriggersComplete
    PROVE  Spec => OwnChordsStayLocal
  <1>1. Init => ModsKnown
    BY DEF Init, ModsKnown
  <1>2. TypeOK /\ ModsKnown /\ [Next]_vars => ModsKnown'
    BY ModsStep
  <1>3. Spec => []ModsKnown
    BY <1>1, <1>2, TypeCorrect, PTL DEF Spec
  <1>4. ASSUME TypeOK, PlainInv, ModsKnown, [Next]_vars,
               NEW p \in PhysKeys, p \in phys', Len(loopQ') > Len(loopQ),
               loopQ'[Len(loopQ')] = Frame(Vk[SymOf(p)], TRUE),
               OwnTrigger(p), NEW q \in phys, SteadyMod(q)
        PROVE  FALSE
    <2>1. PICK r \in PhysKeys, v \in Vks : ForwardPress(r, v) /\ Vk[SymOf(p)] = v
      BY <1>4, OnlyPressesPress
    <2>2. Vk[SymOf(r)] = v /\ ~BypassChord(r) /\ KeyEvent(r, TRUE)
      BY <2>1 DEF ForwardPress, Forwardable
    <2>3. PICK s \in 1..2 : SymOf(p) = Keysym[p][s] /\ SymOf(r) = Keysym[r][s]
      BY DEF SymOf
    <2>4. \A own \in {OwnCtrl, OwnCtrlShift, OwnAlt} :
              SymOf(p) \in own => SymOf(r) \in own
      BY <2>1, <2>2, <2>3 DEF TriggersComplete
    <2>5. OwnTrigger(r)
      BY <1>4, <2>4 DEF OwnTrigger
    <2>6. modsDown' = {}
      BY <2>2, <2>5 DEF BypassChord, OwnTrigger
    <2>7. modsDown \subseteq modsDown'
      BY <2>2 DEF KeyEvent, TrackOrcaMods
    <2>8. Keysym[q][1] \in modsDown
      BY <1>4 DEF ModsKnown
    <2>. QED  BY <2>6, <2>7, <2>8
  <1>5. TypeOK /\ PlainInv /\ ModsKnown /\ [Next]_vars
           => [\A p \in PhysKeys :
                  /\ OwnTrigger(p) /\ \E q \in phys : SteadyMod(q)
                  /\ p \in phys' /\ Len(loopQ') > Len(loopQ)
                  => loopQ'[Len(loopQ')] # Frame(Vk[SymOf(p)], TRUE)]_vars
    BY <1>4
  <1>. QED  BY <1>3, <1>5, TypeCorrect, PTL DEF Spec, OwnChordsStayLocal
=============================================================================
