-------------------------- MODULE TransportProofs --------------------------
(***************************************************************************)
(* Proofs about Transport for every schedule, buffer limit and message set, *)
(* and, in the last part, about the legacy plug-in's transport.             *)
(***************************************************************************)
EXTENDS Transport, MCLegacyTransport, FiniteSetTheorems, TLAPS

\* What a step does to the task, the writer's count and the reports.
LEMMA Steps ==
    ASSUME [Next]_vars
    PROVE  \/ UNCHANGED <<opened, reports>> /\ (task = "open" <=> task' = "open")
           \/ task # "open" /\ task' = "open" /\ opened' = opened + 1 /\ reports' = reports
           \/ task = "open" /\ task' # "open" /\ opened' = opened /\ reports' = reports + 1
  <1>1. CASE DialOpens
    BY <1>1 DEF DialOpens
  <1>2. CASE EndOfFile \/ StopSeen \/ ReadFails
    BY <1>2 DEF EndOfFile, StopSeen, ReadFails, CloseDown
  <1>3. CASE Cancelled
    BY <1>3 DEF Cancelled, CloseDown
  <1>4. CASE DialFails \/ DialMismatch \/ Closed \/ BackoffElapses \/ EventSeen
    BY <1>4 DEF DialFails, DialMismatch, Closed, BackoffElapses, EventSeen, RoundOver
  <1>5. CASE Start \/ Stop \/ StopReturns \/ Flush \/ \E m \in Msgs : Send(m)
    BY <1>5 DEF Start, Stop, StopReturns, Flush, Send
  <1>6. CASE UNCHANGED vars
    BY <1>6 DEF vars
  <1>. QED  BY <1>1, <1>2, <1>3, <1>4, <1>5, <1>6 DEF Next

\* What of the state the arguments below need the type of.
Typed ==
    /\ task \in {"none", "dial", "open", "closing", "backoff", "parked", "ended"}
    /\ stopEvent \in BOOLEAN
    /\ opened \in Nat /\ reports \in Nat

\* The Boolean event is only ever set.
LEMMA EventStep == stopEvent \in BOOLEAN /\ [Next]_vars => stopEvent' \in BOOLEAN
  <1> SUFFICES ASSUME stopEvent \in BOOLEAN, [Next]_vars PROVE stopEvent' \in BOOLEAN
    OBVIOUS
  <1>1. stopEvent' = stopEvent \/ stopEvent' = TRUE
    BY DEF Next, vars, stopVars, Start, Stop, StopReturns, DialFails, DialMismatch,
           DialOpens, EndOfFile, StopSeen, ReadFails, CloseDown, Closed,
           BackoffElapses, EventSeen, Cancelled, Send, Flush
  <1>. QED  BY <1>1, Zenon

LEMMA TypedStep == Typed /\ [Next]_vars => Typed'
  <1> SUFFICES ASSUME Typed, [Next]_vars PROVE Typed'
    OBVIOUS
  <1>1. stopEvent' \in BOOLEAN
    BY EventStep DEF Typed
  <1>2. task' \in {"none", "dial", "open", "closing", "backoff", "parked", "ended"}
    BY DEF Typed, Next, vars, Start, Stop, StopReturns, DialFails, DialMismatch,
           DialOpens, EndOfFile, StopSeen, ReadFails, CloseDown, Closed, RoundOver,
           BackoffElapses, EventSeen, Cancelled, Send, Flush
  <1>3. opened' \in Nat /\ reports' \in Nat
    BY Steps DEF Typed
  <1>. QED  BY <1>1, <1>2, <1>3 DEF Typed

\* The connection is reported lost exactly once, and only without a writer.
THEOREM ReportsExact == Spec => []ReportedOnce
  <1>1. Init => Typed /\ ReportedOnce
    <2>1. Init => stopEvent \in BOOLEAN
      BY Zenon DEF Init
    <2>. QED  BY <2>1 DEF Init, Typed, ReportedOnce, Connected
  <1>2. Typed /\ ReportedOnce /\ [Next]_vars => (Typed /\ ReportedOnce)'
    <2>1. Typed /\ ReportedOnce /\ [Next]_vars => ReportedOnce'
      BY Steps DEF Typed, ReportedOnce, Connected
    <2>. QED  BY <2>1, TypedStep
  <1>. QED  BY <1>1, <1>2, PTL DEF Spec

\* A task ends, and a cancellation exists, only on behalf of a stop().
THEOREM StopFinal == Spec => []StopIsFinal
  <1>1. Init => StopIsFinal
    BY DEF Init, StopIsFinal
  <1>2. StopIsFinal /\ [Next]_vars => StopIsFinal'
    <2> SUFFICES ASSUME StopIsFinal, [Next]_vars PROVE StopIsFinal'
      OBVIOUS
    <2> USE DEF StopIsFinal, stopVars
    <2>1. CASE Start \/ Stop \/ StopReturns
      BY <2>1 DEF Start, Stop, StopReturns
    <2>2. CASE DialFails \/ DialMismatch \/ DialOpens
      <3>1. /\ stopEvent' = stopEvent /\ stopper' = stopper /\ outcome' = outcome
            /\ cancel' # "none" => cancel # "none"
        BY <2>2 DEF DialFails, DialMismatch, DialOpens, SwallowCancel
      <3>2. /\ task = "dial" /\ task' # "none"
            /\ task' = "ended" => stopEvent
        BY <2>2 DEF DialFails, DialMismatch, DialOpens, RoundOver
      <3>. QED  BY <3>1, <3>2
    <2>3. CASE EndOfFile \/ StopSeen \/ ReadFails \/ Cancelled
      BY <2>3 DEF EndOfFile, StopSeen, ReadFails, CloseDown, Cancelled
    <2>4. CASE Closed \/ BackoffElapses \/ EventSeen
      BY <2>4 DEF Closed, RoundOver, BackoffElapses, EventSeen
    <2>5. CASE Flush \/ (\E m \in Msgs : Send(m)) \/ UNCHANGED vars
      BY <2>5 DEF Flush, Send, vars
    <2>. QED  BY <2>1, <2>2, <2>3, <2>4, <2>5 DEF Next
  <1>. QED  BY <1>1, <1>2, PTL DEF Spec

\* The safety half of the promise: every step of a transport is a step of Link.
THEOREM Implements == Spec => LinkOf!Init /\ [][LinkOf!Next]_(LinkOf!vars)
  <1>1. Init => LinkOf!Init
    BY DEF Init, LinkOf!Init, Connected
  <1>2. StopIsFinal /\ StopIsFinal' /\ [Next]_vars => [LinkOf!Next]_(LinkOf!vars)
    <2> SUFFICES ASSUME StopIsFinal, StopIsFinal', [Next]_vars
                 PROVE  LinkOf!Next \/ UNCHANGED LinkOf!vars
      OBVIOUS
    <2> USE DEF LinkOf!vars, Connected
    <2>1. CASE Start
      BY <2>1 DEF Start, stopVars, LinkOf!Next, LinkOf!Begin
    <2>2. CASE Stop
      <3>1. task # "ended" /\ ~stopEvent
        BY <2>2 DEF Stop, StopIsFinal
      <3>. QED  BY <2>2, <3>1 DEF Stop, LinkOf!Next, LinkOf!AskStop
    <2>3. CASE DialOpens
      BY <2>3 DEF DialOpens, stopVars, LinkOf!Next, LinkOf!Connect
    <2>4. CASE EndOfFile \/ StopSeen \/ ReadFails
      BY <2>4 DEF EndOfFile, StopSeen, ReadFails, CloseDown, stopVars,
                  LinkOf!Next, LinkOf!Drop
    <2>5. CASE Cancelled
      BY <2>5 DEF Cancelled, CloseDown, stopVars, StopIsFinal,
                  LinkOf!Next, LinkOf!Drop, LinkOf!Finish
    <2>6. CASE DialFails \/ Closed \/ EventSeen
      BY <2>6 DEF DialFails, Closed, EventSeen, RoundOver, stopVars, StopIsFinal,
                  LinkOf!Next, LinkOf!Finish
    <2>7. CASE \/ StopReturns \/ DialMismatch \/ BackoffElapses \/ Flush
               \/ \E m \in Msgs : Send(m)
      BY <2>7 DEF StopReturns, DialMismatch, BackoffElapses, Flush, Send, stopVars
    <2>8. CASE UNCHANGED vars
      BY <2>8 DEF vars, stopVars
    <2>. QED
      BY <2>1, <2>2, <2>3, <2>4, <2>5, <2>6, <2>7, <2>8 DEF Next
  <1>. QED  BY <1>1, <1>2, StopFinal, PTL DEF Spec

-----------------------------------------------------------------------------
\* The schedule is indexed by attempt - 1, and its entries differ.
LEMMA Schedule ==
    /\ Len(Backoff) \in Nat \ {0}
    /\ \A n \in 1..Len(Backoff) : Backoff[n] \in Nat \ {0}
    /\ \A n, k \in 1..Len(Backoff) : Backoff[n] = Backoff[k] => n = k
  <1> USE TransportAssumption DEF TransportAssumption
  <1>1. Len(Backoff) \in Nat \ {0} /\ \A n \in 1..Len(Backoff) : Backoff[n] \in Nat \ {0}
    OBVIOUS
  <1>2. ASSUME NEW n \in 1..Len(Backoff), NEW k \in 1..Len(Backoff), Backoff[n] = Backoff[k]
        PROVE  n = k
    BY <1>1, <1>2
  <1>. QED  BY <1>1, <1>2

\* The delay is the one the number of the attempt stands for; none was waited
\* before the first.  (A task that ends after a clean close forgets the number.)
DelayFits ==
    /\ attempt \in 0..Len(Backoff) /\ delay \in Nat
    /\ attempt > 0 => delay = Backoff[attempt]
    /\ attempt = 0 /\ task # "ended" => delay = 0

\* A round that backs off has moved one entry on from the attempt it started at.
LEMMA RoundMoves ==
    ASSUME NEW clean \in BOOLEAN, DelayFits, RoundOver(clean), task # "ended"
    PROVE  /\ DelayFits'
           /\ task' = "backoff" => delay' = IF clean THEN Backoff[1] ELSE DelayAfter(delay)
  <1> DEFINE a == AttemptAfter(clean)
  <1>1. a \in 0..Len(Backoff) /\ (clean => a = 0) /\ (~clean => a = attempt)
    BY Schedule DEF AttemptAfter, DelayFits
  <1>2. CASE stopEvent
    BY <1>1, <1>2 DEF RoundOver, DelayFits
  <1>3. CASE ~stopEvent
    <2>1. /\ task' = "backoff"
          /\ delay' = Backoff[AtMost(a, Len(Backoff) - 1) + 1]
          /\ attempt' = AtMost(a + 1, Len(Backoff))
      BY <1>3 DEF RoundOver
    <2>2. attempt' \in 1..Len(Backoff) /\ delay' = Backoff[attempt']
      BY <1>1, <2>1, Schedule DEF AtMost
    <2>3. CASE clean
      <3>0. a = 0
        BY <1>1, <2>3, Zenon
      <3> HIDE DEF a
      <3>1. DelayFits' /\ delay' = Backoff[1]
        BY <2>1, <2>2, <3>0, Schedule DEF DelayFits, AtMost
      <3>. QED  BY <2>3, <3>1, Zenon
    <2>4. CASE ~clean
      <3>1. a = attempt
        BY <1>1, <2>4
      <3>2. CASE attempt = 0
        <4>1. delay = 0
          BY <3>2 DEF DelayFits
        <4>2. DelayAfter(delay) = Backoff[1]
          BY <4>1, Schedule DEF DelayAfter
        <4>. QED  BY <2>1, <2>2, <2>4, <3>1, <3>2, <4>2, Schedule DEF DelayFits, AtMost
      <3>3. CASE attempt = Len(Backoff)
        <4>1. delay = Backoff[Len(Backoff)] /\ delay # 0
          BY <3>3, Schedule DEF DelayFits
        <4>2. ~ \E n \in 1..Len(Backoff) - 1 : Backoff[n] = delay
          BY <4>1, Schedule
        <4>3. DelayAfter(delay) = Backoff[Len(Backoff)]
          BY <4>1, <4>2 DEF DelayAfter
        <4>. QED  BY <2>1, <2>2, <2>4, <3>1, <3>3, <4>3, Schedule DEF DelayFits, AtMost
      <3>4. CASE attempt \in 1..Len(Backoff) - 1
        <4>1. delay = Backoff[attempt]
          BY <3>4, Schedule DEF DelayFits
        <4>2. \E n \in 1..Len(Backoff) - 1 : Backoff[n] = delay
          BY <3>4, <4>1
        <4>3. PICK n \in 1..Len(Backoff) - 1 :
                /\ Backoff[n] = delay
                /\ DelayAfter(delay) = Backoff[1 + n]
          BY <4>2, Zenon DEF DelayAfter
        <4>4. n = attempt
          BY <3>4, <4>1, <4>3, Schedule
        <4>5. DelayAfter(delay) = Backoff[attempt + 1]
          BY <3>4, <4>3, <4>4
        <4>. QED  BY <2>1, <2>2, <2>4, <3>1, <3>4, <4>5, Schedule DEF DelayFits, AtMost
      <3>. QED  BY <3>2, <3>3, <3>4, Schedule DEF DelayFits
    <2>. QED  BY <2>3, <2>4
  <1>. QED  BY <1>2, <1>3

\* What BackoffEscalates says of a step.
Escalating == task # "backoff" /\ task' = "backoff" =>
    delay' = IF task = "closing" /\ outcome = "clean" THEN Backoff[1] ELSE DelayAfter(delay)

\* The delay goes on fitting, whatever the step, and a backoff escalates.
LEMMA DelayStep == DelayFits /\ [Next]_vars => DelayFits' /\ (Escalating \/ UNCHANGED vars)
  <1> SUFFICES ASSUME DelayFits, [Next]_vars PROVE DelayFits' /\ (Escalating \/ UNCHANGED vars)
    OBVIOUS
  <1> USE DEF Escalating
  <1>1. CASE DialFails
    <2>1. task = "dial" /\ RoundOver(FALSE)
      BY <1>1 DEF DialFails
    <2>. QED  BY <2>1, RoundMoves
  <1>2. CASE Closed
    <2>1. CASE outcome = "cancelled"
      BY <1>2, <2>1 DEF Closed, waitVars, DelayFits
    <2>2. CASE outcome # "cancelled"
      <3>1. task = "closing" /\ RoundOver(outcome = "clean")
        BY <1>2, <2>2 DEF Closed
      <3>2. CASE outcome = "clean"
        <4>1. RoundOver(TRUE)
          BY <3>1, <3>2, Zenon DEF RoundOver, AttemptAfter
        <4>. QED  BY <3>1, <3>2, <4>1, RoundMoves
      <3>3. CASE outcome # "clean"
        <4>1. RoundOver(FALSE)
          BY <3>1, <3>3, Zenon DEF RoundOver, AttemptAfter
        <4>. QED  BY <3>1, <3>3, <4>1, RoundMoves
      <3>. QED  BY <3>2, <3>3
    <2>. QED  BY <2>1, <2>2
  <1>3. CASE \/ DialMismatch \/ DialOpens \/ BackoffElapses \/ EventSeen
             \/ Start \/ Stop \/ StopReturns
    BY <1>3 DEF DialMismatch, DialOpens, BackoffElapses, EventSeen, Start, Stop,
                StopReturns, waitVars, DelayFits
  <1>4. CASE EndOfFile \/ StopSeen \/ ReadFails \/ Cancelled
    BY <1>4 DEF EndOfFile, StopSeen, ReadFails, Cancelled, CloseDown, waitVars, DelayFits
  <1>5. CASE Flush \/ \E m \in Msgs : Send(m)
    BY <1>5 DEF Flush, Send, waitVars, DelayFits
  <1>6. CASE UNCHANGED vars
    BY <1>6 DEF vars, waitVars, DelayFits
  <1>. QED  BY <1>1, <1>2, <1>3, <1>4, <1>5, <1>6 DEF Next

LEMMA DelayInit == Init => DelayFits
  BY Schedule DEF Init, DelayFits

\* However dials, clean closes and resets follow one another, each failure waits
\* one entry of the schedule longer than the last, and a clean close starts over.
THEOREM Escalates == Spec => BackoffEscalates
  <1>1. DelayFits /\ [Next]_vars => DelayFits' /\ [Escalating]_vars
    BY DelayStep
  <1>. QED  BY <1>1, DelayInit, PTL DEF Spec, BackoffEscalates, Escalating

-----------------------------------------------------------------------------
WireFrames == Msgs \cup {"version", "join"}

\* A key frame appended to both keeps its place; any other frame changes nothing.
LEMMA CarriesKey ==
    ASSUME NEW w \in Seq(WireFrames), NEW ks \in Seq(KeyMsgs), NEW m \in KeyMsgs,
           Len(w) >= 2, Carries(w, ks)
    PROVE  Carries(Append(w, m), Append(ks, m))
  <1> DEFINE w2 == Append(w, m)
             k2 == Append(ks, m)
  <1>1. PICK place \in [1..Len(ks) -> 3..Len(w)] :
          /\ \A i, j \in 1..Len(ks) : i < j => place[i] < place[j]
          /\ \A i \in 1..Len(ks) : w[place[i]] = ks[i]
          /\ \A n \in 1..Len(w) : w[n] \in KeyMsgs => \E i \in 1..Len(ks) : place[i] = n
    BY DEF Carries
  <1>2. /\ Len(w) \in Nat /\ Len(ks) \in Nat
        /\ Len(w2) = Len(w) + 1 /\ Len(k2) = Len(ks) + 1
        /\ \A n \in 1..Len(w) : w2[n] = w[n]
        /\ \A i \in 1..Len(ks) : k2[i] = ks[i]
        /\ w2[Len(w) + 1] = m /\ k2[Len(ks) + 1] = m
    BY DEF WireFrames, Msgs
  <1> HIDE DEF w2, k2
  <1> DEFINE p == [i \in 1..Len(k2) |-> IF i <= Len(ks) THEN place[i] ELSE Len(w) + 1]
  <1>3. p \in [1..Len(k2) -> 3..Len(w2)]
    BY SMTT(30), <1>1, <1>2
  <1>4. \A i, j \in 1..Len(k2) : i < j => p[i] < p[j]
    BY SMTT(30), <1>1, <1>2
  <1>5. ASSUME NEW i \in 1..Len(k2)
        PROVE  w2[p[i]] = k2[i]
    <2>1. CASE i = Len(ks) + 1
      BY <1>2, <2>1
    <2>2. CASE i \in 1..Len(ks)
      <3>1. p[i] = place[i] /\ place[i] \in 1..Len(w)
        BY <1>1, <1>2, <2>2
      <3>. QED  BY SMTT(30), <1>1, <1>2, <2>2, <3>1
    <2>. QED  BY SMTT(30), <1>2, <2>1, <2>2
  <1>6. \A n \in 1..Len(w2) : w2[n] \in KeyMsgs => \E i \in 1..Len(k2) : p[i] = n
    <2> SUFFICES ASSUME NEW n \in 1..Len(w2), w2[n] \in KeyMsgs
                 PROVE  \E i \in 1..Len(k2) : p[i] = n
      OBVIOUS
    <2>1. CASE n = Len(w) + 1
      <3>1. Len(ks) + 1 \in 1..Len(k2) /\ p[Len(ks) + 1] = n
        BY <1>2, <2>1
      <3>. QED  BY <3>1
    <2>2. CASE n \in 1..Len(w)
      <3>1. PICK i \in 1..Len(ks) : place[i] = n
        BY <1>1, <1>2, <2>2
      <3>2. i \in 1..Len(k2) /\ p[i] = n
        BY <1>2, <3>1
      <3>. QED  BY <3>2
    <2>. QED  BY <1>2, <2>1, <2>2
  <1> HIDE DEF p
  <1>7. Carries(w2, k2)
    BY <1>3, <1>4, <1>5, <1>6 DEF Carries
  <1>. QED  BY <1>7 DEF w2, k2

LEMMA CarriesOther ==
    ASSUME NEW w \in Seq(WireFrames), NEW ks \in Seq(KeyMsgs), NEW m \in Msgs,
           m \notin KeyMsgs, Len(w) >= 2, Carries(w, ks)
    PROVE  Carries(Append(w, m), ks)
  <1> DEFINE w2 == Append(w, m)
  <1>1. PICK place \in [1..Len(ks) -> 3..Len(w)] :
          /\ \A i, j \in 1..Len(ks) : i < j => place[i] < place[j]
          /\ \A i \in 1..Len(ks) : w[place[i]] = ks[i]
          /\ \A n \in 1..Len(w) : w[n] \in KeyMsgs => \E i \in 1..Len(ks) : place[i] = n
    BY DEF Carries
  <1> m \in WireFrames
    BY DEF WireFrames
  <1>2. /\ Len(w) \in Nat /\ Len(ks) \in Nat
        /\ Len(w2) = Len(w) + 1 /\ w2[Len(w) + 1] = m
        /\ \A n \in 1..Len(w) : w2[n] = w[n]
    BY DEF WireFrames
  <1> HIDE DEF w2
  <1>3. place \in [1..Len(ks) -> 3..Len(w2)]
    BY <1>1, <1>2
  <1>4. \A i \in 1..Len(ks) : w2[place[i]] = ks[i]
    BY <1>1, <1>2
  <1>5. \A n \in 1..Len(w2) : w2[n] \in KeyMsgs => \E i \in 1..Len(ks) : place[i] = n
    BY <1>1, <1>2
  <1>6. Carries(w2, ks)
    BY <1>1, <1>3, <1>4, <1>5 DEF Carries
  <1>. QED  BY <1>6 DEF w2

\* The handshake alone carries no key.
LEMMA HandshakeCarries == Carries(<<"version", "join">>, <<>>)
  <1> DEFINE w == <<"version", "join">>
             p == [i \in 1..0 |-> 3]
  <1>1. "version" \notin KeyMsgs /\ "join" \notin KeyMsgs
    BY TransportAssumption DEF TransportAssumption
  <1>2. \A n \in 1..Len(w) : w[n] \notin KeyMsgs
    BY <1>1
  <1>3. p \in [1..Len(<<>>) -> 3..Len(w)] /\ Len(<<>>) = 0
    OBVIOUS
  <1> HIDE DEF p, w
  <1>4. Carries(w, <<>>)
    <2>1. \A i \in 1..Len(<<>>) : FALSE
      BY <1>3
    <2>. QED  BY <1>2, <1>3, <2>1 DEF Carries
  <1>. QED  BY <1>4 DEF w

\* Frames are only sent over a connection, which began with the handshake.
Carrying ==
    /\ wire \in Seq(WireFrames) /\ asked \in Seq(KeyMsgs)
    /\ task = "open" => wire # <<>>
    /\ KeysReachWire

LEMMA CarryingStep == Carrying /\ [Next]_vars => Carrying'
  <1> SUFFICES ASSUME Carrying, [Next]_vars PROVE Carrying'
    OBVIOUS
  <1>1. CASE DialOpens
    <2>1. wire' = <<"version", "join">> /\ asked' = <<>>
      BY <1>1 DEF DialOpens
    <2>2. wire' \in Seq(WireFrames) /\ asked' \in Seq(KeyMsgs)
      BY <2>1 DEF WireFrames
    <2>3. KeysReachWire'
      BY <2>1, HandshakeCarries DEF KeysReachWire
    <2>. QED  BY <2>1, <2>2, <2>3 DEF Carrying
  <1>2. ASSUME NEW m \in Msgs, Send(m)
        PROVE  Carrying'
    <2>1. /\ task = "open" /\ task' = task /\ wire # <<>> /\ Len(wire) >= 2
          /\ wire[1] = "version" /\ wire[2] = "join" /\ Carries(wire, asked)
      BY <1>2 DEF Send, Connected, Carrying, KeysReachWire
    <2>2. CASE m \in KeyMsgs
      <3>1. wire' = Append(wire, m) /\ asked' = Append(asked, m)
        BY <1>2, <2>2 DEF Send, Takes
      <3>2. Carries(wire', asked')
        BY <2>1, <2>2, <3>1, CarriesKey DEF Carrying
      <3>3. /\ wire' \in Seq(WireFrames) /\ asked' \in Seq(KeyMsgs) /\ wire' # <<>>
            /\ Len(wire') >= 2 /\ wire'[1] = "version" /\ wire'[2] = "join"
        BY <2>1, <2>2, <3>1 DEF Carrying, WireFrames, Msgs
      <3>. QED  BY <3>2, <3>3 DEF Carrying, KeysReachWire
    <2>3. CASE m \notin KeyMsgs
      <3>1. asked' = asked /\ (wire' = wire \/ wire' = Append(wire, m))
        BY <1>2, <2>3 DEF Send
      <3>2. Carries(wire', asked')
        BY <2>1, <2>3, <3>1, CarriesOther DEF Carrying
      <3>3. CASE wire' = Append(wire, m)
        <4>1. m \in WireFrames
          BY DEF WireFrames
        <4>2. /\ wire' \in Seq(WireFrames) /\ asked' \in Seq(KeyMsgs) /\ wire' # <<>>
              /\ Len(wire') >= 2 /\ wire'[1] = "version" /\ wire'[2] = "join"
          BY <2>1, <3>1, <3>3, <4>1 DEF Carrying
        <4>. QED  BY <2>1, <3>2, <4>2 DEF Carrying, KeysReachWire
      <3>4. CASE wire' = wire
        BY <2>1, <3>1, <3>2, <3>4 DEF Carrying, KeysReachWire
      <3>. QED  BY <3>1, <3>3, <3>4
    <2>. QED  BY <2>2, <2>3
  <1>3. CASE DialFails \/ DialMismatch \/ Closed \/ BackoffElapses \/ EventSeen
    BY <1>3 DEF DialFails, DialMismatch, Closed, RoundOver, BackoffElapses, EventSeen,
                wireVars, Carrying, KeysReachWire
  <1>4. CASE EndOfFile \/ StopSeen \/ ReadFails \/ Cancelled
    BY <1>4 DEF EndOfFile, StopSeen, ReadFails, Cancelled, CloseDown, wireVars,
                Carrying, KeysReachWire
  <1>5. CASE Start \/ Stop \/ StopReturns \/ Flush \/ UNCHANGED vars
    BY <1>5 DEF Start, Stop, StopReturns, Flush, vars, wireVars, Carrying, KeysReachWire
  <1>. QED  BY <1>1, <1>2, <1>3, <1>4, <1>5 DEF Next

LEMMA CarryingInit == Init => Carrying
  BY DEF Init, Carrying, KeysReachWire

\* However congested a connection is, it carries every key frame given to send()
\* in order and once, behind the handshake.
THEOREM KeysInOrder == Spec => []KeysReachWire
  <1>1. Carrying => KeysReachWire
    BY DEF Carrying
  <1>. QED  BY <1>1, CarryingInit, CarryingStep, PTL DEF Spec

-----------------------------------------------------------------------------
\* What else the type invariant says.
Others ==
    /\ cancel \in {"none", "due", "swallowed"} /\ stopper \in {"no", "waiting", "done"}
    /\ outcome \in {"clean", "error", "cancelled"}
    /\ buffered \in Nat
    /\ task = "backoff" => attempt > 0

LEMMA OthersStep == Others /\ DelayFits /\ [Next]_vars => Others'
  <1> SUFFICES ASSUME Others, DelayFits, [Next]_vars PROVE Others'
    OBVIOUS
  <1> USE DEF Others
  <1>1. CASE DialFails \/ Closed
    BY <1>1, Schedule DEF DialFails, Closed, RoundOver, AttemptAfter, AtMost, SwallowCancel,
          DelayFits, stopVars, waitVars, wireVars
  <1>2. CASE DialMismatch \/ DialOpens \/ BackoffElapses \/ EventSeen
    BY <1>2 DEF DialMismatch, DialOpens, BackoffElapses, EventSeen, SwallowCancel,
          stopVars, waitVars, wireVars
  <1>3. CASE EndOfFile \/ StopSeen \/ ReadFails \/ Cancelled
    BY <1>3 DEF EndOfFile, StopSeen, ReadFails, Cancelled, CloseDown, stopVars, waitVars, wireVars
  <1>4. CASE Start \/ Stop \/ StopReturns
    BY <1>4 DEF Start, Stop, StopReturns, stopVars, waitVars, wireVars
  <1>5. CASE Flush \/ (\E m \in Msgs : Send(m)) \/ UNCHANGED vars
    BY <1>5 DEF Flush, Send, vars, stopVars, waitVars, wireVars
  <1>. QED  BY <1>1, <1>2, <1>3, <1>4, <1>5 DEF Next

\* The types, for every schedule and set of messages.
THEOREM TypeCorrect == Spec => []TypeOK
  <1> DEFINE Inv == Typed /\ DelayFits /\ Carrying /\ Others
  <1>1. Init => Inv
    <2>1. Init => Typed
      <3>1. Init => stopEvent \in BOOLEAN
        BY Zenon DEF Init
      <3>. QED  BY <3>1 DEF Init, Typed
    <2>2. Init => Others
      BY DEF Init, Others
    <2>. QED  BY <2>1, <2>2, DelayInit, CarryingInit
  <1>2. Inv /\ [Next]_vars => Inv'
    BY TypedStep, DelayStep, CarryingStep, OthersStep
  <1>3. Inv => TypeOK
    <2> SUFFICES ASSUME Inv PROVE TypeOK
      OBVIOUS
    <2>1. delay \in Nat /\ (task = "backoff" => \E i \in DOMAIN Backoff : delay = Backoff[i])
      <3>1. CASE attempt > 0
        BY <3>1, Schedule, TransportAssumption DEF DelayFits, TransportAssumption
      <3>2. CASE attempt = 0 /\ task # "ended"
        BY <3>2 DEF DelayFits, Others
      <3>. QED  BY <3>1, <3>2 DEF DelayFits
    <2>2. stopEvent \in BOOLEAN
      BY DEF Typed
    <2>3. wire \in Seq(Msgs \cup {"version", "join"}) /\ asked \in Seq(KeyMsgs)
      BY DEF Carrying, WireFrames
    <2>. QED  BY <2>1, <2>2, <2>3, Zenon DEF TypeOK, Typed, DelayFits, Others
  <1>. QED  BY <1>1, <1>2, <1>3, PTL DEF Spec
-----------------------------------------------------------------------------
(* The legacy transport, for every number of connections, frames and closes: an *)
(* instance of its module (MCLegacyTransport).  One connector runs alone         *)
(* until a reconnect() starts a second (L!OneConnector); where it is alone says  *)
(* what it and the user's thread may have left behind (Alone), and in what order *)
(* the frames are between send() and the wires (Ordered).                        *)

\* The types of what a connection is: its socket and its sender.
LinkTypes ==
    /\ sock \in 0..MaxConns
    /\ link \in [L!Conns -> {"none", "new", "up", "eof", "shut"}]
    /\ qthread \in 0..MaxConns
    /\ sender \in [L!Conns -> {"none", "get", "send", "ended"}]
    /\ reads \in [L!Connectors -> 0..MaxConns]
    /\ joins \in [L!Threads -> 0..MaxConns]

\* Those of the threads.
ThreadTypes ==
    /\ pc \in [L!Threads -> L!InDisconnect \cup
          {"idle", "top", "create", "connect", "hello", "start", "read", "select", "finish", "dead",
           "done", "put", "closing"}]
    /\ then \in [L!Threads -> {"top", "read", "closing", "none"}]
    /\ connector \in {0} \cup L!Connectors
    /\ \A t \in L!Threads : pc[t] \in L!InDisconnect =>
          then[t] \in IF t = L!User THEN {"closing"} ELSE {"top", "read"}

\* Those of the frames.
FrameTypes ==
    /\ queue \in Seq(L!Items)
    /\ holds \in [L!Conns -> L!Items]
    /\ legacyWire \in [L!Conns -> Seq(Nat)]

CounterTypes ==
    /\ late \in 0..MaxLate
    /\ frames \in 0..(MaxFrames + late)
    /\ closes \in 0..MaxCloses
    /\ reconnects \in 0..MaxReconnects

FlagTypes == connected \in BOOLEAN /\ closed \in BOOLEAN /\ running \in [L!Connectors -> BOOLEAN]

\* Connections and senders are numbered as they are created, and stay in range.
LEMMA LinkTyped ==
    ASSUME L!Bounds, LinkTypes, [L!Next]_(L!vars) PROVE LinkTypes'
  <1> USE DEF L!Bounds, L!Conns, L!linkVars, L!senderVars, L!callVars, LinkTypes
  <1>1. ASSUME NEW k \in L!Connectors, L!Create(k) PROVE LinkTypes'
    BY <1>1 DEF L!Create
  <1>2. ASSUME NEW k \in L!Connectors, L!Connect(k) PROVE LinkTypes'
    BY <1>2 DEF L!Connect
  <1>3. ASSUME NEW k \in L!Connectors, L!Start(k) PROVE LinkTypes'
    BY <1>3 DEF L!Start
  <1>4. ASSUME NEW k \in L!Connectors, L!Read(k) PROVE LinkTypes'
    BY <1>4 DEF L!Read
  <1>5. ASSUME NEW k \in L!Connectors, L!Top(k) \/ L!Introduce(k) \/ L!Select(k) \/ L!Finish(k)
        PROVE  LinkTypes'
    BY <1>5 DEF L!Top, L!Introduce, L!Select, L!Finish
  <1>6. ASSUME NEW t \in L!Threads, L!ShutSocket(t) PROVE LinkTypes'
    BY <1>6 DEF L!ShutSocket
  <1>7. ASSUME NEW t \in L!Threads,
               L!CheckSender(t) \/ L!PutStop(t) \/ L!Forget(t) \/ L!Clear(t)
        PROVE  LinkTypes'
    BY <1>7 DEF L!CheckSender, L!PutStop, L!Forget, L!Clear
  <1>12. ASSUME NEW t \in L!Threads, L!Join(t) PROVE LinkTypes'
    BY <1>12 DEF L!Join
  <1>13. ASSUME NEW t \in L!Threads, L!Await(t) PROVE LinkTypes'
    BY <1>13 DEF L!Await
  <1>8. ASSUME NEW i \in L!Conns, L!Get(i) PROVE LinkTypes'
    BY <1>8 DEF L!Get
  <1>9. ASSUME NEW i \in L!Conns, L!Send(i) PROVE LinkTypes'
    BY <1>9 DEF L!Send
  <1>10. ASSUME NEW i \in L!Conns, L!PeerEnds(i) PROVE LinkTypes'
    BY <1>10 DEF L!PeerEnds
  <1>11. CASE L!SendTest \/ L!SendPut \/ L!Close \/ L!Closed \/ UNCHANGED L!vars
    BY <1>11 DEF L!SendTest, L!SendPut, L!Close, L!Closed, L!vars
  <1>. QED
    BY <1>1, <1>2, <1>3, <1>4, <1>5, <1>6, <1>7, <1>8, <1>9, <1>10, <1>11, <1>12, <1>13
       DEF L!Next, L!ConnectorStep, L!DisconnectStep

\* A thread stays at a step of its own; _disconnect goes back to where its caller goes on.
LEMMA ThreadTyped ==
    ASSUME L!Bounds, ThreadTypes, [L!Next]_(L!vars) PROVE ThreadTypes'
  <1> USE DEF L!Bounds, L!Threads, L!Connectors, L!User, L!InDisconnect, L!Go, L!flagVars,
              L!callVars, ThreadTypes
  <1>1. ASSUME NEW k \in L!Connectors, L!Top(k) PROVE ThreadTypes'
    BY <1>1 DEF L!Top
  <1>2. ASSUME NEW k \in L!Connectors, L!Create(k) PROVE ThreadTypes'
    BY <1>2 DEF L!Create
  <1>3. ASSUME NEW k \in L!Connectors, L!Connect(k) PROVE ThreadTypes'
    BY <1>3 DEF L!Connect
  <1>4. ASSUME NEW k \in L!Connectors, L!Introduce(k) \/ L!Start(k)
        PROVE  ThreadTypes'
    BY <1>4 DEF L!Introduce, L!Start
  <1>14. ASSUME NEW k \in L!Connectors, L!Read(k) PROVE ThreadTypes'
    BY <1>14 DEF L!Read
  <1>5. ASSUME NEW k \in L!Connectors, L!Select(k) \/ L!Finish(k) PROVE ThreadTypes'
    BY <1>5 DEF L!Select, L!Finish
  <1>6. ASSUME NEW t \in L!Threads, L!ShutSocket(t) PROVE ThreadTypes'
    BY <1>6 DEF L!ShutSocket
  <1>15. ASSUME NEW t \in L!Threads, L!CheckSender(t) \/ L!PutStop(t) PROVE ThreadTypes'
    BY <1>15 DEF L!CheckSender, L!PutStop
  <1>7. ASSUME NEW t \in L!Threads, L!Join(t) \/ L!Await(t) \/ L!Forget(t) PROVE ThreadTypes'
    BY <1>7 DEF L!Join, L!Await, L!Forget
  <1>8. ASSUME NEW t \in L!Threads, L!Clear(t) PROVE ThreadTypes'
    BY <1>8 DEF L!Clear
  <1>9. ASSUME NEW i \in L!Conns, L!Get(i) \/ L!Send(i) \/ L!PeerEnds(i) PROVE ThreadTypes'
    BY <1>9 DEF L!Get, L!Send, L!PeerEnds
  <1>10. CASE L!SendTest \/ L!SendPut
    BY <1>10 DEF L!SendTest, L!SendPut
  <1>11. CASE L!Close
    BY <1>11 DEF L!Close
  <1>12. CASE L!Closed
    <2> DEFINE next == {k \in L!Connectors : k = reconnects + 1 /\ pc[k] = "idle"}
    <2>1. connector' = IF next = {} THEN 0 ELSE L!Min(next)
      BY <1>12 DEF L!Closed
    <2>2. next # {} => L!Min(next) \in next
      BY DEF L!Min
    <2>3. connector' \in {0} \cup L!Connectors
      BY <2>1, <2>2
    <2>. QED  BY <1>12, <2>3 DEF L!Closed
  <1>13. CASE UNCHANGED L!vars
    BY <1>13 DEF L!vars
  <1>. QED
    BY <1>1, <1>2, <1>3, <1>4, <1>5, <1>6, <1>7, <1>8, <1>9, <1>10, <1>11, <1>12, <1>13,
       <1>14, <1>15 DEF L!Next, L!ConnectorStep, L!DisconnectStep

\* What goes through the queue.
LEMMA ItemsTyped ==
    /\ L!Stop \in L!Items
    /\ \A n \in Nat : L!Hello(n) \in L!Items /\ L!Frame(n) \in L!Items
  BY DEF L!Stop, L!Hello, L!Frame, L!Items

\* Queue, hands and wires hold frames, greetings and stops; the counts stay in bounds.
LEMMA FrameTyped ==
    ASSUME L!Bounds, LinkTypes, CounterTypes, FrameTypes, [L!Next]_(L!vars)
    PROVE  FrameTypes' /\ CounterTypes'
  <1> USE ItemsTyped DEF L!Bounds, L!Conns, L!linkVars, L!senderVars, L!counters, LinkTypes,
                         CounterTypes, FrameTypes
  <1> DEFINE Same == FrameTypes' /\ CounterTypes'
  <1> DEFINE Counts == UNCHANGED <<frames, late, closes, reconnects>>
  <1> DEFINE Stays == UNCHANGED <<queue, holds, legacyWire>> /\ Counts
  <1>0. Stays => Same
    OBVIOUS
  <1>1. ASSUME NEW k \in L!Connectors, L!Introduce(k) PROVE Same
    <2>1. Counts /\ UNCHANGED <<holds, legacyWire>>
      BY <1>1, Zenon DEF L!Introduce
    <2>2. queue' = queue \/ queue' = Append(queue, L!Hello(sock))
      BY <1>1, Zenon DEF L!Introduce
    <2>3. L!Hello(sock) \in L!Items
      <3>1. sock \in Nat
        OBVIOUS
      <3>. QED  BY <3>1
    <2>4. queue' \in Seq(L!Items)
      <3>1. queue \in Seq(L!Items)
        OBVIOUS
      <3>2. Append(queue, L!Hello(sock)) \in Seq(L!Items)
        BY <2>3, <3>1
      <3>. QED  BY <2>2, <3>1, <3>2, Zenon
    <2>. QED  BY <2>1, <2>4
  <1>2. ASSUME NEW k \in L!Connectors,
               L!Top(k) \/ L!Create(k) \/ L!Connect(k) \/ L!Start(k) \/ L!Read(k)
                   \/ L!Select(k) \/ L!Finish(k)
        PROVE  Same
    <2>1. Stays
      BY <1>2, Zenon DEF L!Top, L!Create, L!Connect, L!Start, L!Read, L!Select, L!Finish
    <2>. QED  BY <1>0, <2>1
  <1>3. ASSUME NEW t \in L!Threads, L!PutStop(t) PROVE Same
    <2>1. queue' = Append(queue, L!Stop) /\ Counts /\ UNCHANGED <<holds, legacyWire>>
      BY <1>3, Zenon DEF L!PutStop
    <2>2. queue' \in Seq(L!Items)
      <3>1. queue \in Seq(L!Items) /\ L!Stop \in L!Items
        OBVIOUS
      <3>. QED  BY <2>1, <3>1
    <2>. QED  BY <2>1, <2>2
  <1>11. ASSUME NEW t \in L!Threads, L!Clear(t) PROVE Same
    <2>1. queue' = <<>> /\ Counts /\ UNCHANGED <<holds, legacyWire>>
      BY <1>11, Zenon DEF L!Clear
    <2>2. queue' \in Seq(L!Items)
      BY <2>1
    <2>. QED  BY <2>1, <2>2
  <1>4. ASSUME NEW t \in L!Threads,
               L!ShutSocket(t) \/ L!CheckSender(t) \/ L!Join(t) \/ L!Await(t) \/ L!Forget(t)
        PROVE  Same
    <2>1. Stays
      BY <1>4, Zenon DEF L!ShutSocket, L!CheckSender, L!Join, L!Await, L!Forget
    <2>. QED  BY <1>0, <2>1
  <1>5. ASSUME NEW i \in L!Conns, L!Get(i) PROVE Same
    <2>1. /\ queue # <<>> /\ queue' = Tail(queue) /\ Counts /\ UNCHANGED legacyWire
          /\ holds' = [holds EXCEPT ![i] = Head(queue)]
      BY <1>5, Zenon DEF L!Get
    <2>2. Head(queue) \in L!Items /\ Tail(queue) \in Seq(L!Items)
      <3>1. queue \in Seq(L!Items)
        OBVIOUS
      <3>. QED  BY <2>1, <3>1
    <2>3. holds' \in [L!Conns -> L!Items] /\ queue' \in Seq(L!Items)
      BY <2>1, <2>2
    <2>. QED  BY <2>1, <2>3
  <1>6. ASSUME NEW i \in L!Conns, L!Send(i) PROVE Same
    <2>1. CASE sock = 0
      BY <1>6, <2>1 DEF L!Send, L!Here
    <2>2. CASE sock # 0
      <3>1. sock \in L!Conns
        BY <2>2
      <3>2. \A w \in Seq(Nat), m \in Nat : Append(w, m) \in Seq(Nat)
        OBVIOUS
      <3>3. Append(legacyWire[sock], holds[i].n) \in Seq(Nat)
        BY <1>6, <3>1, <3>2 DEF L!Items
      <3>. QED  BY <1>6, <3>1, <3>3 DEF L!Send
    <2>. QED  BY <2>1, <2>2
  <1>7. ASSUME NEW i \in L!Conns, L!PeerEnds(i) PROVE Same
    BY <1>7 DEF L!PeerEnds
  <1>8. CASE L!SendTest \/ L!Close \/ L!Closed
    <2>1. UNCHANGED <<queue, holds, legacyWire>>
      BY <1>8 DEF L!SendTest, L!Close, L!Closed
    <2>2. CounterTypes'
      <3>1. CASE L!SendTest
        <4>1. /\ frames' = frames + 1 /\ UNCHANGED <<closes, reconnects>>
              /\ IF reconnects = 0 THEN frames < MaxFrames ELSE late < MaxLate
              /\ late' = IF reconnects = 0 THEN late ELSE late + 1
          BY <3>1 DEF L!SendTest
        <4>2. frames \in Nat /\ late \in Nat /\ late <= MaxLate /\ frames <= MaxFrames + late
              /\ MaxFrames \in Nat /\ MaxLate \in Nat
          OBVIOUS
        <4>3. frames' \in 0..(MaxFrames + late') /\ late' \in 0..MaxLate
          BY <4>1, <4>2
        <4>. QED  BY <4>1, <4>3
      <3>2. CASE L!Close
        <4>1. /\ closes < MaxCloses /\ closes' = closes + 1 /\ UNCHANGED <<frames, late>>
              /\ \/ UNCHANGED reconnects
                 \/ reconnects < MaxReconnects /\ reconnects' = reconnects + 1
          BY <3>2, Zenon DEF L!Close
        <4>2. closes' \in 0..MaxCloses
          BY <4>1
        <4>3. reconnects' \in 0..MaxReconnects
          <5>1. reconnects \in 0..MaxReconnects /\ MaxReconnects \in Nat
            OBVIOUS
          <5>2. \/ reconnects' = reconnects
                \/ reconnects' = reconnects + 1 /\ reconnects < MaxReconnects
            BY <4>1
          <5>3. CASE reconnects' = reconnects
            BY <5>1, <5>3
          <5>4. CASE reconnects' = reconnects + 1 /\ reconnects < MaxReconnects
            BY <5>1, <5>4
          <5>. QED  BY <5>2, <5>3, <5>4, Zenon
        <4>4. late' \in 0..MaxLate /\ frames' \in 0..(MaxFrames + late')
          BY <4>1
        <4>. QED  BY <4>2, <4>3, <4>4
      <3>3. CASE L!Closed
        BY <3>3 DEF L!Closed
      <3>. QED  BY <1>8, <3>1, <3>2, <3>3
    <2>. QED  BY <2>1, <2>2
  <1>9. CASE L!SendPut
    <2>1. Counts /\ UNCHANGED <<holds, legacyWire>>
      BY <1>9, Zenon DEF L!SendPut
    <2>2. L!Frame(frames) \in L!Items /\ queue' = Append(queue, L!Frame(frames))
      <3>1. frames \in Nat
        OBVIOUS
      <3>2. queue' = Append(queue, L!Frame(frames))
        BY <1>9, Zenon DEF L!SendPut
      <3>. QED  BY <3>1, <3>2
    <2>3. queue' \in Seq(L!Items)
      <3>1. queue \in Seq(L!Items)
        OBVIOUS
      <3>. QED  BY <2>2, <3>1
    <2>. QED  BY <2>1, <2>3
  <1>10. CASE UNCHANGED L!vars
    BY <1>10 DEF L!vars
  <1>. QED
    BY <1>1, <1>2, <1>3, <1>4, <1>5, <1>6, <1>7, <1>8, <1>9, <1>10, <1>11
       DEF L!Next, L!ConnectorStep, L!DisconnectStep

\* The flags stay Boolean.
LEMMA FlagTyped ==
    ASSUME FlagTypes, [L!Next]_(L!vars) PROVE FlagTypes'
  <1> USE DEF FlagTypes, L!flagVars
  <1>1. ASSUME NEW k \in L!Connectors, L!Top(k) PROVE FlagTypes'
    BY <1>1, Zenon DEF L!Top
  <1>2. ASSUME NEW k \in L!Connectors, L!Connect(k) PROVE FlagTypes'
    BY <1>2, Zenon DEF L!Connect
  <1>3. ASSUME NEW k \in L!Connectors,
               L!Create(k) \/ L!Introduce(k) \/ L!Start(k) \/ L!Read(k) \/ L!Select(k)
        PROVE  FlagTypes'
    BY <1>3, Zenon DEF L!Create, L!Introduce, L!Start, L!Read, L!Select
  <1>4. ASSUME NEW k \in L!Connectors, L!Finish(k) PROVE FlagTypes'
    BY <1>4, Zenon DEF L!Finish
  <1>5. ASSUME NEW t \in L!Threads, L!DisconnectStep(t) PROVE FlagTypes'
    BY <1>5, Zenon DEF L!DisconnectStep, L!ShutSocket, L!CheckSender, L!PutStop, L!Join, L!Await, L!Forget, L!Clear
  <1>6. ASSUME NEW i \in L!Conns, L!Get(i) \/ L!Send(i) \/ L!PeerEnds(i) PROVE FlagTypes'
    BY <1>6, Zenon DEF L!Get, L!Send, L!PeerEnds
  <1>7. CASE L!SendTest \/ L!SendPut \/ UNCHANGED L!vars
    BY <1>7, Zenon DEF L!SendTest, L!SendPut, L!vars
  <1>8. CASE L!Close
    BY <1>8, Zenon DEF L!Close
  <1>9. CASE L!Closed
    BY <1>9, Zenon DEF L!Closed
  <1>. QED
    BY <1>1, <1>2, <1>3, <1>4, <1>5, <1>6, <1>7, <1>8, <1>9 DEF L!Next, L!ConnectorStep
\* The connector and the user's thread; a thread's step moves no other.
LEMMA Moving ==
    ASSUME L!Bounds, ThreadTypes
    PROVE  /\ 1 \in L!Threads /\ L!User \in L!Threads /\ L!User # 1
           /\ \A k \in L!Connectors : k \in L!Threads
           /\ \A t \in L!Threads : \A step : L!Go(t, step) =>
                 pc'[t] = step /\ \A u \in L!Threads \ {t} : pc'[u] = pc[u]
  BY DEF L!Bounds, ThreadTypes, L!Threads, L!Connectors, L!User, L!Go

\* Where the steps of the user's thread and of _disconnect take a thread.
LEMMA UserMoves ==
    ASSUME L!Bounds, ThreadTypes, L!SendTest \/ L!SendPut \/ L!Close
    PROVE  /\ pc[L!User] \in {"idle", "put"} /\ pc'[L!User] \in {"idle", "put", "shut"}
           /\ \A t \in L!Threads \ {L!User} : pc'[t] = pc[t]
  <1>1. pc[L!User] \in {"idle", "put"}
    BY DEF L!SendTest, L!SendPut, L!Close
  <1>2. \E step \in {"idle", "put", "shut"} : L!Go(L!User, step)
    BY Zenon DEF L!SendTest, L!SendPut, L!Close
  <1>. QED  BY <1>1, <1>2, Moving

LEMMA DisconnectMoves ==
    ASSUME L!Bounds, ThreadTypes, NEW t \in L!Threads, L!DisconnectStep(t)
    PROVE  /\ \/ pc[t] = "shut" /\ pc'[t] = "check"
              \/ pc[t] = "check" /\ pc'[t] = (IF qthread = 0 THEN "clear" ELSE "stop")
              \/ pc[t] = "stop" /\ pc'[t] = "join"
              \/ pc[t] = "join" /\ pc'[t] = (IF qthread # 0 THEN "wait"
                                             ELSE IF t = L!User THEN "idle" ELSE "dead")
              \/ pc[t] = "wait" /\ pc'[t] = "forget"
              \/ pc[t] = "forget" /\ pc'[t] = "clear"
              \/ pc[t] = "clear" /\ pc'[t] = then[t]
           /\ \A u \in L!Threads \ {t} : pc'[u] = pc[u]
  <1> DEFINE Goes(from, step) == pc[t] = from /\ L!Go(t, step)
  <1>1. ASSUME L!ShutSocket(t) PROVE Goes("shut", "check")
    BY <1>1, Zenon DEF L!ShutSocket
  <1>2. ASSUME L!CheckSender(t) PROVE Goes("check", IF qthread = 0 THEN "clear" ELSE "stop")
    BY <1>2, Zenon DEF L!CheckSender
  <1>3. ASSUME L!PutStop(t) PROVE Goes("stop", "join")
    BY <1>3, Zenon DEF L!PutStop
  <1>4. ASSUME L!Join(t)
        PROVE  Goes("join", IF qthread # 0 THEN "wait" ELSE IF t = L!User THEN "idle" ELSE "dead")
    BY <1>4, Zenon DEF L!Join
  <1>5. ASSUME L!Await(t) PROVE Goes("wait", "forget")
    BY <1>5, Zenon DEF L!Await
  <1>6. ASSUME L!Forget(t) PROVE Goes("forget", "clear")
    BY <1>6, Zenon DEF L!Forget
  <1>7. ASSUME L!Clear(t) PROVE Goes("clear", then[t])
    BY <1>7, Zenon DEF L!Clear
  <1>8. CASE L!ShutSocket(t)
    BY <1>1, <1>8, Moving
  <1>9. CASE L!CheckSender(t)
    BY <1>2, <1>9, Moving
  <1>10. CASE L!PutStop(t)
    BY <1>3, <1>10, Moving
  <1>11. CASE L!Join(t)
    BY <1>4, <1>11, Moving
  <1>14. CASE L!Await(t)
    BY <1>5, <1>14, Moving
  <1>12. CASE L!Forget(t)
    BY <1>6, <1>12, Moving
  <1>13. CASE L!Clear(t)
    BY <1>7, <1>13, Moving
  <1>. QED  BY <1>8, <1>9, <1>10, <1>11, <1>12, <1>13, <1>14 DEF L!DisconnectStep

\* Where those of a connector take it.
LEMMA ConnectorMoves ==
    ASSUME L!Bounds, ThreadTypes, NEW k \in L!Connectors, L!ConnectorStep(k)
    PROVE  /\ \/ pc[k] = "top" /\ pc'[k] = (IF running[k] THEN "create" ELSE "done")
              \/ pc[k] = "create" /\ pc'[k] \in {"connect", "top"}
              \/ pc[k] = "connect" /\ pc'[k] \in {"hello", "top", "dead"}
              \/ pc[k] = "hello" /\ pc'[k] = "start"
              \/ pc[k] = "start" /\ pc'[k] = "read"
              \/ pc[k] = "read" /\ pc'[k] \in {"select", "finish"}
              \/ pc[k] = "select" /\ pc'[k] \in {"read", "shut", "finish"}
              \/ pc[k] = "finish" /\ pc'[k] = "shut"
           /\ \A u \in L!Threads \ {k} : pc'[u] = pc[u]
  <1> DEFINE Goes(from, to) == pc[k] = from /\ \E step \in to : L!Go(k, step)
  <1>1. ASSUME L!Top(k) PROVE Goes("top", {IF running[k] THEN "create" ELSE "done"})
    BY <1>1, Zenon DEF L!Top
  <1>2. ASSUME L!Create(k) PROVE Goes("create", {"connect", "top"})
    BY <1>2, Zenon DEF L!Create
  <1>3. ASSUME L!Connect(k) PROVE Goes("connect", {"hello", "top", "dead"})
    BY <1>3, Zenon DEF L!Connect
  <1>4. ASSUME L!Introduce(k) PROVE Goes("hello", {"start"})
    BY <1>4, Zenon DEF L!Introduce
  <1>5. ASSUME L!Start(k) PROVE Goes("start", {"read"})
    BY <1>5, Zenon DEF L!Start
  <1>6. ASSUME L!Read(k) PROVE Goes("read", {"select", "finish"})
    BY <1>6, Zenon DEF L!Read
  <1>7. ASSUME L!Select(k) PROVE Goes("select", {"read", "shut", "finish"})
    BY <1>7, Zenon DEF L!Select
  <1>8. ASSUME L!Finish(k) PROVE Goes("finish", {"shut"})
    BY <1>8, Zenon DEF L!Finish
  <1>9. k \in L!Threads
    BY Moving
  <1>10. CASE L!Top(k) \/ L!Create(k)
    BY <1>1, <1>2, <1>9, <1>10, Moving
  <1>11. CASE L!Connect(k) \/ L!Introduce(k)
    BY <1>3, <1>4, <1>9, <1>11, Moving
  <1>12. CASE L!Start(k) \/ L!Read(k)
    BY <1>5, <1>6, <1>9, <1>12, Moving
  <1>13. CASE L!Select(k) \/ L!Finish(k)
    BY <1>7, <1>8, <1>9, <1>13, Moving
  <1>. QED  BY <1>10, <1>11, <1>12, <1>13 DEF L!ConnectorStep

-----------------------------------------------------------------------------
\* close() tells the connector to end, and only then does the user's thread
\* disconnect.
Started ==
    /\ pc[1] # "idle"
    /\ running[1] => connector = 1 /\ closes = 0
    /\ closes = 0 => pc[L!User] \in {"idle", "put"} /\ reconnects = 0

Dialling == {"create", "connect", "hello", "start"}

\* queue_thread names the sender there is.  The connector dials only without one,
\* and starts one only while the user's thread is not at one that it stops.
SenderNamed ==
    /\ \A s \in L!Alive : qthread = s
    /\ pc[1] \in {"top", "done", "dead"} \cup Dialling => L!Alive = {}
    /\ pc[1] \in {"top", "done", "clear"} \cup Dialling => qthread = 0
    /\ \A t \in {1, L!User} :
          /\ pc[t] = "forget" => L!Alive = {}
          /\ pc[t] = "wait" => joins[t] \in L!Conns /\ L!Alive \subseteq {joins[t]}
    /\ pc[L!User] \in {"stop", "join", "wait", "forget"} => pc[1] \notin Dialling

\* server_sock is the connection that is open, and the connector is in it.
SocketNamed ==
    \A i \in L!Conns : link[i] \in {"up", "eof"} =>
        sock = i /\ pc[1] \in {"hello", "start", "read", "select", "finish", "shut"}

Greeted == \E j \in 1..Len(queue) : queue[j].kind = "hello"

\* A greeting is queued only while its connector has still to clear the queue, or
\* died because the user's thread forgot the sender, and will clear it.
GreetingCleared ==
    /\ Greeted => \/ pc[1] \in {"start", "read", "select", "finish"} \cup L!InDisconnect
                  \/ pc[1] = "dead" /\ pc[L!User] = "clear"
    /\ Greeted /\ qthread = 0 /\ pc[1] \in {"stop", "join"} => pc[L!User] = "clear"

StopQueued == \E j \in 1..Len(queue) : queue[j] = L!Stop

\* The user's thread waits for a sender only behind a None that is still queued: the
\* connector clears the queue only when queue_thread names no sender.
Answered == pc[L!User] \in {"join", "wait"} => L!Alive = {} \/ StopQueued

Alone == Started /\ SenderNamed /\ SocketNamed /\ GreetingCleared /\ Answered

SoloStep ==
    \/ L!ConnectorStep(1)
    \/ \E t \in {1, L!User} : L!DisconnectStep(t)
    \/ \E i \in L!Conns : L!Get(i) \/ L!Send(i) \/ L!PeerEnds(i)
    \/ L!SendTest \/ L!SendPut \/ L!Close \/ L!Closed
    \/ UNCHANGED L!vars

\* close() has the user's thread back, and may start the connector that is next.
LEMMA ClosedDoes ==
    ASSUME L!Bounds, ThreadTypes, L!Closed
    PROVE  /\ pc[L!User] = "closing" /\ pc'[L!User] = "idle"
           /\ \A k \in L!Connectors :
                 /\ running'[k] => running[k] \/ (k = reconnects + 1 /\ pc[k] = "idle")
                 /\ \/ pc'[k] = pc[k]
                    \/ k = reconnects + 1 /\ pc[k] = "idle" /\ pc'[k] = "top"
  <1> DEFINE next == {k \in L!Connectors : k = reconnects + 1 /\ pc[k] = "idle"}
  <1>1. L!User \in L!Threads /\ \A k \in L!Connectors : k \in L!Threads /\ k # L!User
    BY DEF L!Bounds, L!Threads, L!Connectors, L!User
  <1>2. pc' = [t \in L!Threads |-> IF t = L!User THEN "idle" ELSE IF t \in next THEN "top" ELSE pc[t]]
    BY DEF L!Closed
  <1>3. running' = [k \in L!Connectors |-> running[k] \/ k \in next]
    BY DEF L!Closed
  <1>4. \A k \in L!Connectors : running'[k] => running[k] \/ k \in next
    BY <1>3, Zenon
  <1>. QED  BY <1>1, <1>2, <1>4 DEF L!Closed

\* A connector that was started does not become an unstarted one, and an
\* unstarted one does nothing.
LEMMA SoloKept ==
    ASSUME L!Bounds, ThreadTypes, [L!Next]_(L!vars), L!OneConnector' PROVE L!OneConnector
  <1> USE DEF L!OneConnector
  <1>0. 1 \in L!Connectors /\ \A k \in L!Connectors : k \in L!Threads /\ k # L!User
    BY DEF L!Bounds, L!Connectors, L!Threads, L!User
  <1>1. ASSUME NEW k \in L!Connectors, L!ConnectorStep(k) PROVE L!OneConnector
    BY <1>0, <1>1, ConnectorMoves
  <1>2. ASSUME NEW t \in L!Threads, L!DisconnectStep(t) PROVE L!OneConnector
    <2>1. \A k \in L!Connectors : then[k] # "idle"
      BY <1>0 DEF ThreadTypes
    <2>. QED  BY <1>0, <1>2, <2>1, DisconnectMoves
  <1>3. ASSUME NEW i \in L!Conns, L!Get(i) \/ L!Send(i) \/ L!PeerEnds(i) PROVE L!OneConnector
    BY <1>3 DEF L!Get, L!Send, L!PeerEnds
  <1>4. CASE L!SendTest \/ L!SendPut \/ L!Close
    BY <1>0, <1>4, UserMoves
  <1>5. CASE UNCHANGED L!vars
    BY <1>5 DEF L!vars
  <1>6. CASE L!Closed
    BY <1>6, ClosedDoes
  <1>. QED  BY <1>1, <1>2, <1>3, <1>4, <1>5, <1>6 DEF L!Next

\* While the others are unstarted, only the first connector and the user's thread step.
LEMMA SoloSteps ==
    ASSUME L!Bounds, ThreadTypes, [L!Next]_(L!vars), L!OneConnector PROVE SoloStep
  <1>1. ASSUME NEW k \in L!Connectors, L!ConnectorStep(k) PROVE k = 1
    BY <1>1, ConnectorMoves DEF L!OneConnector
  <1>2. ASSUME NEW t \in L!Threads, L!DisconnectStep(t) PROVE t \in {1, L!User}
    BY <1>2, DisconnectMoves DEF L!OneConnector, L!Threads
  <1>. QED  BY <1>1, <1>2 DEF L!Next, SoloStep

\* close() lowers the flag of the running connector before it disconnects.
LEMMA StartedStep ==
    ASSUME L!Bounds, ThreadTypes, CounterTypes, FlagTypes, Started, SoloStep PROVE Started'
  <1> USE DEF L!Bounds, L!Threads, L!Connectors, L!User, L!Go, ThreadTypes, CounterTypes,
              L!InDisconnect, L!counters, L!flagVars, Started
  <1>1. CASE L!ConnectorStep(1)
    <2>1. UNCHANGED <<running, connector, closes, reconnects>>
      BY <1>1, Zenon DEF L!ConnectorStep, L!Top, L!Create, L!Connect, L!Introduce, L!Start, L!Read,
                         L!Select, L!Finish
    <2>. QED  BY <1>1, <2>1, ConnectorMoves
  <1>2. ASSUME NEW t \in {1, L!User}, L!DisconnectStep(t) PROVE Started'
    <2>1. UNCHANGED <<running, connector, closes, reconnects>>
      BY <1>2, Zenon DEF L!DisconnectStep, L!ShutSocket, L!CheckSender, L!PutStop, L!Join, L!Await,
                         L!Forget, L!Clear
    <2>. QED  BY <1>2, <2>1, DisconnectMoves
  <1>3. ASSUME NEW i \in L!Conns, L!Get(i) \/ L!Send(i) \/ L!PeerEnds(i) PROVE Started'
    BY <1>3 DEF L!Get, L!Send, L!PeerEnds
  <1>4. CASE L!SendTest \/ L!SendPut \/ UNCHANGED L!vars
    <2>1. UNCHANGED <<running, connector, closes, reconnects>>
      BY <1>4, Zenon DEF L!SendTest, L!SendPut, L!vars
    <2>2. 1 \in L!Threads /\ L!User \in L!Threads /\ 1 # L!User
      OBVIOUS
    <2>3. CASE L!SendTest
      <3>1. L!Go(L!User, "put") /\ pc[L!User] = "idle"
        BY <2>3, Zenon DEF L!SendTest
      <3>2. pc'[1] = pc[1] /\ pc'[L!User] = "put"
        BY <2>2, <3>1
      <3>. QED  BY <2>1, <3>1, <3>2
    <2>4. CASE L!SendPut
      <3>1. L!Go(L!User, "idle") /\ pc[L!User] = "put"
        BY <2>4, Zenon DEF L!SendPut
      <3>2. pc'[1] = pc[1] /\ pc'[L!User] = "idle"
        BY <2>2, <3>1
      <3>. QED  BY <2>1, <3>1, <3>2
    <2>5. CASE UNCHANGED L!vars
      <3>1. pc' = pc
        BY <2>5, Zenon DEF L!vars
      <3>. QED  BY <2>1, <3>1
    <2>. QED  BY <1>4, <2>3, <2>4, <2>5
  <1>5. CASE L!Close
    <2>1. 1 \in L!Connectors /\ running' = [k \in L!Connectors |-> running[k] /\ k # connector]
      BY <1>5 DEF L!Close
    <2>2. ~running'[1]
      BY <2>1, Zenon
    <2>3. closes' # 0 /\ pc'[1] = pc[1]
      BY <1>5 DEF L!Close
    <2>. QED  BY <2>2, <2>3
  <1>6. CASE L!Closed
    <2>1. closes # 0 /\ ~running[1]
      BY <1>6, ClosedDoes
    <2>2. ~running'[1] /\ pc'[1] # "idle"
      BY <1>6, <2>1, ClosedDoes
    <2>. QED  BY <1>6, <2>1, <2>2 DEF L!Closed
  <1>. QED  BY <1>1, <1>2, <1>3, <1>4, <1>5, <1>6 DEF SoloStep

\* Of the two threads that step, each leaves the other where it is.
LEMMA SoloMoves ==
    ASSUME L!Bounds, ThreadTypes
    PROVE  /\ 1 \in L!Connectors /\ 1 \in L!Threads /\ L!User \in L!Threads /\ L!User # 1
           /\ L!ConnectorStep(1) \/ L!DisconnectStep(1) => pc'[L!User] = pc[L!User]
           /\ L!DisconnectStep(L!User) => pc'[1] = pc[1]
  <1>1. 1 \in L!Connectors
    BY DEF L!Bounds, L!Connectors
  <1>. QED  BY <1>1, Moving, ConnectorMoves, DisconnectMoves

\* Whichever thread runs _disconnect, the one sender there is stays the one queue_thread
\* names, and the connector dials again only when it has ended.
LEMMA SenderStep ==
    ASSUME L!Bounds, LinkTypes, ThreadTypes, Started, SenderNamed, SoloStep PROVE SenderNamed'
  <1>16. ASSUME L!ConnectorStep(1)
         PROVE  /\ \/ pc[1] = "top" /\ pc'[1] = (IF running[1] THEN "create" ELSE "done")
                   \/ pc[1] \in {"create", "connect"}
                        /\ pc'[1] \in {"connect", "top", "hello", "dead"}
                   \/ pc[1] = "hello" /\ pc'[1] = "start"
                   \/ pc[1] = "start" /\ pc'[1] = "read"
                   \/ pc[1] \in {"read", "select", "finish"}
                        /\ pc'[1] \in {"read", "select", "finish", "shut"}
                /\ pc'[L!User] = pc[L!User]
    BY <1>16, SoloMoves, ConnectorMoves
  <1>17. ASSUME L!DisconnectStep(1) PROVE pc'[L!User] = pc[L!User]
    BY <1>17, SoloMoves
  <1>18. ASSUME L!DisconnectStep(L!User) PROVE pc'[1] = pc[1]
    BY <1>18, SoloMoves
  <1>19. ASSUME NEW t \in {1, L!User}, L!DisconnectStep(t)
         PROVE  \/ pc[t] = "shut" /\ pc'[t] = "check"
                \/ pc[t] = "check" /\ pc'[t] = (IF qthread = 0 THEN "clear" ELSE "stop")
                \/ pc[t] = "stop" /\ pc'[t] = "join"
                \/ pc[t] = "join" /\ pc'[t] = (IF qthread # 0 THEN "wait"
                                               ELSE IF t = L!User THEN "idle" ELSE "dead")
                \/ pc[t] = "wait" /\ pc'[t] = "forget"
                \/ pc[t] = "forget" /\ pc'[t] = "clear"
                \/ pc[t] = "clear" /\ pc'[t] = then[t]
    BY <1>19, SoloMoves, DisconnectMoves
  <1> USE DEF L!Bounds, L!Threads, L!Connectors, L!Conns, L!User, L!Go, L!Alive, LinkTypes,
              ThreadTypes, L!InDisconnect, L!senderVars, L!callVars, SenderNamed, Dialling
  <1>0. 1 \in L!Connectors /\ 1 \in L!Threads /\ L!User \in L!Threads /\ L!User # 1
    OBVIOUS
  <1>1. CASE L!Top(1) \/ L!Create(1) \/ L!Connect(1) \/ L!Introduce(1)
    <2>1. UNCHANGED <<qthread, sender, joins>> /\ L!ConnectorStep(1)
      BY <1>1 DEF L!Top, L!Create, L!Connect, L!Introduce, L!ConnectorStep
    <2>2. pc[1] \in {"top", "create", "connect", "hello"}
      BY <1>1 DEF L!Top, L!Create, L!Connect, L!Introduce
    <2>3. pc[1] = "top" /\ pc'[1] = "create" => pc[L!User] \in {"idle", "put"}
      BY <1>16, <2>1 DEF Started
    <2>. QED  BY <1>0, <1>16, <2>1, <2>2, <2>3
  <1>3. CASE L!Start(1)
    <2>1. L!ConnectorStep(1) /\ qthread' # 0 /\ qthread' \in L!Conns /\ L!Alive' = {qthread'}
      BY <1>3 DEF L!Start, L!ConnectorStep
    <2>2. pc[1] = "start" /\ pc'[1] = "read" /\ UNCHANGED joins
      BY <1>3, <1>16, <2>1 DEF L!Start
    <2>3. pc'[L!User] = pc[L!User] /\ pc[L!User] \notin {"stop", "join", "wait", "forget"}
      BY <1>0, <1>16, <2>1, <2>2
    <2>. QED  BY <2>1, <2>2, <2>3
  <1>4. CASE L!Read(1) \/ L!Select(1) \/ L!Finish(1)
    <2>1. UNCHANGED <<qthread, sender, joins>> /\ L!ConnectorStep(1)
      BY <1>4 DEF L!Read, L!Select, L!Finish, L!ConnectorStep
    <2>2. pc[1] \in {"read", "select", "finish"}
      BY <1>4 DEF L!Read, L!Select, L!Finish
    <2>. QED  BY <1>0, <1>16, <2>1, <2>2
  <1>5. ASSUME NEW t \in {1, L!User}, L!ShutSocket(t) \/ L!PutStop(t) \/ L!CheckSender(t)
        PROVE  SenderNamed'
    <2>1. UNCHANGED <<qthread, sender, joins>> /\ L!DisconnectStep(t)
      BY <1>5 DEF L!ShutSocket, L!PutStop, L!CheckSender, L!DisconnectStep
    <2>2. pc[t] \in {"shut", "stop", "check"}
      BY <1>5 DEF L!ShutSocket, L!PutStop, L!CheckSender
    <2>3. CASE t = 1
      BY <1>0, <1>17, <1>19, <2>1, <2>2, <2>3
    <2>4. CASE t = L!User
      BY <1>0, <1>18, <1>19, <2>1, <2>2, <2>4
    <2>. QED  BY <2>3, <2>4
  <1>6. ASSUME NEW t \in {1, L!User}, L!Join(t) PROVE SenderNamed'
    <2>1. /\ UNCHANGED <<qthread, sender>> /\ joins' = [joins EXCEPT ![t] = qthread]
          /\ pc[t] = "join" /\ L!DisconnectStep(t)
      BY <1>6 DEF L!Join, L!DisconnectStep
    <2>2. pc'[t] = (IF qthread # 0 THEN "wait" ELSE IF t = L!User THEN "idle" ELSE "dead")
      BY <1>19, <2>1
    <2>3. joins'[t] = qthread /\ \A u \in {1, L!User} \ {t} : joins'[u] = joins[u]
      BY <1>0, <2>1
    <2>4. L!Alive' = L!Alive /\ (qthread = 0 => L!Alive = {})
      BY <2>1
    <2>5. CASE t = 1
      BY <1>0, <1>17, <2>1, <2>2, <2>3, <2>4, <2>5
    <2>6. CASE t = L!User
      BY <1>0, <1>18, <2>1, <2>2, <2>3, <2>4, <2>6
    <2>. QED  BY <2>5, <2>6
  <1>15. ASSUME NEW t \in {1, L!User}, L!Await(t) PROVE SenderNamed'
    <2>1. /\ UNCHANGED <<qthread, sender>> /\ joins' = [joins EXCEPT ![t] = 0]
          /\ pc[t] = "wait" /\ L!DisconnectStep(t)
      BY <1>15 DEF L!Await, L!DisconnectStep
    <2>2. pc'[t] = "forget"
      BY <1>19, <2>1
    <2>3. \A u \in {1, L!User} \ {t} : joins'[u] = joins[u]
      BY <1>0, <2>1
    <2>4. L!Alive' = {} /\ L!Alive = {}
      BY <1>15, <2>1 DEF L!Await
    <2>5. CASE t = 1
      BY <1>0, <1>17, <2>1, <2>2, <2>3, <2>4, <2>5
    <2>6. CASE t = L!User
      BY <1>0, <1>18, <2>1, <2>2, <2>3, <2>4, <2>6
    <2>. QED  BY <2>5, <2>6
  <1>7. ASSUME NEW t \in {1, L!User}, L!Forget(t) PROVE SenderNamed'
    <2>1. L!Alive = {} /\ L!Alive' = {} /\ qthread' = 0 /\ joins' = joins
      BY <1>7 DEF L!Forget
    <2>2. pc'[1] \notin Dialling \/ pc'[1] = pc[1]
      BY <1>7 DEF L!Forget
    <2>3. pc'[L!User] \in {"stop", "join", "wait", "forget"} => pc'[L!User] = pc[L!User]
      BY <1>7 DEF L!Forget
    <2>4. \A u \in {1, L!User} : pc'[u] = "wait" => pc[u] = "wait"
      BY <1>7 DEF L!Forget
    <2>. QED  BY <2>1, <2>2, <2>3, <2>4
  <1>8. ASSUME NEW t \in {1, L!User}, L!Clear(t) PROVE SenderNamed'
    <2>1. UNCHANGED <<qthread, sender, joins>> /\ pc[t] = "clear" /\ L!DisconnectStep(t)
      BY <1>8 DEF L!Clear, L!DisconnectStep
    <2>2. pc'[t] \in IF t = L!User THEN {"closing"} ELSE {"top", "read"}
      BY <1>19, <2>1
    <2>3. CASE t = 1
      BY <1>0, <1>17, <2>1, <2>2, <2>3
    <2>4. CASE t = L!User
      BY <1>0, <1>18, <2>1, <2>2, <2>4
    <2>. QED  BY <2>3, <2>4
  <1>9. ASSUME NEW i \in L!Conns, L!Get(i) \/ L!Send(i) PROVE SenderNamed'
    <2>1. L!Alive' \subseteq L!Alive /\ UNCHANGED <<qthread, pc, joins>>
      BY <1>9 DEF L!Get, L!Send
    <2>. QED  BY <2>1
  <1>10. ASSUME NEW i \in L!Conns, L!PeerEnds(i) PROVE SenderNamed'
    BY <1>10 DEF L!PeerEnds
  <1>11. CASE L!SendTest \/ L!SendPut \/ L!Close
    <2>1. UNCHANGED <<qthread, sender, joins>>
      BY <1>11 DEF L!SendTest, L!SendPut, L!Close
    <2>. QED  BY <1>0, <1>11, <2>1, UserMoves
  <1>14. CASE UNCHANGED L!vars
    BY <1>14 DEF L!vars
  <1>12. CASE L!Closed
    <2>1. UNCHANGED <<qthread, sender, joins>>
      BY <1>12 DEF L!Closed
    <2>2. pc'[1] = pc[1] /\ pc'[L!User] = "idle"
      BY <1>12, ClosedDoes DEF Started
    <2>. QED  BY <2>1, <2>2
  <1>20. CASE L!ConnectorStep(1)
    BY <1>1, <1>3, <1>4, <1>20, Zenon DEF L!ConnectorStep
  <1>21. ASSUME NEW t \in {1, L!User}, L!DisconnectStep(t) PROVE SenderNamed'
    BY <1>5, <1>6, <1>7, <1>8, <1>15, <1>21, Zenon DEF L!DisconnectStep
  <1> HIDE DEF SenderNamed
  <1>. QED  BY <1>9, <1>10, <1>11, <1>12, <1>14, <1>20, <1>21, Zenon DEF SoloStep

\* A connection that is open stays the one in server_sock, with its connector in run().
LEMMA SocketStep ==
    ASSUME L!Bounds, LinkTypes, ThreadTypes, Started, SocketNamed, SoloStep PROVE SocketNamed'
  <1> USE DEF L!Bounds, L!Threads, L!Connectors, L!Conns, L!User, L!Go, LinkTypes,
              ThreadTypes, L!InDisconnect, L!linkVars, SocketNamed
  <1>1. CASE L!Create(1)
    BY <1>1 DEF L!Create
  <1>2. CASE L!Connect(1)
    <2>1. \A i \in L!Conns : link[i] \notin {"up", "eof"}
      BY <1>2 DEF L!Connect
    <2>2. CASE UNCHANGED link
      BY <2>1, <2>2
    <2>3. CASE link' = [link EXCEPT ![sock] = "up"] /\ pc' = [pc EXCEPT ![1] = "hello"]
      BY <1>2, <2>1, <2>3 DEF L!Connect
    <2>. QED  BY <1>2, <2>2, <2>3 DEF L!Connect
  <1>3. CASE L!Top(1) \/ L!Introduce(1)
    <2>1. UNCHANGED <<sock, link>> /\ (pc[1] = "top" \/ pc'[1] = "start")
      <3>1. CASE L!Top(1)
        BY <1>3, <3>1 DEF L!Top
      <3>2. CASE L!Introduce(1)
        BY <3>2 DEF L!Introduce
      <3>. QED  BY <1>3, <3>1, <3>2
    <2>2. pc[1] = "top" => \A i \in L!Conns : link[i] \notin {"up", "eof"}
      OBVIOUS
    <2>. QED  BY <2>1, <2>2
  <1>11. CASE L!Start(1)
    BY <1>11 DEF L!Start
  <1>4. CASE L!Read(1) \/ L!Select(1) \/ L!Finish(1)
    <2>1. UNCHANGED <<sock, link>> /\ L!ConnectorStep(1)
      BY <1>4 DEF L!Read, L!Select, L!Finish, L!ConnectorStep
    <2>2. 1 \in L!Connectors /\ pc[1] \in {"read", "select", "finish"}
      BY <1>4 DEF L!Read, L!Select, L!Finish
    <2>3. pc'[1] \in {"read", "select", "finish", "shut"}
      BY <2>1, <2>2, ConnectorMoves
    <2>. QED  BY <2>1, <2>3
  <1>5. ASSUME NEW t \in {1, L!User}, L!ShutSocket(t) PROVE SocketNamed'
    BY <1>5 DEF L!ShutSocket
  <1>6. ASSUME NEW t \in {1, L!User},
               L!CheckSender(t) \/ L!PutStop(t) \/ L!Join(t) \/ L!Await(t) \/ L!Forget(t) \/ L!Clear(t)
        PROVE  SocketNamed'
    <2>1. UNCHANGED <<sock, link>> /\ L!DisconnectStep(t)
      BY <1>6 DEF L!CheckSender, L!PutStop, L!Join, L!Await, L!Forget, L!Clear, L!DisconnectStep
    <2>2. pc[t] # "shut" /\ t \in L!Threads /\ 1 \in L!Threads
      BY <1>6 DEF L!CheckSender, L!PutStop, L!Join, L!Await, L!Forget, L!Clear
    <2>3. CASE t = 1
      BY <2>1, <2>2, <2>3, DisconnectMoves
    <2>4. CASE t # 1
      BY <2>1, <2>2, <2>4, DisconnectMoves
    <2>. QED  BY <2>3, <2>4
  <1>7. ASSUME NEW i \in L!Conns, L!Get(i) \/ L!Send(i) PROVE SocketNamed'
    BY <1>7 DEF L!Get, L!Send
  <1>12. ASSUME NEW i \in L!Conns, L!PeerEnds(i) PROVE SocketNamed'
    BY <1>12 DEF L!PeerEnds
  <1>8. CASE L!SendTest \/ L!SendPut \/ L!Close
    <2>1. UNCHANGED <<sock, link>>
      BY <1>8 DEF L!SendTest, L!SendPut, L!Close
    <2>2. pc'[1] = pc[1]
      BY <1>8, UserMoves
    <2>. QED  BY <2>1, <2>2
  <1>10. CASE UNCHANGED L!vars
    BY <1>10 DEF L!vars
  <1>9. CASE L!Closed
    <2>1. UNCHANGED <<sock, link>>
      BY <1>9 DEF L!Closed
    <2>2. pc'[1] = pc[1]
      BY <1>9, ClosedDoes DEF Started
    <2>. QED  BY <2>1, <2>2
  <1>13. CASE L!ConnectorStep(1)
    BY <1>1, <1>2, <1>3, <1>4, <1>11, <1>13, Zenon DEF L!ConnectorStep
  <1>14. ASSUME NEW t \in {1, L!User}, L!DisconnectStep(t) PROVE SocketNamed'
    BY <1>5, <1>6, <1>14, Zenon DEF L!DisconnectStep
  <1> HIDE DEF SocketNamed
  <1>. QED  BY <1>7, <1>8, <1>9, <1>10, <1>12, <1>13, <1>14, Zenon DEF SoloStep

\* A greeting in a queue that lost its head, or that something else was added to,
\* was there before.
LEMMA GreetingsOld ==
    ASSUME FrameTypes, NEW m \in L!Items, m.kind # "hello",
           queue' \in {queue, <<>>, Append(queue, m)} \/ (queue # <<>> /\ queue' = Tail(queue))
    PROVE  Greeted' => Greeted
  <1> USE DEF FrameTypes, Greeted
  <1>1. CASE queue' \in {queue, <<>>}
    BY <1>1
  <1>2. CASE queue' = Append(queue, m)
    <2>1. Len(queue') = Len(queue) + 1 /\ queue'[Len(queue')] = m
      BY <1>2
    <2>2. \A j \in 1..Len(queue) : queue'[j] = queue[j]
      BY <1>2
    <2>. QED  BY <2>1, <2>2
  <1>3. CASE queue # <<>> /\ queue' = Tail(queue)
    <2>1. \A j \in 1..Len(queue') : queue'[j] = queue[j + 1] /\ j + 1 \in 1..Len(queue)
      BY <1>3
    <2>. QED  BY <2>1
  <1>. QED  BY <1>1, <1>2, <1>3

\* A greeting that is queued has a _disconnect ahead that clears the queue.
LEMMA GreetingStep ==
    ASSUME L!Bounds, LinkTypes, ThreadTypes, FrameTypes, CounterTypes,
           Started, SenderNamed, GreetingCleared, SoloStep
    PROVE  GreetingCleared'
  <1> USE DEF L!Bounds, L!Threads, L!Connectors, L!Conns, L!User, L!Go, LinkTypes,
              ThreadTypes, L!InDisconnect, L!senderVars, GreetingCleared
  <1>0. L!Stop \in L!Items /\ L!Stop.kind # "hello"
    BY DEF L!Stop, L!Items
  <1>16. 1 \in L!Connectors
    OBVIOUS
  <1>1. CASE L!Top(1) \/ L!Create(1) \/ L!Connect(1)
    <2>1. queue' = queue /\ pc[1] \in {"top", "create", "connect"}
      BY <1>1 DEF L!Top, L!Create, L!Connect
    <2>. QED  BY <2>1 DEF Greeted
  <1>2. CASE L!Introduce(1) \/ L!Start(1)
    <2>1. pc[1] \in {"hello", "start"} /\ L!ConnectorStep(1)
      BY <1>2 DEF L!Introduce, L!Start, L!ConnectorStep
    <2>2. pc'[1] \in {"start", "read"}
      BY <1>16, <2>1, ConnectorMoves
    <2>. QED  BY <2>2
  <1>3. CASE L!Read(1) \/ L!Select(1) \/ L!Finish(1)
    <2>1. L!ConnectorStep(1) /\ pc[1] \in {"read", "select", "finish"}
      BY <1>3 DEF L!Read, L!Select, L!Finish, L!ConnectorStep
    <2>2. pc'[1] \in {"read", "select", "finish", "shut"}
      BY <1>16, <2>1, ConnectorMoves
    <2>. QED  BY <2>2
  <1>4. ASSUME NEW t \in {1, L!User}, L!ShutSocket(t) PROVE GreetingCleared'
    <2>1. /\ UNCHANGED <<queue, qthread>> /\ pc[t] = "shut" /\ pc'[t] = "check"
          /\ \A u \in L!Threads \ {t} : pc'[u] = pc[u]
      BY <1>4 DEF L!ShutSocket
    <2>. QED  BY <2>1 DEF Greeted
  <1>15. ASSUME NEW t \in {1, L!User}, L!CheckSender(t) PROVE GreetingCleared'
    <2>1. /\ UNCHANGED <<queue, qthread>> /\ pc[t] = "check"
          /\ pc'[t] = (IF qthread = 0 THEN "clear" ELSE "stop")
          /\ \A u \in L!Threads \ {t} : pc'[u] = pc[u]
      BY <1>15 DEF L!CheckSender
    <2>2. Greeted' <=> Greeted
      BY <2>1 DEF Greeted
    <2>. QED  BY <2>1, <2>2
  <1>5. ASSUME NEW t \in {1, L!User}, L!PutStop(t) PROVE GreetingCleared'
    <2>1. Greeted' => Greeted
      BY <1>0, <1>5, GreetingsOld DEF L!PutStop
    <2>. QED  BY <1>5, <2>1 DEF L!PutStop
  <1>6. ASSUME NEW t \in {1, L!User}, L!Join(t) PROVE GreetingCleared'
    <2>1. Greeted' <=> Greeted
      BY <1>6 DEF L!Join, Greeted
    <2>2. CASE t = 1
      <3>1. /\ pc[1] = "join" /\ pc'[L!User] = pc[L!User]
            /\ pc'[1] = (IF qthread # 0 THEN "wait" ELSE "dead") /\ L!DisconnectStep(1)
        <4>1. pc[1] = "join"
          BY <1>6, <2>2, Zenon DEF L!Join
        <4>2. L!DisconnectStep(1)
          BY <1>6, <2>2, Zenon DEF L!DisconnectStep
        <4>3. 1 \in L!Threads /\ L!User \in L!Threads \ {1}
          OBVIOUS
        <4>. QED  BY <4>1, <4>2, <4>3, DisconnectMoves
      <3>. QED  BY <2>1, <3>1
    <2>3. CASE t = L!User
      <3>1. pc[L!User] = "join" /\ pc'[1] = pc[1] /\ UNCHANGED qthread
        <4>1. pc[L!User] = "join" /\ L!DisconnectStep(L!User)
          BY <1>6, <2>3 DEF L!Join, L!DisconnectStep
        <4>. QED  BY <1>6, <4>1, DisconnectMoves DEF L!Join
      <3>. QED  BY <2>1, <3>1
    <2>. QED  BY <2>2, <2>3
  <1>17. ASSUME NEW t \in {1, L!User}, L!Await(t) PROVE GreetingCleared'
    <2>1. (Greeted' <=> Greeted) /\ UNCHANGED qthread
      BY <1>17 DEF L!Await, Greeted
    <2>2. pc[t] = "wait" /\ L!DisconnectStep(t)
      BY <1>17 DEF L!Await, L!DisconnectStep
    <2>3. CASE t = 1
      BY <2>1, <2>2, <2>3, DisconnectMoves
    <2>4. CASE t = L!User
      BY <2>1, <2>2, <2>4, DisconnectMoves
    <2>. QED  BY <2>3, <2>4
  <1>14. ASSUME NEW t \in {1, L!User}, L!Forget(t) PROVE GreetingCleared'
    <2>1. Greeted' <=> Greeted
      BY <1>14 DEF L!Forget, Greeted
    <2>2. CASE t = 1
      BY <1>14, <2>1, <2>2 DEF L!Forget
    <2>3. CASE t = L!User
      BY <1>14, <2>1, <2>3 DEF L!Forget
    <2>. QED  BY <2>2, <2>3
  <1>7. ASSUME NEW t \in {1, L!User}, L!Clear(t) PROVE GreetingCleared'
    BY <1>7 DEF L!Clear, Greeted
  <1>8. ASSUME NEW i \in L!Conns, L!Get(i) PROVE GreetingCleared'
    <2>1. Greeted' => Greeted
      BY <1>0, <1>8, GreetingsOld DEF L!Get
    <2>. QED  BY <1>8, <2>1 DEF L!Get
  <1>9. ASSUME NEW i \in L!Conns, L!Send(i) \/ L!PeerEnds(i) PROVE GreetingCleared'
    BY <1>9 DEF L!Send, L!PeerEnds, Greeted
  <1>10. CASE L!SendTest \/ L!Close
    <2>1. /\ UNCHANGED <<queue, qthread>> /\ pc'[1] = pc[1]
          /\ pc[L!User] = "idle" /\ pc'[L!User] \in {"put", "shut"}
      <3>1. UNCHANGED <<queue, qthread>> /\ pc[L!User] = "idle"
        BY <1>10 DEF L!SendTest, L!Close
      <3>2. L!Go(L!User, "put") \/ L!Go(L!User, "shut")
        BY <1>10, Zenon DEF L!SendTest, L!Close
      <3>. QED  BY <3>1, <3>2, Moving, Zenon
    <2>. QED  BY <2>1 DEF Greeted
  <1>13. CASE UNCHANGED L!vars
    BY <1>13 DEF L!vars, Greeted
  <1>11. CASE L!SendPut
    <2>1. L!Frame(frames) \in L!Items /\ L!Frame(frames).kind # "hello"
      BY DEF L!Frame, L!Items, CounterTypes
    <2>2. Greeted' => Greeted
      BY <1>11, <2>1, GreetingsOld DEF L!SendPut
    <2>. QED  BY <1>11, <2>2 DEF L!SendPut
  <1>12. CASE L!Closed
    <2>1. UNCHANGED <<queue, qthread>>
      BY <1>12 DEF L!Closed
    <2>2. pc'[1] = pc[1] /\ pc[L!User] = "closing"
      BY <1>12, ClosedDoes DEF Started
    <2>. QED  BY <2>1, <2>2 DEF Greeted
  <1>. QED
    BY <1>1, <1>2, <1>3, <1>4, <1>5, <1>6, <1>7, <1>8, <1>9, <1>10, <1>11, <1>12, <1>13,
       <1>14, <1>15, <1>17 DEF SoloStep, L!ConnectorStep, L!DisconnectStep

\* A None that is not taken stays in the queue.
LEMMA StopKept ==
    ASSUME FrameTypes, StopQueued, NEW m \in L!Items,
           queue' \in {queue, Append(queue, m)}
               \/ (queue # <<>> /\ Head(queue) # L!Stop /\ queue' = Tail(queue))
    PROVE  StopQueued'
  <1> USE DEF FrameTypes, StopQueued
  <1>1. PICK j \in 1..Len(queue) : queue[j] = L!Stop
    OBVIOUS
  <1>2. CASE queue' = queue
    BY <1>1, <1>2
  <1>3. CASE queue' = Append(queue, m)
    <2>1. j \in 1..Len(queue') /\ queue'[j] = queue[j]
      BY <1>3
    <2>. QED  BY <1>1, <2>1 DEF L!Stop
  <1>4. CASE queue # <<>> /\ Head(queue) # L!Stop /\ queue' = Tail(queue)
    <2>1. j # 1
      BY <1>1, <1>4
    <2>2. j - 1 \in 1..Len(queue') /\ queue'[j - 1] = queue[j]
      BY <1>4, <2>1
    <2>. QED  BY <1>1, <2>2 DEF L!Stop
  <1>. QED  BY <1>2, <1>3, <1>4

\* The one sender takes the None that ends it, and nothing else takes it away.
LEMMA AnsweredStep ==
    ASSUME L!Bounds, LinkTypes, ThreadTypes, FrameTypes, Started, SenderNamed, Answered, SoloStep
    PROVE  Answered'
  <1> DEFINE Stay == pc'[L!User] \in {"join", "wait"} => pc[L!User] \in {"join", "wait"}
  <1>1. /\ L!Stop \in L!Items
        /\ UNCHANGED queue => (StopQueued => StopQueued')
    BY ItemsTyped DEF StopQueued, L!Stop
  <1>2. ASSUME Stay, L!Alive' \subseteq L!Alive, UNCHANGED queue PROVE Answered'
    BY <1>1, <1>2 DEF Answered
  <1>3. CASE L!ConnectorStep(1)
    <2>1. Stay
      BY <1>3, SoloMoves
    <2>2. CASE L!Introduce(1)
      <3>1. UNCHANGED sender
        BY <2>2 DEF L!Introduce, L!senderVars
      <3>2. sock \in Nat /\ queue' \in {queue, Append(queue, L!Hello(sock))}
        BY <2>2 DEF L!Introduce, LinkTypes, L!Bounds
      <3>3. StopQueued => StopQueued'
        BY <3>2, ItemsTyped, StopKept
      <3>. QED  BY <2>1, <3>1, <3>3 DEF Answered, L!Alive
    <2>3. CASE L!Start(1)
      <3>1. pc[1] = "start"
        BY <2>3 DEF L!Start
      <3>2. pc[L!User] \notin {"join", "wait"}
        BY <3>1 DEF SenderNamed, Dialling
      <3>. QED  BY <2>1, <3>2 DEF Answered
    <2>4. CASE L!Top(1) \/ L!Create(1) \/ L!Connect(1) \/ L!Read(1) \/ L!Select(1) \/ L!Finish(1)
      <3>1. UNCHANGED <<sender, queue>>
        BY <2>4 DEF L!Top, L!Create, L!Connect, L!Read, L!Select, L!Finish, L!senderVars
      <3>. QED  BY <1>2, <2>1, <3>1 DEF L!Alive
    <2>. QED  BY <1>3, <2>2, <2>3, <2>4 DEF L!ConnectorStep
  <1>4. ASSUME NEW t \in {1, L!User}, L!DisconnectStep(t) PROVE Answered'
    <2>1. /\ pc'[L!User] \in {"join", "wait"} =>
                pc[L!User] \in {"join", "wait"} \/ (t = L!User /\ pc[t] = "stop")
          /\ t = L!User /\ pc[t] = "clear" => pc'[L!User] = "closing"
      <3>1. CASE t = 1
        BY <1>4, <3>1, SoloMoves
      <3>2. CASE t = L!User
        <4>1. pc[t] \in L!InDisconnect => then[t] = "closing"
          BY <3>2, SoloMoves DEF ThreadTypes
        <4>. QED  BY <1>4, <3>2, <4>1, SoloMoves, DisconnectMoves DEF L!InDisconnect
      <3>. QED  BY <3>1, <3>2
    <2>2. UNCHANGED sender
      BY <1>4, Zenon DEF L!DisconnectStep, L!ShutSocket, L!CheckSender, L!PutStop, L!Join, L!Await,
                         L!Forget, L!Clear, L!senderVars
    <2>3. CASE L!PutStop(t)
      <3>1. queue' = Append(queue, L!Stop)
        BY <2>3 DEF L!PutStop
      <3>2. Len(queue') \in 1..Len(queue') /\ queue'[Len(queue')] = L!Stop
        BY <1>1, <3>1 DEF FrameTypes
      <3>. QED  BY <3>2 DEF Answered, StopQueued, L!Stop
    <2>4. CASE L!Clear(t)
      <3>1. pc[t] = "clear"
        BY <2>4 DEF L!Clear
      <3>2. CASE t = 1
        <4>1. L!Alive = {}
          BY <3>1, <3>2 DEF SenderNamed, L!Alive, L!Conns
        <4>. QED  BY <2>2, <4>1 DEF Answered, L!Alive
      <3>3. CASE t = L!User
        BY <2>1, <3>1, <3>3 DEF Answered
      <3>. QED  BY <3>2, <3>3
    <2>5. CASE L!ShutSocket(t) \/ L!CheckSender(t) \/ L!Join(t) \/ L!Await(t) \/ L!Forget(t)
      <3>1. UNCHANGED queue /\ pc[t] # "stop"
        BY <2>5 DEF L!ShutSocket, L!CheckSender, L!Join, L!Await, L!Forget
      <3>. QED  BY <1>2, <2>1, <2>2, <3>1 DEF L!Alive
    <2>. QED  BY <1>4, <2>3, <2>4, <2>5 DEF L!DisconnectStep
  <1>5. ASSUME NEW i \in L!Conns, L!Get(i) PROVE Answered'
    <2>1. /\ queue # <<>> /\ queue' = Tail(queue) /\ UNCHANGED pc
          /\ sender[i] = "get"
          /\ sender' = [sender EXCEPT ![i] = IF Head(queue) = L!Stop THEN "ended" ELSE "send"]
      BY <1>5 DEF L!Get
    <2>2. L!Alive = {i}
      BY <2>1 DEF SenderNamed, L!Alive
    <2>3. CASE Head(queue) = L!Stop
      <3>1. L!Alive' = {}
        BY <2>1, <2>2, <2>3 DEF L!Alive, LinkTypes
      <3>. QED  BY <3>1 DEF Answered
    <2>4. CASE Head(queue) # L!Stop
      <3>1. StopQueued => StopQueued'
        BY <1>1, <2>1, <2>4, StopKept
      <3>. QED  BY <2>1, <2>2, <3>1 DEF Answered
    <2>. QED  BY <2>3, <2>4
  <1>6. ASSUME NEW i \in L!Conns, L!Send(i) PROVE Answered'
    <2>1. UNCHANGED <<queue, pc>> /\ L!Alive' \subseteq L!Alive
      BY <1>6 DEF L!Send, L!Alive, LinkTypes
    <2>. QED  BY <1>2, <2>1
  <1>7. ASSUME NEW i \in L!Conns, L!PeerEnds(i) PROVE Answered'
    <2>1. UNCHANGED <<queue, pc, sender>>
      BY <1>7 DEF L!PeerEnds, L!senderVars
    <2>. QED  BY <1>2, <2>1 DEF L!Alive
  <1>8. CASE L!SendTest \/ L!SendPut \/ L!Close
    BY <1>8, UserMoves DEF Answered
  <1>9. CASE L!Closed
    BY <1>9, ClosedDoes DEF Answered
  <1>10. CASE UNCHANGED L!vars
    BY <1>2, <1>10 DEF L!vars, L!senderVars, L!Alive
  <1>. QED
    BY <1>3, <1>4, <1>5, <1>6, <1>7, <1>8, <1>9, <1>10 DEF SoloStep

-----------------------------------------------------------------------------
(* The order of the frames.                                                    *)

IsFrame(m) == m.kind = "frame"
InHand(s) == sender[s] = "send" /\ IsFrame(holds[s])

\* The last frame that may have been queued.
Latest == IF pc[L!User] = "put" THEN frames - 1 ELSE frames

\* Frames go up from the wires to the one frame in hand, and on through the queue.
Ordered ==
    /\ \A j, l \in 1..Len(queue) :
          IsFrame(queue[j]) /\ IsFrame(queue[l]) /\ j < l => queue[j].n < queue[l].n
    /\ \A j \in 1..Len(queue) : IsFrame(queue[j]) => queue[j].n <= Latest
    /\ \A s, r \in L!Conns : InHand(s) /\ InHand(r) => s = r
    /\ \A s \in L!Conns : InHand(s) =>
          /\ holds[s].n <= Latest
          /\ \A j \in 1..Len(queue) : IsFrame(queue[j]) => holds[s].n < queue[j].n
    /\ \A i \in L!Conns : \A a \in 1..Len(legacyWire[i]) :
          /\ legacyWire[i][a] <= Latest
          /\ \A j \in 1..Len(queue) : IsFrame(queue[j]) => legacyWire[i][a] < queue[j].n
          /\ \A s \in L!Conns : InHand(s) => legacyWire[i][a] < holds[s].n
    /\ \A i \in L!Conns : \A a, b \in 1..Len(legacyWire[i]) :
          a < b => legacyWire[i][a] < legacyWire[i][b]

\* What keeps the frames that are there, or some of them, keeps their order.
LEMMA OrderedKept ==
    ASSUME FrameTypes, Ordered, UNCHANGED legacyWire,
           Latest \in Int, Latest' \in Int, Latest <= Latest',
           \A j \in 1..Len(queue') : IsFrame(queue'[j]) =>
              j \in 1..Len(queue) /\ queue'[j] = queue[j],
           \A s \in L!Conns : InHand(s)' => InHand(s) /\ holds'[s] = holds[s]
    PROVE  Ordered'
  <1>1. \A m \in L!Items : m.n \in Nat
    BY DEF L!Items
  <1>2. \A j, l \in 1..Len(queue') :
          IsFrame(queue'[j]) /\ IsFrame(queue'[l]) /\ j < l => queue'[j].n < queue'[l].n
    BY DEF Ordered
  <1>3. \A j \in 1..Len(queue') : IsFrame(queue'[j]) => queue'[j].n <= Latest'
    <2> SUFFICES ASSUME NEW j \in 1..Len(queue'), IsFrame(queue'[j])
                 PROVE  queue'[j].n <= Latest'
      OBVIOUS
    <2>1. j \in 1..Len(queue) /\ queue'[j] = queue[j] /\ queue[j].n \in Nat
      BY <1>1 DEF FrameTypes
    <2>2. queue[j].n <= Latest
      BY <2>1 DEF Ordered
    <2>. QED  BY <2>1, <2>2
  <1>4. \A s, r \in L!Conns : InHand(s)' /\ InHand(r)' => s = r
    BY DEF Ordered
  <1>5. ASSUME NEW s \in L!Conns, InHand(s)'
        PROVE  /\ holds'[s].n <= Latest'
               /\ \A j \in 1..Len(queue') : IsFrame(queue'[j]) => holds'[s].n < queue'[j].n
    <2>1. InHand(s) /\ holds'[s] = holds[s] /\ holds[s].n \in Nat
      BY <1>1, <1>5 DEF FrameTypes
    <2>2. /\ holds[s].n <= Latest
          /\ \A j \in 1..Len(queue) : IsFrame(queue[j]) => holds[s].n < queue[j].n
      BY <2>1 DEF Ordered
    <2>. QED  BY <2>1, <2>2
  <1>6. ASSUME NEW i \in L!Conns, NEW a \in 1..Len(legacyWire[i])
        PROVE  /\ legacyWire[i][a] <= Latest'
               /\ \A j \in 1..Len(queue') : IsFrame(queue'[j]) => legacyWire[i][a] < queue'[j].n
               /\ \A s \in L!Conns : InHand(s)' => legacyWire[i][a] < holds'[s].n
    <2>1. legacyWire[i][a] \in Nat
      BY <1>1 DEF FrameTypes
    <2>2. /\ legacyWire[i][a] <= Latest
          /\ \A j \in 1..Len(queue) : IsFrame(queue[j]) => legacyWire[i][a] < queue[j].n
          /\ \A s \in L!Conns : InHand(s) => legacyWire[i][a] < holds[s].n
      BY <1>6 DEF Ordered
    <2>3. legacyWire[i][a] <= Latest'
      BY <2>1, <2>2
    <2>4. \A j \in 1..Len(queue') : IsFrame(queue'[j]) => legacyWire[i][a] < queue'[j].n
      BY <2>2
    <2>. QED  BY <2>2, <2>3, <2>4
  <1>7. \A c \in L!Conns : \A a, b \in 1..Len(legacyWire'[c]) :
          a < b => legacyWire'[c][a] < legacyWire'[c][b]
    BY DEF Ordered
  <1>. QED  BY <1>2, <1>3, <1>4, <1>5, <1>6, <1>7 DEF Ordered

\* The user's thread queues its next frame behind all others.
LEMMA OrderedPut ==
    ASSUME L!Bounds, ThreadTypes, FrameTypes, CounterTypes, Ordered, L!SendPut PROVE Ordered'
  <1>1. Latest = frames - 1 /\ Latest' = frames /\ frames \in Nat
    BY Moving DEF L!SendPut, Latest, L!counters, CounterTypes, L!Bounds
  <1>2. \A m \in L!Items : m.n \in Nat
    BY DEF L!Items
  <1>3. PICK m \in L!Items : m = L!Frame(frames) /\ m.n = frames
    BY <1>1, ItemsTyped DEF L!Frame
  <1>4. /\ Len(queue') = Len(queue) + 1 /\ queue'[Len(queue) + 1] = m /\ Len(queue) \in Nat
        /\ \A j \in 1..Len(queue) : queue'[j] = queue[j]
    BY <1>3 DEF L!SendPut, FrameTypes
  <1>5. \A j \in 1..Len(queue') : j \in 1..Len(queue) \/ (j = Len(queue) + 1 /\ queue'[j] = m)
    BY <1>4
  <1>6. UNCHANGED <<sender, holds, legacyWire>>
    BY DEF L!SendPut, L!linkVars, L!senderVars
  <1>7. \A j \in 1..Len(queue) : queue[j].n \in Nat /\ (IsFrame(queue[j]) => queue[j].n <= frames - 1)
    BY <1>1, <1>2 DEF FrameTypes, Ordered
  <1>8. \A j, l \in 1..Len(queue') :
          IsFrame(queue'[j]) /\ IsFrame(queue'[l]) /\ j < l => queue'[j].n < queue'[l].n
    <2> SUFFICES ASSUME NEW j \in 1..Len(queue'), NEW l \in 1..Len(queue'),
                        IsFrame(queue'[j]), IsFrame(queue'[l]), j < l
                 PROVE  queue'[j].n < queue'[l].n
      OBVIOUS
    <2>1. j \in 1..Len(queue)
      BY <1>4
    <2>2. CASE l \in 1..Len(queue)
      BY <1>4, <2>1, <2>2 DEF Ordered
    <2>3. CASE l \notin 1..Len(queue)
      BY <1>1, <1>3, <1>4, <1>5, <1>7, <2>1, <2>3
    <2>. QED  BY <2>2, <2>3
  <1>9. \A j \in 1..Len(queue') : IsFrame(queue'[j]) => queue'[j].n <= frames
    BY <1>1, <1>3, <1>4, <1>5, <1>7
  <1>10. ASSUME NEW s \in L!Conns, InHand(s)
         PROVE  /\ holds[s].n <= frames
                /\ \A j \in 1..Len(queue') : IsFrame(queue'[j]) => holds[s].n < queue'[j].n
    <2>1. /\ holds[s].n \in Nat /\ holds[s].n <= frames - 1
          /\ \A j \in 1..Len(queue) : IsFrame(queue[j]) => holds[s].n < queue[j].n
      BY <1>1, <1>2, <1>10 DEF FrameTypes, Ordered
    <2>. QED  BY <1>1, <1>3, <1>4, <1>5, <2>1
  <1>11. ASSUME NEW i \in L!Conns, NEW a \in 1..Len(legacyWire[i])
         PROVE  /\ legacyWire[i][a] <= frames
                /\ \A j \in 1..Len(queue') : IsFrame(queue'[j]) => legacyWire[i][a] < queue'[j].n
                /\ \A s \in L!Conns : InHand(s) => legacyWire[i][a] < holds[s].n
    <2>1. /\ legacyWire[i][a] \in Nat /\ legacyWire[i][a] <= frames - 1
          /\ \A j \in 1..Len(queue) : IsFrame(queue[j]) => legacyWire[i][a] < queue[j].n
          /\ \A s \in L!Conns : InHand(s) => legacyWire[i][a] < holds[s].n
      BY <1>1, <1>11 DEF FrameTypes, Ordered
    <2> DEFINE x == legacyWire[i][a]
    <2>2. x \in Nat /\ x <= frames - 1 /\ \A j \in 1..Len(queue) : IsFrame(queue[j]) => x < queue[j].n
      BY <2>1
    <2> HIDE DEF x
    <2>3. \A j \in 1..Len(queue') : IsFrame(queue'[j]) => x < queue'[j].n
      BY <1>1, <1>3, <1>4, <1>5, <2>2
    <2>4. x <= frames
      BY <1>1, <2>2
    <2>. QED  BY <2>1, <2>3, <2>4 DEF x
  <1>12. \A c \in L!Conns : \A a, b \in 1..Len(legacyWire'[c]) :
          a < b => legacyWire'[c][a] < legacyWire'[c][b]
    BY <1>6 DEF Ordered
  <1>13. \A s, r \in L!Conns : InHand(s)' /\ InHand(r)' => s = r
    BY <1>6 DEF Ordered, InHand
  <1>. QED  BY <1>1, <1>6, <1>8, <1>9, <1>10, <1>11, <1>12, <1>13 DEF Ordered, InHand

\* A sender takes the head of the queue, when no other has a frame in hand or the
\* head is none.
LEMMA OrderedGet ==
    ASSUME L!Bounds, FrameTypes, LinkTypes, CounterTypes, Ordered, NEW i \in L!Conns, L!Get(i),
           \A s \in L!Conns \ {i} : IsFrame(Head(queue)) => ~InHand(s)
    PROVE  Ordered'
  <1>1. /\ queue # <<>> /\ queue' = Tail(queue) /\ Head(queue) = queue[1] /\ 1 \in 1..Len(queue)
        /\ \A j \in 1..Len(queue') : /\ j + 1 \in 1..Len(queue) /\ queue'[j] = queue[j + 1]
                                     /\ 1 < j + 1
    BY DEF L!Get, FrameTypes
  <1>2. /\ holds' = [holds EXCEPT ![i] = queue[1]] /\ UNCHANGED <<legacyWire, pc, frames>>
        /\ \A s \in L!Conns \ {i} : sender'[s] = sender[s]
    BY <1>1 DEF L!Get, L!linkVars, L!counters, LinkTypes
  <1>3. Latest' = Latest
    BY <1>2 DEF Latest
  <1>4. /\ \A s \in L!Conns \ {i} : holds'[s] = holds[s]
        /\ holds'[i] = queue[1]
    BY <1>2 DEF FrameTypes
  <1>5. ASSUME NEW s \in L!Conns, InHand(s)'
        PROVE  \/ s # i /\ InHand(s) /\ holds'[s] = holds[s]
               \/ s = i /\ holds'[s] = queue[1] /\ IsFrame(queue[1])
    BY <1>2, <1>4, <1>5 DEF InHand
  <1>6. \A j, l \in 1..Len(queue') :
          IsFrame(queue'[j]) /\ IsFrame(queue'[l]) /\ j < l => queue'[j].n < queue'[l].n
    <2> SUFFICES ASSUME NEW j \in 1..Len(queue'), NEW l \in 1..Len(queue'),
                        IsFrame(queue'[j]), IsFrame(queue'[l]), j < l
                 PROVE  queue'[j].n < queue'[l].n
      OBVIOUS
    <2>1. j + 1 < l + 1
      OBVIOUS
    <2>. QED  BY <1>1, <2>1 DEF Ordered
  <1>7. \A j \in 1..Len(queue') : IsFrame(queue'[j]) => queue'[j].n <= Latest'
    BY <1>1, <1>3 DEF Ordered
  <1>8. \A s, r \in L!Conns : InHand(s)' /\ InHand(r)' => s = r
    BY <1>1, <1>5 DEF Ordered
  <1>9. ASSUME NEW s \in L!Conns, InHand(s)'
        PROVE  /\ holds'[s].n <= Latest'
               /\ \A j \in 1..Len(queue') : IsFrame(queue'[j]) => holds'[s].n < queue'[j].n
    <2>1. CASE s # i
      BY <1>1, <1>3, <1>5, <1>9, <2>1 DEF Ordered
    <2>2. CASE s = i
      BY <1>1, <1>3, <1>5, <1>9, <2>2 DEF Ordered
    <2>. QED  BY <2>1, <2>2
  <1>10. ASSUME NEW c \in L!Conns, NEW a \in 1..Len(legacyWire[c])
         PROVE  /\ legacyWire[c][a] <= Latest'
                /\ \A j \in 1..Len(queue') : IsFrame(queue'[j]) => legacyWire[c][a] < queue'[j].n
                /\ \A s \in L!Conns : InHand(s)' => legacyWire[c][a] < holds'[s].n
    <2>1. /\ legacyWire[c][a] <= Latest
          /\ \A j \in 1..Len(queue) : IsFrame(queue[j]) => legacyWire[c][a] < queue[j].n
          /\ \A s \in L!Conns : InHand(s) => legacyWire[c][a] < holds[s].n
      BY <1>10 DEF Ordered
    <2>2. ASSUME NEW s \in L!Conns, InHand(s)' PROVE legacyWire[c][a] < holds'[s].n
      BY <1>1, <1>5, <2>1, <2>2
    <2>. QED  BY <1>1, <1>3, <2>1, <2>2
  <1>11. \A c \in L!Conns : \A a, b \in 1..Len(legacyWire'[c]) :
          a < b => legacyWire'[c][a] < legacyWire'[c][b]
    BY <1>2 DEF Ordered
  <1>. QED  BY <1>2, <1>6, <1>7, <1>8, <1>9, <1>10, <1>11 DEF Ordered

\* A sender puts what it has in hand on the wire, or ends.
LEMMA OrderedSend ==
    ASSUME L!Bounds, FrameTypes, LinkTypes, CounterTypes, Ordered, NEW i \in L!Conns, L!Send(i),
           Latest \in Int
    PROVE  Ordered'
  <1>1. /\ sender[i] = "send" /\ UNCHANGED <<queue, pc, frames>>
        /\ \A s \in L!Conns \ {i} : sender'[s] = sender[s] /\ holds'[s] = holds[s]
        /\ sender'[i] # "send"
    BY DEF L!Send, L!counters, LinkTypes, FrameTypes
  <1>2. Latest' = Latest
    BY <1>1 DEF Latest
  <1>3. \A s \in L!Conns : InHand(s)' => InHand(s) /\ s # i /\ holds'[s] = holds[s]
    BY <1>1 DEF InHand
  <1>4. CASE UNCHANGED legacyWire
    BY <1>1, <1>2, <1>3, <1>4, OrderedKept
  <1>5. CASE /\ L!Here \in {"up", "eof"} /\ IsFrame(holds[i])
             /\ legacyWire' = [legacyWire EXCEPT ![sock] = Append(@, holds[i].n)]
    <2> DEFINE n == holds[i].n
    <2>1. sock \in L!Conns /\ n \in Nat
      BY <1>5 DEF L!Here, L!Conns, L!Bounds, LinkTypes, FrameTypes, L!Items
    <2>2. ASSUME NEW c \in L!Conns, NEW a \in 1..Len(legacyWire'[c])
          PROVE  \/ a \in 1..Len(legacyWire[c]) /\ legacyWire'[c][a] = legacyWire[c][a]
                 \/ c = sock /\ a = Len(legacyWire[c]) + 1 /\ legacyWire'[c][a] = n
      <3>1. legacyWire[c] \in Seq(Nat)
        BY DEF FrameTypes
      <3>2. CASE c = sock
        <4>1. legacyWire'[c] = Append(legacyWire[c], n)
          BY <1>5, <2>1, <3>2 DEF FrameTypes
        <4>. QED  BY <2>1, <3>1, <3>2, <4>1
      <3>3. CASE c # sock
        <4>1. legacyWire'[c] = legacyWire[c]
          BY <1>5, <2>1, <3>3 DEF FrameTypes
        <4>. QED  BY <4>1
      <3>. QED  BY <3>2, <3>3
    <2>3. /\ InHand(i) /\ n <= Latest
          /\ \A j \in 1..Len(queue) : IsFrame(queue[j]) => n < queue[j].n
          /\ \A s \in L!Conns : ~InHand(s)'
      BY <1>1, <1>3, <1>5 DEF Ordered, InHand
    <2>4. ASSUME NEW c \in L!Conns, NEW a \in 1..Len(legacyWire'[c])
          PROVE  /\ legacyWire'[c][a] <= Latest
                 /\ \A j \in 1..Len(queue) : IsFrame(queue[j]) => legacyWire'[c][a] < queue[j].n
                 /\ \A s \in L!Conns : InHand(s)' => legacyWire'[c][a] < holds[s].n
      <3>1. CASE a \in 1..Len(legacyWire[c]) /\ legacyWire'[c][a] = legacyWire[c][a]
        BY <1>3, <3>1 DEF Ordered
      <3>2. CASE legacyWire'[c][a] = n
        BY <2>3, <3>2
      <3>. QED  BY <2>2, <3>1, <3>2
    <2>5. ASSUME NEW c \in L!Conns, NEW a \in 1..Len(legacyWire'[c]), NEW b \in 1..Len(legacyWire'[c]),
                 a < b
          PROVE  legacyWire'[c][a] < legacyWire'[c][b]
      <3>0. Len(legacyWire[c]) \in Nat
        BY DEF FrameTypes
      <3>1. a \in 1..Len(legacyWire[c]) /\ legacyWire'[c][a] = legacyWire[c][a]
        BY <2>2, <2>5, <3>0
      <3>2. CASE b \in 1..Len(legacyWire[c]) /\ legacyWire'[c][b] = legacyWire[c][b]
        BY <2>5, <3>1, <3>2 DEF Ordered
      <3>3. CASE legacyWire'[c][b] = n
        BY <2>3, <3>1, <3>3 DEF Ordered
      <3>. QED  BY <2>2, <3>2, <3>3
    <2>6. \A s \in L!Conns : InHand(s)' =>
             /\ holds[s].n <= Latest
             /\ \A j \in 1..Len(queue) : IsFrame(queue[j]) => holds[s].n < queue[j].n
      BY <1>3 DEF Ordered
    <2>7. \A s, r \in L!Conns : InHand(s)' /\ InHand(r)' => s = r
      BY <1>3 DEF Ordered
    <2>. QED  BY <1>1, <1>2, <1>3, <2>4, <2>5, <2>6, <2>7 DEF Ordered
  <1>. QED  BY <1>4, <1>5 DEF L!Send, IsFrame

\* Only send() counts a frame.
LEMMA Counting ==
    ASSUME [L!Next]_(L!vars) PROVE frames' = frames \/ L!SendTest
  <1>1. ASSUME NEW k \in L!Connectors, L!ConnectorStep(k) PROVE UNCHANGED frames
    BY <1>1, Zenon DEF L!counters, L!ConnectorStep, L!Top, L!Create, L!Connect, L!Introduce,
                       L!Start, L!Read, L!Select, L!Finish
  <1>2. ASSUME NEW t \in L!Threads, L!DisconnectStep(t) PROVE UNCHANGED frames
    BY <1>2, Zenon DEF L!counters, L!DisconnectStep, L!ShutSocket, L!CheckSender, L!PutStop,
                       L!Join, L!Await, L!Forget, L!Clear
  <1>3. ASSUME NEW i \in L!Conns, L!Get(i) \/ L!Send(i) \/ L!PeerEnds(i)
        PROVE  UNCHANGED frames
    BY <1>3, Zenon DEF L!counters, L!Get, L!Send, L!PeerEnds
  <1>4. CASE L!SendPut \/ L!Close \/ L!Closed \/ UNCHANGED L!vars
    BY <1>4, Zenon DEF L!counters, L!SendPut, L!Close, L!Closed, L!vars
  <1>. QED  BY <1>1, <1>2, <1>3, <1>4 DEF L!Next

\* What can move the user's thread.
LEMMA UserSteps ==
    ASSUME L!Bounds, ThreadTypes, [L!Next]_(L!vars)
    PROVE  \/ pc'[L!User] = pc[L!User]
           \/ L!SendTest \/ L!SendPut \/ L!Close \/ L!Closed
           \/ pc[L!User] \in L!InDisconnect /\ pc'[L!User] \in L!InDisconnect \cup {"idle"}
           \/ L!Clear(L!User) /\ pc[L!User] = "clear" /\ pc'[L!User] = "closing"
  <1>1. ASSUME NEW k \in L!Connectors, L!ConnectorStep(k) PROVE pc'[L!User] = pc[L!User]
    <2>1. k # L!User
      BY DEF L!Connectors, L!User, L!Bounds
    <2>. QED  BY <1>1, <2>1, ConnectorMoves, Moving
  <1>2. ASSUME NEW t \in L!Threads, L!DisconnectStep(t), t # L!User
        PROVE  pc'[L!User] = pc[L!User]
    BY <1>2, DisconnectMoves, Moving
  <1>3. CASE L!DisconnectStep(L!User)
    <2>1. CASE L!Clear(L!User)
      <3>1. pc[L!User] = "clear"
        BY <2>1 DEF L!Clear
      <3>2. pc'[L!User] = then[L!User] /\ then[L!User] = "closing"
        BY <1>3, <3>1, DisconnectMoves, Moving DEF ThreadTypes, L!InDisconnect
      <3>. QED  BY <2>1, <3>1, <3>2
    <2>2. CASE ~L!Clear(L!User)
      <3>1. pc[L!User] # "clear"
        BY <1>3, <2>2 DEF L!DisconnectStep, L!ShutSocket, L!CheckSender, L!PutStop, L!Join, L!Await, L!Forget
      <3>. QED  BY <1>3, <3>1, DisconnectMoves, Moving DEF L!InDisconnect
    <2>. QED  BY <2>1, <2>2
  <1>4. ASSUME NEW i \in L!Conns, L!Get(i) \/ L!Send(i) \/ L!PeerEnds(i)
        PROVE  pc'[L!User] = pc[L!User]
    BY <1>4 DEF L!Get, L!Send, L!PeerEnds
  <1>5. CASE UNCHANGED L!vars
    BY <1>5 DEF L!vars
  <1>. QED  BY <1>1, <1>2, <1>3, <1>4, <1>5 DEF L!Next

\* The last frame queued stays so until send() queues the next.
LEMMA LatestKept ==
    ASSUME L!Bounds, ThreadTypes, CounterTypes, [L!Next]_(L!vars), ~L!SendPut
    PROVE  Latest' = Latest /\ Latest \in Int
  <1>1. frames \in Int
    BY DEF CounterTypes, L!Bounds
  <1>2. CASE L!SendTest
    <2>1. pc[L!User] = "idle" /\ L!Go(L!User, "put") /\ frames' = frames + 1
      BY <1>2 DEF L!SendTest
    <2>2. pc'[L!User] = "put"
      BY <2>1, Moving
    <2>. QED  BY <1>1, <2>1, <2>2 DEF Latest
  <1>3. CASE ~L!SendTest
    <2>1. frames' = frames
      BY <1>3, Counting
    <2>2. ASSUME L!Close PROVE pc[L!User] = "idle" /\ pc'[L!User] = "shut"
      <3>1. pc[L!User] = "idle" /\ L!Go(L!User, "shut")
        BY <2>2, Zenon DEF L!Close
      <3>. QED  BY <3>1, Moving
    <2>3. L!Closed => pc[L!User] = "closing" /\ pc'[L!User] = "idle"
      BY ClosedDoes
    <2>4. pc'[L!User] = "put" <=> pc[L!User] = "put"
      BY <1>3, <2>2, <2>3, UserSteps DEF L!InDisconnect
    <2>. QED  BY <1>1, <2>1, <2>4 DEF Latest
  <1>. QED  BY <1>2, <1>3

\* A queue that something other than a frame was added to.
LEMMA OrderedAppend ==
    ASSUME FrameTypes, Ordered, UNCHANGED <<legacyWire, sender, holds>>,
           Latest \in Int, Latest' = Latest, NEW m, ~IsFrame(m), queue' = Append(queue, m)
    PROVE  Ordered'
  <1>1. /\ Len(queue') = Len(queue) + 1 /\ queue'[Len(queue) + 1] = m /\ Len(queue) \in Nat
        /\ \A j \in 1..Len(queue) : queue'[j] = queue[j]
    BY DEF FrameTypes
  <1>2. \A j \in 1..Len(queue') : IsFrame(queue'[j]) =>
           j \in 1..Len(queue) /\ queue'[j] = queue[j]
    BY <1>1
  <1>3. \A s \in L!Conns : InHand(s)' => InHand(s) /\ holds'[s] = holds[s]
    BY DEF InHand
  <1>. QED  BY <1>2, <1>3, OrderedKept

\* With at most one sender alive, every step keeps the frames in order from the wires
\* through the hand to the queue.
LEMMA OrderedStep ==
    ASSUME L!Bounds, LinkTypes, ThreadTypes, FrameTypes, CounterTypes, Ordered, SenderNamed,
           [L!Next]_(L!vars)
    PROVE  Ordered'
  <1>1. CASE L!SendPut
    BY <1>1, OrderedPut
  <1>2. ASSUME ~L!SendPut PROVE Latest' = Latest /\ Latest \in Int
    BY <1>2, LatestKept
  <1>3. ASSUME UNCHANGED <<legacyWire, sender, holds, queue>>, ~L!SendPut PROVE Ordered'
    BY <1>2, <1>3, OrderedKept DEF InHand
  <1>4. ~L!SendPut \/ L!SendPut
    OBVIOUS
  <1>5. ASSUME ~L!SendPut, NEW k \in L!Connectors, L!ConnectorStep(k) PROVE Ordered'
    <2>1. CASE L!Introduce(k) /\ connected
      <3>1. queue' = Append(queue, L!Hello(sock)) /\ UNCHANGED <<legacyWire, sender, holds>>
        BY <2>1 DEF L!Introduce, L!linkVars, L!senderVars
      <3>2. ~IsFrame(L!Hello(sock))
        BY DEF L!Hello, IsFrame
      <3>. QED  BY <1>2, <1>5, <3>1, <3>2, OrderedAppend
    <2>2. CASE L!Start(k)
      <3>1. UNCHANGED <<legacyWire, holds, queue>>
        BY <2>2 DEF L!Start, L!linkVars
      <3>2. \A s \in L!Conns : sender'[s] = sender[s] \/ sender'[s] = "get"
        BY <2>2 DEF L!Start, LinkTypes
      <3>3. \A s \in L!Conns : InHand(s)' => InHand(s) /\ holds'[s] = holds[s]
        BY <3>1, <3>2 DEF InHand
      <3>. QED  BY <1>2, <1>5, <3>1, <3>3, OrderedKept
    <2>3. CASE ~(L!Introduce(k) /\ connected) /\ ~L!Start(k)
      <3>1. UNCHANGED <<legacyWire, sender, holds, queue>>
        BY <1>5, <2>3, Zenon DEF L!linkVars, L!senderVars, L!ConnectorStep, L!Top, L!Create,
                                 L!Connect, L!Introduce, L!Read, L!Select, L!Finish
      <3>. QED  BY <1>3, <1>5, <3>1
    <2>. QED  BY <2>1, <2>2, <2>3
  <1>6. ASSUME ~L!SendPut, NEW t \in L!Threads, L!DisconnectStep(t) PROVE Ordered'
    <2>1. UNCHANGED <<legacyWire, sender, holds>>
      BY <1>6, Zenon DEF L!linkVars, L!senderVars, L!DisconnectStep, L!ShutSocket, L!CheckSender,
                         L!PutStop, L!Join, L!Await, L!Forget, L!Clear
    <2>2. CASE L!PutStop(t)
      <3>1. queue' = Append(queue, L!Stop) /\ ~IsFrame(L!Stop)
        BY <2>2 DEF L!PutStop, L!Stop, IsFrame
      <3>. QED  BY <1>2, <1>6, <2>1, <3>1, OrderedAppend
    <2>3. CASE L!Clear(t)
      <3>1. queue' = <<>>
        BY <2>3 DEF L!Clear
      <3>2. \A j \in 1..Len(queue') : FALSE
        BY <3>1
      <3>. QED  BY <1>2, <1>6, <2>1, <3>2, OrderedKept DEF InHand
    <2>4. CASE ~L!PutStop(t) /\ ~L!Clear(t)
      <3>1. queue' = queue
        BY <1>6, <2>4, Zenon DEF L!DisconnectStep, L!ShutSocket, L!CheckSender, L!Join, L!Await, L!Forget
      <3>. QED  BY <1>3, <1>6, <2>1, <3>1
    <2>. QED  BY <2>2, <2>3, <2>4
  <1>7. ASSUME ~L!SendPut, NEW i \in L!Conns, L!Get(i) PROVE Ordered'
    <2>1. ASSUME NEW s \in L!Conns \ {i}, IsFrame(Head(queue)), InHand(s) PROVE FALSE
      <3>1. i \in L!Alive /\ s \in L!Alive
        BY <1>7, <2>1 DEF L!Get, L!Alive, InHand
      <3>. QED  BY <3>1 DEF SenderNamed
    <2>. QED  BY <1>7, <2>1, OrderedGet
  <1>8. ASSUME ~L!SendPut, NEW i \in L!Conns, L!Send(i) PROVE Ordered'
    BY <1>2, <1>8, OrderedSend
  <1>9. ASSUME ~L!SendPut, NEW i \in L!Conns, L!PeerEnds(i) PROVE Ordered'
    BY <1>3, <1>9 DEF L!PeerEnds, L!senderVars
  <1>10. CASE ~L!SendPut /\ (L!SendTest \/ L!Close \/ L!Closed \/ UNCHANGED L!vars)
    <2>1. UNCHANGED <<legacyWire, sender, holds, queue>>
      BY <1>10, Zenon DEF L!linkVars, L!senderVars, L!vars, L!SendTest, L!Close, L!Closed
    <2>. QED  BY <1>3, <1>10, <2>1
  <1>. QED  BY <1>1, <1>5, <1>6, <1>7, <1>8, <1>9, <1>10 DEF L!Next
-----------------------------------------------------------------------------
\* The types of everything.
LegacyTypes == LinkTypes /\ ThreadTypes /\ FrameTypes /\ CounterTypes /\ FlagTypes

\* The inductive invariant: what holds for one connector alone, and the order that the
\* frames have as long as it is.
LegacyInv ==
    /\ LegacyTypes
    /\ L!OneConnector => Alone /\ Ordered

\* The first dial, with nothing queued, sent or left behind.
LEMMA LegacyInit ==
    ASSUME L!Bounds, L!Init PROVE LegacyInv
  <1> USE DEF L!Bounds, L!Init
  <1>0. /\ 1 \in L!Connectors /\ 1 \in L!Threads /\ L!User \in L!Threads /\ L!User # 1
        /\ \A k \in L!Connectors : k \in L!Threads
    BY DEF L!Connectors, L!Threads, L!User
  <1>1. LinkTypes /\ CounterTypes
    BY <1>0 DEF LinkTypes, CounterTypes, L!Conns
  <1>11. FlagTypes
    BY Zenon DEF FlagTypes
  <1>2. ThreadTypes
    BY <1>0 DEF ThreadTypes, L!InDisconnect
  <1>3. FrameTypes
    BY ItemsTyped DEF FrameTypes
  <1>4. L!Alive = {} /\ ~Greeted /\ \A s \in L!Conns : ~InHand(s)
    BY DEF L!Alive, Greeted, InHand
  <1>6. Started /\ SenderNamed
    BY <1>0, <1>4 DEF Started, SenderNamed, Dialling
  <1>7. SocketNamed /\ GreetingCleared
    BY <1>0, <1>4 DEF SocketNamed, GreetingCleared
  <1>12. Answered
    BY <1>4 DEF Answered
  <1>8. \A i \in L!Conns : 1..Len(legacyWire[i]) = {}
    OBVIOUS
  <1>9. Ordered
    BY <1>4, <1>8 DEF Ordered
  <1>. QED  BY <1>1, <1>2, <1>3, <1>6, <1>7, <1>9, <1>11, <1>12
     DEF LegacyInv, LegacyTypes, Alone

\* The invariant is inductive; what holds for one connector alone is not asked for after.
LEMMA LegacyStep ==
    ASSUME L!Bounds, LegacyInv, [L!Next]_(L!vars) PROVE LegacyInv'
  <1> USE DEF LegacyInv, LegacyTypes
  <1>1. LinkTypes' /\ ThreadTypes' /\ FrameTypes' /\ CounterTypes' /\ FlagTypes'
    BY LinkTyped, ThreadTyped, FrameTyped, FlagTyped
  <1>2. ASSUME L!OneConnector' PROVE Alone' /\ Ordered'
    <2>1. L!OneConnector /\ SoloStep
      BY <1>2, SoloKept, SoloSteps
    <2>2. Alone
      BY <2>1
    <2>3. Started'
      BY <2>1, <2>2, StartedStep DEF Alone
    <2>4. SenderNamed'
      BY <2>1, <2>2, SenderStep DEF Alone
    <2>5. SocketNamed'
      BY <2>1, <2>2, SocketStep DEF Alone
    <2>6. GreetingCleared'
      BY <2>1, <2>2, GreetingStep DEF Alone
    <2>7. Answered'
      BY <2>1, <2>2, AnsweredStep DEF Alone
    <2>8. Ordered'
      BY <2>1, <2>2, OrderedStep DEF Alone
    <2>. QED  BY <2>3, <2>4, <2>5, <2>6, <2>7, <2>8 DEF Alone
  <1>. QED  BY <1>1, <1>2

\* However the connector's clean-up, the user's close() and the senders interleave, the
\* socket, the sender thread and the queue of the legacy transport stay as LegacyInv says.
THEOREM LegacyInvariant == LegacySpec => []LegacyInv
  <1>1. L!Init => LegacyInv
    BY LegacyInit, LegacyTransportAssumption
  <1>2. LegacyInv /\ [L!Next]_(L!vars) => LegacyInv'
    BY LegacyStep, LegacyTransportAssumption
  <1>. QED  BY <1>1, <1>2, PTL DEF LegacySpec, L!Spec

\* Type correctness of the legacy transport.
THEOREM LegacyTypeCorrect == LegacySpec => []L!TypeOK
  <1>1. LegacyInv => L!TypeOK
    BY DEF LegacyInv, LegacyTypes, LinkTypes, ThreadTypes, FrameTypes, CounterTypes, FlagTypes,
           L!TypeOK
  <1>. QED  BY <1>1, LegacyInvariant, PTL

\* Until a reconnect() starts a second connector there is at most one sender thread, although close() and the
\* connector's own _disconnect share queue_thread with no lock.
THEOREM LegacyOneSender == LegacySpec => []OneSender
  <1>1. ASSUME LegacyInv, L!OneConnector PROVE Cardinality(L!Alive) <= 1
    <2>1. \A s \in L!Alive : qthread = s
      BY <1>1 DEF LegacyInv, Alone, SenderNamed
    <2>2. L!Alive \subseteq {qthread}
      BY <2>1
    <2>3. IsFiniteSet({qthread}) /\ Cardinality({qthread}) = 1
      BY FS_Singleton
    <2>. QED  BY <2>2, <2>3, FS_Subset
  <1>2. L!Cardinality(L!Alive) = Cardinality(L!Alive)
    BY Zenon DEF Cardinality, L!Cardinality
  <1>3. LegacyInv => OneSender
    BY <1>1, <1>2 DEF OneSender, L!OneSender
  <1>. QED  BY <1>3, LegacyInvariant, PTL

\* Between connections no socket is open, no sender thread lives and no greeting of an
\* earlier connection is queued, whoever ran _disconnect.
THEOREM LegacyNothingLeftBehind == LegacySpec => []NothingLeftBehind
  <1>1. ASSUME LegacyInv, L!OneConnector, \A t \in L!Threads : pc[t] \in L!Resting
        PROVE  /\ \A i \in L!Conns : link[i] \in {"none", "new", "shut"}
               /\ L!Alive = {}
               /\ \A i \in L!Conns : L!Hello(i) \notin L!ToSet(queue)
    <2>1. Alone /\ 1 \in L!Threads /\ L!User \in L!Threads
      BY <1>1, Moving, LegacyTransportAssumption DEF LegacyInv, LegacyTypes
    <2>2. pc[1] \in {"top", "done", "dead"} /\ pc[L!User] \in {"idle", "top", "done", "dead"}
      BY <1>1, <2>1 DEF L!Resting, Alone, Started
    <2>3. \A i \in L!Conns : link[i] \in {"none", "new", "shut"}
      BY <1>1, <2>1, <2>2 DEF Alone, SocketNamed, LegacyInv, LegacyTypes, LinkTypes
    <2>4. L!Alive = {}
      BY <2>1, <2>2 DEF Alone, SenderNamed
    <2>5. ~Greeted
      BY <2>1, <2>2 DEF Alone, GreetingCleared, L!InDisconnect
    <2>6. \A i \in L!Conns : L!Hello(i) \notin L!ToSet(queue)
      BY <2>5 DEF Greeted, L!Hello, L!ToSet
    <2>. QED  BY <2>3, <2>4, <2>6
  <1>2. LegacyInv => NothingLeftBehind
    BY <1>1 DEF NothingLeftBehind, L!NothingLeftBehind
  <1>. QED  BY <1>2, LegacyInvariant, PTL

\* Until a reconnect() starts a second connector, send_queue puts the user's frames on each
\* connection in the order send() queued them, however often connections are lost and closed.
THEOREM LegacyWireInOrder == LegacySpec => []WireInOrder
  <1>1. LegacyInv => WireInOrder
    BY DEF LegacyInv, Ordered, WireInOrder, L!WireInOrder
  <1>. QED  BY <1>1, LegacyInvariant, PTL

\* While close() waits for a sender that lives, a None that ends it is on the queue: no
\* clear_queue of the connector, and no other sender, takes it away.
THEOREM LegacyCloseAnswered == LegacySpec => []CloseIsAnswered
  <1>1. StopQueued => L!Stop \in L!ToSet(queue)
    BY DEF StopQueued, L!ToSet
  <1>2. LegacyInv => CloseIsAnswered
    BY <1>1 DEF LegacyInv, Alone, Answered, CloseIsAnswered, L!CloseIsAnswered
  <1>. QED  BY <1>2, LegacyInvariant, PTL
=============================================================================
