---------------------------- MODULE SessionProofs ----------------------------
(***************************************************************************)
(* Proofs about Session for any number of transports and any queue bounds.  *)
(***************************************************************************)
EXTENDS Session, TLAPS

-----------------------------------------------------------------------------
(* Type correctness.                                                        *)

Flags == /\ enabled \in BOOLEAN /\ autoConnect \in BOOLEAN
         /\ announced \in BOOLEAN /\ focus \in BOOLEAN

\* The four flags stay Boolean.
LEMMA FlagStep == Flags /\ [Next]_vars => Flags'
  <1> SUFFICES ASSUME Flags, [Next]_vars PROVE Flags'
    OBVIOUS
  <1>1. \/ enabled' = enabled \/ enabled' = TRUE \/ enabled' = FALSE
    BY DEF Next, vars, userVars, SetUp, AlreadyConnected, Connect, Disconnect,
           ChangeSettings, StopAnd, Disable, LoopGone, WaitEnds, SwitchSide,
           RunDisconnected, RunLoop, RunStart, RunStop, Takes, Opens, Mismatch,
           Joined, Drops, Closed, Ends, Becomes
  <1>2. \/ autoConnect' = autoConnect \/ autoConnect' = TRUE \/ autoConnect' = FALSE
    BY DEF Next, vars, userVars, SetUp, AlreadyConnected, Connect, Disconnect,
           ChangeSettings, Disable, WaitEnds, SwitchSide,
           RunDisconnected, RunLoop, RunStart, RunStop, Takes, Opens, Mismatch,
           Joined, Drops, Closed, Ends, Becomes
  <1>3. \/ announced' = announced \/ announced' = TRUE \/ announced' = FALSE
    BY DEF Next, vars, mainVars, SetUp, AlreadyConnected, Connect, Disconnect,
           ChangeSettings, NewIntent, Disable, WaitEnds, SwitchSide,
           RunDisconnected, RunLoop, RunStart, RunStop, Takes, Opens, Mismatch,
           Joined, Drops, Closed, Ends
  <1>4. focus' = focus \/ focus' = ~focus \/ focus' = FALSE
    BY DEF Next, vars, mainVars, SetUp, AlreadyConnected, Connect, Disconnect,
           ChangeSettings, StopAnd, Disable, WaitEnds, SwitchSide,
           RunDisconnected, RunLoop, RunStart, RunStop, Takes, Opens, Mismatch,
           Joined, Drops, Closed, Ends, Becomes
  <1>. QED  BY <1>1, <1>2, <1>3, <1>4, Zenon DEF Flags

\* The queues and tasks, which the arguments below are about.
Plumbing ==
    /\ transport \in Transports \cup {NoTransport}
    /\ loopQ \in Seq(Work)
    /\ task \in [Transports -> Live \cup {"none"}]
    /\ stopping \subseteq Transports

\* Queued work names its transport, and a start is not a stop.
LEMMA WorkFacts ==
    ASSUME NEW t \in Transports, NEW u \in Transports
    PROVE  /\ StartOf(t) \in Work /\ StopOf(t) \in Work
           /\ StartOf(t) # StopOf(u)
           /\ StartOf(t).of = t /\ StopOf(t).of = t
           /\ t # u => StartOf(t) # StartOf(u) /\ StopOf(t) # StopOf(u)
  <1>1. StartOf(t).of = t /\ StopOf(t).of = t /\ StartOf(u).of = u /\ StopOf(u).of = u
    BY DEF StartOf, StopOf
  <1>2. StartOf(t).op # StopOf(u).op
    BY DEF StartOf, StopOf
  <1>3. StartOf(t) \in Work /\ StopOf(t) \in Work
    BY DEF StartOf, StopOf, Work
  <1>. QED  BY <1>1, <1>2, <1>3

\* The ways a step changes what is queued, referred to and running.
Same   == UNCHANGED <<loopQ, transport, task, stopping>>
Queued == /\ transport \in Transports /\ transport' = NoTransport
          /\ loopQ' = Append(loopQ, StopOf(transport))
          /\ UNCHANGED <<task, stopping>>
Dialled(t) == /\ t \in Fresh /\ transport = NoTransport /\ transport' = t
              /\ loopQ' = Append(loopQ, StartOf(t))
              /\ UNCHANGED <<task, stopping>>
Gone == /\ loopQ' = <<>> /\ stopping' = {} /\ task' = [t \in Transports |-> "none"]
        /\ transport = NoTransport /\ transport' = NoTransport
Started(t) == /\ loopQ # <<>> /\ Head(loopQ) = StartOf(t) /\ loopQ' = Tail(loopQ)
              /\ task' = [task EXCEPT ![t] = "down"]
              /\ UNCHANGED <<transport, stopping>>
Stopped(t) == /\ loopQ # <<>> /\ Head(loopQ) = StopOf(t) /\ loopQ' = Tail(loopQ)
              /\ stopping' = stopping \cup {t}
              /\ UNCHANGED <<transport, task>>
Moved(t) == /\ task[t] # "none"
            /\ \E to \in Live : task' = [task EXCEPT ![t] = to]
            /\ UNCHANGED <<loopQ, transport, stopping>>
Finished(t) == /\ t \in stopping /\ stopping' = stopping \ {t}
               /\ task' = [task EXCEPT ![t] = "none"]
               /\ UNCHANGED <<loopQ, transport>>

Effect == \/ Same \/ Queued \/ Gone
          \/ \E t \in Transports :
                Dialled(t) \/ Started(t) \/ Stopped(t) \/ Moved(t) \/ Finished(t)

\* Every step has one of these effects.
LEMMA Effects ==
    ASSUME Plumbing, QueueInv, [Next]_vars PROVE Effect
  <1> USE DEF loopVars, mainVars, userVars
  <1>1. ASSUME Dial, transport = NoTransport, UNCHANGED <<task, stopping>>
        PROVE  Effect
    <2>1. CASE transport' = NoTransport /\ UNCHANGED loopQ
      BY <1>1, <2>1 DEF Effect, Same
    <2>2. CASE \E t \in Fresh : transport' = t /\ loopQ' = Append(loopQ, StartOf(t))
      BY <1>1, <2>2 DEF Effect, Dialled, Fresh
    <2>. QED  BY <1>1, <2>1, <2>2 DEF Dial
  <1>2. ASSUME NEW next, StopAnd(next) PROVE Effect
    <2>1. UNCHANGED <<task, stopping>>
      BY <1>2 DEF StopAnd
    <2>2. CASE transport = NoTransport
      BY <1>1, <1>2, <2>1, <2>2 DEF StopAnd, Effect, Same
    <2>3. CASE transport # NoTransport
      BY <1>2, <2>1, <2>3 DEF StopAnd, Effect, Queued, Plumbing
    <2>. QED  BY <2>2, <2>3
  <1>3. CASE SetUp
    BY <1>1, <1>3 DEF SetUp, QueueInv, Effect, Same
  <1>4. CASE AlreadyConnected \/ SwitchSide \/ RunDisconnected \/ UNCHANGED vars
    BY <1>4 DEF AlreadyConnected, SwitchSide, RunDisconnected, vars, Effect, Same
  <1>5. CASE Connect \/ ChangeSettings
    BY <1>2, <1>5 DEF Connect, ChangeSettings
  <1>6. CASE Disconnect
    BY <1>2, <1>6 DEF Disconnect, Effect, Same
  <1>7. CASE Disable
    <2>1. CASE transport # NoTransport
      BY <1>2, <1>7, <2>1 DEF Disable
    <2>2. CASE transport = NoTransport
      BY <1>7, <2>2 DEF Disable, LoopGone, Effect, Gone
    <2>. QED  BY <2>1, <2>2
  <1>8. CASE WaitEnds
    <2>1. transport = NoTransport
      BY <1>8 DEF WaitEnds, QueueInv
    <2>2. CASE glib = "restart"
      BY <1>1, <1>8, <2>1, <2>2 DEF WaitEnds
    <2>3. CASE glib = "disable"
      BY <1>8, <2>1, <2>3 DEF WaitEnds, LoopGone, Effect, Gone
    <2>4. CASE glib \notin {"restart", "disable"}
      BY <1>8, <2>4 DEF WaitEnds, Effect, Same
    <2>. QED  BY <2>2, <2>3, <2>4
  <1>9. ASSUME NEW t \in Transports, RunStart(t) \/ RunStop(t) PROVE Effect
    BY <1>9 DEF RunStart, RunStop, Takes, Effect, Started, Stopped
  <1>10. ASSUME NEW t \in Transports,
                Opens(t) \/ Mismatch(t) \/ Joined(t) \/ Drops(t) \/ Closed(t)
         PROVE  Effect
    <2>1. Moved(t)
      BY <1>10 DEF Opens, Mismatch, Joined, Drops, Closed, Becomes, Moved, Live
    <2>. QED  BY <2>1 DEF Effect
  <1>11. ASSUME NEW t \in Transports, Ends(t) PROVE Effect
    BY <1>11 DEF Ends, Becomes, Effect, Finished
  <1>. QED
    BY <1>3, <1>4, <1>5, <1>6, <1>7, <1>8, <1>9, <1>10, <1>11 DEF Next, RunLoop

LEMMA PlumbingStep == Plumbing /\ Effect => Plumbing'
  <1> SUFFICES ASSUME Plumbing, Effect PROVE Plumbing'
    OBVIOUS
  <1> USE DEF Plumbing
  <1>1. CASE Same
    BY <1>1 DEF Same
  <1>2. CASE Queued
    <2>1. StopOf(transport) \in Work
      BY <1>2, WorkFacts DEF Queued
    <2>. QED  BY <1>2, <2>1 DEF Queued
  <1>3. CASE Gone
    BY <1>3 DEF Gone
  <1>4. ASSUME NEW t \in Transports, Dialled(t) PROVE Plumbing'
    <2>1. StartOf(t) \in Work
      BY WorkFacts
    <2>. QED  BY <1>4, <2>1 DEF Dialled
  <1>5. ASSUME NEW t \in Transports, Started(t) \/ Stopped(t) PROVE Plumbing'
    BY <1>5 DEF Started, Stopped, Live
  <1>6. ASSUME NEW t \in Transports, Moved(t) \/ Finished(t) PROVE Plumbing'
    BY <1>6 DEF Moved, Finished
  <1>. QED  BY <1>1, <1>2, <1>3, <1>4, <1>5, <1>6 DEF Effect

-----------------------------------------------------------------------------
(* No transport is orphaned.                                                *)

\* The part of QueueInv that is about the queue.
Order ==
    /\ \A i, j \in DOMAIN loopQ, t \in Transports :
          i < j /\ loopQ[i] = StopOf(t) => loopQ[j] # StartOf(t)
    /\ \A i \in DOMAIN loopQ, t \in stopping : loopQ[i] # StartOf(t)

\* The queue after an append, and after its head is taken.
LEMMA Appended ==
    ASSUME NEW q \in Seq(Work), NEW w \in Work, NEW r, r = Append(q, w)
    PROVE  /\ \A i \in DOMAIN q : i \in DOMAIN r /\ r[i] = q[i]
           /\ \E n \in DOMAIN r : r[n] = w /\ \A i \in DOMAIN r : i = n \/ (i \in DOMAIN q /\ i < n)
           /\ DOMAIN r \subseteq Nat
  <1>1. /\ Len(q) \in Nat /\ DOMAIN q = 1..Len(q) /\ DOMAIN r = 1 .. Len(q) + 1
        /\ r[Len(q) + 1] = w /\ \A i \in 1..Len(q) : r[i] = q[i]
    OBVIOUS
  <1>2. /\ Len(q) + 1 \in DOMAIN r
        /\ \A i \in DOMAIN r : i = Len(q) + 1 \/ (i \in DOMAIN q /\ i < Len(q) + 1)
    BY <1>1
  <1>. QED  BY <1>1, <1>2

LEMMA Taken ==
    ASSUME NEW q \in Seq(Work), q # <<>>, NEW r, r = Tail(q)
    PROVE  /\ 1 \in DOMAIN q /\ q[1] = Head(q)
           /\ DOMAIN r \subseteq Nat
           /\ \A i \in DOMAIN r : i + 1 \in DOMAIN q /\ r[i] = q[i + 1] /\ 1 < i + 1
           /\ \A i \in DOMAIN q : i = 1 \/ \E j \in DOMAIN r : r[j] = q[i]
  <1>1. /\ Len(q) \in Nat /\ Len(q) >= 1 /\ DOMAIN q = 1..Len(q)
        /\ DOMAIN r = 1 .. Len(q) - 1 /\ \A i \in 1 .. Len(q) - 1 : r[i] = q[i + 1]
        /\ q[1] = Head(q)
    OBVIOUS
  <1>2. ASSUME NEW i \in DOMAIN q, i # 1 PROVE \E j \in DOMAIN r : r[j] = q[i]
    <2>1. i - 1 \in DOMAIN r /\ (i - 1) + 1 = i
      BY <1>1, <1>2
    <2>. QED  BY <1>1, <2>1
  <1>. QED  BY <1>1, <1>2

LEMMA OrderStep == Plumbing /\ Order /\ Effect => Order'
  <1> SUFFICES ASSUME Plumbing, Order, Effect PROVE Order'
    OBVIOUS
  <1>1. CASE Same
    BY <1>1 DEF Same, Order
  <1>2. CASE Queued
    <2>1. StopOf(transport) \in Work /\ \A t \in Transports : StopOf(transport) # StartOf(t)
      BY <1>2, WorkFacts DEF Queued
    <2>2. PICK n \in DOMAIN loopQ' :
             /\ loopQ'[n] = StopOf(transport)
             /\ \A i \in DOMAIN loopQ' : i = n \/ (i \in DOMAIN loopQ /\ i < n)
      BY <1>2, <2>1, Appended DEF Queued, Plumbing
    <2>3. \A i \in DOMAIN loopQ : loopQ'[i] = loopQ[i]
      BY <1>2, <2>1, Appended DEF Queued, Plumbing
    <2>4. ASSUME NEW i \in DOMAIN loopQ', NEW j \in DOMAIN loopQ', NEW t \in Transports,
                 i < j, loopQ'[i] = StopOf(t)
          PROVE  loopQ'[j] # StartOf(t)
      <3>1. CASE j = n
        BY <2>1, <2>2, <3>1
      <3>2. CASE j # n
        <4>1. j \in DOMAIN loopQ /\ j < n
          BY <2>2, <3>2
        <4>2. i # n
          <5>1. i \in Nat /\ j \in Nat /\ n \in Nat
            BY <1>2, <2>1, Appended DEF Queued, Plumbing
          <5>. QED  BY <2>4, <4>1, <5>1
        <4>3. i \in DOMAIN loopQ
          BY <2>2, <4>2
        <4>. QED  BY <2>3, <2>4, <4>1, <4>3 DEF Order
      <3>. QED  BY <3>1, <3>2
    <2>5. ASSUME NEW i \in DOMAIN loopQ', NEW t \in stopping'
          PROVE  loopQ'[i] # StartOf(t)
      <3>1. t \in stopping /\ t \in Transports
        BY <1>2 DEF Queued, Plumbing
      <3>. QED  BY <2>1, <2>2, <2>3, <3>1 DEF Order
    <2>. QED  BY <2>4, <2>5 DEF Order
  <1>3. CASE Gone
    <2>1. DOMAIN loopQ' = {} /\ stopping' = {}
      BY <1>3 DEF Gone
    <2>. QED  BY <2>1 DEF Order
  <1>4. ASSUME NEW u \in Transports, Dialled(u) PROVE Order'
    <2>1. /\ StartOf(u) \in Work /\ StartOf(u).of = u
          /\ \A t \in Transports : StopOf(t) # StartOf(u) /\ StopOf(t).of = t
          /\ \A t \in Transports : StartOf(u) = StartOf(t) => t = u
      BY WorkFacts
    <2>2. PICK n \in DOMAIN loopQ' :
             /\ loopQ'[n] = StartOf(u)
             /\ \A i \in DOMAIN loopQ' : i = n \/ (i \in DOMAIN loopQ /\ i < n)
      BY <1>4, <2>1, Appended DEF Dialled, Plumbing
    <2>3. \A i \in DOMAIN loopQ : loopQ'[i] = loopQ[i]
      BY <1>4, <2>1, Appended DEF Dialled, Plumbing
    <2>4. u \notin stopping /\ \A i \in DOMAIN loopQ : loopQ[i].of # u
      BY <1>4 DEF Dialled, Fresh
    <2>5. ASSUME NEW i \in DOMAIN loopQ', NEW j \in DOMAIN loopQ', NEW t \in Transports,
                 i < j, loopQ'[i] = StopOf(t)
          PROVE  loopQ'[j] # StartOf(t)
      <3>1. i # n /\ i \in DOMAIN loopQ /\ loopQ[i] = StopOf(t)
        BY <2>1, <2>2, <2>3, <2>5
      <3>2. t # u
        BY <2>1, <2>4, <3>1
      <3>3. CASE j = n
        BY <2>1, <2>2, <3>2, <3>3
      <3>4. CASE j # n
        BY <2>2, <2>3, <2>5, <3>1, <3>4 DEF Order
      <3>. QED  BY <3>3, <3>4
    <2>6. ASSUME NEW i \in DOMAIN loopQ', NEW t \in stopping'
          PROVE  loopQ'[i] # StartOf(t)
      <3>1. t \in stopping /\ t \in Transports /\ t # u
        BY <1>4, <2>4 DEF Dialled, Plumbing
      <3>. QED  BY <2>1, <2>2, <2>3, <3>1 DEF Order
    <2>. QED  BY <2>5, <2>6 DEF Order
  <1>5. ASSUME NEW u \in Transports, Started(u) \/ Stopped(u) PROVE Order'
    <2>1. /\ 1 \in DOMAIN loopQ /\ loopQ[1] = Head(loopQ) /\ DOMAIN loopQ' \subseteq Nat
          /\ \A i \in DOMAIN loopQ' : /\ i + 1 \in DOMAIN loopQ /\ 1 < i + 1
                                      /\ loopQ'[i] = loopQ[i + 1]
      BY <1>5, Taken DEF Started, Stopped, Plumbing
    <2>2. ASSUME NEW i \in DOMAIN loopQ', NEW j \in DOMAIN loopQ', NEW t \in Transports,
                 i < j, loopQ'[i] = StopOf(t)
          PROVE  loopQ'[j] # StartOf(t)
      <3>1. i + 1 < j + 1
        BY <2>1, <2>2
      <3>. QED  BY <2>1, <2>2, <3>1 DEF Order
    <2>3. ASSUME NEW i \in DOMAIN loopQ', NEW t \in stopping'
          PROVE  loopQ'[i] # StartOf(t)
      <3>1. CASE t \in stopping
        BY <2>1, <3>1 DEF Order
      <3>2. CASE t \notin stopping
        <4>1. t = u /\ loopQ[1] = StopOf(u)
          BY <1>5, <2>1, <2>3, <3>2 DEF Started, Stopped
        <4>. QED  BY <2>1, <4>1 DEF Order
      <3>. QED  BY <3>1, <3>2
    <2>. QED  BY <2>2, <2>3 DEF Order
  <1>6. ASSUME NEW u \in Transports, Moved(u) \/ Finished(u) PROVE Order'
    BY <1>6 DEF Moved, Finished, Order
  <1>. QED  BY <1>1, <1>2, <1>3, <1>4, <1>5, <1>6 DEF Effect

LEMMA OrphanStep == Plumbing /\ Order /\ NoOrphan /\ Effect => NoOrphan'
  <1> SUFFICES ASSUME Plumbing, Order, NoOrphan, Effect, NEW t \in Transports,
                      task'[t] # "none" \/ \E i \in DOMAIN loopQ' : loopQ'[i] = StartOf(t)
               PROVE  t = transport' \/ Doomed(t)'
    BY DEF NoOrphan
  <1> DEFINE Runs == task[t] # "none" \/ \E i \in DOMAIN loopQ : loopQ[i] = StartOf(t)
  <1>1. Runs => t = transport \/ Doomed(t)
    BY DEF NoOrphan
  <1>2. CASE Same
    BY <1>1, <1>2 DEF Same, Doomed
  <1>3. CASE Queued
    <2>1. StopOf(transport) \in Work /\ StopOf(transport) # StartOf(t)
      BY <1>3, WorkFacts DEF Queued
    <2>2. PICK n \in DOMAIN loopQ' :
             /\ loopQ'[n] = StopOf(transport)
             /\ \A i \in DOMAIN loopQ' : i = n \/ (i \in DOMAIN loopQ /\ i < n)
      BY <1>3, <2>1, Appended DEF Queued, Plumbing
    <2>3. \A i \in DOMAIN loopQ : i \in DOMAIN loopQ' /\ loopQ'[i] = loopQ[i]
      BY <1>3, <2>1, Appended DEF Queued, Plumbing
    <2>4. Runs
      BY <1>3, <2>1, <2>2, <2>3 DEF Queued
    <2>5. CASE t = transport
      BY <2>2, <2>5 DEF Doomed
    <2>6. CASE Doomed(t)
      BY <1>3, <2>3, <2>6 DEF Doomed, Queued
    <2>. QED  BY <1>1, <2>4, <2>5, <2>6
  <1>4. CASE Gone
    <2>1. task'[t] = "none" /\ DOMAIN loopQ' = {}
      BY <1>4 DEF Gone
    <2>. QED  BY <2>1
  <1>5. ASSUME NEW u \in Transports, Dialled(u) PROVE t = transport' \/ Doomed(t)'
    <2>1. StartOf(u) \in Work /\ (t # u => StartOf(u) # StartOf(t))
      BY WorkFacts
    <2>2. PICK n \in DOMAIN loopQ' :
             /\ loopQ'[n] = StartOf(u)
             /\ \A i \in DOMAIN loopQ' : i = n \/ (i \in DOMAIN loopQ /\ i < n)
      BY <1>5, <2>1, Appended DEF Dialled, Plumbing
    <2>3. \A i \in DOMAIN loopQ : i \in DOMAIN loopQ' /\ loopQ'[i] = loopQ[i]
      BY <1>5, <2>1, Appended DEF Dialled, Plumbing
    <2>4. CASE t = u
      BY <1>5, <2>4 DEF Dialled
    <2>5. CASE t # u
      <3>1. Runs
        BY <1>5, <2>1, <2>2, <2>3, <2>5 DEF Dialled
      <3>2. t # transport
        BY <1>5, SessionAssumption DEF Dialled
      <3>3. Doomed(t)
        BY <1>1, <3>1, <3>2
      <3>. QED  BY <1>5, <2>3, <3>3 DEF Doomed, Dialled
    <2>. QED  BY <2>4, <2>5
  <1>6. ASSUME NEW u \in Transports, Started(u) \/ Stopped(u)
        PROVE  t = transport' \/ Doomed(t)'
    <2>1. /\ 1 \in DOMAIN loopQ /\ loopQ[1] = Head(loopQ)
          /\ \A i \in DOMAIN loopQ' : i + 1 \in DOMAIN loopQ /\ loopQ'[i] = loopQ[i + 1]
          /\ \A i \in DOMAIN loopQ : i = 1 \/ \E j \in DOMAIN loopQ' : loopQ'[j] = loopQ[i]
      BY <1>6, Taken DEF Started, Stopped, Plumbing
    <2>2. Runs
      <3>1. CASE task'[t] # "none"
        <4>1. CASE task[t] # "none"
          BY <4>1
        <4>2. CASE task[t] = "none"
          <5>1. t = u /\ loopQ[1] = StartOf(t)
            BY <1>6, <2>1, <3>1, <4>2 DEF Started, Stopped, Plumbing
          <5>. QED  BY <2>1, <5>1
        <4>. QED  BY <4>1, <4>2
      <3>2. CASE \E i \in DOMAIN loopQ' : loopQ'[i] = StartOf(t)
        BY <2>1, <3>2
      <3>. QED  BY <3>1, <3>2
    <2>3. CASE t = transport
      BY <1>6, <2>3 DEF Started, Stopped
    <2>4. CASE t \in stopping
      BY <1>6, <2>4 DEF Started, Stopped, Doomed
    <2>5. CASE \E i \in DOMAIN loopQ : loopQ[i] = StopOf(t)
      <3>1. PICK i \in DOMAIN loopQ : loopQ[i] = StopOf(t)
        BY <2>5
      <3>2. CASE i = 1
        <4>1. Stopped(u) /\ u = t
          BY <1>6, <2>1, <3>1, <3>2, WorkFacts DEF Started, Stopped
        <4>. QED  BY <4>1 DEF Stopped, Doomed
      <3>3. CASE i # 1
        BY <2>1, <3>1, <3>3 DEF Doomed
      <3>. QED  BY <3>2, <3>3
    <2>. QED  BY <1>1, <2>2, <2>3, <2>4, <2>5 DEF Doomed
  <1>7. ASSUME NEW u \in Transports, Moved(u) PROVE t = transport' \/ Doomed(t)'
    <2>1. Runs
      BY <1>7 DEF Moved, Plumbing
    <2>. QED  BY <1>1, <1>7, <2>1 DEF Moved, Doomed
  <1>8. ASSUME NEW u \in Transports, Finished(u) PROVE t = transport' \/ Doomed(t)'
    <2>1. t # u
      <3>1. ASSUME t = u PROVE FALSE
        <4>1. task'[t] = "none" /\ t \in stopping
          BY <1>8, <3>1 DEF Finished, Plumbing
        <4>. QED  BY <1>8, <4>1 DEF Order, Finished
      <3>. QED  BY <3>1
    <2>2. Runs
      BY <1>8, <2>1 DEF Finished, Plumbing
    <2>. QED  BY <1>1, <1>8, <2>1, <2>2 DEF Finished, Doomed
  <1>. QED  BY <1>2, <1>3, <1>4, <1>5, <1>6, <1>7, <1>8 DEF Effect

\* While a command waits, or the extension is off, no transport is referred to.
Waiting == /\ glib \in {"idle", "restart", "disable", "nothing"}
           /\ glib # "idle" => enabled
           /\ glib # "idle" \/ ~enabled => transport = NoTransport

\* Commands are not taken while one waits, and each wait follows the dropping
\* of the reference.
LEMMA WaitingStep == Waiting /\ QueueInv /\ Plumbing /\ [Next]_vars => Waiting'
  <1> SUFFICES ASSUME Waiting, QueueInv, Plumbing, [Next]_vars PROVE Waiting'
    OBVIOUS
  <1> USE DEF Waiting, userVars, mainVars
  <1>1. ASSUME NEW next \in {"restart", "disable", "nothing"}, StopAnd(next),
               enabled, glib = "idle"
        PROVE  Waiting'
    <2>1. CASE transport # NoTransport
      BY <1>1, <2>1 DEF StopAnd
    <2>2. CASE transport = NoTransport
      <3>1. glib' = "idle" /\ enabled' = enabled
        BY <1>1, <2>2 DEF StopAnd
      <3>. QED  BY <1>1, <3>1
    <2>. QED  BY <2>1, <2>2
  <1>2. CASE SetUp
    <2>1. glib' = "idle"
      BY <1>2 DEF SetUp
    <2>2. enabled'
      BY <1>2, Zenon DEF SetUp
    <2>. QED  BY <2>1, <2>2
  <1>3. CASE Connect \/ ChangeSettings
    BY <1>1, <1>3 DEF Connect, ChangeSettings
  <1>4. CASE Disconnect
    BY <1>1, <1>4 DEF Disconnect
  <1>5. CASE Disable
    BY <1>1, <1>5 DEF Disable, LoopGone
  <1>6. CASE WaitEnds
    <2>1. glib' = "idle" /\ transport = NoTransport
      BY <1>6 DEF WaitEnds
    <2>2. CASE glib = "restart"
      <3>1. enabled /\ enabled' = enabled
        BY <1>6, <2>2 DEF WaitEnds
      <3>. QED  BY <2>1, <3>1
    <2>3. CASE glib # "restart"
      BY <1>6, <2>1, <2>3 DEF WaitEnds, LoopGone
    <2>. QED  BY <2>2, <2>3
  <1>7. CASE AlreadyConnected \/ SwitchSide \/ RunDisconnected \/ UNCHANGED vars
    BY <1>7 DEF AlreadyConnected, SwitchSide, RunDisconnected, vars
  <1>8. CASE RunLoop
    BY <1>8 DEF RunLoop, RunStart, RunStop, Takes
  <1>9. ASSUME NEW t \in Transports, \/ Opens(t) \/ Mismatch(t) \/ Joined(t)
                                     \/ Drops(t) \/ Closed(t) \/ Ends(t)
        PROVE  Waiting'
    BY <1>9 DEF Opens, Mismatch, Joined, Drops, Closed, Ends, Becomes
  <1>. QED
    BY <1>2, <1>3, <1>4, <1>5, <1>6, <1>7, <1>8, <1>9 DEF Next

\* The other variables' types.
Rest == /\ heard \in {"nobody", "current", "former", "twice"}
        /\ idle \in Seq(Transports)

LEMMA RestStep == Rest /\ [Next]_vars => Rest'
  <1> SUFFICES ASSUME Rest, [Next]_vars PROVE Rest'
    OBVIOUS
  <1> USE DEF Rest, mainVars, loopVars, userVars
  <1>1. heard' \in {"nobody", "current", "former", "twice"}
    <2>1. CASE \E t \in Transports : Joined(t)
      BY <2>1 DEF Joined
    <2>2. CASE ~ \E t \in Transports : Joined(t)
      BY <2>2 DEF Next, vars, SetUp, AlreadyConnected, Connect, Disconnect,
             ChangeSettings, NewIntent, Disable, WaitEnds, SwitchSide,
             RunDisconnected, RunLoop, RunStart, RunStop, Takes, Opens, Mismatch,
             Drops, Closed, Ends
    <2>. QED  BY <2>1, <2>2
  <1>2. \/ idle' = idle
        \/ idle # <<>> /\ idle' = Tail(idle)
        \/ \E t \in Transports : idle' = Append(idle, t)
    BY DEF Next, vars, SetUp, AlreadyConnected, Connect, Disconnect,
           ChangeSettings, StopAnd, Disable, WaitEnds, SwitchSide,
           RunDisconnected, RunLoop, RunStart, RunStop, Takes, Opens, Mismatch,
           Joined, Drops, Closed, Ends
  <1>3. idle' \in Seq(Transports)
    BY SMTT(30), <1>2
  <1>. QED  BY <1>1, <1>3

\* The strengthened invariant, and with it the types, hold in every reachable state.
THEOREM Strengthened == Spec => []IInv
  <1> DEFINE Inv == Flags /\ Plumbing /\ Order /\ Waiting /\ Rest /\ NoOrphan
  <1>1. Init => Inv
    <2>1. Init => Flags
      BY Zenon DEF Init, Flags
    <2>2. Init => Plumbing /\ Order /\ Waiting /\ Rest /\ NoOrphan
      BY DEF Init, Plumbing, Order, Waiting, Rest, NoOrphan
    <2>. QED  BY <2>1, <2>2
  <1>2. Inv => IInv
    <2>1. Flags => /\ enabled \in BOOLEAN /\ autoConnect \in BOOLEAN
                   /\ announced \in BOOLEAN /\ focus \in BOOLEAN
      BY Zenon DEF Flags
    <2>2. Plumbing /\ Waiting /\ Rest
             => /\ transport \in Transports \cup {NoTransport}
                /\ glib \in {"idle", "restart", "disable", "nothing"}
                /\ heard \in {"nobody", "current", "former", "twice"}
                /\ idle \in Seq(Transports) /\ loopQ \in Seq(Work)
                /\ task \in [Transports -> Live \cup {"none"}]
                /\ stopping \subseteq Transports
      BY Zenon DEF Plumbing, Waiting, Rest
    <2>3. Order /\ Waiting => QueueInv
      BY Zenon DEF Order, Waiting, QueueInv
    <2>. QED  BY <2>1, <2>2, <2>3, Zenon DEF IInv, TypeOK
  <1>3. Inv /\ [Next]_vars => Inv'
    <2> SUFFICES ASSUME Inv, [Next]_vars PROVE Inv'
      OBVIOUS
    <2>1. QueueInv
      BY Zenon DEF Order, Waiting, QueueInv
    <2>2. Effect
      BY <2>1, Effects
    <2>3. Flags' /\ Rest' /\ Waiting'
      BY <2>1, FlagStep, RestStep, WaitingStep
    <2>4. Plumbing' /\ Order' /\ NoOrphan'
      BY <2>2, PlumbingStep, OrderStep, OrphanStep
    <2>. QED  BY <2>3, <2>4
  <1>. QED  BY <1>1, <1>2, <1>3, PTL DEF Spec

\* Quick restarts and disconnects leave no transport that nothing can stop.
THEOREM NeverOrphaned == Spec => []NoOrphan
  <1>1. IInv => NoOrphan
    BY DEF IInv
  <1>. QED  BY <1>1, Strengthened, PTL

\* A join is announced at most once per user intent.
THEOREM OneAnnouncement == Spec => []AnnouncedOnce
  <1>1. Init => AnnouncedOnce
    BY DEF Init, AnnouncedOnce
  <1>2. AnnouncedOnce /\ [Next]_vars => AnnouncedOnce'
    <2> SUFFICES ASSUME AnnouncedOnce, [Next]_vars PROVE AnnouncedOnce'
      OBVIOUS
    <2>1. CASE \E t \in Transports : Joined(t)
      <3>1. PICK t \in Transports : Joined(t)
        BY <2>1
      <3>2. CASE announced
        BY <3>1, <3>2 DEF Joined, AnnouncedOnce
      <3>3. CASE ~announced
        BY <3>1, <3>3 DEF Joined, AnnouncedOnce
      <3>. QED  BY <3>2, <3>3
    <2>2. CASE heard' = "nobody"
      BY <2>2 DEF AnnouncedOnce
    <2>3. CASE ~(\E t \in Transports : Joined(t)) /\ heard' # "nobody"
      <3>1. heard' = heard /\ announced' = announced
        BY <2>3 DEF Next, vars, mainVars, SetUp, AlreadyConnected, Connect, Disconnect,
               ChangeSettings, NewIntent, Disable, WaitEnds, SwitchSide,
               RunDisconnected, RunLoop, RunStart, RunStop, Takes, Opens, Mismatch,
               Drops, Closed, Ends
      <3>. QED  BY <3>1 DEF AnnouncedOnce
    <2>. QED  BY <2>1, <2>2, <2>3
  <1>. QED  BY <1>1, <1>2, PTL DEF Spec
=============================================================================
