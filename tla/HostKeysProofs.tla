--------------------------- MODULE HostKeysProofs ---------------------------
(***************************************************************************)
(* Proofs about HostKeys for every choice of keysyms, classes, transports   *)
(* and queue bound.                                                         *)
(***************************************************************************)
EXTENDS HostKeys, TLAPS

-----------------------------------------------------------------------------
(* Two facts about what reaches the idle queue.                             *)

\* Appending a callback keeps the queue a queue of callbacks.
LEMMA AppendTyped ==
    ASSUME NEW q \in Seq(Callbacks), NEW c \in Callbacks
    PROVE  Append(q, c) \in Seq(Callbacks)
  OBVIOUS

\* What the actions append is a callback.
LEMMA CallbackTyped ==
    /\ Drain \in Callbacks
    /\ \A k \in Keys, down \in BOOLEAN : KeyCall(k, down) \in Callbacks
  BY DEF Drain, KeyCall, Callbacks

-----------------------------------------------------------------------------
(* Type correctness.                                                        *)

\* Every step of the loop thread and of the GLib thread keeps the types.
LEMMA TypeStep == TypeOK /\ [Next]_vars => TypeOK'
  <1> SUFFICES ASSUME TypeOK, [Next]_vars PROVE TypeOK'
    OBVIOUS
  <1> USE CallbackTyped, AppendTyped DEF TypeOK
  <1>1. ASSUME NEW k \in Keys, NEW down \in BOOLEAN, HandleInboundKey(k, down)
        PROVE  TypeOK'
    BY <1>1 DEF HandleInboundKey, keyVars, linkVars
  <1>2. CASE ClientLeft
    BY <1>2 DEF ClientLeft, keyVars, linkVars
  <1>3. ASSUME NEW t \in Transports, Connected(t)
        PROVE  TypeOK'
    BY <1>3 DEF Connected, keyVars
  <1>4. ASSUME NEW t \in Transports, LinkLost(t)
        PROVE  TypeOK'
    BY <1>4 DEF LinkLost, OnDisconnected, keyVars
  <1>5. ASSUME NEW t \in Transports, StopRuns(t)
        PROVE  TypeOK'
    BY <1>5 DEF StopRuns, OnDisconnected, keyVars
  <1>6. ASSUME NEW r \in Roles, StopNothing(r)
        PROVE  TypeOK'
    BY <1>6 DEF StopNothing, Replacement, keyVars
  <1>7. ASSUME NEW r \in Roles, BeginStop(r)
        PROVE  TypeOK'
    BY <1>7 DEF BeginStop, keyVars
  <1>8. CASE EndStop
    BY <1>8 DEF EndStop, Replacement, keyVars
  <1>9. CASE RunIdle
    <2>1. idle' = Tail(idle) /\ idle # <<>> /\ UNCHANGED linkVars
      BY <1>9 DEF RunIdle, RunRefusedPress, RunFailedPress, RunStickyPress,
                  RunTap, RunRelease, RunDrain, Runs
    <2>2. idle' \in Seq(Callbacks)
      BY <2>1
    <2>3. /\ pressed' \subseteq Keys /\ xHeld' \subseteq Keys
          /\ lost' \subseteq Keys /\ fired' \subseteq Keys
      <3>1. ASSUME NEW k \in Keys, RunRefusedPress(k) \/ RunFailedPress(k)
            PROVE  <2>3!:
        BY <3>1 DEF RunRefusedPress, RunFailedPress, keyVars
      <3>2. ASSUME NEW k \in Keys, RunStickyPress(k)
            PROVE  <2>3!:
        BY <3>2 DEF RunStickyPress, XPress
      <3>3. ASSUME NEW k \in Keys, NEW released \in BOOLEAN, RunTap(k, released)
            PROVE  <2>3!:
        BY <3>3 DEF RunTap, XPress
      <3>4. ASSUME NEW k \in Keys, NEW failed \in SUBSET {k}, RunRelease(k, failed)
            PROVE  <2>3!:
        BY <3>4 DEF RunRelease, Release
      <3>5. ASSUME NEW failed \in SUBSET pressed, RunDrain(failed)
            PROVE  <2>3!:
        BY <3>5 DEF RunDrain, Release
      <3>. QED  BY <1>9, <3>1, <3>2, <3>3, <3>4, <3>5 DEF RunIdle
    <2>. QED  BY <2>1, <2>2, <2>3 DEF linkVars
  <1>10. CASE UNCHANGED vars
    BY <1>10 DEF vars, keyVars, linkVars
  <1>. QED
    BY <1>1, <1>2, <1>3, <1>4, <1>5, <1>6, <1>7, <1>8, <1>9, <1>10 DEF Next

\* The variables keep their types in every reachable state.
THEOREM TypeCorrect == Spec => []TypeOK
  <1>1. Init => TypeOK
    BY DEF Init, TypeOK
  <1>. QED  BY <1>1, TypeStep, PTL DEF Spec

-----------------------------------------------------------------------------
(* What X holds is accounted for.                                           *)

\* Only idle callbacks touch the key variables.
LEMMA OnlyRunIdle ==
    ASSUME [Next]_vars PROVE RunIdle \/ UNCHANGED keyVars
  BY DEF Next, vars, HandleInboundKey, ClientLeft, Connected, LinkLost,
         StopRuns, StopNothing, BeginStop, EndStop

\* Each way an idle callback can end keeps the account balanced.
LEMMA AccountedStep == TypeOK /\ HeldIsAccounted /\ [Next]_vars => HeldIsAccounted'
  <1> SUFFICES ASSUME HeldIsAccounted, RunIdle \/ UNCHANGED keyVars
               PROVE  HeldIsAccounted'
    BY OnlyRunIdle
  <1> USE DEF HeldIsAccounted
  <1>1. ASSUME NEW k \in Keys,
               RunRefusedPress(k) \/ RunFailedPress(k) \/ UNCHANGED keyVars
        PROVE  HeldIsAccounted'
    BY <1>1 DEF RunRefusedPress, RunFailedPress, keyVars
  <1>2. ASSUME NEW k \in Keys, RunStickyPress(k)
        PROVE  HeldIsAccounted'
    BY <1>2 DEF RunStickyPress
  <1>3. ASSUME NEW k \in Keys, NEW released \in BOOLEAN, RunTap(k, released)
        PROVE  HeldIsAccounted'
    BY <1>3 DEF RunTap
  <1>4. ASSUME NEW k \in Keys, NEW failed \in SUBSET {k}, RunRelease(k, failed)
        PROVE  HeldIsAccounted'
    BY <1>4 DEF RunRelease, Release
  <1>5. ASSUME NEW failed \in SUBSET pressed, RunDrain(failed)
        PROVE  HeldIsAccounted'
    BY <1>5 DEF RunDrain, Release
  <1>6. CASE UNCHANGED keyVars
    BY <1>6 DEF keyVars
  <1>. QED  BY <1>1, <1>2, <1>3, <1>4, <1>5, <1>6 DEF RunIdle

\* X never holds a key the extension has lost track of, other than one whose
\* release could not be injected.
THEOREM Accounted == Spec => []HeldIsAccounted
  <1>1. Init => HeldIsAccounted
    BY DEF Init, HeldIsAccounted
  <1>. QED  BY <1>1, AccountedStep, TypeCorrect, PTL DEF Spec

-----------------------------------------------------------------------------
(* Our own commands do not fire.                                            *)

\* Holding more keys can only complete more chords.
LEMMA ChordMonotone ==
    ASSUME NEW held, NEW more, held \subseteq more, NEW k, ChordMatches(held, k)
    PROVE  ChordMatches(more, k)
  BY DEF ChordMatches

\* A press the callback does not refuse completes no chord in X either,
\* because X holds nothing the extension does not track.
LEMMA PressIsSafe ==
    ASSUME HeldIsAccounted, NEW k, ~Refuses(k), XPress(k), OwnCommandsNotFired
    PROVE  OwnCommandsNotFired'
  <1>1. xHeld \ lost \subseteq pressed
    BY DEF HeldIsAccounted
  <1>2. ~ChordMatches(xHeld \ lost, k)
    BY <1>1, ChordMonotone DEF Refuses
  <1>. QED  BY <1>2 DEF XPress, OwnCommandsNotFired

\* Orca+Ctrl+R and the other own chords never run on the host because of a
\* remote key frame.
THEOREM NoOwnCommand == Spec => []OwnCommandsNotFired
  <1>1. Init => OwnCommandsNotFired
    BY DEF Init, OwnCommandsNotFired
  <1>2. HeldIsAccounted /\ OwnCommandsNotFired /\ [Next]_vars => OwnCommandsNotFired'
    <2> SUFFICES ASSUME HeldIsAccounted, OwnCommandsNotFired,
                        RunIdle \/ UNCHANGED keyVars
                 PROVE  OwnCommandsNotFired'
      BY OnlyRunIdle
    <2>1. ASSUME NEW k \in Keys, RunStickyPress(k)
          PROVE  OwnCommandsNotFired'
      BY <2>1, PressIsSafe DEF RunStickyPress
    <2>2. ASSUME NEW k \in Keys, NEW released \in BOOLEAN, RunTap(k, released)
          PROVE  OwnCommandsNotFired'
      BY <2>2, PressIsSafe DEF RunTap
    <2>3. ASSUME NEW k \in Keys, RunRefusedPress(k) \/ RunFailedPress(k)
          PROVE  OwnCommandsNotFired'
      BY <2>3 DEF RunRefusedPress, RunFailedPress, keyVars, OwnCommandsNotFired
    <2>4. ASSUME NEW k \in Keys, NEW failed \in SUBSET {k}, RunRelease(k, failed)
          PROVE  OwnCommandsNotFired'
      BY <2>4 DEF RunRelease, Release, OwnCommandsNotFired
    <2>5. ASSUME NEW failed \in SUBSET pressed, RunDrain(failed)
          PROVE  OwnCommandsNotFired'
      BY <2>5 DEF RunDrain, Release, OwnCommandsNotFired
    <2>6. CASE UNCHANGED keyVars
      BY <2>6 DEF keyVars, OwnCommandsNotFired
    <2>. QED  BY <2>1, <2>2, <2>3, <2>4, <2>5, <2>6 DEF RunIdle
  <1>. QED  BY <1>1, <1>2, Accounted, PTL DEF Spec

-----------------------------------------------------------------------------
(* A lost link leaves nothing held.  The queue is first in, first out, so   *)
(* the drain that link loss appends runs after every press received before. *)

\* Appending a drain puts one behind every press already queued.
LEMMA DrainAppended ==
    ASSUME TypeOK, idle' = Append(idle, Drain)
    PROVE  PressesFollowed' /\ DrainQueued'
  <1>1. /\ Len(idle') = Len(idle) + 1 /\ Len(idle) \in Nat
        /\ DOMAIN idle' = 1..Len(idle') /\ idle'[Len(idle')] = Drain
    BY DEF TypeOK
  <1>2. IsDrain(idle'[Len(idle')]) /\ Len(idle') \in DOMAIN idle'
    BY <1>1 DEF IsDrain, Drain
  <1>3. \A i \in DOMAIN idle' : ~IsDrain(idle'[i]) => Len(idle') > i
    BY <1>1, <1>2
  <1>. QED  BY <1>2, <1>3 DEF PressesFollowed, DrainQueued

\* Taking the head off leaves every remaining press followed; if the head was
\* a press, the drain behind it is still queued.
LEMMA HeadTaken ==
    ASSUME TypeOK, idle # <<>>, idle' = Tail(idle), PressesFollowed
    PROVE  /\ PressesFollowed'
           /\ ~IsDrain(Head(idle)) => DrainQueued'
  <1>1. /\ Len(idle) \in Nat \ {0} /\ Len(idle') = Len(idle) - 1
        /\ DOMAIN idle = 1..Len(idle) /\ DOMAIN idle' = 1..Len(idle')
        /\ \A i \in DOMAIN idle' : idle'[i] = idle[i + 1]
        /\ Head(idle) = idle[1]
    BY DEF TypeOK
  <1>2. ASSUME NEW j \in DOMAIN idle, j > 1, IsDrain(idle[j])
        PROVE  j - 1 \in DOMAIN idle' /\ IsDrain(idle'[j - 1])
    BY <1>1, <1>2
  <1>3. PressesFollowed'
    <2> SUFFICES ASSUME NEW i \in DOMAIN idle', ~IsDrain(idle'[i])
                 PROVE  \E j \in DOMAIN idle' : j > i /\ IsDrain(idle'[j])
      BY DEF PressesFollowed
    <2>1. i + 1 \in DOMAIN idle /\ ~IsDrain(idle[i + 1])
      BY <1>1
    <2>2. PICK j \in DOMAIN idle : j > i + 1 /\ IsDrain(idle[j])
      BY <2>1 DEF PressesFollowed
    <2>3. j > 1 /\ j - 1 > i
      BY <1>1, <2>2
    <2>. QED  BY <1>2, <2>2, <2>3
  <1>4. ASSUME ~IsDrain(Head(idle)) PROVE DrainQueued'
    <2>1. 1 \in DOMAIN idle
      BY <1>1
    <2>2. PICK j \in DOMAIN idle : j > 1 /\ IsDrain(idle[j])
      BY <1>1, <1>4, <2>1 DEF PressesFollowed
    <2>. QED  BY <1>2, <2>2 DEF DrainQueued
  <1>. QED  BY <1>3, <1>4

\* Every step keeps a drain behind whatever is pressed while all links are down.
LEMMA DrainStep == TypeOK /\ DrainPending /\ [Next]_vars => DrainPending'
  <1> SUFFICES ASSUME TypeOK, DrainPending, [Next]_vars, live' = {}
               PROVE  PressesFollowed' /\ (pressed' # {} => DrainQueued')
    BY DEF DrainPending
  <1>1. ASSUME idle' = Append(idle, Drain)
        PROVE  PressesFollowed' /\ (pressed' # {} => DrainQueued')
    BY <1>1, DrainAppended
  <1>2. ASSUME live = {}, UNCHANGED <<idle, pressed>>
        PROVE  PressesFollowed' /\ (pressed' # {} => DrainQueued')
    BY <1>2 DEF DrainPending, PressesFollowed, DrainQueued
  <1>3. CASE RunIdle
    <2>1. live = {} /\ PressesFollowed /\ idle # <<>> /\ idle' = Tail(idle)
      BY <1>3 DEF RunIdle, RunRefusedPress, RunFailedPress, RunStickyPress,
                  RunTap, RunRelease, RunDrain, Runs, linkVars, DrainPending
    <2>2. ~IsDrain(Head(idle)) \/ pressed' = {}
      <3>1. CASE \E failed \in SUBSET pressed : RunDrain(failed)
        BY <3>1 DEF RunDrain
      <3>2. CASE \E k \in Keys, down \in BOOLEAN : Head(idle) = KeyCall(k, down)
        BY <3>2 DEF KeyCall, IsDrain
      <3>. QED
        BY <1>3, <3>1, <3>2 DEF RunIdle, RunRefusedPress, RunFailedPress,
                                RunStickyPress, RunTap, RunRelease, Runs
    <2>. QED  BY <2>1, <2>2, HeadTaken
  <1>4. ASSUME NEW k \in Keys, NEW down \in BOOLEAN, HandleInboundKey(k, down)
        PROVE  FALSE
    BY <1>4 DEF HandleInboundKey, linkVars
  <1>5. CASE ClientLeft
    BY <1>1, <1>5 DEF ClientLeft
  <1>6. ASSUME NEW t \in Transports, Connected(t)
        PROVE  FALSE
    BY <1>6 DEF Connected
  <1>7. ASSUME NEW t \in Transports, LinkLost(t)
        PROVE  PressesFollowed' /\ (pressed' # {} => DrainQueued')
    BY <1>1, <1>7 DEF LinkLost, OnDisconnected
  <1>8. ASSUME NEW t \in Transports, StopRuns(t)
        PROVE  PressesFollowed' /\ (pressed' # {} => DrainQueued')
    <2>1. CASE t \in live
      BY <1>1, <1>8, <2>1 DEF StopRuns, OnDisconnected
    <2>2. CASE t \notin live
      BY <1>2, <1>8, <2>2 DEF StopRuns, keyVars
    <2>. QED  BY <2>1, <2>2
  <1>9. ASSUME NEW r \in Roles, StopNothing(r)
        PROVE  PressesFollowed' /\ (pressed' # {} => DrainQueued')
    BY <1>1, <1>9 DEF StopNothing
  <1>10. ASSUME NEW r \in Roles, BeginStop(r)
         PROVE  PressesFollowed' /\ (pressed' # {} => DrainQueued')
    BY <1>2, <1>10 DEF BeginStop, keyVars
  <1>11. CASE EndStop
    BY <1>1, <1>11 DEF EndStop
  <1>12. CASE UNCHANGED vars
    BY <1>2, <1>12 DEF vars, keyVars, linkVars
  <1>. QED
    BY <1>3, <1>4, <1>5, <1>6, <1>7, <1>8, <1>9, <1>10, <1>11, <1>12 DEF Next

\* With every link down, a drain follows every press that is queued or held.
THEOREM AlwaysDrainPending == Spec => []DrainPending
  <1>1. Init => DrainPending
    BY DEF Init, DrainPending, PressesFollowed
  <1>. QED  BY <1>1, DrainStep, TypeCorrect, PTL DEF Spec

\* When the queue has run dry after the last link went down, the extension
\* holds nothing and X holds only what could not be released.
THEOREM NothingHeld == Spec => []NothingHeldAfterLinkLoss
  <1>1. DrainPending /\ HeldIsAccounted => NothingHeldAfterLinkLoss
    BY DEF DrainPending, DrainQueued, HeldIsAccounted, NothingHeldAfterLinkLoss
  <1>. QED  BY <1>1, AlwaysDrainPending, Accounted, PTL
=============================================================================
