--------------------------- MODULE HostMirrorProofs ---------------------------
(* The invariants and the action property of HostMirror, for any lines, texts  *)
(* and bounds, with and without a buffer that fills up.                        *)
EXTENDS HostMirror, TLAPS

\* A callback starts with a transport and a line to show, and none is replaced
\* while it runs.
PaintsLinked == painting # "no" => transport /\ line \in Shown

\* The window opens with an utterance, and the next press closes it.
WindowSpoken == window => spoke

\* Nothing is tagged with a press that is still to come.
PressBound ==
    /\ seen <= presses /\ heard <= presses
    /\ \A i \in DOMAIN loopQ : loopQ[i].op = "speak" => loopQ[i].press <= presses
    /\ \A i \in DOMAIN idle : idle[i].op = "key" => idle[i].press <= presses

Painted     == painting \in {"info", "flag", "display"}
LostPending == \E i \in DOMAIN idle : idle[i] = Lost
NoDisplay   == \A i \in DOMAIN loopQ : loopQ[i].op # "display"

\* The last display that is queued is the remembered line's.
LastDisplay ==
    \E i \in DOMAIN loopQ :
        /\ loopQ[i] = Display(lastLine)
        /\ \A j \in DOMAIN loopQ : loopQ[j].op = "display" => j <= i

\* Where the remembered line is: with the callback; in the last display that is
\* queued; or, with none queued, dropped or at the peer.
LineFollowed ==
    /\ Painted /\ lastLine # NoLine => line = lastLine
    /\ lastLine # NoLine /\ joining # "came" /\ ~LostPending /\ ~Painted =>
         \/ LastDisplay
         \/ NoDisplay /\ (missed \/ (link = "up" /\ peer.line = lastLine))

IInv ==
    /\ TypeOK /\ PaintsLinked /\ WindowSpoken
    /\ PressBound /\ CancelsFirst /\ LineFollowed

-----------------------------------------------------------------------------
(* Queues.                                                                     *)

\* What putting an element at the end of a queue does.
LEMMA Appended ==
    ASSUME NEW S, NEW q \in Seq(S), NEW f \in S
    PROVE  /\ Append(q, f) \in Seq(S) /\ Len(q) \in Nat
           /\ DOMAIN q = 1..Len(q) /\ DOMAIN Append(q, f) = 1..Len(q) + 1
           /\ \A i \in 1..Len(q) : Append(q, f)[i] = q[i]
           /\ Append(q, f)[Len(q) + 1] = f
  OBVIOUS

\* What taking the element at the front does.
LEMMA FrontTaken ==
    ASSUME NEW S, NEW q \in Seq(S), q # <<>>
    PROVE  /\ Head(q) = q[1] /\ q[1] \in S /\ 1 \in DOMAIN q
           /\ Tail(q) \in Seq(S) /\ Len(q) \in Nat
           /\ DOMAIN q = 1..Len(q) /\ DOMAIN Tail(q) = 1..Len(q) - 1
           /\ \A i \in DOMAIN Tail(q) : Tail(q)[i] = q[i + 1] /\ i + 1 \in DOMAIN q
  OBVIOUS

\* The frames there are.
LEMMA FrameKinds ==
    /\ Info \in Frames /\ Info.op = "info"
    /\ \A l : Display(l).op = "display" /\ Display(l).line = l
    /\ \A n : Cancel(n).op = "cancel" /\ Cancel(n).press = n
    /\ \A n : Speak(n).op = "speak" /\ Speak(n).press = n
    /\ \A n : KeyCall(n).op = "key" /\ KeyCall(n).press = n
    /\ \A l \in Shown : Display(l) \in Frames
    /\ \A n \in Presses : Cancel(n) \in Frames /\ Speak(n) \in Frames
    /\ \A f \in Frames :
          /\ f.op \in {"cancel", "speak"} => f.press \in Presses
          /\ f.op = "display" => f.line \in Shown /\ f = Display(f.line)
          /\ f.op \in {"info", "display", "cancel", "speak"}
  BY DEF Frames, Info, Display, Cancel, Speak, KeyCall

\* What queueing a frame does: it is last, or there is no transport.
LEMMA Scheduled ==
    ASSUME loopQ \in Seq(Frames), NEW f \in Frames, Schedule(f)
    PROVE  /\ loopQ' \in Seq(Frames)
           /\ \/ transport /\ loopQ' = Append(loopQ, f)
              \/ ~transport /\ loopQ' = loopQ
  BY DEF Schedule

LEMMA InitInv == Init => IInv
<1> SUFFICES ASSUME Init PROVE IInv
  OBVIOUS
<1>1. TypeOK
  <2>1. 0 \in Presses
    BY MirrorAssumption DEF Presses, MirrorAssumption
  <2>2. peer \in [size : BOOLEAN, line : Shown \cup {NoLine}]
    BY DEF Init, Ignorant
  <2>3. loopQ \in Seq(Frames) /\ idle \in Seq({Lost} \cup [op : {"key"}, press : Presses])
    BY DEF Init
  <2> QED
    BY <2>1, <2>2, <2>3 DEF Init, TypeOK
<1>2. PaintsLinked /\ WindowSpoken /\ LineFollowed
  BY DEF Init, PaintsLinked, WindowSpoken, LineFollowed, Painted
<1>3. PressBound /\ CancelsFirst
  BY DEF Init, PressBound, CancelsFirst
<1> QED
  BY <1>1, <1>2, <1>3 DEF IInv

-----------------------------------------------------------------------------
(* Types and what goes with them.                                              *)

Shape == TypeOK /\ PaintsLinked /\ WindowSpoken

LEMMA ShapeStep == Shape /\ [Next]_vars => Shape'
<1> SUFFICES ASSUME Shape, [Next]_vars PROVE Shape'
  OBVIOUS
<1> USE DEF Shape
<1>1. ASSUME NEW l \in Lines, Paint(l)
      PROVE  Shape'
  <2>1. l \in Shown
    BY <1>1 DEF Paint, Shown
  <2> QED
    BY <1>1, <2>1 DEF Paint, StepAfter, TypeOK, PaintsLinked, WindowSpoken,
                      linkVars, peerVars, speechVars
<1>2. CASE StoreLine
  BY <1>2 DEF StoreLine, StepAfter, TypeOK, PaintsLinked, WindowSpoken,
              linkVars, peerVars, speechVars
<1>3. CASE QueueInfo
  <2>1. loopQ' \in Seq(Frames)
    BY <1>3, Scheduled, FrameKinds DEF QueueInfo, TypeOK
  <2>2. painting' \in {"flag", "display"} /\ painting = "info"
    BY <1>3 DEF QueueInfo, StepAfter
  <2>3. UNCHANGED <<linkVars, peerVars, idle, lastLine, sentInfo, line, speechVars, presses>>
    BY <1>3 DEF QueueInfo
  <2> QED
    BY <2>1, <2>2, <2>3 DEF TypeOK, PaintsLinked, WindowSpoken,
                            linkVars, peerVars, speechVars
<1>4. CASE SetFlag
  BY <1>4 DEF SetFlag, StepAfter, TypeOK, PaintsLinked, WindowSpoken,
              linkVars, peerVars, speechVars
<1>5. CASE QueueDisplay
  <2>1. Display(line) \in Frames
    BY <1>5, FrameKinds DEF QueueDisplay, PaintsLinked
  <2>2. loopQ' \in Seq(Frames)
    BY <1>5, <2>1, Scheduled DEF QueueDisplay, TypeOK
  <2> QED
    BY <1>5, <2>2 DEF QueueDisplay, StepAfter, TypeOK, PaintsLinked,
                      WindowSpoken, linkVars, peerVars, speechVars
<1>6. ASSUME NEW text \in Texts, Say(text)
      PROVE  Shape'
  <2>1. Speak(seen) \in Frames /\ seen \in Presses
    BY FrameKinds DEF TypeOK
  <2>2. /\ loopQ' \in Seq(Frames) /\ spoke' = TRUE
        /\ \/ UNCHANGED <<lastSaid, window, sentFor>>
           \/ lastSaid' = text /\ window' = TRUE /\ sentFor' = seen
    BY <1>6, <2>1, Scheduled DEF Say, TypeOK
  <2>3. UNCHANGED <<linkVars, peerVars, idle, brailleVars, seen, presses>>
    BY <1>6 DEF Say
  <2>4. WindowSpoken'
    BY <2>2, Zenon DEF WindowSpoken
  <2>5. {presses', seen', sentFor', heard'} \subseteq Presses
    BY <2>1, <2>2, <2>3 DEF TypeOK, peerVars
  <2>6. lastSaid' \in Texts \cup {NoText} /\ window' \in BOOLEAN /\ spoke' \in BOOLEAN
    BY <2>2 DEF TypeOK
  <2> QED
    BY <2>2, <2>3, <2>4, <2>5, <2>6 DEF TypeOK, PaintsLinked,
                                        linkVars, peerVars, brailleVars
<1>7. CASE WindowPasses
  <2>1. WindowSpoken'
    BY <1>7, Zenon DEF WindowPasses, WindowSpoken
  <2>2. PaintsLinked'
    BY <1>7, Zenon DEF WindowPasses, PaintsLinked, linkVars, brailleVars
  <2>3. {presses', seen', sentFor', heard'} \subseteq Presses
    BY <1>7, Zenon DEF WindowPasses, TypeOK, peerVars
  <2>4. window' \in BOOLEAN
    BY <1>7, Zenon DEF WindowPasses
  <2>5. UNCHANGED <<linkVars, peerVars, loopQ, idle, brailleVars, lastSaid, seen, spoke, sentFor, presses>>
    BY <1>7, Zenon DEF WindowPasses
  <2>6. TypeOK'
    BY <2>3, <2>4, <2>5 DEF TypeOK, linkVars, peerVars, brailleVars
  <2> QED
    BY <2>1, <2>2, <2>6
<1>8. ASSUME NEW n \in 1..MaxPresses, KeySeen(n)
      PROVE  Shape'
  <2>1. n \in Presses
    BY MirrorAssumption DEF Presses, MirrorAssumption
  <2>2. /\ seen' = n /\ spoke' = FALSE /\ window' = FALSE
        /\ UNCHANGED <<linkVars, peerVars, loopQ, brailleVars, lastSaid, sentFor, presses>>
    BY <1>8 DEF KeySeen
  <2>3. idle' \in Seq({Lost} \cup [op : {"key"}, press : Presses])
    BY <1>8 DEF KeySeen, Runs, TypeOK
  <2>4. WindowSpoken'
    BY <2>2, Zenon DEF WindowSpoken
  <2>5. {presses', seen', sentFor', heard'} \subseteq Presses
    BY <2>1, <2>2 DEF TypeOK, peerVars
  <2>6. PaintsLinked'
    BY <2>2, Zenon DEF PaintsLinked, linkVars, brailleVars
  <2>7. window' \in BOOLEAN /\ spoke' \in BOOLEAN
    BY <2>2, Zenon
  <2>8. TypeOK'
    BY <2>2, <2>3, <2>5, <2>7 DEF TypeOK, linkVars, peerVars, brailleVars
  <2> QED
    BY <2>4, <2>6, <2>8
<1>9. ASSUME NEW n \in 1..MaxPresses, KeyUnseen(n)
      PROVE  Shape'
  BY <1>9 DEF KeyUnseen, Runs, TypeOK, PaintsLinked, WindowSpoken,
              linkVars, peerVars, brailleVars, speechVars
<1>10. CASE RunLost
  <2>1. idle' \in Seq({Lost} \cup [op : {"key"}, press : Presses])
    BY <1>10 DEF RunLost, Runs, TypeOK
  <2>2. /\ lastSaid' = NoText /\ lastLine' = NoLine /\ sentInfo' = FALSE
        /\ UNCHANGED <<linkVars, peerVars, loopQ, painting, line, window, seen, spoke,
                       sentFor, presses>>
    BY <1>10 DEF RunLost
  <2>3. WindowSpoken'
    BY <2>2 DEF WindowSpoken
  <2>4. PaintsLinked'
    BY <2>2, Zenon DEF PaintsLinked, linkVars
  <2>5. {presses', seen', sentFor', heard'} \subseteq Presses
    BY <2>2, Zenon DEF TypeOK, peerVars
  <2>6. sentInfo' \in BOOLEAN
    BY <2>2, Zenon
  <2>7. TypeOK'
    BY <2>1, <2>2, <2>5, <2>6 DEF TypeOK, linkVars, peerVars
  <2> QED
    BY <2>3, <2>4, <2>7
<1>11. CASE ReplaceTransport
  BY <1>11 DEF ReplaceTransport, TypeOK, PaintsLinked, WindowSpoken,
               peerVars, brailleVars, speechVars
<1>12. CASE ConnectUp
  <2>1. peer' \in [size : BOOLEAN, line : Shown \cup {NoLine}]
    <3>1. Ignorant \in [size : BOOLEAN, line : Shown \cup {NoLine}]
      BY DEF Ignorant
    <3>2. peer' = peer \/ peer' = Ignorant
      BY <1>12 DEF ConnectUp
    <3> QED
      BY <3>1, <3>2 DEF TypeOK
  <2> QED
    BY <1>12, <2>1 DEF ConnectUp, TypeOK, PaintsLinked, WindowSpoken,
                       brailleVars, speechVars
<1>13. CASE LinkLost
  BY <1>13 DEF LinkLost, TypeOK, PaintsLinked, WindowSpoken,
               peerVars, brailleVars, speechVars
<1>14. CASE PeerJoins
  BY <1>14 DEF PeerJoins, TypeOK, PaintsLinked, WindowSpoken, Ignorant,
               brailleVars, speechVars
<1>15. CASE JoinForgetsLine
  BY <1>15 DEF JoinForgetsLine, TypeOK, PaintsLinked, WindowSpoken,
               peerVars, speechVars
<1>16. CASE JoinForgetsInfo
  <2>1. /\ joining' = "no" /\ sentInfo' = FALSE
        /\ UNCHANGED <<transport, link, peerVars, loopQ, idle, lastLine, painting, line,
                       speechVars, presses>>
    BY <1>16, Zenon DEF JoinForgetsInfo
  <2>2. WindowSpoken' /\ PaintsLinked'
    BY <2>1, Zenon DEF WindowSpoken, PaintsLinked, speechVars
  <2>3. {presses', seen', sentFor', heard'} \subseteq Presses
    BY <2>1, Zenon DEF TypeOK, peerVars, speechVars
  <2>4. sentInfo' \in BOOLEAN
    BY <2>1, Zenon
  <2>5. TypeOK'
    BY <2>1, <2>3, <2>4 DEF TypeOK, peerVars, speechVars
  <2> QED
    BY <2>2, <2>5
<1>17. CASE HandleInboundKey
  <2>1. presses' \in Presses
    BY <1>17, MirrorAssumption DEF HandleInboundKey, TypeOK, Presses, MirrorAssumption
  <2>2. loopQ' \in Seq(Frames)
    BY <1>17, <2>1, Scheduled, FrameKinds DEF HandleInboundKey, TypeOK
  <2>3. idle' \in Seq({Lost} \cup [op : {"key"}, press : Presses])
    BY <1>17, <2>1 DEF HandleInboundKey, TypeOK, KeyCall
  <2>4. UNCHANGED <<linkVars, peerVars, brailleVars, speechVars>>
    BY <1>17 DEF HandleInboundKey
  <2> QED
    BY <2>1, <2>2, <2>3, <2>4 DEF TypeOK, PaintsLinked, WindowSpoken,
                                  linkVars, peerVars, brailleVars, speechVars
<1>18. CASE Send
  <2>1. PICK full \in Congestion : Delivered(Head(loopQ), link = "up" /\ ~full)
    BY <1>18 DEF Send
  <2>2. Head(loopQ) \in Frames /\ loopQ' \in Seq(Frames)
    BY <1>18, FrontTaken DEF Send, TypeOK
  <2>3. /\ peer' \in [size : BOOLEAN, line : Shown \cup {NoLine}]
        /\ missed' \in BOOLEAN /\ heard' \in Presses
    BY <2>1, <2>2, FrameKinds DEF Delivered, TypeOK
  <2>4. UNCHANGED <<linkVars, idle, brailleVars, speechVars, presses>>
    BY <1>18 DEF Send
  <2> QED
    BY <2>2, <2>3, <2>4 DEF TypeOK, PaintsLinked, WindowSpoken,
                            linkVars, brailleVars, speechVars
<1>19. CASE UNCHANGED vars
  BY <1>19 DEF vars, TypeOK, PaintsLinked, WindowSpoken,
               linkVars, peerVars, brailleVars, speechVars
<1> QED
  BY <1>1, <1>2, <1>3, <1>4, <1>5, <1>6, <1>7, <1>8, <1>9, <1>10, <1>11, <1>12, <1>13,
     <1>14, <1>15, <1>16, <1>17, <1>18, <1>19 DEF Next

-----------------------------------------------------------------------------
(* Presses and cancels.                                                        *)

KeysPast == \A i \in DOMAIN idle : idle[i].op = "key" => idle[i].press <= presses

\* Frames that cancel nothing, and are tagged with no later press, do no harm.
LEMMA PressKept ==
    ASSUME TypeOK, PressBound, CancelsFirst, UNCHANGED <<presses, heard>>,
           seen' <= presses, KeysPast', NEW f \in Frames, f.op # "cancel",
           f.op = "speak" => f.press <= presses,
           loopQ' = loopQ \/ loopQ' = Append(loopQ, f)
    PROVE  PressBound' /\ CancelsFirst'
<1>1. CASE loopQ' = loopQ
  BY <1>1 DEF PressBound, CancelsFirst, KeysPast
<1>2. CASE loopQ' = Append(loopQ, f)
  <2>1. /\ Len(loopQ) \in Nat
        /\ DOMAIN loopQ = 1..Len(loopQ) /\ DOMAIN loopQ' = 1..Len(loopQ) + 1
        /\ \A i \in 1..Len(loopQ) : loopQ'[i] = loopQ[i]
        /\ loopQ'[Len(loopQ) + 1] = f
    BY <1>2, Appended DEF TypeOK
  <2>2. \A i \in DOMAIN loopQ' : i \in DOMAIN loopQ \/ i = Len(loopQ) + 1
    BY <2>1
  <2>3. PressBound'
    BY <2>1, <2>2 DEF PressBound, KeysPast
  <2>4. CancelsFirst'
    <3> SUFFICES ASSUME NEW j \in DOMAIN loopQ', loopQ'[j].op = "cancel"
                 PROVE  /\ heard < loopQ'[j].press
                        /\ \A i \in 1..j - 1 : loopQ'[i].op = "speak" => loopQ'[i].press < loopQ'[j].press
      BY DEF CancelsFirst
    <3>1. j \in DOMAIN loopQ /\ loopQ'[j] = loopQ[j]
      BY <2>1, <2>2
    <3>2. \A i \in 1..j - 1 : i \in DOMAIN loopQ /\ loopQ'[i] = loopQ[i]
      BY <2>1, <3>1
    <3> QED
      BY <3>1, <3>2 DEF CancelsFirst
  <2> QED
    BY <2>3, <2>4
<1> QED
  BY <1>1, <1>2

\* What the idle queue loses, or gains by a lost link, holds no later press.
LEMMA KeysStayPast ==
    ASSUME TypeOK, KeysPast, UNCHANGED presses,
           \/ idle' = idle
           \/ idle # <<>> /\ idle' = Tail(idle)
           \/ idle' = Append(idle, Lost)
    PROVE  KeysPast'
<1>1. CASE idle' = idle
  BY <1>1 DEF KeysPast
<1>2. CASE idle # <<>> /\ idle' = Tail(idle)
  BY <1>2, FrontTaken DEF KeysPast, TypeOK
<1>3. CASE idle' = Append(idle, Lost)
  <2>1. Lost.op # "key"
    BY DEF Lost
  <2>2. /\ Len(idle) \in Nat
        /\ DOMAIN idle = 1..Len(idle) /\ DOMAIN idle' = 1..Len(idle) + 1
        /\ \A i \in 1..Len(idle) : idle'[i] = idle[i]
        /\ idle'[Len(idle) + 1] = Lost
    BY <1>3, Appended DEF TypeOK
  <2>3. ASSUME NEW i \in DOMAIN idle'
        PROVE  i \in DOMAIN idle \/ i = Len(idle) + 1
    <3>1. i \in 1..Len(idle) + 1 /\ Len(idle) \in Nat
      BY <2>2
    <3>2. i \in 1..Len(idle) \/ i = Len(idle) + 1
      BY <3>1
    <3> QED
      BY <2>2, <3>2
  <2>4. ASSUME NEW i \in DOMAIN idle', idle'[i].op = "key"
        PROVE  idle'[i].press <= presses
    <3>1. i \in DOMAIN idle /\ idle'[i] = idle[i]
      BY <2>1, <2>2, <2>3, <2>4
    <3> QED
      BY <2>4, <3>1 DEF KeysPast
  <2> QED
    BY <2>4 DEF KeysPast
<1> QED
  BY <1>1, <1>2, <1>3

\* The press that is taken off the queue is past.
LEMMA RunsPast ==
    ASSUME TypeOK, KeysPast, NEW n, Runs(KeyCall(n))
    PROVE  n <= presses /\ idle # <<>> /\ idle' = Tail(idle)
<1>1. idle # <<>> /\ idle' = Tail(idle) /\ idle[1] = KeyCall(n) /\ 1 \in DOMAIN idle
  BY FrontTaken DEF Runs, TypeOK
<1> QED
  BY <1>1, FrameKinds DEF KeysPast

LEMMA PressStep ==
    TypeOK /\ PaintsLinked /\ PressBound /\ CancelsFirst /\ [Next]_vars
        => PressBound' /\ CancelsFirst'
<1> SUFFICES ASSUME TypeOK, PaintsLinked, PressBound, CancelsFirst, [Next]_vars
             PROVE  PressBound' /\ CancelsFirst'
  OBVIOUS
<1>1. KeysPast /\ seen <= presses /\ presses \in Nat
  BY MirrorAssumption DEF KeysPast, PressBound, TypeOK, Presses, MirrorAssumption
<1>2. ASSUME UNCHANGED <<presses, heard, seen, loopQ>>,
             \/ idle' = idle
             \/ idle # <<>> /\ idle' = Tail(idle)
             \/ idle' = Append(idle, Lost)
      PROVE  PressBound' /\ CancelsFirst'
  <2>1. Info.op = "info" /\ Info \in Frames
    BY FrameKinds
  <2>2. KeysPast'
    BY <1>1, <1>2, KeysStayPast
  <2> QED
    BY <1>1, <1>2, <2>1, <2>2, PressKept
<1>3. ASSUME NEW l \in Lines, Paint(l)
      PROVE  PressBound' /\ CancelsFirst'
  BY <1>2, <1>3 DEF Paint, peerVars, speechVars
<1>4. CASE QueueInfo
  <2>1. UNCHANGED <<presses, heard, seen, idle>>
    BY <1>4 DEF QueueInfo, peerVars, speechVars
  <2>2. loopQ' = loopQ \/ loopQ' = Append(loopQ, Info)
    BY <1>4 DEF QueueInfo, Schedule
  <2>3. Info.op = "info" /\ Info \in Frames /\ KeysPast'
    BY <1>1, <2>1, FrameKinds, KeysStayPast
  <2> QED
    BY <1>1, <2>1, <2>2, <2>3, PressKept
<1>5. CASE QueueDisplay
  <2>1. UNCHANGED <<presses, heard, seen, idle>>
    BY <1>5 DEF QueueDisplay, peerVars, speechVars
  <2>2. loopQ' = loopQ \/ loopQ' = Append(loopQ, Display(line))
    BY <1>5 DEF QueueDisplay, Schedule
  <2>3. Display(line).op = "display" /\ Display(line) \in Frames /\ KeysPast'
    BY <1>1, <1>5, <2>1, FrameKinds, KeysStayPast DEF QueueDisplay, PaintsLinked
  <2> QED
    BY <1>1, <2>1, <2>2, <2>3, PressKept
<1>6. ASSUME NEW text \in Texts, Say(text)
      PROVE  PressBound' /\ CancelsFirst'
  <2>1. UNCHANGED <<presses, heard, seen, idle>>
    BY <1>6 DEF Say, peerVars
  <2>2. loopQ' = loopQ \/ loopQ' = Append(loopQ, Speak(seen))
    BY <1>6 DEF Say, Schedule
  <2>3. /\ Speak(seen).op = "speak" /\ Speak(seen).press = seen /\ Speak(seen) \in Frames
        /\ KeysPast'
    BY <1>1, <2>1, FrameKinds, KeysStayPast DEF TypeOK
  <2> QED
    BY <1>1, <2>1, <2>2, <2>3, PressKept
<1>7. ASSUME NEW n \in 1..MaxPresses, KeySeen(n)
      PROVE  PressBound' /\ CancelsFirst'
  <2>1. seen' = n /\ UNCHANGED <<presses, heard, loopQ>> /\ Runs(KeyCall(n))
    BY <1>7 DEF KeySeen, peerVars
  <2>2. n <= presses /\ KeysPast'
    BY <1>1, <2>1, RunsPast, KeysStayPast
  <2>3. Info.op = "info" /\ Info \in Frames
    BY FrameKinds
  <2> QED
    BY <2>1, <2>2, <2>3, PressKept
<1>8. ASSUME NEW n \in 1..MaxPresses, KeyUnseen(n)
      PROVE  PressBound' /\ CancelsFirst'
  BY <1>2, <1>8 DEF KeyUnseen, Runs, peerVars, speechVars
<1>9. CASE RunLost
  BY <1>2, <1>9 DEF RunLost, Runs, peerVars
<1>10. CASE LinkLost
  BY <1>2, <1>10 DEF LinkLost, peerVars, speechVars
<1>11. CASE HandleInboundKey
  <2>1. /\ presses' = presses + 1 /\ presses' \in Presses
        /\ UNCHANGED <<heard, seen>> /\ Schedule(Cancel(presses'))
        /\ idle' = Append(idle, KeyCall(presses'))
    BY <1>11, MirrorAssumption
       DEF HandleInboundKey, peerVars, speechVars, TypeOK, Presses, MirrorAssumption
  <2> DEFINE k == KeyCall(presses')
             f == Cancel(presses')
  <2>2. /\ k \in [op : {"key"}, press : Presses] /\ k.press = presses'
        /\ f \in Frames /\ f.op = "cancel" /\ f.press = presses'
    BY <2>1, FrameKinds DEF KeyCall
  <2>3. loopQ' = loopQ \/ loopQ' = Append(loopQ, f)
    BY <2>1 DEF Schedule
  <2>4. idle' = Append(idle, k)
    BY <2>1
  <2> HIDE DEF k, f
  <2>5. /\ Len(loopQ) \in Nat /\ DOMAIN loopQ = 1..Len(loopQ)
        /\ \/ DOMAIN loopQ' = 1..Len(loopQ)
           \/ DOMAIN loopQ' = 1..Len(loopQ) + 1 /\ loopQ'[Len(loopQ) + 1] = f
        /\ \A i \in 1..Len(loopQ) : loopQ'[i] = loopQ[i]
    BY <2>2, <2>3, Appended DEF TypeOK
  <2>6. KeysPast'
    <3>1. /\ Len(idle) \in Nat
          /\ DOMAIN idle = 1..Len(idle) /\ DOMAIN idle' = 1..Len(idle) + 1
          /\ \A i \in 1..Len(idle) : idle'[i] = idle[i]
          /\ idle'[Len(idle) + 1] = k
      BY <2>2, <2>4, Appended DEF TypeOK
    <3>2. \A i \in DOMAIN idle' : i \in DOMAIN idle \/ i = Len(idle) + 1
      BY <3>1
    <3>3. \A i \in DOMAIN idle : idle[i].op = "key" => idle[i].press \in Nat
      BY MirrorAssumption DEF TypeOK, Presses, MirrorAssumption, Lost
    <3> QED
      BY <1>1, <2>1, <2>2, <3>1, <3>2, <3>3 DEF KeysPast
  <2>7. \A i \in DOMAIN loopQ : loopQ[i].op = "speak" => loopQ[i].press \in Nat /\ loopQ[i].press < presses'
    BY <1>1, <2>1, FrameKinds DEF PressBound, TypeOK, Presses
  <2>8. heard \in Nat /\ seen \in Nat /\ heard < presses' /\ seen < presses'
    BY <1>1, <2>1 DEF PressBound, TypeOK, Presses
  <2>9. \A i \in DOMAIN loopQ' : i \in DOMAIN loopQ \/ (i = Len(loopQ) + 1 /\ loopQ'[i] = f)
    BY <2>5
  <2>10. PressBound'
    BY SMTT(30), <2>1, <2>2, <2>5, <2>6, <2>7, <2>8, <2>9 DEF PressBound, KeysPast
  <2>11. CancelsFirst'
    <3> SUFFICES ASSUME NEW j \in DOMAIN loopQ', loopQ'[j].op = "cancel"
                 PROVE  /\ heard < loopQ'[j].press
                        /\ \A i \in 1..j - 1 : loopQ'[i].op = "speak" => loopQ'[i].press < loopQ'[j].press
      BY <2>1 DEF CancelsFirst
    <3>1. \A i \in 1..j - 1 : i \in DOMAIN loopQ /\ loopQ'[i] = loopQ[i]
      BY <2>5
    <3>2. CASE j \in DOMAIN loopQ
      <4>1. loopQ'[j] = loopQ[j]
        BY <2>5, <3>2
      <4> QED
        BY <3>1, <3>2, <4>1 DEF CancelsFirst
    <3>3. CASE j = Len(loopQ) + 1 /\ loopQ'[j] = f
      BY <2>2, <2>7, <2>8, <3>1, <3>3
    <3> QED
      BY <2>9, <3>2, <3>3
  <2> QED
    BY <2>10, <2>11
<1>12. CASE Send
  <2>1. PICK full \in Congestion : Delivered(Head(loopQ), link = "up" /\ ~full)
    BY <1>12 DEF Send
  <2>2. /\ loopQ # <<>> /\ loopQ' = Tail(loopQ)
        /\ UNCHANGED <<presses, seen, idle>>
    BY <1>12 DEF Send, speechVars
  <2>3. /\ Head(loopQ) = loopQ[1] /\ 1 \in DOMAIN loopQ /\ Len(loopQ) \in Nat
        /\ DOMAIN loopQ = 1..Len(loopQ) /\ DOMAIN loopQ' = 1..Len(loopQ) - 1
        /\ \A i \in DOMAIN loopQ' : loopQ'[i] = loopQ[i + 1] /\ i + 1 \in DOMAIN loopQ
    BY <2>2, FrontTaken DEF TypeOK
  <2>4. heard' = heard \/ (loopQ[1].op = "speak" /\ heard' = loopQ[1].press)
    BY <2>1, <2>3 DEF Delivered
  <2>5. PressBound'
    BY <2>2, <2>3, <2>4 DEF PressBound
  <2>6. CancelsFirst'
    <3> SUFFICES ASSUME NEW j \in DOMAIN loopQ', loopQ'[j].op = "cancel"
                 PROVE  /\ heard' < loopQ'[j].press
                        /\ \A i \in 1..j - 1 : loopQ'[i].op = "speak" => loopQ'[i].press < loopQ'[j].press
      BY DEF CancelsFirst
    <3>1. /\ loopQ'[j] = loopQ[j + 1] /\ j + 1 \in DOMAIN loopQ
          /\ 1 \in 1..(j + 1) - 1
          /\ \A i \in 1..j - 1 : i + 1 \in 1..(j + 1) - 1 /\ loopQ'[i] = loopQ[i + 1]
      BY <2>3
    <3> QED
      BY <2>4, <3>1 DEF CancelsFirst
  <2> QED
    BY <2>5, <2>6
<1>13. CASE StoreLine
  BY <1>2, <1>13 DEF StoreLine, peerVars, speechVars
<1>14. CASE SetFlag
  BY <1>2, <1>14 DEF SetFlag, peerVars, speechVars
<1>15. CASE WindowPasses
  BY <1>2, <1>15 DEF WindowPasses, peerVars
<1>16. CASE ReplaceTransport
  BY <1>2, <1>16 DEF ReplaceTransport, peerVars, speechVars
<1>17. CASE ConnectUp \/ PeerJoins
  BY <1>2, <1>17 DEF ConnectUp, PeerJoins, speechVars
<1>18. CASE JoinForgetsLine \/ JoinForgetsInfo
  BY <1>2, <1>18 DEF JoinForgetsLine, JoinForgetsInfo, peerVars, speechVars
<1>19. CASE UNCHANGED vars
  BY <1>2, <1>19 DEF vars, peerVars, speechVars
<1> QED
  BY <1>3, <1>4, <1>5, <1>6, <1>7, <1>8, <1>9, <1>10, <1>11, <1>12, <1>13,
     <1>14, <1>15, <1>16, <1>17, <1>18, <1>19 DEF Next

-----------------------------------------------------------------------------
(* The remembered line.                                                        *)

\* A step that changes nothing of where the line is, or excuses more.
LEMMA LineKept ==
    ASSUME LineFollowed, UNCHANGED <<lastLine, loopQ, missed>>,
           \/ UNCHANGED <<painting, line>>
           \/ ~Painted /\ ~Painted'
           \/ Painted /\ Painted' /\ UNCHANGED line,
           LostPending => LostPending', joining = "came" => joining' = "came" \/ LostPending',
           \/ link' = link /\ peer' = peer
           \/ link' = "up" /\ link = "down"
           \/ LostPending' \/ joining' = "came"
    PROVE  LineFollowed'
  BY DEF LineFollowed, LastDisplay, NoDisplay, Painted, LostPending, Display

\* A frame that is not a display does not hide the last display.
LEMMA LineBehind ==
    ASSUME TypeOK, LineFollowed, UNCHANGED <<lastLine, missed, link, peer, joining, line>>,
           Painted' = Painted, LostPending => LostPending',
           NEW f \in Frames, f.op # "display",
           loopQ' = loopQ \/ loopQ' = Append(loopQ, f)
    PROVE  LineFollowed'
<1>1. CASE loopQ' = loopQ
  BY <1>1 DEF LineFollowed, LastDisplay, NoDisplay, Display
<1>2. CASE loopQ' = Append(loopQ, f)
  <2>1. /\ Len(loopQ) \in Nat
        /\ DOMAIN loopQ = 1..Len(loopQ) /\ DOMAIN loopQ' = 1..Len(loopQ) + 1
        /\ \A i \in 1..Len(loopQ) : loopQ'[i] = loopQ[i]
        /\ loopQ'[Len(loopQ) + 1] = f
    BY <1>2, Appended DEF TypeOK
  <2>2. \A i \in DOMAIN loopQ' : loopQ'[i].op = "display" =>
           i \in DOMAIN loopQ /\ loopQ[i].op = "display"
    BY <2>1
  <2>3. NoDisplay => NoDisplay'
    BY <2>2 DEF NoDisplay
  <2>4. LastDisplay => LastDisplay'
    BY <2>1, <2>2 DEF LastDisplay, Display
  <2> QED
    BY <2>3, <2>4 DEF LineFollowed
<1> QED
  BY <1>1, <1>2

\* A queue that loses its head, which is no lost link, still holds those it held.
LEMMA LostStays ==
    ASSUME TypeOK, NEW c, Runs(c), c # Lost
    PROVE  LostPending => LostPending'
<1> SUFFICES ASSUME LostPending PROVE LostPending'
  OBVIOUS
<1>1. PICK i \in DOMAIN idle : idle[i] = Lost
  BY DEF LostPending
<1>2. /\ idle # <<>> /\ idle' = Tail(idle) /\ idle[1] = c
      /\ Len(idle) \in Nat /\ DOMAIN idle = 1..Len(idle)
      /\ DOMAIN idle' = 1..Len(idle) - 1
      /\ \A j \in DOMAIN idle' : idle'[j] = idle[j + 1]
  BY FrontTaken DEF Runs, TypeOK
<1>3. i # 1
  BY <1>1, <1>2
<1>4. i - 1 \in DOMAIN idle' /\ (i - 1) + 1 = i
  BY <1>2, <1>3
<1> QED
  BY <1>1, <1>2, <1>4 DEF LostPending

\* A lost link that was pending still is when more is queued.
LEMMA LostAppended ==
    ASSUME TypeOK, NEW c \in {Lost} \cup [op : {"key"}, press : Presses],
           idle' = Append(idle, c)
    PROVE  (LostPending => LostPending') /\ (c = Lost => LostPending')
<1>1. /\ Len(idle) \in Nat
      /\ DOMAIN idle = 1..Len(idle) /\ DOMAIN idle' = 1..Len(idle) + 1
      /\ \A i \in 1..Len(idle) : idle'[i] = idle[i]
      /\ idle'[Len(idle) + 1] = c
  BY Appended DEF TypeOK
<1> QED
  BY <1>1 DEF LostPending

LEMMA LineStep == Shape /\ LineFollowed /\ [Next]_vars => LineFollowed'
<1> SUFFICES ASSUME Shape, LineFollowed, [Next]_vars PROVE LineFollowed'
  OBVIOUS
<1> USE DEF Shape
<1>1. ASSUME UNCHANGED <<lastLine, loopQ, missed, painting, line, idle, link, peer, joining>>
      PROVE  LineFollowed'
  BY <1>1, LineKept DEF LostPending
<1>2. ASSUME NEW l \in Lines, Paint(l)
      PROVE  LineFollowed'
  <2>1. ~Painted /\ ~Painted'
    BY <1>2 DEF Paint, Painted, StepAfter
  <2>2. UNCHANGED <<lastLine, loopQ, missed, link, peer, joining, idle>>
    BY <1>2 DEF Paint, linkVars, peerVars
  <2>3. LostPending => LostPending'
    BY <2>2 DEF LostPending
  <2> QED
    BY <2>1, <2>2, <2>3, LineKept
<1>3. CASE StoreLine
  BY <1>3 DEF StoreLine, StepAfter, LineFollowed, Painted
<1>4. CASE QueueInfo
  <2>1. Painted /\ Painted'
    BY <1>4 DEF QueueInfo, StepAfter, Painted
  <2>2. UNCHANGED <<lastLine, missed, link, peer, joining, line, idle>>
    BY <1>4 DEF QueueInfo, linkVars, peerVars
  <2>3. loopQ' = loopQ \/ loopQ' = Append(loopQ, Info)
    BY <1>4 DEF QueueInfo, Schedule
  <2>4. (LostPending => LostPending') /\ Painted' = Painted
    BY <2>1, <2>2 DEF LostPending
  <2> QED
    BY <2>2, <2>3, <2>4, FrameKinds, LineBehind
<1>5. CASE SetFlag
  <2>1. Painted /\ Painted'
    BY <1>5 DEF SetFlag, StepAfter, Painted
  <2>2. UNCHANGED <<lastLine, loopQ, missed, link, peer, joining, line, idle>>
    BY <1>5 DEF SetFlag, linkVars, peerVars
  <2>3. LostPending => LostPending'
    BY <2>2 DEF LostPending
  <2> QED
    BY <2>1, <2>2, <2>3, LineKept
<1>6. CASE QueueDisplay
  <2>1. painting = "display" /\ painting' = "no" /\ Schedule(Display(line))
        /\ UNCHANGED <<lastLine, line>>
    BY <1>6 DEF QueueDisplay, StepAfter
  <2>2. Display(line) \in Frames /\ transport
    BY <2>1, FrameKinds DEF PaintsLinked
  <2>3. loopQ' = Append(loopQ, Display(line))
    BY <2>1, <2>2 DEF Schedule
  <2>4. lastLine # NoLine => line = lastLine
    BY <2>1 DEF LineFollowed, Painted
  <2>5. /\ Len(loopQ) \in Nat /\ DOMAIN loopQ' = 1..Len(loopQ) + 1
        /\ loopQ'[Len(loopQ) + 1] = Display(line)
    BY <2>2, <2>3, Appended DEF TypeOK
  <2>6. Len(loopQ) + 1 \in DOMAIN loopQ' /\ \A j \in DOMAIN loopQ' : j <= Len(loopQ) + 1
    BY <2>5
  <2>7. lastLine # NoLine => LastDisplay'
    BY <2>1, <2>4, <2>5, <2>6 DEF LastDisplay
  <2> QED
    BY <2>1, <2>7 DEF LineFollowed, Painted
<1>7. ASSUME NEW text \in Texts, Say(text)
      PROVE  LineFollowed'
  <2>1. UNCHANGED <<lastLine, missed, link, peer, joining, line, idle, painting>>
    BY <1>7 DEF Say, linkVars, peerVars, brailleVars
  <2>2. loopQ' = loopQ \/ loopQ' = Append(loopQ, Speak(seen))
    BY <1>7 DEF Say, Schedule
  <2>3. Speak(seen) \in Frames /\ Speak(seen).op # "display"
    BY FrameKinds DEF TypeOK
  <2>4. (LostPending => LostPending') /\ Painted' = Painted
    BY <2>1 DEF LostPending, Painted
  <2> QED
    BY <2>1, <2>2, <2>3, <2>4, LineBehind
<1>8. CASE WindowPasses
  BY <1>1, <1>8 DEF WindowPasses, linkVars, peerVars, brailleVars
<1>9. ASSUME NEW n \in 1..MaxPresses, KeySeen(n) \/ KeyUnseen(n)
      PROVE  LineFollowed'
  <2>1. UNCHANGED <<lastLine, loopQ, missed, painting, line, link, peer, joining>>
    BY <1>9 DEF KeySeen, KeyUnseen, linkVars, peerVars, brailleVars
  <2>2. Runs(KeyCall(n)) /\ KeyCall(n) # Lost
    BY <1>9 DEF KeySeen, KeyUnseen, KeyCall, Lost
  <2>3. LostPending => LostPending'
    BY <2>2, LostStays
  <2> QED
    BY <2>1, <2>3, LineKept
<1>10. CASE RunLost
  BY <1>10 DEF RunLost, LineFollowed
<1>11. CASE ReplaceTransport
  BY <1>1, <1>11 DEF ReplaceTransport, peerVars, brailleVars
<1>12. CASE ConnectUp
  <2>1. /\ UNCHANGED <<lastLine, loopQ, missed, painting, line, idle, joining>>
        /\ link' = "up" /\ link = "down"
    BY <1>12 DEF ConnectUp, brailleVars
  <2>2. LostPending => LostPending'
    BY <2>1 DEF LostPending
  <2> QED
    BY <2>1, <2>2, LineKept
<1>13. CASE LinkLost
  <2>1. UNCHANGED <<lastLine, loopQ, missed, painting, line>> /\ idle' = Append(idle, Lost)
    BY <1>13 DEF LinkLost, peerVars, brailleVars
  <2>2. LostPending'
    BY <2>1, LostAppended
  <2> QED
    BY <2>1, <2>2, LineKept
<1>14. CASE PeerJoins
  <2>1. /\ UNCHANGED <<lastLine, loopQ, missed, painting, line, idle>>
        /\ joining' = "came"
    BY <1>14 DEF PeerJoins, brailleVars
  <2>2. LostPending => LostPending'
    BY <2>1 DEF LostPending
  <2> QED
    BY <2>1, <2>2, LineKept
<1>15. CASE JoinForgetsLine
  BY <1>15 DEF JoinForgetsLine, LineFollowed
<1>16. CASE JoinForgetsInfo
  <2>1. /\ UNCHANGED <<lastLine, loopQ, missed, painting, line, idle, link, peer>>
        /\ joining = "half"
    BY <1>16 DEF JoinForgetsInfo, peerVars
  <2>2. LostPending => LostPending'
    BY <2>1 DEF LostPending
  <2> QED
    BY <2>1, <2>2, LineKept
<1>17. CASE HandleInboundKey
  <2>1. /\ UNCHANGED <<lastLine, missed, link, peer, joining, line, painting>>
        /\ presses' \in Presses /\ idle' = Append(idle, KeyCall(presses'))
    BY <1>17, MirrorAssumption
       DEF HandleInboundKey, linkVars, peerVars, brailleVars, TypeOK, Presses, MirrorAssumption
  <2>2. loopQ' = loopQ \/ loopQ' = Append(loopQ, Cancel(presses'))
    BY <1>17 DEF HandleInboundKey, Schedule
  <2>3. Cancel(presses') \in Frames /\ Cancel(presses').op # "display"
    BY <2>1, FrameKinds
  <2>4. KeyCall(presses') \in [op : {"key"}, press : Presses]
    BY <2>1 DEF KeyCall
  <2>5. (LostPending => LostPending') /\ Painted' = Painted
    BY <2>1, <2>4, LostAppended DEF Painted
  <2> QED
    BY <2>1, <2>2, <2>3, <2>5, LineBehind
<1>18. CASE Send
  <2>1. PICK full \in Congestion : Delivered(Head(loopQ), link = "up" /\ ~full)
    BY <1>18 DEF Send
  <2>2. /\ loopQ # <<>> /\ loopQ' = Tail(loopQ)
        /\ UNCHANGED <<idle, lastLine, line, painting, link, joining>>
    BY <1>18 DEF Send, linkVars, brailleVars
  <2> DEFINE f == loopQ[1]
  <2>3. /\ Head(loopQ) = f /\ f \in Frames /\ 1 \in DOMAIN loopQ /\ Len(loopQ) \in Nat
        /\ DOMAIN loopQ = 1..Len(loopQ) /\ DOMAIN loopQ' = 1..Len(loopQ) - 1
        /\ \A i \in DOMAIN loopQ' : loopQ'[i] = loopQ[i + 1] /\ i + 1 \in DOMAIN loopQ
    BY <2>2, FrontTaken DEF TypeOK
  <2> HIDE DEF f
  <2>4. f.op # "display" => missed' = missed /\ peer'.line = peer.line
    BY <2>1, <2>3 DEF Delivered, TypeOK
  <2>5. f.op = "display" => missed' \/ (link = "up" /\ peer'.line = f.line)
    BY <2>1, <2>3 DEF Delivered, TypeOK
  <2>6. CASE Painted \/ lastLine = NoLine \/ joining = "came" \/ LostPending
    BY <2>2, <2>6 DEF LineFollowed, Painted, LostPending
  <2>7. CASE NoDisplay /\ (missed \/ (link = "up" /\ peer.line = lastLine))
    <3>1. f.op # "display"
      BY <2>3, <2>7 DEF NoDisplay, f
    <3>2. NoDisplay'
      BY <2>3, <2>7 DEF NoDisplay
    <3> QED
      BY <2>2, <2>4, <2>7, <3>1, <3>2 DEF LineFollowed, Painted
  <2>8. ASSUME NEW i \in DOMAIN loopQ, loopQ[i] = Display(lastLine),
               \A j \in DOMAIN loopQ : loopQ[j].op = "display" => j <= i
        PROVE  LineFollowed'
    <3>1. CASE i = 1
      <4>1. f.op = "display" /\ f.line = lastLine
        BY <2>8, <3>1, FrameKinds DEF f
      <4>2. NoDisplay'
        <5>1. \A j \in DOMAIN loopQ' : ~(j + 1 <= 1)
          BY <2>3
        <5> QED
          BY <2>3, <2>8, <3>1, <5>1 DEF NoDisplay
      <4> QED
        BY <2>2, <2>5, <4>1, <4>2 DEF LineFollowed, Painted
    <3>2. CASE i # 1
      <4>1. i - 1 \in DOMAIN loopQ' /\ (i - 1) + 1 = i
        BY <2>3, <3>2
      <4>2. loopQ'[i - 1] = Display(lastLine)
        BY <2>3, <2>8, <4>1
      <4>3. \A j \in DOMAIN loopQ' : loopQ'[j].op = "display" => j <= i - 1
        BY <2>3, <2>8, <4>1
      <4>4. LastDisplay'
        BY <2>2, <4>1, <4>2, <4>3 DEF LastDisplay, Display
      <4> QED
        BY <2>2, <4>4 DEF LineFollowed, Painted
    <3> QED
      BY <3>1, <3>2
  <2> QED
    BY <2>6, <2>7, <2>8 DEF LineFollowed, LastDisplay
<1>19. CASE UNCHANGED vars
  BY <1>1, <1>19 DEF vars, linkVars, peerVars, brailleVars
<1> QED
  BY <1>2, <1>3, <1>4, <1>5, <1>6, <1>7, <1>8, <1>9, <1>10, <1>11, <1>12, <1>13,
     <1>14, <1>15, <1>16, <1>17, <1>18, <1>19 DEF Next

LEMMA StepInv == IInv /\ [Next]_vars => IInv'
  BY ShapeStep, PressStep, LineStep DEF IInv, Shape

-----------------------------------------------------------------------------
\* The state is of the declared types.
THEOREM TypeCorrect == Spec => []TypeOK
<1>1. IInv => TypeOK
  BY DEF IInv
<1> QED
  BY <1>1, InitInv, StepInv, PTL DEF Spec

\* However key presses, speech, a full buffer and replaced transports interleave,
\* the cancel for a key goes ahead of what that key makes Orca say.
THEOREM CancelsGoFirst == Spec => []CancelsFirst
<1>1. IInv => CancelsFirst
  BY DEF IInv
<1> QED
  BY <1>1, InitInv, StepInv, PTL DEF Spec

\* Wherever a master's join or a lost link cuts into the braille callback, a line
\* that repeats would be left out for is on its way, dropped or shown.
THEOREM RepeatsShown == Spec => []RepeatsAreShown
<1>1. IInv => RepeatsAreShown
  BY DEF IInv, LineFollowed, RepeatsAreShown, LineUnderway, LastDisplay, Painted, LostPending,
         TypeOK
<1> QED
  BY <1>1, InitInv, StepInv, PTL DEF Spec

\* The first utterance after a press is never taken for a repeat: the window that
\* would drop it closed with the press.
LEMMA FirstIsSent == IInv /\ [Next]_vars => (spoke' /\ ~spoke /\ transport => sentFor' = seen)
<1> SUFFICES ASSUME IInv, [Next]_vars, spoke', ~spoke, transport
             PROVE  sentFor' = seen
  OBVIOUS
<1>1. ~window
  BY DEF IInv, WindowSpoken
<1>2. ASSUME NEW text \in Texts, Say(text)
      PROVE  sentFor' = seen
  BY <1>1, <1>2 DEF Say
<1>3. CASE \E text \in Texts : Say(text)
  BY <1>2, <1>3
<1>4. CASE ~\E text \in Texts : Say(text)
  <2>1. (\E n \in 1..MaxPresses : KeySeen(n)) \/ spoke' = spoke
    BY <1>4 DEF Next, vars, speechVars, Paint, StoreLine, QueueInfo, SetFlag, QueueDisplay,
                WindowPasses, KeyUnseen, RunLost, ReplaceTransport, ConnectUp, LinkLost,
                PeerJoins, JoinForgetsLine, JoinForgetsInfo, HandleInboundKey, Send
  <2>2. \A n \in 1..MaxPresses : KeySeen(n) => spoke' = FALSE
    BY DEF KeySeen
  <2> QED
    BY <2>1, <2>2
<1> QED
  BY <1>3, <1>4

\* What Orca says first after a key is sent to the masters.
THEOREM KeysGetAnswers == Spec => KeysAreAnswered
<1>1. IInv /\ [Next]_vars => [spoke' /\ ~spoke /\ transport => sentFor' = seen]_vars
  BY FirstIsSent
<1> QED
  BY <1>1, InitInv, StepInv, PTL DEF Spec, KeysAreAnswered
=============================================================================
