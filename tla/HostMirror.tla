----------------------------- MODULE HostMirror -----------------------------
(***************************************************************************)
(* What the controlled machine sends back (remote.py, role "host"): its      *)
(* speech, its braille line, and a cancel for every key pressed by the       *)
(* master.  Orca speaks and paints on the GLib thread; frames are queued     *)
(* there for the loop thread, which sends them, reads what peers do, and     *)
(* shares the braille bookkeeping with the GLib thread without a lock.  So   *)
(* the braille callback and the client_joined handler are cut at every       *)
(* access to what they share.                                               *)
(*                                                                         *)
(* peer is the least informed of the masters in the channel.  A key press   *)
(* is a number; what Orca says is tagged with the last press it has seen.   *)
(***************************************************************************)
EXTENDS Naturals, Sequences

CONSTANTS Lines, Blank, NoLine,   \* braille lines, the empty one, and ("", -2)
          Texts, NoText,          \* utterances, and ""
          Congestion,             \* whether the write buffer may be full
          MaxQueue, MaxIdle, MaxPresses   \* bounds on pending work and on keys

ASSUME MirrorAssumption ==
    /\ Blank \in Lines /\ NoLine \notin Lines /\ NoText \notin Texts
    /\ Congestion \subseteq BOOLEAN
    /\ MaxQueue \in Nat /\ MaxIdle \in Nat /\ MaxPresses \in Nat

VARIABLES transport,   \* _transport is not None
          link,        \* "up" while there is a writer
          joining,     \* client_joined: "no", "came", "half" handled
          peer,        \* what the peer was told: braille size and line
          loopQ,       \* frames queued for the loop thread
          idle,        \* idle callbacks: keys to inject, links lost
          lastLine,    \* _last_outbound_braille
          sentInfo,    \* _sent_braille_info
          painting,    \* the next step of the braille callback
          line,        \* ... and its line
          missed,      \* the last braille line to be sent was dropped
          lastSaid,    \* _last_outbound_speech
          window,      \* it was said within _SPEECH_DEDUPE_SECONDS
          presses,     \* key presses received
          seen,        \* the last one Orca saw
          spoke,       \* Orca spoke since
          sentFor,     \* press for which an utterance was last queued
          heard        \* press for which the peer last heard one

brailleVars == <<lastLine, sentInfo, painting, line>>
speechVars  == <<lastSaid, window, seen, spoke, sentFor>>
peerVars    == <<peer, missed, heard>>
linkVars    == <<transport, link, joining>>
vars == <<linkVars, peerVars, loopQ, idle, brailleVars, speechVars, presses>>

Info       == [op |-> "info"]
Display(l) == [op |-> "display", line |-> l]
Cancel(n)  == [op |-> "cancel", press |-> n]
Speak(n)   == [op |-> "speak", press |-> n]
KeyCall(n) == [op |-> "key", press |-> n]
Lost       == [op |-> "lost"]
Ignorant   == [size |-> FALSE, line |-> NoLine]

Init ==
    /\ transport = TRUE /\ link = "down" /\ joining = "no"
    /\ peer = Ignorant /\ missed = FALSE /\ heard = 0
    /\ loopQ = <<>> /\ idle = <<>>
    /\ lastLine = NoLine /\ sentInfo = FALSE /\ painting = "no" /\ line = NoLine
    /\ lastSaid = NoText /\ window = FALSE /\ presses = 0
    /\ seen = 0 /\ spoke = FALSE /\ sentFor = 0

\* _schedule_send: without a transport the frame is dropped.
Schedule(f) ==
    IF transport THEN Len(loopQ) < MaxQueue /\ loopQ' = Append(loopQ, f)
                 ELSE UNCHANGED loopQ

-----------------------------------------------------------------------------
(* The GLib thread: _on_braille_emitted, a step at a time.                  *)

\* Bug: the line is remembered after it was queued.
QueuesFirst(step) ==
    CASE step = "no" -> "info" [] step = "info" -> "flag" [] step = "flag" -> "display"
      [] step = "display" -> "store" [] OTHER -> "no"

\* The steps: remember the line; queue the dimensions, unless they were sent;
\* remember that; queue the line.
StepAfter(step) ==
    CASE step = "no" -> "store" [] step = "store" -> "info" [] step = "info" -> "flag"
      [] step = "flag" -> "display" [] OTHER -> "no"

\* Orca paints line l; lines without cells and repeats are left out.
Paint(l) ==
    /\ painting = "no" /\ transport /\ l # Blank /\ l # lastLine
    /\ painting' = StepAfter("no") /\ line' = l
    /\ UNCHANGED <<linkVars, peerVars, loopQ, idle, lastLine, sentInfo, speechVars, presses>>

StoreLine ==
    /\ painting = "store" /\ painting' = StepAfter("store")
    /\ lastLine' = line
    /\ UNCHANGED <<linkVars, peerVars, loopQ, idle, sentInfo, line, speechVars, presses>>

QueueInfo ==
    /\ painting = "info"
    /\ IF sentInfo THEN painting' = StepAfter("flag") /\ UNCHANGED loopQ
                   ELSE painting' = StepAfter("info") /\ Schedule(Info)
    /\ UNCHANGED <<linkVars, peerVars, idle, lastLine, sentInfo, line, speechVars, presses>>

SetFlag ==
    /\ painting = "flag" /\ painting' = StepAfter("flag")
    /\ sentInfo' = TRUE
    /\ UNCHANGED <<linkVars, peerVars, loopQ, idle, lastLine, line, speechVars, presses>>

QueueDisplay ==
    /\ painting = "display" /\ painting' = StepAfter("display")
    /\ Schedule(Display(line))
    /\ UNCHANGED <<linkVars, peerVars, idle, lastLine, sentInfo, line, speechVars, presses>>

-----------------------------------------------------------------------------
(* The GLib thread: speech, idle callbacks and the user's commands.         *)

\* _on_speech_emitted: a repeat within the window is dropped.
Say(text) ==
    /\ painting = "no"
    /\ spoke' = TRUE
    /\ IF ~transport \/ (text = lastSaid /\ window)
       THEN UNCHANGED <<loopQ, lastSaid, window, sentFor>>
       ELSE /\ Schedule(Speak(seen))
            /\ lastSaid' = text /\ window' = TRUE /\ sentFor' = seen
    /\ UNCHANGED <<linkVars, peerVars, idle, brailleVars, seen, presses>>

WindowPasses ==
    /\ window /\ window' = FALSE
    /\ UNCHANGED <<linkVars, peerVars, loopQ, idle, brailleVars, lastSaid, seen, spoke, sentFor, presses>>

\* The head of the idle queue is c, and is taken off it.
Runs(c) ==
    /\ painting = "no"
    /\ idle # <<>> /\ Head(idle) = c
    /\ idle' = Tail(idle)

\* Bug: a key press does not end the window.
KeyKeepsWindow(n) ==
    /\ Runs(KeyCall(n))
    /\ seen' = n /\ spoke' = FALSE
    /\ UNCHANGED <<linkVars, peerVars, loopQ, brailleVars, lastSaid, window, sentFor, presses>>

\* The injected key comes back to Orca, and so to _on_keyboard_event.
KeySeen(n) ==
    /\ Runs(KeyCall(n))
    /\ seen' = n /\ spoke' = FALSE
    /\ window' = FALSE
    /\ UNCHANGED <<linkVars, peerVars, loopQ, brailleVars, lastSaid, sentFor, presses>>

\* The key was refused, or its injection failed.
KeyUnseen(n) ==
    /\ Runs(KeyCall(n))
    /\ UNCHANGED <<linkVars, peerVars, loopQ, brailleVars, speechVars, presses>>

\* _transport_disconnected_idle_cb.
RunLost ==
    /\ Runs(Lost)
    /\ lastSaid' = NoText /\ lastLine' = NoLine /\ sentInfo' = FALSE
    /\ UNCHANGED <<linkVars, peerVars, loopQ, painting, line, window, seen, spoke, sentFor, presses>>

\* _stop_transport forgets the transport, _restart_transport makes another; that
\* it may do so before the old one is down is left to Session.
ReplaceTransport ==
    /\ painting = "no"
    /\ transport' = ~transport
    /\ transport' => link = "down"
    /\ UNCHANGED <<link, joining, peerVars, loopQ, idle, brailleVars, speechVars, presses>>

-----------------------------------------------------------------------------
(* The loop thread, which is busy while client_joined is half handled.      *)

ConnectUp ==
    /\ link = "down" /\ transport
    /\ link' = "up"
    /\ peer' \in {peer, Ignorant}    \* other masters may have come meanwhile
    /\ UNCHANGED <<transport, joining, missed, heard, loopQ, idle, brailleVars, speechVars, presses>>

LinkLost ==
    /\ link = "up" /\ joining # "half"
    /\ Len(idle) < MaxIdle /\ idle' = Append(idle, Lost)
    /\ link' = "down" /\ joining' = "no"
    /\ UNCHANGED <<transport, peerVars, loopQ, brailleVars, speechVars, presses>>

\* Another master joins the channel, and gets what is sent from now on.  One
\* client_joined is under way at a time.
PeerJoins ==
    /\ link = "up" /\ joining = "no"
    /\ joining' = "came"
    /\ peer' = Ignorant
    /\ UNCHANGED <<transport, link, missed, heard, loopQ, idle, brailleVars, speechVars, presses>>

\* client_joined: the two resets.
JoinForgetsLine ==
    /\ joining = "came" /\ joining' = "half"
    /\ lastLine' = NoLine
    /\ UNCHANGED <<transport, link, peerVars, loopQ, idle, sentInfo, painting, line, speechVars, presses>>

JoinForgetsInfo ==
    /\ joining = "half" /\ joining' = "no"
    /\ sentInfo' = FALSE
    /\ UNCHANGED <<transport, link, peerVars, loopQ, idle, lastLine, painting, line, speechVars, presses>>

\* _handle_inbound_key, for a press: the cancel, then the key.  A release sends
\* nothing; HostKeys has what it does.
HandleInboundKey ==
    /\ link = "up" /\ joining # "half"
    /\ presses < MaxPresses /\ Len(idle) < MaxIdle
    /\ presses' = presses + 1
    /\ Schedule(Cancel(presses'))
    /\ idle' = Append(idle, KeyCall(presses'))
    /\ UNCHANGED <<linkVars, peerVars, brailleVars, speechVars>>

\* The frame f reaches the peer, if there is a connection that takes it.
Delivered(f, taken) ==
    /\ peer' = IF ~taken THEN peer
               ELSE CASE f.op = "info" -> [peer EXCEPT !.size = TRUE]
                      [] f.op = "display" -> [peer EXCEPT !.line = f.line]
                      [] OTHER -> peer
    /\ missed' = IF f.op = "display" THEN ~taken ELSE missed
    /\ heard' = IF f.op = "speak" /\ taken THEN f.press ELSE heard

\* Bug: a frame that meets a full buffer is tried again later.
SendRetries ==
    /\ joining # "half" /\ loopQ # <<>>
    /\ \E full \in Congestion :
          /\ Delivered(Head(loopQ), link = "up" /\ ~full)
          /\ loopQ' = IF full THEN Append(Tail(loopQ), Head(loopQ)) ELSE Tail(loopQ)
    /\ UNCHANGED <<linkVars, idle, brailleVars, speechVars, presses>>

\* send(): dropped without a connection or with a full buffer.
Send ==
    /\ joining # "half" /\ loopQ # <<>>
    /\ \E full \in Congestion : Delivered(Head(loopQ), link = "up" /\ ~full)
    /\ loopQ' = Tail(loopQ)
    /\ UNCHANGED <<linkVars, idle, brailleVars, speechVars, presses>>

-----------------------------------------------------------------------------
Next ==
    \/ \E l \in Lines : Paint(l)
    \/ StoreLine \/ QueueInfo \/ SetFlag \/ QueueDisplay
    \/ \E text \in Texts : Say(text)
    \/ WindowPasses
    \/ \E n \in 1..MaxPresses : KeySeen(n) \/ KeyUnseen(n)
    \/ RunLost \/ ReplaceTransport
    \/ ConnectUp \/ LinkLost \/ PeerJoins \/ JoinForgetsLine \/ JoinForgetsInfo
    \/ HandleInboundKey \/ Send

Spec == Init /\ [][Next]_vars
-----------------------------------------------------------------------------
Shown   == Lines \ {Blank}
Presses == 0..MaxPresses
Frames  == {Info} \cup [op : {"display"}, line : Shown]
                  \cup [op : {"cancel", "speak"}, press : Presses]

\* Type invariant.
TypeOK ==
    /\ transport \in BOOLEAN /\ link \in {"down", "up"} /\ joining \in {"no", "came", "half"}
    /\ peer \in [size : BOOLEAN, line : Shown \cup {NoLine}]
    /\ loopQ \in Seq(Frames) /\ idle \in Seq({Lost} \cup [op : {"key"}, press : Presses])
    /\ lastLine \in Shown \cup {NoLine} /\ line \in Shown \cup {NoLine}
    /\ sentInfo \in BOOLEAN /\ missed \in BOOLEAN /\ window \in BOOLEAN /\ spoke \in BOOLEAN
    /\ painting \in {"no", "store", "info", "flag", "display"}
    /\ lastSaid \in Texts \cup {NoText}
    /\ {presses, seen, sentFor, heard} \subseteq Presses

\* Its display is about to be queued, or is.
LineUnderway ==
    \/ painting \notin {"no", "store"} /\ line = lastLine
    \/ \E i \in DOMAIN loopQ : loopQ[i] = Display(lastLine)

\* What repeats are compared with is what every master in the channel shows, or
\* is about to: however a master's join cuts into the braille callback, its
\* display is not left empty by a line taken for a repeat.  Excepted are a line
\* that was dropped, and a lost link whose callback is still to run.
RepeatsAreShown ==
    lastLine # NoLine /\ link = "up" /\ joining = "no"
    /\ (\A i \in DOMAIN idle : idle[i] # Lost)
        => LineUnderway \/ missed \/ peer.line = lastLine

\* The cancel for a key never silences what that key made Orca say: no speech
\* for it reaches the master, or is queued, ahead of its cancel.
CancelsFirst ==
    \A j \in DOMAIN loopQ : loopQ[j].op = "cancel" =>
        /\ heard < loopQ[j].press
        /\ \A i \in 1..j - 1 : loopQ[i].op = "speak" => loopQ[i].press < loopQ[j].press

\* What Orca says first after a key is sent, be it what it said before the key
\* ("A new key is a new utterance even if it repeats the last one").
KeysAreAnswered == [][spoke' /\ ~spoke /\ transport => sentFor' = seen]_vars
=============================================================================
