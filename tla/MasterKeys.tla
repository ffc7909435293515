----------------------------- MODULE MasterKeys -----------------------------
(***************************************************************************)
(* The controlling machine's half of key forwarding (remote.py, role        *)
(* "client").  Keyboard events, the user's commands and idle callbacks run  *)
(* on the GLib thread; frames to send, and the start and stop of a          *)
(* transport, are queued there and run in order by the asyncio loop thread, *)
(* which also learns that a connection came up or was lost.                 *)
(*                                                                         *)
(* A physical key p of PhysKeys delivers the keysym Keysym[p][1], or, with   *)
(* Shift held, Keysym[p][2]; Vk maps a keysym to the Windows key of a key    *)
(* frame, or to NoVk when keysym_to_vk knows none.                          *)
(***************************************************************************)
EXTENDS Naturals, Sequences, FiniteSets

CONSTANTS PhysKeys,                           \* keys of the local keyboard
          Keysyms, Keysym,                    \* what they deliver to Orca
          Vks, NoVk, Vk,                      \* what a key frame names
          CtrlKeys, ShiftKeys, AltKeys,       \* keys that set modifier bits
          OrcaMods,                           \* keysyms of the Orca modifier
          OwnCtrl, OwnCtrlShift, OwnAlt,      \* triggers of our own commands
          MaxQueue, MaxLost                   \* bounds on pending work

ASSUME MasterAssumption ==
    /\ NoVk \notin Vks /\ IsFiniteSet(Vks)
    /\ Keysym \in [PhysKeys -> [1..2 -> Keysyms]]
    /\ Vk \in [Keysyms -> Vks \cup {NoVk}]
    /\ MaxQueue \in Nat /\ MaxLost \in Nat

VARIABLES phys,       \* physical keys held down
          modsDown,   \* _master_orca_mods_down
          focus,      \* _focus_on_remote
          grab,       \* a key grab is held
          transport,  \* _transport is not None
          fwd,        \* _forwarded_keys_down
          loopQ,      \* work queued for the loop thread, in order
          link,       \* the loop's transport: "none", "down" or "up"
          wireHeld,   \* keys this connection's frames say are down
          lostCalls   \* queued _transport_disconnected_idle_cb calls

glibVars == <<phys, modsDown, focus, grab, transport, fwd>>
loopVars == <<link, wireHeld>>
vars     == <<glibVars, loopVars, loopQ, lostCalls>>

Frame(v, down) == [op |-> "key", vk |-> v, down |-> down]
Start == [op |-> "start"]
Stop  == [op |-> "stop"]
Frames == [op : {"key"}, vk : Vks, down : BOOLEAN]
Work   == Frames \cup {Start, Stop}

Init ==
    /\ phys = {} /\ modsDown = {} /\ fwd = {}
    /\ focus = FALSE /\ grab = FALSE /\ transport = FALSE
    /\ loopQ = <<>> /\ link = "none" /\ wireHeld = {} /\ lostCalls = 0

-----------------------------------------------------------------------------
(* Keyboard events: _on_keyboard_event.                                     *)

\* The keysym of an event on p; Shift counts as it was before the event.
SymOf(p) == Keysym[p][IF phys \cap ShiftKeys # {} THEN 2 ELSE 1]

\* Bug: the Orca modifier is tracked only while keys are being forwarded.
TracksWhileFocused(p, down) ==
    LET s == SymOf(p) IN
    modsDown' = IF s \notin OrcaMods \/ ~focus THEN modsDown
                ELSE IF down THEN modsDown \cup {s} ELSE modsDown \ {s}

\* The Orca modifier is tracked whatever the focus.
TrackOrcaMods(p, down) ==
    LET s == SymOf(p) IN
    modsDown' = IF s \notin OrcaMods THEN modsDown
                ELSE IF down THEN modsDown \cup {s} ELSE modsDown \ {s}

\* A key goes down, repeats while held, or comes up.
KeyEvent(p, down) ==
    /\ down \/ p \in phys
    /\ phys' = IF down THEN phys \cup {p} ELSE phys \ {p}
    /\ TrackOrcaMods(p, down)
    /\ UNCHANGED <<focus, grab, transport, loopVars, lostCalls>>

\* Bug: only the chords with Ctrl are left to the local side.
BypassCtrlOnly(p) ==
    /\ modsDown' # {}
    /\ SymOf(p) \in OwnCtrl /\ phys \cap CtrlKeys # {}

\* _is_local_bypass_chord, with the modifier bits of the event and the Orca
\* modifiers as they are after it.
BypassChord(p) ==
    /\ modsDown' # {}
    /\ \/ /\ SymOf(p) \in OwnCtrlShift
          /\ phys \cap CtrlKeys # {} /\ phys \cap ShiftKeys # {}
       \/ SymOf(p) \in OwnCtrl /\ phys \cap CtrlKeys # {}
       \/ SymOf(p) \in OwnAlt /\ phys \cap AltKeys # {}

\* The event is this extension's to consume, as key frame v.
Forwardable(p, v) ==
    /\ focus /\ transport
    /\ ~BypassChord(p)
    /\ v \in Vks /\ v = Vk[SymOf(p)]

\* Left to Orca and the local application.
PassEvent(p, down) ==
    /\ KeyEvent(p, down)
    /\ ~ \E v \in Vks : Forwardable(p, v)
    /\ UNCHANGED <<fwd, loopQ>>

\* Bug: the check for an unmapped keysym is missing.
PressUnchecked(p, v) ==
    /\ KeyEvent(p, TRUE)
    /\ focus /\ transport /\ ~BypassChord(p)
    /\ Len(loopQ) < MaxQueue
    /\ fwd' = fwd \cup {Vk[SymOf(p)]}
    /\ loopQ' = Append(loopQ, Frame(Vk[SymOf(p)], TRUE))

ForwardPress(p, v) ==
    /\ KeyEvent(p, TRUE)
    /\ Forwardable(p, v)
    /\ Len(loopQ) < MaxQueue
    /\ fwd' = fwd \cup {v}
    /\ loopQ' = Append(loopQ, Frame(v, TRUE))

ForwardRelease(p, v) ==
    /\ KeyEvent(p, FALSE)
    /\ Forwardable(p, v)
    /\ v \in fwd
    /\ fwd' = fwd \ {v}
    /\ loopQ' = Append(loopQ, Frame(v, FALSE))

\* Its press was local: the release is consumed but not sent.
SwallowRelease(p, v) ==
    /\ KeyEvent(p, FALSE)
    /\ Forwardable(p, v)
    /\ v \notin fwd
    /\ UNCHANGED <<fwd, loopQ>>

-----------------------------------------------------------------------------
(* Focus, and the transport's life as the GLib thread drives it.            *)

\* The frames of some order of releasing every key in ks.
Releases(ks) ==
    {[i \in 1..Cardinality(ks) |-> Frame(order[i], FALSE)] :
        order \in {f \in [1..Cardinality(ks) -> ks] :
                      \A v \in ks : \E i \in 1..Cardinality(ks) : f[i] = v}}

\* _schedule_send drops the frame when there is no transport.
Scheduled(frames) == IF transport THEN loopQ \o frames ELSE loopQ

\* Bug: the keys are forgotten without a release being scheduled.
LeaveSilently(after) ==
    /\ loopQ' = Scheduled(<<>>) \o after
    /\ fwd' = {} /\ grab' = FALSE /\ focus' = FALSE

\* Bug: the releases are queued behind the teardown.
LeaveAfter(after) ==
    /\ \E rel \in Releases(fwd) : loopQ' = loopQ \o after \o rel
    /\ fwd' = {} /\ grab' = FALSE /\ focus' = FALSE

\* _leave_remote_focus, and switch_side's way back: the releases are queued
\* before whatever the caller queues next.
LeaveFocus(after) ==
    /\ \E rel \in Releases(fwd) : loopQ' = Scheduled(rel) \o after
    /\ fwd' = {} /\ grab' = FALSE /\ focus' = FALSE

\* switch_side, towards the remote machine; taking the grab may fail.
FocusRemote ==
    /\ ~focus
    /\ focus' = TRUE
    /\ grab' \in BOOLEAN
    /\ UNCHANGED <<phys, modsDown, transport, fwd, loopQ, loopVars, lostCalls>>

FocusLocal ==
    /\ focus
    /\ LeaveFocus(<<>>)
    /\ UNCHANGED <<phys, modsDown, transport, loopVars, lostCalls>>

\* disconnect, disable, connect and a settings change: _stop_transport and,
\* if restart, the rest of _restart_transport.
StopTransport(restart) ==
    /\ Len(loopQ) < MaxQueue
    /\ LeaveFocus((IF transport THEN <<Stop>> ELSE <<>>)
                     \o (IF restart THEN <<Start>> ELSE <<>>))
    /\ transport' = restart
    /\ UNCHANGED <<phys, modsDown, loopVars, lostCalls>>

\* Bug: the grab is kept when the connection goes away.
KeepsGrab ==
    /\ lostCalls > 0
    /\ lostCalls' = lostCalls - 1
    /\ \E rel \in Releases(fwd) : loopQ' = Scheduled(rel)
    /\ fwd' = {} /\ focus' = FALSE
    /\ UNCHANGED <<phys, modsDown, grab, transport, loopVars>>

\* _transport_disconnected_idle_cb.
RunDisconnected ==
    /\ lostCalls > 0
    /\ lostCalls' = lostCalls - 1
    /\ LeaveFocus(<<>>)
    /\ UNCHANGED <<phys, modsDown, transport, loopVars>>

-----------------------------------------------------------------------------
(* The loop thread.                                                         *)

\* The head of the queue is w, and is taken off it.
Takes(w) ==
    /\ loopQ # <<>> /\ Head(loopQ) = w
    /\ loopQ' = Tail(loopQ)
    /\ UNCHANGED glibVars

\* A key frame is written while connected (a key frame is never dropped for
\* congestion), and dropped while not.
SendKey(v, down) ==
    /\ Takes(Frame(v, down))
    /\ wireHeld' = IF link # "up" THEN wireHeld
                   ELSE IF down THEN wireHeld \cup {v} ELSE wireHeld \ {v}
    /\ UNCHANGED <<link, lostCalls>>

RunStart ==
    /\ Takes(Start)
    /\ link' = "down" /\ wireHeld' = {}
    /\ UNCHANGED lostCalls

\* A read loop ends: on_disconnected queues the idle callback.  The peer
\* learns of it from the relay and releases what this connection held.
ConnectionEnds ==
    /\ wireHeld' = {}
    /\ lostCalls' = lostCalls + 1

RunStop ==
    /\ Takes(Stop)
    /\ link' = "none"
    /\ IF link = "up" THEN ConnectionEnds ELSE UNCHANGED <<wireHeld, lostCalls>>

ConnectUp ==
    /\ link = "down" /\ lostCalls < MaxLost
    /\ link' = "up"
    /\ UNCHANGED <<glibVars, loopQ, wireHeld, lostCalls>>

LinkLost ==
    /\ link = "up"
    /\ link' = "down"
    /\ ConnectionEnds
    /\ UNCHANGED <<glibVars, loopQ>>

RunLoop == \/ \E v \in Vks, down \in BOOLEAN : SendKey(v, down)
           \/ RunStart \/ RunStop

-----------------------------------------------------------------------------
Next ==
    \/ \E p \in PhysKeys, down \in BOOLEAN : PassEvent(p, down)
    \/ \E p \in PhysKeys, v \in Vks :
          ForwardPress(p, v) \/ ForwardRelease(p, v) \/ SwallowRelease(p, v)
    \/ FocusRemote \/ FocusLocal
    \/ \E restart \in BOOLEAN : StopTransport(restart)
    \/ RunDisconnected
    \/ RunLoop \/ ConnectUp \/ LinkLost

Spec == Init /\ [][Next]_vars

\* GLib runs its idle callbacks and asyncio its ready queue; nothing is
\* assumed of the user, the network or the relay.
FairSpec == Spec /\ WF_vars(RunDisconnected) /\ WF_vars(RunLoop)
-----------------------------------------------------------------------------
\* Type invariant.
TypeOK ==
    /\ phys \subseteq PhysKeys /\ modsDown \subseteq Keysyms
    /\ focus \in BOOLEAN /\ grab \in BOOLEAN /\ transport \in BOOLEAN
    /\ fwd \subseteq Vks /\ wireHeld \subseteq Vks
    /\ loopQ \in Seq(Work)
    /\ link \in {"none", "down", "up"}
    /\ lostCalls \in Nat

\* If the peer holds v, or is told to by the first n entries of the queue, then
\* one of those entries behind every such press releases v or ends the connection.
Covered(v, n) ==
    LET Presses == {i \in 1..n : loopQ[i] = Frame(v, TRUE)}
    IN  v \in wireHeld \/ Presses # {} =>
            \E j \in 1..n : /\ loopQ[j] \in {Frame(v, FALSE), Stop}
                           /\ \A i \in Presses : i < j

\* Every key the peer may be holding for us is still tracked, or its release
\* is already queued: no interleaving of keys, focus switches, link loss and
\* restarts forgets one half of a pair.
HeldAreTracked == \A v \in Vks : v \in fwd \/ Covered(v, Len(loopQ))

\* A stop is queued only behind the releases of everything pressed before it.
StopsAreClean ==
    \A n \in DOMAIN loopQ : loopQ[n] = Stop => \A v \in Vks : Covered(v, n - 1)

\* The strengthening that is inductive.
IInv ==
    /\ TypeOK
    /\ ~transport => fwd = {}
    /\ link # "up" => wireHeld = {}
    /\ HeldAreTracked
    /\ StopsAreClean

\* Keys are tracked, and grabbed, only while focused on the remote machine.
FocusOwnsKeys == ~focus => fwd = {} /\ ~grab

\* Focused on the local machine, with everything queued sent, the peer holds
\* nothing for us.
NothingHeldWhenLocal == ~focus /\ loopQ = <<>> => wireHeld = {}

\* q is an Orca modifier whatever Shift does, and no other key delivers its
\* keysym: Insert or Caps_Lock, but not the keypad's Insert, a digit with Shift.
SteadyMod(q) ==
    /\ Keysym[q][1] \in OrcaMods /\ Keysym[q][2] = Keysym[q][1]
    /\ \A r \in PhysKeys \ {q}, s \in 1..2 : Keysym[r][s] # Keysym[q][1]

\* With the modifiers held, an event on p is the trigger of one of our own
\* commands: settings, mute, connect and disconnect, the clipboard, or the
\* switch of sides.
OwnTrigger(p) ==
    \/ SymOf(p) \in OwnCtrl /\ phys \cap CtrlKeys # {}
    \/ SymOf(p) \in OwnAlt /\ phys \cap AltKeys # {}
    \/ /\ SymOf(p) \in OwnCtrlShift
       /\ phys \cap CtrlKeys # {} /\ phys \cap ShiftKeys # {}

\* While the user holds an Orca modifier and the other modifiers of one of our
\* own chords -- Ctrl, Ctrl and Shift, or Alt -- its trigger is never queued
\* for the peer, however the modifiers were pressed before focus moved.
OwnChordsStayLocal ==
    [][\A p \in PhysKeys :
          /\ OwnTrigger(p) /\ \E q \in phys : SteadyMod(q)
          /\ p \in phys' /\ Len(loopQ') > Len(loopQ)
          => loopQ'[Len(loopQ')] # Frame(Vk[SymOf(p)], TRUE)]_vars

\* What names the Windows key of a trigger is a trigger of the same kind, with
\* and without Shift: PageUp and the keypad's.
TriggersComplete ==
    \A own \in {OwnCtrl, OwnCtrlShift, OwnAlt}, p, r \in PhysKeys, s \in 1..2 :
        Keysym[p][s] \in own /\ Vk[Keysym[r][s]] = Vk[Keysym[p][s]]
            => Keysym[r][s] \in own

\* The releases go out before the teardown: by the time a stop tears a
\* connection down, every key pressed over it has been released over it.
ReleasedBeforeStop == [][RunStop => wireHeld = {}]_vars

\* A lost connection gives the keyboard back: the grab does not outlive it.
GrabGivenBack == (lostCalls > 0) ~> ~grab

\* As send() has it, both halves of a pair reach the peer: with nothing left
\* to send, the peer holds no key that is physically up.
HeldOnlyWhileDown ==
    loopQ = <<>> => wireHeld \subseteq {Vk[Keysym[p][s]] : p \in phys, s \in 1..2}
=============================================================================
