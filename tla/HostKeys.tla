------------------------------ MODULE HostKeys ------------------------------
(***************************************************************************)
(* The controlled machine's half of key forwarding (remote.py, role "host").*)
(*                                                                         *)
(* Two threads meet here.  The asyncio loop thread receives frames and, for *)
(* each key frame, appends a callback to GLib's idle queue; link loss and a *)
(* departing peer append callbacks that release what is held.  The GLib     *)
(* thread runs the callbacks in order, and is also the thread on which the  *)
(* user's connect, disconnect and settings commands stop a transport: it    *)
(* then BLOCKS, for at most two seconds, on the loop thread.                *)
(*                                                                         *)
(* A keysym is an element of Keys.  What the X server holds down is xHeld;  *)
(* what the extension believes is pressed (the attribute _pressed_keysyms)  *)
(* is the variable pressed.  Any injection may fail.                        *)
(***************************************************************************)
EXTENDS Naturals, Sequences, FiniteSets

CONSTANTS Keys,                            \* keysyms a key frame can resolve to
          Sticky,                          \* modifiers that are held, not tapped
          OrcaMods, Ctrls, Shifts, Alts,   \* modifier classes of the chord test
          OwnCtrl, OwnCtrlShift, OwnAlt,   \* trigger keysyms of our commands
          Transports, NoTransport,         \* RemoteTransport objects, and None
          MaxIdle                          \* bound on the idle queue's inputs

ASSUME KeysAssumption ==
    /\ Sticky \subseteq Keys
    /\ NoTransport \notin Transports
    /\ MaxIdle \in Nat

VARIABLES idle,      \* GLib's queue of idle callbacks
          pressed,   \* _pressed_keysyms
          xHeld,     \* keys down in the X server
          lost,      \* keys X still holds because injecting their release failed
          fired,     \* triggers of our own commands that X delivered to Orca
          live,      \* transports inside their read loop
          current,   \* _transport
          stopReq,   \* transports whose stop() is scheduled but has not run
          glib,      \* "idle", or "waiting" inside _stop_transport
          role       \* _settings["role"]

keyVars  == <<pressed, xHeld, lost, fired>>
linkVars == <<live, current, stopReq, glib, role>>
vars     == <<idle, keyVars, linkVars>>

Roles == {"host", "client"}

(***************************************************************************)
(* Idle callbacks: one key of a frame; or a drain, which is what both       *)
(* _release_held_keys_idle_cb and, on a host,                               *)
(* _transport_disconnected_idle_cb do to the keys.                          *)
(***************************************************************************)
Drain == [op |-> "drain"]
KeyCall(k, down) == [op |-> "key", key |-> k, down |-> down]
Callbacks == [op : {"key"}, key : Keys, down : BOOLEAN] \cup {Drain}

Init ==
    /\ idle = <<>>
    /\ pressed = {} /\ xHeld = {} /\ lost = {} /\ fired = {}
    /\ live = {} /\ current = NoTransport /\ stopReq = {}
    /\ glib = "idle" /\ role \in Roles

-----------------------------------------------------------------------------
(* The loop thread.                                                         *)

\* A key frame reaches _handle_inbound_key: hosts queue it, clients drop it.
HandleInboundKey(k, down) ==
    /\ live # {} /\ role = "host"
    /\ Len(idle) < MaxIdle
    /\ idle' = Append(idle, KeyCall(k, down))
    /\ UNCHANGED <<keyVars, linkVars>>

\* client_left: a master that drops mid-chord never sends its releases.
ClientLeft ==
    /\ live # {}
    /\ Len(idle) < MaxIdle
    /\ idle' = Append(idle, Drain)
    /\ UNCHANGED <<keyVars, linkVars>>

\* _connect_and_read gets a writer and starts to read.
Connected(t) ==
    /\ t \in {current} \cup stopReq
    /\ t \in Transports \ live
    /\ Len(idle) < MaxIdle
    /\ live' = live \cup {t}
    /\ UNCHANGED <<idle, keyVars, current, stopReq, glib, role>>

\* Bug: a lost link is not reported.
ReleaseForgotten(q) == q

\* _on_transport_disconnected: the callback runs after what is queued already.
OnDisconnected(q) == Append(q, Drain)

\* The read loop ends by itself; its finally block reports the disconnect.
LinkLost(t) ==
    /\ t \in live
    /\ live' = live \ {t}
    /\ idle' = OnDisconnected(idle)
    /\ UNCHANGED <<keyVars, current, stopReq, glib, role>>

\* The scheduled stop() runs: the task is cancelled, through the same finally.
StopRuns(t) ==
    /\ t \in stopReq
    /\ stopReq' = stopReq \ {t}
    /\ live' = live \ {t}
    /\ idle' = IF t \in live THEN OnDisconnected(idle) ELSE idle
    /\ UNCHANGED <<keyVars, current, glib, role>>

-----------------------------------------------------------------------------
(* The GLib thread: stopping, and perhaps restarting, the transport.        *)

\* What _restart_transport may leave in _transport: nothing, or a new object.
Replacement == {NoTransport} \cup (Transports \ (live \cup stopReq \cup {current}))

\* _stop_transport with no transport still drains a stale held-key set.
StopNothing(r) ==
    /\ glib = "idle" /\ current = NoTransport
    /\ Len(idle) < MaxIdle
    /\ role' = r
    /\ idle' = Append(idle, Drain)
    /\ current' \in Replacement
    /\ UNCHANGED <<keyVars, live, stopReq, glib>>

\* _stop_transport up to the blocking future.result(timeout=2.0).
BeginStop(r) ==
    /\ glib = "idle" /\ current # NoTransport
    /\ Len(idle) < MaxIdle
    /\ role' = r
    /\ stopReq' = stopReq \cup {current}
    /\ current' = NoTransport
    /\ glib' = "waiting"
    /\ UNCHANGED <<idle, keyVars, live>>

\* The wait returns, because stop() finished or because it timed out.
EndStop ==
    /\ glib = "waiting"
    /\ glib' = "idle"
    /\ idle' = Append(idle, Drain)
    /\ current' \in Replacement
    /\ UNCHANGED <<keyVars, live, stopReq, role>>

-----------------------------------------------------------------------------
(* The GLib thread: running the head of the idle queue.                     *)

\* _chord_matches_own_command: would a press of k complete one of our chords?
ChordMatches(held, k) ==
    /\ held \cap OrcaMods # {}
    /\ \/ k \in OwnCtrlShift /\ held \cap Ctrls # {} /\ held \cap Shifts # {}
       \/ k \in OwnCtrl /\ held \cap Ctrls # {}
       \/ k \in OwnAlt /\ held \cap Alts # {}

\* GLib takes the head callback c off the queue.
Runs(c) ==
    /\ glib = "idle" /\ idle # <<>> /\ Head(idle) = c
    /\ idle' = Tail(idle)
    /\ UNCHANGED linkVars

\* Bug: repeats are dropped, chords are not looked at.
RefusesRepeat(k) == k \in pressed

\* A repeated press, or one that would fire a command of ours, is not injected.
Refuses(k) == k \in pressed \/ ChordMatches(pressed, k)

RunRefusedPress(k) ==
    /\ Runs(KeyCall(k, TRUE))
    /\ Refuses(k)
    /\ UNCHANGED keyVars

\* X delivers a press of k: Orca's own listener sees it with what X holds.
\* Keys stuck by an earlier failure are outside what the code can know.
XPress(k) ==
    fired' = IF ChordMatches(xHeld \ lost, k) THEN fired \cup {k} ELSE fired

RunFailedPress(k) ==
    /\ Runs(KeyCall(k, TRUE))
    /\ ~Refuses(k)
    /\ UNCHANGED keyVars

RunStickyPress(k) ==
    /\ Runs(KeyCall(k, TRUE))
    /\ ~Refuses(k) /\ k \in Sticky
    /\ XPress(k)
    /\ xHeld' = xHeld \cup {k}
    /\ lost' = lost \ {k}
    /\ pressed' = pressed \cup {k}

\* Bug: the release half of a tap is left to the wire.
PressWithoutRelease(k, released) ==
    /\ Runs(KeyCall(k, TRUE))
    /\ ~Refuses(k) /\ k \notin Sticky
    /\ XPress(k)
    /\ xHeld' = xHeld \cup {k}
    /\ pressed' = pressed \cup {k}
    /\ UNCHANGED lost

\* A key that is no modifier is tapped: its release is injected at once.
RunTap(k, released) ==
    /\ Runs(KeyCall(k, TRUE))
    /\ ~Refuses(k) /\ k \notin Sticky
    /\ XPress(k)
    /\ xHeld' = IF released THEN xHeld \ {k} ELSE xHeld \cup {k}
    /\ lost' = IF released THEN lost \ {k} ELSE lost \cup {k}
    /\ pressed' = pressed \cup {k}

\* Inject releases of the keys in ks, those in failed without effect.
Release(ks, failed) ==
    /\ xHeld' = xHeld \ (ks \ failed)
    /\ lost' = (lost \ ks) \cup (failed \cap xHeld)
    /\ UNCHANGED fired

\* A release is forgotten even when injecting it fails; the release of a key
\* that is tapped only clears the entry.
RunRelease(k, failed) ==
    /\ Runs(KeyCall(k, FALSE))
    /\ failed \subseteq {k} \cap Sticky
    /\ Release({k} \cap Sticky, failed)
    /\ pressed' = pressed \ {k}

\* Bug: a key whose release fails stays in the set of pressed keys.
DrainKeepsFailed(failed) ==
    /\ Runs(Drain)
    /\ failed \subseteq pressed \cap Sticky
    /\ Release(pressed \cap Sticky, failed)
    /\ pressed' = failed

\* Everything still tracked is released, in one callback.
RunDrain(failed) ==
    /\ Runs(Drain)
    /\ failed \subseteq pressed \cap Sticky
    /\ Release(pressed \cap Sticky, failed)
    /\ pressed' = {}

RunIdle ==
    \/ \E k \in Keys :
          \/ RunRefusedPress(k) \/ RunFailedPress(k) \/ RunStickyPress(k)
          \/ \E released \in BOOLEAN : RunTap(k, released)
          \/ \E failed \in SUBSET {k} : RunRelease(k, failed)
    \/ \E failed \in SUBSET pressed : RunDrain(failed)

-----------------------------------------------------------------------------
Next ==
    \/ \E k \in Keys, down \in BOOLEAN : HandleInboundKey(k, down)
    \/ ClientLeft
    \/ \E t \in Transports : Connected(t) \/ LinkLost(t) \/ StopRuns(t)
    \/ \E r \in Roles : StopNothing(r) \/ BeginStop(r)
    \/ EndStop
    \/ RunIdle

Spec == Init /\ [][Next]_vars

\* Orca's main loop keeps running idle callbacks, and the wait in
\* _stop_transport has a timeout.  Nothing is assumed of user, peer or network.
FairSpec == Spec /\ WF_vars(RunIdle) /\ WF_vars(EndStop)
-----------------------------------------------------------------------------
\* Type invariant.
TypeOK ==
    /\ idle \in Seq(Callbacks)
    /\ pressed \subseteq Keys /\ xHeld \subseteq Keys /\ lost \subseteq Keys
    /\ fired \subseteq Keys
    /\ live \subseteq Transports /\ stopReq \subseteq Transports
    /\ current \in Transports \cup {NoTransport}
    /\ glib \in {"idle", "waiting"}
    /\ role \in Roles

\* The X server holds exactly the modifiers the extension still tracks, plus
\* the keys whose release could not be injected: no path of the callback
\* leaves a key down that no later release or drain would find.
HeldIsAccounted == xHeld = (pressed \cap Sticky) \cup lost

\* A master's key frames never make Orca run one of this extension's own
\* commands on the host, whatever is queued, drained or refused before.
OwnCommandsNotFired == fired = {}

IsDrain(c) == c.op = "drain"
DrainQueued == \E j \in DOMAIN idle : IsDrain(idle[j])

\* Every press still in the queue is followed by a drain.
PressesFollowed ==
    \A i \in DOMAIN idle :
        ~IsDrain(idle[i]) => \E j \in DOMAIN idle : j > i /\ IsDrain(idle[j])

\* The inductive core of the next property: with every link down, whatever is
\* or will be pressed has a drain behind it.
DrainPending ==
    live = {} => /\ PressesFollowed
                 /\ pressed # {} => DrainQueued

\* Once every link is down and the callbacks queued so far have run, no key
\* is held for the vanished master: late presses cannot overtake the release.
NothingHeldAfterLinkLoss ==
    live = {} /\ idle = <<>> => pressed = {} /\ xHeld = lost

\* A lost link is always followed by the release of what was held, unless a
\* link comes back first; a stop that waits out its timeout does not prevent it.
LinkLossReleases ==
    live = {} ~> (live # {} \/ (pressed = {} /\ xHeld = lost))
=============================================================================
