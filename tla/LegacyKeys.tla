----------------------------- MODULE LegacyKeys -----------------------------
(* The controlling side of the legacy plug-in: the patched                     *)
(* KeyboardEvent.process of orca-customizations.py and the control state of    *)
(* RemoteController.  Key events and the shortcuts' handlers run on Orca's     *)
(* thread; a lost connection is reported on the transport's thread, which sets *)
(* the control state back between any two steps of a handler.                  *)
(*                                                                             *)
(* Whether an event matches a shortcut depends on the modifiers held, which    *)
(* are chosen freely.  In remote mode the release that matches a shortcut is   *)
(* not forwarded either: the key is one the shortcut's press was swallowed for.*)
(* Events that Orca injected itself are passed by and left out.                *)
EXTENDS Naturals, Sequences, SequencesExt

CONSTANTS Keys,          \* keys of this machine's keyboard
          Mapped,        \* those that _key_to_vk has a Windows key for
          ToggleKeys,    \* those that Orca+Alt turns into the toggle shortcut
          CloseKeys,     \* ... into the disconnect shortcut
          OtherKeys,     \* ... into one that touches none of this state
          MaxWire        \* bound: key frames on their way

VARIABLES
    mode,        \* controller.control_state
    grabbed,     \* Orca's keyboard grab "orca_remote"
    linked,      \* transport.connected
    dropping,    \* the transport's thread is about to report the lost connection
    forwarded,   \* _forwarded_keys_down
    direct,      \* _direct_shortcut_keys_down
    handler,     \* where the handler of a shortcut is
    wire,        \* key frames sent and not yet delivered
    emptied      \* history: keys whose last frame was a release that the user's
                 \* disconnect emptied with the queue

keyVars == <<forwarded, direct>>
linkVars == <<linked, dropping>>
sendVars == <<wire, emptied>>
vars == <<mode, grabbed, linkVars, keyVars, handler, sendVars>>

Frame(k, down) == [key |-> k, pressed |-> down]
Frames == [key : Keys, pressed : BOOLEAN]

TypeOK ==
    /\ mode \in {"local", "remote"}
    /\ grabbed \in BOOLEAN /\ linked \in BOOLEAN /\ dropping \in BOOLEAN
    /\ forwarded \subseteq Keys /\ direct \subseteq Keys
    /\ handler \in {"idle", "toggle", "grab", "close"}
    /\ wire \in Seq(Frames)
    /\ emptied \subseteq Keys

Init ==
    /\ mode = "local"
    /\ grabbed = FALSE
    /\ linked = FALSE /\ dropping = FALSE
    /\ forwarded = {} /\ direct = {}
    /\ handler = "idle"
    /\ wire = <<>> /\ emptied = {}

\* transport.send of frames about the keys ks: dropped unless connected.
Send(fs, ks) ==
    IF linked THEN wire' = wire \o fs /\ emptied' = emptied \ ks
    ELSE UNCHANGED sendVars

\* Bug: the set is cleared before it is gone through.
ReleaseNone == forwarded' = {} /\ UNCHANGED sendVars

\* _release_all_forwarded_keys.
ReleaseAllForwarded ==
    /\ Send(SetToSeq({Frame(k, FALSE) : k \in forwarded}), forwarded)
    /\ forwarded' = {}

Matches(k) ==
    (IF k \in ToggleKeys THEN {"toggle"} ELSE {}) \cup
    (IF k \in CloseKeys THEN {"disconnect"} ELSE {}) \cup
    (IF k \in OtherKeys THEN {"other"} ELSE {})

-----------------------------------------------------------------------------
(* One key event: _patched_process_key.                                        *)

\* Bug: the keys still down are not released before control returns.
RunShortcutHolding(s) ==
    CASE s = "toggle" ->
            handler' = "toggle" /\ UNCHANGED <<mode, forwarded, sendVars>>
      [] s = "disconnect" ->
            ReleaseAllForwarded /\ mode' = "local" /\ handler' = "close"
      [] s = "other" -> UNCHANGED <<mode, forwarded, sendVars, handler>>

\* The shortcuts' handlers up to where they touch the shared control state.
\* _disconnect releases the forwarded keys itself; a toggle run directly has
\* them released first when it is about to end remote control.
RunShortcut(s) ==
    CASE s = "toggle" ->
            /\ IF mode = "remote" THEN ReleaseAllForwarded
               ELSE UNCHANGED <<forwarded, sendVars>>
            /\ handler' = "toggle"
            /\ UNCHANGED mode
      [] s = "disconnect" ->
            ReleaseAllForwarded /\ mode' = "local" /\ handler' = "close"
      [] s = "other" -> UNCHANGED <<mode, forwarded, sendVars, handler>>

\* A press that matches: run directly, its release to be swallowed, or, in local
\* mode, by Orca's own command, whose release is not remembered.
Shortcut(k, s) ==
    /\ handler = "idle"
    /\ RunShortcut(s)
    /\ \/ direct' = direct \cup {k}
       \/ mode = "local" /\ UNCHANGED direct
    /\ UNCHANGED <<grabbed, linkVars>>

\* The toggle with further modifiers: the keys are released at the other side
\* and the event goes to Orca, which has no such command.
ToggleFallback(k) ==
    /\ handler = "idle"
    /\ mode = "remote"
    /\ k \in ToggleKeys
    /\ ReleaseAllForwarded
    /\ UNCHANGED <<mode, grabbed, linkVars, direct, handler>>

\* The release of a directly run shortcut's key goes nowhere.
SwallowRelease(k) ==
    /\ handler = "idle"
    /\ k \in direct
    /\ direct' = direct \ {k}
    /\ UNCHANGED <<mode, grabbed, linkVars, forwarded, handler, sendVars>>

\* Any other event in remote mode is sent, and remembered if it is a press; one
\* that no Windows key stands for is consumed all the same.
Forward(k, down) ==
    /\ handler = "idle"
    /\ mode = "remote"
    /\ k \in Mapped
    /\ down \/ k \notin direct
    /\ Send(<<Frame(k, down)>>, {k})
    /\ forwarded' = IF down THEN forwarded \cup {k} ELSE forwarded \ {k}
    /\ UNCHANGED <<mode, grabbed, linkVars, direct, handler>>

-----------------------------------------------------------------------------
(* The rest of the handlers.                                                   *)

\* toggle_control.
Toggle ==
    /\ handler = "toggle"
    /\ mode' = IF mode = "local" THEN "remote" ELSE "local"
    /\ handler' = "grab"
    /\ UNCHANGED <<grabbed, linkVars, keyVars, sendVars>>

\* controller.disconnect closes the transport: the socket is shut and the queue
\* is emptied, so only what the sender had taken by then still goes out.  The
\* transport's thread reports the end in its own time.
CloseTransport ==
    /\ handler = "close"
    /\ linked' = FALSE
    /\ dropping' = (dropping \/ linked)
    /\ \E n \in 0..Len(wire) :
          /\ wire' = SubSeq(wire, 1, n)
          /\ emptied' = emptied \cup
                {wire[i].key : i \in {j \in n+1..Len(wire) : ~wire[j].pressed}}
    /\ handler' = "grab"
    /\ UNCHANGED <<mode, grabbed, keyVars>>

\* _update_keyboard_grab: the grab follows the control state as it is now.
UpdateKeyboardGrab ==
    /\ handler = "grab"
    /\ grabbed' = (mode = "remote")
    /\ handler' = "idle"
    /\ UNCHANGED <<mode, linkVars, keyVars, sendVars>>

-----------------------------------------------------------------------------
(* The transport's thread.                                                     *)

Connected ==
    /\ ~linked /\ ~dropping /\ wire = <<>>
    /\ linked' = TRUE
    /\ UNCHANGED <<mode, grabbed, dropping, keyVars, handler, sendVars>>

\* The connection ends; what was queued is lost.
Drop ==
    /\ linked
    /\ linked' = FALSE
    /\ dropping' = TRUE
    /\ \E n \in 0..Len(wire) : wire' = SubSeq(wire, 1, n)
    /\ UNCHANGED <<mode, grabbed, keyVars, handler, emptied>>

\* _on_transport_disconnected: control is local again.
TransportDisconnected ==
    /\ dropping
    /\ dropping' = FALSE
    /\ mode' = "local"
    /\ UNCHANGED <<grabbed, linked, keyVars, handler, sendVars>>

-----------------------------------------------------------------------------
\* The user's steps and the transport's own.
Steps ==
    \/ \E k \in Keys :
          \/ \E s \in Matches(k) : Shortcut(k, s)
          \/ ToggleFallback(k)
          \/ SwallowRelease(k)
          \/ \E down \in BOOLEAN : Len(wire) < MaxWire /\ Forward(k, down)
    \/ Toggle \/ CloseTransport \/ UpdateKeyboardGrab
    \/ Connected \/ TransportDisconnected

Next == Steps \/ Drop
=============================================================================
