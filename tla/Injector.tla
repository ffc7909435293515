------------------------------ MODULE Injector ------------------------------
(***************************************************************************)
(* How the controlled machine injects keys (KeyInjector in inject.py, and   *)
(* RemoteExtension._synth in remote.py).  The GLib thread asks for a key to  *)
(* be pressed or released: it uses the controller's XTEST hook at once, or   *)
(* queues the event for the injector's worker thread, which tries external   *)
(* backends one after the other, each of them slow.                         *)
(*                                                                         *)
(* What an event does belongs to the device the backend drives: a release   *)
(* does not lift a key that another device holds.  xdotool and the          *)
(* controller's hook are the same device.                                   *)
(***************************************************************************)
EXTENDS Naturals, Sequences, FiniteSets, SequencesExt

CONSTANTS Keys, Sticky,          \* keysyms, and those held instead of tapped
          Named, Coded,          \* keys with an X name, with an evdev code
          Installed,             \* command-line tools on this machine
          NoKey, NoBackend,      \* None
          MaxQueue               \* bound on the worker's queue

ASSUME InjectorAssumption ==
    /\ Sticky \subseteq Keys /\ Named \subseteq Keys /\ Coded \subseteq Keys
    /\ Installed \subseteq {"xdotool", "ydotool"}
    /\ NoKey \notin Keys /\ NoBackend \notin {"xdotool", "ydotool", "portal"}
    /\ MaxQueue \in Nat

VARIABLES wayland,    \* is_wayland_session()
          hook,       \* the controller has synthesize_key_event
          pressed,    \* _pressed_keysyms
          tapping,    \* the key whose tap still lacks its release
          queue,      \* _queue
          todo,       \* what _dispatch still has to try for the head of it
          busy,       \* the worker is inside _dispatch
          backend,    \* _backend
          failed,     \* _failed
          exhausted,  \* exhausted
          held,       \* keys down, with their devices
          used        \* devices that took an event so far

sessionVars == <<wayland, hook>>
callerVars  == <<pressed, tapping>>
workerVars  == <<todo, busy, backend, failed, exhausted>>
deviceVars  == <<held, used>>
vars == <<sessionVars, callerVars, queue, workerVars, deviceVars>>

Backends == {"xdotool", "ydotool", "portal"}
Devices  == {"xtest", "uinput", "portal"}
Events   == [key : Keys, down : BOOLEAN]

Device(b) == CASE b = "ydotool" -> "uinput" [] b = "portal" -> "portal" [] OTHER -> "xtest"

Init ==
    /\ wayland \in BOOLEAN /\ hook \in BOOLEAN
    /\ pressed = {} /\ tapping = NoKey
    /\ queue = <<>> /\ todo = <<>> /\ busy = FALSE
    /\ backend = NoBackend /\ failed = {} /\ exhausted = FALSE
    /\ held = {} /\ used = {}

-----------------------------------------------------------------------------
(* The GLib thread: _synth.                                                 *)

\* Event e reaches device d, which presses or releases the key.
Reaches(d, e) ==
    /\ used' = used \cup {d}
    /\ held' = IF e.down THEN held \cup {<<d, e.key>>} ELSE held \ {<<d, e.key>>}

\* send(): the worker will see to it.
Queue(e) ==
    /\ Len(queue) < MaxQueue
    /\ queue' = Append(queue, e)
    /\ UNCHANGED deviceVars

\* The injector is the better path.
PreferInjector == ~exhausted /\ (wayland \/ ~hook)

\* _synth(e) succeeds: it was injected, or queued, which counts as well.
SynthDone(e) ==
    \/ PreferInjector /\ Queue(e)
    \/ ~PreferInjector /\ hook /\ Reaches("xtest", e) /\ UNCHANGED queue
    \/ ~PreferInjector /\ ~exhausted /\ Queue(e)

\* _synth(e) fails: XTEST does, and the injector has given up.
SynthFails(e) == exhausted /\ UNCHANGED <<queue, deviceVars>>

Event(k, down) == [key |-> k, down |-> down]

\* The idle callback for a press: a key that is not held is tapped, and the
\* worker runs between the halves of the tap.
Press(k) ==
    /\ tapping = NoKey /\ k \notin pressed
    /\ \/ /\ SynthDone(Event(k, TRUE))
          /\ pressed' = pressed \cup {k}
          /\ tapping' = IF k \in Sticky THEN NoKey ELSE k
       \/ SynthFails(Event(k, TRUE)) /\ UNCHANGED callerVars
    /\ UNCHANGED <<sessionVars, workerVars>>

\* The second half of a tap, whatever becomes of it.
EndTap ==
    /\ tapping # NoKey /\ tapping' = NoKey
    /\ SynthDone(Event(tapping, FALSE)) \/ SynthFails(Event(tapping, FALSE))
    /\ UNCHANGED <<sessionVars, pressed, workerVars>>

\* The idle callback for a release, or one step of a drain.
Release(k) ==
    /\ tapping = NoKey /\ k \in pressed
    /\ pressed' = pressed \ {k}
    /\ IF k \in Sticky
       THEN SynthDone(Event(k, FALSE)) \/ SynthFails(Event(k, FALSE))
       ELSE UNCHANGED <<queue, deviceVars>>
    /\ UNCHANGED <<sessionVars, tapping, workerVars>>

-----------------------------------------------------------------------------
(* The worker thread: _run and _dispatch.                                   *)

\* The session's order, the backend that worked last in front.
Order ==
    LET all == IF wayland THEN <<"ydotool", "portal", "xdotool">>
                          ELSE <<"xdotool", "ydotool", "portal">>
    IN  IF backend = NoBackend THEN all ELSE <<backend>> \o RemoveFirst(all, backend)

\* The portal takes any keysym; that it is missing or denied shows in its first use.
Usable(b, k) ==
    /\ b \notin failed
    /\ CASE b = "xdotool" -> k \in Named /\ b \in Installed
         [] b = "ydotool" -> k \in Coded /\ b \in Installed
         [] OTHER -> TRUE

\* Those of the three that can, in that order.
UsableFor(k) ==
    LET Try(i) == IF Usable(Order[i], k) THEN <<Order[i]>> ELSE <<>>
    IN  Try(1) \o Try(2) \o Try(3)

\* No backend can take the head of the queue.
DispatchNowhere ==
    /\ ~busy /\ queue # <<>>
    /\ UsableFor(Head(queue).key) = <<>>
    /\ queue' = Tail(queue)
    /\ exhausted' = TRUE
    /\ UNCHANGED <<sessionVars, callerVars, todo, busy, backend, failed, deviceVars>>

BeginDispatch ==
    /\ ~busy /\ queue # <<>>
    /\ UsableFor(Head(queue).key) # <<>>
    /\ todo' = UsableFor(Head(queue).key)
    /\ busy' = TRUE
    /\ UNCHANGED <<sessionVars, callerVars, queue, backend, failed, exhausted, deviceVars>>

\* Bug: what was left to try for one event is left over for the next.
TakesAndKeepsOn ==
    /\ busy /\ busy' = FALSE
    /\ Reaches(Device(Head(todo)), Head(queue))
    /\ backend' = Head(todo)
    /\ queue' = Tail(queue) /\ todo' = Tail(todo)
    /\ UNCHANGED <<sessionVars, callerVars, failed, exhausted>>

\* The backend in front takes the event.
BackendTakes ==
    /\ busy /\ busy' = FALSE
    /\ Reaches(Device(Head(todo)), Head(queue))
    /\ backend' = Head(todo)
    /\ queue' = Tail(queue) /\ todo' = <<>>
    /\ UNCHANGED <<sessionVars, callerVars, failed, exhausted>>

\* Bug: the event of a backend that failed is dropped.
FailureDrops ==
    /\ busy /\ busy' = FALSE
    /\ failed' = failed \cup {Head(todo)}
    /\ queue' = Tail(queue) /\ todo' = <<>>
    /\ UNCHANGED <<sessionVars, callerVars, backend, exhausted, deviceVars>>

\* It fails, perhaps by a timeout after it did its work; with the last one the
\* event is lost.
BackendFails ==
    /\ busy
    /\ \/ Reaches(Device(Head(todo)), Head(queue))
       \/ UNCHANGED deviceVars
    /\ failed' = failed \cup {Head(todo)}
    /\ IF Len(todo) = 1
       THEN /\ busy' = FALSE /\ todo' = <<>> /\ queue' = Tail(queue)
            /\ exhausted' = TRUE
       ELSE /\ todo' = Tail(todo)
            /\ UNCHANGED <<busy, queue, exhausted>>
    /\ UNCHANGED <<sessionVars, callerVars, backend>>

-----------------------------------------------------------------------------
Next ==
    \/ \E k \in Keys : Press(k) \/ Release(k)
    \/ EndTap
    \/ DispatchNowhere \/ BeginDispatch \/ BackendTakes \/ BackendFails

Spec == Init /\ [][Next]_vars
-----------------------------------------------------------------------------
\* Type invariant.
TypeOK ==
    /\ wayland \in BOOLEAN /\ hook \in BOOLEAN
    /\ pressed \subseteq Keys /\ tapping \in Keys \cup {NoKey}
    /\ queue \in Seq(Events) /\ todo \in Seq(Backends)
    /\ busy \in BOOLEAN /\ (busy <=> todo # <<>>) /\ (busy => queue # <<>>)
    /\ backend \in Backends \cup {NoBackend}
    /\ failed \subseteq Backends /\ exhausted \in BOOLEAN
    /\ held \subseteq Devices \X Keys /\ used \subseteq Devices

Quiescent == queue = <<>> /\ tapping = NoKey

\* As long as the injector is the better path, has not given up and only one
\* device was used, the keys down are the modifiers the extension tracks: the
\* queue, failing backends and taps leave no key stuck and lift none early.
NothingStuck ==
    Quiescent /\ PreferInjector /\ Cardinality(used) <= 1
        => held = used \X (pressed \cap Sticky)

\* With every backend out of order and nothing left to dispatch the injector
\* has given up: keys do not go on being queued for nobody.
GivesUpInTime ==
    ~busy /\ Installed \cup {"portal"} \subseteq failed => exhausted
=============================================================================
