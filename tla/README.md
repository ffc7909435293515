# Orca Remote: TLA+ models, model checking and proofs

Orca Remote is an extension of the Orca screen reader that speaks the NVDA Remote
protocol. Two machines join a channel of a relay server. The *master* (role `client`)
forwards keystrokes, and hears the speech and reads the braille of the *controlled*
machine (role `host`), which injects the keys. This directory holds TLA+ models of the
parts of the program that have concurrency, ordering or failure in them, the TLC
configurations that check them, and proofs for TLAPS.

All paths below are relative to the repository root.

## The system

One `RemoteExtension` object (`remote.py`) lives in Orca's process. Three threads meet in it:

| thread | runs | how it is reached |
|---|---|---|
| GLib main thread | keyboard events, user commands, idle callbacks, speech and braille hooks | `GLib.idle_add` appends to a FIFO queue of equal priority |
| asyncio loop thread | the `RemoteTransport` task, `send()`, `_on_message` | `call_soon_threadsafe`, `run_coroutine_threadsafe`: a FIFO ready queue |
| injector thread | `KeyInjector._run`: external key tools | a `queue.Queue` |

The GLib thread blocks on the loop thread in one place: `_stop_transport` waits for
`stop()`, at most two seconds. The other two threads never wait for the GLib thread.

| component | state it keeps | operations | interacts with |
|---|---|---|---|
| Host key synthesis (`remote.py` 1848-2104) | `_pressed_keysyms` | inbound key frames, idle callbacks that press, tap, refuse or release, drains | the transport calls it, it calls `_synth`, X delivers its keys back to Orca |
| Key injection (`inject.py`, `_synth`) | worker queue, preferred backend, failed backends, `exhausted` | `send`, `_dispatch` over xdotool, ydotool, portal | host key synthesis |
| Master key forwarding (`remote.py` 744-966, 1092-1155) | `_master_orca_mods_down`, `_focus_on_remote`, `_key_grab`, `_forwarded_keys_down` | `_on_keyboard_event`, `switch_side`, `_leave_remote_focus` | key grab, transport queue |
| Relay transport (`transport.py`) | task, `_stop_event`, `_writer`, backoff attempt | `start`, `stop`, `send`, `_run`, `_connect_and_read` | calls back `on_message`, `on_disconnected` on the loop thread |
| Session life cycle (`remote.py` 324-556, 1056-1127, 1314-1552) | `_transport`, loop thread, `_announced_join`, `auto_connect` | set up, connect, disconnect, disable, settings changes | starts, stops and replaces transports |
| Speech, braille, tone mirroring (`remote.py`) | last spoken and brailled text, `_sent_braille_info` | outbound hooks, inbound messages | transport, Orca |
| Clipboard, fingerprint (`remote.py`) | none between calls | push clipboard, send fingerprint | transport |
| Settings (`remote.py` 1390-1440, `settings_dialog.py`) | the JSON file | load, save, dialog subprocess | session |
| Codec and key tables (`protocol.py`, `keymap.py`, `braille_table.py`) | none | encode, decode, keysym to vk and back | all |
| Legacy relay server (`orca-scripts/local_server.py`) | clients, channel lists | start, stop, accept, join, relay, leave | legacy transports |
| Legacy transport (`orca-scripts/transport.py`) | `server_sock`, `queue`, `queue_thread`, `connected` | connector thread `run`, sender thread `send_queue`, `send`, `close`, `reconnect` | relay server, controller |
| Legacy controller and customizations (`remote_controller.py`, `orca-customizations.py`) | control state, `connected_clients`, `_forwarded_keys_down`, `_direct_shortcut_keys_down`, keyboard grab | patched `KeyboardEvent.process`, shortcut handlers, toggle, disconnect | transport, local machine, Orca |
| Legacy local machine (`local_machine.py`) | `_held_keys`, the portal injector's flags and lock | `send_key`, `release_all_keys`, `_inject`, `_ensure_session` | controller, desktop |

The legacy plug-in (`orca-scripts/`, `orca-customizations.py`) is the predecessor of the
extension and is shipped beside it. It has no event loop: each connection of the transport
has a reader (the connector thread) and a sender thread, the relay server has an accepting
thread and one thread per client, and key events and shortcuts run on Orca's main thread.

### What is hard, and what makes each part correct

- **Host keys.** Frames, drains and link-loss callbacks interleave in one idle queue; the
  loop thread goes on queueing while the GLib thread is blocked in a stop; every injection
  may fail, and a tap may fail halfway. Correct means: X holds only what the extension
  still tracks; a vanished master's modifiers come up; a remote chord never runs one of
  this extension's own commands.
- **Injection.** A queued event counts as done; backends fail one by one, time out after
  they injected, and drive different devices. Correct: no key sticks, and the injector
  gives up when (and only when) nothing works.
- **Master keys.** The user may change focus, lose the link, or restart the transport
  between the press and the release of any key, and a key may change its keysym while it
  is held. Correct: no half of a pair is forgotten, releases precede the teardown, our own
  chords stay local, the keyboard is given back.
- **Transport.** `stop()` may cancel the task at every await, and before Python 3.12
  `asyncio.wait_for` may swallow the cancellation. Correct: each drop is reported once,
  `stop()` is final and returns, key frames survive congestion, retries never end.
- **Mirroring.** The braille bookkeeping is written by two threads without a lock, frames
  are remembered as sent when they are only scheduled, and equal utterances may be one
  event or two. Correct: a master that joins gets the next line and its dimensions, a
  cancel never silences the answer to its own key, each key is answered.
- **Legacy relay server.** Only the lists are locked; notices and relays go out from
  snapshots, so sends of different threads interleave with joins and departures, and
  instances overlap when the server is restarted. Correct: nobody is missed, nobody who
  left stays in a list, a relay reaches each live member once, one dead peer costs the
  others nothing.
- **Legacy transport.** The user's `close()` and the connector's clean-up may be inside
  `_disconnect` at once, with a sender that only a token in the queue stops. Correct: one
  sender per queue, no socket, sender or greeting left of a connection that ended, frames
  in order, `close()` returns.
- **Legacy keys.** Control comes and goes in the middle of chords, by a toggle, another
  shortcut, or a lost link of either side; the portal asks the user before it injects, and
  sessions end, and each call that injects may fail. Correct: a key let go of has its release
  injected at the other end, on the keyboard that has it as long as no call fails; a refusal
  is final.
- **Session.** Waits time out, so an old transport's callbacks meet its successor.
  Correct: no transport escapes the reference that stops it, one announcement per intent.

`PROJECT.json` lists every hazard at its line with the properties that guard it.

## Modules

| module | what it is | code |
|---|---|---|
| `HostKeys` | the controlled machine: idle queue, held keys, X server, transports | `remote.py` 1581-1603, 1848-2104 |
| `Injector` | `_synth`, worker queue, backends, devices | `inject.py` 313-428, `remote.py` 1906-2012 |
| `MasterKeys`, `MCMasterKeys` | the controlling machine: keyboard, focus, grab, send queue, link; a keyboard for TLC | `remote.py` 744-966, 1092-1155, 2094-2104 |
| `Link` | abstract: what one transport promises its owner | |
| `Transport`, `MCTransport` | the asyncio task, at the grain of what runs between two awaits; the backoff schedule | `transport.py` |
| `Session` | commands, restarts, two transport objects seen through `Link`, announcements, focus | `remote.py` 448-556, 1056-1127, 1314-1552 |
| `HostMirror` | what the controlled machine sends back: speech, braille, cancels | `remote.py` 388-421, 558-613, 885-966, 1591-1597, 1848-1904, 2091-2104 |
| `LocalRelay` | the legacy relay server's threads and lists, two instances of it, the peers' rosters | `orca-scripts/local_server.py` 121-371, `orca-customizations.py` 600-620, `remote_controller.py` 178-224 |
| `LegacyTransport`, `MCLegacyTransport` | connector, sender and user threads of the legacy transport | `orca-scripts/transport.py` |
| `LegacyKeys` | the controlling legacy machine: key events, shortcuts, control state, grab | `orca-customizations.py` 361-595, 667-674, `remote_controller.py` 103-114, 178-187 |
| `LocalMachine`, `MCLocalMachine` | the controlled legacy machine: two threads that inject through shared backends | `orca-scripts/local_machine.py` 283-460, 721-836, `remote_controller.py` 125-132 |
| `LegacyControl`, `MCLegacyControl` | the two machines joined by the frames on the wire | `remote_controller.py` 279-289 |
| `HostKeysProofs`, `MasterKeysProofs`, `TransportProofs`, `SessionProofs`, `HostMirrorProofs`, `InjectorProofs`, `LocalRelayProofs`, `LegacyControlProofs` | theorems and their proofs | |

An action is a callback, a command, or what a task does from one await to the next.
`_stop_transport` is split at its blocking wait: `BeginStop`/`EndStop` in `HostKeys`,
`StopAnd`/`WaitEnds` in `Session`. `_synthesize_key_idle_cb` is split into one action per
outcome (`RunRefusedPress`, `RunFailedPress`, `RunStickyPress`, `RunTap`, `RunRelease`).
Definitions whose comment starts with "Bug:" are variants of the definition after them;
no specification uses them. They document which mistake each property detects.

The models divide the system like this:

- `Transport` implements `Link` (refinement mapping `LinkOf`), and `Session` uses
  transports through that promise: backoff and dial are one state, `down`.
- `HostKeys` sees `_synth` as one step that succeeds or fails; this is exact for the XTEST
  hook. `Injector` opens that step for the external backends, where the answer is always
  "queued" and the work comes later. What it shows about held keys replaces, for that
  path, `HeldIsAccounted`.
- `MasterKeys` sees the connection as `down` or `up` with one queue in front of it. A loss
  of connection clears what its frames hold: the relay tells the host, which drains
  (`ClientLeft` and `RunDrain` in `HostKeys`).
- `LegacyControl` is a composition: its actions are those of `LegacyKeys` (instance `M`) and
  `LocalMachine` (instance `S`) and the delivery of a frame, which is the one place where
  the two meet. `LegacyTransport` and `LocalRelay` open what it abstracts: the wire is a
  FIFO that loses its tail when a link ends or is closed, and a member that is not there
  is skipped.
- A keysym, a Windows key or a message is a model value. The tables that relate them are
  constants, so the theorems hold for every keyboard.

Deliberate choices:

- In `HostKeys`, `XPress` judges chords by what X holds without the keys of `lost` (those
  whose release could not be injected): the code cannot know about them.
- In `MasterKeys`, grabbing may fail, and the keyboard delivers events whether it is
  grabbed or not; consuming an event depends on focus, not on the grab, as in the code.
- A key event carries the modifier state that `BypassChord` reads, with Shift selecting
  the level by its state before the event, as X does.
- In `Session`, a transport object nothing refers to may be allocated again, so two
  identities stand for any number of restarts.
- In `HostMirror`, the braille callback is cut after every access to what the loop thread
  also writes (`_last_outbound_braille`, `_sent_braille_info`), and `client_joined`
  between its two resets. `peer` stands for the least informed master in the channel, so
  whoever may have joined during an outage is `Ignorant`. Braille lines and utterances
  are model values; `text_to_cells` shows only in `Blank`, the line without cells.
- In `LegacyTransport`, `_disconnect` is cut wherever another thread can see or change
  what it uses (`ShutSocket`, `CheckSender`, `PutStop`, `Join`, `Await`, `Forget`,
  `Clear`); `Join` reads `queue_thread` a second time, as line 190 does, and `Await` waits
  for the thread it named then. A connection takes a number, and `wire` keeps the numbers
  of the frames sent on it. `Start` takes lines 57-59 in one step, and `Connect` the
  return of `connect()` with the flag. `MCLegacyTransport` is its instance under names
  that can stand beside `Transport`'s, so that one module can hold the theorems about
  both.
- In `LocalRelay`, a send is one step; `out` holds what a client's thread has still to send,
  from the snapshot it took under the lock. A handshake in progress when `stop()` runs does
  not register afterwards. A peer's controller is part of the model only
  through its roster and the last frame it had of each talker.
- In `LocalMachine`, a machine (`Setups`) has a session, the tools that are installed, and
  the keys that have a keycode or a keysym. Each single call may fail besides, up to
  `MaxFaults` times: a tool exits with an error, is gone, or runs into its timeout, and
  the portal's call fails, which ends the session for the injector; each before its
  effect or after it (`CallFails`). The event then goes on to the next backend, or is given
  up. What an ended session's virtual keyboard still holds is in `down["former"]`, which
  no later release reaches. The set-up is one wait that ends in `started`, `denied`
  (refused at its Start request) or `unavailable`; what matters is that the lock is held
  meanwhile and that the main thread dispatches the answer. A refusal of an
  earlier request is left out: of `CreateSession`, where the set-up then fails besides, and
  of `SelectDevices`, after which the code goes on to `Start` and may be granted.
  `owed` and `faults` are history: which keys went down and have had no release injected
  since, and how many calls failed.
- In `LegacyKeys`, whether an event completes a shortcut is chosen freely, so every order of
  modifiers is covered; a shortcut's handler is split where it touches state the
  transport's thread writes. A key that no Windows key stands for (`Mapped`) is consumed and
  not sent. `emptied` is history: the keys whose last frame was a release that the user's
  disconnect emptied with the queue. A `reconnect()` from the dialog is left out on this
  side; `LegacyTransport` has it.
- In `Injector`, a dispatch step may time out after its effect (`BackendFails` with
  `Reaches`), and xdotool shares its device with XTEST. `Release` is taken for a pressed key;
  the stray releases of lines 1984-1988, which the code injects too, lift nothing.

## Runs

`tlc -workers 2 -config X.cfg M` for each. Deadlock is checked in all but `transport`,
whose task ends, and in `local_relay`, `legacy_transport` and `legacy_disconnect`, whose
clients, connections and frames are used up or which is about waiting for ever.

| run | bounds | what it shows |
|---|---|---|
| `host_keys` | `ins` (Orca modifier), `ctrl`, `c` (trigger of Orca+Ctrl+C), 2 transports, idle queue 2 plus drains | see below |
| `master_keys` | 5 physical keys, send queue 1 plus releases, 1 unprocessed loss | see below |
| `transport` | 3 connections, 4 frames each, buffer 2, one key pair and one speech frame | see below |
| `session` | 2 transport objects, idle queue 2, loop queue 3 | see below |
| `host_mirror` | 2 braille lines and the blank one, 1 utterance (so every one is a repeat), 2 key presses, loop queue 2, idle queue 2, one join under way at a time | see below |
| `injector` | 3 keys: two modifiers, of which `fn` has no evdev code, and a tapped key; 3 backends; queue 2 | see below |
| `local_relay` | 3 clients, 1 channel, 2 server instances, 1 talker with 1 frame; a connection joins once | see below |
| `legacy_transport` | 2 connections, 2 frames, 1 `close()` or `reconnect()`, 1 frame after a `reconnect()` | see below |
| `legacy_control` | 2 keys: one in every shortcut, which no Windows key stands for, and one in none; 1 frame on the wire; Wayland with ydotool, X11 with xdotool and a portal that can or cannot name the key; 2 failing calls; after a lost link the controlling machine does not connect again | see below |
| `master_bypass`, `session_focus`, `legacy_disconnect` | as the passing runs (`master_bypass` with 3 keys); 1 key for `legacy_disconnect` | a statement of a doc or comment the code contradicts |

**host_keys.** `HeldIsAccounted`: X holds exactly the tracked modifiers and those whose
release failed. `OwnCommandsNotFired`: no order of frames, refusals, taps and drains makes
X deliver one of our own chords to Orca. `DrainPending`: a press that was received before
the drop cannot be injected after the release; `NothingHeldAfterLinkLoss` follows and is
proved. `LinkLossReleases`: the release happens, also when a stop times out. A chord
of two modifiers and a trigger is the shortest own chord; the third modifier of
Orca+Ctrl+Shift chords is another conjunct of the same test. Two transports are needed and
enough for a new link that overlaps the teardown of an old one.

**master_keys.** The keyboard has an Orca modifier and an Alt modifier that no Windows key
stands for, Ctrl, Shift, and a key that is one trigger of ours without Shift and another,
under another Windows key, with it. So a trigger can be pressed before its modifiers, and
a key pressed under one Windows key be released under another. `HeldAreTracked`: every key
the peer may hold is in `_forwarded_keys_down`, or a release or teardown behind its last
press is queued. `ReleasedBeforeStop`: a teardown meets a connection over which everything
was released. `OwnChordsStayLocal`: the trigger of an own chord of each of the three kinds
(Orca+Ctrl, Orca+Ctrl+Shift, Orca+Alt) is not forwarded while its modifiers are held,
however these were pressed before focus moved. It speaks of Orca modifiers that deliver
the same keysym with Shift as without (`SteadyMod`), and of keyboards on which no other
key goes out under the Windows key of a trigger (`TriggersComplete`). What is a trigger is
decided by the keysym: Shift+Tab is `ISO_Left_Tab`, which is none, and Orca+Alt+Shift+Tab
is forwarded. `GrabGivenBack`: a lost connection gives the keyboard back. `FocusOwnsKeys`
and `NothingHeldWhenLocal` are proved. A press or a stop needs a free place in the queue;
releases always fit, so the bound never keeps the program from cleaning up.

**transport.** `ReportedOnce`: whichever await a cancellation hits, each connection is
reported lost once. `KeysReachWire`: handshake first, and the key frames on the wire are
those handed to `send()`, each once and in order, also when congestion drops what is
between them. `StopIsFinal`, `StopReturnsEventually`: `stop()` returns and leaves
nothing running. `BackoffEscalates` compares each delay with the one before it over
reconnects that fail, close cleanly, or are reset. `Redials`: retries never end without a
stop. `ImplementsLink`: the refinement, with `Link`'s liveness. Three connections suffice
because nothing but the two counters survives a connection except `attempt`, which
failing dials alone drive to its cap.

**session.** `NoOrphan`: a transport that runs, or is queued to, is the one `_transport`
names, or a stop for it is queued or begun. `OrphansEnd`: it does go away, also when the
two-second wait gave up. `AnnouncedOnce`: at most one announcement per user intent.

**host_mirror.** `RepeatsAreShown`: what the repeat check compares with is shown by every
master in the channel, or on its way, wherever a join cuts into the braille callback; this
rests on the line being remembered before it is queued (the variant `QueuesFirst` of
`StepAfter` breaks it). It excepts lines that were dropped, which the code does not send
again. `CancelsFirst`: a cancel is never behind the speech its key provoked.
`KeysAreAnswered`: what Orca says first after a key is sent, even if it repeats what was
said before the key. Two presses are needed for one to be answered late, between the
other's cancel and answer; the two lines for one to replace the other in the queue.

**injector.** All four combinations of Wayland and XTEST. `NothingStuck` is about the times
in which the injector is the better path and one device was used: then the keys down are
exactly the tracked modifiers once the queue is empty. Outside them the code makes no
promise (see the hazards about the preferred backend and the overtaking XTEST path).
`GivesUpInTime`: once no backend is left the caller is told to fall back, so keys are not
queued for nobody.

**local_relay.** `NoGhosts`: a client is only in the list it joined, once, and only between
joining and leaving. `RosterComplete`: of two members of a channel each knows the other or
is about to be told, however the sends of their threads interleave with a third's
departure. `RelayExact`: what a talker sends reaches every live member once and without
gaps, also past a peer that died, and beginning with the first frame after the join.
Three clients are one that joins, one that leaves and one that talks at the same time; two
instances let a restart leave clients of the old one behind. Frames of one sender are sent
by one thread, so a single one shows what can happen to it. `DeparturesComplete`: however
the clients come and go, the server gets round to every departure.

**legacy_transport.** `OneSender`, `NothingLeftBehind` (the comment at lines 171-173 says
what went wrong before): whoever ran `_disconnect`, or both at once, no socket, no sender
and no queued greeting of a connection survives it. The queue itself need not be empty: a
frame whose `send()` had tested the flag before, or a `None` that one thread put behind the
other's `clear_queue`, stays for the next sender. `WireInOrder`: no connection carries the
user's frames out of order, those left over from the one before included.
`CloseIsAnswered`: while `close()` waits for a sender that lives, the `None` for it is on
the queue, although the connector's `clear_queue` empties that queue without asking; so
`close()` comes back (`FirstCloseReturns`). All five are stated up to the moment when a
`reconnect()` starts a second connector (`OneConnector`), the last steps of that `close()`
included: after it the first connector may still be inside `run`, two senders share the
queue, and none of the five holds. Frames are sent after a `reconnect()`, too; with two
senders one that the first has in hand may go out, over the new connection, behind a later
one. Two connections are one that ends and its successor; a third meets nothing that the
second does not. The run has 739,356 states.

**legacy_control.** `DownIsAccounted`: until a link is lost, each key down on a virtual
keyboard of the controlled end is one the controlling user still controls, or its release
is on its way. There are two exceptions, and both are named in the formula: a key whose
release was injected and missed it because some call failed (`Amiss`), and a key whose
release the user's disconnect queued and then emptied with the queue (`emptied`). The
user's disconnect is no disturbance otherwise: what it does not queue, or what was sent
before it, is held to the property. `KeysComeUp`: with the same exceptions, a key that was
let go of does come up. `NothingHeldUnlinked`: whatever the links, the tools and the portal
do, when the controlled machine's own link has ended and its reader is done, the release
of every key that went down has been injected, and if no call failed nothing is down.
`RefusalIsFinal`: after a refusal on Wayland no backend presses anything. Two keys are
needed for a shortcut to be completed while another key is down; two failures for a press
and its release to fail apart. The steps of the user's own disconnect on the controlled
machine are in `legacy_disconnect` only. Deadlock is checked. The run has 778,362 states.

### Disagreements between code and comments

Each is a run that must end in a violation.

- `master_bypass`, `HeldOnlyWhileDown`. The bypass test comes before the pairing test. A
  trigger key pressed for the peer, then Orca and Ctrl pressed, then the trigger released:
  the release completes a bypass chord, is passed to the local side, and the peer holds
  the key until focus leaves. `transport.py` 202-203 asks that both halves reach the peer.
- `session_focus`, `FocusLostWithItsLink`. The queued loss report of a replaced transport
  drops the focus of its successor.
- `legacy_disconnect`, `DisconnectCompletes`. The reader sets up the portal session: it holds
  the injector's lock and waits for an answer that the main thread's main context
  dispatches, as it does the 300 s timeout that stands in for it. The user disconnects, on
  the main thread; `release_all_keys` enters the same injector and waits for the lock.
  Neither moves again.

Other disagreements were met and are described in the hazards, without a run: the grab taken
without a transport (`remote.py` 1117 and 1148), the announcement used up by a replaced
transport's join (1066), the braille dimensions not sent again (928 and 406), and
`exhausted` set by one key that no backend can name (`inject.py` 347 and 324).

Four more are in the modules and in no run; TLC refutes each as described.

- `ShortcutsUnstick` of `LegacyControl` is `DownIsAccounted` without the exception for the
  user's disconnect. The user presses a key for the other machine and then the disconnect
  shortcut: `_disconnect` queues the release (`orca-customizations.py` 670) and closes the
  transport at once, which empties the queue (`orca-scripts/transport.py` 192). The key
  stays down. Line 317 promises to "send synthetic key-up events and un-stick them on the
  remote machine"; the other end releases nothing on `client_left`
  (`remote_controller.py` 218), only when its own link ends.
- `NothingHeldUnlinked` of `LocalMachine`, with `UserDisconnect` on the main thread: the
  release of all keys goes over a snapshot and then clears the set (`local_machine.py`
  752-754), so a key frame that the reader handles in between stays down untracked. One
  key and no failing call are enough.
- `WireInOrder` of `LegacyTransport` without `OneConnector`: see **legacy_transport** above.
- `CloseReturns` of the same module, as follows.

`CloseReturns` of `LegacyTransport` is `FirstCloseReturns` without its premise, and TLC
refutes it on that module with `FairSpec`, `MaxConns = 2`, `MaxFrames = 0`, `MaxLate = 0`,
`MaxCloses = 2` and `MaxReconnects = 1`. The user reconnects while the first connector
dials. It ends up connected all the same, with a sender on the common queue, and the
connector that `reconnect()` started brings a second one. The next `close()` queues one
`None`: the first sender takes it, the user's thread joins the second (`transport.py`
190), and waits for as long as the new connection lives. A test is named "disconnect
unblocks sender before joining" (`test_scripts_transport.py` 62); it has one sender.

### Fairness

- GLib runs its idle callbacks (`RunIdle`, `RunDisconnected`): Orca's main loop.
- The wait in `_stop_transport` ends (`EndStop`, `WaitEnds`): it has a timeout.
- asyncio runs its ready queue (`RunLoop`), delivers cancellations (`Cancelled`) and fires
  timers (`BackoffElapses`); `wait_closed` returns (`Closed`), because the peer answers or
  TLS shutdown times out.
- In `Session` a transport that was told to stop drops and ends, which is what
  `StopReturnsEventually` and `Link` say of it.
- In the legacy modules every thread that can step does in the end, and calls may go on
  failing up to their bound. A question of the portal
  is answered or runs into its timeout, where the main thread is free to dispatch it; the
  relay delivers what is on the wire.
- Nothing is assumed of the user, the peer, the network, the relay or the dial. All
  fairness is weak.

## Proofs

`tlapm M.tla` for each of the proof modules. They assume only the named assumptions on
constants (`KeysAssumption`, `MasterAssumption`, `TransportAssumption`,
`SessionAssumption`, `MirrorAssumption`, `InjectorAssumption`, `RelayAssumption`,
`LegacyControlAssumption`, `LegacyTransportAssumption`); keys, keyboards, chords,
transports, clients, channels, schedules and bounds are arbitrary. The one assumption that
says more than types and finiteness is that the backoff schedule is increasing and starts
above zero, as the literal at `transport.py` 27 is; `LegacyControlAssumption` also has
what a setup is: its tools are known ones, its session X11 or Wayland, and a key with a
keycode can be named to the portal, as in `send_key` (`local_machine.py` 295-299).
`OwnChords` has one hypothesis of its own, about the keyboard.

- **HostKeysProofs**: `TypeCorrect`, `Accounted`, `NoOwnCommand`, `AlwaysDrainPending`,
  `NothingHeld`. `HeldIsAccounted` is inductive with the type invariant.
  `OwnCommandsNotFired` needs it: the chord test reads `pressed`, X judges by what it
  holds, and the two agree on modifiers only because of it. `NothingHeldAfterLinkLoss` is
  not inductive; `DrainPending` is its strengthening (each press in the queue, and
  whatever is held, has a drain behind it), and appending and removing at the two ends of
  the queue are lemmas of their own.
- **MasterKeysProofs**: `Strengthened` proves `IInv`, from which `NoHalfForgotten` and
  `CleanTeardown` follow; `OnlyInFocus` and `NothingHeldLocally` with it. `HeldAreTracked`
  alone is not inductive: the head of the queue may be a stop, and then one must know that
  everything pressed before it has its release before it (`StopsAreClean`), and that a
  connection that is not up holds nothing. Lemmas say what appending and taking does to
  `Covered`. `OwnChords` proves the action property `OwnChordsStayLocal` for all
  three kinds of chords. Its invariant `ModsKnown` says that each steady Orca modifier the
  user holds is in `_master_orca_mods_down`; that is false of a modifier that delivers
  another keysym with Shift (the keypad's Insert does), and so the property speaks of
  `SteadyMod` keys. The hypothesis, `TriggersComplete`, says that no key which is not a
  trigger goes out under the Windows key of one; the tables of triggers name Page Up and
  Page Down of the keypad, too. TLC evaluates for the keyboard of the run that the
  hypothesis holds and that a steady modifier exists (`KeyboardTriggers`,
  `KeyboardHasMod`).
- **TransportProofs**: `TypeCorrect`, `ReportsExact`, `StopFinal`, `Escalates`,
  `KeysInOrder`, and `Implements`, the safety half of
  the refinement: `Spec` implies `LinkOf!Init /\ [][LinkOf!Next]_LinkOf!vars`.
  `BackoffEscalates` compares two delays and the code keeps only a number of attempts, so
  its proof goes through `DelayFits`: the delay is the entry of the schedule that the number
  stands for. `KeysInOrder` counts nothing: `Carries` says that an increasing
  function takes the keys `send()` was given to their places on the wire, and that no
  other place has a key; appending a key to both extends the function by one (`CarriesKey`).
- **TransportProofs**, the legacy transport (`L` of `MCLegacyTransport`): `LegacyTypeCorrect`,
  `LegacyOneSender`, `LegacyNothingLeftBehind`, `LegacyCloseAnswered`, `LegacyWireInOrder`.
  `_disconnect` takes no lock, and what makes it safe for two threads is where each of them
  can be, which none of the properties says. `Alone` says it, for as long as there is one
  connector. `Started`: the connector is told to end before the user's thread disconnects,
  so it cannot dial while that thread is at a sender. `SenderNamed`: the sender there is is
  the one that `queue_thread` names and that anybody waits for, and whoever forgets it or
  clears the queue has seen it end; `SocketNamed` the same of the socket. `GreetingCleared`:
  a queued greeting has a `clear_queue` ahead, also where the user's thread had the connector
  die between its two reads of `queue_thread`. `Answered`: the `None` outlives the
  connector's `clear_queue`, which runs only when no sender lives. `WireInOrder` needs the
  order of everything between `send()` and the wire (`Ordered`), and that at most one sender
  has a frame in hand; like the rest it is in force under `OneConnector`.
- **SessionProofs**: `Strengthened`, `NeverOrphaned`, `OneAnnouncement`. `NoOrphan` needs
  `QueueInv`: no start is queued behind a stop of the same object, so an object that is
  doomed is never started again.
- **HostMirrorProofs**: `TypeCorrect`, `CancelsGoFirst`, `RepeatsShown`, `KeysGetAnswers`.
  `RepeatsAreShown` is about the moments when nothing is queued or under way; what is
  inductive is `LineFollowed`, which follows the remembered line from the callback through
  the queue (it is the last display there) to the peer, or to where it was dropped.
  `CancelsFirst` needs to know that nothing is tagged with a press still to come
  (`PressBound`).
- **InjectorProofs**: `TypeCorrect`, `InjectorGivesUp`, `NoKeyStuck`. `NothingStuck` is about
  an empty queue; what is inductive is `Tracked`: with one device in use each key will be
  as it is wanted, because the last event queued for it brings it there, or because it is
  there already. A press that times out after its effect leaves the event at the head, so
  the key may be down early but its last event decides. `GivesUpInTime` needs `TodoSound`:
  what is left to try for an event has not failed and is tried once.
- **LocalRelayProofs**: `ListsExact`, `RostersComplete`, `RelaysExact`. `NoGhosts` is not
  inductive alone: it also needs that a
  client whose thread runs was accepted by an instance, and that a thread has sends pending
  exactly while it is relaying or leaving. That no list has a client twice, which is part of
  it, is what makes the removal of one occurrence remove the client.
  The other two rest on it and on what the pending sends are (`NoticesSound`): a departure is
  told by the leaver's own thread, when it is in no list any more, and a frame that is still
  to be sent is its talker's latest. What appending and removing one element do to a list
  are lemmas of their own.
- **LegacyControlProofs**: `Strengthened`, and from it `TypeCorrect`, `KeysAccounted`,
  `NoneHeldUnlinked`, `Refused`; and `Grabbed`. The invariant `IInv` has three layers
  above the shape of the state (`Shape`) and of the portal's flags (`Asking`). `Keeping`
  holds whatever fails: each key in `owed` is in `_held_keys`, or its release is among
  what the reader has still to inject (`Remembered`); at the end of a link the second is
  all that is left, and after it nothing (`Unlinked`). `Clean` holds until a call fails: a
  key that is down is down on the first backend that takes it, all before it having let it
  pass (`OneKeyboard`, per key), the injection under way has passed the same ones
  (`Position`), and what is down is owed a release (`Owing`). So a release comes to the
  keyboard that has the key. `Undisturbed` holds until a link is lost: a press on the wire
  or with the reader, and a key that is owed a release, is of a key the controlling user
  has in hand, or its release is behind it, or the user's disconnect has emptied it
  (`Sound`). `KeysAccounted` puts the layers together: a key that is down and not owed had
  a call fail; one that is owed is accounted for by `Sound`. `Refused` is a statement
  about steps: a step that presses a key is the reader's, and after a refusal no backend
  is left on Wayland. `Grabbed` needs none of this: the control state is set back by the
  transport's thread between the handlers' steps, and what is inductive says that only the
  handler about to update the grab may see remote control without it. TLC finds `IInv` to
  hold on the run's constants, too.

Only model-checked:

- every liveness property (`LinkLossReleases`, `GrabGivenBack`, `StopReturnsEventually`,
  `Redials`, `OrphansEnd`, `DeparturesComplete`, `FirstCloseReturns`, `KeysComeUp`) and the
  liveness half of `ImplementsLink`, since tlapm does not do `ENABLED` and fairness.

Every invariant and action property of a passing run is a theorem.

## Not modelled, and the plan

Not modelled because there is nothing for these methods to say: the GTK dialogs, log and
message wording, packaging and install scripts, the vendored helpers except the one flag
`MasterKeys` keeps of the key grab, the D-Bus dialogue inside the portal of `inject.py`
(one attempt that succeeds or fails), the legacy forwarders of speech, tones, braille and
clipboard (stateless calls), the certificate of the relay server.

Not modelled although there is something to say: a legacy connection that joins a second
channel (no peer in the repository does); sends that block in the relay server; the
start-up connection of the legacy plug-in, which has no connector and is not dialled again;
two masters in one channel (frames carry no origin the host looks at).

Planned, in this order:

1. The master's side of mirroring: the gates for inbound speech, braille and tones, tested
   on the loop thread and acted on later on the GLib thread.
2. `Settings`: truncate and rewrite against a crash and the next start.
3. `Protocol`: the key tables and the frame splitter as operators, checked against
   reference definitions over bounded inputs.
4. The two halves together: `MasterKeys`' frames as `HostKeys`' input.
