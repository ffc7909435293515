------------------------------- MODULE Session -------------------------------
(***************************************************************************)
(* How RemoteExtension starts, stops and replaces its transports (remote.py).*)
(* The user's commands run on the GLib thread, which owns the reference to   *)
(* the current transport; what starts and stops a transport is queued for    *)
(* the loop thread, and what a transport reports is queued for the GLib      *)
(* thread.  Stopping blocks the GLib thread, for at most two seconds.        *)
(*                                                                         *)
(* A transport is seen through its promise (module Link): backoff and        *)
(* dialling are one state "down".  An object nobody refers to any more may   *)
(* be allocated again.  With an Orca that stops the extension the loop and   *)
(* all its tasks disappear.                                                  *)
(***************************************************************************)
EXTENDS Naturals, Sequences

CONSTANTS Transports, NoTransport,   \* RemoteTransport objects, and None
          MaxIdle, MaxQueue          \* bounds on pending callbacks and work

ASSUME SessionAssumption ==
    /\ NoTransport \notin Transports
    /\ MaxIdle \in Nat /\ MaxQueue \in Nat

VARIABLES enabled,      \* the extension is set up and has its loop thread
          autoConnect,  \* the persisted setting
          transport,    \* _transport
          glib,         \* "idle", or what follows the wait it is blocked in
          announced,    \* _announced_join
          focus,        \* _focus_on_remote
          idle,         \* queued _transport_disconnected_idle_cb, by reporter
          loopQ,        \* queued starts and stops
          task,         \* of each transport
          stopping,     \* transports whose stop() has begun
          heard         \* whose join was announced since the last user intent

userVars == <<enabled, autoConnect>>
mainVars == <<transport, glib, announced, focus, heard>>
loopVars == <<task, stopping>>
vars == <<userVars, mainVars, idle, loopQ, loopVars>>

Live == {"down", "up", "joined", "closing", "parked"}
StartOf(t) == [op |-> "start", of |-> t]
StopOf(t)  == [op |-> "stop", of |-> t]
Work == [op : {"start", "stop"}, of : Transports]

Init ==
    /\ enabled = FALSE /\ autoConnect = TRUE
    /\ transport = NoTransport /\ glib = "idle"
    /\ announced = FALSE /\ focus = FALSE /\ heard = "nobody"
    /\ idle = <<>> /\ loopQ = <<>>
    /\ task = [t \in Transports |-> "none"] /\ stopping = {}

-----------------------------------------------------------------------------
(* The GLib thread.                                                         *)

\* Objects a new RemoteTransport may be.
Fresh == {t \in Transports : /\ task[t] = "none" /\ t # transport /\ t \notin stopping
                             /\ \A i \in DOMAIN loopQ : loopQ[i].of # t
                             /\ \A i \in DOMAIN idle : idle[i] # t}

\* Bug: the reference is assigned by the loop, after the start.
AssignOnLoop ==
    \/ transport' = NoTransport /\ UNCHANGED loopQ
    \/ /\ Len(loopQ) < MaxQueue
       /\ \E t \in Fresh : transport' \in {t, NoTransport} /\ loopQ' = Append(loopQ, StartOf(t))

\* The rest of _restart_transport: the settings may not allow a dial.
Dial ==
    \/ transport' = NoTransport /\ UNCHANGED loopQ
    \/ /\ Len(loopQ) < MaxQueue
       /\ \E t \in Fresh : transport' = t /\ loopQ' = Append(loopQ, StartOf(t))

\* Bug: stop() is queued for a transport that does not exist.
StopUnchecked(next) ==
    /\ focus' = FALSE
    /\ Len(loopQ) < MaxQueue
    /\ loopQ' = Append(loopQ, StopOf(transport))
    /\ transport' = NoTransport
    /\ glib' = next
    /\ UNCHANGED <<enabled, loopVars, idle>>

\* _stop_transport, then what its caller does: restart, disable or nothing.
StopAnd(next) ==
    /\ focus' = FALSE
    /\ IF transport # NoTransport
       THEN /\ Len(loopQ) < MaxQueue
            /\ loopQ' = Append(loopQ, StopOf(transport))
            /\ transport' = NoTransport
            /\ glib' = next
       ELSE /\ UNCHANGED glib
            /\ IF next = "restart" THEN Dial ELSE UNCHANGED <<transport, loopQ>>
    /\ UNCHANGED <<enabled, loopVars, idle>>

\* A new user intent: the next join is announced.
NewIntent == announced' = FALSE /\ heard' = "nobody"

\* Orca sets the extension up, dialling if the user was connected before.
SetUp ==
    /\ ~enabled /\ enabled' = TRUE
    /\ heard' = "nobody"
    /\ IF autoConnect THEN Dial ELSE UNCHANGED <<transport, loopQ>>
    /\ UNCHANGED <<autoConnect, announced, focus, glib, idle, loopVars>>

\* connect: nothing but the setting changes when already connected.
AlreadyConnected ==
    /\ enabled /\ glib = "idle"
    /\ transport # NoTransport /\ task[transport] \in {"up", "joined"}
    /\ autoConnect' = TRUE
    /\ UNCHANGED <<enabled, mainVars, idle, loopQ, loopVars>>

Connect ==
    /\ enabled /\ glib = "idle"
    /\ transport # NoTransport => task[transport] \notin {"up", "joined"}
    /\ autoConnect' = TRUE
    /\ NewIntent
    /\ StopAnd("restart")

\* disconnect_session.
Disconnect ==
    /\ enabled /\ glib = "idle"
    /\ autoConnect' = FALSE
    /\ NewIntent
    /\ IF transport = NoTransport
       THEN UNCHANGED <<enabled, transport, glib, focus, idle, loopQ, loopVars>>
       ELSE StopAnd("nothing")

\* The settings dialog, or a setter, changed something.
ChangeSettings ==
    /\ enabled /\ glib = "idle"
    /\ NewIntent
    /\ StopAnd("restart")
    /\ UNCHANGED autoConnect

\* The loop stops: its tasks and what is queued for it disappear.
LoopGone ==
    /\ enabled' = FALSE
    /\ loopQ' = <<>> /\ stopping' = {}
    /\ task' = [t \in Transports |-> "none"]

\* disable.
Disable ==
    /\ enabled /\ glib = "idle"
    /\ announced' = FALSE /\ heard' = "nobody"
    /\ focus' = FALSE
    /\ IF transport # NoTransport
       THEN StopAnd("disable")
       ELSE LoopGone /\ UNCHANGED <<transport, glib, idle>>
    /\ UNCHANGED autoConnect

\* stop() has finished, or two seconds have passed.
WaitEnds ==
    /\ glib # "idle" /\ glib' = "idle"
    /\ CASE glib = "restart" -> Dial /\ UNCHANGED <<enabled, loopVars>>
         [] glib = "disable" -> LoopGone /\ UNCHANGED transport
         [] OTHER -> UNCHANGED <<enabled, transport, loopQ, loopVars>>
    /\ UNCHANGED <<autoConnect, announced, focus, heard, idle>>

\* switch_side on a client; only its effect on focus matters here.
SwitchSide ==
    /\ enabled /\ glib = "idle"
    /\ focus' = ~focus
    /\ UNCHANGED <<userVars, transport, glib, announced, heard, idle, loopQ, loopVars>>

\* Bug: a lost link re-arms the announcement.
LossReannounces ==
    /\ glib = "idle" /\ idle # <<>>
    /\ idle' = Tail(idle)
    /\ focus' = FALSE /\ announced' = FALSE
    /\ UNCHANGED <<userVars, transport, glib, heard, loopQ, loopVars>>

\* _transport_disconnected_idle_cb does not know which transport it is for.
RunDisconnected ==
    /\ glib = "idle" /\ idle # <<>>
    /\ idle' = Tail(idle)
    /\ focus' = FALSE
    /\ UNCHANGED <<userVars, transport, glib, announced, heard, loopQ, loopVars>>

-----------------------------------------------------------------------------
(* The loop thread.                                                         *)

Takes(w) ==
    /\ loopQ # <<>> /\ Head(loopQ) = w
    /\ loopQ' = Tail(loopQ)
    /\ UNCHANGED <<userVars, mainVars, idle>>

RunStart(t) ==
    /\ Takes(StartOf(t))
    /\ task' = [task EXCEPT ![t] = "down"]
    /\ UNCHANGED stopping

\* Bug: the event is set, but a transport that is not connected is not cancelled.
StopsOnlyConnected(t) ==
    /\ Takes(StopOf(t))
    /\ stopping' = IF task[t] \in {"up", "joined", "closing"} THEN stopping \cup {t} ELSE stopping
    /\ UNCHANGED task

RunStop(t) ==
    /\ Takes(StopOf(t))
    /\ stopping' = stopping \cup {t}
    /\ UNCHANGED task

\* A step of the transport t itself.
Becomes(t, from, to) ==
    /\ task[t] \in from
    /\ task' = [task EXCEPT ![t] = to]
    /\ UNCHANGED <<userVars, transport, glib, focus, loopQ>>

\* The dial may complete in the very moment it is cancelled.
Opens(t) == Becomes(t, {"down"}, "up") /\ UNCHANGED <<announced, heard, idle, stopping>>

Mismatch(t) == Becomes(t, {"down"}, "parked") /\ UNCHANGED <<announced, heard, idle, stopping>>

\* channel_joined: announced if no join was since the flag was last cleared.
Joined(t) ==
    /\ t \notin stopping
    /\ Becomes(t, {"up"}, "joined")
    /\ announced' = TRUE
    /\ heard' = IF announced THEN heard
                ELSE IF heard # "nobody" THEN "twice"
                ELSE IF t = transport THEN "current" ELSE "former"
    /\ UNCHANGED <<idle, stopping>>

Drops(t) ==
    /\ t \in stopping \/ Len(idle) < MaxIdle
    /\ Becomes(t, {"up", "joined"}, "closing")
    /\ idle' = Append(idle, t)
    /\ UNCHANGED <<announced, heard, stopping>>

Closed(t) ==
    /\ t \notin stopping
    /\ Becomes(t, {"closing"}, "down")
    /\ UNCHANGED <<announced, heard, idle, stopping>>

Ends(t) ==
    /\ t \in stopping
    /\ Becomes(t, {"down", "parked", "closing"}, "none")
    /\ stopping' = stopping \ {t}
    /\ UNCHANGED <<announced, heard, idle>>

RunLoop == \E t \in Transports : RunStart(t) \/ RunStop(t)

-----------------------------------------------------------------------------
Next ==
    \/ SetUp \/ AlreadyConnected \/ Connect \/ Disconnect \/ ChangeSettings
    \/ Disable \/ WaitEnds \/ SwitchSide \/ RunDisconnected
    \/ RunLoop
    \/ \E t \in Transports : \/ Opens(t) \/ Mismatch(t) \/ Joined(t)
                             \/ Drops(t) \/ Closed(t) \/ Ends(t)

Spec == Init /\ [][Next]_vars

\* The loop runs its queue; a transport told to stop closes and ends, as Link
\* promises; the wait has a timeout; GLib runs its idle callbacks.
FairSpec ==
    /\ Spec
    /\ WF_vars(RunLoop) /\ WF_vars(WaitEnds) /\ WF_vars(RunDisconnected)
    /\ \A t \in Transports : WF_vars(t \in stopping /\ Drops(t)) /\ WF_vars(Ends(t))
-----------------------------------------------------------------------------
\* Type invariant.
TypeOK ==
    /\ enabled \in BOOLEAN /\ autoConnect \in BOOLEAN
    /\ transport \in Transports \cup {NoTransport}
    /\ glib \in {"idle", "restart", "disable", "nothing"}
    /\ announced \in BOOLEAN /\ focus \in BOOLEAN
    /\ heard \in {"nobody", "current", "former", "twice"}
    /\ idle \in Seq(Transports) /\ loopQ \in Seq(Work)
    /\ task \in [Transports -> Live \cup {"none"}]
    /\ stopping \subseteq Transports

\* No command leaves a transport referred to while it waits for one to stop, and
\* a queued start is the first the loop hears of its transport.
QueueInv ==
    /\ glib # "idle" => enabled
    /\ glib # "idle" \/ ~enabled => transport = NoTransport
    /\ \A i, j \in DOMAIN loopQ, t \in Transports :
          i < j /\ loopQ[i] = StopOf(t) => loopQ[j] # StartOf(t)
    /\ \A i \in DOMAIN loopQ, t \in stopping : loopQ[i] # StartOf(t)

\* t is going to be stopped, whatever the user does next.
Doomed(t) == t \in stopping \/ \E i \in DOMAIN loopQ : loopQ[i] = StopOf(t)

\* A transport that runs, or is queued to, is the one the user's commands reach,
\* or is doomed: quick restarts leave no transport nothing can stop.
NoOrphan ==
    \A t \in Transports :
        task[t] # "none" \/ (\E i \in DOMAIN loopQ : loopQ[i] = StartOf(t))
            => t = transport \/ Doomed(t)

\* The inductive strengthening of NoOrphan.
IInv == TypeOK /\ QueueInv /\ NoOrphan

\* Once per user intent the join is announced, however often the link drops
\* and rejoins and whatever transport was being torn down meanwhile.
AnnouncedOnce == heard # "twice" /\ (heard # "nobody" => announced)

\* A transport that was replaced goes away even if the wait for it timed out.
OrphansEnd ==
    \A t \in Transports : (task[t] # "none" /\ t # transport) ~> (task[t] = "none")

\* Focus is dropped "because the transport is going away": the report that drops
\* it is of the transport in use.
FocusLostWithItsLink ==
    [][RunDisconnected /\ focus /\ transport # NoTransport => Head(idle) = transport]_vars
=============================================================================
