--------------------------- MODULE LegacyTransport ---------------------------
(* The threaded transport of the legacy plug-in (orca-scripts/transport.py):   *)
(* a connector thread that runs one connection after another, one sender       *)
(* thread per connection, and the user's thread, which sends, closes and       *)
(* reconnects.  They share server_sock, connected, queue_thread and the queue  *)
(* with no lock, so _disconnect is split at every point where another thread   *)
(* can see or change what it uses: two threads may be inside it at once.       *)
EXTENDS Naturals, Sequences, FiniteSets, SequencesExt, FiniteSetsExt

CONSTANTS MaxConns,       \* bound: connections created
          MaxFrames,      \* bound: frames the user's thread sends before a reconnect()
          MaxLate,        \* ... and after one
          MaxCloses,      \* bound: close() and reconnect() calls
          MaxReconnects   \* bound: how many of these are reconnect()

Bounds == {MaxConns, MaxFrames, MaxLate, MaxCloses, MaxReconnects} \subseteq Nat

Conns == 1..MaxConns
Connectors == 1..(MaxReconnects + 1)
User == 0
Threads == Connectors \cup {User}

VARIABLES
    sock,       \* server_sock: a connection, 0 for None
    link,       \* each connection: new, up, eof (the peer ended it), shut
    connected, closed,
    queue,      \* frames and the None that stops the sender
    qthread,    \* queue_thread: the sender of a connection, 0 for None
    sender,     \* where each sender thread is
    holds,      \* the frame a sender has taken from the queue
    wire,       \* the numbers of the frames that each connection has carried
    reads,      \* the socket a connector's read loop waits on
    pc,         \* where each connector thread and the user's thread are
    then,       \* where a thread goes on after _disconnect
    joins,      \* the sender thread whose end a thread waits for, or 0
    running,    \* ConnectorThread.running
    connector,  \* reconnector_thread: a started connector, 0 for an unstarted one
    frames, late, closes, reconnects    \* how many there were; late: frames after a reconnect()

linkVars == <<sock, link, wire>>
flagVars == <<connected, closed, running, connector>>
senderVars == <<qthread, sender, holds>>
counters == <<frames, late, closes, reconnects>>
callVars == <<then, joins>>
vars == <<linkVars, flagVars, senderVars, queue, pc, callVars, reads, counters>>

Stop == [kind |-> "stop", n |-> 0]
Hello(i) == [kind |-> "hello", n |-> i]     \* protocol_version and join
Frame(k) == [kind |-> "frame", n |-> k]
Items == [kind : {"stop", "hello", "frame"}, n : Nat]

InDisconnect == {"shut", "check", "stop", "join", "wait", "forget", "clear"}

TypeOK ==
    /\ sock \in 0..MaxConns
    /\ link \in [Conns -> {"none", "new", "up", "eof", "shut"}]
    /\ connected \in BOOLEAN /\ closed \in BOOLEAN
    /\ queue \in Seq(Items)
    /\ qthread \in 0..MaxConns
    /\ sender \in [Conns -> {"none", "get", "send", "ended"}]
    /\ holds \in [Conns -> Items]
    /\ wire \in [Conns -> Seq(Nat)]
    /\ reads \in [Connectors -> 0..MaxConns]
    /\ pc \in [Threads -> InDisconnect \cup
          {"idle", "top", "create", "connect", "hello", "start", "read", "select", "finish", "dead",
           "done", "put", "closing"}]
    /\ then \in [Threads -> {"top", "read", "closing", "none"}]
    /\ joins \in [Threads -> 0..MaxConns]
    /\ running \in [Connectors -> BOOLEAN]
    /\ connector \in {0} \cup Connectors
    /\ late \in 0..MaxLate
    /\ frames \in 0..(MaxFrames + late)
    /\ closes \in 0..MaxCloses
    /\ reconnects \in 0..MaxReconnects

\* The user has connected once, through the dialog: reconnect() on a fresh
\* transport.  (A connection made at start-up has no connector; it runs once.)
Init ==
    /\ sock = 0
    /\ link = [i \in Conns |-> "none"]
    /\ connected = FALSE /\ closed = FALSE
    /\ queue = <<>>
    /\ qthread = 0
    /\ sender = [i \in Conns |-> "none"]
    /\ holds = [i \in Conns |-> Stop]
    /\ wire = [i \in Conns |-> <<>>]
    /\ reads = [k \in Connectors |-> 0]
    /\ pc = [t \in Threads |-> IF t = 1 THEN "top" ELSE "idle"]
    /\ then = [t \in Threads |-> "none"]
    /\ joins = [t \in Threads |-> 0]
    /\ running = [k \in Connectors |-> k = 1]
    /\ connector = 1
    /\ frames = 0 /\ late = 0 /\ closes = 0 /\ reconnects = 0

\* The state of server_sock.
Here == IF sock = 0 THEN "shut" ELSE link[sock]
Go(t, step) == pc' = [pc EXCEPT ![t] = step]

-----------------------------------------------------------------------------
(* ConnectorThread.run and TCPTransport.run.                                   *)

Top(k) ==
    /\ pc[k] = "top"
    /\ Go(k, IF running[k] THEN "create" ELSE "done")
    /\ closed' = (closed /\ ~running[k])
    /\ UNCHANGED <<linkVars, connected, running, connector, senderVars, queue, callVars, reads, counters>>

NextConn == Cardinality({i \in Conns : link[i] # "none"}) + 1

\* create_outbound_socket resolves the address: it can take long, and fail.
Create(k) ==
    /\ pc[k] = "create"
    /\ NextConn \in Conns
    /\ link' = [link EXCEPT ![NextConn] = "new"]
    /\ \/ sock' = NextConn /\ Go(k, "connect")
       \/ UNCHANGED sock /\ Go(k, "top")
    /\ UNCHANGED <<wire, flagVars, senderVars, queue, callVars, reads, counters>>

\* connect() on whatever server_sock now is.  None has no connect(): the error
\* is no socket.error and ends the thread.  A socket that another thread closed,
\* or a refusal, is retried.
Connect(k) ==
    /\ pc[k] = "connect"
    /\ IF sock = 0
       THEN Go(k, "dead") /\ UNCHANGED <<link, connected>>
       ELSE \/ /\ link[sock] = "new"
               /\ link' = [link EXCEPT ![sock] = "up"]
               /\ connected' = TRUE
               /\ Go(k, "hello")
            \/ Go(k, "top") /\ UNCHANGED <<link, connected>>
    /\ UNCHANGED <<sock, wire, closed, running, connector, senderVars, queue, callVars, reads, counters>>

\* on_connected, called back by then: it sends like anybody else.
Introduce(k) ==
    /\ pc[k] = "hello"
    /\ queue' = IF connected THEN Append(queue, Hello(sock)) ELSE queue
    /\ Go(k, "start")
    /\ UNCHANGED <<linkVars, flagVars, senderVars, callVars, reads, counters>>

\* The sender thread of this connection: the first free one.
Start(k) ==
    LET s == Cardinality({i \in Conns : sender[i] # "none"}) + 1
    IN  /\ pc[k] = "start"
        /\ s \in Conns
        /\ qthread' = s
        /\ sender' = [sender EXCEPT ![s] = "get"]
        /\ Go(k, "read")
        /\ UNCHANGED <<linkVars, flagVars, holds, queue, callVars, reads, counters>>

\* The read loop takes server_sock anew each time round; None ends it.
Read(k) ==
    /\ pc[k] = "read"
    /\ reads' = [reads EXCEPT ![k] = sock]
    /\ Go(k, IF sock = 0 THEN "finish" ELSE "select")
    /\ UNCHANGED <<linkVars, flagVars, senderVars, queue, callVars, counters>>

\* select returns on a socket that is no longer up.  An error ends the loop;
\* handle_server_data goes by server_sock, and calls _disconnect at its end of
\* file from inside the loop.
Select(k) ==
    /\ pc[k] = "select"
    /\ link[reads[k]] # "up"
    /\ \/ Go(k, "finish") /\ UNCHANGED then
       \/ IF Here = "eof"
          THEN Go(k, "shut") /\ then' = [then EXCEPT ![k] = "read"]
          ELSE Go(k, "read") /\ UNCHANGED then
    /\ reads' = [reads EXCEPT ![k] = 0]
    /\ UNCHANGED <<linkVars, flagVars, senderVars, queue, joins, counters>>

\* The end of run: the flag, the transport_disconnected callbacks, _disconnect;
\* five seconds later the connector looks at its flag again.
Finish(k) ==
    /\ pc[k] = "finish"
    /\ connected' = FALSE
    /\ Go(k, "shut")
    /\ then' = [then EXCEPT ![k] = "top"]
    /\ UNCHANGED <<linkVars, closed, running, connector, senderVars, queue, joins, reads, counters>>

-----------------------------------------------------------------------------
(* _disconnect, in whichever thread.                                           *)

\* Bug: nothing is done once the flag is down, and run has lowered it already.
ShutSocketByFlag(t) ==
    /\ pc[t] = "shut"
    /\ connected' = FALSE
    /\ IF connected
       THEN /\ sock' = 0
            /\ link' = IF sock = 0 THEN link ELSE [link EXCEPT ![sock] = "shut"]
            /\ Go(t, "check")
       ELSE UNCHANGED <<sock, link>> /\ Go(t, then[t])
    /\ UNCHANGED <<wire, closed, running, connector, senderVars, queue, callVars, reads, counters>>

ShutSocket(t) ==
    /\ pc[t] = "shut"
    /\ connected' = FALSE
    /\ sock' = 0
    /\ link' = IF sock = 0 THEN link ELSE [link EXCEPT ![sock] = "shut"]
    /\ Go(t, "check")
    /\ UNCHANGED <<wire, closed, running, connector, senderVars, queue, callVars, reads, counters>>

CheckSender(t) ==
    /\ pc[t] = "check"
    /\ Go(t, IF qthread = 0 THEN "clear" ELSE "stop")
    /\ UNCHANGED <<linkVars, flagVars, senderVars, queue, callVars, reads, counters>>

\* Bug: no None is queued, so an idle sender is never woken.
PutNoStop(t) ==
    /\ pc[t] = "stop"
    /\ Go(t, "join")
    /\ UNCHANGED <<linkVars, flagVars, senderVars, queue, callVars, reads, counters>>

PutStop(t) ==
    /\ pc[t] = "stop"
    /\ queue' = Append(queue, Stop)
    /\ Go(t, "join")
    /\ UNCHANGED <<linkVars, flagVars, senderVars, callVars, reads, counters>>

\* Bug: the sender is not waited for.
JoinNot(t) ==
    /\ pc[t] = "join"
    /\ Go(t, "forget")
    /\ UNCHANGED <<linkVars, flagVars, senderVars, queue, callVars, reads, counters>>

\* queue_thread is read again to join it: None by now is an AttributeError, which
\* ends a connector and cuts the user's close() short.  The thread that it names
\* now is the one that is waited for, whatever becomes of queue_thread.
Join(t) ==
    /\ pc[t] = "join"
    /\ joins' = [joins EXCEPT ![t] = qthread]
    /\ Go(t, IF qthread # 0 THEN "wait" ELSE IF t = User THEN "idle" ELSE "dead")
    /\ UNCHANGED <<linkVars, flagVars, senderVars, queue, then, reads, counters>>

Await(t) ==
    /\ pc[t] = "wait"
    /\ sender[joins[t]] = "ended"
    /\ joins' = [joins EXCEPT ![t] = 0]
    /\ Go(t, "forget")
    /\ UNCHANGED <<linkVars, flagVars, senderVars, queue, then, reads, counters>>

Forget(t) ==
    /\ pc[t] = "forget"
    /\ qthread' = 0
    /\ Go(t, "clear")
    /\ UNCHANGED <<linkVars, flagVars, sender, holds, queue, callVars, reads, counters>>

Clear(t) ==
    /\ pc[t] = "clear"
    /\ queue' = <<>>
    /\ Go(t, then[t])
    /\ UNCHANGED <<linkVars, flagVars, senderVars, callVars, reads, counters>>

-----------------------------------------------------------------------------
(* send_queue.                                                                 *)

Get(s) ==
    /\ sender[s] = "get"
    /\ queue # <<>>
    /\ queue' = Tail(queue)
    /\ holds' = [holds EXCEPT ![s] = Head(queue)]
    /\ sender' = [sender EXCEPT ![s] = IF Head(queue) = Stop THEN "ended" ELSE "send"]
    /\ UNCHANGED <<linkVars, flagVars, qthread, pc, callVars, reads, counters>>

\* server_sock as it is now; no socket, or an error sending, ends the thread.  A
\* connection the peer has ended may still take a frame.  The frame is out of hand then.
Send(s) ==
    /\ sender[s] = "send"
    /\ \/ /\ Here \in {"up", "eof"}
          /\ wire' = IF holds[s].kind = "frame" THEN [wire EXCEPT ![sock] = Append(@, holds[s].n)]
                     ELSE wire
          /\ sender' = [sender EXCEPT ![s] = "get"]
       \/ /\ Here # "up"
          /\ sender' = [sender EXCEPT ![s] = "ended"]
          /\ UNCHANGED wire
    /\ holds' = [holds EXCEPT ![s] = Stop]
    /\ UNCHANGED <<sock, link, flagVars, qthread, queue, pc, callVars, reads, counters>>

-----------------------------------------------------------------------------
(* The user's thread.                                                          *)

\* send(): the flag is tested, then the frame is queued, whatever close() or
\* reconnect() went before.
SendTest ==
    /\ pc[User] = "idle"
    /\ connected
    /\ IF reconnects = 0 THEN frames < MaxFrames ELSE late < MaxLate
    /\ frames' = frames + 1
    /\ late' = IF reconnects = 0 THEN late ELSE late + 1
    /\ Go(User, "put")
    /\ UNCHANGED <<linkVars, flagVars, senderVars, queue, callVars, reads, closes, reconnects>>

SendPut ==
    /\ pc[User] = "put"
    /\ queue' = Append(queue, Frame(frames))
    /\ Go(User, "idle")
    /\ UNCHANGED <<linkVars, flagVars, senderVars, callVars, reads, counters>>

\* Bug: the connector is not told to end, and dials again during the _disconnect.
CloseRunning ==
    /\ pc[User] = "idle"
    /\ closes < MaxCloses
    /\ closes' = closes + 1
    /\ \/ UNCHANGED reconnects
       \/ reconnects < MaxReconnects /\ reconnects' = reconnects + 1
    /\ then' = [then EXCEPT ![User] = "closing"]
    /\ Go(User, "shut")
    /\ UNCHANGED <<linkVars, flagVars, senderVars, queue, joins, reads, frames, late>>

\* close(), alone or at the start of reconnect().
Close ==
    /\ pc[User] = "idle"
    /\ closes < MaxCloses
    /\ closes' = closes + 1
    /\ \/ UNCHANGED reconnects
       \/ reconnects < MaxReconnects /\ reconnects' = reconnects + 1
    /\ running' = [k \in Connectors |-> running[k] /\ k # connector]
    /\ then' = [then EXCEPT ![User] = "closing"]
    /\ Go(User, "shut")
    /\ UNCHANGED <<linkVars, connected, closed, connector, senderVars, queue, joins, reads, frames, late>>

\* The rest of close(): the flag and a fresh, unstarted connector; reconnect()
\* goes on to start one.
Closed ==
    /\ pc[User] = "closing"
    /\ closed' = TRUE
    /\ LET next == {k \in Connectors : k = reconnects + 1 /\ pc[k] = "idle"}
       IN  /\ connector' = IF next = {} THEN 0 ELSE Min(next)
           /\ running' = [k \in Connectors |-> running[k] \/ k \in next]
           /\ pc' = [t \in Threads |-> IF t = User THEN "idle"
                                       ELSE IF t \in next THEN "top" ELSE pc[t]]
    /\ UNCHANGED <<linkVars, connected, senderVars, queue, callVars, reads, counters>>

\* The other side, or the network, ends a connection.
PeerEnds(i) ==
    /\ link[i] = "up"
    /\ link' = [link EXCEPT ![i] = "eof"]
    /\ UNCHANGED <<sock, wire, flagVars, senderVars, queue, pc, callVars, reads, counters>>

-----------------------------------------------------------------------------
ConnectorStep(k) ==
    Top(k) \/ Create(k) \/ Connect(k) \/ Introduce(k) \/ Start(k) \/ Read(k) \/ Select(k) \/ Finish(k)

DisconnectStep(t) ==
    ShutSocket(t) \/ CheckSender(t) \/ PutStop(t) \/ Join(t) \/ Await(t) \/ Forget(t)
        \/ Clear(t)

Next ==
    \/ \E k \in Connectors : ConnectorStep(k)
    \/ \E t \in Threads : DisconnectStep(t)
    \/ \E i \in Conns : Get(i) \/ Send(i) \/ PeerEnds(i)
    \/ SendTest \/ SendPut \/ Close \/ Closed

\* Every thread that can step does in the end; the user need not start anything
\* and connections need not fail.
Fairness ==
    /\ \A k \in Connectors : WF_vars(ConnectorStep(k))
    /\ \A t \in Threads : WF_vars(DisconnectStep(t))
    /\ \A i \in Conns : WF_vars(Get(i) \/ Send(i))
    /\ WF_vars(SendPut \/ Closed)

Spec == Init /\ [][Next]_vars
FairSpec == Spec /\ Fairness

-----------------------------------------------------------------------------
Alive == {s \in Conns : sender[s] \in {"get", "send"}}
Resting == {"idle", "top", "done", "dead"}

\* Until a reconnect() starts another, the first connector is the only one.
OneConnector == \A k \in Connectors \ {1} : pc[k] = "idle"

\* Two senders on one queue would tear the stream apart: there is never more
\* than one, however the user's close() meets the connector's own clean-up.  A
\* second connector breaks this: it and the first share the queue.
OneSender == OneConnector => Cardinality(Alive) <= 1

\* "checking the flag left the socket and the sender thread behind after every
\* dropped connection": whoever ran _disconnect, between connections there is no
\* open socket, no sender thread and no greeting queued.  The queue need not be
\* empty: a frame whose send() tested the flag before, or a None put behind the
\* other thread's clear_queue, stays for the next sender.
NothingLeftBehind ==
    (OneConnector /\ \A t \in Threads : pc[t] \in Resting) =>
        /\ \A i \in Conns : link[i] \in {"none", "new", "shut"}
        /\ Alive = {}
        /\ \A i \in Conns : Hello(i) \notin ToSet(queue)

\* Until a reconnect() starts a second connector, each connection carries its
\* frames in the order they were queued, also those left over from the one before.
\* With two connectors this does not hold: a frame that the first one's sender has
\* in hand may go out, over the new connection, behind a later one.
WireInOrder ==
    OneConnector => \A i \in Conns : \A a, b \in 1..Len(wire[i]) :
                        a < b => wire[i][a] < wire[i][b]

\* While the user's close() waits for a sender that lives, a None is on the queue:
\* neither clear_queue of the connector nor another sender takes it away.
CloseIsAnswered ==
    OneConnector /\ pc[User] \in {"join", "wait"} => Alive = {} \/ Stop \in ToSet(queue)

\* Beside one connector close(), also the one in reconnect(), comes back.
FirstCloseReturns == (OneConnector /\ pc[User] \in InDisconnect) ~> pc[User] = "idle"

\* "Disconnect unblocks sender before joining": close() never waits for good for a
\* sender that no None reaches.  With a second connector at work this does not hold:
\* the sender of the first takes the None, and close() waits for the other one.
CloseReturns == (pc[User] \in InDisconnect) ~> (pc[User] = "idle")
=============================================================================
