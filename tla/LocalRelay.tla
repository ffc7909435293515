----------------------------- MODULE LocalRelay -----------------------------
(* The relay server the legacy plug-in can start on its own machine            *)
(* (orca-scripts/local_server.py), as _start_local_server/_stop_local_server   *)
(* of orca-customizations.py drive it, and the roster each peer's              *)
(* RemoteController keeps from the server's notices.                           *)
(*                                                                             *)
(* One thread per instance accepts; one thread per client reads, and does all  *)
(* the sending its own frames cause.  Only the membership lists are under the  *)
(* server's lock: every notice and relay is sent from a snapshot after it is   *)
(* released, one peer at a time, so the sends of different threads interleave. *)
(* A send is one step and never blocks (the peers keep reading).               *)
EXTENDS Naturals, Sequences, FiniteSets, SequencesExt

CONSTANTS Clients,      \* connections, each used once (client ids never repeat)
          Channels,     \* connection codes
          Talkers,      \* the clients that send frames to relay
          MaxRelays,    \* bound: frames each talker sends
          MaxStarts,    \* bound: server instances created
          NoChannel

ASSUME RelayAssumption ==
    /\ Talkers \subseteq Clients
    /\ MaxRelays \in Nat /\ MaxStarts \in Nat
    /\ NoChannel \notin Channels

VARIABLES
    current,    \* orca-customizations' _local_server: an instance, 0 for None
    running,    \* _running of each instance
    serve,      \* where each instance's _serve thread is
    at,         \* the instance a client is connected to, 0 before it connects
    chan,       \* _Client.channel
    step,       \* where a client's thread is
    alive,      \* the connection is up, seen from the peer
    members,    \* _channels: the list of each channel of each instance
    out,        \* the sends a client's thread has still to make
    roster,     \* connected_clients of the peer's RemoteController
    sent,       \* frames a talker's thread has relayed
    got         \* got[p][s]: the last frame of s that p had or was too late for

serverVars == <<current, running, serve>>
peerVars == <<roster, got>>
vars == <<current, running, serve, at, chan, step, alive, members, out, roster,
          sent, got>>

Instances == 1..MaxStarts
Members(s, ch) == ToSet(members[s][ch])
Notice(to, kind, ids, n) == [to |-> to, kind |-> kind, ids |-> ids, n |-> n]

TypeOK ==
    /\ current \in 0..MaxStarts
    /\ running \in [Instances -> BOOLEAN]
    /\ serve \in [Instances -> {"none", "starting", "listening", "ended"}]
    /\ at \in [Clients -> 0..MaxStarts]
    /\ chan \in [Clients -> Channels \cup {NoChannel}]
    /\ step \in [Clients -> {"none", "read", "sending", "leaving", "closed"}]
    /\ alive \in [Clients -> BOOLEAN]
    /\ members \in [Instances -> [Channels -> Seq(Clients)]]
    /\ roster \in [Clients -> SUBSET Clients]
    /\ sent \in [Clients -> 0..MaxRelays]
    /\ got \in [Clients -> [Clients -> 0..MaxRelays]]

Init ==
    /\ current = 0
    /\ running = [i \in Instances |-> FALSE]
    /\ serve = [i \in Instances |-> "none"]
    /\ at = [c \in Clients |-> 0]
    /\ chan = [c \in Clients |-> NoChannel]
    /\ step = [c \in Clients |-> "none"]
    /\ alive = [c \in Clients |-> FALSE]
    /\ members = [i \in Instances |-> [ch \in Channels |-> <<>>]]
    /\ out = [c \in Clients |-> <<>>]
    /\ roster = [c \in Clients |-> {}]
    /\ sent = [c \in Clients |-> 0]
    /\ got = [c \in Clients |-> [d \in Clients |-> 0]]

-----------------------------------------------------------------------------
(* Starting and stopping.                                                      *)

\* stop(): clears the flag and closes the listener, nothing else.
Stopped(i) == [j \in Instances |-> running[j] /\ j # i]

\* _start_local_server: stop the instance there is, make and start a new one.
StartLocalServer ==
    /\ \E i \in Instances :
          /\ \A j \in Instances : serve[j] = "none" <=> j >= i
          /\ current' = i
          /\ running' = [Stopped(current) EXCEPT ![i] = TRUE]
          /\ serve' = [serve EXCEPT ![i] = "starting"]
    /\ UNCHANGED <<at, chan, step, alive, members, out, roster, sent, got>>

\* _stop_local_server.
StopLocalServer ==
    /\ current # 0
    /\ running' = Stopped(current)
    /\ current' = 0
    /\ UNCHANGED <<serve, at, chan, step, alive, members, out, roster, sent, got>>

\* _serve binds the port.  It cannot while another instance listens; one that
\* was stopped keeps the port for as long as its thread sits in select.
Bind(i) ==
    /\ serve[i] = "starting"
    /\ \/ /\ \A j \in Instances : serve[j] = "listening" => ~running[j]
          /\ serve' = [serve EXCEPT ![i] = "listening"]
       \/ /\ \E j \in Instances : serve[j] = "listening"
          /\ serve' = [serve EXCEPT ![i] = "ended"]
    /\ UNCHANGED <<current, running, at, chan, step, alive, members, out, peerVars, sent>>

\* Within a second the accept loop notices that the flag is cleared.
ServeEnds(i) ==
    /\ serve[i] = "listening"
    /\ ~running[i]
    /\ serve' = [serve EXCEPT ![i] = "ended"]
    /\ UNCHANGED <<current, running, at, chan, step, alive, members, out, peerVars, sent>>

\* The accept loop registers a client and starts its thread.
Accept(i, c) ==
    /\ serve[i] = "listening"
    /\ running[i]
    /\ step[c] = "none"
    /\ at' = [at EXCEPT ![c] = i]
    /\ step' = [step EXCEPT ![c] = "read"]
    /\ alive' = [alive EXCEPT ![c] = TRUE]
    /\ UNCHANGED <<serverVars, chan, members, out, peerVars, sent>>

-----------------------------------------------------------------------------
(* A client's thread.                                                          *)

\* What the thread does next when those sends remain.
Sending(c, sends, then) ==
    /\ out' = [out EXCEPT ![c] = sends]
    /\ step' = [step EXCEPT ![c] =
          IF sends # <<>> THEN then ELSE IF then = "leaving" THEN "closed" ELSE "read"]

\* _do_join and _add_to_channel: snapshot and append under the lock; then the
\* sends.  Only the client's own thread reads its channel, so setting it before
\* the lock is taken is no step of its own.  A peer joins once per connection.
Join(c, ch) ==
    LET existing == members[at[c]][ch]
    IN  /\ step[c] = "read"
        /\ chan[c] = NoChannel
        /\ chan' = [chan EXCEPT ![c] = ch]
        /\ members' = [members EXCEPT ![at[c]][ch] = Append(@, c)]
        /\ Sending(c, <<Notice(c, "channel_joined", ToSet(existing), 0)>> \o
              [k \in 1..Len(existing) |-> Notice(existing[k], "client_joined", {c}, 0)],
              "sending")
        /\ got' = [got EXCEPT ![c] = sent]
        /\ UNCHANGED <<serverVars, at, alive, roster, sent>>

\* _relay: the others of the channel, under the lock (a list has nobody twice,
\* see NoGhosts).
Recipients(c) == RemoveFirst(members[at[c]][chan[c]], c)

Relay(c) ==
    /\ step[c] = "read"
    /\ chan[c] # NoChannel
    /\ c \in Talkers /\ sent[c] < MaxRelays
    /\ sent' = [sent EXCEPT ![c] = @ + 1]
    /\ Sending(c, [k \in 1..Len(Recipients(c)) |->
          Notice(Recipients(c)[k], "frame", {}, sent[c] + 1)], "sending")
    /\ UNCHANGED <<serverVars, at, chan, alive, members, peerVars>>

\* The connection ends at the peer's end: its controller clears its roster.
Hangup(c) ==
    /\ alive[c]
    /\ alive' = [alive EXCEPT ![c] = FALSE]
    /\ roster' = [roster EXCEPT ![c] = {}]
    /\ got' = [got EXCEPT ![c] = [d \in Clients |-> 0]]
    /\ UNCHANGED <<serverVars, at, chan, step, members, out, sent>>

\* Bug: those left are worked out, but the list the server keeps is not changed.
OnClientGoneKept(c) ==
    LET list == IF chan[c] = NoChannel THEN <<>> ELSE members[at[c]][chan[c]]
        left == RemoveFirst(list, c)
    IN  /\ step[c] = "read" /\ ~alive[c]
        /\ Sending(c, [k \in 1..Len(left) |-> Notice(left[k], "client_left", {c}, 0)],
              "leaving")
        /\ UNCHANGED <<serverVars, at, chan, alive, members, peerVars, sent>>

\* _on_client_gone, at the end of file or on a socket error.
\* The client leaves the list under the lock; then those left are told.
OnClientGone(c) ==
    LET list == IF chan[c] = NoChannel THEN <<>> ELSE members[at[c]][chan[c]]
        left == RemoveFirst(list, c)
    IN  /\ step[c] = "read" /\ ~alive[c]
        /\ members' = IF chan[c] = NoChannel THEN members
                      ELSE [members EXCEPT ![at[c]][chan[c]] = left]
        /\ Sending(c, [k \in 1..Len(left) |-> Notice(left[k], "client_left", {c}, 0)],
              "leaving")
        /\ UNCHANGED <<serverVars, at, chan, alive, peerVars, sent>>

\* Bug: channel_joined replaces the roster.
RosterAfterReset(r, m) ==
    CASE m.kind = "channel_joined" -> m.ids
      [] m.kind = "client_joined" -> r \cup m.ids
      [] m.kind = "client_left" -> r \ m.ids
      [] OTHER -> r

\* RemoteController: what a peer's roster becomes when it is given a notice.
RosterAfter(r, m) ==
    CASE m.kind \in {"channel_joined", "client_joined"} -> r \cup m.ids
      [] m.kind = "client_left" -> r \ m.ids
      [] OTHER -> r

\* _Client.send to one peer: a dead socket's error is swallowed.
Deliver(c, m) ==
    IF alive[m.to]
    THEN /\ roster' = [roster EXCEPT ![m.to] = RosterAfter(@, m)]
         /\ got' = IF m.kind = "frame" THEN [got EXCEPT ![m.to][c] = m.n] ELSE got
    ELSE UNCHANGED peerVars

\* Bug: an error sending to one peer abandons the rest.
SendNextAbandons(c) ==
    /\ out[c] # <<>>
    /\ Deliver(c, Head(out[c]))
    /\ Sending(c, IF alive[Head(out[c]).to] THEN Tail(out[c]) ELSE <<>>, step[c])
    /\ UNCHANGED <<serverVars, at, chan, alive, members, sent>>

\* Bug: a send to a peer that is gone waits for it.
SendNextWaits(c) ==
    /\ out[c] # <<>> /\ alive[Head(out[c]).to]
    /\ Deliver(c, Head(out[c]))
    /\ Sending(c, Tail(out[c]), step[c])
    /\ UNCHANGED <<serverVars, at, chan, alive, members, sent>>

\* The next send.  After the last the thread reads again, or, leaving, closes
\* its socket.
SendNext(c) ==
    /\ out[c] # <<>>
    /\ Deliver(c, Head(out[c]))
    /\ Sending(c, Tail(out[c]), step[c])
    /\ UNCHANGED <<serverVars, at, chan, alive, members, sent>>

-----------------------------------------------------------------------------
Next ==
    \/ StartLocalServer
    \/ StopLocalServer
    \/ \E i \in Instances :
          \/ Bind(i)
          \/ ServeEnds(i)
          \/ \E c \in Clients : Accept(i, c)
    \/ \E c \in Clients :
          \/ \E ch \in Channels : Join(c, ch)
          \/ Relay(c)
          \/ Hangup(c)
          \/ OnClientGone(c)
          \/ SendNext(c)

\* The clients' threads run.  Nobody has to connect, join, talk, hang up, start or stop;
\* a thread whose peer hung up gets to read the end of file.
Fairness == \A c \in Clients : WF_vars(SendNext(c) \/ OnClientGone(c))

Spec == Init /\ [][Next]_vars
FairSpec == Spec /\ Fairness

-----------------------------------------------------------------------------
\* A client is in a list only between joining and leaving, in the list of the
\* instance and channel it joined, once: relays and rosters never meet a ghost.
NoGhosts ==
    \A i \in Instances, ch \in Channels :
        /\ \A c \in Members(i, ch) :
              at[c] = i /\ chan[c] = ch /\ step[c] \in {"read", "sending"}
        /\ IsInjective(members[i][ch])

Together(p, q) ==
    /\ p # q /\ at[p] = at[q] /\ at[p] # 0 /\ chan[p] # NoChannel
    /\ {p, q} \subseteq Members(at[p], chan[p])

Coming(q, p) ==
    \E s \in {p, q} : \E k \in 1..Len(out[s]) :
        out[s][k].to = p /\ out[s][k].kind \in {"channel_joined", "client_joined"}
        /\ q \in out[s][k].ids

\* Two members of a channel know of each other, or are being told: whoever
\* joined second has the other in its snapshot, however the sends interleave.
RosterComplete ==
    \A p, q \in Clients :
        Together(p, q) /\ alive[p] => q \in roster[p] \/ Coming(q, p)

FramesTo(s, p) == {k \in 1..Len(out[s]) : out[s][k].kind = "frame" /\ out[s][k].to = p}

\* What a talker relays reaches every live member of its channel once each and
\* without gaps: the member has had everything, or only the talker's latest frame
\* is still to be sent to it, once.
RelayExact ==
    \A p, s \in Clients :
        Together(p, s) /\ alive[p] =>
            \/ FramesTo(s, p) = {} /\ got[p][s] = sent[s]
            \/ \E k \in FramesTo(s, p) :
                  /\ FramesTo(s, p) = {k}
                  /\ out[s][k].n = sent[s] /\ got[p][s] + 1 = sent[s]

\* Connections that ended never pile up: again and again there is none the
\* server has not told the others of, forgotten and closed.
DeparturesComplete ==
    []<>(\A c \in Clients : alive[c] \/ step[c] \in {"none", "closed"})
=============================================================================
