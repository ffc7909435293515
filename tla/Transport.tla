------------------------------ MODULE Transport ------------------------------
(***************************************************************************)
(* One RemoteTransport (transport.py): the asyncio task that dials the      *)
(* relay, joins the channel, reads until the connection ends and backs off, *)
(* the stop() that cancels it, and send().  Everything here runs on the loop *)
(* thread, so an action is what happens between two awaits.                 *)
(*                                                                         *)
(* A cancellation is delivered at the await the task is suspended in, with  *)
(* one exception: asyncio.wait_for around the dial may, on the Pythons      *)
(* before 3.12, swallow it when the dial finishes at the same moment.       *)
(***************************************************************************)
EXTENDS Naturals, Sequences

CONSTANTS KeyMsgs, OtherMsgs,   \* what callers send
          Backoff,              \* _BACKOFF_SCHEDULE
          MaxBuffer,            \* _MAX_WRITE_BUFFER, in frames
          MaxWire, MaxOpened    \* bounds: frames and connections looked at

ASSUME TransportAssumption ==
    /\ Backoff \in Seq(Nat \ {0}) /\ Backoff # <<>>
    /\ \A i, j \in 1..Len(Backoff) : i < j => Backoff[i] < Backoff[j]
    /\ MaxBuffer \in Nat /\ MaxWire \in Nat /\ MaxOpened \in Nat
    /\ (KeyMsgs \cup OtherMsgs) \cap {"version", "join"} = {}
    /\ KeyMsgs \cap OtherMsgs = {}

VARIABLES task,       \* where _run is; "none" before start()
          stopEvent,  \* _stop_event is set
          cancel,     \* of the task: "none", "due", or "swallowed"
          stopper,    \* stop(): "no", "waiting" for the task, "done"
          attempt,    \* _run's attempt, which matters up to Len(Backoff)
          delay,      \* the last backoff
          outcome,    \* how the connection now being closed ended
          wire,       \* frames written to this connection
          buffered,   \* frames of it still in the writer's buffer
          asked,      \* key frames send() was given during this connection
          opened,     \* connections that got a writer
          reports     \* calls of on_disconnected

stopVars == <<stopEvent, stopper>>
waitVars == <<attempt, delay>>
wireVars == <<wire, buffered, asked>>
vars == <<task, cancel, stopVars, waitVars, outcome, wireVars, opened, reports>>

Msgs == KeyMsgs \cup OtherMsgs

\* `connected`: there is a writer.
Connected == task = "open"

Init ==
    /\ task = "none" /\ stopEvent = FALSE /\ cancel = "none" /\ stopper = "no"
    /\ attempt = 0 /\ delay = 0 /\ outcome = "clean"
    /\ wire = <<>> /\ buffered = 0 /\ asked = <<>>
    /\ opened = 0 /\ reports = 0

-----------------------------------------------------------------------------
\* The extension queues start() before the stop() of the same transport.
Start ==
    /\ task = "none"
    /\ task' = "dial"
    /\ UNCHANGED <<cancel, stopVars, waitVars, outcome, wireVars, opened, reports>>

\* Bug: the task is not cancelled, only told by the event.
StopByEvent ==
    /\ task # "none" /\ stopper = "no"
    /\ stopEvent' = TRUE /\ stopper' = "waiting"
    /\ UNCHANGED <<task, cancel, waitVars, outcome, wireVars, opened, reports>>

\* stop() sets the event and cancels the task, then waits for it.
Stop ==
    /\ task # "none" /\ stopper = "no"
    /\ stopEvent' = TRUE /\ cancel' = "due" /\ stopper' = "waiting"
    /\ UNCHANGED <<task, waitVars, outcome, wireVars, opened, reports>>

\* Bug: stop() does not wait for the task.
StopReturnsAtOnce ==
    /\ stopper = "waiting"
    /\ stopper' = "done"
    /\ UNCHANGED <<task, cancel, stopEvent, waitVars, outcome, wireVars, opened, reports>>

StopReturns ==
    /\ stopper = "waiting" /\ task = "ended"
    /\ stopper' = "done"
    /\ UNCHANGED <<task, cancel, stopEvent, waitVars, outcome, wireVars, opened, reports>>

\* Bug: a clean close does not start the schedule over.
AttemptKept(clean) == attempt

\* The attempt number the next backoff is for.
AttemptAfter(clean) == IF clean THEN 0 ELSE attempt

AtMost(n, m) == IF n < m THEN n ELSE m

\* Bug: the number of the attempt is taken for the number of seconds.
DelayIsAttempt(clean) ==
    LET a == AttemptAfter(clean) IN
    /\ task' = "backoff" /\ delay' = a
    /\ attempt' = AtMost(a + 1, Len(Backoff))

\* Bug: the task gives up at the end of the schedule.
GivesUp(clean) ==
    LET a == AttemptAfter(clean) IN
    IF stopEvent \/ a = Len(Backoff)
    THEN task' = "parked" /\ attempt' = a /\ UNCHANGED delay
    ELSE /\ task' = "backoff"
         /\ delay' = Backoff[AtMost(a, Len(Backoff) - 1) + 1]
         /\ attempt' = AtMost(a + 1, Len(Backoff))

\* One round of _run is over: leave if stopped, else back off.
RoundOver(clean) ==
    LET a == AttemptAfter(clean) IN
    IF stopEvent
    THEN task' = "ended" /\ attempt' = a /\ UNCHANGED delay
    ELSE /\ task' = "backoff"
         /\ delay' = Backoff[AtMost(a, Len(Backoff) - 1) + 1]
         /\ attempt' = AtMost(a + 1, Len(Backoff))

-----------------------------------------------------------------------------
(* Dialling.  Each result also stands for the case in which a cancellation   *)
(* arrived with it and was swallowed.                                       *)

SwallowCancel == cancel' = IF cancel = "none" THEN "none" ELSE "swallowed"

DialFails ==
    /\ task = "dial"
    /\ SwallowCancel
    /\ RoundOver(FALSE)
    /\ UNCHANGED <<stopVars, outcome, wireVars, opened, reports>>

\* No pin, or another certificate: wait for stop(), never retry.
DialMismatch ==
    /\ task = "dial"
    /\ SwallowCancel
    /\ task' = "parked"
    /\ UNCHANGED <<stopVars, waitVars, outcome, wireVars, opened, reports>>

\* The writer is set and the handshake written without an await between.
DialOpens ==
    /\ task = "dial" /\ opened < MaxOpened
    /\ SwallowCancel
    /\ task' = "open"
    /\ wire' = <<"version", "join">> /\ buffered' = 2 /\ asked' = <<>>
    /\ opened' = opened + 1
    /\ UNCHANGED <<stopVars, waitVars, outcome, reports>>

-----------------------------------------------------------------------------
(* The connection's end: the finally block of _connect_and_read drops the    *)
(* writer and reports, then closes and waits for the close.                 *)

\* Bug: the report comes after the close, which a cancellation may cut short.
ReportsLater(how) ==
    /\ task = "open" /\ task' = "closing" /\ outcome' = how
    /\ UNCHANGED <<stopVars, waitVars, wireVars, opened, reports>>

CloseDown(how) ==
    /\ task = "open" /\ task' = "closing" /\ outcome' = how
    /\ reports' = reports + 1
    /\ UNCHANGED <<stopVars, waitVars, wireVars, opened>>

\* readline returns nothing.
EndOfFile == cancel = "none" /\ CloseDown("clean") /\ UNCHANGED cancel

\* The dial swallowed the cancellation: the read loop finds the event set.
StopSeen == cancel = "swallowed" /\ CloseDown("clean") /\ UNCHANGED cancel

\* Reset, oversized line, or a handshake that cannot be flushed.
ReadFails == cancel # "due" /\ CloseDown("error") /\ UNCHANGED cancel

\* wait_closed finishes; an error it raises is ignored.
Closed ==
    /\ task = "closing" /\ cancel # "due"
    /\ IF outcome = "cancelled"
       THEN task' = "ended" /\ UNCHANGED waitVars
       ELSE RoundOver(outcome = "clean")
    /\ UNCHANGED <<cancel, stopVars, outcome, wireVars, opened, reports>>

BackoffElapses ==
    /\ task = "backoff" /\ ~stopEvent
    /\ task' = "dial"
    /\ UNCHANGED <<cancel, stopVars, waitVars, outcome, wireVars, opened, reports>>

\* Waiting for the event, parked or in backoff, ends when it is set.
EventSeen ==
    /\ task \in {"parked", "backoff"} /\ stopEvent
    /\ task' = "ended"
    /\ UNCHANGED <<cancel, stopVars, waitVars, outcome, wireVars, opened, reports>>

\* Bug: the cancellation ends the task without its finally block.
AbandonsConnection ==
    /\ cancel = "due" /\ cancel' = "none"
    /\ task # "ended" /\ task' = "ended"
    /\ UNCHANGED <<stopVars, waitVars, outcome, wireVars, opened, reports>>

\* The cancellation reaches the task; while it closes, that cuts the wait short.
Cancelled ==
    /\ cancel = "due" /\ cancel' = "none"
    /\ \/ CloseDown("cancelled")
       \/ /\ task \in {"dial", "backoff", "parked", "closing"}
          /\ task' = "ended"
          /\ UNCHANGED <<stopVars, waitVars, outcome, wireVars, opened, reports>>

-----------------------------------------------------------------------------
\* Bug: congestion drops key frames as well.
TakesUncongested(m) == buffered <= MaxBuffer

\* A congested writer takes key frames only.
Takes(m) == buffered <= MaxBuffer \/ m \in KeyMsgs

\* send(): without a writer, or with a congested one, the frame is dropped.
Send(m) ==
    /\ Connected /\ Len(wire) < MaxWire /\ Len(asked) < MaxWire
    /\ asked' = IF m \in KeyMsgs THEN Append(asked, m) ELSE asked
    /\ IF Takes(m) THEN wire' = Append(wire, m) /\ buffered' = buffered + 1
                   ELSE UNCHANGED <<wire, buffered>>
    /\ UNCHANGED <<task, cancel, stopVars, waitVars, outcome, opened, reports>>

\* The network takes a frame from the buffer.
Flush ==
    /\ Connected /\ buffered > 0
    /\ buffered' = buffered - 1
    /\ UNCHANGED <<task, cancel, stopVars, waitVars, outcome, wire, asked, opened, reports>>

-----------------------------------------------------------------------------
Next ==
    \/ Start \/ Stop \/ StopReturns
    \/ DialFails \/ DialMismatch \/ DialOpens
    \/ EndOfFile \/ StopSeen \/ ReadFails \/ Closed \/ BackoffElapses \/ EventSeen \/ Cancelled
    \/ \E m \in Msgs : Send(m)
    \/ Flush

Spec == Init /\ [][Next]_vars

\* The loop runs what is ready, a timer fires, and a close ends or times out.
\* Nothing is assumed of the dial or of the network.
FairSpec ==
    /\ Spec
    /\ WF_vars(StopReturns) /\ WF_vars(Closed) /\ WF_vars(BackoffElapses)
    /\ WF_vars(EventSeen) /\ WF_vars(Cancelled) /\ WF_vars(StopSeen)
-----------------------------------------------------------------------------
\* Type invariant.
TypeOK ==
    /\ task \in {"none", "dial", "open", "closing", "backoff", "parked", "ended"}
    /\ stopEvent \in BOOLEAN /\ cancel \in {"none", "due", "swallowed"}
    /\ stopper \in {"no", "waiting", "done"}
    /\ attempt \in 0..Len(Backoff)
    /\ delay \in Nat /\ (task = "backoff" => \E i \in DOMAIN Backoff : delay = Backoff[i])
    /\ outcome \in {"clean", "error", "cancelled"}
    /\ wire \in Seq(Msgs \cup {"version", "join"}) /\ asked \in Seq(KeyMsgs)
    /\ buffered \in Nat /\ opened \in Nat /\ reports \in Nat

\* Every connection that had a writer is reported lost exactly once, and not
\* before its writer is gone: whichever await a cancellation hits.
ReportedOnce == opened = reports + (IF Connected THEN 1 ELSE 0)

\* The key frames among frames are those of keys, in that order: each has a place
\* of its own behind the handshake, and there is no other.
Carries(frames, keys) ==
    \E place \in [1..Len(keys) -> 3..Len(frames)] :
        /\ \A i, j \in 1..Len(keys) : i < j => place[i] < place[j]
        /\ \A i \in 1..Len(keys) : frames[place[i]] = keys[i]
        /\ \A n \in 1..Len(frames) :
              frames[n] \in KeyMsgs => \E i \in 1..Len(keys) : place[i] = n

\* However congested the connection, it carries the handshake first, then every
\* key frame given to send() while it lasts, in that order and once.
KeysReachWire ==
    wire # <<>> =>
        /\ Len(wire) >= 2 /\ wire[1] = "version" /\ wire[2] = "join"
        /\ Carries(wire, asked)

\* What _run and stop() keep between them, whichever await a cancellation hits:
\* a task that ended was told to, a cancellation never outlives its stop(), and
\* when stop() has returned there is no writer and no pending work.
StopIsFinal ==
    /\ task = "ended" => stopEvent
    /\ cancel # "none" => stopEvent
    /\ stopEvent <=> stopper # "no"
    /\ stopper = "done" => task = "ended"
    /\ outcome = "cancelled" => stopEvent
    /\ task = "none" => ~stopEvent

\* The delay that follows d in the schedule; its last one repeats.
DelayAfter(d) ==
    IF \E i \in 1..Len(Backoff) - 1 : Backoff[i] = d
    THEN Backoff[1 + CHOOSE i \in 1..Len(Backoff) - 1 : Backoff[i] = d]
    ELSE IF d = 0 THEN Backoff[1] ELSE Backoff[Len(Backoff)]

\* Each failure waits one step longer than the backoff before it, up to the cap;
\* a clean close starts over (docs/wire-protocol.md, "Reconnect backoff").
BackoffEscalates ==
    [][task # "backoff" /\ task' = "backoff" =>
          delay' = IF task = "closing" /\ outcome = "clean"
                   THEN Backoff[1] ELSE DelayAfter(delay)]_vars

\* stop() always returns, at whichever await the task is.
StopReturnsEventually == stopper = "waiting" ~> stopper = "done"

\* A connection that ended is followed by a new dial, unless stopped.
Redials == task \in {"closing", "backoff"} ~> task \in {"dial", "ended"}

\* A transport is a Link: connecting and dropping in turn, each drop reported,
\* ending only on stop.
LinkOf == INSTANCE Link WITH
    life <- IF task = "none" THEN "fresh" ELSE IF task = "ended" THEN "ended" ELSE "running",
    up <- Connected, stopping <- stopEvent, reports <- reports

ImplementsLink == LinkOf!Spec
=============================================================================
