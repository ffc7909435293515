-------------------------- MODULE MCLegacyTransport --------------------------
(* LegacyTransport as it is checked and proved about: over variables of its    *)
(* own, and under names that can stand beside Transport's.                     *)
CONSTANTS MaxConns, MaxFrames, MaxLate, MaxCloses, MaxReconnects
VARIABLES sock, link, connected, closed, queue, qthread, sender, holds, legacyWire,
          reads, pc, then, joins, running, connector, frames, late, closes, reconnects

L == INSTANCE LegacyTransport WITH wire <- legacyWire

ASSUME LegacyTransportAssumption == L!Bounds

LegacySpec == L!Spec
LegacyFairSpec == L!FairSpec

\* Beside one connector, its clean-up and the user's close() never leave two sender
\* threads on one queue.
OneSender == L!OneSender

\* Whoever ran _disconnect, no socket, sender thread or greeting is left between
\* connections.
NothingLeftBehind == L!NothingLeftBehind

\* Beside one connector, send_queue puts the frames on a connection in the order
\* send() queued them.
WireInOrder == L!WireInOrder

\* The None that _disconnect queues is there for as long as its join() waits.
CloseIsAnswered == L!CloseIsAnswered

\* close() comes back, however _disconnect meets the connector's own.
FirstCloseReturns == L!FirstCloseReturns
=============================================================================
