---------------------------- MODULE MCTransport ----------------------------
(* The backoff schedule of transport.py for TLC.                             *)
EXTENDS Transport

Schedule == <<1, 2, 5, 10, 30>>
=============================================================================
