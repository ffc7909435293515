-------------------------------- MODULE Link --------------------------------
(***************************************************************************)
(* What one RemoteTransport promises the extension that owns it: once begun *)
(* it connects and drops any number of times, reports every drop exactly    *)
(* once and at the moment from which frames are no longer taken, and ends    *)
(* only when told to stop, never to connect again.                          *)
(***************************************************************************)
EXTENDS Naturals

VARIABLES life,      \* "fresh", "running" or "ended"
          up,        \* frames are taken and delivered
          stopping,  \* a stop was asked for
          reports    \* drops reported to the owner

vars == <<life, up, stopping, reports>>

Init == life = "fresh" /\ up = FALSE /\ stopping = FALSE /\ reports = 0

Begin == life = "fresh" /\ life' = "running" /\ UNCHANGED <<up, stopping, reports>>

AskStop ==
    /\ life = "running" /\ ~stopping
    /\ stopping' = TRUE
    /\ UNCHANGED <<life, up, reports>>

Connect ==
    /\ life = "running" /\ ~up
    /\ up' = TRUE
    /\ UNCHANGED <<life, stopping, reports>>

Drop ==
    /\ up
    /\ up' = FALSE /\ reports' = reports + 1
    /\ UNCHANGED <<life, stopping>>

Finish ==
    /\ life = "running" /\ stopping /\ ~up
    /\ life' = "ended"
    /\ UNCHANGED <<up, stopping, reports>>

Next == Begin \/ AskStop \/ Connect \/ Drop \/ Finish

Spec == Init /\ [][Next]_vars /\ WF_vars(stopping /\ (Drop \/ Finish))
=============================================================================
