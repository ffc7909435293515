--------------------------- MODULE MCLocalMachine ---------------------------
(* The constants of LocalMachine for TLC: a Wayland desktop with ydotool, and  *)
(* an X11 one with no tool, which is left with the portal.                     *)
EXTENDS LocalMachine

MCSetups ==
    {[session |-> "wayland", tools |-> {"ydotool"}, coded |-> Keys, named |-> Keys],
     [session |-> "x11", tools |-> {}, coded |-> Keys, named |-> Keys]}
=============================================================================
