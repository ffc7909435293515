--------------------------- MODULE MCLegacyControl ---------------------------
(* The constants of LegacyControl for TLC: a key that is in every shortcut, and *)
(* that no Windows key stands for (as none does for Page_Down), and one that is *)
(* in none and is sent; a Wayland desktop with ydotool, and X11 ones with       *)
(* xdotool, where the portal knows the key or does not.                         *)
EXTENDS LegacyControl

CONSTANTS a, t

MCKeys == {a, t}
MCMapped == {a}
MCShortcutKeys == {t}
MCSetups ==
    {[session |-> "wayland", tools |-> {"ydotool"}, coded |-> {a}, named |-> {a}],
     [session |-> "x11", tools |-> {"xdotool"}, coded |-> {a}, named |-> {a}],
     [session |-> "x11", tools |-> {"xdotool"}, coded |-> {}, named |-> {}]}
=============================================================================
