---------------------------- MODULE MCMasterKeys ----------------------------
(* A keyboard for MasterKeys: Shift_Lock (an Orca modifier of the laptop      *)
(* layout) and Meta (which sets the bit of Alt), which keysym_to_vk does not  *)
(* know, Ctrl, Shift, and a key that triggers commands of ours: x with Ctrl   *)
(* and with Alt, as PageUp and Tab do, and with Ctrl and Shift X, as C does.  *)
(* Unlike C, and like the keypad's digits, X is another Windows key than x.   *)
EXTENDS MasterKeys

AllKeysyms == {"Shift_Lock", "Meta", "Control", "Shift", "x", "X"}
KeysymOf == [p \in PhysKeys |-> IF p = "x" THEN <<"x", "X">> ELSE <<p, p>>]
Unmapped == {"Shift_Lock", "Meta"}
VkOf == [s \in AllKeysyms |-> IF s \in Unmapped THEN NoVk ELSE s]
VkSet == AllKeysyms \ Unmapped

\* This keyboard is one of those the theorem OwnChords is about.
ASSUME KeyboardHasMod == \E q \in PhysKeys : SteadyMod(q)
ASSUME KeyboardTriggers == TriggersComplete
=============================================================================
