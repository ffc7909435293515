---------------------------- MODULE LegacyControl ----------------------------
(* Two machines with the legacy plug-in: the keyboard of the controlling one   *)
(* (LegacyKeys) and the virtual keyboards of the controlled one (LocalMachine),*)
(* joined by the frames on their way through the relay server.  The relay      *)
(* keeps the order of one sender's frames and drops those for a member that is *)
(* not there.                                                                  *)
(*                                                                             *)
(* Each machine loses and regains its own connection, and the user of the      *)
(* controlling one may disconnect.                                             *)
EXTENDS Naturals, Sequences, SequencesExt

CONSTANTS Keys, Mapped, ToggleKeys, CloseKeys, OtherKeys, MaxWire, Setups, MaxFaults

ASSUME LegacyControlAssumption ==
    /\ Mapped \cup ToggleKeys \cup CloseKeys \cup OtherKeys \subseteq Keys
    /\ MaxWire \in Nat /\ MaxFaults \in Nat
    /\ \A s \in Setups :
          /\ s.session \in {"x11", "wayland"}
          /\ s.tools \subseteq {"xdotool", "ydotool"}
          /\ s.coded \subseteq s.named /\ s.named \subseteq Keys

VARIABLES mode, grabbed, linked, dropping, forwarded, direct, handler, wire, emptied
VARIABLES setup, link, held, down, portal, inside, lock, work, try, job, owed, faults
VARIABLE lost     \* history: a link was lost, other than by the user's disconnect

M == INSTANCE LegacyKeys
S == INSTANCE LocalMachine

masterVars == <<mode, grabbed, linked, dropping, forwarded, direct, handler, wire, emptied>>
slaveVars == <<setup, link, held, down, portal, inside, lock, work, try, job, owed, faults>>
vars == <<masterVars, slaveVars, lost>>

TypeOK == M!TypeOK /\ S!TypeOK /\ lost \in BOOLEAN

Init == M!Init /\ S!Init /\ lost = FALSE

\* The reader of the controlled machine takes a frame, or it is lost.
Deliver ==
    /\ wire # <<>>
    /\ wire' = Tail(wire)
    /\ \/ link # "down" /\ S!KeyFrame(Head(wire).key, Head(wire).pressed)
       \/ link # "up" /\ UNCHANGED slaveVars
    /\ UNCHANGED <<mode, grabbed, linked, dropping, forwarded, direct, handler, emptied, lost>>

\* A step of the controlling machine.  Bound: after a lost link it does not
\* connect again, and is followed until it knows of its own lost connection.
Controlling ==
    /\ linked \/ dropping \/ ~lost
    /\ (M!Steps /\ UNCHANGED lost) \/ (M!Drop /\ lost' = TRUE)
    /\ UNCHANGED slaveVars

\* A step of the controlled one, other than taking a frame.
Controlled ==
    /\ \/ S!Runs("reader") /\ UNCHANGED lost
       \/ S!LinkEnds /\ lost' = TRUE
       \/ (S!LinkReported \/ S!Rejoin) /\ UNCHANGED lost
    /\ UNCHANGED masterVars

Next == Deliver \/ Controlling \/ Controlled

\* The relay and the reader run, a question to the user is answered or runs into
\* its timeout.  Nobody has to press, toggle or disconnect.
Fairness ==
    /\ WF_vars(Deliver)
    /\ WF_vars(Controlled /\ S!Inject("reader"))

Spec == Init /\ [][Next]_vars
FairSpec == Spec /\ Fairness

-----------------------------------------------------------------------------
Coming(k) ==
    \/ M!Frame(k, FALSE) \in Range(wire)
    \/ S!Event(k, FALSE) \in Range(work["reader"])

\* The controlling machine's user can still let go of the key, over there.
Controls(k) == k \in forwarded /\ (mode = "remote" \/ handler # "idle")

\* The release of the key was injected after the last press, and yet it may be
\* down somewhere, because a call failed.
Amiss(k) == k \notin owed /\ faults > 0

\* "so we can send synthetic key-up events and un-stick them on the remote
\* machine": as long as no link is lost, each key that a virtual keyboard of the
\* controlled machine holds down is one the controlling machine still controls,
\* or its release is coming, or was injected in vain -- or the user disconnected
\* and its release, the key's last frame, was emptied with the queue.  Neither
\* a toggle in the middle of a chord nor any other shortcut leaves a key behind,
\* nor does a disconnect leave one whose release it did not queue.
DownIsAccounted ==
    ~lost => \A k \in S!AllDown :
                Controls(k) \/ Coming(k) \/ Amiss(k) \/ k \in emptied

\* "un-stick them on the remote machine", without the exception for the user's
\* disconnect.  The code does not keep it.
ShortcutsUnstick ==
    ~lost => \A k \in S!AllDown : Controls(k) \/ Coming(k) \/ Amiss(k)

\* "Release keys the remote pressed but never released": whatever the links, the
\* tools and the portal do, with its own link down and its reader done the
\* controlled machine has injected the release of every key it pressed, and if
\* no call failed, none of its virtual keyboards holds a key.
NothingHeldUnlinked == S!NothingHeldUnlinked

\* The user's refusal of the portal is final: no other backend gets round it,
\* for the frame that brought the question up or a later one.
RefusalIsFinal ==
    [][ ("denied" \in portal /\ setup.session = "wayland")
        => \A b \in S!Keyboards : down'[b] \subseteq down[b] ]_vars

\* A key that the controlling machine has let go of comes up at the other end,
\* with the exceptions of DownIsAccounted.
KeysComeUp ==
    \A k \in Mapped :
        (k \in S!AllDown /\ ~Controls(k))
            ~> (k \notin S!AllDown \/ Controls(k) \/ Amiss(k) \/ k \in emptied \/ lost)

\* While keys go to the other machine, this one's keyboard is grabbed: a
\* keystroke never also acts here.
RemoteIsGrabbed == (mode = "remote" /\ handler = "idle") => grabbed
=============================================================================
