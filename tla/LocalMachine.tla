---------------------------- MODULE LocalMachine ----------------------------
(* The controlled side of the legacy plug-in: LocalMachine's key injection     *)
(* (orca-scripts/local_machine.py) as RemoteController drives it.  Key frames  *)
(* are handled on the transport's thread ("reader"); the user's disconnect     *)
(* runs on Orca's main thread ("main").  Both inject through the same backends *)
(* and the same portal injector, whose session is set up under a lock while    *)
(* the desktop asks the user for permission.                                   *)
(*                                                                             *)
(* The answer to that question is a D-Bus signal, delivered by the main        *)
(* thread's main context: _portal_request only waits for it.                   *)
EXTENDS Naturals, Sequences, SequencesExt

CONSTANTS Keys,
          Setups,      \* what machines have: records of the session they run, the
                       \* tools installed, and the keys that have a keycode
                       \* (coded), or that or a keysym (named)
          MaxFaults    \* bound: calls that fail

Threads == {"reader", "main"}
Backends == {"portal", "xdotool", "ydotool"}

\* The virtual keyboards: those of the backends, and those that portal sessions
\* left behind when they ended.
Keyboards == Backends \cup {"former"}

VARIABLES
    setup,      \* this machine's setup
    link,       \* up; lost, and not yet reported by the reader; down
    held,       \* _held_keys
    down,       \* what each virtual keyboard holds down
    portal,     \* the portal injector's flags that are set
    inside,     \* the threads in _ensure_session
    lock,       \* the one of them that sets the session up, if any
    work,       \* the injections each thread has still to make
    try,        \* which backend, in order, the first of them has come to
    job,        \* what a thread does: nothing, a key frame, a release of all keys
    owed,       \* history: keys that went down somewhere and whose release has not
                \* been injected since, successfully or not
    faults      \* history: how many calls have failed

keyboardVars == <<down, owed>>
vars == <<setup, link, held, keyboardVars, portal, inside, lock, work, try, job, faults>>

Event(k, pressed) == [key |-> k, pressed |-> pressed]
Events == [key : Keys, pressed : BOOLEAN]

TypeOK ==
    /\ setup \in Setups
    /\ link \in {"up", "lost", "down"}
    /\ held \subseteq Keys
    /\ down \in [Keyboards -> SUBSET Keys]
    /\ portal \subseteq {"started", "denied", "unavailable"}
    /\ inside \subseteq Threads
    /\ lock \in Threads \cup {"none"}
    /\ work \in [Threads -> Seq(Events)]
    /\ try \in [Threads -> 1..4]
    /\ job \in [Threads -> {"none", "frame", "release"}]
    /\ owed \subseteq Keys /\ faults \in 0..MaxFaults

Init ==
    /\ setup \in Setups
    /\ link = "up"
    /\ held = {}
    /\ down = [b \in Keyboards |-> {}]
    /\ portal = {} /\ inside = {}
    /\ lock = "none"
    /\ work = [t \in Threads |-> <<>>]
    /\ try = [t \in Threads |-> 1]
    /\ job = [t \in Threads |-> "none"]
    /\ owed = {} /\ faults = 0

\* _inject: the order in which the backends are tried.
Order == IF setup.session = "wayland" THEN <<"portal", "ydotool">>
         ELSE <<"xdotool", "ydotool", "portal">>

Busy(t) == work[t] # <<>>
Turn(t, b) == Busy(t) /\ try[t] <= Len(Order) /\ Order[try[t]] = b

-----------------------------------------------------------------------------
(* One injection.                                                              *)

\* A set of keys after the event.
After(e, ks) == IF e.pressed THEN ks \cup {e.key} ELSE ks \ {e.key}

\* The thread is through with its first event.
OnTo(t) ==
    /\ work' = [work EXCEPT ![t] = Tail(@)]
    /\ try' = [try EXCEPT ![t] = 1]

\* A backend takes the event.
Done(t, b) ==
    LET e == Head(work[t])
    IN  /\ down' = [down EXCEPT ![b] = After(e, @)]
        /\ owed' = After(e, owed)
        /\ OnTo(t)

\* The event is given up, with or without a warning.
GiveUp(t) ==
    LET e == Head(work[t])
    IN  /\ owed' = IF e.pressed THEN owed ELSE owed \ {e.key}
        /\ OnTo(t)
        /\ UNCHANGED down

NextBackend(t) ==
    try' = [try EXCEPT ![t] = @ + 1] /\ UNCHANGED <<work, keyboardVars>>

\* What b holds if the event, which may come too late to be answered, lands.
Holds(t, b, lands) == IF lands THEN After(Head(work[t]), down[b]) ELSE down[b]

\* The call that hands a backend the event fails, before its effect or after.
CallFails(t, lands) ==
    LET e == Head(work[t])
    IN  /\ faults < MaxFaults /\ faults' = faults + 1
        /\ owed' = IF lands /\ e.pressed THEN owed \cup {e.key} ELSE owed
        /\ try' = [try EXCEPT ![t] = @ + 1]
        /\ UNCHANGED work

\* Bug: a refusal by the user is taken for a missing portal.
RefusalFallsBack(t, flags) == NextBackend(t)

\* The portal returned False: on Wayland a refusal is final for this event.
PortalReturnsFalse(t, flags) ==
    IF setup.session = "wayland" /\ "denied" \in flags THEN GiveUp(t) ELSE NextBackend(t)

\* The tool is installed, and ydotool has a code for the key.
Usable(b, k) == b \in setup.tools /\ (b = "ydotool" => k \in setup.coded)

\* xdotool and ydotool, run as a command: it succeeds, or exits with an error,
\* is gone after all, or runs into ydotool's timeout.
RunTool(t, b) ==
    /\ b \in {"xdotool", "ydotool"}
    /\ Turn(t, b)
    /\ IF Usable(b, Head(work[t]).key)
       THEN \/ Done(t, b) /\ UNCHANGED faults
            \/ \E lands \in BOOLEAN :
                  CallFails(t, lands) /\ down' = [down EXCEPT ![b] = Holds(t, b, lands)]
       ELSE NextBackend(t) /\ UNCHANGED faults
    /\ UNCHANGED <<setup, link, held, portal, inside, lock, job>>

\* PortalKeyboardInjector.send_key, up to _ensure_session; a key that cannot be
\* mapped does not get there.
EnterPortal(t) ==
    /\ Turn(t, "portal") /\ t \notin inside
    /\ IF "unavailable" \in portal \/ Head(work[t]).key \notin setup.named
       THEN PortalReturnsFalse(t, portal) /\ UNCHANGED inside
       ELSE inside' = inside \cup {t} /\ UNCHANGED <<work, try, keyboardVars>>
    /\ UNCHANGED <<setup, link, held, portal, lock, job, faults>>

\* The call to the portal is made; or it fails, and the session has ended for
\* the injector.  Its virtual keyboard goes, or stays with what it holds, where
\* no later session reaches it.
PortalCall(t) ==
    \/ Done(t, "portal") /\ UNCHANGED <<portal, faults>>
    \/ \E lands, stays \in BOOLEAN :
          /\ CallFails(t, lands)
          /\ portal' = portal \ {"started"}
          /\ down' = [down EXCEPT !["portal"] = {}, !["former"] =
                         IF stays THEN @ \cup Holds(t, "portal", lands) ELSE @]

\* _ensure_session under the lock finds the session, or a refusal.
Returns(t) ==
    /\ t \in inside /\ lock = "none"
    /\ inside' = inside \ {t}
    /\ \/ "started" \in portal /\ PortalCall(t)
       \/ /\ "started" \notin portal /\ "denied" \in portal
          /\ PortalReturnsFalse(t, portal)
          /\ UNCHANGED <<portal, faults>>
    /\ UNCHANGED <<setup, link, held, lock, job>>

\* Otherwise it sets a session up, the lock kept -- also when the other thread
\* has just failed to.
SetUp(t) ==
    /\ t \in inside /\ lock = "none"
    /\ portal \cap {"started", "denied"} = {}
    /\ lock' = t
    /\ UNCHANGED <<setup, link, held, keyboardVars, portal, inside, work, try, job, faults>>

\* The set-up ends in one of the flags, and the key goes out if it is "started".
SetUpEnds(t, flag) ==
    /\ lock = t
    /\ lock' = "none" /\ inside' = inside \ {t}
    /\ portal' = portal \cup {flag}
    /\ IF flag = "started" THEN Done(t, "portal")
       ELSE PortalReturnsFalse(t, portal \cup {flag})
    /\ UNCHANGED <<setup, link, held, job, faults>>

\* The main thread dispatches the portal's answer, and the timeout that stands
\* in for it, unless it waits for the lock.
MainDispatches == ~("main" \in inside /\ lock = "reader")

\* _portal_request has its answer: granted, refused, or of no use.
Answer(t) ==
    /\ MainDispatches
    /\ \E flag \in {"started", "denied", "unavailable"} : SetUpEnds(t, flag)

\* The bus fails the request before there is anything to wait for.
BusFails(t) == SetUpEnds(t, "unavailable")

\* No backend is left.
NoBackend(t) ==
    /\ Busy(t) /\ try[t] > Len(Order)
    /\ GiveUp(t)
    /\ UNCHANGED <<setup, link, held, portal, inside, lock, job, faults>>

-----------------------------------------------------------------------------
(* What is injected.                                                           *)

\* send_key for a key frame: the key is remembered before it is injected.
KeyFrame(k, pressed) ==
    /\ link # "down" /\ job["reader"] = "none"
    /\ held' = IF pressed THEN held \cup {k} ELSE held \ {k}
    /\ work' = [work EXCEPT !["reader"] = <<Event(k, pressed)>>]
    /\ job' = [job EXCEPT !["reader"] = "frame"]
    /\ UNCHANGED <<setup, link, keyboardVars, portal, inside, lock, try, faults>>

\* Bug: the set is cleared before it is gone through.
ReleaseNoKeys(t) ==
    /\ job' = [job EXCEPT ![t] = "release"]
    /\ held' = {}
    /\ UNCHANGED <<setup, keyboardVars, portal, inside, lock, work, try, faults>>

\* release_all_keys: the keys held now are released one after another.
ReleaseAllKeys(t) ==
    /\ work' = [work EXCEPT ![t] = SetToSeq({Event(k, FALSE) : k \in held})]
    /\ job' = [job EXCEPT ![t] = "release"]
    /\ UNCHANGED <<setup, held, keyboardVars, portal, inside, lock, try, faults>>

\* The connection ends under the reader.
LinkEnds ==
    /\ link = "up"
    /\ link' = "lost"
    /\ UNCHANGED <<setup, held, keyboardVars, portal, inside, lock, work, try, job, faults>>

\* The reader, done with what it had read, reports it (_on_transport_disconnected).
LinkReported ==
    /\ link = "lost" /\ job["reader"] = "none"
    /\ link' = "down"
    /\ ReleaseAllKeys("reader")

\* disconnect(): the transport is closed, then the keys are released.
UserDisconnect ==
    /\ job["main"] = "none"
    /\ link' = IF link = "up" THEN "lost" ELSE link
    /\ ReleaseAllKeys("main")

\* The last injection is made; a release of all keys ends by forgetting them.
JobDone(t) ==
    /\ job[t] # "none"
    /\ ~Busy(t)
    /\ held' = IF job[t] = "release" THEN {} ELSE held
    /\ job' = [job EXCEPT ![t] = "none"]
    /\ UNCHANGED <<setup, link, keyboardVars, portal, inside, lock, work, try, faults>>

\* The link comes up again, once the reader is through with the old one.
Rejoin ==
    /\ link = "down" /\ job["reader"] = "none"
    /\ link' = "up"
    /\ UNCHANGED <<setup, held, keyboardVars, portal, inside, lock, work, try, job, faults>>

-----------------------------------------------------------------------------
Inject(t) ==
    \/ \E b \in Backends : RunTool(t, b)
    \/ EnterPortal(t) \/ Returns(t) \/ SetUp(t) \/ Answer(t) \/ NoBackend(t) \/ JobDone(t)

\* What a thread does of itself.
Runs(t) == Inject(t) \/ BusFails(t)

Next ==
    \/ \E t \in Threads : Runs(t)
    \/ \E k \in Keys, pressed \in BOOLEAN : KeyFrame(k, pressed)
    \/ LinkEnds \/ LinkReported \/ UserDisconnect \/ Rejoin

\* The threads run, and a question to the user is answered or runs into its
\* timeout where the main thread is there to dispatch it.
Fairness == \A t \in Threads : WF_vars(Inject(t))

Spec == Init /\ [][Next]_vars
FairSpec == Spec /\ Fairness

-----------------------------------------------------------------------------
AllDown == UNION {down[b] : b \in Keyboards}

\* "Release keys the remote pressed but never released": with the link gone and
\* no thread at work, the release of every key that went down has been injected,
\* and if no call failed, no virtual keyboard holds a key.
NothingHeldUnlinked ==
    (link = "down" /\ \A t \in Threads : job[t] = "none") =>
        owed = {} /\ (faults = 0 => AllDown = {})

\* "Disconnect from the remote server": disconnect() comes to its end, where the
\* user is told so.
DisconnectCompletes == (job["main"] # "none") ~> (job["main"] = "none")
=============================================================================
