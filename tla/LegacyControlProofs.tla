------------------------- MODULE LegacyControlProofs -------------------------
(* What holds of LegacyControl for any keys, shortcuts, setups and bounds.     *)
(*                                                                             *)
(* The invariant has three layers.  Keeping: a key that went down is remembered *)
(* as held until its release is injected, whatever the calls that inject do.   *)
(* Clean: until a call fails, a key's press and its release reach the same     *)
(* virtual keyboard, as a backend that let the one pass lets the other pass.   *)
(* Sound: until a link is lost, no key is owed a release that is neither in    *)
(* the controlling user's hand, nor on its way, nor emptied with the queue.    *)
EXTENDS LegacyControl, FiniteSetTheorems, TLAPS

-----------------------------------------------------------------------------
(* Sequences and sets.                                                         *)

\* What a sequence loses with its head.
LEMMA HeadAndTail ==
    ASSUME NEW E, NEW s \in Seq(E), s # <<>>
    PROVE  /\ Head(s) = s[1] /\ Head(s) \in E
           /\ Tail(s) \in Seq(E) /\ Len(Tail(s)) = Len(s) - 1 /\ Len(s) \in Nat \ {0}
           /\ \A i \in 1..Len(Tail(s)) : Tail(s)[i] = s[i + 1] /\ i + 1 \in 1..Len(s)
           /\ Range(s) = {Head(s)} \cup Range(Tail(s))
<1>1. /\ Head(s) = s[1] /\ Head(s) \in E
      /\ Tail(s) \in Seq(E) /\ Len(Tail(s)) = Len(s) - 1 /\ Len(s) \in Nat \ {0}
      /\ \A i \in 1..Len(Tail(s)) : Tail(s)[i] = s[i + 1] /\ i + 1 \in 1..Len(s)
  OBVIOUS
<1>2. ASSUME NEW x \in Range(s), x # Head(s)
      PROVE  x \in Range(Tail(s))
  <2>1. PICK i \in 1..Len(s) : x = s[i]
    BY DEF Range
  <2>2. i - 1 \in 1..Len(Tail(s)) /\ (i - 1) + 1 = i
    BY <1>1, <1>2, <2>1
  <2>3. Tail(s)[i - 1] = x
    BY <1>1, <2>1, <2>2
  <2>4. DOMAIN Tail(s) = 1..Len(Tail(s))
    BY <1>1
  <2> QED
    BY <2>2, <2>3, <2>4, Zenon DEF Range
<1>3. Range(Tail(s)) \subseteq Range(s) /\ Head(s) \in Range(s)
  BY <1>1 DEF Range
<1> QED
  BY <1>1, <1>2, <1>3

\* What a sequence gains from another one behind it.
LEMMA RangeOfBoth ==
    ASSUME NEW E, NEW s \in Seq(E), NEW r \in Seq(E)
    PROVE  /\ s \o r \in Seq(E) /\ Len(s \o r) = Len(s) + Len(r)
           /\ \A i \in 1..Len(s) : (s \o r)[i] = s[i]
           /\ \A i \in 1..Len(r) : (s \o r)[Len(s) + i] = r[i]
           /\ Range(s \o r) = Range(s) \cup Range(r)
<1>1. /\ s \o r \in Seq(E) /\ Len(s \o r) = Len(s) + Len(r)
      /\ \A i \in 1..Len(s) : (s \o r)[i] = s[i]
      /\ \A i \in 1..Len(r) : (s \o r)[Len(s) + i] = r[i]
  OBVIOUS
<1>2. Range(s \o r) \subseteq Range(s) \cup Range(r)
  <2> SUFFICES ASSUME NEW i \in 1..(Len(s) + Len(r))
               PROVE  (s \o r)[i] \in Range(s) \cup Range(r)
    BY <1>1 DEF Range
  <2>1. CASE i <= Len(s)
    BY <1>1, <2>1 DEF Range
  <2>2. CASE i > Len(s)
    <3>1. i - Len(s) \in 1..Len(r) /\ Len(s) + (i - Len(s)) = i
      BY <2>2
    <3>2. (s \o r)[i] = r[i - Len(s)]
      BY <1>1, <3>1
    <3> QED
      BY <3>1, <3>2 DEF Range
  <2> QED
    BY <2>1, <2>2
<1>3. Range(s) \subseteq Range(s \o r)
  BY <1>1 DEF Range
<1>4. Range(r) \subseteq Range(s \o r)
  <2> SUFFICES ASSUME NEW i \in 1..Len(r) PROVE r[i] \in Range(s \o r)
    BY DEF Range
  <2>1. Len(s) + i \in 1..Len(s \o r)
    BY <1>1
  <2> QED
    BY <1>1, <2>1 DEF Range
<1> QED
  BY <1>1, <1>2, <1>3, <1>4

\* The elements of a finite set, one after another, are that set.
LEMMA ListOfSet ==
    ASSUME NEW T, IsFiniteSet(T)
    PROVE  SetToSeq(T) \in Seq(T) /\ Range(SetToSeq(T)) = T
<1> DEFINE n == Cardinality(T)
<1>1. n \in Nat /\ ExistsBijection(1..n, T)
  BY FS_CardinalityType
<1>2. \E f \in [1..n -> T] : IsInjective(f)
  BY <1>1 DEF ExistsBijection, Bijection, Injection
<1>3. SetToSeq(T) \in [1..n -> T] /\ IsInjective(SetToSeq(T))
  BY <1>2, Zenon DEF SetToSeq
<1>4. SetToSeq(T) \in Injection(1..n, T)
  BY <1>3 DEF Injection
<1>5. IsFiniteSet(1..n) /\ Cardinality(1..n) = n
  BY <1>1, FS_Interval
<1>6. SetToSeq(T) \in Surjection(1..n, T)
  BY <1>4, <1>5, FS_Injection
<1>7. \A x \in T : \E i \in 1..n : SetToSeq(T)[i] = x
  BY <1>6 DEF Surjection
<1> QED
  BY <1>1, <1>3, <1>7 DEF Range

\* A sequence over a set is one over any larger set.
LEMMA SeqOfMore ==
    ASSUME NEW A, NEW B, A \subseteq B, NEW s \in Seq(A)
    PROVE  s \in Seq(B)
<1>1. s \in [1..Len(s) -> A] /\ Len(s) \in Nat
  OBVIOUS
<1>2. s \in [1..Len(s) -> B]
  BY <1>1
<1> QED
  BY <1>1, <1>2

\* So are a release of each of the keys in a finite set.
LEMMA ListOfReleases ==
    ASSUME NEW ks \in SUBSET Keys, IsFiniteSet(ks)
    PROVE  LET all == {[key |-> k, pressed |-> FALSE] : k \in ks}
           IN  /\ SetToSeq(all) \in Seq(all)
               /\ Range(SetToSeq(all)) = all
               /\ SetToSeq(all) \in Seq([key : Keys, pressed : BOOLEAN])
<1> DEFINE all == {[key |-> k, pressed |-> FALSE] : k \in ks}
           f == [k \in ks |-> [key |-> k, pressed |-> FALSE]]
<1>1. f \in Surjection(ks, all)
  BY DEF Surjection
<1>2. IsFiniteSet(all)
  BY <1>1, FS_Surjection
<1>3. all \subseteq [key : Keys, pressed : BOOLEAN]
  <2> SUFFICES ASSUME NEW k \in ks
               PROVE  [key |-> k, pressed |-> FALSE] \in [key : Keys, pressed : BOOLEAN]
    OBVIOUS
  <2>1. k \in Keys
    OBVIOUS
  <2> QED
    BY <2>1
<1> HIDE DEF all
<1>4. SetToSeq(all) \in Seq(all) /\ Range(SetToSeq(all)) = all
  BY <1>2, ListOfSet
<1>5. SetToSeq(all) \in Seq([key : Keys, pressed : BOOLEAN])
  BY <1>3, <1>4, SeqOfMore, Zenon
<1> QED
  BY <1>4, <1>5 DEF all

\* The two machines list a set the same way.
LEMMA SameLists ==
    ASSUME NEW T
    PROVE  S!SetToSeq(T) = SetToSeq(T) /\ M!SetToSeq(T) = SetToSeq(T)
<1>1. S!Cardinality(T) = Cardinality(T) /\ M!Cardinality(T) = Cardinality(T)
  BY DEF S!Cardinality, M!Cardinality, Cardinality
<1>2. \A f : /\ S!IsInjective(f) <=> IsInjective(f)
             /\ M!IsInjective(f) <=> IsInjective(f)
  BY DEF S!IsInjective, M!IsInjective, IsInjective
<1> QED
  BY <1>1, <1>2, Zenon DEF S!SetToSeq, M!SetToSeq, SetToSeq

-----------------------------------------------------------------------------
(* The invariant.                                                              *)

\* The injections the controlled machine's reader has still to make.
Queue == work["reader"]

\* The state has its types, there is an end to what is held, and on the
\* controlled machine only the reader is at work.
Shape ==
    /\ TypeOK
    /\ IsFiniteSet(held) /\ IsFiniteSet(forwarded)
    /\ job["main"] = "none" /\ work["main"] = <<>>
    /\ inside \subseteq {"reader"} /\ lock \in {"none", "reader"}
    /\ Queue = <<>> => try["reader"] = 1
    /\ try["reader"] <= Len(S!Order) + 1

\* The user has refused, and there is no way round that.
Denied == portal = {"denied"} /\ setup.session = "wayland"

\* The portal has one flag at most.  The reader is in it only on its turn and
\* with a key that can be mapped, asks the user only when there is no flag yet,
\* and gets past it only before a final refusal.
Asking ==
    /\ portal \in {{}, {"started"}, {"denied"}, {"unavailable"}}
    /\ lock = "reader" => portal = {} /\ "reader" \in inside
    /\ "reader" \in inside =>
          /\ S!Turn("reader", "portal") /\ Head(Queue).key \in setup.named
          /\ portal # {"unavailable"}
    /\ Denied => try["reader"] = 1

\* What each job of the reader has left to inject.
Jobs ==
    /\ job["reader"] = "none" => Queue = <<>>
    /\ job["reader"] = "frame" => Len(Queue) <= 1
    /\ \A i \in 1..Len(Queue) :
          Queue[i].pressed => job["reader"] = "frame" /\ Queue[i].key \in held

\* Each key that is owed a release is remembered as held or about to be released;
\* once the keys are being released, each of them is still to come.
Remembered ==
    \A k \in owed : \/ k \in held /\ job["reader"] # "release"
                    \/ S!Event(k, FALSE) \in Range(Queue)

\* No frame is taken while the link is down.
Unlinked ==
    link = "down" => /\ job["reader"] # "frame"
                     /\ job["reader"] = "none" => owed = {}

Keeping == Jobs /\ Remembered /\ Unlinked

\* A backend that takes a key when it comes to it, and one that lets it pass on
\* to the next.  The portal does neither before the user has been asked, nor
\* after a final refusal.
Takes(b, k) == IF b = "portal" THEN portal = {"started"} /\ k \in setup.named
               ELSE S!Usable(b, k)

Passes(b, k) ==
    IF b = "portal"
    THEN ~Denied /\ (k \in setup.named => portal \in {{"unavailable"}, {"denied"}})
    ELSE ~S!Usable(b, k)

\* The first backend in the order that does not let the key pass, if it takes it.
TakesFirst(b, k) ==
    \E i \in 1..Len(S!Order) :
        S!Order[i] = b /\ Takes(b, k) /\ \A j \in 1..(i - 1) : Passes(S!Order[j], k)

\* The backends an injection has left behind have all let it pass.
Position ==
    Queue # <<>> => \A j \in 1..(try["reader"] - 1) : Passes(S!Order[j], Head(Queue).key)

\* So no key is pressed at one virtual keyboard and released at another.
OneKeyboard ==
    /\ down["former"] = {}
    /\ \A b \in S!Backends : \A k \in down[b] : TakesFirst(b, k)

\* What is down is owed a release.
Owing == \A b \in S!Backends : down[b] \subseteq owed

Clean == Position /\ OneKeyboard /\ Owing

\* The controlling user has the key down, and letting go of it, or of control,
\* sends its release.
Has(k) == linked /\ mode = "remote" /\ handler = "idle" /\ k \in forwarded

\* ... or it was let go of in vain, as the user disconnected.
Answered(k) == Has(k) \/ k \in emptied

\* A press on its way is of such a key, or its release follows; and so is a press
\* that was injected.
Sound ==
    \A k \in Keys :
        /\ \A i \in 1..Len(wire) :
              wire[i] = M!Frame(k, TRUE) =>
                  Answered(k) \/ \E j \in (i + 1)..Len(wire) : wire[j] = M!Frame(k, FALSE)
        /\ S!Event(k, TRUE) \in Range(Queue) =>
              Answered(k) \/ M!Frame(k, FALSE) \in Range(wire)
        /\ k \in owed => Answered(k) \/ Coming(k)

\* While no link is lost, the controlled machine's is up, and the controlling one
\* knows of the end of its own before it connects again.
Undisturbed ==
    /\ link = "up" /\ job["reader"] # "release"
    /\ linked => ~dropping
    /\ Sound

IInv ==
    /\ Shape /\ Asking /\ Keeping
    /\ faults = 0 => Clean
    /\ ~lost => Undisturbed

-----------------------------------------------------------------------------
(* One injection of the controlled machine.                                    *)

\* The order names each backend once; the portal comes first on Wayland, and last
\* elsewhere.
LEMMA OrderShape ==
    ASSUME setup \in Setups
    PROVE  /\ Len(S!Order) \in {2, 3}
           /\ \A i \in 1..Len(S!Order) : S!Order[i] \in S!Backends
           /\ \A i, j \in 1..Len(S!Order) : S!Order[i] = S!Order[j] => i = j
           /\ IF setup.session = "wayland"
              THEN Len(S!Order) = 2 /\ S!Order[1] = "portal" /\ S!Order[2] = "ydotool"
              ELSE Len(S!Order) = 3 /\ S!Order[3] = "portal"
           /\ setup.coded \subseteq setup.named
<1>1. /\ setup.session \in {"x11", "wayland"} /\ setup.tools \subseteq {"xdotool", "ydotool"}
      /\ setup.coded \subseteq setup.named
  BY LegacyControlAssumption DEF LegacyControlAssumption
<1>2. CASE setup.session = "wayland"
  BY <1>1, <1>2 DEF S!Order, S!Backends
<1>3. CASE setup.session # "wayland"
  BY <1>1, <1>3 DEF S!Order, S!Backends
<1> QED
  BY <1>2, <1>3

\* While the setup and the portal's flags are what they were, so is what each
\* backend does with a key.
LEMMA SameBackends ==
    ASSUME UNCHANGED <<setup, portal>>
    PROVE  /\ S!Order' = S!Order /\ (Denied' <=> Denied)
           /\ \A b, k : Passes(b, k)' <=> Passes(b, k)
           /\ \A b, k : TakesFirst(b, k)' <=> TakesFirst(b, k)
<1>1. S!Order' = S!Order /\ (Denied' <=> Denied)
  BY DEF S!Order, Denied
<1>2. \A b, k : S!Usable(b, k)' <=> S!Usable(b, k)
  BY DEF S!Usable
<1>3. \A b, k : Passes(b, k)' <=> Passes(b, k)
  BY <1>1, <1>2 DEF Passes
<1>4. \A b, k : Takes(b, k)' <=> Takes(b, k)
  BY <1>2 DEF Takes
<1> QED
  BY <1>1, <1>3, <1>4 DEF TakesFirst

\* No backend does both.
LEMMA NotBoth == ASSUME NEW b, NEW k, Takes(b, k) PROVE ~Passes(b, k)
<1>1. CASE b = "portal"
  BY <1>1 DEF Takes, Passes
<1>2. CASE b # "portal"
  BY <1>2 DEF Takes, Passes
<1> QED
  BY <1>1, <1>2

\* Where the order ends, or comes to a backend that neither takes nor passes the
\* key, with all before it passing, no keyboard has the key down.
LEMMA Nobody ==
    ASSUME setup \in Setups, OneKeyboard, NEW k, NEW n \in Nat \ {0}, n <= Len(S!Order) + 1,
           \A j \in 1..(n - 1) : Passes(S!Order[j], k),
           n \in 1..Len(S!Order) => ~Takes(S!Order[n], k) /\ ~Passes(S!Order[n], k)
    PROVE  \A b \in S!Backends : k \notin down[b]
<1>1. ASSUME NEW b \in S!Backends, NEW i \in 1..Len(S!Order), S!Order[i] = b, Takes(b, k),
             \A j \in 1..(i - 1) : Passes(S!Order[j], k)
      PROVE  FALSE
  <2>1. Len(S!Order) \in {2, 3}
    BY OrderShape
  <2>2. CASE i < n
    <3>1. Passes(S!Order[i], k)
      BY <2>2
    <3> QED
      BY <1>1, <3>1, NotBoth
  <2>3. CASE i = n
    BY <1>1, <2>3
  <2>4. CASE i > n
    <3>1. n \in 1..Len(S!Order) /\ n \in 1..(i - 1)
      BY <2>1, <2>4
    <3> QED
      BY <1>1, <3>1
  <2> QED
    BY <2>1, <2>2, <2>3, <2>4
<1> QED
  BY <1>1 DEF OneKeyboard, TakesFirst

\* The head of what the reader has to inject.
LEMMA HeadOfQueue ==
    ASSUME Shape, S!Busy("reader")
    PROVE  /\ Queue \in Seq(S!Events) /\ Queue # <<>>
           /\ Head(Queue) = Queue[1] /\ Head(Queue) \in Range(Queue) /\ 1 \in 1..Len(Queue)
           /\ Head(Queue).key \in Keys /\ Head(Queue).pressed \in BOOLEAN
           /\ Head(Queue) = S!Event(Head(Queue).key, Head(Queue).pressed)
           /\ Tail(Queue) \in Seq(S!Events) /\ Range(Queue) = {Head(Queue)} \cup Range(Tail(Queue))
<1>1. Queue \in Seq(S!Events) /\ Queue # <<>>
  BY DEF Shape, TypeOK, S!TypeOK, S!Busy, Queue, S!Threads
<1>2. /\ Head(Queue) = Queue[1] /\ Head(Queue) \in S!Events /\ Len(Queue) \in Nat \ {0}
      /\ Tail(Queue) \in Seq(S!Events) /\ Range(Queue) = {Head(Queue)} \cup Range(Tail(Queue))
  BY <1>1, HeadAndTail
<1> QED
  BY <1>1, <1>2 DEF S!Events, S!Event

\* What a step of the reader does to the event it has come to, if it has one: it
\* leaves it, hands it to a backend, gives it up, or a backend fails with it.
Stays == UNCHANGED <<work, down, owed, held, job, faults>>
Took(b) ==
    S!Busy("reader") /\ S!Done("reader", b) /\ UNCHANGED <<held, job, faults>>
Dropped ==
    S!Busy("reader") /\ S!GiveUp("reader") /\ UNCHANGED <<held, job, faults>>
Failed ==
    /\ S!Busy("reader") /\ UNCHANGED <<held, job>>
    /\ \E lands \in BOOLEAN : S!CallFails("reader", lands)

\* An injection is over: the next one starts with the first backend.
StartsOver == try' = [try EXCEPT !["reader"] = 1]

\* It is the next backend's turn.
MovesOn == try' = [try EXCEPT !["reader"] = @ + 1]

\* The step keeps to the protocol of asking, and, where no call has failed, the
\* keys where they belong.
Kept ==
    /\ Asking'
    /\ faults' = 0 => (faults = 0 /\ (Clean => Clean'))
    /\ Denied => down' = down
    /\ Stays \/ Dropped \/ Failed \/ (\E b \in S!Backends : Took(b)) \/ S!JobDone("reader")

\* A backend takes an event on its turn, first of all.
LEMMA TakesOnTurn ==
    ASSUME Shape, Clean, NEW b \in S!Backends, S!Turn("reader", b), Takes(b, Head(Queue).key)
    PROVE  /\ TakesFirst(b, Head(Queue).key)
           /\ \A c \in S!Backends \ {b} : Head(Queue).key \notin down[c]
<1> DEFINE k == Head(Queue).key
<1>1. /\ try["reader"] \in 1..Len(S!Order) /\ S!Order[try["reader"]] = b
      /\ Queue # <<>>
  BY DEF S!Turn, S!Busy, Queue, Shape, TypeOK, S!TypeOK, S!Threads
<1>2. \A j \in 1..(try["reader"] - 1) : Passes(S!Order[j], k)
  BY <1>1 DEF Clean, Position
<1> HIDE DEF k
<1>3. TakesFirst(b, k)
  BY <1>1, <1>2 DEF TakesFirst, k
<1>4. ASSUME NEW c \in S!Backends, TakesFirst(c, k)
      PROVE  c = b
  <2>1. PICK i \in 1..Len(S!Order) :
            S!Order[i] = c /\ Takes(c, k) /\ \A j \in 1..(i - 1) : Passes(S!Order[j], k)
    BY <1>4 DEF TakesFirst
  <2>2. Len(S!Order) \in Nat
    BY OrderShape DEF Shape, TypeOK, S!TypeOK
  <2>3. CASE i < try["reader"]
    <3>1. Passes(c, k)
      BY <1>1, <1>2, <2>1, <2>2, <2>3
    <3> QED
      BY <2>1, <3>1, NotBoth
  <2>4. CASE i > try["reader"]
    <3>1. Passes(b, k)
      BY <1>1, <2>1, <2>2, <2>4
    <3> QED
      BY <3>1, NotBoth DEF k
  <2>5. CASE i = try["reader"]
    BY <1>1, <2>1, <2>5
  <2> QED
    BY <1>1, <2>2, <2>3, <2>4, <2>5
<1> QED
  BY <1>3, <1>4 DEF Clean, OneKeyboard, k

\* A flag set where there was none changes nothing for the keys that are down: a
\* backend behind the portal takes no key that the portal has not been asked for.
LEMMA FlagKeeps ==
    ASSUME setup \in Setups, setup' = setup, portal = {},
           NEW c \in S!Backends, NEW k, TakesFirst(c, k)
    PROVE  TakesFirst(c, k)'
<1>1. PICK i \in 1..Len(S!Order) :
          S!Order[i] = c /\ Takes(c, k) /\ \A j \in 1..(i - 1) : Passes(S!Order[j], k)
  BY DEF TakesFirst
<1>2. S!Order' = S!Order /\ \A b : S!Usable(b, k)' <=> S!Usable(b, k)
  BY DEF S!Order, S!Usable
<1>3. c # "portal"
  BY <1>1 DEF Takes
<1>4. ASSUME NEW p \in 1..(i - 1), S!Order[p] = "portal"
      PROVE  FALSE
  <2>1. k \notin setup.named
    <3>1. Passes("portal", k)
      BY <1>1, <1>4
    <3> QED
      BY <3>1 DEF Passes
  <2>2. p \in 1..Len(S!Order) /\ p < i /\ Len(S!Order) \in {2, 3}
    BY <1>1, OrderShape
  <2>3. CASE setup.session = "wayland"
    <3>1. Len(S!Order) = 2 /\ S!Order[2] = "ydotool"
      BY <2>3, OrderShape
    <3>2. i = 2 /\ c = "ydotool"
      BY <1>1, <2>2, <3>1
    <3> QED
      BY <1>1, <2>1, <3>2, OrderShape DEF Takes, S!Usable
  <2>4. CASE setup.session # "wayland"
    <3>1. p = 3 /\ Len(S!Order) = 3
      BY <1>4, <2>2, <2>4, OrderShape
    <3> QED
      BY <2>2, <3>1
  <2> QED
    BY <2>3, <2>4
<1>5. Takes(c, k)'
  BY <1>1, <1>2, <1>3 DEF Takes
<1>6. \A j \in 1..(i - 1) : Passes(S!Order[j], k)'
  BY <1>1, <1>2, <1>4 DEF Passes
<1> QED
  BY <1>1, <1>2, <1>5, <1>6 DEF TakesFirst

\* A key that is down stays where it belongs.
Settled == \A c \in S!Backends : \A k \in down[c] : TakesFirst(c, k)'

\* A backend that takes an event where it belongs.
LEMMA CleanTaken ==
    ASSUME Shape, Clean, setup' = setup, Settled, NEW b \in S!Backends, Took(b),
           NEW key, key = Head(Queue).key, TakesFirst(b, key)',
           \A c \in S!Backends \ {b} : key \notin down[c]
    PROVE  Clean'
<1> DEFINE e == Head(Queue)
<1>1. /\ try'["reader"] = 1 /\ e = Head(work["reader"])
      /\ down' = [down EXCEPT ![b] = S!After(e, @)] /\ owed' = S!After(e, owed)
  BY DEF Took, S!Done, S!OnTo, Queue, Shape, TypeOK, S!TypeOK, S!Threads
<1>0. e.key = key
  OBVIOUS
<1> HIDE DEF e
<1>2. /\ down'["former"] = {} /\ down'[b] = S!After(e, down[b])
      /\ \A c \in S!Backends \ {b} : down'[c] = down[c]
  BY <1>1 DEF Shape, TypeOK, S!TypeOK, S!Keyboards, S!Backends, Clean, OneKeyboard
<1>3. Position'
  BY <1>1 DEF Position
<1>4. OneKeyboard'
  <2> SUFFICES ASSUME NEW c \in S!Backends, NEW k \in down'[c]
               PROVE  TakesFirst(c, k)'
    BY <1>2 DEF OneKeyboard
  <2>1. CASE k \in down[c]
    BY <2>1 DEF Settled
  <2>2. CASE k \notin down[c]
    <3>1. c = b /\ k = key
      BY <1>0, <1>2, <2>2 DEF S!After
    <3> QED
      BY <3>1
  <2> QED
    BY <2>1, <2>2
<1>5. Owing'
  <2> SUFFICES ASSUME NEW c \in S!Backends PROVE down'[c] \subseteq owed'
    BY DEF Owing
  <2>1. down[c] \subseteq owed
    BY DEF Clean, Owing
  <2>2. CASE c = b
    BY <1>1, <1>2, <2>1, <2>2 DEF S!After
  <2>3. CASE c # b
    BY <1>0, <1>1, <1>2, <2>1, <2>3 DEF S!After
  <2> QED
    BY <2>2, <2>3
<1> QED
  BY <1>3, <1>4, <1>5 DEF Clean

\* An event that is given up where no keyboard has its key down.
LEMMA CleanDropped ==
    ASSUME Shape, Clean, setup' = setup, Settled, Dropped,
           \A c \in S!Backends : Head(Queue).key \notin down[c]
    PROVE  Clean'
<1>1. /\ try'["reader"] = 1 /\ down' = down /\ owed \ {Head(Queue).key} \subseteq owed'
  BY DEF Dropped, S!GiveUp, S!OnTo, Queue, Shape, TypeOK, S!TypeOK, S!Threads
<1>2. Position' /\ OneKeyboard' /\ Owing'
  BY <1>1 DEF Position, OneKeyboard, Owing, Settled, Clean
<1> QED
  BY <1>2 DEF Clean

\* A backend passes: it is the next one's turn.
LEMMA CleanMoved ==
    ASSUME Shape, Clean, setup' = setup, Settled, NEW b \in S!Backends, S!Turn("reader", b),
           S!NextBackend("reader"), Passes(b, Head(Queue).key)',
           \A c \in S!Backends \ {b} : Passes(c, Head(Queue).key) => Passes(c, Head(Queue).key)'
    PROVE  Clean'
<1> DEFINE k == Head(Queue).key
<1>1. /\ try["reader"] \in 1..Len(S!Order) /\ S!Order[try["reader"]] = b
      /\ Queue # <<>>
  BY DEF S!Turn, S!Busy, Queue, Shape, TypeOK, S!TypeOK, S!Threads
<1>2. /\ try'["reader"] = try["reader"] + 1 /\ UNCHANGED <<work, down, owed>> /\ Queue' = Queue
  BY DEF S!NextBackend, S!keyboardVars, Shape, TypeOK, S!TypeOK, S!Threads, Queue
<1>3. /\ S!Order' = S!Order /\ Len(S!Order) \in {2, 3}
      /\ \A i \in 1..Len(S!Order) : S!Order[i] \in S!Backends
      /\ \A i, j \in 1..Len(S!Order) : S!Order[i] = S!Order[j] => i = j
  BY OrderShape DEF S!Order, Shape, TypeOK, S!TypeOK
<1>4. ASSUME NEW j \in 1..(try'["reader"] - 1)
      PROVE  Passes(S!Order[j], k)'
  <2>1. CASE j = try["reader"]
    BY <1>1, <1>2, <1>3, <2>1
  <2>2. CASE j # try["reader"]
    <3>1. j \in 1..(try["reader"] - 1) /\ j \in 1..Len(S!Order) /\ S!Order[j] # b
      BY <1>1, <1>2, <1>3, <2>2
    <3>2. Passes(S!Order[j], k)
      BY <1>1, <3>1 DEF Clean, Position
    <3> QED
      BY <1>2, <1>3, <3>1, <3>2
  <2> QED
    BY <2>1, <2>2
<1>5. Position'
  BY <1>2, <1>3, <1>4 DEF Position
<1>6. OneKeyboard' /\ Owing'
  BY <1>2 DEF OneKeyboard, Owing, Settled, Clean
<1> QED
  BY <1>5, <1>6 DEF Clean

\* Where nothing changes for the keys or the backends.
LEMMA CleanStays ==
    ASSUME Clean, UNCHANGED <<setup, portal, work, try, down, owed>>
    PROVE  Clean'
<1>1. Position' /\ OneKeyboard' /\ Owing'
  BY SameBackends DEF Clean, Position, OneKeyboard, Owing, Queue
<1> QED
  BY <1>1 DEF Clean

\* A call that fails ends the claim.
LEMMA CountsFailure ==
    ASSUME Shape, NEW lands \in BOOLEAN, S!CallFails("reader", lands)
    PROVE  faults' # 0 /\ work' = work /\ MovesOn
BY LegacyControlAssumption DEF S!CallFails, Shape, TypeOK, S!TypeOK, MovesOn, LegacyControlAssumption

\* A command that is run, or passed.
LEMMA ToolKept ==
    ASSUME Shape, Asking, NEW b \in S!Backends, S!RunTool("reader", b)
    PROVE  Kept
<1> DEFINE k == Head(Queue).key
<1>1. /\ b # "portal" /\ S!Turn("reader", b)
      /\ UNCHANGED <<setup, portal, inside, lock, job, held>>
  BY DEF S!RunTool
<1>2. /\ "reader" \notin inside /\ S!Busy("reader") /\ setup \in Setups
      /\ Len(S!Order) \in {2, 3} /\ faults \in Nat
  BY <1>1, OrderShape, LegacyControlAssumption
     DEF S!Turn, Asking, Shape, TypeOK, S!TypeOK, LegacyControlAssumption
<1>3. ~Denied /\ ~Denied'
  <2>1. Denied => S!Order[try["reader"]] = "portal"
    BY <1>2, OrderShape DEF Asking, Denied
  <2> QED
    BY <1>1, <2>1 DEF S!Turn, Denied
<1>4. Asking'
  BY <1>1, <1>2, <1>3 DEF Asking
<1>5. Clean => Settled
  BY <1>1, SameBackends DEF Clean, OneKeyboard, Settled
<1>6. CASE S!Usable(b, k) /\ S!Done("reader", b) /\ faults' = faults
  <2>1. Took(b)
    BY <1>1, <1>2, <1>6 DEF Took
  <2>2. ASSUME Clean PROVE Clean'
    <3>1. Takes(b, k)
      BY <1>1, <1>6 DEF Takes
    <3>2. TakesFirst(b, k) /\ \A c \in S!Backends \ {b} : k \notin down[c]
      BY <1>1, <2>2, <3>1, TakesOnTurn
    <3> QED
      BY <1>1, <1>5, <2>1, <2>2, <3>2, CleanTaken, SameBackends
  <2> QED
    BY <1>3, <1>4, <1>6, <2>1, <2>2 DEF Kept
<1>7. CASE \E lands \in BOOLEAN : S!CallFails("reader", lands)
  BY <1>1, <1>2, <1>3, <1>4, <1>7, CountsFailure DEF Kept, Failed
<1>8. CASE ~S!Usable(b, k) /\ S!NextBackend("reader") /\ faults' = faults
  <2>1. Stays
    BY <1>1, <1>8 DEF Stays, S!NextBackend, S!keyboardVars
  <2>2. ASSUME Clean PROVE Clean'
    <3>1. Queue' = Queue
      BY <2>1 DEF Stays, Queue
    <3>2. \A c, j : Passes(c, j) => Passes(c, j)'
      BY <1>1, SameBackends
    <3>3. Passes(b, k) /\ Passes(b, k)'
      BY <1>1, <1>8, <3>1, <3>2 DEF Passes
    <3> QED
      BY <1>1, <1>5, <1>8, <2>2, <3>1, <3>2, <3>3, CleanMoved
  <2> QED
    BY <1>3, <1>4, <1>8, <2>1, <2>2 DEF Kept
<1> QED
  BY <1>6, <1>7, <1>8 DEF S!RunTool, Queue

\* The portal returns False, its flags as they were or set just now.
LEMMA FalseKept ==
    ASSUME Shape, Asking, setup' = setup, UNCHANGED <<held, job, faults>>,
           S!Turn("reader", "portal"), S!PortalReturnsFalse("reader", portal'),
           portal' = portal \/ (portal = {} /\ portal' \in {{"denied"}, {"unavailable"}}),
           Head(Queue).key \in setup.named => portal' \in {{"denied"}, {"unavailable"}},
           Head(Queue).key \notin setup.named => portal' = portal
    PROVE  /\ Clean => Clean'
           /\ down' = down /\ (Stays \/ Dropped)
           /\ Denied' => try'["reader"] = 1
<1> DEFINE k == Head(Queue).key
<1>1. /\ try["reader"] \in 1..Len(S!Order) /\ S!Order[try["reader"]] = "portal"
      /\ S!Busy("reader") /\ Queue # <<>> /\ Len(S!Order) \in Nat /\ setup \in Setups
  BY OrderShape DEF S!Turn, S!Busy, Queue, Shape, TypeOK, S!TypeOK, S!Threads
<1>2. portal' \in {{}, {"started"}, {"denied"}, {"unavailable"}}
  BY DEF Asking
<1>3. Denied' <=> (setup.session = "wayland" /\ "denied" \in portal')
  BY <1>2 DEF Denied
<1>4. Clean => Settled
  <2>1. CASE portal' = portal
    BY <2>1, SameBackends DEF Clean, OneKeyboard, Settled
  <2>2. CASE portal = {}
    BY <1>1, <2>2, FlagKeeps DEF Clean, OneKeyboard, Settled
  <2> QED
    BY <2>1, <2>2
<1>5. CASE Denied'
  <2>1. S!GiveUp("reader")
    BY <1>3, <1>5 DEF S!PortalReturnsFalse
  <2>2. /\ Dropped /\ down' = down /\ try'["reader"] = 1
    BY <1>1, <2>1 DEF Dropped, S!GiveUp, S!OnTo, Shape, TypeOK, S!TypeOK, S!Threads
  <2>3. ASSUME Clean PROVE Clean'
    <3>1. ~Takes("portal", k) /\ ~Passes("portal", k)
      BY <1>5 DEF Takes, Passes, Denied
    <3>2. \A b \in S!Backends : k \notin down[b]
      <4> DEFINE n == try["reader"]
      <4>1. n \in Nat \ {0} /\ n <= Len(S!Order) + 1
        BY <1>1
      <4>2. \A j \in 1..(n - 1) : Passes(S!Order[j], k)
        BY <1>1, <2>3 DEF Clean, Position
      <4>3. ~Takes(S!Order[n], k) /\ ~Passes(S!Order[n], k)
        BY <1>1, <3>1
      <4> HIDE DEF n, k
      <4> QED
        BY <1>1, <2>3, <4>1, <4>2, <4>3, Nobody DEF Clean
    <3> QED
      BY <1>4, <2>2, <2>3, <3>2, CleanDropped
  <2> QED
    BY <2>2, <2>3
<1>6. CASE ~Denied'
  <2>1. S!NextBackend("reader")
    BY <1>3, <1>6 DEF S!PortalReturnsFalse
  <2>2. Stays /\ down' = down /\ Queue' = Queue
    BY <2>1 DEF Stays, S!NextBackend, S!keyboardVars, Queue
  <2>3. ASSUME Clean PROVE Clean'
    <3>1. Passes("portal", k)'
      BY <1>6, <2>2 DEF Passes
    <3>2. \A c \in S!Backends \ {"portal"} : Passes(c, k) => Passes(c, k)'
      BY <2>2 DEF Passes, S!Usable
    <3> QED
      BY <1>4, <2>1, <2>3, <3>1, <3>2, CleanMoved DEF S!Backends
  <2> QED
    BY <1>6, <2>2, <2>3
<1> QED
  BY <1>5, <1>6

\* The portal is entered, or passed.
LEMMA EnterKept ==
    ASSUME Shape, Asking, S!EnterPortal("reader")
    PROVE  Kept
<1> DEFINE k == Head(Queue).key
<1>1. /\ S!Turn("reader", "portal") /\ "reader" \notin inside
      /\ UNCHANGED <<setup, held, portal, lock, job, faults>>
  BY DEF S!EnterPortal
<1>2. CASE "unavailable" \in portal \/ k \notin setup.named
  <2>1. inside' = inside /\ S!PortalReturnsFalse("reader", portal')
    BY <1>1, <1>2 DEF S!EnterPortal, Queue
  <2>2. /\ Clean => Clean'
        /\ down' = down /\ (Stays \/ Dropped)
        /\ Denied' => try'["reader"] = 1
    BY <1>1, <1>2, <2>1, FalseKept DEF Asking
  <2>3. Asking'
    BY <1>1, <2>1, <2>2 DEF Asking
  <2> QED
    BY <1>1, <2>2, <2>3 DEF Kept
<1>3. CASE "unavailable" \notin portal /\ k \in setup.named
  <2>1. inside' = inside \cup {"reader"} /\ UNCHANGED <<work, try, down, owed>>
    BY <1>3 DEF S!EnterPortal, Queue, S!keyboardVars
  <2>2. S!Turn("reader", "portal")' /\ Queue' = Queue /\ (Denied' <=> Denied)
    BY <1>1, <2>1 DEF S!Turn, S!Busy, S!Order, Queue, Denied
  <2>3. Asking'
    BY <1>1, <1>3, <2>1, <2>2 DEF Asking
  <2>4. Clean => Clean'
    BY <1>1, <2>1, CleanStays
  <2> QED
    BY <1>1, <2>1, <2>3, <2>4 DEF Kept, Stays
<1> QED
  BY <1>2, <1>3

\* The portal returns, its session found, or a refusal.
LEMMA ReturnsKept ==
    ASSUME Shape, Asking, S!Returns("reader")
    PROVE  Kept
<1> DEFINE k == Head(Queue).key
<1>1. /\ "reader" \in inside /\ lock = "none" /\ inside' = {}
      /\ UNCHANGED <<setup, held, lock, job>>
      /\ S!Turn("reader", "portal") /\ S!Busy("reader") /\ k \in setup.named
  BY DEF S!Returns, Shape, Asking, S!Turn
<1>2. CASE "started" \in portal
  <2>1. portal = {"started"} /\ S!PortalCall("reader") /\ ~Denied
    BY <1>2 DEF S!Returns, Asking, Denied
  <2>2. CASE S!Done("reader", "portal") /\ UNCHANGED <<portal, faults>>
    <3>1. Took("portal") /\ Asking'
      BY <1>1, <2>1, <2>2 DEF Took, Asking, Denied
    <3>2. ASSUME Clean PROVE Clean'
      <4>1. Takes("portal", k) /\ Settled
        BY <1>1, <2>1, <2>2, <3>2, SameBackends DEF Takes, Clean, OneKeyboard, Settled
      <4>2. /\ TakesFirst("portal", k)
            /\ \A c \in S!Backends \ {"portal"} : k \notin down[c]
        BY <1>1, <3>2, <4>1, TakesOnTurn DEF S!Backends
      <4> QED
        BY <1>1, <2>2, <3>1, <3>2, <4>1, <4>2, CleanTaken, SameBackends DEF S!Backends
    <3> QED
      BY <2>1, <2>2, <3>1, <3>2 DEF Kept, S!Backends
  <2>3. CASE /\ portal' = portal \ {"started"}
             /\ \E lands \in BOOLEAN : S!CallFails("reader", lands)
    <3>1. Failed /\ faults' # 0
      BY <1>1, <2>3, CountsFailure DEF Failed
    <3>2. Asking'
      BY <1>1, <2>1, <2>3 DEF Asking, Denied
    <3> QED
      BY <2>1, <3>1, <3>2 DEF Kept
  <2> QED
    BY <2>1, <2>2, <2>3 DEF S!PortalCall
<1>3. CASE "started" \notin portal
  <2>1. /\ portal = {"denied"} /\ UNCHANGED <<portal, faults>>
        /\ S!PortalReturnsFalse("reader", portal')
    BY <1>3 DEF S!Returns, Asking
  <2>2. /\ Clean => Clean'
        /\ down' = down /\ (Stays \/ Dropped)
        /\ Denied' => try'["reader"] = 1
    BY <1>1, <2>1, FalseKept
  <2>3. Asking'
    BY <1>1, <2>1, <2>2 DEF Asking
  <2> QED
    BY <2>1, <2>2, <2>3 DEF Kept
<1> QED
  BY <1>2, <1>3

\* The user is asked.
LEMMA SetUpKept ==
    ASSUME Shape, Asking, S!SetUp("reader")
    PROVE  Kept
<1>1. /\ "reader" \in inside /\ lock' = "reader" /\ portal = {}
      /\ UNCHANGED <<setup, held, down, owed, portal, inside, work, try, job, faults>>
  BY DEF S!SetUp, Asking, S!keyboardVars
<1>2. S!Turn("reader", "portal")' /\ Queue' = Queue
  BY <1>1 DEF Asking, S!Turn, S!Busy, S!Order, Queue
<1>3. Asking'
  BY <1>1, <1>2 DEF Asking, Denied
<1>4. Clean => Clean'
  BY <1>1, CleanStays
<1> QED
  BY <1>1, <1>3, <1>4 DEF Kept, Stays

\* The user answers, or cannot be asked.
LEMMA SetUpEndsKept ==
    ASSUME Shape, Asking, NEW flag \in {"started", "denied", "unavailable"},
           S!SetUpEnds("reader", flag)
    PROVE  Kept
<1> DEFINE k == Head(Queue).key
<1>1. /\ lock = "reader" /\ portal = {} /\ portal' = {flag} /\ lock' = "none" /\ inside' = {}
      /\ UNCHANGED <<setup, held, job, faults>> /\ k \in setup.named /\ ~Denied
      /\ S!Turn("reader", "portal") /\ S!Busy("reader")
  BY DEF S!SetUpEnds, Shape, Asking, S!Turn, Denied
<1>2. CASE flag = "started"
  <2>1. Took("portal") /\ ~Denied'
    BY <1>1, <1>2 DEF S!SetUpEnds, Took, Denied
  <2>2. Asking'
    BY <1>1, <2>1 DEF Asking
  <2>3. ASSUME Clean PROVE Clean'
    <3>1. /\ try["reader"] \in 1..Len(S!Order) /\ S!Order[try["reader"]] = "portal"
          /\ Queue # <<>> /\ Len(S!Order) \in {2, 3} /\ setup \in Setups
          /\ \A i, j \in 1..Len(S!Order) : S!Order[i] = S!Order[j] => i = j
      BY <1>1, OrderShape DEF S!Turn, S!Busy, Queue, Shape, TypeOK, S!TypeOK, S!Threads
    <3>2. \A j \in 1..(try["reader"] - 1) : Passes(S!Order[j], k)
      BY <2>3, <3>1 DEF Clean, Position
    <3>3. ~Takes("portal", k) /\ ~Passes("portal", k)
      BY <1>1 DEF Takes, Passes
    <3>4. \A b \in S!Backends : k \notin down[b]
      <4> DEFINE n == try["reader"]
      <4>1. n \in Nat \ {0} /\ n <= Len(S!Order) + 1 /\ S!Order[n] = "portal"
        BY <3>1
      <4>2. \A j \in 1..(n - 1) : Passes(S!Order[j], k)
        BY <3>2
      <4> HIDE DEF n, k
      <4> QED
        BY <2>3, <3>1, <3>3, <4>1, <4>2, Nobody DEF Clean
    <3>5. ASSUME NEW key, key = k PROVE TakesFirst("portal", key)'
      <4>1. S!Order' = S!Order
        BY <1>1 DEF S!Order
      <4>2. Takes("portal", key)'
        BY <1>1, <1>2, <3>5 DEF Takes
      <4>3. \A j \in 1..(try["reader"] - 1) : Passes(S!Order[j], key)'
        <5> SUFFICES ASSUME NEW j \in 1..(try["reader"] - 1) PROVE Passes(S!Order[j], key)'
          OBVIOUS
        <5>1. S!Order[j] # "portal"
          BY <3>1
        <5>2. Passes(S!Order[j], key)
          BY <3>2, <3>5
        <5> QED
          BY <1>1, <4>1, <5>1, <5>2 DEF Passes, S!Usable
      <4> QED
        BY <3>1, <4>1, <4>2, <4>3 DEF TakesFirst
    <3>6. Settled
      BY <1>1, <2>3, <3>1, FlagKeeps DEF Clean, OneKeyboard, Settled
    <3> QED
      BY <1>1, <2>1, <2>3, <3>4, <3>5, <3>6, CleanTaken DEF S!Backends
  <2> QED
    BY <1>1, <2>1, <2>2, <2>3 DEF Kept, S!Backends
<1>3. CASE flag # "started"
  <2>1. S!PortalReturnsFalse("reader", portal')
    BY <1>1, <1>3 DEF S!SetUpEnds
  <2>2. /\ Clean => Clean'
        /\ down' = down /\ (Stays \/ Dropped)
        /\ Denied' => try'["reader"] = 1
    BY <1>1, <1>3, <2>1, FalseKept
  <2>3. Asking'
    BY <1>1, <2>2 DEF Asking
  <2> QED
    BY <1>1, <2>2, <2>3 DEF Kept
<1> QED
  BY <1>2, <1>3

\* No backend is left, and none has the key down.
LEMMA NoBackendKept ==
    ASSUME Shape, Asking, S!NoBackend("reader")
    PROVE  Kept
<1> DEFINE k == Head(Queue).key
<1>1. /\ S!Busy("reader") /\ S!GiveUp("reader") /\ try["reader"] > Len(S!Order)
      /\ UNCHANGED <<setup, held, portal, inside, lock, job, faults>>
  BY DEF S!NoBackend
<1>2. /\ try["reader"] \in Nat \ {0} /\ Len(S!Order) \in {2, 3} /\ setup \in Setups
      /\ Queue # <<>>
  <2>1. try["reader"] \in 1..4 /\ setup \in Setups
    BY DEF Shape, TypeOK, S!TypeOK, S!Threads
  <2>2. Queue # <<>>
    BY <1>1 DEF S!Busy, Queue
  <2> QED
    BY <2>1, <2>2, OrderShape
<1>3. "reader" \notin inside /\ ~Denied
  <2>1. ~(try["reader"] <= Len(S!Order)) /\ try["reader"] # 1
    <3> DEFINE n == Len(S!Order)
               i == try["reader"]
    <3>1. n \in {2, 3} /\ i \in Nat /\ i > n
      BY <1>1, <1>2
    <3> HIDE DEF n, i
    <3>2. ~(i <= n) /\ i # 1
      BY <3>1
    <3> QED
      BY <3>2 DEF n, i
  <2> QED
    BY <2>1 DEF Asking, S!Turn
<1>4. Asking' /\ Dropped /\ down' = down
  BY <1>1, <1>3 DEF Asking, Dropped, S!GiveUp, Denied
<1>5. ASSUME Clean PROVE Clean'
  <2>1. \A b \in S!Backends : k \notin down[b]
    <3> DEFINE n == try["reader"]
    <3>1. n \in Nat \ {0} /\ n = Len(S!Order) + 1
      BY <1>1, <1>2 DEF Shape
    <3>2. \A j \in 1..(n - 1) : Passes(S!Order[j], k)
      BY <1>2, <1>5 DEF Clean, Position
    <3> HIDE DEF n, k
    <3>3. n <= Len(S!Order) + 1 /\ n \notin 1..Len(S!Order)
      BY <1>2, <3>1
    <3> QED
      BY <1>2, <1>5, <3>1, <3>2, <3>3, Nobody DEF Clean
  <2>2. Settled
    BY <1>1, <1>5, SameBackends DEF Clean, OneKeyboard, Settled
  <2> QED
    BY <1>1, <1>4, <1>5, <2>1, <2>2, CleanDropped
<1> QED
  BY <1>1, <1>4, <1>5 DEF Kept

\* A job is done.
LEMMA JobDoneKept ==
    ASSUME Shape, Asking, S!JobDone("reader")
    PROVE  Kept
<1>1. /\ UNCHANGED <<setup, link, down, owed, portal, inside, lock, work, try, faults>>
      /\ ~S!Busy("reader")
  BY DEF S!JobDone, S!keyboardVars
<1>2. "reader" \notin inside
  BY <1>1 DEF Asking, S!Turn
<1>3. Asking'
  BY <1>1, <1>2, SameBackends DEF Asking
<1>4. Clean => Clean'
  BY <1>1, CleanStays
<1> QED
  BY <1>1, <1>3, <1>4 DEF Kept

LEMMA ReaderStep ==
    ASSUME Shape, Asking, S!Runs("reader")
    PROVE  Kept
<1>1. ASSUME S!Answer("reader") \/ S!BusFails("reader") PROVE Kept
  BY <1>1, SetUpEndsKept DEF S!Answer, S!BusFails
<1> QED
  BY <1>1, ToolKept, EnterKept, ReturnsKept, SetUpKept, NoBackendKept, JobDoneKept
     DEF S!Runs, S!Inject

-----------------------------------------------------------------------------
(* The types.                                                                  *)

SlaveShape ==
    /\ S!TypeOK /\ IsFiniteSet(held)
    /\ job["main"] = "none" /\ work["main"] = <<>>
    /\ inside \subseteq {"reader"} /\ lock \in {"none", "reader"}
    /\ Queue = <<>> => try["reader"] = 1
    /\ try["reader"] <= Len(S!Order) + 1

MasterShape == M!TypeOK /\ IsFiniteSet(forwarded)

LEMMA ShapeOfBoth == Shape <=> SlaveShape /\ MasterShape /\ lost \in BOOLEAN
  BY DEF Shape, SlaveShape, MasterShape, TypeOK

\* A set of keys is one after an event, too.
LEMMA AfterTyped ==
    ASSUME Shape, S!Busy("reader"), NEW ks \in SUBSET Keys
    PROVE  S!After(Head(work["reader"]), ks) \in SUBSET Keys
  BY HeadOfQueue DEF S!After, Queue

\* What an injection writes is of its types.
EffectTyped ==
    /\ down' \in [S!Keyboards -> SUBSET Keys] /\ owed' \subseteq Keys
    /\ work' \in [S!Threads -> Seq(S!Events)] /\ work'["main"] = work["main"]
    /\ try' \in [S!Threads -> 1..4]
    /\ Queue' = <<>> => try'["reader"] = 1
    /\ try'["reader"] <= Len(S!Order) + 1
    /\ faults' \in 0..MaxFaults

\* The event is done with.
LEMMA OnToTyped ==
    ASSUME Shape, S!Busy("reader"), S!OnTo("reader")
    PROVE  /\ work' \in [S!Threads -> Seq(S!Events)] /\ work'["main"] = work["main"]
           /\ try' \in [S!Threads -> 1..4] /\ try'["reader"] = 1
           /\ try'["reader"] <= Len(S!Order) + 1
<1>1. work' = [work EXCEPT !["reader"] = Tail(Queue)] /\ try' = [try EXCEPT !["reader"] = 1]
  BY DEF S!OnTo, Queue
<1>2. work' \in [S!Threads -> Seq(S!Events)] /\ work'["main"] = work["main"]
  BY <1>1, HeadOfQueue DEF Shape, TypeOK, S!TypeOK, S!Threads
<1>3. try' \in [S!Threads -> 1..4] /\ try'["reader"] = 1
  BY <1>1 DEF Shape, TypeOK, S!TypeOK, S!Threads
<1>4. Len(S!Order) \in {2, 3}
  BY OrderShape DEF Shape, TypeOK, S!TypeOK
<1> QED
  BY <1>2, <1>3, <1>4

LEMMA DoneTyped ==
    ASSUME Shape, S!Busy("reader"), NEW b \in S!Backends, S!Done("reader", b), faults' = faults
    PROVE  EffectTyped
<1>1. down' \in [S!Keyboards -> SUBSET Keys] /\ owed' \subseteq Keys
  <2>1. S!After(Head(work["reader"]), down[b]) \in SUBSET Keys
    BY AfterTyped DEF Shape, TypeOK, S!TypeOK, S!Keyboards
  <2>2. down' = [down EXCEPT ![b] = S!After(Head(work["reader"]), down[b])]
    BY DEF S!Done
  <2>3. owed' \subseteq Keys
    BY AfterTyped DEF S!Done, Shape, TypeOK, S!TypeOK
  <2> QED
    BY <2>1, <2>2, <2>3 DEF Shape, TypeOK, S!TypeOK
<1> QED
  BY <1>1, OnToTyped DEF EffectTyped, S!Done, Shape, TypeOK, S!TypeOK

LEMMA GiveUpTyped ==
    ASSUME Shape, S!Busy("reader"), S!GiveUp("reader"), faults' = faults
    PROVE  EffectTyped
<1>1. down' = down /\ owed' \subseteq owed
  BY DEF S!GiveUp
<1> QED
  BY <1>1, OnToTyped DEF EffectTyped, S!GiveUp, Shape, TypeOK, S!TypeOK

\* It is the next backend's turn.
LEMMA MovesOnTyped ==
    ASSUME Shape, NEW b, S!Turn("reader", b), MovesOn, work' = work,
           down' \in [S!Keyboards -> SUBSET Keys], owed' \subseteq Keys, faults' \in 0..MaxFaults
    PROVE  EffectTyped
<1>1. Len(S!Order) \in {2, 3}
  BY OrderShape DEF Shape, TypeOK, S!TypeOK
<1>2. try["reader"] \in 1..Len(S!Order) /\ Queue' # <<>>
  BY DEF S!Turn, S!Busy, Queue, Shape, TypeOK, S!TypeOK, S!Threads
<1>3. try'["reader"] = try["reader"] + 1 /\ try' \in [S!Threads -> 1..4]
  <2>1. try \in [S!Threads -> 1..4] /\ "reader" \in S!Threads
    BY DEF Shape, TypeOK, S!TypeOK, S!Threads
  <2>2. try["reader"] + 1 \in 1..4
    <3> DEFINE n == Len(S!Order)
               i == try["reader"]
    <3>1. n \in {2, 3} /\ i \in 1..n
      BY <1>1, <1>2
    <3> HIDE DEF n, i
    <3>2. i + 1 \in 1..4
      BY <3>1
    <3> QED
      BY <3>2 DEF i
  <2> QED
    BY <2>1, <2>2 DEF MovesOn
<1> QED
  BY <1>1, <1>2, <1>3 DEF EffectTyped, Shape, TypeOK, S!TypeOK

LEMMA NextBackendTyped ==
    ASSUME Shape, NEW b, S!Turn("reader", b), S!NextBackend("reader"), faults' = faults
    PROVE  EffectTyped
  BY MovesOnTyped DEF S!NextBackend, S!keyboardVars, MovesOn, Shape, TypeOK, S!TypeOK

\* A call fails, before its effect or after.
LEMMA CallFailsTyped ==
    ASSUME Shape, NEW b, S!Turn("reader", b), NEW lands \in BOOLEAN,
           S!CallFails("reader", lands), down' \in [S!Keyboards -> SUBSET Keys]
    PROVE  EffectTyped
<1>1. owed' \subseteq Keys
  BY HeadOfQueue DEF S!CallFails, S!Turn, Queue, Shape, TypeOK, S!TypeOK
<1>2. faults' \in 0..MaxFaults
  BY LegacyControlAssumption
     DEF S!CallFails, Shape, TypeOK, S!TypeOK, LegacyControlAssumption
<1> QED
  BY <1>1, <1>2, MovesOnTyped DEF S!CallFails, MovesOn

\* What a backend holds after a call that has failed.
LEMMA HoldsTyped ==
    ASSUME Shape, S!Busy("reader"), NEW b \in S!Backends, NEW lands \in BOOLEAN
    PROVE  S!Holds("reader", b, lands) \in SUBSET Keys
  BY AfterTyped DEF S!Holds, Shape, TypeOK, S!TypeOK, S!Keyboards

LEMMA PortalFalseTyped ==
    ASSUME Shape, S!Turn("reader", "portal"), NEW flags,
           S!PortalReturnsFalse("reader", flags), faults' = faults
    PROVE  EffectTyped
<1>1. CASE S!GiveUp("reader")
  BY <1>1, GiveUpTyped DEF S!Turn
<1>2. CASE S!NextBackend("reader")
  BY <1>2, NextBackendTyped
<1> QED
  BY <1>1, <1>2 DEF S!PortalReturnsFalse

\* A step that writes no more than these and the portal's variables.
LEMMA ShapeFrom ==
    ASSUME Shape, EffectTyped, UNCHANGED <<setup, link, held, job>>,
           portal' \subseteq {"started", "denied", "unavailable"},
           inside' \subseteq {"reader"}, lock' \in {"none", "reader"}
    PROVE  SlaveShape'
<1>1. S!TypeOK'
  BY DEF Shape, TypeOK, EffectTyped, S!TypeOK, S!Threads
<1>2. IsFiniteSet(held') /\ job'["main"] = "none" /\ work'["main"] = <<>>
  BY DEF Shape, EffectTyped
<1>3. (Queue = <<>> => try["reader"] = 1)' /\ (try["reader"] <= Len(S!Order) + 1)'
  BY DEF EffectTyped, S!Order
<1> QED
  BY <1>1, <1>2, <1>3 DEF SlaveShape

LEMMA ReaderTyped ==
    ASSUME Shape, Asking, S!Runs("reader")
    PROVE  SlaveShape'
<1> USE DEF S!Backends
<1>1. ASSUME NEW b \in S!Backends, S!RunTool("reader", b)
      PROVE  SlaveShape'
  <2>1. /\ S!Turn("reader", b) /\ S!Busy("reader")
        /\ UNCHANGED <<setup, link, held, portal, inside, lock, job>>
    BY <1>1 DEF S!RunTool, S!Turn
  <2>2. ASSUME NEW lands \in BOOLEAN, S!CallFails("reader", lands),
               down' = [down EXCEPT ![b] = S!Holds("reader", b, lands)]
        PROVE  EffectTyped
    <3>1. down' \in [S!Keyboards -> SUBSET Keys]
      BY <2>1, <2>2, HoldsTyped DEF Shape, TypeOK, S!TypeOK
    <3> QED
      BY <2>1, <2>2, <3>1, CallFailsTyped
  <2>3. ASSUME S!Done("reader", b), faults' = faults
        PROVE  EffectTyped
    BY <2>1, <2>3, DoneTyped
  <2>4. ASSUME S!NextBackend("reader"), faults' = faults
        PROVE  EffectTyped
    BY <2>1, <2>4, NextBackendTyped
  <2>5. EffectTyped
    BY <1>1, <2>2, <2>3, <2>4 DEF S!RunTool
  <2> QED
    BY <2>1, <2>5, ShapeFrom DEF Shape, TypeOK, S!TypeOK
<1>2. CASE S!EnterPortal("reader")
  <2>1. UNCHANGED <<setup, link, held, portal, lock, job, faults>> /\ inside' \subseteq {"reader"}
    BY <1>2 DEF S!EnterPortal, Shape
  <2>2. EffectTyped
    <3>1. CASE S!PortalReturnsFalse("reader", portal)
      BY <1>2, <2>1, <3>1, PortalFalseTyped DEF S!EnterPortal
    <3>2. CASE UNCHANGED <<work, try, down, owed>>
      BY <2>1, <3>2 DEF EffectTyped, Shape, TypeOK, S!TypeOK, Queue
    <3> QED
      BY <1>2, <3>1, <3>2 DEF S!EnterPortal, S!keyboardVars
  <2> QED
    BY <2>1, <2>2, ShapeFrom DEF Shape, TypeOK, S!TypeOK
<1>3. CASE S!Returns("reader")
  <2>1. S!Turn("reader", "portal") /\ S!Busy("reader")
    BY <1>3 DEF S!Returns, Asking, S!Turn
  <2>2. /\ portal' \subseteq portal /\ inside' \subseteq {"reader"}
        /\ UNCHANGED <<setup, link, held, lock, job>>
    BY <1>3 DEF S!Returns, S!PortalCall, Shape
  <2>3. ASSUME S!PortalReturnsFalse("reader", portal), faults' = faults
        PROVE  EffectTyped
    BY <2>1, <2>3, PortalFalseTyped
  <2>4. ASSUME S!Done("reader", "portal"), faults' = faults
        PROVE  EffectTyped
    BY <2>1, <2>4, DoneTyped
  <2>5. ASSUME NEW lands \in BOOLEAN, NEW stays \in BOOLEAN, S!CallFails("reader", lands),
               down' = [down EXCEPT !["portal"] = {}, !["former"] =
                            IF stays THEN @ \cup S!Holds("reader", "portal", lands) ELSE @]
        PROVE  EffectTyped
    <3> DEFINE h == S!Holds("reader", "portal", lands)
    <3>1. h \in SUBSET Keys
      BY <2>1, HoldsTyped
    <3> HIDE DEF h
    <3>2. down' = [down EXCEPT !["portal"] = {}, !["former"] = IF stays THEN @ \cup h ELSE @]
      BY <2>5 DEF h
    <3>3. down' \in [S!Keyboards -> SUBSET Keys]
      BY <3>1, <3>2 DEF Shape, TypeOK, S!TypeOK, S!Keyboards
    <3> QED
      BY <2>1, <2>5, <3>3, CallFailsTyped
  <2>6. EffectTyped
    BY <1>3, <2>3, <2>4, <2>5 DEF S!Returns, S!PortalCall
  <2> QED
    BY <2>2, <2>6, ShapeFrom DEF Shape, TypeOK, S!TypeOK
<1>4. CASE S!SetUp("reader")
  <2>1. UNCHANGED <<setup, link, held, down, owed, portal, inside, work, try, job, faults>>
        /\ lock' = "reader"
    BY <1>4 DEF S!SetUp, S!keyboardVars
  <2>2. EffectTyped
    BY <2>1 DEF EffectTyped, Shape, TypeOK, S!TypeOK, Queue
  <2> QED
    BY <2>1, <2>2, ShapeFrom DEF Shape, TypeOK, S!TypeOK
<1>5. ASSUME NEW flag \in {"started", "denied", "unavailable"}, S!SetUpEnds("reader", flag)
      PROVE  SlaveShape'
  <2>1. S!Turn("reader", "portal") /\ S!Busy("reader")
    BY <1>5 DEF S!SetUpEnds, Asking, S!Turn
  <2>2. EffectTyped
    BY <1>5, <2>1, DoneTyped, PortalFalseTyped DEF S!SetUpEnds
  <2>3. /\ UNCHANGED <<setup, link, held, job>> /\ inside' \subseteq {"reader"}
        /\ lock' = "none" /\ portal' = portal \cup {flag}
    BY <1>5 DEF S!SetUpEnds, Shape
  <2>4. portal' \subseteq {"started", "denied", "unavailable"}
    BY <2>3 DEF Shape, TypeOK, S!TypeOK
  <2> QED
    BY <2>2, <2>3, <2>4, ShapeFrom
<1>6. CASE S!NoBackend("reader")
  <2>1. EffectTyped
    BY <1>6, GiveUpTyped DEF S!NoBackend
  <2> QED
    BY <1>6, <2>1, ShapeFrom DEF S!NoBackend, Shape, TypeOK, S!TypeOK
<1>7. CASE S!JobDone("reader")
  <2>1. /\ held' = held \/ held' = {}
        /\ job' = [job EXCEPT !["reader"] = "none"]
        /\ UNCHANGED <<setup, link, down, owed, portal, inside, lock, work, try, faults>>
    BY <1>7 DEF S!JobDone, S!keyboardVars
  <2>2. IsFiniteSet(held') /\ held' \subseteq Keys
    BY <2>1, FS_EmptySet DEF Shape, TypeOK, S!TypeOK
  <2>3. job' \in [S!Threads -> {"none", "frame", "release"}] /\ job'["main"] = "none"
    BY <2>1 DEF Shape, TypeOK, S!TypeOK, S!Threads
  <2>4. (Queue = <<>> => try["reader"] = 1)' /\ (try["reader"] <= Len(S!Order) + 1)'
    BY <2>1 DEF Shape, Queue, S!Order
  <2> QED
    BY <2>1, <2>2, <2>3, <2>4 DEF SlaveShape, Shape, TypeOK, S!TypeOK
<1> QED
  BY <1>1, <1>2, <1>3, <1>4, <1>5, <1>6, <1>7 DEF S!Runs, S!Inject, S!Answer, S!BusFails

LEMMA KeyFrameTyped ==
    ASSUME Shape, Keeping, NEW k \in Keys, NEW p \in BOOLEAN, S!KeyFrame(k, p)
    PROVE  SlaveShape'
<1>1. held' \subseteq Keys /\ IsFiniteSet(held')
  BY FS_AddElement, FS_RemoveElement DEF S!KeyFrame, Shape, TypeOK, S!TypeOK
<1>2. <<S!Event(k, p)>> \in Seq(S!Events)
  <2>1. S!Event(k, p) \in S!Events
    BY DEF S!Event, S!Events
  <2> QED
    BY <2>1
<1>3. work' \in [S!Threads -> Seq(S!Events)] /\ work'["main"] = <<>>
  BY <1>2 DEF S!KeyFrame, Shape, TypeOK, S!TypeOK, S!Threads
<1>4. job' \in [S!Threads -> {"none", "frame", "release"}] /\ job'["main"] = "none"
  BY DEF S!KeyFrame, Shape, TypeOK, S!TypeOK, S!Threads
<1>5. (Queue = <<>> => try["reader"] = 1)' /\ (try["reader"] <= Len(S!Order) + 1)'
  <2>1. Queue = <<>> /\ UNCHANGED <<setup, try>>
    BY DEF S!KeyFrame, Keeping, Jobs
  <2> QED
    BY <2>1 DEF Shape, S!Order
<1>6. UNCHANGED <<setup, link, down, owed, portal, inside, lock, try, faults>>
  BY DEF S!KeyFrame, S!keyboardVars
<1> QED
  BY <1>1, <1>3, <1>4, <1>5, <1>6 DEF SlaveShape, Shape, TypeOK, S!TypeOK

LEMMA ReportTyped ==
    ASSUME Shape, Keeping, S!LinkReported
    PROVE  /\ SlaveShape'
           /\ Range(Queue') = {S!Event(k, FALSE) : k \in held}
           /\ Queue = <<>> /\ try["reader"] = 1 /\ job["reader"] = "none"
           /\ link' = "down" /\ job'["reader"] = "release"
           /\ UNCHANGED <<setup, held, down, owed, portal, inside, lock, try, faults>>
<1> DEFINE list == SetToSeq({S!Event(k, FALSE) : k \in held})
<1>1. /\ list \in Seq(S!Events)
      /\ Range(list) = {S!Event(k, FALSE) : k \in held}
  BY ListOfReleases DEF S!Event, S!Events, Shape, TypeOK, S!TypeOK
<1>2. /\ work' = [work EXCEPT !["reader"] = list] /\ job' = [job EXCEPT !["reader"] = "release"]
      /\ link' = "down"
      /\ UNCHANGED <<setup, held, down, owed, portal, inside, lock, try, faults>>
  <2>1. link' = "down" /\ S!ReleaseAllKeys("reader")
    BY DEF S!LinkReported
  <2>2. work' = [work EXCEPT !["reader"] = list]
    BY <2>1, SameLists, Zenon DEF S!ReleaseAllKeys
  <2> HIDE DEF list
  <2> QED
    BY <2>1, <2>2, Zenon DEF S!ReleaseAllKeys, S!keyboardVars
<1> HIDE DEF list
<1>3. work' \in [S!Threads -> Seq(S!Events)] /\ work'["main"] = <<>> /\ Queue' = list
  BY <1>1, <1>2 DEF Shape, TypeOK, S!TypeOK, S!Threads, Queue
<1>4. /\ job' \in [S!Threads -> {"none", "frame", "release"}] /\ job'["main"] = "none"
      /\ job'["reader"] = "release"
  BY <1>2 DEF Shape, TypeOK, S!TypeOK, S!Threads
<1>5. Queue = <<>> /\ try["reader"] = 1 /\ job["reader"] = "none"
  BY DEF S!LinkReported, Keeping, Jobs, Shape
<1>6. (Queue = <<>> => try["reader"] = 1)' /\ (try["reader"] <= Len(S!Order) + 1)'
  BY <1>2, <1>5 DEF Shape, S!Order
<1>7. SlaveShape'
  BY <1>2, <1>3, <1>4, <1>6 DEF SlaveShape, Shape, TypeOK, S!TypeOK
<1> QED
  BY <1>1, <1>2, <1>3, <1>4, <1>5, <1>7

-----------------------------------------------------------------------------
(* The keys of the controlled machine.                                         *)

\* What becomes of the keys that are owed a release when the reader is through
\* with an event: a press may add its key, a release takes its away.
Through ==
    /\ S!Busy("reader") /\ Queue' = Tail(Queue) /\ UNCHANGED <<held, job>>
    /\ owed' \subseteq S!After(Head(Queue), owed)

\* ... and when a call fails with it.
Stuck ==
    /\ S!Busy("reader") /\ Queue' = Queue /\ UNCHANGED <<held, job>>
    /\ owed' = owed \/ (Head(Queue).pressed /\ owed' = owed \cup {Head(Queue).key})

\* Whether it reaches a virtual keyboard or not.
LEMMA Injected ==
    ASSUME Shape, Dropped \/ Failed \/ \E b \in S!Backends : Took(b)
    PROVE  Through \/ Stuck
<1>1. ASSUME NEW b \in S!Backends, Took(b) PROVE Through
  BY <1>1 DEF Took, S!Done, S!OnTo, Through, Queue, Shape, TypeOK, S!TypeOK, S!Threads
<1>2. ASSUME Dropped PROVE Through
  BY <1>2 DEF Dropped, S!GiveUp, S!OnTo, S!After, Through, Queue, Shape, TypeOK, S!TypeOK,
              S!Threads
<1>3. ASSUME Failed PROVE Stuck
  BY <1>3 DEF Failed, S!CallFails, Stuck, Queue
<1> QED
  BY <1>1, <1>2, <1>3

\* What is left of a job after an injection.
LEMMA JobsGoOn ==
    ASSUME Shape, Jobs, S!Busy("reader"), Queue' = Tail(Queue), UNCHANGED <<held, job>>
    PROVE  Jobs'
<1>1. Queue \in Seq(S!Events) /\ Queue # <<>>
  BY HeadOfQueue
<1> DEFINE rest == Tail(Queue)
<1>2. /\ Len(rest) = Len(Queue) - 1 /\ Len(Queue) \in Nat \ {0} /\ rest \in Seq(S!Events)
      /\ \A i \in 1..Len(rest) : rest[i] = Queue[i + 1] /\ i + 1 \in 1..Len(Queue)
  BY <1>1, HeadAndTail
<1>3. Queue' = rest
  OBVIOUS
<1> HIDE DEF rest
<1>4. job["reader"] # "none"
  BY <1>1 DEF Jobs
<1>5. job'["reader"] = "frame" => Len(Queue') <= 1
  BY <1>2, <1>3 DEF Jobs
<1>6. ASSUME NEW i \in 1..Len(Queue'), Queue'[i].pressed
      PROVE  job'["reader"] = "frame" /\ Queue'[i].key \in held'
  BY <1>2, <1>3, <1>6 DEF Jobs
<1> QED
  BY <1>4, <1>5, <1>6 DEF Jobs

\* An injection forgets no key that is owed a release.
LEMMA KeepingThrough ==
    ASSUME Shape, Keeping, Through, link' = link
    PROVE  Keeping'
<1> DEFINE e == Head(Queue)
<1>1. /\ Queue # <<>> /\ e = Queue[1] /\ 1 \in 1..Len(Queue)
      /\ Range(Queue) = {e} \cup Range(Queue') /\ e = S!Event(e.key, e.pressed)
      /\ e.pressed \in BOOLEAN
      /\ owed' \subseteq S!After(e, owed) /\ UNCHANGED <<held, job>>
  BY HeadOfQueue DEF Through
<1>2. Jobs'
  BY JobsGoOn DEF Through, Keeping
<1>3. e.pressed => job["reader"] = "frame" /\ e.key \in held
  BY <1>1 DEF Keeping, Jobs
<1> HIDE DEF e
<1>4. Remembered'
  <2> SUFFICES ASSUME NEW k \in owed'
               PROVE  \/ k \in held /\ job["reader"] # "release"
                      \/ S!Event(k, FALSE) \in Range(Queue')
    BY <1>1 DEF Remembered
  <2>1. CASE e.pressed /\ k = e.key
    BY <1>3, <2>1
  <2>2. CASE ~(e.pressed /\ k = e.key)
    <3>1. k \in owed /\ ~(~e.pressed /\ k = e.key)
      BY <1>1, <2>2 DEF S!After
    <3>2. S!Event(k, FALSE) # e
      BY <2>2, <3>1 DEF S!Event
    <3> QED
      BY <1>1, <3>1, <3>2 DEF Keeping, Remembered
  <2> QED
    BY <2>1, <2>2
<1>5. Unlinked'
  BY <1>1 DEF Keeping, Jobs, Unlinked
<1> QED
  BY <1>2, <1>4, <1>5 DEF Keeping

LEMMA KeepingStuck ==
    ASSUME Shape, Keeping, Stuck, link' = link
    PROVE  Keeping'
<1>1. Queue' = Queue /\ UNCHANGED <<held, job>> /\ Queue # <<>>
  BY HeadOfQueue DEF Stuck
<1>2. Head(Queue).pressed => job["reader"] = "frame" /\ Head(Queue).key \in held
  BY HeadOfQueue DEF Keeping, Jobs, Stuck
<1>3. Jobs' /\ Unlinked'
  BY <1>1 DEF Keeping, Jobs, Unlinked
<1>4. Remembered'
  BY <1>1, <1>2 DEF Keeping, Remembered, Stuck
<1> QED
  BY <1>3, <1>4 DEF Keeping

LEMMA KeepingDone ==
    ASSUME Shape, Keeping, S!JobDone("reader")
    PROVE  Keeping'
<1>1. /\ Queue = <<>> /\ Queue' = Queue /\ owed' = owed /\ link' = link
      /\ held' = IF job["reader"] = "release" THEN {} ELSE held
      /\ job'["reader"] = "none"
  BY DEF S!JobDone, S!keyboardVars, S!Busy, Queue, Shape, TypeOK, S!TypeOK, S!Threads
<1>2. Range(Queue) = {} /\ Len(Queue) = 0
  BY <1>1 DEF Range
<1>3. Jobs'
  BY <1>1, <1>2 DEF Jobs
<1>4. job["reader"] = "release" => owed = {}
  BY <1>2 DEF Keeping, Remembered
<1>5. Remembered'
  BY <1>1, <1>2, <1>4 DEF Keeping, Remembered
<1>6. Unlinked'
  <2>1. job["reader"] \in {"frame", "release"}
    BY DEF S!JobDone, Shape, TypeOK, S!TypeOK, S!Threads
  <2> QED
    BY <1>1, <1>4, <2>1 DEF Keeping, Unlinked
<1> QED
  BY <1>3, <1>5, <1>6 DEF Keeping

LEMMA KeepingStays ==
    ASSUME Keeping, UNCHANGED <<work, owed, held, job, link>>
    PROVE  Keeping'
BY DEF Keeping, Jobs, Remembered, Unlinked, Queue

\* A frame is remembered before it is injected.
LEMMA FrameTaken ==
    ASSUME Shape, Asking, Keeping, NEW k \in Keys, NEW p \in BOOLEAN, S!KeyFrame(k, p)
    PROVE  /\ Asking' /\ Keeping' /\ (Clean => Clean')
           /\ Queue = <<>> /\ Queue' = <<S!Event(k, p)>>
           /\ job'["reader"] = "frame" /\ UNCHANGED <<link, owed, down, faults>>
<1>1. /\ Queue = <<>> /\ Queue' = <<S!Event(k, p)>> /\ job'["reader"] = "frame"
      /\ held' = (IF p THEN held \cup {k} ELSE held \ {k}) /\ link # "down"
      /\ job["reader"] = "none" /\ try["reader"] = 1
      /\ UNCHANGED <<setup, link, down, owed, portal, inside, lock, try, faults>>
  BY DEF S!KeyFrame, S!keyboardVars, Queue, Shape, TypeOK, S!TypeOK, S!Threads, Keeping, Jobs
<1>2. /\ Len(Queue') = 1 /\ Queue'[1] = S!Event(k, p)
      /\ Range(Queue) = {} /\ Range(Queue') = {S!Event(k, p)}
  BY <1>1 DEF Range
<1>3. S!Event(k, p).pressed = p /\ S!Event(k, p).key = k
  BY DEF S!Event
<1>4. Jobs'
  <2>1. ASSUME NEW i \in 1..Len(Queue'), Queue'[i].pressed
        PROVE  Queue'[i].key \in held'
    <3>1. i = 1
      BY <1>2
    <3> QED
      BY <1>1, <1>2, <1>3, <2>1, <3>1
  <2> QED
    BY <1>1, <1>2, <2>1 DEF Jobs
<1>5. Remembered'
  <2> SUFFICES ASSUME NEW j \in owed
               PROVE  j \in held' \/ S!Event(j, FALSE) \in Range(Queue')
    BY <1>1 DEF Remembered
  <2>1. j \in held
    BY <1>2 DEF Keeping, Remembered
  <2>2. CASE j # k \/ p
    BY <1>1, <2>1, <2>2
  <2>3. CASE j = k /\ ~p
    <3>1. S!Event(k, p) = S!Event(j, FALSE)
      BY <2>3
    <3> QED
      BY <1>2, <3>1
  <2> QED
    BY <2>2, <2>3
<1>6. Unlinked'
  BY <1>1 DEF Unlinked
<1>7. "reader" \notin inside
  BY <1>1 DEF Asking, S!Turn, S!Busy, Queue
<1>8. Asking'
  BY <1>1, <1>7, SameBackends DEF Asking
<1>9. Clean => Clean'
  BY <1>1, SameBackends DEF Clean, Position, OneKeyboard, Owing
<1> QED
  BY <1>1, <1>4, <1>5, <1>6, <1>8, <1>9 DEF Keeping

\* The keys that are owed a release are among those the lost link has released.
LEMMA ReportKept ==
    ASSUME Shape, Asking, Keeping, S!LinkReported
    PROVE  Asking' /\ Keeping' /\ (Clean => Clean')
<1>1. /\ Range(Queue') = {S!Event(k, FALSE) : k \in held} /\ SlaveShape'
      /\ Queue = <<>> /\ try["reader"] = 1 /\ job["reader"] = "none"
      /\ link' = "down" /\ job'["reader"] = "release"
      /\ UNCHANGED <<setup, held, down, owed, portal, inside, lock, try, faults>>
  BY ReportTyped
<1>2. Queue' \in Seq(S!Events) /\ Range(Queue) = {}
  BY <1>1 DEF SlaveShape, S!TypeOK, S!Threads, Queue, Range
<1>3. \A i \in 1..Len(Queue') : ~Queue'[i].pressed
  <2> SUFFICES ASSUME NEW i \in 1..Len(Queue') PROVE ~Queue'[i].pressed
    OBVIOUS
  <2>1. Queue'[i] \in Range(Queue')
    BY <1>2 DEF Range
  <2> QED
    BY <1>1, <2>1 DEF S!Event
<1>4. Jobs'
  BY <1>1, <1>3 DEF Jobs
<1>5. Remembered'
  BY <1>1, <1>2 DEF Keeping, Remembered
<1>6. Unlinked'
  BY <1>1 DEF Unlinked
<1>7. "reader" \notin inside
  BY <1>1 DEF Asking, S!Turn, S!Busy, Queue
<1>8. Asking'
  BY <1>1, <1>7, SameBackends DEF Asking
<1>9. Clean => Clean'
  BY <1>1, SameBackends DEF Clean, Position, OneKeyboard, Owing
<1> QED
  BY <1>4, <1>5, <1>6, <1>8, <1>9 DEF Keeping

\* Nor do the link's own steps touch a key.
LEMMA LinkKept ==
    ASSUME Shape, Asking, Keeping, S!LinkEnds \/ S!Rejoin
    PROVE  SlaveShape' /\ Asking' /\ Keeping' /\ (Clean => Clean') /\ faults' = faults
<1>1. /\ UNCHANGED <<setup, held, down, owed, portal, inside, lock, work, try, job, faults>>
      /\ link' \in {"up", "lost"}
  BY DEF S!LinkEnds, S!Rejoin, S!keyboardVars
<1>2. SlaveShape'
  BY <1>1 DEF SlaveShape, Shape, TypeOK, S!TypeOK, Queue, S!Order
<1>3. Asking'
  BY <1>1, SameBackends DEF Asking, S!Turn, S!Busy, Queue
<1>4. Clean => Clean'
  BY <1>1, CleanStays
<1>5. Keeping'
  BY <1>1 DEF Keeping, Jobs, Remembered, Unlinked, Queue
<1> QED
  BY <1>1, <1>2, <1>3, <1>4, <1>5

-----------------------------------------------------------------------------
(* The frames of the controlling machine.                                      *)

\* What a step of its does to the wire while it has its link, and to the keys
\* its user has: it sends rel, frames about the keys ks.
Sends(rel, ks) ==
    /\ wire' = wire \o rel /\ emptied' = emptied \ ks
    /\ \A k \in Keys : Has(k) \/ k \in ks => Has(k)' \/ M!Frame(k, FALSE) \in Range(rel)
    /\ \A k \in Keys : M!Frame(k, TRUE) \in Range(rel) => Has(k)'

SendsSome == \E rel \in Seq(M!Frames), ks \in SUBSET Keys : Sends(rel, ks)

LEMMA NothingSent ==
    ASSUME MasterShape, UNCHANGED <<wire, emptied>>, \A k \in Keys : Has(k) => Has(k)'
    PROVE  SendsSome
<1> DEFINE none == <<>>
<1>1. none \in Seq(M!Frames) /\ Range(none) = {}
  BY DEF Range
<1>2. wire \o none = wire
  BY DEF MasterShape, M!TypeOK
<1> HIDE DEF none
<1>3. wire' = wire \o none /\ emptied' = emptied \ {}
  BY <1>2
<1>4. \A k \in Keys : M!Frame(k, TRUE) \in Range(none) => Has(k)'
  BY <1>1
<1>5. Sends(none, {})
  BY <1>3, <1>4 DEF Sends
<1> QED
  BY <1>1, <1>5 DEF SendsSome

LEMMA ReleaseSends ==
    ASSUME MasterShape, M!ReleaseAllForwarded
    PROVE  forwarded' = {} /\ SendsSome
<1> DEFINE all == {M!Frame(k, FALSE) : k \in forwarded}
           rel == SetToSeq(all)
<1>1. /\ rel \in Seq(M!Frames) /\ rel \in Seq(all)
      /\ Range(rel) = all
  BY ListOfReleases DEF M!Frame, M!Frames, MasterShape, M!TypeOK
<1>2. M!SetToSeq(all) = rel
  BY SameLists
<1>3. forwarded' = {} /\ M!Send(M!SetToSeq(all), forwarded)
  BY Zenon DEF M!ReleaseAllForwarded
<1> HIDE DEF rel
<1>4. CASE linked
  <2>1. wire' = wire \o rel /\ emptied' = emptied \ forwarded
    BY <1>2, <1>3, <1>4 DEF M!Send
  <2>2. \A k \in Keys : M!Frame(k, TRUE) \notin Range(rel)
    BY <1>1 DEF M!Frame
  <2>3. \A k \in forwarded : M!Frame(k, FALSE) \in Range(rel)
    BY <1>1
  <2>4. Sends(rel, forwarded)
    BY <2>1, <2>2, <2>3 DEF Sends, Has
  <2> QED
    BY <1>1, <1>3, <2>4 DEF SendsSome, MasterShape, M!TypeOK
<1>5. CASE ~linked
  BY <1>3, <1>5, NothingSent DEF M!Send, M!sendVars, Has
<1> QED
  BY <1>4, <1>5

LEMMA ForwardSends ==
    ASSUME MasterShape, NEW k \in Keys, NEW p \in BOOLEAN, M!Forward(k, p)
    PROVE  SendsSome
<1> DEFINE f == M!Frame(k, p)
<1>1. f \in M!Frames /\ f.pressed = p /\ f.key = k
  BY DEF M!Frame, M!Frames
<1>2. /\ M!Send(<<f>>, {k}) /\ mode' = "remote" /\ handler' = "idle" /\ linked' = linked
      /\ UNCHANGED <<mode, handler>>
      /\ forwarded' = IF p THEN forwarded \cup {k} ELSE forwarded \ {k}
  BY DEF M!Forward, M!linkVars
<1>3. <<f>> \in Seq(M!Frames) /\ Len(<<f>>) = 1 /\ Range(<<f>>) = {f}
  BY <1>1 DEF Range
<1>4. CASE linked
  <2>1. wire' = wire \o <<f>> /\ emptied' = emptied \ {k}
    BY <1>2, <1>4 DEF M!Send
  <2>2. \A j \in Keys : Has(j) \/ j \in {k} => Has(j)' \/ M!Frame(j, FALSE) \in Range(<<f>>)
    <3> SUFFICES ASSUME NEW j \in Keys, Has(j) \/ j = k, ~Has(j)'
                 PROVE  M!Frame(j, FALSE) \in Range(<<f>>)
      OBVIOUS
    <3>1. j = k /\ p = FALSE
      BY <1>2, <1>4 DEF Has
    <3> QED
      BY <1>3, <3>1
  <2>3. \A j \in Keys : M!Frame(j, TRUE) \in Range(<<f>>) => Has(j)'
    <3> SUFFICES ASSUME NEW j \in Keys, M!Frame(j, TRUE) = f PROVE Has(j)'
      BY <1>3
    <3>1. j = k /\ p = TRUE
      BY DEF M!Frame
    <3> QED
      BY <1>2, <1>4, <3>1 DEF Has
  <2> HIDE DEF f
  <2>4. Sends(<<f>>, {k})
    BY <2>1, <2>2, <2>3 DEF Sends
  <2> QED
    BY <1>3, <2>4 DEF SendsSome
<1>5. CASE ~linked
  BY <1>2, <1>5, NothingSent DEF M!Send, M!sendVars, Has
<1> QED
  BY <1>4, <1>5

\* Every step of its but those that cut the queue off sends the releases of what
\* its user lets go of.
LEMMA MasterSends ==
    ASSUME MasterShape, linked => ~dropping, M!Steps
    PROVE  SendsSome \/ M!CloseTransport
<1>1. ASSUME NEW k \in Keys, NEW s \in M!Matches(k), M!Shortcut(k, s)
      PROVE  SendsSome
  <2>1. s \in {"toggle", "disconnect", "other"}
    BY DEF M!Matches
  <2>2. M!RunShortcut(s) /\ linked' = linked
    BY <1>1 DEF M!Shortcut, M!linkVars
  <2>3. CASE M!ReleaseAllForwarded
    BY <2>3, ReleaseSends
  <2>4. CASE s = "toggle" /\ mode # "remote"
    BY <2>2, <2>4, NothingSent DEF M!RunShortcut, M!sendVars, Has
  <2>5. CASE s = "other"
    BY <2>2, <2>5, NothingSent DEF M!RunShortcut, M!sendVars, Has
  <2> QED
    BY <2>1, <2>2, <2>3, <2>4, <2>5 DEF M!RunShortcut
<1>2. ASSUME NEW k \in Keys, M!ToggleFallback(k)
      PROVE  SendsSome
  BY <1>2, ReleaseSends DEF M!ToggleFallback
<1>3. ASSUME NEW k \in Keys, M!SwallowRelease(k)
      PROVE  SendsSome
  BY <1>3, NothingSent DEF M!SwallowRelease, M!sendVars, M!linkVars, Has
<1>4. ASSUME NEW k \in Keys, NEW p \in BOOLEAN, M!Forward(k, p)
      PROVE  SendsSome
  BY <1>4, ForwardSends
<1>5. CASE M!Toggle \/ M!UpdateKeyboardGrab \/ M!Connected \/ M!TransportDisconnected
  <2>1. UNCHANGED <<wire, emptied>>
    BY <1>5 DEF M!Toggle, M!UpdateKeyboardGrab, M!Connected, M!TransportDisconnected,
                M!sendVars
  <2>2. \A k \in Keys : ~Has(k)
    BY <1>5 DEF M!Toggle, M!UpdateKeyboardGrab, M!Connected, M!TransportDisconnected, Has
  <2> QED
    BY <2>1, <2>2, NothingSent
<1> QED
  BY <1>1, <1>2, <1>3, <1>4, <1>5 DEF M!Steps

\* What the steps that send write is of its types.
SendTyped ==
    /\ forwarded' \subseteq Keys /\ IsFiniteSet(forwarded')
    /\ wire' \in Seq(M!Frames) /\ emptied' \subseteq Keys

LEMMA SentTyped ==
    ASSUME MasterShape, SendsSome
    PROVE  wire' \in Seq(M!Frames) /\ emptied' \subseteq Keys
<1>1. PICK rel \in Seq(M!Frames), ks \in SUBSET Keys : Sends(rel, ks)
  BY DEF SendsSome
<1>2. wire \o rel \in Seq(M!Frames)
  BY RangeOfBoth DEF MasterShape, M!TypeOK
<1> QED
  BY <1>1, <1>2 DEF Sends, MasterShape, M!TypeOK

LEMMA ReleaseTyped ==
    ASSUME MasterShape, M!ReleaseAllForwarded
    PROVE  SendTyped
  BY ReleaseSends, SentTyped, FS_EmptySet DEF SendTyped

\* The queue is cut off.
LEMMA CutTyped ==
    ASSUME MasterShape, NEW n \in 0..Len(wire)
    PROVE  /\ SubSeq(wire, 1, n) \in Seq(M!Frames)
           /\ {wire[i].key : i \in {j \in n+1..Len(wire) : ~wire[j].pressed}} \subseteq Keys
<1>1. wire \in Seq(M!Frames)
  BY DEF MasterShape, M!TypeOK
<1>2. \A i \in 1..Len(wire) : wire[i].key \in Keys
  <2> SUFFICES ASSUME NEW i \in 1..Len(wire) PROVE wire[i].key \in Keys
    OBVIOUS
  <2>1. wire[i] \in M!Frames
    BY <1>1
  <2> QED
    BY <2>1 DEF M!Frames
<1>3. SubSeq(wire, 1, n) \in Seq(M!Frames)
  BY <1>1
<1>4. \A i \in n+1..Len(wire) : i \in 1..Len(wire)
  BY <1>1
<1> QED
  BY <1>2, <1>3, <1>4

LEMMA MasterTyped ==
    ASSUME MasterShape, M!Next
    PROVE  MasterShape'
<1>1. /\ mode' \in {"local", "remote"} /\ handler' \in {"idle", "toggle", "grab", "close"}
      /\ direct' \subseteq Keys /\ SendTyped
  <2>0. UNCHANGED <<forwarded, wire, emptied>> => SendTyped
    BY DEF SendTyped, MasterShape, M!TypeOK
  <2>1. ASSUME NEW k \in Keys, NEW s \in M!Matches(k), M!Shortcut(k, s)
        PROVE  /\ mode' \in {"local", "remote"} /\ SendTyped
               /\ handler' \in {"idle", "toggle", "grab", "close"} /\ direct' \subseteq Keys
    <3>1. s \in {"toggle", "disconnect", "other"} /\ M!RunShortcut(s)
      BY <2>1 DEF M!Matches, M!Shortcut
    <3>2. direct' \subseteq Keys
      BY <2>1 DEF M!Shortcut, MasterShape, M!TypeOK
    <3>3. CASE s = "toggle"
      BY <2>0, <3>1, <3>2, <3>3, ReleaseTyped
         DEF M!RunShortcut, M!sendVars, MasterShape, M!TypeOK
    <3>4. CASE s = "disconnect"
      BY <3>1, <3>2, <3>4, ReleaseTyped DEF M!RunShortcut, MasterShape, M!TypeOK
    <3>5. CASE s = "other"
      BY <2>0, <3>1, <3>2, <3>5 DEF M!RunShortcut, M!sendVars, MasterShape, M!TypeOK
    <3> QED
      BY <3>1, <3>3, <3>4, <3>5
  <2>2. ASSUME NEW k \in Keys, M!ToggleFallback(k) \/ M!SwallowRelease(k)
        PROVE  UNCHANGED <<mode, handler>> /\ direct' \subseteq direct /\ SendTyped
    BY <2>0, <2>2, ReleaseTyped
       DEF M!ToggleFallback, M!SwallowRelease, M!sendVars
  <2>3. ASSUME NEW k \in Keys, NEW p \in BOOLEAN, M!Forward(k, p)
        PROVE  UNCHANGED <<mode, handler, direct>> /\ SendTyped
    <3>1. /\ UNCHANGED <<mode, handler, direct>>
          /\ forwarded' = IF p THEN forwarded \cup {k} ELSE forwarded \ {k}
      BY <2>3 DEF M!Forward
    <3>2. forwarded' \subseteq Keys /\ IsFiniteSet(forwarded')
      BY <3>1, FS_AddElement, FS_RemoveElement DEF MasterShape, M!TypeOK
    <3> QED
      BY <2>3, <3>1, <3>2, ForwardSends, SentTyped DEF SendTyped
  <2>4. CASE M!Toggle \/ M!UpdateKeyboardGrab \/ M!Connected \/ M!TransportDisconnected
    BY <2>0, <2>4 DEF M!Toggle, M!UpdateKeyboardGrab, M!Connected, M!TransportDisconnected,
                      M!keyVars, M!sendVars, MasterShape, M!TypeOK
  <2>5. CASE M!CloseTransport \/ M!Drop
    <3>1. UNCHANGED <<mode, forwarded, direct>> /\ handler' \in {handler, "grab"}
      BY <2>5 DEF M!CloseTransport, M!Drop, M!keyVars
    <3>2. wire' \in Seq(M!Frames) /\ emptied' \subseteq Keys
      BY <2>5, CutTyped DEF M!CloseTransport, M!Drop, MasterShape, M!TypeOK
    <3> QED
      BY <3>1, <3>2 DEF SendTyped, MasterShape, M!TypeOK
  <2> QED
    BY <2>1, <2>2, <2>3, <2>4, <2>5 DEF M!Next, M!Steps, MasterShape, M!TypeOK
<1>2. grabbed' \in BOOLEAN /\ linked' \in BOOLEAN /\ dropping' \in BOOLEAN
  <2>1. ASSUME NEW k \in Keys, NEW s \in M!Matches(k), M!Shortcut(k, s)
        PROVE  UNCHANGED <<grabbed, linked, dropping>>
    BY <2>1, Zenon DEF M!Shortcut, M!linkVars
  <2>2. ASSUME NEW k \in Keys, NEW p \in BOOLEAN,
               M!ToggleFallback(k) \/ M!SwallowRelease(k) \/ M!Forward(k, p)
        PROVE  UNCHANGED <<grabbed, linked, dropping>>
    BY <2>2, Zenon DEF M!ToggleFallback, M!SwallowRelease, M!Forward, M!linkVars
  <2>3. CASE M!Toggle
    BY <2>3, Zenon DEF M!Toggle, M!linkVars, MasterShape, M!TypeOK
  <2>4. CASE M!CloseTransport
    <3>1. linked' = FALSE /\ grabbed' = grabbed /\ dropping' = (dropping \/ linked)
      BY <2>4, Zenon DEF M!CloseTransport
    <3>2. dropping' \in BOOLEAN
      BY <3>1, Zenon
    <3> QED
      BY <3>1, <3>2, Zenon DEF MasterShape, M!TypeOK
  <2>5. CASE M!UpdateKeyboardGrab
    BY <2>5, Zenon DEF M!UpdateKeyboardGrab, M!linkVars, MasterShape, M!TypeOK
  <2>6. CASE M!Connected \/ M!Drop \/ M!TransportDisconnected
    BY <2>6, Zenon DEF M!Connected, M!Drop, M!TransportDisconnected, MasterShape, M!TypeOK
  <2>7. CASE UNCHANGED <<grabbed, linked, dropping>>
    BY <2>7, Zenon DEF MasterShape, M!TypeOK
  <2> QED
    BY <2>1, <2>2, <2>3, <2>4, <2>5, <2>6, <2>7 DEF M!Next, M!Steps
<1> QED
  BY <1>1, <1>2, Zenon DEF MasterShape, M!TypeOK, SendTyped

-----------------------------------------------------------------------------
(* Both machines, while no link is lost.                                       *)

\* A release on its way to the keyboards, and one that is sent, stay on it.
LEMMA SoundSent ==
    ASSUME Shape, Sound, SendsSome, UNCHANGED <<work, owed>>
    PROVE  Sound'
<1>1. PICK rel \in Seq(M!Frames), ks \in SUBSET Keys : Sends(rel, ks)
  BY DEF SendsSome
<1>2. /\ wire \in Seq(M!Frames) /\ wire' = wire \o rel /\ wire' \in Seq(M!Frames)
      /\ Len(wire') = Len(wire) + Len(rel)
      /\ Len(wire) \in Nat /\ Len(rel) \in Nat
      /\ \A i \in 1..Len(wire) : wire'[i] = wire[i]
      /\ \A i \in 1..Len(rel) : wire'[Len(wire) + i] = rel[i]
      /\ Range(wire') = Range(wire) \cup Range(rel)
      /\ DOMAIN rel = 1..Len(rel)
  BY <1>1, RangeOfBoth DEF Sends, Shape, TypeOK, M!TypeOK
<1> SUFFICES ASSUME NEW k \in Keys
             PROVE  /\ \A i \in 1..Len(wire') :
                          wire'[i] = M!Frame(k, TRUE) =>
                              \/ Answered(k)'
                              \/ \E j \in (i + 1)..Len(wire') : wire'[j] = M!Frame(k, FALSE)
                    /\ S!Event(k, TRUE) \in Range(Queue) =>
                          Answered(k)' \/ M!Frame(k, FALSE) \in Range(wire')
                    /\ k \in owed => Answered(k)' \/ Coming(k)'
  BY DEF Sound, Queue
<1>3. Answered(k) => Answered(k)' \/ M!Frame(k, FALSE) \in Range(rel)
  BY <1>1 DEF Sends, Answered
<1>4. ASSUME NEW i \in 1..Len(wire'), wire'[i] = M!Frame(k, TRUE)
      PROVE  \/ Answered(k)'
             \/ \E j \in (i + 1)..Len(wire') : wire'[j] = M!Frame(k, FALSE)
  <2>1. CASE i <= Len(wire)
    <3>1. i \in 1..Len(wire) /\ wire'[i] = wire[i]
      BY <1>2, <2>1
    <3>2. ASSUME M!Frame(k, FALSE) \in Range(rel)
          PROVE  \E j \in (i + 1)..Len(wire') : wire'[j] = M!Frame(k, FALSE)
      <4>1. PICK n \in 1..Len(rel) : rel[n] = M!Frame(k, FALSE)
        BY <1>2, <3>2 DEF Range
      <4>2. Len(wire) + n \in (i + 1)..Len(wire')
        BY <1>2, <3>1
      <4>3. wire'[Len(wire) + n] = M!Frame(k, FALSE)
        BY <1>2, <4>1
      <4> QED
        BY <4>2, <4>3
    <3>3. ASSUME NEW j \in (i + 1)..Len(wire), wire[j] = M!Frame(k, FALSE)
          PROVE  \E n \in (i + 1)..Len(wire') : wire'[n] = M!Frame(k, FALSE)
      <4>1. j \in (i + 1)..Len(wire') /\ j \in 1..Len(wire)
        BY <1>2, <3>1
      <4> QED
        BY <1>2, <3>3, <4>1
    <3>4. Answered(k) \/ \E j \in (i + 1)..Len(wire) : wire[j] = M!Frame(k, FALSE)
      BY <1>4, <3>1 DEF Sound
    <3> QED
      BY <1>3, <3>2, <3>3, <3>4
  <2>2. CASE i > Len(wire)
    <3>1. i - Len(wire) \in 1..Len(rel) /\ Len(wire) + (i - Len(wire)) = i
      BY <1>2, <2>2
    <3>2. wire'[i] = rel[i - Len(wire)]
      BY <1>2, <3>1
    <3>3. M!Frame(k, TRUE) \in Range(rel)
      BY <1>2, <1>4, <3>1, <3>2 DEF Range
    <3> QED
      BY <1>1, <3>3 DEF Sends, Answered
  <2>3. i <= Len(wire) \/ i > Len(wire)
    <3>1. Len(wire) \in Nat /\ Len(wire') \in Nat
      BY <1>2
    <3> QED
      BY <3>1
  <2> QED
    BY <2>1, <2>2, <2>3, Zenon
<1>5. S!Event(k, TRUE) \in Range(Queue) => Answered(k)' \/ M!Frame(k, FALSE) \in Range(wire')
  BY <1>2, <1>3 DEF Sound
<1>6. k \in owed => Answered(k)' \/ Coming(k)'
  BY <1>2, <1>3 DEF Sound, Coming
<1> QED
  BY <1>4, <1>5, <1>6

\* What the user's disconnect cuts off is remembered as emptied.
LEMMA SoundClosed ==
    ASSUME Shape, Sound, M!CloseTransport, UNCHANGED <<work, owed>>
    PROVE  Sound'
<1>1. PICK n \in 0..Len(wire) :
          /\ wire' = SubSeq(wire, 1, n)
          /\ emptied' = emptied \cup
                {wire[i].key : i \in {j \in n+1..Len(wire) : ~wire[j].pressed}}
  BY DEF M!CloseTransport
<1>2. /\ wire \in Seq(M!Frames) /\ Len(wire) \in Nat /\ Len(wire') = n
      /\ n \in Nat /\ n <= Len(wire)
      /\ \A i \in 1..n : wire'[i] = wire[i] /\ i \in 1..Len(wire)
      /\ DOMAIN wire = 1..Len(wire) /\ DOMAIN wire' = 1..n
  <2>1. wire \in Seq(M!Frames)
    BY DEF Shape, TypeOK, M!TypeOK
  <2> QED
    BY <1>1, <2>1
<1> SUFFICES ASSUME NEW k \in Keys
             PROVE  /\ \A i \in 1..Len(wire') :
                          wire'[i] = M!Frame(k, TRUE) =>
                              \/ Answered(k)'
                              \/ \E j \in (i + 1)..Len(wire') : wire'[j] = M!Frame(k, FALSE)
                    /\ S!Event(k, TRUE) \in Range(Queue) =>
                          Answered(k)' \/ M!Frame(k, FALSE) \in Range(wire')
                    /\ k \in owed => Answered(k)' \/ Coming(k)'
  BY DEF Sound, Queue
<1>3. Answered(k) => Answered(k)'
  BY <1>1 DEF Answered, Has, M!CloseTransport
<1>4. ASSUME NEW j \in 1..Len(wire), wire[j] = M!Frame(k, FALSE), ~Answered(k)'
      PROVE  j <= n /\ wire'[j] = M!Frame(k, FALSE)
  <2>1. CASE j <= n
    <3>1. j \in 1..n
      BY <1>2, <2>1
    <3> QED
      BY <1>2, <1>4, <2>1, <3>1
  <2>2. CASE j > n
    <3>1. j \in n+1..Len(wire)
      BY <1>2, <2>2
    <3>2. ~wire[j].pressed /\ wire[j].key = k
      BY <1>4 DEF M!Frame
    <3> QED
      BY <1>1, <1>4, <3>1, <3>2 DEF Answered
  <2>3. j <= n \/ j > n
    <3>1. n \in Nat /\ Len(wire) \in Nat
      BY <1>2
    <3> QED
      BY <3>1
  <2> QED
    BY <2>1, <2>2, <2>3
<1>5. ASSUME NEW i \in 1..Len(wire'), wire'[i] = M!Frame(k, TRUE), ~Answered(k)'
      PROVE  \E j \in (i + 1)..Len(wire') : wire'[j] = M!Frame(k, FALSE)
  <2>1. i \in 1..Len(wire) /\ wire[i] = M!Frame(k, TRUE)
    BY <1>2, <1>5
  <2>2. PICK j \in (i + 1)..Len(wire) : wire[j] = M!Frame(k, FALSE)
    BY <1>3, <1>5, <2>1 DEF Sound
  <2>3. j \in 1..Len(wire)
    BY <2>1, <2>2
  <2>4. j <= n /\ wire'[j] = M!Frame(k, FALSE)
    BY <1>4, <1>5, <2>2, <2>3
  <2>5. j \in (i + 1)..Len(wire')
    BY <1>2, <2>1, <2>2, <2>4
  <2> QED
    BY <2>4, <2>5
<1>6. M!Frame(k, FALSE) \in Range(wire) => Answered(k)' \/ M!Frame(k, FALSE) \in Range(wire')
  <2> SUFFICES ASSUME M!Frame(k, FALSE) \in Range(wire), ~Answered(k)'
               PROVE  M!Frame(k, FALSE) \in Range(wire')
    OBVIOUS
  <2>1. PICK j \in 1..Len(wire) : wire[j] = M!Frame(k, FALSE)
    BY <1>2 DEF Range
  <2>2. j <= n /\ wire'[j] = M!Frame(k, FALSE)
    BY <1>4, <2>1
  <2>3. j \in DOMAIN wire'
    BY <1>2, <2>1, <2>2
  <2> QED
    BY <2>2, <2>3, Zenon DEF Range
<1>7. S!Event(k, TRUE) \in Range(Queue) => Answered(k)' \/ M!Frame(k, FALSE) \in Range(wire')
  BY <1>3, <1>6 DEF Sound
<1>8. k \in owed => Answered(k)' \/ Coming(k)'
  BY <1>3, <1>6 DEF Sound, Coming
<1> QED
  BY <1>5, <1>7, <1>8

\* A delivered frame is the next injection.
LEMMA SoundDelivered ==
    ASSUME Shape, Sound, wire # <<>>, wire' = Tail(wire), Queue = <<>>,
           Queue' = <<S!Event(Head(wire).key, Head(wire).pressed)>>,
           UNCHANGED <<owed, forwarded, linked, mode, handler, emptied>>
    PROVE  Sound'
<1>1. /\ wire \in Seq(M!Frames) /\ Head(wire) = wire[1] /\ Head(wire) \in M!Frames
      /\ Len(wire') = Len(wire) - 1 /\ Len(wire) \in Nat \ {0} /\ wire' \in Seq(M!Frames)
      /\ \A i \in 1..Len(wire') : wire'[i] = wire[i + 1] /\ i + 1 \in 1..Len(wire)
      /\ Range(wire) = {Head(wire)} \cup Range(wire')
  BY HeadAndTail DEF Shape, TypeOK, M!TypeOK
<1>2. Range(Queue') = {Head(wire)} /\ Range(Queue) = {}
  <2>1. S!Event(Head(wire).key, Head(wire).pressed) = Head(wire)
    BY <1>1 DEF S!Event, M!Frames
  <2> QED
    BY <2>1 DEF Range
<1> SUFFICES ASSUME NEW k \in Keys
             PROVE  /\ \A i \in 1..Len(wire') :
                          wire'[i] = M!Frame(k, TRUE) =>
                              \/ Answered(k)
                              \/ \E j \in (i + 1)..Len(wire') : wire'[j] = M!Frame(k, FALSE)
                    /\ S!Event(k, TRUE) \in Range(Queue') =>
                          Answered(k) \/ M!Frame(k, FALSE) \in Range(wire')
                    /\ k \in owed => Answered(k) \/ Coming(k)'
  BY DEF Sound, Answered, Has
<1>3. S!Event(k, TRUE) = M!Frame(k, TRUE) /\ S!Event(k, FALSE) = M!Frame(k, FALSE)
  BY DEF S!Event, M!Frame
<1>4. ASSUME NEW i \in 1..Len(wire'), wire'[i] = M!Frame(k, TRUE), ~Answered(k)
      PROVE  \E j \in (i + 1)..Len(wire') : wire'[j] = M!Frame(k, FALSE)
  <2>1. wire[i + 1] = M!Frame(k, TRUE) /\ i + 1 \in 1..Len(wire)
    BY <1>1, <1>4
  <2>2. PICK j \in ((i + 1) + 1)..Len(wire) : wire[j] = M!Frame(k, FALSE)
    BY <1>4, <2>1 DEF Sound
  <2>3. j - 1 \in (i + 1)..Len(wire') /\ (j - 1) + 1 = j /\ j - 1 \in 1..Len(wire')
    BY <1>1, <2>2
  <2> QED
    BY <1>1, <2>2, <2>3
<1>5. ASSUME Head(wire) = M!Frame(k, TRUE), ~Answered(k)
      PROVE  M!Frame(k, FALSE) \in Range(wire')
  <2>1. 1 \in 1..Len(wire) /\ wire[1] = M!Frame(k, TRUE)
    <3>1. Len(wire) \in Nat \ {0} /\ Head(wire) = wire[1]
      BY <1>1
    <3>2. 1 \in 1..Len(wire)
      BY <3>1
    <3> QED
      BY <1>5, <3>1, <3>2, Zenon
  <2>2. PICK j \in (1 + 1)..Len(wire) : wire[j] = M!Frame(k, FALSE)
    BY <1>5, <2>1 DEF Sound
  <2>3. j - 1 \in 1..Len(wire') /\ (j - 1) + 1 = j /\ DOMAIN wire' = 1..Len(wire')
    BY <1>1, <2>2
  <2>4. wire'[j - 1] = M!Frame(k, FALSE)
    BY <1>1, <2>2, <2>3
  <2> QED
    BY <2>3, <2>4 DEF Range
<1>6. k \in owed => Answered(k) \/ Coming(k)'
  BY <1>1, <1>2, <1>3 DEF Sound, Coming, Queue
<1> QED
  BY <1>2, <1>3, <1>4, <1>5, <1>6

\* What an injection leaves owed a release is what was, and the key of a press.
LEMMA SoundInjected ==
    ASSUME Shape, Sound, Through \/ Stuck,
           UNCHANGED <<wire, forwarded, linked, mode, handler, emptied>>
    PROVE  Sound'
<1> DEFINE e == Head(Queue)
<1>1. /\ Range(Queue) = {e} \cup Range(Tail(Queue)) /\ e = S!Event(e.key, e.pressed)
      /\ e.pressed \in BOOLEAN
  BY HeadOfQueue DEF Through, Stuck
<1>2. \/ Range(Queue') = Range(Tail(Queue)) /\ owed' \subseteq S!After(e, owed)
      \/ Queue' = Queue /\ (owed' = owed \/ (e.pressed /\ owed' = owed \cup {e.key}))
  BY DEF Through, Stuck
<1> HIDE DEF e
<1> SUFFICES ASSUME NEW k \in Keys
             PROVE  /\ S!Event(k, TRUE) \in Range(Queue') =>
                          Answered(k) \/ M!Frame(k, FALSE) \in Range(wire)
                    /\ k \in owed' => Answered(k) \/ Coming(k)'
  BY DEF Sound, Answered, Has
<1>3. S!Event(k, TRUE) \in Range(Queue') =>
          Answered(k) \/ M!Frame(k, FALSE) \in Range(wire)
  BY <1>1, <1>2 DEF Sound
<1>4. ASSUME k \in owed', ~Answered(k)
      PROVE  Coming(k)'
  <2>1. CASE e.pressed /\ e.key = k
    <3>1. M!Frame(k, FALSE) \in Range(wire)
      BY <1>1, <1>4, <2>1 DEF Sound
    <3> QED
      BY <3>1 DEF Coming
  <2>2. CASE ~(e.pressed /\ e.key = k)
    <3>1. k \in owed
      BY <1>2, <1>4, <2>2 DEF S!After
    <3>2. Coming(k)
      BY <1>4, <3>1 DEF Sound
    <3>3. CASE e = S!Event(k, FALSE)
      <4>1. ~e.pressed /\ e.key = k
        BY <3>3 DEF S!Event
      <4>2. Queue' = Queue
        BY <1>2, <1>4, <4>1 DEF S!After
      <4> QED
        BY <3>2, <4>2 DEF Coming, Queue
    <3>4. CASE e # S!Event(k, FALSE)
      BY <1>1, <1>2, <3>2, <3>4 DEF Coming, Queue
    <3> QED
      BY <3>3, <3>4
  <2> QED
    BY <2>1, <2>2
<1> QED
  BY <1>3, <1>4

LEMMA SoundStays ==
    ASSUME Sound, UNCHANGED <<work, owed, wire, forwarded, linked, mode, handler, emptied>>
    PROVE  Sound'
BY DEF Sound, Answered, Has, Coming, Queue

\* Its link up, the controlling machine knows of the end of no earlier one to
\* come: only the user's disconnect ends it.
LEMMA KnowsOfEnd ==
    ASSUME linked => ~dropping, M!Steps
    PROVE  linked' => ~dropping'
<1>1. ASSUME NEW k \in Keys, NEW s \in M!Matches(k), M!Shortcut(k, s)
      PROVE  UNCHANGED <<linked, dropping>>
  BY <1>1, Zenon DEF M!Shortcut, M!linkVars
<1>2. ASSUME NEW k \in Keys, NEW p \in BOOLEAN,
             M!ToggleFallback(k) \/ M!SwallowRelease(k) \/ M!Forward(k, p)
      PROVE  UNCHANGED <<linked, dropping>>
  BY <1>2, Zenon DEF M!ToggleFallback, M!SwallowRelease, M!Forward, M!linkVars
<1>3. CASE M!Toggle \/ M!UpdateKeyboardGrab
  BY <1>3, Zenon DEF M!Toggle, M!UpdateKeyboardGrab, M!linkVars
<1>4. CASE M!CloseTransport \/ M!Connected \/ M!TransportDisconnected
  BY <1>4, Zenon DEF M!CloseTransport, M!Connected, M!TransportDisconnected
<1> QED
  BY <1>1, <1>2, <1>3, <1>4 DEF M!Steps

LEMMA MasterStep ==
    ASSUME IInv, Controlling
    PROVE  IInv'
<1>1. /\ UNCHANGED <<setup, link, held, down, portal, inside, lock, work, try, job, owed, faults>>
      /\ M!Next /\ MasterShape /\ SlaveShape
      /\ (M!Steps /\ lost' = lost) \/ lost' = TRUE
  BY ShapeOfBoth DEF Controlling, slaveVars, M!Next, IInv
<1>2. SlaveShape'
  BY <1>1 DEF SlaveShape, S!TypeOK, Queue, S!Order
<1>3. MasterShape' /\ lost' \in BOOLEAN
  BY <1>1, MasterTyped, ShapeOfBoth DEF IInv
<1>4. Shape'
  BY <1>2, <1>3 DEF Shape, SlaveShape, MasterShape, TypeOK
<1>5. Asking' /\ Keeping' /\ (faults' = 0 => Clean')
  <2>1. Asking'
    BY <1>1, SameBackends DEF IInv, Asking, S!Turn, S!Busy, Queue
  <2>2. Clean => Clean'
    BY <1>1, CleanStays
  <2> QED
    BY <1>1, <2>1, <2>2, KeepingStays DEF IInv
<1>6. ASSUME ~lost'
      PROVE  Undisturbed'
  <2>1. M!Steps /\ Undisturbed /\ Shape
    BY <1>1, <1>6 DEF IInv
  <2>2. SendsSome \/ M!CloseTransport
    BY <1>1, <2>1, MasterSends DEF Undisturbed
  <2>3. Sound'
    BY <1>1, <2>1, <2>2, SoundSent, SoundClosed DEF Undisturbed
  <2>4. linked' => ~dropping'
    BY <2>1, KnowsOfEnd DEF Undisturbed
  <2> QED
    BY <1>1, <2>1, <2>3, <2>4 DEF Undisturbed
<1> QED
  BY <1>4, <1>5, <1>6 DEF IInv

LEMMA DeliverStep ==
    ASSUME IInv, Deliver
    PROVE  IInv'
<1>1. /\ Shape /\ MasterShape /\ Asking /\ Keeping
      /\ wire # <<>> /\ wire' = Tail(wire)
      /\ UNCHANGED <<mode, grabbed, linked, dropping, forwarded, direct, handler, emptied, lost>>
  BY ShapeOfBoth DEF IInv, Deliver
<1>2. Head(wire) \in M!Frames /\ wire' \in Seq(M!Frames)
  BY <1>1, HeadAndTail DEF MasterShape, M!TypeOK
<1>3. MasterShape' /\ lost' \in BOOLEAN
  BY <1>1, <1>2 DEF MasterShape, M!TypeOK, Shape, TypeOK
<1>4. CASE link # "down" /\ S!KeyFrame(Head(wire).key, Head(wire).pressed)
  <2> DEFINE k == Head(wire).key
             p == Head(wire).pressed
  <2>1. k \in Keys /\ p \in BOOLEAN
    BY <1>2 DEF M!Frames
  <2> HIDE DEF k, p
  <2>2. /\ SlaveShape' /\ Asking' /\ Keeping' /\ (Clean => Clean')
        /\ Queue = <<>> /\ Queue' = <<S!Event(k, p)>>
        /\ job'["reader"] = "frame" /\ UNCHANGED <<link, owed, down, faults>>
    BY <1>1, <1>4, <2>1, KeyFrameTyped, FrameTaken DEF k, p
  <2>3. Sound => Sound'
    BY <1>1, <2>2, SoundDelivered DEF k, p
  <2>4. ~lost' => Undisturbed'
    BY <1>1, <2>2, <2>3 DEF IInv, Undisturbed
  <2>5. Shape'
    BY <1>3, <2>2 DEF Shape, SlaveShape, MasterShape, TypeOK
  <2> QED
    BY <2>2, <2>4, <2>5 DEF IInv
<1>5. CASE link # "up" /\ UNCHANGED slaveVars
  <2>1. UNCHANGED <<setup, link, held, down, portal, inside, lock, work, try, job, owed, faults>>
    BY <1>5 DEF slaveVars
  <2>2. Shape'
    BY <1>1, <1>3, <2>1 DEF MasterShape, Shape, TypeOK, S!TypeOK, Queue, S!Order
  <2>3. Asking'
    BY <1>1, <2>1, SameBackends DEF Asking, S!Turn, S!Busy, Queue
  <2>4. Keeping' /\ (Clean => Clean')
    BY <1>1, <2>1, KeepingStays, CleanStays
  <2>5. lost'
    BY <1>1, <1>5 DEF IInv, Undisturbed
  <2> QED
    BY <2>1, <2>2, <2>3, <2>4, <2>5 DEF IInv
<1> QED
  BY <1>4, <1>5 DEF Deliver

LEMMA SlaveStep ==
    ASSUME IInv, Controlled
    PROVE  IInv'
<1>1. /\ Shape /\ MasterShape /\ Asking /\ Keeping
      /\ UNCHANGED <<mode, grabbed, linked, dropping, forwarded, direct, handler, wire, emptied>>
  BY ShapeOfBoth, Zenon DEF IInv, Controlled, masterVars
<1>2. MasterShape' /\ lost' \in BOOLEAN
  BY <1>1 DEF MasterShape, M!TypeOK, Shape, TypeOK, Controlled
<1>3. CASE S!Runs("reader") /\ lost' = lost
  <2>1. Kept /\ SlaveShape'
    BY <1>1, <1>3, ReaderStep, ReaderTyped
  <2>2. link' = link
    BY <1>3 DEF S!Runs, S!Inject, S!RunTool, S!EnterPortal, S!Returns, S!SetUp, S!Answer,
                S!SetUpEnds, S!NoBackend, S!JobDone, S!BusFails
  <2>3. /\ Keeping' /\ (Sound => Sound')
        /\ job["reader"] # "release" => job'["reader"] # "release"
    <3>1. CASE Stays
      BY <1>1, <2>2, <3>1, KeepingStays, SoundStays DEF Stays
    <3>2. CASE Dropped \/ Failed \/ \E b \in S!Backends : Took(b)
      <4>1. Through \/ Stuck
        BY <1>1, <3>2, Injected
      <4> QED
        BY <1>1, <2>2, <4>1, KeepingThrough, KeepingStuck, SoundInjected DEF Through, Stuck
    <3>3. CASE S!JobDone("reader")
      <4>1. Keeping' /\ UNCHANGED <<work, owed>>
        BY <1>1, <3>3, KeepingDone DEF S!JobDone, S!keyboardVars
      <4>2. job'["reader"] = "none"
        BY <1>1, <3>3 DEF S!JobDone, Shape, TypeOK, S!TypeOK, S!Threads
      <4> QED
        BY <1>1, <4>1, <4>2, SoundStays
    <3> QED
      BY <2>1, <3>1, <3>2, <3>3 DEF Kept
  <2>4. Shape'
    BY <1>2, <2>1 DEF Shape, SlaveShape, MasterShape, TypeOK
  <2>5. ~lost' => Undisturbed'
    BY <1>1, <1>3, <2>2, <2>3 DEF IInv, Undisturbed
  <2> QED
    BY <2>1, <2>3, <2>4, <2>5 DEF IInv, Kept
<1>4. CASE (S!LinkEnds /\ lost' = TRUE) \/ (S!Rejoin /\ lost' = lost)
  <2>1. SlaveShape' /\ Asking' /\ Keeping' /\ (Clean => Clean') /\ faults' = faults
    BY <1>1, <1>4, LinkKept
  <2>2. lost'
    BY <1>4 DEF S!Rejoin, IInv, Undisturbed
  <2>3. Shape'
    BY <1>2, <2>1 DEF Shape, SlaveShape, MasterShape, TypeOK
  <2> QED
    BY <2>1, <2>2, <2>3 DEF IInv
<1>5. CASE S!LinkReported /\ lost' = lost
  <2>1. SlaveShape' /\ Asking' /\ Keeping' /\ (Clean => Clean') /\ faults' = faults
    BY <1>1, <1>5, ReportTyped, ReportKept
  <2>2. lost'
    BY <1>5 DEF S!LinkReported, IInv, Undisturbed
  <2>3. Shape'
    BY <1>2, <2>1 DEF Shape, SlaveShape, MasterShape, TypeOK
  <2> QED
    BY <2>1, <2>2, <2>3 DEF IInv
<1> QED
  BY <1>3, <1>4, <1>5 DEF Controlled

LEMMA InitIInv == Init => IInv
<1> SUFFICES ASSUME Init PROVE IInv
  OBVIOUS
<1>1. /\ Queue = <<>> /\ Range(Queue) = {} /\ Len(Queue) = 0
      /\ wire = <<>> /\ Len(wire) = 0 /\ try["reader"] = 1
  BY DEF Init, M!Init, S!Init, S!Threads, Queue, Range
<1>2. Shape
  <2>1. S!TypeOK
    BY LegacyControlAssumption DEF Init, S!Init, S!TypeOK, S!Threads, LegacyControlAssumption
  <2>2. M!TypeOK
    <3>1. grabbed \in BOOLEAN /\ linked \in BOOLEAN /\ dropping \in BOOLEAN
      BY Zenon DEF Init, M!Init
    <3> QED
      BY <3>1 DEF Init, M!Init, M!TypeOK
  <2>3. Len(S!Order) \in {2, 3}
    BY <2>1, OrderShape DEF S!TypeOK
  <2>4. /\ IsFiniteSet(held) /\ IsFiniteSet(forwarded)
        /\ inside \subseteq {"reader"} /\ lock \in {"none", "reader"}
    BY FS_EmptySet DEF Init, M!Init, S!Init
  <2>5. job["main"] = "none" /\ work["main"] = <<>> /\ lost \in BOOLEAN
    BY DEF Init, S!Init, S!Threads
  <2>6. try["reader"] <= Len(S!Order) + 1
    <3> DEFINE n == Len(S!Order)
    <3>1. n \in {2, 3}
      BY <2>3
    <3> HIDE DEF n
    <3>2. try["reader"] <= n + 1
      BY <1>1, <3>1
    <3> QED
      BY <3>2 DEF n
  <2> QED
    BY <1>1, <2>1, <2>2, <2>4, <2>5, <2>6 DEF Shape, TypeOK
<1>3. Asking
  BY <1>1 DEF Init, S!Init, Asking
<1>4. Keeping
  BY <1>1 DEF Init, S!Init, Keeping, Jobs, Remembered, Unlinked, S!Threads
<1>5. Clean
  BY <1>1 DEF Init, S!Init, Clean, Position, OneKeyboard, Owing, S!Keyboards
<1>6. Undisturbed
  <2>1. Sound
    <3>1. owed = {}
      BY DEF Init, S!Init
    <3>2. 1..Len(wire) = {}
      BY <1>1
    <3> QED
      BY <1>1, <3>1, <3>2, Zenon DEF Sound
  <2> QED
    BY <2>1 DEF Init, M!Init, S!Init, S!Threads, Undisturbed
<1> QED
  BY <1>2, <1>3, <1>4, <1>5, <1>6 DEF IInv

LEMMA StutterIInv == ASSUME IInv, UNCHANGED vars PROVE IInv'
<1>1. /\ UNCHANGED <<mode, grabbed, linked, dropping, forwarded, direct, handler, wire, emptied>>
      /\ UNCHANGED <<setup, link, held, down, portal, inside, lock, work, try, job, owed, faults>>
      /\ lost' = lost
  BY DEF vars, masterVars, slaveVars
<1>2. Shape'
  BY <1>1 DEF IInv, Shape, TypeOK, M!TypeOK, S!TypeOK, Queue, S!Order
<1>3. Asking' /\ Keeping' /\ (Clean => Clean')
  <2>1. Asking'
    BY <1>1, SameBackends DEF IInv, Asking, S!Turn, S!Busy, Queue
  <2> QED
    BY <1>1, <2>1, KeepingStays, CleanStays DEF IInv
<1>4. Undisturbed => Undisturbed'
  BY <1>1, SoundStays DEF Undisturbed
<1> QED
  BY <1>1, <1>2, <1>3, <1>4 DEF IInv

-----------------------------------------------------------------------------
(* The theorems.                                                               *)

\* The invariant holds in every reachable state.
THEOREM Strengthened == Spec => []IInv
<1>1. IInv /\ [Next]_vars => IInv'
  <2> SUFFICES ASSUME IInv, [Next]_vars PROVE IInv'
    OBVIOUS
  <2>1. CASE Next
    BY <2>1, DeliverStep, MasterStep, SlaveStep DEF Next
  <2>2. CASE UNCHANGED vars
    BY <2>2, StutterIInv
  <2> QED
    BY <2>1, <2>2
<1> QED
  BY <1>1, InitIInv, PTL DEF Spec

\* The controller, the transport's wire and the injector hold values of their types.
THEOREM TypeCorrect == Spec => []TypeOK
<1>1. IInv => TypeOK
  BY DEF IInv, Shape
<1> QED
  BY <1>1, Strengthened, PTL

\* As long as no link is lost, each key that is down at the other end is one the
\* controlling user still controls, or its release is on its way, or was injected
\* in vain, or was emptied with the queue by the user's disconnect -- for any
\* shortcuts, any tools and any failures of the calls that inject.
THEOREM KeysAccounted == Spec => []DownIsAccounted
<1>1. IInv => DownIsAccounted
  <2> SUFFICES ASSUME IInv, ~lost, NEW k \in S!AllDown
               PROVE  Controls(k) \/ Coming(k) \/ Amiss(k) \/ k \in emptied
    BY DEF DownIsAccounted
  <2>1. Undisturbed /\ Shape
    BY DEF IInv
  <2>2. CASE k \in owed
    <3>1. k \in Keys
      BY <2>1, <2>2 DEF Shape, TypeOK, S!TypeOK
    <3>2. Answered(k) \/ Coming(k)
      BY <2>1, <2>2, <3>1 DEF Undisturbed, Sound
    <3> QED
      BY <3>2 DEF Answered, Has, Controls
  <2>3. CASE k \notin owed
    <3>1. PICK b \in S!Keyboards : k \in down[b]
      BY DEF S!AllDown
    <3>2. faults # 0
      BY <2>3, <3>1 DEF IInv, Clean, OneKeyboard, Owing, S!Keyboards
    <3>3. faults > 0
      BY <2>1, <3>2 DEF Shape, TypeOK, S!TypeOK
    <3> QED
      BY <2>3, <3>3 DEF Amiss
  <2> QED
    BY <2>2, <2>3
<1> QED
  BY <1>1, Strengthened, PTL

\* With the controlled machine's own link down and its reader done, the release of
\* every key that went down has been injected, whatever the user said to the
\* portal, whether its session ended, whichever calls failed and wherever the
\* links were lost; and if no call failed, no virtual keyboard holds a key.
THEOREM NoneHeldUnlinked == Spec => []NothingHeldUnlinked
<1>1. IInv => NothingHeldUnlinked
  <2> SUFFICES ASSUME IInv, link = "down", job["reader"] = "none"
               PROVE  owed = {} /\ (faults = 0 => S!AllDown = {})
    BY DEF NothingHeldUnlinked, S!NothingHeldUnlinked, S!Threads
  <2>1. owed = {}
    BY DEF IInv, Keeping, Unlinked
  <2>2. faults = 0 => \A b \in S!Keyboards : down[b] = {}
    BY <2>1 DEF IInv, Clean, OneKeyboard, Owing, S!Keyboards
  <2> QED
    BY <2>1, <2>2 DEF S!AllDown
<1> QED
  BY <1>1, Strengthened, PTL

\* The user's refusal of the portal is final on Wayland: from then on no key goes
\* down, by the portal or round it.
THEOREM Refused == Spec => RefusalIsFinal
<1>1. IInv /\ [Next]_vars =>
          [ ("denied" \in portal /\ setup.session = "wayland")
            => \A b \in S!Keyboards : down'[b] \subseteq down[b] ]_vars
  <2> SUFFICES ASSUME IInv, Next, "denied" \in portal, setup.session = "wayland"
               PROVE  down' = down
    BY DEF vars, slaveVars
  <2>1. Shape /\ Asking /\ Denied
    BY DEF IInv, Asking, Denied
  <2>2. CASE Deliver \/ Controlling
    BY <2>2 DEF Deliver, Controlling, S!KeyFrame, S!keyboardVars, slaveVars
  <2>3. CASE S!LinkEnds \/ S!LinkReported \/ S!Rejoin
    BY <2>3 DEF S!LinkEnds, S!LinkReported, S!ReleaseAllKeys, S!Rejoin, S!keyboardVars
  <2>4. CASE S!Runs("reader")
    BY <2>1, <2>4, ReaderStep DEF Kept
  <2> QED
    BY <2>2, <2>3, <2>4 DEF Next, Controlled
<1> QED
  BY <1>1, Strengthened, PTL DEF Spec, RefusalIsFinal

-----------------------------------------------------------------------------
(* The keyboard's grab.                                                        *)

\* Between a shortcut's change of the control state and the update of the grab
\* that follows it, the grab may be behind; at no other time is it in remote mode.
GrabFollows == (mode = "remote" /\ handler # "grab") => grabbed

\* A step of the controlling machine keeps that.
LEMMA MasterGrabFollows ==
    ASSUME GrabFollows, M!Next
    PROVE  GrabFollows'
<1> USE DEF GrabFollows
<1>1. CASE M!Toggle
  BY <1>1 DEF M!Toggle
<1>2. CASE M!CloseTransport
  BY <1>2 DEF M!CloseTransport
<1>3. CASE M!UpdateKeyboardGrab
  BY <1>3 DEF M!UpdateKeyboardGrab
<1>4. CASE M!Connected
  BY <1>4 DEF M!Connected
<1>5. CASE M!Drop
  BY <1>5 DEF M!Drop
<1>6. CASE M!TransportDisconnected
  BY <1>6 DEF M!TransportDisconnected
<1>7. ASSUME NEW k \in Keys, NEW s \in M!Matches(k), M!Shortcut(k, s)
      PROVE  GrabFollows'
  <2>1. s \in {"toggle", "disconnect", "other"}
    BY DEF M!Matches
  <2>2. handler = "idle" /\ UNCHANGED grabbed /\ M!RunShortcut(s)
    BY <1>7 DEF M!Shortcut, M!linkVars
  <2>3. CASE s = "toggle"
    BY <2>2, <2>3 DEF M!RunShortcut
  <2>4. CASE s = "disconnect"
    BY <2>2, <2>4 DEF M!RunShortcut
  <2>5. CASE s = "other"
    BY <2>2, <2>5 DEF M!RunShortcut
  <2> QED
    BY <2>1, <2>3, <2>4, <2>5
<1>8. ASSUME NEW k \in Keys, M!ToggleFallback(k)
      PROVE  GrabFollows'
  BY <1>8 DEF M!ToggleFallback
<1>9. ASSUME NEW k \in Keys, M!SwallowRelease(k)
      PROVE  GrabFollows'
  BY <1>9 DEF M!SwallowRelease
<1>10. ASSUME NEW k \in Keys, NEW down_ \in BOOLEAN, M!Forward(k, down_)
       PROVE  GrabFollows'
  BY <1>10 DEF M!Forward
<1> QED
  BY <1>1, <1>2, <1>3, <1>4, <1>5, <1>6, <1>7, <1>8, <1>9, <1>10 DEF M!Next, M!Steps

\* While keys go to the other machine, this one's keyboard is grabbed, whatever
\* shortcut or lost connection changed the control state, and at any time.
THEOREM Grabbed == Spec => []RemoteIsGrabbed
<1>1. Init => GrabFollows
  BY DEF Init, M!Init, GrabFollows
<1>2. GrabFollows /\ [Next]_vars => GrabFollows'
  <2> SUFFICES ASSUME GrabFollows, [Next]_vars
               PROVE  GrabFollows'
    OBVIOUS
  <2>1. CASE Deliver
    BY <2>1 DEF Deliver, GrabFollows
  <2>2. CASE Controlling
    BY <2>2, MasterGrabFollows DEF Controlling, M!Next
  <2>3. CASE Controlled
    BY <2>3 DEF Controlled, masterVars, GrabFollows
  <2>4. CASE UNCHANGED vars
    BY <2>4 DEF vars, masterVars, GrabFollows
  <2> QED
    BY <2>1, <2>2, <2>3, <2>4 DEF Next
<1>3. GrabFollows => RemoteIsGrabbed
  BY DEF GrabFollows, RemoteIsGrabbed
<1> QED
  BY <1>1, <1>2, <1>3, PTL DEF Spec
=============================================================================
