--------------------------- MODULE LocalRelayProofs ---------------------------
(* NoGhosts, RosterComplete and RelayExact of LocalRelay, for any clients,      *)
(* channels, bounds and instances.                                             *)
EXTENDS LocalRelay, SequenceTheorems, TLAPS

USE RelayAssumption

\* The types that membership rests on.
MemberTypes ==
    /\ serve \in [Instances -> {"none", "starting", "listening", "ended"}]
    /\ at \in [Clients -> 0..MaxStarts]
    /\ chan \in [Clients -> Channels \cup {NoChannel}]
    /\ step \in [Clients -> {"none", "read", "sending", "leaving", "closed"}]
    /\ members \in [Instances -> [Channels -> Seq(Clients)]]
    /\ out = [c \in Clients |-> out[c]]

\* A thread has something to send while it sends, and only then; and a client
\* whose thread runs was accepted by some instance.
ThreadsSound ==
    \A c \in Clients :
        /\ out[c] # <<>> <=> step[c] \in {"sending", "leaving"}
        /\ step[c] # "none" => at[c] \in Instances

IInv == MemberTypes /\ ThreadsSound /\ NoGhosts

-----------------------------------------------------------------------------
\* Appending an element that is not there: a list keeps its elements apart.
LEMMA AppendFresh ==
    ASSUME NEW S, NEW s \in Seq(S), NEW e \in S, e \notin ToSet(s), IsInjective(s)
    PROVE  /\ Append(s, e) \in Seq(S)
           /\ ToSet(Append(s, e)) = ToSet(s) \cup {e}
           /\ IsInjective(Append(s, e))
<1>1. Append(s, e) \in Seq(S) /\ Len(Append(s, e)) = Len(s) + 1 /\ Len(s) \in Nat
  OBVIOUS
<1>2. /\ DOMAIN s = 1..Len(s)
      /\ DOMAIN Append(s, e) = 1..Len(s) + 1
      /\ \A i \in 1..Len(s) : Append(s, e)[i] = s[i]
      /\ Append(s, e)[Len(s) + 1] = e
  BY <1>1
<1>3. \A i \in 1..Len(s) : s[i] # e
  BY <1>2 DEF ToSet
<1>4. ToSet(Append(s, e)) = ToSet(s) \cup {e}
  <2>1. \A x \in ToSet(Append(s, e)) : x \in ToSet(s) \cup {e}
    BY <1>1, <1>2 DEF ToSet
  <2>2. \A x \in ToSet(s) : x \in ToSet(Append(s, e))
    BY <1>1, <1>2 DEF ToSet
  <2>3. e \in ToSet(Append(s, e))
    BY <1>1, <1>2 DEF ToSet
  <2> QED
    BY <2>1, <2>2, <2>3
<1>5. IsInjective(Append(s, e))
  BY <1>1, <1>2, <1>3 DEF IsInjective
<1> QED
  BY <1>1, <1>4, <1>5

\* What removing the element at a position does to the others' positions.
LEMMA RemoveAtProperties ==
    ASSUME NEW S, NEW s \in Seq(S), NEW i \in 1..Len(s)
    PROVE  /\ RemoveAt(s, i) \in Seq(S) /\ Len(RemoveAt(s, i)) = Len(s) - 1
           /\ \A j \in 1..Len(s) - 1 :
                 RemoveAt(s, i)[j] = IF j < i THEN s[j] ELSE s[j + 1]
<1> DEFINE p == SubSeq(s, 1, i - 1)
           q == SubSeq(s, i + 1, Len(s))
<1>1. Len(s) \in Nat /\ i \in Nat /\ 1 <= i /\ i <= Len(s)
  OBVIOUS
<1>2. p \in Seq(S) /\ Len(p) = i - 1 /\ \A j \in 1..i - 1 : p[j] = s[j]
  OBVIOUS
<1>3. q \in Seq(S) /\ Len(q) = Len(s) - i /\ \A j \in 1..Len(s) - i : q[j] = s[j + i]
  OBVIOUS
<1>4. RemoveAt(s, i) = p \o q
  BY DEF RemoveAt
<1> HIDE DEF p, q
<1>5. /\ p \o q \in Seq(S)
      /\ Len(p \o q) = Len(p) + Len(q)
      /\ \A j \in 1..Len(p) + Len(q) :
            (p \o q)[j] = IF j <= Len(p) THEN p[j] ELSE q[j - Len(p)]
  BY <1>2, <1>3, ConcatProperties
<1>6. Len(p) + Len(q) = Len(s) - 1
  BY <1>1, <1>2, <1>3
<1>7. ASSUME NEW j \in 1..Len(s) - 1
      PROVE  (p \o q)[j] = IF j < i THEN s[j] ELSE s[j + 1]
  <2>1. (p \o q)[j] = IF j <= i - 1 THEN p[j] ELSE q[j - (i - 1)]
    BY <1>2, <1>5, <1>6
  <2>2. CASE j < i
    BY <2>1, <2>2, <1>1, <1>2
  <2>3. CASE j >= i
    <3> DEFINE k == j - (i - 1)
    <3>1. k \in 1..Len(s) - i /\ k + i = j + 1 /\ ~(j <= i - 1) /\ ~(j < i)
      BY <2>3, <1>1
    <3>2. (p \o q)[j] = q[k]
      BY <2>1, <3>1
    <3> HIDE DEF k
    <3>3. q[k] = s[k + i]
      BY <3>1, <1>3
    <3>4. s[k + i] = s[j + 1]
      BY <3>1
    <3>5. (p \o q)[j] = s[j + 1]
      BY <3>2, <3>3, <3>4
    <3> QED
      BY <3>1, <3>5
  <2>4. j < i \/ j >= i
    BY <1>1
  <2> QED
    BY <2>2, <2>3, <2>4
<1> QED
  BY <1>4, <1>5, <1>6, <1>7

\* Removing an element of a list that has it at most once leaves none behind.
LEMMA RemoveOnly ==
    ASSUME NEW S, NEW s \in Seq(S), NEW e, IsInjective(s)
    PROVE  /\ RemoveFirst(s, e) \in Seq(S)
           /\ ToSet(RemoveFirst(s, e)) = ToSet(s) \ {e}
           /\ IsInjective(RemoveFirst(s, e))
<1>1. CASE ~\E i \in 1..Len(s) : s[i] = e
  <2>1. RemoveFirst(s, e) = s
    BY <1>1 DEF RemoveFirst
  <2>2. e \notin ToSet(s)
    BY <1>1 DEF ToSet
  <2> QED
    BY <2>1, <2>2
<1>2. ASSUME NEW i \in 1..Len(s), s[i] = e
      PROVE  /\ RemoveFirst(s, e) \in Seq(S)
             /\ ToSet(RemoveFirst(s, e)) = ToSet(s) \ {e}
             /\ IsInjective(RemoveFirst(s, e))
  <2> DEFINE r == RemoveAt(s, i)
  <2>1. \A j \in 1..Len(s) : s[j] = e => j = i
    BY <1>2 DEF IsInjective
  <2>2. {j \in 1..Len(s) : s[j] = e} = {i}
    BY <1>2, <2>1
  <2>3. Min({i}) = i
    BY DEF Min
  <2>4. SelectInSeq(s, LAMBDA v : v = e) = i
    BY <2>2, <2>3 DEF SelectInSeq
  <2>5. RemoveFirst(s, e) = r
    BY <1>2, <2>4 DEF RemoveFirst
  <2>6. /\ r \in Seq(S) /\ Len(r) = Len(s) - 1
        /\ \A j \in 1..Len(s) - 1 : r[j] = IF j < i THEN s[j] ELSE s[j + 1]
    BY RemoveAtProperties
  <2>7. DOMAIN r = 1..Len(s) - 1 /\ DOMAIN s = 1..Len(s) /\ Len(s) \in Nat
    BY <2>6
  <2> HIDE DEF r
  <2>8. IsInjective(r)
    <3> SUFFICES ASSUME NEW a \in 1..Len(s) - 1, NEW b \in 1..Len(s) - 1, r[a] = r[b]
                 PROVE  a = b
      BY <2>7 DEF IsInjective
    <3> DEFINE at_(j) == IF j < i THEN j ELSE j + 1
    <3>1. at_(a) \in 1..Len(s) /\ at_(b) \in 1..Len(s)
      BY <2>7
    <3>2. s[at_(a)] = s[at_(b)]
      BY <2>6
    <3>3. at_(a) = at_(b)
      BY <3>1, <3>2, <2>7 DEF IsInjective
    <3> QED
      BY <3>3, <2>7
  <2>9. \A x \in ToSet(r) : x \in ToSet(s) \ {e}
    BY SMTT(30), <2>1, <2>6, <2>7 DEF ToSet
  <2>10. ASSUME NEW x \in ToSet(s) \ {e}
         PROVE  x \in ToSet(r)
    <3>1. PICK j \in 1..Len(s) : s[j] = x
      BY <2>7 DEF ToSet
    <3>2. CASE j < i
      BY <3>1, <3>2, <2>6, <2>7 DEF ToSet
    <3>3. CASE j > i
      <4>1. j - 1 \in 1..Len(s) - 1 /\ r[j - 1] = x
        BY <3>1, <3>3, <2>6, <2>7
      <4> QED
        BY <4>1, <2>7 DEF ToSet
    <3> QED
      BY <3>1, <3>2, <3>3, <1>2
  <2> QED
    BY <2>5, <2>6, <2>8, <2>9, <2>10
<1> QED
  BY <1>1, <1>2
-----------------------------------------------------------------------------
\* What the thread's next sends do to its own state.
LEMMA SendingSound ==
    ASSUME MemberTypes, NEW c \in Clients, NEW sends, NEW then \in {"sending", "leaving"},
           Sending(c, sends, then)
    PROVE  /\ out' = [d \in Clients |-> out'[d]]
           /\ step' \in [Clients -> {"none", "read", "sending", "leaving", "closed"}]
           /\ \A d \in Clients \ {c} : out'[d] = out[d] /\ step'[d] = step[d]
           /\ out'[c] # <<>> <=> step'[c] \in {"sending", "leaving"}
           /\ then = "sending" => step'[c] \in {"read", "sending"}
           /\ then = "leaving" => step'[c] \in {"leaving", "closed"}
  BY DEF MemberTypes, Sending

\* A step that touches no list keeps them free of ghosts if its clients stay, or
\* were, outside.
LEMMA ListsKept ==
    ASSUME IInv, MemberTypes', UNCHANGED members,
           \A c \in Clients :
              /\ at'[c] = at[c] /\ chan'[c] = chan[c]
              /\ step[c] \in {"read", "sending"} => step'[c] \in {"read", "sending"}
              \/ step[c] \notin {"read", "sending"}
    PROVE  NoGhosts'
<1> SUFFICES ASSUME NEW i \in Instances, NEW ch \in Channels
             PROVE  /\ \A c \in Members(i, ch) :
                          at'[c] = i /\ chan'[c] = ch /\ step'[c] \in {"read", "sending"}
                    /\ IsInjective(members[i][ch])
  BY DEF NoGhosts, Members
<1>1. members[i][ch] \in Seq(Clients)
  BY DEF IInv, MemberTypes
<1>2. Members(i, ch) \subseteq Clients
  BY <1>1 DEF Members, ToSet
<1> QED
  BY <1>2 DEF IInv, NoGhosts

\* The initial lists are empty.
LEMMA InitInv == Init => IInv
<1> SUFFICES ASSUME Init PROVE IInv
  OBVIOUS
<1>1. MemberTypes /\ ThreadsSound
  BY DEF Init, MemberTypes, ThreadsSound, Instances
<1>2. \A i \in Instances, ch \in Channels : members[i][ch] = <<>>
  BY DEF Init
<1>3. NoGhosts
  BY <1>2 DEF NoGhosts, Members, ToSet, IsInjective
<1> QED
  BY <1>1, <1>3 DEF IInv

\* Each step keeps the invariant; only a join and a departure touch a list.
LEMMA StepInv == IInv /\ [Next]_vars => IInv'
<1> SUFFICES ASSUME IInv, [Next]_vars
             PROVE  IInv'
  OBVIOUS
<1> USE DEF IInv
<1>1. CASE StartLocalServer
  <2>1. MemberTypes' /\ ThreadsSound'
    BY <1>1 DEF StartLocalServer, MemberTypes, ThreadsSound
  <2> QED
    BY <2>1, <1>1, ListsKept DEF StartLocalServer
<1>2. CASE StopLocalServer
  <2>1. MemberTypes' /\ ThreadsSound'
    BY <1>2 DEF StopLocalServer, MemberTypes, ThreadsSound
  <2> QED
    BY <2>1, <1>2, ListsKept DEF StopLocalServer
<1>3. ASSUME NEW i \in Instances, Bind(i) \/ ServeEnds(i)
      PROVE  IInv'
  <2>1. MemberTypes' /\ ThreadsSound'
    <3>1. \E p \in {"listening", "ended"} : serve' = [serve EXCEPT ![i] = p]
      BY <1>3 DEF Bind, ServeEnds
    <3>2. UNCHANGED <<at, chan, step, members, out>>
      BY <1>3 DEF Bind, ServeEnds
    <3>3. MemberTypes'
      BY <3>1, <3>2 DEF MemberTypes
    <3>4. ThreadsSound'
      BY <3>2 DEF ThreadsSound
    <3> QED
      BY <3>3, <3>4
  <2> QED
    BY <2>1, <1>3, ListsKept DEF Bind, ServeEnds
<1>4. ASSUME NEW i \in Instances, NEW c \in Clients, Accept(i, c)
      PROVE  IInv'
  <2>1. MemberTypes' /\ ThreadsSound'
    <3>1. /\ at' = [at EXCEPT ![c] = i]
          /\ step' = [step EXCEPT ![c] = "read"]
          /\ UNCHANGED <<serve, chan, members, out>> /\ step[c] = "none"
      BY <1>4 DEF Accept, serverVars
    <3>2. i \in 0..MaxStarts
      BY RelayAssumption DEF Instances
    <3>3. MemberTypes'
      BY <3>1, <3>2 DEF MemberTypes
    <3>4. ThreadsSound'
      BY <3>1 DEF ThreadsSound, MemberTypes
    <3> QED
      BY <3>3, <3>4
  <2>2. \A j \in Instances, ch \in Channels : Members(j, ch) \subseteq Clients
    BY DEF MemberTypes, Members, ToSet
  <2>3. \A j \in Instances, ch \in Channels : c \notin Members(j, ch)
    BY <1>4 DEF Accept, NoGhosts
  <2>4. NoGhosts'
    BY <1>4, <2>2, <2>3 DEF Accept, NoGhosts, Members, MemberTypes
  <2> QED
    BY <2>1, <2>4
<1>5. ASSUME NEW c \in Clients, NEW ch \in Channels, Join(c, ch)
      PROVE  IInv'
  <2> DEFINE i == at[c]
             list == members[i][ch]
  <2>1. i \in Instances /\ list \in Seq(Clients) /\ step[c] = "read" /\ chan[c] = NoChannel
    BY <1>5 DEF Join, ThreadsSound, MemberTypes
  <2>2. /\ members' = [members EXCEPT ![i][ch] = Append(@, c)]
        /\ chan' = [chan EXCEPT ![c] = ch]
        /\ UNCHANGED <<at, serve>>
        /\ \E sends : Sending(c, sends, "sending")
    BY <1>5 DEF Join, serverVars
  <2>3. PICK sends : Sending(c, sends, "sending")
    BY <2>2
  <2>4. /\ out' = [d \in Clients |-> out'[d]]
        /\ step' \in [Clients -> {"none", "read", "sending", "leaving", "closed"}]
        /\ \A d \in Clients \ {c} : out'[d] = out[d] /\ step'[d] = step[d]
        /\ out'[c] # <<>> <=> step'[c] \in {"sending", "leaving"}
        /\ step'[c] \in {"read", "sending"}
    BY <2>3, SendingSound
  <2>5. c \notin ToSet(list) /\ IsInjective(list)
    BY <2>1, RelayAssumption DEF NoGhosts, Members
  <2>6. /\ Append(list, c) \in Seq(Clients)
        /\ ToSet(Append(list, c)) = ToSet(list) \cup {c}
        /\ IsInjective(Append(list, c))
    BY <2>1, <2>5, AppendFresh
  <2>7. MemberTypes'
    BY <2>1, <2>2, <2>4, <2>6 DEF MemberTypes
  <2>8. ThreadsSound'
    BY <2>1, <2>2, <2>4 DEF ThreadsSound
  <2>9. ASSUME NEW j \in Instances, NEW d \in Channels
        PROVE  /\ \A e \in Members(j, d)' :
                     at'[e] = j /\ chan'[e] = d /\ step'[e] \in {"read", "sending"}
               /\ IsInjective(members'[j][d])
    <3>1. CASE j = i /\ d = ch
      <4>1. members'[j][d] = Append(list, c)
        BY <3>1, <2>1, <2>2 DEF MemberTypes
      <4>2. \A e \in ToSet(list) : e \in Clients \ {c} /\ at[e] = i /\ chan[e] = ch
                                    /\ step[e] \in {"read", "sending"}
        BY <2>1, <2>5 DEF NoGhosts, Members, ToSet
      <4>3. chan'[c] = ch
        BY <2>2 DEF MemberTypes
      <4>4. \A e \in ToSet(list) : chan'[e] = ch
        BY <4>2, <2>2 DEF MemberTypes
      <4> QED
        BY <3>1, <4>1, <4>2, <4>3, <4>4, <2>2, <2>4, <2>6 DEF Members
    <3>2. CASE ~(j = i /\ d = ch)
      <4>1. members'[j][d] = members[j][d]
        BY <3>2, <2>1, <2>2 DEF MemberTypes
      <4>2. \A e \in Members(j, d) : e \in Clients \ {c}
        <5>1. members[j][d] \in Seq(Clients)
          BY DEF MemberTypes
        <5>2. \A e \in ToSet(members[j][d]) : e \in Clients
          BY <5>1 DEF ToSet
        <5>3. chan[c] # d
          BY <2>1, RelayAssumption
        <5> QED
          BY <5>2, <5>3 DEF NoGhosts, Members
      <4>3. \A e \in Members(j, d) : chan'[e] = chan[e]
        BY <4>2, <2>2 DEF MemberTypes
      <4> QED
        BY <4>1, <4>2, <4>3, <2>2, <2>4 DEF NoGhosts, Members
    <3> QED
      BY <3>1, <3>2
  <2>10. NoGhosts'
    BY <2>9 DEF NoGhosts
  <2> QED
    BY <2>7, <2>8, <2>10
<1>6. ASSUME NEW c \in Clients, Relay(c)
      PROVE  IInv'
  <2>1. PICK sends : Sending(c, sends, "sending")
    BY <1>6 DEF Relay
  <2>2. step[c] = "read" /\ UNCHANGED <<serve, at, chan, members>>
    BY <1>6 DEF Relay, serverVars
  <2>3. MemberTypes' /\ ThreadsSound'
    BY <2>1, <2>2, SendingSound DEF MemberTypes, ThreadsSound
  <2> QED
    BY <2>1, <2>2, <2>3, SendingSound, ListsKept
<1>7. ASSUME NEW c \in Clients, Hangup(c)
      PROVE  IInv'
  <2>1. MemberTypes' /\ ThreadsSound'
    BY <1>7 DEF Hangup, serverVars, MemberTypes, ThreadsSound
  <2> QED
    BY <2>1, <1>7, ListsKept DEF Hangup
<1>8. ASSUME NEW c \in Clients, OnClientGone(c)
      PROVE  IInv'
  <2> DEFINE i == at[c]
             ch == chan[c]
             list == members[i][ch]
  <2>1. /\ i \in Instances /\ step[c] = "read"
        /\ UNCHANGED <<serve, at, chan>>
        /\ \E sends : Sending(c, sends, "leaving")
    BY <1>8 DEF OnClientGone, ThreadsSound, serverVars
  <2>2. PICK sends : Sending(c, sends, "leaving")
    BY <2>1
  <2>3. /\ out' = [d \in Clients |-> out'[d]]
        /\ step' \in [Clients -> {"none", "read", "sending", "leaving", "closed"}]
        /\ \A d \in Clients \ {c} : out'[d] = out[d] /\ step'[d] = step[d]
        /\ out'[c] # <<>> <=> step'[c] \in {"sending", "leaving"}
        /\ step'[c] \in {"leaving", "closed"}
    BY <2>2, SendingSound
  <2>4. ThreadsSound'
    BY <2>1, <2>3 DEF ThreadsSound
  <2>5. \A j \in Instances, d \in Channels :
           /\ members'[j][d] \in Seq(Clients)
           /\ ToSet(members'[j][d]) \subseteq ToSet(members[j][d]) \ {c}
           /\ IsInjective(members'[j][d])
    <3> SUFFICES ASSUME NEW j \in Instances, NEW d \in Channels
                 PROVE  /\ members'[j][d] \in Seq(Clients)
                        /\ ToSet(members'[j][d]) \subseteq ToSet(members[j][d]) \ {c}
                        /\ IsInjective(members'[j][d])
      OBVIOUS
    <3>1. members[j][d] \in Seq(Clients) /\ IsInjective(members[j][d])
      BY DEF MemberTypes, NoGhosts
    <3>2. CASE ch # NoChannel /\ j = i /\ d = ch
      <4>1. members'[j][d] = RemoveFirst(list, c)
        BY <3>2, <1>8 DEF OnClientGone, MemberTypes
      <4> QED
        BY <4>1, <3>1, <3>2, RemoveOnly
    <3>3. CASE ~(ch # NoChannel /\ j = i /\ d = ch)
      <4>1. members'[j][d] = members[j][d]
        BY <3>3, <1>8, <2>1 DEF OnClientGone, MemberTypes
      <4>2. c \notin ToSet(members[j][d])
        BY <3>3, RelayAssumption DEF NoGhosts, Members
      <4> QED
        BY <4>1, <4>2, <3>1
    <3> QED
      BY <3>2, <3>3
  <2>6. MemberTypes'
    <3>1. members' \in [Instances -> [Channels -> Seq(Clients)]]
      <4>1. ch # NoChannel => ch \in Channels
        BY DEF MemberTypes
      <4>2. CASE ch = NoChannel
        BY <4>2, <1>8 DEF OnClientGone, MemberTypes
      <4>3. CASE ch # NoChannel
        <5>1. RemoveFirst(list, c) \in Seq(Clients)
          BY <4>1, <4>3, <2>1, RemoveOnly DEF MemberTypes, NoGhosts
        <5> QED
          BY <5>1, <4>1, <4>3, <2>1, <1>8 DEF OnClientGone, MemberTypes
      <4> QED
        BY <4>2, <4>3
    <3> QED
      BY <3>1, <2>1, <2>3 DEF MemberTypes
  <2>7. \A j \in Instances, d \in Channels : ToSet(members[j][d]) \subseteq Clients
    BY DEF MemberTypes, ToSet
  <2>8. NoGhosts'
    <3> SUFFICES ASSUME NEW j \in Instances, NEW d \in Channels
                 PROVE  /\ \A e \in Members(j, d)' :
                              at'[e] = j /\ chan'[e] = d /\ step'[e] \in {"read", "sending"}
                        /\ IsInjective(members'[j][d])
      BY DEF NoGhosts
    <3>1. \A e \in Members(j, d)' : e \in Members(j, d) /\ e \in Clients \ {c}
      BY <2>5, <2>7 DEF Members
    <3>2. \A e \in Members(j, d) :
             at[e] = j /\ chan[e] = d /\ step[e] \in {"read", "sending"}
      BY DEF NoGhosts
    <3> QED
      BY <3>1, <3>2, <2>1, <2>3, <2>5
  <2> QED
    BY <2>4, <2>6, <2>8
<1>9. ASSUME NEW c \in Clients, SendNext(c)
      PROVE  IInv'
  <2>1. step[c] \in {"sending", "leaving"} /\ UNCHANGED <<serve, at, chan, members>>
    BY <1>9 DEF SendNext, ThreadsSound, serverVars
  <2>2. Sending(c, Tail(out[c]), step[c])
    BY <1>9 DEF SendNext
  <2>3. /\ out' = [d \in Clients |-> out'[d]]
        /\ step' \in [Clients -> {"none", "read", "sending", "leaving", "closed"}]
        /\ \A d \in Clients \ {c} : out'[d] = out[d] /\ step'[d] = step[d]
        /\ out'[c] # <<>> <=> step'[c] \in {"sending", "leaving"}
        /\ step[c] = "sending" => step'[c] \in {"read", "sending"}
        /\ step'[c] # "none"
    BY <2>1, <2>2, SendingSound
  <2>4. MemberTypes' /\ ThreadsSound'
    BY <2>1, <2>3 DEF MemberTypes, ThreadsSound
  <2> QED
    BY <2>1, <2>3, <2>4, ListsKept
<1>10. CASE UNCHANGED vars
  <2>1. MemberTypes' /\ ThreadsSound'
    BY <1>10 DEF vars, MemberTypes, ThreadsSound
  <2> QED
    BY <2>1, <1>10, ListsKept DEF vars
<1> QED
  BY <1>1, <1>2, <1>3, <1>4, <1>5, <1>6, <1>7, <1>8, <1>9, <1>10 DEF Next

\* However joins, departures and restarts interleave, and with any number of
\* clients, channels and instances, a list holds who joined it and has not left
\* it, once.
THEOREM ListsExact == Spec => []NoGhosts
<1>1. IInv => NoGhosts
  BY DEF IInv
<1> QED
  BY <1>1, InitInv, StepInv, PTL DEF Spec
-----------------------------------------------------------------------------
(* What reaches whom.                                                          *)

Notices == [to : Clients, kind : {"channel_joined", "client_joined", "client_left", "frame"},
            ids : SUBSET Clients, n : Nat]

RelayTypes ==
    /\ out \in [Clients -> Seq(Notices)]
    /\ roster \in [Clients -> SUBSET Clients]
    /\ sent \in [Clients -> Nat]
    /\ got \in [Clients -> [Clients -> Nat]]
    /\ alive = [c \in Clients |-> alive[c]]

\* A thread has a departure to tell only of its own client, which has left its
\* list by then; and it has at most one frame for each peer, its latest, and only
\* for peers that have joined.
NoticesSound ==
    \A c \in Clients : \A k \in 1..Len(out[c]) :
        /\ out[c][k].kind = "client_left" => step[c] = "leaving" /\ out[c][k].ids = {c}
        /\ out[c][k].kind = "frame" =>
              /\ out[c][k].n = sent[c] /\ chan[out[c][k].to] # NoChannel
              /\ \A j \in 1..Len(out[c]) :
                    out[c][j].kind = "frame" /\ out[c][j].to = out[c][k].to => j = k

\* Nobody has heard of a client that did not join.
Unheard ==
    \A c \in Clients : chan[c] = NoChannel =>
        sent[c] = 0 /\ \A p \in Clients : got[p][c] = 0

RInv == RelayTypes /\ NoticesSound /\ Unheard /\ RosterComplete /\ RelayExact

\* Members are clients whose threads run.
LEMMA MembersRun ==
    ASSUME IInv, NEW i \in Instances, NEW ch \in Channels, NEW c \in Members(i, ch)
    PROVE  c \in Clients /\ at[c] = i /\ chan[c] = ch /\ step[c] \in {"read", "sending"}
<1>1. members[i][ch] \in Seq(Clients)
  BY DEF IInv, MemberTypes
<1>2. c \in Clients
  BY <1>1 DEF Members, ToSet
<1> QED
  BY <1>2 DEF IInv, NoGhosts

\* Where two that are together are.
LEMMA TogetherWhere ==
    ASSUME IInv, NEW p \in Clients, NEW q \in Clients, Together(p, q)
    PROVE  /\ p # q /\ at[p] \in Instances /\ at[q] = at[p]
           /\ chan[p] \in Channels /\ chan[q] = chan[p]
           /\ p \in Members(at[p], chan[p]) /\ q \in Members(at[p], chan[p])
<1>1. at[p] \in Instances /\ chan[p] \in Channels
  BY RelayAssumption DEF IInv, MemberTypes, Together, RelayAssumption, Instances
<1> QED
  BY <1>1, MembersRun DEF Together

\* A step that changes neither lists nor what is sent keeps what is known of them,
\* if those who come or go are in no list.
LEMMA RelaysKept ==
    ASSUME IInv, RInv, UNCHANGED <<chan, members, out, sent>>, RelayTypes',
           \A c \in Clients : step[c] = "leaving" => step'[c] = "leaving",
           \A p \in Clients, q \in Clients : Together(p, q)' /\ alive'[p] =>
              /\ Together(p, q) /\ alive[p]
              /\ roster'[p] = roster[p] /\ got'[p] = got[p],
           \A p \in Clients : got'[p] = got[p] \/ \A c \in Clients : got'[p][c] = 0
    PROVE  RInv'
<1> USE DEF RInv
<1>1. NoticesSound'
  BY DEF NoticesSound
<1>2. Unheard'
  BY DEF Unheard
<1>3. RosterComplete'
  <2> SUFFICES ASSUME NEW p \in Clients, NEW q \in Clients, Together(p, q)', alive'[p]
               PROVE  q \in roster'[p] \/ Coming(q, p)'
    BY DEF RosterComplete
  <2> QED
    BY DEF RosterComplete, Coming
<1>4. RelayExact'
  <2> SUFFICES ASSUME NEW p \in Clients, NEW q \in Clients, Together(p, q)', alive'[p]
               PROVE  \/ FramesTo(q, p)' = {} /\ got'[p][q] = sent'[q]
                      \/ \E k \in FramesTo(q, p)' :
                            /\ FramesTo(q, p)' = {k}
                            /\ out'[q][k].n = sent'[q] /\ got'[p][q] + 1 = sent'[q]
    BY DEF RelayExact
  <2>1. FramesTo(q, p)' = FramesTo(q, p)
    BY DEF FramesTo
  <2> QED
    BY <2>1 DEF RelayExact
<1> QED
  BY <1>1, <1>2, <1>3, <1>4

LEMMA AcceptRelays ==
    ASSUME IInv, RInv, NEW i \in Instances, NEW c \in Clients, Accept(i, c)
    PROVE  RInv'
<1>1. /\ step[c] = "none" /\ step' = [step EXCEPT ![c] = "read"]
      /\ at' = [at EXCEPT ![c] = i] /\ alive' = [alive EXCEPT ![c] = TRUE]
      /\ UNCHANGED <<chan, members, out, sent, roster, got>>
  BY DEF Accept, peerVars
<1>2. RelayTypes'
  BY <1>1 DEF RInv, RelayTypes
<1>3. ASSUME NEW p \in Clients, NEW q \in Clients, Together(p, q)', alive'[p]
      PROVE  Together(p, q) /\ alive[p]
  <2>1. IInv'
    BY StepInv DEF Next
  <2>2. at'[p] \in Instances /\ chan[p] \in Channels
    BY <1>1, <1>3, <2>1, RelayAssumption
       DEF Together, IInv, MemberTypes, Instances, RelayAssumption
  <2>3. p \in Members(at'[p], chan[p]) /\ q \in Members(at'[p], chan[p])
    BY <1>1, <1>3 DEF Together, Members
  <2>4. p # c /\ q # c
    BY <1>1, <2>2, <2>3, MembersRun
  <2> QED
    BY <1>1, <1>3, <2>4 DEF Together, Members, IInv, MemberTypes, RInv, RelayTypes
<1>4. \A d \in Clients : step[d] = "leaving" => step'[d] = "leaving"
  BY <1>1 DEF IInv, MemberTypes
<1> QED
  BY <1>1, <1>2, <1>3, <1>4, RelaysKept

LEMMA HangupRelays ==
    ASSUME IInv, RInv, NEW c \in Clients, Hangup(c)
    PROVE  RInv'
<1>1. /\ alive' = [alive EXCEPT ![c] = FALSE]
      /\ roster' = [roster EXCEPT ![c] = {}]
      /\ got' = [got EXCEPT ![c] = [d \in Clients |-> 0]]
      /\ UNCHANGED <<chan, at, step, members, out, sent>>
  BY DEF Hangup
<1>2. RelayTypes'
  BY <1>1 DEF RInv, RelayTypes
<1>3. ASSUME NEW p \in Clients, NEW q \in Clients, Together(p, q)', alive'[p]
      PROVE  /\ Together(p, q) /\ alive[p]
             /\ roster'[p] = roster[p] /\ got'[p] = got[p]
  BY <1>1, <1>3 DEF Together, Members, RInv, RelayTypes
<1>4. ASSUME NEW p \in Clients
      PROVE  got'[p] = got[p] \/ \A d \in Clients : got'[p][d] = 0
  BY <1>1 DEF RInv, RelayTypes
<1> QED
  BY <1>1, <1>2, <1>3, <1>4, RelaysKept

\* What a thread has to send afterwards.
LEMMA SendingNext ==
    ASSUME IInv, RelayTypes, NEW c \in Clients, NEW sends \in Seq(Notices),
           NEW then \in {"sending", "leaving"}, Sending(c, sends, then)
    PROVE  /\ out' \in [Clients -> Seq(Notices)] /\ out'[c] = sends
           /\ sends # <<>> => step'[c] = then
           /\ \A d \in Clients \ {c} : out'[d] = out[d] /\ step'[d] = step[d]
  BY DEF Sending, IInv, MemberTypes, RelayTypes

\* A function on an initial segment of the numbers is a sequence.
LEMMA FunctionIsSeq ==
    ASSUME NEW S, NEW n \in Nat, NEW f \in [1..n -> S]
    PROVE  f \in Seq(S) /\ Len(f) = n
  OBVIOUS

\* The sends of a join: the roster for the one who joined, the news for the rest.
LEMMA JoinSends ==
    ASSUME NEW c \in Clients, NEW list \in Seq(Clients), NEW sends,
           sends = <<Notice(c, "channel_joined", ToSet(list), 0)>> \o
                   [k \in 1..Len(list) |-> Notice(list[k], "client_joined", {c}, 0)]
    PROVE  /\ sends \in Seq(Notices) /\ Len(sends) = Len(list) + 1 /\ Len(list) \in Nat
           /\ sends[1] = Notice(c, "channel_joined", ToSet(list), 0)
           /\ \A k \in 1..Len(list) :
                 sends[k + 1] = Notice(list[k], "client_joined", {c}, 0)
           /\ \A k \in 1..Len(sends) : sends[k].kind \in {"channel_joined", "client_joined"}
<1> DEFINE first == <<Notice(c, "channel_joined", ToSet(list), 0)>>
           rest == [k \in 1..Len(list) |-> Notice(list[k], "client_joined", {c}, 0)]
<1>1. first \in Seq(Notices) /\ Len(first) = 1
  BY DEF Notice, Notices, ToSet
<1>2. rest \in [1..Len(list) -> Notices] /\ Len(list) \in Nat
  BY DEF Notice, Notices
<1>3. \A k \in 1..Len(list) : rest[k] = Notice(list[k], "client_joined", {c}, 0)
  OBVIOUS
<1>4. first[1] = Notice(c, "channel_joined", ToSet(list), 0)
  OBVIOUS
<1>5. sends = first \o rest
  OBVIOUS
<1> HIDE DEF first, rest
<1>8. rest \in Seq(Notices) /\ Len(rest) = Len(list)
  BY <1>2, FunctionIsSeq
<1>6. /\ sends \in Seq(Notices) /\ Len(sends) = Len(list) + 1
      /\ sends[1] = first[1] /\ \A k \in 1..Len(list) : sends[k + 1] = rest[k]
  <2>1. /\ sends \in Seq(Notices) /\ Len(sends) = Len(list) + 1
        /\ \A k \in 1..Len(list) + 1 : sends[k] = IF k <= 1 THEN first[k] ELSE rest[k - 1]
    <3>1. /\ first \o rest \in Seq(Notices) /\ Len(first \o rest) = Len(first) + Len(rest)
          /\ \A k \in 1..Len(first) + Len(rest) : (first \o rest)[k] =
                IF k <= Len(first) THEN first[k] ELSE rest[k - Len(first)]
      BY <1>1, <1>8, ConcatProperties
    <3>2. Len(first) = 1 /\ Len(rest) = Len(list) /\ Len(list) \in Nat
      BY <1>1, <1>2, <1>8
    <3>3. 1 + Len(list) = Len(list) + 1
      BY <3>2
    <3> QED
      BY <1>5, <3>1, <3>2, <3>3, Zenon
  <2>2. ASSUME NEW k \in 1..Len(list)
        PROVE  sends[k + 1] = rest[k]
    <3>1. k + 1 \in 1..Len(list) + 1 /\ (k + 1) - 1 = k /\ ~(k + 1 <= 1)
      BY <1>2
    <3> QED
      BY <2>1, <3>1
  <2>3. sends[1] = first[1]
    BY <1>2, <2>1
  <2> QED
    BY <2>1, <2>2, <2>3
<1>7. ASSUME NEW k \in 1..Len(sends)
      PROVE  sends[k].kind \in {"channel_joined", "client_joined"}
  <2>1. CASE k = 1
    BY <1>4, <1>6, <2>1 DEF Notice
  <2>2. CASE k # 1
    <3>1. k - 1 \in 1..Len(list) /\ sends[k] = rest[k - 1]
      <4>1. k - 1 \in 1..Len(list) /\ (k - 1) + 1 = k
        BY <1>2, <1>6, <2>2
      <4> QED
        BY <4>1, <1>6
    <3> QED
      BY <3>1, <1>3 DEF Notice
  <2> QED
    BY <2>1, <2>2
<1> QED
  BY <1>2, <1>3, <1>4, <1>6, <1>7

LEMMA JoinRelays ==
    ASSUME IInv, RInv, NEW c \in Clients, NEW ch \in Channels, Join(c, ch)
    PROVE  RInv'
<1> USE DEF RInv
<1> DEFINE list == members[at[c]][ch]
           sends == <<Notice(c, "channel_joined", ToSet(list), 0)>> \o
                    [k \in 1..Len(list) |-> Notice(list[k], "client_joined", {c}, 0)]
<1>1. /\ step[c] = "read" /\ chan[c] = NoChannel
      /\ chan' = [chan EXCEPT ![c] = ch]
      /\ members' = [members EXCEPT ![at[c]][ch] = Append(@, c)]
      /\ got' = [got EXCEPT ![c] = sent]
      /\ Sending(c, sends, "sending")
      /\ UNCHANGED <<at, alive, roster, sent>>
  BY DEF Join
<1>2. at[c] \in Instances /\ list \in Seq(Clients) /\ ToSet(list) \subseteq Clients
  BY <1>1 DEF IInv, ThreadsSound, MemberTypes, ToSet
<1> HIDE DEF sends
<1>3. /\ sends \in Seq(Notices) /\ Len(sends) = Len(list) + 1 /\ Len(list) \in Nat
      /\ sends[1] = Notice(c, "channel_joined", ToSet(list), 0)
      /\ \A k \in 1..Len(list) : sends[k + 1] = Notice(list[k], "client_joined", {c}, 0)
      /\ \A k \in 1..Len(sends) : sends[k].kind \in {"channel_joined", "client_joined"}
  BY <1>2, JoinSends DEF sends
<1>4. /\ out' \in [Clients -> Seq(Notices)] /\ out'[c] = sends
      /\ \A d \in Clients \ {c} : out'[d] = out[d] /\ step'[d] = step[d]
  BY <1>1, <1>3, SendingNext
<1>5. /\ chan'[c] = ch /\ \A d \in Clients \ {c} : chan'[d] = chan[d]
      /\ got'[c] = sent /\ \A d \in Clients \ {c} : got'[d] = got[d]
  BY <1>1 DEF IInv, MemberTypes, RelayTypes
<1>6. RelayTypes'
  BY <1>1, <1>4 DEF RelayTypes
<1>7. \A s \in Clients : \A k \in 1..Len(out'[s]) :
         out'[s][k].kind \in {"client_left", "frame"} => s # c
  BY <1>3, <1>4
<1>8. NoticesSound'
  <2> SUFFICES ASSUME NEW s \in Clients, NEW k \in 1..Len(out'[s])
               PROVE  /\ out'[s][k].kind = "client_left" => step'[s] = "leaving" /\ out'[s][k].ids = {s}
                      /\ out'[s][k].kind = "frame" =>
                            /\ out'[s][k].n = sent'[s] /\ chan'[out'[s][k].to] # NoChannel
                            /\ \A j \in 1..Len(out'[s]) :
                                  out'[s][j].kind = "frame" /\ out'[s][j].to = out'[s][k].to
                                     => j = k
    BY DEF NoticesSound
  <2>1. CASE s = c
    BY <1>7, <2>1
  <2>2. CASE s # c
    <3>1. out'[s] = out[s] /\ step'[s] = step[s] /\ out[s][k] \in Notices
      BY <1>4, <2>2 DEF RelayTypes
    <3>2. chan[out[s][k].to] # NoChannel => chan'[out[s][k].to] # NoChannel
      BY <1>5, <3>1, RelayAssumption DEF Notices, RelayAssumption
    <3> QED
      BY <1>1, <3>1, <3>2 DEF NoticesSound
  <2> QED
    BY <2>1, <2>2
<1>9. Unheard'
  BY <1>1, <1>5, RelayAssumption DEF Unheard, RelayAssumption
<1>10. \A i \in Instances, d \in Channels :
           ToSet(members'[i][d]) = IF i = at[c] /\ d = ch THEN ToSet(list) \cup {c} ELSE Members(i, d)
  <2> SUFFICES ASSUME NEW i \in Instances, NEW d \in Channels
               PROVE  ToSet(members'[i][d]) = IF i = at[c] /\ d = ch THEN ToSet(list) \cup {c}
                                       ELSE Members(i, d)
    OBVIOUS
  <2>1. CASE i = at[c] /\ d = ch
    <3>1. members'[i][d] = Append(list, c)
      BY <1>1, <2>1 DEF IInv, MemberTypes
    <3>2. c \notin ToSet(list) /\ IsInjective(list)
      BY <1>1, <1>2, MembersRun, RelayAssumption DEF Members, IInv, NoGhosts, RelayAssumption
    <3> QED
      BY <1>2, <2>1, <3>1, <3>2, AppendFresh DEF Members
  <2>2. CASE ~(i = at[c] /\ d = ch)
    BY <1>1, <1>2, <2>2 DEF Members, IInv, MemberTypes
  <2> QED
    BY <2>1, <2>2
<1>11. ASSUME NEW p \in Clients, NEW q \in Clients, Together(p, q)'
       PROVE  \/ p # c /\ q # c /\ Together(p, q)
              \/ p = c /\ q # c /\ q \in ToSet(list)
              \/ q = c /\ p # c /\ p \in ToSet(list)
  <2>1. chan' \in [Clients -> Channels \cup {NoChannel}] /\ at \in [Clients -> 0..MaxStarts]
    BY <1>1 DEF IInv, MemberTypes
  <2>2. /\ p # q /\ at[p] = at[q] /\ at[p] \in Instances /\ chan'[p] \in Channels
        /\ {p, q} \subseteq ToSet(members'[at[p]][chan'[p]])
    BY <1>1, <1>11, <2>1, RelayAssumption DEF Together, Members, Instances, RelayAssumption
  <2>3. \A d \in Clients, i \in Instances, k \in Channels :
           d \in Members(i, k) => d \in Clients \ {c} /\ at[d] = i /\ chan[d] = k
    BY <1>1, MembersRun, RelayAssumption DEF RelayAssumption
  <2>4. ToSet(list) = Members(at[c], ch)
    BY DEF Members
  <2>5. CASE p # c /\ q # c
    <3>1. {p, q} \subseteq Members(at[p], chan'[p])
      BY <1>2, <1>10, <2>2, <2>4, <2>5
    <3>2. chan'[p] = chan[p]
      BY <1>5, <2>5
    <3> QED
      BY <1>1, <2>2, <2>5, <3>1, <3>2, RelayAssumption DEF Together, RelayAssumption, Instances
  <2>6. CASE p = c
    BY <1>5, <1>10, <2>2, <2>6
  <2>7. CASE q = c
    <3>1. at[p] = at[c] /\ c \in ToSet(members'[at[c]][chan'[p]])
      BY <2>2, <2>7
    <3>2. chan'[p] = ch
      BY <1>10, <2>2, <2>3, <3>1, <1>2
    <3> QED
      BY <1>10, <2>2, <2>7, <3>1, <3>2
  <2> QED
    BY <2>5, <2>6, <2>7
<1>12. RosterComplete'
  <2> SUFFICES ASSUME NEW p \in Clients, NEW q \in Clients, Together(p, q)', alive'[p]
               PROVE  q \in roster'[p] \/ Coming(q, p)'
    BY DEF RosterComplete
  <2>1. CASE p # c /\ q # c /\ Together(p, q)
    <3>1. out'[p] = out[p] /\ out'[q] = out[q]
      BY <1>4, <2>1
    <3> QED
      BY SMTT(30), <1>1, <2>1, <3>1 DEF RosterComplete, Coming
  <2>2. CASE p = c /\ q # c /\ q \in ToSet(list)
    <3>1. /\ 1 \in 1..Len(out'[c]) /\ out'[c][1].to = p
          /\ out'[c][1].kind = "channel_joined" /\ q \in out'[c][1].ids
      BY <1>3, <1>4, <2>2 DEF Notice
    <3> QED
      BY <2>2, <3>1 DEF Coming
  <2>3. CASE q = c /\ p # c /\ p \in ToSet(list)
    <3>1. PICK k \in 1..Len(list) : list[k] = p
      BY <1>2, <2>3 DEF ToSet
    <3>2. k + 1 \in 1..Len(out'[c]) /\ out'[c][k + 1] = Notice(p, "client_joined", {c}, 0)
      <4>1. k + 1 \in 1..Len(sends)
        BY <1>3
      <4>2. sends[k + 1] = Notice(list[k], "client_joined", {c}, 0)
        BY <1>3
      <4> QED
        BY <1>4, <3>1, <4>1, <4>2, Zenon
    <3>3. /\ out'[c][k + 1].to = p /\ out'[c][k + 1].kind = "client_joined"
          /\ q \in out'[c][k + 1].ids
      BY <2>3, <3>2 DEF Notice
    <3> QED
      BY <2>3, <3>2, <3>3 DEF Coming
  <2> QED
    BY <1>11, <2>1, <2>2, <2>3
<1>13. RelayExact'
  <2> SUFFICES ASSUME NEW p \in Clients, NEW s \in Clients, Together(p, s)', alive'[p]
               PROVE  \/ FramesTo(s, p)' = {} /\ got'[p][s] = sent'[s]
                      \/ \E k \in FramesTo(s, p)' :
                            /\ FramesTo(s, p)' = {k}
                            /\ out'[s][k].n = sent'[s] /\ got'[p][s] + 1 = sent'[s]
    BY DEF RelayExact
  <2>1. CASE p # c /\ s # c /\ Together(p, s)
    <3>1. out'[s] = out[s] /\ FramesTo(s, p)' = FramesTo(s, p) /\ got'[p] = got[p]
      BY <1>4, <1>5, <2>1 DEF FramesTo
    <3> QED
      BY <1>1, <2>1, <3>1 DEF RelayExact
  <2>2. CASE p = c /\ s # c /\ s \in ToSet(list)
    <3>1. out'[s] = out[s]
      BY <1>4, <2>2
    <3>2. FramesTo(s, p)' = {}
      BY <1>1, <2>2, <3>1 DEF FramesTo, NoticesSound
    <3> QED
      BY <1>1, <1>5, <2>2, <3>2
  <2>3. CASE s = c /\ p # c /\ p \in ToSet(list)
    <3>1. FramesTo(s, p)' = {}
      BY <1>7, <2>3 DEF FramesTo
    <3>2. got'[p][s] = 0 /\ sent'[s] = 0
      BY <1>1, <1>5, <2>3 DEF Unheard
    <3> QED
      BY <3>1, <3>2
  <2> QED
    BY <1>11, <2>1, <2>2, <2>3
<1> QED
  BY <1>6, <1>8, <1>9, <1>12, <1>13

\* What a client's thread sends of itself does not concern who is told of whom: a
\* thread that reads has nothing left to send.
LEMMA OutsKept ==
    ASSUME IInv, RInv, NEW c \in Clients, step[c] = "read",
           \A s \in Clients \ {c} : out'[s] = out[s],
           UNCHANGED <<roster, alive>>,
           \A p \in Clients, q \in Clients : Together(p, q)' => Together(p, q)
    PROVE  RosterComplete'
<1>1. out[c] = <<>>
  BY DEF IInv, ThreadsSound
<1> SUFFICES ASSUME NEW p \in Clients, NEW q \in Clients, Together(p, q)', alive[p]
             PROVE  q \in roster[p] \/ Coming(q, p)'
  BY DEF RosterComplete
<1>2. q \in roster[p] \/ Coming(q, p)
  BY DEF RInv, RosterComplete
<1>3. CASE Coming(q, p)
  <2>1. PICK s \in {p, q} : \E k \in 1..Len(out[s]) :
               /\ out[s][k].to = p /\ out[s][k].kind \in {"channel_joined", "client_joined"}
               /\ q \in out[s][k].ids
    BY <1>3 DEF Coming
  <2>2. s # c
    BY <1>1, <2>1
  <2>3. out'[s] = out[s]
    BY <2>1, <2>2
  <2> QED
    BY <2>1, <2>3 DEF Coming
<1> QED
  BY <1>2, <1>3

LEMMA RelayRelays ==
    ASSUME IInv, RInv, NEW c \in Clients, Relay(c)
    PROVE  RInv'
<1> USE DEF RInv
<1> DEFINE list == members[at[c]][chan[c]]
           r == Recipients(c)
           sends == [k \in 1..Len(r) |-> Notice(r[k], "frame", {}, sent[c] + 1)]
<1>1. /\ step[c] = "read" /\ chan[c] # NoChannel /\ sent' = [sent EXCEPT ![c] = @ + 1]
      /\ Sending(c, sends, "sending")
      /\ UNCHANGED <<at, chan, alive, members, roster, got>>
  BY DEF Relay, peerVars
<1>2. at[c] \in Instances /\ chan[c] \in Channels
  BY <1>1 DEF IInv, ThreadsSound, MemberTypes
<1>3. list \in Seq(Clients) /\ IsInjective(list)
  BY <1>2 DEF IInv, MemberTypes, NoGhosts
<1>4. /\ r \in Seq(Clients) /\ IsInjective(r) /\ Len(r) \in Nat
      /\ ToSet(r) = Members(at[c], chan[c]) \ {c}
  BY <1>3, RemoveOnly DEF Recipients, Members
<1> HIDE DEF r, list
<1>5. sends \in [1..Len(r) -> Notices] /\ sent[c] \in Nat
  <2>1. sent[c] \in Nat
    BY DEF RelayTypes
  <2>2. ASSUME NEW k \in 1..Len(r)
        PROVE  Notice(r[k], "frame", {}, sent[c] + 1) \in Notices
    BY <1>4, <2>1 DEF Notice, Notices
  <2> QED
    BY <2>1, <2>2
<1>6. \A k \in 1..Len(r) : /\ sends[k].to = r[k] /\ sends[k].kind = "frame"
                           /\ sends[k].n = sent[c] + 1
  BY DEF Notice
<1> HIDE DEF sends
<1>7. sends \in Seq(Notices) /\ Len(sends) = Len(r)
  BY <1>4, <1>5, FunctionIsSeq
<1>8. /\ out' \in [Clients -> Seq(Notices)] /\ out'[c] = sends
      /\ \A d \in Clients \ {c} : out'[d] = out[d] /\ step'[d] = step[d]
  BY <1>1, <1>7, SendingNext
<1>9. RelayTypes' /\ sent'[c] = sent[c] + 1 /\ \A d \in Clients \ {c} : sent'[d] = sent[d]
  <2>1. /\ sent' \in [Clients -> Nat] /\ sent'[c] = sent[c] + 1
        /\ \A d \in Clients \ {c} : sent'[d] = sent[d]
    BY <1>1, <1>5 DEF RelayTypes
  <2> QED
    BY <1>1, <1>8, <2>1 DEF RelayTypes
<1>10. \A k \in 1..Len(r) : chan[r[k]] # NoChannel
  <2> SUFFICES ASSUME NEW k \in 1..Len(r) PROVE chan[r[k]] # NoChannel
    OBVIOUS
  <2>1. r[k] \in Members(at[c], chan[c])
    BY <1>4 DEF ToSet
  <2> QED
    BY <1>1, <1>2, <2>1, MembersRun
<1>11. NoticesSound'
  <2> SUFFICES ASSUME NEW s \in Clients, NEW k \in 1..Len(out'[s])
               PROVE  /\ out'[s][k].kind = "client_left" => step'[s] = "leaving" /\ out'[s][k].ids = {s}
                      /\ out'[s][k].kind = "frame" =>
                            /\ out'[s][k].n = sent'[s] /\ chan'[out'[s][k].to] # NoChannel
                            /\ \A j \in 1..Len(out'[s]) :
                                  out'[s][j].kind = "frame" /\ out'[s][j].to = out'[s][k].to
                                     => j = k
    BY DEF NoticesSound
  <2>1. CASE s = c
    <3>1. \A j \in 1..Len(r) : r[j] = r[k] => j = k
      <4>1. k \in 1..Len(r) /\ DOMAIN r = 1..Len(r)
        BY <1>4, <1>7, <1>8, <2>1
      <4> QED
        BY <1>4, <4>1 DEF IsInjective
    <3> QED
      BY <1>1, <1>6, <1>7, <1>8, <1>9, <1>10, <2>1, <3>1
  <2>2. CASE s # c
    BY <1>1, <1>8, <1>9, <2>2 DEF NoticesSound
  <2> QED
    BY <2>1, <2>2
<1>12. Unheard'
  BY <1>1, <1>9 DEF Unheard
<1>13. \A p \in Clients, q \in Clients : Together(p, q)' => Together(p, q)
  BY <1>1 DEF Together, Members
<1>14. RosterComplete'
  BY <1>1, <1>8, <1>13, OutsKept
<1>15. RelayExact'
  <2> SUFFICES ASSUME NEW p \in Clients, NEW s \in Clients, Together(p, s), alive[p]
               PROVE  \/ FramesTo(s, p)' = {} /\ got[p][s] = sent'[s]
                      \/ \E k \in FramesTo(s, p)' :
                            /\ FramesTo(s, p)' = {k}
                            /\ out'[s][k].n = sent'[s] /\ got[p][s] + 1 = sent'[s]
    BY <1>1, <1>13 DEF RelayExact
  <2>1. CASE s = c
    <3>1. FramesTo(c, p) = {} /\ got[p][c] = sent[c]
      <4>1. out[c] = <<>>
        BY <1>1 DEF IInv, ThreadsSound
      <4>2. FramesTo(c, p) = {}
        BY <4>1 DEF FramesTo
      <4> QED
        BY <2>1, <4>2 DEF RelayExact
    <3>2. p \in ToSet(r)
      BY <1>4, <2>1, TogetherWhere
    <3>3. PICK k \in 1..Len(r) : r[k] = p
      BY <1>4, <3>2 DEF ToSet
    <3>4. FramesTo(c, p)' = {k}
      <4>1. \A j \in 1..Len(r) : r[j] = p => j = k
        BY <1>4, <3>3 DEF IsInjective
      <4> QED
        BY <1>6, <1>7, <1>8, <3>3, <4>1 DEF FramesTo
    <3> QED
      BY <1>6, <1>8, <1>9, <2>1, <3>1, <3>3, <3>4
  <2>2. CASE s # c
    <3>1. FramesTo(s, p)' = FramesTo(s, p) /\ out'[s] = out[s] /\ sent'[s] = sent[s]
      BY <1>8, <1>9, <2>2 DEF FramesTo
    <3> QED
      BY <3>1 DEF RelayExact
  <2> QED
    BY <2>1, <2>2
<1> QED
  BY <1>9, <1>11, <1>12, <1>14, <1>15

LEMMA DepartureRelays ==
    ASSUME IInv, RInv, NEW c \in Clients, OnClientGone(c)
    PROVE  RInv'
<1> USE DEF RInv
<1> DEFINE list == IF chan[c] = NoChannel THEN <<>> ELSE members[at[c]][chan[c]]
           left == RemoveFirst(list, c)
           sends == [k \in 1..Len(left) |-> Notice(left[k], "client_left", {c}, 0)]
<1>1. /\ step[c] = "read" /\ Sending(c, sends, "leaving")
      /\ members' = IF chan[c] = NoChannel THEN members
                    ELSE [members EXCEPT ![at[c]][chan[c]] = left]
      /\ UNCHANGED <<at, chan, alive, roster, got, sent>>
  BY DEF OnClientGone, peerVars
<1>2. /\ at[c] \in Instances
      /\ chan[c] # NoChannel => chan[c] \in Channels
  BY <1>1 DEF IInv, ThreadsSound, MemberTypes
<1>3. list \in Seq(Clients) /\ IsInjective(list)
  <2>1. CASE chan[c] = NoChannel
    BY <2>1 DEF IsInjective
  <2>2. CASE chan[c] # NoChannel
    BY <1>2, <2>2 DEF IInv, MemberTypes, NoGhosts
  <2> QED
    BY <2>1, <2>2
<1>4. left \in Seq(Clients) /\ Len(left) \in Nat /\ ToSet(left) = ToSet(list) \ {c}
  <2> HIDE DEF list
  <2>1. /\ RemoveFirst(list, c) \in Seq(Clients)
        /\ ToSet(RemoveFirst(list, c)) = ToSet(list) \ {c}
    BY <1>3, RemoveOnly
  <2> HIDE DEF left
  <2>2. left = RemoveFirst(list, c)
    BY DEF left
  <2> QED
    BY <2>1, <2>2
<1>5. \A i \in Instances, d \in Channels : ToSet(members'[i][d]) \subseteq Members(i, d) \ {c}
  <2> SUFFICES ASSUME NEW i \in Instances, NEW d \in Channels
               PROVE  ToSet(members'[i][d]) \subseteq Members(i, d) \ {c}
    OBVIOUS
  <2>1. CASE chan[c] # NoChannel /\ i = at[c] /\ d = chan[c]
    <3>1. members'[i][d] = left /\ members[i][d] = list
      BY <1>1, <2>1 DEF IInv, MemberTypes
    <3> QED
      BY <1>4, <3>1 DEF Members
  <2>2. CASE ~(chan[c] # NoChannel /\ i = at[c] /\ d = chan[c])
    <3>1. members'[i][d] = members[i][d]
      BY <1>1, <1>2, <2>2 DEF IInv, MemberTypes
    <3>2. c \notin Members(i, d)
      BY <2>2, MembersRun, RelayAssumption DEF RelayAssumption
    <3> QED
      BY <3>1, <3>2 DEF Members
  <2> QED
    BY <2>1, <2>2
<1> HIDE DEF left, list
<1>6. sends \in [1..Len(left) -> Notices]
  BY <1>4 DEF Notice, Notices
<1>7. \A k \in 1..Len(left) : sends[k].kind = "client_left" /\ sends[k].ids = {c}
  BY DEF Notice
<1> HIDE DEF sends
<1>8. sends \in Seq(Notices) /\ Len(sends) = Len(left)
  BY <1>4, <1>6, FunctionIsSeq
<1>9. /\ out' \in [Clients -> Seq(Notices)] /\ out'[c] = sends
      /\ sends # <<>> => step'[c] = "leaving"
      /\ \A d \in Clients \ {c} : out'[d] = out[d] /\ step'[d] = step[d]
  BY <1>1, <1>8, SendingNext
<1>10. RelayTypes'
  BY <1>1, <1>9 DEF RelayTypes
<1>11. NoticesSound'
  <2> SUFFICES ASSUME NEW s \in Clients, NEW k \in 1..Len(out'[s])
               PROVE  /\ out'[s][k].kind = "client_left" => step'[s] = "leaving" /\ out'[s][k].ids = {s}
                      /\ out'[s][k].kind = "frame" =>
                            /\ out'[s][k].n = sent'[s] /\ chan'[out'[s][k].to] # NoChannel
                            /\ \A j \in 1..Len(out'[s]) :
                                  out'[s][j].kind = "frame" /\ out'[s][j].to = out'[s][k].to
                                     => j = k
    BY DEF NoticesSound
  <2>1. CASE s = c
    <3>1. sends # <<>>
      BY <1>9, <2>1
    <3> QED
      BY <1>7, <1>8, <1>9, <2>1, <3>1
  <2>2. CASE s # c
    BY <1>1, <1>9, <2>2 DEF NoticesSound
  <2> QED
    BY <2>1, <2>2
<1>12. Unheard'
  BY <1>1 DEF Unheard
<1>13. ASSUME NEW p \in Clients, NEW q \in Clients, Together(p, q)'
       PROVE  Together(p, q) /\ p # c /\ q # c
  <2>1. at[p] \in Instances /\ chan[p] \in Channels
    BY <1>1, <1>13, RelayAssumption
       DEF Together, IInv, MemberTypes, Instances, RelayAssumption
  <2>2. {p, q} \subseteq Members(at[p], chan[p]) \ {c}
    BY <1>1, <1>5, <1>13, <2>1 DEF Together, Members
  <2> QED
    BY <1>1, <1>13, <2>2 DEF Together
<1>14. RosterComplete'
  BY <1>1, <1>9, <1>13, OutsKept
<1>15. RelayExact'
  <2> SUFFICES ASSUME NEW p \in Clients, NEW s \in Clients, Together(p, s)', alive[p]
               PROVE  \/ FramesTo(s, p)' = {} /\ got[p][s] = sent[s]
                      \/ \E k \in FramesTo(s, p)' :
                            /\ FramesTo(s, p)' = {k}
                            /\ out'[s][k].n = sent[s] /\ got[p][s] + 1 = sent[s]
    BY <1>1 DEF RelayExact
  <2>1. Together(p, s) /\ s # c
    BY <1>13
  <2>2. FramesTo(s, p)' = FramesTo(s, p) /\ out'[s] = out[s]
    BY <1>9, <2>1 DEF FramesTo
  <2> QED
    BY <2>1, <2>2 DEF RelayExact
<1> QED
  BY <1>10, <1>11, <1>12, <1>14, <1>15

\* What one send does to those it reaches.
LEMMA Delivered ==
    ASSUME RelayTypes, NEW c \in Clients, NEW m \in Notices, Deliver(c, m)
    PROVE  /\ roster' \in [Clients -> SUBSET Clients]
           /\ got' \in [Clients -> [Clients -> Nat]]
           /\ \A p \in Clients : roster'[p] =
                 IF alive[p] /\ p = m.to THEN RosterAfter(roster[p], m) ELSE roster[p]
           /\ \A p \in Clients, s \in Clients : got'[p][s] =
                 IF alive[p] /\ m.kind = "frame" /\ p = m.to /\ s = c THEN m.n
                 ELSE got[p][s]
<1>1. m.to \in Clients /\ m.ids \subseteq Clients /\ m.n \in Nat
  BY DEF Notices
<1>2. RosterAfter(roster[m.to], m) \in SUBSET Clients
  BY <1>1 DEF RosterAfter, RelayTypes
<1>3. CASE alive[m.to]
  <2>1. roster' = [roster EXCEPT ![m.to] = RosterAfter(roster[m.to], m)]
    BY <1>3 DEF Deliver
  <2>2. got' = IF m.kind = "frame" THEN [got EXCEPT ![m.to][c] = m.n] ELSE got
    BY <1>3 DEF Deliver
  <2>3. /\ roster' \in [Clients -> SUBSET Clients]
        /\ \A p \in Clients : roster'[p] =
              IF p = m.to THEN RosterAfter(roster[p], m) ELSE roster[p]
    BY <1>1, <1>2, <2>1 DEF RelayTypes
  <2>4. /\ got' \in [Clients -> [Clients -> Nat]]
        /\ \A p \in Clients, s \in Clients : got'[p][s] =
              IF m.kind = "frame" /\ p = m.to /\ s = c THEN m.n ELSE got[p][s]
    BY <1>1, <2>2 DEF RelayTypes
  <2> QED
    BY <1>3, <2>3, <2>4
<1>4. CASE ~alive[m.to]
  <2>1. roster' = roster /\ got' = got
    BY <1>4 DEF Deliver, peerVars
  <2> QED
    BY <1>4, <2>1 DEF RelayTypes
<1> QED
  BY <1>3, <1>4

LEMMA SendNextRelays ==
    ASSUME IInv, RInv, NEW c \in Clients, SendNext(c)
    PROVE  RInv'
<1> USE DEF RInv
<1> DEFINE m == Head(out[c])
           rest == Tail(out[c])
<1>1. /\ out[c] # <<>> /\ Deliver(c, m) /\ Sending(c, rest, step[c])
      /\ UNCHANGED <<at, chan, alive, members, sent>>
  BY DEF SendNext
<1>2. /\ m \in Notices /\ m = out[c][1] /\ 1 \in 1..Len(out[c])
      /\ rest \in Seq(Notices) /\ Len(rest) = Len(out[c]) - 1 /\ Len(out[c]) \in Nat
      /\ \A k \in 1..Len(rest) : rest[k] = out[c][k + 1] /\ k + 1 \in 1..Len(out[c])
  <2>1. out[c] \in Seq(Notices)
    BY DEF RelayTypes
  <2> QED
    BY <1>1, <2>1
<1>3. step[c] \in {"sending", "leaving"}
  BY <1>1 DEF IInv, ThreadsSound
<1> HIDE DEF m, rest
<1>4. /\ out' \in [Clients -> Seq(Notices)] /\ out'[c] = rest
      /\ rest # <<>> => step'[c] = step[c]
      /\ \A d \in Clients \ {c} : out'[d] = out[d] /\ step'[d] = step[d]
  BY <1>1, <1>2, <1>3, SendingNext
<1>5. /\ roster' \in [Clients -> SUBSET Clients]
      /\ got' \in [Clients -> [Clients -> Nat]]
      /\ \A p \in Clients : roster'[p] =
            IF alive[p] /\ p = m.to THEN RosterAfter(roster[p], m) ELSE roster[p]
      /\ \A p \in Clients, s \in Clients : got'[p][s] =
            IF alive[p] /\ m.kind = "frame" /\ p = m.to /\ s = c THEN m.n
            ELSE got[p][s]
  BY <1>1, <1>2, Delivered
<1>6. RelayTypes'
  BY <1>1, <1>4, <1>5 DEF RelayTypes
<1>7. /\ m.kind = "client_left" => step[c] = "leaving" /\ m.ids = {c}
      /\ m.kind = "frame" => m.n = sent[c]
  BY <1>2 DEF NoticesSound
<1>8. NoticesSound'
  <2> SUFFICES ASSUME NEW s \in Clients, NEW k \in 1..Len(out'[s])
               PROVE  /\ out'[s][k].kind = "client_left" => step'[s] = "leaving" /\ out'[s][k].ids = {s}
                      /\ out'[s][k].kind = "frame" =>
                            /\ out'[s][k].n = sent'[s] /\ chan'[out'[s][k].to] # NoChannel
                            /\ \A j \in 1..Len(out'[s]) :
                                  out'[s][j].kind = "frame" /\ out'[s][j].to = out'[s][k].to
                                     => j = k
    BY DEF NoticesSound
  <2>1. CASE s = c
    <3>1. k \in 1..Len(rest) /\ rest # <<>>
      BY <1>2, <1>4, <2>1
    <3>2. k + 1 \in 1..Len(out[c]) /\ out'[c][k] = out[c][k + 1]
      BY <1>2, <1>4, <3>1
    <3>3. \A j \in 1..Len(out'[c]) :
             out[c][j + 1].kind = "frame" /\ out[c][j + 1].to = out[c][k + 1].to
                /\ out[c][k + 1].kind = "frame" => j = k
      <4> SUFFICES ASSUME NEW j \in 1..Len(out'[c]),
                          out[c][j + 1].kind = "frame", out[c][j + 1].to = out[c][k + 1].to,
                          out[c][k + 1].kind = "frame"
                   PROVE  j = k
        OBVIOUS
      <4>1. j + 1 \in 1..Len(out[c])
        BY <1>2, <1>4
      <4>2. j + 1 = k + 1
        BY <3>2, <4>1 DEF NoticesSound
      <4> QED
        BY <4>2
    <3>4. \A j \in 1..Len(out'[c]) : out'[c][j] = out[c][j + 1]
      BY <1>2, <1>4
    <3>5. /\ out[c][k + 1].kind = "client_left" => step[c] = "leaving" /\ out[c][k + 1].ids = {c}
          /\ out[c][k + 1].kind = "frame" =>
                out[c][k + 1].n = sent[c] /\ chan[out[c][k + 1].to] # NoChannel
      BY <3>2 DEF NoticesSound
    <3>6. step'[c] = step[c]
      BY <1>4, <3>1
    <3>7. out'[c][k].kind = "client_left" => step'[c] = "leaving" /\ out'[c][k].ids = {c}
      BY <3>2, <3>5, <3>6
    <3>8. out'[c][k].kind = "frame" =>
             /\ out'[c][k].n = sent'[c] /\ chan'[out'[c][k].to] # NoChannel
             /\ \A j \in 1..Len(out'[c]) :
                   out'[c][j].kind = "frame" /\ out'[c][j].to = out'[c][k].to => j = k
      BY <1>1, <3>2, <3>3, <3>4, <3>5
    <3> QED
      BY <2>1, <3>7, <3>8
  <2>2. CASE s # c
    <3>1. out'[s] = out[s] /\ step'[s] = step[s]
      BY <1>4, <2>2
    <3> QED
      BY <1>1, <3>1 DEF NoticesSound
  <2> QED
    BY <2>1, <2>2
<1>9. Unheard'
  <2> SUFFICES ASSUME NEW s \in Clients, chan[s] = NoChannel
               PROVE  sent[s] = 0 /\ \A p \in Clients : got'[p][s] = 0
    BY <1>1 DEF Unheard
  <2>1. sent[s] = 0 /\ \A p \in Clients : got[p][s] = 0
    BY DEF Unheard
  <2> QED
    BY <1>5, <1>7, <2>1
<1>10. \A p \in Clients, q \in Clients : Together(p, q)' => Together(p, q)
  BY <1>1 DEF Together, Members
<1>11. RosterComplete'
  <2> SUFFICES ASSUME NEW p \in Clients, NEW q \in Clients, Together(p, q), alive[p]
               PROVE  q \in roster'[p] \/ Coming(q, p)'
    BY <1>1, <1>10 DEF RosterComplete
  <2>1. CASE q \in roster[p]
    <3>1. step[q] # "leaving"
      BY TogetherWhere, MembersRun
    <3>2. q \in RosterAfter(roster[p], m)
      BY <1>7, <2>1, <3>1 DEF RosterAfter
    <3> QED
      BY <1>5, <2>1, <3>2
  <2>2. ASSUME NEW s \in {p, q}, NEW k \in 1..Len(out[s]), out[s][k].to = p,
               out[s][k].kind \in {"channel_joined", "client_joined"},
               q \in out[s][k].ids
        PROVE  q \in roster'[p] \/ Coming(q, p)'
    <3>1. CASE s # c
      <4>1. out'[s] = out[s]
        BY <1>4, <3>1
      <4> QED
        BY <2>2, <4>1 DEF Coming
    <3>2. CASE s = c /\ k = 1
      <4>1. roster'[p] = RosterAfter(roster[p], m)
        BY <1>2, <1>5, <2>2, <3>2
      <4>2. m.kind \in {"channel_joined", "client_joined"} /\ q \in m.ids
        BY <1>2, <2>2, <3>2
      <4> QED
        BY <4>1, <4>2 DEF RosterAfter
    <3>3. CASE s = c /\ k # 1
      <4>1. k - 1 \in 1..Len(out'[c]) /\ out'[c][k - 1] = out[c][k]
        <5>1. k - 1 \in 1..Len(rest) /\ (k - 1) + 1 = k
          BY <1>2, <3>3
        <5> QED
          BY <1>2, <1>4, <5>1
      <4> QED
        BY <2>2, <3>3, <4>1 DEF Coming
    <3> QED
      BY <3>1, <3>2, <3>3
  <2>3. q \in roster[p] \/ Coming(q, p)
    BY DEF RosterComplete
  <2> QED
    BY <2>1, <2>2, <2>3 DEF Coming
<1>12. RelayExact'
  <2> SUFFICES ASSUME NEW p \in Clients, NEW s \in Clients, Together(p, s), alive[p]
               PROVE  \/ FramesTo(s, p)' = {} /\ got'[p][s] = sent[s]
                      \/ \E k \in FramesTo(s, p)' :
                            /\ FramesTo(s, p)' = {k}
                            /\ out'[s][k].n = sent[s] /\ got'[p][s] + 1 = sent[s]
    BY <1>1, <1>10 DEF RelayExact
  <2>1. CASE s # c
    <3>1. out'[s] = out[s]
      BY <1>4, <2>1
    <3>2. FramesTo(s, p)' = FramesTo(s, p)
      BY <3>1, Zenon DEF FramesTo
    <3>3. got'[p][s] = got[p][s]
      BY <1>5, <2>1
    <3> QED
      BY <3>1, <3>2, <3>3 DEF RelayExact
  <2>2. CASE s = c
    <3>1. \A k \in FramesTo(c, p)' : k + 1 \in FramesTo(c, p)
      BY <1>2, <1>4 DEF FramesTo
    <3>2. \A k \in FramesTo(c, p) \ {1} : k - 1 \in FramesTo(c, p)'
      <4> SUFFICES ASSUME NEW k \in FramesTo(c, p), k # 1
                   PROVE  k - 1 \in FramesTo(c, p)'
        OBVIOUS
      <4>1. k \in 1..Len(out[c]) /\ k - 1 \in 1..Len(rest) /\ (k - 1) + 1 = k
        BY <1>2 DEF FramesTo
      <4>2. out'[c][k - 1] = out[c][k] /\ k - 1 \in 1..Len(out'[c])
        BY <1>2, <1>4, <4>1
      <4> QED
        BY <4>1, <4>2 DEF FramesTo
    <3>3. 1 \in FramesTo(c, p) <=> m.kind = "frame" /\ p = m.to
      BY <1>2 DEF FramesTo
    <3>4. FramesTo(c, p) \subseteq Nat /\ FramesTo(c, p)' \subseteq Nat \ {0}
      BY DEF FramesTo
    <3>5. CASE FramesTo(c, p) = {} /\ got[p][c] = sent[c]
      <4>1. FramesTo(c, p)' = {}
        BY <3>1, <3>5
      <4>2. got'[p][c] = got[p][c]
        BY <1>5, <3>3, <3>5
      <4> QED
        BY <2>2, <3>5, <4>1, <4>2
    <3>6. ASSUME NEW k \in FramesTo(c, p), FramesTo(c, p) = {k},
                 out[c][k].n = sent[c], got[p][c] + 1 = sent[c]
          PROVE  \/ FramesTo(c, p)' = {} /\ got'[p][c] = sent[c]
                 \/ \E j \in FramesTo(c, p)' :
                       /\ FramesTo(c, p)' = {j}
                       /\ out'[c][j].n = sent[c] /\ got'[p][c] + 1 = sent[c]
      <4>1. CASE k = 1
        <5>1. FramesTo(c, p)' = {}
          BY <3>1, <3>4, <3>6, <4>1
        <5>2. got'[p][c] = sent[c]
          BY <1>5, <1>7, <3>3, <3>6, <4>1
        <5> QED
          BY <5>1, <5>2
      <4>2. CASE k # 1
        <5>1. k - 1 \in FramesTo(c, p)' /\ FramesTo(c, p)' = {k - 1}
          <6>1. k - 1 \in FramesTo(c, p)'
            BY <3>2, <4>2
          <6>2. \A j \in FramesTo(c, p)' : j = k - 1
            BY <3>1, <3>4, <3>6
          <6> QED
            BY <6>1, <6>2
        <5>2. out'[c][k - 1] = out[c][k]
          <6>1. k \in 1..Len(out[c]) /\ k - 1 \in 1..Len(rest) /\ (k - 1) + 1 = k
            BY <1>2, <4>2 DEF FramesTo
          <6> QED
            BY <1>2, <1>4, <6>1
        <5>3. got'[p][c] = got[p][c]
          BY <1>5, <3>3, <3>6, <4>2
        <5> QED
          BY <3>6, <5>1, <5>2, <5>3
      <4> QED
        BY <4>1, <4>2
    <3>7. \/ FramesTo(c, p) = {} /\ got[p][c] = sent[c]
          \/ \E k \in FramesTo(c, p) :
                /\ FramesTo(c, p) = {k}
                /\ out[c][k].n = sent[c] /\ got[p][c] + 1 = sent[c]
      BY <2>2 DEF RelayExact
    <3> QED
      BY <2>2, <3>5, <3>6, <3>7
  <2> QED
    BY <2>1, <2>2
<1> QED
  BY <1>6, <1>8, <1>9, <1>11, <1>12

LEMMA RelayInit == Init => RInv
<1> SUFFICES ASSUME Init PROVE RInv
  OBVIOUS
<1>1. \A c \in Clients : out[c] = <<>>
  BY DEF Init
<1>2. RelayTypes
  BY DEF Init, RelayTypes
<1>3. NoticesSound
  BY <1>1 DEF NoticesSound
<1>4. Unheard
  BY DEF Init, Unheard
<1>5. \A p, q \in Clients : ~Together(p, q)
  BY DEF Init, Together
<1> QED
  BY <1>2, <1>3, <1>4, <1>5 DEF RInv, RosterComplete, RelayExact

LEMMA RelayStep == IInv /\ RInv /\ [Next]_vars => RInv'
<1> SUFFICES ASSUME IInv, RInv, [Next]_vars
             PROVE  RInv'
  OBVIOUS
<1>1. ASSUME UNCHANGED <<at, chan, step, alive, members, out, roster, sent, got>>
      PROVE  RInv'
  <2>1. RelayTypes'
    BY <1>1 DEF RInv, RelayTypes
  <2>2. \A p \in Clients, q \in Clients : Together(p, q)' => Together(p, q)
    BY <1>1 DEF Together, Members
  <2> QED
    BY <1>1, <2>1, <2>2, RelaysKept
<1>2. CASE StartLocalServer
  BY <1>1, <1>2 DEF StartLocalServer
<1>3. CASE StopLocalServer
  BY <1>1, <1>3 DEF StopLocalServer
<1>4. ASSUME NEW i \in Instances, Bind(i) \/ ServeEnds(i)
      PROVE  RInv'
  BY <1>1, <1>4 DEF Bind, ServeEnds, peerVars
<1>5. ASSUME NEW i \in Instances, NEW c \in Clients, Accept(i, c)
      PROVE  RInv'
  BY <1>5, AcceptRelays
<1>6. ASSUME NEW c \in Clients, NEW ch \in Channels, Join(c, ch)
      PROVE  RInv'
  BY <1>6, JoinRelays
<1>7. ASSUME NEW c \in Clients, Relay(c)
      PROVE  RInv'
  BY <1>7, RelayRelays
<1>8. ASSUME NEW c \in Clients, Hangup(c)
      PROVE  RInv'
  BY <1>8, HangupRelays
<1>9. ASSUME NEW c \in Clients, OnClientGone(c)
      PROVE  RInv'
  BY <1>9, DepartureRelays
<1>10. ASSUME NEW c \in Clients, SendNext(c)
       PROVE  RInv'
  BY <1>10, SendNextRelays
<1>11. CASE UNCHANGED vars
  BY <1>1, <1>11 DEF vars
<1> QED
  BY <1>2, <1>3, <1>4, <1>5, <1>6, <1>7, <1>8, <1>9, <1>10, <1>11 DEF Next

\* However the sends of the threads interleave, two members of a channel know of
\* each other or are being told: the snapshot each join takes under the lock is
\* enough, with any number of clients and channels.
THEOREM RostersComplete == Spec => []RosterComplete
<1>1. RInv => RosterComplete
  BY DEF RInv
<1> QED
  BY <1>1, InitInv, StepInv, RelayInit, RelayStep, PTL DEF Spec

\* However many clients a channel has and however often they come and go, what a
\* talker relays reaches every live member once each and without gaps.
THEOREM RelaysExact == Spec => []RelayExact
<1>1. RInv => RelayExact
  BY DEF RInv
<1> QED
  BY <1>1, InitInv, StepInv, RelayInit, RelayStep, PTL DEF Spec
=============================================================================
