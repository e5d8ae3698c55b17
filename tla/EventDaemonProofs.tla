--------------------------- MODULE EventDaemonProofs ---------------------------
(* Proofs about EventDaemon.                                                  *)
EXTENDS EventDaemon, WellFoundedInduction, TLAPS

\* Induction over the natural numbers, for a set of them.
LEMMA SetInduction ==
    ASSUME NEW T, 0 \in T, \A n \in Nat : n \in T => n + 1 \in T
    PROVE  \A n \in Nat : n \in T
<1> DEFINE U == Nat \ T
<1>1. SUFFICES ASSUME U # {} PROVE FALSE
  OBVIOUS
<1>2. \E n \in U : \A k \in U : ~(<<k, n>> \in OpToRel(<, Nat))
  BY <1>1, NatLessThanWellFounded, WFMin
<1>3. PICK n \in U : \A k \in U : ~(<<k, n>> \in OpToRel(<, Nat))
  BY <1>2
<1>4. \A k, m \in Nat : k < m => <<k, m>> \in OpToRel(<, Nat)
  BY Zenon DEF OpToRel
<1>5. \A k \in U : ~(k < n)
  BY <1>3, <1>4, Zenon
<1>6. n # 0 /\ n - 1 \in Nat /\ (n - 1) + 1 = n /\ n - 1 < n
  OBVIOUS
<1> QED BY <1>5, <1>6

-----------------------------------------------------------------------------
(* Only(q, S).                                                               *)

OnlyBody(q, S, f, i) ==
    IF i = 0 THEN <<>> ELSE IF q[i] \in S THEN Append(f[i - 1], q[i]) ELSE f[i - 1]

LEMMA OnlyExists ==
    ASSUME NEW Q, NEW q \in Seq(Q), NEW S
    PROVE  \E g : g = [i \in 0 .. Len(q) |-> OnlyBody(q, S, g, i)]
<1> DEFINE T == {n \in Nat : \E g : g = [i \in 0 .. n |-> OnlyBody(q, S, g, i)]}
<1>1. 0 \in T
  <2> DEFINE g == [i \in 0 .. 0 |-> <<>>]
  <2>1. g = [i \in 0 .. 0 |-> OnlyBody(q, S, g, i)]
    BY DEF OnlyBody
  <2> QED BY <2>1
<1>2. ASSUME NEW n \in Nat, n \in T PROVE n + 1 \in T
  <2>1. PICK g : g = [i \in 0 .. n |-> OnlyBody(q, S, g, i)]
    BY <1>2
  <2> DEFINE h == [i \in 0 .. n + 1 |-> IF i = n + 1 THEN OnlyBody(q, S, g, i) ELSE g[i]]
  <2>2. \A i \in 0 .. n : h[i] = g[i]
    OBVIOUS
  <2>3. ASSUME NEW i \in 0 .. n + 1 PROVE h[i] = OnlyBody(q, S, h, i)
    <3>1. CASE i = 0
      <4>1. h[i] = g[0] /\ g[0] = OnlyBody(q, S, g, 0)
        BY <2>1, <3>1
      <4> QED BY <3>1, <4>1 DEF OnlyBody
    <3>2. CASE i # 0
      <4>1. i - 1 \in 0 .. n
        BY <3>2
      <4>2. h[i] = OnlyBody(q, S, g, i)
        <5>1. CASE i = n + 1
          BY <5>1
        <5>2. CASE i # n + 1
          <6>1. i \in 0 .. n
            BY <5>2
          <6> QED BY <6>1, <2>1, <2>2
        <5> QED BY <5>1, <5>2
      <4>3. h[i - 1] = g[i - 1]
        BY <4>1, <2>2
      <4> QED BY <3>2, <4>2, <4>3 DEF OnlyBody
    <3> QED BY <3>1, <3>2
  <2>4. h = [i \in 0 .. n + 1 |-> OnlyBody(q, S, h, i)]
    BY <2>3
  <2> HIDE DEF h
  <2> QED BY <2>4
<1>3. \A n \in Nat : n \in T
  <2> HIDE DEF T
  <2> QED BY <1>1, <1>2, SetInduction
<1> QED BY <1>3

LEMMA OnlyRecursion ==
    ASSUME NEW Q, NEW q \in Seq(Q), NEW S
    PROVE  \E f : /\ f = [i \in 0 .. Len(q) |-> OnlyBody(q, S, f, i)]
                  /\ Only(q, S) = f[Len(q)]
<1> DEFINE f == CHOOSE g : g = [i \in 0 .. Len(q) |-> OnlyBody(q, S, g, i)]
<1>1. f = [i \in 0 .. Len(q) |-> OnlyBody(q, S, f, i)]
  BY OnlyExists
<1>2. Only(q, S) = f[Len(q)]
  BY DEF Only, OnlyBody
<1> HIDE DEF f
<1> QED BY <1>1, <1>2

\* r is what is left of the first n elements of q: those of S, in the order of q.
Selected(q, S, n, r) ==
    /\ \A a \in DOMAIN r : \E k \in 1 .. n : r[a] = q[k] /\ q[k] \in S
    /\ \A k \in 1 .. n : q[k] \in S => \E a \in DOMAIN r : r[a] = q[k]
    /\ \A a, b \in DOMAIN r : a < b =>
          \E k, l \in 1 .. n : k < l /\ r[a] = q[k] /\ r[b] = q[l]

LEMMA SelectedAppend ==
    ASSUME NEW Q, NEW q \in Seq(Q), NEW S, NEW n \in Nat, n + 1 \in DOMAIN q,
           NEW r \in Seq(Q), Selected(q, S, n, r)
    PROVE  /\ q[n + 1] \in S => Selected(q, S, n + 1, Append(r, q[n + 1]))
           /\ q[n + 1] \notin S => Selected(q, S, n + 1, r)
<1>1. /\ \A k \in 1 .. n : k \in 1 .. n + 1 /\ k < n + 1
      /\ \A k \in 1 .. n + 1 : k \in 1 .. n \/ k = n + 1
      /\ n + 1 \in 1 .. n + 1
  OBVIOUS
<1>2. ASSUME q[n + 1] \in S PROVE Selected(q, S, n + 1, Append(r, q[n + 1]))
  <2> DEFINE t == Append(r, q[n + 1])
  <2>1. /\ \A a \in DOMAIN r : a \in DOMAIN t /\ t[a] = r[a]
        /\ \A a \in DOMAIN t : a \in DOMAIN r \/ a = Len(r) + 1
        /\ Len(r) + 1 \in DOMAIN t /\ t[Len(r) + 1] = q[n + 1]
        /\ \A a \in DOMAIN t : a \in Nat /\ a <= Len(r) + 1
        /\ q[n + 1] \in Q
    OBVIOUS
  <2> HIDE DEF t
  <2>2. \A a \in DOMAIN t : \E k \in 1 .. n + 1 : t[a] = q[k] /\ q[k] \in S
    BY <1>1, <1>2, <2>1 DEF Selected
  <2>3. \A k \in 1 .. n + 1 : q[k] \in S => \E a \in DOMAIN t : t[a] = q[k]
    BY <1>1, <2>1 DEF Selected
  <2>4. ASSUME NEW a \in DOMAIN t, NEW b \in DOMAIN t, a < b
        PROVE  \E k, l \in 1 .. n + 1 : k < l /\ t[a] = q[k] /\ t[b] = q[l]
    <3>1. a \in DOMAIN r
      BY <2>1, <2>4
    <3>2. CASE b \in DOMAIN r
      <4>1. \E k, l \in 1 .. n : k < l /\ r[a] = q[k] /\ r[b] = q[l]
        BY <2>4, <3>1, <3>2, Zenon DEF Selected
      <4>2. t[a] = r[a] /\ t[b] = r[b]
        BY <2>1, <3>1, <3>2
      <4> QED BY <1>1, <4>1, <4>2, Zenon
    <3>3. CASE b = Len(r) + 1
      <4>1. PICK k \in 1 .. n : r[a] = q[k]
        BY <3>1 DEF Selected
      <4>2. k < n + 1 /\ t[a] = q[k] /\ t[b] = q[n + 1] /\ k \in 1 .. n + 1
        BY <1>1, <2>1, <3>1, <3>3, <4>1
      <4> QED BY <4>2, <1>1
    <3> QED BY <2>1, <3>2, <3>3
  <2> QED BY <2>2, <2>3, <2>4 DEF Selected, t
<1>3. ASSUME q[n + 1] \notin S PROVE Selected(q, S, n + 1, r)
  BY <1>1, <1>3 DEF Selected
<1> QED BY <1>2, <1>3

\* What catch_up sends, and what pollers keeps when requests are removed: the members of
\* a set S among the elements of q, all of them and no others, in the order of q.
LEMMA OnlySelects ==
    ASSUME NEW Q, NEW q \in Seq(Q), NEW S
    PROVE  Only(q, S) \in Seq(Q) /\ Selected(q, S, Len(q), Only(q, S))
<1>1. PICK f : /\ f = [i \in 0 .. Len(q) |-> OnlyBody(q, S, f, i)]
               /\ Only(q, S) = f[Len(q)]
  BY OnlyRecursion
<1> DEFINE T == {n \in Nat : n <= Len(q) => f[n] \in Seq(Q) /\ Selected(q, S, n, f[n])}
<1>2. 0 \in T
  <2>1. f[0] = OnlyBody(q, S, f, 0) /\ Len(q) \in Nat
    BY <1>1
  <2>2. f[0] = <<>>
    BY <2>1 DEF OnlyBody
  <2>3. f[0] \in Seq(Q) /\ DOMAIN f[0] = {} /\ 1 .. 0 = {}
    BY <2>2
  <2> QED BY <2>3, Zenon DEF Selected
<1>3. ASSUME NEW n \in Nat, n \in T PROVE n + 1 \in T
  <2>1. SUFFICES ASSUME n + 1 <= Len(q)
                 PROVE  f[n + 1] \in Seq(Q) /\ Selected(q, S, n + 1, f[n + 1])
    OBVIOUS
  <2>2. /\ n + 1 \in 0 .. Len(q) /\ n + 1 \in DOMAIN q /\ q[n + 1] \in Q
        /\ n + 1 # 0 /\ (n + 1) - 1 = n /\ n <= Len(q)
    BY <2>1
  <2>3. f[n] \in Seq(Q) /\ Selected(q, S, n, f[n])
    BY <1>3, <2>2
  <2>4. f[n + 1] = IF q[n + 1] \in S THEN Append(f[n], q[n + 1]) ELSE f[n]
    <3>1. f[n + 1] = OnlyBody(q, S, f, n + 1)
      BY <1>1, <2>2
    <3> QED BY <2>2, <3>1 DEF OnlyBody
  <2>5. f[n + 1] \in Seq(Q)
    BY <2>2, <2>3, <2>4
  <2> QED BY <2>2, <2>3, <2>4, <2>5, SelectedAppend
<1>4. \A n \in Nat : n \in T
  <2> HIDE DEF T
  <2> QED BY <1>2, <1>3, SetInduction
<1> QED BY <1>1, <1>4

-----------------------------------------------------------------------------
(* The inductive invariant.                                                  *)

\* The queue holds, in the order of their numbers, the messages after evicted; a
\* number belongs to one message, and none is beyond message_id.
QueueInOrder ==
    /\ \A i, k \in DOMAIN messages : i < k => messages[i].id < messages[k].id
    /\ ToSet(messages) = {m \in posted : m.id > evicted}
    /\ \A m, n \in posted : m.id = n.id => m = n
    /\ \A m \in posted : m.id <= message_id
    /\ evicted <= message_id
    /\ \A p \in Pages : start[p] <= message_id /\ last[p] <= message_id
                        /\ from[p] <= message_id

\* A page between Load and SetFilter has been told nothing yet.
Fresh(p) == last[p] = start[p] /\ seen[p] = {}

\* The messages of its channel a page follows.
Followed(p) == {n \in posted : For(n, p) /\ n.id > from[p]}

\* What each phase of a page says of the messages on their way to it.
PageInOrder(p) ==
    /\ phase[p] = "new" => last[p] = 0 /\ seen[p] = {}
    /\ phase[p] \in {"connecting", "opened", "started"} => Fresh(p)
    /\ phase[p] = "started" => socketLast[p] = start[p]
    /\ phase[p] = "following" =>
          /\ seen[p] \union ToSet(sent[p]) = Followed(p)
          /\ \A i \in DOMAIN sent[p] : sent[p][i].id > last[p]
          /\ \A i, k \in DOMAIN sent[p] : i < k => sent[p][i].id < sent[p][k].id
    /\ phase[p] = "answered" =>
          \E m \in posted : sent[p] = <<m>> /\ For(m, p) /\ m.id > last[p]
    /\ phase[p] \notin {"following", "answered"} => sent[p] = <<>>

EventInv == TypeOK /\ QueueInOrder /\ \A p \in Pages : PageInOrder(p)

LEMMA InitInv == Init => EventInv
<1> SUFFICES ASSUME Init PROVE EventInv
  OBVIOUS
<1>1. TypeOK
  BY ConstantsAssumption DEF Init, TypeOK, Id, Phase, IsInjective, Range
<1>2. QueueInOrder
  BY ConstantsAssumption DEF Init, QueueInOrder, ToSet
<1>3. \A p \in Pages : PageInOrder(p)
  BY DEF Init, PageInOrder
<1> QED BY <1>1, <1>2, <1>3 DEF EventInv

LEMMA NoMessages == <<>> \in Seq(Message)
OBVIOUS

\* A step that leaves a page and the messages posted alone.
LEMMA PageSame ==
    ASSUME NEW q \in Pages, PageInOrder(q), posted' = posted,
           phase'[q] = phase[q], sent'[q] = sent[q], start'[q] = start[q],
           last'[q] = last[q], seen'[q] = seen[q], from'[q] = from[q],
           socketLast'[q] = socketLast[q]
    PROVE  PageInOrder(q)'
BY DEF PageInOrder, Fresh, Followed, For, ToSet

LEMMA QueueSame ==
    ASSUME QueueInOrder, UNCHANGED <<message_id, messages, posted, evicted>>,
           \A p \in Pages : start'[p] <= message_id /\ last'[p] <= message_id
                              /\ from'[p] <= message_id
    PROVE  QueueInOrder'
BY DEF QueueInOrder, ToSet

\* A page that the daemon does not know changes its mind.
LEMMA PhaseStep ==
    ASSUME EventInv, NEW p \in Pages, NEW ph \in Phase,
           phase' = [phase EXCEPT ![p] = ph],
           phase[p] \notin {"following", "waiting", "answered"},
           ph \notin {"new", "connecting", "started", "following", "waiting", "answered"},
           ph = "opened" => phase[p] = "connecting",
           UNCHANGED <<daemon, start, last, seen, sent, faults, history>>
    PROVE  EventInv'
<1>1. UNCHANGED <<message_id, messages, followers, pollers, socketLast, start, last, seen,
                  sent, faults, posted, evicted, from>>
  BY DEF daemon, history
<1>2. TypeOK'
  BY <1>1 DEF EventInv, TypeOK
<1>3. QueueInOrder'
  BY <1>1, QueueSame DEF EventInv, QueueInOrder
<1>4. \A q \in Pages \ {p} : PageInOrder(q)'
  BY <1>1, PageSame DEF EventInv, TypeOK
<1>5. PageInOrder(p)'
  BY <1>1 DEF EventInv, TypeOK, PageInOrder, Fresh
<1> QED BY <1>2, <1>3, <1>4, <1>5 DEF EventInv

LEMMA PhaseSteps ==
    ASSUME EventInv, NEW p \in Pages, Opened(p) \/ GivesUp(p) \/ TimedOut(p) \/ Retry(p)
    PROVE  EventInv'
<1> /\ "opened" \in Phase /\ "asking" \in Phase
  BY DEF Phase, Connected, Requesting
<1>1. CASE Opened(p)
  BY <1>1, PhaseStep DEF Opened
<1>2. CASE GivesUp(p)
  BY <1>2, PhaseStep DEF GivesUp
<1>3. CASE TimedOut(p)
  BY <1>3, PhaseStep DEF TimedOut
<1>4. CASE Retry(p)
  BY <1>4, PhaseStep DEF Retry
<1> QED BY <1>1, <1>2, <1>3, <1>4

LEMMA LoadKeeps ==
    ASSUME EventInv, NEW p \in Pages, Load(p)
    PROVE  EventInv'
<1> DEFINE ph == IF p \in HasWebSocket THEN "connecting" ELSE "asking"
<1>1. /\ phase[p] = "new" /\ phase' = [phase EXCEPT ![p] = ph]
      /\ start' = [start EXCEPT ![p] = message_id]
      /\ last' = [last EXCEPT ![p] = message_id]
      /\ UNCHANGED <<message_id, messages, followers, pollers, socketLast, seen,
                     sent, faults, posted, evicted, from>>
  BY DEF Load, daemon, history
<1>2. ph \in {"connecting", "asking"} /\ ph \in Phase /\ message_id \in Id
  <2>1. ph = "connecting" \/ ph = "asking"
    OBVIOUS
  <2>2. message_id \in Id
    BY ConstantsAssumption DEF EventInv, TypeOK, Id
  <2> HIDE DEF ph
  <2> QED BY <2>1, <2>2 DEF Phase, Connected, Requesting
<1> HIDE DEF ph
<1>3. TypeOK'
  BY <1>1, <1>2 DEF EventInv, TypeOK
<1>4. QueueInOrder'
  <2>1. \A q \in Pages : start'[q] <= message_id /\ last'[q] <= message_id
                          /\ from'[q] <= message_id
    BY <1>1, <1>2 DEF EventInv, TypeOK, QueueInOrder, Id
  <2> QED BY <1>1, <2>1, QueueSame DEF EventInv
<1>5. \A q \in Pages \ {p} : PageInOrder(q)'
  BY <1>1, PageSame DEF EventInv, TypeOK
<1>6. seen[p] = {} /\ sent[p] = <<>>
  BY <1>1 DEF EventInv, PageInOrder, TypeOK
<1>7. PageInOrder(p)'
  BY <1>1, <1>2, <1>6 DEF EventInv, TypeOK, PageInOrder, Fresh
<1> QED BY <1>3, <1>4, <1>5, <1>7 DEF EventInv

LEMMA StartMsgKeeps ==
    ASSUME EventInv, NEW p \in Pages, StartMsg(p)
    PROVE  EventInv'
<1>1. /\ phase[p] = "opened" /\ phase' = [phase EXCEPT ![p] = "started"]
      /\ socketLast' = [socketLast EXCEPT ![p] = start[p]]
      /\ UNCHANGED <<message_id, messages, followers, pollers, start, last, seen,
                     sent, faults, posted, evicted, from>>
  BY DEF StartMsg, history
<1>2. TypeOK'
  <2> "started" \in Phase
    BY DEF Phase, Connected
  <2> QED BY <1>1 DEF EventInv, TypeOK
<1>3. QueueInOrder'
  BY <1>1, QueueSame DEF EventInv, QueueInOrder
<1>4. \A q \in Pages \ {p} : PageInOrder(q)'
  BY <1>1, PageSame DEF EventInv, TypeOK
<1>5. PageInOrder(p)'
  BY <1>1 DEF EventInv, TypeOK, PageInOrder, Fresh
<1> QED BY <1>2, <1>3, <1>4, <1>5 DEF EventInv

\* The message a page is handed is the next one of its channel.
LEMMA Handed ==
    ASSUME EventInv, NEW p \in Pages,
           (phase[p] = "following" /\ sent[p] # <<>>) \/ phase[p] = "answered"
    PROVE  /\ Head(sent[p]) \in posted /\ For(Head(sent[p]), p)
           /\ Head(sent[p]).id \in Id /\ Head(sent[p]).id <= message_id
           /\ Head(sent[p]).id > last[p]
<1> DEFINE m == Head(sent[p])
<1>1. m \in posted /\ For(m, p) /\ m.id > last[p]
  <2>1. CASE phase[p] = "answered"
    BY <2>1 DEF EventInv, PageInOrder
  <2>2. CASE phase[p] = "following" /\ sent[p] # <<>>
    <3>1. sent[p] \in Seq(Message)
      BY DEF EventInv, TypeOK
    <3>2. 1 \in DOMAIN sent[p] /\ m = sent[p][1]
      BY <2>2, <3>1
    <3>3. m \in ToSet(sent[p])
      BY <3>2 DEF ToSet
    <3>4. m \in Followed(p)
      BY <2>2, <3>3 DEF EventInv, PageInOrder
    <3> QED BY <2>2, <3>2, <3>4 DEF EventInv, PageInOrder, Followed
  <2> QED BY <2>1, <2>2
<1>2. m.id \in Id /\ m.id <= message_id
  BY <1>1 DEF EventInv, TypeOK, Message, Id, QueueInOrder
<1> QED BY <1>1, <1>2

LEMMA ReceiveKeeps ==
    ASSUME EventInv, NEW p \in Pages, Receive(p)
    PROVE  EventInv'
<1> DEFINE m == Head(sent[p])
<1>1. /\ phase[p] = "following" /\ sent[p] # <<>>
      /\ seen' = [seen EXCEPT ![p] = @ \union {m}]
      /\ last' = [last EXCEPT ![p] = m.id]
      /\ sent' = [sent EXCEPT ![p] = Tail(@)]
      /\ UNCHANGED <<message_id, messages, followers, pollers, socketLast, phase, start,
                     faults, posted, evicted, from>>
  BY DEF Receive, daemon, history
<1>2. m \in posted /\ m.id \in Id /\ m.id <= message_id
  BY <1>1, Handed
<1>3. sent[p] \in Seq(Message) /\ seen[p] \subseteq posted
  BY DEF EventInv, TypeOK
<1>4. TypeOK'
  <2>1. Tail(sent[p]) \in Seq(Message)
    BY <1>1, <1>3
  <2> QED BY <1>1, <1>2, <1>3, <2>1 DEF EventInv, TypeOK
<1>5. QueueInOrder'
  <2>1. \A q \in Pages : start'[q] <= message_id /\ last'[q] <= message_id
                          /\ from'[q] <= message_id
    BY <1>1, <1>2 DEF EventInv, TypeOK, QueueInOrder, Id
  <2> QED BY <1>1, <2>1, QueueSame DEF EventInv
<1>6. \A q \in Pages \ {p} : PageInOrder(q)'
  BY <1>1, PageSame DEF EventInv, TypeOK
<1>7. PageInOrder(p)'
  <2> DEFINE t == Tail(sent[p])
  <2>1. /\ \A i \in DOMAIN t : i + 1 \in DOMAIN sent[p] /\ t[i] = sent[p][i + 1]
                               /\ 1 < i + 1 /\ i \in Nat
        /\ \A i \in DOMAIN sent[p] : i = 1 \/ (i - 1 \in DOMAIN t /\ t[i - 1] = sent[p][i])
        /\ 1 \in DOMAIN sent[p] /\ m = sent[p][1]
    BY <1>1, <1>3
  <2>2. sent'[p] = t /\ seen'[p] = seen[p] \union {m} /\ last'[p] = m.id
    BY <1>1 DEF EventInv, TypeOK
  <2>3. ToSet(sent[p]) = ToSet(t) \union {m}
    <3> HIDE DEF t, m
    <3> QED BY <2>1 DEF ToSet
  <2>4. /\ seen[p] \union ToSet(sent[p]) = Followed(p)
        /\ \A i, k \in DOMAIN sent[p] : i < k => sent[p][i].id < sent[p][k].id
    BY <1>1 DEF EventInv, PageInOrder
  <2> HIDE DEF t, m
  <2>5. seen'[p] \union ToSet(sent'[p]) = Followed(p)'
    <3>1. Followed(p)' = Followed(p)
      BY <1>1 DEF Followed, For
    <3> QED BY <2>2, <2>3, <2>4, <3>1
  <2>6. \A i \in DOMAIN t : t[i].id > m.id
    BY <2>1, <2>4
  <2>7. \A i, k \in DOMAIN t : i < k => t[i].id < t[k].id
    BY <2>1, <2>4
  <2> QED BY <1>1, <2>2, <2>5, <2>6, <2>7 DEF PageInOrder
<1> QED BY <1>4, <1>5, <1>6, <1>7 DEF EventInv

LEMMA SuccessKeeps ==
    ASSUME EventInv, NEW p \in Pages, Success(p)
    PROVE  EventInv'
<1> DEFINE m == Head(sent[p])
<1>1. /\ phase[p] = "answered" /\ phase' = [phase EXCEPT ![p] = "asking"]
      /\ seen' = [seen EXCEPT ![p] = @ \union {m}]
      /\ last' = [last EXCEPT ![p] = m.id]
      /\ sent' = [sent EXCEPT ![p] = <<>>]
      /\ UNCHANGED <<message_id, messages, followers, pollers, socketLast, start,
                     faults, posted, evicted, from>>
  BY DEF Success, daemon, history
<1>2. m \in posted /\ m.id \in Id /\ m.id <= message_id
  BY <1>1, Handed
<1> HIDE DEF m
<1>3. TypeOK'
  <2>1. "asking" \in Phase /\ <<>> \in Seq(Message)
    BY DEF Phase, Requesting
  <2> QED BY <1>1, <1>2, <2>1 DEF EventInv, TypeOK
<1>4. QueueInOrder'
  <2>1. \A q \in Pages : start'[q] <= message_id /\ last'[q] <= message_id
                          /\ from'[q] <= message_id
    BY <1>1, <1>2 DEF EventInv, TypeOK, QueueInOrder, Id
  <2> QED BY <1>1, <2>1, QueueSame DEF EventInv
<1>5. \A q \in Pages \ {p} : PageInOrder(q)'
  BY <1>1, PageSame DEF EventInv, TypeOK
<1>6. PageInOrder(p)'
  BY <1>1 DEF EventInv, TypeOK, PageInOrder
<1> QED BY <1>3, <1>4, <1>5, <1>6 DEF EventInv

LEMMA BreaksKeeps ==
    ASSUME EventInv, NEW p \in Pages, Breaks(p)
    PROVE  EventInv'
<1>1. /\ phase[p] \in Connected /\ phase' = [phase EXCEPT ![p] = "closed"]
      /\ followers' = followers \ {p} /\ sent' = [sent EXCEPT ![p] = <<>>]
      /\ faults < MaxFaults /\ faults' = faults + 1
      /\ UNCHANGED <<message_id, messages, pollers, socketLast, start, last, seen,
                     posted, evicted, from>>
  BY DEF Breaks, history
<1>2. TypeOK'
  <2>1. "closed" \in Phase /\ <<>> \in Seq(Message) /\ phase[p] # "waiting"
    BY <1>1 DEF Phase, Connected
  <2>2. faults' \in 0 .. MaxFaults
    BY <1>1, ConstantsAssumption DEF EventInv, TypeOK
  <2> QED BY <1>1, <2>1, <2>2 DEF EventInv, TypeOK
<1>3. QueueInOrder'
  BY <1>1, QueueSame DEF EventInv, QueueInOrder
<1>4. \A q \in Pages \ {p} : PageInOrder(q)'
  BY <1>1, PageSame DEF EventInv, TypeOK
<1>5. PageInOrder(p)'
  BY <1>1 DEF EventInv, TypeOK, PageInOrder
<1> QED BY <1>2, <1>3, <1>4, <1>5 DEF EventInv

\* pollers.remove takes the pages of A out, and no other.
LEMMA PollersWithout ==
    ASSUME EventInv, NEW A
    PROVE  /\ Only(pollers, Pages \ A) \in Seq(Pages)
           /\ IsInjective(Only(pollers, Pages \ A))
           /\ Range(Only(pollers, Pages \ A)) = Range(pollers) \ A
<1> DEFINE r == Only(pollers, Pages \ A)
<1>1. pollers \in Seq(Pages) /\ IsInjective(pollers)
  BY DEF EventInv, TypeOK
<1>2. r \in Seq(Pages) /\ Selected(pollers, Pages \ A, Len(pollers), r)
  BY <1>1, OnlySelects
<1>3. DOMAIN pollers = 1 .. Len(pollers) /\ \A k \in DOMAIN pollers : pollers[k] \in Pages
  BY <1>1
<1> HIDE DEF r
<1>4. IsInjective(r)
  <2> SUFFICES ASSUME NEW a \in DOMAIN r, NEW b \in DOMAIN r, r[a] = r[b], a # b
               PROVE  FALSE
    BY DEF IsInjective
  <2>1. \A c, d \in DOMAIN r : c < d => r[c] # r[d]
    <3> SUFFICES ASSUME NEW c \in DOMAIN r, NEW d \in DOMAIN r, c < d PROVE r[c] # r[d]
      OBVIOUS
    <3>1. \E k, l \in 1 .. Len(pollers) : k < l /\ r[c] = pollers[k] /\ r[d] = pollers[l]
      BY <1>2, Zenon DEF Selected
    <3>2. PICK k \in DOMAIN pollers, l \in DOMAIN pollers :
              k < l /\ r[c] = pollers[k] /\ r[d] = pollers[l]
      BY <3>1
    <3>3. k # l
      BY <1>3, <3>2
    <3> QED BY <1>1, <3>2, <3>3 DEF IsInjective
  <2>2. a \in Nat /\ b \in Nat
    BY <1>2
  <2> QED BY <2>1, <2>2
<1>5. Range(r) = Range(pollers) \ A
  <2>1. ASSUME NEW x \in Range(r) PROVE x \in Range(pollers) \ A
    BY <1>2, <1>3 DEF Selected, Range
  <2>2. ASSUME NEW x \in Range(pollers), x \notin A PROVE x \in Range(r)
    <3>1. PICK k \in DOMAIN pollers : pollers[k] = x
      BY DEF Range
    <3>2. \E a \in DOMAIN r : r[a] = pollers[k]
      BY <1>2, <1>3, <2>2, <3>1 DEF Selected
    <3> QED BY <3>1, <3>2 DEF Range
  <2> QED BY <2>1, <2>2
<1> QED BY <1>2, <1>4, <1>5 DEF r

\* PollTimeout and PollFails: the daemon forgets a request.
LEMMA ForgottenKeeps ==
    ASSUME EventInv, NEW p \in Pages, NEW ph \in {"timed out", "pausing"},
           phase[p] \in Requesting,
           pollers' = Only(pollers, Pages \ {p}),
           phase' = [phase EXCEPT ![p] = ph],
           sent' = [sent EXCEPT ![p] = <<>>],
           faults' \in 0 .. MaxFaults,
           UNCHANGED <<message_id, messages, followers, socketLast, start, last, seen,
                       posted, evicted, from>>
    PROVE  EventInv'
<1>1. TypeOK'
  <2>1. ph \notin {"following", "waiting"} /\ phase[p] # "following" /\ ph \in Phase
    BY DEF Phase, Requesting
  <2>3. <<>> \in Seq(Message)
    BY NoMessages
  <2>2. pollers' \in Seq(Pages) /\ IsInjective(pollers') /\ Range(pollers') = Range(pollers) \ {p}
    BY PollersWithout
  <2> QED BY <2>3, <2>1, <2>2 DEF EventInv, TypeOK
<1>2. QueueInOrder'
  BY QueueSame DEF EventInv, QueueInOrder
<1>3. \A q \in Pages \ {p} : PageInOrder(q)'
  BY PageSame DEF EventInv, TypeOK
<1>4. PageInOrder(p)'
  <2>1. phase'[p] = ph /\ sent'[p] = <<>>
    BY DEF EventInv, TypeOK
  <2>2. ph = "timed out" \/ ph = "pausing"
    OBVIOUS
  <2> QED BY <2>1, <2>2 DEF PageInOrder
<1> QED BY <1>1, <1>2, <1>3, <1>4 DEF EventInv

LEMMA PollTimeoutKeeps ==
    ASSUME EventInv, NEW p \in Pages, PollTimeout(p)
    PROVE  EventInv'
<1>1. sent[p] = <<>> /\ sent' = sent
  BY DEF PollTimeout, EventInv, PageInOrder
<1>2. sent' = [sent EXCEPT ![p] = <<>>]
  BY <1>1 DEF EventInv, TypeOK
<1>3. faults' \in 0 .. MaxFaults
  BY DEF PollTimeout, EventInv, TypeOK
<1>4. phase[p] \in Requesting
  BY DEF PollTimeout, Requesting
<1> QED BY <1>2, <1>3, <1>4, ForgottenKeeps DEF PollTimeout, history

LEMMA PollFailsKeeps ==
    ASSUME EventInv, NEW p \in Pages, PollFails(p)
    PROVE  EventInv'
<1>1. faults' \in 0 .. MaxFaults
  BY ConstantsAssumption DEF PollFails, EventInv, TypeOK
<1> QED BY <1>1, ForgottenKeeps DEF PollFails, history

\* The queue knows no message of a page that it should not be given.
LEMMA FirstIsFor ==
    ASSUME EventInv, NEW p \in Pages, NEW m \in FirstFor(p, last[p])
    PROVE  m \in posted /\ m \in Message /\ For(m, p) /\ m.id > last[p]
<1>1. m \in ToSet(messages) /\ For(m, p) /\ m.id > last[p]
  BY DEF FirstFor, ToSet
<1> QED BY <1>1 DEF EventInv, QueueInOrder, TypeOK

LEMMA PollArrivesKeeps ==
    ASSUME EventInv, NEW p \in Pages, PollArrives(p)
    PROVE  EventInv'
<1> DEFINE first == FirstFor(p, last[p])
<1>1. /\ phase[p] = "asking"
      /\ UNCHANGED <<message_id, messages, followers, socketLast, start, last, seen,
                     faults, posted, evicted, from>>
  BY DEF PollArrives, history
<1>2. QueueInOrder'
  BY <1>1, QueueSame DEF EventInv, QueueInOrder
<1>3. CASE first # {}
  <2>1. PICK m \in first : sent' = [sent EXCEPT ![p] = <<m>>]
    BY <1>3 DEF PollArrives
  <2>2. phase' = [phase EXCEPT ![p] = "answered"] /\ pollers' = pollers
    BY <1>3 DEF PollArrives
  <2>3. m \in posted /\ m \in Message /\ For(m, p) /\ m.id > last[p]
    BY FirstIsFor
  <2> HIDE DEF first
  <2>4. TypeOK'
    <3>1. "answered" \in Phase /\ <<m>> \in Seq(Message)
      BY <2>3 DEF Phase, Requesting
    <3> QED BY <1>1, <2>1, <2>2, <3>1 DEF EventInv, TypeOK
  <2>5. \A q \in Pages \ {p} : PageInOrder(q)'
    BY <1>1, <2>1, <2>2, PageSame DEF EventInv, TypeOK
  <2>6. PageInOrder(p)'
    BY <1>1, <2>1, <2>2, <2>3 DEF EventInv, TypeOK, PageInOrder, For
  <2> QED BY <1>2, <2>4, <2>5, <2>6 DEF EventInv
<1>4. CASE first = {}
  <2>1. /\ pollers' = Append(pollers, p) /\ sent' = sent
        /\ phase' = [phase EXCEPT ![p] = "waiting"]
    BY <1>4 DEF PollArrives
  <2>2. TypeOK'
    <3>1. "waiting" \in Phase
      BY DEF Phase, Requesting
    <3>2. pollers \in Seq(Pages) /\ p \notin Range(pollers)
      BY <1>1 DEF EventInv, TypeOK
    <3>3. /\ pollers' \in Seq(Pages)
          /\ \A i \in DOMAIN pollers : i \in DOMAIN pollers' /\ pollers'[i] = pollers[i]
          /\ \A i \in DOMAIN pollers' : i \in DOMAIN pollers \/ i = Len(pollers) + 1
          /\ Len(pollers) + 1 \in DOMAIN pollers' /\ pollers'[Len(pollers) + 1] = p
      BY <2>1, <3>2
    <3>4. IsInjective(pollers')
      <4>1. \A i \in DOMAIN pollers : pollers[i] # p
        BY <3>2 DEF Range
      <4>2. \A a, b \in DOMAIN pollers : pollers[a] = pollers[b] => a = b
        BY DEF EventInv, TypeOK, IsInjective
      <4> QED BY <3>3, <4>1, <4>2, Zenon DEF IsInjective
    <3>5. Range(pollers') = Range(pollers) \union {p}
      BY <3>3 DEF Range
    <3> QED BY <1>1, <2>1, <3>1, <3>3, <3>4, <3>5 DEF EventInv, TypeOK
  <2>3. \A q \in Pages \ {p} : PageInOrder(q)'
    BY <1>1, <2>1, PageSame DEF EventInv, TypeOK
  <2>4. PageInOrder(p)'
    <3>1. phase'[p] = "waiting" /\ sent'[p] = <<>>
      BY <1>1, <2>1 DEF EventInv, TypeOK, PageInOrder
    <3> QED BY <3>1 DEF PageInOrder
  <2> QED BY <1>2, <2>2, <2>3, <2>4 DEF EventInv
<1> QED BY <1>3, <1>4

LEMMA RestartKeeps ==
    ASSUME EventInv, Restart
    PROVE  EventInv'
<1>1. /\ faults < MaxFaults /\ message_id < MaxId
      /\ faults' = faults + 1 /\ message_id' = message_id + 1
      /\ messages' = <<>> /\ followers' = {} /\ pollers' = <<>>
      /\ socketLast' = [p \in Pages |-> 0]
      /\ sent' = [p \in Pages |-> <<>>]
      /\ evicted' = message_id'
      /\ UNCHANGED <<start, last, seen, posted, from>>
  BY DEF Restart
<1>2. /\ phase' \in [Pages -> Phase]
      /\ \A p \in Pages : \/ phase[p] \in Connected /\ phase'[p] = "closed"
                          \/ phase[p] \in Requesting /\ phase'[p] = "pausing"
                          \/ /\ phase[p] \notin Connected \union Requesting
                             /\ phase'[p] = phase[p]
  <2> DEFINE ph(p) == CASE phase[p] \in Connected -> "closed"
                        [] phase[p] \in Requesting -> "pausing"
                        [] OTHER -> phase[p]
  <2>1. phase' = [p \in Pages |-> ph(p)]
    BY DEF Restart
  <2>2. ASSUME NEW p \in Pages
        PROVE  /\ \/ phase[p] \in Connected /\ ph(p) = "closed"
                  \/ phase[p] \in Requesting /\ ph(p) = "pausing"
                  \/ phase[p] \notin Connected \union Requesting /\ ph(p) = phase[p]
               /\ ph(p) \in Phase
    BY <2>2 DEF EventInv, TypeOK, Phase, Connected, Requesting
  <2> HIDE DEF ph
  <2> QED BY <2>1, <2>2
<1>3. \A p \in Pages : phase'[p] \notin {"following", "waiting", "answered", "opened", "started"}
  BY <1>2 DEF Connected, Requesting
<1>4. TypeOK'
  <2>1. /\ message_id' \in 1 .. MaxId /\ evicted' \in Id /\ faults' \in 0 .. MaxFaults
    BY <1>1, ConstantsAssumption DEF EventInv, TypeOK, Id
  <2>2. /\ messages' \in Seq(Message) /\ Len(messages') <= MaxQueue
        /\ pollers' \in Seq(Pages) /\ IsInjective(pollers') /\ Range(pollers') = {}
        /\ sent' \in [Pages -> Seq(Message)]
    BY <1>1, ConstantsAssumption DEF IsInjective, Range
  <2>3. followers' = {p \in Pages : phase'[p] = "following"}
        /\ Range(pollers') = {p \in Pages : phase'[p] = "waiting"}
    BY <1>1, <1>3, <2>2
  <2>4. socketLast' \in [Pages -> Id]
    BY <1>1, ConstantsAssumption DEF Id
  <2> QED BY <1>1, <1>2, <2>1, <2>2, <2>3, <2>4 DEF EventInv, TypeOK
<1>5. QueueInOrder'
  <2>1. ToSet(messages') = {} /\ DOMAIN messages' = {}
    BY <1>1 DEF ToSet
  <2>2. message_id \in Nat /\ \A m \in posted : m.id \in Nat
    BY DEF EventInv, TypeOK, Message
  <2>3. \A p \in Pages : start[p] \in Nat /\ last[p] \in Nat /\ from[p] \in Nat
    BY ConstantsAssumption DEF EventInv, TypeOK, Id
  <2> QED BY <1>1, <2>1, <2>2, <2>3 DEF EventInv, QueueInOrder
<1>6. ASSUME NEW p \in Pages PROVE PageInOrder(p)'
  <2>1. phase'[p] \in {"new", "connecting"} => phase'[p] = phase[p]
    BY <1>2
  <2>2. sent'[p] = <<>>
    BY <1>1
  <2> QED BY <1>1, <1>3, <2>1, <2>2 DEF EventInv, PageInOrder, Fresh
<1> QED BY <1>4, <1>5, <1>6 DEF EventInv

\* catch_up sends the messages of the queue after n that are for the page, in order.
LEMMA CatchUpSends ==
    ASSUME EventInv, NEW p \in Pages, NEW n
    PROVE  /\ CatchUp(p, n) \in Seq(Message)
           /\ ToSet(CatchUp(p, n)) = {m \in posted : m.id > evicted /\ m.id > n /\ For(m, p)}
           /\ \A i, k \in DOMAIN CatchUp(p, n) : i < k => CatchUp(p, n)[i].id < CatchUp(p, n)[k].id
<1> DEFINE S == {m \in Message : m.id > n /\ For(m, p)}
           r == Only(messages, S)
<1>1. messages \in Seq(Message) /\ DOMAIN messages = 1 .. Len(messages)
  BY DEF EventInv, TypeOK
<1>2. r \in Seq(Message) /\ Selected(messages, S, Len(messages), r)
  BY <1>1, OnlySelects
<1>3. CatchUp(p, n) = r
  BY DEF CatchUp
<1>4. /\ \A m \in ToSet(messages) : m \in posted /\ m \in Message /\ m.id > evicted
      /\ \A m \in posted : m.id > evicted => m \in ToSet(messages)
  BY DEF EventInv, QueueInOrder, TypeOK
<1> HIDE DEF r
<1>5. ASSUME NEW m \in ToSet(r)
      PROVE  m \in posted /\ m.id > evicted /\ m.id > n /\ For(m, p)
  <2>1. \E k \in 1 .. Len(messages) : m = messages[k] /\ messages[k] \in S
    BY <1>2 DEF ToSet, Selected
  <2>2. m \in ToSet(messages) /\ m \in S
    BY <1>1, <2>1 DEF ToSet
  <2> QED BY <1>4, <2>2
<1>6. ASSUME NEW m \in posted, m.id > evicted, m.id > n, For(m, p)
      PROVE  m \in ToSet(r)
  <2>1. m \in ToSet(messages) /\ m \in S
    BY <1>4, <1>6
  <2>2. \E k \in 1 .. Len(messages) : m = messages[k]
    BY <1>1, <2>1 DEF ToSet
  <2>3. \E a \in DOMAIN r : r[a] = m
    BY <1>2, <2>1, <2>2 DEF Selected
  <2> QED BY <2>3 DEF ToSet
<1>7. ASSUME NEW i \in DOMAIN r, NEW k \in DOMAIN r, i < k
      PROVE  r[i].id < r[k].id
  <2>1. \E a, b \in 1 .. Len(messages) : a < b /\ r[i] = messages[a] /\ r[k] = messages[b]
    BY <1>2, <1>7, Zenon DEF Selected
  <2>2. PICK a \in 1 .. Len(messages), b \in 1 .. Len(messages) :
            a < b /\ r[i] = messages[a] /\ r[k] = messages[b]
    BY <2>1
  <2> QED BY <1>1, <2>2 DEF EventInv, QueueInOrder
<1>8. ToSet(r) = {m \in posted : m.id > evicted /\ m.id > n /\ For(m, p)}
  BY <1>5, <1>6
<1> QED BY <1>2, <1>3, <1>7, <1>8

LEMMA SetFilterKeeps ==
    ASSUME EventInv, NEW p \in Pages, SetFilter(p)
    PROVE  EventInv'
<1> DEFINE r == CatchUp(p, start[p])
           new == IF messages # <<>> /\ Last(messages).id > socketLast[p]
                  THEN Last(messages).id ELSE socketLast[p]
           first == IF evicted > start[p] THEN evicted ELSE start[p]
<1>1. /\ phase[p] = "started" /\ phase' = [phase EXCEPT ![p] = "following"]
      /\ followers' = followers \union {p}
      /\ sent' = [sent EXCEPT ![p] = @ \o CatchUp(p, socketLast[p])]
      /\ socketLast' = [socketLast EXCEPT ![p] = new]
      /\ from' = [from EXCEPT ![p] = first]
      /\ UNCHANGED <<message_id, messages, pollers, start, last, seen, faults, posted, evicted>>
  BY DEF SetFilter
<1>2. /\ socketLast[p] = start[p] /\ sent[p] = <<>> /\ last[p] = start[p] /\ seen[p] = {}
  BY <1>1 DEF EventInv, PageInOrder, Fresh
<1>3. /\ r \in Seq(Message)
      /\ ToSet(r) = {m \in posted : m.id > evicted /\ m.id > start[p] /\ For(m, p)}
      /\ \A i, k \in DOMAIN r : i < k => r[i].id < r[k].id
  BY CatchUpSends
<1>4. /\ start[p] \in Id /\ start[p] <= message_id /\ socketLast[p] \in Id
      /\ evicted \in Id /\ evicted <= message_id
  BY DEF EventInv, TypeOK, QueueInOrder
<1>5. new \in Id
  <2>1. messages # <<>> => Last(messages) \in Message
    BY DEF EventInv, TypeOK, Last
  <2>2. messages # <<>> => Last(messages).id \in Id
    BY <2>1, ConstantsAssumption DEF Message, Id
  <2> QED BY <1>4, <2>2
<1>6. first \in Id /\ first <= message_id
  BY <1>4
<1> HIDE DEF r, new
<1>7. sent' = [sent EXCEPT ![p] = r]
  <2>1. <<>> \o CatchUp(p, start[p]) = CatchUp(p, start[p])
    BY <1>3 DEF r
  <2> QED BY <1>1, <1>2, <2>1 DEF r, EventInv, TypeOK
<1>8. TypeOK'
  <2>1. "following" \in Phase
    BY DEF Phase, Connected
  <2> HIDE DEF first
  <2>2. /\ phase' \in [Pages -> Phase] /\ sent' \in [Pages -> Seq(Message)]
        /\ socketLast' \in [Pages -> Id] /\ from' \in [Pages -> Id]
    BY <1>1, <1>3, <1>5, <1>6, <1>7, <2>1 DEF EventInv, TypeOK
  <2>3. /\ followers' = {q \in Pages : phase'[q] = "following"}
        /\ {q \in Pages : phase'[q] = "waiting"} = {q \in Pages : phase[q] = "waiting"}
    BY <1>1 DEF EventInv, TypeOK
  <2> QED BY <1>1, <2>2, <2>3 DEF EventInv, TypeOK
<1>9. QueueInOrder'
  <2>1. \A q \in Pages : start'[q] <= message_id /\ last'[q] <= message_id
                          /\ from'[q] <= message_id
    BY <1>1, <1>6 DEF EventInv, TypeOK, QueueInOrder, Id
  <2> QED BY <1>1, <2>1, QueueSame DEF EventInv
<1>10. \A q \in Pages \ {p} : PageInOrder(q)'
  <2> HIDE DEF first
  <2> QED BY <1>1, <1>7, PageSame DEF EventInv, TypeOK
<1>11. PageInOrder(p)'
  <2>1. /\ sent'[p] = r /\ seen'[p] = {} /\ last'[p] = start[p] /\ phase'[p] = "following"
        /\ from'[p] = first
    BY <1>1, <1>2, <1>7 DEF EventInv, TypeOK
  <2>2. Followed(p)' = {m \in posted : For(m, p) /\ m.id > first}
    BY <1>1, <2>1 DEF Followed, For
  <2>3. \A m \in posted : m.id \in Nat
    BY DEF EventInv, TypeOK, Message
  <2>4. \A m \in posted : m.id > first <=> m.id > evicted /\ m.id > start[p]
    BY <1>4, <2>3, ConstantsAssumption DEF Id
  <2> HIDE DEF first
  <2>5. Followed(p)' = ToSet(r)
    BY <1>3, <2>2, <2>4
  <2>6. \A i \in DOMAIN r : r[i].id > start[p]
    BY <1>3 DEF ToSet
  <2>7. ToSet(sent'[p]) = ToSet(r)
    BY <2>1
  <2>8. seen'[p] \union ToSet(sent'[p]) = Followed(p)'
    BY <2>1, <2>5, <2>7
  <2> QED BY <1>3, <2>1, <2>6, <2>8 DEF PageInOrder
<1> QED BY <1>8, <1>9, <1>10, <1>11 DEF EventInv

-----------------------------------------------------------------------------
(* Posting a message.                                                        *)

\* The queue keeps the last messages.
LEMMA PushKeeps ==
    ASSUME EventInv, NEW m \in Message, m.id = message_id + 1,
           messages' = Push(m), posted' = posted \union {m},
           evicted' = IF Len(messages) = MaxQueue THEN Head(messages).id ELSE evicted
    PROVE  /\ messages' \in Seq(Message) /\ Len(messages') <= MaxQueue
           /\ \A i, k \in DOMAIN messages' : i < k => messages'[i].id < messages'[k].id
           /\ ToSet(messages') = {x \in posted' : x.id > evicted'}
           /\ evicted' \in Id /\ evicted' <= message_id
<1> DEFINE q == Append(messages, m)
<1>1. /\ messages \in Seq(Message) /\ Len(messages) <= MaxQueue /\ Len(messages) \in Nat
      /\ MaxQueue \in Nat \ {0} /\ evicted \in Id /\ evicted <= message_id
      /\ message_id \in Nat /\ posted \subseteq Message
  BY ConstantsAssumption DEF EventInv, TypeOK, QueueInOrder
<1>2. /\ q \in Seq(Message) /\ Len(q) = Len(messages) + 1 /\ DOMAIN q = 1 .. Len(q)
      /\ \A i \in DOMAIN messages : i \in DOMAIN q /\ q[i] = messages[i] /\ i < Len(q)
      /\ \A i \in DOMAIN q : i \in DOMAIN messages \/ i = Len(q)
      /\ Len(q) \in DOMAIN q /\ q[Len(q)] = m
  BY <1>1
<1>3. /\ \A i \in DOMAIN messages : messages[i] \in posted /\ messages[i].id > evicted
                                   /\ messages[i].id <= message_id /\ messages[i].id \in Nat
      /\ \A x \in posted : x.id > evicted => \E i \in DOMAIN messages : messages[i] = x
      /\ \A i, k \in DOMAIN messages : i < k => messages[i].id < messages[k].id
  <2>1. /\ \A x \in ToSet(messages) : x \in posted /\ x.id > evicted
        /\ \A x \in posted : x.id > evicted => x \in ToSet(messages)
        /\ \A x \in posted : x.id <= message_id /\ x.id \in Nat
    BY <1>1 DEF EventInv, QueueInOrder, Message
  <2> QED BY <2>1 DEF ToSet, EventInv, QueueInOrder
<1> HIDE DEF q
<1>4. \A i, k \in DOMAIN q : i < k => q[i].id < q[k].id
  <2> SUFFICES ASSUME NEW i \in DOMAIN q, NEW k \in DOMAIN q, i < k PROVE q[i].id < q[k].id
    OBVIOUS
  <2>1. i \in DOMAIN messages
    BY <1>2
  <2>2. CASE k \in DOMAIN messages
    BY <1>2, <1>3, <2>1, <2>2
  <2>3. CASE k = Len(q)
    BY <1>1, <1>2, <1>3, <2>1, <2>3
  <2> QED BY <1>2, <2>2, <2>3
<1>5. CASE Len(messages) # MaxQueue
  <2>1. messages' = q /\ evicted' = evicted /\ Len(q) <= MaxQueue
    BY <1>1, <1>2, <1>5 DEF Push, q
  <2>2. ASSUME NEW x \in ToSet(q) PROVE x \in posted' /\ x.id > evicted
    BY <1>1, <1>2, <1>3, ConstantsAssumption DEF ToSet, Id
  <2>3. ASSUME NEW x \in posted', x.id > evicted PROVE x \in ToSet(q)
    BY <1>2, <1>3, <2>3 DEF ToSet
  <2>4. ToSet(q) = {x \in posted' : x.id > evicted}
    BY <2>2, <2>3
  <2> QED BY <1>1, <1>2, <1>4, <2>1, <2>4
<1>6. CASE Len(messages) = MaxQueue
  <2> DEFINE t == Tail(q)
             h == messages[1]
  <2>1. 1 \in DOMAIN messages /\ Head(messages) = h /\ q[1] = h /\ q # <<>>
    BY <1>1, <1>2, <1>6
  <2>2. messages' = t /\ evicted' = h.id
    BY <1>1, <1>2, <1>6, <2>1 DEF Push, q
  <2>3. /\ t \in Seq(Message) /\ Len(t) = Len(messages)
        /\ \A i \in DOMAIN t : i \in Nat /\ i + 1 \in DOMAIN q /\ t[i] = q[i + 1] /\ 1 < i + 1
        /\ \A i \in DOMAIN q : i = 1 \/ (i - 1 \in DOMAIN t /\ t[i - 1] = q[i])
    BY <1>1, <1>2, <2>1
  <2> HIDE DEF t
  <2>4. 1 \in DOMAIN q /\ h \in posted /\ h.id > evicted /\ h.id <= message_id /\ h.id \in Nat
    BY <1>2, <1>3, <2>1
  <2>5. ASSUME NEW i \in DOMAIN t, NEW k \in DOMAIN t, i < k PROVE t[i].id < t[k].id
    <3>1. i + 1 < k + 1 /\ i + 1 \in DOMAIN q /\ k + 1 \in DOMAIN q
      BY <2>3, <2>5
    <3>2. q[i + 1].id < q[k + 1].id
      BY <1>4, <3>1
    <3> QED BY <2>3, <3>2
  <2>6. ASSUME NEW x \in ToSet(t) PROVE x \in posted' /\ x.id > h.id
    <3>1. PICK i \in DOMAIN t : x = t[i]
      BY DEF ToSet
    <3>2. i + 1 \in DOMAIN q /\ x = q[i + 1] /\ 1 < i + 1
      BY <2>3, <3>1
    <3>3. x.id > h.id
      BY <1>4, <2>1, <2>3, <2>4, <3>2
    <3>4. x \in posted'
      BY <1>2, <1>3, <3>2
    <3> QED BY <3>3, <3>4
  <2>7. ASSUME NEW x \in posted', x.id > h.id PROVE x \in ToSet(t)
    <3>1. \E i \in DOMAIN q : q[i] = x
      <4>1. CASE x = m
        BY <1>2, <4>1
      <4>2. CASE x \in posted
        <5>1. x.id > evicted
          BY <1>1, <2>4, <2>7, <4>2, ConstantsAssumption DEF Message, Id
        <5> QED BY <1>2, <1>3, <4>2, <5>1
      <4> QED BY <4>1, <4>2
    <3>2. PICK i \in DOMAIN q : q[i] = x
      BY <3>1
    <3>3. i # 1
      BY <2>1, <2>4, <2>7, <3>2
    <3> QED BY <2>3, <3>2, <3>3 DEF ToSet
  <2>8. ToSet(t) = {x \in posted' : x.id > h.id}
    BY <2>6, <2>7
  <2>9. h.id \in Id
    <3>1. h \in Message
      BY <1>1, <2>4
    <3> QED BY <3>1, ConstantsAssumption DEF Message, Id
  <2> QED BY <1>1, <2>2, <2>3, <2>4, <2>5, <2>8, <2>9
<1> QED BY <1>5, <1>6

LEMMA PostKeeps ==
    ASSUME EventInv, NEW c \in Channels, Post(c)
    PROVE  EventInv'
<1> DEFINE m == [id |-> message_id + 1, channel |-> c]
           A == Answers(m)
           Told(x) == (x \in followers /\ For(m, x)) \/ x \in A
<1>1. /\ message_id < MaxId /\ message_id' = message_id + 1
      /\ messages' = Push(m) /\ posted' = posted \union {m}
      /\ evicted' = IF Len(messages) = MaxQueue THEN Head(messages).id ELSE evicted
      /\ socketLast' = [p \in Pages |-> IF p \in followers THEN m.id ELSE socketLast[p]]
      /\ pollers' = Only(pollers, Pages \ A)
      /\ sent' = [p \in Pages |-> IF Told(p) THEN Append(sent[p], m) ELSE sent[p]]
      /\ phase' = [p \in Pages |-> IF p \in A THEN "answered" ELSE phase[p]]
      /\ UNCHANGED <<followers, start, last, seen, faults, from>>
  BY DEF Post
<1>2. message_id \in 1 .. MaxId /\ MaxId \in Nat
  BY ConstantsAssumption DEF EventInv, TypeOK
<1>3. m \in Message /\ m.id = message_id + 1 /\ m.id \in Id /\ m \notin posted
  <2>1. message_id + 1 \in 1 .. MaxId
    BY <1>1, <1>2
  <2>2. \A x \in posted : x.id <= message_id
    BY DEF EventInv, QueueInOrder
  <2> QED BY <1>2, <2>1, <2>2 DEF Message, Id
<1>4. \A x \in A : x \in Pages /\ phase[x] = "waiting" /\ For(m, x)
  <2>1. Visits(m) \subseteq Range(pollers)
    <3>1. pollers \in Seq(Pages)
      BY DEF EventInv, TypeOK
    <3>2. DOMAIN pollers = 1 .. Len(pollers)
      BY <3>1
    <3> QED BY <3>2 DEF Visits, Range
  <2> QED BY <2>1 DEF Answers, EventInv, TypeOK
<1> HIDE DEF m, A
<1>5. /\ messages' \in Seq(Message) /\ Len(messages') <= MaxQueue
      /\ \A i, k \in DOMAIN messages' : i < k => messages'[i].id < messages'[k].id
      /\ ToSet(messages') = {x \in posted' : x.id > evicted'}
      /\ evicted' \in Id /\ evicted' <= message_id
  BY <1>1, <1>3, PushKeeps
<1>6. QueueInOrder'
  <2>1. \A x \in posted : x.id <= message_id
    BY DEF EventInv, QueueInOrder
  <2>2. \A x, y \in posted' : x.id = y.id => x = y
    BY <1>1, <1>2, <1>3, <2>1 DEF EventInv, QueueInOrder
  <2>3. \A x \in posted' : x.id <= message_id'
    <3>1. \A x \in posted : x.id \in Nat
      BY DEF EventInv, TypeOK, Message
    <3> QED BY <1>1, <1>2, <1>3, <2>1, <3>1
  <2>4. evicted' <= message_id'
    BY <1>1, <1>2, <1>5, ConstantsAssumption DEF Id
  <2>5. \A p \in Pages : start'[p] <= message_id' /\ last'[p] <= message_id'
                          /\ from'[p] <= message_id'
    <3>1. \A p \in Pages : /\ start[p] <= message_id /\ last[p] <= message_id
                            /\ from[p] <= message_id
                            /\ start[p] \in Nat /\ last[p] \in Nat /\ from[p] \in Nat
      BY ConstantsAssumption DEF EventInv, QueueInOrder, TypeOK, Id
    <3> QED BY <1>1, <1>2, <3>1
  <2> QED BY <1>5, <2>2, <2>3, <2>4, <2>5 DEF QueueInOrder
<1>7. TypeOK'
  <2>1. pollers' \in Seq(Pages) /\ IsInjective(pollers') /\ Range(pollers') = Range(pollers) \ A
    BY <1>1, PollersWithout
  <2>2. \A p \in Pages : /\ phase'[p] = "following" <=> phase[p] = "following"
                         /\ phase'[p] = "waiting" <=> phase[p] = "waiting" /\ p \notin A
    <3> SUFFICES ASSUME NEW p \in Pages
                 PROVE  /\ phase'[p] = "following" <=> phase[p] = "following"
                        /\ phase'[p] = "waiting" <=> phase[p] = "waiting" /\ p \notin A
      OBVIOUS
    <3>1. phase'[p] = IF p \in A THEN "answered" ELSE phase[p]
      BY <1>1
    <3>2. p \in A => phase[p] = "waiting"
      BY <1>4
    <3>3. CASE p \in A
      BY <3>1, <3>2, <3>3
    <3>4. CASE p \notin A
      BY <3>1, <3>4
    <3> QED BY <3>3, <3>4
  <2>3. /\ followers' = {p \in Pages : phase'[p] = "following"}
        /\ Range(pollers') = {p \in Pages : phase'[p] = "waiting"}
    BY <1>1, <2>1, <2>2 DEF EventInv, TypeOK
  <2>4. message_id' \in 1 .. MaxId
    BY <1>1, <1>2
  <2>5. phase' \in [Pages -> Phase]
    <3>1. "answered" \in Phase
      BY DEF Phase, Requesting
    <3> QED BY <1>1, <3>1 DEF EventInv, TypeOK
  <2>6. sent' \in [Pages -> Seq(Message)]
    <3>1. \A p \in Pages : sent[p] \in Seq(Message) /\ Append(sent[p], m) \in Seq(Message)
      BY <1>3 DEF EventInv, TypeOK
    <3> HIDE DEF Told
    <3> QED BY <1>1, <3>1
  <2>7. socketLast' \in [Pages -> Id]
    BY <1>1, <1>3 DEF EventInv, TypeOK
  <2>8. posted' \subseteq Message /\ seen' \in [Pages -> SUBSET posted']
    BY <1>1, <1>3 DEF EventInv, TypeOK
  <2> QED BY <1>1, <1>5, <2>1, <2>3, <2>4, <2>5, <2>6, <2>7, <2>8 DEF EventInv, TypeOK
<1>8. ASSUME NEW p \in Pages PROVE PageInOrder(p)'
  <2>1. /\ PageInOrder(p) /\ start'[p] = start[p] /\ last'[p] = last[p]
        /\ seen'[p] = seen[p] /\ from'[p] = from[p]
        /\ last[p] < m.id /\ from[p] < m.id
    <3>1. /\ last[p] <= message_id /\ from[p] <= message_id
          /\ last[p] \in Nat /\ from[p] \in Nat
      BY ConstantsAssumption DEF EventInv, QueueInOrder, TypeOK, Id
    <3> QED BY <1>1, <1>2, <1>3, <3>1 DEF EventInv
  <2>2. phase[p] = "following" <=> p \in followers
    BY DEF EventInv, TypeOK
  <2>3. CASE p \in A
    <3>1. phase'[p] = "answered" /\ sent'[p] = Append(sent[p], m) /\ sent[p] = <<>>
      BY <1>1, <1>4, <2>1, <2>3 DEF PageInOrder
    <3>2. sent'[p] = <<m>>
      BY <3>1
    <3>3. m \in posted' /\ For(m, p) /\ m.id > last'[p]
      BY <1>1, <1>3, <1>4, <2>1, <2>3
    <3> QED BY <3>1, <3>2, <3>3 DEF PageInOrder, For
  <2>4. CASE p \notin A /\ p \in followers
    <3>1. /\ phase'[p] = "following" /\ phase[p] = "following"
          /\ sent'[p] = IF For(m, p) THEN Append(sent[p], m) ELSE sent[p]
          /\ sent[p] \in Seq(Message)
      BY <1>1, <2>2, <2>4 DEF EventInv, TypeOK
    <3>2. /\ seen[p] \union ToSet(sent[p]) = Followed(p)
          /\ \A i \in DOMAIN sent[p] : sent[p][i].id > last[p]
          /\ \A i, k \in DOMAIN sent[p] : i < k => sent[p][i].id < sent[p][k].id
      BY <2>1, <3>1 DEF PageInOrder
    <3>3. Followed(p)' = IF For(m, p) THEN Followed(p) \union {m} ELSE Followed(p)
      <4>1. Followed(p)' = {n \in posted \union {m} : For(n, p) /\ n.id > from[p]}
        BY <1>1 DEF Followed, For
      <4>2. m.id > from[p]
        BY <2>1
      <4> QED BY <4>1, <4>2 DEF Followed
    <3>4. CASE ~For(m, p)
      BY <2>1, <3>1, <3>2, <3>3, <3>4 DEF PageInOrder, ToSet
    <3>5. CASE For(m, p)
      <4> DEFINE t == Append(sent[p], m)
      <4>1. /\ \A i \in DOMAIN sent[p] : i \in DOMAIN t /\ t[i] = sent[p][i]
            /\ \A i \in DOMAIN t : i \in DOMAIN sent[p] \/ i = Len(sent[p]) + 1
            /\ Len(sent[p]) + 1 \in DOMAIN t /\ t[Len(sent[p]) + 1] = m
            /\ \A i \in DOMAIN t : i \in Nat /\ i <= Len(sent[p]) + 1
        BY <1>3, <3>1
      <4>2. sent'[p] = t
        BY <3>1, <3>5
      <4> HIDE DEF t
      <4>3. ToSet(t) = ToSet(sent[p]) \union {m}
        BY <4>1 DEF ToSet
      <4>4. seen'[p] \union ToSet(sent'[p]) = Followed(p)'
        BY <2>1, <3>2, <3>3, <3>5, <4>2, <4>3
      <4>5. \A i \in DOMAIN t : t[i].id > last[p]
        BY <2>1, <3>2, <4>1
      <4>6. \A i \in DOMAIN sent[p] : sent[p][i].id < m.id
        <5> SUFFICES ASSUME NEW i \in DOMAIN sent[p] PROVE sent[p][i].id < m.id
          OBVIOUS
        <5>1. sent[p][i] \in Followed(p)
          BY <3>2 DEF ToSet
        <5>2. sent[p][i] \in posted
          BY <5>1 DEF Followed
        <5>3. sent[p][i].id <= message_id /\ sent[p][i].id \in Nat
          BY <5>2 DEF EventInv, QueueInOrder, TypeOK, Message
        <5> QED BY <1>2, <1>3, <5>3
      <4>7. ASSUME NEW i \in DOMAIN t, NEW k \in DOMAIN t, i < k PROVE t[i].id < t[k].id
        <5>1. i \in DOMAIN sent[p]
          BY <4>1, <4>7
        <5> QED BY <3>2, <4>1, <4>6, <4>7, <5>1
      <4> QED BY <2>1, <3>1, <4>2, <4>4, <4>5, <4>7 DEF PageInOrder
    <3> QED BY <3>4, <3>5
  <2>5. CASE p \notin A /\ p \notin followers
    <3>1. phase'[p] = phase[p] /\ sent'[p] = sent[p] /\ socketLast'[p] = socketLast[p]
      BY <1>1, <2>5
    <3>2. phase[p] = "answered" =>
              \E x \in posted' : sent[p] = <<x>> /\ For(x, p) /\ x.id > last[p]
      BY <1>1, <2>1 DEF PageInOrder
    <3> QED BY <2>1, <2>2, <2>5, <3>1, <3>2 DEF PageInOrder, Fresh, For
  <2> QED BY <2>3, <2>4, <2>5
<1> QED BY <1>6, <1>7, <1>8 DEF EventInv

LEMMA EventStep ==
    ASSUME EventInv, [Next]_vars
    PROVE  EventInv'
<1>1. CASE UNCHANGED vars
  <2>1. UNCHANGED <<message_id, messages, followers, pollers, socketLast, phase, start, last,
                    seen, sent, faults, posted, evicted, from>>
    BY <1>1 DEF vars, daemon, page, history
  <2>2. TypeOK'
    BY <2>1 DEF EventInv, TypeOK
  <2>3. QueueInOrder'
    BY <2>1, QueueSame DEF EventInv, QueueInOrder
  <2>4. \A p \in Pages : PageInOrder(p)'
    BY <2>1, PageSame DEF EventInv
  <2> QED BY <2>2, <2>3, <2>4 DEF EventInv
<1>2. ASSUME NEW c \in Channels, Post(c) PROVE EventInv'
  BY <1>2, PostKeeps
<1>3. ASSUME NEW p \in Pages,
             \/ Load(p)
             \/ Opened(p) \/ GivesUp(p) \/ StartMsg(p) \/ SetFilter(p) \/ Receive(p) \/ Breaks(p)
             \/ PollArrives(p) \/ PollTimeout(p) \/ Success(p) \/ TimedOut(p)
             \/ PollFails(p) \/ Retry(p)
      PROVE  EventInv'
  BY <1>3, LoadKeeps, PhaseSteps, StartMsgKeeps, SetFilterKeeps, ReceiveKeeps, BreaksKeeps,
     PollArrivesKeeps, PollTimeoutKeeps, SuccessKeeps, PollFailsKeeps
<1>4. CASE Restart
  BY <1>4, RestartKeeps
<1> QED BY <1>1, <1>2, <1>3, <1>4 DEF Next

LEMMA EventSafety == Spec => []EventInv
<1>1. EventInv /\ [Next]_vars => EventInv'
  BY EventStep
<1> QED BY <1>1, InitInv, PTL DEF Spec

\* The types of the daemon and the pages: its queue never exceeds max_queue, its
\* followers are the pages whose sockets have set a filter, and each request that waits
\* is in pollers once.
THEOREM TypeCorrect == Spec => []TypeOK
<1>1. EventInv => TypeOK
  BY DEF EventInv
<1> QED BY <1>1, EventSafety, PTL

\* A page that follows by web socket is sent every message of its channel after the one
\* it starts from, through catch_up and live, in order, none twice and none skipped.
THEOREM NoneSkipped == Spec => []NothingSkipped
<1>1. EventInv => NothingSkipped
  <2> SUFFICES ASSUME EventInv, NEW p \in Pages, phase[p] = "following"
               PROVE  /\ Ids(seen[p]) \union Ids(ToSet(sent[p]))
                           = {m.id : m \in {n \in posted : For(n, p) /\ n.id > from[p]}}
                      /\ \A i \in DOMAIN sent[p] : sent[p][i].id > last[p]
    BY DEF NothingSkipped
  <2>1. /\ seen[p] \union ToSet(sent[p]) = {n \in posted : For(n, p) /\ n.id > from[p]}
        /\ \A i \in DOMAIN sent[p] : sent[p][i].id > last[p]
    BY DEF EventInv, PageInOrder, Followed
  <2>2. Ids(seen[p]) \union Ids(ToSet(sent[p])) = Ids(seen[p] \union ToSet(sent[p]))
    BY Zenon DEF Ids
  <2> QED BY <2>1, <2>2 DEF Ids
<1> QED BY <1>1, EventSafety, PTL

-----------------------------------------------------------------------------
(* The daemon and the pages implement the feed.                              *)

LEMMA FeedStarts == Init => Feed!FeedInit
BY DEF Init, Feed!FeedInit

LEMMA FeedSteps ==
    ASSUME EventInv, [Next]_vars
    PROVE  [Feed!FeedNext]_(Feed!feedVars)
<1>1. CASE UNCHANGED <<posted, last, seen>>
  BY <1>1 DEF Feed!feedVars
<1>2. ASSUME NEW c \in Channels, Post(c) PROVE Feed!FeedPost(c)
  <2> DEFINE m == [id |-> message_id + 1, channel |-> c]
  <2>1. posted' = posted \union {m} /\ UNCHANGED <<last, seen>>
    BY <1>2 DEF Post
  <2>2. m.channel = c /\ m.id = message_id + 1
    OBVIOUS
  <2>3. \A n \in posted : n.id < m.id
    <3>1. message_id \in Nat /\ \A n \in posted : n.id <= message_id /\ n.id \in Nat
      BY DEF EventInv, QueueInOrder, TypeOK, Message
    <3> QED BY <2>2, <3>1
  <2>4. m \in posted' \ posted
    BY <2>1, <2>2, <2>3 DEF EventInv, TypeOK, Message
  <2> HIDE DEF m
  <2> QED BY <2>1, <2>2, <2>3, <2>4 DEF Feed!FeedPost
<1>3. ASSUME NEW p \in Pages, Load(p) PROVE Feed!FeedLoad(p)
  <2>1. /\ phase[p] = "new" /\ last' = [last EXCEPT ![p] = message_id]
        /\ UNCHANGED <<posted, seen>>
    BY <1>3 DEF Load, history
  <2>2. last[p] = 0 /\ last'[p] = message_id
    BY <2>1 DEF EventInv, PageInOrder, TypeOK
  <2>3. \A m \in posted : m.id <= last'[p]
    BY <2>2 DEF EventInv, QueueInOrder
  <2>4. last' = [last EXCEPT ![p] = last'[p]]
    BY <2>1, <2>2
  <2> QED BY <2>1, <2>2, <2>3, <2>4 DEF Feed!FeedLoad
<1>4. ASSUME NEW p \in Pages, Receive(p) \/ Success(p) PROVE Feed!FeedHand(p)
  <2> DEFINE m == Head(sent[p])
  <2>1. /\ (phase[p] = "following" /\ sent[p] # <<>>) \/ phase[p] = "answered"
        /\ last' = [last EXCEPT ![p] = m.id]
        /\ seen' = [seen EXCEPT ![p] = @ \union {m}]
        /\ UNCHANGED posted
    BY <1>4 DEF Receive, Success, history
  <2>2. m \in posted /\ m.channel = ChannelOf[p] /\ m.id > last[p]
    BY <2>1, Handed DEF For
  <2> HIDE DEF m
  <2> QED BY <2>1, <2>2 DEF Feed!FeedHand
<1>5. ASSUME NEW p \in Pages,
             \/ Opened(p) \/ GivesUp(p) \/ StartMsg(p) \/ SetFilter(p) \/ Breaks(p)
             \/ PollArrives(p) \/ PollTimeout(p) \/ TimedOut(p) \/ PollFails(p) \/ Retry(p)
      PROVE  UNCHANGED <<posted, last, seen>>
  BY <1>5 DEF Opened, GivesUp, StartMsg, SetFilter, Breaks, PollArrives, PollTimeout,
              TimedOut, PollFails, Retry, history
<1>6. CASE Restart
  BY <1>1, <1>6 DEF Restart
<1>7. CASE UNCHANGED vars
  BY <1>1, <1>7 DEF vars, page, history
<1> QED BY <1>1, <1>2, <1>3, <1>4, <1>5, <1>6, <1>7 DEF Next, Feed!FeedNext

\* The event daemon and the pages implement EventFeed: across polls, time-outs, lost
\* answers, restarts and the change from web socket to polling, a page is handed messages
\* of its channel only, each once and in the order of their numbers.
THEOREM Implements == Spec => DeliversAsPromised
<1>1. EventInv /\ [Next]_vars => [Feed!FeedNext]_(Feed!feedVars)
  BY FeedSteps
<1> QED BY <1>1, FeedStarts, EventSafety, PTL DEF Spec, DeliversAsPromised, Feed!FeedSpec
=============================================================================
