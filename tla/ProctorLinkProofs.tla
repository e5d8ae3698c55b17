-------------------------- MODULE ProctorLinkProofs --------------------------
(* Proofs about ProctorLink: its types, that a session has one connection,   *)
(* that none is begun after the submission, and that an acknowledgment       *)
(* removes only what has been sent on its connection.                        *)
EXTENDS ProctorLink, TLAPS

-----------------------------------------------------------------------------
(* Types.                                                                    *)

LEMMA PushTyped ==
    ASSUME TypeOK, NEW e \in Event
    PROVE  Push(e) \in Seq(Event) /\ Len(Push(e)) <= MaxBuffer
<1> USE ConstantsAssumption DEF TypeOK
<1>1. CASE Len(buffer) >= MaxBuffer
  <2>1. Len(buffer) = MaxBuffer /\ buffer # <<>>
    BY <1>1
  <2>2. Tail(buffer) \in Seq(Event) /\ Len(Tail(buffer)) = MaxBuffer - 1
    BY <2>1
  <2> QED BY <1>1, <2>2 DEF Push
<1>2. CASE ~(Len(buffer) >= MaxBuffer)
  BY <1>2 DEF Push
<1> QED BY <1>1, <1>2

\* What the functions that connect leave in their variables.
LinkTyped ==
    /\ state' \in [Socket -> States]
    /\ socket' \in Socket \cup {None} /\ shared' \in Socket \cup {None}
    /\ connected' \in BOOLEAN /\ monitor' \in BOOLEAN /\ late' \in BOOLEAN
    /\ wire' \in [Socket -> Seq(Event)]
    /\ handled' \in [Socket -> BOOLEAN]
    /\ buffer' = buffer

LEMMA AdoptTyped ==
    ASSUME TypeOK, NEW i \in Socket, Adopt(i), state' \in [Socket -> States]
    PROVE  LinkTyped
<1>1. wire[i] \o buffer \in Seq(Event)
  BY DEF TypeOK
<1>2. wire' \in [Socket -> Seq(Event)]
  BY <1>1 DEF Adopt, TypeOK
<1> QED BY <1>2 DEF Adopt, TypeOK, LinkTyped

LEMMA InitWebSocketTyped == TypeOK /\ InitWebSocket => LinkTyped
<1> SUFFICES ASSUME TypeOK, InitWebSocket PROVE LinkTyped
  OBVIOUS
<1>1. CASE UNCHANGED <<state, socket, shared, connected, monitor, late, wire, handled, buffer>>
  BY <1>1 DEF TypeOK, LinkTyped
<1>2. CASE Open(shared) /\ Adopt(shared) /\ UNCHANGED state
  <2>1. shared \in Socket /\ state' \in [Socket -> States]
    BY <1>2 DEF TypeOK, Open
  <2> QED BY <1>2, <2>1, AdoptTyped
<1>3. CASE Create
  BY <1>3 DEF Create, TypeOK, LinkTyped, States
<1> QED BY <1>1, <1>2, <1>3 DEF InitWebSocket

LEMMA ClosesTyped == ASSUME TypeOK, NEW i \in Socket, Closes(i) PROVE TypeOK'
<1>1. /\ state' \in [Socket -> States] /\ wire' \in [Socket -> Seq(Event)]
      /\ acks' \in [Socket -> Nat]
  BY DEF Closes, TypeOK, States
<1>2. connected' \in BOOLEAN /\ monitor' \in BOOLEAN /\ retries' \in Nat
  BY DEF Closes, TypeOK
<1> QED BY <1>1, <1>2 DEF Closes, TypeOK

LEMMA InitTyped == Init => TypeOK
<1> SUFFICES ASSUME Init PROVE TypeOK
  OBVIOUS
<1>1. state \in [Socket -> States] /\ wire \in [Socket -> Seq(Event)]
  BY DEF Init, States
<1>2. 1 \in Socket /\ 0 \in Event /\ MaxBuffer \in Nat
  BY ConstantsAssumption DEF Socket, Event
<1>3. <<>> \in Seq(Event) /\ Len(<<>>) = 0
  OBVIOUS
<1>4. Len(buffer) <= MaxBuffer
  BY <1>2, <1>3 DEF Init
<1> QED BY <1>1, <1>2, <1>3, <1>4 DEF Init, TypeOK

LEMMA TypeStep == TypeOK /\ [Next]_vars => TypeOK'
<1> SUFFICES ASSUME TypeOK, [Next]_vars PROVE TypeOK'
  OBVIOUS
<1> USE DEF net, page
<1>1. ASSUME Start PROVE TypeOK'
  BY <1>1, InitWebSocketTyped DEF Start, TypeOK, LinkTyped
<1>2. ASSUME Retry PROVE TypeOK'
  <2>1. retries' \in Nat /\ attempts' \in Nat
    BY <1>2 DEF Retry, TypeOK
  <2>2. LinkTyped
    BY <1>2, InitWebSocketTyped DEF Retry
  <2> QED BY <1>2, <2>1, <2>2 DEF Retry, TypeOK, LinkTyped
<1>3. ASSUME NEW i \in Socket, Opened(i) PROVE TypeOK'
  <2>1. state' \in [Socket -> States]
    BY <1>3 DEF Opened, TypeOK, States
  <2>2. LinkTyped
    BY <1>3, <2>1, AdoptTyped DEF Opened
  <2> QED BY <1>3, <2>2 DEF Opened, TypeOK, LinkTyped
<1>4. ASSUME NEW i \in Socket, ConnectFails(i) \/ Dies(i) PROVE TypeOK'
  BY <1>4 DEF ConnectFails, Dies, TypeOK, States
<1>5. ASSUME NEW i \in Socket, Breaks(i) \/ Closed(i) PROVE TypeOK'
  BY <1>5, ClosesTyped DEF Breaks, Closed
<1>6. ASSUME Ping \/ PingIsLate PROVE TypeOK'
  BY <1>6 DEF Ping, PingIsLate, TypeOK
<1>7. ASSUME Heartbeat PROVE TypeOK'
  BY <1>7 DEF Heartbeat, Open, TypeOK, States
<1>8. ASSUME TabSwitch PROVE TypeOK'
  <2>1. count + 1 \in Event /\ count' = count + 1
    BY <1>8, ConstantsAssumption DEF TabSwitch, TypeOK, Event
  <2>2. CASE connected /\ Open(socket)
    <3>1. wire' = [wire EXCEPT ![socket] = Append(@, count + 1)] /\ buffer' = buffer
      BY <1>8, <2>2 DEF TabSwitch, SendTabSwitchEvent
    <3>2. socket \in Socket
      BY <2>2 DEF Open, TypeOK
    <3>3. wire' \in [Socket -> Seq(Event)]
      BY <2>1, <3>1, <3>2 DEF TypeOK
    <3> QED BY <1>8, <2>1, <3>1, <3>3 DEF TabSwitch, TypeOK
  <2>3. CASE ~(connected /\ Open(socket))
    <3>1. buffer' = Push(count + 1) /\ wire' = wire
      BY <1>8, <2>3 DEF TabSwitch, SendTabSwitchEvent
    <3> QED BY <1>8, <2>1, <3>1, PushTyped DEF TabSwitch, TypeOK
  <2> QED BY <2>2, <2>3
<1>9. ASSUME NEW i \in Socket, Deliver(i) PROVE TypeOK'
  <2>1. wire[i] \in Seq(Event) /\ wire[i] # <<>>
    BY <1>9 DEF Deliver, TypeOK
  <2>2. Head(wire[i]) \in Event /\ Tail(wire[i]) \in Seq(Event)
    BY <2>1
  <2>3. received' \subseteq Event /\ wire' \in [Socket -> Seq(Event)] /\ acks' \in [Socket -> Nat]
    BY <1>9, <2>2 DEF Deliver, TypeOK
  <2> QED BY <1>9, <2>3 DEF Deliver, TypeOK
<1>10. ASSUME NEW i \in Socket, Acknowledged(i) PROVE TypeOK'
  <2>1. acks' \in [Socket -> Nat]
    BY <1>10 DEF Acknowledged, TypeOK
  <2>2. buffer' \in Seq(Event) /\ Len(buffer') <= MaxBuffer
    <3>1. <<>> \in Seq(Event) /\ Len(<<>>) = 0
      OBVIOUS
    <3> QED BY <1>10, <3>1, ConstantsAssumption DEF Acknowledged, TypeOK
  <2> QED BY <1>10, <2>1, <2>2 DEF Acknowledged, TypeOK
<1>11. ASSUME Confirm PROVE TypeOK'
  BY <1>11 DEF Confirm, TypeOK
<1>12. ASSUME SendFinal PROVE TypeOK'
  <2>1. wire' \in [Socket -> Seq(Event)]
    BY <1>12 DEF SendFinal, Open, TypeOK
  <2> QED BY <1>12, <2>1 DEF SendFinal, TypeOK
<1>13. ASSUME CloseLink PROVE TypeOK'
  BY <1>13 DEF CloseLink, Open, TypeOK, States
<1>14. CASE UNCHANGED vars
  BY <1>14 DEF vars, TypeOK
<1> QED
  BY <1>1, <1>2, <1>3, <1>4, <1>5, <1>6, <1>7, <1>8, <1>9, <1>10, <1>11, <1>12, <1>13, <1>14 DEF Next

\* Type correctness, and that the buffer keeps to its capacity.
THEOREM TypeCorrect == Spec => []TypeOK
BY InitTyped, TypeStep, PTL DEF Spec

-----------------------------------------------------------------------------
(* One connection.  A reconnection is due from the socket that is in use,    *)
(* from the one that is being closed and will call onclose, or from a timer: *)
(* from one of them at most.                                                 *)

Active(i) == Live(i) \/ (state[i] = "closing" /\ handled[i])

LinkInv ==
    /\ TypeOK
    /\ \A i, j \in Socket : Active(i) /\ Active(j) => i = j
    /\ retries <= 1
    /\ \A i \in Socket : Active(i) => retries = 0
    /\ \A i \in Socket : handled[i] => state[i] \in {"open", "closing", "closed"}
    /\ socket # None => \A i \in Socket : state[i] = "open" => handled[i]
    /\ submit # "no" => socket # None
    /\ socket = None =>
          /\ shared = 1 /\ retries = 0
          /\ \A i \in Socket : ~handled[i] /\ (i # 1 => state[i] = "new")
          /\ state[1] \in {"open", "closed"}

LEMMA LinkInit == Init => LinkInv
<1> SUFFICES ASSUME Init PROVE LinkInv
  OBVIOUS
<1>1. TypeOK /\ 1 \in Socket
  BY InitTyped, ConstantsAssumption DEF Socket
<1>2. \A i \in Socket : (Active(i) => i = 1) /\ ~handled[i] /\ (i # 1 => state[i] = "new")
  BY DEF Init, Active, Live
<1>3. retries = 0 /\ shared = 1 /\ state[1] = "open" /\ socket = None /\ submit = "no"
  BY <1>1 DEF Init
<1> QED BY <1>1, <1>2, <1>3 DEF LinkInv

\* No link is active, and initWebSocket is called.
LEMMA CreateLink ==
    ASSUME LinkInv, \A i \in Socket : ~Active(i), retries' = 0, Create, TypeOK', submit' = submit
    PROVE  LinkInv'
<1>1. PICK i \in Socket : /\ state[i] = "new"
                          /\ state' = [state EXCEPT ![i] = "connecting"]
                          /\ socket' = i /\ handled' = handled
  BY DEF Create
<1>2. state'[i] = "connecting" /\ \A j \in Socket \ {i} : state'[j] = state[j]
  BY <1>1 DEF LinkInv, TypeOK
<1>3. ~handled[i]
  BY <1>1 DEF LinkInv
<1>4. \A j \in Socket \ {i} : ~Active(j)'
  BY <1>1, <1>2 DEF Active, Live
<1>5. socket' # None
  BY <1>1 DEF Socket, None
<1>6. \A j \in Socket : handled'[j] => state'[j] \in {"open", "closing", "closed"}
  BY <1>1, <1>2, <1>3 DEF LinkInv
<1>7. \A j \in Socket : state'[j] # "open"
  BY <1>1, <1>2, <1>4 DEF Active, Live
<1> QED BY <1>4, <1>5, <1>6, <1>7 DEF LinkInv

\* A socket that is connecting, or the one of the check, is taken over.
LEMMA AdoptLink ==
    ASSUME LinkInv, TypeOK', NEW i \in Socket, Live(i), Adopt(i),
           state' = [state EXCEPT ![i] = "open"], retries' = retries, submit' = submit
    PROVE  LinkInv'
<1>1. state'[i] = "open" /\ \A j \in Socket \ {i} : state'[j] = state[j]
  BY DEF LinkInv, TypeOK
<1>2. handled'[i] /\ \A j \in Socket \ {i} : handled'[j] = handled[j]
  BY DEF Adopt, LinkInv, TypeOK
<1>3. Active(i)
  BY DEF Active
<1>4. \A j \in Socket \ {i} : ~Active(j)'
  BY <1>1, <1>2, <1>3 DEF LinkInv, Active, Live
<1>5. retries' = 0
  BY <1>3 DEF LinkInv
<1>6. socket' # None
  BY DEF Adopt, Socket, None
<1>7. \A j \in Socket : handled'[j] => state'[j] \in {"open", "closing", "closed"}
  BY <1>1, <1>2 DEF LinkInv
<1>8. \A j \in Socket : state'[j] = "open" => j = i
  BY <1>4 DEF Active, Live
<1> QED BY <1>2, <1>4, <1>5, <1>6, <1>7, <1>8 DEF LinkInv

LEMMA ClosesLink == ASSUME LinkInv, NEW i \in Socket, state[i] \in {"open", "closing"}, Closes(i)
                    PROVE  LinkInv'
<1>1. TypeOK'
  BY ClosesTyped DEF LinkInv
<1>2. /\ state'[i] = "closed" /\ \A j \in Socket \ {i} : state'[j] = state[j]
      /\ handled' = handled /\ socket' = socket /\ shared' = shared /\ submit' = submit
  BY DEF Closes, LinkInv, TypeOK
<1>3. ~Active(i)' /\ \A j \in Socket \ {i} : Active(j)' => Active(j)
  BY <1>2 DEF Active, Live
<1>4. retries' = retries \/ (handled[i] /\ retries' = retries + 1)
  BY DEF Closes
<1>7. socket' # None => \A j \in Socket : state'[j] = "open" => handled'[j]
  BY <1>2 DEF LinkInv
<1>5. CASE handled[i]
  <2>1. Active(i)
    BY <1>5 DEF Active, Live
  <2>2. retries = 0 /\ \A j \in Socket \ {i} : ~Active(j)
    BY <2>1 DEF LinkInv
  <2>3. socket # None
    BY <1>5 DEF LinkInv
  <2>4. \A j \in Socket : ~Active(j)'
    BY <1>3, <2>2
  <2>5. \A j \in Socket : handled'[j] => state'[j] \in {"open", "closing", "closed"}
    BY <1>2 DEF LinkInv
  <2>6. retries' <= 1
    BY <1>4, <2>2
  <2> QED BY <1>1, <1>2, <1>7, <2>3, <2>4, <2>5, <2>6 DEF LinkInv
<1>6. CASE ~handled[i]
  <2>1. retries' = retries
    BY <1>4, <1>6
  <2>2. \A j \in Socket : handled'[j] => state'[j] \in {"open", "closing", "closed"}
    BY <1>2 DEF LinkInv
  <2>3. socket' = None => state'[1] \in {"open", "closed"}
    BY <1>2 DEF LinkInv
  <2>4. socket' = None => i = 1
    BY <1>2 DEF LinkInv
  <2>5. /\ \A j, k \in Socket : Active(j)' /\ Active(k)' => j = k
        /\ \A j \in Socket : Active(j)' => retries' = 0
    BY <1>3, <2>1 DEF LinkInv
  <2> QED BY <1>1, <1>2, <1>7, <2>1, <2>2, <2>3, <2>4, <2>5 DEF LinkInv
<1> QED BY <1>5, <1>6

\* One socket changes its state, and is not more active than before.
LEMMA StateLink ==
    ASSUME LinkInv, TypeOK', NEW i \in Socket, NEW s \in {"closing", "closed"},
           state' = [state EXCEPT ![i] = s], socket # None, Live(i),
           handled[i] \/ s = "closed",
           UNCHANGED <<handled, socket, shared, retries, submit>>
    PROVE  LinkInv'
<1>1. state'[i] = s /\ \A j \in Socket \ {i} : state'[j] = state[j]
  BY DEF LinkInv, TypeOK
<1>2. \A j \in Socket : Active(j)' => Active(j)
  BY <1>1 DEF Active, Live
<1>3. \A j \in Socket : handled'[j] => state'[j] \in {"open", "closing", "closed"}
  BY <1>1 DEF LinkInv
<1>4. \A j \in Socket : state'[j] = "open" => handled'[j]
  BY <1>1 DEF LinkInv
<1> QED BY <1>2, <1>3, <1>4 DEF LinkInv

\* The sockets stay as they are.
LEMMA SameLink ==
    ASSUME LinkInv, TypeOK', UNCHANGED <<state, handled, socket, shared, retries>>,
           submit' = "no" \/ socket # None
    PROVE  LinkInv'
BY DEF LinkInv, Active, Live

LEMMA LinkStep == LinkInv /\ [Next]_vars => LinkInv'
<1> SUFFICES ASSUME LinkInv, [Next]_vars PROVE LinkInv'
  OBVIOUS
<1>0. TypeOK /\ TypeOK'
  BY TypeStep DEF LinkInv
<1>1. ASSUME Start PROVE LinkInv'
  <2>1. socket = None /\ InitWebSocket /\ UNCHANGED retries
    BY <1>1 DEF Start
  <2>2. shared = 1 /\ retries = 0 /\ state[1] \in {"open", "closed"} /\ 1 \in Socket
    BY <2>1, ConstantsAssumption DEF LinkInv, Socket
  <2>3. CASE UNCHANGED <<state, socket, shared, connected, monitor, late, wire, handled, buffer>>
    BY <1>0, <1>1, <2>1, <2>3, SameLink DEF Start, LinkInv
  <2>4. CASE Open(shared) /\ Adopt(shared) /\ UNCHANGED state
    <3>1. state[1] = "open" /\ state' = [state EXCEPT ![1] = "open"] /\ Live(1)
      BY <1>0, <2>2, <2>4 DEF Open, Live, TypeOK
    <3> QED BY <1>0, <1>1, <2>1, <2>2, <2>4, <3>1, AdoptLink DEF Start
  <2>5. CASE ~Open(shared) /\ Create
    <3>1. \A i \in Socket : ~Active(i)
      BY <2>1, <2>2, <2>5 DEF LinkInv, Active, Live, Open, None
    <3> QED BY <1>0, <1>1, <2>1, <2>2, <2>5, <3>1, CreateLink DEF Start
  <2> QED BY <2>1, <2>3, <2>4, <2>5 DEF InitWebSocket
<1>2. ASSUME Retry PROVE LinkInv'
  <2>1. retries = 1 /\ retries' = 0 /\ InitWebSocket
    BY <1>0, <1>2 DEF Retry, LinkInv, TypeOK
  <2>2. (\A i \in Socket : ~Active(i)) /\ socket # None
    BY <2>1 DEF LinkInv
  <2>3. CASE UNCHANGED <<state, socket, shared, connected, monitor, late, wire, handled, buffer>>
    <3>1. \A i \in Socket : ~Active(i)'
      BY <2>2, <2>3 DEF Active, Live
    <3>2. \A i \in Socket : handled'[i] => state'[i] \in {"open", "closing", "closed"}
      BY <2>3 DEF LinkInv
    <3>3. \A i \in Socket : state'[i] = "open" => handled'[i]
      BY <2>2, <2>3 DEF LinkInv
    <3> QED BY <1>0, <2>1, <2>2, <2>3, <3>1, <3>2, <3>3 DEF LinkInv
  <2>4. CASE Open(shared)
    BY <1>0, <2>2, <2>4 DEF Open, Active, Live, TypeOK
  <2>5. CASE Create
    BY <1>0, <1>2, <2>1, <2>2, <2>5, CreateLink DEF Retry
  <2> QED BY <2>1, <2>3, <2>4, <2>5 DEF InitWebSocket
<1>3. ASSUME NEW i \in Socket, Opened(i) PROVE LinkInv'
  <2>1. Live(i)
    BY <1>3 DEF Opened, Live
  <2> QED BY <1>0, <1>3, <2>1, AdoptLink DEF Opened
<1>4. ASSUME NEW i \in Socket, ConnectFails(i) PROVE LinkInv'
  <2>1. Live(i) /\ state[i] = "connecting" /\ state' = [state EXCEPT ![i] = "closed"]
        /\ UNCHANGED <<handled, socket, shared, retries, submit>>
    BY <1>4 DEF ConnectFails, Live, net, page
  <2>2. socket # None
    BY <2>1, ConstantsAssumption DEF LinkInv, Socket
  <2> QED BY <1>0, <2>1, <2>2, StateLink
<1>5. ASSUME NEW i \in Socket, Breaks(i) \/ Closed(i) PROVE LinkInv'
  BY <1>5, ClosesLink DEF Breaks, Closed
<1>6. ASSUME Heartbeat PROVE LinkInv'
  <2>1. socket \in Socket /\ socket # None /\ state[socket] = "open" /\ Live(socket)
    BY <1>0, <1>6 DEF Heartbeat, Open, Live, TypeOK
  <2>2. handled[socket]
    BY <1>0, <1>6, <2>1 DEF LinkInv
  <2> QED BY <1>0, <1>6, <2>1, <2>2, StateLink DEF Heartbeat, page
<1>7. ASSUME CloseLink PROVE LinkInv'
  <2>1. socket # None
    BY <1>7 DEF CloseLink, LinkInv
  <2>2. CASE Open(shared)
    <3>1. shared \in Socket /\ state[shared] = "open" /\ Live(shared)
      BY <1>0, <2>2 DEF Open, Live, TypeOK
    <3>2. handled[shared]
      BY <2>1, <3>1 DEF LinkInv
    <3>3. state' = [state EXCEPT ![shared] = "closing"]
      BY <1>7, <2>2 DEF CloseLink
    <3>4. UNCHANGED <<handled, socket, shared, retries>> /\ submit' # "no"
      BY <1>7 DEF CloseLink, page
    <3>5. state'[shared] = "closing" /\ \A j \in Socket \ {shared} : state'[j] = state[j]
      BY <1>0, <3>1, <3>3 DEF TypeOK
    <3>6. \A j \in Socket : Active(j)' => Active(j)
      BY <3>1, <3>4, <3>5 DEF Active, Live
    <3>7. \A j \in Socket : handled'[j] => state'[j] \in {"open", "closing", "closed"}
      BY <3>4, <3>5 DEF LinkInv
    <3>8. \A j \in Socket : state'[j] = "open" => handled'[j]
      BY <2>1, <3>4, <3>5 DEF LinkInv
    <3> QED BY <1>0, <2>1, <3>4, <3>6, <3>7, <3>8 DEF LinkInv
  <2>3. CASE ~Open(shared)
    BY <1>0, <1>7, <2>1, <2>3, SameLink DEF CloseLink, page
  <2> QED BY <2>2, <2>3
<1>8. ASSUME Confirm \/ SendFinal PROVE LinkInv'
  <2>1. UNCHANGED <<state, handled, socket, shared, retries>> /\ socket # None
    BY <1>8 DEF Confirm, SendFinal, LinkInv, net, page
  <2> QED BY <1>0, <2>1, SameLink
<1>9. ASSUME \/ Ping \/ PingIsLate \/ TabSwitch
             \/ \E i \in Socket : Dies(i) \/ Deliver(i) \/ Acknowledged(i)
             \/ UNCHANGED vars
      PROVE  LinkInv'
  <2>1. UNCHANGED <<state, handled, socket, shared, retries, submit>>
    BY <1>9 DEF Ping, PingIsLate, TabSwitch, Dies, Deliver, Acknowledged, vars, net, page
  <2>2. submit' = "no" \/ socket # None
    BY <2>1 DEF LinkInv
  <2> QED BY <1>0, <2>1, <2>2, SameLink
<1> QED
  BY <1>1, <1>2, <1>3, <1>4, <1>5, <1>6, <1>7, <1>8, <1>9 DEF Next

\* However sockets break, die or fail, and whenever the heartbeat and the timers
\* run, a session has one connection, or one reconnection that is scheduled.
THEOREM OneConnection == Spec => []OneLink
<1>1. LinkInv => OneLink
  BY DEF LinkInv, OneLink, Active
<1> QED BY <1>1, LinkInit, LinkStep, PTL DEF Spec

\* No timer, and nothing else, begins a connection after the submission.
THEOREM NothingAfterSubmission == Spec => NoLinkAfterSubmission
<1> DEFINE Begins == examSubmitted => \A i \in Socket : state[i] = "new" => state'[i] = "new"
<1>1. ASSUME TypeOK, [Next]_vars PROVE [Begins]_vars
  <2> SUFFICES ASSUME Next, examSubmitted, NEW i \in Socket, state[i] = "new"
               PROVE  state'[i] = "new"
    BY <1>1
  <2>1. ASSUME InitWebSocket PROVE state' = state
    BY <2>1 DEF InitWebSocket
  <2>2. ASSUME NEW j \in Socket, Closes(j), state[j] # "new" PROVE state'[i] = "new"
    BY <1>1, <2>2 DEF Closes, TypeOK
  <2>3. ASSUME NEW j \in Socket, Opened(j) \/ ConnectFails(j) PROVE state'[i] = "new"
    BY <1>1, <2>3 DEF Opened, ConnectFails, TypeOK
  <2>4. ASSUME Heartbeat \/ CloseLink PROVE state'[i] = "new"
    BY <1>1, <2>4 DEF Heartbeat, CloseLink, Open, TypeOK
  <2>5. ASSUME \/ Start \/ Retry \/ Ping \/ PingIsLate \/ TabSwitch \/ Confirm \/ SendFinal
               \/ \E j \in Socket : Dies(j) \/ Deliver(j) \/ Acknowledged(j)
        PROVE  state' = state
    BY <2>1, <2>5 DEF Start, Retry, Ping, PingIsLate, TabSwitch, Confirm, SendFinal, Dies, Deliver,
       Acknowledged, net
  <2>6. ASSUME NEW j \in Socket, Breaks(j) \/ Closed(j) PROVE state'[i] = "new"
    BY <2>2, <2>6 DEF Breaks, Closed
  <2> QED BY <2>3, <2>4, <2>5, <2>6 DEF Next
<1>2. Spec => [][Begins]_vars
  BY <1>1, TypeCorrect, PTL DEF Spec
<1> QED BY <1>2 DEF NoLinkAfterSubmission

-----------------------------------------------------------------------------
(* What is acknowledged.  A socket that takes acknowledgments is the one in  *)
(* use; what is buffered while it is connected was buffered before it was,   *)
(* and has been sent on it.                                                  *)

LEMMA ElementsAppend ==
    ASSUME NEW s \in Seq(Event), NEW e \in Event
    PROVE  Elements(s) \subseteq Elements(Append(s, e))
<1>1. \A k \in 1..Len(s) : k \in 1..Len(Append(s, e)) /\ Append(s, e)[k] = s[k]
  OBVIOUS
<1> QED BY <1>1, Zenon DEF Elements

LEMMA ElementsConcat ==
    ASSUME NEW s \in Seq(Event), NEW t \in Seq(Event)
    PROVE  Elements(t) \subseteq Elements(s \o t)
<1>1. \A k \in 1..Len(t) : Len(s) + k \in 1..Len(s \o t) /\ (s \o t)[Len(s) + k] = t[k]
  OBVIOUS
<1> QED BY <1>1, Zenon DEF Elements

LEMMA ElementsTail ==
    ASSUME NEW s \in Seq(Event), s # <<>>
    PROVE  Elements(s) \subseteq {Head(s)} \cup Elements(Tail(s))
<1>1. \A k \in 1..Len(s) : s[k] = Head(s) \/ \E m \in 1..Len(Tail(s)) : s[k] = Tail(s)[m]
  <2> TAKE k \in 1..Len(s)
  <2>1. CASE k = 1
    BY <2>1
  <2>2. CASE k # 1
    <3>1. k - 1 \in 1..Len(Tail(s)) /\ Tail(s)[k - 1] = s[k]
      BY <2>2
    <3> QED BY <3>1
  <2> QED BY <2>1, <2>2
<1> QED BY <1>1, Zenon DEF Elements

Taking(i) == Open(i) /\ handled[i]

Flushed(i) ==
    /\ i = socket /\ connected
    /\ Elements(buffer) \subseteq received \cup Elements(wire[i])

FlushInv == \A i \in Socket : Taking(i) => Flushed(i)

\* The socket that is taken over gets the whole buffer.
LEMMA AdoptFlush ==
    ASSUME TypeOK, NEW i \in Socket, Adopt(i), received' = received,
           \A j \in Socket \ {i} : ~(state'[j] = "open" /\ handled[j])
    PROVE  FlushInv'
<1>1. wire'[i] = wire[i] \o buffer /\ \A j \in Socket \ {i} : handled'[j] = handled[j]
  BY DEF Adopt, TypeOK
<1>2. Elements(buffer) \subseteq Elements(wire'[i])
  BY <1>1, ElementsConcat DEF TypeOK
<1>3. socket' = i /\ connected' /\ buffer' = buffer
  BY DEF Adopt
<1>4. \A j \in Socket : Taking(j)' => j = i
  BY <1>1 DEF Taking, Open
<1>5. Elements(buffer)' = Elements(buffer) /\ Elements(wire[i])' = Elements(wire'[i])
  BY <1>3 DEF Elements
<1>6. Flushed(i)'
  BY <1>2, <1>3, <1>5 DEF Flushed
<1> QED BY <1>4, <1>6 DEF FlushInv

\* A step after which a socket takes acknowledgments only if it did before, and the
\* buffer is what it was, keeps what was sent.
LEMMA SameFlush ==
    ASSUME FlushInv, UNCHANGED <<socket, buffer>>,
           \A j \in Socket : Taking(j)' =>
               /\ Taking(j) /\ connected' = connected
               /\ received \cup Elements(wire[j]) \subseteq received' \cup Elements(wire'[j])
    PROVE  FlushInv'
<1> SUFFICES ASSUME NEW j \in Socket, Taking(j)' PROVE Flushed(j)'
  BY DEF FlushInv
<1>1. Flushed(j) /\ connected' = connected
  BY DEF FlushInv
<1>2. Elements(buffer)' = Elements(buffer) /\ Elements(wire[j])' = Elements(wire'[j])
  BY DEF Elements
<1>3. Elements(buffer) \subseteq received' \cup Elements(wire'[j])
  BY <1>1 DEF Flushed
<1> QED BY <1>1, <1>2, <1>3 DEF Flushed

LEMMA FlushStep == LinkInv /\ FlushInv /\ [Next]_vars => FlushInv'
<1> SUFFICES ASSUME LinkInv, FlushInv, [Next]_vars PROVE FlushInv'
  OBVIOUS
<1>0. TypeOK
  BY DEF LinkInv
<1>q. ASSUME UNCHANGED <<state, handled, socket, connected, wire, buffer, received>>
      PROVE  FlushInv'
  BY <1>q, SameFlush DEF Taking, Open
<1>c. ASSUME Create, \A j \in Socket : ~Taking(j) PROVE FlushInv'
  <2>1. PICK i \in Socket : state' = [state EXCEPT ![i] = "connecting"] /\ handled' = handled
    BY <1>c DEF Create
  <2>2. \A j \in Socket : ~Taking(j)'
    BY <1>0, <1>c, <2>1 DEF Taking, Open, TypeOK
  <2> QED BY <2>2 DEF FlushInv
<1>1. ASSUME Start PROVE FlushInv'
  <2>1. \A j \in Socket : ~handled[j]
    BY <1>1 DEF Start, LinkInv
  <2>2. received' = received /\ InitWebSocket
    BY <1>1 DEF Start
  <2>3. CASE UNCHANGED <<state, socket, shared, connected, monitor, late, wire, handled, buffer>>
    BY <2>2, <2>3, <1>q
  <2>4. CASE Open(shared) /\ Adopt(shared)
    <3>1. shared \in Socket
      BY <1>0, <2>4 DEF Open, TypeOK
    <3> QED BY <1>0, <2>1, <2>2, <2>4, <3>1, AdoptFlush
  <2>5. CASE Create
    BY <1>c, <2>1, <2>5 DEF Taking
  <2> QED BY <2>2, <2>3, <2>4, <2>5 DEF InitWebSocket
<1>2. ASSUME Retry PROVE FlushInv'
  <2>1. \A j \in Socket : ~Active(j)
    BY <1>0, <1>2 DEF Retry, LinkInv, TypeOK
  <2>2. received' = received /\ InitWebSocket
    BY <1>2 DEF Retry
  <2>3. CASE UNCHANGED <<state, socket, shared, connected, monitor, late, wire, handled, buffer>>
    BY <2>2, <2>3, <1>q
  <2>4. CASE Open(shared)
    BY <1>0, <2>1, <2>4 DEF Open, Active, Live, TypeOK
  <2>5. CASE Create
    BY <1>c, <2>1, <2>5 DEF Taking, Open, Active, Live
  <2> QED BY <2>2, <2>3, <2>4, <2>5 DEF InitWebSocket
<1>3. ASSUME NEW i \in Socket, Opened(i) PROVE FlushInv'
  <2>1. state[i] = "connecting" /\ state' = [state EXCEPT ![i] = "open"] /\ Adopt(i)
        /\ received' = received
    BY <1>3 DEF Opened
  <2>2. \A j \in Socket \ {i} : state'[j] # "open"
    <3>1. Active(i)
      BY <2>1 DEF Active, Live
    <3>2. \A j \in Socket \ {i} : ~Active(j) /\ state'[j] = state[j]
      BY <1>0, <2>1, <3>1 DEF LinkInv, TypeOK
    <3> QED BY <3>2 DEF Active, Live
  <2> QED BY <1>0, <2>1, <2>2, AdoptFlush
<1>4. ASSUME NEW i \in Socket, Breaks(i) \/ Closed(i) PROVE FlushInv'
  <2>1. /\ state[i] \in {"open", "closing"} /\ state' = [state EXCEPT ![i] = "closed"]
        /\ wire' = [wire EXCEPT ![i] = <<>>] /\ connected' = (connected /\ ~handled[i])
        /\ UNCHANGED <<handled, socket, buffer, received>>
    BY <1>4 DEF Breaks, Closed, Closes
  <2>2. state'[i] = "closed"
        /\ \A j \in Socket \ {i} : state'[j] = state[j] /\ wire'[j] = wire[j]
    BY <1>0, <2>1 DEF TypeOK
  <2>3. \A j \in Socket : Taking(j)' => j # i /\ Taking(j)
    BY <2>1, <2>2 DEF Taking, Open
  <2>4. ASSUME NEW j \in Socket, Taking(j), j # i PROVE ~handled[i]
    BY <2>1, <2>4 DEF LinkInv, Active, Live, Taking, Open
  <2>5. ASSUME NEW j \in Socket, Taking(j), j # i PROVE connected' = connected
    <3>1. connected /\ ~handled[i]
      BY <2>4, <2>5 DEF FlushInv, Flushed
    <3> QED BY <2>1, <3>1
  <2> QED BY <2>1, <2>2, <2>3, <2>5, SameFlush
<1>5. ASSUME Heartbeat \/ CloseLink \/ \E i \in Socket : ConnectFails(i) PROVE FlushInv'
  <2>1. UNCHANGED <<handled, socket, connected, wire, buffer, received>>
    BY <1>5 DEF Heartbeat, CloseLink, ConnectFails, page
  <2>2. \A j \in Socket : state'[j] = "open" => state[j] = "open"
    BY <1>0, <1>5 DEF Heartbeat, CloseLink, ConnectFails, TypeOK
  <2>3. \A j \in Socket : Taking(j)' => Taking(j)
    BY <2>1, <2>2 DEF Taking, Open
  <2> QED BY <2>1, <2>3, SameFlush
<1>6. ASSUME TabSwitch PROVE FlushInv'
  <2>1. UNCHANGED <<state, handled, socket, connected, received>> /\ count + 1 \in Event
    BY <1>0, <1>6, ConstantsAssumption DEF TabSwitch, TypeOK, Event
  <2>2. \A j \in Socket : Taking(j)' = Taking(j)
    BY <2>1 DEF Taking, Open
  <2>3. CASE connected /\ Open(socket)
    <3>1. wire' = [wire EXCEPT ![socket] = Append(@, count + 1)] /\ buffer' = buffer
      BY <1>6, <2>3 DEF TabSwitch, SendTabSwitchEvent
    <3>2. \A j \in Socket : Elements(wire[j]) \subseteq Elements(wire'[j])
      <4> TAKE j \in Socket
      <4>1. wire'[j] = wire[j] \/ wire'[j] = Append(wire[j], count + 1)
        BY <1>0, <3>1 DEF TypeOK
      <4> QED BY <1>0, <2>1, <4>1, ElementsAppend DEF TypeOK
    <3> QED BY <2>1, <2>2, <3>1, <3>2, SameFlush
  <2>4. CASE ~(connected /\ Open(socket))
    <3>1. \A j \in Socket : ~Taking(j)
      BY <2>4 DEF FlushInv, Flushed, Taking
    <3> QED BY <2>2, <3>1 DEF FlushInv
  <2> QED BY <2>3, <2>4
<1>7. ASSUME NEW i \in Socket, Deliver(i) PROVE FlushInv'
  <2>1. /\ wire[i] # <<>> /\ received' = received \cup {Head(wire[i])}
        /\ wire' = [wire EXCEPT ![i] = Tail(@)]
        /\ UNCHANGED <<state, handled, socket, connected, buffer>>
    BY <1>7 DEF Deliver, page
  <2>2. \A j \in Socket : received \cup Elements(wire[j]) \subseteq received' \cup Elements(wire'[j])
    <3> TAKE j \in Socket
    <3>1. CASE j = i
      BY <1>0, <2>1, <3>1, ElementsTail DEF TypeOK
    <3>2. CASE j # i
      BY <1>0, <2>1, <3>2 DEF TypeOK
    <3> QED BY <3>1, <3>2
  <2> QED BY <2>1, <2>2, SameFlush DEF Taking, Open
<1>8. ASSUME NEW i \in Socket, Acknowledged(i) PROVE FlushInv'
  <2>1. /\ buffer' = buffer \/ buffer' = <<>>
        /\ UNCHANGED <<state, handled, socket, connected, wire, received>>
    BY <1>8 DEF Acknowledged
  <2>2. CASE buffer' = <<>>
    <3>1. Elements(buffer)' = {}
      BY <2>2 DEF Elements
    <3> QED BY <2>1, <3>1 DEF FlushInv, Flushed, Taking, Open
  <2> QED BY <2>1, <2>2, <1>q
<1>9. ASSUME SendFinal PROVE FlushInv'
  <2>1. UNCHANGED <<state, handled, socket, connected, buffer, received>>
    BY <1>9 DEF SendFinal, page
  <2>2. \A j \in Socket : Elements(wire[j]) \subseteq Elements(wire'[j])
    <3> TAKE j \in Socket
    <3>1. wire'[j] = wire[j] \/ wire'[j] = Append(wire[j], final)
      BY <1>0, <1>9 DEF SendFinal, TypeOK
    <3> QED BY <1>0, <3>1, ElementsAppend DEF TypeOK
  <2> QED BY <2>1, <2>2, SameFlush DEF Taking, Open
<1>10. ASSUME Ping \/ PingIsLate \/ Confirm \/ (\E i \in Socket : Dies(i)) \/ UNCHANGED vars
       PROVE  FlushInv'
  <2>1. UNCHANGED <<state, handled, socket, connected, wire, buffer, received>>
    BY <1>10 DEF Ping, PingIsLate, Confirm, Dies, vars, net, page
  <2> QED BY <2>1, <1>q
<1> QED
  BY <1>1, <1>2, <1>3, <1>4, <1>5, <1>6, <1>7, <1>8, <1>9, <1>10 DEF Next

\* A tab switch leaves the buffer of the page on an acknowledgment only if it was sent on
\* the same connection: acknowledgments of a connection that was lost, or that was closed
\* by the heartbeat, remove nothing.
THEOREM OnlySentAreRemoved == Spec => AckedOnlyFlushed
<1> DEFINE Removes == \A i \in Socket : Acknowledged(i) =>
              \A e \in Elements(buffer) \ Elements(buffer') : e \in received \cup Elements(wire[i])
<1>1. Init => FlushInv
  BY DEF Init, FlushInv, Taking
<1>2. FlushInv => Removes
  <2> SUFFICES ASSUME FlushInv, NEW i \in Socket, Acknowledged(i),
                      NEW e \in Elements(buffer) \ Elements(buffer')
               PROVE  e \in received \cup Elements(wire[i])
    OBVIOUS
  <2>1. Taking(i)
    BY DEF Acknowledged, Taking
  <2> QED BY <2>1 DEF FlushInv, Flushed
<1>3. Spec => []FlushInv
  BY <1>1, LinkInit, LinkStep, FlushStep, PTL DEF Spec
<1>4. Spec => [][Removes]_vars
  BY <1>2, <1>3, PTL
<1> QED BY <1>4 DEF AckedOnlyFlushed
=============================================================================
