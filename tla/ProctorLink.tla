----------------------------- MODULE ProctorLink -----------------------------
(***************************************************************************)
(* The connection of the exam page to the proctoring server:              *)
(* initProctoringWithStream in                                             *)
(* src/templates/hpe_admin/contest_landing.html.  The page keeps one web   *)
(* socket, notices by missing pings that it has died, connects again,      *)
(* buffers tab switches while it has no connection, and reports the last   *)
(* count when the test is submitted.  The server is not part of the        *)
(* repository; what it does is taken from what the page expects of it.     *)
(*                                                                         *)
(* Tab switches are counted; an event carries the count so far.            *)
(***************************************************************************)
EXTENDS Integers, Sequences

CONSTANTS MaxSockets,  \* bound: the page opens no more sockets; the last one is not lost
          MaxBuffer,   \* TAB_SWITCH_BUFFER_MAX
          MaxCount     \* bound: how often the user switches tabs

ASSUME ConstantsAssumption ==
    /\ MaxSockets \in Nat \ {0}
    /\ MaxBuffer \in Nat \ {0}
    /\ MaxCount \in Nat

\* Sockets are numbered in the order of their creation; the first one has been
\* opened by the check of the connection before the exam.
Socket == 1..MaxSockets
None == 0
Event == 0..MaxCount

VARIABLES
    state,      \* readyState of each socket; "new": not created yet
    alive,      \* the network carries the messages of the socket
    handled,    \* the socket has the handlers of setupExamMessageHandler
    wire,       \* events on their way to the server
    acks,       \* number of acknowledgments on their way to the page
    socket,     \* the variable socket of initProctoringWithStream
    shared,     \* window.proctorSocket
    connected,  \* isConnected
    monitor,    \* heartbeatCheckInterval is set
    late,       \* more than HEARTBEAT_TIMEOUT_MS since the last ping
    retries,    \* timers that will call initWebSocket
    attempts,   \* wsReconnectAttempts
    buffer,     \* tabSwitchBuffer
    count,      \* tab switches so far
    submit,     \* how far "Submit Test" has come
    final,      \* the count it has taken
    received    \* history: the events the server has received

net == <<state, alive, handled, wire, acks>>
page == <<socket, shared, connected, monitor, late, retries, attempts, buffer>>
vars == <<net, page, count, submit, final, received>>

Init ==
    /\ state = [i \in Socket |-> IF i = 1 THEN "open" ELSE "new"]
    /\ alive = [i \in Socket |-> TRUE]
    /\ handled = [i \in Socket |-> FALSE]
    /\ wire = [i \in Socket |-> <<>>]
    /\ acks = [i \in Socket |-> 0]
    /\ socket = None /\ shared = 1
    /\ connected = FALSE /\ monitor = FALSE /\ late = FALSE
    /\ retries = 0 /\ attempts = 0
    /\ buffer = <<>>
    /\ count = 0
    /\ submit = "no" /\ final = 0
    /\ received = {}

Open(i) == i # None /\ state[i] = "open"
examSubmitted == submit # "no"

-----------------------------------------------------------------------------
(* Connecting.                                                              *)

\* Mutants: the buffered events are not sent, or before isConnected is set; the
\* heartbeat is watched on the first connection only.
AdoptUnflushed(i) ==
    /\ socket' = i /\ shared' = i
    /\ connected' = TRUE /\ late' = FALSE /\ monitor' = TRUE
    /\ handled' = [handled EXCEPT ![i] = TRUE]
    /\ UNCHANGED <<wire, buffer>>
AdoptInWrongOrder(i) ==
    /\ socket' = i /\ shared' = i
    /\ connected' = TRUE /\ late' = FALSE /\ monitor' = TRUE
    /\ wire' = IF connected THEN [wire EXCEPT ![i] = @ \o buffer] ELSE wire
    /\ handled' = [handled EXCEPT ![i] = TRUE]
    /\ UNCHANGED buffer
AdoptUnwatched(i) ==
    /\ socket' = i /\ shared' = i
    /\ connected' = TRUE /\ late' = FALSE /\ monitor' = (socket = None)
    /\ wire' = [wire EXCEPT ![i] = @ \o buffer]
    /\ handled' = [handled EXCEPT ![i] = TRUE]
    /\ UNCHANGED buffer

\* The page goes on with the socket i: the heartbeat is watched, the buffered
\* events are sent, and stay in the buffer until they are acknowledged.
Adopt(i) ==
    /\ socket' = i /\ shared' = i
    /\ connected' = TRUE
    /\ late' = FALSE
    /\ monitor' = TRUE
    /\ wire' = [wire EXCEPT ![i] = @ \o buffer]
    /\ handled' = [handled EXCEPT ![i] = TRUE]
    /\ UNCHANGED buffer

\* A new socket has no handler for its closing until it is open.
Create ==
    \E i \in Socket :
        /\ state[i] = "new" /\ \A j \in 1..(i - 1) : state[j] # "new"
        /\ state' = [state EXCEPT ![i] = "connecting"]
        /\ socket' = i
        /\ UNCHANGED <<shared, connected, monitor, late, wire, handled, buffer>>

\* Mutant: the submission of the exam is not looked at.
InitRegardless ==
    \/ /\ Open(shared)
       /\ Adopt(shared)
       /\ UNCHANGED state
    \/ /\ ~Open(shared)
       /\ Create

InitWebSocket ==
    \/ /\ examSubmitted
       /\ UNCHANGED <<state, socket, shared, connected, monitor, late, wire, handled, buffer>>
    \/ /\ ~examSubmitted
       /\ Open(shared)
       /\ Adopt(shared)
       /\ UNCHANGED state
    \/ /\ ~examSubmitted
       /\ ~Open(shared)
       /\ Create

\* The exam starts: the socket of the check is taken over if it is still open.
Start ==
    /\ socket = None
    /\ InitWebSocket
    /\ UNCHANGED <<alive, acks, retries, attempts, count, submit, final, received>>

\* onopen.
Opened(i) ==
    /\ state[i] = "connecting"
    /\ state' = [state EXCEPT ![i] = "open"]
    /\ Adopt(i)
    /\ attempts' = 0
    /\ UNCHANGED <<alive, acks, retries, count, submit, final, received>>

\* onerror of a socket that does not open: it is closed, and nobody is told.
ConnectFails(i) ==
    /\ i < MaxSockets
    /\ state[i] = "connecting"
    /\ state' = [state EXCEPT ![i] = "closed"]
    /\ UNCHANGED <<alive, handled, wire, acks, page, count, submit, final, received>>

\* onclose, if the exam has set it: the next attempt is scheduled unless the
\* exam has been submitted.  What was on its way is lost.
Closes(i) ==
    /\ state' = [state EXCEPT ![i] = "closed"]
    /\ wire' = [wire EXCEPT ![i] = <<>>]
    /\ acks' = [acks EXCEPT ![i] = 0]
    /\ connected' = (connected /\ ~handled[i])
    /\ monitor' = (monitor /\ ~handled[i])
    /\ retries' = IF handled[i] /\ ~examSubmitted THEN retries + 1 ELSE retries
    /\ UNCHANGED <<alive, handled, socket, shared, late, attempts, buffer, count, submit, final, received>>

\* The connection breaks, and the page is told; or it dies, and the page is not.
Breaks(i) == i < MaxSockets /\ state[i] = "open" /\ Closes(i)

Dies(i) ==
    /\ i < MaxSockets
    /\ state[i] = "open" /\ alive[i]
    /\ alive' = [alive EXCEPT ![i] = FALSE]
    /\ UNCHANGED <<state, handled, wire, acks, page, count, submit, final, received>>

\* A socket that is closing delivers what was sent before, if it can.
Closed(i) ==
    /\ state[i] = "closing"
    /\ alive[i] => wire[i] = <<>>
    /\ Closes(i)

Retry ==
    /\ retries > 0
    /\ retries' = retries - 1
    /\ attempts' = attempts + 1
    /\ InitWebSocket
    /\ UNCHANGED <<alive, acks, count, submit, final, received>>

-----------------------------------------------------------------------------
(* The heartbeat.                                                           *)

Ping ==
    /\ Open(socket) /\ handled[socket] /\ alive[socket]
    /\ late' = FALSE
    /\ UNCHANGED <<net, socket, shared, connected, monitor, retries, attempts, buffer,
                   count, submit, final, received>>

\* No ping has come for a while, on a connection that is dead or merely slow.
\* (The last socket is not slow.)
PingIsLate ==
    /\ ~late
    /\ socket = MaxSockets => ~alive[socket]
    /\ late' = TRUE
    /\ UNCHANGED <<net, socket, shared, connected, monitor, retries, attempts, buffer,
                   count, submit, final, received>>

\* Mutant: the check connects again by itself.
HeartbeatReconnects ==
    /\ monitor /\ connected /\ Open(socket) /\ late
    /\ \E i \in Socket :
          /\ state[i] = "new"
          /\ state' = [state EXCEPT ![socket] = "closing", ![i] = "connecting"]
          /\ socket' = i
    /\ UNCHANGED <<alive, handled, wire, acks, shared, connected, monitor, late, retries,
                   attempts, buffer, count, submit, final, received>>

\* The check that runs every HEARTBEAT_CHECK_INTERVAL_MS.
Heartbeat ==
    /\ monitor /\ connected /\ Open(socket) /\ late
    /\ state' = [state EXCEPT ![socket] = "closing"]
    /\ UNCHANGED <<alive, handled, wire, acks, page, count, submit, final, received>>

-----------------------------------------------------------------------------
(* Tab switches.                                                            *)

\* Mutant: the capacity is not looked at.
PushAlways(e) == Append(buffer, e)

\* bufferTabSwitchEvent: the oldest event gives way.
Push(e) == IF Len(buffer) >= MaxBuffer THEN Append(Tail(buffer), e) ELSE Append(buffer, e)

\* sendTabSwitchEvent
SendTabSwitchEvent(e) ==
    IF connected /\ Open(socket)
    THEN wire' = [wire EXCEPT ![socket] = Append(@, e)] /\ UNCHANGED buffer
    ELSE buffer' = Push(e) /\ UNCHANGED wire

TabSwitch ==
    /\ socket # None
    /\ count < MaxCount
    /\ count' = count + 1
    /\ SendTabSwitchEvent(count + 1)
    /\ UNCHANGED <<state, alive, handled, acks, socket, shared, connected, monitor, late,
                   retries, attempts, submit, final, received>>

\* The server receives an event, and acknowledges it.
Deliver(i) ==
    /\ alive[i] /\ wire[i] # <<>>
    /\ received' = received \cup {Head(wire[i])}
    /\ wire' = [wire EXCEPT ![i] = Tail(@)]
    /\ acks' = [acks EXCEPT ![i] = @ + 1]
    /\ UNCHANGED <<state, alive, handled, page, count, submit, final>>

\* tab_switch_ack clears the whole buffer; a socket that is closing takes no message.
Acknowledged(i) ==
    /\ alive[i] /\ acks[i] > 0
    /\ acks' = [acks EXCEPT ![i] = @ - 1]
    /\ buffer' = IF Open(i) /\ handled[i] THEN <<>> ELSE buffer
    /\ UNCHANGED <<state, alive, handled, wire, socket, shared, connected, monitor, late,
                   retries, attempts, count, submit, final, received>>

-----------------------------------------------------------------------------
(* Submitting the test.                                                     *)

Confirm ==
    /\ submit = "no" /\ socket # None
    /\ submit' = "saving"
    /\ final' = count
    /\ UNCHANGED <<net, page, count, received>>

\* The answers are saved; the final count is sent if the socket is open.
SendFinal ==
    /\ submit = "saving"
    /\ submit' = IF Open(shared) THEN "sent" ELSE "done"
    /\ wire' = IF Open(shared) THEN [wire EXCEPT ![shared] = Append(@, final)] ELSE wire
    /\ UNCHANGED <<state, alive, handled, acks, page, count, final, received>>

\* 200 ms later.
CloseLink ==
    /\ submit = "sent"
    /\ submit' = "done"
    /\ state' = IF Open(shared) THEN [state EXCEPT ![shared] = "closing"] ELSE state
    /\ UNCHANGED <<alive, handled, wire, acks, page, count, final, received>>

-----------------------------------------------------------------------------
Next ==
    \/ Start \/ Retry
    \/ \E i \in Socket : Opened(i) \/ ConnectFails(i) \/ Breaks(i) \/ Dies(i) \/ Closed(i)
    \/ Ping \/ PingIsLate \/ Heartbeat
    \/ TabSwitch
    \/ \E i \in Socket : Deliver(i) \/ Acknowledged(i)
    \/ Confirm \/ SendFinal \/ CloseLink

\* Timers fire, a connection is established in the end or fails, a living one
\* carries its messages, and on a dead one no ping comes.
Fairness ==
    /\ WF_vars(Start) /\ WF_vars(Retry)
    /\ \A i \in Socket :
          /\ WF_vars(Opened(i)) /\ WF_vars(Closed(i))
          /\ WF_vars(Deliver(i)) /\ WF_vars(Acknowledged(i))
    /\ WF_vars(socket # None /\ ~alive[socket] /\ PingIsLate) /\ WF_vars(Heartbeat)
    /\ WF_vars(SendFinal) /\ WF_vars(CloseLink)

Spec == Init /\ [][Next]_vars /\ Fairness

-----------------------------------------------------------------------------
(* Properties.                                                              *)

States == {"new", "connecting", "open", "closing", "closed"}

TypeOK ==
    /\ state \in [Socket -> States]
    /\ alive \in [Socket -> BOOLEAN] /\ handled \in [Socket -> BOOLEAN]
    /\ wire \in [Socket -> Seq(Event)]
    /\ acks \in [Socket -> Nat]
    /\ socket \in Socket \cup {None} /\ shared \in Socket \cup {None}
    /\ connected \in BOOLEAN /\ monitor \in BOOLEAN /\ late \in BOOLEAN
    /\ retries \in Nat /\ attempts \in Nat
    /\ buffer \in Seq(Event) /\ Len(buffer) <= MaxBuffer
    /\ count \in Event /\ final \in Event
    /\ submit \in {"no", "saving", "sent", "done"}
    /\ received \subseteq Event

\* One session has one connection: however the heartbeat, the closing of
\* sockets and the timers interleave, no two sockets are connecting or open,
\* and none is while a reconnection is scheduled.
Live(i) == state[i] \in {"connecting", "open"}
OneLink ==
    /\ \A i, j \in Socket : Live(i) /\ Live(j) => i = j
    /\ retries <= 1
    /\ \A i \in Socket : Live(i) => retries = 0

\* No connection is begun after the test was submitted, not by a timer that was
\* set before either.
NoLinkAfterSubmission ==
    [][examSubmitted => \A i \in Socket : state[i] = "new" => state'[i] = "new"]_vars

\* An acknowledgment removes an event from the buffer only if this event has
\* been sent on the same connection (contest_landing.html:2040-2068, 2089-2092).
Elements(s) == {s[k] : k \in 1..Len(s)}
AckedOnlyFlushed ==
    [][\A i \in Socket : Acknowledged(i) =>
          \A e \in Elements(buffer) \ Elements(buffer') : e \in received \cup Elements(wire[i])]_vars

\* A buffered event reaches the server once there is a connection again, unless
\* this connection is lost as well.
Up == connected /\ Open(socket) /\ alive[socket]
BufferedArrive == \A e \in Event : e \in Elements(buffer) /\ Up ~> e \in received \/ ~Up

\* A connection that has died is noticed and closed.
ZombieNoticed ==
    \A i \in Socket : state[i] = "open" /\ handled[i] /\ ~alive[i] ~> state[i] # "open"

\* "Exponential backoff configuration for reconnection" (contest_landing.html:1969)
\* and "Only reconnect if exam is NOT submitted" (contest_landing.html:2118):
\* until then, the page is connected again and again.
KeepsReconnecting == ~examSubmitted ~> Up \/ examSubmitted

=============================================================================
