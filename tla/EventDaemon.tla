---------------------------- MODULE EventDaemon ----------------------------
(***************************************************************************)
(* The event daemon (src/websocket/daemon.js), which tells the pages of    *)
(* the site what has happened, and the pages' end of it, EventReceiver     *)
(* (src/resources/event.js).  A page connects by web socket, or polls when *)
(* no socket opens within two seconds.  The daemon keeps the last messages *)
(* of all channels in one queue, a set of web sockets that follow, and a   *)
(* set of poll requests that wait.  The set is that of                     *)
(* src/node_modules/simplesets: an array, walked by index.                 *)
(*                                                                         *)
(* Each page is on one channel.  The daemon keeps nothing on disk: Restart *)
(* is a crash that empties it.                                             *)
(***************************************************************************)
EXTENDS SequencesExt

CONSTANTS Pages, Channels,
          ChannelOf,      \* page -> its channel
          HasWebSocket,   \* the pages whose browser has window.WebSocket
          MaxQueue,       \* max_queue
          MaxId,          \* bound: the last message number
          MaxFaults       \* bound: crashes, lost connections and failed requests

ASSUME ConstantsAssumption ==
    /\ ChannelOf \in [Pages -> Channels]
    /\ HasWebSocket \subseteq Pages
    /\ MaxQueue \in Nat \ {0} /\ MaxId \in Nat \ {0} /\ MaxFaults \in Nat

Message == [id : 1..MaxId, channel : Channels]
Id == 0..MaxId

\* What a page is doing: the phases of its web socket, or of its poll request.
Connected == {"opened", "started", "following"}
Requesting == {"asking", "waiting", "answered", "timed out"}
Phase == {"new", "connecting", "closed", "pausing"} \union Connected \union Requesting

VARIABLES
    message_id,  \* daemon: the number of the last message
    messages,    \* daemon: the queue
    followers,   \* daemon: pages whose sockets have set a filter
    pollers,     \* daemon: the pages whose requests wait, in the order of the array
    socketLast,  \* daemon: last_msg of each page's socket
    sent,        \* messages on their way to each page; at most one answers a request
    phase,       \* of each page
    start,       \* page -> the last_msg it has been rendered with
    last,        \* page -> receiver.last_msg
    faults,      \* faults so far
    posted,      \* history: all messages
    evicted,     \* history: the number of the last message that left the queue
    from,        \* history: page -> the number after which it follows
    seen         \* history: page -> the messages given to its onmessage

daemon == <<message_id, messages, followers, pollers, socketLast>>
page == <<phase, start, last, seen>>
history == <<posted, evicted, from>>
vars == <<daemon, page, sent, faults, history>>

Init ==
    /\ message_id = 1                    \* Date.now(), which is not 0
    /\ messages = <<>>
    /\ followers = {}
    /\ pollers = <<>>
    /\ socketLast = [p \in Pages |-> 0]
    /\ sent = [p \in Pages |-> <<>>]
    /\ phase = [p \in Pages |-> "new"]
    /\ start = [p \in Pages |-> 0]
    /\ last = [p \in Pages |-> 0]
    /\ faults = 0
    /\ posted = {} /\ evicted = 1
    /\ from = [p \in Pages |-> 0]
    /\ seen = [p \in Pages |-> {}]

-----------------------------------------------------------------------------
(* Helpers.                                                                *)

For(m, p) == m.channel = ChannelOf[p]

\* The members of S among the elements of q, in the order of q.
Only(q, S) ==
    LET only[i \in 0..Len(q)] ==
            IF i = 0 THEN <<>>
            ELSE IF q[i] \in S THEN Append(only[i - 1], q[i]) ELSE only[i - 1]
    IN  only[Len(q)]

\* pollers.each(callback), where the callback removes the request it answers: the
\* request after one that is removed moves into its place and is passed over.
Visits(m) ==
    LET visits[i \in 1..Len(pollers)] ==
            i = 1 \/ ~(visits[i - 1] /\ For(m, pollers[i - 1]))
    IN  {pollers[i] : i \in {j \in 1..Len(pollers) : visits[j]}}

\* The requests a message answers.
Answers(m) == {p \in Visits(m) : For(m, p)}

\* Mutant: the queue grows by one message more before the oldest one is shifted out.
PushOneMore(m) == LET q == Append(messages, m)
                  IN  IF Len(q) > MaxQueue + 1 THEN Tail(q) ELSE q

\* The queue after a message has been put into it.
Push(m) == LET q == Append(messages, m)
           IN  IF Len(q) > MaxQueue THEN Tail(q) ELSE q

\* Mutant: catch_up compares with >=.
CatchUpInclusive(p, n) == Only(messages, {m \in Message : m.id >= n /\ For(m, p)})

\* What catch_up sends to a page that has seen the messages up to n.
CatchUp(p, n) == Only(messages, {m \in Message : m.id > n /\ For(m, p)})

\* The first message of the queue for a page that polls with n.
FirstFor(p, n) == {messages[i] : i \in {j \in DOMAIN messages :
                    /\ messages[j].id > n /\ For(messages[j], p)
                    /\ \A k \in 1..(j - 1) : ~(messages[k].id > n /\ For(messages[k], p))}}

-----------------------------------------------------------------------------
(* The web server posts a message to a channel.  EventPoster.post sends a  *)
(* message again when the answer of the daemon is lost: another Post.      *)

Post(c) ==
    /\ message_id < MaxId
    /\ LET m == [id |-> message_id + 1, channel |-> c] IN
       /\ message_id' = message_id + 1
       /\ messages' = Push(m)
       /\ evicted' = IF Len(messages) = MaxQueue THEN Head(messages).id ELSE evicted
       /\ socketLast' = [p \in Pages |-> IF p \in followers THEN m.id ELSE socketLast[p]]
       /\ pollers' = Only(pollers, Pages \ Answers(m))
       /\ sent' = [p \in Pages |->
                     IF (p \in followers /\ For(m, p)) \/ p \in Answers(m)
                     THEN Append(sent[p], m) ELSE sent[p]]
       /\ phase' = [p \in Pages |-> IF p \in Answers(m) THEN "answered" ELSE phase[p]]
       /\ posted' = posted \union {m}
    /\ UNCHANGED <<followers, start, last, seen, faults, from>>

(* A page is rendered with event.last(), and its script creates the        *)
(* receiver.  With no answer from the daemon it is rendered without one.   *)
Load(p) ==
    /\ phase[p] = "new" /\ start[p] = 0
    /\ start' = [start EXCEPT ![p] = message_id]
    /\ last' = [last EXCEPT ![p] = message_id]
    /\ phase' = [phase EXCEPT ![p] = IF p \in HasWebSocket THEN "connecting" ELSE "asking"]
    /\ UNCHANGED <<daemon, seen, sent, faults, history>>

-----------------------------------------------------------------------------
(* By web socket.                                                          *)

(* onopen: the timer is cleared and start-msg and set-filter are sent.     *)
Opened(p) ==
    /\ phase[p] = "connecting"
    /\ phase' = [phase EXCEPT ![p] = "opened"]
    /\ UNCHANGED <<daemon, start, last, seen, sent, faults, history>>

(* Two seconds have passed: the socket is given up and the page polls.     *)
GivesUp(p) ==
    /\ phase[p] = "connecting"
    /\ phase' = [phase EXCEPT ![p] = "asking"]
    /\ UNCHANGED <<daemon, start, last, seen, sent, faults, history>>

StartMsg(p) ==
    /\ phase[p] = "opened"
    /\ socketLast' = [socketLast EXCEPT ![p] = start[p]]
    /\ phase' = [phase EXCEPT ![p] = "started"]
    /\ UNCHANGED <<message_id, messages, followers, pollers,
                   start, last, seen, sent, faults, history>>

(* From here the page follows; what it has missed is sent to it first.     *)
SetFilter(p) ==
    /\ phase[p] = "started"
    /\ followers' = followers \union {p}
    /\ sent' = [sent EXCEPT ![p] = @ \o CatchUp(p, socketLast[p])]
    /\ socketLast' = [socketLast EXCEPT
                        ![p] = IF messages # <<>> /\ Last(messages).id > @
                               THEN Last(messages).id ELSE @]
    /\ from' = [from EXCEPT ![p] = IF evicted > start[p] THEN evicted ELSE start[p]]
    /\ phase' = [phase EXCEPT ![p] = "following"]
    /\ UNCHANGED <<message_id, messages, pollers, start, last, seen, faults, posted, evicted>>

(* onmessage of the page.                                                  *)
Receive(p) ==
    /\ phase[p] = "following" /\ sent[p] # <<>>
    /\ LET m == Head(sent[p]) IN
       /\ seen' = [seen EXCEPT ![p] = @ \union {m}]
       /\ last' = [last EXCEPT ![p] = m.id]
    /\ sent' = [sent EXCEPT ![p] = Tail(@)]
    /\ UNCHANGED <<daemon, phase, start, faults, history>>

(* The connection breaks: both ends learn of it, and what was on its way   *)
(* is lost.  The page does not connect again.                              *)
Breaks(p) ==
    /\ phase[p] \in Connected /\ faults < MaxFaults
    /\ faults' = faults + 1
    /\ followers' = followers \ {p}
    /\ sent' = [sent EXCEPT ![p] = <<>>]
    /\ phase' = [phase EXCEPT ![p] = "closed"]
    /\ UNCHANGED <<message_id, messages, pollers, socketLast, start, last, seen, history>>

-----------------------------------------------------------------------------
(* By polling.                                                             *)

(* The daemon takes the request: it is answered from the queue, or waits.  *)
PollArrives(p) ==
    /\ phase[p] = "asking"
    /\ LET first == FirstFor(p, last[p]) IN
       IF first # {}
       THEN /\ \E m \in first : sent' = [sent EXCEPT ![p] = <<m>>]
            /\ phase' = [phase EXCEPT ![p] = "answered"]
            /\ UNCHANGED pollers
       ELSE /\ pollers' = Append(pollers, p)
            /\ phase' = [phase EXCEPT ![p] = "waiting"]
            /\ UNCHANGED sent
    /\ UNCHANGED <<message_id, messages, followers, socketLast, start, last, seen, faults, history>>

(* long_poll_timeout: the request is answered with 504.                    *)
PollTimeout(p) ==
    /\ phase[p] = "waiting"
    /\ pollers' = Only(pollers, Pages \ {p})
    /\ phase' = [phase EXCEPT ![p] = "timed out"]
    /\ UNCHANGED <<message_id, messages, followers, socketLast,
                   start, last, seen, sent, faults, history>>

(* Mutant: the page polls again before it has set last_msg.                *)
SuccessPollsFirst(p) ==
    /\ phase[p] = "answered"
    /\ seen' = [seen EXCEPT ![p] = @ \union {Head(sent[p])}]
    /\ sent' = [sent EXCEPT ![p] = <<>>]
    /\ phase' = [phase EXCEPT ![p] = "asking"]
    /\ UNCHANGED <<daemon, start, last, faults, history>>

(* success: the message is handled and the page polls again.               *)
Success(p) ==
    /\ phase[p] = "answered"
    /\ LET m == Head(sent[p]) IN
       /\ seen' = [seen EXCEPT ![p] = @ \union {m}]
       /\ last' = [last EXCEPT ![p] = m.id]
    /\ sent' = [sent EXCEPT ![p] = <<>>]
    /\ phase' = [phase EXCEPT ![p] = "asking"]
    /\ UNCHANGED <<daemon, start, faults, history>>

(* Mutant: the page takes 504 for an end.                                  *)
TimedOutForGood(p) == phase[p] = "timed out" /\ UNCHANGED vars

(* error with status 504: the page polls again.                            *)
TimedOut(p) ==
    /\ phase[p] = "timed out"
    /\ phase' = [phase EXCEPT ![p] = "asking"]
    /\ UNCHANGED <<daemon, start, last, seen, sent, faults, history>>

(* The request or its answer is lost; the daemon forgets the request and   *)
(* the page polls again after two seconds.                                 *)
PollFails(p) ==
    /\ phase[p] \in Requesting /\ faults < MaxFaults
    /\ faults' = faults + 1
    /\ pollers' = Only(pollers, Pages \ {p})
    /\ sent' = [sent EXCEPT ![p] = <<>>]
    /\ phase' = [phase EXCEPT ![p] = "pausing"]
    /\ UNCHANGED <<message_id, messages, followers, socketLast, start, last, seen, history>>

Retry(p) ==
    /\ phase[p] = "pausing"
    /\ phase' = [phase EXCEPT ![p] = "asking"]
    /\ UNCHANGED <<daemon, start, last, seen, sent, faults, history>>

-----------------------------------------------------------------------------
(* The daemon crashes and is started again.  Its numbers go on from        *)
(* Date.now(), which is beyond those it has used.                          *)
Restart ==
    /\ faults < MaxFaults /\ message_id < MaxId
    /\ faults' = faults + 1
    /\ message_id' = message_id + 1
    /\ messages' = <<>> /\ followers' = {} /\ pollers' = <<>>
    /\ socketLast' = [p \in Pages |-> 0]
    /\ phase' = [p \in Pages |-> CASE phase[p] \in Connected -> "closed"
                                   [] phase[p] \in Requesting -> "pausing"
                                   [] OTHER -> phase[p]]
    /\ sent' = [p \in Pages |-> <<>>]
    /\ evicted' = message_id'
    /\ UNCHANGED <<start, last, seen, posted, from>>

-----------------------------------------------------------------------------
Next ==
    \/ \E c \in Channels : Post(c)
    \/ \E p \in Pages :
         \/ Load(p)
         \/ Opened(p) \/ GivesUp(p) \/ StartMsg(p) \/ SetFilter(p) \/ Receive(p) \/ Breaks(p)
         \/ PollArrives(p) \/ PollTimeout(p) \/ Success(p) \/ TimedOut(p)
         \/ PollFails(p) \/ Retry(p)
    \/ Restart

\* The commands and messages of an open connection arrive, a request arrives, timers
\* fire.  Nothing else has to happen: not that messages are posted or pages loaded.
Fairness ==
    \A p \in Pages :
        /\ WF_vars(GivesUp(p)) /\ WF_vars(StartMsg(p)) /\ WF_vars(SetFilter(p))
        /\ WF_vars(Receive(p)) /\ WF_vars(PollArrives(p)) /\ WF_vars(PollTimeout(p))
        /\ WF_vars(Success(p)) /\ WF_vars(TimedOut(p)) /\ WF_vars(Retry(p))

Spec == Init /\ [][Next]_vars /\ Fairness

-----------------------------------------------------------------------------
(* Properties.                                                             *)

(* Types; the queue is bounded, and a request that waits is in pollers.    *)
TypeOK ==
    /\ message_id \in 1..MaxId
    /\ messages \in Seq(Message) /\ Len(messages) <= MaxQueue
    /\ followers = {p \in Pages : phase[p] = "following"}
    /\ pollers \in Seq(Pages) /\ IsInjective(pollers)
    /\ Range(pollers) = {p \in Pages : phase[p] = "waiting"}
    /\ socketLast \in [Pages -> Id] /\ start \in [Pages -> Id] /\ last \in [Pages -> Id]
    /\ from \in [Pages -> Id] /\ evicted \in Id
    /\ sent \in [Pages -> Seq(Message)]
    /\ phase \in [Pages -> Phase]
    /\ posted \subseteq Message
    /\ seen \in [Pages -> SUBSET posted]
    /\ faults \in 0..MaxFaults

Ids(ms) == {m.id : m \in ms}

(* Through catching up, live messages and the hand-over between the two, a *)
(* page that follows has been given, or will be, every message of its      *)
(* channel that was posted after it was rendered and had not left the      *)
(* queue when it set its filter: none twice and none skipped.              *)
NothingSkipped ==
    \A p \in Pages : phase[p] = "following" =>
        /\ Ids(seen[p]) \union Ids(ToSet(sent[p]))
             = {m.id : m \in {n \in posted : For(n, p) /\ n.id > from[p]}}
        /\ \A i \in DOMAIN sent[p] : sent[p][i].id > last[p]

(* A message a page waits for in the queue reaches the page, or the page   *)
(* gets a later one, unless it leaves the queue first or the page's web    *)
(* socket breaks: whatever requests time out, are lost or are passed over  *)
(* by the walk through the pollers.                                        *)
QueuedFor(p, n) == \E i \in DOMAIN messages : messages[i].id = n /\ For(messages[i], p)

ReachesPages ==
    \A p \in Pages : \A n \in 1..MaxId :
        phase[p] \notin {"new"} /\ last[p] < n /\ QueuedFor(p, n)
            ~> last[p] >= n \/ ~QueuedFor(p, n) \/ phase[p] = "closed"

(* What the pages are told is what EventFeed promises: messages of their   *)
(* channel, in order, each once, also across polls, restarts and the       *)
(* change from web socket to polling.                                      *)
Feed == INSTANCE EventFeed
DeliversAsPromised == Feed!FeedSpec

(* No request is left waiting for a message that has been posted to its    *)
(* channel.  pollers.each (daemon.js:39) is meant to give this, but its    *)
(* callback removes from the set, of which simplesets.js:128-129 says: "If *)
(* the set is changed by the callback, the results are undefined."         *)
EveryPollerCalled ==
    \A p \in Range(pollers) : ~\E i \in DOMAIN messages :
        For(messages[i], p) /\ messages[i].id > last[p]
=============================================================================
