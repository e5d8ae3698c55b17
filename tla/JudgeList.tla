------------------------------ MODULE JudgeList ------------------------------
(***************************************************************************)
(* The submission scheduler of the bridge (judge/bridge/judge_list.py)     *)
(* together with the handler threads of the judge connections that drive   *)
(* it (judge/bridge/judge_handler.py).                                     *)
(*                                                                         *)
(* A Judge is one JudgeHandler object: one TCP connection.  JudgeList      *)
(* protects its state by one RLock.  An operation that may call            *)
(* _handle_free_judge several times takes several steps here, with the     *)
(* lock held by "owner" in between: "waking" are the judges the loop of    *)
(* _update_min_tier has still to serve, "tail" is what the operation does  *)
(* after that loop.  Every other locked operation waits.                   *)
(***************************************************************************)
EXTENDS Integers, Sequences, FiniteSets

CONSTANTS Judge,       \* judge connections
          Submission,
          Priority,    \* the priorities requests use, out of 0..3
          NameOf,      \* the judge name a connection authenticates with
          TierOf,      \* the tier stored for that judge
          Pins,        \* the values of judge_id in requests
          ProblemSets, \* the sets of submissions a judge may have the problem of
          MaxToggles,  \* how many administrators toggle judges at the same time
          Environment  \* what happens besides requests, aborts and lost judges

Events == {"rejudge",     \* a submission that has a result is requested again
           "send_error",  \* sending to a connection that is closing raises
           "db_error",    \* get_related_submission_data raises
           "vanish",      \* the row of a submission is deleted before it is sent
           "disable",     \* an administrator disables and enables judges
           "reload"}      \* a judge announces a changed problem list

ASSUME JudgeListAssumption ==
    /\ Priority \subseteq 0 .. 3
    /\ TierOf \in [Judge -> Nat]
    /\ ProblemSets \subseteq SUBSET Submission
    /\ Environment \subseteq Events

NoSubmission == "no submission"
NoPin == "no judge_id"
NoTier == -1
NoOne == "no thread"
Web == "the thread of a request from the site"
Names == {NameOf[j] : j \in Judge}
ASSUME Distinguished ==
    /\ NoSubmission \notin Submission
    /\ {NoOne, Web} \cap Judge = {}
    /\ Pins \subseteq Names \cup {NoPin}
    /\ NoPin \notin Names

REJUDGE_PRIORITY == 2

VARIABLES
    judges,         \* JudgeList.judges
    queue,          \* JudgeList.queue: for each priority what is before its marker
    pin,            \* the judge_id of a queued submission
    submission_map, \* JudgeList.submission_map
    min_tier,       \* JudgeList.min_tier
    owner,          \* the thread that holds JudgeList.lock
    waking, tail,   \* what that thread has still to do
    phase,          \* the life of a JudgeHandler object
    working,        \* JudgeHandler._working
    is_disabled,    \* JudgeHandler.is_disabled
    problems,       \* JudgeHandler.problems
    finishing,      \* the submission whose end the handler is recording
    reloading,      \* on_supported_problems has seen the judge idle
    sent, job,      \* the judge process: what it was sent, what it acknowledged
    db_disabled,    \* Judge.is_disabled in the database
    row,            \* the Judge row that _connected has read and will save
    toggling,       \* what toggle_disabled is doing about a judge
    status          \* Submission.status, P and G as "P", all final ones as "D"

schedule == <<judges, queue, pin, submission_map, min_tier>>
lock == <<owner, waking, tail>>
handler == <<phase, working, is_disabled, problems, finishing, reloading>>
process == <<sent, job>>
admin == <<db_disabled, row, toggling>>
vars == <<schedule, lock, handler, process, admin, status>>

Phase == {"off",         \* no connection
          "registered",  \* on_handshake has called register, not yet _connected
          "ready",       \* reading packets
          "closing",     \* the socket is dead, on_disconnect has not run
          "removed"}     \* on_disconnect has removed it, the IE is not written

\* How far _connected is, and how far a toggle is: nothing, the row is loaded,
\* the bridge has replied.
RowStep == {"unread", "read", "cached"}
ToggleStep == {"none", "loaded", "told"}

Unread == [step |-> "unread", disabled |-> FALSE]
NoToggle == [step |-> "none", disabled |-> FALSE]

Elements(q) == {q[i] : i \in DOMAIN q}
Queued == UNION {Elements(queue[p]) : p \in Priority}
Dispatched == DOMAIN submission_map
InProgress(s) == status[s] \in {"QU", "P"}

TypeOK ==
    /\ judges \subseteq Judge
    /\ queue \in [Priority -> Seq(Submission)]
    /\ pin \in [Submission -> Names \cup {NoPin}]
    /\ Dispatched \subseteq Submission
    /\ submission_map \in [Dispatched -> Judge]
    /\ min_tier \in Nat \cup {NoTier}
    /\ owner \in Judge \cup {NoOne, Web}
    /\ waking \subseteq Judge
    /\ tail \in {"none", "free", "sole"}
    /\ phase \in [Judge -> Phase]
    /\ working \in [Judge -> Submission \cup {NoSubmission}]
    /\ is_disabled \in [Judge -> BOOLEAN]
    /\ problems \in [Judge -> SUBSET Submission]
    /\ finishing \in [Judge -> Submission \cup {NoSubmission}]
    /\ reloading \in [Judge -> BOOLEAN]
    /\ sent \in [Judge -> SUBSET Submission]
    /\ job \in [Judge -> SUBSET Submission]
    /\ db_disabled \in [Names -> BOOLEAN]
    /\ row \in [Judge -> [step : RowStep, disabled : BOOLEAN]]
    /\ toggling \in [Names -> [step : ToggleStep, disabled : BOOLEAN]]
    /\ status \in [Submission -> {"NEW", "QU", "P", "D"}]

Init ==
    /\ judges = {}
    /\ queue = [p \in Priority |-> <<>>]
    /\ pin = [s \in Submission |-> NoPin]
    /\ submission_map = [s \in {} |-> NoOne]
    /\ min_tier = NoTier
    /\ owner = NoOne /\ waking = {} /\ tail = "none"
    /\ phase = [j \in Judge |-> "off"]
    /\ working = [j \in Judge |-> NoSubmission]
    /\ is_disabled = [j \in Judge |-> FALSE]
    /\ problems = [j \in Judge |-> {}]
    /\ finishing = [j \in Judge |-> NoSubmission]
    /\ reloading = [j \in Judge |-> FALSE]
    /\ sent = [j \in Judge |-> {}]
    /\ job = [j \in Judge |-> {}]
    /\ db_disabled = [n \in Names |-> FALSE]
    /\ row = [j \in Judge |-> Unread]
    /\ toggling = [n \in Names |-> NoToggle]
    /\ status = [s \in Submission |-> "NEW"]

-----------------------------------------------------------------------------
(* Dictionaries and lists.                                                 *)

\* submission_map[s] = j
Put(map, s, j) == [x \in DOMAIN map \cup {s} |-> IF x = s THEN j ELSE map[x]]

\* del submission_map[s]
Del(map, s) == [x \in DOMAIN map \ {s} |-> map[x]]

\* queue.remove of the node at position i
Without(q, i) == [k \in 1 .. Len(q) - 1 |-> IF k < i THEN q[k] ELSE q[k + 1]]

-----------------------------------------------------------------------------
(* What JudgeList and JudgeHandler compute.                                *)

EnabledTiers(js, dis) == {TierOf[j] : j \in {k \in js : ~dis[k]}}

TierJudges(js, dis, tier) == {j \in js : TierOf[j] = tier /\ ~dis[j]}

current_tier_judges == TierJudges(judges, is_disabled, min_tier)

can_judge(j, s, judge_id) ==
    /\ s \in problems[j]
    /\ \/ judge_id = NoPin /\ ~is_disabled[j]
       \/ NameOf[j] = judge_id

Free(js) == {j \in js : working[j] = NoSubmission}

should_reserve_judge ==
    /\ Cardinality(current_tier_judges) > 1
    /\ Cardinality(Free(current_tier_judges)) <= 1

\* Mutant: nobody is woken when the minimum tier grows.
NoneWoken(js, dis, new) == {}

\* The judges that _update_min_tier serves: all of the new tier, if it is larger.
Woken(js, dis, new) ==
    IF min_tier # NoTier /\ new # NoTier /\ new > min_tier
    THEN TierJudges(js, dis, new) ELSE {}

\* _update_min_tier: the new minimum, and the judges its loop will serve.
UpdateMinTier(js, dis) ==
    /\ \/ EnabledTiers(js, dis) = {} /\ min_tier' = NoTier
       \/ /\ min_tier' \in EnabledTiers(js, dis)
          /\ \A t \in EnabledTiers(js, dis) : min_tier' <= t
    /\ waking' = Woken(js, dis, min_tier')

\* The nodes of the queue, as <<priority, position>>, and those that
\* _handle_free_judge(j) may dispatch.
QueueNodes == UNION {{p} \X DOMAIN queue[p] : p \in Priority}

Deliverable(j) ==
    {n \in QueueNodes : LET s == queue[n[1]][n[2]] IN
        /\ n[1] >= REJUDGE_PRIORITY => ~should_reserve_judge
        /\ can_judge(j, s, pin[s])}

Before(a, b) == a[1] < b[1] \/ (a[1] = b[1] /\ a[2] <= b[2])

\* judge.tier > self.min_tier is false, and raises a TypeError without a minimum.
\* Mutant: any tier.
AnyTierServed(j) == TRUE
TierServed(j) == min_tier # NoTier /\ TierOf[j] <= min_tier
Raises == min_tier = NoTier

\* How submit(s) can end: normally, raising in get_related_submission_data, or
\* after _working was set: in send, or for want of the data of a deleted row.
Outcomes(j) ==
    {"ok"} \cup (IF phase[j] = "closing" THEN Environment \cap {"send_error"} ELSE {})
           \cup (Environment \cap {"db_error", "vanish"})

Submit(j, s, outcome) ==
    /\ submission_map' = Put(submission_map, s, j)
    /\ working' = IF outcome = "db_error" THEN working ELSE [working EXCEPT ![j] = s]
    /\ sent' = IF outcome = "ok" /\ phase[j] # "closing"
               THEN [sent EXCEPT ![j] = @ \cup {s}] ELSE sent
    /\ judges' = IF outcome = "ok" THEN judges ELSE judges \ {j}

\* One call of _handle_free_judge(j) that returns.  When submit raises, the
\* node stays in the queue and the entry in submission_map.
HandleFreeJudge(j) ==
    IF TierServed(j) /\ Deliverable(j) # {}
    THEN \E n \in Deliverable(j), outcome \in Outcomes(j) :
            LET p == n[1]  i == n[2]  s == queue[p][i] IN
            /\ \A m \in Deliverable(j) : Before(n, m)
            /\ Submit(j, s, outcome)
            /\ IF outcome = "ok"
               THEN /\ queue' = [queue EXCEPT ![p] = Without(@, i)]
                    /\ pin' = [pin EXCEPT ![s] = NoPin]
               ELSE UNCHANGED <<queue, pin>>
    ELSE UNCHANGED <<judges, queue, pin, submission_map, working, sent>>

\* The test at the start of judge, and the judges it chooses from: no judge when
\* only one is left and the request is a rejudge.
\* Mutants: the queue is not looked at, or the map; working judges are chosen from.
KnownToJudges(s) == s \in Dispatched
KnownToQueue(s) == s \in Queued
Known(s) == s \in Dispatched \cup Queued
Anyone(candidates, p) == candidates
Available(candidates, p) ==
    IF /\ Cardinality(candidates) > 1
       /\ Cardinality(Free(candidates)) = 1
       /\ p >= REJUDGE_PRIORITY
    THEN {} ELSE Free(candidates)

\* The judge that remove serves last: one that is alone in its tier and free.
\* Mutant: no such judge.
NoSoleJudge == {}
sole_judge == IF Cardinality(current_tier_judges) = 1
              THEN Free(current_tier_judges) ELSE {}

-----------------------------------------------------------------------------
(* The steps of the thread that holds the lock.                            *)

LockFree == owner = NoOne

\* The loop of _update_min_tier serves one judge that is not working.
WakeNext(j) ==
    /\ j \in waking
    /\ waking' = waking \ {j}
    /\ IF working[j] = NoSubmission
       THEN HandleFreeJudge(j)
       ELSE UNCHANGED <<judges, queue, pin, submission_map, working, sent>>
    /\ owner' = IF waking' = {} /\ tail = "none" THEN NoOne ELSE owner
    /\ UNCHANGED <<min_tier, tail, phase, is_disabled, problems, finishing,
                   reloading, job, admin, status>>

\* The call of _handle_free_judge that ends register, on_judge_free and
\* update_problems: for the owner's own judge.
ServeOwner ==
    /\ tail = "free" /\ waking = {}
    /\ owner' = NoOne /\ tail' = "none"
    /\ HandleFreeJudge(owner)
    /\ finishing' = IF Raises THEN [finishing EXCEPT ![owner] = NoSubmission]
                              ELSE finishing
    /\ UNCHANGED <<min_tier, waking, phase, is_disabled, problems, reloading,
                   job, admin, status>>

\* The end of remove: a judge left alone in its tier is no longer reserved.
ServeSole ==
    /\ tail = "sole" /\ waking = {}
    /\ owner' = NoOne /\ tail' = "none"
    /\ IF sole_judge # {}
       THEN \E j \in sole_judge : HandleFreeJudge(j)
       ELSE UNCHANGED <<judges, queue, pin, submission_map, working, sent>>
    /\ UNCHANGED <<min_tier, waking, phase, is_disabled, problems, finishing,
                   reloading, job, admin, status>>

-----------------------------------------------------------------------------
(* Requests from the site.                                                 *)

\* judge_submission and JudgeList.judge.  When submit raises, judge calls
\* itself again and returns at its first test: the entry is in submission_map.
Request(s, p, judge_id) ==
    /\ LockFree
    /\ status[s] = "NEW" \/ ("rejudge" \in Environment /\ status[s] # "P")
    /\ status' = [status EXCEPT ![s] = "QU"]
    /\ LET candidates == {j \in current_tier_judges : can_judge(j, s, judge_id)}
           available == Available(candidates, p)
       IN \/ /\ Known(s)
             /\ UNCHANGED <<judges, queue, pin, submission_map, working, sent>>
          \/ /\ ~Known(s)
             /\ \E j \in available : \E outcome \in Outcomes(j) : Submit(j, s, outcome)
             /\ UNCHANGED <<queue, pin>>
          \/ /\ ~Known(s)
             /\ available = {}
             /\ queue' = [queue EXCEPT ![p] = Append(@, s)]
             /\ pin' = [pin EXCEPT ![s] = judge_id]
             /\ UNCHANGED <<judges, submission_map, working, sent>>
    /\ UNCHANGED <<min_tier, lock, phase, is_disabled, problems, finishing,
                   reloading, job, admin>>

\* abort_submission and JudgeList.abort.  A dispatched submission is only
\* asked to terminate: its end comes as a packet of the judge.
Abort(s) ==
    /\ LockFree
    /\ InProgress(s)
    /\ s \notin Dispatched
    /\ status' = [status EXCEPT ![s] = "D"]
    /\ \/ s \notin Queued /\ UNCHANGED <<queue, pin>>
       \/ \E p \in Priority : \E i \in DOMAIN queue[p] :
             /\ queue[p][i] = s
             /\ queue' = [queue EXCEPT ![p] = Without(@, i)]
             /\ pin' = [pin EXCEPT ![s] = NoPin]
    /\ UNCHANGED <<judges, submission_map, min_tier, lock, handler, process,
                   admin>>

\* The site's side of toggle_disabled: the row is loaded, the bridge is told,
\* and only then the row is saved.  Bounds: MaxToggles, and one for each judge.
LoadToggle(n) ==
    /\ "disable" \in Environment
    /\ toggling[n].step = "none"
    /\ Cardinality({m \in Names : toggling[m].step # "none"}) < MaxToggles
    /\ toggling' = [toggling EXCEPT ![n] = [step |-> "loaded", disabled |-> ~db_disabled[n]]]
    /\ UNCHANGED <<schedule, lock, handler, process, db_disabled, row, status>>

\* JudgeList.update_disable_judge.
ToggleDisabled(n) ==
    /\ LockFree
    /\ toggling[n].step = "loaded"
    /\ toggling' = [toggling EXCEPT ![n].step = "told"]
    /\ is_disabled' = [j \in Judge |-> IF j \in judges /\ NameOf[j] = n
                                       THEN toggling[n].disabled ELSE is_disabled[j]]
    /\ UpdateMinTier(judges, is_disabled')
    /\ owner' = IF waking' = {} THEN NoOne ELSE Web
    /\ UNCHANGED <<judges, queue, pin, submission_map, tail, phase, working,
                   problems, finishing, reloading, process, db_disabled, row, status>>

SaveToggle(n) ==
    /\ toggling[n].step = "told" /\ owner # Web
    /\ toggling' = [toggling EXCEPT ![n] = NoToggle]
    /\ db_disabled' = [db_disabled EXCEPT ![n] = toggling[n].disabled]
    /\ UNCHANGED <<schedule, lock, handler, process, row, status>>

\* The request raises, before or after the bridge has acted on it: the row is
\* not saved.
ToggleFails(n) ==
    /\ toggling[n].step # "none"
    /\ toggling' = [toggling EXCEPT ![n] = NoToggle]
    /\ UNCHANGED <<schedule, lock, handler, process, db_disabled, row, status>>

\* JudgeList.disconnect with force: the sockets of that name are shut down.
DisconnectJudge(n) ==
    /\ LockFree
    /\ LET closed == {j \in judges : NameOf[j] = n /\ phase[j] = "ready"} IN
       /\ closed # {}
       /\ phase' = [j \in Judge |-> IF j \in closed THEN "closing" ELSE phase[j]]
       /\ sent' = [j \in Judge |-> IF j \in closed THEN {} ELSE sent[j]]
       /\ job' = [j \in Judge |-> IF j \in closed THEN {} ELSE job[j]]
    /\ UNCHANGED <<schedule, lock, working, is_disabled, problems, finishing,
                   reloading, admin, status>>

-----------------------------------------------------------------------------
(* The handler thread of a judge connection.                               *)

Reading(j) == phase[j] = "ready" /\ finishing[j] = NoSubmission /\ ~reloading[j]
              /\ owner # j

\* on_handshake up to the call of register.  register's own
\* disconnect(judge, force=True) compares names with a JudgeHandler object:
\* it closes nothing.
Register(j) ==
    /\ LockFree
    /\ phase[j] = "off"
    /\ phase' = [phase EXCEPT ![j] = "registered"]
    /\ \E ps \in ProblemSets : problems' = [problems EXCEPT ![j] = ps]
    /\ judges' = judges \cup {j}
    /\ UpdateMinTier(judges', is_disabled)
    /\ owner' = j /\ tail' = "free"
    /\ UNCHANGED <<queue, pin, submission_map, working, is_disabled, finishing,
                   reloading, process, admin, status>>

\* _connected, after register has returned: it reads the row, takes is_disabled
\* from it without updating min_tier, and saves the whole row.
LoadRow(j) ==
    /\ phase[j] = "registered" /\ owner # j
    /\ row[j].step = "unread"
    /\ row' = [row EXCEPT ![j] = [step |-> "read", disabled |-> db_disabled[NameOf[j]]]]
    /\ UNCHANGED <<schedule, lock, handler, process, db_disabled, toggling, status>>

CacheDisabled(j) ==
    /\ row[j].step = "read"
    /\ row' = [row EXCEPT ![j].step = "cached"]
    /\ is_disabled' = [is_disabled EXCEPT ![j] = row[j].disabled]
    /\ UNCHANGED <<schedule, lock, phase, working, problems, finishing, reloading,
                   process, db_disabled, toggling, status>>

Connected(j) ==
    /\ phase[j] = "registered" /\ row[j].step = "cached"
    /\ phase' = [phase EXCEPT ![j] = "ready"]
    /\ row' = [row EXCEPT ![j] = Unread]
    /\ db_disabled' = [db_disabled EXCEPT ![NameOf[j]] = row[j].disabled]
    /\ UNCHANGED <<schedule, lock, working, is_disabled, problems, finishing,
                   reloading, process, toggling, status>>

\* on_submission_acknowledged.  A wrong acknowledgement makes both submissions
\* IE and closes the connection, and still marks the acknowledged one as
\* processing.
Acknowledge(j, s) ==
    /\ Reading(j)
    /\ s \in sent[j]
    /\ IF working[j] = s
       THEN /\ sent' = [sent EXCEPT ![j] = @ \ {s}]
            /\ job' = [job EXCEPT ![j] = @ \cup {s}]
            /\ status' = [status EXCEPT ![s] = "P"]
            /\ phase' = phase
       ELSE /\ sent' = [sent EXCEPT ![j] = {}]
            /\ job' = [job EXCEPT ![j] = {}]
            /\ status' = [x \in Submission |-> IF x = s THEN "P"
                                               ELSE IF x = working[j] THEN "D"
                                               ELSE status[x]]
            /\ phase' = [phase EXCEPT ![j] = "closing"]
    /\ UNCHANGED <<schedule, lock, working, is_disabled, problems, finishing,
                   reloading, admin>>

\* What on_judge_free does with the lock before _handle_free_judge, and that call.
\* Mutants: _working is not reset; the judge is not served.
StillWorking(j, s) ==
    /\ submission_map' = Del(submission_map, s)
    /\ working' = working
    /\ owner' = j /\ tail' = "free"
NotServed(j, s) ==
    /\ submission_map' = Del(submission_map, s)
    /\ working' = [working EXCEPT ![j] = NoSubmission]
    /\ UNCHANGED <<owner, tail>>
on_judge_free(j, s) ==
    /\ submission_map' = Del(submission_map, s)
    /\ working' = [working EXCEPT ![j] = NoSubmission]
    /\ owner' = j /\ tail' = "free"

\* _free_self of grading-end, compile-error, internal-error and
\* submission-terminated, and on_judge_free.  With no entry in submission_map
\* the packet is given up by a KeyError.
FreeSelf(j, s) ==
    /\ LockFree
    /\ Reading(j)
    /\ s \in job[j]
    /\ job' = [job EXCEPT ![j] = @ \ {s}]
    /\ \/ /\ s \notin Dispatched
          /\ UNCHANGED <<submission_map, working, finishing, lock>>
       \/ /\ s \in Dispatched
          /\ on_judge_free(j, s)
          /\ finishing' = [finishing EXCEPT ![j] = s]
          /\ UNCHANGED waking
    /\ UNCHANGED <<judges, queue, pin, min_tier, phase, is_disabled, problems,
                   reloading, sent, admin, status>>

\* The rest of those handlers: the final status is written.
Record(j) ==
    /\ finishing[j] # NoSubmission
    /\ owner # j
    /\ status' = [status EXCEPT ![finishing[j]] = "D"]
    /\ finishing' = [finishing EXCEPT ![j] = NoSubmission]
    /\ UNCHANGED <<schedule, lock, phase, working, is_disabled, problems,
                   reloading, process, admin>>

\* on_supported_problems: "if not self.working" is tested without the lock.
SupportedProblems(j) ==
    /\ "reload" \in Environment
    /\ Reading(j)
    /\ \E ps \in ProblemSets : problems' = [problems EXCEPT ![j] = ps]
    /\ reloading' = [reloading EXCEPT ![j] = working[j] = NoSubmission]
    /\ UNCHANGED <<schedule, lock, phase, working, is_disabled, finishing,
                   process, admin, status>>

\* Mutant: a judge with new problems is not served.
ProblemsOnly(j) ==
    /\ LockFree
    /\ reloading[j]
    /\ reloading' = [reloading EXCEPT ![j] = FALSE]
    /\ UNCHANGED <<schedule, lock, phase, working, is_disabled, problems,
                   finishing, process, admin, status>>

\* JudgeList.update_problems.
UpdateProblems(j) ==
    /\ LockFree
    /\ reloading[j]
    /\ reloading' = [reloading EXCEPT ![j] = FALSE]
    /\ owner' = j /\ tail' = "free"
    /\ UNCHANGED <<schedule, waking, phase, working, is_disabled, problems,
                   finishing, process, admin, status>>

\* The connection is lost, or the judge closes it.
Drop(j) ==
    /\ phase[j] = "ready"
    /\ phase' = [phase EXCEPT ![j] = "closing"]
    /\ sent' = [sent EXCEPT ![j] = {}]
    /\ job' = [job EXCEPT ![j] = {}]
    /\ UNCHANGED <<schedule, lock, working, is_disabled, problems, finishing,
                   reloading, admin, status>>

\* on_disconnect calls remove once the handler has left its packet.
Remove(j) ==
    /\ LockFree
    /\ phase[j] = "closing" /\ finishing[j] = NoSubmission /\ ~reloading[j]
    /\ phase' = [phase EXCEPT ![j] = "removed"]
    /\ submission_map' = IF working[j] = NoSubmission THEN submission_map
                         ELSE Del(submission_map, working[j])
    /\ judges' = judges \ {j}
    /\ UpdateMinTier(judges', is_disabled)
    /\ owner' = j /\ tail' = "sole"
    /\ UNCHANGED <<queue, pin, working, is_disabled, problems, finishing,
                   reloading, process, admin, status>>

\* The status on_disconnect writes.  Mutant: none.
NoIE(j) == status
IEOnDisconnect(j) ==
    IF working[j] = NoSubmission THEN status ELSE [status EXCEPT ![working[j]] = "D"]

\* The rest of on_disconnect: what the judge was working on becomes IE.
Disconnected(j) ==
    /\ phase[j] = "removed" /\ owner # j
    /\ phase' = [phase EXCEPT ![j] = "off"]
    /\ status' = IEOnDisconnect(j)
    /\ working' = [working EXCEPT ![j] = NoSubmission]
    /\ is_disabled' = [is_disabled EXCEPT ![j] = FALSE]
    /\ problems' = [problems EXCEPT ![j] = {}]
    /\ UNCHANGED <<schedule, lock, finishing, reloading, process, admin>>

LockStep == ServeOwner \/ ServeSole \/ \E j \in Judge : WakeNext(j)

JudgeStep(j) ==
    \/ LoadRow(j) \/ CacheDisabled(j) \/ Connected(j) \/ Record(j)
    \/ UpdateProblems(j) \/ Remove(j) \/ Disconnected(j)
    \/ \E s \in Submission : Acknowledge(j, s) \/ FreeSelf(j, s)

Next ==
    \/ LockStep
    \/ \E j \in Judge : JudgeStep(j) \/ Register(j) \/ SupportedProblems(j) \/ Drop(j)
    \/ \E s \in Submission : Abort(s)
    \/ \E s \in Submission, p \in Priority, judge_id \in Pins : Request(s, p, judge_id)
    \/ \E n \in Names : \/ LoadToggle(n) \/ ToggleDisabled(n) \/ SaveToggle(n)
                       \/ ToggleFails(n) \/ DisconnectJudge(n)

Spec == Init /\ [][Next]_vars

\* The lock passes on, a connected judge answers, a handler thread runs to its
\* end, and judges connect again.  Others may take the lock in between, so a
\* thread that needs it is not enabled throughout: strong fairness.
Fairness ==
    /\ WF_vars(LockStep)
    /\ \A j \in Judge : SF_vars(JudgeStep(j)) /\ SF_vars(Register(j))

FairSpec == Spec /\ Fairness

-----------------------------------------------------------------------------
(* Properties.                                                             *)

\* A submission of submission_map is the one its judge works on, a judge of
\* the list: no two judges have one submission, and no judge has two.
MapMatchesWorking ==
    /\ \A s \in Dispatched : /\ working[submission_map[s]] = s
                             /\ submission_map[s] \in judges
    /\ \A j \in judges : working[j] # NoSubmission =>
          working[j] \in Dispatched /\ submission_map[working[j]] = j

\* A submission waits at one place of the queue only, and never while a judge
\* has it: no submission is judged twice for one request.
QueuedOnce ==
    /\ Queued \cap Dispatched = {}
    /\ \A p, q \in Priority : \A i \in DOMAIN queue[p], k \in DOMAIN queue[q] :
          queue[p][i] = queue[q][k] => p = q /\ i = k

\* While nothing raises, no judge is disabled and no problem list changes, the
\* rest of what makes those two inductive.  Lock: a judge to be served last is
\* idle, and nobody else is to be served; nothing is left to do when the lock is
\* free.  Tier: the minimum is that of a listed judge, so a judge that joins
\* wakes nobody and no comparison with it raises.  Life: the list holds the
\* connections between register and remove, and a judge only has one packet,
\* about what it works on.
LockDiscipline ==
    /\ LockFree => waking = {} /\ tail = "none"
    /\ tail = "free" => waking = {} /\ owner \in judges /\ working[owner] = NoSubmission
    /\ waking \subseteq judges

MinTierHeld ==
    /\ min_tier # NoTier => \E j \in judges : TierOf[j] = min_tier
    /\ judges # {} => min_tier # NoTier

HandlerLife ==
    /\ \A j \in Judge : j \in judges <=> phase[j] \in {"registered", "ready", "closing"}
    /\ \A j \in Judge : phase[j] = "off" => working[j] = NoSubmission
    /\ \A j \in Judge : \A s \in sent[j] \cup job[j] :
          working[j] = s /\ phase[j] \in {"registered", "ready"}
    /\ \A j \in Judge : sent[j] \cap job[j] = {}

AllEnabled ==
    /\ \A j \in Judge : ~is_disabled[j] /\ ~row[j].disabled /\ ~reloading[j]
    /\ \A n \in Names : ~db_disabled[n] /\ toggling[n] = NoToggle

\* Its final status is on its way to the database.
Ending(s) == \E j \in Judge : finishing[j] = s
                              \/ (phase[j] = "removed" /\ working[j] = s)

\* Somebody will end it: it waits in the queue, a judge of the list works on it
\* by both accounts, or its end is being recorded.  An entry of submission_map
\* for a judge that is gone, or that works on something else, ends nothing.
InCharge(s) ==
    \/ s \in Queued
    \/ s \in Dispatched /\ submission_map[s] \in judges /\ working[submission_map[s]] = s
    \/ Ending(s)

\* A submission shown as queued or grading has somebody who will end it: the
\* queue, the judge that works on it, or a handler thread that is about to.
NoOrphans == \A s \in Submission : InProgress(s) => InCharge(s)

\* No submission is on two judges, when it is requested again while it is being
\* judged, and when a judge that announces problems is given two submissions.
JudgedByOne ==
    \A j, k \in Judge : j # k => (sent[j] \cup job[j]) \cap (sent[k] \cup job[k]) = {}

SchedulerInv ==
    /\ TypeOK /\ MapMatchesWorking /\ QueuedOnce
    /\ LockDiscipline /\ MinTierHeld /\ HandlerLife /\ AllEnabled

\* Between two operations no free judge of the current tier is left idle with
\* a submission in the queue that the rules would give it.
WorkConserving ==
    LockFree => \A j \in Free(current_tier_judges) : Deliverable(j) = {}

\* The same for the priorities above a rejudge, which no reserve holds back,
\* when judges have different problems and requests name a judge; a judge that
\* has announced new problems is about to be served.
UrgentServed ==
    LockFree => \A j \in Free(current_tier_judges), n \in QueueNodes :
        n[1] < REJUDGE_PRIORITY /\ ~reloading[j] =>
            ~can_judge(j, queue[n[1]][n[2]], pin[queue[n[1]][n[2]]])

\* The help text of Judge.tier: of the judges that are online and enabled,
\* only those of the minimum tier are given anything.
MinimumTierOnly ==
    [][\A s \in Dispatched' \ Dispatched : \A k \in judges :
          ~is_disabled[k] => TierOf[submission_map'[s]] <= TierOf[k]]_vars

\* A request that finds a judge does not overtake a submission of the queue
\* which the rules would have given to that judge.
NoOvertaking ==
    [][\A s \in Dispatched' \ (Dispatched \cup Queued) :
          Deliverable(submission_map'[s]) = {}]_vars

\* Every submission that is requested once gets a result.
RequestEnds == \A s \in Submission : status[s] = "QU" ~> status[s] = "D"

-----------------------------------------------------------------------------
(* The scheduler implements the grading service.                           *)

Grading(j) ==
    IF \E s \in Dispatched : submission_map[s] = j
    THEN CHOOSE s \in Dispatched : submission_map[s] = j
    ELSE NoSubmission

EndOf(j) == IF phase[j] = "removed" THEN working[j] ELSE finishing[j]

Service == INSTANCE GradingService WITH
    Nobody <- NoSubmission,
    waiting <- Queued,
    open <- {s \in Submission : InProgress(s)},
    grading <- [j \in Judge |-> Grading(j)],
    ended <- [j \in Judge |-> EndOf(j)]

GradesAsPromised == Service!GSpec

-----------------------------------------------------------------------------
(* What comments of the code say of every run of the program.              *)

\* judge: "Already judging, don't queue again": an entry of submission_map
\* stands for a judge that is connected and works on that submission.
AlreadyJudging ==
    LockFree => \A s \in Dispatched : working[submission_map[s]] = s

\* _update_min_tier, when there was no minimum: "We must be adding a judge,
\* let register handle the new judge".
OnlyRegisterEndsNoTier ==
    [][min_tier = NoTier /\ min_tier' # NoTier => judges' # judges]_vars
=============================================================================
