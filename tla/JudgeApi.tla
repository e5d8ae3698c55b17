------------------------------- MODULE JudgeApi -------------------------------
(***************************************************************************)
(* The record of one submission in the database and everybody who writes   *)
(* it: the web workers that request, rejudge and abort the submission      *)
(* (judge/judgeapi.py), the handler threads of the bridge that record what *)
(* the judges report (judge/bridge/judge_handler.py), and the start of the *)
(* bridge, which clears what was in progress (judge/bridge/daemon.py).     *)
(*                                                                         *)
(* Each step is one query of the database or one request to the bridge:    *)
(* nothing else is atomic in this code.  What JudgeList decides about the  *)
(* submission is abstracted to "place"; JudgeList.tla has the details.     *)
(***************************************************************************)
EXTENDS Naturals, FiniteSets

CONSTANTS Judge,      \* judge connections
          Worker,     \* threads of the site
          Submitter,  \* the worker that saves the submission first
          Case,       \* the test cases of its problem
          Environment \* what happens besides a request and its grading

Events == {"overlap", \* a rejudge of a submission that is still being judged
           "abort",   \* a user aborts the submission
           "lose",    \* the judge's connection is lost
           "crash",   \* the bridge stops and is started again
           "socket",  \* a request, or the reply to submission-request, is lost or bad
           "mute",    \* what is lost may be the reply to terminate-submission
           "kill"}    \* a web worker stops between two steps

ASSUME JudgeApiAssumption ==
    /\ Submitter \in Worker
    /\ Environment \subseteq Events
    /\ {"none", "queue"} \cap Judge = {}

VARIABLES
    status,  \* Submission.status
    counted, \* the test cases in Submission.case_points and case_total
    cases,   \* the rows of SubmissionTestCase
    worker,  \* what a web worker does next
    up,      \* the bridge is running
    place,   \* where JudgeList has it: "none", its queue, or a judge
    stage,   \* how far the grading on a judge is
    told,    \* that judge was asked to terminate it
    done,    \* the test cases that judge has reported
    writing, \* the end a handler thread has still to record, after _free_self
    seen     \* the rows that on_grading_end has read

record == <<status, counted, cases>>
grading == <<place, stage, told, done>>
recording == <<writing, seen>>
vars == <<record, worker, up, grading, recording>>

Final == {"D", "IE", "CE", "AB"}

\* Submission.IN_PROGRESS_GRADING_STATUS. Mutant: G is forgotten.
UngradedStatus == {"QU", "P"}
InProgress == {"QU", "P", "G"}

Status == InProgress \cup Final

WorkerStep == {"idle",
               "loaded",   \* judge_submission is called
               "deleting", \* status is QU, the old rows are there
               "sending",  \* the request is not sent
               "awaiting", \* the bridge has it, the reply is not read
               "failed",   \* the request raised
               "aborting", \* abort_submission has found status # D
               "refused"}  \* the bridge has replied judge-aborted: false

Stage == {"idle", "sent", "acknowledged",
          "begun",    \* status G is written, the old rows are there
          "grading"}

TypeOK ==
    /\ status \in Status
    /\ counted \subseteq Case
    /\ cases \subseteq Case
    /\ worker \in [Worker -> WorkerStep]
    /\ up \in BOOLEAN
    /\ place \in {"none", "queue"} \cup Judge
    /\ stage \in [Judge -> Stage]
    /\ told \in [Judge -> BOOLEAN]
    /\ done \in [Judge -> SUBSET Case]
    /\ writing \in [Judge -> {"nothing", "lost", "counted"} \cup Final]
    /\ seen \in [Judge -> SUBSET Case]

\* ProblemSubmit has saved the submission with the default status.
Init ==
    /\ status = "QU" /\ counted = {} /\ cases = {}
    /\ worker = [w \in Worker |-> IF w = Submitter THEN "loaded" ELSE "idle"]
    /\ up = TRUE
    /\ place = "none"
    /\ stage = [j \in Judge |-> "idle"]
    /\ told = [j \in Judge |-> FALSE]
    /\ done = [j \in Judge |-> {}]
    /\ writing = [j \in Judge |-> "nothing"]
    /\ seen = [j \in Judge |-> {}]

-----------------------------------------------------------------------------
(* judge_submission.                                                       *)

Step(w, from, to) ==
    /\ worker[w] = from
    /\ worker' = [worker EXCEPT ![w] = to]

\* The order of judge_submission. Mutant: the rows are deleted after the request.
SendFirst == [loaded |-> "sending", sending |-> "deleting", deleting |-> "idle"]
Following == [loaded |-> "deleting", deleting |-> "sending", sending |-> "awaiting"]

\* A view or a task has loaded the submission and calls Submission.judge.
Rejudge(w) ==
    /\ \/ "overlap" \in Environment
       \/ status \in Final /\ \A v \in Worker : worker[v] = "idle"
    /\ Step(w, "idle", "loaded")
    /\ UNCHANGED <<record, up, grading, recording>>

\* update(status='QU', ...) of a submission that is not P or G.
Update(w) ==
    /\ status \notin {"P", "G"}
    /\ Step(w, "loaded", Following.loaded)
    /\ status' = "QU" /\ counted' = {}
    /\ UNCHANGED <<cases, up, grading, recording>>

\* The update found no row: judge_submission returns False.
NotUpdated(w) ==
    /\ status \in {"P", "G"}
    /\ Step(w, "loaded", "idle")
    /\ UNCHANGED <<record, up, grading, recording>>

DeleteCases(w) ==
    /\ Step(w, "deleting", Following.deleting)
    /\ cases' = {}
    /\ UNCHANGED <<status, counted, up, grading, recording>>

\* A judge of JudgeList that is not working on this submission may be free.
MayTake(j) == stage[j] = "idle" /\ writing[j] # "lost"

Give(j) ==
    /\ place' = j
    /\ stage' = [stage EXCEPT ![j] = "sent"]

\* The judge's grading is over, and the submission is at the place to.
Leave(j, to) ==
    /\ place' = to
    /\ stage' = [stage EXCEPT ![j] = "idle"]
    /\ told' = [told EXCEPT ![j] = FALSE]
    /\ done' = [done EXCEPT ![j] = {}]

\* DjangoHandler.on_submission and JudgeList.judge, which ignores a submission
\* it knows.
Request(w) ==
    /\ up
    /\ Step(w, "sending", Following.sending)
    /\ \/ place # "none" /\ UNCHANGED <<place, stage>>
       \/ place = "none" /\ place' = "queue" /\ UNCHANGED stage
       \/ place = "none" /\ \E j \in Judge : MayTake(j) /\ Give(j)
    /\ UNCHANGED <<record, up, told, done, recording>>

\* judge_request raises, or the bridge answers bad-request, and the bridge has
\* nothing of the submission.
RequestFails(w) ==
    /\ ~up \/ "socket" \in Environment
    /\ Step(w, "sending", "failed")
    /\ UNCHANGED <<record, up, grading, recording>>

Received(w) ==
    /\ Step(w, "awaiting", "idle")
    /\ UNCHANGED <<record, up, grading, recording>>

\* The bridge has the submission, and the worker reads no reply, or another one.
NotReceived(w) ==
    /\ "socket" \in Environment
    /\ Step(w, "awaiting", "failed")
    /\ UNCHANGED <<record, up, grading, recording>>

\* except BaseException, and the reply that is not the expected one: status and result become IE. Mutant: only logged.
StatusKept == status
FailureStatus == "IE"

RecordFailure(w) ==
    /\ Step(w, "failed", "idle")
    /\ status' = FailureStatus
    /\ UNCHANGED <<counted, cases, up, grading, recording>>

Kill(w) ==
    /\ "kill" \in Environment
    /\ worker[w] # "idle"
    /\ worker' = [worker EXCEPT ![w] = "idle"]
    /\ UNCHANGED <<record, up, grading, recording>>

-----------------------------------------------------------------------------
(* abort_submission.                                                       *)

\* The view has loaded the submission, and its status is not D.
StartAbort(w) ==
    /\ "abort" \in Environment
    /\ status # "D"
    /\ Step(w, "idle", "aborting")
    /\ UNCHANGED <<record, up, grading, recording>>

\* JudgeList.abort: a judge is asked to terminate it.
AbortGrading(w) ==
    /\ up /\ place \in Judge
    /\ Step(w, "aborting", "idle")
    /\ told' = [told EXCEPT ![place] = TRUE]
    /\ UNCHANGED <<record, up, place, stage, done, recording>>

\* Mutant: the worker is told that all is well.
AbortUnrecorded(w) ==
    /\ up /\ place \notin Judge
    /\ Step(w, "aborting", "idle")
    /\ place' = "none"
    /\ UNCHANGED <<record, up, stage, told, done, recording>>

\* JudgeList.abort: it is removed from the queue, if it is there.
AbortQueued(w) ==
    /\ up /\ place \notin Judge
    /\ Step(w, "aborting", "refused")
    /\ place' = "none"
    /\ UNCHANGED <<record, up, stage, told, done, recording>>

\* What a failed terminate-submission leaves: it is lost, or its reply is.
AfterAbort ==
    {place} \cup (IF place = "queue" /\ "mute" \in Environment THEN {"none"} ELSE {})

\* The request raises, and abort_submission with it; a bad-request is taken for
\* an abort that succeeds.
AbortFails(w) ==
    /\ ~up \/ "socket" \in Environment
    /\ Step(w, "aborting", "idle")
    /\ place' \in AfterAbort
    /\ UNCHANGED <<record, up, stage, told, done, recording>>

RecordAbort(w) ==
    /\ Step(w, "refused", "idle")
    /\ status' = "AB"
    /\ UNCHANGED <<counted, cases, up, grading, recording>>

-----------------------------------------------------------------------------
(* The handler threads of the bridge.  A thread reads no packet before it  *)
(* has recorded the end of the last grading.                               *)

Reads(j, s) == stage[j] = s /\ writing[j] = "nothing"

\* _handle_free_judge, of a judge that another submission has left.
Dispatch(j) ==
    /\ place = "queue"
    /\ MayTake(j)
    /\ Give(j)
    /\ UNCHANGED <<record, worker, up, told, done, recording>>

\* on_submission_acknowledged.
Acknowledge(j) ==
    /\ Reads(j, "sent")
    /\ stage' = [stage EXCEPT ![j] = "acknowledged"]
    /\ status' = "P"
    /\ UNCHANGED <<counted, cases, worker, up, place, told, done, recording>>

\* on_grading_begin, its two queries.
BeginGrading(j) ==
    /\ Reads(j, "acknowledged")
    /\ stage' = [stage EXCEPT ![j] = "begun"]
    /\ status' = "G"
    /\ UNCHANGED <<counted, cases, worker, up, place, told, done, recording>>

\* The rows that on_grading_begin leaves. Mutant: it deletes none.
AllRows == cases
NoRows == {}

ClearCases(j) ==
    /\ Reads(j, "begun")
    /\ stage' = [stage EXCEPT ![j] = "grading"]
    /\ cases' = NoRows
    /\ UNCHANGED <<status, counted, worker, up, place, told, done, recording>>

\* on_test_case: the row of a case that has none is created.
TestCase(j, c) ==
    /\ Reads(j, "grading")
    /\ c \notin done[j]
    /\ done' = [done EXCEPT ![j] = @ \cup {c}]
    /\ cases' = cases \cup {c}
    /\ UNCHANGED <<status, counted, worker, up, place, stage, told, recording>>

\* The packets that end a grading: grading-end after the last case,
\* compile-error before the first, internal-error at any time, and
\* submission-terminated when the judge was asked to.
MayEnd(j, end) ==
    \/ end = "D" /\ Reads(j, "grading") /\ done[j] = Case
    \/ end = "CE" /\ Reads(j, "acknowledged")
    \/ end = "IE" /\ (Reads(j, "acknowledged") \/ Reads(j, "grading"))
    \/ end = "AB" /\ told[j] /\ (Reads(j, "acknowledged") \/ Reads(j, "grading"))

\* _free_self, the first thing these handlers do.
End(j, end) ==
    /\ MayEnd(j, end)
    /\ Leave(j, "none")
    /\ writing' = [writing EXCEPT ![j] = end]
    /\ UNCHANGED <<record, worker, up, seen>>

\* on_grading_end reads the rows, and saves what they add up to.
CountCases(j) ==
    /\ writing[j] = "D"
    /\ writing' = [writing EXCEPT ![j] = "counted"]
    /\ seen' = [seen EXCEPT ![j] = cases]
    /\ UNCHANGED <<record, worker, up, grading>>

SaveResult(j) ==
    /\ writing[j] = "counted"
    /\ writing' = [writing EXCEPT ![j] = "nothing"]
    /\ seen' = [seen EXCEPT ![j] = {}]
    /\ status' = "D" /\ counted' = seen[j]
    /\ UNCHANGED <<cases, worker, up, grading>>

\* The status that the end of a grading is recorded with.
\* Mutant: the lost judge is not told apart.
AsReported(end) == end
Recorded(end) == IF end = "lost" THEN "IE" ELSE end

\* on_compile_error, on_internal_error, on_submission_terminated, on_disconnect.
RecordEnd(j) ==
    /\ writing[j] \in {"CE", "IE", "AB", "lost"}
    /\ writing' = [writing EXCEPT ![j] = "nothing"]
    /\ status' = Recorded(writing[j])
    /\ UNCHANGED <<counted, cases, worker, up, grading, seen>>

\* Where JudgeList.remove leaves the submission of a lost judge.
\* Mutant: it is queued again.
QueuedAgain == "queue"
Forgotten == "none"

\* on_disconnect of a judge that works on it, and JudgeList.remove.
Lose(j) ==
    /\ "lose" \in Environment
    /\ place = j /\ writing[j] = "nothing"
    /\ Leave(j, Forgotten)
    /\ writing' = [writing EXCEPT ![j] = "lost"]
    /\ UNCHANGED <<record, worker, up, seen>>

\* The bridge stops, and its threads with it; replies it has not sent are lost.
Crash ==
    /\ "crash" \in Environment
    /\ up
    /\ up' = FALSE
    /\ place' = "none"
    /\ stage' = [j \in Judge |-> "idle"]
    /\ told' = [j \in Judge |-> FALSE]
    /\ done' = [j \in Judge |-> {}]
    /\ writing' = [j \in Judge |-> "nothing"]
    /\ seen' = [j \in Judge |-> {}]
    /\ \E unread \in SUBSET {w \in Worker : worker[w] \in {"awaiting", "refused"}} :
          worker' = [w \in Worker |->
              IF w \notin unread THEN worker[w]
              ELSE IF worker[w] = "awaiting" THEN "failed" ELSE "idle"]
    /\ UNCHANGED record

\* Mutant: what waited in the queue is not cleared.
StartForgetful ==
    /\ ~up
    /\ up' = TRUE
    /\ status' = IF status \in {"P", "G"} THEN "IE" ELSE status
    /\ UNCHANGED <<counted, cases, worker, grading, recording>>

\* judge_daemon, before it accepts connections.
Start ==
    /\ ~up
    /\ up' = TRUE
    /\ status' = IF status \in InProgress THEN "IE" ELSE status
    /\ UNCHANGED <<counted, cases, worker, grading, recording>>

-----------------------------------------------------------------------------
WorkerNext(w) ==
    \/ Update(w) \/ NotUpdated(w) \/ DeleteCases(w) \/ Request(w)
    \/ RequestFails(w) \/ Received(w) \/ NotReceived(w) \/ RecordFailure(w)
    \/ AbortGrading(w) \/ AbortQueued(w) \/ AbortFails(w) \/ RecordAbort(w)

\* What the packets of the judge and the queries of its handler thread do.
HandlerNext(j) ==
    \/ Acknowledge(j) \/ BeginGrading(j) \/ ClearCases(j)
    \/ \E c \in Case : TestCase(j, c)
    \/ \E end \in Final : End(j, end)
    \/ CountCases(j) \/ SaveResult(j) \/ RecordEnd(j)

Next ==
    \/ \E w \in Worker : Rejudge(w) \/ StartAbort(w) \/ Kill(w) \/ WorkerNext(w)
    \/ \E j \in Judge : Dispatch(j) \/ Lose(j) \/ HandlerNext(j)
    \/ Crash \/ Start

Spec == Init /\ [][Next]_vars

\* A worker and a handler thread go on with what they have begun, a judge
\* grades what it is given, the queue is served, and the bridge is started again.
FairSpec ==
    /\ Spec
    /\ \A w \in Worker : WF_vars(WorkerNext(w))
    /\ \A j \in Judge : WF_vars(HandlerNext(j))
    /\ WF_vars(\E j \in Judge : Dispatch(j))
    /\ WF_vars(Start)

-----------------------------------------------------------------------------
(* Properties.                                                             *)

\* What judge_submission builds on when it leaves P and G alone: a submission
\* that is shown as processing or grading, and can therefore not be rejudged, is
\* on a judge, or a handler thread is about to record its end, or the bridge is
\* down and will clear it when it starts; whoever crashes when.
GradingIsKnown ==
    status \in {"P", "G"} =>
        place \in Judge \/ ~up \/ \E j \in Judge : writing[j] # "nothing"

\* on_test_case creates rows under a unique key (submission, case): while a
\* grading runs, the table never has a row the judge may still report, left
\* by an earlier grading of this or another judge.
NoForeignRow == \A j \in Judge : stage[j] = "grading" => cases \subseteq done[j]

\* Nobody forgets a submission: when no worker, no handler thread, no judge and
\* no queue has it, it shows a final status.
NothingUnderWay ==
    /\ up /\ place = "none"
    /\ \A w \in Worker : worker[w] = "idle"
    /\ \A j \in Judge : writing[j] = "nothing"
RestsFinal == NothingUnderWay => status \in Final

\* The result of a graded submission counts every test case.  The comment of
\* judge_submission says so of overlapping rejudges, too: "that does not lead to
\* data corruption".
CompleteResult == status = "D" => counted = Case

\* A final status is only replaced by a new request: no late writer of an
\* earlier grading shows through.
FinalStays == [][status # status' /\ status \in Final => status' = "QU"]_vars

\* Every request, rejudge and abort ends in a final status, also when judges
\* are lost and the bridge is restarted again and again.
ResultComes == status \in InProgress ~> status \in Final

\* abort_submission: "We only want to try to abort a submission if it's still
\* grading, otherwise this can lead to fully graded submissions marked as aborted."
GradedStaysGraded == [][status = "D" => status' # "AB"]_vars
=============================================================================
