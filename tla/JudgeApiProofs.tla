---------------------------- MODULE JudgeApiProofs ----------------------------
(***************************************************************************)
(* Three invariants of JudgeApi for any number of judges, workers and test *)
(* cases.  RecordInv needs nothing of the environment: overlapping         *)
(* rejudges, aborts, lost judges and crashes at any point.  CountInv is    *)
(* about one rejudge at a time, and gives the result its test cases.       *)
(* HeldInv is about everything but killed web workers and lost answers to  *)
(* aborts: who has a submission that is queued.                            *)
(***************************************************************************)
EXTENDS JudgeApi, TLAPS

\* The judge whose grading is under way is the one JudgeList has it on.
PlaceOfStage == \A j \in Judge : stage[j] # "idle" <=> place = j

RecordInv == TypeOK /\ PlaceOfStage /\ GradingIsKnown /\ NoForeignRow

\* RecordInv holds at first.
LEMMA RecordInit == Init => RecordInv
  BY JudgeApiAssumption DEF Init, RecordInv, TypeOK, PlaceOfStage, GradingIsKnown,
     NoForeignRow, Status, InProgress, Final, WorkerStep, Stage

\* The type of the variables is kept by every step.
LEMMA TypeStep == TypeOK /\ [Next]_vars => TypeOK'
<1> SUFFICES ASSUME TypeOK, [Next]_vars PROVE TypeOK'
  OBVIOUS
<1> USE JudgeApiAssumption
    DEF TypeOK, Status, InProgress, Final, WorkerStep, Stage, record, grading, recording
<1>1. ASSUME NEW w \in Worker, Rejudge(w) \/ StartAbort(w) \/ Kill(w) PROVE TypeOK'
  BY <1>1 DEF Rejudge, StartAbort, Kill, Step
<1>2. ASSUME NEW w \in Worker, WorkerNext(w) PROVE TypeOK'
  <2>1. CASE Update(w) \/ NotUpdated(w) \/ DeleteCases(w)
    BY <2>1 DEF Update, NotUpdated, DeleteCases, Step, Following
  <2>2. CASE Request(w)
    BY <2>2 DEF Request, Give, Step, Following
  <2>3. CASE RequestFails(w) \/ Received(w) \/ NotReceived(w) \/ RecordFailure(w)
    BY <2>3 DEF RequestFails, Received, NotReceived, RecordFailure, FailureStatus, Step
  <2>4. CASE AbortGrading(w) \/ AbortQueued(w) \/ AbortFails(w) \/ RecordAbort(w)
    BY <2>4 DEF AbortGrading, AbortQueued, AbortFails, AfterAbort, RecordAbort, Step
  <2> QED
    BY <1>2, <2>1, <2>2, <2>3, <2>4 DEF WorkerNext
<1>3. ASSUME NEW j \in Judge, Dispatch(j) \/ Lose(j) PROVE TypeOK'
  BY <1>3 DEF Dispatch, Give, Lose, Leave, Forgotten
<1>4. ASSUME NEW j \in Judge, HandlerNext(j) PROVE TypeOK'
  <2>1. CASE Acknowledge(j) \/ BeginGrading(j) \/ ClearCases(j)
    BY <2>1 DEF Acknowledge, BeginGrading, ClearCases, NoRows
  <2>2. CASE \E c \in Case : TestCase(j, c)
    BY <2>2 DEF TestCase
  <2>3. CASE \E end \in Final : End(j, end)
    BY <2>3 DEF End, Leave
  <2>4. CASE CountCases(j) \/ SaveResult(j) \/ RecordEnd(j)
    BY <2>4 DEF CountCases, SaveResult, RecordEnd, Recorded
  <2> QED
    BY <1>4, <2>1, <2>2, <2>3, <2>4 DEF HandlerNext
<1>5. CASE Crash
  <2>1. PICK unread \in SUBSET Worker :
          worker' = [w \in Worker |->
              IF w \notin unread THEN worker[w]
              ELSE IF worker[w] = "awaiting" THEN "failed" ELSE "idle"]
    BY <1>5 DEF Crash
  <2> QED
    BY <1>5, <2>1 DEF Crash
<1>6. CASE Start
  BY <1>6 DEF Start
<1>7. CASE UNCHANGED vars
  BY <1>7 DEF vars
<1> QED
  BY <1>1, <1>2, <1>3, <1>4, <1>5, <1>6, <1>7 DEF Next

\* What the other three parts say after a step follows from the parts before it.
LEMMA RecordStep == RecordInv /\ [Next]_vars => RecordInv'
<1> SUFFICES ASSUME RecordInv, [Next]_vars PROVE RecordInv'
  OBVIOUS
<1> DEFINE Rest == PlaceOfStage /\ GradingIsKnown /\ NoForeignRow
<1>t. TypeOK'
  BY TypeStep DEF RecordInv
<1> USE JudgeApiAssumption
    DEF RecordInv, TypeOK, PlaceOfStage, GradingIsKnown, NoForeignRow,
        record, grading, recording
<1>1. ASSUME NEW w \in Worker, Rejudge(w) \/ StartAbort(w) \/ Kill(w) PROVE Rest'
  BY <1>1 DEF Rejudge, StartAbort, Kill
<1>2. ASSUME NEW w \in Worker, WorkerNext(w) PROVE Rest'
  <2>1. CASE Update(w) \/ NotUpdated(w) \/ DeleteCases(w)
    BY <2>1 DEF Update, NotUpdated, DeleteCases
  <2>2. CASE Request(w)
    BY <2>2 DEF Request, Give, MayTake
  <2>3. CASE RequestFails(w) \/ Received(w) \/ NotReceived(w) \/ RecordFailure(w)
    BY <2>3 DEF RequestFails, Received, NotReceived, RecordFailure, FailureStatus
  <2>4. CASE AbortGrading(w) \/ AbortQueued(w) \/ AbortFails(w) \/ RecordAbort(w)
    BY <2>4 DEF AbortGrading, AbortQueued, AbortFails, AfterAbort, RecordAbort
  <2> QED
    BY <1>2, <2>1, <2>2, <2>3, <2>4 DEF WorkerNext
<1>3. ASSUME NEW j \in Judge, Dispatch(j) PROVE Rest'
  BY <1>3 DEF Dispatch, Give, MayTake
<1>4. ASSUME NEW j \in Judge, Lose(j) PROVE Rest'
  BY <1>4 DEF Lose, Leave, Forgotten
<1>5. ASSUME NEW j \in Judge, HandlerNext(j) PROVE Rest'
  <2>1. CASE Acknowledge(j) \/ BeginGrading(j) \/ ClearCases(j)
    BY <2>1 DEF Acknowledge, BeginGrading, ClearCases, NoRows, Reads
  <2>2. CASE \E c \in Case : TestCase(j, c)
    BY <2>2 DEF TestCase, Reads
  <2>3. CASE \E end \in Final : End(j, end)
    <3>1. PICK end \in Final : End(j, end)
      BY <2>3
    <3>2. stage[j] # "idle" /\ place = j
      BY <3>1 DEF End, MayEnd, Reads
    <3>3. writing'[j] # "nothing"
      BY <3>1 DEF End, Final
    <3> QED
      BY <3>1, <3>2, <3>3 DEF End, Leave
  <2>4. CASE CountCases(j)
    BY <2>4 DEF CountCases
  <2>5. CASE SaveResult(j) \/ RecordEnd(j)
    <3>1. status' \in Final
      BY <2>5 DEF SaveResult, RecordEnd, Recorded, Final
    <3> QED
      BY <2>5, <3>1 DEF SaveResult, RecordEnd, Final
  <2> QED
    BY <1>5, <2>1, <2>2, <2>3, <2>4, <2>5 DEF HandlerNext
<1>6. ASSUME Crash PROVE Rest'
  BY <1>6 DEF Crash
<1>7. ASSUME Start PROVE Rest'
  BY <1>7 DEF Start, InProgress
<1>8. ASSUME UNCHANGED vars PROVE Rest'
  BY <1>8 DEF vars
<1>9. Rest'
  BY <1>1, <1>2, <1>3, <1>4, <1>5, <1>6, <1>7, <1>8 DEF Next
<1> QED
  BY <1>t, <1>9

\* In any environment: a submission that shows P or G will be ended by somebody
\* (GradingIsKnown), and no grading finds rows of another one (NoForeignRow).
THEOREM RecordSafety == Spec => []RecordInv
<1>1. Init => RecordInv
  BY RecordInit
<1>2. RecordInv /\ [Next]_vars => RecordInv'
  BY RecordStep
<1> QED
  BY <1>1, <1>2, PTL DEF Spec

\* The variables keep their types, in any environment.
THEOREM TypeCorrect == Spec => []TypeOK
<1>1. RecordInv => TypeOK
  BY DEF RecordInv
<1> QED
  BY <1>1, RecordSafety, PTL

\* The guard of judge_submission, which leaves P and G alone, never locks a
\* submission out of rejudging for good.
THEOREM GradingKnown == Spec => []GradingIsKnown
<1>1. RecordInv => GradingIsKnown
  BY DEF RecordInv
<1> QED
  BY <1>1, RecordSafety, PTL

\* on_test_case never meets the unique key of a row that is already there.
THEOREM RowsOfOneGrading == Spec => []NoForeignRow
<1>1. RecordInv => NoForeignRow
  BY DEF RecordInv
<1> QED
  BY <1>1, RecordSafety, PTL

-----------------------------------------------------------------------------
(* One rejudge at a time, while judges are lost and web workers stop.      *)

OneAtATime == Environment \subseteq {"lose", "kill"}

Quiet == place = "none" /\ \A j \in Judge : writing[j] = "nothing"

\* One worker is busy with the submission, and until its request is sent the
\* bridge has nothing of it.
OneWorker ==
    /\ \A w \in Worker : worker[w] \in {"idle", "loaded", "deleting", "sending", "awaiting"}
    /\ \A v, w \in Worker : worker[v] # "idle" /\ worker[w] # "idle" => v = w
    /\ \A w \in Worker : worker[w] \in {"loaded", "deleting", "sending"} => Quiet
    /\ \A w \in Worker : worker[w] \in {"deleting", "sending"} => status \notin Final

\* One handler thread at a time records an end, and then it is nowhere else.
OneRecorder ==
    /\ place # "none" => \A j \in Judge : writing[j] = "nothing"
    /\ \A j, k \in Judge : writing[j] # "nothing" /\ writing[k] # "nothing" => j = k

\* The rows are those of the grading under way, and are all there at its end.
RowsMatch ==
    /\ \A j \in Judge : stage[j] = "grading" => cases = done[j]
    /\ \A j \in Judge : stage[j] # "grading" => done[j] = {}
    /\ \A j \in Judge : writing[j] = "D" => cases = Case
    /\ \A j \in Judge : writing[j] = "counted" => seen[j] = Case

CountInv ==
    /\ RecordInv /\ up
    /\ OneWorker /\ OneRecorder /\ RowsMatch
    /\ status \in Final => Quiet
    /\ CompleteResult

LEMMA CountInit == Init => CountInv
  BY RecordInit, JudgeApiAssumption
  DEF Init, CountInv, OneWorker, OneRecorder, RowsMatch, Quiet, CompleteResult, Final

\* A step of another thread keeps OneWorker unless it gives the submission away.
LEMMA WorkersKept ==
    ASSUME OneWorker, UNCHANGED worker, Quiet => Quiet' /\ status' = status PROVE OneWorker'
  BY DEF OneWorker

\* While a judge works on the submission no handler thread records, and no
\* worker is before its request.
LEMMA JudgeBusy ==
    ASSUME CountInv, NEW j \in Judge, stage[j] # "idle"
    PROVE  /\ place = j /\ status \notin Final
           /\ \A k \in Judge : writing[k] = "nothing"
           /\ \A k \in Judge : k # j => stage[k] = "idle"
<1>1. place = j /\ \A k \in Judge : k # j => stage[k] = "idle"
  BY DEF CountInv, RecordInv, PlaceOfStage
<1>2. place # "none"
  BY <1>1, JudgeApiAssumption
<1> QED
  BY <1>1, <1>2 DEF CountInv, OneRecorder, Quiet

\* Neither the bridge nor an abort writes behind the worker's back.
LEMMA CountStep == OneAtATime /\ CountInv /\ [Next]_vars => CountInv'
<1> SUFFICES ASSUME OneAtATime, CountInv, [Next]_vars PROVE CountInv'
  OBVIOUS
<1> DEFINE Rest == /\ up /\ OneWorker /\ OneRecorder /\ RowsMatch
                   /\ (status \in Final => Quiet)
                   /\ CompleteResult
<1>r. RecordInv'
  BY RecordStep DEF CountInv
<1>t. TypeOK /\ TypeOK' /\ PlaceOfStage
  BY <1>r DEF CountInv, RecordInv
<1>o. up /\ OneWorker /\ OneRecorder /\ RowsMatch /\ (status \in Final => Quiet) /\ CompleteResult
  BY DEF CountInv
<1> USE JudgeApiAssumption DEF record, grading, recording
<1>1. ASSUME NEW w \in Worker, Rejudge(w) PROVE Rest'
  <2>1. Quiet /\ \A v \in Worker : worker[v] = "idle"
    BY <1>1, <1>o DEF Rejudge, OneAtATime
  <2>2. OneWorker'
    BY <1>1, <2>1, <1>t DEF Rejudge, Step, OneWorker, Quiet, TypeOK
  <2> QED
    BY <1>1, <2>2, <1>o DEF Rejudge, OneRecorder, RowsMatch, Quiet, CompleteResult
<1>2. ASSUME NEW w \in Worker, StartAbort(w) \/ Kill(w) PROVE Rest'
  <2>1. Kill(w)
    BY <1>2 DEF StartAbort, OneAtATime
  <2>2. OneWorker'
    BY <2>1, <1>o, <1>t DEF Kill, OneWorker, Quiet, TypeOK
  <2> QED
    BY <2>1, <2>2, <1>o DEF Kill, OneRecorder, RowsMatch, Quiet, CompleteResult
<1>3. ASSUME NEW w \in Worker, WorkerNext(w) PROVE Rest'
  <2>1. CASE Update(w)
    <3>1. Quiet /\ worker[w] # "idle"
      BY <2>1, <1>o DEF Update, Step, OneWorker
    <3>2. OneWorker'
      BY <2>1, <3>1, <1>o, <1>t DEF Update, Step, Following, OneWorker, Quiet, TypeOK, Final
    <3> QED
      BY <2>1, <3>1, <3>2, <1>o DEF Update, OneRecorder, RowsMatch, Quiet, CompleteResult, Final
  <2>2. CASE NotUpdated(w) \/ Received(w)
    <3>1. OneWorker'
      BY <2>2, <1>o, <1>t DEF NotUpdated, Received, Step, OneWorker, Quiet, TypeOK
    <3> QED
      BY <2>2, <3>1, <1>o DEF NotUpdated, Received, OneRecorder, RowsMatch, Quiet, CompleteResult
  <2>3. CASE DeleteCases(w)
    <3>1. Quiet /\ worker[w] # "idle"
      BY <2>3, <1>o DEF DeleteCases, Step, OneWorker
    <3>2. OneWorker'
      BY <2>3, <3>1, <1>o, <1>t DEF DeleteCases, Step, Following, OneWorker, Quiet, TypeOK
    <3>3. \A j \in Judge : stage[j] = "idle" /\ writing[j] = "nothing"
      BY <3>1, <1>t DEF Quiet, PlaceOfStage
    <3> QED
      BY <2>3, <3>1, <3>2, <3>3, <1>o DEF DeleteCases, OneRecorder, RowsMatch, Quiet, CompleteResult
  <2>4. CASE Request(w)
    <3>1. Quiet /\ worker[w] # "idle"
      BY <2>4, <1>o DEF Request, Step, OneWorker
    <3>2. OneWorker'
      BY <2>4, <3>1, <1>o, <1>t DEF Request, Step, Following, OneWorker, TypeOK
    <3>3. status \notin Final
      BY <2>4, <1>o, <3>1 DEF Request, Step, OneWorker
    <3>4. UNCHANGED <<record, up, told, done, recording>>
      BY <2>4 DEF Request
    <3>5. \A j \in Judge : stage'[j] \in {stage[j], "sent"}
      BY <2>4, <1>t DEF Request, Give, TypeOK
    <3>6. RowsMatch'
      BY <3>4, <3>5, <3>1, <1>o, <1>t DEF RowsMatch, Quiet, PlaceOfStage
    <3> QED
      BY <3>1, <3>2, <3>3, <3>4, <3>6, <1>o DEF OneRecorder, Quiet, CompleteResult
  <2>5. CASE \/ RequestFails(w) \/ NotReceived(w) \/ RecordFailure(w)
             \/ AbortGrading(w) \/ AbortQueued(w) \/ AbortFails(w) \/ RecordAbort(w)
    BY <2>5, <1>o DEF OneAtATime, RequestFails, NotReceived, RecordFailure, AbortGrading, AbortQueued, AbortFails,
       AfterAbort, RecordAbort, Step, OneWorker
  <2> QED
    BY <1>3, <2>1, <2>2, <2>3, <2>4, <2>5 DEF WorkerNext
<1>4. ASSUME NEW j \in Judge, Dispatch(j) PROVE Rest'
  <2>1. ~Quiet /\ UNCHANGED worker
    BY <1>4 DEF Dispatch, Quiet
  <2> QED
    BY <1>4, <2>1, <1>o, <1>t, WorkersKept
    DEF Dispatch, Give, MayTake, OneRecorder, RowsMatch, CompleteResult, TypeOK
<1>5. ASSUME NEW j \in Judge, Lose(j) PROVE Rest'
  <2>1. ~Quiet /\ UNCHANGED worker
    BY <1>5 DEF Lose, Quiet
  <2> QED
    BY <1>5, <2>1, <1>o, <1>t, WorkersKept
    DEF Lose, Leave, Forgotten, OneRecorder, RowsMatch, CompleteResult, TypeOK
<1>6. ASSUME NEW j \in Judge, HandlerNext(j) PROVE Rest'
  <2>0. UNCHANGED worker
    BY <1>6 DEF HandlerNext, Acknowledge, BeginGrading, ClearCases, TestCase, End,
       CountCases, SaveResult, RecordEnd
  <2>1. ASSUME stage[j] # "idle", Acknowledge(j) \/ BeginGrading(j) PROVE Rest'
    <3>1. place = j /\ status \notin Final /\ \A k \in Judge : writing[k] = "nothing"
      BY <2>1, JudgeBusy
    <3>2. OneWorker'
      BY <2>0, <3>1, <1>o, WorkersKept DEF Quiet
    <3> QED
      BY <2>1, <3>1, <3>2, <1>o, <1>t
      DEF Acknowledge, BeginGrading, Reads, OneRecorder, RowsMatch, CompleteResult, TypeOK, Final
  <2>2. ASSUME stage[j] # "idle", ClearCases(j) \/ (\E c \in Case : TestCase(j, c)) PROVE Rest'
    <3>1. /\ place = j /\ status \notin Final /\ \A k \in Judge : writing[k] = "nothing"
          /\ \A k \in Judge : k # j => stage[k] = "idle"
      BY <2>2, JudgeBusy
    <3>2. OneWorker'
      BY <2>0, <3>1, <1>o, WorkersKept DEF Quiet
    <3>3. CASE ClearCases(j)
      BY <3>3, <3>1, <3>2, <1>o, <1>t
      DEF ClearCases, NoRows, Reads, OneRecorder, RowsMatch, CompleteResult, TypeOK
    <3>4. CASE \E c \in Case : TestCase(j, c)
      BY <3>4, <3>1, <3>2, <1>o, <1>t
      DEF TestCase, Reads, OneRecorder, RowsMatch, CompleteResult, TypeOK
    <3> QED
      BY <2>2, <3>3, <3>4
  <2>3. ASSUME stage[j] # "idle", \E end \in Final : End(j, end) PROVE Rest'
    <3>1. PICK end \in Final : End(j, end)
      BY <2>3
    <3>2. place = j /\ status \notin Final /\ \A k \in Judge : writing[k] = "nothing"
      BY <2>3, JudgeBusy
    <3>3. end = "D" => cases = Case
      BY <3>1, <1>o DEF End, MayEnd, Reads, Final, RowsMatch
    <3>4. end # "counted"
      BY DEF Final
    <3>5. OneWorker'
      BY <2>0, <3>2, <1>o, WorkersKept DEF Quiet
    <3>6. OneRecorder'
      BY <3>1, <3>2, <1>t DEF End, Leave, OneRecorder, TypeOK
    <3>7. RowsMatch'
      BY <3>1, <3>2, <3>3, <3>4, <1>o, <1>t DEF End, Leave, RowsMatch, TypeOK
    <3> QED
      BY <3>1, <3>2, <3>5, <3>6, <3>7, <1>o DEF End, CompleteResult
  <2>4. ASSUME writing[j] # "nothing", CountCases(j) \/ SaveResult(j) \/ RecordEnd(j) PROVE Rest'
    <3>1. ~Quiet /\ status \notin Final
      BY <2>4, <1>o DEF Quiet
    <3>2. OneWorker'
      BY <2>0, <3>1, <1>o, WorkersKept
    <3>3. place = "none" /\ \A k \in Judge : k # j => writing[k] = "nothing"
      BY <2>4, <1>o DEF OneRecorder
    <3>4. CASE CountCases(j)
      BY <3>4, <3>1, <3>2, <3>3, <1>o, <1>t
      DEF CountCases, OneRecorder, RowsMatch, CompleteResult, TypeOK
    <3>5. CASE SaveResult(j)
      BY <3>5, <3>1, <3>2, <3>3, <1>o, <1>t
      DEF SaveResult, OneRecorder, RowsMatch, CompleteResult, TypeOK, Quiet
    <3>6. CASE RecordEnd(j)
      BY <3>6, <3>1, <3>2, <3>3, <1>o, <1>t
      DEF RecordEnd, Recorded, OneRecorder, RowsMatch, CompleteResult, TypeOK, Quiet
    <3> QED
      BY <2>4, <3>4, <3>5, <3>6
  <2> QED
    BY <1>6, <2>1, <2>2, <2>3, <2>4
    DEF HandlerNext, Acknowledge, BeginGrading, ClearCases, TestCase, End, MayEnd, Reads,
        CountCases, SaveResult, RecordEnd
<1>7. ASSUME Crash \/ Start PROVE Rest'
  BY <1>7, <1>o DEF Crash, Start, OneAtATime
<1>8. ASSUME UNCHANGED vars PROVE Rest'
  BY <1>8, <1>o DEF vars, OneWorker, OneRecorder, RowsMatch, Quiet, CompleteResult
<1>9. Rest'
  BY <1>1, <1>2, <1>3, <1>4, <1>5, <1>6, <1>7, <1>8 DEF Next
<1> QED
  BY <1>r, <1>9 DEF CountInv

\* Without overlapping requests, aborts and restarts of the bridge, a graded
\* submission counts every test case, whatever judges and workers are lost.
THEOREM ResultsComplete == OneAtATime => (Spec => []CompleteResult)
<1> SUFFICES ASSUME OneAtATime PROVE Spec => []CompleteResult
  OBVIOUS
<1>1. CountInv /\ [Next]_vars => CountInv'
  BY CountStep
<1>2. CountInv => CompleteResult
  BY DEF CountInv
<1> QED
  BY CountInit, <1>1, <1>2, PTL DEF Spec

\* In the same environment a final status is only replaced by a new request.
THEOREM FinalStatusStays == OneAtATime => (Spec => FinalStays)
<1> SUFFICES ASSUME OneAtATime PROVE Spec => FinalStays
  OBVIOUS
<1>1. CountInv /\ [Next]_vars => CountInv'
  BY CountStep
<1>2. CountInv /\ [Next]_vars => [status # status' /\ status \in Final => status' = "QU"]_vars
  <2> SUFFICES ASSUME CountInv, Next, status # status', status \in Final
               PROVE  status' = "QU"
    OBVIOUS
  <2>1. Quiet /\ OneWorker /\ PlaceOfStage /\ up /\ TypeOK
    BY DEF CountInv, RecordInv
  <2> USE <2>1 DEF record, Quiet
  <2>2. ASSUME NEW w \in Worker, Rejudge(w) \/ StartAbort(w) \/ Kill(w) PROVE FALSE
    BY <2>2 DEF Rejudge, StartAbort, Kill
  <2>3. ASSUME NEW w \in Worker, WorkerNext(w) PROVE Update(w)
    BY <2>3 DEF WorkerNext, NotUpdated, DeleteCases, Request, RequestFails, Received,
       NotReceived, RecordFailure, AbortGrading, AbortQueued, AbortFails, AfterAbort, RecordAbort, Step, OneWorker
  <2>4. ASSUME NEW j \in Judge, Dispatch(j) \/ Lose(j) \/ HandlerNext(j) PROVE FALSE
    <3>1. stage[j] = "idle"
      BY JudgeApiAssumption DEF PlaceOfStage
    <3> QED
      BY <2>4, <3>1 DEF Dispatch, Lose, HandlerNext, Acknowledge, BeginGrading, ClearCases,
         TestCase, End, MayEnd, Reads, CountCases, SaveResult, RecordEnd
  <2>5. ~Crash /\ ~Start
    BY DEF OneAtATime, Crash, Start
  <2> QED
    BY <2>2, <2>3, <2>4, <2>5 DEF Next, Update
<1> QED
  BY CountInit, <1>1, <1>2, PTL DEF Spec, FinalStays
-----------------------------------------------------------------------------
(* No web worker is killed and every abort learns what it has done;       *)
(* everything else may happen.                                            *)

Answered == {"kill", "mute"} \cap Environment = {}

\* A submission that shows QU is with a worker that is not done with it, with
\* the bridge or a handler thread, or the bridge will clear it at its start.
QueuedIsHeld ==
    status = "QU" =>
        \/ ~up \/ place # "none"
        \/ \E j \in Judge : writing[j] # "nothing"
        \/ \E w \in Worker : worker[w] \in {"loaded", "deleting", "sending", "failed", "refused"}

HeldInv == RecordInv /\ QueuedIsHeld

\* HeldInv holds at first: the submitter has loaded the submission.
LEMMA HeldInit == Init => HeldInv
  BY RecordInit, JudgeApiAssumption DEF Init, HeldInv, QueuedIsHeld

\* Whoever lets go of a queued submission has handed it on.
LEMMA HeldStep == Answered /\ HeldInv /\ [Next]_vars => HeldInv'
<1> SUFFICES ASSUME Answered, HeldInv, [Next]_vars PROVE QueuedIsHeld'
  BY RecordStep DEF HeldInv
<1> USE JudgeApiAssumption DEF Answered, HeldInv, QueuedIsHeld, RecordInv, TypeOK, record, grading, recording
<1>1. ASSUME NEW w \in Worker, Rejudge(w) \/ StartAbort(w) \/ Kill(w) PROVE QueuedIsHeld'
  BY <1>1 DEF Rejudge, StartAbort, Kill, Step
<1>2. ASSUME NEW w \in Worker, WorkerNext(w) PROVE QueuedIsHeld'
  <2>1. CASE Update(w) \/ NotUpdated(w) \/ DeleteCases(w)
    BY <2>1 DEF Update, NotUpdated, DeleteCases, Step, Following
  <2>2. CASE Request(w)
    BY <2>2 DEF Request, Give, Step, Following
  <2>3. CASE RequestFails(w) \/ Received(w) \/ NotReceived(w) \/ RecordFailure(w)
    BY <2>3 DEF RequestFails, Received, NotReceived, RecordFailure, FailureStatus, Step
  <2>4. CASE AbortGrading(w) \/ AbortQueued(w) \/ AbortFails(w) \/ RecordAbort(w)
    BY <2>4 DEF AbortGrading, AbortQueued, AbortFails, AfterAbort, RecordAbort, Step
  <2> QED
    BY <1>2, <2>1, <2>2, <2>3, <2>4 DEF WorkerNext
<1>3. ASSUME NEW j \in Judge, Dispatch(j) \/ Lose(j) PROVE QueuedIsHeld'
  BY <1>3 DEF Dispatch, Give, Lose, Leave, Forgotten
<1>4. ASSUME NEW j \in Judge, HandlerNext(j) PROVE QueuedIsHeld'
  <2>1. CASE Acknowledge(j) \/ BeginGrading(j) \/ ClearCases(j)
    BY <2>1 DEF Acknowledge, BeginGrading, ClearCases, NoRows
  <2>2. CASE \E c \in Case : TestCase(j, c)
    BY <2>2 DEF TestCase
  <2>3. CASE \E end \in Final : End(j, end)
    BY <2>3 DEF End, Leave, Final
  <2>4. CASE CountCases(j)
    BY <2>4 DEF CountCases
  <2>5. CASE SaveResult(j) \/ RecordEnd(j)
    BY <2>5 DEF SaveResult, RecordEnd, Recorded
  <2> QED
    BY <1>4, <2>1, <2>2, <2>3, <2>4, <2>5 DEF HandlerNext
<1>5. CASE Crash
  BY <1>5 DEF Crash
<1>6. CASE Start
  BY <1>6 DEF Start, InProgress
<1>7. CASE UNCHANGED vars
  BY <1>7 DEF vars
<1> QED
  BY <1>1, <1>2, <1>3, <1>4, <1>5, <1>6, <1>7 DEF Next

\* Unless a web worker is killed or the answer to an abort is lost, a submission that nobody has any more shows a
\* final status: judge_submission, abort_submission, the handlers and judge_daemon
\* hand it on to each other without a gap.
THEOREM NothingLost == Answered => (Spec => []RestsFinal)
<1> SUFFICES ASSUME Answered PROVE Spec => []RestsFinal
  OBVIOUS
<1>1. Init => HeldInv
  BY HeldInit
<1>2. HeldInv /\ [Next]_vars => HeldInv'
  BY HeldStep
<1>3. HeldInv => RestsFinal
  BY JudgeApiAssumption DEF HeldInv, QueuedIsHeld, RecordInv, TypeOK, GradingIsKnown, RestsFinal, NothingUnderWay,
     Status, InProgress
<1> QED
  BY <1>1, <1>2, <1>3, PTL DEF Spec
=============================================================================
