# A verification development for the online judge

This directory holds TLA+ models of the parts of this site where several
processes share state: the *bridge* that hands submissions to judges, the
record of a submission in the database, the participation of a user in a
contest, the daemon that tells pages what has happened, and the page of an exam
with its answers, its proctoring connection and its video evidence. Each model is
checked by TLC on small instances; for all eight the safety properties that matter
most are proved with TLAPS for every value of the constants.

Paths are relative to the repository (`src/` is its root); `X:10-20` are lines.

## 1. The system

The site is a Django application with some processes around it.

```
 browser ── web workers ──(one row at a time)── database
               │  judgeapi.py                      │
               │  one TCP connection per request   │ handler threads write rows
               v                                   │
        ┌── bridge (bridge/daemon.py) ─────────────┘
        │   DjangoHandler ── JudgeList ── JudgeHandler (a thread each)
        └──────────────────────────────────────────── judges (other machines)
 event daemon (websocket/daemon.js) <── event.post of web workers and bridge
        └── pages of submissions (resources/event.js)
 exam page (templates/hpe_admin) ── web workers: questions, answers, leave
        └── proctoring server (not in the repository): a web socket, video clips
 Celery worker (judge/tasks/*)      <── tasks of web workers
```

| Component | State | Operations | Talks to |
|---|---|---|---|
| Bridge scheduler, `judge/bridge/judge_list.py` | list of judges, priority queue, `submission_map`, `min_tier`, one RLock | `register` `remove` `judge` `abort` `on_judge_free` `update_problems` `update_disable_judge` `disconnect` | called by the handlers below, calls `JudgeHandler.submit` under its lock |
| Judge handlers, `judge/bridge/judge_handler.py` | `_working`, `problems`, `is_disabled`, `tier`, the socket | one handler per packet, `submit`, `abort`, `on_disconnect` | scheduler; database, one query at a time; event daemon |
| Requests, `judge/judgeapi.py` and `bridge/django_handler.py` | the rows `Submission` and `SubmissionTestCase` | `judge_submission`, `abort_submission`, `disconnect_judge`, `update_disable_judge` | bridge, by a connection per request |
| Bridge start, `judge/bridge/daemon.py` | all submissions in progress | clears them, then listens | database |
| Participation, `judge/models/contest.py`, views in `judge/views/contests.py`, `hpe_admin/views.py`, `judge/views/problem.py` | the row `ContestParticipation`, `ContestSubmission`, `ContestMCQSubmission`, `contest.banned_users`, `profile.current_contest` | join, leave, answer, submit, disqualify, recompute | bridge (a graded submission recomputes its participation), signals |
| Contest formats, `judge/contest_format/*` | none | `update_participation`: a sum over a participation's submissions | participation |
| Multiple choice, `judge/models/mcq.py` | questions, options, answers | scoring of an answer | participation |
| Event daemon, `websocket/daemon.js`, and receiver, `resources/event.js` | last messages, followers, pollers; `last_msg` of a page | post, start, filter, catch up, poll, time out | web workers, browsers |
| Exam page, `templates/hpe_admin/contest_landing.html` and `exam_content.html` | inputs of one question, debounce timers, saves under way and queued | load, save, submit a question, dashboard, "Submit Test" | views of `hpe_admin/views.py` |
| Proctoring connection, `contest_landing.html` | one web socket, heartbeat, reconnection timer, buffer of tab switches | connect, close, ping, switch, acknowledge, submit | proctoring server |
| Video evidence, `templates/hpe_admin/proctor/video_utils.html` | recorder, chunks of twenty seconds, one upload; the IndexedDB store of failed uploads | record, trigger, upload, retry, store, reset, recover | camera, proctoring server |
| Bulk mail, `judge/tasks/emailing.py` | progress records | send in batches, retry, cancel | SMTP |
| Ratings, `judge/ratings.py` | `Rating` rows | rerate from a contest on | contests |
| Profiles, tickets, comments, blog, organizations, admin, caches, templates | single rows | Django forms and views | database |

### What is hard here

* **Interleaving under a lock that is held for long.** An operation of the
  scheduler may serve several judges in a loop; between and after operations the
  handlers' own fields (`_working`, `is_disabled`) change outside the lock.
* **Nothing but single queries is atomic.** `judge_submission` updates the row,
  deletes the test cases, and sends the request, in three steps; a handler frees
  its judge first and writes the result afterwards; `abort_submission` decides on
  a status loaded by the view. Only `recompute_results` and
  `ProblemSubmit.form_valid` run in a transaction.
* **Failure.** Judges are lost while they work, the bridge is restarted with its
  queue in memory, the request to the bridge fails after the row was reset, a web
  worker is stopped between two steps, the database raises in `submit`.
* **Stale copies.** `participation.save()` and `profile.save()` write every
  column of an object that was loaded earlier.
* **Protocols of the user.** Join, answer, leave, answer again, join again: the
  views test different things in different orders.

* **One page, many callbacks.** The exam page reads its inputs when a timer fires
  or an answer arrives, which may be another question's by then; a recorder is
  stopped, reset, recovered and restarted by callbacks that know of each other by
  two flags; a socket is closed and opened by five of them.
* **Delivery.** The event daemon forgets, pages connect late, requests that wait
  are answered, timed out or lost; an upload arrives and its answer does not.

`PROJECT.json` lists the forty places where this bites most, each with its line and the
property that covers it, or the reason why none does; sections 5 and 6 have the rest.

### What makes each component correct

* Scheduler: one judge per submission and one submission per judge; nothing
  queued twice; no free judge idle beside work it may have; the tiers and the
  order of the queue are respected; every request ends.
* Submission record: a submission that shows "processing" or "grading" has
  somebody who will end it; a result counts all its test cases; a final status is
  not overwritten by an earlier grading; every request comes to a final status.
* Participation: the score is the sum of what is stored; a disqualified one is
  last, and its user banned; who has left stays out.
* Event daemon: a page sees messages of its channel once and in order; one that
  follows misses nothing that was in the queue when it joined; one that waits is
  told in the end.
* Exam page: the saves of a question do not overtake each other; what is stored
  belongs to its question, and is what the page shows once the user rests.
* Proctoring connection: one connection, none after the submission; buffered
  events arrive; a dead connection is noticed.
* Video evidence: a violation that was accepted is on its way, at the server or in
  the store; the recorder always runs again; a stored clip is deleted only when
  it has arrived, and retrying ends.
* Planned: a mail goes to each recipient once; formats agree with their
  documentation; ranks with ties are consistent.

## 2. Modules

| Module | Models | Kind |
|---|---|---|
| `GradingService` | what the bridge promises | abstract specification |
| `JudgeList` | scheduler, the handler threads that drive it, the judge process, administrators | detailed specification; `Service` is its refinement mapping to `GradingService` |
| `MCJudgeList` | values of its constants | TLC |
| `JudgeListProofs` | theorems about `JudgeList`, and that it implements `GradingService` | TLAPS |
| `JudgeApi` | the writers of one submission's record; the scheduler abstracted to a place | detailed specification |
| `MCJudgeApi`, `JudgeApiProofs` | its instances and theorems | TLC, TLAPS |
| `ContestParticipation` | one participation and the requests that touch it | detailed specification |
| `MCContestParticipation`, `ContestParticipationProofs` | its instances and theorems | TLC, TLAPS |
| `EventFeed` | what the event daemon promises a page | abstract specification |
| `EventDaemon` | the daemon, its posters and the receivers of the pages; `Feed` is its refinement mapping to `EventFeed` | detailed specification |
| `ExamAnswers` | answers of the exam page, and the views that take them | detailed specification |
| `ProctorLink` | the web socket of the exam page | detailed specification |
| `VideoBuffer` | recorder, clips and uploads of the exam page | detailed specification |
| `UploadStore` | the store of failed uploads and its retry worker, which `VideoBuffer` has as one set | detailed specification |
| `MCEventDaemon`, `MCExamAnswers`, `MCProctorLink`, `MCVideoBuffer`, `MCUploadStore` | their instances | TLC |
| `EventDaemonProofs` | theorems about `EventDaemon`, and that it implements `EventFeed` | TLAPS |
| `ExamAnswersProofs`, `ProctorLinkProofs`, `VideoBufferProofs`, `UploadStoreProofs` | theorems of the page | TLAPS |

Definitions whose comment begins with "Mutant" or "A variant" are not part of a
specification. Each is a wrong version of the definition that follows it, used to
see that a property notices the mistake (`PROJECT.json`, "mutants").

### JudgeList

A `Judge` is one `JudgeHandler` object, that is one connection. The variables
have the names of the attributes: `judges`, `queue`, `submission_map`,
`min_tier` of JudgeList, `working`, `problems`, `is_disabled` of the handlers.
The linked list with its priority markers is one sequence per priority: the
nodes before the marker of that priority. `owner` is the thread that holds the
RLock; `waking` and `tail` are what it still has to do, because one call of
`register`, `remove`, `on_judge_free` or `update_disable_judge` makes several
calls of `_handle_free_judge` and each calls `submit`, which queries the database.
Every other locked operation waits for `owner = NoOne`; unlocked steps
(`Acknowledge`, `Record`, `SupportedProblems`, those of `_connected` and of a toggle) interleave
with them. `db_disabled` is the column of the `Judge` row, `row` the copy of the row a handler
has loaded, and `toggling` that of an administrator's request.

| Action | Code |
|---|---|
| `Register` | `on_handshake`: `register` under the lock |
| `LoadRow`, `CacheDisabled`, `Connected` | `_connected`: it reads the row (`judge_handler.py:117`), caches `is_disabled` (`:124`) and saves the whole row (`:136`), `is_disabled` with it |
| `Request` | `judge`, with the status QU that `judge_submission` has written |
| `Abort` | `abort` of a submission no judge has, and the AB that follows |
| `WakeNext` | an iteration of the loop of `_update_min_tier` |
| `ServeOwner` | the call of `_handle_free_judge` that ends `register`, `on_judge_free`, `update_problems` |
| `ServeSole` | the end of `remove` |
| `Acknowledge`, `FreeSelf`, `Record` | acknowledgement; `_free_self`; the final status written after it |
| `SupportedProblems`, `UpdateProblems` | the test of `_working` without the lock, and the call |
| `Drop`, `Remove`, `Disconnected` | end of a connection; `remove`; the IE of `on_disconnect` |
| `LoadToggle`, `ToggleDisabled`, `SaveToggle`, `ToggleFails` | `toggle_disabled` (`runtime.py:155-158`): the row is loaded, the bridge is told, and only then is the row saved; the request may fail after the bridge was told |
| `DisconnectJudge` | `disconnect` |

`submit` can raise (`Outcomes`): in the database, in `send` to a connection
that is closing, or because the submission has no data any more (its row was deleted), in each case
after `_working` was set. A `TypeError` of a comparison with no minimum tier is `Raises`.
Abstracted: the content of a submission, load figures (a free judge is chosen
freely), runtime versions, ping. Assumed of the judge process: it acknowledges
what it was sent, and sends the end of what it has acknowledged, once.

`Environment` selects what else happens: `"rejudge"` (a submission is requested
again after it has ended or while it is queued), `"disable"`, `"reload"`
(problem lists change), `"db_error"`, `"send_error"`, `"vanish"` (rows of submissions are deleted).

### JudgeApi

One submission. `status`, `counted` (the cases in `case_points`) and `cases`
(the rows) are the database; `worker` is the next query of each web worker;
`place`, `stage`, `told`, `done` are the bridge and the judge; `writing` and
`seen` are what a handler thread has still to write. One action is one query or
one request. `Environment` again selects events: `"overlap"` (a rejudge while one
is under way), `"abort"`, `"lose"` (a judge), `"crash"` (the bridge, with its
restart), `"kill"` (a web worker), `"socket"` (the exchange with the bridge that requests a grading
fails: nothing arrives, or the reply is lost, or it is bad, `judgeapi.py:93-101`), `"mute"` (what is
lost may be the reply to an abort that the bridge has carried out). What `JudgeList` decides about other
submissions appears as choice: a judge of the list may or may not be free.

### ContestParticipation

One user, one running contest, the live participation. `th[t]` is the request a
thread works on, its next query, the copy of the row it has loaded, and whether
the profile it has loaded is in the contest. `row`, `points`, `banned` and
`current` are the database. The points of a score are kept per problem rather
than as their sum, so that a term missing or counted twice cannot cancel out;
-9999 is the constant `Last`. `recompute_results` is one step: it runs in a
transaction (`judge/models/contest.py:541`) and the configured database, SQLite
(`dmoj/settings.py:534`), serializes writers. `"database is locked"` errors of
SQLite are not modelled; with a database that lets two such transactions
overlap the step would have to be split.

| Request | Steps (queries) |
|---|---|
| `join` (`ContestJoin`, `ContestProctoredJoin`) | check banned, check exited, get, create, draw, enter |
| `hpe_join` (`HPEContestJoinView`) | the same, with reset and clear for a row that exists |
| `leave` (`ContestLeave`) | exit, remove |
| `hpe_leave` (`HPEContestLeaveView`) | load, exit, recompute, remove |
| `answer` (`HPEMCQSubmitView`) | get or create, heal, answer |
| `hpe_submit` (`HPECodeSubmitView`) | get or create, submit |
| `submit` (`ProblemSubmit`) | heal, submit |
| `grade` (`Submission.update_contest`, in the bridge) | grade, load, recompute |
| `delete` (signal `contest_submission_delete`) | delete, load, recompute |
| `recompute` (`HPEContestSubmissionsView`) | load, recompute |
| `disqualify` (`ContestParticipationDisqualify`) | load, recompute, remove, ban |

Requests overlap in any way. Three histories, which no query reads, say which of them have been
overtaken (`Remember`): `exitedSince` and `flippedSince` are the threads that were at work when
another request set `has_exited` or changed `is_disqualified`, as long as their request
lasts, and `torn` says that the last to write that column or the list of banned users was one of
`flippedSince`. Of what a thread has loaded it keeps what is looked at or written again.

### EventDaemon

The daemon is single-threaded: one message of a socket or one request is one
action. `messages` is the queue, `followers` and `pollers` the two sets; `pollers`
is a sequence, because the set of `node_modules/simplesets` is an array that `each`
walks by index while `got_message` removes from it (`Visits`). `sent` is what is on
its way to a page. `Restart` is a crash and a new start, numbered from the clock.

| Action | Code |
|---|---|
| `Post` | `messages.post`, with the loops over followers and pollers |
| `Load` | a view renders `event.last()`; the script creates `EventReceiver` |
| `Opened`, `GivesUp` | `onopen`; the timer of two seconds, after which the page polls |
| `StartMsg`, `SetFilter` | the two commands; `catch_up` is part of the second |
| `Receive`, `Breaks` | `onmessage`; a web socket that breaks is not opened again |
| `PollArrives`, `PollTimeout` | the request: answered from the queue, or it waits; 504 |
| `Success`, `TimedOut`, `PollFails`, `Retry` | the callbacks of the request in the page |

### ExamAnswers

An answer is stored in one step: `HPEMCQSubmitView` makes a new `MCQSubmission`, adds its options and
then lets the row of the question point to it (`views.py:675-703`); readers follow that pointer, and
what it points to is never changed. The page has the inputs of ONE question: `shown` and `selected` are what is in the
document, `current` the question its view is marked with, `index` the position that
"next" goes on from. A step is one callback up to its next `await`, or one request
handled by the server; requests of the user (`call`) and silent saves (`silent`) are
answered in any order and may fail.

| Action | Code |
|---|---|
| `Choose`, `TimerFires` | a change of an input, `debouncedSaveMCQ`; its timer |
| `SaveSilently`, `SaveImmediately` | `saveMCQSilently`, `saveMCQImmediately` |
| `ServeSave`, `SaveFails`, `SaveEnds` | the view; a lost request; the `finally` block, which executes a queued save |
| `ClickQuestion`, `ServeLoad`, `LoadEnds` | `loadMCQ` up to its `await`, its view, the rest |
| `ClickSubmit`, `ServeSubmit`, `SubmitEnds` | `submitMCQ` and `navigateToNextQuestion` |
| `ClickDashboard`, `Hide` | `showDashboard`, up to and after its `await` |
| `Confirm`, `Leave`, `ServeLeave`, `LeaveFails`, `ThankYou` | `confirmEndExam` with `saveAllMCQs`; `HPEContestLeaveView` |

`chosen` and `due` remember what the user selected last, per question.

### ProctorLink

Sockets are numbered in the order of their creation; the first one is the one the
check before the exam has opened. `socket` is the variable of
`initProctoringWithStream`, `shared` is `window.proctorSocket`: they differ while a
new socket is connecting. `handled` says that `setupExamMessageHandler` has set the
handlers of a socket, among them `onclose`. `Breaks` is a loss the page is told of,
`Dies` one it is not; pings may be late on a connection that lives as well (`PingIsLate`), which the
heartbeat then closes. Tab switches are numbered, an event is the count it carries.
The server (`Deliver`) acknowledges each event it receives; it is taken from what
the page expects, since it is not in the repository.

### VideoBuffer and UploadStore

Footage is the set of violations it shows. `mediaRecorder.stop()` changes the
state at once and puts what precedes the stop event into `stops`; `Stopped` is the
last chunk with `onstop` up to its first `await`. The clip is then in `fixing`, while
`fixWebmDuration` runs, and in `upload` afterwards. `restarts`, `resetting` and `recovering` are the
timers behind `onstop`, `_performPeriodicReset` and `_handleRecorderError`.
Two layers of histories say what becomes of evidence. `received`, `stored` and `refused`
belong to the actions: what the server confirmed, the store took, or neither. `earlier`,
`maintained` and `disturbed` are conjoined to every step (`Observe`), and no action looks at
them: what was accepted before the page was cleaned up or loaded, whether a reset or an error
recovery (with the stop events and timers it has set off) is not over, and whether one has met a
clip. `EvidenceKept` is about a page that is not `disturbed`; the buffer does not count as a place
where evidence is kept, since it slides, and an upload that is stuck does not either. `Prompt` is an assumption about the browser: a stop event
comes before a delay of 200 ms or more is over. Nothing that holds needs it. Two periodic resets
do not overlap (half a second every thirty minutes); a reset and any number of recoveries do, up
to the bound `MaxPending`.

`UploadStore` has what `VideoBuffer` calls `stored` in detail: records with a key, a
count of retries and a status, and runs of the retry worker, each with the records
it has read when it began. Every access to IndexedDB is a step, and so is the arrival of an
upload before the page learns of it. `LoadPage` ends every run and keeps the records. A request to
IndexedDB may end in `onerror` (`NotRead`, `NotUpdated`, `NotDeleted`): nothing is read, a retry is not
counted, or the record of a clip that has arrived stays and is uploaded again.

## 3. Runs

All runs pass but `lost`, which refutes what a comment of the repository says.

| Run | Instance | Question |
|---|---|---|
| `dispatch` | 3 judges in two tiers, 2 submissions of two priorities, each requested once; fair | `SchedulerInv` (the inductive invariant), `NoOrphans`, `WorkConserving`, `MinimumTierOnly`, `RequestEnds`, refinement of `GradingService` (`GradesAsPromised`) |
| `reload` | 2 judges with different problem lists that change, requests that name a judge, rejudges | `UrgentServed`, `JudgedByOne` |
| `disable` | 2 judges of one tier that are disabled and enabled, rejudges | `MapMatchesWorking`, `QueuedOnce` |
| `record` | 1 submission: 2 judges, 2 workers, 1 case, every event but stopped workers and lost replies to an abort; fair | `GradingIsKnown`, `NoForeignRow`, `RestsFinal`, `ResultComes` |
| `failures` | 2 judges, 2 workers, 2 cases, one rejudge at a time, lost judges and stopped workers | `CompleteResult`, `FinalStays` |
| `participation` | 2 threads, 1 problem, 1 question, worth 1 point, 1 selection, every overlap | `DisqualifiedScoresLast`, `ScoreAddsUp`, `BannedAsDisqualified`, `ExitStays` |
| `feed` | 2 pages of one channel (one polls), 2 channels, a queue of 2, 3 messages, 2 faults; fair | `NothingSkipped`, `ReachesPages`, refinement of `EventFeed` (`DeliversAsPromised`) |
| `answers` | 2 questions (one with several answers) of 2 options, 2 requests at a time, 4 clicks, 1 failure; fair | `OneSaveAtATime`, `StoredIsAnAnswer`, `RestsSaved` |
| `lost` | the same, 1 request at a time, 3 clicks, no failure | *violation* of `AllAnswersCounted` |
| `link` | 3 sockets, a buffer of 2, 3 tab switches; fair | `OneLink`, `NoLinkAfterSubmission`, `AckedOnlyFlushed`, `BufferedArrive`, `ZombieNoticed` |
| `evidence` | 2 violations, 2 attempts, 1 fault; fair | `EvidenceKept`, `RecordsAgain` |
| `store` | 2 clips, 2 retries, 2 overlapping runs of the worker, 2 page loads, 1 failed request to the store; fair | `KeptUntilUploaded`, `RetriesEnd` |

`record`, `participation`, `link`, `feed` and `evidence` check the type invariant too;
that of `JudgeList` is a part of `SchedulerInv`. All of them are proved, those of
`ExamAnswers` and `UploadStore` without a run.

Eight more configurations lie beside them which are not among the runs. Each makes TLC
print a counterexample of section 5: `JudgeList_already`, `JudgeList_enable`,
`JudgeApi_overlap`, `JudgeApi_late_abort`, `ContestParticipation_exit`,
`ProctorLink_reconnect`, `EventDaemon_pollers`, `VideoBuffer_confirmed`.

Two more pass. `JudgeList_assign` checks `NoOrphans` with different problem lists, requests that
name a judge and rejudges; `JudgeApi_anything` checks `GradingIsKnown` and `NoForeignRow` with 2
cases and every event, stopped workers and lost replies to an abort too. `NothingForgotten`,
`GradingKnown` and `RowsOfOneGrading` prove both for every instance.

**Bounds.** In the models of the server they are sizes of the constants, and every state
space is finite and complete. `MaxToggles` in `JudgeList` is how many judges are being toggled
*at the same time* (1), not how often. Three judges in two
tiers are the fewest with a reserve (two judges of one tier) *and* a tier to fall back to;
two submissions are the fewest with an order in the queue. Two workers and one submission
give every overlap of two requests on one record; two cases distinguish "some" from "all"
where rows are counted (`failures`), and one is enough for who ends what and for a row
that is there too early (`record`).
Two threads give every overlap of two requests on one participation, one problem
and one question each kind of point; with 1 point, 0 and full points are both
reached besides "no row" and "no points yet". Judges, cases, threads and, in `disable`, submissions are
symmetric where `SYMMETRY` says so, and only in runs without liveness.

The models of daemon and page have counters, bounded by constants in the guards:
`MaxId`, `MaxFaults` (`EventDaemon`), `MaxActions`, `MaxFailures` (`ExamAnswers`),
`MaxSockets`, `MaxCount` (`ProctorLink`), `MaxPending`, `MaxFaults` (`VideoBuffer`), `Runs`,
`MaxLoads`, `MaxErrors` (`UploadStore`; a store that fails for ever would have a clip retried for ever). `MaxQueue`, `MaxBuffer`, `MaxAttempts`, `MaxRetries` are
constants of the code (50, 100, 2 and 10 there). Three messages overflow a queue of two, and
with two channels the one a page waits for can be pushed out by one it does not want; two
faults are a crash and a lost request in either order. Four clicks are a selection,
another question, back, and another selection, with a timer or a save of the first still
to come. Of three sockets two can be lost, so that a reconnection follows a
reconnection; three tab switches overflow the buffer. Two violations are a second
upload that meets the first; one fault is an error, a lost camera or a page load at any
step of them. The last socket is not lost and the last fault is followed by none, so that
liveness is not asked of a world that fails for ever.

**Deadlock** is checked in `dispatch`, `reload`, `disable`, `record` and `participation`.
In `failures` a worker that stops before its request leaves a submission which nobody ends,
and everything rests. The others end by themselves: the test is submitted, the store is
empty or its clips are given up, all messages are posted and read.

**Fairness.** `dispatch`: the holder of the lock continues (weak); a handler
thread gets the lock in the end, a judge answers what it was sent, and a judge
connects again (strong, because other threads may take the lock in between:
`threading.RLock` has no queue, but each holder leaves it after finitely many
steps, and requests of a submission are finite in that run). `record`:
threads run on after each query, judges grade what they have, somebody serves the
queue, and the bridge, if stopped, is started again (all weak). Nothing is assumed
of users, administrators, lost connections or crashes: they may or may not happen.
That a judge answers is an assumption about other machines; the code has a timer
for it which is never started (see below). In the page and the daemon, timers that are set
fire and events that are queued are handled (weak): the event loop of a browser and of
Node runs what is due. `feed`: requests arrive or fail; not that anything is posted.
`answers`: requests are answered. `link`: an attempt to connect succeeds or fails, a living
connection carries its messages, and on a dead one no ping comes; not that anything breaks, nor that
pings come in time on a living one.
`evidence`: nothing is assumed of uploads, whose answer may never come. `store`: an
upload ends one way or the other, for which `fetch` is relied upon (`_retryUpload` has no timeout).

## 4. Proofs

Every theorem holds for any number of judges, submissions, workers, cases,
threads, problems, and any tiers, priorities and problem lists, under the
assumptions named in the modules (`JudgeListAssumption`, `Distinguished`,
`JudgeApiAssumption`, `ConstantsAssumption`), which TLC evaluates in the runs. For the
page they hold for any number of questions, sockets and clips, and any bound.

**`JudgeListProofs`** — its theorems differ in what they let happen.

| Hypothesis | Allows | Theorems |
|---|---|---|
| none | everything | `TypeCorrect` |
| `NothingRaises` | all but `"send_error"`, `"db_error"` | `QueueCorrect` (`QueuedOnce`) |
| `Quiet` | `"rejudge"`, `"reload"` | `OneJudgeEach` (`JudgedByOne`), `UrgentCorrect` (`UrgentServed`), `LeastTierServed` (`MinimumTierOnly`) |
| `Base` | `"rejudge"` | `SchedulerSafety` (`SchedulerInv`), `NothingForgotten` (`NoOrphans`), `Implements` (`GradesAsPromised`) |
| `Base \/ OneTier` | or `"rejudge"`, `"disable"` with one tier | `MapCorrect` (`MapMatchesWorking`) |
| `Alike` | `"rejudge"`; one list of problems, no request that names a judge, finitely many judges | `WorkConserved` (`WorkConserving`), `NoneOvertaken` (`NoOvertaking`) |

Each covers the environment of the run that checks the property (`NoOvertaking` has no run); why the hypotheses are what
they are is in section 5, where TLC has found the behaviours they exclude.

*Types.* Not inductive for `ServeOwner`, which serves the judge of the lock's owner: `TypeInv`
adds that the owner is a judge while that call is to come. *Queue.* `QueuedOnce` is inductive
with the types; the work is in what `Without` and `Append` do to places (`TakenOut`, `PutLast`).

*Quiet.* Here a
judge may be given a second submission while it has one (section 5), so that `submission_map`
and `_working` do *not* agree, and an entry of the map may be left of which no judge knows any more
than that it was sent it. The invariant (`QuietInv`) therefore goes from the packets to the map:
what a judge was sent or has acknowledged is in the map under that judge, and so is what it works on
(`Holders`), which is what `_free_self` needs. `LockHeld` keeps the judges that an operation
has still to serve in the list. `Tiers` says that no listed judge is below the minimum, so
that `_handle_free_judge` never returns early for an idle judge of the minimum. `UrgentServed` speaks of
the moments between two operations; in the middle of one it is `IdleServed`: an idle judge of the
current tier has nothing urgent in the queue, or has announced problems, or is among those the
operation still has to serve (`ToBeServed`). A request joins the queue only when no idle
judge of the tier can judge it or it is a rejudge, and what is taken out of the queue leaves the rest
as it was (`StaysServed`). `JudgedByOne` follows from `Holders`: two judges that both have a submission would both be
its entry of the map. What the invariant has of the submissions in progress (`Remembered`) is only that
the queue, the map or a recording thread mentions them; an entry of the map may be one that
nobody ends. `NoOrphans` asks for somebody who does (`InCharge`: the queue, a judge in the list
that works on it, or a thread that records its result), and that needs `Base`, where an entry
of the map has such a judge.

*Base.* That map and handlers agree is not
inductive: `on_judge_free` deletes the entry of `submission_map` whatever it
points to, so one needs that a packet of a judge is about what it works on
(`HandlerLife`); `ServeOwner` gives work to the judge of the lock's owner, so one
needs that this judge is idle and in the list (`LockDiscipline`); `register` must
not wake a judge and then serve its own in an unexpected state, for which the
minimum tier has to be that of a listed judge (`MinTierHeld`); and no
`update_problems` with a stale test of `_working` may be under way, and no judge
be disabled (`AllEnabled`). With *one tier* the minimum never rises, so nobody is ever
woken (`NobodyWoken`), and judges may be disabled.

*Alike.* `WorkConserving` again speaks of the moments between two operations. In the middle of one
(`Conserving`) it holds of the idle judges which the operation does not serve any more
(`Passed`), with one exception: a judge that `remove` has left alone in its tier was held in
reserve before and is served last. That all judges
have the same problems makes this a statement about three sets, the idle judges, the tier and the
priorities that wait (`AtRest`), which survives fewer idle judges, more judges in the tier and
less in the queue (`StaysAtRest`, from the cardinalities of subsets). `should_reserve_judge` is
evaluated anew for each node and judge, so a judge that gets work may turn the last idle one into
the one in reserve, never the other way round. `NoOvertaking` follows: only `judge` gives what was
not in the queue, and to a judge that was at rest.

`Implements`: `Spec` implies `Service!GSpec`.
The mapping reads `submission_map` backwards; from `MapMatchesWorking` this is what the judges
of the list work on (`GradingIsHeld`), so each action only has to say what it does to `judges`
and `working`. One lemma per action of the service (`AsGive`, `AsEnd`, ...) states it in the
terms of the mapping, one per operation of the scheduler shows which it is:
`_handle_free_judge` gives, `_free_self` and `remove` end, the writers of the final status
close, `abort` withdraws. Two are less obvious. A judge that is removed while it works ends
its submission at `remove`, and the IE closes it later; for the mapping of `ended` a
handler must not leave with an end unrecorded (`RecordsBeforeLeaving`). And
`on_submission_acknowledged` is an `Ask`, not a stutter: the result of an
earlier grading may have been written after the rejudge was requested, and the
acknowledgment shows the submission as in progress again.

**`JudgeApiProofs`** — `RecordSafety` (typing, one place of a submission, stages and
places agree) for *every* environment gives `GradingKnown` and `RowsOfOneGrading`.
`ResultsComplete` and `FinalStatusStays` hold under
`OneAtATime == Environment \subseteq {"lose", "kill"}`; their invariant says
which of a worker, a judge and a recording thread is the only writer, and that
what it has counted so far is what the database has. The hypothesis of
`ResultsComplete` cannot simply be dropped: with `"abort"`, or with `"crash"` beside the two, TLC finds
`CompleteResult` false (a record made final while a judge still works on it may be rejudged,
and the rows of two gradings meet). `NothingLost` (`RestsFinal`) holds
whenever no web worker is killed and no reply to an abort is lost (`Answered`): `GradingIsKnown` covers a submission that shows P or G, and
`QueuedIsHeld` follows one that shows QU from the worker that writes it over the
bridge to the handler that records, or to the start of the bridge.

**`ContestParticipationProofs`** — `TypeCorrect`, `DisqualifiedLast`, `ScoreCorrect`, `ExitIsFinal`,
`BansFollow`, whatever overlaps; `ExitIsFinal` outside the debug mode. The invariant (`Base`) says for
each thread what its step lets one conclude about its copy and its items, that a user is only
inside a participation that exists, and that nothing has points before the row
exists. For the score, a thread that has stored points and not recomputed yet is
exactly what `Unsettled` excludes. For `has_exited` (`ExitKnown`): while it is set, every request that
is not in `exitedSince` has it on the copy it will write, and is past the point where a join is
let in; for `is_disqualified` (`BanKnown`): a request that is not in `flippedSince` has the column on
its copy, and unless `torn`, the bans agree or a disqualification that was not
overtaken is about to write them.

**`ExamAnswersProofs`** — `TypeCorrect`, `SavesInTurn`, `StoredCorrect`. That saves of a
question take turns is inductive with the types: `saving` says exactly that a request is
under way. That what is stored belongs to its question is not: the invariant (`AnswerInv`)
follows an answer from the inputs to the server. The inputs are those of the question in
the page (`Carried`), a request may carry those of *another* question than its own, since a
timer fires when it fires, but always those of one; the view then stores it only if it
is this question's (`AcceptedIsProper`); and what a load brings back is of the question it
asked for (`Loaded`).

**`ProctorLinkProofs`** — `TypeCorrect`, `OneConnection`, `NothingAfterSubmission`,
`OnlySentAreRemoved`. `OneLink`
speaks of sockets that are connecting or open; a socket that is *closing* will still run its
`onclose` and schedule a reconnection, so the invariant (`LinkInv`) counts it as well
(`Active`), provided it has the handlers of the exam. That an open socket has them once
the exam has started is a part of it. For the acknowledgments (`AckedOnlyFlushed`), a socket that
takes them is the one in use and `isConnected` is set, so that nothing is put into the buffer
while it is open, and what was in it before has been sent on it (`FlushInv`).

**`VideoBufferProofs`** — `TypeCorrect`, `EvidenceStays` (`EvidenceKept`). Types need that an
attempt is left where one is paused, and that a page just loaded has a camera. Evidence rests on
one thing going on at a time (`InTurn`): recording, or one stop event, or one clip that is
repaired, or one upload, or one restart timer; a stop event that brings evidence is the one that was
triggered. Resets and recoveries break this, but while what they have set off is not over, and no clip
meets it, there is no clip (`NoClip`); when it is over, everything is empty again and the next
clip goes its way alone.

**`UploadStoreProofs`** — `TypeCorrect`, `NothingDeletedEarly`. What a run of the worker has read
may be old, but a key stays with its clip (`KeysKept`), and a run that is about to delete
knows that the clip has arrived (`Arrived`); both survive whatever another run does.

**`EventDaemonProofs`** — `TypeCorrect`, `NoneSkipped` (`NothingSkipped`), `Implements`
(`DeliversAsPromised`). What the daemon sends is a selection of its queue, `Only(q, S)`, a recursive
function over positions. What it computes (the lemma `OnlySelects`: the members of `S` among the elements of
`q`, all of them and no others, in the order of `q`) is proved by induction in the form of
`SetInduction`, about the *set* of numbers for which a claim holds, from the least element that
`WellFoundedInduction` gives; the library's own induction theorems have a predicate as
parameter, which the provers do not instantiate. The invariant (`EventInv`) says that the queue holds,
in order, exactly the messages after the last one pushed out (`QueueInOrder`), and for each phase of
a page what may be on its way (`PageInOrder`): to one that follows, what it has seen and what is
on its way are together all of its channel since it joined, and the rest is later than its `last`.

**Only model-checked**: all liveness (`RequestEnds`, `ResultComes`, `ReachesPages`, `RestsSaved`,
`BufferedArrive`, `ZombieNoticed`, `RecordsAgain`, `RetriesEnd`), which is out of reach of
the prover. `JudgeList` with judges of several problem lists is bound by `UrgentServed` alone: for
rejudges `WorkConserving` is false there (section 5).

## 5. Deviations

The run `lost` refutes a statement of the repository: `contest_landing.html:2544` "Save all
pending MCQ answers before submission". `saveAllMCQs` saves what is *in the page*, for every
question, and awaits the requests it sends. A selection whose timer has not fired is lost when
the side bar has loaded another question in between (`exam_content.html:1126-1129` calls
`loadMCQ` without a save); and a save under way, or queued behind one, is not awaited, so
that the leave can be handled before it.

Eight configurations outside the list of runs (section 3) refute others:

1. `judge_list.py:169` "Already judging": after a failing `submit` the entry of
   `submission_map` stays, and the retry in `judge` returns at it
   (`AlreadyJudging`, `JudgeList_already`).
2. `judge_list.py:70` "We must be adding a judge": also reached when the only
   judge is enabled again; nobody serves it (`OnlyRegisterEndsNoTier`, `JudgeList_enable`).
3. `judgeapi.py:74` "that does not lead to data corruption": an overlapping rejudge
   deletes rows of the grading that has begun (`CompleteResult`, `JudgeApi_overlap`).
4. `judgeapi.py:113` "fully graded submissions marked as aborted": still happens when
   the grading ends between the load and the reply (`GradedStaysGraded`, `JudgeApi_late_abort`).
5. `models/contest.py:538` "has exited the contest and cannot rejoin": the auto-heal
   of the answer view lets the user back in (`ExitedStaysOut`, `ContestParticipation_exit`).
6. `contest_landing.html:1969` "Exponential backoff configuration for reconnection": `onclose`,
   which schedules the next attempt, is set when a socket is open; an attempt that fails
   is the last one (`KeepsReconnecting`, `ProctorLink_reconnect`).
7. `simplesets.js:128-129` "If the set is changed by the callback, the results are undefined":
   the callback that `post` has `pollers.each` call removes from that set (`daemon.js:188`). `each`
   walks an array by index, so that of two requests that wait for one message the second is passed
   over; it gets the message after its timeout (`EveryPollerCalled`, `EventDaemon_pollers`).
8. `video_utils.html:506` "Only clear buffer if upload/IndexedDB save confirmed": a clip
   that meets another upload makes `handleViolationUpload` return true, and `onstop` clears the
   buffer with it (`ClearedOnlyIfConfirmed`, `VideoBuffer_confirmed`).

Further disagreements were met while modelling. The actions that produce them are
in the modules, but they have no configuration of their own:

* `JudgeList.register` passes the handler to `disconnect`, which compares names: a
  second connection of the same judge does not close the first
  (`judge_list.py:95-96`). The instances give each connection its own name.
* A judge that is disabled in the database is given a submission at its connection:
  `register` serves it before `_connected` reads the column (`judge_handler.py:174`). The minimum tier
  then still counts it. If it was alone in its tier, the next `register` of a judge of a higher
  tier raises the minimum, against `judge_list.py:74` "This is only possible when removing a judge": the
  loop serves the new judge, and `register` serves it again (`:98-99`), so that it has two
  submissions. TLC finds this in the instance of `disable` with two tiers.
* With several lists of problems, or requests that name a judge, a rejudge may wait beside an idle judge
  for it: a second judge that becomes idle ends the reserve, but only this second one is served
  (`judge_list.py:145`), and when it cannot judge the rejudge, the first one, which can, is not
  asked again. TLC finds this in the instance of `JudgeList_assign`.
* `update_disable_judge` may leave one free judge in the tier without starting it,
  which `remove` takes care not to do (`judge_list.py:116`, `:129-134`).
* When the only judge is disabled while it works there is no minimum tier, and
  `_handle_free_judge` raises in `_free_self`, before the result is stored
  (`Raises` of `JudgeList`): `NoOrphans` is false with `"disable"`.
* With `"reload"`, `on_supported_problems` may get a second submission for a judge
  that was given one after the test (`judge_handler.py:324`): that a judge has one
  submission at a time, and the refinement, are false there, and `NoOrphans` too: the
  acknowledgement of the first is then the wrong one, the connection is closed, `remove` deletes the
  entry of the second only (`judge_list.py:120-127`), and the first stays in `submission_map` under
  a judge that is gone, where a later request for it gives up (`:169`). TLC finds this in
  the instance of `reload`.
* A toggle that fails after the bridge was told leaves the judge disabled there and enabled in
  the database, or the reverse (`runtime.py:155-158`); and `_connected`, which saves the whole row it
  has loaded, may undo a toggle (`judge_handler.py:136`).
* A reply to the abort of a submission in the queue that is lost leaves its record
  with QU: nobody writes AB (`judgeapi.py:117-120`), `RestsFinal` is false with `"mute"`.
* `_handle_free_judge` removes a judge whose `submit` raises and leaves the node of the queue and the
  entry of `submission_map` (`judge_list.py:50`).
* A wrong acknowledgement writes IE for both submissions and then P for the
  acknowledged one (`judge_handler.py:279`).
* An abort between the update and the request of a rejudge shows AB, and the
  submission is judged nevertheless (`django_handler.py:60`).
* A restart of the bridge while a request is on its way shows IE, and the submission
  is judged nevertheless: `CompleteResult` and `FinalStays` are false with `"crash"`.
* `_no_response_job` is created and never started (`judge_handler.py:232`).
* A recomputation that has loaded the row before a leave writes `has_exited` back to false; one
  that has loaded it before a disqualification lifts it again while the user stays banned, and
  two disqualifications that overlap may write the row and the bans in different orders. `ExitStays` and
  `BannedAsDisqualified` say that nothing else does this; without `exitedSince` and `torn` both
  are false.
* A recomputation drops the drawn selection from `format_data`, and the next join
  draws again (`contests.py:63`, `contest_format/default.py:66`). A second "Start Exam" deletes every
  stored answer (`hpe_admin/views.py:774`).
* Without `AskedApart`, `RestsSaved` is false: `submitMCQ` is not held back by a save under
  way (`contest_landing.html:3034`), and a load that is served before a save brings the older
  selection back into the page (`:2966`).
* The user is thanked for a test whose leave has failed (`contest_landing.html:2685`).
* A socket that is connecting at "Submit Test" opens afterwards and stays (`contest_landing.html:2562`);
  the last count is taken before the answers are saved (`:2541`).
* The event daemon may be asked too late: the 50 messages it keeps are of all channels
  (`daemon.js:34`); a page whose web socket breaks is told nothing more (`event.js:60`).
* Once a reset or an error recovery has met a clip, `EvidenceKept` is false: `onstop` returns at
  `_restarting` with the clip (`video_utils.html:475`), or the recorder runs during an upload, and
  the next clip finds it in progress and is cleared (`:1003`).
* While a clip is uploaded further violations are refused (`video_utils.html:826`); a buffer
  that was retained slides away (`:514`); the retry worker is not started when the
  database opens after `initialize` (`:961`); `_checkQuota` looks for abandoned records among
  the pending ones (`:261`).

## 6. Not modelled

*On the server*: framing and compression of packets (and a connection that ends inside a
packet, `base_handler.py:85`); ping and load; points of batches and of the penalty formats
(planned); virtual and spectating participations, the end of a contest, access codes, the exit
from other contests in `HPEContestJoinView`, the editing of participations in the admin site,
superusers who may enter although banned; the rest of the profile that `remove_contest` saves and,
`is_disabled` apart, of the `Judge` row that `_connected` saves (`judge_handler.py:136`);
an administrator who edits `is_disabled` in the form of the admin site; ratings; bulk mail
(planned); tickets, comments, organizations, accounts, caches, templates, migrations.

*Around the event daemon*: the row a page shows. `SubmissionStatus` reads it before the number of
the last message (`views/submission.py:177`), `status.html:27` blocks for ever after a failed
request, `list.html:160` lets answers overtake each other; the test-case event is posted before the
rows exist (`judge_handler.py:566`). Posters: a message posted twice after a lost answer is two
messages (`event_poster_ws.py:36`), no answer renders a page without a receiver (`:82`), and the
command `auth` is unknown to the daemon (`:22`).

*In the exam page*: editor, drafts of code (whose debounced save reads `currentProblemCode` when
it fires, `contest_landing.html:2781`), countdown, full screen and clipboard; frames of the camera,
the count the server sends back; codecs, the initialization chunk, sizes and quotas of video.

**The share of lines.** All but a few hundred of the repository's `.js` lines are third-party code: `staticfiles/`
(twice: collected and source), `martor`, `node_modules`. The program's own logic is Python
(`judge/`, `hpe_admin/`) and the scripts inside HTML templates (`templates/hpe_admin/` has
over five thousand lines of them), and that is what is modelled; of first-party `.js` files,
`websocket/daemon.js` and `resources/event.js` are covered. A count of `.js` lines alone says
nothing about this project.

## 7. Plan

Done, in this order, the most important first: scheduler with its abstract
specification and proofs; submission record; participation; event daemon; exam page, its
proctoring connection, video buffer and upload store. What is left:

1. *Pages* (`LivePages`): the row a page shows, over `EventFeed`; it comes to show the final status.
2. *Drafts* (`CodeDrafts`): what is stored under the key of a problem is code of that problem.
3. *Bulk mail* (`BulkEmail`): batches, progress record, cancellation and retry of the
   Celery task after a crash; at most one mail per recipient, every one accounted for.
4. *Scoring* (`ContestFormats`): formats, batches and options as operators, checked
   against reference definitions over bounded inputs.
5. *Participation*: selections that stay, the end of the contest, a second contest.
6. *Composition*: `JudgeApi` over the abstract `GradingService` in place of its `place`;
   `ExamAnswers` with `ProctorLink` over one "Submit Test"; `VideoBuffer` with `UploadStore`.
7. *Proofs*: what is left of `WorkConserving` with several lists of problems, and of `NoOrphans`
   when judges are disabled or announce new lists.

## 8. Running

```
tlasany JudgeList.tla
tlc -workers 2 -config JudgeList_dispatch.cfg MCJudgeList
tlapm JudgeListProofs.tla
```
