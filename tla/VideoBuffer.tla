---------------------------- MODULE VideoBuffer ----------------------------
(***************************************************************************)
(* The video evidence of the exam page: SlidingVideoBuffer and             *)
(* HPEProctoringVideoManager in                                            *)
(* src/templates/hpe_admin/proctor/video_utils.html.  The recorder runs    *)
(* all the time; at a violation it is stopped, the last seconds become a   *)
(* clip that is uploaded, or else stored for later (UploadStore), and it   *)
(* is started again.                                                       *)
(*                                                                         *)
(* Footage is the set of violations it shows; chunks that show none are    *)
(* left out.  Events, timers and what follows an await are steps of their  *)
(* own.  MediaRecorder is the browser's, the server the proctoring         *)
(* service's.                                                              *)
(***************************************************************************)
EXTENDS Integers, Sequences

CONSTANTS Violations,
          MaxAttempts,   \* maxRetries of the manager
          MaxPending,    \* bound: stop events and restart timers at a time
          Prompt,        \* a stop event comes within the delays that wait for it
          MaxFaults      \* bound: recorder errors, lost streams, page loads

ASSUME ConstantsAssumption ==
    /\ MaxAttempts \in Nat \ {0}
    /\ MaxPending \in Nat \ {0} /\ Prompt \in BOOLEAN /\ MaxFaults \in Nat

Footage == SUBSET Violations
Idle == [phase |-> "idle", clip |-> {}, attempt |-> 0]
Upload == [phase : {"idle", "sending", "pausing", "saving", "stuck"},
           clip : Footage, attempt : 0..MaxAttempts]

VARIABLES
    page,         \* the buffer is "fresh", "running" (isRecording, with stream and
                  \* callback) or "cleaned"
    recorder,     \* state of mediaRecorder; "none": null
    live,         \* the camera delivers
    stops,        \* stop events to come, each with the footage that precedes it
    restarts,     \* restart timers set by onstop
    resetting,    \* the periodic reset waits for the recorder to stop
    recovering,   \* error recoveries that wait
    restarting, triggered,  \* _restarting, _uploadTriggered
    buffer,       \* footage in chunks
    fixing,       \* clips whose duration is being repaired
    upload,       \* the upload under way; isUploading unless idle
    received,     \* history: footage whose arrival the server has confirmed
    stored,       \* history: footage that has been put into the store
    accepted,     \* history: violations whose upload has been triggered
    refused,      \* history: footage that neither server nor store has taken
    skipped,      \* history: footage cleared since another upload was in progress
    faults,       \* faults so far
    earlier,      \* history: violations accepted before the page was cleaned up or loaded
    maintained,   \* history: a reset or a recovery, or what it has set off, is not over
    disturbed     \* history: it has met a clip, since the page was loaded

media == <<recorder, live, stops, restarts, resetting, recovering>>
history == <<received, stored, accepted, refused, skipped>>
observed == <<earlier, maintained, disturbed>>
vars == <<page, media, restarting, triggered, buffer, fixing, upload, history, faults, observed>>

Init ==
    /\ page = "fresh"
    /\ recorder = "none" /\ live = TRUE
    /\ stops = <<>> /\ restarts = 0 /\ resetting = FALSE /\ recovering = 0
    /\ restarting = FALSE /\ triggered = FALSE
    /\ buffer = {} /\ fixing = <<>> /\ upload = Idle
    /\ received = {} /\ stored = {} /\ accepted = {} /\ refused = {} /\ skipped = {}
    /\ faults = 0
    /\ earlier = {} /\ maintained = FALSE /\ disturbed = FALSE

-----------------------------------------------------------------------------
(* The recorder.                                                           *)

\* mediaRecorder.stop(), where the recorder runs: the state changes at once, its last
\* chunk and the stop event come later.
StopEvent(footage) == IF recorder = "recording" THEN Append(stops, footage) ELSE stops

\* A delay of 200 ms or more is over.
DelayOver == Prompt => stops = <<>>

\* Bound.
Roomy == Len(stops) + restarts < MaxPending

(* initialize: the recorder is created and started.                        *)
Initialize ==
    /\ page = "fresh"
    /\ page' = "running" /\ recorder' = "recording"
    /\ UNCHANGED <<live, stops, restarts, resetting, recovering, restarting, triggered, buffer,
                   fixing, upload, history, faults>>

(* triggerViolationUpload, where it is not refused.                        *)
TriggerViolationUpload(v) ==
    /\ v \notin accepted /\ Roomy
    /\ recorder = "recording" /\ ~restarting
    /\ triggered' = TRUE
    /\ recorder' = "inactive" /\ stops' = Append(stops, {v})
    /\ accepted' = accepted \union {v}
    /\ UNCHANGED <<page, live, restarts, resetting, recovering, restarting, buffer, fixing,
                   upload, received, stored, refused, skipped, faults>>

(* The recorder stops with an error; recovery begins in a second.          *)
RecorderError ==
    /\ faults < MaxFaults /\ faults' = faults + 1
    /\ recorder = "recording" /\ Roomy
    /\ recorder' = "inactive" /\ stops' = Append(stops, {})
    /\ recovering' = recovering + 1
    /\ UNCHANGED <<page, live, restarts, resetting, restarting, triggered, buffer, fixing,
                   upload, history>>

(* The camera is lost: the recorder stops and cannot be started again.     *)
StreamEnds ==
    /\ faults < MaxFaults /\ faults' = faults + 1
    /\ page = "running" /\ live /\ Roomy
    /\ live' = FALSE
    /\ stops' = StopEvent({})
    /\ recorder' = IF recorder = "recording" THEN "inactive" ELSE recorder
    /\ UNCHANGED <<page, restarts, resetting, recovering, restarting, triggered, buffer, fixing,
                   upload, history>>

\* The end of onstop: a timer is set that starts the recorder again.
RestartLater ==
    IF page = "running" THEN restarting' = TRUE /\ restarts' = restarts + 1
                        ELSE UNCHANGED <<restarting, restarts>>

(* Mutant: the recorder is started again while the clip is uploaded.       *)
StoppedAndRestarted ==
    /\ stops # <<>>
    /\ stops' = Tail(stops)
    /\ LET chunks == buffer \union Head(stops) IN
       /\ buffer' = chunks
       /\ IF restarting THEN UNCHANGED <<triggered, fixing, restarting, restarts>>
          ELSE /\ triggered' = FALSE /\ RestartLater
               /\ fixing' = IF triggered /\ page = "running" THEN Append(fixing, chunks)
                                                             ELSE fixing
    /\ UNCHANGED <<page, recorder, live, resetting, recovering, upload, history, faults>>

(* The last chunk and onstop.  An empty clip is not uploaded; the clip is  *)
(* what the buffer holds, and it is repaired before it is uploaded.        *)
Stopped ==
    /\ stops # <<>>
    /\ stops' = Tail(stops)
    /\ LET chunks == buffer \union Head(stops) IN
       /\ buffer' = chunks
       /\ IF restarting THEN UNCHANGED <<triggered, fixing, restarting, restarts>>
          ELSE \/ /\ triggered /\ page = "running"
                  /\ triggered' = FALSE /\ fixing' = Append(fixing, chunks)
                  /\ UNCHANGED <<restarting, restarts>>
               \/ /\ triggered /\ page = "running" => chunks = {}
                  /\ triggered' = (triggered /\ page # "running")
                  /\ RestartLater /\ UNCHANGED fixing
    /\ UNCHANGED <<page, recorder, live, resetting, recovering, upload, history, faults>>

(* The restart timer.  start() throws when the camera is lost.             *)
Restart ==
    /\ restarts > 0 /\ DelayOver
    /\ restarts' = restarts - 1
    /\ restarting' = FALSE
    /\ recorder' = IF page = "running" /\ recorder = "inactive" /\ live
                   THEN "recording" ELSE recorder
    /\ UNCHANGED <<page, live, stops, resetting, recovering, triggered, buffer, fixing,
                   upload, history, faults>>

(* A chunk leaves the window of twenty seconds.                            *)
Slide(v) ==
    /\ v \in buffer
    /\ buffer' = buffer \ {v}
    /\ UNCHANGED <<page, media, restarting, triggered, fixing, upload, history, faults>>

(* Mutant: no reset during an upload.                                      *)
ResetUnlessUploading ==
    /\ page = "running" /\ ~restarting /\ upload.phase = "idle" /\ fixing = <<>>
    /\ ~resetting /\ recovering < MaxPending
    /\ recorder = "recording" => Roomy
    /\ restarting' = TRUE /\ resetting' = TRUE
    /\ stops' = StopEvent({})
    /\ recorder' = IF recorder = "recording" THEN "inactive" ELSE recorder
    /\ UNCHANGED <<page, live, restarts, recovering, triggered, buffer, fixing, upload,
                   history, faults>>

(* _performPeriodicReset, every thirty minutes, up to its await ...        *)
PeriodicReset ==
    /\ page = "running" /\ ~restarting
    /\ ~resetting                     \* which takes half a second
    /\ recovering < MaxPending        \* bound
    /\ recorder = "recording" => Roomy
    /\ restarting' = TRUE /\ resetting' = TRUE
    /\ stops' = StopEvent({})
    /\ recorder' = IF recorder = "recording" THEN "inactive" ELSE recorder
    /\ UNCHANGED <<page, live, restarts, recovering, triggered, buffer, fixing, upload,
                   history, faults>>

\* _createRecorder and start(); a running recorder is stopped.
Recreate ==
    /\ stops' = StopEvent({})
    /\ recorder' = IF live THEN "recording" ELSE "inactive"

(* ... and after it.  A failure is handed to the recovery.                 *)
ResetWakes ==
    /\ resetting /\ DelayOver
    /\ resetting' = FALSE /\ restarting' = FALSE
    /\ IF page = "running" THEN Recreate ELSE UNCHANGED <<stops, recorder>>
    /\ recovering' = IF page = "running" /\ live THEN recovering ELSE recovering + 1
    /\ UNCHANGED <<page, live, restarts, triggered, buffer, fixing, upload, history, faults>>

(* _handleRecorderError after its await: where the recorder does not come  *)
(* back the buffer is cleared.                                             *)
Recovers ==
    /\ recovering > 0 /\ DelayOver
    /\ recovering' = recovering - 1
    /\ IF page = "running" THEN Recreate ELSE UNCHANGED <<stops, recorder>>
    /\ buffer' = IF page = "running" /\ live THEN buffer ELSE {}
    /\ UNCHANGED <<page, live, restarts, resetting, restarting, triggered, fixing, upload,
                   history, faults>>

-----------------------------------------------------------------------------
(* The upload: handleViolationUpload, and the rest of onstop after it.     *)

Without(s, i) == SubSeq(s, 1, i - 1) \o SubSeq(s, i + 1, Len(s))

(* The clip is repaired and the upload begins, ...                         *)
BeginUpload(i) ==
    /\ page = "running" /\ upload.phase = "idle"
    /\ upload' = [phase |-> "sending", clip |-> fixing[i], attempt |-> 1]
    /\ fixing' = Without(fixing, i)
    /\ UNCHANGED <<page, media, restarting, triggered, buffer, history, faults>>

(* ... or another one is in progress: handleViolationUpload returns true,  *)
(* and the buffer is cleared, ...                                          *)
SkipUpload(i) ==
    /\ page = "running" /\ upload.phase # "idle"
    /\ fixing' = Without(fixing, i)
    /\ buffer' = {} /\ skipped' = skipped \union buffer \union fixing[i]
    /\ RestartLater
    /\ UNCHANGED <<page, recorder, live, stops, resetting, recovering, triggered, upload,
                   received, stored, accepted, refused, faults>>

(* ... or the buffer has been cleaned up and there is no callback.         *)
NoCallback(i) ==
    /\ page # "running"
    /\ fixing' = Without(fixing, i)
    /\ UNCHANGED <<page, media, restarting, triggered, buffer, upload, history, faults>>

SendSucceeds ==
    /\ upload.phase = "sending"
    /\ received' = received \union upload.clip
    /\ upload' = Idle
    /\ buffer' = {} /\ RestartLater
    /\ UNCHANGED <<page, recorder, live, stops, resetting, recovering, triggered, fixing,
                   stored, accepted, refused, skipped, faults>>

(* An attempt fails, is timed out, or is aborted by cancelUpload.          *)
SendFails ==
    /\ upload.phase = "sending"
    /\ upload' = [phase |-> IF upload.attempt < MaxAttempts THEN "pausing" ELSE "saving",
                  clip |-> upload.clip, attempt |-> upload.attempt]
    /\ UNCHANGED <<page, media, restarting, triggered, buffer, fixing, history, faults>>

NextAttempt ==
    /\ upload.phase = "pausing"
    /\ upload' = [phase |-> "sending", clip |-> upload.clip, attempt |-> upload.attempt + 1]
    /\ UNCHANGED <<page, media, restarting, triggered, buffer, fixing, history, faults>>

(* saveFailedUpload: the clip is stored, ...                               *)
Saved ==
    /\ upload.phase = "saving"
    /\ stored' = stored \union upload.clip
    /\ upload' = Idle
    /\ buffer' = {} /\ RestartLater
    /\ UNCHANGED <<page, recorder, live, stops, resetting, recovering, triggered, fixing,
                   received, accepted, refused, skipped, faults>>

(* ... or cannot be, and the buffer is retained, ...                       *)
NotSaved ==
    /\ upload.phase = "saving"
    /\ upload' = Idle /\ refused' = refused \union upload.clip
    /\ RestartLater
    /\ UNCHANGED <<page, recorder, live, stops, resetting, recovering, triggered, buffer, fixing,
                   received, stored, accepted, skipped, faults>>

(* ... or the request fails: the promise is rejected past the try, and     *)
(* neither isUploading is reset nor the recorder started again.            *)
SaveRejected ==
    /\ upload.phase = "saving"
    /\ upload' = [phase |-> "stuck", clip |-> upload.clip, attempt |-> upload.attempt]
    /\ refused' = refused \union upload.clip
    /\ UNCHANGED <<page, media, restarting, triggered, buffer, fixing,
                   received, stored, accepted, skipped, faults>>

-----------------------------------------------------------------------------
(* The page.                                                               *)

(* Mutant: the recorder is stopped and kept.                               *)
CleanupKeepingRecorder ==
    /\ page = "running" /\ page' = "cleaned"
    /\ stops' = StopEvent({})
    /\ recorder' = IF recorder = "recording" THEN "inactive" ELSE recorder
    /\ buffer' = {}
    /\ UNCHANGED <<live, restarts, resetting, recovering, restarting, triggered, fixing, upload,
                   history, faults>>

(* cleanup, when the test is submitted.  The upload under way goes on.     *)
Cleanup ==
    /\ page = "running" /\ page' = "cleaned"
    /\ stops' = StopEvent({}) /\ recorder' = "none"
    /\ buffer' = {}
    /\ UNCHANGED <<live, restarts, resetting, recovering, restarting, triggered, fixing, upload,
                   history, faults>>

(* The page is closed or crashes, and is loaded again: the store is left.  *)
LoadPage ==
    /\ faults < MaxFaults /\ faults' = faults + 1
    /\ page # "fresh" /\ page' = "fresh"
    /\ recorder' = "none" /\ live' = TRUE
    /\ stops' = <<>> /\ restarts' = 0 /\ resetting' = FALSE /\ recovering' = 0
    /\ restarting' = FALSE /\ triggered' = FALSE
    /\ buffer' = {} /\ fixing' = <<>> /\ upload' = Idle
    /\ UNCHANGED history

-----------------------------------------------------------------------------
Step ==
    \/ Initialize \/ Cleanup \/ LoadPage
    \/ \E v \in Violations : TriggerViolationUpload(v) \/ Slide(v)
    \/ RecorderError \/ StreamEnds \/ Stopped \/ Restart
    \/ PeriodicReset \/ ResetWakes \/ Recovers
    \/ \E i \in DOMAIN fixing : BeginUpload(i) \/ SkipUpload(i) \/ NoCallback(i)
    \/ SendSucceeds \/ SendFails \/ NextAttempt
    \/ Saved \/ NotSaved \/ SaveRejected

(* What is remembered of a step, which no action looks at.                 *)

\* A clip waits for its stop event, is repaired, is uploaded, or has been given up.
ClipHandled == triggered \/ fixing # <<>> \/ upload.phase # "idle"

Observe ==
    /\ earlier' = IF page = "running" /\ page' # "running" THEN accepted ELSE earlier
    /\ maintained' = \/ resetting' \/ recovering' > 0
                     \/ maintained /\ (stops' # <<>> \/ restarts' > 0)
    /\ disturbed' = /\ page' # "fresh"
                    /\ disturbed \/ (maintained' /\ ClipHandled')

Next == Step /\ Observe

\* Events come and timers fire.  Nothing is assumed of the upload under way: its answer
\* may never come, and it may never be saved.
Fairness ==
    /\ WF_vars(Stopped /\ Observe) /\ WF_vars(Restart /\ Observe)
    /\ WF_vars(PeriodicReset /\ Observe) /\ WF_vars(ResetWakes /\ Observe)
    /\ WF_vars(Recovers /\ Observe)

Spec == Init /\ [][Next]_vars /\ Fairness

-----------------------------------------------------------------------------
(* Properties.                                                             *)

(* Types, and what page and recorder have to do with each other.           *)
TypeOK ==
    /\ page \in {"fresh", "running", "cleaned"}
    /\ recorder \in {"none", "inactive", "recording"}
    /\ (recorder = "none") = (page # "running")
    /\ live \in BOOLEAN /\ (recorder = "recording" => live)
    /\ stops \in Seq(Footage) /\ restarts \in Nat /\ recovering \in Nat
    /\ resetting \in BOOLEAN /\ restarting \in BOOLEAN /\ triggered \in BOOLEAN
    /\ buffer \in Footage /\ fixing \in Seq(Footage)
    /\ upload \in Upload
    /\ received \in Footage /\ stored \in Footage /\ accepted \in Footage
    /\ refused \in Footage /\ skipped \in Footage
    /\ faults \in 0..MaxFaults
    /\ earlier \in Footage /\ maintained \in BOOLEAN /\ disturbed \in BOOLEAN

Together(footage) == UNION {footage[i] : i \in DOMAIN footage}

Confirmed == received \union stored

\* Footage that the page still does something about; what only the buffer holds is gone
\* in twenty seconds.
OnItsWay ==
    Together(stops) \union Together(fixing)
        \union (IF upload.phase = "stuck" THEN {} ELSE upload.clip)

(* Evidence is not lost between stop event, repair, upload and store: a    *)
(* violation whose upload was triggered on this page is on its way, or     *)
(* server or store has it, or neither of them has taken it, as long as no  *)
(* reset and no error recovery has met a clip.  It rests on the recorder's *)
(* being stopped until the clip is settled, so that a second clip finds no *)
(* upload in progress (video_utils.html:519, :1000).                       *)
EvidenceKept == ~disturbed => accepted \ earlier \subseteq OnItsWay \union Confirmed \union refused

(* As long as the camera delivers and the test goes on, the recorder is    *)
(* running again and again, even where an upload never ends, the restart   *)
(* after it is lost, or the recorder fails.                                *)
RecordsAgain == []<>(recorder = "recording" \/ page # "running" \/ ~live)

(* video_utils.html:506 says: "Only clear buffer if upload/IndexedDB save  *)
(* confirmed", and :1003, where another upload is in progress: "Don't      *)
(* clear buffer in this case".                                             *)
ClearedOnlyIfConfirmed == skipped \subseteq Confirmed \union upload.clip
=============================================================================
