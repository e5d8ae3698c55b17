---------------------------- MODULE UploadStore ----------------------------
(***************************************************************************)
(* The store of clips that could not be uploaded, and the worker that      *)
(* tries again: HPEUploadPersistence in                                    *)
(* src/templates/hpe_admin/proctor/video_utils.html.  The worker is an     *)
(* interval whose callback awaits its uploads, so that runs of it can      *)
(* overlap; what a run retries it has read when it began.  Each access to  *)
(* IndexedDB is a step of its own.  The store outlives the page.           *)
(***************************************************************************)
EXTENDS Integers

CONSTANTS Clips,
          MaxRetries,  \* maxRetries
          Runs,        \* bound: runs of the worker at a time
          MaxLoads,    \* bound: how often the page is loaded again
          MaxErrors    \* bound: requests to IndexedDB that end in onerror

ASSUME ConstantsAssumption ==
    MaxRetries \in Nat /\ MaxLoads \in Nat /\ MaxErrors \in Nat

Record == [id : Nat, clip : Clips, retries : Nat, status : {"pending", "abandoned"}]
NoRun == [phase |-> "retrying", todo |-> {}]

VARIABLES
    isAvailable,  \* IndexedDB is open
    started,      \* the page has called initialize
    worker,       \* _retryWorker, the interval, is set
    stored,       \* the records
    lastId,       \* the key of the record added last
    run,          \* each run of the worker: what it does, and the records it has yet to do
    received,     \* history: clips the server has
    loads,        \* page loads so far
    errors        \* requests to IndexedDB that have failed so far

vars == <<isAvailable, started, worker, stored, lastId, run, received, loads, errors>>

Init ==
    /\ isAvailable = FALSE /\ started = FALSE /\ worker = FALSE
    /\ stored = {} /\ lastId = 0
    /\ run = [w \in Runs |-> NoRun]
    /\ received = {} /\ loads = 0 /\ errors = 0

-----------------------------------------------------------------------------
(* onsuccess of indexedDB.open.                                            *)
InitDB ==
    /\ ~isAvailable /\ isAvailable' = TRUE
    /\ UNCHANGED <<started, worker, stored, lastId, run, received, loads, errors>>

(* initialize of the manager starts the worker if the database is open by  *)
(* now; it is not called again.                                            *)
StartRetryWorker ==
    /\ ~started /\ started' = TRUE
    /\ worker' = isAvailable
    /\ UNCHANGED <<isAvailable, stored, lastId, run, received, loads, errors>>

(* cleanup; a run that is under way goes on.                               *)
StopRetryWorker ==
    /\ worker /\ worker' = FALSE
    /\ UNCHANGED <<isAvailable, started, stored, lastId, run, received, loads, errors>>

(* saveFailedUpload.                                                       *)
SaveFailedUpload(c) ==
    /\ isAvailable
    /\ c \notin received /\ \A r \in stored : r.clip # c
    /\ lastId' = lastId + 1
    /\ stored' = stored \union
                   {[id |-> lastId', clip |-> c, retries |-> 0, status |-> "pending"]}
    /\ UNCHANGED <<isAvailable, started, worker, run, received, loads, errors>>

-----------------------------------------------------------------------------
(* The worker.                                                             *)

\* getPendingUploads.
Pending == {r \in stored : r.status = "pending"}

\* The record a run has come to; getAll returns them by key.
Current(w) == CHOOSE r \in run[w].todo : \A q \in run[w].todo : r.id <= q.id

Retrying(w) == run[w].phase = "retrying" /\ run[w].todo # {}

\* The run goes on to the next record.
Proceed(w) ==
    run' = [run EXCEPT ![w] = [phase |-> "retrying", todo |-> run[w].todo \ {Current(w)}]]

\* Mutant: the retry is not counted.
UpdateStatusOnly(n, status) ==
    stored' = {IF r.id = n
               THEN [id |-> r.id, clip |-> r.clip, retries |-> r.retries, status |-> status]
               ELSE r : r \in stored}

\* updateUploadStatus: of a record that is still there.
UpdateUploadStatus(n, status) ==
    stored' = {IF r.id = n
               THEN [id |-> r.id, clip |-> r.clip, retries |-> r.retries + 1, status |-> status]
               ELSE r : r \in stored}

(* The interval is due; an earlier run may not have ended.                 *)
Tick(w) ==
    /\ worker /\ isAvailable
    /\ run[w] = NoRun /\ Pending # {}
    /\ run' = [run EXCEPT ![w] = [phase |-> "retrying", todo |-> Pending]]
    /\ UNCHANGED <<isAvailable, started, worker, stored, lastId, received, loads, errors>>

(* The record was retried often enough when the run began.                 *)
Abandon(w) ==
    /\ Retrying(w) /\ Current(w).retries >= MaxRetries
    /\ UpdateUploadStatus(Current(w).id, "abandoned") /\ Proceed(w)
    /\ UNCHANGED <<isAvailable, started, worker, lastId, received, loads, errors>>

(* The upload of the current record has arrived, ...                       *)
UploadArrives(w) ==
    /\ Retrying(w) /\ Current(w).retries < MaxRetries
    /\ received' = received \union {Current(w).clip}
    /\ run' = [run EXCEPT ![w] = [phase |-> "arrived", todo |-> run[w].todo]]
    /\ UNCHANGED <<isAvailable, started, worker, stored, lastId, loads, errors>>

(* ... the page learns of it and deletes the record, ...                   *)
DeleteUpload(w) ==
    /\ run[w].phase = "arrived"
    /\ stored' = {r \in stored : r.id # Current(w).id} /\ Proceed(w)
    /\ UNCHANGED <<isAvailable, started, worker, lastId, received, loads, errors>>

(* Mutant: a record is deleted whatever has become of its upload.          *)
UploadFailsAndIsDeleted(w) ==
    /\ \/ Retrying(w) /\ Current(w).retries < MaxRetries
       \/ run[w].phase = "arrived"
    /\ stored' = {r \in stored : r.id # Current(w).id} /\ Proceed(w)
    /\ UNCHANGED <<isAvailable, started, worker, lastId, received, loads, errors>>

(* ... or the answer is lost, or the upload has failed altogether.         *)
UploadFails(w) ==
    /\ \/ Retrying(w) /\ Current(w).retries < MaxRetries
       \/ run[w].phase = "arrived"
    /\ UpdateUploadStatus(Current(w).id, "pending") /\ Proceed(w)
    /\ UNCHANGED <<isAvailable, started, worker, lastId, received, loads, errors>>

\* A request to IndexedDB ends in onerror.
StoreFails == errors < MaxErrors /\ errors' = errors + 1

(* getPendingUploads resolves to [], and this run has nothing to do.       *)
NotRead ==
    /\ worker /\ isAvailable /\ Pending # {} /\ StoreFails
    /\ UNCHANGED <<isAvailable, started, worker, stored, lastId, run, received, loads>>

(* updateUploadStatus resolves to false, to which the run does not look:   *)
(* the retry is not counted, or the record not given up.                   *)
NotUpdated(w) ==
    /\ Retrying(w) \/ run[w].phase = "arrived"
    /\ StoreFails /\ Proceed(w)
    /\ UNCHANGED <<isAvailable, started, worker, stored, lastId, received, loads>>

(* deleteUpload resolves to false: the record stays, and is retried.       *)
NotDeleted(w) ==
    /\ run[w].phase = "arrived"
    /\ StoreFails /\ Proceed(w)
    /\ UNCHANGED <<isAvailable, started, worker, stored, lastId, received, loads>>

(* The page is closed or crashes and is loaded again.                      *)
LoadPage ==
    /\ started /\ loads < MaxLoads /\ loads' = loads + 1
    /\ isAvailable' = FALSE /\ started' = FALSE /\ worker' = FALSE
    /\ run' = [w \in Runs |-> NoRun]
    /\ UNCHANGED <<stored, lastId, received, errors>>

-----------------------------------------------------------------------------
Next ==
    \/ InitDB \/ StartRetryWorker \/ StopRetryWorker \/ LoadPage \/ NotRead
    \/ \E c \in Clips : SaveFailedUpload(c)
    \/ \E w \in Runs : \/ Tick(w) \/ Abandon(w)
                       \/ UploadArrives(w) \/ DeleteUpload(w) \/ UploadFails(w)
                       \/ NotUpdated(w) \/ NotDeleted(w)

\* The interval is due again and again while it is set, and an upload ends.
Fairness ==
    \A w \in Runs : /\ WF_vars(Tick(w)) /\ WF_vars(Abandon(w))
                    /\ WF_vars(UploadArrives(w) \/ UploadFails(w) \/ DeleteUpload(w))

Spec == Init /\ [][Next]_vars /\ Fairness

-----------------------------------------------------------------------------
(* Properties.                                                             *)

(* Types; keys are unique.                                                 *)
TypeOK ==
    /\ isAvailable \in BOOLEAN /\ started \in BOOLEAN /\ worker \in BOOLEAN
    /\ stored \subseteq Record /\ lastId \in Nat
    /\ \A r \in stored : r.id <= lastId /\ \A q \in stored : q.id = r.id => q = r
    /\ run \in [Runs -> [phase : {"retrying", "arrived"}, todo : SUBSET Record]]
    /\ \A w \in Runs : run[w].phase = "arrived" => run[w].todo # {}
    /\ received \subseteq Clips /\ loads \in 0..MaxLoads /\ errors \in 0..MaxErrors

(* A clip leaves the store only when the server has it, however the runs   *)
(* of the worker overlap and whenever the page is closed.                  *)
KeptUntilUploaded ==
    [][\A r \in stored : (\A q \in stored' : q.id # r.id) => r.clip \in received']_vars

(* A clip in the store is uploaded or given up in the end, as long as the  *)
(* worker runs: also where runs that overlap set it back to pending.       *)
IsPending(c) == \E r \in Pending : r.clip = c
RetriesEnd == \A c \in Clips : IsPending(c) /\ worker ~> ~worker \/ []~IsPending(c)
=============================================================================
