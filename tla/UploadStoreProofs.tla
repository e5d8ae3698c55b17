-------------------------- MODULE UploadStoreProofs --------------------------
(* Proofs about UploadStore: its types, and that no clip leaves the store     *)
(* before the server has it.                                                  *)
EXTENDS UploadStore, WellFoundedInduction, TLAPS

LEMMA LeastRecord ==
    ASSUME NEW S \in SUBSET Record, S # {}
    PROVE  \E r \in S : \A q \in S : r.id <= q.id
<1> DEFINE Keys == {r.id : r \in S}
<1>1. Keys \subseteq Nat /\ Keys # {}
  BY DEF Record
<1>2. \E n \in Keys : \A k \in Keys : ~(<<k, n>> \in OpToRel(<, Nat))
  BY <1>1, NatLessThanWellFounded, WFMin
<1>3. PICK n \in Keys : \A k \in Keys : ~(<<k, n>> \in OpToRel(<, Nat))
  BY <1>2
<1>4. \A k, m \in Nat : k < m => <<k, m>> \in OpToRel(<, Nat)
  BY Zenon DEF OpToRel
<1>5. \A k \in Keys : ~(k < n)
  BY <1>1, <1>3, <1>4, Zenon
<1>6. \A k \in Keys : n <= k
  BY <1>1, <1>5
<1> QED BY <1>6

LEMMA CurrentIsToDo ==
    ASSUME TypeOK, NEW w \in Runs, run[w].todo # {}
    PROVE  Current(w) \in run[w].todo /\ Current(w) \in Record
<1>1. run[w].todo \in SUBSET Record
  BY DEF TypeOK
<1>2. \E r \in run[w].todo : \A q \in run[w].todo : r.id <= q.id
  BY <1>1, LeastRecord
<1> QED BY <1>1, <1>2 DEF Current

-----------------------------------------------------------------------------
(* Types.                                                                    *)

RunTyped == /\ run' \in [Runs -> [phase : {"retrying", "arrived"}, todo : SUBSET Record]]
            /\ \A w \in Runs : run'[w].phase = "arrived" => run'[w].todo # {}

LEMMA ProceedTyped == ASSUME TypeOK, NEW w \in Runs, Proceed(w) PROVE RunTyped
BY DEF TypeOK, Proceed, RunTyped

LEMMA UpdateTyped ==
    ASSUME TypeOK, NEW n \in Nat, NEW s \in {"pending", "abandoned"}, UpdateUploadStatus(n, s)
    PROVE  /\ stored' \subseteq Record
           /\ \A r \in stored' : r.id <= lastId /\ \A q \in stored' : q.id = r.id => q = r
           /\ \A r \in stored : \E q \in stored' : q.id = r.id
           /\ \A q \in stored' : \E r \in stored : r.id = q.id /\ r.clip = q.clip
<1> DEFINE New(r) == IF r.id = n
                     THEN [id |-> r.id, clip |-> r.clip, retries |-> r.retries + 1, status |-> s]
                     ELSE r
<1>1. stored' = {New(r) : r \in stored}
  BY DEF UpdateUploadStatus
<1>2. \A r \in stored : New(r) \in Record /\ New(r).id = r.id /\ New(r).clip = r.clip
  BY DEF TypeOK, Record
<1>3. \A r \in stored : r.id <= lastId /\ \A q \in stored : q.id = r.id => q = r
  BY DEF TypeOK
<1> HIDE DEF New
<1> QED BY <1>1, <1>2, <1>3

LEMMA NoRunTyped ==
    /\ NoRun \in [phase : {"retrying", "arrived"}, todo : SUBSET Record]
    /\ NoRun.phase = "retrying"
BY DEF NoRun

RunOf(f) == /\ f \in [Runs -> [phase : {"retrying", "arrived"}, todo : SUBSET Record]]
            /\ \A w \in Runs : f[w].phase = "arrived" => f[w].todo # {}

LEMMA NoRunsTyped == RunOf([w \in Runs |-> NoRun])
<1>1. [w \in Runs |-> NoRun] \in [Runs -> [phase : {"retrying", "arrived"}, todo : SUBSET Record]]
  BY NoRunTyped
<1>2. \A w \in Runs : [v \in Runs |-> NoRun][w].phase = "retrying"
  BY NoRunTyped
<1> QED BY <1>1, <1>2 DEF RunOf

LEMMA TypeInit == Init => TypeOK
<1> SUFFICES ASSUME Init PROVE TypeOK
  OBVIOUS
<1>1. RunOf(run)
  BY NoRunsTyped DEF Init
<1>2. /\ isAvailable \in BOOLEAN /\ started \in BOOLEAN /\ worker \in BOOLEAN
      /\ stored = {} /\ lastId \in Nat /\ received = {}
  BY DEF Init
<1>3. loads \in 0..MaxLoads /\ errors \in 0..MaxErrors
  BY ConstantsAssumption DEF Init
<1> QED BY <1>1, <1>2, <1>3 DEF RunOf, TypeOK

LEMMA TypeNext == TypeOK /\ [Next]_vars => TypeOK'
<1> SUFFICES ASSUME TypeOK, [Next]_vars PROVE TypeOK'
  OBVIOUS
<1> USE ConstantsAssumption
<1>1. CASE InitDB
  BY <1>1 DEF InitDB, TypeOK
<1>2. CASE StartRetryWorker
  BY <1>2 DEF StartRetryWorker, TypeOK
<1>3. CASE StopRetryWorker
  BY <1>3 DEF StopRetryWorker, TypeOK
<1>4. CASE LoadPage
  <2>1. RunOf(run')
    BY <1>4, NoRunsTyped DEF LoadPage
  <2>2. /\ isAvailable' \in BOOLEAN /\ started' \in BOOLEAN /\ worker' \in BOOLEAN
        /\ stored' = stored /\ lastId' = lastId /\ received' = received
    BY <1>4 DEF LoadPage
  <2>3. loads' \in 0..MaxLoads /\ errors' = errors
    BY <1>4 DEF LoadPage, TypeOK
  <2> QED BY <2>1, <2>2, <2>3 DEF RunOf, TypeOK
<1>5. ASSUME NEW c \in Clips, SaveFailedUpload(c) PROVE TypeOK'
  <2> DEFINE new == [id |-> lastId + 1, clip |-> c, retries |-> 0, status |-> "pending"]
  <2>1. stored' = stored \union {new} /\ lastId' = lastId + 1
    BY <1>5 DEF SaveFailedUpload
  <2>2. lastId \in Nat /\ new \in Record /\ new.id = lastId + 1
    BY DEF TypeOK, Record
  <2>3. stored' \subseteq Record /\ lastId' \in Nat
    BY <2>1, <2>2 DEF TypeOK
  <2>4. \A r \in stored : r.id \in Nat /\ r.id <= lastId
    BY DEF TypeOK, Record
  <2>5. \A r \in stored' : r.id <= lastId' /\ \A q \in stored' : q.id = r.id => q = r
    <3>1. \A r \in stored : \A q \in stored : q.id = r.id => q = r
      BY DEF TypeOK
    <3> HIDE DEF new
    <3> QED BY <2>1, <2>2, <2>4, <3>1
  <2> QED BY <1>5, <2>3, <2>5 DEF SaveFailedUpload, TypeOK
<1>6. ASSUME NEW w \in Runs, Tick(w) PROVE TypeOK'
  <2>1. Pending \in SUBSET Record
    BY DEF Pending, TypeOK
  <2> QED BY <1>6, <2>1 DEF Tick, TypeOK
<1>7. ASSUME NEW w \in Runs, Abandon(w) PROVE TypeOK'
  <2>1. Current(w).id \in Nat
    BY <1>7, CurrentIsToDo DEF Abandon, Retrying, Record
  <2>2. RunTyped
    BY <1>7, ProceedTyped DEF Abandon
  <2>3. UpdateUploadStatus(Current(w).id, "abandoned")
    BY <1>7 DEF Abandon
  <2>4. /\ stored' \subseteq Record
        /\ \A r \in stored' : r.id <= lastId /\ \A q \in stored' : q.id = r.id => q = r
    BY <2>1, <2>3, UpdateTyped
  <2> QED BY <1>7, <2>2, <2>4 DEF Abandon, TypeOK, RunTyped
<1>8. ASSUME NEW w \in Runs, UploadArrives(w) PROVE TypeOK'
  <2>1. Current(w).clip \in Clips
    BY <1>8, CurrentIsToDo DEF UploadArrives, Retrying, Record
  <2> QED BY <1>8, <2>1 DEF UploadArrives, Retrying, TypeOK
<1>9. ASSUME NEW w \in Runs, DeleteUpload(w) PROVE TypeOK'
  <2>1. RunTyped
    BY <1>9, ProceedTyped DEF DeleteUpload
  <2> QED BY <1>9, <2>1 DEF DeleteUpload, TypeOK, RunTyped
<1>10. ASSUME NEW w \in Runs, UploadFails(w) PROVE TypeOK'
  <2>1. Current(w).id \in Nat
    BY <1>10, CurrentIsToDo DEF UploadFails, Retrying, Record, TypeOK
  <2>2. RunTyped
    BY <1>10, ProceedTyped DEF UploadFails
  <2>3. UpdateUploadStatus(Current(w).id, "pending")
    BY <1>10 DEF UploadFails
  <2>4. /\ stored' \subseteq Record
        /\ \A r \in stored' : r.id <= lastId /\ \A q \in stored' : q.id = r.id => q = r
    BY <2>1, <2>3, UpdateTyped
  <2> QED BY <1>10, <2>2, <2>4 DEF UploadFails, TypeOK, RunTyped
<1>11. CASE NotRead
  BY <1>11 DEF NotRead, StoreFails, TypeOK
<1>12. ASSUME NEW w \in Runs, NotUpdated(w) \/ NotDeleted(w) PROVE TypeOK'
  <2>1. RunTyped
    BY <1>12, ProceedTyped DEF NotUpdated, NotDeleted
  <2>2. /\ UNCHANGED <<isAvailable, started, worker, stored, lastId, received, loads>>
        /\ errors < MaxErrors /\ errors' = errors + 1
    BY <1>12 DEF NotUpdated, NotDeleted, StoreFails
  <2> QED BY <2>1, <2>2 DEF TypeOK, RunTyped
<1>13. CASE UNCHANGED vars
  BY <1>13 DEF vars, TypeOK
<1> QED
  BY <1>1, <1>2, <1>3, <1>4, <1>5, <1>6, <1>7, <1>8, <1>9, <1>10, <1>11, <1>12, <1>13 DEF Next

(* The types of UploadStore hold for all numbers of clips, runs and retries. *)
THEOREM TypeCorrect == Spec => []TypeOK
<1> QED BY TypeInit, TypeNext, PTL DEF Spec

-----------------------------------------------------------------------------
(* What a run has read may be old, but the key of a record stays with its    *)
(* clip; and a run that is about to delete a record knows that its clip has  *)
(* arrived.                                                                  *)
KeysKept ==
    \A w \in Runs : \A q \in run[w].todo :
        q.id <= lastId /\ \A r \in stored : r.id = q.id => r.clip = q.clip

Arrived == \A w \in Runs : run[w].phase = "arrived" => Current(w).clip \in received

StoreInv == TypeOK /\ KeysKept /\ Arrived

LEMMA KeysNext == TypeOK /\ KeysKept /\ [Next]_vars => KeysKept'
<1> SUFFICES ASSUME TypeOK, KeysKept, [Next]_vars PROVE KeysKept'
  OBVIOUS
<1>1. CASE UNCHANGED <<stored, lastId, run>>
  BY <1>1 DEF KeysKept
<1>2. CASE LoadPage
  BY <1>2 DEF LoadPage, KeysKept, NoRun
<1>3. ASSUME NEW c \in Clips, SaveFailedUpload(c) PROVE KeysKept'
  <2>1. /\ lastId \in Nat /\ lastId' = lastId + 1 /\ run' = run
        /\ \A r \in stored' : r \in stored \/ r.id = lastId + 1
    BY <1>3 DEF SaveFailedUpload, TypeOK
  <2>2. \A w \in Runs : \A q \in run[w].todo : q.id \in Nat
    BY DEF TypeOK, Record
  <2> QED BY <2>1, <2>2 DEF KeysKept
<1>4. ASSUME NEW w \in Runs, Tick(w) PROVE KeysKept'
  <2>1. \A v \in Runs : run'[v].todo \subseteq run[v].todo \/ run'[v].todo = Pending
    BY <1>4 DEF Tick, TypeOK
  <2>2. \A q \in Pending : q.id <= lastId /\ \A r \in stored : r.id = q.id => r = q
    BY DEF Pending, TypeOK
  <2>3. stored' = stored /\ lastId' = lastId
    BY <1>4 DEF Tick
  <2> QED BY <2>1, <2>2, <2>3 DEF KeysKept
<1>5. ASSUME NEW w \in Runs, \/ Abandon(w) \/ UploadArrives(w) \/ DeleteUpload(w)
                              \/ UploadFails(w) \/ NotUpdated(w) \/ NotDeleted(w)
      PROVE  KeysKept'
  <2>1. \A v \in Runs : run'[v].todo \subseteq run[v].todo
    BY <1>5 DEF Abandon, UploadArrives, DeleteUpload, UploadFails, NotUpdated, NotDeleted, Proceed, TypeOK
  <2>2. lastId' = lastId
    BY <1>5 DEF Abandon, UploadArrives, DeleteUpload, UploadFails, NotUpdated, NotDeleted
  <2>3. \A q \in stored' : \E r \in stored : r.id = q.id /\ r.clip = q.clip
    <3>1. CASE Abandon(w)
      <4>1. Current(w).id \in Nat /\ UpdateUploadStatus(Current(w).id, "abandoned")
        BY <3>1, CurrentIsToDo DEF Abandon, Retrying, Record
      <4> QED BY <4>1, UpdateTyped
    <3>2. CASE UploadFails(w)
      <4>1. Current(w).id \in Nat /\ UpdateUploadStatus(Current(w).id, "pending")
        BY <3>2, CurrentIsToDo DEF UploadFails, Retrying, Record, TypeOK
      <4> QED BY <4>1, UpdateTyped
    <3>3. CASE UploadArrives(w) \/ DeleteUpload(w) \/ NotUpdated(w) \/ NotDeleted(w)
      BY <3>3 DEF UploadArrives, DeleteUpload, NotUpdated, NotDeleted
    <3> QED BY <1>5, <3>1, <3>2, <3>3
  <2> QED BY <2>1, <2>2, <2>3 DEF KeysKept
<1> QED
  BY <1>1, <1>2, <1>3, <1>4, <1>5
  DEF Next, vars, InitDB, StartRetryWorker, StopRetryWorker, NotRead

LEMMA CurrentKept ==
    ASSUME NEW w \in Runs, run'[w].todo = run[w].todo
    PROVE  Current(w)' = Current(w)
BY DEF Current

LEMMA ArrivedNext == TypeOK /\ Arrived /\ [Next]_vars => Arrived'
<1> SUFFICES ASSUME TypeOK, Arrived, [Next]_vars,
                    NEW w \in Runs, run'[w].phase = "arrived"
             PROVE  Current(w)'.clip \in received'
  BY DEF Arrived
<1>1. received \subseteq received'
  BY DEF Next, vars, InitDB, StartRetryWorker, StopRetryWorker, LoadPage, SaveFailedUpload,
         Tick, Abandon, UploadArrives, DeleteUpload, UploadFails, NotRead, NotUpdated, NotDeleted
<1>2. CASE run'[w] = run[w]
  <2>1. Current(w)' = Current(w)
    BY <1>2, CurrentKept
  <2> QED BY <1>1, <1>2, <2>1 DEF Arrived
<1>3. CASE UploadArrives(w)
  <2>1. run'[w].todo = run[w].todo /\ Current(w).clip \in received'
    BY <1>3 DEF UploadArrives, TypeOK
  <2>2. Current(w)' = Current(w)
    BY <2>1, CurrentKept
  <2> QED BY <2>1, <2>2
<1>4. ASSUME NEW v \in Runs, v # w,
             \/ Tick(v) \/ Abandon(v) \/ UploadArrives(v) \/ DeleteUpload(v) \/ UploadFails(v)
             \/ NotUpdated(v) \/ NotDeleted(v)
      PROVE  run'[w] = run[w]
  BY <1>4 DEF Tick, Abandon, UploadArrives, DeleteUpload, UploadFails, NotUpdated, NotDeleted,
              Proceed, TypeOK
<1>5. CASE \/ Tick(w) \/ Abandon(w) \/ DeleteUpload(w) \/ UploadFails(w)
           \/ NotUpdated(w) \/ NotDeleted(w)
  BY <1>5 DEF Tick, Abandon, DeleteUpload, UploadFails, NotUpdated, NotDeleted, Proceed, TypeOK
<1>6. CASE LoadPage
  BY <1>6 DEF LoadPage, NoRun
<1>7. CASE UNCHANGED run
  BY <1>2, <1>7
<1> QED
  BY <1>2, <1>3, <1>4, <1>5, <1>6, <1>7
  DEF Next, vars, InitDB, StartRetryWorker, StopRetryWorker, SaveFailedUpload, NotRead

LEMMA StoreInvInit == Init => StoreInv
BY TypeInit DEF Init, StoreInv, KeysKept, Arrived, NoRun

LEMMA StoreInvNext == StoreInv /\ [Next]_vars => StoreInv'
BY TypeNext, KeysNext, ArrivedNext DEF StoreInv

LEMMA KeptNext ==
    StoreInv /\ [Next]_vars =>
        [\A r \in stored : (\A q \in stored' : q.id # r.id) => r.clip \in received']_vars
<1> SUFFICES ASSUME StoreInv, [Next]_vars,
                    NEW r \in stored, \A q \in stored' : q.id # r.id
             PROVE  r.clip \in received'
  OBVIOUS
<1>1. CASE stored \subseteq stored'
  BY <1>1
<1>2. ASSUME NEW w \in Runs, Abandon(w) PROVE FALSE
  <2>1. Current(w).id \in Nat /\ UpdateUploadStatus(Current(w).id, "abandoned")
    BY <1>2, CurrentIsToDo DEF Abandon, Retrying, Record, StoreInv
  <2> QED BY <2>1, UpdateTyped DEF StoreInv
<1>3. ASSUME NEW w \in Runs, UploadFails(w) PROVE FALSE
  <2>1. Current(w).id \in Nat /\ UpdateUploadStatus(Current(w).id, "pending")
    BY <1>3, CurrentIsToDo DEF UploadFails, Retrying, Record, StoreInv, TypeOK
  <2> QED BY <2>1, UpdateTyped DEF StoreInv
<1>4. ASSUME NEW w \in Runs, DeleteUpload(w) PROVE r.clip \in received'
  <2>1. Current(w) \in run[w].todo /\ Current(w).clip \in received
    BY <1>4, CurrentIsToDo DEF DeleteUpload, StoreInv, TypeOK, Arrived
  <2>2. r.id = Current(w).id
    BY <1>4 DEF DeleteUpload
  <2>3. r.clip = Current(w).clip
    BY <2>1, <2>2 DEF StoreInv, KeysKept
  <2> QED BY <1>4, <2>1, <2>3 DEF DeleteUpload
<1> QED
  BY <1>1, <1>2, <1>3, <1>4
  DEF Next, vars, InitDB, StartRetryWorker, StopRetryWorker, LoadPage, SaveFailedUpload,
      Tick, UploadArrives, NotRead, NotUpdated, NotDeleted

(* No clip leaves the store before the server has it.                        *)
THEOREM NothingDeletedEarly == Spec => KeptUntilUploaded
<1>1. Spec => []StoreInv
  BY StoreInvInit, StoreInvNext, PTL DEF Spec
<1> QED BY <1>1, KeptNext, PTL DEF Spec, KeptUntilUploaded
=============================================================================
