--------------------------- MODULE JudgeListProofs ---------------------------
(***************************************************************************)
(* What holds of the scheduler for every set of judges, submissions,       *)
(* priorities, tiers and problem lists: the types always; that a           *)
(* submission is queued once as long as nothing raises; the tiers and the  *)
(* service of idle judges if moreover no judge is disabled (Quiet); that   *)
(* submission_map and _working agree, and the implementation of            *)
(* GradingService, if also no judge announces other problems (Base); and   *)
(* that no judge is idle beside work, if also all judges have the same     *)
(* problems (Alike).                                                       *)
(***************************************************************************)
EXTENDS JudgeList, FiniteSetTheorems, TLAPS

USE DEF admin

NothingRaises == Environment \cap {"send_error", "db_error", "vanish"} = {}
Quiet == Environment \subseteq {"rejudge", "reload"}
Base == Environment \subseteq {"rejudge"}

\* A submission waits iff it is at some place of the queue.
LEMMA QueuedAt ==
    ASSUME NEW s
    PROVE  s \in Queued <=> \E p \in Priority : \E i \in DOMAIN queue[p] : queue[p][i] = s
BY DEF Queued, Elements

LEMMA QueuedAtNext ==
    ASSUME NEW s
    PROVE  s \in Queued' <=> \E p \in Priority : \E i \in DOMAIN queue'[p] : queue'[p][i] = s
BY DEF Queued, Elements

\* The place in q of what is at place k of Without(q, i).
Place(i, k) == IF k < i THEN k ELSE k + 1

\* queue.remove takes out one place and keeps the order of the others.
LEMMA WithoutKeeps ==
    ASSUME NEW S, NEW q \in Seq(S), NEW i \in DOMAIN q
    PROVE  /\ Without(q, i) \in Seq(S)
           /\ \A k \in DOMAIN Without(q, i) :
                 /\ Place(i, k) \in DOMAIN q \ {i}
                 /\ Without(q, i)[k] = q[Place(i, k)]
           /\ \A k, l \in DOMAIN Without(q, i) : Place(i, k) = Place(i, l) => k = l
           /\ \A m \in DOMAIN q \ {i} :
                 \E k \in DOMAIN Without(q, i) : Place(i, k) = m
<1> DEFINE n == Len(q) - 1
<1>1. Len(q) \in Nat /\ DOMAIN q = 1 .. Len(q) /\ i \in 1 .. Len(q)
  OBVIOUS
<1>2. n \in Nat
  BY <1>1
<1>3. DOMAIN Without(q, i) = 1 .. n
  BY DEF Without
<1>4. ASSUME NEW k \in 1 .. n
      PROVE  /\ Place(i, k) \in DOMAIN q \ {i}
             /\ Without(q, i)[k] = q[Place(i, k)]
             /\ Without(q, i)[k] \in S
  <2>1. Place(i, k) \in 1 .. Len(q) /\ Place(i, k) # i
    BY <1>1 DEF Place
  <2>2. Without(q, i)[k] = q[Place(i, k)]
    BY DEF Without, Place
  <2>3. \A x \in 1 .. Len(q) : q[x] \in S
    OBVIOUS
  <2> QED BY <1>1, <2>1, <2>2, <2>3
<1>5. Without(q, i) \in Seq(S)
  <2>1. Without(q, i) = [k \in 1 .. n |-> Without(q, i)[k]]
    BY DEF Without
  <2> QED BY <1>2, <1>4, <2>1
<1>6. \A k, l \in 1 .. n : Place(i, k) = Place(i, l) => k = l
  BY <1>1 DEF Place
<1>7. ASSUME NEW m \in DOMAIN q \ {i}
      PROVE  \E k \in 1 .. n : Place(i, k) = m
  <2>1. CASE m < i
    BY <1>1, <2>1 DEF Place
  <2>2. CASE m > i
    <3>1. m - 1 \in 1 .. n /\ Place(i, m - 1) = m
      BY <1>1, <2>2 DEF Place
    <3> QED BY <3>1
  <2> QED BY <1>1, <2>1, <2>2
<1> QED BY <1>3, <1>4, <1>5, <1>6, <1>7

\* The submission s of place i of priority p is taken from the queue and given
\* to the judge j.
Given(j, s, p, i) ==
    /\ s = queue[p][i]
    /\ queue' = [queue EXCEPT ![p] = Without(queue[p], i)]
    /\ pin' = [pin EXCEPT ![s] = NoPin]
    /\ submission_map' = Put(submission_map, s, j)
    /\ working' = [working EXCEPT ![j] = s]
    /\ sent' = IF phase[j] # "closing" THEN [sent EXCEPT ![j] = @ \cup {s}] ELSE sent
    /\ judges' = judges

NothingGiven == UNCHANGED <<judges, queue, pin, submission_map, working, sent>>

LEMMA NoRaise ==
    ASSUME NothingRaises
    PROVE  \A j : Outcomes(j) = {"ok"}
BY DEF NothingRaises, Outcomes

\* When nothing raises, _handle_free_judge gives the judge a submission of the
\* queue or does nothing.
LEMMA ServeAny ==
    ASSUME NothingRaises, TypeOK, NEW j \in Judge, HandleFreeJudge(j)
    PROVE  \/ NothingGiven
           \/ \E p \in Priority : \E i \in DOMAIN queue[p] : Given(j, queue[p][i], p, i)
<1>1. Outcomes(j) = {"ok"}
  BY NoRaise
<1>2. CASE TierServed(j) /\ Deliverable(j) # {}
  <2>1. PICK n \in Deliverable(j) :
              /\ Submit(j, queue[n[1]][n[2]], "ok")
              /\ queue' = [queue EXCEPT ![n[1]] = Without(@, n[2])]
              /\ pin' = [pin EXCEPT ![queue[n[1]][n[2]]] = NoPin]
    BY <1>1, <1>2 DEF HandleFreeJudge
  <2>2. n[1] \in Priority /\ n[2] \in DOMAIN queue[n[1]]
    BY DEF Deliverable, QueueNodes
  <2>3. Given(j, queue[n[1]][n[2]], n[1], n[2])
    BY <2>1, <2>2 DEF Given, Submit, TypeOK
  <2> QED BY <2>2, <2>3
<1>3. CASE ~(TierServed(j) /\ Deliverable(j) # {})
  BY <1>3 DEF HandleFreeJudge, NothingGiven
<1> QED BY <1>2, <1>3

LEMMA QuietRaisesNothing == Quiet => NothingRaises
BY DEF Quiet, NothingRaises

LEMMA Serve ==
    ASSUME Quiet, TypeOK, NEW j \in Judge, HandleFreeJudge(j)
    PROVE  \/ NothingGiven
           \/ \E p \in Priority : \E i \in DOMAIN queue[p] : Given(j, queue[p][i], p, i)
BY ServeAny, QuietRaisesNothing

\* The variables that HandleFreeJudge changes have their types.
DispatchTypes ==
    /\ judges \subseteq Judge
    /\ queue \in [Priority -> Seq(Submission)]
    /\ pin \in [Submission -> Names \cup {NoPin}]
    /\ Dispatched \subseteq Submission
    /\ submission_map \in [Dispatched -> Judge]
    /\ working \in [Judge -> Submission \cup {NoSubmission}]
    /\ sent \in [Judge -> SUBSET Submission]

LEMMA PutKeeps ==
    ASSUME NEW map, NEW s, NEW j
    PROVE  /\ DOMAIN Put(map, s, j) = DOMAIN map \cup {s}
           /\ Put(map, s, j)[s] = j
           /\ \A x \in DOMAIN map \ {s} : Put(map, s, j)[x] = map[x]
           /\ Put(map, s, j) = [x \in DOMAIN map \cup {s} |-> Put(map, s, j)[x]]
BY DEF Put

LEMMA DelKeeps ==
    ASSUME NEW map, NEW s
    PROVE  /\ DOMAIN Del(map, s) = DOMAIN map \ {s}
           /\ \A x \in DOMAIN map \ {s} : Del(map, s)[x] = map[x]
           /\ Del(map, s) = [x \in DOMAIN map \ {s} |-> Del(map, s)[x]]
BY DEF Del

LEMMA OnlyOk ==
    ASSUME Quiet, NEW j
    PROVE  Outcomes(j) = {"ok"}
BY DEF Quiet, Outcomes

\* The queue and the submission map when an action leaves the schedule alone.
LEMMA SameSchedule ==
    ASSUME UNCHANGED schedule
    PROVE  Queued' = Queued /\ Dispatched' = Dispatched
BY DEF schedule, Queued, Elements, Dispatched

\* What is known of a submission in progress also when a judge was given two:
\* it is queued, submission_map has it, or its end is being recorded.
Remembered ==
    \A s \in Submission : InProgress(s) => s \in Queued \cup Dispatched \/ Ending(s)

LEMMA InitTypes == Init => TypeOK /\ QueuedOnce /\ Remembered
<1> SUFFICES ASSUME Init PROVE TypeOK /\ QueuedOnce /\ Remembered
  OBVIOUS
<1>1. Dispatched = {} /\ Queued = {}
  BY DEF Init, Dispatched, Queued, Elements
<1>2. TypeOK
  <2>1. queue \in [Priority -> Seq(Submission)]
    BY DEF Init
  <2>2. submission_map \in [Dispatched -> Judge]
    BY <1>1 DEF Init, Dispatched
  <2> QED BY <1>1, <2>1, <2>2
          DEF Init, TypeOK, Phase, RowStep, ToggleStep, Unread, NoToggle
<1>3. QueuedOnce /\ Remembered
  BY <1>1 DEF Init, QueuedOnce, Remembered, InProgress
<1> QED BY <1>2, <1>3

-----------------------------------------------------------------------------
(* Types, whatever the environment does.                                   *)

\* The rest of what makes TypeOK inductive: the owner of the lock is a judge's
\* thread when the operation serves that judge last.
TypeInv ==
    /\ TypeOK
    /\ LockFree => tail = "none"
    /\ tail = "free" => owner \in Judge

\* submit, however it ends, and _handle_free_judge keep the types.
LEMMA SubmitTypes ==
    ASSUME TypeOK, NEW j \in Judge, NEW s \in Submission, NEW outcome, Submit(j, s, outcome)
    PROVE  /\ judges' \subseteq Judge
           /\ Dispatched' \subseteq Submission
           /\ submission_map' \in [Dispatched' -> Judge]
           /\ working' \in [Judge -> Submission \cup {NoSubmission}]
           /\ sent' \in [Judge -> SUBSET Submission]
<1>1. Dispatched' = Dispatched \cup {s} /\ submission_map' \in [Dispatched' -> Judge]
  <2>1. submission_map' = [x \in Dispatched \cup {s} |-> IF x = s THEN j ELSE submission_map[x]]
    BY DEF Submit, Put, Dispatched
  <2> QED BY <2>1 DEF TypeOK, Dispatched
<1>2. working' \in [Judge -> Submission \cup {NoSubmission}]
  <2>1. working' = working \/ working' = [working EXCEPT ![j] = s]
    BY DEF Submit
  <2> QED BY <2>1 DEF TypeOK
<1>3. sent' \in [Judge -> SUBSET Submission]
  <2>1. sent' = sent \/ sent' = [sent EXCEPT ![j] = @ \cup {s}]
    BY DEF Submit
  <2>2. sent \in [Judge -> SUBSET Submission]
    BY DEF TypeOK
  <2> QED BY <2>1, <2>2
<1>4. judges' \subseteq Judge
  BY DEF Submit, TypeOK
<1>5. Dispatched' \subseteq Submission
  BY <1>1 DEF TypeOK
<1> QED BY <1>1, <1>2, <1>3, <1>4, <1>5

LEMMA ServeTypes ==
    ASSUME TypeOK, NEW j \in Judge, HandleFreeJudge(j)
    PROVE  DispatchTypes'
<1>1. CASE TierServed(j) /\ Deliverable(j) # {}
  <2>1. PICK n \in Deliverable(j) : \E outcome \in Outcomes(j) :
              /\ Submit(j, queue[n[1]][n[2]], outcome)
              /\ IF outcome = "ok"
                 THEN /\ queue' = [queue EXCEPT ![n[1]] = Without(@, n[2])]
                      /\ pin' = [pin EXCEPT ![queue[n[1]][n[2]]] = NoPin]
                 ELSE UNCHANGED <<queue, pin>>
    BY <1>1 DEF HandleFreeJudge
  <2>2. PICK p \in Priority : \E k \in DOMAIN queue[p] : n = <<p, k>>
    BY DEF Deliverable, QueueNodes
  <2>3. PICK i \in DOMAIN queue[p] : n = <<p, i>>
    BY <2>2
  <2>4. queue[p] \in Seq(Submission) /\ queue[p][i] \in Submission
    BY DEF TypeOK
  <2>5. n[1] = p /\ n[2] = i
    BY <2>3
  <2>6. PICK outcome \in Outcomes(j) : Submit(j, queue[p][i], outcome)
    BY <2>1, <2>5
  <2>7. queue' \in [Priority -> Seq(Submission)]
    <3>1. queue' = queue \/ queue' = [queue EXCEPT ![p] = Without(queue[p], i)]
      BY <2>1, <2>5
    <3>2. Without(queue[p], i) \in Seq(Submission)
      BY <2>4, WithoutKeeps
    <3> QED BY <3>1, <3>2 DEF TypeOK
  <2>8. pin' \in [Submission -> Names \cup {NoPin}]
    <3>1. pin' = pin \/ pin' = [pin EXCEPT ![queue[p][i]] = NoPin]
      BY <2>1, <2>5
    <3> QED BY <2>4, <3>1 DEF TypeOK
  <2> QED BY <2>4, <2>6, <2>7, <2>8, SubmitTypes DEF DispatchTypes
<1>2. CASE ~(TierServed(j) /\ Deliverable(j) # {})
  <2>1. NothingGiven
    BY <1>2 DEF HandleFreeJudge, NothingGiven
  <2> QED BY <2>1 DEF NothingGiven, DispatchTypes, TypeOK, Dispatched
<1> QED BY <1>1, <1>2

LEMMA UpdateTypes ==
    ASSUME NEW js \in SUBSET Judge, NEW dis, UpdateMinTier(js, dis)
    PROVE  min_tier' \in Nat \cup {NoTier} /\ waking' \subseteq js
<1>1. \A j \in js : TierOf[j] \in Nat
  BY JudgeListAssumption
<1> QED BY <1>1 DEF UpdateMinTier, EnabledTiers, Woken, TierJudges

LEMMA LockStepTypes ==
    ASSUME TypeInv, LockStep
    PROVE  TypeInv'
<1>0. TypeOK
  BY DEF TypeInv
<1>1. UNCHANGED <<min_tier, phase, is_disabled, problems, reloading, job, admin, status>>
  BY DEF LockStep, ServeOwner, ServeSole, WakeNext
<1>2. DispatchTypes'
  <2>1. NothingGiven => DispatchTypes'
    BY <1>0 DEF NothingGiven, DispatchTypes, TypeOK, Dispatched
  <2>2. ServeOwner => DispatchTypes'
    BY <1>0, ServeTypes DEF ServeOwner, TypeInv
  <2>3. ServeSole => DispatchTypes'
    <3>1. sole_judge \subseteq Judge
      BY <1>0 DEF sole_judge, Free, current_tier_judges, TierJudges, TypeOK
    <3> QED BY <1>0, <2>1, <3>1, ServeTypes DEF ServeSole, NothingGiven
  <2>4. \A j \in Judge : WakeNext(j) => DispatchTypes'
    BY <1>0, <2>1, ServeTypes DEF WakeNext, NothingGiven
  <2> QED BY <2>2, <2>3, <2>4 DEF LockStep
<1>3. finishing' \in [Judge -> Submission \cup {NoSubmission}]
  <2>1. finishing' = finishing \/ finishing' = [finishing EXCEPT ![owner] = NoSubmission]
    BY DEF LockStep, ServeOwner, ServeSole, WakeNext
  <2> QED BY <1>0, <2>1 DEF TypeOK
<1>4. /\ owner' \in {owner, NoOne} /\ tail' \in {tail, "none"} /\ waking' \subseteq waking
      /\ owner' = NoOne => tail' = "none"
      /\ tail' = "free" => tail = "free" /\ owner' = owner
  BY DEF LockStep, ServeOwner, ServeSole, WakeNext, TypeInv, LockFree
<1>5. owner' \in Judge \cup {NoOne, Web} /\ tail' \in {"none", "free", "sole"} /\ waking' \subseteq Judge
  BY <1>0, <1>4 DEF TypeOK
<1>6. TypeOK'
  BY <1>0, <1>1, <1>2, <1>3, <1>5 DEF TypeOK, DispatchTypes
<1> QED BY <1>4, <1>6 DEF TypeInv, LockFree

LEMMA RequestTypes ==
    ASSUME TypeInv, NEW s \in Submission, NEW p \in Priority, NEW judge_id \in Pins,
           Request(s, p, judge_id)
    PROVE  TypeInv'
<1>0. TypeOK
  BY DEF TypeInv
<1>1. /\ status' = [status EXCEPT ![s] = "QU"]
      /\ UNCHANGED <<min_tier, lock, phase, is_disabled, problems, finishing,
                     reloading, job, admin>>
  BY DEF Request
<1> DEFINE candidates == {j \in current_tier_judges : can_judge(j, s, judge_id)}
<1>2. Available(candidates, p) \subseteq Judge
  BY <1>0 DEF Available, Free, current_tier_judges, TierJudges, TypeOK
<1>3. \/ NothingGiven
      \/ UNCHANGED <<queue, pin>> /\ \E j \in Available(candidates, p) :
             \E outcome \in Outcomes(j) : Submit(j, s, outcome)
      \/ /\ queue' = [queue EXCEPT ![p] = Append(@, s)]
         /\ pin' = [pin EXCEPT ![s] = judge_id]
         /\ UNCHANGED <<judges, submission_map, working, sent>>
  BY DEF Request, NothingGiven
<1> HIDE DEF candidates
<1>4. DispatchTypes'
  <2>1. CASE NothingGiven
    BY <1>0, <2>1 DEF NothingGiven, DispatchTypes, TypeOK, Dispatched
  <2>2. CASE UNCHANGED <<queue, pin>> /\ \E j \in Available(candidates, p) :
             \E outcome \in Outcomes(j) : Submit(j, s, outcome)
    <3>1. PICK j \in Judge : \E outcome \in Outcomes(j) : Submit(j, s, outcome)
      BY <1>2, <2>2
    <3> QED BY <1>0, <2>2, <3>1, SubmitTypes DEF DispatchTypes, TypeOK
  <2>3. CASE /\ queue' = [queue EXCEPT ![p] = Append(@, s)]
             /\ pin' = [pin EXCEPT ![s] = judge_id]
             /\ UNCHANGED <<judges, submission_map, working, sent>>
    <3>1. judge_id \in Names \cup {NoPin}
      BY Distinguished
    <3>2. queue' \in [Priority -> Seq(Submission)]
      BY <1>0, <2>3 DEF TypeOK
    <3> QED BY <1>0, <2>3, <3>1, <3>2 DEF DispatchTypes, TypeOK, Dispatched
  <2> QED BY <1>3, <2>1, <2>2, <2>3
<1>5. TypeOK'
  BY <1>0, <1>1, <1>4 DEF TypeOK, DispatchTypes, lock
<1> QED BY <1>1, <1>5 DEF TypeInv, LockFree, lock

LEMMA AbortTypes ==
    ASSUME TypeInv, NEW s \in Submission, Abort(s)
    PROVE  TypeInv'
<1>0. TypeOK
  BY DEF TypeInv
<1>1. /\ status' = [status EXCEPT ![s] = "D"]
      /\ UNCHANGED <<judges, submission_map, min_tier, lock, handler, process, admin>>
  BY DEF Abort
<1>2. pin' \in [Submission -> Names \cup {NoPin}]
  <2>1. pin' = pin \/ pin' = [pin EXCEPT ![s] = NoPin]
    BY DEF Abort
  <2> QED BY <1>0, <2>1 DEF TypeOK
<1>3. queue' \in [Priority -> Seq(Submission)]
  <2>1. CASE queue' = queue
    BY <1>0, <2>1 DEF TypeOK
  <2>2. ASSUME NEW p \in Priority, NEW i \in DOMAIN queue[p],
               queue' = [queue EXCEPT ![p] = Without(@, i)]
        PROVE  queue' \in [Priority -> Seq(Submission)]
    <3>1. queue[p] \in Seq(Submission)
      BY <1>0 DEF TypeOK
    <3> QED BY <1>0, <2>2, <3>1, WithoutKeeps DEF TypeOK
  <2> QED BY <2>1, <2>2 DEF Abort
<1>4. TypeOK'
  BY <1>0, <1>1, <1>2, <1>3 DEF TypeOK, Dispatched, lock, handler, process
<1> QED BY <1>1, <1>4 DEF TypeInv, LockFree, lock

LEMMA ToggleTypes ==
    ASSUME TypeInv, NEW n \in Names, ToggleDisabled(n)
    PROVE  TypeInv'
<1>0. TypeOK
  BY DEF TypeInv
<1>1. /\ toggling[n].disabled \in BOOLEAN
      /\ toggling' \in [Names -> [step : ToggleStep, disabled : BOOLEAN]]
  BY <1>0 DEF ToggleDisabled, TypeOK, ToggleStep
<1>2. is_disabled' \in [Judge -> BOOLEAN]
  BY <1>0, <1>1 DEF ToggleDisabled, TypeOK
<1>3. min_tier' \in Nat \cup {NoTier} /\ waking' \subseteq Judge
  BY <1>0, UpdateTypes DEF ToggleDisabled, TypeOK
<1>4. /\ LockFree /\ owner' \in {NoOne, Web}
      /\ UNCHANGED <<judges, queue, pin, submission_map, tail, phase, working,
                     problems, finishing, reloading, process, db_disabled, row, status>>
  BY DEF ToggleDisabled
<1>5. TypeOK'
  BY <1>0, <1>1, <1>2, <1>3, <1>4 DEF TypeOK, Dispatched, process
<1> QED BY <1>4, <1>5 DEF TypeInv, LockFree

\* What the site and _connected do on their own.
AdminStep(n) == LoadToggle(n) \/ SaveToggle(n) \/ ToggleFails(n)

LEMMA AdminTypes ==
    ASSUME TypeInv, NEW n \in Names, AdminStep(n)
    PROVE  TypeInv'
<1>0. TypeOK
  BY DEF TypeInv
<1>1. UNCHANGED <<schedule, lock, handler, process, row, status>>
  BY DEF AdminStep, LoadToggle, SaveToggle, ToggleFails
<1>2. toggling' \in [Names -> [step : ToggleStep, disabled : BOOLEAN]]
  <2>1. \E b \in BOOLEAN : \E x \in ToggleStep :
          toggling' = [toggling EXCEPT ![n] = [step |-> x, disabled |-> b]]
    BY <1>0 DEF AdminStep, LoadToggle, SaveToggle, ToggleFails, TypeOK, ToggleStep, NoToggle
  <2>2. toggling \in [Names -> [step : ToggleStep, disabled : BOOLEAN]]
    BY <1>0 DEF TypeOK
  <2> QED BY <2>1, <2>2
<1>3. db_disabled' \in [Names -> BOOLEAN]
  <2>1. toggling[n].disabled \in BOOLEAN
    BY <1>0 DEF TypeOK
  <2> QED BY <1>0, <2>1 DEF AdminStep, LoadToggle, SaveToggle, ToggleFails, TypeOK
<1>4. TypeOK'
  BY <1>0, <1>1, <1>2, <1>3 DEF TypeOK, Dispatched, schedule, lock, handler, process
<1> QED BY <1>1, <1>4 DEF TypeInv, LockFree, lock

LEMMA RowTypes ==
    ASSUME TypeInv, NEW j \in Judge, LoadRow(j) \/ CacheDisabled(j) \/ Connected(j)
    PROVE  TypeInv'
<1>0. TypeOK /\ row[j].disabled \in BOOLEAN /\ db_disabled[NameOf[j]] \in BOOLEAN
  BY DEF TypeInv, TypeOK, Names
<1>1. UNCHANGED <<schedule, lock, working, problems, finishing, reloading, process,
                  toggling, status>>
  BY DEF LoadRow, CacheDisabled, Connected, handler
<1>2. row' \in [Judge -> [step : RowStep, disabled : BOOLEAN]]
  <2>0. row \in [Judge -> [step : RowStep, disabled : BOOLEAN]]
    BY <1>0 DEF TypeOK
  <2>1. CASE LoadRow(j)
    BY <1>0, <2>0, <2>1 DEF LoadRow, RowStep
  <2>2. CASE CacheDisabled(j)
    BY <2>0, <2>2 DEF CacheDisabled, RowStep
  <2>3. CASE Connected(j)
    BY <2>0, <2>3 DEF Connected, RowStep, Unread
  <2> QED BY <2>1, <2>2, <2>3
<1>3. db_disabled' \in [Names -> BOOLEAN] /\ is_disabled' \in [Judge -> BOOLEAN]
  BY <1>0 DEF LoadRow, CacheDisabled, Connected, TypeOK, handler
<1>4. phase' \in [Judge -> Phase]
  BY <1>0 DEF LoadRow, CacheDisabled, Connected, TypeOK, Phase, handler
<1>5. TypeOK'
  BY <1>0, <1>1, <1>2, <1>3, <1>4 DEF TypeOK, Dispatched, schedule, lock, process
<1> QED BY <1>1, <1>5 DEF TypeInv, LockFree, lock

LEMMA JoinTypes ==
    ASSUME TypeInv, NEW j \in Judge, Register(j) \/ Remove(j)
    PROVE  TypeInv'
<1>0. TypeOK
  BY DEF TypeInv
<1>1. judges' \subseteq Judge /\ UpdateMinTier(judges', is_disabled)
  BY <1>0 DEF Register, Remove, TypeOK
<1>2. min_tier' \in Nat \cup {NoTier} /\ waking' \subseteq Judge
  BY <1>1, UpdateTypes
<1>3. phase' \in [Judge -> Phase]
  BY <1>0 DEF Register, Remove, TypeOK, Phase
<1>4. problems' \in [Judge -> SUBSET Submission]
  <2>1. \/ problems' = problems
        \/ \E ps \in SUBSET Submission : problems' = [problems EXCEPT ![j] = ps]
    BY JudgeListAssumption DEF Register, Remove
  <2> QED BY <1>0, <2>1 DEF TypeOK
<1>5. Dispatched' \subseteq Submission /\ submission_map' \in [Dispatched' -> Judge]
  <2>1. CASE submission_map' = submission_map
    BY <1>0, <2>1 DEF TypeOK, Dispatched
  <2>2. CASE submission_map' = Del(submission_map, working[j])
    BY <1>0, <2>2 DEF TypeOK, Dispatched, Del
  <2> QED BY <2>1, <2>2 DEF Register, Remove
<1>6. /\ owner' = j /\ tail' \in {"free", "sole"}
      /\ UNCHANGED <<queue, pin, working, is_disabled, finishing, reloading,
                     process, admin, status>>
  BY DEF Register, Remove
<1>7. TypeOK'
  BY <1>0, <1>1, <1>2, <1>3, <1>4, <1>5, <1>6 DEF TypeOK, process
<1> QED BY <1>6, <1>7, Distinguished DEF TypeInv, LockFree

\* The steps of a handler thread that end with the call of _handle_free_judge.
LEMMA LastServedTypes ==
    ASSUME TypeInv, NEW j \in Judge,
           (\E s \in Submission : FreeSelf(j, s)) \/ UpdateProblems(j)
    PROVE  TypeInv'
<1>0. TypeOK
  BY DEF TypeInv
<1>1. CASE UpdateProblems(j)
  <2>1. reloading' \in [Judge -> BOOLEAN]
    BY <1>0, <1>1 DEF UpdateProblems, TypeOK
  <2>2. TypeOK'
    BY <1>0, <1>1, <2>1 DEF UpdateProblems, TypeOK, Dispatched, schedule, process
  <2> QED BY <1>1, <2>2, Distinguished DEF UpdateProblems, TypeInv, LockFree
<1>2. ASSUME NEW s \in Submission, FreeSelf(j, s)
      PROVE  TypeInv'
  <2>1. Dispatched' \subseteq Submission /\ submission_map' \in [Dispatched' -> Judge]
    <3>1. CASE submission_map' = submission_map
      BY <1>0, <3>1 DEF TypeOK, Dispatched
    <3>2. CASE submission_map' = Del(submission_map, s)
      BY <1>0, <3>2 DEF TypeOK, Dispatched, Del
    <3> QED BY <1>2, <3>1, <3>2 DEF FreeSelf, on_judge_free
  <2>2. working' \in [Judge -> Submission \cup {NoSubmission}]
    BY <1>0, <1>2 DEF FreeSelf, on_judge_free, TypeOK
  <2>3. finishing' \in [Judge -> Submission \cup {NoSubmission}]
    BY <1>0, <1>2 DEF FreeSelf, TypeOK
  <2>4. job' \in [Judge -> SUBSET Submission]
    BY <1>0, <1>2 DEF FreeSelf, TypeOK
  <2>5. \/ UNCHANGED lock
        \/ owner' = j /\ tail' = "free" /\ waking' = waking
    BY <1>2 DEF FreeSelf, on_judge_free
  <2>6. UNCHANGED <<judges, queue, pin, min_tier, phase, is_disabled, problems,
                    reloading, sent, admin, status>>
    BY <1>2 DEF FreeSelf
  <2>7. TypeOK'
    BY <1>0, <2>1, <2>2, <2>3, <2>4, <2>5, <2>6 DEF TypeOK, lock
  <2> QED BY <2>5, <2>7, Distinguished DEF TypeInv, LockFree, lock
<1> QED BY <1>1, <1>2

\* The steps of a handler thread that leave the schedule and the lock alone.
LEMMA HandlerTypes ==
    ASSUME TypeInv, NEW j \in Judge,
           \/ Record(j) \/ Disconnected(j) \/ SupportedProblems(j) \/ Drop(j)
           \/ \E s \in Submission : Acknowledge(j, s)
    PROVE  TypeInv'
<1> USE DEF Record, Disconnected, SupportedProblems, Drop, Acknowledge
<1>0. TypeOK
  BY DEF TypeInv
<1>1. UNCHANGED <<schedule, lock, admin>>
  OBVIOUS
<1>2. phase' \in [Judge -> Phase]
  <2>1. \E x \in Phase : phase' = [phase EXCEPT ![j] = x] \/ phase' = phase
    BY DEF Phase
  <2> QED BY <1>0, <2>1 DEF TypeOK
<1>3. working' \in [Judge -> Submission \cup {NoSubmission}]
  <2>1. working' = working \/ working' = [working EXCEPT ![j] = NoSubmission]
    OBVIOUS
  <2> QED BY <1>0, <2>1 DEF TypeOK
<1>4. is_disabled' \in [Judge -> BOOLEAN]
  <2>1. is_disabled' = is_disabled \/ is_disabled' = [is_disabled EXCEPT ![j] = FALSE]
    OBVIOUS
  <2> QED BY <1>0, <2>1 DEF TypeOK
<1>5. problems' \in [Judge -> SUBSET Submission]
  <2>1. \E ps \in SUBSET Submission : problems' = problems \/ problems' = [problems EXCEPT ![j] = ps]
    BY JudgeListAssumption
  <2> QED BY <1>0, <2>1 DEF TypeOK
<1>6. finishing' \in [Judge -> Submission \cup {NoSubmission}]
  <2>1. finishing' = finishing \/ finishing' = [finishing EXCEPT ![j] = NoSubmission]
    OBVIOUS
  <2> QED BY <1>0, <2>1 DEF TypeOK
<1>7. reloading' \in [Judge -> BOOLEAN]
  <2>1. reloading' = reloading \/ \E b \in BOOLEAN : reloading' = [reloading EXCEPT ![j] = b]
    OBVIOUS
  <2> QED BY <1>0, <2>1 DEF TypeOK
<1>8. sent' \in [Judge -> SUBSET Submission] /\ job' \in [Judge -> SUBSET Submission]
  <2>1. sent[j] \in SUBSET Submission /\ job[j] \in SUBSET Submission
    BY <1>0 DEF TypeOK
  <2>2. sent' = sent \/ \E x \in SUBSET Submission : sent' = [sent EXCEPT ![j] = x]
    BY <2>1 DEF process
  <2>3. job' = job \/ \E x \in SUBSET Submission : job' = [job EXCEPT ![j] = x]
    BY <2>1 DEF process
  <2>4. sent' \in [Judge -> SUBSET Submission]
    BY <1>0, <2>2 DEF TypeOK
  <2>5. job' \in [Judge -> SUBSET Submission]
    BY <1>0, <2>3 DEF TypeOK
  <2> QED BY <2>4, <2>5
<1>9. status' \in [Submission -> {"NEW", "QU", "P", "D"}]
  <2>1. status \in [Submission -> {"NEW", "QU", "P", "D"}]
    BY <1>0 DEF TypeOK
  <2> QED BY <2>1 DEF IEOnDisconnect
<1>10. TypeOK'
  BY <1>0, <1>1, <1>2, <1>3, <1>4, <1>5, <1>6, <1>7, <1>8, <1>9
     DEF TypeOK, Dispatched, schedule, lock
<1> QED BY <1>1, <1>10 DEF TypeInv, LockFree, lock

LEMMA DisconnectJudgeTypes ==
    ASSUME TypeInv, NEW n \in Names, DisconnectJudge(n)
    PROVE  TypeInv'
<1>1. /\ phase' \in [Judge -> Phase]
      /\ sent' \in [Judge -> SUBSET Submission]
      /\ job' \in [Judge -> SUBSET Submission]
  BY DEF DisconnectJudge, TypeInv, TypeOK, Phase
<1>2. UNCHANGED <<schedule, lock, working, is_disabled, problems, finishing,
                  reloading, admin, status>>
  BY DEF DisconnectJudge
<1>3. TypeOK'
  BY <1>1, <1>2 DEF TypeInv, TypeOK, Dispatched, schedule, lock
<1> QED BY <1>2, <1>3 DEF TypeInv, LockFree, lock

LEMMA StepTypes ==
    ASSUME TypeInv, [Next]_vars
    PROVE  TypeInv'
<1>1. CASE LockStep
  BY <1>1, LockStepTypes
<1>2. ASSUME NEW j \in Judge, JudgeStep(j) \/ Register(j) \/ SupportedProblems(j) \/ Drop(j)
      PROVE  TypeInv'
  BY <1>2, JoinTypes, LastServedTypes, HandlerTypes, RowTypes DEF JudgeStep
<1>3. ASSUME NEW s \in Submission, Abort(s)
      PROVE  TypeInv'
  BY <1>3, AbortTypes
<1>4. ASSUME NEW s \in Submission, NEW p \in Priority, NEW judge_id \in Pins, Request(s, p, judge_id)
      PROVE  TypeInv'
  BY <1>4, RequestTypes
<1>5. ASSUME NEW n \in Names, AdminStep(n) \/ ToggleDisabled(n) \/ DisconnectJudge(n)
      PROVE  TypeInv'
  BY <1>5, AdminTypes, ToggleTypes, DisconnectJudgeTypes
<1>6. CASE UNCHANGED vars
  BY <1>6 DEF TypeInv, TypeOK, Dispatched, LockFree, vars, schedule, lock, handler, process
<1> QED BY <1>1, <1>2, <1>3, <1>4, <1>5, <1>6 DEF Next, AdminStep

LEMMA TypeSafety == Spec => []TypeInv
<1>1. Init => TypeInv
  BY InitTypes DEF Init, TypeInv
<1>2. TypeInv /\ [Next]_vars => TypeInv'
  BY StepTypes
<1> QED BY <1>1, <1>2, PTL DEF Spec

\* Every variable keeps its type, whatever raises and whoever disables what.
THEOREM TypeCorrect == Spec => []TypeOK
<1>1. TypeInv => TypeOK
  BY DEF TypeInv
<1> QED BY <1>1, TypeSafety, PTL

-----------------------------------------------------------------------------
(* Places of the queue.                                                    *)

UniquePlaces ==
    \A p, q \in Priority : \A i \in DOMAIN queue[p], k \in DOMAIN queue[q] :
        queue[p][i] = queue[q][k] => p = q /\ i = k

\* Taking out one place of the queue leaves the others as they were.
LEMMA TakenOut ==
    ASSUME TypeOK, UniquePlaces, NEW p \in Priority, NEW i \in DOMAIN queue[p],
           queue' = [queue EXCEPT ![p] = Without(queue[p], i)]
    PROVE  /\ \A q \in Priority : \A k \in DOMAIN queue'[q] :
                 \E l \in DOMAIN queue[q] : queue'[q][k] = queue[q][l]
           /\ \A q \in Priority : \A k \in DOMAIN queue'[q] : queue'[q][k] # queue[p][i]
           /\ Queued' = Queued \ {queue[p][i]}
           /\ UniquePlaces'
<1> DEFINE Old(q, k) == IF q = p THEN Place(i, k) ELSE k
<1>1. queue[p] \in Seq(Submission)
  BY DEF TypeOK
<1>2. ASSUME NEW q \in Priority, NEW k \in DOMAIN queue'[q]
      PROVE  /\ Old(q, k) \in DOMAIN queue[q]
             /\ queue'[q][k] = queue[q][Old(q, k)]
             /\ q = p => Old(q, k) # i
  BY <1>1, WithoutKeeps DEF TypeOK
<1>3. ASSUME NEW q \in Priority, NEW k \in DOMAIN queue'[q], NEW l \in DOMAIN queue'[q],
             Old(q, k) = Old(q, l)
      PROVE  k = l
  BY <1>1, <1>3, WithoutKeeps DEF TypeOK
<1>4. ASSUME NEW q \in Priority, NEW m \in DOMAIN queue[q], queue[q][m] # queue[p][i]
      PROVE  \E k \in DOMAIN queue'[q] : Old(q, k) = m
  <2>1. CASE q = p
    <3>1. m \in DOMAIN queue[p] \ {i} /\ queue'[p] = Without(queue[p], i)
      BY <1>4, <2>1 DEF TypeOK
    <3>2. PICK k \in DOMAIN Without(queue[p], i) : Place(i, k) = m
      BY <1>1, <3>1, WithoutKeeps
    <3> QED BY <2>1, <3>1, <3>2
  <2>2. CASE q # p
    BY <2>2 DEF TypeOK
  <2> QED BY <2>1, <2>2
<1> HIDE DEF Old
<1>5. UniquePlaces'
  <2> SUFFICES ASSUME NEW q \in Priority, NEW r \in Priority, NEW k \in DOMAIN queue'[q],
                      NEW l \in DOMAIN queue'[r], queue'[q][k] = queue'[r][l]
               PROVE  q = r /\ k = l
    BY DEF UniquePlaces
  <2>1. q = r /\ Old(q, k) = Old(r, l)
    BY <1>2 DEF UniquePlaces
  <2> QED BY <1>3, <2>1
<1>6. ASSUME NEW q \in Priority, NEW k \in DOMAIN queue'[q]
      PROVE  queue'[q][k] # queue[p][i]
  BY <1>2 DEF UniquePlaces
<1>7. ASSUME NEW x PROVE x \in Queued' <=> x \in Queued \ {queue[p][i]}
  <2>1. ASSUME x \in Queued' PROVE x \in Queued \ {queue[p][i]}
    BY <1>2, <1>6, <2>1, QueuedAt, QueuedAtNext
  <2>2. ASSUME x \in Queued, x # queue[p][i] PROVE x \in Queued'
    <3>1. PICK q \in Priority : \E m \in DOMAIN queue[q] : queue[q][m] = x
      BY <2>2, QueuedAt
    <3>2. PICK m \in DOMAIN queue[q] : queue[q][m] = x
      BY <3>1
    <3>3. PICK k \in DOMAIN queue'[q] : Old(q, k) = m
      BY <1>4, <2>2, <3>2
    <3>4. queue'[q][k] = x
      BY <1>2, <3>2, <3>3
    <3> QED BY <3>4, QueuedAtNext
  <2> QED BY <2>1, <2>2
<1> QED BY <1>2, <1>5, <1>6, <1>7

\* A submission that waits nowhere is put at the end of one list.
LEMMA PutLast ==
    ASSUME TypeOK, UniquePlaces, NEW p \in Priority, NEW s \in Submission, s \notin Queued,
           queue' = [queue EXCEPT ![p] = Append(@, s)]
    PROVE  /\ \A q \in Priority : \A k \in DOMAIN queue'[q] :
                 \/ \E l \in DOMAIN queue[q] : queue'[q][k] = queue[q][l]
                 \/ q = p /\ queue'[q][k] = s
           /\ Queued' = Queued \cup {s}
           /\ UniquePlaces'
<1>1. queue[p] \in Seq(Submission) /\ queue'[p] = Append(queue[p], s)
  BY DEF TypeOK
<1>2. /\ Len(queue[p]) \in Nat /\ DOMAIN queue[p] = 1 .. Len(queue[p])
      /\ DOMAIN queue'[p] = 1 .. (Len(queue[p]) + 1)
      /\ queue'[p][Len(queue[p]) + 1] = s
      /\ \A i \in DOMAIN queue[p] : queue'[p][i] = queue[p][i]
  BY <1>1
<1>3. \A q \in Priority : q # p => queue'[q] = queue[q]
  BY DEF TypeOK
<1>4. ASSUME NEW q \in Priority, NEW k \in DOMAIN queue'[q]
      PROVE  \/ k \in DOMAIN queue[q] /\ queue'[q][k] = queue[q][k]
             \/ q = p /\ k = Len(queue[p]) + 1 /\ queue'[q][k] = s
  BY <1>2, <1>3
<1>5. \A q \in Priority : \A k \in DOMAIN queue[q] : queue[q][k] # s
  BY QueuedAt
<1>6. UniquePlaces'
  <2> SUFFICES ASSUME NEW q \in Priority, NEW r \in Priority, NEW k \in DOMAIN queue'[q],
                      NEW l \in DOMAIN queue'[r], queue'[q][k] = queue'[r][l]
               PROVE  q = r /\ k = l
    BY DEF UniquePlaces
  <2> QED BY <1>4, <1>5 DEF UniquePlaces
<1>7. \A q \in Priority : \A k \in DOMAIN queue[q] : k \in DOMAIN queue'[q] /\ queue'[q][k] = queue[q][k]
  BY <1>2, <1>3
<1>8. s \in Queued'
  BY <1>2, QueuedAtNext
<1>9. ASSUME NEW x, x # s PROVE x \in Queued' <=> x \in Queued
  BY <1>4, <1>7, <1>9, QueuedAt, QueuedAtNext
<1> QED BY <1>4, <1>6, <1>8, <1>9

-----------------------------------------------------------------------------
(* While nothing raises: a submission is queued once.                      *)

LEMMA OnceServed ==
    ASSUME NothingRaises, TypeOK, QueuedOnce, NEW j \in Judge, HandleFreeJudge(j)
    PROVE  QueuedOnce'
<1>1. UniquePlaces /\ Queued \cap Dispatched = {}
  BY DEF QueuedOnce, UniquePlaces
<1>2. CASE NothingGiven
  BY <1>2 DEF NothingGiven, QueuedOnce, Queued, Elements, Dispatched
<1>3. ASSUME NEW p \in Priority, NEW i \in DOMAIN queue[p], Given(j, queue[p][i], p, i)
      PROVE  QueuedOnce'
  <2>1. /\ queue' = [queue EXCEPT ![p] = Without(queue[p], i)]
        /\ submission_map' = Put(submission_map, queue[p][i], j)
    BY <1>3 DEF Given
  <2>2. UniquePlaces' /\ Queued' = Queued \ {queue[p][i]}
    BY <1>1, <2>1, TakenOut
  <2>3. Dispatched' = Dispatched \cup {queue[p][i]}
    BY <2>1 DEF Dispatched, Put
  <2>4. Queued' \cap Dispatched' = {}
    BY <1>1, <2>2, <2>3
  <2> QED BY <2>2, <2>4 DEF QueuedOnce, UniquePlaces
<1> QED BY <1>2, <1>3, ServeAny

LEMMA OnceRequested ==
    ASSUME NothingRaises, TypeOK, QueuedOnce, NEW s \in Submission, NEW p \in Priority,
           NEW judge_id \in Pins, Request(s, p, judge_id)
    PROVE  QueuedOnce'
<1>1. UniquePlaces /\ Queued \cap Dispatched = {}
  BY DEF QueuedOnce, UniquePlaces
<1>2. \/ UNCHANGED <<queue, submission_map>>
      \/ /\ ~Known(s) /\ queue' = queue
         /\ \E j : submission_map' = Put(submission_map, s, j)
      \/ /\ ~Known(s) /\ submission_map' = submission_map
         /\ queue' = [queue EXCEPT ![p] = Append(@, s)]
  BY NoRaise DEF Request, Submit
<1>3. CASE UNCHANGED <<queue, submission_map>>
  BY <1>3 DEF QueuedOnce, Queued, Elements, Dispatched
<1>4. ASSUME NEW j, ~Known(s), queue' = queue, submission_map' = Put(submission_map, s, j)
      PROVE  QueuedOnce'
  <2>1. Dispatched' = Dispatched \cup {s} /\ Queued' = Queued
    BY <1>4 DEF Dispatched, Put, Queued, Elements
  <2>2. s \notin Queued
    BY <1>4 DEF Known
  <2> QED BY <1>1, <1>4, <2>1, <2>2 DEF QueuedOnce
<1>5. ASSUME ~Known(s), submission_map' = submission_map,
             queue' = [queue EXCEPT ![p] = Append(@, s)]
      PROVE  QueuedOnce'
  <2>1. s \notin Queued /\ s \notin Dispatched
    BY <1>5 DEF Known
  <2>2. UniquePlaces' /\ Queued' = Queued \cup {s}
    BY <1>1, <1>5, <2>1, PutLast
  <2>3. Dispatched' = Dispatched
    BY <1>5 DEF Dispatched
  <2>4. Queued' \cap Dispatched' = {}
    BY <1>1, <2>1, <2>2, <2>3
  <2> QED BY <2>2, <2>4 DEF QueuedOnce, UniquePlaces
<1> QED BY <1>2, <1>3, <1>4, <1>5

LEMMA OnceKept ==
    ASSUME QueuedOnce, queue' = queue, Dispatched' \subseteq Dispatched
    PROVE  QueuedOnce'
BY DEF QueuedOnce, Queued, Elements

LEMMA OnceStep ==
    ASSUME NothingRaises, TypeInv, QueuedOnce, [Next]_vars
    PROVE  QueuedOnce'
<1>0. TypeOK
  BY DEF TypeInv
<1>1. CASE LockStep
  <2>1. ASSUME NEW j \in Judge, HandleFreeJudge(j) PROVE QueuedOnce'
    BY <1>0, <2>1, OnceServed
  <2>2. ASSUME UNCHANGED <<queue, submission_map>> PROVE QueuedOnce'
    BY <2>2, OnceKept DEF Dispatched
  <2>3. CASE ServeOwner
    BY <2>1, <2>3 DEF ServeOwner, TypeInv
  <2>4. sole_judge \subseteq Judge
    BY <1>0 DEF sole_judge, Free, current_tier_judges, TierJudges, TypeOK
  <2>5. CASE ServeSole
    BY <2>1, <2>2, <2>4, <2>5 DEF ServeSole
  <2>6. ASSUME NEW j \in Judge, WakeNext(j) PROVE QueuedOnce'
    BY <2>1, <2>2, <2>6 DEF WakeNext
  <2> QED BY <1>1, <2>3, <2>5, <2>6 DEF LockStep
<1>2. ASSUME NEW s \in Submission, Abort(s)
      PROVE  QueuedOnce'
  <2>1. submission_map' = submission_map
    BY <1>2 DEF Abort
  <2>2. CASE queue' = queue
    BY <2>1, <2>2, OnceKept DEF Dispatched
  <2>3. ASSUME NEW p \in Priority, NEW i \in DOMAIN queue[p],
               queue' = [queue EXCEPT ![p] = Without(queue[p], i)]
        PROVE  QueuedOnce'
    <3>1. UniquePlaces' /\ Queued' = Queued \ {queue[p][i]}
      BY <1>0, <2>3, TakenOut DEF QueuedOnce, UniquePlaces
    <3>2. Queued' \cap Dispatched' = {}
      BY <2>1, <3>1 DEF QueuedOnce, Dispatched
    <3> QED BY <3>1, <3>2 DEF QueuedOnce, UniquePlaces
  <2> QED BY <1>2, <2>2, <2>3 DEF Abort
<1>3. ASSUME NEW s \in Submission, NEW p \in Priority, NEW judge_id \in Pins, Request(s, p, judge_id)
      PROVE  QueuedOnce'
  BY <1>0, <1>3, OnceRequested
<1>4. ASSUME NEW j \in Judge, JudgeStep(j) \/ Register(j) \/ SupportedProblems(j) \/ Drop(j)
      PROVE  QueuedOnce'
  <2>1. CASE \/ LoadRow(j) \/ CacheDisabled(j) \/ Connected(j) \/ Record(j) \/ UpdateProblems(j) \/ Disconnected(j) \/ Register(j)
             \/ SupportedProblems(j) \/ Drop(j) \/ \E x \in Submission : Acknowledge(j, x)
    BY <2>1, OnceKept DEF LoadRow, CacheDisabled, Connected, Record, UpdateProblems, Disconnected, Register,
                      SupportedProblems, Drop, Acknowledge, schedule, Dispatched
  <2>2. CASE Remove(j) \/ \E x \in Submission : FreeSelf(j, x)
    <3>1. queue' = queue
      BY <2>2 DEF Remove, FreeSelf
    <3>2. submission_map' = submission_map \/ \E x : submission_map' = Del(submission_map, x)
      BY <2>2 DEF Remove, FreeSelf, on_judge_free
    <3>3. Dispatched' \subseteq Dispatched
      BY <3>2 DEF Del, Dispatched
    <3> QED BY <3>1, <3>3, OnceKept
  <2> QED BY <1>4, <2>1, <2>2 DEF JudgeStep
<1>5. ASSUME \/ \E n \in Names : AdminStep(n) \/ ToggleDisabled(n) \/ DisconnectJudge(n)
             \/ UNCHANGED vars
      PROVE  QueuedOnce'
  BY <1>5, OnceKept DEF AdminStep, LoadToggle, SaveToggle, ToggleFails, ToggleDisabled,
     DisconnectJudge, vars, schedule, Dispatched
<1> QED BY <1>1, <1>2, <1>3, <1>4, <1>5 DEF Next, AdminStep

\* A submission is queued once, and not while a judge has it, as long as nothing
\* raises: also when judges are disabled, and when they announce other problems
\* while they are given something.
THEOREM QueueCorrect == NothingRaises => (Spec => []QueuedOnce)
<1> SUFFICES ASSUME NothingRaises PROVE Spec => []QueuedOnce
  OBVIOUS
<1>1. Init => QueuedOnce
  BY InitTypes
<1>2. TypeInv /\ QueuedOnce /\ [Next]_vars => QueuedOnce'
  BY OnceStep
<1>3. Spec => []TypeInv
  BY TypeSafety
<1> QED BY <1>1, <1>2, <1>3, PTL DEF Spec

-----------------------------------------------------------------------------
(* While nothing raises and no judge is disabled: the invariant.           *)

\* Who holds what.  A judge's packets are about submissions that the map gives
\* to it, and so is what it works on; a judge that is to be served, or that has
\* announced problems, is listed.  Unlike MapMatchesWorking this says nothing of
\* an older submission of a judge that was given a second one.
Holders ==
    /\ \A j \in Judge : j \in judges <=> phase[j] \in {"registered", "ready", "closing"}
    /\ \A j \in Judge : \A s \in sent[j] \cup job[j] :
          s \in Dispatched /\ submission_map[s] = j /\ phase[j] \in {"registered", "ready"}
    /\ \A j \in Judge : sent[j] \cap job[j] = {}
    /\ \A j \in judges : working[j] # NoSubmission =>
          working[j] \in Dispatched /\ submission_map[working[j]] = j
    /\ \A j \in Judge : reloading[j] => phase[j] \in {"ready", "closing"}
    /\ \A j \in Judge : phase[j] = "off" => working[j] = NoSubmission

LockHeld ==
    /\ LockFree => waking = {} /\ tail = "none"
    /\ tail = "free" => owner \in judges
    /\ waking \subseteq judges

NoneDisabled ==
    /\ \A j \in Judge : ~is_disabled[j] /\ ~row[j].disabled
    /\ \A n \in Names : ~db_disabled[n] /\ toggling[n] = NoToggle

Tiers ==
    /\ \A k \in judges : min_tier <= TierOf[k]
    /\ min_tier = NoTier => judges = {}

\* The operation that holds the lock has not served the judge yet.
ToBeServed(j) == j \in waking \/ (tail = "free" /\ owner = j)

NothingUrgent(j) ==
    \A p \in Priority : p < REJUDGE_PRIORITY =>
        \A i \in DOMAIN queue[p] : ~can_judge(j, queue[p][i], pin[queue[p][i]])

\* UrgentServed in the middle of an operation.
IdleServed ==
    \A j \in Free(current_tier_judges) : reloading[j] \/ ToBeServed(j) \/ NothingUrgent(j)

QuietInv ==
    /\ TypeOK /\ QueuedOnce /\ Remembered
    /\ Holders /\ LockHeld /\ NoneDisabled /\ Tiers /\ IdleServed

\* Nobody toggles a judge.
LEMMA NoToggling ==
    ASSUME "disable" \notin Environment, NEW n \in Names, toggling[n] = NoToggle
    PROVE  ~AdminStep(n) /\ ~ToggleDisabled(n)
BY DEF AdminStep, LoadToggle, SaveToggle, ToggleFails, ToggleDisabled, NoToggle

\* A judge with the same problems finds nothing urgent in a queue that has lost
\* places, or gained one that is not for it.
LEMMA StaysServed ==
    ASSUME NEW j, NothingUrgent(j), problems'[j] = problems[j], is_disabled' = is_disabled,
           \A q \in Priority : q < REJUDGE_PRIORITY => \A k \in DOMAIN queue'[q] :
               \/ /\ \E l \in DOMAIN queue[q] : queue'[q][k] = queue[q][l]
                  /\ pin'[queue'[q][k]] = pin[queue'[q][k]]
               \/ ~can_judge(j, queue'[q][k], pin'[queue'[q][k]])
    PROVE  NothingUrgent(j)'
<1> SUFFICES ASSUME NEW q \in Priority, q < REJUDGE_PRIORITY, NEW k \in DOMAIN queue'[q]
             PROVE  ~(can_judge(j, queue[q][k], pin[queue[q][k]])')
  BY DEF NothingUrgent
<1>1. can_judge(j, queue[q][k], pin[queue[q][k]])' <=> can_judge(j, queue'[q][k], pin'[queue'[q][k]])
  BY DEF can_judge
<1>2. ASSUME NEW l \in DOMAIN queue[q], queue'[q][k] = queue[q][l],
             pin'[queue'[q][k]] = pin[queue'[q][k]]
      PROVE  ~can_judge(j, queue'[q][k], pin'[queue'[q][k]])
  BY <1>2 DEF NothingUrgent
<1> QED BY <1>1, <1>2

\* After _handle_free_judge an idle judge of the current tier has nothing urgent.
LEMMA ServedLast ==
    ASSUME QuietInv, NEW j \in current_tier_judges, HandleFreeJudge(j), NothingGiven,
           Quiet, problems' = problems, is_disabled' = is_disabled, working'[j] = NoSubmission
    PROVE  NothingUrgent(j)'
<1>1. j \in Judge /\ TierServed(j)
  BY JudgeListAssumption DEF QuietInv, TypeOK, current_tier_judges, TierJudges, TierServed, NoTier
<1>2. Deliverable(j) = {}
  <2> SUFFICES ASSUME Deliverable(j) # {} PROVE FALSE
    OBVIOUS
  <2>1. PICK n \in Deliverable(j) : Submit(j, queue[n[1]][n[2]], "ok")
    BY <1>1, OnlyOk DEF HandleFreeJudge
  <2>2. PICK p \in Priority : \E k \in DOMAIN queue[p] : n = <<p, k>>
    BY DEF Deliverable, QueueNodes
  <2>3. PICK i \in DOMAIN queue[p] : n = <<p, i>>
    BY <2>2
  <2>4. working'[j] = queue[p][i] /\ queue[p][i] \in Submission
    BY <1>1, <2>1, <2>3 DEF Submit, QuietInv, TypeOK
  <2> QED BY <2>4, Distinguished
<1>3. NothingUrgent(j)
  <2> SUFFICES ASSUME NEW p \in Priority, p < REJUDGE_PRIORITY, NEW i \in DOMAIN queue[p],
                      can_judge(j, queue[p][i], pin[queue[p][i]])
               PROVE  FALSE
    BY DEF NothingUrgent
  <2>1. <<p, i>> \in QueueNodes
    BY DEF QueueNodes
  <2>2. p \in 0 .. 3 /\ ~(p >= REJUDGE_PRIORITY)
    BY JudgeListAssumption DEF REJUDGE_PRIORITY
  <2>3. <<p, i>>[1] = p /\ <<p, i>>[2] = i
    OBVIOUS
  <2>4. <<p, i>> \in Deliverable(j)
    BY <2>1, <2>2, <2>3 DEF Deliverable
  <2> QED BY <1>2, <2>4
<1>4. queue' = queue /\ pin' = pin
  BY DEF NothingGiven
<1> QED BY <1>3, <1>4 DEF NothingUrgent, can_judge

-----------------------------------------------------------------------------
(* While nothing raises and no judge is disabled: the steps.               *)

\* A submission of the queue is given to a judge of the list.
LEMMA GivenQuiet ==
    ASSUME QuietInv, NEW j \in judges, NEW p \in Priority, NEW i \in DOMAIN queue[p],
           Given(j, queue[p][i], p, i),
           UNCHANGED <<phase, finishing, status, job, reloading, problems, is_disabled>>
    PROVE  /\ QueuedOnce' /\ Remembered' /\ Holders'
           /\ \A k \in Judge : NothingUrgent(k) => NothingUrgent(k)'
<1> DEFINE s == queue[p][i]
<1>0. TypeOK /\ UniquePlaces /\ Holders /\ Remembered /\ j \in Judge
  BY DEF QuietInv, QueuedOnce, UniquePlaces, TypeOK
<1>1. s \in Submission /\ s # NoSubmission /\ s \in Queued /\ s \notin Dispatched
  BY <1>0, QueuedAt, Distinguished DEF TypeOK, QuietInv, QueuedOnce
<1>2. /\ queue' = [queue EXCEPT ![p] = Without(queue[p], i)]
      /\ pin' = [pin EXCEPT ![s] = NoPin]
      /\ submission_map' = Put(submission_map, s, j)
      /\ working' = [working EXCEPT ![j] = s]
      /\ sent' = IF phase[j] # "closing" THEN [sent EXCEPT ![j] = @ \cup {s}] ELSE sent
      /\ judges' = judges
  BY DEF Given
<1>3. /\ Dispatched' = Dispatched \cup {s}
      /\ submission_map'[s] = j
      /\ \A x \in Dispatched : submission_map'[x] = submission_map[x]
  <2>1. submission_map' = Put(submission_map, s, j)
    BY <1>2
  <2> QED BY <1>1, <2>1 DEF Put, Dispatched
<1>4. /\ \A q \in Priority : \A k \in DOMAIN queue'[q] :
            \E l \in DOMAIN queue[q] : queue'[q][k] = queue[q][l]
      /\ \A q \in Priority : \A k \in DOMAIN queue'[q] : queue'[q][k] # s
      /\ Queued' = Queued \ {s}
      /\ UniquePlaces'
  BY <1>0, <1>2, TakenOut
<1>5. QueuedOnce'
  <2>1. Queued' \cap Dispatched' = {}
    BY <1>3, <1>4 DEF QuietInv, QueuedOnce
  <2> QED BY <1>4, <2>1 DEF QueuedOnce, UniquePlaces
<1> HIDE DEF s
<1>6. phase[j] \in {"registered", "ready", "closing"}
  BY <1>0 DEF Holders
<1>7. Remembered'
  <2> SUFFICES ASSUME NEW x \in Submission, InProgress(x)'
               PROVE  x \in Queued' \cup Dispatched' \/ Ending(x)'
    BY DEF Remembered
  <2>1. x \in Queued \cup Dispatched \/ Ending(x)
    BY <1>0 DEF Remembered, InProgress
  <2>2. Ending(x) => Ending(x)'
    BY <1>0, <1>2, <1>6 DEF Ending, TypeOK
  <2> QED BY <1>3, <1>4, <2>1, <2>2
<1>8. Holders'
  <2>1. ASSUME NEW k \in Judge, NEW x \in sent'[k] \cup job'[k]
        PROVE  x \in Dispatched' /\ submission_map'[x] = k /\ phase'[k] \in {"registered", "ready"}
    <3>1. CASE x \in sent[k] \cup job[k]
      BY <1>0, <1>3, <3>1 DEF Holders
    <3>2. CASE x \notin sent[k] \cup job[k]
      <4>1. k = j /\ x = s /\ phase[j] # "closing"
        BY <1>0, <1>2, <2>1, <3>2 DEF TypeOK
      <4> QED BY <1>3, <1>6, <4>1
    <3> QED BY <3>1, <3>2
  <2>2. ASSUME NEW k \in Judge PROVE sent'[k] \cap job'[k] = {}
    <3>1. s \notin job[j]
      BY <1>0, <1>1 DEF Holders
    <3>2. sent'[k] = sent[k] \/ (k = j /\ sent'[k] = sent[k] \cup {s})
      BY <1>0, <1>2 DEF TypeOK
    <3> QED BY <1>0, <3>1, <3>2 DEF Holders
  <2>3. ASSUME NEW k \in judges', working'[k] # NoSubmission
        PROVE  working'[k] \in Dispatched' /\ submission_map'[working'[k]] = k
    <3>1. CASE k = j
      BY <1>0, <1>2, <1>3, <3>1 DEF TypeOK
    <3>2. CASE k # j
      BY <1>0, <1>2, <1>3, <2>3, <3>2 DEF TypeOK, Holders
    <3> QED BY <3>1, <3>2
  <2>4. /\ \A k \in Judge : k \in judges' <=> phase'[k] \in {"registered", "ready", "closing"}
        /\ \A k \in Judge : reloading'[k] => phase'[k] \in {"ready", "closing"}
    BY <1>0, <1>2 DEF Holders
  <2>5. \A k \in Judge : phase'[k] = "off" => working'[k] = NoSubmission
    BY <1>0, <1>2, <1>6 DEF Holders, TypeOK
  <2> QED BY <2>1, <2>2, <2>3, <2>4, <2>5 DEF Holders
<1>9. ASSUME NEW k \in Judge, NothingUrgent(k) PROVE NothingUrgent(k)'
  <2>1. \A q \in Priority : \A l \in DOMAIN queue'[q] : pin'[queue'[q][l]] = pin[queue'[q][l]]
    <3> SUFFICES ASSUME NEW q \in Priority, NEW l \in DOMAIN queue'[q]
                 PROVE  pin'[queue'[q][l]] = pin[queue'[q][l]]
      OBVIOUS
    <3>1. queue'[q][l] # s
      BY <1>4
    <3> QED BY <1>0, <1>2, <3>1 DEF TypeOK
  <2> QED BY <1>4, <1>9, <2>1, StaysServed
<1> QED BY <1>5, <1>7, <1>8, <1>9

\* The schedule as it was.
LEMMA NothingQuiet ==
    ASSUME QuietInv, UNCHANGED <<judges, queue, pin, submission_map, working, sent>>,
           UNCHANGED <<phase, finishing, job, reloading, problems, is_disabled>>,
           \A x \in Submission : InProgress(x)' =>
               InProgress(x) \/ x \in Queued \cup Dispatched
    PROVE  /\ QueuedOnce' /\ Remembered' /\ Holders'
           /\ \A k \in Judge : NothingUrgent(k) => NothingUrgent(k)'
<1>1. Queued' = Queued /\ Dispatched' = Dispatched
  BY DEF Queued, Elements, Dispatched
<1>2. QueuedOnce'
  BY <1>1 DEF QuietInv, QueuedOnce
<1>3. Remembered'
  BY <1>1 DEF QuietInv, Remembered, Ending
<1>4. Holders'
  BY <1>1 DEF QuietInv, Holders
<1>5. \A k \in Judge : NothingUrgent(k) => NothingUrgent(k)'
  BY DEF NothingUrgent, can_judge
<1> QED BY <1>2, <1>3, <1>4, <1>5

\* One call of _handle_free_judge for a judge of the list.
LEMMA ServeQuiet ==
    ASSUME Quiet, QuietInv, NEW j \in judges, HandleFreeJudge(j),
           UNCHANGED <<min_tier, phase, finishing, status, job, reloading, problems, is_disabled>>
    PROVE  /\ QueuedOnce' /\ Remembered' /\ Holders' /\ judges' = judges
           /\ \A k \in Judge : NothingUrgent(k) => NothingUrgent(k)'
           /\ Free(current_tier_judges)' \subseteq Free(current_tier_judges)
           /\ j \in Free(current_tier_judges)' => NothingUrgent(j)'
<1>0. TypeOK /\ j \in Judge
  BY DEF QuietInv, TypeOK
<1>1. CASE NothingGiven
  <2>1. current_tier_judges' = current_tier_judges
    BY <1>1 DEF NothingGiven, current_tier_judges, TierJudges
  <2>2. Free(current_tier_judges)' = Free(current_tier_judges)
    BY <1>1, <2>1 DEF NothingGiven, Free
  <2>3. ASSUME j \in Free(current_tier_judges)' PROVE NothingUrgent(j)'
    <3>1. j \in current_tier_judges /\ working'[j] = NoSubmission
      BY <2>1, <2>3 DEF Free
    <3> QED BY <1>1, <3>1, ServedLast
  <2>4. \A x \in Submission : InProgress(x)' => InProgress(x)
    BY DEF InProgress
  <2> QED BY <1>1, <2>2, <2>3, <2>4, NothingQuiet DEF NothingGiven
<1>2. ASSUME NEW p \in Priority, NEW i \in DOMAIN queue[p], Given(j, queue[p][i], p, i)
      PROVE  /\ QueuedOnce' /\ Remembered' /\ Holders' /\ judges' = judges
             /\ \A k \in Judge : NothingUrgent(k) => NothingUrgent(k)'
             /\ Free(current_tier_judges)' \subseteq Free(current_tier_judges)
             /\ j \in Free(current_tier_judges)' => NothingUrgent(j)'
  <2>1. queue[p][i] \in Submission /\ queue[p][i] # NoSubmission
    BY <1>0, Distinguished DEF TypeOK
  <2>2. judges' = judges /\ working' = [working EXCEPT ![j] = queue[p][i]]
    BY <1>2 DEF Given
  <2>3. current_tier_judges' = current_tier_judges
    BY <2>2 DEF current_tier_judges, TierJudges
  <2>4. current_tier_judges \subseteq Judge
    BY <1>0 DEF TypeOK, current_tier_judges, TierJudges
  <2>5. working'[j] # NoSubmission /\ \A k \in Judge : k # j => working'[k] = working[k]
    BY <1>0, <2>1, <2>2 DEF TypeOK
  <2>6. /\ Free(current_tier_judges)' \subseteq Free(current_tier_judges)
        /\ j \notin Free(current_tier_judges)'
    BY <2>3, <2>4, <2>5 DEF Free
  <2> QED BY <1>2, <2>2, <2>6, GivenQuiet
<1> QED BY <1>0, <1>1, <1>2, Serve

\* IdleServed after a step in which no judge became idle.
LEMMA IdleStays ==
    ASSUME QuietInv, Free(current_tier_judges)' \subseteq Free(current_tier_judges),
           \A k \in Judge : NothingUrgent(k) => NothingUrgent(k)',
           \A k \in Free(current_tier_judges)' :
               \/ ~reloading[k] /\ ~ToBeServed(k)
               \/ reloading'[k] \/ ToBeServed(k)' \/ NothingUrgent(k)'
    PROVE  IdleServed'
<1> SUFFICES ASSUME NEW k \in Free(current_tier_judges)'
             PROVE  reloading'[k] \/ ToBeServed(k)' \/ NothingUrgent(k)'
  BY DEF IdleServed
<1>1. k \in Free(current_tier_judges) /\ k \in Judge
  BY DEF QuietInv, TypeOK, Free, current_tier_judges, TierJudges
<1>2. reloading[k] \/ ToBeServed(k) \/ NothingUrgent(k)
  BY <1>1 DEF QuietInv, IdleServed
<1> QED BY <1>1, <1>2

LEMMA WakeNextQuiet ==
    ASSUME Quiet, QuietInv, TypeOK', NEW j \in Judge, WakeNext(j)
    PROVE  QuietInv'
<1>1. /\ j \in judges /\ j \in waking /\ waking' = waking \ {j}
      /\ owner' = IF waking' = {} /\ tail = "none" THEN NoOne ELSE owner
  BY DEF WakeNext, QuietInv, LockHeld
<1>2. UNCHANGED <<min_tier, tail, phase, is_disabled, problems, finishing,
                  reloading, job, admin, status>>
  BY DEF WakeNext
<1>3. /\ QueuedOnce' /\ Remembered' /\ Holders' /\ judges' = judges
      /\ \A k \in Judge : NothingUrgent(k) => NothingUrgent(k)'
      /\ Free(current_tier_judges)' \subseteq Free(current_tier_judges)
      /\ j \in Free(current_tier_judges)' => NothingUrgent(j)'
  <2>1. CASE working[j] = NoSubmission
    BY <1>1, <1>2, <2>1, ServeQuiet DEF WakeNext
  <2>2. CASE working[j] # NoSubmission
    <3>1. UNCHANGED <<judges, queue, pin, submission_map, working, sent>>
      BY <2>2 DEF WakeNext
    <3>2. \A x \in Submission : InProgress(x)' => InProgress(x)
      BY <1>2 DEF InProgress
    <3>3. Free(current_tier_judges)' = Free(current_tier_judges)
      BY <1>2, <3>1 DEF Free, current_tier_judges, TierJudges
    <3>4. j \notin Free(current_tier_judges)'
      BY <2>2, <3>3 DEF Free
    <3> QED BY <1>2, <3>1, <3>2, <3>3, <3>4, NothingQuiet
  <2> QED BY <2>1, <2>2
<1>4. LockHeld'
  BY <1>1, <1>2, <1>3 DEF QuietInv, LockHeld, LockFree
<1>5. NoneDisabled' /\ Tiers'
  BY <1>2, <1>3 DEF QuietInv, NoneDisabled, Tiers
<1>6. IdleServed'
  <2>1. ASSUME NEW k \in Free(current_tier_judges)'
        PROVE  \/ ~reloading[k] /\ ~ToBeServed(k)
               \/ reloading'[k] \/ ToBeServed(k)' \/ NothingUrgent(k)'
    BY <1>1, <1>2, <1>3 DEF ToBeServed, QuietInv, LockHeld, TypeOK
  <2> QED BY <1>3, <2>1, IdleStays
<1> QED BY <1>3, <1>4, <1>5, <1>6 DEF QuietInv

LEMMA ServeOwnerQuiet ==
    ASSUME Quiet, QuietInv, TypeOK', ServeOwner
    PROVE  QuietInv'
<1>1. /\ owner \in judges /\ waking = {} /\ HandleFreeJudge(owner)
      /\ owner' = NoOne /\ tail' = "none"
  BY DEF ServeOwner, QuietInv, LockHeld
<1>2. finishing' = finishing
  BY <1>1 DEF ServeOwner, Raises, QuietInv, Tiers
<1>3. UNCHANGED <<min_tier, waking, phase, is_disabled, problems, finishing,
                  reloading, job, admin, status>>
  BY <1>2 DEF ServeOwner
<1> PICK j \in judges : j = owner
  BY <1>1
<1>0. HandleFreeJudge(j)
  BY <1>1
<1>4. /\ QueuedOnce' /\ Remembered' /\ Holders' /\ judges' = judges
      /\ \A k \in Judge : NothingUrgent(k) => NothingUrgent(k)'
      /\ Free(current_tier_judges)' \subseteq Free(current_tier_judges)
      /\ j \in Free(current_tier_judges)' => NothingUrgent(j)'
  BY <1>0, <1>3, ServeQuiet
<1>5. LockHeld' /\ NoneDisabled' /\ Tiers'
  BY <1>1, <1>3, <1>4 DEF QuietInv, LockHeld, NoneDisabled, Tiers
<1>6. IdleServed'
  <2>1. ASSUME NEW k \in Free(current_tier_judges)'
        PROVE  \/ ~reloading[k] /\ ~ToBeServed(k)
               \/ reloading'[k] \/ ToBeServed(k)' \/ NothingUrgent(k)'
    BY <1>1, <1>3, <1>4 DEF ToBeServed
  <2> QED BY <1>4, <2>1, IdleStays
<1> QED BY <1>4, <1>5, <1>6 DEF QuietInv

LEMMA ServeSoleQuiet ==
    ASSUME Quiet, QuietInv, TypeOK', ServeSole
    PROVE  QuietInv'
<1>1. /\ tail = "sole" /\ waking = {} /\ owner' = NoOne /\ tail' = "none"
      /\ UNCHANGED <<min_tier, waking, phase, is_disabled, problems, finishing,
                     reloading, job, admin, status>>
  BY DEF ServeSole
<1>2. /\ QueuedOnce' /\ Remembered' /\ Holders' /\ judges' = judges
      /\ \A k \in Judge : NothingUrgent(k) => NothingUrgent(k)'
      /\ Free(current_tier_judges)' \subseteq Free(current_tier_judges)
  <2>1. CASE sole_judge # {}
    <3>1. PICK j \in sole_judge : HandleFreeJudge(j)
      BY <2>1 DEF ServeSole
    <3>2. j \in judges
      BY DEF sole_judge, Free, current_tier_judges, TierJudges
    <3> QED BY <1>1, <3>1, <3>2, ServeQuiet
  <2>2. CASE sole_judge = {}
    <3>1. UNCHANGED <<judges, queue, pin, submission_map, working, sent>>
      BY <2>2 DEF ServeSole
    <3>2. \A x \in Submission : InProgress(x)' => InProgress(x)
      BY <1>1 DEF InProgress
    <3>3. Free(current_tier_judges)' = Free(current_tier_judges)
      BY <1>1, <3>1 DEF Free, current_tier_judges, TierJudges
    <3> QED BY <1>1, <3>1, <3>2, <3>3, NothingQuiet
  <2> QED BY <2>1, <2>2
<1>3. LockHeld' /\ NoneDisabled' /\ Tiers'
  BY <1>1, <1>2 DEF QuietInv, LockHeld, NoneDisabled, Tiers
<1>4. IdleServed'
  <2>1. \A k : ~ToBeServed(k)
    BY <1>1 DEF ToBeServed
  <2> QED BY <1>1, <1>2, <2>1, IdleStays
<1> QED BY <1>2, <1>3, <1>4 DEF QuietInv

LEMMA RequestQuiet ==
    ASSUME Quiet, QuietInv, TypeOK', NEW s \in Submission, NEW p \in Priority,
           NEW judge_id \in Pins, Request(s, p, judge_id)
    PROVE  QuietInv'
<1>0. /\ TypeOK /\ UniquePlaces /\ Holders /\ LockFree /\ judges \subseteq Judge
      /\ waking = {} /\ tail = "none"
  BY DEF QuietInv, QueuedOnce, UniquePlaces, TypeOK, Request, LockHeld
<1>1. /\ status' = [status EXCEPT ![s] = "QU"]
      /\ UNCHANGED <<min_tier, lock, phase, is_disabled, problems, finishing,
                     reloading, job, admin>>
  BY DEF Request
<1>2. \A x \in Submission : InProgress(x)' => InProgress(x) \/ x = s
  BY <1>0, <1>1 DEF InProgress, TypeOK
<1> DEFINE candidates == {j \in current_tier_judges : can_judge(j, s, judge_id)}
           available == Available(candidates, p)
<1>3. \/ Known(s) /\ UNCHANGED <<judges, queue, pin, submission_map, working, sent>>
      \/ /\ ~Known(s) /\ UNCHANGED <<queue, pin>>
         /\ \E j \in available : \E outcome \in Outcomes(j) : Submit(j, s, outcome)
      \/ /\ ~Known(s) /\ available = {}
         /\ queue' = [queue EXCEPT ![p] = Append(@, s)]
         /\ pin' = [pin EXCEPT ![s] = judge_id]
         /\ UNCHANGED <<judges, submission_map, working, sent>>
  BY DEF Request
<1>4. \A j \in available : j \in judges
  BY DEF Available, Free, current_tier_judges, TierJudges
<1>5. p < REJUDGE_PRIORITY => available = Free(candidates)
  BY JudgeListAssumption DEF Available, REJUDGE_PRIORITY
<1> HIDE DEF available
<1>6. ASSUME Holders', QueuedOnce', Remembered', judges' = judges,
             \A k \in Free(current_tier_judges) : NothingUrgent(k) => NothingUrgent(k)',
             \A k \in Judge : working'[k] = NoSubmission => working[k] = NoSubmission
      PROVE  QuietInv'
  <2>1. LockHeld' /\ NoneDisabled' /\ Tiers'
    BY <1>1, <1>6 DEF QuietInv, LockHeld, LockFree, NoneDisabled, Tiers, lock
  <2>2. current_tier_judges' = current_tier_judges /\ current_tier_judges \subseteq Judge
    BY <1>0, <1>1, <1>6 DEF current_tier_judges, TierJudges
  <2>3. Free(current_tier_judges)' \subseteq Free(current_tier_judges)
    BY <1>6, <2>2 DEF Free
  <2>4. IdleServed'
    <3> SUFFICES ASSUME NEW k \in Free(current_tier_judges)'
                 PROVE  reloading'[k] \/ NothingUrgent(k)'
      BY DEF IdleServed
    <3>1. k \in Free(current_tier_judges) /\ ~ToBeServed(k)
      BY <1>0, <2>3 DEF ToBeServed
    <3> QED BY <1>1, <1>6, <3>1 DEF QuietInv, IdleServed
  <2> QED BY <1>6, <2>1, <2>4 DEF QuietInv
<1>7. CASE Known(s) /\ UNCHANGED <<judges, queue, pin, submission_map, working, sent>>
  <2>1. /\ QueuedOnce' /\ Remembered' /\ Holders'
        /\ \A k \in Judge : NothingUrgent(k) => NothingUrgent(k)'
    <3>1. \A x \in Submission : InProgress(x)' => InProgress(x) \/ x \in Queued \cup Dispatched
      BY <1>2, <1>7 DEF Known
    <3> QED BY <1>1, <1>7, <3>1, NothingQuiet
  <2>2. \A k \in Free(current_tier_judges) : k \in Judge
    BY <1>0 DEF Free, current_tier_judges, TierJudges
  <2> QED BY <1>6, <1>7, <2>1, <2>2
<1>8. ASSUME ~Known(s), UNCHANGED <<queue, pin>>, NEW j \in judges, Submit(j, s, "ok")
      PROVE  QuietInv'
  <2>1. /\ submission_map' = Put(submission_map, s, j)
        /\ working' = [working EXCEPT ![j] = s]
        /\ sent' = IF phase[j] # "closing" THEN [sent EXCEPT ![j] = @ \cup {s}] ELSE sent
        /\ judges' = judges
    BY <1>8 DEF Submit
  <2>2. j \in Judge /\ s \notin Dispatched /\ s \notin Queued /\ s # NoSubmission
    BY <1>0, <1>8, Distinguished DEF Known
  <2>3. /\ Dispatched' = Dispatched \cup {s}
        /\ submission_map'[s] = j
        /\ \A x \in Dispatched : submission_map'[x] = submission_map[x]
    BY <2>1, <2>2 DEF Put, Dispatched
  <2>4. Queued' = Queued
    BY <1>8 DEF Queued, Elements
  <2>5. QueuedOnce'
    BY <1>8, <2>2, <2>3, <2>4 DEF QuietInv, QueuedOnce
  <2>6. phase[j] \in {"registered", "ready", "closing"}
    BY <1>0, <2>2 DEF Holders
  <2>7. Remembered'
    <3> SUFFICES ASSUME NEW x \in Submission, InProgress(x)', x # s
                 PROVE  x \in Queued' \cup Dispatched' \/ Ending(x)'
      BY <2>3 DEF Remembered
    <3>1. x \in Queued \cup Dispatched \/ Ending(x)
      BY <1>2 DEF QuietInv, Remembered
    <3>2. Ending(x) => Ending(x)'
      BY <1>0, <1>1, <2>1, <2>6 DEF Ending, TypeOK
    <3> QED BY <2>3, <2>4, <3>1, <3>2
  <2>8. Holders'
    <3>1. ASSUME NEW k \in Judge, NEW x \in sent'[k] \cup job'[k]
          PROVE  x \in Dispatched' /\ submission_map'[x] = k /\ phase'[k] \in {"registered", "ready"}
      <4>1. CASE x \in sent[k] \cup job[k]
        BY <1>0, <1>1, <2>3, <4>1 DEF Holders
      <4>2. CASE x \notin sent[k] \cup job[k]
        <5>1. k = j /\ x = s /\ phase[j] # "closing"
          BY <1>0, <1>1, <2>1, <3>1, <4>2 DEF TypeOK
        <5> QED BY <1>1, <2>3, <2>6, <5>1
      <4> QED BY <4>1, <4>2
    <3>2. ASSUME NEW k \in Judge PROVE sent'[k] \cap job'[k] = {}
      <4>1. s \notin job[j]
        BY <1>0, <2>2 DEF Holders
      <4>2. sent'[k] = sent[k] \/ (k = j /\ sent'[k] = sent[k] \cup {s})
        BY <1>0, <2>1 DEF TypeOK
      <4> QED BY <1>0, <1>1, <4>1, <4>2 DEF Holders
    <3>3. ASSUME NEW k \in judges', working'[k] # NoSubmission
          PROVE  working'[k] \in Dispatched' /\ submission_map'[working'[k]] = k
      <4>1. CASE k = j
        BY <1>0, <2>1, <2>3, <4>1 DEF TypeOK
      <4>2. CASE k # j
        BY <1>0, <2>1, <2>3, <3>3, <4>2 DEF TypeOK, Holders
      <4> QED BY <4>1, <4>2
    <3>4. /\ \A k \in Judge : k \in judges' <=> phase'[k] \in {"registered", "ready", "closing"}
          /\ \A k \in Judge : reloading'[k] => phase'[k] \in {"ready", "closing"}
      BY <1>0, <1>1, <2>1 DEF Holders
    <3>5. \A k \in Judge : phase'[k] = "off" => working'[k] = NoSubmission
      BY <1>0, <1>1, <2>1, <2>6 DEF Holders, TypeOK
    <3> QED BY <3>1, <3>2, <3>3, <3>4, <3>5 DEF Holders
  <2>9. \A k : NothingUrgent(k) => NothingUrgent(k)'
    BY <1>1, <1>8 DEF NothingUrgent, can_judge
  <2>10. \A k \in Judge : working'[k] = NoSubmission => working[k] = NoSubmission
    BY <1>0, <2>1, <2>2 DEF TypeOK
  <2> QED BY <1>6, <2>1, <2>5, <2>7, <2>8, <2>9, <2>10
<1>9. ASSUME ~Known(s), available = {},
             queue' = [queue EXCEPT ![p] = Append(@, s)],
             pin' = [pin EXCEPT ![s] = judge_id],
             UNCHANGED <<judges, submission_map, working, sent>>
      PROVE  QuietInv'
  <2>1. s \notin Dispatched /\ s \notin Queued
    BY <1>9 DEF Known
  <2>2. /\ \A q \in Priority : \A k \in DOMAIN queue'[q] :
                 \/ \E l \in DOMAIN queue[q] : queue'[q][k] = queue[q][l]
                 \/ q = p /\ queue'[q][k] = s
        /\ Queued' = Queued \cup {s}
        /\ UniquePlaces'
    BY <1>0, <1>9, <2>1, PutLast
  <2>3. Dispatched' = Dispatched
    BY <1>9 DEF Dispatched
  <2>4. QueuedOnce'
    <3>1. Queued' \cap Dispatched' = {}
      BY <2>1, <2>2, <2>3 DEF QuietInv, QueuedOnce
    <3> QED BY <2>2, <3>1 DEF QueuedOnce, UniquePlaces
  <2>5. Remembered'
    BY <1>1, <1>2, <1>9, <2>2, <2>3 DEF QuietInv, Remembered, Ending
  <2>6. Holders'
    BY <1>0, <1>1, <1>9, <2>3 DEF Holders
  <2>7. ASSUME NEW k \in Free(current_tier_judges), NothingUrgent(k)
        PROVE  NothingUrgent(k)'
    <3>1. p < REJUDGE_PRIORITY => ~can_judge(k, s, judge_id)
      <4>1. k \in candidates => k \in Free(candidates)
        BY DEF Free
      <4>2. k \in current_tier_judges
        BY DEF Free
      <4> QED BY <1>5, <1>9, <4>1, <4>2
    <3>2. ASSUME NEW q \in Priority, q < REJUDGE_PRIORITY, NEW l \in DOMAIN queue'[q]
          PROVE  \/ /\ \E m \in DOMAIN queue[q] : queue'[q][l] = queue[q][m]
                    /\ pin'[queue'[q][l]] = pin[queue'[q][l]]
                 \/ ~can_judge(k, queue'[q][l], pin'[queue'[q][l]])
      <4>1. CASE queue'[q][l] = s
        <5>1. q = p
          BY <2>1, <2>2, <4>1, QueuedAt
        <5>2. pin'[s] = judge_id
          BY <1>0, <1>9 DEF TypeOK
        <5> QED BY <3>1, <3>2, <4>1, <5>1, <5>2
      <4>2. CASE queue'[q][l] # s
        BY <1>0, <1>9, <2>2, <4>2 DEF TypeOK
      <4> QED BY <4>1, <4>2
    <3> QED BY <1>1, <2>7, <3>2, StaysServed
  <2> QED BY <1>6, <1>9, <2>4, <2>5, <2>6, <2>7
<1> QED BY <1>3, <1>4, <1>7, <1>8, <1>9, OnlyOk

LEMMA AbortQuiet ==
    ASSUME Quiet, QuietInv, TypeOK', NEW s \in Submission, Abort(s)
    PROVE  QuietInv'
<1>0. /\ TypeOK /\ UniquePlaces /\ LockFree
  BY DEF QuietInv, QueuedOnce, UniquePlaces, Abort
<1>1. /\ status' = [status EXCEPT ![s] = "D"]
      /\ UNCHANGED <<judges, submission_map, min_tier, lock, handler, process, admin>>
  BY DEF Abort
<1>2. Dispatched' = Dispatched
  BY <1>1 DEF Dispatched
<1>3. Holders' /\ LockHeld' /\ NoneDisabled' /\ Tiers'
  BY <1>1, <1>2 DEF QuietInv, Holders, LockHeld, LockFree, NoneDisabled, Tiers,
                    lock, handler, process
<1>4. /\ QueuedOnce'
      /\ \A x \in Queued : x # s => x \in Queued'
      /\ \A k \in Judge : NothingUrgent(k) => NothingUrgent(k)'
  <2>1. CASE UNCHANGED <<queue, pin>>
    <3>1. Queued' = Queued
      BY <2>1 DEF Queued, Elements
    <3> QED BY <1>1, <1>2, <2>1, <3>1 DEF QuietInv, QueuedOnce, NothingUrgent, can_judge, handler
  <2>2. ASSUME NEW p \in Priority, NEW i \in DOMAIN queue[p], queue[p][i] = s,
               queue' = [queue EXCEPT ![p] = Without(@, i)],
               pin' = [pin EXCEPT ![s] = NoPin]
        PROVE  /\ QueuedOnce'
               /\ \A x \in Queued : x # s => x \in Queued'
               /\ \A k \in Judge : NothingUrgent(k) => NothingUrgent(k)'
    <3>0. /\ \A q \in Priority : \A k \in DOMAIN queue'[q] :
                \E l \in DOMAIN queue[q] : queue'[q][k] = queue[q][l]
          /\ \A q \in Priority : \A k \in DOMAIN queue'[q] : queue'[q][k] # queue[p][i]
          /\ Queued' = Queued \ {queue[p][i]}
          /\ UniquePlaces'
      <4>1. queue' = [queue EXCEPT ![p] = Without(queue[p], i)]
        BY <2>2
      <4> QED BY <1>0, <4>1, TakenOut
    <3>1. /\ \A q \in Priority : \A k \in DOMAIN queue'[q] :
                \E l \in DOMAIN queue[q] : queue'[q][k] = queue[q][l]
          /\ \A q \in Priority : \A k \in DOMAIN queue'[q] : queue'[q][k] # s
          /\ Queued' = Queued \ {s}
          /\ UniquePlaces'
      BY <2>2, <3>0
    <3>2. QueuedOnce'
      BY <1>2, <3>1 DEF QuietInv, QueuedOnce, UniquePlaces
    <3>3. ASSUME NEW k \in Judge, NothingUrgent(k) PROVE NothingUrgent(k)'
      <4>1. ASSUME NEW q \in Priority, NEW l \in DOMAIN queue'[q]
            PROVE  pin'[queue'[q][l]] = pin[queue'[q][l]]
        <5>1. queue'[q][l] # s
          BY <3>1
        <5> QED BY <1>0, <2>2, <5>1 DEF TypeOK
      <4> QED BY <1>1, <3>1, <3>3, <4>1, StaysServed DEF handler
    <3> QED BY <3>1, <3>2, <3>3
  <2> QED BY <2>1, <2>2 DEF Abort
<1>5. Remembered'
  <2> SUFFICES ASSUME NEW x \in Submission, InProgress(x)'
               PROVE  x \in Queued' \cup Dispatched' \/ Ending(x)'
    BY DEF Remembered
  <2>1. InProgress(x) /\ x # s
    BY <1>0, <1>1 DEF InProgress, TypeOK
  <2>2. Ending(x)' <=> Ending(x)
    BY <1>1 DEF Ending, handler
  <2> QED BY <1>2, <1>4, <2>1, <2>2 DEF QuietInv, Remembered
<1>6. IdleServed'
  <2>1. Free(current_tier_judges)' = Free(current_tier_judges)
    BY <1>1 DEF Free, current_tier_judges, TierJudges, handler
  <2>2. \A k : ~ToBeServed(k)
    BY <1>0 DEF ToBeServed, QuietInv, LockHeld
  <2>3. \A k : reloading'[k] = reloading[k]
    BY <1>1 DEF handler
  <2> QED BY <1>4, <2>1, <2>2, <2>3, IdleStays
<1> QED BY <1>3, <1>4, <1>5, <1>6 DEF QuietInv

\* An action that leaves the schedule and the lock alone, makes no judge idle
\* and changes the problems only of one that announces them.
LEMMA HandlerQuiet ==
    ASSUME QuietInv, TypeOK', Holders', Remembered',
           UNCHANGED <<schedule, lock, is_disabled>>, UNCHANGED admin \/ NoneDisabled',
           \A k \in judges : working'[k] = NoSubmission => working[k] = NoSubmission,
           \A k \in judges : \/ problems'[k] = problems[k] /\ (reloading'[k] <=> reloading[k])
                             \/ working'[k] = NoSubmission => reloading'[k]
    PROVE  QuietInv'
<1>1. Queued' = Queued /\ Dispatched' = Dispatched
  BY SameSchedule
<1>2. QueuedOnce' /\ LockHeld' /\ NoneDisabled' /\ Tiers'
  BY <1>1 DEF QuietInv, QueuedOnce, LockHeld, LockFree, NoneDisabled, Tiers, schedule, lock
<1>3. current_tier_judges' = current_tier_judges /\ current_tier_judges \subseteq judges
  BY DEF current_tier_judges, TierJudges, schedule
<1>4. IdleServed'
  <2> SUFFICES ASSUME NEW k \in Free(current_tier_judges)'
               PROVE  reloading'[k] \/ ToBeServed(k)' \/ NothingUrgent(k)'
    BY DEF IdleServed
  <2>1. k \in Free(current_tier_judges) /\ k \in judges /\ working'[k] = NoSubmission
    BY <1>3 DEF Free
  <2>2. reloading[k] \/ ToBeServed(k) \/ NothingUrgent(k)
    BY <2>1 DEF QuietInv, IdleServed
  <2>3. ToBeServed(k) => ToBeServed(k)'
    BY DEF ToBeServed, lock
  <2>4. CASE problems'[k] = problems[k] /\ (reloading'[k] <=> reloading[k])
    <3>1. NothingUrgent(k) => NothingUrgent(k)'
      BY <2>4 DEF NothingUrgent, can_judge, schedule
    <3> QED BY <2>2, <2>3, <2>4, <3>1
  <2> QED BY <2>1, <2>4
<1> QED BY <1>2, <1>4 DEF QuietInv

\* The connections of a set of judges are lost.
LEMMA CloseQuiet ==
    ASSUME QuietInv, TypeOK', NEW closed \in SUBSET judges,
           \A j \in closed : phase[j] = "ready",
           phase' = [j \in Judge |-> IF j \in closed THEN "closing" ELSE phase[j]],
           sent' = [j \in Judge |-> IF j \in closed THEN {} ELSE sent[j]],
           job' = [j \in Judge |-> IF j \in closed THEN {} ELSE job[j]],
           UNCHANGED <<schedule, lock, working, is_disabled, problems, finishing,
                       reloading, admin, status>>
    PROVE  QuietInv'
<1>1. Queued' = Queued /\ Dispatched' = Dispatched
  BY SameSchedule
<1>2. Holders'
  <2>1. Holders /\ TypeOK
    BY DEF QuietInv
  <2>2. \A j \in Judge : \A s \in sent'[j] \cup job'[j] : s \in sent[j] \cup job[j] /\ phase'[j] = phase[j]
    OBVIOUS
  <2>3. \A j \in Judge : sent'[j] \cap job'[j] \subseteq sent[j] \cap job[j]
    OBVIOUS
  <2>4. \A j \in Judge : phase'[j] = phase[j] \/ (phase[j] = "ready" /\ phase'[j] = "closing")
    OBVIOUS
  <2>5. submission_map' = submission_map /\ judges' = judges /\ working' = working /\ reloading' = reloading
    BY DEF schedule
  <2> QED BY <1>1, <2>1, <2>2, <2>3, <2>4, <2>5 DEF Holders
<1>3. Remembered'
  <2>1. \A x : Ending(x) => Ending(x)'
    BY DEF Ending
  <2> QED BY <1>1, <2>1 DEF QuietInv, Remembered, InProgress
<1> QED BY <1>2, <1>3, HandlerQuiet

LEMMA DropQuiet ==
    ASSUME QuietInv, TypeOK', NEW j \in Judge, Drop(j)
    PROVE  QuietInv'
<1> DEFINE closed == {j}
<1>1. closed \in SUBSET judges /\ \A k \in closed : phase[k] = "ready"
  BY DEF Drop, QuietInv, Holders
<1>2. /\ phase' = [k \in Judge |-> IF k \in closed THEN "closing" ELSE phase[k]]
      /\ sent' = [k \in Judge |-> IF k \in closed THEN {} ELSE sent[k]]
      /\ job' = [k \in Judge |-> IF k \in closed THEN {} ELSE job[k]]
  BY DEF Drop, QuietInv, TypeOK
<1>3. UNCHANGED <<schedule, lock, working, is_disabled, problems, finishing,
                  reloading, admin, status>>
  BY DEF Drop
<1> HIDE DEF closed
<1> QED BY <1>1, <1>2, <1>3, CloseQuiet

LEMMA DisconnectJudgeQuiet ==
    ASSUME QuietInv, TypeOK', NEW n \in Names, DisconnectJudge(n)
    PROVE  QuietInv'
<1> DEFINE closed == {j \in judges : NameOf[j] = n /\ phase[j] = "ready"}
<1>1. /\ phase' = [j \in Judge |-> IF j \in closed THEN "closing" ELSE phase[j]]
      /\ sent' = [j \in Judge |-> IF j \in closed THEN {} ELSE sent[j]]
      /\ job' = [j \in Judge |-> IF j \in closed THEN {} ELSE job[j]]
      /\ UNCHANGED <<schedule, lock, working, is_disabled, problems, finishing,
                     reloading, admin, status>>
  BY Zenon DEF DisconnectJudge
<1>2. closed \in SUBSET judges /\ \A j \in closed : phase[j] = "ready"
  OBVIOUS
<1> HIDE DEF closed
<1> QED BY <1>1, <1>2, CloseQuiet

LEMMA ConnectedQuiet ==
    ASSUME QuietInv, TypeOK', NEW j \in Judge, LoadRow(j) \/ CacheDisabled(j) \/ Connected(j)
    PROVE  QuietInv'
<1>0. TypeOK /\ Holders /\ NameOf[j] \in Names
  BY DEF QuietInv, Names
<1>1. UNCHANGED <<schedule, lock, working, problems, finishing, reloading, process, status>>
  BY DEF LoadRow, CacheDisabled, Connected, handler
<1>2. is_disabled' = is_disabled /\ NoneDisabled'
  <2>0. /\ is_disabled \in [Judge -> BOOLEAN] /\ db_disabled \in [Names -> BOOLEAN]
        /\ row \in [Judge -> [step : RowStep, disabled : BOOLEAN]]
        /\ NoneDisabled
    BY <1>0 DEF QuietInv, TypeOK
  <2>1. CASE LoadRow(j)
    BY <1>0, <2>0, <2>1 DEF LoadRow, NoneDisabled, handler
  <2>2. CASE CacheDisabled(j)
    BY <2>0, <2>2 DEF CacheDisabled, NoneDisabled
  <2>3. CASE Connected(j)
    BY <1>0, <2>0, <2>3 DEF Connected, NoneDisabled, Unread
  <2> QED BY <2>1, <2>2, <2>3
<1>3. Queued' = Queued /\ Dispatched' = Dispatched
  BY <1>1, SameSchedule
<1>4. CASE phase' = phase
  <2>1. Holders'
    BY <1>0, <1>1, <1>3, <1>4 DEF Holders, schedule, process
  <2>2. Remembered'
    BY <1>1, <1>3, <1>4 DEF QuietInv, Remembered, InProgress, Ending
  <2> QED BY <1>1, <1>2, <2>1, <2>2, HandlerQuiet
<1>5. CASE phase[j] = "registered" /\ phase' = [phase EXCEPT ![j] = "ready"]
  <2>1. Holders'
    BY <1>0, <1>1, <1>3, <1>5 DEF Holders, TypeOK, schedule, process
  <2>2. \A x : Ending(x) => Ending(x)'
    BY <1>0, <1>1, <1>5 DEF Ending, TypeOK
  <2>3. Remembered'
    BY <1>1, <1>3, <2>2 DEF QuietInv, Remembered, InProgress
  <2> QED BY <1>1, <1>2, <2>1, <2>3, HandlerQuiet
<1> QED BY <1>4, <1>5 DEF LoadRow, CacheDisabled, Connected, handler

LEMMA AcknowledgeQuiet ==
    ASSUME QuietInv, TypeOK', NEW j \in Judge, NEW s \in Submission, Acknowledge(j, s)
    PROVE  QuietInv'
<1>0. TypeOK /\ Holders /\ Remembered /\ phase[j] = "ready" /\ s \in sent[j]
  BY DEF QuietInv, Acknowledge, Reading
<1>1. UNCHANGED <<schedule, lock, working, is_disabled, problems, finishing,
                  reloading, admin>>
  BY DEF Acknowledge
<1>2. Queued' = Queued /\ Dispatched' = Dispatched /\ s \in Dispatched
  BY <1>0, <1>1, SameSchedule DEF Holders
<1>3. Remembered'
  <2>1. \A x \in Submission : InProgress(x)' => InProgress(x) \/ x = s
    BY <1>0 DEF Acknowledge, InProgress, TypeOK
  <2>2. \A k \in Judge : phase[k] = "removed" => phase'[k] = "removed"
    BY <1>0 DEF Acknowledge, TypeOK
  <2>3. \A x : Ending(x) => Ending(x)'
    BY <1>1, <2>2 DEF Ending
  <2> QED BY <1>0, <1>2, <2>1, <2>3 DEF Remembered
<1>4. Holders'
  <2>1. ASSUME NEW k \in Judge
        PROVE  /\ \/ phase'[k] = phase[k]
                  \/ phase[k] = "ready" /\ phase'[k] = "closing" /\ sent'[k] = {} /\ job'[k] = {}
               /\ sent'[k] \cup job'[k] \subseteq sent[k] \cup job[k]
               /\ sent'[k] \cap job'[k] \subseteq sent[k] \cap job[k]
    <3>1. CASE k # j
      BY <1>0, <3>1 DEF Acknowledge, TypeOK
    <3>2. CASE k = j /\ working[j] = s
      <4>1. sent'[j] = sent[j] \ {s} /\ job'[j] = job[j] \cup {s} /\ phase' = phase
        BY <1>0, <3>2 DEF Acknowledge, TypeOK
      <4> QED BY <1>0, <3>2, <4>1
    <3>3. CASE k = j /\ working[j] # s
      <4>1. sent'[j] = {} /\ job'[j] = {} /\ phase'[j] = "closing"
        BY <1>0, <3>3 DEF Acknowledge, TypeOK
      <4> QED BY <1>0, <3>3, <4>1
    <3> QED BY <3>1, <3>2, <3>3
  <2>2. submission_map' = submission_map /\ judges' = judges /\ working' = working /\ reloading' = reloading
    BY <1>1 DEF schedule
  <2> QED BY <1>0, <1>2, <2>1, <2>2 DEF Holders
<1> QED BY <1>1, <1>3, <1>4, HandlerQuiet

LEMMA RecordQuiet ==
    ASSUME QuietInv, TypeOK', NEW j \in Judge, Record(j)
    PROVE  QuietInv'
<1>0. TypeOK /\ Holders /\ Remembered /\ finishing[j] \in Submission
  BY DEF QuietInv, Record, TypeOK
<1>1. /\ status' = [status EXCEPT ![finishing[j]] = "D"]
      /\ finishing' = [finishing EXCEPT ![j] = NoSubmission]
      /\ UNCHANGED <<schedule, lock, phase, working, is_disabled, problems,
                     reloading, process, admin>>
  BY DEF Record
<1>2. Queued' = Queued /\ Dispatched' = Dispatched
  BY <1>1, SameSchedule
<1>3. Holders'
  BY <1>0, <1>1, <1>2 DEF Holders, schedule, process
<1>4. Remembered'
  <2> SUFFICES ASSUME NEW x \in Submission, InProgress(x)'
               PROVE  x \in Queued' \cup Dispatched' \/ Ending(x)'
    BY DEF Remembered
  <2>1. InProgress(x) /\ x # finishing[j]
    BY <1>0, <1>1 DEF InProgress, TypeOK
  <2>2. Ending(x) => Ending(x)'
    BY <1>0, <1>1, <2>1 DEF Ending, TypeOK
  <2> QED BY <1>0, <1>2, <2>1, <2>2 DEF Remembered
<1> QED BY <1>1, <1>3, <1>4, HandlerQuiet

LEMMA SupportedProblemsQuiet ==
    ASSUME QuietInv, TypeOK', NEW j \in Judge, SupportedProblems(j)
    PROVE  QuietInv'
<1>0. TypeOK /\ Holders /\ phase[j] = "ready" /\ judges \subseteq Judge
  BY DEF QuietInv, SupportedProblems, Reading, TypeOK
<1>1. /\ \E ps \in ProblemSets : problems' = [problems EXCEPT ![j] = ps]
      /\ reloading' = [reloading EXCEPT ![j] = working[j] = NoSubmission]
      /\ UNCHANGED <<schedule, lock, phase, working, is_disabled, finishing,
                     process, admin, status>>
  BY DEF SupportedProblems
<1>2. Queued' = Queued /\ Dispatched' = Dispatched
  BY <1>1, SameSchedule
<1>3. Holders'
  BY <1>0, <1>1, <1>2 DEF Holders, TypeOK, schedule, process
<1>4. Remembered'
  BY <1>1, <1>2 DEF QuietInv, Remembered, InProgress, Ending
<1>5. \A k \in judges : k # j => problems'[k] = problems[k] /\ reloading'[k] = reloading[k]
  BY <1>0, <1>1 DEF TypeOK
<1>6. working'[j] = NoSubmission => reloading'[j]
  BY <1>0, <1>1 DEF TypeOK
<1> QED BY <1>1, <1>3, <1>4, <1>5, <1>6, HandlerQuiet

\* What the judge had left becomes IE.
LEMMA DisconnectedQuiet ==
    ASSUME QuietInv, TypeOK', NEW j \in Judge, Disconnected(j)
    PROVE  QuietInv'
<1>0. TypeOK /\ Holders /\ Remembered
  BY DEF QuietInv
<1>1. /\ phase[j] = "removed" /\ phase' = [phase EXCEPT ![j] = "off"]
      /\ status' = IF working[j] = NoSubmission THEN status ELSE [status EXCEPT ![working[j]] = "D"]
      /\ working' = [working EXCEPT ![j] = NoSubmission]
      /\ problems' = [problems EXCEPT ![j] = {}]
      /\ UNCHANGED <<schedule, lock, finishing, reloading, process, admin>>
  BY DEF Disconnected, IEOnDisconnect
<1>2. j \notin judges /\ is_disabled' = is_disabled
  <2>1. j \notin judges
    BY <1>0, <1>1 DEF Holders
  <2>2. is_disabled[j] = FALSE /\ is_disabled' = [is_disabled EXCEPT ![j] = FALSE]
    BY <1>0 DEF Disconnected, QuietInv, NoneDisabled, TypeOK
  <2>3. is_disabled' = is_disabled
    BY <1>0, <2>2 DEF TypeOK
  <2> QED BY <2>1, <2>3
<1>3. Queued' = Queued /\ Dispatched' = Dispatched
  BY <1>1, SameSchedule
<1>4. Remembered'
  <2> SUFFICES ASSUME NEW x \in Submission, InProgress(x)'
               PROVE  x \in Queued' \cup Dispatched' \/ Ending(x)'
    BY DEF Remembered
  <2>1. InProgress(x) /\ x # working[j] /\ x # NoSubmission
    BY <1>0, <1>1, Distinguished DEF InProgress, TypeOK
  <2>2. Ending(x) => Ending(x)'
    BY <1>0, <1>1, <2>1 DEF Ending, TypeOK
  <2> QED BY <1>0, <1>3, <2>1, <2>2 DEF Remembered
<1>5. \A k \in judges : working'[k] = working[k] /\ problems'[k] = problems[k]
  BY <1>0, <1>1, <1>2 DEF TypeOK
<1>6. Holders'
  <2>1. \A k \in Judge : phase'[k] = phase[k] \/ (k = j /\ phase[j] = "removed" /\ phase'[j] = "off")
    BY <1>0, <1>1 DEF TypeOK
  <2>2. /\ submission_map' = submission_map /\ judges' = judges /\ reloading' = reloading
        /\ sent' = sent /\ job' = job
    BY <1>1 DEF schedule, process
  <2>3. \A k \in Judge : phase'[k] = "off" => working'[k] = NoSubmission
    BY <1>0, <1>1 DEF Holders, TypeOK
  <2> QED BY <1>0, <1>3, <1>5, <2>1, <2>2, <2>3 DEF Holders
<1> QED BY <1>1, <1>2, <1>4, <1>5, <1>6, HandlerQuiet

\* Without disabled judges _update_min_tier finds the least tier, and serves the
\* judges of the new tier that were not in the current one.
LEMMA UpdateQuiet ==
    ASSUME QuietInv, NEW js \in SUBSET Judge, UpdateMinTier(js, is_disabled)
    PROVE  /\ \A k \in js : min_tier' <= TierOf[k]
           /\ min_tier' = NoTier => js = {}
           /\ waking' \subseteq js
           /\ \A k \in js \cap judges : TierOf[k] = min_tier' =>
                 k \in waking' \/ k \in current_tier_judges
<1>1. EnabledTiers(js, is_disabled) = {TierOf[j] : j \in js}
  BY DEF QuietInv, NoneDisabled, EnabledTiers
<1>2. \A j \in js : TierOf[j] \in Nat
  BY JudgeListAssumption
<1>3. \A k \in js : min_tier' \in Nat /\ min_tier' <= TierOf[k]
  BY <1>1, <1>2 DEF UpdateMinTier
<1>4. min_tier' = NoTier => js = {}
  BY <1>3 DEF NoTier
<1>5. waking' \subseteq js
  BY DEF UpdateMinTier, Woken, TierJudges
<1>6. ASSUME NEW k \in js \cap judges, TierOf[k] = min_tier'
      PROVE  k \in waking' \/ k \in current_tier_judges
  <2>1. ~is_disabled[k] /\ TierOf[k] \in Nat
    BY <1>2 DEF QuietInv, NoneDisabled
  <2>2. min_tier # NoTier /\ min_tier <= TierOf[k] /\ min_tier \in Nat
    BY DEF QuietInv, Tiers, TypeOK
  <2>3. CASE min_tier = TierOf[k]
    BY <2>1, <2>3 DEF current_tier_judges, TierJudges
  <2>4. CASE min_tier # TierOf[k]
    <3>1. min_tier' > min_tier /\ min_tier' # NoTier
      BY <1>6, <2>1, <2>2, <2>4 DEF NoTier
    <3> QED BY <1>6, <2>1, <2>2, <3>1 DEF UpdateMinTier, Woken, TierJudges
  <2> QED BY <2>3, <2>4
<1> QED BY <1>3, <1>4, <1>5, <1>6

LEMMA RegisterQuiet ==
    ASSUME QuietInv, TypeOK', NEW j \in Judge, Register(j)
    PROVE  QuietInv'
<1>0. /\ TypeOK /\ Holders /\ Remembered /\ LockFree /\ waking = {} /\ tail = "none"
      /\ phase[j] = "off"
  BY DEF QuietInv, LockHeld, Register
<1>1. /\ phase' = [phase EXCEPT ![j] = "registered"]
      /\ \E ps \in ProblemSets : problems' = [problems EXCEPT ![j] = ps]
      /\ judges' = judges \cup {j} /\ owner' = j /\ tail' = "free"
      /\ UNCHANGED <<queue, pin, submission_map, working, is_disabled, finishing,
                     reloading, process, admin, status>>
  BY DEF Register
<1>2. /\ \A k \in judges' : min_tier' <= TierOf[k]
      /\ min_tier' = NoTier => judges' = {}
      /\ waking' \subseteq judges'
      /\ \A k \in judges : TierOf[k] = min_tier' => k \in waking' \/ k \in current_tier_judges
  <2>1. judges \cup {j} \in SUBSET Judge /\ UpdateMinTier(judges \cup {j}, is_disabled)
    BY <1>0 DEF Register, TypeOK
  <2> QED BY <1>1, <2>1, UpdateQuiet
<1>3. Queued' = Queued /\ Dispatched' = Dispatched
  BY <1>1 DEF Queued, Elements, Dispatched
<1>4. QueuedOnce'
  BY <1>1, <1>3 DEF QuietInv, QueuedOnce
<1>5. Remembered'
  <2>1. \A x : Ending(x) => Ending(x)'
    BY <1>0, <1>1 DEF Ending, TypeOK
  <2> QED BY <1>1, <1>3, <2>1 DEF QuietInv, Remembered, InProgress
<1>6. Holders'
  <2>1. \A k \in Judge : phase'[k] = phase[k] \/ (k = j /\ phase'[k] = "registered")
    BY <1>0, <1>1 DEF TypeOK
  <2>2. phase'[j] = "registered"
    BY <1>0, <1>1 DEF TypeOK
  <2>3. ASSUME NEW k \in judges', working'[k] # NoSubmission
        PROVE  working'[k] \in Dispatched' /\ submission_map'[working'[k]] = k
    <3>1. CASE k \in judges
      BY <1>0, <1>1, <1>3, <2>3, <3>1 DEF Holders
    <3>2. CASE k = j
      BY <1>0, <1>1, <2>3, <3>2 DEF Holders
    <3> QED BY <1>1, <3>1, <3>2
  <2> QED BY <1>0, <1>1, <1>3, <2>1, <2>2, <2>3 DEF Holders, process
<1>7. LockHeld' /\ NoneDisabled' /\ Tiers'
  BY <1>0, <1>1, <1>2, Distinguished DEF QuietInv, LockHeld, LockFree, NoneDisabled, Tiers
<1>8. IdleServed'
  <2> SUFFICES ASSUME NEW k \in Free(current_tier_judges)', k # j, k \notin waking'
               PROVE  reloading'[k] \/ NothingUrgent(k)'
    BY <1>1 DEF IdleServed, ToBeServed
  <2>1. k \in judges /\ TierOf[k] = min_tier' /\ working[k] = NoSubmission /\ k \in Judge
    BY <1>0, <1>1 DEF Free, current_tier_judges, TierJudges, TypeOK
  <2>2. k \in Free(current_tier_judges) /\ ~ToBeServed(k)
    BY <1>0, <1>2, <2>1 DEF Free, ToBeServed
  <2>3. problems'[k] = problems[k]
    BY <1>0, <1>1, <2>1 DEF TypeOK
  <2>4. NothingUrgent(k) => NothingUrgent(k)'
    BY <1>1, <2>3 DEF NothingUrgent, can_judge
  <2> QED BY <1>1, <2>2, <2>4 DEF QuietInv, IdleServed
<1> QED BY <1>4, <1>5, <1>6, <1>7, <1>8 DEF QuietInv

LEMMA RemoveQuiet ==
    ASSUME QuietInv, TypeOK', NEW j \in Judge, Remove(j)
    PROVE  QuietInv'
<1>0. /\ TypeOK /\ Holders /\ Remembered /\ LockFree /\ waking = {} /\ tail = "none"
      /\ phase[j] = "closing" /\ ~reloading[j] /\ judges \subseteq Judge
  BY DEF QuietInv, LockHeld, Remove, TypeOK
<1>1. /\ phase' = [phase EXCEPT ![j] = "removed"]
      /\ submission_map' = IF working[j] = NoSubmission THEN submission_map
                           ELSE Del(submission_map, working[j])
      /\ judges' = judges \ {j} /\ owner' = j /\ tail' = "sole"
      /\ UNCHANGED <<queue, pin, working, is_disabled, problems, finishing,
                     reloading, process, admin, status>>
  BY DEF Remove
<1>2. /\ \A k \in judges' : min_tier' <= TierOf[k]
      /\ min_tier' = NoTier => judges' = {}
      /\ waking' \subseteq judges'
      /\ \A k \in judges' : TierOf[k] = min_tier' => k \in waking' \/ k \in current_tier_judges
  <2>1. judges \ {j} \in SUBSET Judge /\ UpdateMinTier(judges \ {j}, is_disabled)
    BY <1>0, <1>1 DEF Remove
  <2> QED BY <1>1, <2>1, UpdateQuiet
<1>3. j \in judges
  BY <1>0 DEF Holders
<1>4. /\ \A x \in Dispatched : x # working[j] => x \in Dispatched' /\ submission_map'[x] = submission_map[x]
      /\ Dispatched' \subseteq Dispatched
  BY <1>1 DEF Del, Dispatched
<1>5. Queued' = Queued
  BY <1>1 DEF Queued, Elements
<1>6. QueuedOnce'
  BY <1>1, <1>4, <1>5 DEF QuietInv, QueuedOnce
<1>7. Remembered'
  <2> SUFFICES ASSUME NEW x \in Submission, InProgress(x)'
               PROVE  x \in Queued' \cup Dispatched' \/ Ending(x)'
    BY DEF Remembered
  <2>1. x \in Queued \cup Dispatched \/ Ending(x)
    BY <1>0, <1>1 DEF Remembered, InProgress
  <2>2. Ending(x) => Ending(x)'
    BY <1>0, <1>1 DEF Ending, TypeOK
  <2>3. x = working[j] => Ending(x)'
    BY <1>0, <1>1 DEF Ending, TypeOK
  <2> QED BY <1>4, <1>5, <2>1, <2>2, <2>3
<1>8. Holders'
  <2>1. \A k \in Judge : phase'[k] = phase[k] \/ (k = j /\ phase'[k] = "removed")
    BY <1>0, <1>1 DEF TypeOK
  <2>2. phase'[j] = "removed"
    BY <1>0, <1>1 DEF TypeOK
  <2>3. working[j] # NoSubmission => submission_map[working[j]] = j
    BY <1>0, <1>3 DEF Holders
  <2>4. ASSUME NEW k \in Judge, NEW x \in sent'[k] \cup job'[k]
        PROVE  x \in Dispatched' /\ submission_map'[x] = k /\ phase'[k] \in {"registered", "ready"}
    <3>1. x \in Dispatched /\ submission_map[x] = k /\ phase[k] \in {"registered", "ready"}
      BY <1>0, <1>1, <2>4 DEF Holders, process
    <3>2. k # j
      BY <1>0, <3>1
    <3>3. x # NoSubmission
      BY <1>0, <3>1, Distinguished DEF TypeOK
    <3> QED BY <1>4, <2>1, <2>3, <3>1, <3>2, <3>3
  <2>5. ASSUME NEW k \in judges', working'[k] # NoSubmission
        PROVE  working'[k] \in Dispatched' /\ submission_map'[working'[k]] = k
    <3>1. k \in judges /\ k # j /\ working'[k] = working[k]
      BY <1>1
    <3>2. working[k] \in Dispatched /\ submission_map[working[k]] = k
      BY <1>0, <2>5, <3>1 DEF Holders
    <3>3. working[k] # working[j]
      BY <2>3, <2>5, <3>1, <3>2
    <3> QED BY <1>4, <3>1, <3>2, <3>3
  <2>6. \A k \in Judge : k \in judges' <=> phase'[k] \in {"registered", "ready", "closing"}
    BY <1>0, <1>1, <2>1, <2>2 DEF Holders
  <2>7. \A k \in Judge : reloading'[k] => phase'[k] \in {"ready", "closing"}
    BY <1>0, <1>1, <2>1 DEF Holders
  <2>8. \A k \in Judge : sent'[k] \cap job'[k] = {}
    BY <1>0, <1>1 DEF Holders, process
  <2>9. \A k \in Judge : phase'[k] = "off" => working'[k] = NoSubmission
    BY <1>0, <1>1, <2>1 DEF Holders
  <2> QED BY <2>4, <2>5, <2>6, <2>7, <2>8, <2>9 DEF Holders
<1>9. LockHeld' /\ NoneDisabled' /\ Tiers'
  BY <1>0, <1>1, <1>2, Distinguished DEF QuietInv, LockHeld, LockFree, NoneDisabled, Tiers
<1>10. IdleServed'
  <2> SUFFICES ASSUME NEW k \in Free(current_tier_judges)', k \notin waking'
               PROVE  reloading'[k] \/ NothingUrgent(k)'
    BY DEF IdleServed, ToBeServed
  <2>1. k \in judges' /\ TierOf[k] = min_tier' /\ working[k] = NoSubmission
    BY <1>1 DEF Free, current_tier_judges, TierJudges
  <2>2. k \in Free(current_tier_judges) /\ ~ToBeServed(k)
    BY <1>0, <1>2, <2>1 DEF Free, ToBeServed
  <2>3. NothingUrgent(k) => NothingUrgent(k)'
    BY <1>1 DEF NothingUrgent, can_judge
  <2> QED BY <1>1, <2>2, <2>3 DEF QuietInv, IdleServed
<1> QED BY <1>6, <1>7, <1>8, <1>9, <1>10 DEF QuietInv

LEMMA UpdateProblemsQuiet ==
    ASSUME QuietInv, TypeOK', NEW j \in Judge, UpdateProblems(j)
    PROVE  QuietInv'
<1>0. TypeOK /\ Holders /\ LockFree /\ waking = {} /\ tail = "none" /\ reloading[j]
  BY DEF QuietInv, LockHeld, UpdateProblems
<1>1. /\ reloading' = [reloading EXCEPT ![j] = FALSE] /\ owner' = j /\ tail' = "free"
      /\ UNCHANGED <<schedule, waking, phase, working, is_disabled, problems,
                     finishing, process, admin, status>>
  BY DEF UpdateProblems
<1>2. Queued' = Queued /\ Dispatched' = Dispatched
  BY <1>1, SameSchedule
<1>3. QueuedOnce' /\ Remembered' /\ NoneDisabled' /\ Tiers'
  BY <1>1, <1>2 DEF QuietInv, QueuedOnce, Remembered, InProgress, Ending, NoneDisabled, Tiers, schedule
<1>4. Holders'
  BY <1>0, <1>1, <1>2 DEF Holders, TypeOK, schedule, process
<1>5. LockHeld'
  BY <1>0, <1>1, Distinguished DEF Holders, LockHeld, LockFree, schedule
<1>6. IdleServed'
  <2> SUFFICES ASSUME NEW k \in Free(current_tier_judges)', k # j
               PROVE  reloading'[k] \/ NothingUrgent(k)'
    BY <1>1 DEF IdleServed, ToBeServed
  <2>1. k \in Free(current_tier_judges) /\ k \in Judge
    BY <1>0, <1>1 DEF Free, current_tier_judges, TierJudges, schedule, TypeOK
  <2>2. ~ToBeServed(k) /\ reloading'[k] = reloading[k]
    BY <1>0, <1>1, <2>1 DEF ToBeServed, TypeOK
  <2>3. NothingUrgent(k) => NothingUrgent(k)'
    BY <1>1 DEF NothingUrgent, can_judge, schedule
  <2> QED BY <2>1, <2>2, <2>3 DEF QuietInv, IdleServed
<1> QED BY <1>3, <1>4, <1>5, <1>6 DEF QuietInv

LEMMA FreeSelfQuiet ==
    ASSUME QuietInv, TypeOK', NEW j \in Judge, NEW s \in Submission, FreeSelf(j, s)
    PROVE  QuietInv'
<1>0. /\ TypeOK /\ Holders /\ LockFree /\ waking = {} /\ tail = "none"
      /\ phase[j] = "ready" /\ finishing[j] = NoSubmission /\ s \in job[j] /\ j \in judges
  BY DEF QuietInv, LockHeld, FreeSelf, Reading, Holders
<1>1. s \in Dispatched /\ submission_map[s] = j /\ s \notin sent[j] /\ s # NoSubmission
  BY <1>0, Distinguished DEF Holders
<1>2. /\ job' = [job EXCEPT ![j] = @ \ {s}]
      /\ submission_map' = Del(submission_map, s)
      /\ working' = [working EXCEPT ![j] = NoSubmission]
      /\ owner' = j /\ tail' = "free" /\ waking' = waking
      /\ finishing' = [finishing EXCEPT ![j] = s]
      /\ UNCHANGED <<judges, queue, pin, min_tier, phase, is_disabled, problems,
                     reloading, sent, admin, status>>
  BY <1>1 DEF FreeSelf, on_judge_free
<1>3. /\ Dispatched' = Dispatched \ {s}
      /\ \A x \in Dispatched : x # s => submission_map'[x] = submission_map[x]
  BY <1>2 DEF Del, Dispatched
<1>4. Queued' = Queued
  BY <1>2 DEF Queued, Elements
<1>5. QueuedOnce' /\ NoneDisabled' /\ Tiers'
  BY <1>2, <1>3, <1>4 DEF QuietInv, QueuedOnce, NoneDisabled, Tiers
<1>6. Remembered'
  <2> SUFFICES ASSUME NEW x \in Submission, InProgress(x)'
               PROVE  x \in Queued' \cup Dispatched' \/ Ending(x)'
    BY DEF Remembered
  <2>1. x \in Queued \cup Dispatched \/ Ending(x)
    BY <1>2 DEF QuietInv, Remembered, InProgress
  <2>2. x # NoSubmission
    BY Distinguished
  <2>3. Ending(x) => Ending(x)'
    BY <1>0, <1>2, <2>2 DEF Ending, TypeOK
  <2>4. x = s => Ending(x)'
    BY <1>0, <1>2 DEF Ending, TypeOK
  <2> QED BY <1>3, <1>4, <2>1, <2>3, <2>4
<1>7. Holders'
  <2>1. ASSUME NEW k \in Judge, NEW x \in sent'[k] \cup job'[k]
        PROVE  x \in Dispatched' /\ submission_map'[x] = k /\ phase'[k] \in {"registered", "ready"}
    <3>1. x \in sent[k] \cup job[k] /\ (k = j => x # s)
      BY <1>0, <1>1, <1>2, <2>1 DEF TypeOK
    <3>2. x \in Dispatched /\ submission_map[x] = k /\ phase[k] \in {"registered", "ready"}
      BY <1>0, <3>1 DEF Holders
    <3> QED BY <1>1, <1>2, <1>3, <3>1, <3>2
  <2>2. ASSUME NEW k \in judges', working'[k] # NoSubmission
        PROVE  working'[k] \in Dispatched' /\ submission_map'[working'[k]] = k
    <3>1. k \in judges /\ k # j /\ working'[k] = working[k]
      BY <1>0, <1>2, <2>2 DEF TypeOK
    <3>2. working[k] \in Dispatched /\ submission_map[working[k]] = k
      BY <1>0, <2>2, <3>1 DEF Holders
    <3> QED BY <1>1, <1>3, <3>1, <3>2
  <2>3. \A k \in Judge : sent'[k] \cap job'[k] = {}
    BY <1>0, <1>2 DEF Holders, TypeOK
  <2>4. \A k \in Judge : phase'[k] = "off" => working'[k] = NoSubmission
    BY <1>0, <1>2 DEF Holders, TypeOK
  <2> QED BY <1>0, <1>2, <2>1, <2>2, <2>3, <2>4 DEF Holders
<1>8. LockHeld'
  BY <1>0, <1>2, Distinguished DEF LockHeld, LockFree
<1>9. IdleServed'
  <2> SUFFICES ASSUME NEW k \in Free(current_tier_judges)', k # j
               PROVE  reloading'[k] \/ NothingUrgent(k)'
    BY <1>2 DEF IdleServed, ToBeServed
  <2>1. current_tier_judges' = current_tier_judges /\ current_tier_judges \subseteq Judge
    BY <1>0, <1>2 DEF current_tier_judges, TierJudges, TypeOK
  <2>2. k \in Free(current_tier_judges)
    BY <1>0, <1>2, <2>1 DEF Free, TypeOK
  <2>3. ~ToBeServed(k)
    BY <1>0 DEF ToBeServed
  <2>4. NothingUrgent(k) => NothingUrgent(k)'
    BY <1>2 DEF NothingUrgent, can_judge
  <2> QED BY <1>2, <2>2, <2>3, <2>4 DEF QuietInv, IdleServed
<1> QED BY <1>5, <1>6, <1>7, <1>8, <1>9 DEF QuietInv

LEMMA InitQuiet == Init => QuietInv
<1> SUFFICES ASSUME Init PROVE QuietInv
  OBVIOUS
<1>1. TypeOK /\ QueuedOnce /\ Remembered
  BY InitTypes
<1>2. Holders /\ LockHeld /\ NoneDisabled /\ Tiers
  BY DEF Init, Holders, LockHeld, LockFree, NoneDisabled, Tiers, Unread
<1>3. IdleServed
  BY DEF Init, IdleServed, Free, current_tier_judges, TierJudges
<1> QED BY <1>1, <1>2, <1>3 DEF QuietInv

LEMMA StepQuiet ==
    ASSUME Quiet, QuietInv, TypeOK', [Next]_vars
    PROVE  QuietInv'
<1>1. CASE UNCHANGED vars
  <2>1. UNCHANGED <<schedule, lock, working, is_disabled, problems, reloading, admin>>
    BY <1>1 DEF vars, handler
  <2>2. Queued' = Queued /\ Dispatched' = Dispatched
    BY <2>1, SameSchedule
  <2>3. Holders' /\ Remembered'
    BY <1>1, <2>2 DEF QuietInv, Holders, Remembered, InProgress, Ending,
                      vars, handler, process, schedule
  <2> QED BY <2>1, <2>3, HandlerQuiet
<1>2. CASE LockStep
  BY <1>2, ServeOwnerQuiet, ServeSoleQuiet, WakeNextQuiet DEF LockStep
<1>3. ASSUME NEW j \in Judge, JudgeStep(j) \/ Register(j) \/ SupportedProblems(j) \/ Drop(j)
      PROVE  QuietInv'
  BY <1>3, ConnectedQuiet, RecordQuiet, RemoveQuiet, DisconnectedQuiet, AcknowledgeQuiet,
     FreeSelfQuiet, RegisterQuiet, DropQuiet, SupportedProblemsQuiet, UpdateProblemsQuiet
     DEF JudgeStep
<1>4. ASSUME NEW s \in Submission, Abort(s)
      PROVE  QuietInv'
  BY <1>4, AbortQuiet
<1>5. ASSUME NEW s \in Submission, NEW p \in Priority, NEW judge_id \in Pins, Request(s, p, judge_id)
      PROVE  QuietInv'
  BY <1>5, RequestQuiet
<1>6. ASSUME NEW n \in Names PROVE ~AdminStep(n) /\ ~ToggleDisabled(n)
  BY NoToggling DEF Quiet, QuietInv, NoneDisabled
<1>7. ASSUME NEW n \in Names, DisconnectJudge(n)
      PROVE  QuietInv'
  BY <1>7, DisconnectJudgeQuiet
<1> QED BY <1>1, <1>2, <1>3, <1>4, <1>5, <1>6, <1>7 DEF Next, AdminStep

-----------------------------------------------------------------------------
(* While nothing raises and no judge is disabled: the theorems.            *)

\* The invariant: who holds a submission and who is about to be served.
THEOREM QuietSafety == Quiet => (Spec => []QuietInv)
<1> SUFFICES ASSUME Quiet PROVE Spec => []QuietInv
  OBVIOUS
<1>1. Init => QuietInv
  BY InitQuiet
<1>2. TypeOK' /\ QuietInv /\ [Next]_vars => QuietInv'
  BY StepQuiet
<1>3. Spec => []TypeOK
  BY TypeCorrect
<1> QED BY <1>1, <1>2, <1>3, PTL DEF Spec

\* A judge works for no submission that another one has: neither when it is
\* requested again, nor when a judge was given two.
THEOREM OneJudgeEach == Quiet => (Spec => []JudgedByOne)
<1>1. QuietInv => JudgedByOne
  BY DEF QuietInv, Holders, JudgedByOne
<1> QED BY <1>1, QuietSafety, PTL

\* Between two operations no judge of the current tier is idle with a submission
\* in the queue that is above a rejudge and that it can judge, whatever problems
\* the judges have and announce, and whichever judges requests name.
THEOREM UrgentCorrect == Quiet => (Spec => []UrgentServed)
<1>1. QuietInv => UrgentServed
  <2> SUFFICES ASSUME QuietInv, LockFree, NEW j \in Free(current_tier_judges),
                      NEW n \in QueueNodes, n[1] < REJUDGE_PRIORITY, ~reloading[j]
               PROVE  ~can_judge(j, queue[n[1]][n[2]], pin[queue[n[1]][n[2]]])
    BY DEF UrgentServed
  <2>1. ~ToBeServed(j)
    BY DEF QuietInv, LockHeld, ToBeServed
  <2>2. NothingUrgent(j)
    BY <2>1 DEF QuietInv, IdleServed
  <2>3. n[1] \in Priority /\ n[2] \in DOMAIN queue[n[1]]
    BY DEF QueueNodes
  <2> QED BY <2>2, <2>3 DEF NothingUrgent
<1> QED BY <1>1, QuietSafety, PTL

\* What _handle_free_judge gives goes to its judge, and that is not above the minimum.
LEMMA ServedTier ==
    ASSUME Quiet, TypeOK, NEW j \in Judge, HandleFreeJudge(j),
           NEW s \in Dispatched' \ Dispatched
    PROVE  submission_map'[s] = j /\ TierOf[j] <= min_tier
<1>1. CASE NothingGiven
  BY <1>1 DEF NothingGiven, Dispatched
<1>2. ASSUME NEW p \in Priority, NEW i \in DOMAIN queue[p], Given(j, queue[p][i], p, i)
      PROVE  submission_map'[s] = j
  BY <1>2 DEF Given, Put, Dispatched
<1>3. CASE ~TierServed(j)
  BY <1>3 DEF HandleFreeJudge, Dispatched
<1> QED
  BY <1>1, <1>2, <1>3, Serve DEF TierServed

\* A submission is given to a judge of the least tier that is connected.
THEOREM LeastTierServed == Quiet => (Spec => MinimumTierOnly)
<1> SUFFICES ASSUME Quiet PROVE Spec => MinimumTierOnly
  OBVIOUS
<1> DEFINE ToLeast == \A s \in Dispatched' \ Dispatched : \A k \in judges :
                          ~is_disabled[k] => TierOf[submission_map'[s]] <= TierOf[k]
<1>1. ASSUME QuietInv, [Next]_vars PROVE [ToLeast]_vars
  <2> SUFFICES ASSUME Next, NEW s \in Dispatched' \ Dispatched, NEW k \in judges
               PROVE  TierOf[submission_map'[s]] <= TierOf[k]
    BY <1>1
  <2>0. TypeOK /\ k \in Judge /\ min_tier <= TierOf[k]
    BY <1>1 DEF QuietInv, TypeOK, Tiers
  <2>t. ASSUME NEW j \in Judge, submission_map'[s] = j, TierOf[j] <= min_tier
        PROVE  TierOf[submission_map'[s]] <= TierOf[k]
    BY <2>0, <2>t, JudgeListAssumption DEF TypeOK, NoTier
  <2>1. ASSUME NEW j \in Judge, HandleFreeJudge(j)
        PROVE  TierOf[submission_map'[s]] <= TierOf[k]
    BY <2>0, <2>1, <2>t, ServedTier
  <2>2. CASE LockStep
    <3>1. CASE ServeOwner
      BY <1>1, <2>0, <2>1, <3>1 DEF ServeOwner, QuietInv, LockHeld, TypeOK
    <3>2. CASE ServeSole
      BY <2>0, <2>1, <3>2 DEF Dispatched, ServeSole, sole_judge, Free, current_tier_judges, TierJudges, TypeOK
    <3>3. CASE \E j \in Judge : WakeNext(j)
      BY <2>1, <3>3 DEF WakeNext, Dispatched
    <3> QED
      BY <2>2, <3>1, <3>2, <3>3 DEF LockStep
  <2>3. ASSUME NEW r \in Submission, NEW p \in Priority, NEW judge_id \in Pins,
               Request(r, p, judge_id)
        PROVE  TierOf[submission_map'[s]] <= TierOf[k]
    <3>1. PICK j \in current_tier_judges : \E outcome \in Outcomes(j) : Submit(j, r, outcome)
      BY <2>3 DEF Request, Available, Free, Dispatched
    <3>2. submission_map'[s] = j
      BY <3>1 DEF Submit, Put, Dispatched
    <3>3. j \in Judge /\ TierOf[j] = min_tier
      BY <2>0, <3>1 DEF current_tier_judges, TierJudges, TypeOK
    <3> QED
      BY <2>0, <2>t, <3>2, <3>3, JudgeListAssumption
  <2>4. ASSUME NEW j \in Judge, Remove(j) \/ \E r \in Submission : FreeSelf(j, r)
        PROVE  FALSE
    BY <2>4 DEF Remove, FreeSelf, on_judge_free, Del, Dispatched
  <2>5. ASSUME \/ \E j \in Judge : \/ LoadRow(j) \/ CacheDisabled(j) \/ Connected(j) \/ Record(j) \/ Disconnected(j)
                                    \/ Register(j) \/ Drop(j) \/ SupportedProblems(j)
                                    \/ UpdateProblems(j)
                                    \/ \E r \in Submission : Acknowledge(j, r)
               \/ \E r \in Submission : Abort(r)
               \/ \E n \in Names : AdminStep(n) \/ DisconnectJudge(n) \/ ToggleDisabled(n)
        PROVE  FALSE
    BY <2>5 DEF AdminStep, LoadToggle, SaveToggle, ToggleFails, LoadRow, CacheDisabled, Connected, Record, Disconnected, Register, Drop, SupportedProblems,
       UpdateProblems, Acknowledge, Abort, DisconnectJudge, ToggleDisabled, schedule, Dispatched
  <2> QED
    BY <1>1, <2>2, <2>3, <2>4, <2>5 DEF Next, JudgeStep, AdminStep
<1>2. Spec => [][ToLeast]_vars
  BY <1>1, QuietSafety, PTL DEF Spec
<1> QED
  BY <1>2 DEF MinimumTierOnly

-----------------------------------------------------------------------------
(* While, moreover, no judge announces other problems: submission_map and   *)
(* _working agree.                                                         *)

LEMMA BaseIsQuiet == Base => Quiet
BY DEF Base, Quiet

\* SchedulerInv and Remembered, which is the same as NoOrphans where
\* submission_map and _working agree.
PairedInv ==
    /\ TypeOK /\ MapMatchesWorking /\ QueuedOnce /\ Remembered
    /\ LockDiscipline /\ MinTierHeld /\ HandlerLife /\ AllEnabled

LEMMA InChargeOf == PairedInv => SchedulerInv /\ NoOrphans
<1> SUFFICES ASSUME PairedInv PROVE NoOrphans
  BY DEF PairedInv, SchedulerInv
<1> QED BY DEF PairedInv, Remembered, MapMatchesWorking, NoOrphans, InCharge

\* What PairedInv says beyond QuietInv.
Paired ==
    /\ \A s \in Dispatched : submission_map[s] \in judges /\ working[submission_map[s]] = s
    /\ tail = "free" => waking = {} /\ working[owner] = NoSubmission
    /\ min_tier # NoTier => \E j \in judges : TierOf[j] = min_tier
    /\ \A j \in Judge : ~reloading[j]

LEMMA PairedIsEnough == QuietInv /\ Paired => PairedInv
<1> SUFFICES ASSUME QuietInv, Paired PROVE PairedInv
  OBVIOUS
<1>1. TypeOK /\ QueuedOnce /\ Remembered
  BY DEF QuietInv
<1>2. MapMatchesWorking
  BY DEF QuietInv, Holders, Paired, MapMatchesWorking
<1>3. LockDiscipline /\ MinTierHeld /\ AllEnabled
  BY DEF QuietInv, LockHeld, Tiers, NoneDisabled, Paired, LockDiscipline, MinTierHeld, AllEnabled
<1>4. HandlerLife
  BY DEF QuietInv, Holders, Paired, HandlerLife
<1> QED BY <1>1, <1>2, <1>3, <1>4 DEF PairedInv

\* One call of _handle_free_judge for an idle judge of the list.
LEMMA ServePaired ==
    ASSUME Base, QuietInv, Paired, NEW j \in judges, working[j] = NoSubmission,
           HandleFreeJudge(j)
    PROVE  /\ judges' = judges
           /\ \A s \in Dispatched' : submission_map'[s] \in judges' /\ working'[submission_map'[s]] = s
<1>0. TypeOK /\ j \in Judge
  BY DEF QuietInv, TypeOK
<1>1. CASE NothingGiven
  BY <1>1 DEF NothingGiven, Paired, Dispatched
<1>2. ASSUME NEW p \in Priority, NEW i \in DOMAIN queue[p], Given(j, queue[p][i], p, i)
      PROVE  /\ judges' = judges
             /\ \A s \in Dispatched' : submission_map'[s] \in judges' /\ working'[submission_map'[s]] = s
  <2>1. /\ judges' = judges
        /\ submission_map' = Put(submission_map, queue[p][i], j)
        /\ working' = [working EXCEPT ![j] = queue[p][i]]
    BY <1>2 DEF Given
  <2>2. ASSUME NEW s \in Dispatched'
        PROVE  submission_map'[s] \in judges' /\ working'[submission_map'[s]] = s
    <3>1. CASE s = queue[p][i]
      BY <1>0, <2>1, <3>1 DEF Put, TypeOK
    <3>2. CASE s # queue[p][i]
      <4>1. s \in Dispatched /\ s \in Submission /\ submission_map'[s] = submission_map[s]
        BY <1>0, <2>1, <3>2 DEF Put, Dispatched, TypeOK
      <4>2. submission_map[s] \in judges /\ working[submission_map[s]] = s
        BY <4>1 DEF Paired
      <4>3. submission_map[s] # j
        BY <4>1, <4>2, Distinguished
      <4> QED BY <1>0, <2>1, <4>1, <4>2, <4>3 DEF TypeOK
    <3> QED BY <3>1, <3>2
  <2> QED BY <2>1, <2>2
<1> QED BY <1>0, <1>1, <1>2, Serve, BaseIsQuiet

LEMMA LockStepPaired ==
    ASSUME Base, QuietInv, Paired, LockStep
    PROVE  Paired'
<1>0. TypeOK /\ LockHeld
  BY DEF QuietInv
<1>1. CASE ServeOwner
  <2>1. owner \in judges /\ working[owner] = NoSubmission /\ HandleFreeJudge(owner)
    BY <1>0, <1>1 DEF ServeOwner, LockHeld, Paired
  <2>2. PICK j \in judges : working[j] = NoSubmission /\ HandleFreeJudge(j)
    BY <2>1
  <2>3. tail' = "none" /\ UNCHANGED <<min_tier, reloading>>
    BY <1>1 DEF ServeOwner
  <2> QED BY <2>2, <2>3, ServePaired DEF Paired
<1>2. CASE ServeSole
  <2>1. tail' = "none" /\ UNCHANGED <<min_tier, reloading>>
    BY <1>2 DEF ServeSole
  <2>2. CASE sole_judge # {}
    <3>1. PICK j \in sole_judge : HandleFreeJudge(j)
      BY <1>2, <2>2 DEF ServeSole
    <3>2. j \in judges /\ working[j] = NoSubmission
      BY DEF sole_judge, Free, current_tier_judges, TierJudges
    <3> QED BY <2>1, <3>1, <3>2, ServePaired DEF Paired
  <2>3. CASE sole_judge = {}
    <3>1. UNCHANGED <<judges, submission_map, working>>
      BY <1>2, <2>3 DEF ServeSole
    <3> QED BY <2>1, <3>1 DEF Paired, Dispatched
  <2> QED BY <2>2, <2>3
<1>3. ASSUME NEW j \in Judge, WakeNext(j)
      PROVE  Paired'
  <2>1. tail # "free" /\ j \in judges
    BY <1>0, <1>3 DEF WakeNext, Paired, LockHeld
  <2>2. UNCHANGED <<min_tier, tail, reloading>>
    BY <1>3 DEF WakeNext
  <2>3. CASE working[j] = NoSubmission
    <3>1. HandleFreeJudge(j)
      BY <1>3, <2>3 DEF WakeNext
    <3> QED BY <2>1, <2>2, <2>3, <3>1, ServePaired DEF Paired
  <2>4. CASE working[j] # NoSubmission
    <3>1. UNCHANGED <<judges, submission_map, working>>
      BY <1>3, <2>4 DEF WakeNext
    <3> QED BY <2>1, <2>2, <3>1 DEF Paired, Dispatched
  <2> QED BY <2>3, <2>4
<1> QED BY <1>1, <1>2, <1>3 DEF LockStep

LEMMA RequestPaired ==
    ASSUME Base, QuietInv, Paired, NEW s \in Submission, NEW p \in Priority,
           NEW judge_id \in Pins, Request(s, p, judge_id)
    PROVE  Paired'
<1>0. TypeOK /\ LockHeld /\ judges \subseteq Judge /\ tail # "free"
  BY DEF QuietInv, TypeOK, LockHeld, Request
<1>1. UNCHANGED <<min_tier, lock, reloading>>
  BY DEF Request
<1>2. CASE UNCHANGED <<judges, submission_map, working>>
  BY <1>0, <1>1, <1>2 DEF Paired, Dispatched, lock
<1>3. ASSUME NEW j \in judges, working[j] = NoSubmission, Submit(j, s, "ok"), ~Known(s)
      PROVE  Paired'
  <2>1. /\ judges' = judges
        /\ submission_map' = Put(submission_map, s, j)
        /\ working' = [working EXCEPT ![j] = s]
    BY <1>3 DEF Submit
  <2>2. ASSUME NEW x \in Dispatched'
        PROVE  submission_map'[x] \in judges' /\ working'[submission_map'[x]] = x
    <3>1. CASE x = s
      BY <1>0, <2>1, <3>1 DEF Put, TypeOK
    <3>2. CASE x # s
      <4>1. x \in Dispatched /\ x \in Submission /\ submission_map'[x] = submission_map[x]
        BY <1>0, <2>1, <3>2 DEF Put, Dispatched, TypeOK
      <4>2. submission_map[x] \in judges /\ working[submission_map[x]] = x
        BY <4>1 DEF Paired
      <4>3. submission_map[x] # j
        BY <1>3, <4>1, <4>2, Distinguished
      <4> QED BY <1>0, <2>1, <4>1, <4>2, <4>3 DEF TypeOK
    <3> QED BY <3>1, <3>2
  <2> QED BY <1>0, <1>1, <2>1, <2>2 DEF Paired, lock
<1> DEFINE candidates == {j \in current_tier_judges : can_judge(j, s, judge_id)}
<1>4. \A j \in Available(candidates, p) : j \in judges /\ working[j] = NoSubmission
  BY DEF Available, Free, current_tier_judges, TierJudges
<1>5. \/ UNCHANGED <<judges, submission_map, working>>
      \/ ~Known(s) /\ \E j \in Available(candidates, p) : Submit(j, s, "ok")
  <2>1. \A j : Outcomes(j) = {"ok"}
    BY BaseIsQuiet, OnlyOk
  <2> QED BY <2>1 DEF Request
<1> HIDE DEF candidates
<1> QED BY <1>2, <1>3, <1>4, <1>5

\* The list only changes where the minimum is updated; a judge that joins wakes nobody.
LEMMA JoinPaired ==
    ASSUME Base, QuietInv, QuietInv', Paired, NEW j \in Judge, Register(j) \/ Remove(j)
    PROVE  Paired'
<1>0. TypeOK /\ Holders /\ judges \subseteq Judge /\ UNCHANGED <<working, is_disabled, reloading>>
  BY DEF QuietInv, TypeOK, Register, Remove
<1>1. UpdateMinTier(judges', is_disabled)
  BY DEF Register, Remove
<1>2. EnabledTiers(judges', is_disabled) = {TierOf[k] : k \in judges'}
  <2>1. judges' \subseteq Judge
    BY DEF QuietInv, TypeOK
  <2> QED BY <2>1 DEF QuietInv, NoneDisabled, EnabledTiers
<1>3. min_tier' # NoTier => \E k \in judges' : TierOf[k] = min_tier'
  BY <1>1, <1>2 DEF UpdateMinTier
<1>4. CASE Register(j)
  <2>1. /\ phase[j] = "off" /\ judges' = judges \cup {j} /\ owner' = j
        /\ submission_map' = submission_map
    BY <1>4 DEF Register
  <2>2. working'[owner'] = NoSubmission
    BY <1>0, <2>1 DEF Holders
  <2>3. waking' = {}
    <3> SUFFICES ASSUME min_tier # NoTier, min_tier' # NoTier, min_tier' > min_tier
                 PROVE  FALSE
      BY <1>1 DEF UpdateMinTier, Woken
    <3>1. PICK k \in judges : TierOf[k] = min_tier
      BY DEF Paired
    <3>2. min_tier' <= TierOf[k]
      BY <2>1 DEF QuietInv, Tiers
    <3>3. min_tier \in Nat /\ min_tier' \in Nat
      BY DEF QuietInv, TypeOK
    <3> QED BY <3>1, <3>2, <3>3
  <2> QED BY <1>0, <1>3, <2>1, <2>2, <2>3 DEF Paired, Dispatched
<1>5. CASE Remove(j)
  <2>1. /\ judges' = judges \ {j} /\ tail' = "sole"
        /\ submission_map' = IF working[j] = NoSubmission THEN submission_map
                             ELSE Del(submission_map, working[j])
    BY <1>5 DEF Remove
  <2>2. ASSUME NEW s \in Dispatched'
        PROVE  submission_map'[s] \in judges' /\ working'[submission_map'[s]] = s
    <3>1. /\ s \in Dispatched /\ submission_map'[s] = submission_map[s]
          /\ working[j] # NoSubmission => s # working[j]
      BY <2>1 DEF Del, Dispatched
    <3>2. submission_map[s] \in judges /\ working[submission_map[s]] = s
      BY <3>1 DEF Paired
    <3>3. s # NoSubmission
      BY <1>0, <3>1, Distinguished DEF TypeOK
    <3>4. submission_map[s] # j
      BY <3>1, <3>2, <3>3
    <3> QED BY <1>0, <2>1, <3>1, <3>2, <3>4
  <2> QED BY <1>0, <1>3, <2>1, <2>2 DEF Paired
<1> QED BY <1>4, <1>5

LEMMA FreeSelfPaired ==
    ASSUME QuietInv, Paired, NEW j \in Judge, NEW s \in Submission, FreeSelf(j, s)
    PROVE  Paired'
<1>0. TypeOK /\ LockHeld /\ waking = {} /\ s \in Dispatched /\ submission_map[s] = j
  BY DEF QuietInv, LockHeld, FreeSelf, Holders
<1>1. /\ submission_map' = Del(submission_map, s)
      /\ working' = [working EXCEPT ![j] = NoSubmission]
      /\ owner' = j /\ waking' = waking
      /\ UNCHANGED <<judges, min_tier, reloading>>
  BY <1>0 DEF FreeSelf, on_judge_free
<1>2. ASSUME NEW x \in Dispatched'
      PROVE  submission_map'[x] \in judges' /\ working'[submission_map'[x]] = x
  <2>1. x \in Dispatched /\ x # s /\ submission_map'[x] = submission_map[x]
    BY <1>1 DEF Del, Dispatched
  <2>2. submission_map[x] \in judges /\ working[submission_map[x]] = x /\ submission_map[x] \in Judge
    BY <1>0, <2>1 DEF Paired, TypeOK
  <2>3. working[j] = s
    BY <1>0 DEF Paired
  <2> QED BY <1>0, <1>1, <2>1, <2>2, <2>3 DEF TypeOK
<1>3. working'[owner'] = NoSubmission
  BY <1>0, <1>1 DEF TypeOK
<1> QED BY <1>0, <1>1, <1>2, <1>3 DEF Paired

\* The other steps leave the list, the map and the lock alone, and what judges of
\* the list work on.
LEMMA RestPaired ==
    ASSUME QuietInv, Paired, UNCHANGED <<judges, submission_map, min_tier, lock, reloading>>,
           \A k \in judges : working'[k] = working[k]
    PROVE  Paired'
<1>1. \A s \in Dispatched : submission_map[s] \in judges
  BY DEF Paired
<1>2. tail = "free" => owner \in judges
  BY DEF QuietInv, LockHeld
<1> QED BY <1>1, <1>2 DEF Paired, Dispatched, lock

\* Disabling and reloading are not among the events assumed.
LEMMA NoOtherEvents ==
    ASSUME Base, \A j \in Judge : ~reloading[j], \A n \in Names : toggling[n] = NoToggle
    PROVE  /\ \A n \in Names : ~AdminStep(n) /\ ~ToggleDisabled(n)
           /\ \A j \in Judge : ~SupportedProblems(j) /\ ~UpdateProblems(j)
BY NoToggling DEF Base, SupportedProblems, UpdateProblems

LEMMA StepPaired ==
    ASSUME Base, QuietInv, QuietInv', Paired, [Next]_vars
    PROVE  Paired'
<1>1. CASE LockStep
  BY <1>1, LockStepPaired
<1>2. ASSUME NEW j \in Judge,
             \/ LoadRow(j) \/ CacheDisabled(j) \/ Connected(j) \/ Record(j) \/ Drop(j)
             \/ \E s \in Submission : Acknowledge(j, s)
      PROVE  Paired'
  BY <1>2, RestPaired DEF LoadRow, CacheDisabled, Connected, handler, Record, Drop, Acknowledge, schedule
<1>3. ASSUME NEW j \in Judge, Disconnected(j)
      PROVE  Paired'
  <2>1. /\ phase[j] = "removed" /\ working' = [working EXCEPT ![j] = NoSubmission]
        /\ UNCHANGED <<schedule, lock, reloading>>
    BY <1>3 DEF Disconnected
  <2>2. j \notin judges /\ judges \subseteq Judge
    BY <2>1 DEF QuietInv, Holders, TypeOK
  <2>3. \A k \in judges : working'[k] = working[k]
    BY <2>1, <2>2 DEF QuietInv, TypeOK
  <2> QED BY <2>1, <2>3, RestPaired DEF schedule
<1>4. ASSUME NEW j \in Judge,
             Register(j) \/ Remove(j) \/ \E s \in Submission : FreeSelf(j, s)
      PROVE  Paired'
  BY <1>4, JoinPaired, FreeSelfPaired
<1>5. ASSUME NEW s \in Submission, NEW p \in Priority, NEW judge_id \in Pins, Request(s, p, judge_id)
      PROVE  Paired'
  BY <1>5, RequestPaired
<1>6. ASSUME \/ \E s \in Submission : Abort(s)
             \/ \E n \in Names : DisconnectJudge(n)
             \/ UNCHANGED vars
      PROVE  Paired'
  BY <1>6, RestPaired DEF Abort, DisconnectJudge, vars, schedule, handler
<1>7. (\A j \in Judge : ~reloading[j]) /\ \A n \in Names : toggling[n] = NoToggle
  BY DEF Paired, QuietInv, NoneDisabled
<1> QED BY <1>1, <1>2, <1>3, <1>4, <1>5, <1>6, <1>7, NoOtherEvents DEF Next, JudgeStep, AdminStep

LEMMA InitScheduler == Init => PairedInv
<1>1. Init => Paired
  BY DEF Init, Paired, Dispatched
<1> QED BY <1>1, InitQuiet, PairedIsEnough

LEMMA PairedSafety == Base => (Spec => []PairedInv)
<1> SUFFICES ASSUME Base PROVE Spec => []PairedInv
  OBVIOUS
<1>1. Init => Paired
  BY DEF Init, Paired, Dispatched
<1>2. QuietInv /\ QuietInv' /\ Paired /\ [Next]_vars => Paired'
  BY StepPaired
<1>3. Spec => []QuietInv
  BY QuietSafety, BaseIsQuiet
<1>4. QuietInv /\ Paired => PairedInv
  BY PairedIsEnough
<1> QED BY <1>1, <1>2, <1>3, <1>4, PTL DEF Spec

\* The scheduler keeps its invariant: a submission is with one judge or at one
\* place of the queue, and the map, the judges, the lock, the minimum tier and
\* the handlers agree, whatever the interleaving of requests, aborts, lost
\* connections and reconnections.
THEOREM SchedulerSafety == Base => (Spec => []SchedulerInv)
<1> QED BY PairedSafety, InChargeOf, PTL

\* A submission shown as queued or grading is in the queue, on a judge of the list
\* that works on it, or about to get its final status: whichever judges are lost,
\* and whichever submissions are requested again or aborted.
THEOREM NothingForgotten == Base => (Spec => []NoOrphans)
<1> QED BY PairedSafety, InChargeOf, PTL

-----------------------------------------------------------------------------
(* While nothing raises and no judge announces other problems: one tier,   *)
(* where judges may be disabled.                                           *)

\* Judges may be disabled and all have the same tier: nobody is ever woken.
OneTier ==
    /\ Environment \subseteq {"rejudge", "disable"}
    /\ \A j, k \in Judge : TierOf[j] = TierOf[k]

\* What makes MapMatchesWorking inductive when there is one tier.
OneTierInv ==
    /\ TypeOK /\ QueuedOnce /\ MapMatchesWorking /\ HandlerLife
    /\ waking = {}
    /\ min_tier # NoTier => \E j \in Judge : TierOf[j] = min_tier
    /\ LockFree => tail = "none"
    /\ tail = "free" => owner \in judges /\ working[owner] = NoSubmission
    /\ \A j \in Judge : ~reloading[j]

\* No update raises the minimum.
LEMMA NobodyWoken ==
    ASSUME OneTier, TypeOK, min_tier # NoTier => \E j \in Judge : TierOf[j] = min_tier,
           NEW js \in SUBSET Judge, NEW dis, UpdateMinTier(js, dis)
    PROVE  waking' = {} /\ (min_tier' # NoTier => \E j \in Judge : TierOf[j] = min_tier')
<1>1. min_tier' # NoTier => \E j \in Judge : TierOf[j] = min_tier'
  BY DEF UpdateMinTier, EnabledTiers
<1>2. ASSUME min_tier # NoTier, min_tier' # NoTier, min_tier' > min_tier
      PROVE  FALSE
  <2>1. PICK j \in Judge : TierOf[j] = min_tier
    BY <1>2
  <2>2. PICK k \in Judge : TierOf[k] = min_tier'
    BY <1>1, <1>2
  <2>3. min_tier' = min_tier /\ min_tier \in Nat
    BY <2>1, <2>2, JudgeListAssumption DEF OneTier
  <2> QED BY <1>2, <2>3
<1>3. waking' = {}
  BY <1>2 DEF UpdateMinTier, Woken
<1> QED BY <1>1, <1>3

LEMMA OneTierRaisesNothing == OneTier => NothingRaises
BY DEF OneTier, NothingRaises

\* An idle judge of the list that is not waited for is given a submission.
LEMMA PairedWith ==
    ASSUME TypeOK, MapMatchesWorking, HandlerLife, NEW j \in judges,
           working[j] = NoSubmission, NEW s \in Submission, s \notin Dispatched,
           judges' = judges, phase' = phase, job' = job,
           submission_map' = Put(submission_map, s, j),
           working' = [working EXCEPT ![j] = s],
           sent' = IF phase[j] # "closing" THEN [sent EXCEPT ![j] = @ \cup {s}] ELSE sent
    PROVE  MapMatchesWorking' /\ HandlerLife'
<1>0. j \in Judge /\ judges \subseteq Judge /\ s # NoSubmission
  BY Distinguished DEF TypeOK
<1>1. /\ Dispatched' = Dispatched \cup {s} /\ submission_map'[s] = j
      /\ \A x \in Dispatched \ {s} : submission_map'[x] = submission_map[x]
  BY DEF Put, Dispatched
<1>2. /\ working'[j] = s
      /\ \A k \in Judge \ {j} : working'[k] = working[k]
  BY <1>0 DEF TypeOK
<1>3. ASSUME NEW x \in Dispatched'
      PROVE  working'[submission_map'[x]] = x /\ submission_map'[x] \in judges'
  <2>1. CASE x = s
    BY <1>1, <1>2, <2>1
  <2>2. CASE x # s
    <3>1. x \in Dispatched /\ submission_map'[x] = submission_map[x]
      BY <1>1, <2>2
    <3>2. working[submission_map[x]] = x /\ submission_map[x] \in judges
      BY <3>1 DEF MapMatchesWorking
    <3>3. x # NoSubmission
      BY <3>1, Distinguished DEF TypeOK
    <3> QED BY <1>0, <1>2, <3>1, <3>2, <3>3
  <2> QED BY <2>1, <2>2
<1>4. ASSUME NEW k \in judges', working'[k] # NoSubmission
      PROVE  working'[k] \in Dispatched' /\ submission_map'[working'[k]] = k
  <2>1. CASE k = j
    BY <1>1, <1>2, <2>1
  <2>2. CASE k # j
    <3>1. working[k] \in Dispatched /\ submission_map[working[k]] = k /\ working'[k] = working[k]
      BY <1>0, <1>2, <1>4, <2>2 DEF MapMatchesWorking
    <3> QED BY <1>1, <3>1
  <2> QED BY <2>1, <2>2
<1>5. MapMatchesWorking'
  BY <1>3, <1>4 DEF MapMatchesWorking
<1>6. phase[j] \in {"registered", "ready", "closing"} /\ sent[j] = {} /\ job[j] = {}
  <2>1. \A x \in sent[j] \cup job[j] : x \in Submission /\ working[j] = x
    BY <1>0 DEF HandlerLife, TypeOK
  <2> QED BY <1>0, <2>1, Distinguished DEF HandlerLife
<1>7. \A k \in Judge : sent'[k] = sent[k] \/ (k = j /\ phase[j] # "closing" /\ sent'[k] = {s})
  BY <1>0, <1>6 DEF TypeOK
<1>8. \A k \in Judge : \A x \in sent'[k] \cup job'[k] :
         working'[k] = x /\ phase'[k] \in {"registered", "ready"}
  BY <1>0, <1>2, <1>6, <1>7 DEF HandlerLife
<1>9. \A k \in Judge : sent'[k] \cap job'[k] = {}
  BY <1>6, <1>7 DEF HandlerLife
<1>10. \A k \in Judge : phase'[k] = "off" => working'[k] = NoSubmission
  BY <1>2, <1>6 DEF HandlerLife
<1>11. \A k \in Judge : k \in judges' <=> phase'[k] \in {"registered", "ready", "closing"}
  BY DEF HandlerLife
<1> QED BY <1>5, <1>8, <1>9, <1>10, <1>11 DEF HandlerLife

\* One call of _handle_free_judge for an idle judge of the list.
LEMMA ServeOneTier ==
    ASSUME OneTier, OneTierInv, NEW j \in judges, working[j] = NoSubmission,
           HandleFreeJudge(j), phase' = phase, job' = job
    PROVE  MapMatchesWorking' /\ HandlerLife' /\ judges' = judges
<1>1. TypeOK /\ QueuedOnce /\ MapMatchesWorking /\ HandlerLife /\ j \in Judge
  BY DEF OneTierInv, TypeOK
<1>2. CASE NothingGiven
  BY <1>1, <1>2 DEF NothingGiven, MapMatchesWorking, HandlerLife, Dispatched
<1>3. ASSUME NEW p \in Priority, NEW i \in DOMAIN queue[p], Given(j, queue[p][i], p, i)
      PROVE  MapMatchesWorking' /\ HandlerLife' /\ judges' = judges
  <2>1. queue[p][i] \in Submission /\ queue[p][i] \notin Dispatched
    BY <1>1, QueuedAt DEF TypeOK, QueuedOnce
  <2>2. PICK s \in Submission : s = queue[p][i]
    BY <2>1
  <2>3. /\ judges' = judges
        /\ submission_map' = Put(submission_map, s, j)
        /\ working' = [working EXCEPT ![j] = s]
        /\ sent' = IF phase[j] # "closing" THEN [sent EXCEPT ![j] = @ \cup {s}] ELSE sent
    BY <1>3, <2>2 DEF Given
  <2> QED BY <1>1, <2>1, <2>2, <2>3, PairedWith
<1> QED BY <1>1, <1>2, <1>3, ServeAny, OneTierRaisesNothing

\* The parts of OneTierInv that are not always true anyway.
OneTierParts ==
    /\ MapMatchesWorking /\ HandlerLife
    /\ waking = {}
    /\ min_tier # NoTier => \E j \in Judge : TierOf[j] = min_tier
    /\ LockFree => tail = "none"
    /\ tail = "free" => owner \in judges /\ working[owner] = NoSubmission
    /\ \A j \in Judge : ~reloading[j]

LEMMA LockStepOneTier ==
    ASSUME OneTier, OneTierInv, LockStep
    PROVE  OneTierParts'
<1>0. waking = {}
  BY DEF OneTierInv
<1>1. ServeOwner \/ ServeSole
  BY <1>0 DEF LockStep, WakeNext
<1>2. tail' = "none" /\ UNCHANGED <<min_tier, waking, reloading, phase, job>>
  BY <1>1 DEF ServeOwner, ServeSole
<1>3. ASSUME NEW j \in judges, working[j] = NoSubmission, HandleFreeJudge(j)
      PROVE  OneTierParts'
  BY <1>2, <1>3, ServeOneTier DEF OneTierParts, OneTierInv
<1>4. CASE ServeOwner
  BY <1>3, <1>4 DEF ServeOwner, OneTierInv
<1>5. CASE ServeSole
  <2>1. ASSUME NEW j \in sole_judge PROVE j \in judges /\ working[j] = NoSubmission
    BY DEF sole_judge, Free, current_tier_judges, TierJudges
  <2>2. CASE sole_judge # {}
    BY <1>3, <1>5, <2>1, <2>2 DEF ServeSole
  <2>3. CASE sole_judge = {}
    <3>1. UNCHANGED <<judges, submission_map, working, sent>>
      BY <1>5, <2>3 DEF ServeSole
    <3> QED BY <1>2, <3>1 DEF OneTierInv, OneTierParts, MapMatchesWorking, HandlerLife, Dispatched
  <2> QED BY <2>2, <2>3
<1> QED BY <1>1, <1>4, <1>5

LEMMA RequestOneTier ==
    ASSUME OneTier, OneTierInv, NEW s \in Submission, NEW p \in Priority,
           NEW judge_id \in Pins, Request(s, p, judge_id)
    PROVE  OneTierParts'
<1> DEFINE candidates == {j \in current_tier_judges : can_judge(j, s, judge_id)}
<1>0. /\ TypeOK /\ MapMatchesWorking /\ HandlerLife /\ tail = "none"
      /\ UNCHANGED <<min_tier, owner, waking, tail, reloading, phase, job>>
  BY DEF OneTierInv, Request, lock
<1>1. ASSUME UNCHANGED <<judges, submission_map, working, sent>>
      PROVE  OneTierParts'
  BY <1>0, <1>1 DEF OneTierInv, OneTierParts, MapMatchesWorking, HandlerLife, Dispatched
<1>2. ASSUME NEW j \in Available(candidates, p), Submit(j, s, "ok"), ~Known(s)
      PROVE  OneTierParts'
  <2>1. j \in Free(candidates)
    BY DEF Available
  <2>2. j \in judges /\ working[j] = NoSubmission
    BY <2>1 DEF Free, current_tier_judges, TierJudges
  <2>3. /\ judges' = judges
        /\ submission_map' = Put(submission_map, s, j)
        /\ working' = [working EXCEPT ![j] = s]
        /\ sent' = IF phase[j] # "closing" THEN [sent EXCEPT ![j] = @ \cup {s}] ELSE sent
    BY <1>2 DEF Submit
  <2>4. MapMatchesWorking' /\ HandlerLife'
    BY <1>0, <1>2, <2>2, <2>3, PairedWith DEF Known
  <2> QED BY <1>0, <2>4 DEF OneTierInv, OneTierParts
<1>3. \/ UNCHANGED <<judges, submission_map, working, sent>>
      \/ ~Known(s) /\ \E j \in Available(candidates, p) : Submit(j, s, "ok")
  <2>1. \A j : Outcomes(j) = {"ok"}
    BY NoRaise, OneTierRaisesNothing
  <2> QED BY <2>1 DEF Request
<1> HIDE DEF candidates
<1> QED BY <1>1, <1>2, <1>3

LEMMA JoinOneTier ==
    ASSUME OneTier, OneTierInv, TypeOK', NEW j \in Judge, Register(j) \/ Remove(j)
    PROVE  OneTierParts'
<1>0. TypeOK /\ MapMatchesWorking /\ HandlerLife /\ judges' \subseteq Judge
  BY DEF OneTierInv, TypeOK
<1>1. UpdateMinTier(judges', is_disabled)
  BY DEF Register, Remove
<1>2. waking' = {} /\ (min_tier' # NoTier => \E k \in Judge : TierOf[k] = min_tier')
  BY <1>0, <1>1, NobodyWoken DEF OneTierInv
<1>3. /\ owner' = j /\ j # NoOne
      /\ UNCHANGED <<working, reloading, sent, job>>
  BY Distinguished DEF Register, Remove, process
<1>4. CASE Register(j)
  <2>1. /\ phase[j] = "off" /\ phase' = [phase EXCEPT ![j] = "registered"]
        /\ judges' = judges \cup {j} /\ submission_map' = submission_map
    BY <1>4 DEF Register
  <2>2. working[j] = NoSubmission
    BY <2>1 DEF OneTierInv, HandlerLife
  <2>3. MapMatchesWorking'
    BY <1>3, <2>1, <2>2 DEF OneTierInv, MapMatchesWorking, Dispatched
  <2>4. HandlerLife'
    BY <1>0, <1>3, <2>1 DEF HandlerLife, TypeOK
  <2> QED BY <1>2, <1>3, <2>1, <2>2, <2>3, <2>4 DEF OneTierInv, OneTierParts, LockFree
<1>5. CASE Remove(j)
  <2>1. /\ phase[j] = "closing" /\ phase' = [phase EXCEPT ![j] = "removed"]
        /\ judges' = judges \ {j} /\ tail' = "sole"
        /\ submission_map' = IF working[j] = NoSubmission THEN submission_map
                             ELSE Del(submission_map, working[j])
    BY <1>5 DEF Remove
  <2>2. ASSUME NEW s \in Dispatched'
        PROVE  working'[submission_map'[s]] = s /\ submission_map'[s] \in judges'
    <3>1. /\ s \in Dispatched /\ submission_map'[s] = submission_map[s]
          /\ working[j] # NoSubmission => s # working[j]
      BY <2>1 DEF Del, Dispatched
    <3>2. submission_map[s] \in judges /\ working[submission_map[s]] = s
      BY <1>0, <3>1 DEF MapMatchesWorking
    <3>3. s # NoSubmission
      BY <1>0, <3>1, Distinguished DEF TypeOK
    <3>4. submission_map[s] # j
      BY <3>1, <3>2, <3>3
    <3> QED BY <1>3, <2>1, <3>1, <3>2, <3>4
  <2>3. ASSUME NEW k \in judges', working'[k] # NoSubmission
        PROVE  working'[k] \in Dispatched' /\ submission_map'[working'[k]] = k
    <3>1. k \in judges /\ k # j /\ working[k] # NoSubmission /\ working'[k] = working[k]
      BY <1>3, <2>1, <2>3
    <3>2. working[k] \in Dispatched /\ submission_map[working[k]] = k
      BY <1>0, <3>1 DEF MapMatchesWorking
    <3>3. working[j] # NoSubmission => working[j] # working[k]
      <4>1. j \in judges
        BY <1>0, <2>1 DEF HandlerLife
      <4> QED BY <1>0, <3>1, <3>2, <4>1 DEF MapMatchesWorking
    <3> QED BY <2>1, <3>1, <3>2, <3>3 DEF Del, Dispatched
  <2>4. MapMatchesWorking'
    BY <2>2, <2>3 DEF MapMatchesWorking
  <2>5. HandlerLife'
    BY <1>0, <1>3, <2>1 DEF HandlerLife, TypeOK
  <2> QED BY <1>2, <1>3, <2>1, <2>4, <2>5 DEF OneTierInv, OneTierParts, LockFree
<1> QED BY <1>4, <1>5

LEMMA FreeSelfOneTier ==
    ASSUME OneTierInv, NEW j \in Judge, NEW s \in Submission, FreeSelf(j, s)
    PROVE  OneTierParts'
<1>0. TypeOK /\ MapMatchesWorking /\ HandlerLife
  BY DEF OneTierInv
<1>1. /\ working[j] = s /\ phase[j] \in {"registered", "ready"} /\ j \in judges
      /\ s # NoSubmission
  BY <1>0, Distinguished DEF FreeSelf, HandlerLife
<1>2. s \in Dispatched /\ submission_map[s] = j
  BY <1>0, <1>1 DEF MapMatchesWorking
<1>3. /\ submission_map' = Del(submission_map, s)
      /\ working' = [working EXCEPT ![j] = NoSubmission]
      /\ owner' = j /\ tail' = "free" /\ waking' = waking
      /\ job' = [job EXCEPT ![j] = @ \ {s}]
      /\ UNCHANGED <<judges, min_tier, reloading, phase, sent>>
  BY <1>2 DEF FreeSelf, on_judge_free
<1>4. working'[j] = NoSubmission /\ \A k \in Judge \ {j} : working'[k] = working[k]
  BY <1>0, <1>3 DEF TypeOK
<1>5. ASSUME NEW x \in Dispatched'
      PROVE  working'[submission_map'[x]] = x /\ submission_map'[x] \in judges'
  <2>1. x \in Dispatched /\ x # s /\ submission_map'[x] = submission_map[x]
    BY <1>3 DEF Del, Dispatched
  <2>2. working[submission_map[x]] = x /\ submission_map[x] \in judges /\ submission_map[x] \in Judge
    BY <1>0, <2>1 DEF MapMatchesWorking, TypeOK
  <2> QED BY <1>1, <1>3, <1>4, <2>1, <2>2
<1>6. ASSUME NEW k \in judges', working'[k] # NoSubmission
      PROVE  working'[k] \in Dispatched' /\ submission_map'[working'[k]] = k
  <2>1. k \in judges /\ k # j /\ k \in Judge /\ working'[k] = working[k]
    BY <1>0, <1>3, <1>4, <1>6 DEF TypeOK
  <2>2. working[k] \in Dispatched /\ submission_map[working[k]] = k
    BY <1>0, <1>6, <2>1 DEF MapMatchesWorking
  <2> QED BY <1>2, <1>3, <2>1, <2>2 DEF Del, Dispatched
<1>7. MapMatchesWorking'
  BY <1>5, <1>6 DEF MapMatchesWorking
<1>8. HandlerLife'
  <2>1. sent[j] = {} /\ job'[j] = {}
    <3>1. \A x \in sent[j] \cup job[j] : x = s
      BY <1>0, <1>1 DEF HandlerLife
    <3>2. s \in job[j] /\ sent[j] \cap job[j] = {}
      BY <1>0 DEF FreeSelf, HandlerLife
    <3> QED BY <1>0, <1>3, <3>1, <3>2 DEF TypeOK
  <2>2. \A k \in Judge \ {j} : job'[k] = job[k]
    BY <1>0, <1>3 DEF TypeOK
  <2> QED BY <1>0, <1>3, <1>4, <2>1, <2>2 DEF HandlerLife
<1> QED BY <1>1, <1>3, <1>4, <1>7, <1>8, Distinguished DEF OneTierInv, OneTierParts, LockFree

\* The handlers' own steps and lost connections.
LEMMA HandlerOneTier ==
    ASSUME OneTierInv, NEW j \in Judge,
           \/ LoadRow(j) \/ CacheDisabled(j) \/ Connected(j)
           \/ Record(j) \/ Drop(j) \/ Disconnected(j)
           \/ \E s \in Submission : Acknowledge(j, s)
    PROVE  OneTierParts'
<1>0. TypeOK /\ MapMatchesWorking /\ HandlerLife
  BY DEF OneTierInv
<1>1. UNCHANGED <<judges, submission_map, min_tier, owner, waking, tail, reloading>>
  BY DEF LoadRow, CacheDisabled, Connected, Record, Drop, Disconnected, Acknowledge,
     schedule, lock, handler
<1>2. ASSUME \A k \in judges : working'[k] = working[k], HandlerLife'
      PROVE  OneTierParts'
  <2>1. MapMatchesWorking'
    BY <1>0, <1>1, <1>2 DEF MapMatchesWorking, Dispatched
  <2> QED BY <1>1, <1>2, <2>1 DEF OneTierInv, OneTierParts, LockFree
<1>3. CASE Connected(j)
  <2>1. phase[j] = "registered" /\ phase' = [phase EXCEPT ![j] = "ready"]
        /\ UNCHANGED <<working, sent, job>>
    BY <1>3 DEF Connected, process
  <2>2. HandlerLife'
    BY <1>0, <1>1, <2>1 DEF HandlerLife, TypeOK
  <2> QED BY <1>2, <2>1, <2>2
<1>4. CASE Record(j)
  BY <1>0, <1>1, <1>2, <1>4 DEF Record, process, HandlerLife
<1>5. CASE Drop(j)
  <2>1. /\ phase[j] = "ready" /\ phase' = [phase EXCEPT ![j] = "closing"]
        /\ sent' = [sent EXCEPT ![j] = {}] /\ job' = [job EXCEPT ![j] = {}]
        /\ working' = working
    BY <1>5 DEF Drop
  <2>2. HandlerLife'
    BY <1>0, <1>1, <2>1 DEF HandlerLife, TypeOK
  <2> QED BY <1>2, <2>1, <2>2
<1>6. CASE Disconnected(j)
  <2>1. /\ phase[j] = "removed" /\ phase' = [phase EXCEPT ![j] = "off"]
        /\ working' = [working EXCEPT ![j] = NoSubmission]
        /\ UNCHANGED <<sent, job>>
    BY <1>6 DEF Disconnected, process
  <2>2. j \notin judges /\ judges \subseteq Judge
    BY <1>0, <2>1 DEF HandlerLife, TypeOK
  <2>3. \A k \in judges : working'[k] = working[k]
    BY <1>0, <2>1, <2>2 DEF TypeOK
  <2>4. HandlerLife'
    BY <1>0, <1>1, <2>1 DEF HandlerLife, TypeOK
  <2> QED BY <1>2, <2>3, <2>4
<1>7. ASSUME NEW s \in Submission, Acknowledge(j, s)
      PROVE  OneTierParts'
  <2>1. working[j] = s
    BY <1>0, <1>7 DEF Acknowledge, HandlerLife
  <2>2. /\ sent' = [sent EXCEPT ![j] = @ \ {s}] /\ job' = [job EXCEPT ![j] = @ \cup {s}]
        /\ s \in sent[j] /\ UNCHANGED <<phase, working>>
    BY <1>7, <2>1 DEF Acknowledge
  <2>3. HandlerLife'
    BY <1>0, <1>1, <2>1, <2>2 DEF HandlerLife, TypeOK
  <2> QED BY <1>2, <2>2, <2>3
<1>8. CASE LoadRow(j) \/ CacheDisabled(j)
  <2>1. UNCHANGED <<phase, working, sent, job>>
    BY <1>8 DEF LoadRow, CacheDisabled, handler, process
  <2> QED BY <1>0, <1>1, <1>2, <2>1 DEF HandlerLife
<1> QED BY <1>3, <1>4, <1>5, <1>6, <1>7, <1>8

\* What an administrator does, and aborts.
LEMMA AdminOneTier ==
    ASSUME OneTier, OneTierInv,
           \/ \E n \in Names : AdminStep(n) \/ ToggleDisabled(n) \/ DisconnectJudge(n)
           \/ \E s \in Submission : Abort(s)
           \/ UNCHANGED vars
    PROVE  OneTierParts'
<1>0. TypeOK /\ MapMatchesWorking /\ HandlerLife
  BY DEF OneTierInv
<1>1. UNCHANGED <<judges, submission_map, working, tail, reloading>>
  BY DEF AdminStep, LoadToggle, SaveToggle, ToggleFails, ToggleDisabled, DisconnectJudge, Abort,
     vars, schedule, lock, handler
<1>2. MapMatchesWorking'
  BY <1>0, <1>1 DEF MapMatchesWorking, Dispatched
<1>3. ASSUME NEW n \in Names, ToggleDisabled(n)
      PROVE  OneTierParts'
  <2>1. LockFree /\ UpdateMinTier(judges, is_disabled') /\ UNCHANGED <<phase, sent, job>>
    BY <1>3 DEF ToggleDisabled, process
  <2>2. waking' = {} /\ (min_tier' # NoTier => \E k \in Judge : TierOf[k] = min_tier')
    BY <1>0, <2>1, NobodyWoken DEF OneTierInv, TypeOK
  <2>3. tail' = "none"
    BY <1>1, <2>1 DEF OneTierInv
  <2>4. HandlerLife'
    BY <1>0, <1>1, <2>1 DEF HandlerLife
  <2> QED BY <1>1, <1>2, <2>2, <2>3, <2>4 DEF OneTierInv, OneTierParts
<1>4. ASSUME UNCHANGED <<min_tier, owner, waking, tail>>, HandlerLife'
      PROVE  OneTierParts'
  BY <1>1, <1>2, <1>4 DEF OneTierInv, OneTierParts, LockFree
<1>5. ASSUME NEW n \in Names, DisconnectJudge(n)
      PROVE  OneTierParts'
  <2>1. PICK closed \in SUBSET judges :
          /\ \A k \in closed : phase[k] = "ready"
          /\ phase' = [k \in Judge |-> IF k \in closed THEN "closing" ELSE phase[k]]
          /\ sent' = [k \in Judge |-> IF k \in closed THEN {} ELSE sent[k]]
          /\ job' = [k \in Judge |-> IF k \in closed THEN {} ELSE job[k]]
    BY <1>5 DEF DisconnectJudge
  <2>2. HandlerLife'
    BY <1>0, <1>1, <2>1 DEF HandlerLife
  <2>3. UNCHANGED <<min_tier, owner, waking, tail>>
    BY <1>5 DEF DisconnectJudge, schedule, lock
  <2> QED BY <1>4, <2>2, <2>3
<1>6. CASE \/ \E n \in Names : AdminStep(n)
           \/ \E s \in Submission : Abort(s)
           \/ UNCHANGED vars
  <2>1. UNCHANGED <<min_tier, owner, waking, tail, phase, sent, job>>
    BY <1>6 DEF AdminStep, LoadToggle, SaveToggle, ToggleFails, Abort, vars, schedule, lock, handler, process
  <2> QED BY <1>0, <1>1, <1>4, <2>1 DEF HandlerLife
<1> QED BY <1>3, <1>5, <1>6

LEMMA StepOneTier ==
    ASSUME OneTier, OneTierInv, TypeOK', [Next]_vars
    PROVE  OneTierParts'
<1>1. \A j \in Judge : ~SupportedProblems(j) /\ ~UpdateProblems(j)
  BY DEF OneTier, OneTierInv, SupportedProblems, UpdateProblems
<1> QED BY <1>1, LockStepOneTier, RequestOneTier, JoinOneTier, FreeSelfOneTier, HandlerOneTier,
           AdminOneTier DEF Next, JudgeStep, AdminStep

\* JudgeList.submission_map and JudgeHandler._working are two views of one
\* assignment: no two judges have one submission.
THEOREM MapCorrect == Base \/ OneTier => (Spec => []MapMatchesWorking)
<1>1. CASE Base
  <2>1. PairedInv => MapMatchesWorking
    BY DEF PairedInv
  <2>2. Spec => []PairedInv
    BY <1>1, PairedSafety
  <2> QED BY <2>1, <2>2, PTL
<1>2. CASE OneTier
  <2>1. Init => OneTierParts
    BY DEF Init, OneTierParts, MapMatchesWorking, HandlerLife, Dispatched
  <2>2. TypeOK /\ QueuedOnce /\ OneTierParts <=> OneTierInv
    BY DEF OneTierInv, OneTierParts
  <2>3. OneTierInv /\ TypeOK' /\ [Next]_vars => OneTierParts'
    BY <1>2, StepOneTier
  <2>4. Spec => []QueuedOnce
    BY <1>2, QueueCorrect, OneTierRaisesNothing
  <2>5. OneTierParts => MapMatchesWorking
    BY DEF OneTierParts
  <2> QED BY <2>1, <2>2, <2>3, <2>4, <2>5, TypeCorrect, PTL DEF Spec
<1> QED BY <1>1, <1>2

-----------------------------------------------------------------------------
(* Interchangeable judges: none is idle beside work.                       *)

\* All judges have the same problems and no request names one.
Alike == /\ Base /\ IsFiniteSet(Judge)
         /\ \E list : ProblemSets \subseteq {list}
         /\ Pins \subseteq {NoPin}

TheList == CHOOSE list : ProblemSets \subseteq {list}

OneList ==
    /\ \A j \in judges : problems[j] = TheList
    /\ \A s \in Submission : pin[s] = NoPin

\* The priorities at which a submission waits that the judges can judge.
Wanted == {p \in Priority : \E i \in DOMAIN queue[p] : queue[p][i] \in TheList}

\* The judges G, idle in a tier of the judges C, have nothing to do although
\* the priorities W wait: either there are none, or all that waits is held back
\* for the one in reserve.
AtRest(G, C, W) ==
    G # {} => \A p \in W : p >= REJUDGE_PRIORITY /\ Cardinality(C) > 1 /\ Cardinality(G) <= 1

\* The idle judges that the operation which holds the lock does not serve.
Passed == {j \in Free(current_tier_judges) : ~ToBeServed(j)}

\* WorkConserving in the middle of an operation.
Conserving ==
    \/ tail = "sole" /\ Cardinality(current_tier_judges) = 1
    \/ AtRest(Passed, current_tier_judges, Wanted)

\* Fewer idle judges, more judges in the tier and less in the queue.
LEMMA StaysAtRest ==
    ASSUME NEW G1, NEW C1, NEW W1, NEW G2, NEW C2, NEW W2, IsFiniteSet(Judge),
           G1 \subseteq Judge, C2 \subseteq Judge,
           G2 \subseteq G1, C1 \subseteq C2, W2 \subseteq W1, AtRest(G1, C1, W1)
    PROVE  AtRest(G2, C2, W2)
<1>1. IsFiniteSet(G1) /\ IsFiniteSet(C2)
  BY FS_Subset
<1>2. /\ Cardinality(G2) <= Cardinality(G1) /\ Cardinality(C1) <= Cardinality(C2)
      /\ IsFiniteSet(G2) /\ IsFiniteSet(C1)
  BY <1>1, FS_Subset
<1>3. /\ Cardinality(G1) \in Nat /\ Cardinality(G2) \in Nat
      /\ Cardinality(C1) \in Nat /\ Cardinality(C2) \in Nat
  BY <1>1, <1>2, FS_CardinalityType
<1> QED BY <1>2, <1>3 DEF AtRest

\* Every judge of the list may have the same submissions of the queue.
LEMMA DeliverableToAll ==
    ASSUME QuietInv, OneList, NEW j \in judges, Deliverable(j) = {}, NEW p \in Wanted
    PROVE  p >= REJUDGE_PRIORITY /\ should_reserve_judge
<1>1. PICK i \in DOMAIN queue[p] : queue[p][i] \in TheList
  BY DEF Wanted
<1>2. p \in Priority /\ queue[p][i] \in Submission /\ j \in Judge
  BY <1>1 DEF Wanted, QuietInv, TypeOK
<1>3. can_judge(j, queue[p][i], pin[queue[p][i]])
  BY <1>1, <1>2 DEF can_judge, OneList, QuietInv, NoneDisabled
<1>4. <<p, i>> \in QueueNodes
  BY <1>1, <1>2 DEF QueueNodes
<1>5. <<p, i>>[1] = p /\ <<p, i>>[2] = i
  OBVIOUS
<1> QED BY <1>3, <1>4, <1>5 DEF Deliverable

LEMMA NothingDeliverable ==
    ASSUME QuietInv, OneList, NEW j \in Free(current_tier_judges),
           AtRest(Free(current_tier_judges), current_tier_judges, Wanted)
    PROVE  Deliverable(j) = {}
<1> SUFFICES ASSUME NEW n \in Deliverable(j) PROVE FALSE
  OBVIOUS
<1>1. j \in judges
  BY DEF Free, current_tier_judges, TierJudges
<1>2. PICK p \in Priority : \E k \in DOMAIN queue[p] : n = <<p, k>>
  BY DEF Deliverable, QueueNodes
<1>3. PICK i \in DOMAIN queue[p] : n = <<p, i>>
  BY <1>2
<1>4. n[1] = p /\ n[2] = i
  BY <1>3
<1>5. queue[p][i] \in TheList
  BY <1>1, <1>4 DEF Deliverable, can_judge, OneList
<1>6. p \in Wanted
  BY <1>5 DEF Wanted
<1>7. p >= REJUDGE_PRIORITY /\ should_reserve_judge
  BY <1>6 DEF AtRest, should_reserve_judge
<1> QED BY <1>4, <1>7 DEF Deliverable

\* What is taken from the queue, or the same queue.
LEMMA WantedShrinks ==
    ASSUME QuietInv,
           \/ queue' = queue
           \/ \E p \in Priority : \E i \in DOMAIN queue[p] :
                 queue' = [queue EXCEPT ![p] = Without(queue[p], i)]
    PROVE  Wanted' \subseteq Wanted
<1>1. CASE queue' = queue
  BY <1>1 DEF Wanted
<1>2. ASSUME NEW p \in Priority, NEW i \in DOMAIN queue[p],
             queue' = [queue EXCEPT ![p] = Without(queue[p], i)]
      PROVE  Wanted' \subseteq Wanted
  <2>1. queue[p] \in Seq(Submission)
    BY DEF QuietInv, TypeOK
  <2>2. \A k \in DOMAIN Without(queue[p], i) : \E l \in DOMAIN queue[p] : Without(queue[p], i)[k] = queue[p][l]
    BY <2>1, WithoutKeeps
  <2>3. \A q \in Priority : \A k \in DOMAIN queue'[q] : \E l \in DOMAIN queue[q] : queue'[q][k] = queue[q][l]
    BY <1>2, <2>2 DEF QuietInv, TypeOK
  <2> QED BY <2>3 DEF Wanted
<1> QED BY <1>1, <1>2

LEMMA TierIs ==
    ASSUME QuietInv
    PROVE  /\ current_tier_judges = {k \in judges : TierOf[k] = min_tier}
           /\ current_tier_judges \subseteq Judge
           /\ Free(current_tier_judges) = {k \in current_tier_judges : working[k] = NoSubmission}
BY DEF QuietInv, NoneDisabled, TypeOK, current_tier_judges, TierJudges, Free

LEMMA TierIsNext ==
    ASSUME QuietInv'
    PROVE  /\ current_tier_judges' = {k \in judges' : TierOf[k] = min_tier'}
           /\ current_tier_judges' \subseteq Judge
           /\ Free(current_tier_judges)' = {k \in current_tier_judges' : working'[k] = NoSubmission}
BY DEF QuietInv, NoneDisabled, TypeOK, current_tier_judges, TierJudges, Free

LEMMA ProblemListIs ==
    ASSUME Alike
    PROVE  ProblemSets \subseteq {TheList}
BY DEF Alike, TheList

LEMMA AlikeIsQuiet == Alike => Base /\ Quiet /\ IsFiniteSet(Judge)
BY BaseIsQuiet DEF Alike

\* One call of _handle_free_judge: the judge has work afterwards, or is at rest.
LEMMA ServeRests ==
    ASSUME Alike, QuietInv, QuietInv', OneList, NEW j \in judges, working[j] = NoSubmission,
           HandleFreeJudge(j), UNCHANGED <<min_tier, is_disabled, problems>>
    PROVE  /\ OneList'
           /\ current_tier_judges' = current_tier_judges
           /\ Wanted' \subseteq Wanted
           /\ \/ Free(current_tier_judges)' = Free(current_tier_judges) \ {j}
              \/ /\ Free(current_tier_judges)' = Free(current_tier_judges)
                 /\ j \in current_tier_judges =>
                       AtRest(Free(current_tier_judges), current_tier_judges, Wanted')
<1>0. TypeOK /\ j \in Judge
  BY DEF QuietInv, TypeOK
<1>1. ASSUME NEW p \in Priority, NEW i \in DOMAIN queue[p], Given(j, queue[p][i], p, i)
      PROVE  /\ OneList'
             /\ current_tier_judges' = current_tier_judges
             /\ Wanted' \subseteq Wanted
             /\ Free(current_tier_judges)' = Free(current_tier_judges) \ {j}
  <2>1. /\ judges' = judges
        /\ queue' = [queue EXCEPT ![p] = Without(queue[p], i)]
        /\ pin' = [pin EXCEPT ![queue[p][i]] = NoPin]
        /\ working' = [working EXCEPT ![j] = queue[p][i]]
    BY <1>1 DEF Given
  <2>2. queue[p][i] \in Submission /\ queue[p][i] # NoSubmission
    BY <1>0, Distinguished DEF TypeOK
  <2>3. Wanted' \subseteq Wanted
    BY <2>1, WantedShrinks
  <2>4. OneList'
    BY <1>0, <2>1, <2>2 DEF OneList, TypeOK
  <2>5. current_tier_judges' = current_tier_judges
    BY <2>1 DEF current_tier_judges, TierJudges
  <2>6. \A k \in Judge : working'[k] = IF k = j THEN queue[p][i] ELSE working[k]
    BY <1>0, <2>1 DEF TypeOK
  <2>7. current_tier_judges \subseteq Judge
    BY TierIs
  <2>8. Free(current_tier_judges)' = {k \in current_tier_judges : working'[k] = NoSubmission}
    BY <2>5 DEF Free
  <2>9. Free(current_tier_judges)' = Free(current_tier_judges) \ {j}
    BY <2>2, <2>6, <2>7, <2>8 DEF Free
  <2> QED BY <2>3, <2>4, <2>5, <2>9
<1>2. ASSUME NothingGiven
      PROVE  /\ OneList'
             /\ current_tier_judges' = current_tier_judges
             /\ Wanted' = Wanted
             /\ Free(current_tier_judges)' = Free(current_tier_judges)
  BY <1>2 DEF NothingGiven, OneList, current_tier_judges, TierJudges, Free, Wanted
<1>3. ASSUME NothingGiven, j \in current_tier_judges
      PROVE  Deliverable(j) = {}
  <2>1. TierServed(j)
    BY <1>0, <1>3, JudgeListAssumption DEF TypeOK, current_tier_judges, TierJudges, TierServed, NoTier
  <2> SUFFICES ASSUME Deliverable(j) # {} PROVE FALSE
    OBVIOUS
  <2>2. PICK n \in Deliverable(j) : Submit(j, queue[n[1]][n[2]], "ok")
    BY <2>1, OnlyOk, AlikeIsQuiet DEF HandleFreeJudge
  <2>3. PICK p \in Priority : \E k \in DOMAIN queue[p] : n = <<p, k>>
    BY DEF Deliverable, QueueNodes
  <2>4. PICK i \in DOMAIN queue[p] : n = <<p, i>>
    BY <2>3
  <2>5. working'[j] = queue[p][i] /\ queue[p][i] \in Submission
    BY <1>0, <2>2, <2>4 DEF Submit, TypeOK
  <2> QED BY <1>3, <2>5, Distinguished DEF NothingGiven
<1>4. ASSUME NothingGiven, j \in current_tier_judges
      PROVE  AtRest(Free(current_tier_judges), current_tier_judges, Wanted)
  <2>1. \A p \in Wanted : p >= REJUDGE_PRIORITY /\ should_reserve_judge
    BY <1>3, <1>4, DeliverableToAll
  <2> QED BY <2>1 DEF AtRest, should_reserve_judge
<1>5. Quiet
  BY AlikeIsQuiet
<1> QED BY <1>0, <1>1, <1>2, <1>4, <1>5, Serve

LEMMA LockStepRests ==
    ASSUME Alike, QuietInv, QuietInv', Paired, OneList, Conserving, LockStep
    PROVE  OneList' /\ Conserving'
<1> DEFINE T == current_tier_judges
           F == Free(current_tier_judges)
<1>0. /\ TypeOK /\ LockHeld /\ IsFiniteSet(Judge) /\ T \subseteq Judge /\ F \subseteq T
      /\ T \subseteq judges
  BY TierIs, AlikeIsQuiet DEF QuietInv
<1>1. UNCHANGED <<min_tier, is_disabled, problems>>
  BY DEF LockStep, ServeOwner, ServeSole, WakeNext
<1>2. \A k \in F : k \in judges /\ working[k] = NoSubmission
  BY <1>0 DEF Free
<1>a. ASSUME UNCHANGED <<judges, queue, pin, submission_map, working, sent>>
      PROVE  OneList' /\ T' = T /\ F' = F /\ Wanted' = Wanted
  BY <1>1, <1>a DEF OneList, current_tier_judges, TierJudges, Free, Wanted
<1>3. CASE ServeOwner
  <2>1. /\ owner \in judges /\ working[owner] = NoSubmission /\ HandleFreeJudge(owner)
        /\ tail = "free" /\ tail' = "none" /\ waking = {} /\ waking' = {}
    BY <1>0, <1>3 DEF ServeOwner, LockHeld, Paired
  <2>2. PICK j \in judges : j = owner
    BY <2>1
  <2>3. Passed = F \ {j} /\ Passed' = F'
    BY <2>1, <2>2 DEF Passed, ToBeServed
  <2>4. AtRest(F \ {j}, T, Wanted)
    BY <2>1, <2>3 DEF Conserving
  <2>5. /\ OneList' /\ T' = T /\ Wanted' \subseteq Wanted
        /\ \/ F' = F \ {j}
           \/ F' = F /\ (j \in T => AtRest(F, T, Wanted'))
    BY <1>1, <2>1, <2>2, ServeRests
  <2>6. CASE F' = F \ {j}
    <3>1. AtRest(F', T', Wanted')
      BY <1>0, <2>4, <2>5, <2>6, StaysAtRest
    <3> QED BY <2>3, <2>5, <3>1 DEF Conserving
  <2>7. CASE F' = F /\ (j \in T => AtRest(F, T, Wanted'))
    <3>1. CASE j \in T
      BY <2>3, <2>5, <2>7, <3>1 DEF Conserving
    <3>2. CASE j \notin T
      <4>1. F \ {j} = F
        BY <1>0, <3>2
      <4>2. AtRest(F', T', Wanted')
        BY <1>0, <2>4, <2>5, <2>7, <4>1, StaysAtRest
      <4> QED BY <2>3, <2>5, <4>2 DEF Conserving
    <3> QED BY <3>1, <3>2
  <2> QED BY <2>5, <2>6, <2>7
<1>4. CASE ServeSole
  <2>1. tail = "sole" /\ tail' = "none" /\ waking = {} /\ waking' = {}
    BY <1>4 DEF ServeSole
  <2>2. Passed = F /\ Passed' = F'
    BY <2>1 DEF Passed, ToBeServed
  <2>3. CASE sole_judge # {}
    <3>1. PICK j \in sole_judge : HandleFreeJudge(j)
      BY <1>4, <2>3 DEF ServeSole
    <3>2. Cardinality(T) = 1 /\ j \in F
      BY DEF sole_judge
    <3>3. T = {j}
      <4>1. IsFiniteSet(T)
        BY <1>0, FS_Subset
      <4>2. \E x : T = {x}
        BY <3>2, <4>1, FS_Singleton
      <4> QED BY <1>0, <3>2, <4>2
    <3>4. /\ OneList' /\ T' = T /\ Wanted' \subseteq Wanted
          /\ \/ F' = F \ {j}
             \/ F' = F /\ (j \in T => AtRest(F, T, Wanted'))
      BY <1>1, <1>2, <3>1, <3>2, ServeRests
    <3>5. F' = {} \/ AtRest(F', T', Wanted')
      BY <1>0, <3>2, <3>3, <3>4
    <3>6. AtRest(F', T', Wanted')
      BY <3>5 DEF AtRest
    <3> QED BY <2>2, <3>4, <3>6 DEF Conserving
  <2>4. CASE sole_judge = {}
    <3>1. OneList' /\ T' = T /\ F' = F /\ Wanted' = Wanted
      BY <1>a, <1>4, <2>4 DEF ServeSole
    <3>2. Cardinality(T) = 1 => F = {}
      BY <2>4 DEF sole_judge
    <3>3. AtRest(F, T, Wanted)
      BY <2>2, <3>2 DEF Conserving, AtRest
    <3> QED BY <2>2, <3>1, <3>3 DEF Conserving
  <2> QED BY <2>3, <2>4
<1>5. ASSUME NEW j \in Judge, WakeNext(j)
      PROVE  OneList' /\ Conserving'
  <2>1. j \in judges /\ j \in waking /\ tail # "free" /\ tail' = tail /\ waking' = waking \ {j}
    BY <1>0, <1>5 DEF WakeNext, Paired, LockHeld
  <2>2. Passed = F \ waking /\ Passed' = F' \ (waking \ {j})
    BY <2>1 DEF Passed, ToBeServed
  <2>3. /\ OneList' /\ T' = T /\ Wanted' \subseteq Wanted
        /\ \/ F' = F \ {j}
           \/ F' = F /\ (j \in T => j \notin F \/ AtRest(F, T, Wanted'))
    <3>1. CASE working[j] = NoSubmission
      BY <1>1, <1>5, <2>1, <3>1, ServeRests DEF WakeNext
    <3>2. CASE working[j] # NoSubmission
      BY <1>a, <1>2, <1>5, <3>2 DEF WakeNext
    <3> QED BY <3>1, <3>2
  <2>4. CASE tail = "sole" /\ Cardinality(T) = 1
    BY <2>1, <2>3, <2>4 DEF Conserving
  <2>5. CASE AtRest(Passed, T, Wanted)
    <3>1. CASE Passed' \subseteq Passed
      <4>1. AtRest(Passed', T', Wanted')
        BY <1>0, <2>2, <2>3, <2>5, <3>1, StaysAtRest
      <4> QED BY <2>3, <4>1 DEF Conserving
    <3>2. CASE F' = F /\ AtRest(F, T, Wanted')
      <4>1. AtRest(Passed', T', Wanted')
        BY <1>0, <2>2, <2>3, <3>2, StaysAtRest
      <4> QED BY <2>3, <4>1 DEF Conserving
    <3> QED BY <1>0, <2>2, <2>3, <3>1, <3>2
  <2> QED BY <2>4, <2>5 DEF Conserving
<1> QED BY <1>3, <1>4, <1>5 DEF LockStep

LEMMA RequestRests ==
    ASSUME Alike, QuietInv, Paired, OneList, Conserving, NEW s \in Submission,
           NEW p \in Priority, NEW judge_id \in Pins, Request(s, p, judge_id)
    PROVE  OneList' /\ Conserving'
<1> DEFINE T == current_tier_judges
           F == Free(current_tier_judges)
           candidates == {j \in current_tier_judges : can_judge(j, s, judge_id)}
<1>0. /\ TypeOK /\ IsFiniteSet(Judge) /\ T \subseteq Judge /\ F \subseteq T
      /\ T \subseteq judges /\ judge_id = NoPin
  BY TierIs, AlikeIsQuiet DEF QuietInv, Alike
<1>1. UNCHANGED <<min_tier, lock, is_disabled, problems>>
  BY DEF Request
<1>2. tail = "none" /\ waking = {} /\ tail' = "none" /\ waking' = {}
  BY <1>1 DEF Request, QuietInv, LockHeld, lock
<1>3. Passed = F /\ Passed' = F'
  BY <1>2 DEF Passed, ToBeServed
<1>4. AtRest(F, T, Wanted)
  BY <1>2, <1>3 DEF Conserving
<1>5. \/ UNCHANGED <<judges, queue, pin, working>>
      \/ /\ \E j \in Available(candidates, p) : Submit(j, s, "ok")
         /\ UNCHANGED <<queue, pin>>
      \/ /\ ~Known(s) /\ Available(candidates, p) = {}
         /\ queue' = [queue EXCEPT ![p] = Append(@, s)]
         /\ pin' = [pin EXCEPT ![s] = judge_id]
         /\ UNCHANGED <<judges, working>>
  <2>1. \A j : Outcomes(j) = {"ok"}
    BY AlikeIsQuiet, OnlyOk
  <2> QED BY <2>1 DEF Request
<1>6. CASE UNCHANGED <<judges, queue, pin, working>>
  <2>1. OneList' /\ T' = T /\ F' = F /\ Wanted' = Wanted
    BY <1>1, <1>6 DEF OneList, current_tier_judges, TierJudges, Free, Wanted
  <2> QED BY <1>3, <1>4, <2>1 DEF Conserving
<1>7. ASSUME NEW j \in Available(candidates, p), Submit(j, s, "ok"), UNCHANGED <<queue, pin>>
      PROVE  OneList' /\ Conserving'
  <2>1. judges' = judges /\ working' = [working EXCEPT ![j] = s]
    BY <1>7 DEF Submit
  <2>2. OneList' /\ T' = T /\ Wanted' = Wanted
    BY <1>1, <1>7, <2>1 DEF OneList, current_tier_judges, TierJudges, Wanted
  <2>3. \A k \in T : working'[k] = NoSubmission => working[k] = NoSubmission
    BY <1>0, <2>1, Distinguished DEF TypeOK
  <2>4. F' \subseteq F
    BY <2>2, <2>3 DEF Free
  <2>5. AtRest(F', T', Wanted')
    BY <1>0, <1>4, <2>2, <2>4, StaysAtRest
  <2> QED BY <1>3, <2>2, <2>5 DEF Conserving
<1>8. ASSUME ~Known(s), Available(candidates, p) = {},
             queue' = [queue EXCEPT ![p] = Append(@, s)],
             pin' = [pin EXCEPT ![s] = judge_id], UNCHANGED <<judges, working>>
      PROVE  OneList' /\ Conserving'
  <2>1. OneList' /\ T' = T /\ F' = F
    BY <1>0, <1>1, <1>8 DEF OneList, TypeOK, current_tier_judges, TierJudges, Free
  <2>2. UniquePlaces
    BY DEF QuietInv, QueuedOnce, UniquePlaces
  <2>3. \A q \in Priority : \A k \in DOMAIN queue'[q] :
           \/ \E l \in DOMAIN queue[q] : queue'[q][k] = queue[q][l]
           \/ q = p /\ queue'[q][k] = s
    BY <1>0, <1>8, <2>2, PutLast DEF Known
  <2>4. Wanted' \subseteq Wanted \cup {p} /\ (s \notin TheList => Wanted' \subseteq Wanted)
    BY <2>3 DEF Wanted
  <2>5. CASE s \notin TheList
    <3>1. AtRest(F', T', Wanted')
      BY <1>0, <1>4, <2>1, <2>4, <2>5, StaysAtRest
    <3> QED BY <1>3, <2>1, <3>1 DEF Conserving
  <2>6. CASE s \in TheList
    <3>1. \A k \in T : can_judge(k, s, judge_id)
      BY <1>0, <2>6 DEF can_judge, OneList, QuietInv, NoneDisabled
    <3>2. candidates = T
      BY <3>1
    <3>3. \/ F = {}
          \/ Cardinality(T) > 1 /\ Cardinality(F) = 1 /\ p >= REJUDGE_PRIORITY
      BY <1>8, <3>2 DEF Available
    <3>4. AtRest(F, T, Wanted')
      BY <1>4, <2>4, <3>3 DEF AtRest
    <3> QED BY <1>3, <2>1, <3>4 DEF Conserving
  <2> QED BY <2>5, <2>6
<1> QED BY <1>5, <1>6, <1>7, <1>8

LEMMA AbortRests ==
    ASSUME Alike, QuietInv, OneList, Conserving, NEW s \in Submission, Abort(s)
    PROVE  OneList' /\ Conserving'
<1>0. TypeOK /\ IsFiniteSet(Judge) /\ current_tier_judges \subseteq Judge
  BY TierIs, AlikeIsQuiet DEF QuietInv
<1>1. UNCHANGED <<judges, min_tier, lock, working, is_disabled, problems>>
  BY DEF Abort, handler
<1>2. Wanted' \subseteq Wanted
  BY WantedShrinks DEF Abort
<1>3. OneList'
  BY <1>0, <1>1 DEF Abort, OneList, TypeOK
<1>4. current_tier_judges' = current_tier_judges /\ Passed' = Passed
  BY <1>1 DEF current_tier_judges, TierJudges, Free, Passed, ToBeServed, lock
<1>5. CASE tail = "sole" /\ Cardinality(current_tier_judges) = 1
  <2>1. tail' = "sole"
    BY <1>1, <1>5 DEF lock
  <2> QED BY <1>3, <1>4, <1>5, <2>1 DEF Conserving
<1>6. CASE AtRest(Passed, current_tier_judges, Wanted)
  <2>1. Passed \subseteq Judge
    BY <1>0 DEF Passed, Free
  <2>2. AtRest(Passed', current_tier_judges', Wanted')
    BY <1>0, <1>2, <1>4, <1>6, <2>1, StaysAtRest
  <2> QED BY <1>3, <2>2 DEF Conserving
<1> QED BY <1>5, <1>6 DEF Conserving

\* The judge that joins is served last; nobody else of a tier it joins gets idle.
LEMMA RegisterRests ==
    ASSUME Alike, QuietInv, QuietInv', Paired, Paired', OneList, Conserving, NEW j \in Judge,
           Register(j)
    PROVE  OneList' /\ Conserving'
<1> DEFINE T == current_tier_judges
           F == Free(current_tier_judges)
<1>0. /\ TypeOK /\ IsFiniteSet(Judge) /\ T \subseteq Judge /\ T' \subseteq Judge /\ F \subseteq T
      /\ T = {k \in judges : TierOf[k] = min_tier} /\ F = {k \in T : working[k] = NoSubmission}
      /\ T' = {k \in judges' : TierOf[k] = min_tier'} /\ F' = {k \in T' : working'[k] = NoSubmission}
  BY TierIs, TierIsNext, AlikeIsQuiet DEF QuietInv
<1>1. /\ judges' = judges \cup {j} /\ owner' = j /\ tail' = "free"
      /\ UNCHANGED <<queue, pin, working>>
      /\ LockFree
  BY DEF Register
<1>2. tail = "none" /\ waking = {} /\ waking' = {}
  BY <1>1 DEF QuietInv, LockHeld, Paired
<1>3. Passed = F /\ Passed' = F' \ {j}
  BY <1>1, <1>2 DEF Passed, ToBeServed
<1>4. AtRest(F, T, Wanted)
  BY <1>2, <1>3 DEF Conserving
<1>5. Wanted' = Wanted
  BY <1>1 DEF Wanted
<1>6. OneList'
  <2>1. PICK ps \in ProblemSets : problems' = [problems EXCEPT ![j] = ps]
    BY DEF Register
  <2>2. ps = TheList
    BY ProblemListIs
  <2> QED BY <1>0, <1>1, <2>1, <2>2 DEF OneList, TypeOK
<1>7. CASE min_tier' = min_tier
  <2>1. T \subseteq T' /\ F' \ {j} \subseteq F
    BY <1>0, <1>1, <1>7
  <2>2. AtRest(F' \ {j}, T', Wanted')
    BY <1>0, <1>4, <1>5, <2>1, StaysAtRest
  <2> QED BY <1>3, <1>6, <2>2 DEF Conserving
<1>8. CASE min_tier' # min_tier
  <2>1. ASSUME NEW k \in judges, TierOf[k] = min_tier' PROVE FALSE
    <3>1. min_tier # NoTier
      BY DEF QuietInv, Tiers
    <3>2. PICK l \in judges : TierOf[l] = min_tier
      BY <3>1 DEF Paired
    <3>3. min_tier <= TierOf[k] /\ min_tier' <= TierOf[l] /\ k \in Judge /\ l \in Judge
      BY <1>0, <1>1 DEF QuietInv, Tiers, TypeOK
    <3>4. TierOf[k] \in Nat /\ TierOf[l] \in Nat
      BY <3>3, JudgeListAssumption
    <3> QED BY <1>8, <2>1, <3>2, <3>3, <3>4
  <2>2. F' \ {j} = {}
    BY <1>0, <1>1, <2>1
  <2>3. AtRest(F' \ {j}, T', Wanted')
    BY <2>2 DEF AtRest
  <2> QED BY <1>3, <1>6, <2>3 DEF Conserving
<1> QED BY <1>7, <1>8

\* A judge that leaves may leave one behind, which is served last, or raise the
\* minimum, and then all judges of the new tier are to be served.
LEMMA RemoveRests ==
    ASSUME Alike, QuietInv, QuietInv', Paired, Paired', OneList, Conserving, NEW j \in Judge,
           Remove(j)
    PROVE  OneList' /\ Conserving'
<1> DEFINE T == current_tier_judges
           F == Free(current_tier_judges)
<1>0. /\ TypeOK /\ IsFiniteSet(Judge) /\ T \subseteq Judge /\ T' \subseteq Judge /\ F \subseteq T
      /\ T = {k \in judges : TierOf[k] = min_tier} /\ F = {k \in T : working[k] = NoSubmission}
      /\ T' = {k \in judges' : TierOf[k] = min_tier'} /\ F' = {k \in T' : working'[k] = NoSubmission}
  BY TierIs, TierIsNext, AlikeIsQuiet DEF QuietInv
<1>1. /\ judges' = judges \ {j} /\ tail' = "sole"
      /\ UNCHANGED <<queue, pin, working, is_disabled, problems>>
      /\ UpdateMinTier(judges', is_disabled) /\ LockFree
  BY DEF Remove
<1>2. tail = "none" /\ waking = {}
  BY <1>1 DEF QuietInv, LockHeld
<1>3. Passed = F /\ Passed' = F' \ waking'
  BY <1>1, <1>2 DEF Passed, ToBeServed
<1>4. AtRest(F, T, Wanted)
  BY <1>2, <1>3 DEF Conserving
<1>5. Wanted' = Wanted
  BY <1>1 DEF Wanted
<1>6. OneList'
  BY <1>1 DEF OneList
<1>7. CASE min_tier' = min_tier
  <2>1. T' = T \ {j} /\ F' = F \ {j}
    BY <1>0, <1>1, <1>7
  <2>2. IsFiniteSet(T') /\ IsFiniteSet(F)
    BY <1>0, FS_Subset
  <2>3. CASE F' \ waking' = {}
    BY <1>3, <1>6, <2>3 DEF Conserving, AtRest
  <2>4. CASE F' \ waking' # {}
    <3>1. T' # {} /\ F # {}
      BY <1>0, <2>1, <2>4
    <3>2. Cardinality(T') \in Nat /\ Cardinality(T') # 0
      BY <2>2, <3>1, FS_CardinalityType, FS_EmptySet
    <3>3. CASE Cardinality(T') = 1
      BY <1>1, <1>6, <3>3 DEF Conserving
    <3>4. CASE Cardinality(T') > 1
      <4>1. F' \ waking' \in SUBSET F
        BY <2>1
      <4>2. /\ Cardinality(F' \ waking') <= Cardinality(F)
            /\ IsFiniteSet(F' \ waking')
        BY <2>2, <4>1, FS_Subset
      <4>3. Cardinality(F' \ waking') \in Nat /\ Cardinality(F) \in Nat
        BY <2>2, <4>2, FS_CardinalityType
      <4>4. AtRest(F' \ waking', T', Wanted')
        BY <1>4, <1>5, <3>1, <3>4, <4>2, <4>3 DEF AtRest
      <4> QED BY <1>3, <1>6, <4>4 DEF Conserving
    <3> QED BY <3>2, <3>3, <3>4
  <2> QED BY <2>3, <2>4
<1>8. CASE min_tier' # min_tier
  <2>1. ASSUME NEW k \in T' PROVE k \in waking'
    <3>1. k \in judges' /\ TierOf[k] = min_tier' /\ TierOf[k] \in Nat
      BY <1>0, JudgeListAssumption
    <3>2. k \in judges /\ min_tier # NoTier /\ min_tier <= TierOf[k]
      BY <1>1, <3>1 DEF QuietInv, Tiers
    <3>3. min_tier \in Nat /\ min_tier' # NoTier /\ min_tier' > min_tier
      BY <1>0, <1>8, <3>1, <3>2 DEF TypeOK, NoTier
    <3>4. waking' = TierJudges(judges', is_disabled, min_tier')
      BY <1>1, <3>2, <3>3 DEF UpdateMinTier, Woken
    <3>5. ~is_disabled[k]
      BY <1>0 DEF QuietInv, NoneDisabled
    <3> QED BY <3>1, <3>4, <3>5 DEF TierJudges
  <2>2. F' \ waking' = {}
    BY <1>0, <2>1
  <2> QED BY <1>3, <1>6, <2>2 DEF Conserving, AtRest
<1> QED BY <1>7, <1>8

LEMMA FreeSelfRests ==
    ASSUME Alike, QuietInv, Paired, OneList, Conserving, NEW j \in Judge, NEW s \in Submission,
           FreeSelf(j, s)
    PROVE  OneList' /\ Conserving'
<1> DEFINE T == current_tier_judges
           F == Free(current_tier_judges)
<1>0. /\ TypeOK /\ IsFiniteSet(Judge) /\ T \subseteq Judge /\ F \subseteq T
      /\ s \in Dispatched
  BY TierIs, AlikeIsQuiet DEF QuietInv, FreeSelf, Holders
<1>1. /\ working' = [working EXCEPT ![j] = NoSubmission] /\ owner' = j /\ tail' = "free"
      /\ waking' = waking /\ LockFree
      /\ UNCHANGED <<judges, queue, pin, min_tier, is_disabled, problems>>
  BY <1>0 DEF FreeSelf, on_judge_free
<1>2. tail = "none" /\ waking = {}
  BY <1>1 DEF QuietInv, LockHeld
<1>3. OneList' /\ T' = T /\ Wanted' = Wanted
  BY <1>1 DEF OneList, current_tier_judges, TierJudges, Wanted
<1>4. Passed = F /\ Passed' = F' \ {j}
  BY <1>1, <1>2 DEF Passed, ToBeServed
<1>5. F' = {k \in T : working'[k] = NoSubmission}
  BY <1>3 DEF Free
<1>6. F' \ {j} \subseteq F
  BY <1>0, <1>1, <1>5 DEF Free, TypeOK
<1>7. AtRest(F, T, Wanted)
  BY <1>2, <1>4 DEF Conserving
<1>8. AtRest(F' \ {j}, T', Wanted')
  BY <1>0, <1>3, <1>6, <1>7, StaysAtRest
<1> QED BY <1>3, <1>4, <1>8 DEF Conserving

LEMMA RestRests ==
    ASSUME QuietInv, QuietInv', OneList, Conserving,
           UNCHANGED <<judges, queue, pin, min_tier, lock>>,
           \A k \in judges : working'[k] = working[k] /\ problems'[k] = problems[k]
    PROVE  OneList' /\ Conserving'
<1>1. current_tier_judges' = current_tier_judges
  BY TierIs, TierIsNext
<1>2. \A k \in current_tier_judges : working'[k] = working[k]
  BY TierIs
<1>3. Free(current_tier_judges)' = {k \in current_tier_judges : working'[k] = NoSubmission}
  BY <1>1 DEF Free
<1>4. Free(current_tier_judges)' = Free(current_tier_judges)
  BY <1>2, <1>3 DEF Free
<1>5. Passed' = Passed /\ Wanted' = Wanted
  BY <1>4 DEF Passed, ToBeServed, Wanted, lock
<1> QED BY <1>1, <1>5 DEF OneList, Conserving, lock

LEMMA StepRests ==
    ASSUME Alike, QuietInv, QuietInv', Paired, Paired', OneList, Conserving, [Next]_vars
    PROVE  OneList' /\ Conserving'
<1>1. CASE LockStep
  BY <1>1, LockStepRests
<1>2. ASSUME NEW j \in Judge,
             \/ LoadRow(j) \/ CacheDisabled(j) \/ Connected(j) \/ Record(j) \/ Drop(j)
             \/ \E s \in Submission : Acknowledge(j, s)
      PROVE  OneList' /\ Conserving'
  BY <1>2, RestRests DEF LoadRow, CacheDisabled, Connected, handler, Record, Drop, Acknowledge, schedule
<1>3. ASSUME NEW j \in Judge, Disconnected(j)
      PROVE  OneList' /\ Conserving'
  <2>1. /\ phase[j] = "removed" /\ working' = [working EXCEPT ![j] = NoSubmission]
        /\ problems' = [problems EXCEPT ![j] = {}]
        /\ UNCHANGED <<schedule, lock>>
    BY <1>3 DEF Disconnected
  <2>2. j \notin judges /\ judges \subseteq Judge
    BY <2>1 DEF QuietInv, Holders, TypeOK
  <2>3. \A k \in judges : working'[k] = working[k] /\ problems'[k] = problems[k]
    BY <2>1, <2>2 DEF QuietInv, TypeOK
  <2> QED BY <2>1, <2>3, RestRests DEF schedule
<1>4. ASSUME NEW j \in Judge,
             Register(j) \/ Remove(j) \/ \E s \in Submission : FreeSelf(j, s)
      PROVE  OneList' /\ Conserving'
  BY <1>4, RegisterRests, RemoveRests, FreeSelfRests
<1>5. ASSUME NEW s \in Submission, NEW p \in Priority, NEW judge_id \in Pins, Request(s, p, judge_id)
      PROVE  OneList' /\ Conserving'
  BY <1>5, RequestRests
<1>6. ASSUME \/ \E n \in Names : DisconnectJudge(n)
             \/ UNCHANGED vars
      PROVE  OneList' /\ Conserving'
  BY <1>6, RestRests DEF DisconnectJudge, vars, schedule, handler
<1>7. ASSUME NEW s \in Submission, Abort(s)
      PROVE  OneList' /\ Conserving'
  BY <1>7, AbortRests
<1>8. (\A j \in Judge : ~reloading[j]) /\ \A n \in Names : toggling[n] = NoToggle
  BY DEF Paired, QuietInv, NoneDisabled
<1>9. Base
  BY AlikeIsQuiet
<1> QED BY <1>1, <1>2, <1>3, <1>4, <1>5, <1>6, <1>7, <1>8, <1>9, NoOtherEvents
        DEF Next, JudgeStep, AdminStep

LEMMA AlwaysRests == Alike => (Spec => [](QuietInv /\ OneList /\ Conserving))
<1> SUFFICES ASSUME Alike PROVE Spec => [](QuietInv /\ OneList /\ Conserving)
  OBVIOUS
<1>1. Init => OneList /\ Conserving /\ Paired
  <2> SUFFICES ASSUME Init PROVE OneList /\ Conserving /\ Paired
    OBVIOUS
  <2>1. OneList /\ Wanted = {} /\ Paired
    BY DEF Init, OneList, Wanted, Paired, Dispatched
  <2> QED BY <2>1 DEF Conserving, AtRest
<1>2. Base /\ Quiet
  BY AlikeIsQuiet
<1>3. Spec => []QuietInv
  BY <1>2, QuietSafety
<1>4. QuietInv /\ QuietInv' /\ Paired /\ [Next]_vars => Paired'
  BY <1>2, StepPaired
<1>5. QuietInv /\ QuietInv' /\ Paired /\ Paired' /\ OneList /\ Conserving /\ [Next]_vars
      => OneList' /\ Conserving'
  BY StepRests
<1> QED BY <1>1, <1>3, <1>4, <1>5, PTL DEF Spec

\* Between two operations no idle judge of the current tier is left beside a
\* submission that _handle_free_judge would give it, if the judges are
\* interchangeable.
THEOREM WorkConserved == Alike => (Spec => []WorkConserving)
<1> SUFFICES ASSUME Alike PROVE Spec => []WorkConserving
  OBVIOUS
<1>1. QuietInv /\ OneList /\ Conserving => WorkConserving
  <2> SUFFICES ASSUME QuietInv, OneList, Conserving, LockFree,
                      NEW j \in Free(current_tier_judges)
               PROVE  Deliverable(j) = {}
    BY DEF WorkConserving
  <2>1. waking = {} /\ tail = "none"
    BY DEF QuietInv, LockHeld
  <2>2. Passed = Free(current_tier_judges)
    BY <2>1 DEF Passed, ToBeServed
  <2>3. AtRest(Free(current_tier_judges), current_tier_judges, Wanted)
    BY <2>1, <2>2 DEF Conserving
  <2> QED BY <2>3, NothingDeliverable
<1> QED BY <1>1, AlwaysRests, PTL

\* What _handle_free_judge gives comes from the queue.
LEMMA ServedFromQueue ==
    ASSUME Quiet, QuietInv, NEW j \in Judge, HandleFreeJudge(j)
    PROVE  Dispatched' \subseteq Dispatched \cup Queued
<1>1. TypeOK
  BY DEF QuietInv
<1>2. CASE NothingGiven
  BY <1>2 DEF NothingGiven, Dispatched
<1>3. ASSUME NEW p \in Priority, NEW i \in DOMAIN queue[p], Given(j, queue[p][i], p, i)
      PROVE  Dispatched' \subseteq Dispatched \cup Queued
  <2>1. queue[p][i] \in Queued
    BY QueuedAt
  <2> QED BY <1>3, <2>1 DEF Given, Put, Dispatched
<1> QED BY <1>1, <1>2, <1>3, Serve

LEMMA StepOvertakesNone ==
    ASSUME Alike, QuietInv, OneList, Conserving, [Next]_vars,
           NEW s \in Dispatched' \ (Dispatched \cup Queued)
    PROVE  Deliverable(submission_map'[s]) = {}
<1>0. TypeOK /\ LockHeld /\ Quiet
  BY AlikeIsQuiet DEF QuietInv
<1>1. CASE LockStep
  <2>1. ASSUME NEW j \in Judge, HandleFreeJudge(j) PROVE FALSE
    BY <1>0, <2>1, ServedFromQueue
  <2>2. submission_map' # submission_map
    BY DEF Dispatched
  <2>3. tail = "free" => owner \in Judge
    BY <1>0 DEF LockHeld, TypeOK
  <2>4. sole_judge \subseteq Judge
    BY <1>0 DEF sole_judge, Free, current_tier_judges, TierJudges, TypeOK
  <2>5. CASE ServeOwner
    BY <2>1, <2>3, <2>5 DEF ServeOwner
  <2>6. CASE ServeSole
    BY <2>1, <2>2, <2>4, <2>6 DEF ServeSole
  <2>7. ASSUME NEW j \in Judge, WakeNext(j) PROVE FALSE
    BY <2>1, <2>2, <2>7 DEF WakeNext
  <2> QED BY <1>1, <2>5, <2>6, <2>7 DEF LockStep
<1>2. ASSUME NEW x \in Submission, NEW p \in Priority, NEW judge_id \in Pins, Request(x, p, judge_id)
      PROVE  Deliverable(submission_map'[s]) = {}
  <2> DEFINE candidates == {j \in current_tier_judges : can_judge(j, x, judge_id)}
  <2>1. submission_map' # submission_map
    BY DEF Dispatched
  <2>2. PICK j \in Available(candidates, p) : Submit(j, x, "ok")
    <3>1. \A j : Outcomes(j) = {"ok"}
      BY <1>0, OnlyOk
    <3> QED BY <1>2, <2>1, <3>1 DEF Request
  <2>3. submission_map' = Put(submission_map, x, j) /\ s = x
    BY <2>2 DEF Submit, Put, Dispatched
  <2>4. submission_map'[s] = j
    BY <2>3 DEF Put
  <2>5. j \in Free(current_tier_judges)
    <3>1. j \in Free(candidates)
      BY DEF Available
    <3> QED BY <3>1 DEF Free
  <2>6. waking = {} /\ tail = "none"
    BY <1>0, <1>2 DEF LockHeld, Request
  <2>7. Passed = Free(current_tier_judges)
    BY <2>6 DEF Passed, ToBeServed
  <2>8. AtRest(Free(current_tier_judges), current_tier_judges, Wanted)
    BY <2>6, <2>7 DEF Conserving
  <2> QED BY <2>4, <2>5, <2>8, NothingDeliverable
<1>3. ASSUME \/ UNCHANGED submission_map
             \/ \E x : submission_map' = Del(submission_map, x)
      PROVE  FALSE
  BY <1>3 DEF Del, Dispatched
<1>4. ASSUME NEW j \in Judge, JudgeStep(j) \/ Register(j) \/ SupportedProblems(j) \/ Drop(j)
      PROVE  FALSE
  <2>1. CASE \/ LoadRow(j) \/ CacheDisabled(j) \/ Connected(j) \/ Record(j) \/ UpdateProblems(j) \/ Disconnected(j) \/ Register(j)
             \/ SupportedProblems(j) \/ Drop(j) \/ \E x \in Submission : Acknowledge(j, x)
    BY <1>3, <2>1 DEF LoadRow, CacheDisabled, Connected, Record, UpdateProblems, Disconnected, Register,
                      SupportedProblems, Drop, Acknowledge, schedule
  <2>2. CASE Remove(j) \/ \E x \in Submission : FreeSelf(j, x)
    BY <1>3, <2>2 DEF Remove, FreeSelf, on_judge_free
  <2> QED BY <1>4, <2>1, <2>2 DEF JudgeStep
<1>5. ASSUME \/ \E x \in Submission : Abort(x)
             \/ \E n \in Names : AdminStep(n) \/ ToggleDisabled(n) \/ DisconnectJudge(n)
             \/ UNCHANGED vars
      PROVE  FALSE
  BY <1>3, <1>5 DEF Abort, AdminStep, LoadToggle, SaveToggle, ToggleFails, ToggleDisabled,
     DisconnectJudge, vars, schedule
<1> QED BY <1>1, <1>2, <1>4, <1>5 DEF Next, AdminStep

\* A request that finds a judge free is not served before a submission of the
\* queue that this judge might have had, if the judges are interchangeable.
THEOREM NoneOvertaken == Alike => (Spec => NoOvertaking)
<1> SUFFICES ASSUME Alike PROVE Spec => NoOvertaking
  OBVIOUS
<1>1. QuietInv /\ OneList /\ Conserving /\ [Next]_vars =>
        [\A s \in Dispatched' \ (Dispatched \cup Queued) : Deliverable(submission_map'[s]) = {}]_vars
  BY StepOvertakesNone
<1>2. Spec => [][\A s \in Dispatched' \ (Dispatched \cup Queued) :
                     Deliverable(submission_map'[s]) = {}]_vars
  BY <1>1, AlwaysRests, PTL DEF Spec
<1> QED BY <1>2 DEF NoOvertaking

-----------------------------------------------------------------------------
(* The scheduler implements GradingService: each of its steps is a step of  *)
(* the service or none, by the refinement mapping Service of JudgeList.     *)

\* The mapping, variable by variable; waiting is Queued.
Shown == {s \in Submission : InProgress(s)}
Gradings == [j \in Judge |-> Grading(j)]
Endings == [j \in Judge |-> EndOf(j)]

\* What a judge of the list works on.
Held == [j \in Judge |-> IF j \in judges THEN working[j] ELSE NoSubmission]

\* A handler records an end while it still reads packets or before it leaves.
RecordsBeforeLeaving ==
    \A j \in Judge : finishing[j] # NoSubmission => phase[j] \in {"ready", "closing"}

Correct == PairedInv /\ RecordsBeforeLeaving /\ Gradings = Held

-----------------------------------------------------------------------------
(* The mapping.                                                            *)

\* submission_map read backwards is what the judges of the list work on.
LEMMA GradingIsHeld == PairedInv => Gradings = Held
<1> SUFFICES ASSUME PairedInv, NEW j \in Judge
             PROVE  Grading(j) = IF j \in judges THEN working[j] ELSE NoSubmission
  BY DEF Gradings, Held
<1> USE Distinguished DEF PairedInv, MapMatchesWorking
<1>1. CASE j \in judges /\ working[j] # NoSubmission
  <2>1. working[j] \in Dispatched /\ submission_map[working[j]] = j
    BY <1>1
  <2>2. \A s \in Dispatched : submission_map[s] = j => s = working[j]
    OBVIOUS
  <2> QED
    BY <1>1, <2>1, <2>2 DEF Grading
<1>2. CASE ~(j \in judges /\ working[j] # NoSubmission)
  <2>1. \A s \in Dispatched : submission_map[s] # j
    BY <1>2 DEF TypeOK
  <2> QED
    BY <1>2, <2>1 DEF Grading
<1> QED
  BY <1>1, <1>2

\* A submission is given iff it is in submission_map.
LEMMA GivenIsDispatched ==
    ASSUME PairedInv, NEW s \in Submission
    PROVE  (\E j \in Judge : Gradings[j] = s) <=> s \in Dispatched
<1> USE Distinguished DEF PairedInv, MapMatchesWorking, TypeOK
<1>1. \A j \in Judge : Gradings[j] = IF j \in judges THEN working[j] ELSE NoSubmission
  BY GradingIsHeld DEF Held
<1>2. ASSUME s \in Dispatched PROVE \E j \in Judge : Gradings[j] = s
  <2>1. submission_map[s] \in Judge /\ submission_map[s] \in judges
    BY <1>2
  <2>2. working[submission_map[s]] = s
    BY <1>2
  <2> QED
    BY <1>1, <2>1, <2>2
<1>3. ASSUME NEW j \in Judge, Gradings[j] = s PROVE s \in Dispatched
  <2>1. j \in judges /\ working[j] = s
    BY <1>1, <1>3
  <2> QED
    BY <2>1
<1> QED
  BY <1>2, <1>3

-----------------------------------------------------------------------------
(* The steps of the service, in the terms of the mapping.                  *)

LEMMA AsGive ==
    ASSUME NEW j \in Judge, NEW s \in Submission,
           s \in Queued, Gradings[j] = NoSubmission,
           Queued' = Queued \ {s}, Gradings' = [Gradings EXCEPT ![j] = s],
           Shown' = Shown, Endings' = Endings
    PROVE  Service!GNext
<1>1. Service!Give(j, s)
  BY DEF Service!Give, Service!Idle, Gradings, Shown, Endings
<1> QED
  BY <1>1 DEF Service!GNext

LEMMA AsEnd ==
    ASSUME NEW j \in Judge,
           Gradings[j] # NoSubmission, Endings[j] = NoSubmission,
           Endings' = [Endings EXCEPT ![j] = Gradings[j]],
           Gradings' = [Gradings EXCEPT ![j] = NoSubmission],
           Shown' = Shown, Queued' = Queued
    PROVE  Service!GNext
<1>1. Service!End(j)
  BY DEF Service!End, Service!Idle, Gradings, Shown, Endings
<1> QED
  BY <1>1 DEF Service!GNext

LEMMA AsClose ==
    ASSUME NEW j \in Judge, Endings[j] # NoSubmission,
           Shown' = Shown \ {Endings[j]},
           Endings' = [Endings EXCEPT ![j] = NoSubmission],
           Gradings' = Gradings, Queued' = Queued
    PROVE  Service!GNext
<1>1. Service!Close(j)
  BY DEF Service!Close, Gradings, Shown, Endings
<1> QED
  BY <1>1 DEF Service!GNext

LEMMA AsWithdraw ==
    ASSUME NEW s \in Submission, s \in Shown, ~\E j \in Judge : Gradings[j] = s,
           Shown' = Shown \ {s}, Queued' = Queued \ {s},
           Gradings' = Gradings, Endings' = Endings
    PROVE  Service!GNext
<1>1. Service!Withdraw(s)
  BY DEF Service!Withdraw, Service!Given, Gradings, Shown, Endings
<1> QED
  BY <1>1 DEF Service!GNext

LEMMA AsAsk ==
    ASSUME NEW s \in Submission, Shown' = Shown \cup {s}, Endings' = Endings,
           \/ /\ s \in Queued \/ \E j \in Judge : Gradings[j] = s
              /\ Queued' = Queued /\ Gradings' = Gradings
           \/ /\ ~\E j \in Judge : Gradings[j] = s
              /\ Queued' = Queued \cup {s} /\ Gradings' = Gradings
           \/ /\ s \notin Queued /\ ~\E j \in Judge : Gradings[j] = s
              /\ \E j \in Judge : /\ Gradings[j] = NoSubmission
                                  /\ Gradings' = [Gradings EXCEPT ![j] = s]
              /\ Queued' = Queued
    PROVE  Service!GNext
<1>1. Service!Ask(s)
  BY DEF Service!Ask, Service!Given, Service!Idle, Gradings, Shown, Endings
<1> QED
  BY <1>1 DEF Service!GNext

LEMMA AsNothing ==
    ASSUME Shown' = Shown, Queued' = Queued, Gradings' = Gradings, Endings' = Endings
    PROVE  UNCHANGED Service!gvars
BY DEF Service!gvars, Gradings, Shown, Endings

-----------------------------------------------------------------------------
(* The steps of the scheduler.                                             *)

\* Taking out one place of the queue takes out the submission that waits there.
LEMMA QueueWithout ==
    ASSUME TypeOK, QueuedOnce, NEW p \in Priority, NEW i \in DOMAIN queue[p],
           queue' = [queue EXCEPT ![p] = Without(queue[p], i)]
    PROVE  Queued' = Queued \ {queue[p][i]}
BY TakenOut DEF UniquePlaces, QueuedOnce

LEMMA ShownStays == UNCHANGED status => Shown' = Shown
BY DEF Shown, InProgress

LEMMA QueuedStays == UNCHANGED queue => Queued' = Queued
BY DEF Queued, Elements

\* _handle_free_judge gives a queued submission to an idle judge.
LEMMA GivenIsGive ==
    ASSUME Correct, Correct', NEW j \in judges, working[j] = NoSubmission,
           NEW p \in Priority, NEW i \in DOMAIN queue[p],
           Given(j, queue[p][i], p, i), UNCHANGED <<phase, finishing, status>>
    PROVE  Service!GNext
<1> DEFINE s == queue[p][i]
<1>0. TypeOK /\ QueuedOnce /\ Gradings = Held /\ Gradings' = Held'
  BY DEF Correct, PairedInv
<1>1. j \in Judge /\ s \in Submission /\ s \in Queued
  BY <1>0, QueuedAt DEF TypeOK
<1>2. Queued' = Queued \ {s}
  BY <1>0, QueueWithout DEF Given
<1>3. Gradings[j] = NoSubmission
  BY <1>0, <1>1 DEF Held
<1>4. working' = [working EXCEPT ![j] = s] /\ judges' = judges
  BY DEF Given
<1>5. Gradings' = [Gradings EXCEPT ![j] = s]
  <2>1. Held' = [Held EXCEPT ![j] = s]
    BY <1>0, <1>1, <1>4 DEF Held, TypeOK
  <2> QED
    BY <1>0, <2>1
<1>6. Endings' = Endings
  <2>1. phase[j] # "removed"
    BY DEF Correct, PairedInv, HandlerLife, TypeOK
  <2>2. ASSUME NEW k \in Judge PROVE EndOf(k)' = EndOf(k)
    BY <1>0, <1>1, <1>4, <2>1 DEF EndOf, TypeOK
  <2> QED
    BY <2>2 DEF Endings
<1> QED
  BY <1>1, <1>2, <1>3, <1>5, <1>6, ShownStays, AsGive

\* A step that changes nothing of what the mapping reads.
LEMMA Silent ==
    ASSUME Correct, Correct', UNCHANGED <<queue, judges, working, phase, finishing, status>>
    PROVE  UNCHANGED Service!gvars
<1>1. Held' = Held /\ Endings' = Endings
  BY DEF Held, Endings, EndOf
<1>2. Gradings' = Gradings
  BY <1>1 DEF Correct
<1> QED
  BY <1>1, <1>2, ShownStays, QueuedStays, AsNothing

\* One call of _handle_free_judge for an idle judge of the list.
LEMMA ServeIsGive ==
    ASSUME Base, Correct, Correct', NEW j \in judges, working[j] = NoSubmission,
           HandleFreeJudge(j), UNCHANGED <<phase, finishing, status>>
    PROVE  [Service!GNext]_(Service!gvars)
<1>1. TypeOK /\ j \in Judge
  BY DEF Correct, PairedInv, TypeOK
<1>2. CASE NothingGiven
  BY <1>2, Silent DEF NothingGiven
<1>3. CASE \E p \in Priority : \E i \in DOMAIN queue[p] : Given(j, queue[p][i], p, i)
  BY <1>3, GivenIsGive
<1> QED
  BY <1>1, <1>2, <1>3, Serve, BaseIsQuiet

LEMMA LockStepImplements ==
    ASSUME Base, Correct, Correct', LockStep
    PROVE  [Service!GNext]_(Service!gvars)
<1>0. PairedInv
  BY DEF Correct
<1>1. ASSUME NEW j \in Judge, WakeNext(j) PROVE [Service!GNext]_(Service!gvars)
  <2>1. j \in judges /\ UNCHANGED <<phase, finishing, status>>
    BY <1>0, <1>1 DEF WakeNext, PairedInv, LockDiscipline
  <2>2. CASE working[j] = NoSubmission
    BY <1>1, <2>1, <2>2, ServeIsGive DEF WakeNext
  <2>3. CASE working[j] # NoSubmission
    BY <1>1, <2>1, <2>3, Silent DEF WakeNext
  <2> QED
    BY <2>2, <2>3
<1>2. CASE ServeOwner
  <2>1. owner \in judges /\ working[owner] = NoSubmission
    BY <1>0, <1>2 DEF ServeOwner, PairedInv, LockDiscipline
  <2>2. ~Raises
    BY <1>0, <2>1 DEF Raises, PairedInv, MinTierHeld
  <2>3. HandleFreeJudge(owner) /\ UNCHANGED <<phase, finishing, status>>
    BY <1>2, <2>2 DEF ServeOwner
  <2> QED
    BY <2>1, <2>3, ServeIsGive
<1>3. CASE ServeSole
  <2>1. UNCHANGED <<phase, finishing, status>>
    BY <1>3 DEF ServeSole
  <2>2. ASSUME NEW j \in sole_judge PROVE j \in judges /\ working[j] = NoSubmission
    BY <2>2 DEF sole_judge, Free, current_tier_judges, TierJudges
  <2>3. CASE sole_judge # {}
    <3>1. PICK j \in sole_judge : HandleFreeJudge(j)
      BY <1>3, <2>3 DEF ServeSole
    <3> QED
      BY <2>1, <2>2, <3>1, ServeIsGive
  <2>4. CASE sole_judge = {}
    BY <1>3, <2>1, <2>4, Silent DEF ServeSole
  <2> QED
    BY <2>3, <2>4
<1> QED
  BY <1>1, <1>2, <1>3 DEF LockStep

LEMMA RequestImplements ==
    ASSUME Base, Correct, Correct', NEW s \in Submission, NEW p \in Priority,
           NEW judge_id \in Pins, Request(s, p, judge_id)
    PROVE  Service!GNext
<1> DEFINE candidates == {j \in current_tier_judges : can_judge(j, s, judge_id)}
           available == Available(candidates, p)
<1>0. PairedInv /\ TypeOK /\ Gradings = Held /\ Gradings' = Held'
  BY DEF Correct, PairedInv
<1>1. Shown' = Shown \cup {s}
  BY <1>0 DEF Request, Shown, InProgress, TypeOK
<1>2. s \in Dispatched <=> \E j \in Judge : Gradings[j] = s
  BY <1>0, GivenIsDispatched
<1>3. \/ Known(s) /\ UNCHANGED <<judges, queue, working>>
      \/ ~Known(s) /\ (\E j \in available : \E outcome \in Outcomes(j) : Submit(j, s, outcome))
                   /\ UNCHANGED queue
      \/ ~Known(s) /\ queue' = [queue EXCEPT ![p] = Append(@, s)] /\ UNCHANGED <<judges, working>>
  BY DEF Request
<1>4. UNCHANGED <<phase, finishing>>
  BY DEF Request
<1> HIDE DEF available
<1>5. CASE Known(s) /\ UNCHANGED <<judges, queue, working>>
  <2>1. Held' = Held /\ Endings' = Endings
    BY <1>4, <1>5 DEF Held, Endings, EndOf
  <2>2. s \in Queued \/ \E j \in Judge : Gradings[j] = s
    BY <1>2, <1>5 DEF Known
  <2> QED
    BY <1>0, <1>1, <1>5, <2>1, <2>2, QueuedStays, AsAsk
<1>6. CASE ~Known(s) /\ (\E j \in available : \E outcome \in Outcomes(j) : Submit(j, s, outcome))
                   /\ UNCHANGED queue
  <2>1. PICK j \in available : Submit(j, s, "ok")
    BY <1>6 DEF Base, Outcomes
  <2>2. j \in judges /\ working[j] = NoSubmission /\ j \in Judge
    BY <1>0, <2>1 DEF available, Available, Free, current_tier_judges, TierJudges, TypeOK
  <2>3. working' = [working EXCEPT ![j] = s] /\ judges' = judges
    BY <2>1 DEF Submit
  <2>4. Gradings[j] = NoSubmission
    BY <1>0, <2>2 DEF Held
  <2>5. Held' = [Held EXCEPT ![j] = s]
    BY <1>0, <2>2, <2>3 DEF Held, TypeOK
  <2>6. Endings' = Endings
    <3>1. phase[j] # "removed"
      BY <1>0, <2>2 DEF PairedInv, HandlerLife
    <3>2. ASSUME NEW k \in Judge PROVE EndOf(k)' = EndOf(k)
      BY <1>0, <1>4, <2>2, <2>3, <3>1 DEF EndOf, TypeOK
    <3> QED
      BY <3>2 DEF Endings
  <2>7. s \notin Queued /\ ~\E k \in Judge : Gradings[k] = s
    BY <1>2, <1>6 DEF Known
  <2>8. Gradings' = [Gradings EXCEPT ![j] = s]
    BY <1>0, <2>5
  <2>9. Queued' = Queued
    BY <1>6, QueuedStays
  <2> QED
    BY <1>1, <2>2, <2>4, <2>6, <2>7, <2>8, <2>9, AsAsk
<1>7. CASE ~Known(s) /\ queue' = [queue EXCEPT ![p] = Append(@, s)] /\ UNCHANGED <<judges, working>>
  <2>1. Held' = Held /\ Endings' = Endings
    BY <1>4, <1>7 DEF Held, Endings, EndOf
  <2>2. Queued' = Queued \cup {s}
    <3>1. queue[p] \in Seq(Submission)
      BY <1>0 DEF TypeOK
    <3>2. Elements(Append(queue[p], s)) = Elements(queue[p]) \cup {s}
      <4>1. DOMAIN Append(queue[p], s) = DOMAIN queue[p] \cup {Len(queue[p]) + 1}
        BY <3>1
      <4>2. \A i \in DOMAIN queue[p] : Append(queue[p], s)[i] = queue[p][i]
        BY <3>1
      <4>3. Append(queue[p], s)[Len(queue[p]) + 1] = s
        BY <3>1
      <4> QED
        BY <4>1, <4>2, <4>3, Zenon DEF Elements
    <3>3. \A r \in Priority : Elements(queue'[r]) =
                  IF r = p THEN Elements(queue[r]) \cup {s} ELSE Elements(queue[r])
      BY <1>0, <1>7, <3>2 DEF TypeOK
    <3>4. Queued' = UNION {Elements(queue'[r]) : r \in Priority}
      BY DEF Queued, Elements
    <3> QED
      BY <3>3, <3>4 DEF Queued
  <2>3. ~\E j \in Judge : Gradings[j] = s
    BY <1>2, <1>7 DEF Known
  <2> QED
    BY <1>0, <1>1, <2>1, <2>2, <2>3, AsAsk
<1> QED
  BY <1>3, <1>5, <1>6, <1>7

LEMMA AbortImplements ==
    ASSUME Correct, Correct', NEW s \in Submission, Abort(s)
    PROVE  Service!GNext
<1>0. PairedInv /\ TypeOK /\ QueuedOnce /\ Gradings = Held /\ Gradings' = Held'
  BY DEF Correct, PairedInv
<1>1. s \in Shown /\ Shown' = Shown \ {s}
  BY <1>0 DEF Abort, Shown, InProgress, TypeOK
<1>2. ~\E j \in Judge : Gradings[j] = s
  BY <1>0, GivenIsDispatched DEF Abort
<1>3. Queued' = Queued \ {s}
  <2>1. CASE s \notin Queued /\ UNCHANGED queue
    BY <2>1, QueuedStays
  <2>2. CASE \E p \in Priority : \E i \in DOMAIN queue[p] :
               queue[p][i] = s /\ queue' = [queue EXCEPT ![p] = Without(@, i)]
    BY <1>0, <2>2, QueueWithout DEF TypeOK
  <2> QED
    BY <2>1, <2>2 DEF Abort
<1>4. Held' = Held /\ Endings' = Endings
  BY DEF Abort, handler, Held, Endings, EndOf
<1> QED
  BY <1>0, <1>1, <1>2, <1>3, <1>4, AsWithdraw

\* An acknowledgment: the service is asked for what the judge has already, since the
\* result of an earlier grading may have been written in the meantime.
LEMMA AcknowledgeImplements ==
    ASSUME Correct, Correct', NEW j \in Judge, NEW s \in Submission, Acknowledge(j, s)
    PROVE  Service!GNext
<1>0. PairedInv /\ TypeOK /\ Gradings = Held /\ Gradings' = Held'
  BY DEF Correct, PairedInv
<1>1. working[j] = s /\ j \in judges
  BY <1>0 DEF Acknowledge, PairedInv, HandlerLife
<1>2. status' = [status EXCEPT ![s] = "P"] /\ UNCHANGED <<judges, queue, working, phase, finishing>>
  BY <1>1 DEF Acknowledge, schedule
<1>3. Shown' = Shown \cup {s}
  BY <1>0, <1>2 DEF Shown, InProgress, TypeOK
<1>4. Gradings[j] = s
  BY <1>0, <1>1 DEF Held
<1>5. Held' = Held /\ Endings' = Endings
  BY <1>2 DEF Held, Endings, EndOf
<1> QED
  BY <1>0, <1>2, <1>3, <1>4, <1>5, QueuedStays, AsAsk

LEMMA FreeSelfImplements ==
    ASSUME Correct, Correct', NEW j \in Judge, NEW s \in Submission, FreeSelf(j, s)
    PROVE  Service!GNext
<1>0. PairedInv /\ TypeOK /\ Gradings = Held /\ Gradings' = Held'
  BY DEF Correct, PairedInv
<1>1. working[j] = s /\ j \in judges /\ phase[j] = "ready" /\ finishing[j] = NoSubmission
  BY <1>0 DEF FreeSelf, Reading, PairedInv, HandlerLife
<1>2. s # NoSubmission /\ s \in Dispatched
  BY <1>0, <1>1, Distinguished DEF PairedInv, MapMatchesWorking
<1>3. /\ working' = [working EXCEPT ![j] = NoSubmission]
      /\ finishing' = [finishing EXCEPT ![j] = s]
      /\ UNCHANGED <<judges, queue, phase, status>>
  BY <1>2 DEF FreeSelf, on_judge_free
<1>4. Gradings[j] = s /\ Endings[j] = NoSubmission
  BY <1>0, <1>1 DEF Held, Endings, EndOf
<1>5. Held' = [Held EXCEPT ![j] = NoSubmission]
  BY <1>0, <1>1, <1>3 DEF Held, TypeOK
<1>6. Endings' = [Endings EXCEPT ![j] = s]
  BY <1>0, <1>1, <1>3 DEF Endings, EndOf, TypeOK
<1> QED
  BY <1>0, <1>2, <1>3, <1>4, <1>5, <1>6, ShownStays, QueuedStays, AsEnd

LEMMA RecordImplements ==
    ASSUME Correct, Correct', NEW j \in Judge, Record(j)
    PROVE  Service!GNext
<1>0. TypeOK /\ Gradings = Held /\ Gradings' = Held'
  BY DEF Correct, PairedInv
<1>1. finishing[j] # NoSubmission /\ phase[j] # "removed"
  BY DEF Record, Correct, RecordsBeforeLeaving
<1>2. /\ status' = [status EXCEPT ![finishing[j]] = "D"]
      /\ finishing' = [finishing EXCEPT ![j] = NoSubmission]
      /\ UNCHANGED <<judges, queue, working, phase>>
  BY DEF Record, schedule
<1>3. Endings[j] = finishing[j]
  BY <1>1 DEF Endings, EndOf
<1>4. Shown' = Shown \ {finishing[j]}
  BY <1>0, <1>1, <1>2 DEF Shown, InProgress, TypeOK
<1>5. Held' = Held
  BY <1>2 DEF Held
<1>6. Endings' = [Endings EXCEPT ![j] = NoSubmission]
  BY <1>0, <1>1, <1>2 DEF Endings, EndOf, TypeOK
<1> QED
  BY <1>0, <1>1, <1>2, <1>3, <1>4, <1>5, <1>6, QueuedStays, AsClose

\* A judge that leaves the list while it works ends what it was given; the handler
\* writes that end when it is disconnected.
LEMMA RemoveImplements ==
    ASSUME Correct, Correct', NEW j \in Judge, Remove(j)
    PROVE  [Service!GNext]_(Service!gvars)
<1>0. PairedInv /\ TypeOK /\ Gradings = Held /\ Gradings' = Held'
  BY DEF Correct, PairedInv
<1>1. /\ phase[j] = "closing" /\ finishing[j] = NoSubmission
      /\ phase' = [phase EXCEPT ![j] = "removed"] /\ judges' = judges \ {j}
      /\ UNCHANGED <<queue, working, finishing, status>>
  BY DEF Remove
<1>2. j \in judges
  BY <1>0, <1>1 DEF PairedInv, HandlerLife
<1>3. Held' = [Held EXCEPT ![j] = NoSubmission] /\ Held[j] = working[j]
  BY <1>1, <1>2 DEF Held
<1>4. Endings' = [Endings EXCEPT ![j] = working[j]] /\ Endings[j] = NoSubmission
  BY <1>0, <1>1 DEF Endings, EndOf, TypeOK
<1>5. CASE working[j] # NoSubmission
  BY <1>0, <1>1, <1>3, <1>4, <1>5, ShownStays, QueuedStays, AsEnd
<1>6. CASE working[j] = NoSubmission
  <2>1. Held' = Held
    BY <1>3, <1>6 DEF Held
  <2>2. Endings' = Endings
    BY <1>4, <1>6 DEF Endings
  <2> QED
    BY <1>0, <1>1, <2>1, <2>2, ShownStays, QueuedStays, AsNothing
<1> QED
  BY <1>5, <1>6

LEMMA DisconnectedImplements ==
    ASSUME Correct, Correct', NEW j \in Judge, Disconnected(j)
    PROVE  [Service!GNext]_(Service!gvars)
<1>0. PairedInv /\ TypeOK /\ Gradings = Held /\ Gradings' = Held'
  BY DEF Correct, PairedInv
<1>1. /\ phase[j] = "removed" /\ phase' = [phase EXCEPT ![j] = "off"]
      /\ working' = [working EXCEPT ![j] = NoSubmission] /\ status' = IEOnDisconnect(j)
      /\ UNCHANGED <<queue, judges, finishing>>
  BY DEF Disconnected, schedule
<1>2. finishing[j] = NoSubmission /\ j \notin judges
  BY <1>0, <1>1 DEF Correct, RecordsBeforeLeaving, PairedInv, HandlerLife
<1>3. Held' = Held
  BY <1>0, <1>1, <1>2 DEF Held, TypeOK
<1>4. Endings[j] = working[j] /\ Endings' = [Endings EXCEPT ![j] = NoSubmission]
  BY <1>0, <1>1, <1>2 DEF Endings, EndOf, TypeOK
<1>5. CASE working[j] # NoSubmission
  <2>1. Shown' = Shown \ {working[j]}
    BY <1>0, <1>1, <1>5 DEF Shown, InProgress, IEOnDisconnect, TypeOK
  <2> QED
    BY <1>0, <1>1, <1>3, <1>4, <1>5, <2>1, QueuedStays, AsClose
<1>6. CASE working[j] = NoSubmission
  <2>1. status' = status
    BY <1>1, <1>6 DEF IEOnDisconnect
  <2>2. Endings' = Endings
    BY <1>4, <1>6 DEF Endings
  <2> QED
    BY <1>0, <1>1, <1>3, <2>1, <2>2, ShownStays, QueuedStays, AsNothing
<1> QED
  BY <1>5, <1>6

\* A connection that is made, shut down or lost, before its handler notices.
LEMMA LinkImplements ==
    ASSUME Correct, Correct',
           \/ \E j \in Judge : Register(j) \/ LoadRow(j) \/ CacheDisabled(j) \/ Connected(j) \/ Drop(j)
           \/ \E n \in Names : DisconnectJudge(n)
    PROVE  UNCHANGED Service!gvars
<1>0. PairedInv /\ TypeOK /\ Gradings = Held /\ Gradings' = Held'
  BY DEF Correct, PairedInv
<1>1. UNCHANGED <<queue, working, finishing, status>>
  BY DEF Register, LoadRow, CacheDisabled, Connected, Drop, DisconnectJudge, schedule, handler
<1>2. \A k \in Judge : phase'[k] = "removed" <=> phase[k] = "removed"
  BY <1>0 DEF Register, LoadRow, CacheDisabled, Connected, Drop, DisconnectJudge, TypeOK, handler
<1>3. Endings' = Endings
  BY <1>1, <1>2 DEF Endings, EndOf
<1>4. Held' = Held
  <2>1. CASE judges' = judges
    BY <1>1, <2>1 DEF Held
  <2>2. ASSUME NEW j \in Judge, Register(j) PROVE Held' = Held
    <3>1. working[j] = NoSubmission /\ judges' = judges \cup {j}
      BY <1>0, <2>2 DEF Register, PairedInv, HandlerLife
    <3> QED
      BY <1>1, <3>1 DEF Held
  <2> QED
    BY <2>1, <2>2 DEF LoadRow, CacheDisabled, Connected, Drop, DisconnectJudge, schedule
<1> QED
  BY <1>0, <1>1, <1>3, <1>4, ShownStays, QueuedStays, AsNothing

-----------------------------------------------------------------------------
(* The refinement.                                                         *)

LEMMA StepImplements ==
    ASSUME Base, Correct, Correct', [Next]_vars
    PROVE  [Service!GNext]_(Service!gvars)
<1>0. (\A j \in Judge : ~reloading[j]) /\ \A n \in Names : toggling[n] = NoToggle
  BY DEF Correct, PairedInv, AllEnabled
<1>1. CASE LockStep
  BY <1>1, LockStepImplements
<1>2. ASSUME NEW j \in Judge, JudgeStep(j) PROVE [Service!GNext]_(Service!gvars)
  BY <1>0, <1>2, NoOtherEvents, LinkImplements, RecordImplements, RemoveImplements,
     DisconnectedImplements, AcknowledgeImplements, FreeSelfImplements DEF JudgeStep
<1>3. ASSUME NEW j \in Judge, Register(j) \/ SupportedProblems(j) \/ Drop(j)
      PROVE  [Service!GNext]_(Service!gvars)
  BY <1>0, <1>3, NoOtherEvents, LinkImplements
<1>4. ASSUME NEW s \in Submission, Abort(s) PROVE [Service!GNext]_(Service!gvars)
  BY <1>4, AbortImplements
<1>5. ASSUME NEW s \in Submission, NEW p \in Priority, NEW judge_id \in Pins,
             Request(s, p, judge_id)
      PROVE  [Service!GNext]_(Service!gvars)
  BY <1>5, RequestImplements
<1>6. ASSUME NEW n \in Names, AdminStep(n) \/ ToggleDisabled(n) \/ DisconnectJudge(n)
      PROVE  [Service!GNext]_(Service!gvars)
  BY <1>0, <1>6, NoOtherEvents, LinkImplements
<1>7. CASE UNCHANGED vars
  BY <1>7, Silent DEF vars, schedule, handler
<1> QED
  BY <1>1, <1>2, <1>3, <1>4, <1>5, <1>6, <1>7 DEF Next, AdminStep

LEMMA InitImplements == Init => Service!GInit
<1> SUFFICES ASSUME Init PROVE Service!GInit
  OBVIOUS
<1>1. Shown = {}
  BY DEF Init, Shown, InProgress
<1>2. Queued = {}
  BY DEF Init, Queued, Elements
<1>3. Gradings = Held
  BY InitScheduler, GradingIsHeld
<1>4. Gradings = [j \in Judge |-> NoSubmission]
  BY <1>3 DEF Init, Held
<1>5. Endings = [j \in Judge |-> NoSubmission]
  BY DEF Init, Endings, EndOf
<1> QED
  BY <1>1, <1>2, <1>4, <1>5 DEF Service!GInit, Shown, Gradings, Endings

\* A handler does not leave before it has recorded the end of a grading.
LEMMA RecordsStep ==
    ASSUME PairedInv, RecordsBeforeLeaving, [Next]_vars
    PROVE  RecordsBeforeLeaving'
<1> USE DEF RecordsBeforeLeaving
<1>0. TypeOK
  BY DEF PairedInv
<1>1. CASE LockStep
  BY <1>0, <1>1 DEF LockStep, ServeOwner, ServeSole, WakeNext, TypeOK
<1>2. ASSUME NEW j \in Judge,
             \/ LoadRow(j) \/ CacheDisabled(j) \/ Connected(j)
             \/ Remove(j) \/ Disconnected(j) \/ Register(j) \/ Drop(j)
      PROVE  RecordsBeforeLeaving'
  BY <1>0, <1>2 DEF LoadRow, CacheDisabled, Connected, handler, Remove, Disconnected, Register,
     Drop, TypeOK
<1>3. ASSUME NEW j \in Judge, Record(j) PROVE RecordsBeforeLeaving'
  BY <1>0, <1>3 DEF Record, TypeOK
<1>4. ASSUME NEW j \in Judge, NEW s \in Submission, Acknowledge(j, s) PROVE RecordsBeforeLeaving'
  BY <1>0, <1>4 DEF Acknowledge, TypeOK
<1>5. ASSUME NEW j \in Judge, NEW s \in Submission, FreeSelf(j, s) PROVE RecordsBeforeLeaving'
  <2>1. phase[j] = "ready" /\ UNCHANGED phase
    BY <1>5 DEF FreeSelf, Reading
  <2>2. finishing' = finishing \/ finishing' = [finishing EXCEPT ![j] = s]
    BY <1>5 DEF FreeSelf
  <2> QED
    BY <1>0, <2>1, <2>2 DEF TypeOK
<1>6. ASSUME NEW j \in Judge, UpdateProblems(j) \/ SupportedProblems(j) PROVE RecordsBeforeLeaving'
  BY <1>6 DEF UpdateProblems, SupportedProblems
<1>7. ASSUME NEW n \in Names, DisconnectJudge(n) PROVE RecordsBeforeLeaving'
  BY <1>0, <1>7 DEF DisconnectJudge, TypeOK
<1>8. ASSUME \/ \E n \in Names : AdminStep(n) \/ ToggleDisabled(n)
             \/ \E s \in Submission : Abort(s)
             \/ \E s \in Submission, p \in Priority, judge_id \in Pins : Request(s, p, judge_id)
             \/ UNCHANGED vars
      PROVE  RecordsBeforeLeaving'
  BY <1>8 DEF AdminStep, LoadToggle, SaveToggle, ToggleFails, ToggleDisabled, Abort, Request,
     handler, vars
<1> QED
  BY <1>1, <1>2, <1>3, <1>4, <1>5, <1>6, <1>7, <1>8 DEF Next, JudgeStep, AdminStep

\* The scheduler is a grading service: whatever the interleaving of requests, aborts,
\* lost connections and reconnections, a submission has one judge, a judge has one
\* submission, and what was given ends once and is recorded before it is forgotten.
THEOREM Implements == Base => (Spec => GradesAsPromised)
<1> SUFFICES ASSUME Base PROVE Spec => GradesAsPromised
  OBVIOUS
<1>1. Init => RecordsBeforeLeaving
  BY DEF Init, RecordsBeforeLeaving
<1>2. PairedInv /\ RecordsBeforeLeaving /\ [Next]_vars => RecordsBeforeLeaving'
  BY RecordsStep
<1>3. Spec => []PairedInv
  BY PairedSafety
<1>4. Spec => []Correct
  <2>1. PairedInv /\ RecordsBeforeLeaving => Correct
    BY GradingIsHeld DEF Correct
  <2> QED
    BY <1>1, <1>2, <1>3, <2>1, PTL DEF Spec
<1>5. Correct /\ Correct' /\ [Next]_vars => [Service!GNext]_(Service!gvars)
  BY StepImplements
<1> QED
  BY <1>4, <1>5, InitImplements, PTL DEF Spec, GradesAsPromised, Service!GSpec
=============================================================================
