-------------------------- MODULE VideoBufferProofs --------------------------
(***************************************************************************)
(* Proofs about VideoBuffer, for any violations, attempts and bounds: its  *)
(* types, and that no evidence is lost on its way as long as no reset and  *)
(* no recovery meets a clip.  Types need what the phase of an upload says  *)
(* of its attempt, and that a page that has just been loaded has a camera. *)
(* Evidence rests on one thing going on at a time: recording, or a stop    *)
(* event, or a repair, or an upload, or a restart timer.                   *)
(***************************************************************************)
EXTENDS VideoBuffer, SequenceTheorems, TLAPS

UploadKnown == upload.phase = "pausing" => upload.attempt < MaxAttempts

FreshDelivers == page = "fresh" => live

\* TypeOK without what is only observed.
Typed ==
    /\ page \in {"fresh", "running", "cleaned"}
    /\ recorder \in {"none", "inactive", "recording"}
    /\ (recorder = "none") = (page # "running")
    /\ live \in BOOLEAN /\ (recorder = "recording" => live)
    /\ stops \in Seq(Footage) /\ restarts \in Nat /\ recovering \in Nat
    /\ resetting \in BOOLEAN /\ restarting \in BOOLEAN /\ triggered \in BOOLEAN
    /\ buffer \in Footage /\ fixing \in Seq(Footage)
    /\ upload \in Upload
    /\ received \in Footage /\ stored \in Footage /\ accepted \in Footage
    /\ refused \in Footage /\ skipped \in Footage
    /\ faults \in 0..MaxFaults

Observed == earlier \in Footage /\ maintained \in BOOLEAN /\ disturbed \in BOOLEAN

Base == Typed /\ UploadKnown /\ FreshDelivers

acted == <<page, media, restarting, triggered, buffer, fixing, upload, history, faults>>

-----------------------------------------------------------------------------
(* Footage in sequences.                                                   *)

\* What a sequence shows after an append.
LEMMA TogetherAppend ==
    ASSUME NEW s \in Seq(Footage), NEW x \in Footage
    PROVE  /\ Append(s, x) \in Seq(Footage)
           /\ Together(s) \subseteq Together(Append(s, x))
           /\ x \subseteq Together(Append(s, x))
<1>1. Append(s, x) \in Seq(Footage) /\ Len(Append(s, x)) = Len(s) + 1
  OBVIOUS
<1>2. \A i \in DOMAIN s : i \in DOMAIN Append(s, x) /\ Append(s, x)[i] = s[i]
  OBVIOUS
<1>3. Len(s) + 1 \in DOMAIN Append(s, x) /\ Append(s, x)[Len(s) + 1] = x
  OBVIOUS
<1>4. Together(s) \subseteq Together(Append(s, x))
  BY <1>2, Zenon DEF Together
<1>5. x \subseteq Together(Append(s, x))
  BY <1>3, Zenon DEF Together
<1> QED
  BY <1>1, <1>4, <1>5

\* A sequence shows what its head and its tail show.
LEMMA TogetherTail ==
    ASSUME NEW s \in Seq(Footage), s # <<>>
    PROVE  /\ Head(s) \in Footage /\ Tail(s) \in Seq(Footage)
           /\ Together(s) \subseteq Head(s) \union Together(Tail(s))
<1>1. Head(s) \in Footage /\ Tail(s) \in Seq(Footage)
  OBVIOUS
<1>2. \A i \in DOMAIN s : s[i] = Head(s) \/ \E k \in DOMAIN Tail(s) : s[i] = Tail(s)[k]
  <2> TAKE i \in DOMAIN s
  <2>1. CASE i = 1
    BY <2>1
  <2>2. CASE i # 1
    <3>1. i - 1 \in DOMAIN Tail(s) /\ Tail(s)[i - 1] = s[i]
      BY <2>2
    <3> QED
      BY <3>1
  <2> QED
    BY <2>1, <2>2
<1>3. Together(s) \subseteq Head(s) \union Together(Tail(s))
  BY <1>2, Zenon DEF Together
<1> QED
  BY <1>1, <1>3

\* Taking one clip out of a sequence leaves a sequence of clips.
LEMMA WithoutTyped ==
    ASSUME NEW s \in Seq(Footage), NEW i \in DOMAIN s
    PROVE  s[i] \in Footage /\ Without(s, i) \in Seq(Footage)
<1>1. i \in 1..Len(s) /\ s[i] \in Footage
  OBVIOUS
<1>2. SubSeq(s, 1, i - 1) \in Seq(Footage) /\ SubSeq(s, i + 1, Len(s)) \in Seq(Footage)
  BY <1>1
<1> QED
  BY <1>1, <1>2 DEF Without

\* A recorder that is stopped leaves the footage that is on its way.
LEMMA StopEventKeeps ==
    ASSUME Typed, NEW x \in Footage
    PROVE  StopEvent(x) \in Seq(Footage) /\ Together(stops) \subseteq Together(StopEvent(x))
BY TogetherAppend DEF StopEvent, Typed

-----------------------------------------------------------------------------
(* Types.                                                                  *)

\* Base holds at first.
LEMMA BaseInit == Init => Base
<1> SUFFICES ASSUME Init PROVE Base
  OBVIOUS
<1>1. Idle \in Upload /\ Idle.phase = "idle"
  BY ConstantsAssumption DEF Idle, Upload, Footage
<1>2. <<>> \in Seq(Footage) /\ {} \in Footage
  BY DEF Footage
<1>3. faults \in 0..MaxFaults
  BY ConstantsAssumption DEF Init
<1> QED
  BY <1>1, <1>2, <1>3 DEF Init, Base, Typed, UploadKnown, FreshDelivers

\* Every step keeps Base.
LEMMA BaseStep == Base /\ [Step]_acted => Base'
<1> SUFFICES ASSUME Base, [Step]_acted PROVE Base'
  OBVIOUS
<1> USE DEF Base, Typed, UploadKnown, FreshDelivers, media, history
<1>e. {} \in Footage /\ \A x, y \in Footage : x \union y \in Footage /\ x \ y \in Footage
  BY DEF Footage
<1>i. Idle \in Upload /\ Idle.phase = "idle"
  BY <1>e, ConstantsAssumption DEF Idle, Upload
<1>s. StopEvent({}) \in Seq(Footage)
  BY <1>e, StopEventKeeps
<1>r. ASSUME RestartLater PROVE restarts' \in Nat /\ restarting' \in BOOLEAN
  <2>1. restarts + 1 \in Nat
    OBVIOUS
  <2>2. CASE page = "running"
    BY <1>r, <2>1, <2>2 DEF RestartLater
  <2>3. CASE page # "running"
    BY <1>r, <2>3 DEF RestartLater
  <2> QED
    BY <2>2, <2>3
<1>u. /\ upload.phase \in {"idle", "sending", "pausing", "saving", "stuck"}
      /\ upload.clip \in Footage /\ upload.attempt \in 0..MaxAttempts
  BY DEF Upload
<1>1. CASE Initialize
  BY <1>1 DEF Initialize
<1>2. ASSUME NEW v \in Violations, TriggerViolationUpload(v) PROVE Base'
  <2>1. {v} \in Footage /\ accepted \union {v} \in Footage
    BY DEF Footage
  <2>2. Append(stops, {v}) \in Seq(Footage)
    BY <2>1
  <2> QED
    BY <1>2, <2>1, <2>2 DEF TriggerViolationUpload
<1>3. CASE RecorderError
  <2>1. stops' \in Seq(Footage) /\ faults' \in 0..MaxFaults /\ recovering' \in Nat
    BY <1>3, <1>e, ConstantsAssumption DEF RecorderError
  <2> QED
    BY <1>3, <2>1 DEF RecorderError
<1>4. CASE StreamEnds
  <2>1. faults' \in 0..MaxFaults
    BY <1>4, ConstantsAssumption DEF StreamEnds
  <2> QED
    BY <1>4, <2>1, <1>s DEF StreamEnds
<1>5. CASE Stopped
  <2>1. stops' \in Seq(Footage) /\ buffer' \in Footage
    BY <1>5, <1>e, TogetherTail DEF Stopped
  <2>2. fixing' \in Seq(Footage)
    <3>1. buffer \union Head(stops) \in Footage
      BY <1>5, <1>e, TogetherTail DEF Stopped
    <3>2. Append(fixing, buffer \union Head(stops)) \in Seq(Footage)
      BY <3>1
    <3> QED
      BY <1>5, <3>2 DEF Stopped
  <2>3. triggered' \in BOOLEAN /\ restarting' \in BOOLEAN /\ restarts' \in Nat
    BY <1>5, <1>r DEF Stopped
  <2> QED
    BY <1>5, <2>1, <2>2, <2>3 DEF Stopped
<1>6. CASE Restart
  <2>1. restarts' \in Nat
    BY <1>6 DEF Restart
  <2>2. CASE recorder' = recorder
    BY <1>6, <2>1, <2>2 DEF Restart
  <2>3. CASE recorder' = "recording" /\ page = "running" /\ live
    BY <1>6, <2>1, <2>3 DEF Restart
  <2> QED
    BY <1>6, <2>2, <2>3 DEF Restart
<1>7. ASSUME NEW v \in Violations, Slide(v) PROVE Base'
  <2>1. buffer \ {v} \in Footage
    BY DEF Footage
  <2> QED
    BY <1>7, <2>1 DEF Slide
<1>8. CASE PeriodicReset
  BY <1>8, <1>s DEF PeriodicReset
<1>9. CASE ResetWakes
  <2>1. recovering' \in Nat /\ stops' \in Seq(Footage)
    BY <1>9, <1>s DEF ResetWakes, Recreate
  <2>2. CASE page = "running"
    BY <1>9, <2>1, <2>2 DEF ResetWakes, Recreate
  <2>3. CASE page # "running"
    BY <1>9, <2>1, <2>3 DEF ResetWakes
  <2> QED
    BY <2>2, <2>3
<1>10. CASE Recovers
  <2>1. buffer' \in Footage
    BY <1>10, <1>e DEF Recovers
  <2> QED
    BY <1>10, <2>1, <1>s DEF Recovers, Recreate
<1>11. ASSUME NEW i \in DOMAIN fixing, BeginUpload(i) PROVE Base'
  <2>1. upload' \in Upload /\ upload'.phase = "sending"
    BY <1>11, WithoutTyped, ConstantsAssumption DEF BeginUpload, Upload
  <2>2. fixing' \in Seq(Footage)
    BY <1>11, WithoutTyped DEF BeginUpload
  <2> QED
    BY <1>11, <2>1, <2>2 DEF BeginUpload
<1>12. ASSUME NEW i \in DOMAIN fixing, SkipUpload(i) \/ NoCallback(i) PROVE Base'
  <2>1. fixing' \in Seq(Footage) /\ fixing[i] \in Footage
    BY <1>12, WithoutTyped DEF SkipUpload, NoCallback
  <2>2. CASE SkipUpload(i)
    <3>1. buffer' \in Footage /\ skipped' \in Footage
      BY <2>1, <2>2, <1>e DEF SkipUpload
    <3> QED
      BY <2>1, <2>2, <3>1, <1>r DEF SkipUpload
  <2>3. CASE NoCallback(i)
    BY <2>1, <2>3 DEF NoCallback
  <2> QED
    BY <1>12, <2>2, <2>3
<1>13. CASE SendSucceeds \/ Saved
  <2>1. RestartLater /\ buffer' = {}
    BY <1>13 DEF SendSucceeds, Saved
  <2>2. CASE SendSucceeds
    <3>1. received' \in Footage
      BY <2>2, <1>u, <1>e DEF SendSucceeds
    <3> QED
      BY <2>1, <2>2, <3>1, <1>e, <1>i, <1>r DEF SendSucceeds
  <2>3. CASE Saved
    <3>1. stored' \in Footage
      BY <2>3, <1>u, <1>e DEF Saved
    <3> QED
      BY <2>1, <2>3, <3>1, <1>e, <1>i, <1>r DEF Saved
  <2> QED
    BY <1>13, <2>2, <2>3
<1>14. CASE SendFails
  <2>1. /\ upload' \in Upload /\ upload'.phase \in {"pausing", "saving"}
        /\ upload'.phase = "pausing" => upload'.attempt < MaxAttempts
    BY <1>14, <1>u, ConstantsAssumption DEF SendFails, Upload
  <2> QED
    BY <1>14, <2>1 DEF SendFails
<1>15. CASE NextAttempt
  <2>1. upload' \in Upload /\ upload'.phase = "sending"
    BY <1>15, <1>u, ConstantsAssumption DEF NextAttempt, Upload
  <2> QED
    BY <1>15, <2>1 DEF NextAttempt
<1>16. CASE NotSaved
  <2>1. refused' \in Footage
    BY <1>16, <1>u, <1>e DEF NotSaved
  <2> QED
    BY <1>16, <2>1, <1>i, <1>r DEF NotSaved
<1>17. CASE SaveRejected
  <2>1. upload' \in Upload /\ upload'.phase = "stuck"
    BY <1>17, <1>u DEF SaveRejected, Upload
  <2>2. refused' \in Footage
    BY <1>17, <1>u, <1>e DEF SaveRejected
  <2> QED
    BY <1>17, <2>1, <2>2 DEF SaveRejected
<1>18. CASE Cleanup
  BY <1>18, <1>s, <1>e DEF Cleanup
<1>19. CASE LoadPage
  <2>1. faults' \in 0..MaxFaults
    BY <1>19, ConstantsAssumption DEF LoadPage
  <2>2. UNCHANGED history
    BY <1>19 DEF LoadPage
  <2>3. stops' \in Seq(Footage) /\ fixing' \in Seq(Footage) /\ buffer' \in Footage
    BY <1>19, <1>e DEF LoadPage
  <2> QED
    BY <1>19, <2>1, <2>2, <2>3, <1>i DEF LoadPage
<1>20. CASE UNCHANGED acted
  BY <1>20 DEF acted
<1> QED
  BY <1>1, <1>2, <1>3, <1>4, <1>5, <1>6, <1>7, <1>8, <1>9, <1>10, <1>11, <1>12, <1>13, <1>14,
     <1>15, <1>16, <1>17, <1>18, <1>19, <1>20 DEF Step

\* A step of Next is one of Step, and observed.
LEMMA NextIsStep == [Next]_vars => [Step]_acted
BY DEF Next, vars, acted

LEMMA ObservedStep == Base /\ Observed /\ [Next]_vars => Observed'
BY DEF Base, Typed, Observed, Next, Observe, vars, observed

LEMMA BaseAlways == Spec => [](Base /\ Observed)
<1>1. Init => Base /\ Observed
  <2>1. {} \in Footage
    BY DEF Footage
  <2> QED
    BY <2>1, BaseInit DEF Init, Observed
<1>2. Base /\ Observed /\ [Next]_vars => Base' /\ Observed'
  BY BaseStep, NextIsStep, ObservedStep
<1> QED
  BY <1>1, <1>2, PTL DEF Spec

\* Types, and what page and recorder have to do with each other.
THEOREM TypeCorrect == Spec => []TypeOK
<1>1. Base /\ Observed => TypeOK
  BY DEF Base, Typed, Observed, TypeOK
<1> QED
  BY <1>1, BaseAlways, PTL

-----------------------------------------------------------------------------
(* One thing at a time.                                                    *)

Calm == page = "running" /\ ~disturbed

\* At most one stop event, clip, upload or restart timer is there, and the recorder is
\* stopped meanwhile; a stop event that brings evidence is the one that was triggered.
InTurn ==
    /\ stops # <<>> => /\ Len(stops) = 1 /\ recorder # "recording"
                      /\ fixing = <<>> /\ upload.phase = "idle" /\ restarts = 0
    /\ fixing # <<>> => /\ Len(fixing) = 1 /\ recorder # "recording"
                       /\ upload.phase = "idle" /\ restarts = 0
    /\ upload.phase # "idle" => recorder # "recording" /\ restarts = 0
    /\ restarts # 0 => restarts = 1 /\ recorder # "recording"
    /\ triggered => stops # <<>> /\ ~restarting
    /\ Together(stops) # {} => triggered

\* No clip is handled.
NoClip == fixing = <<>> /\ upload.phase = "idle" /\ ~triggered /\ Together(stops) = {}

MaintenanceKnown == resetting \/ recovering > 0 => maintained

FreshIsEmpty ==
    page = "fresh" =>
        /\ stops = <<>> /\ restarts = 0 /\ ~resetting /\ recovering = 0
        /\ ~restarting /\ ~triggered /\ fixing = <<>> /\ upload = Idle

EarlierKnown == page # "running" => accepted \subseteq earlier

IdleIsEmpty == upload.phase = "idle" => upload = Idle

TurnInv == Calm => IF maintained THEN NoClip ELSE InTurn

ClipInv ==
    /\ MaintenanceKnown /\ FreshIsEmpty /\ EarlierKnown /\ IdleIsEmpty
    /\ TurnInv /\ EvidenceKept

LEMMA TogetherEmpty == Together(<<>>) = {}
BY DEF Together

LEMMA TogetherOne ==
    ASSUME NEW s \in Seq(Footage), NEW x \in Footage
    PROVE  /\ Together(Append(s, x)) \subseteq Together(s) \union x
           /\ Together(Append(s, x)) = {} => Together(s) = {}
<1>1. \A i \in DOMAIN Append(s, x) :
         (i \in DOMAIN s /\ Append(s, x)[i] = s[i]) \/ Append(s, x)[i] = x
  OBVIOUS
<1>2. Together(Append(s, x)) \subseteq Together(s) \union x
  BY <1>1, Zenon DEF Together
<1> QED
  BY <1>2, TogetherAppend

LEMMA TailShows ==
    ASSUME NEW s \in Seq(Footage), s # <<>>
    PROVE  Together(Tail(s)) \subseteq Together(s)
<1>1. \A k \in DOMAIN Tail(s) : k + 1 \in DOMAIN s /\ Tail(s)[k] = s[k + 1]
  OBVIOUS
<1> QED
  BY <1>1, Zenon DEF Together

LEMMA SingleTail ==
    ASSUME NEW s \in Seq(Footage), s # <<>>, Len(s) = 1
    PROVE  Tail(s) = <<>> /\ Together(s) = Head(s)
<1>1. Tail(s) \in Seq(Footage) /\ Len(Tail(s)) = 0
  BY HeadTailProperties
<1>2. Tail(s) = <<>>
  BY <1>1, EmptySeq
<1>3. DOMAIN s = {1} /\ s[1] = Head(s)
  OBVIOUS
<1> QED
  BY <1>2, <1>3 DEF Together

LEMMA SingleWithout ==
    ASSUME NEW s \in Seq(Footage), NEW i \in DOMAIN s, Len(s) = 1
    PROVE  Without(s, i) = <<>> /\ Together(s) = s[i]
<1>1. i = 1 /\ DOMAIN s = {1}
  OBVIOUS
<1>2. SubSeq(s, 1, 0) = <<>> /\ SubSeq(s, 2, 1) = <<>>
  OBVIOUS
<1>3. Without(s, 1) = <<>>
  BY <1>2 DEF Without
<1> QED
  BY <1>1, <1>3 DEF Together

LEMMA SingleAppend ==
    ASSUME NEW x \in Footage
    PROVE  Append(<<>>, x) # <<>> /\ Len(Append(<<>>, x)) = 1 /\ Together(Append(<<>>, x)) = x
<1>1. Append(<<>>, x) = <<x>> /\ DOMAIN <<x>> = {1} /\ <<x>>[1] = x /\ Len(<<x>>) = 1
  OBVIOUS
<1> QED
  BY <1>1 DEF Together

\* What the conjuncts that are about other pages need.
LEMMA PageStep == Base /\ ClipInv /\ Step /\ Observe
                    => MaintenanceKnown' /\ FreshIsEmpty' /\ EarlierKnown' /\ IdleIsEmpty'
<1> SUFFICES ASSUME Base, ClipInv, Step, Observe
             PROVE  MaintenanceKnown' /\ FreshIsEmpty' /\ EarlierKnown' /\ IdleIsEmpty'
  OBVIOUS
<1> USE DEF media, history
<1>1. MaintenanceKnown'
  BY DEF Observe, MaintenanceKnown
<1>2. IdleIsEmpty'
  BY DEF ClipInv, IdleIsEmpty, Step, Initialize, Cleanup, LoadPage, TriggerViolationUpload, Slide,
         RecorderError, StreamEnds, Stopped, Restart, PeriodicReset, ResetWakes, Recovers,
         BeginUpload, SkipUpload, NoCallback, SendSucceeds, SendFails, NextAttempt, Saved,
         NotSaved, SaveRejected
<1>3. EarlierKnown'
  <2>1. page = "running" => accepted' = accepted \/ page' = "running"
    BY DEF Step, Initialize, Cleanup, LoadPage, TriggerViolationUpload, Slide,
         RecorderError, StreamEnds, Stopped, Restart, PeriodicReset, ResetWakes, Recovers,
         BeginUpload, SkipUpload, NoCallback, SendSucceeds, SendFails, NextAttempt, Saved,
         NotSaved, SaveRejected
  <2>2. page # "running" => accepted' = accepted
    BY DEF Base, Typed, Step, Initialize, Cleanup, LoadPage, TriggerViolationUpload, Slide,
         RecorderError, StreamEnds, Stopped, Restart, PeriodicReset, ResetWakes, Recovers,
         BeginUpload, SkipUpload, NoCallback, SendSucceeds, SendFails, NextAttempt, Saved,
         NotSaved, SaveRejected
  <2> QED
    BY <2>1, <2>2 DEF ClipInv, EarlierKnown, Observe
<1>4. FreshIsEmpty'
  <2>1. CASE LoadPage
    BY <2>1 DEF LoadPage, FreshIsEmpty
  <2>2. CASE Cleanup \/ Initialize
    BY <2>2 DEF Cleanup, Initialize, FreshIsEmpty
  <2>3. CASE ~LoadPage /\ ~Cleanup /\ ~Initialize
    <3> SUFFICES ASSUME page' = "fresh" PROVE FreshIsEmpty'
      BY DEF FreshIsEmpty
    <3>1. page = "fresh" /\ recorder = "none"
      BY <2>3 DEF Base, Typed, Step, TriggerViolationUpload, Slide,
         RecorderError, StreamEnds, Stopped, Restart, PeriodicReset, ResetWakes, Recovers,
         BeginUpload, SkipUpload, NoCallback, SendSucceeds, SendFails, NextAttempt, Saved,
         NotSaved, SaveRejected
    <3>2. /\ stops = <<>> /\ restarts = 0 /\ ~resetting /\ recovering = 0
          /\ ~restarting /\ ~triggered /\ fixing = <<>> /\ upload = Idle
      BY <3>1 DEF ClipInv, FreshIsEmpty
    <3>3. upload.phase = "idle" /\ DOMAIN fixing = {}
      BY <3>2 DEF Idle
    <3>4. PICK v \in Violations : Slide(v)
      BY <2>3, <3>1, <3>2, <3>3 DEF Step, TriggerViolationUpload, Slide,
         RecorderError, StreamEnds, Stopped, Restart, PeriodicReset, ResetWakes, Recovers,
         BeginUpload, SkipUpload, NoCallback, SendSucceeds, SendFails, NextAttempt, Saved,
         NotSaved, SaveRejected
    <3> QED
      BY <3>2, <3>4 DEF Slide, FreshIsEmpty
  <2> QED
    BY <2>1, <2>2, <2>3
<1> QED
  BY <1>1, <1>2, <1>3, <1>4

\* What holds of a page that runs and is not disturbed after a step.
After ==
    /\ maintained' => NoClip'
    /\ ~maintained' => InTurn'
    /\ accepted' \ earlier' \subseteq OnItsWay' \union Confirmed' \union refused'

LEMMA TurnStep ==
    ASSUME Base, ClipInv, Step, Observe, page' = "running", ~disturbed' PROVE After
<1> USE DEF media, history
<1>o. /\ page = "running" => ~disturbed /\ earlier' = earlier
      /\ maintained' => fixing' = <<>> /\ upload'.phase = "idle" /\ ~triggered'
      /\ ~maintained' => ~resetting' /\ ~(recovering' > 0)
      /\ maintained /\ (stops' # <<>> \/ restarts' > 0) => maintained'
      /\ (resetting' \/ recovering' > 0) => maintained'
      /\ maintained' => maintained \/ resetting' \/ recovering' > 0
  BY DEF Observe, ClipHandled, ClipInv, FreshIsEmpty
<1>b. /\ stops \in Seq(Footage) /\ fixing \in Seq(Footage) /\ restarts \in Nat
      /\ recovering \in Nat /\ {} \in Footage /\ upload.clip \in Footage
      /\ recorder = "recording" => page = "running"
      /\ upload.phase \in {"idle", "sending", "pausing", "saving", "stuck"}
  BY DEF Base, Typed, Footage, Upload
<1>c. page = "running" => /\ maintained => NoClip
                          /\ ~maintained => InTurn
                          /\ accepted \ earlier \subseteq OnItsWay \union Confirmed \union refused
  BY <1>o DEF ClipInv, TurnInv, Calm, EvidenceKept
<1>m. resetting \/ recovering > 0 => maintained
  BY DEF ClipInv, MaintenanceKnown
<1>i. upload.phase = "idle" => upload.clip = {}
  BY DEF ClipInv, IdleIsEmpty, Idle
<1>s. /\ StopEvent({}) \in Seq(Footage)
      /\ Together(StopEvent({})) = Together(stops)
      /\ recorder # "recording" => StopEvent({}) = stops
  <2>1. Together(Append(stops, {})) = Together(stops)
    <3>1. Together(stops) \subseteq Together(Append(stops, {}))
      BY <1>b, TogetherAppend
    <3>2. Together(Append(stops, {})) \subseteq Together(stops) \union {}
      BY <1>b, TogetherOne
    <3> QED
      BY <3>1, <3>2
  <2>2. Append(stops, {}) \in Seq(Footage)
    BY <1>b
  <2> QED
    BY <1>b, <2>1, <2>2 DEF StopEvent
<1>e. Together(<<>>) = {}
  BY TogetherEmpty
<1>1. CASE Initialize
  BY <1>1, <1>e, <1>o DEF Initialize, ClipInv, FreshIsEmpty, EarlierKnown, MaintenanceKnown, Observe, After,
                  NoClip, InTurn, Idle
<1>2. ASSUME NEW v \in Violations, TriggerViolationUpload(v) PROVE After
  <2>1. page = "running" /\ ~maintained /\ ~maintained' /\ recorder = "recording"
    <3>1. triggered' /\ stops' = Append(stops, {v}) /\ recorder = "recording"
      BY <1>2 DEF TriggerViolationUpload
    <3>2. stops' # <<>>
      BY <1>b, <3>1
    <3> QED
      BY <1>o, <1>b, <3>1, <3>2
  <2>2. stops = <<>> /\ fixing = <<>> /\ upload.phase = "idle" /\ restarts = 0
    BY <1>c, <2>1 DEF InTurn
  <2>3. {v} \in Footage
    BY DEF Footage
  <2>4. stops' # <<>> /\ Len(stops') = 1 /\ Together(stops') = {v}
    BY <1>2, <2>2, <2>3, SingleAppend DEF TriggerViolationUpload
  <2>5. InTurn'
    BY <1>2, <2>1, <2>2, <2>4 DEF TriggerViolationUpload, InTurn
  <2>6. accepted' \ earlier' \subseteq OnItsWay' \union Confirmed' \union refused'
    BY <1>2, <1>c, <1>o, <1>e, <2>1, <2>2, <2>4 DEF TriggerViolationUpload, OnItsWay, Confirmed
  <2> QED
    BY <2>1, <2>5, <2>6 DEF After
<1>3. CASE RecorderError
  <2>1. page = "running" /\ maintained' /\ fixing = <<>> /\ upload.phase = "idle" /\ ~triggered
    BY <1>3, <1>o, <1>b DEF RecorderError
  <2>2. Together(stops) = {}
    BY <1>c, <2>1 DEF InTurn, NoClip
  <2>3. Together(stops') = {}
    BY <1>3, <1>b, <2>2, TogetherOne DEF RecorderError
  <2> QED
    BY <1>3, <1>c, <1>o, <2>1, <2>2, <2>3 DEF RecorderError, After, NoClip, OnItsWay, Confirmed
<1>4. CASE StreamEnds
  <2>1. page = "running" /\ Together(stops') = Together(stops) /\ stops' = StopEvent({})
    BY <1>4, <1>s DEF StreamEnds
  <2>2. accepted' \ earlier' \subseteq OnItsWay' \union Confirmed' \union refused'
    BY <1>4, <1>c, <1>o, <2>1 DEF StreamEnds, OnItsWay, Confirmed
  <2>3. CASE maintained
    <3>1. NoClip'
      BY <1>4, <1>c, <2>1, <2>3 DEF StreamEnds, NoClip
    <3>2. ~maintained' => stops' = <<>> /\ restarts' = 0
      BY <1>4, <1>o, <1>b, <2>3 DEF StreamEnds
    <3>3. ~maintained' => InTurn'
      BY <3>1, <3>2 DEF NoClip, InTurn
    <3> QED
      BY <2>2, <3>1, <3>3 DEF After
  <2>4. CASE ~maintained
    <3>1. ~maintained'
      BY <1>4, <1>o, <1>m, <2>4 DEF StreamEnds
    <3>2. CASE recorder # "recording"
      BY <1>4, <1>c, <1>s, <2>1, <2>2, <2>4, <3>1, <3>2 DEF StreamEnds, After, InTurn
    <3>3. CASE recorder = "recording"
      <4>1. stops = <<>> /\ fixing = <<>> /\ upload.phase = "idle" /\ restarts = 0 /\ ~triggered
        BY <1>c, <2>1, <2>4, <3>3 DEF InTurn
      <4>2. stops' # <<>> /\ Len(stops') = 1 /\ Together(stops') = {}
        BY <1>b, <2>1, <3>3, <4>1, SingleAppend DEF StopEvent
      <4> QED
        BY <1>4, <2>2, <3>1, <4>1, <4>2 DEF StreamEnds, After, InTurn
    <3> QED
      BY <3>2, <3>3
  <2> QED
    BY <2>3, <2>4
<1>5. CASE Stopped
  <2>1. page = "running" /\ page' = page /\ accepted' = accepted
    BY <1>5 DEF Stopped
  <2> DEFINE chunks == buffer \union Head(stops)
  <2>2. chunks \in Footage /\ stops' = Tail(stops) /\ stops' \in Seq(Footage)
    <3>1. stops # <<>> /\ stops' = Tail(stops)
      BY <1>5 DEF Stopped
    <3>2. Head(stops) \in Footage /\ Tail(stops) \in Seq(Footage)
      BY <1>b, <3>1, TogetherTail
    <3>3. buffer \in Footage
      BY DEF Base, Typed
    <3> QED
      BY <3>1, <3>2, <3>3 DEF Footage
  <2>3. CASE maintained
    <3>1. Together(stops') = {} /\ ~triggered /\ fixing' = fixing /\ ~triggered'
      <4>1. Together(stops) = {} /\ ~triggered /\ stops # <<>>
        BY <1>5, <1>c, <2>1, <2>3 DEF Stopped, NoClip
      <4>2. Together(Tail(stops)) \subseteq Together(stops)
        BY <1>b, <4>1, TailShows
      <4>3. fixing' = fixing /\ ~triggered'
        BY <1>5, <4>1 DEF Stopped
      <4> QED
        BY <2>2, <4>1, <4>2, <4>3
    <3>2. NoClip'
      BY <1>5, <1>c, <2>1, <2>3, <3>1 DEF Stopped, NoClip
    <3>3. restarts' \in Nat
      BY <1>5, <1>b DEF Stopped, RestartLater
    <3>4. ~maintained' => stops' = <<>> /\ restarts' = 0
      BY <1>o, <2>3, <3>3
    <3>5. ~maintained' => InTurn'
      BY <3>2, <3>4 DEF NoClip, InTurn
    <3>6. accepted' \ earlier' \subseteq OnItsWay' \union Confirmed' \union refused'
      BY <1>5, <1>c, <1>o, <2>1, <2>3, <3>1 DEF Stopped, NoClip, OnItsWay, Confirmed
    <3> QED
      BY <3>2, <3>5, <3>6 DEF After
  <2>4. CASE ~maintained
    <3>1. ~maintained'
      BY <1>5, <1>o, <1>m, <2>4 DEF Stopped
    <3>2. /\ stops # <<>> /\ Len(stops) = 1 /\ recorder # "recording"
          /\ fixing = <<>> /\ upload.phase = "idle" /\ restarts = 0
          /\ triggered => ~restarting
          /\ Together(stops) # {} => triggered
      BY <1>5, <1>c, <2>1, <2>4 DEF Stopped, InTurn
    <3>3. stops' = <<>> /\ Together(stops) = Head(stops)
      BY <1>b, <2>2, <3>2, SingleTail
    <3>4. CASE restarting
      BY <1>5, <1>c, <1>o, <1>e, <2>1, <2>4, <3>1, <3>2, <3>3, <3>4
      DEF Stopped, After, InTurn, OnItsWay, Confirmed
    <3>5. CASE ~restarting /\ fixing' = Append(fixing, chunks) /\ ~triggered' /\ restarts' = restarts
      <4>1. fixing' # <<>> /\ Len(fixing') = 1 /\ Together(fixing') = chunks
        BY <2>2, <3>2, <3>5, SingleAppend
      <4>2. InTurn'
        BY <1>5, <1>e, <3>2, <3>3, <3>5, <4>1 DEF Stopped, InTurn
      <4>3. accepted' \ earlier' \subseteq OnItsWay' \union Confirmed' \union refused'
        BY <1>5, <1>c, <1>o, <1>e, <2>1, <3>2, <3>3, <4>1 DEF Stopped, OnItsWay, Confirmed
      <4> QED
        BY <3>1, <4>2, <4>3 DEF After
    <3>6. CASE /\ ~restarting /\ (triggered => chunks = {}) /\ ~triggered'
               /\ RestartLater /\ fixing' = fixing
      <4>1. Together(stops) = {}
        BY <3>2, <3>3, <3>6
      <4>2. restarts' = 1
        BY <1>5, <2>1, <3>2, <3>6 DEF RestartLater
      <4>3. InTurn'
        BY <1>5, <1>e, <3>2, <3>3, <3>6, <4>2 DEF Stopped, InTurn
      <4>4. accepted' \ earlier' \subseteq OnItsWay' \union Confirmed' \union refused'
        BY <1>5, <1>c, <1>o, <1>e, <2>1, <3>3, <3>6, <4>1 DEF Stopped, OnItsWay, Confirmed
      <4> QED
        BY <3>1, <4>3, <4>4 DEF After
    <3> QED
      BY <1>5, <2>1, <3>4, <3>5, <3>6 DEF Stopped
  <2> QED
    BY <2>3, <2>4
<1>6. CASE Restart
  <2>1. page = "running" /\ restarts > 0 /\ restarts' = restarts - 1
    BY <1>6 DEF Restart
  <2>2. accepted' \ earlier' \subseteq OnItsWay' \union Confirmed' \union refused'
    BY <1>6, <1>c, <1>o, <2>1 DEF Restart, OnItsWay, Confirmed
  <2>3. CASE maintained
    <3>1. NoClip'
      BY <1>6, <1>c, <2>1, <2>3 DEF Restart, NoClip
    <3>2. ~maintained' => stops' = <<>> /\ restarts' = 0
      BY <1>6, <1>o, <1>b, <2>3 DEF Restart
    <3>3. ~maintained' => InTurn'
      BY <3>1, <3>2 DEF NoClip, InTurn
    <3> QED
      BY <2>2, <3>1, <3>3 DEF After
  <2>4. CASE ~maintained
    <3>1. ~maintained'
      BY <1>6, <1>o, <1>m, <2>4 DEF Restart
    <3>2. stops = <<>> /\ fixing = <<>> /\ upload.phase = "idle" /\ restarts = 1 /\ ~triggered
      BY <1>c, <2>1, <2>4 DEF InTurn
    <3> QED
      BY <1>6, <1>e, <2>1, <2>2, <3>1, <3>2 DEF Restart, After, InTurn
  <2> QED
    BY <2>3, <2>4
<1>7. ASSUME UNCHANGED <<page, recorder, stops, restarts, resetting, recovering, restarting,
                         triggered, fixing, upload, received, stored, refused, accepted>>
      PROVE  After
  <2>1. maintained' => maintained
    BY <1>7, <1>o, <1>m
  <2>2. maintained /\ ~maintained' => stops = <<>> /\ restarts = 0
    BY <1>7, <1>o, <1>b
  <2>3. accepted' \ earlier' \subseteq OnItsWay' \union Confirmed' \union refused'
    BY <1>7, <1>c, <1>o DEF OnItsWay, Confirmed
  <2>4. CASE ~maintained
    BY <1>7, <1>c, <2>1, <2>3, <2>4 DEF After, InTurn
  <2>5. CASE maintained
    BY <1>7, <1>c, <2>2, <2>3, <2>5 DEF After, InTurn, NoClip
  <2> QED
    BY <2>4, <2>5
<1>8. CASE PeriodicReset
  <2>1. /\ page = "running" /\ maintained' /\ fixing = <<>> /\ upload.phase = "idle" /\ ~triggered
        /\ Together(stops') = Together(stops)
    BY <1>8, <1>o, <1>s DEF PeriodicReset
  <2>2. Together(stops) = {}
    BY <1>c, <2>1 DEF InTurn, NoClip
  <2> QED
    BY <1>8, <1>c, <1>o, <2>1, <2>2 DEF PeriodicReset, After, NoClip, OnItsWay, Confirmed
<1>9. CASE ResetWakes \/ Recovers
  <2>1. page = "running" /\ maintained /\ NoClip
    BY <1>9, <1>m, <1>c DEF ResetWakes, Recovers
  <2>2. /\ Together(stops') = Together(stops)
        /\ UNCHANGED <<restarts, triggered, fixing, upload, received, stored, refused, accepted>>
    BY <1>9, <1>s, <2>1 DEF ResetWakes, Recovers, Recreate
  <2>3. NoClip'
    BY <2>1, <2>2 DEF NoClip
  <2>4. ~maintained' => stops' = <<>> /\ restarts' = 0
    BY <1>o, <1>b, <2>1, <2>2
  <2>5. ~maintained' => InTurn'
    BY <2>3, <2>4 DEF NoClip, InTurn
  <2>6. accepted' \ earlier' \subseteq OnItsWay' \union Confirmed' \union refused'
    BY <1>c, <1>o, <2>1, <2>2 DEF NoClip, OnItsWay, Confirmed
  <2> QED
    BY <2>3, <2>5, <2>6 DEF After
<1>10. ASSUME NEW i \in DOMAIN fixing, BeginUpload(i) PROVE After
  <2>1. page = "running" /\ fixing # <<>>
    BY <1>10 DEF BeginUpload
  <2>2. ~maintained
    BY <1>c, <2>1 DEF NoClip
  <2>3. ~maintained'
    BY <1>10, <1>o, <1>m, <2>2 DEF BeginUpload
  <2>4. /\ Len(fixing) = 1 /\ recorder # "recording" /\ upload.phase = "idle" /\ restarts = 0
        /\ stops = <<>> /\ ~triggered
    BY <1>c, <2>1, <2>2 DEF InTurn
  <2>5. fixing' = <<>> /\ Together(fixing) = fixing[i] /\ upload'.clip = fixing[i]
        /\ upload'.phase = "sending"
    BY <1>10, <1>b, <2>4, SingleWithout DEF BeginUpload
  <2>6. InTurn'
    BY <1>10, <1>e, <2>4, <2>5 DEF BeginUpload, InTurn
  <2>7. accepted' \ earlier' \subseteq OnItsWay' \union Confirmed' \union refused'
    BY <1>10, <1>c, <1>o, <1>i, <2>1, <2>4, <2>5 DEF BeginUpload, OnItsWay, Confirmed
  <2> QED
    BY <2>3, <2>6, <2>7 DEF After
<1>11. ASSUME NEW i \in DOMAIN fixing, SkipUpload(i) \/ NoCallback(i) PROVE FALSE
  <2>1. page = "running" /\ fixing # <<>> /\ upload.phase # "idle"
    BY <1>11 DEF SkipUpload, NoCallback
  <2> QED
    BY <1>c, <2>1 DEF NoClip, InTurn
<1>12. CASE SendSucceeds \/ Saved \/ NotSaved
  <2>1. page = "running" /\ upload.phase \in {"sending", "saving"} /\ upload' = Idle /\ RestartLater
        /\ UNCHANGED <<page, recorder, stops, resetting, recovering, triggered, fixing, accepted>>
    BY <1>12 DEF SendSucceeds, Saved, NotSaved
  <2>2. ~maintained
    BY <1>c, <2>1 DEF NoClip
  <2>3. ~maintained'
    BY <1>o, <1>m, <2>1, <2>2
  <2>4. recorder # "recording" /\ restarts = 0 /\ stops = <<>> /\ fixing = <<>> /\ ~triggered
    BY <1>c, <2>1, <2>2 DEF InTurn
  <2>5. restarts' = 1 /\ upload'.phase = "idle"
    BY <2>1, <2>4 DEF RestartLater, Idle
  <2>6. InTurn'
    BY <1>e, <2>1, <2>4, <2>5 DEF InTurn
  <2>7. upload.clip \subseteq received' \union stored' \union refused'
    BY <1>12 DEF SendSucceeds, Saved, NotSaved
  <2>8. received \subseteq received' /\ stored \subseteq stored' /\ refused \subseteq refused'
    BY <1>12 DEF SendSucceeds, Saved, NotSaved
  <2>9. accepted' \ earlier' \subseteq OnItsWay' \union Confirmed' \union refused'
    BY <1>c, <1>o, <2>1, <2>7, <2>8 DEF OnItsWay, Confirmed
  <2> QED
    BY <2>3, <2>6, <2>9 DEF After
<1>13. CASE SendFails \/ NextAttempt \/ SaveRejected
  <2>1. /\ page = "running" /\ upload.phase \in {"sending", "pausing", "saving"}
        /\ upload'.phase \in {"sending", "pausing", "saving", "stuck"} /\ upload'.clip = upload.clip
        /\ upload'.phase = "stuck" => refused' = refused \union upload.clip
        /\ refused \subseteq refused'
        /\ UNCHANGED <<page, recorder, stops, restarts, resetting, recovering, restarting, triggered,
                       fixing, received, stored, accepted>>
    BY <1>13 DEF SendFails, NextAttempt, SaveRejected
  <2>2. ~maintained
    BY <1>c, <2>1 DEF NoClip
  <2>3. ~maintained'
    BY <1>o, <1>m, <2>1, <2>2
  <2>4. InTurn'
    BY <1>c, <2>1, <2>2 DEF InTurn
  <2>5. accepted' \ earlier' \subseteq OnItsWay' \union Confirmed' \union refused'
    BY <1>c, <1>o, <2>1 DEF OnItsWay, Confirmed
  <2> QED
    BY <2>3, <2>4, <2>5 DEF After
<1>14. ASSUME NEW v \in Violations, Slide(v) PROVE After
  BY <1>14, <1>7 DEF Slide
<1>15. CASE Cleanup \/ LoadPage
  BY <1>15 DEF Cleanup, LoadPage
<1> QED
  BY <1>1, <1>2, <1>3, <1>4, <1>5, <1>6, <1>8, <1>9, <1>10, <1>11, <1>12, <1>13, <1>14, <1>15
  DEF Step

LEMMA ClipInvStep == Base /\ ClipInv /\ [Next]_vars => ClipInv'
<1> SUFFICES ASSUME Base, ClipInv, [Next]_vars PROVE ClipInv'
  OBVIOUS
<1>1. CASE UNCHANGED vars
  BY <1>1 DEF vars, media, history, observed, ClipInv, MaintenanceKnown, FreshIsEmpty,
              EarlierKnown, IdleIsEmpty, TurnInv, Calm, NoClip, InTurn, EvidenceKept, OnItsWay,
              Confirmed
<1>2. CASE Next
  <2>1. Step /\ Observe
    BY <1>2 DEF Next
  <2>2. MaintenanceKnown' /\ FreshIsEmpty' /\ EarlierKnown' /\ IdleIsEmpty'
    BY <2>1, PageStep
  <2>3. CASE page' = "running" /\ ~disturbed'
    <3>1. After
      BY <2>1, <2>3, TurnStep
    <3> QED
      BY <2>2, <3>1 DEF After, ClipInv, TurnInv, Calm, EvidenceKept
  <2>4. CASE page' = "running" /\ disturbed'
    BY <2>2, <2>4 DEF ClipInv, TurnInv, Calm, EvidenceKept
  <2>5. CASE page' # "running"
    BY <2>2, <2>5 DEF ClipInv, TurnInv, Calm, EvidenceKept, EarlierKnown
  <2> QED
    BY <2>3, <2>4, <2>5
<1> QED
  BY <1>1, <1>2

\* As long as no reset and no recovery meets a clip, a violation that was accepted is on
\* its way, or with the server or in the store, or refused by both.
THEOREM EvidenceStays == Spec => []EvidenceKept
<1>1. Init => ClipInv
  BY TogetherEmpty DEF Init, ClipInv, MaintenanceKnown, FreshIsEmpty, EarlierKnown, IdleIsEmpty, TurnInv,
         Calm, EvidenceKept, Idle
<1>2. ClipInv => EvidenceKept
  BY DEF ClipInv
<1> QED
  BY <1>1, <1>2, ClipInvStep, BaseAlways, PTL DEF Spec
=============================================================================
