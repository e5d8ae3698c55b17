-------------------------- MODULE ExamAnswersProofs --------------------------
(* Proofs about ExamAnswers: its types, that the saves of a question follow  *)
(* one another, and that only answers of a question are stored for it.       *)
EXTENDS ExamAnswers, TLAPS

-----------------------------------------------------------------------------
(* Types.                                                                    *)

LEMMA InitTyped == Init => TypeOK
<1> SUFFICES ASSUME Init PROVE TypeOK
  OBVIOUS
<1>1. /\ timer \in [Question -> BOOLEAN]
      /\ saving \in [Question -> BOOLEAN] /\ pending \in [Question -> BOOLEAN]
  BY DEF Init
<1>2. silent \in [Question -> SUBSET Saves]
  BY DEF Init
<1>3. /\ stored \in [Question -> SUBSET Option] /\ chosen \in [Question -> SUBSET Option]
      /\ due \in [Question -> SUBSET Option]
  BY DEF Init
<1>4. call \in [Call -> Calls]
  BY DEF Init, Calls
<1>5. actions \in 0..MaxActions /\ failures \in 0..MaxFailures
  BY ConstantsAssumption DEF Init
<1> QED BY <1>1, <1>2, <1>3, <1>4, <1>5 DEF Init, TypeOK

\* What saveMCQSilently leaves in its variables has their types.
LEMMA SavesTyped ==
    ASSUME TypeOK, NEW Q \in SUBSET Question, SaveSilently(Q)
    PROVE  /\ known' \subseteq Question
           /\ saving' \in [Question -> BOOLEAN] /\ pending' \in [Question -> BOOLEAN]
           /\ silent' \in [Question -> SUBSET Saves]
<1>1. Begins(Q) \subseteq Question
  BY DEF Begins
<1>2. [options |-> selected, stage |-> "sent"] \in Saves
  BY DEF TypeOK, Saves
<1>3. known' \subseteq Question
  BY <1>1 DEF TypeOK, SaveSilently
<1>4. saving' \in [Question -> BOOLEAN] /\ pending' \in [Question -> BOOLEAN]
  BY DEF SaveSilently
<1>5. silent' \in [Question -> SUBSET Saves]
  BY <1>2 DEF TypeOK, SaveSilently
<1> QED BY <1>3, <1>4, <1>5

LEMMA ImmediatelyTyped ==
    ASSUME TypeOK, NEW Q \in SUBSET Question, SaveImmediately(Q)
    PROVE  /\ timer' \in [Question -> BOOLEAN]
           /\ touched' \subseteq Question /\ known' \subseteq Question
           /\ saving' \in [Question -> BOOLEAN] /\ pending' \in [Question -> BOOLEAN]
           /\ silent' \in [Question -> SUBSET Saves]
<1>1. SaveSilently(Q)
  BY DEF SaveImmediately
<1>2. timer' \in [Question -> BOOLEAN] /\ touched' \subseteq Question
  BY DEF SaveImmediately, TypeOK
<1> QED BY <1>1, <1>2, SavesTyped

\* The part of the state that moving about changes.
LEMMA DashboardTyped ==
    ASSUME TypeOK, ShowDashboard
    PROVE  /\ hiding' \subseteq Question \cup {None}
           /\ timer' \in [Question -> BOOLEAN]
           /\ touched' \subseteq Question /\ known' \subseteq Question
           /\ saving' \in [Question -> BOOLEAN] /\ pending' \in [Question -> BOOLEAN]
           /\ silent' \in [Question -> SUBSET Saves]
           /\ UNCHANGED <<shown, selected, current, index, active, awaited>>
<1>1. CASE active /\ current # None
  <2>1. {current} \in SUBSET Question
    BY <1>1 DEF TypeOK
  <2>2. SaveImmediately({current})
    BY <1>1 DEF ShowDashboard
  <2>3. hiding' \subseteq Question \cup {None}
    BY <1>1, <2>1 DEF ShowDashboard, TypeOK
  <2> QED BY <2>1, <2>2, <2>3, ImmediatelyTyped DEF ShowDashboard
<1>2. CASE ~(active /\ current # None)
  BY <1>2 DEF ShowDashboard, TypeOK
<1> QED BY <1>1, <1>2

LEMMA LoadTyped ==
    ASSUME TypeOK, NEW c \in Call, NEW q \in Question, LoadMCQ(c, q)
    PROVE  /\ call' \in [Call -> Calls]
           /\ shown' \in Question \cup {None} /\ index' \in Question \cup {None}
           /\ selected' \subseteq Option /\ active' \in BOOLEAN
           /\ UNCHANGED <<current, hiding, saves>>
<1>1. [kind |-> "load", q |-> q, options |-> {}, stage |-> "sent"] \in Calls
  BY DEF Calls
<1>2. call' \in [Call -> Calls]
  BY <1>1 DEF LoadMCQ, TypeOK
<1> QED BY <1>2 DEF LoadMCQ

LEMMA NavigateTyped ==
    ASSUME TypeOK, NEW c \in Call, NavigateToNextQuestion(c)
    PROVE  /\ call' \in [Call -> Calls]
           /\ shown' \in Question \cup {None} /\ current' \in Question \cup {None}
           /\ index' \in Question \cup {None}
           /\ selected' \subseteq Option /\ active' \in BOOLEAN
           /\ hiding' \subseteq Question \cup {None}
           /\ timer' \in [Question -> BOOLEAN]
           /\ touched' \subseteq Question /\ known' \subseteq Question
           /\ saving' \in [Question -> BOOLEAN] /\ pending' \in [Question -> BOOLEAN]
           /\ silent' \in [Question -> SUBSET Saves]
           /\ awaited' = awaited
<1>1. CASE index < N /\ LoadMCQ(c, index + 1)
  <2>1. index + 1 \in Question
    BY <1>1, ConstantsAssumption DEF TypeOK, Question, None
  <2> QED BY <1>1, <2>1, LoadTyped DEF TypeOK, saves
<1>2. CASE index = N /\ ShowDashboard /\ call' = [call EXCEPT ![c] = NoCall]
  <2>1. call' \in [Call -> Calls]
    BY <1>2 DEF TypeOK, Calls
  <2> QED BY <1>2, <2>1, DashboardTyped DEF TypeOK
<1> QED BY <1>1, <1>2 DEF NavigateToNextQuestion

LEMMA AnsweredTyped ==
    ASSUME TypeOK, NEW q \in Question, NEW s \in silent[q], Answered(q, s)
    PROVE  silent' \in [Question -> SUBSET Saves]
<1>1. s \in Saves
  BY DEF TypeOK
<1>2. [options |-> s.options, stage |-> "answered"] \in Saves
  BY <1>1 DEF Saves
<1> QED BY <1>2 DEF Answered, TypeOK

LEMMA ReplyTyped ==
    ASSUME TypeOK, NEW c \in Call, call[c] # NoCall, NEW S \in SUBSET Option,
           NEW stage \in {"done", "failed"}, Reply(c, S, stage)
    PROVE  call' \in [Call -> Calls]
<1>1. call[c].kind \in {"load", "submit"} /\ call[c].q \in Question
  BY DEF TypeOK, Calls
<1>2. [kind |-> call[c].kind, q |-> call[c].q, options |-> S, stage |-> stage] \in Calls
  BY <1>1 DEF Calls
<1> QED BY <1>2 DEF Reply, TypeOK

\* Which requests have a question and options.
LEMMA CallTyped ==
    ASSUME TypeOK, NEW c \in Call, call[c] # NoCall
    PROVE  call[c].q \in Question /\ call[c].options \in SUBSET Option
BY DEF TypeOK, Calls

LEMMA StoreTyped ==
    ASSUME TypeOK, NEW q \in Question, NEW S \in SUBSET Option, StoreAnswer(q, S)
    PROVE  stored' \in [Question -> SUBSET Option]
BY DEF StoreAnswer, TypeOK

\* A clicked input, a timer or an answer of the server keeps the types.
LEMMA TypeStep == TypeOK /\ [Next]_vars => TypeOK'
<1> SUFFICES ASSUME TypeOK, [Next]_vars PROVE TypeOK'
  OBVIOUS
<1> USE DEF page, saves, server, history
<1>1. ASSUME NEW o \in Option, Choose(o) PROVE TypeOK'
  <2>1. shown \in Question /\ o \in Option
    BY <1>1 DEF Choose, TypeOK
  <2>2. selected' \subseteq Option
    BY <1>1, <2>1 DEF Choose, TypeOK
  <2>3. actions' \in 0..MaxActions
    BY <1>1, ConstantsAssumption DEF Choose, Clicks, TypeOK
  <2>4. chosen' \in [Question -> SUBSET Option] /\ timer' \in [Question -> BOOLEAN]
        /\ touched' \subseteq Question
    BY <1>1, <2>1, <2>2 DEF Choose, TypeOK
  <2> QED BY <1>1, <2>2, <2>3, <2>4 DEF Choose, TypeOK
<1>2. ASSUME NEW c \in Call, NEW q \in Question, ClickQuestion(c, q) PROVE TypeOK'
  <2>1. actions' \in 0..MaxActions
    BY <1>2, ConstantsAssumption DEF ClickQuestion, Clicks, TypeOK
  <2>2. LoadMCQ(c, q)
    BY <1>2 DEF ClickQuestion
  <2> QED BY <1>2, <2>1, <2>2, LoadTyped DEF ClickQuestion, TypeOK
<1>3. ASSUME ClickDashboard PROVE TypeOK'
  <2>1. actions' \in 0..MaxActions
    BY <1>3, ConstantsAssumption DEF ClickDashboard, Clicks, TypeOK
  <2>2. ShowDashboard
    BY <1>3 DEF ClickDashboard
  <2> QED BY <1>3, <2>1, <2>2, DashboardTyped DEF ClickDashboard, TypeOK
<1>4. ASSUME NEW c \in Call, ClickSubmit(c) PROVE TypeOK'
  <2>1. actions' \in 0..MaxActions
    BY <1>4, ConstantsAssumption DEF ClickSubmit, Clicks, TypeOK
  <2>2. CASE selected = {}
    <3>1. NavigateToNextQuestion(c)
      BY <1>4, <2>2 DEF ClickSubmit
    <3> QED BY <1>4, <2>1, <3>1, NavigateTyped DEF ClickSubmit, TypeOK
  <2>3. CASE selected # {}
    <3>1. [kind |-> "submit", q |-> shown, options |-> selected, stage |-> "sent"] \in Calls
      BY <1>4 DEF ClickSubmit, Calls, TypeOK
    <3>2. call' \in [Call -> Calls]
      BY <1>4, <2>3, <3>1 DEF ClickSubmit, TypeOK
    <3> QED BY <1>4, <2>1, <2>3, <3>2 DEF ClickSubmit, TypeOK
  <2> QED BY <2>2, <2>3
<1>5. ASSUME Confirm PROVE TypeOK'
  <2>1. touched \cup known \in SUBSET Question
    BY DEF TypeOK
  <2>2. SaveImmediately(touched \cup known)
    BY <1>5 DEF Confirm
  <2>3. awaited' \subseteq Question
    BY <1>5, <2>1 DEF Confirm, Begins
  <2> QED BY <1>5, <2>1, <2>2, <2>3, ImmediatelyTyped DEF Confirm, TypeOK
<1>6. ASSUME NEW q \in Question, TimerFires(q) PROVE TypeOK'
  <2>1. timer' \in [Question -> BOOLEAN]
    BY <1>6 DEF TimerFires, TypeOK
  <2>2. SaveSilently({q}) /\ {q} \in SUBSET Question
    BY <1>6 DEF TimerFires
  <2> QED BY <1>6, <2>1, <2>2, SavesTyped DEF TimerFires, TypeOK
<1>7. ASSUME NEW q \in Question, NEW s \in silent[q], SaveEnds(q, s) PROVE TypeOK'
  <2>1. [options |-> selected, stage |-> "sent"] \in Saves
    BY DEF TypeOK, Saves
  <2>2. silent' \in [Question -> SUBSET Saves]
    BY <1>7, <2>1 DEF SaveEnds, TypeOK
  <2>3. saving' \in [Question -> BOOLEAN] /\ pending' \in [Question -> BOOLEAN]
    BY <1>7 DEF SaveEnds, TypeOK
  <2>4. awaited' \subseteq Question /\ hiding' \subseteq Question \cup {None}
    BY <1>7 DEF SaveEnds, TypeOK
  <2> QED BY <1>7, <2>2, <2>3, <2>4 DEF SaveEnds, TypeOK
<1>8. ASSUME NEW c \in Call, LoadEnds(c) PROVE TypeOK'
  <2>1. call[c] \in Calls /\ call[c].kind = "load"
    BY <1>8 DEF LoadEnds, TypeOK
  <2>2. call[c].q \in Question /\ call[c].options \subseteq Option
    BY <2>1 DEF Calls, NoCall
  <2>3. call' \in [Call -> Calls]
    BY <1>8 DEF LoadEnds, TypeOK, Calls
  <2> QED BY <1>8, <2>2, <2>3 DEF LoadEnds, TypeOK
<1>9. ASSUME NEW c \in Call, SubmitEnds(c) PROVE TypeOK'
  <2>1. CASE NavigateToNextQuestion(c)
    BY <1>9, <2>1, NavigateTyped DEF SubmitEnds, TypeOK
  <2>2. CASE call' = [call EXCEPT ![c] = NoCall] /\ UNCHANGED <<page, saves>>
    <3>1. call' \in [Call -> Calls]
      BY <2>2 DEF TypeOK, Calls
    <3> QED BY <1>9, <2>2, <3>1 DEF SubmitEnds, TypeOK
  <2> QED BY <1>9, <2>1, <2>2 DEF SubmitEnds
<1>10. ASSUME Hide \/ Leave \/ ThankYou PROVE TypeOK'
  BY <1>10 DEF Hide, Leave, ThankYou, TypeOK
<1>11. ASSUME NEW q \in Question, NEW s \in silent[q], ServeSave(q, s) PROVE TypeOK'
  <2>1. s.options \in SUBSET Option
    BY DEF TypeOK, Saves
  <2>2. StoreAnswer(q, s.options) /\ Answered(q, s)
    BY <1>11 DEF ServeSave
  <2> QED BY <1>11, <2>1, <2>2, StoreTyped, AnsweredTyped DEF ServeSave, TypeOK
<1>12. ASSUME NEW c \in Call, ServeLoad(c) PROVE TypeOK'
  <2>1. call[c] # NoCall /\ Reply(c, stored[call[c].q], "done")
    BY <1>12 DEF ServeLoad, NoCall
  <2>2. stored[call[c].q] \in SUBSET Option
    BY <2>1, CallTyped DEF TypeOK
  <2> QED BY <1>12, <2>1, <2>2, ReplyTyped DEF ServeLoad, TypeOK
<1>13. ASSUME NEW c \in Call, ServeSubmit(c) PROVE TypeOK'
  <2> DEFINE stage == IF Accepts(call[c].q, call[c].options) THEN "done" ELSE "failed"
  <2>1. call[c] # NoCall /\ Reply(c, call[c].options, stage)
    BY <1>13 DEF ServeSubmit, NoCall
  <2>2. stage \in {"done", "failed"}
    OBVIOUS
  <2> HIDE DEF stage
  <2>3. call' \in [Call -> Calls]
    BY <2>1, <2>2, CallTyped, ReplyTyped
  <2>4. stored' \in [Question -> SUBSET Option]
    BY <1>13, <2>1, CallTyped, StoreTyped DEF ServeSubmit
  <2> QED BY <1>13, <2>3, <2>4 DEF ServeSubmit, TypeOK
<1>14. ASSUME ServeLeave PROVE TypeOK'
  BY <1>14 DEF ServeLeave, TypeOK
<1>15. ASSUME Fails PROVE failures' \in 0..MaxFailures
  BY <1>15, ConstantsAssumption DEF Fails, TypeOK
<1>16. ASSUME NEW q \in Question, NEW s \in silent[q], SaveFails(q, s) PROVE TypeOK'
  <2>1. Answered(q, s) /\ Fails
    BY <1>16 DEF SaveFails
  <2> QED BY <1>15, <1>16, <2>1, AnsweredTyped DEF SaveFails, TypeOK
<1>17. ASSUME NEW c \in Call, CallFails(c) PROVE TypeOK'
  <2>1. call[c] # NoCall /\ Reply(c, call[c].options, "failed") /\ Fails
    BY <1>17 DEF CallFails, NoCall
  <2>2. call' \in [Call -> Calls]
    BY <2>1, CallTyped, ReplyTyped
  <2> QED BY <1>15, <1>17, <2>1, <2>2 DEF CallFails, TypeOK
<1>18. ASSUME LeaveFails PROVE TypeOK'
  BY <1>15, <1>18 DEF LeaveFails, TypeOK
<1>19. CASE UNCHANGED vars
  BY <1>19 DEF vars, TypeOK
<1> QED
  BY <1>1, <1>2, <1>3, <1>4, <1>5, <1>6, <1>7, <1>8, <1>9, <1>10, <1>11, <1>12, <1>13, <1>14,
     <1>16, <1>17, <1>18, <1>19 DEF Next, User, Browser, Serving, Network

\* Type correctness, for every number of questions, options and requests.
THEOREM TypeCorrect == Spec => []TypeOK
<1>1. Init => TypeOK
  BY InitTyped
<1> QED BY <1>1, TypeStep, PTL DEF Spec

-----------------------------------------------------------------------------
(* The saves of a question follow one another.                               *)

LEMMA SavesOne ==
    ASSUME TypeOK, OneSaveAtATime, NEW Q \in SUBSET Question, SaveSilently(Q)
    PROVE  OneSaveAtATime'
<1> SUFFICES ASSUME NEW q \in Question
             PROVE  /\ \A s, t \in silent'[q] : s = t
                    /\ saving'[q] <=> silent'[q] # {}
                    /\ pending'[q] => saving'[q]
  BY DEF OneSaveAtATime
<1>1. /\ \A s, t \in silent[q] : s = t
      /\ saving[q] <=> silent[q] # {}
      /\ pending[q] => saving[q]
  BY DEF OneSaveAtATime
<1>2. CASE q \in Begins(Q)
  <2>1. silent'[q] = {[options |-> selected, stage |-> "sent"]}
    BY <1>1, <1>2 DEF SaveSilently, Begins
  <2>2. saving'[q]
    BY <1>2 DEF SaveSilently
  <2> QED BY <2>1, <2>2
<1>3. CASE q \notin Begins(Q)
  <2>1. silent'[q] = silent[q] /\ saving'[q] = saving[q]
    BY <1>3 DEF SaveSilently, TypeOK
  <2>2. pending'[q] => saving[q]
    BY <1>1 DEF SaveSilently, Queues
  <2> QED BY <1>1, <2>1, <2>2
<1> QED BY <1>2, <1>3

LEMMA DashboardOne == TypeOK /\ OneSaveAtATime /\ ShowDashboard => OneSaveAtATime'
<1> SUFFICES ASSUME TypeOK, OneSaveAtATime, ShowDashboard PROVE OneSaveAtATime'
  OBVIOUS
<1>1. CASE active /\ current # None
  <2>1. {current} \in SUBSET Question /\ SaveSilently({current})
    BY <1>1 DEF ShowDashboard, SaveImmediately, TypeOK
  <2> QED BY <2>1, SavesOne
<1>2. CASE ~(active /\ current # None)
  BY <1>2 DEF ShowDashboard, OneSaveAtATime
<1> QED BY <1>1, <1>2

LEMMA NavigateOne ==
    ASSUME TypeOK, OneSaveAtATime, NEW c \in Call, NavigateToNextQuestion(c)
    PROVE  OneSaveAtATime'
<1>1. CASE LoadMCQ(c, index + 1)
  BY <1>1 DEF LoadMCQ, saves, OneSaveAtATime
<1>2. CASE ShowDashboard
  BY <1>2, DashboardOne
<1> QED BY <1>1, <1>2 DEF NavigateToNextQuestion

\* The answer of the server takes the place of the request.
LEMMA AnsweredOne ==
    ASSUME TypeOK, OneSaveAtATime, NEW q \in Question, NEW s \in silent[q], Answered(q, s),
           UNCHANGED <<saving, pending>>
    PROVE  OneSaveAtATime'
<1> DEFINE t == [options |-> s.options, stage |-> "answered"]
<1>1. silent'[q] = {t} /\ silent[q] # {}
  BY DEF Answered, TypeOK, OneSaveAtATime
<1>2. \A r \in Question \ {q} : silent'[r] = silent[r]
  BY DEF Answered, TypeOK
<1>3. /\ \A x, y \in silent'[q] : x = y
      /\ silent'[q] # {}
  BY <1>1
<1> HIDE DEF t
<1> QED BY <1>1, <1>2, <1>3 DEF OneSaveAtATime

LEMMA OneSaveStep == TypeOK /\ OneSaveAtATime /\ [Next]_vars => OneSaveAtATime'
<1> SUFFICES ASSUME TypeOK, OneSaveAtATime, [Next]_vars PROVE OneSaveAtATime'
  OBVIOUS
<1>1. CASE UNCHANGED <<saving, pending, silent>>
  BY <1>1 DEF OneSaveAtATime
<1>2. ASSUME ClickDashboard PROVE OneSaveAtATime'
  BY <1>2, DashboardOne DEF ClickDashboard
<1>3. ASSUME NEW c \in Call, ClickSubmit(c) PROVE OneSaveAtATime'
  <2>1. CASE selected = {}
    BY <1>3, <2>1, NavigateOne DEF ClickSubmit
  <2>2. CASE selected # {}
    BY <1>1, <1>3, <2>2 DEF ClickSubmit, saves
  <2> QED BY <2>1, <2>2
<1>4. ASSUME Confirm PROVE OneSaveAtATime'
  <2>1. touched \cup known \in SUBSET Question /\ SaveSilently(touched \cup known)
    BY <1>4 DEF Confirm, SaveImmediately, TypeOK
  <2> QED BY <2>1, SavesOne
<1>5. ASSUME NEW q \in Question, TimerFires(q) PROVE OneSaveAtATime'
  <2>1. {q} \in SUBSET Question /\ SaveSilently({q})
    BY <1>5 DEF TimerFires
  <2> QED BY <2>1, SavesOne
<1>6. ASSUME NEW q \in Question, NEW s \in silent[q], SaveEnds(q, s) PROVE OneSaveAtATime'
  <2> DEFINE again == pending[q] /\ selected # {}
  <2>1. silent[q] \ {s} = {}
    BY DEF OneSaveAtATime
  <2>2. silent'[q] = IF again THEN {[options |-> selected, stage |-> "sent"]} ELSE {}
    BY <1>6, <2>1 DEF SaveEnds, TypeOK
  <2>3. saving'[q] = again /\ ~pending'[q]
    BY <1>6 DEF SaveEnds, TypeOK
  <2>4. \A r \in Question \ {q} : /\ silent'[r] = silent[r]
                                 /\ saving'[r] = saving[r] /\ pending'[r] = pending[r]
    BY <1>6 DEF SaveEnds, TypeOK
  <2> HIDE DEF again
  <2>5. /\ \A x, y \in silent'[q] : x = y
        /\ saving'[q] <=> silent'[q] # {}
    BY <2>2, <2>3
  <2> QED BY <2>3, <2>4, <2>5 DEF OneSaveAtATime
<1>7. ASSUME NEW c \in Call, SubmitEnds(c) PROVE OneSaveAtATime'
  <2>1. CASE NavigateToNextQuestion(c)
    BY <2>1, NavigateOne
  <2>2. CASE UNCHANGED <<page, saves>>
    BY <1>1, <2>2 DEF saves
  <2> QED BY <1>7, <2>1, <2>2 DEF SubmitEnds
<1>8. ASSUME NEW q \in Question, NEW s \in silent[q], ServeSave(q, s) \/ SaveFails(q, s)
      PROVE  OneSaveAtATime'
  <2>1. Answered(q, s) /\ UNCHANGED <<saving, pending>>
    BY <1>8 DEF ServeSave, SaveFails
  <2> QED BY <2>1, AnsweredOne
<1>9. ASSUME \/ \E o \in Option : Choose(o)
             \/ \E c \in Call, q \in Question : ClickQuestion(c, q)
             \/ \E c \in Call : LoadEnds(c) \/ ServeLoad(c) \/ ServeSubmit(c) \/ CallFails(c)
             \/ Hide \/ Leave \/ ThankYou \/ ServeLeave \/ LeaveFails
             \/ UNCHANGED vars
      PROVE  OneSaveAtATime'
  <2>1. UNCHANGED <<saving, pending, silent>>
    BY <1>9 DEF Choose, ClickQuestion, LoadMCQ, LoadEnds, ServeLoad, ServeSubmit, CallFails,
       Hide, Leave, ThankYou, ServeLeave, LeaveFails, vars, saves
  <2> QED BY <1>1, <2>1
<1> QED
  BY <1>2, <1>3, <1>4, <1>5, <1>6, <1>7, <1>8, <1>9 DEF Next, User, Browser, Serving, Network

\* Whatever the user does, the silent saves of a question go out one after the
\* other, and a queued one is never forgotten.
THEOREM SavesInTurn == Spec => []OneSaveAtATime
<1>1. Init => TypeOK /\ OneSaveAtATime
  BY InitTyped DEF Init, OneSaveAtATime
<1>2. TypeOK /\ OneSaveAtATime /\ [Next]_vars => (TypeOK /\ OneSaveAtATime)'
  BY TypeStep, OneSaveStep
<1> QED BY <1>1, <1>2, PTL DEF Spec

-----------------------------------------------------------------------------
(* Only an answer of a question is stored for it.  The options on their way  *)
(* to the server may be those of another question, but they are all of one:  *)
(* that of the page when they were read.                                     *)

\* The options of some one question, as its inputs let the user choose them.
OfOne(S) == \E r \in Question : Proper(r, S)

Carried ==
    /\ IF shown = None THEN selected = {} ELSE Proper(shown, selected)
    /\ \A q \in Question : \A s \in silent[q] : OfOne(s.options)
    /\ \A c \in Call : call[c] # NoCall => OfOne(call[c].options)

\* A load carries what is stored for its own question.
Loaded == \A c \in Call : call[c].kind = "load" => Proper(call[c].q, call[c].options)

AnswerInv == TypeOK /\ StoredIsAnAnswer /\ Carried /\ Loaded

\* What the server accepts for q, if it is of one question, is of q.
LEMMA AcceptedIsProper ==
    ASSUME NEW q \in Question, NEW S, OfOne(S), Accepts(q, S)
    PROVE  Proper(q, S)
<1>1. PICK r \in Question : Proper(r, S)
  BY DEF OfOne
<1>2. PICK o : o \in S
  BY DEF Accepts
<1>3. o \in {q} \X Choice /\ o \in {r} \X Choice
  BY <1>1, <1>2 DEF Accepts, Proper, OptionsOf
<1>4. r = q
  BY <1>3
<1> QED BY <1>1, <1>4

LEMMA StoredProperly ==
    ASSUME TypeOK, StoredIsAnAnswer, NEW q \in Question, NEW S, OfOne(S), StoreAnswer(q, S)
    PROVE  StoredIsAnAnswer'
<1>1. CASE Accepts(q, S)
  <2>1. Proper(q, S)
    BY <1>1, AcceptedIsProper
  <2>2. stored' = [stored EXCEPT ![q] = S]
    BY <1>1 DEF StoreAnswer
  <2>3. \A r \in Question : Proper(r, stored'[r])
    BY <2>1, <2>2 DEF StoredIsAnAnswer, TypeOK
  <2> QED BY <2>3 DEF StoredIsAnAnswer, Proper
<1>2. CASE ~Accepts(q, S)
  BY <1>2 DEF StoreAnswer, StoredIsAnAnswer, Proper
<1> QED BY <1>1, <1>2

LEMMA NothingIsProper == \A r \in Question : Proper(r, {})
BY DEF Proper

\* What is checked in the page is of one question.
LEMMA SelectedOfOne == ASSUME TypeOK, Carried PROVE selected = {} \/ OfOne(selected)
BY DEF TypeOK, Carried, OfOne

LEMMA SavesCarried ==
    ASSUME TypeOK, Carried, NEW Q \in SUBSET Question, SaveSilently(Q)
    PROVE  \A q \in Question : \A s \in silent'[q] : OfOne(s.options)
<1> SUFFICES ASSUME NEW q \in Question, NEW s \in silent'[q] PROVE OfOne(s.options)
  OBVIOUS
<1>1. s \in silent[q] \/ (q \in Begins(Q) /\ s = [options |-> selected, stage |-> "sent"])
  BY DEF SaveSilently
<1>2. CASE s \in silent[q]
  BY <1>2 DEF Carried
<1>3. CASE q \in Begins(Q) /\ s = [options |-> selected, stage |-> "sent"]
  BY <1>3, SelectedOfOne DEF Begins
<1> QED BY <1>1, <1>2, <1>3

\* The inputs of the page are gone, and a call carries nothing.
LEMMA LoadCarried ==
    ASSUME TypeOK, Carried, Loaded, NEW c \in Call, NEW q \in Question, LoadMCQ(c, q)
    PROVE  Carried' /\ Loaded'
<1>1. /\ shown' = None /\ selected' = {} /\ silent' = silent
      /\ \A d \in Call \ {c} : call'[d] = call[d]
      /\ call'[c].kind = "load" /\ call'[c].q = q /\ call'[c].options = {}
  BY DEF LoadMCQ, saves, TypeOK
<1>2. OfOne({})
  BY NothingIsProper DEF OfOne
<1>3. Proper(q, {})
  BY NothingIsProper
<1>4. Loaded'
  BY <1>1, <1>3 DEF Loaded, Proper
<1>5. Carried'
  BY <1>1, <1>2 DEF Carried, OfOne, Proper
<1> QED BY <1>4, <1>5

LEMMA DashboardCarried ==
    ASSUME TypeOK, Carried, ShowDashboard
    PROVE  \A q \in Question : \A s \in silent'[q] : OfOne(s.options)
<1>1. CASE active /\ current # None
  <2>1. {current} \in SUBSET Question /\ SaveSilently({current})
    BY <1>1 DEF ShowDashboard, SaveImmediately, TypeOK
  <2> QED BY <2>1, SavesCarried
<1>2. CASE ~(active /\ current # None)
  BY <1>2 DEF ShowDashboard, Carried
<1> QED BY <1>1, <1>2

\* The call c is over, and the page has not changed.
LEMMA CallOver ==
    ASSUME TypeOK, Carried, Loaded, NEW c \in Call, call' = [call EXCEPT ![c] = NoCall],
           UNCHANGED <<shown, selected>>,
           \A q \in Question : \A s \in silent'[q] : OfOne(s.options)
    PROVE  Carried' /\ Loaded'
<1>1. call'[c] = NoCall /\ \A d \in Call \ {c} : call'[d] = call[d]
  BY DEF TypeOK
<1>2. Loaded'
  BY <1>1 DEF Loaded, NoCall, Proper
<1>3. Carried'
  BY <1>1 DEF Carried, OfOne, Proper
<1> QED BY <1>2, <1>3

LEMMA NavigateCarried ==
    ASSUME TypeOK, Carried, Loaded, NEW c \in Call, NavigateToNextQuestion(c)
    PROVE  Carried' /\ Loaded'
<1>1. CASE index < N /\ LoadMCQ(c, index + 1)
  <2>1. index + 1 \in Question
    BY <1>1, ConstantsAssumption DEF TypeOK, Question, None
  <2> QED BY <1>1, <2>1, LoadCarried
<1>2. CASE ShowDashboard /\ call' = [call EXCEPT ![c] = NoCall]
  <2>1. UNCHANGED <<shown, selected>>
    BY <1>2 DEF ShowDashboard
  <2> QED BY <1>2, <2>1, DashboardCarried, CallOver
<1> QED BY <1>1, <1>2 DEF NavigateToNextQuestion

\* A save that is answered, or fails, carries what it carried.
LEMMA AnsweredCarried ==
    ASSUME TypeOK, Carried, NEW q \in Question, NEW s \in silent[q], Answered(q, s)
    PROVE  \A r \in Question : \A t \in silent'[r] : OfOne(t.options)
<1> SUFFICES ASSUME NEW r \in Question, NEW t \in silent'[r] PROVE OfOne(t.options)
  OBVIOUS
<1>1. t \in silent[r] \/ t.options = s.options
  BY DEF Answered, TypeOK
<1> QED BY <1>1 DEF Carried

LEMMA SavesOnly ==
    ASSUME Carried, Loaded, UNCHANGED <<shown, selected, call>>,
           \A q \in Question : \A s \in silent'[q] : OfOne(s.options)
    PROVE  Carried' /\ Loaded'
<1>1. Loaded'
  BY DEF Loaded, Proper
<1> QED BY <1>1 DEF Carried, OfOne, Proper

\* A call that is answered carries options of one question, a load those of its own.
LEMMA ReplyCarried ==
    ASSUME TypeOK, Carried, Loaded, NEW c \in Call, call[c] # NoCall, NEW S, OfOne(S), NEW stage,
           Reply(c, S, stage), call[c].kind = "load" => Proper(call[c].q, S),
           UNCHANGED <<shown, selected, silent>>
    PROVE  Carried' /\ Loaded'
<1>1. /\ call'[c].kind = call[c].kind /\ call'[c].q = call[c].q /\ call'[c].options = S
      /\ \A d \in Call \ {c} : call'[d] = call[d]
  BY DEF Reply, TypeOK
<1>2. Loaded'
  BY <1>1 DEF Loaded, Proper
<1>3. Carried'
  BY <1>1 DEF Carried, OfOne, Proper
<1> QED BY <1>2, <1>3

\* The page, the requests and what is stored are as they were.
LEMMA AnswerFrame ==
    ASSUME AnswerInv, UNCHANGED <<shown, selected, silent, call, stored>>
    PROVE  StoredIsAnAnswer' /\ Carried' /\ Loaded'
BY DEF AnswerInv, StoredIsAnAnswer, Carried, Loaded, OfOne, Proper

LEMMA AnswerStep == AnswerInv /\ [Next]_vars => AnswerInv'
<1> SUFFICES ASSUME AnswerInv, [Next]_vars PROVE StoredIsAnAnswer' /\ Carried' /\ Loaded'
  BY TypeStep DEF AnswerInv
<1> DEFINE Goal == StoredIsAnAnswer' /\ Carried' /\ Loaded'
<1>0. TypeOK /\ StoredIsAnAnswer /\ Carried /\ Loaded
  BY DEF AnswerInv
<1>s. ASSUME UNCHANGED stored PROVE StoredIsAnAnswer'
  BY <1>0, <1>s DEF StoredIsAnAnswer, Proper
<1>1. ASSUME NEW o \in Option, Choose(o) PROVE Goal
  <2>1. UNCHANGED <<shown, silent, call, stored>> /\ shown # None
    BY <1>1 DEF Choose, server
  <2>2. Proper(shown, selected')
    BY <1>0, <1>1, <2>1 DEF Choose, Carried, Proper
  <2> QED BY <1>0, <1>s, <2>1, <2>2 DEF Carried, Loaded, OfOne, Proper
<1>2. ASSUME NEW c \in Call, NEW q \in Question, ClickQuestion(c, q) PROVE Goal
  BY <1>0, <1>2, <1>s, LoadCarried DEF ClickQuestion, server
<1>3. ASSUME ClickDashboard PROVE Goal
  BY <1>0, <1>3, <1>s, DashboardCarried, SavesOnly DEF ClickDashboard, ShowDashboard, server
<1>4. ASSUME NEW c \in Call, ClickSubmit(c) PROVE Goal
  <2>1. CASE selected = {}
    BY <1>0, <1>4, <1>s, <2>1, NavigateCarried DEF ClickSubmit, server
  <2>2. CASE selected # {}
    <3>1. /\ call'[c].kind = "submit" /\ call'[c].options = selected
          /\ \A d \in Call \ {c} : call'[d] = call[d]
          /\ UNCHANGED <<shown, selected, silent, stored>>
      <4>1. call' = [call EXCEPT ![c] =
                [kind |-> "submit", q |-> shown, options |-> selected, stage |-> "sent"]]
        BY <1>4, <2>2 DEF ClickSubmit
      <4>2. UNCHANGED <<shown, selected, silent, stored>>
        BY <1>4, <2>2 DEF ClickSubmit, page, saves, server
      <4>3. call \in [Call -> Calls]
        BY <1>0 DEF TypeOK
      <4> QED BY <4>1, <4>2, <4>3
    <3>2. OfOne(selected)
      BY <1>0, <2>2, SelectedOfOne
    <3>3. Loaded'
      BY <1>0, <3>1 DEF Loaded, Proper
    <3>4. Carried'
      BY <1>0, <3>1, <3>2 DEF Carried, OfOne, Proper
    <3> QED BY <1>s, <3>1, <3>3, <3>4
  <2> QED BY <2>1, <2>2
<1>5. ASSUME Confirm PROVE Goal
  <2>1. touched \cup known \in SUBSET Question /\ SaveSilently(touched \cup known)
    BY <1>0, <1>5 DEF Confirm, SaveImmediately, TypeOK
  <2> QED BY <1>0, <1>5, <1>s, <2>1, SavesCarried, SavesOnly DEF Confirm, page, server
<1>6. ASSUME NEW q \in Question, TimerFires(q) PROVE Goal
  <2>1. {q} \in SUBSET Question /\ SaveSilently({q})
    BY <1>6 DEF TimerFires
  <2> QED BY <1>0, <1>6, <1>s, <2>1, SavesCarried, SavesOnly DEF TimerFires, page, server
<1>7. ASSUME NEW q \in Question, NEW s \in silent[q], SaveEnds(q, s) PROVE Goal
  <2>1. UNCHANGED <<shown, selected, call, stored>>
    BY <1>7 DEF SaveEnds, server
  <2>2. ASSUME NEW r \in Question, NEW t \in silent'[r] PROVE OfOne(t.options)
    <3>1. t \in silent[r] \/ (t.options = selected /\ selected # {})
      BY <1>0, <1>7, <2>2 DEF SaveEnds, TypeOK
    <3> QED BY <1>0, <3>1, SelectedOfOne DEF Carried
  <2> QED BY <1>0, <1>s, <2>1, <2>2, SavesOnly
<1>8. ASSUME NEW c \in Call, LoadEnds(c) PROVE Goal
  <2>1. call'[c] = NoCall /\ (\A d \in Call \ {c} : call'[d] = call[d]) /\ UNCHANGED <<silent, stored>>
    BY <1>0, <1>8 DEF LoadEnds, TypeOK, saves, server
  <2>2. Loaded'
    BY <1>0, <2>1 DEF Loaded, NoCall, Proper
  <2>3. IF shown' = None THEN selected' = {} ELSE Proper(shown', selected')
    <3>1. CASE shown' = call[c].q /\ selected' = call[c].options
      <4>1. call[c] # NoCall /\ call[c].q \in Question
        BY <1>0, <1>8, CallTyped DEF LoadEnds, NoCall
      <4>2. Proper(call[c].q, call[c].options)
        BY <1>0, <1>8 DEF LoadEnds, Loaded
      <4>3. call[c].q # None
        BY <4>1, ConstantsAssumption DEF Question, None
      <4>4. Proper(shown', selected') /\ shown' # None
        BY <3>1, <4>2, <4>3
      <4> QED BY <4>4
    <3>2. CASE shown' = None /\ selected' = {}
      BY <3>2
    <3> QED BY <1>8, <3>1, <3>2 DEF LoadEnds
  <2>4. Carried'
    BY <1>0, <2>1, <2>3 DEF Carried, OfOne, Proper
  <2> QED BY <1>s, <2>1, <2>2, <2>4
<1>9. ASSUME NEW c \in Call, SubmitEnds(c) PROVE Goal
  <2>1. UNCHANGED stored
    BY <1>9 DEF SubmitEnds, server
  <2>2. CASE NavigateToNextQuestion(c)
    BY <1>0, <1>s, <2>1, <2>2, NavigateCarried
  <2>3. CASE call' = [call EXCEPT ![c] = NoCall] /\ UNCHANGED <<page, saves>>
    <3>1. \A q \in Question : \A s \in silent'[q] : OfOne(s.options)
      BY <1>0, <2>3 DEF saves, Carried
    <3> QED BY <1>0, <1>s, <2>1, <2>3, <3>1, CallOver DEF page
  <2> QED BY <1>9, <2>2, <2>3 DEF SubmitEnds
<1>10. ASSUME NEW q \in Question, NEW s \in silent[q], ServeSave(q, s) PROVE Goal
  <2>1. OfOne(s.options)
    BY <1>0 DEF Carried
  <2>2. StoredIsAnAnswer'
    BY <1>0, <1>10, <2>1, StoredProperly DEF ServeSave
  <2> QED BY <1>0, <1>10, <2>2, AnsweredCarried, SavesOnly DEF ServeSave, page
<1>11. ASSUME NEW q \in Question, NEW s \in silent[q], SaveFails(q, s) PROVE Goal
  BY <1>0, <1>11, <1>s, AnsweredCarried, SavesOnly DEF SaveFails, page, server
<1>12. ASSUME NEW c \in Call, ServeLoad(c) PROVE Goal
  <2>1. /\ call[c] # NoCall /\ Reply(c, stored[call[c].q], "done")
        /\ UNCHANGED <<shown, selected, silent, stored>>
    BY <1>12 DEF ServeLoad, NoCall, page, saves, server
  <2>2. call[c].q \in Question
    BY <1>0, <2>1, CallTyped
  <2>3. Proper(call[c].q, stored[call[c].q]) /\ OfOne(stored[call[c].q])
    BY <1>0, <2>2 DEF StoredIsAnAnswer, OfOne
  <2> QED BY <1>0, <1>s, <2>1, <2>3, ReplyCarried
<1>13. ASSUME NEW c \in Call, ServeSubmit(c) PROVE Goal
  <2>1. /\ call[c] # NoCall /\ call[c].kind = "submit"
        /\ Reply(c, call[c].options, IF Accepts(call[c].q, call[c].options) THEN "done" ELSE "failed")
        /\ StoreAnswer(call[c].q, call[c].options)
        /\ UNCHANGED <<shown, selected, silent>>
    BY <1>13 DEF ServeSubmit, NoCall, page, saves
  <2>2. call[c].q \in Question /\ OfOne(call[c].options)
    BY <1>0, <2>1, CallTyped DEF Carried
  <2>3. StoredIsAnAnswer'
    BY <1>0, <2>1, <2>2, StoredProperly
  <2> QED BY <1>0, <2>1, <2>2, <2>3, ReplyCarried
<1>14. ASSUME NEW c \in Call, CallFails(c) PROVE Goal
  <2>1. /\ call[c] # NoCall /\ Reply(c, call[c].options, "failed")
        /\ UNCHANGED <<shown, selected, silent, stored>>
    BY <1>14 DEF CallFails, NoCall, page, saves, server
  <2>2. OfOne(call[c].options) /\ (call[c].kind = "load" => Proper(call[c].q, call[c].options))
    BY <1>0, <2>1 DEF Carried, Loaded
  <2> QED BY <1>0, <1>s, <2>1, <2>2, ReplyCarried
<1>15. ASSUME Hide \/ Leave \/ ThankYou \/ ServeLeave \/ LeaveFails \/ UNCHANGED vars PROVE Goal
  <2>1. UNCHANGED <<shown, selected, silent, call, stored>>
    BY <1>15 DEF Hide, Leave, ThankYou, ServeLeave, LeaveFails, vars, page, saves, server
  <2> QED BY <2>1, AnswerFrame
<1> QED
  BY <1>1, <1>2, <1>3, <1>4, <1>5, <1>6, <1>7, <1>8, <1>9, <1>10, <1>11, <1>12, <1>13, <1>14,
     <1>15 DEF Next, User, Browser, Serving, Network

\* Whatever the page shows when a save reads its inputs, only options of the
\* question, and one at most of a single choice, are stored for it.
THEOREM StoredCorrect == Spec => []StoredIsAnAnswer
<1>1. Init => AnswerInv
  <2> SUFFICES ASSUME Init PROVE StoredIsAnAnswer /\ Carried /\ Loaded
    BY InitTyped DEF AnswerInv
  <2>1. StoredIsAnAnswer
    BY DEF Init, StoredIsAnAnswer, Proper
  <2>2. Carried
    BY DEF Init, Carried
  <2>3. Loaded
    BY DEF Init, Loaded, NoCall
  <2> QED BY <2>1, <2>2, <2>3
<1>2. AnswerInv => StoredIsAnAnswer
  BY DEF AnswerInv
<1> QED BY <1>1, <1>2, AnswerStep, PTL DEF Spec
=============================================================================
