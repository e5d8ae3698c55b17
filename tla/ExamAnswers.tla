----------------------------- MODULE ExamAnswers -----------------------------
(***************************************************************************)
(* The multiple choice questions of the exam page and how their answers   *)
(* reach the server: loadMCQ, submitMCQ, the debounced saves, the          *)
(* dashboard and "Submit Test" in                                          *)
(* src/templates/hpe_admin/contest_landing.html, and the views they call   *)
(* in src/hpe_admin/views.py.                                              *)
(*                                                                         *)
(* The page holds ONE set of answer inputs, those of the question it has   *)
(* rendered last; a save reads whatever is checked there.  A step is one   *)
(* callback of the browser (up to its next await) or one request handled   *)
(* by the server, so that answers to requests come in any order.           *)
(***************************************************************************)
EXTENDS Integers, FiniteSets

CONSTANTS N,            \* the questions are 1..N, in the order of the side bar
          Choice,       \* what each question lets the user choose from
          Multiple,     \* the questions of type MULTIPLE
          Call,         \* requests of loadMCQ and submitMCQ outstanding at once
          MaxActions,   \* bound: how often the user clicks, "Submit Test" apart
          MaxFailures   \* bound: how many requests fail

ASSUME ConstantsAssumption ==
    /\ N \in Nat \ {0}
    /\ Multiple \subseteq 1..N
    /\ MaxActions \in Nat
    /\ MaxFailures \in Nat

Question == 1..N
None == 0

OptionsOf(q) == {q} \X Choice
Option == Question \X Choice

\* A request of loadMCQ or submitMCQ: not yet handled by the server, or
\* answered (with the saved selection, or with the fate of the answer).
NoCall == [kind |-> "none", q |-> None, options |-> {}, stage |-> "none"]
Calls == {NoCall} \cup
    [kind : {"load", "submit"}, q : Question, options : SUBSET Option, stage : {"sent", "done", "failed"}]

\* A request of saveMCQSilently.
Saves == [options : SUBSET Option, stage : {"sent", "answered"}]

VARIABLES
    shown,     \* the question whose inputs are in the page
    selected,  \* the inputs that are checked
    current,   \* mcqView.dataset.currentMcqId
    index,     \* currentQuestionIndex
    active,    \* the question view is in front of the dashboard
    hiding,    \* calls of showDashboard: the question whose save each awaits, or None
    timer,     \* saveTimers: which debounce timers run
    touched,   \* the keys of saveTimers
    known,     \* the keys of saveInProgress
    saving,    \* saveInProgress
    pending,   \* pendingSaves
    silent,    \* the requests of saveMCQSilently under way
    call,      \* the requests of loadMCQ and submitMCQ under way
    awaited,   \* the saves that "Submit Test" awaits
    exam,      \* how far "Submit Test" has come
    stored,    \* ContestMCQSubmission: the options stored for each question
    counted,   \* what was stored when the server handled the leave
    chosen,    \* history: what the user last selected for each question
    due,       \* history: what was selected for each at "Submit Test"
    actions,   \* history: how often the user has clicked
    failures   \* history: how many requests have failed

page == <<shown, selected, current, index, active, hiding>>
saves == <<timer, touched, known, saving, pending, silent, awaited>>
server == <<stored, counted>>
history == <<chosen, due, actions, failures>>
vars == <<page, saves, call, exam, server, history>>

NotCounted == [q \in Question |-> {<<q, "not counted">>}]

Init ==
    /\ shown = None /\ selected = {} /\ current = None /\ index = None
    /\ active = FALSE /\ hiding = {}
    /\ timer = [q \in Question |-> FALSE]
    /\ touched = {} /\ known = {}
    /\ saving = [q \in Question |-> FALSE]
    /\ pending = [q \in Question |-> FALSE]
    /\ silent = [q \in Question |-> {}]
    /\ call = [c \in Call |-> NoCall]
    /\ awaited = {}
    /\ exam = "open"
    /\ stored = [q \in Question |-> {}]
    /\ counted = NotCounted
    /\ chosen = [q \in Question |-> {}]
    /\ due = [q \in Question |-> {}]
    /\ actions = 0 /\ failures = 0

\* The user reaches the page: not while the dialogs of "Submit Test" cover it.
Usable == exam \in {"open", "leaving"}

Clicks ==
    /\ Usable
    /\ actions < MaxActions
    /\ actions' = actions + 1

-----------------------------------------------------------------------------
(* Saving.                                                                  *)

\* Mutant: the test of saveInProgress is missing.
BeginsAnyway(Q) == {q \in Q : selected # {}}

\* The questions of Q for which saveMCQSilently sends a request, and those
\* for which it leaves a note for the request under way.
Begins(Q) == {q \in Q : ~saving[q] /\ selected # {}}
Queues(Q) == {q \in Q : saving[q]}

\* saveMCQSilently for each question of Q, in one callback.
SaveSilently(Q) ==
    /\ known' = known \cup Begins(Q)
    /\ saving' = [q \in Question |-> saving[q] \/ q \in Begins(Q)]
    /\ pending' = [q \in Question |-> pending[q] \/ q \in Queues(Q)]
    /\ silent' = [q \in Question |->
          IF q \in Begins(Q) THEN silent[q] \cup {[options |-> selected, stage |-> "sent"]}
                             ELSE silent[q]]

\* saveMCQImmediately for each question of Q.  The caller awaits the requests
\* that are sent, and only these.
SaveImmediately(Q) ==
    /\ timer' = [q \in Question |-> timer[q] /\ q \notin Q]
    /\ touched' = touched \ Q
    /\ SaveSilently(Q)

\* The user checks or unchecks an input; the debounce timer starts anew.
Choose(o) ==
    /\ Clicks
    /\ active
    /\ shown # None /\ o \in OptionsOf(shown)
    /\ selected' = IF shown \notin Multiple THEN {o}
                   ELSE IF o \in selected THEN selected \ {o}
                   ELSE selected \cup {o}
    /\ selected' # selected
    /\ chosen' = [chosen EXCEPT ![shown] = selected']
    /\ timer' = [timer EXCEPT ![shown] = TRUE]
    /\ touched' = touched \cup {shown}
    /\ UNCHANGED <<shown, current, index, active, hiding, known, saving, pending, silent,
                   awaited, call, exam, server, due, failures>>

\* Two seconds have passed since the last change.
TimerFires(q) ==
    /\ timer[q]
    /\ timer' = [timer EXCEPT ![q] = FALSE]
    /\ SaveSilently({q})
    /\ UNCHANGED <<page, touched, awaited, call, exam, server, history>>

\* Mutant: options are looked up without their question.
AcceptsAny(q, options) == options # {}

\* HPEMCQSubmitView.post: every option must be one of the question.
Accepts(q, options) == options # {} /\ options \subseteq OptionsOf(q)

\* The view makes a new MCQSubmission, adds the options to it one by one, and at
\* last lets the ContestMCQSubmission of the question point to it.  Everybody
\* reads through this pointer, and nobody changes a submission it points to:
\* the answer changes in one step, the last one.
StoreAnswer(q, options) ==
    stored' = IF Accepts(q, options) THEN [stored EXCEPT ![q] = options] ELSE stored

\* A request fails: it does not reach the server, or the server cannot handle it.
Fails == failures < MaxFailures /\ failures' = failures + 1

Answered(q, s) == silent' = [silent EXCEPT ![q] = (@ \ {s}) \cup {[options |-> s.options, stage |-> "answered"]}]

ServeSave(q, s) ==
    /\ s \in silent[q] /\ s.stage = "sent"
    /\ StoreAnswer(q, s.options)
    /\ Answered(q, s)
    /\ UNCHANGED <<page, timer, touched, known, saving, pending, awaited, call, exam, counted, history>>

SaveFails(q, s) ==
    /\ s \in silent[q] /\ s.stage = "sent"
    /\ Fails
    /\ Answered(q, s)
    /\ UNCHANGED <<page, timer, touched, known, saving, pending, awaited, call, exam, server,
                   chosen, due, actions>>

\* Mutant: the finally block clears the note of the queued save only.
SaveEndsForgetting(q, s) ==
    /\ s \in silent[q] /\ s.stage = "answered"
    /\ saving' = [saving EXCEPT ![q] = FALSE]
    /\ pending' = [pending EXCEPT ![q] = FALSE]
    /\ silent' = [silent EXCEPT ![q] = @ \ {s}]
    /\ awaited' = awaited \ {q}
    /\ hiding' = IF q \in hiding THEN (hiding \ {q}) \cup {None} ELSE hiding
    /\ UNCHANGED <<shown, selected, current, index, active, timer, touched, known, call,
                   exam, server, history>>

\* The finally block: a save that was queued is executed now, with what is
\* checked now.
SaveEnds(q, s) ==
    LET again == pending[q] /\ selected # {}
        next == [options |-> selected, stage |-> "sent"]
    IN
    /\ s \in silent[q] /\ s.stage = "answered"
    /\ saving' = [saving EXCEPT ![q] = again]
    /\ pending' = [pending EXCEPT ![q] = FALSE]
    /\ silent' = [silent EXCEPT ![q] = (@ \ {s}) \cup (IF again THEN {next} ELSE {})]
    /\ awaited' = awaited \ {q}
    /\ hiding' = IF q \in hiding THEN (hiding \ {q}) \cup {None} ELSE hiding
    /\ UNCHANGED <<shown, selected, current, index, active, timer, touched, known, call, exam, server, history>>

-----------------------------------------------------------------------------
(* Moving between the questions and the dashboard.                          *)

\* loadMCQ: the spinner replaces the inputs, nothing is saved.
LoadMCQ(c, q) ==
    /\ call' = [call EXCEPT ![c] = [kind |-> "load", q |-> q, options |-> {}, stage |-> "sent"]]
    /\ shown' = None /\ selected' = {}
    /\ index' = q
    /\ active' = TRUE
    /\ UNCHANGED <<current, hiding, saves>>

\* showDashboard: the question named by the view is saved first.
ShowDashboard ==
    /\ IF active /\ current # None
       THEN /\ SaveImmediately({current})
            /\ hiding' = hiding \cup (IF Begins({current}) = {} THEN {None} ELSE {current})
       ELSE /\ hiding' = hiding \cup {None}
            /\ UNCHANGED <<timer, touched, known, saving, pending, silent>>
    /\ UNCHANGED <<awaited, shown, selected, current, index, active>>

\* navigateToNextQuestion, in the callback that ends the call c.
NavigateToNextQuestion(c) ==
    \/ /\ index < N
       /\ LoadMCQ(c, index + 1)
    \/ /\ index = N
       /\ ShowDashboard
       /\ call' = [call EXCEPT ![c] = NoCall]

\* A button of the side bar or of a card of the dashboard.
ClickQuestion(c, q) ==
    /\ Clicks
    /\ call[c] = NoCall
    /\ LoadMCQ(c, q)
    /\ UNCHANGED <<exam, server, chosen, due, failures>>

\* The button of the dashboard, and "Back".
ClickDashboard ==
    /\ Clicks
    /\ ShowDashboard
    /\ UNCHANGED <<call, exam, server, chosen, due, failures>>

Hide ==
    /\ None \in hiding
    /\ hiding' = hiding \ {None}
    /\ active' = FALSE
    /\ UNCHANGED <<shown, selected, current, index, saves, call, exam, server, history>>

\* "Submit & Next" of the question in the page.
ClickSubmit(c) ==
    /\ Clicks
    /\ active
    /\ shown # None
    /\ call[c] = NoCall
    /\ IF selected = {}
       THEN NavigateToNextQuestion(c)
       ELSE /\ call' = [call EXCEPT ![c] =
                  [kind |-> "submit", q |-> shown, options |-> selected, stage |-> "sent"]]
            /\ UNCHANGED <<page, saves>>
    /\ UNCHANGED <<exam, server, chosen, due, failures>>

\* The call c comes back from the server, or from the network.
Reply(c, options, stage) ==
    call' = [call EXCEPT ![c] =
        [kind |-> call[c].kind, q |-> call[c].q, options |-> options, stage |-> stage]]

ServeLoad(c) ==
    /\ call[c].kind = "load" /\ call[c].stage = "sent"
    /\ Reply(c, stored[call[c].q], "done")
    /\ UNCHANGED <<page, saves, exam, server, history>>

ServeSubmit(c) ==
    /\ call[c].kind = "submit" /\ call[c].stage = "sent"
    /\ StoreAnswer(call[c].q, call[c].options)
    /\ Reply(c, call[c].options, IF Accepts(call[c].q, call[c].options) THEN "done" ELSE "failed")
    /\ UNCHANGED <<page, saves, exam, counted, history>>

CallFails(c) ==
    /\ call[c].stage = "sent"
    /\ Fails
    /\ Reply(c, call[c].options, "failed")
    /\ UNCHANGED <<page, saves, exam, server, chosen, due, actions>>

\* The question is rendered with the selection that was stored when the
\* server handled the request, or the message of an error is.
LoadEnds(c) ==
    /\ call[c].kind = "load"
    /\ \/ /\ call[c].stage = "done"
          /\ shown' = call[c].q
          /\ current' = call[c].q
          /\ selected' = call[c].options
       \/ /\ call[c].stage = "failed"
          /\ shown' = None
          /\ selected' = {}
          /\ UNCHANGED current
    /\ call' = [call EXCEPT ![c] = NoCall]
    /\ UNCHANGED <<index, active, hiding, saves, exam, server, history>>

SubmitEnds(c) ==
    /\ call[c].kind = "submit"
    /\ \/ /\ call[c].stage = "done"
          /\ NavigateToNextQuestion(c)
       \/ /\ call[c].stage = "failed"
          /\ call' = [call EXCEPT ![c] = NoCall]
          /\ UNCHANGED <<page, saves>>
    /\ UNCHANGED <<exam, server, history>>

-----------------------------------------------------------------------------
(* Submitting the test, by the user or when the time is up.                 *)

\* saveAllMCQs: all at once, every one with what is checked in the page.
Confirm ==
    /\ exam = "open"
    /\ exam' = "saving"
    /\ SaveImmediately(touched \cup known)
    /\ awaited' = Begins(touched \cup known)
    /\ due' = chosen
    /\ UNCHANGED <<page, call, server, chosen, actions, failures>>

\* The saves are answered; proctoring is stopped and the leave is sent.
Leave ==
    /\ exam = "saving"
    /\ awaited = {}
    /\ exam' = "leaving"
    /\ UNCHANGED <<page, saves, call, server, history>>

\* HPEContestLeaveView.post: the participation is exited and its score computed.
ServeLeave ==
    /\ exam = "leaving"
    /\ exam' = "exited"
    /\ counted' = stored
    /\ UNCHANGED <<page, saves, call, stored, history>>

LeaveFails ==
    /\ exam = "leaving"
    /\ Fails
    /\ exam' = "over"
    /\ UNCHANGED <<page, saves, call, server, chosen, due, actions>>

\* The user is thanked, whether the leave was answered or failed.
ThankYou ==
    /\ exam = "exited"
    /\ exam' = "over"
    /\ UNCHANGED <<page, saves, call, server, history>>

-----------------------------------------------------------------------------
User ==
    \/ \E o \in Option : Choose(o)
    \/ \E c \in Call, q \in Question : ClickQuestion(c, q)
    \/ ClickDashboard
    \/ \E c \in Call : ClickSubmit(c)
    \/ Confirm

Browser ==
    \/ \E q \in Question : TimerFires(q) \/ (\E s \in silent[q] : SaveEnds(q, s))
    \/ \E c \in Call : LoadEnds(c) \/ SubmitEnds(c)
    \/ Hide
    \/ Leave
    \/ ThankYou

Serving ==
    \/ \E q \in Question : \E s \in silent[q] : ServeSave(q, s)
    \/ \E c \in Call : ServeLoad(c) \/ ServeSubmit(c)
    \/ ServeLeave

Network ==
    \/ \E q \in Question : \E s \in silent[q] : SaveFails(q, s)
    \/ \E c \in Call : CallFails(c)
    \/ LeaveFails

Next == User \/ Browser \/ Serving \/ Network

\* Timers fire, requests are handled and their answers come; the user and the
\* failures are not scheduled by anyone.
Fairness ==
    /\ \A q \in Question :
          /\ WF_vars(TimerFires(q))
          /\ WF_vars(\E s \in silent[q] : ServeSave(q, s) \/ SaveEnds(q, s))
    /\ \A c \in Call :
          WF_vars(ServeLoad(c) \/ ServeSubmit(c) \/ LoadEnds(c) \/ SubmitEnds(c))
    /\ WF_vars(Hide) /\ WF_vars(Leave) /\ WF_vars(ServeLeave \/ ThankYou)

Spec == Init /\ [][Next]_vars /\ Fairness

-----------------------------------------------------------------------------
(* Properties.                                                              *)

TypeOK ==
    /\ shown \in Question \cup {None} /\ current \in Question \cup {None}
    /\ index \in Question \cup {None}
    /\ selected \subseteq Option
    /\ active \in BOOLEAN /\ hiding \subseteq Question \cup {None}
    /\ timer \in [Question -> BOOLEAN]
    /\ touched \subseteq Question /\ known \subseteq Question
    /\ saving \in [Question -> BOOLEAN] /\ pending \in [Question -> BOOLEAN]
    /\ silent \in [Question -> SUBSET Saves]
    /\ awaited \subseteq Question
    /\ call \in [Call -> Calls]
    /\ exam \in {"open", "saving", "leaving", "exited", "over"}
    /\ stored \in [Question -> SUBSET Option]
    /\ counted = NotCounted \/ counted \in [Question -> SUBSET Option]
    /\ chosen \in [Question -> SUBSET Option] /\ due \in [Question -> SUBSET Option]
    /\ actions \in 0..MaxActions /\ failures \in 0..MaxFailures

\* At most one silent save of a question is under way, the page knows it, and
\* a save that was queued always has one before it that will execute it
\* (contest_landing.html:3078): saves of a question cannot overtake each other.
OneSaveAtATime ==
    \A q \in Question :
        /\ \A s, t \in silent[q] : s = t
        /\ saving[q] <=> silent[q] # {}
        /\ pending[q] => saving[q]

\* Whatever the page has in its inputs when a timer fires, what is stored for a
\* question are options of this question, and one at most of a single choice
\* (HPEMCQSubmitView.post).
Proper(q, S) ==
    /\ S \subseteq OptionsOf(q)
    /\ q \notin Multiple => \A o, p \in S : o = p
StoredIsAnAnswer == \A q \in Question : Proper(q, stored[q])

\* If no request fails, and the user loads and submits a question only while no
\* other request about it is under way, then, once the user rests, the selection
\* in the page is the one that is stored: what the timers, the queued saves and
\* the saves on leaving the question send may not leave an older one behind.
AskedApart ==
    \A c \in Call : call[c] # NoCall =>
        /\ silent[call[c].q] = {}
        /\ \A d \in Call \ {c} : call[d].q # call[c].q
Saved == shown # None /\ selected # {} => stored[shown] = selected
RestsSaved == [](AskedApart /\ failures = 0) => <>[]Saved

\* "Save all pending MCQ answers before submission" (contest_landing.html:2544):
\* when the server has handled the leave, and no request has failed, the score
\* counts what the user had last selected for each question at "Submit Test".
AllAnswersCounted ==
    counted # NotCounted /\ failures = 0 =>
        \A q \in Question : due[q] # {} => counted[q] = due[q]

=============================================================================
