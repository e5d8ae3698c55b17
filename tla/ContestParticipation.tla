------------------------ MODULE ContestParticipation ------------------------
(***************************************************************************)
(* The LIVE participation of one user in one running contest:             *)
(* src/judge/models/contest.py (ContestParticipation), the views that     *)
(* enter, leave and answer (src/judge/views/contests.py,                  *)
(* src/hpe_admin/views.py, src/judge/views/problem.py), the bridge, which *)
(* recomputes the participation when a submission has been graded         *)
(* (src/judge/models/submission.py), and the disqualification by an       *)
(* editor.                                                                *)
(*                                                                         *)
(* Every thread works on the copy of the row it has loaded, and           *)
(* recompute_results writes every column of that copy back.  A step is a  *)
(* query (or a transaction) of one request, so requests interleave between *)
(* their queries.  The contest does not end during a behaviour, and the    *)
(* user may enter it.                                                     *)
(***************************************************************************)
EXTENDS Integers

CONSTANTS Threads,      \* web workers and handler threads of the bridge
          Problems,     \* the coding problems of the contest
          Questions,    \* its multiple choice questions
          MaxPoints,    \* what a problem or a question is worth at most
          Selections,   \* what the randomization may draw; {}: not randomized
          NoSelection,  \* format_data without selected_problems, selected_mcqs
          NoRow,        \* the participation does not exist
          RejoinDebug   \* get_contest_rejoin_debug()

Items == Problems \cup Questions

\* ContestSubmission.points of the latest submission of a problem, or
\* ContestMCQSubmission.points of a question.  Absent: there is no such row;
\* Ungraded: there is one, and its points are still the default.
Absent == -2
Ungraded == -1
Points == 0..MaxPoints

\* The score of a participation is represented by the points it adds up.
Zero == [i \in Items |-> 0]
Last == [i \in Items |-> -9999]

\* What the users, the editors and the bridge ask for.
Entering == {"join", "hpe_join"}
Leaving == {"leave", "hpe_leave"}
Requests == Entering \cup Leaving \cup
    {"answer", "submit", "hpe_submit", "grade", "delete", "recompute", "disqualify"}

VARIABLES
    row,      \* the participation: exited, disqualified, score and selection
    points,   \* the points stored for each problem and question
    banned,   \* the user is among contest.banned_users
    current,  \* profile.current_contest is this participation
    th,       \* what each thread is doing: see Idle
    \* The history, which no query reads:
    exitedSince,   \* the threads at work since before has_exited was set
    flippedSince,  \* those during whose request another one changed is_disqualified
    torn           \* the last to write the column or the ban was such a thread

history == <<exitedSince, flippedSince, torn>>
vars == <<row, points, banned, current, th, history>>

NewRow == [exited |-> FALSE, disqualified |-> FALSE, score |-> Zero, selection |-> NoSelection]

Rows == [exited : BOOLEAN, disqualified : BOOLEAN,
         score : [Items -> Points] \cup {Last}, selection : Selections \cup {NoSelection}]

ASSUME ConstantsAssumption ==
    /\ MaxPoints \in Nat
    /\ Items # {}
    /\ Problems \cap Questions = {}
    /\ NoRow \notin Rows
    /\ NoSelection \notin Selections
    /\ RejoinDebug \in BOOLEAN

\* A thread: its request, the query it is about to make, the participation
\* object it works on, whether the profile object it works on is in the contest,
\* and the problem or question the request is about.
Idle == [request |-> "none", step |-> "none", copy |-> NoRow, inside |-> FALSE, items |-> {}]

Busy == {t \in Threads : th[t].request # "none"}

\* The object that is loaded to be recomputed: its score and its format_data are
\* made anew before it is saved.  Of the object that a join loads only the
\* selection is looked at.
Loaded == [NewRow EXCEPT !.exited = row.exited, !.disqualified = row.disqualified]
LoadedToJoin == [NewRow EXCEPT !.selection = row.selection]

\* The thread makes another query next, or its request is over.
Goto(t, step) == th' = [th EXCEPT ![t].step = step]
GotoWith(t, step, copy) == th' = [th EXCEPT ![t].step = step, ![t].copy = copy]
Return(t) == th' = [th EXCEPT ![t] = Idle]

Init ==
    /\ row = NoRow
    /\ points = [i \in Items |-> Absent]
    /\ banned = FALSE
    /\ current = FALSE
    /\ th = [t \in Threads |-> Idle]
    /\ exitedSince = {}
    /\ flippedSince = {}
    /\ torn = FALSE

-----------------------------------------------------------------------------
(* A request starts.  The middleware reads profile.current_contest first.   *)

FirstStep(request) ==
    CASE request \in Entering -> "check banned"
      [] request = "leave" -> "exit"
      [] request \in {"hpe_leave", "recompute", "disqualify"} -> "load"
      [] request \in {"answer", "hpe_submit"} -> "get or create"
      [] request = "submit" -> "heal"
      [] request = "grade" -> "grade"
      [] request = "delete" -> "delete"

\* What a request is about: the answered question, the submitted problem, or
\* the problem of the submission that has been graded or deleted.
Subjects(request) ==
    CASE request = "answer" -> {{q} : q \in Questions}
      [] request \in {"submit", "hpe_submit"} -> {{p} : p \in Problems}
      [] request \in {"grade", "delete"} -> {{p} : p \in {q \in Problems : points[q] # Absent}}
      [] OTHER -> {{}}

\* The requests that decide on the profile the middleware has loaded.
LookInside == Leaving \cup {"answer", "submit"}

\* Leaving returns at once when the user is not in the contest.  Results are
\* recomputed, and a user disqualified, for a participation that exists.
Start(t, request) ==
    /\ t \notin Busy
    /\ request = "leave" => current
    /\ request \in {"hpe_leave", "grade", "delete", "recompute", "disqualify"} => row # NoRow
    /\ \E items \in Subjects(request) :
          th' = [th EXCEPT ![t] = [request |-> request, step |-> FirstStep(request),
                                   copy |-> NoRow, items |-> items,
                                   inside |-> current /\ request \in LookInside]]
    /\ UNCHANGED <<row, points, banned, current>>

-----------------------------------------------------------------------------
(* Entering.                                                                *)

CheckBanned(t) ==
    /\ th[t].step = "check banned"
    /\ IF banned THEN Return(t) ELSE Goto(t, "check exited")
    /\ UNCHANGED <<row, points, banned, current>>

\* Has the user exited, in the eyes of the views that let a user enter?
Refused == ~RejoinDebug /\ row # NoRow /\ row.exited

CheckExited(t) ==
    /\ th[t].step = "check exited"
    /\ IF Refused THEN Return(t) ELSE Goto(t, "get")
    /\ UNCHANGED <<row, points, banned, current>>

Get(t) ==
    /\ th[t].step = "get"
    /\ IF row = NoRow THEN Goto(t, "create")
       ELSE GotoWith(t, IF th[t].request = "hpe_join" THEN "reset" ELSE "draw", LoadedToJoin)
    /\ UNCHANGED <<row, points, banned, current>>

\* Another request may have created it since: the unique constraint raises.
Create(t) ==
    /\ th[t].step = "create"
    /\ IF row = NoRow THEN row' = NewRow /\ GotoWith(t, "draw", NewRow)
       ELSE UNCHANGED row /\ Return(t)
    /\ UNCHANGED <<points, banned, current>>

\* save(update_fields=['real_start', 'has_exited'])
Reset(t) ==
    /\ th[t].step = "reset"
    /\ row' = [row EXCEPT !.exited = FALSE]
    /\ Goto(t, "clear")
    /\ UNCHANGED <<points, banned, current>>

\* The answers given before are deleted.
Clear(t) ==
    /\ th[t].step = "clear"
    /\ points' = [i \in Items |-> IF i \in Questions THEN Absent ELSE points[i]]
    /\ Goto(t, "draw")
    /\ UNCHANGED <<row, banned, current>>

\* _handle_contest_randomization: format_data is written, nothing else.
Draw(t) ==
    /\ th[t].step = "draw"
    /\ IF Selections = {} \/ th[t].copy.selection # NoSelection
       THEN UNCHANGED row
       ELSE \E drawn \in Selections : row' = [row EXCEPT !.selection = drawn]
    /\ GotoWith(t, "enter", NoRow)
    /\ UNCHANGED <<points, banned, current>>

Enter(t) ==
    /\ th[t].step = "enter"
    /\ current' = TRUE
    /\ Return(t)
    /\ UNCHANGED <<row, points, banned>>

-----------------------------------------------------------------------------
(* Answering and submitting.                                                *)

\* get_or_create: the row that exists is taken.
GetOrCreate(t) ==
    /\ th[t].step = "get or create"
    /\ row' = IF row = NoRow THEN NewRow ELSE row
    /\ Goto(t, IF th[t].request = "answer" THEN "heal" ELSE "submit")
    /\ UNCHANGED <<points, banned, current>>

\* The "auto-heal" puts a user without a current contest back into this one.
\* HPEMCQSubmitView looks at nothing else, ProblemSubmit at has_exited.
Heals(t) ==
    /\ ~th[t].inside
    /\ row # NoRow
    /\ th[t].request = "submit" => ~row.exited

\* Has a classic submission the participation to count for?
Heal(t) ==
    /\ th[t].step = "heal"
    /\ current' = (current \/ Heals(t))
    /\ IF th[t].request = "answer" THEN Goto(t, "answer")
       ELSE IF th[t].inside \/ Heals(t) THEN Goto(t, "submit")
       ELSE Return(t)
    /\ UNCHANGED <<row, points, banned>>

Store(t, n) == points' = [i \in Items |-> IF i \in th[t].items THEN n ELSE points[i]]

\* update_or_create of the ContestMCQSubmission; nothing is recomputed.
Answer(t) ==
    /\ th[t].step = "answer"
    /\ \E n \in {0, MaxPoints} : Store(t, n)
    /\ Return(t)
    /\ UNCHANGED <<row, banned, current>>

\* The new ContestSubmission is the latest of its problem.
Submit(t) ==
    /\ th[t].step = "submit"
    /\ Store(t, Ungraded)
    /\ Return(t)
    /\ UNCHANGED <<row, banned, current>>

\* A variant for checking the properties: nothing is recomputed.
GradeOnly(t) ==
    /\ th[t].step = "grade"
    /\ (\E n \in Points : Store(t, n)) \/ UNCHANGED points
    /\ Return(t)
    /\ UNCHANGED <<row, banned, current>>

\* Submission.update_contest stores the points of the submission that was
\* graded: the latest one of its problem, or an older one that does not count.
Grade(t) ==
    /\ th[t].step = "grade"
    /\ (\E n \in Points : Store(t, n)) \/ UNCHANGED points
    /\ Goto(t, "load")
    /\ UNCHANGED <<row, banned, current>>

\* A submission is deleted: the one before it, if any, is now the latest.
Delete(t) ==
    /\ th[t].step = "delete"
    /\ \E n \in {Absent, Ungraded} \cup Points : Store(t, n)
    /\ Goto(t, "load")
    /\ UNCHANGED <<row, banned, current>>

-----------------------------------------------------------------------------
(* Results, disqualification, leaving.                                      *)

\* set_disqualified flips the column of the object only.
Load(t) ==
    /\ th[t].step = "load"
    /\ GotoWith(t, IF th[t].request = "hpe_leave" THEN "exit" ELSE "recompute",
                IF th[t].request = "disqualify"
                THEN [Loaded EXCEPT !.disqualified = ~row.disqualified] ELSE Loaded)
    /\ UNCHANGED <<row, points, banned, current>>

\* A variant: has_exited is set in the database and not on the object.
ExitRowOnly(t) ==
    /\ th[t].step = "exit"
    /\ row' = [row EXCEPT !.exited = TRUE]
    /\ Goto(t, IF th[t].request = "leave" THEN "remove" ELSE "recompute")
    /\ UNCHANGED <<points, banned, current>>

\* save(update_fields=['has_exited'])
Exit(t) ==
    /\ th[t].step = "exit"
    /\ row' = [row EXCEPT !.exited = TRUE]
    /\ IF th[t].request = "leave" THEN Goto(t, "remove")
       ELSE GotoWith(t, "recompute", [th[t].copy EXCEPT !.exited = TRUE])
    /\ UNCHANGED <<points, banned, current>>

\* A variant: a missing submission or missing points are not counted as 0.
CountedRaw == points

\* format.update_participation: what is stored now.
Counted == [i \in Items |-> IF points[i] < 0 THEN 0 ELSE points[i]]

\* A variant: the override looks at the row instead of the object.
RecomputedByRow(copy) ==
    [exited |-> copy.exited,
     disqualified |-> copy.disqualified,
     score |-> IF row.disqualified THEN Last ELSE Counted,
     selection |-> NoSelection]

\* participation.save() writes every column of the object, format_data without
\* a selection; the score of a disqualified one is written after it in the same
\* transaction.
Recomputed(copy) ==
    [exited |-> copy.exited,
     disqualified |-> copy.disqualified,
     score |-> IF copy.disqualified THEN Last ELSE Counted,
     selection |-> NoSelection]

Recompute(t) ==
    /\ th[t].step = "recompute"
    /\ row' = Recomputed(th[t].copy)
    /\ CASE th[t].request = "hpe_leave" -> GotoWith(t, "remove", NoRow)
         [] th[t].request = "disqualify" -> Goto(t, "remove")
         [] OTHER -> Return(t)
    /\ UNCHANGED <<points, banned, current>>

\* remove_contest: the leaving views decide on the profile they have loaded, a
\* disqualification on the one it loads now.
Removes(t) ==
    IF th[t].request = "disqualify" THEN th[t].copy.disqualified ELSE th[t].inside

Remove(t) ==
    /\ th[t].step = "remove"
    /\ current' = (current /\ ~Removes(t))
    /\ IF th[t].request = "disqualify" THEN Goto(t, "ban") ELSE Return(t)
    /\ UNCHANGED <<row, points, banned>>

\* A variant: the user stays banned when the disqualification is lifted.
BanOnly(t) ==
    /\ th[t].step = "ban"
    /\ banned' = (banned \/ th[t].copy.disqualified)
    /\ Return(t)
    /\ UNCHANGED <<row, points, current>>

\* contest.banned_users follows the column.
Ban(t) ==
    /\ th[t].step = "ban"
    /\ banned' = th[t].copy.disqualified
    /\ Return(t)
    /\ UNCHANGED <<row, points, current>>

-----------------------------------------------------------------------------
Query(t) ==
    \/ CheckBanned(t) \/ CheckExited(t) \/ Get(t) \/ Create(t) \/ Reset(t) \/ Clear(t)
    \/ Draw(t) \/ Enter(t)
    \/ GetOrCreate(t) \/ Heal(t) \/ Answer(t) \/ Submit(t) \/ Grade(t) \/ Delete(t)
    \/ Load(t) \/ Recompute(t) \/ Exit(t) \/ Remove(t) \/ Ban(t)

Exited == row # NoRow /\ row.exited
Disqualified == row # NoRow /\ row.disqualified

\* is_disqualified changes.
Flips == ~(Disqualified <=> Disqualified')

\* Which requests have been overtaken by an exit or by a disqualification.
Remember(t) ==
    /\ exitedSince' = (IF ~Exited /\ Exited' THEN Busy \ {t} ELSE exitedSince) \cap Busy'
    /\ flippedSince' =
          (IF Flips THEN flippedSince \cup (Busy \ {t}) ELSE flippedSince)
             \cap Busy'
    /\ torn' = IF Flips \/ th[t].step = "ban" THEN t \in flippedSince ELSE torn

Next ==
    \E t \in Threads :
        /\ Query(t) \/ \E request \in Requests : Start(t, request)
        /\ Remember(t)

Spec == Init /\ [][Next]_vars

-----------------------------------------------------------------------------
(* Properties.                                                              *)

StepNames ==
    {"check banned", "check exited", "get", "create", "reset", "clear", "draw", "enter",
     "get or create", "heal", "answer", "submit", "grade", "delete",
     "load", "exit", "recompute", "remove", "ban"}

ThreadStates ==
    [request : Requests \cup {"none"}, step : StepNames \cup {"none"},
     copy : Rows \cup {NoRow}, inside : BOOLEAN, items : SUBSET Items]

ColumnsOK ==
    /\ row \in Rows \cup {NoRow}
    /\ points \in [Items -> Points \cup {Absent, Ungraded}]
    /\ banned \in BOOLEAN
    /\ current \in BOOLEAN
    /\ th \in [Threads -> ThreadStates]

HistoryOK ==
    /\ exitedSince \in SUBSET Threads
    /\ flippedSince \in SUBSET Threads
    /\ torn \in BOOLEAN

\* The type invariant: what the columns may hold, what the threads hold, and
\* which of them the history remembers.
TypeOK == ColumnsOK /\ HistoryOK

\* ContestParticipation.recompute_results: whatever stale copies the threads
\* write back, a participation has the score -9999 exactly while its column
\* is_disqualified is set; the ranking never shows one without the other.
DisqualifiedScoresLast == row # NoRow => (row.disqualified <=> row.score = Last)

\* Submission.update_contest and submission_delete: once no grading or deletion
\* of a submission to the problem is under way, the score counts what is stored
\* for the problem, however the recomputations of several threads interleaved.
Unsettled(p) == \E t \in Threads : th[t].request \in {"grade", "delete"} /\ p \in th[t].items

ScoreAddsUp ==
    row # NoRow /\ ~row.disqualified =>
        \A p \in Problems :
            points[p] # Ungraded /\ ~Unsettled(p) => row.score[p] = Counted[p]

\* "Whether this user has exited the contest and cannot rejoin": has_exited,
\* once set, is unset (outside the debug mode) by no join and no recomputation,
\* unless it is one that was already under way when has_exited was set.
ExitStays ==
    [][Exited /\ ~Exited' => \E t \in exitedSince : th'[t] # th[t]]_vars

\* set_disqualified writes the row and the list of banned users one after the
\* other, and other requests write the row in between.  When no disqualification
\* is under way the two agree, unless a request wrote one of them after another
\* request, which overlapped it, had changed the column.
Disqualifying == \E t \in Threads : th[t].request = "disqualify"

BannedAsDisqualified == ~Disqualifying /\ ~torn => (banned <=> Disqualified)

\* A user who has exited and left stays out: no request makes the participation
\* the current contest again.
ExitedStaysOut == [][Exited /\ ~current => ~current']_vars
=============================================================================
