---------------------- MODULE ContestParticipationProofs ----------------------
(***************************************************************************)
(* Proofs about ContestParticipation, for any threads, problems, questions *)
(* and selections, and any overlap of requests.  First the type invariant  *)
(* and the shape of the threads' local state (Base), from which            *)
(* DisqualifiedScoresLast and ScoreAddsUp follow.  Then what the objects   *)
(* of the threads that began late enough know of the row (ExitKnown and    *)
(* BanKnown), from which ExitStays and BannedAsDisqualified follow.        *)
(***************************************************************************)
EXTENDS ContestParticipation, TLAPS

\* The queries that are only reached once the participation exists, and those
\* at which the thread holds a copy of it.
RowSteps == {"reset", "clear", "draw", "enter", "answer", "submit", "grade", "delete",
             "load", "exit", "recompute", "remove", "ban"}
CopySteps == {"reset", "clear", "draw", "recompute"}

\* The local state of a thread fits where it is.
Fits(t) ==
    /\ th[t].step = "none" <=> th[t].request = "none"
    /\ th[t].step \in RowSteps => row # NoRow
    /\ th[t].inside => row # NoRow
    /\ th[t].step \in CopySteps => th[t].copy \in Rows
    /\ th[t].step = "exit" => th[t].request \in Leaving
    /\ th[t].step = "exit" /\ th[t].request = "hpe_leave" => th[t].copy \in Rows
    /\ th[t].step \in {"remove", "ban"} /\ th[t].request = "disqualify" => th[t].copy \in Rows
    /\ th[t].step = "ban" => th[t].request = "disqualify"
    /\ th[t].request = "answer" => th[t].items \subseteq Questions
    /\ th[t].step = "answer" => th[t].request = "answer"
    /\ th[t].step = "heal" /\ th[t].request = "answer" => row # NoRow
    /\ th[t].request \in {"grade", "delete"} =>
          th[t].step \in {"grade", "delete", "load", "recompute"}
    /\ th[t].step \in {"grade", "delete"} => th[t].request \in {"grade", "delete"}
    /\ th[t].request = "disqualify" => th[t].step \in {"load", "recompute", "remove", "ban"}

Base ==
    /\ ColumnsOK
    /\ \A t \in Threads : Fits(t)
    /\ current => row # NoRow
    /\ row = NoRow => \A p \in Problems : points[p] < 0

-----------------------------------------------------------------------------
(* The data.                                                                *)

LEMMA RowFacts ==
    ASSUME NEW r \in Rows
    PROVE  /\ \A b \in BOOLEAN : [r EXCEPT !.exited = b] \in Rows
           /\ \A b \in BOOLEAN : [r EXCEPT !.disqualified = b] \in Rows
           /\ \A s \in Selections : [r EXCEPT !.selection = s] \in Rows
           /\ r # NoRow
    BY ConstantsAssumption DEF Rows

LEMMA NewRowIsRow == NewRow \in Rows
    BY ConstantsAssumption DEF Rows, NewRow, Zero, Points

LEMMA LoadedIsRow ==
    ASSUME row \in Rows
    PROVE  /\ Loaded \in Rows /\ LoadedToJoin \in Rows
           /\ Loaded.exited = row.exited /\ Loaded.disqualified = row.disqualified
<1> DEFINE r == [NewRow EXCEPT !.exited = row.exited]
<1>1. /\ row.exited \in BOOLEAN /\ row.disqualified \in BOOLEAN
      /\ row.selection \in Selections \cup {NoSelection}
    BY DEF Rows
<1>2. r \in Rows /\ r.exited = row.exited
    BY <1>1, NewRowIsRow DEF Rows
<1>3. Loaded = [r EXCEPT !.disqualified = row.disqualified]
    BY DEF Loaded, NewRow
<1> HIDE DEF r
<1>4. /\ Loaded \in Rows
      /\ Loaded.exited = row.exited /\ Loaded.disqualified = row.disqualified
    BY <1>1, <1>2, <1>3 DEF Rows
<1>5. LoadedToJoin \in Rows
    BY <1>1, NewRowIsRow DEF LoadedToJoin, Rows
<1>6. QED BY <1>4, <1>5

LEMMA RecomputedIsRow ==
    ASSUME ColumnsOK, NEW copy \in Rows
    PROVE  Recomputed(copy) \in Rows
<1>1. Counted \in [Items -> Points]
    BY ConstantsAssumption DEF ColumnsOK, Counted, Points, Absent, Ungraded
<1>2. QED BY <1>1 DEF Recomputed, Rows

LEMMA StoreTyped ==
    ASSUME ColumnsOK, NEW t \in Threads, NEW n \in Points \cup {Absent, Ungraded}, Store(t, n)
    PROVE  points' \in [Items -> Points \cup {Absent, Ungraded}]
    BY DEF ColumnsOK, Store

-----------------------------------------------------------------------------
(* The threads: a query of one thread leaves the others alone.              *)

Others(t) == \A u \in Threads \ {t} : th'[u] = th[u]

\* The thread goes on at step s with the copy c, or it is done.
Moved(t, s, c) ==
    /\ th' \in [Threads -> ThreadStates]
    /\ Others(t)
    /\ th'[t].step = s /\ th'[t].request = th[t].request
    /\ th'[t].copy = c /\ th'[t].items = th[t].items /\ th'[t].inside = th[t].inside

Done(t) ==
    /\ th' \in [Threads -> ThreadStates]
    /\ Others(t)
    /\ th'[t] = Idle

LEMMA GotoMoves ==
    ASSUME ColumnsOK, NEW t \in Threads, NEW s \in StepNames, Goto(t, s)
    PROVE  Moved(t, s, th[t].copy)
    BY DEF ColumnsOK, ThreadStates, Goto, Others, Moved

LEMMA GotoWithMoves ==
    ASSUME ColumnsOK, NEW t \in Threads, NEW s \in StepNames, NEW c \in Rows \cup {NoRow},
           GotoWith(t, s, c)
    PROVE  Moved(t, s, c)
    BY DEF ColumnsOK, ThreadStates, GotoWith, Others, Moved

LEMMA ReturnMoves ==
    ASSUME ColumnsOK, NEW t \in Threads, Return(t)
    PROVE  Done(t)
    BY DEF ColumnsOK, ThreadStates, Return, Others, Idle, Done

\* An idle thread fits, and a thread that does nothing keeps fitting as long as
\* the participation is there.
LEMMA IdleFits ==
    ASSUME NEW t \in Threads, th'[t] = Idle
    PROVE  Fits(t)'
    BY DEF Fits, Idle, RowSteps, CopySteps, Leaving

LEMMA OthersFit ==
    ASSUME NEW t \in Threads, \A u \in Threads : Fits(u), Others(t), Fits(t)',
           row # NoRow => row' # NoRow
    PROVE  \A u \in Threads : Fits(u)'
<1>1. ASSUME NEW u \in Threads, u # t PROVE Fits(u)'
    BY <1>1, th'[u] = th[u] DEF Others, Fits
<1>2. QED BY <1>1

-----------------------------------------------------------------------------
(* Every query keeps Base.                                                  *)

\* What it does to the data: types are kept, and the participation stays.
DataOK ==
    /\ row' \in Rows \cup {NoRow}
    /\ points' \in [Items -> Points \cup {Absent, Ungraded}]
    /\ banned' \in BOOLEAN
    /\ current' \in BOOLEAN
    /\ row # NoRow => row' # NoRow
    /\ current' => row' # NoRow
    /\ row' = NoRow => \A p \in Problems : points'[p] < 0

LEMMA BaseSuffices ==
    ASSUME Base, NEW t \in Threads, DataOK,
           th' \in [Threads -> ThreadStates], Others(t), Fits(t)'
    PROVE  Base'
<1>1. \A u \in Threads : Fits(u)'
    BY OthersFit DEF Base, DataOK
<1>2. QED BY <1>1 DEF Base, DataOK, ColumnsOK

LEMMA DoneSuffices ==
    ASSUME Base, NEW t \in Threads, DataOK, Done(t)
    PROVE  Base'
    BY BaseSuffices, IdleFits DEF Done

LEMMA MovedSuffices ==
    ASSUME Base, NEW t \in Threads, DataOK, NEW s \in StepNames, NEW c, Moved(t, s, c),
           s \in RowSteps => row' # NoRow,
           s \in CopySteps => c \in Rows,
           s = "exit" => th[t].request \in Leaving /\ c \in Rows,
           s \in {"remove", "ban"} /\ th[t].request = "disqualify" => c \in Rows,
           s = "ban" => th[t].request = "disqualify",
           th[t].request # "none",
           s = "answer" => th[t].request = "answer",
           s = "heal" /\ th[t].request = "answer" => row' # NoRow,
           th[t].request \in {"grade", "delete"} => s \in {"load", "recompute"},
           s \notin {"grade", "delete"},
           th[t].request = "disqualify" => s \in {"recompute", "remove", "ban"}
    PROVE  Base'
<1>1. Fits(t)
    BY DEF Base
<1>2. row # NoRow => row' # NoRow
    BY DEF DataOK
<1>3. Fits(t)'
    BY <1>1, <1>2 DEF Fits, Moved, StepNames
<1>4. QED BY <1>3, BaseSuffices DEF Moved


\* A query that leaves the data alone keeps what Base says of it.
LEMMA SameData ==
    ASSUME Base, UNCHANGED <<row, points, banned, current>>
    PROVE  DataOK
    BY DEF Base, ColumnsOK, DataOK

LEMMA EnteringKeepsBase ==
    ASSUME Base, NEW t \in Threads,
           \/ CheckBanned(t) \/ CheckExited(t) \/ Get(t) \/ Create(t) \/ Reset(t) \/ Clear(t)
           \/ Draw(t) \/ Enter(t)
    PROVE  Base'
<1>0. ColumnsOK /\ Fits(t)
    BY DEF Base
<1>1. CASE CheckBanned(t)
  <2>1. DataOK
      BY <1>1, SameData DEF CheckBanned
  <2>2. CASE Return(t)
      BY <1>0, <2>1, <2>2, ReturnMoves, DoneSuffices
  <2>3. CASE Goto(t, "check exited")
    <3>1. Moved(t, "check exited", th[t].copy)
        BY <1>0, <2>3, GotoMoves DEF StepNames
    <3>2. QED BY <1>0, <1>1, <2>1, <3>1, MovedSuffices DEF CheckBanned, Fits, StepNames, RowSteps, CopySteps
  <2>4. QED BY <1>1, <2>2, <2>3 DEF CheckBanned
<1>2. CASE CheckExited(t)
  <2>1. DataOK
      BY <1>2, SameData DEF CheckExited
  <2>2. CASE Return(t)
      BY <1>0, <2>1, <2>2, ReturnMoves, DoneSuffices
  <2>3. CASE Goto(t, "get")
    <3>1. Moved(t, "get", th[t].copy)
        BY <1>0, <2>3, GotoMoves DEF StepNames
    <3>2. QED BY <1>0, <1>2, <2>1, <3>1, MovedSuffices DEF CheckExited, Fits, StepNames, RowSteps, CopySteps
  <2>4. QED BY <1>2, <2>2, <2>3 DEF CheckExited
<1>3. CASE Get(t)
  <2>1. DataOK
      BY <1>3, SameData DEF Get
  <2>2. CASE row = NoRow
    <3>1. Moved(t, "create", th[t].copy)
        BY <1>0, <1>3, <2>2, GotoMoves DEF StepNames, Get
    <3>2. QED BY <1>0, <1>3, <2>1, <3>1, MovedSuffices DEF Get, Fits, StepNames, RowSteps, CopySteps
  <2>3. CASE row # NoRow
    <3> DEFINE s == IF th[t].request = "hpe_join" THEN "reset" ELSE "draw"
    <3>1. row \in Rows
        BY <1>0, <2>3 DEF ColumnsOK
    <3>2. Moved(t, s, LoadedToJoin) /\ LoadedToJoin \in Rows
      <4>1. LoadedToJoin \in Rows
          BY <3>1, LoadedIsRow
      <4>2. QED BY <1>0, <1>3, <2>3, <4>1, GotoWithMoves DEF StepNames, Get
    <3>3. row' # NoRow
        BY <2>1, <2>3 DEF DataOK
    <3>4. s \in {"reset", "draw"}
        OBVIOUS
    <3> HIDE DEF s
    <3>5. QED BY <1>0, <1>3, <2>1, <3>1, <3>2, <3>3, <3>4, MovedSuffices DEF Get, Fits, StepNames, RowSteps, CopySteps
  <2>4. QED BY <2>2, <2>3
<1>4. CASE Create(t)
  <2>1. CASE row = NoRow
    <3>1. row' = NewRow /\ NewRow \in Rows
        BY <1>4, <2>1, NewRowIsRow DEF Create
    <3>2. DataOK
        BY <1>0, <1>4, <3>1, ConstantsAssumption DEF Create, DataOK, ColumnsOK
    <3>3. Moved(t, "draw", NewRow)
        BY <1>0, <1>4, <2>1, <3>1, GotoWithMoves DEF StepNames, Create
    <3>4. row' # NoRow
        BY <3>1, ConstantsAssumption
    <3>5. QED BY <1>0, <1>4, <3>1, <3>2, <3>3, <3>4, MovedSuffices DEF Create, Fits, StepNames, RowSteps, CopySteps
  <2>2. CASE row # NoRow
    <3>1. DataOK
        BY <1>4, <2>2, SameData DEF Create
    <3>2. QED BY <1>0, <1>4, <2>2, <3>1, ReturnMoves, DoneSuffices DEF Create
  <2>3. QED BY <2>1, <2>2
<1>5. CASE Reset(t)
  <2>1. row \in Rows /\ th[t].copy \in Rows
      BY <1>0, <1>5 DEF Reset, Fits, RowSteps, CopySteps, ColumnsOK
  <2>2. row' \in Rows /\ row' # NoRow
      BY <1>5, <2>1, RowFacts, ConstantsAssumption DEF Reset
  <2>3. DataOK
      BY <1>0, <1>5, <2>2 DEF Reset, DataOK, ColumnsOK
  <2>4. Moved(t, "clear", th[t].copy)
      BY <1>0, <1>5, GotoMoves DEF StepNames, Reset
  <2>5. QED BY <1>0, <1>5, <2>1, <2>2, <2>3, <2>4, MovedSuffices DEF Reset, Fits, StepNames, RowSteps, CopySteps
<1>6. CASE Clear(t)
  <2>1. row # NoRow /\ th[t].copy \in Rows
      BY <1>0, <1>6 DEF Clear, Fits, RowSteps, CopySteps
  <2>2. points' \in [Items -> Points \cup {Absent, Ungraded}]
      BY <1>0, <1>6 DEF Clear, ColumnsOK
  <2>3. DataOK
      BY <1>0, <1>6, <2>1, <2>2 DEF Clear, DataOK, ColumnsOK
  <2>4. Moved(t, "draw", th[t].copy)
      BY <1>0, <1>6, GotoMoves DEF StepNames, Clear
  <2>5. QED BY <1>0, <1>6, <2>1, <2>3, <2>4, MovedSuffices DEF Clear, Fits, StepNames, RowSteps, CopySteps
<1>7. CASE Draw(t)
  <2>1. row \in Rows /\ th[t].copy \in Rows
      BY <1>0, <1>7 DEF Draw, Fits, RowSteps, CopySteps, ColumnsOK
  <2>2. row' \in Rows /\ row' # NoRow
      BY <1>7, <2>1, RowFacts, ConstantsAssumption DEF Draw
  <2>3. DataOK
      BY <1>0, <1>7, <2>2 DEF Draw, DataOK, ColumnsOK
  <2>4. Moved(t, "enter", NoRow)
      BY <1>0, <1>7, GotoWithMoves DEF StepNames, Draw
  <2>5. QED BY <1>0, <1>7, <2>1, <2>2, <2>3, <2>4, MovedSuffices DEF Draw, Fits, StepNames, RowSteps, CopySteps
<1>8. CASE Enter(t)
  <2>1. row # NoRow
      BY <1>0, <1>8 DEF Enter, Fits, RowSteps
  <2>2. DataOK
      BY <1>0, <1>8, <2>1 DEF Enter, DataOK, ColumnsOK
  <2>3. QED BY <1>0, <1>8, <2>2, ReturnMoves, DoneSuffices DEF Enter
<1>9. QED
    BY <1>1, <1>2, <1>3, <1>4, <1>5, <1>6, <1>7, <1>8

LEMMA AnsweringKeepsBase ==
    ASSUME Base, NEW t \in Threads,
           \/ GetOrCreate(t) \/ Heal(t) \/ Answer(t) \/ Submit(t) \/ Grade(t) \/ Delete(t)
    PROVE  Base'
<1>0. ColumnsOK /\ Fits(t)
    BY DEF Base
<1>1. CASE GetOrCreate(t)
  <2> DEFINE s == IF th[t].request = "answer" THEN "heal" ELSE "submit"
  <2>1. row' \in Rows /\ row' # NoRow
      BY <1>0, <1>1, NewRowIsRow, ConstantsAssumption DEF GetOrCreate, ColumnsOK
  <2>2. DataOK
      BY <1>0, <1>1, <2>1 DEF GetOrCreate, DataOK, ColumnsOK
  <2>3. Moved(t, s, th[t].copy)
      BY <1>0, <1>1, GotoMoves DEF StepNames, GetOrCreate
  <2>4. s \in {"heal", "submit"}
      OBVIOUS
  <2> HIDE DEF s
  <2>5. QED BY <1>0, <1>1, <2>1, <2>2, <2>3, <2>4, MovedSuffices DEF GetOrCreate, Fits, StepNames, RowSteps, CopySteps
<1>2. CASE Heal(t)
  <2>1. th[t].request # "none" /\ (th[t].request = "answer" => row # NoRow)
      BY <1>0, <1>2 DEF Heal, Fits
  <2>2. th[t].request \notin {"grade", "delete", "disqualify"}
      BY <1>0, <1>2 DEF Heal, Fits
  <2>3. Heals(t) => row # NoRow
      BY DEF Heals
  <2>4. DataOK
      BY <1>0, <1>2, <2>3, SMT DEF Heal, DataOK, ColumnsOK, Base
  <2>5. CASE th[t].request = "answer"
    <3>1. Moved(t, "answer", th[t].copy)
        BY <1>0, <1>2, <2>5, GotoMoves DEF StepNames, Heal
    <3>2. row' # NoRow
        BY <1>2, <2>1, <2>5 DEF Heal
    <3>3. QED BY <2>2, <2>4, <2>5, <3>1, <3>2, MovedSuffices DEF StepNames, RowSteps, CopySteps
  <2>6. CASE th[t].request # "answer" /\ (th[t].inside \/ Heals(t))
    <3>1. Moved(t, "submit", th[t].copy)
        BY <1>0, <1>2, <2>6, GotoMoves DEF StepNames, Heal
    <3>2. row' # NoRow
        BY <1>0, <1>2, <2>6, <2>3 DEF Heal, Fits
    <3>3. QED BY <2>1, <2>2, <2>4, <2>6, <3>1, <3>2, MovedSuffices DEF StepNames, RowSteps, CopySteps
  <2>7. CASE th[t].request # "answer" /\ ~(th[t].inside \/ Heals(t))
      BY <1>0, <1>2, <2>4, <2>7, ReturnMoves, DoneSuffices DEF Heal
  <2>8. QED BY <2>5, <2>6, <2>7
<1>3. CASE Answer(t)
  <2>1. row # NoRow
      BY <1>0, <1>3 DEF Answer, Fits, RowSteps
  <2>2. \E n \in Points : Store(t, n)
      BY <1>3, ConstantsAssumption DEF Answer, Points
  <2>3. points' \in [Items -> Points \cup {Absent, Ungraded}]
      BY <1>0, <2>2, StoreTyped
  <2>4. DataOK
      BY <1>0, <1>3, <2>1, <2>3 DEF Answer, DataOK, ColumnsOK
  <2>5. QED BY <1>0, <1>3, <2>4, ReturnMoves, DoneSuffices DEF Answer
<1>4. CASE Submit(t)
  <2>1. row # NoRow
      BY <1>0, <1>4 DEF Submit, Fits, RowSteps
  <2>2. points' \in [Items -> Points \cup {Absent, Ungraded}]
      BY <1>0, <1>4, StoreTyped DEF Submit
  <2>3. DataOK
      BY <1>0, <1>4, <2>1, <2>2 DEF Submit, DataOK, ColumnsOK
  <2>4. QED BY <1>0, <1>4, <2>3, ReturnMoves, DoneSuffices DEF Submit
<1>5. ASSUME Grade(t) \/ Delete(t) PROVE Base'
  <2>1. row # NoRow
      BY <1>0, <1>5 DEF Grade, Delete, Fits, RowSteps
  <2>2. points' \in [Items -> Points \cup {Absent, Ungraded}]
      BY <1>0, <1>5, StoreTyped DEF Grade, Delete, ColumnsOK
  <2>3. UNCHANGED <<row, banned, current>> /\ Goto(t, "load")
      BY <1>5 DEF Grade, Delete
  <2>4. DataOK
      BY <1>0, <2>1, <2>2, <2>3 DEF DataOK, ColumnsOK
  <2>5. Moved(t, "load", th[t].copy)
      BY <1>0, <2>3, GotoMoves DEF StepNames
  <2>6. th[t].request \in {"grade", "delete"}
      BY <1>0, <1>5 DEF Grade, Delete, Fits
  <2>7. QED BY <2>1, <2>3, <2>4, <2>5, <2>6, MovedSuffices DEF StepNames, RowSteps, CopySteps
<1>6. QED
    BY <1>1, <1>2, <1>3, <1>4, <1>5

LEMMA ResultsKeepBase ==
    ASSUME Base, NEW t \in Threads,
           \/ Load(t) \/ Exit(t) \/ Recompute(t) \/ Remove(t) \/ Ban(t)
    PROVE  Base'
<1>0. ColumnsOK /\ Fits(t)
    BY DEF Base
<1>1. CASE Load(t)
  <2> DEFINE s == IF th[t].request = "hpe_leave" THEN "exit" ELSE "recompute"
             c == IF th[t].request = "disqualify"
                  THEN [Loaded EXCEPT !.disqualified = ~row.disqualified] ELSE Loaded
  <2>1. row \in Rows /\ row # NoRow
      BY <1>0, <1>1 DEF Load, Fits, RowSteps, ColumnsOK
  <2>2. c \in Rows
    <3>1. Loaded \in Rows
        BY <2>1, LoadedIsRow
    <3>2. (~row.disqualified) \in BOOLEAN
        OBVIOUS
    <3>3. [Loaded EXCEPT !.disqualified = ~row.disqualified] \in Rows
        BY <3>1, <3>2, RowFacts
    <3>4. QED BY <3>1, <3>3
  <2>3. DataOK
      BY <1>1, SameData DEF Load
  <2>4. GotoWith(t, s, c)
      BY <1>1 DEF Load
  <2>5. s \in {"exit", "recompute"} /\ (s = "exit" => th[t].request = "hpe_leave")
      OBVIOUS
  <2>6. th[t].request # "none" /\ row' # NoRow
      BY <1>0, <1>1, <2>1 DEF Load, Fits
  <2>7. th[t].request \in {"grade", "delete"} => s = "recompute"
      OBVIOUS
  <2> HIDE DEF s, c
  <2>8. Moved(t, s, c)
      BY <1>0, <2>2, <2>4, <2>5, GotoWithMoves DEF StepNames
  <2>9. QED BY <2>2, <2>3, <2>5, <2>6, <2>7, <2>8, MovedSuffices DEF StepNames, RowSteps, CopySteps, Leaving
<1>2. CASE Exit(t)
  <2>1. row \in Rows /\ th[t].request \in Leaving
      BY <1>0, <1>2 DEF Exit, Fits, RowSteps, ColumnsOK
  <2>2. row' \in Rows /\ row' # NoRow
      BY <1>2, <2>1, RowFacts, ConstantsAssumption DEF Exit
  <2>3. DataOK
      BY <1>0, <1>2, <2>2 DEF Exit, DataOK, ColumnsOK
  <2>4. CASE th[t].request = "leave"
    <3>1. Moved(t, "remove", th[t].copy)
        BY <1>0, <1>2, <2>4, GotoMoves DEF StepNames, Exit
    <3>2. QED BY <2>2, <2>3, <2>4, <3>1, MovedSuffices DEF StepNames, RowSteps, CopySteps
  <2>5. CASE th[t].request = "hpe_leave"
    <3> DEFINE c == [th[t].copy EXCEPT !.exited = TRUE]
    <3>1. c \in Rows
        BY <1>0, <1>2, <2>5, RowFacts DEF Exit, Fits
    <3>2. GotoWith(t, "recompute", c)
        BY <1>2, <2>5 DEF Exit
    <3> HIDE DEF c
    <3>3. Moved(t, "recompute", c)
        BY <1>0, <3>1, <3>2, GotoWithMoves DEF StepNames
    <3>4. QED BY <2>2, <2>3, <2>5, <3>1, <3>3, MovedSuffices DEF StepNames, RowSteps, CopySteps
  <2>6. QED BY <2>1, <2>4, <2>5 DEF Leaving
<1>3. CASE Recompute(t)
  <2>1. th[t].copy \in Rows
      BY <1>0, <1>3 DEF Recompute, Fits, CopySteps
  <2>2. row' \in Rows /\ row' # NoRow
      BY <1>0, <1>3, <2>1, RecomputedIsRow, ConstantsAssumption DEF Recompute
  <2>3. DataOK
      BY <1>0, <1>3, <2>2 DEF Recompute, DataOK, ColumnsOK
  <2>4. CASE th[t].request = "disqualify"
    <3>1. Moved(t, "remove", th[t].copy)
        BY <1>0, <1>3, <2>4, GotoMoves DEF StepNames, Recompute
    <3>2. QED BY <2>1, <2>2, <2>3, <2>4, <3>1, MovedSuffices DEF StepNames, RowSteps, CopySteps
  <2>5. CASE th[t].request = "hpe_leave"
    <3>1. Moved(t, "remove", NoRow)
        BY <1>0, <1>3, <2>5, GotoWithMoves DEF StepNames, Recompute
    <3>2. QED BY <2>2, <2>3, <2>5, <3>1, MovedSuffices DEF StepNames, RowSteps, CopySteps
  <2>6. CASE th[t].request \notin {"hpe_leave", "disqualify"}
      BY <1>0, <1>3, <2>3, <2>6, ReturnMoves, DoneSuffices DEF Recompute
  <2>7. QED BY <2>4, <2>5, <2>6
<1>4. CASE Remove(t)
  <2>1. DataOK
      BY <1>0, <1>4 DEF Remove, DataOK, ColumnsOK, Base
  <2>2. CASE th[t].request = "disqualify"
    <3>1. Moved(t, "ban", th[t].copy)
        BY <1>0, <1>4, <2>2, GotoMoves DEF StepNames, Remove
    <3>2. th[t].copy \in Rows /\ row' # NoRow
        BY <1>0, <1>4, <2>2 DEF Remove, Fits, RowSteps
    <3>3. QED BY <2>1, <2>2, <3>1, <3>2, MovedSuffices DEF StepNames, RowSteps, CopySteps
  <2>3. CASE th[t].request # "disqualify"
      BY <1>0, <1>4, <2>1, <2>3, ReturnMoves, DoneSuffices DEF Remove
  <2>4. QED BY <2>2, <2>3
<1>5. CASE Ban(t)
  <2>1. th[t].copy.disqualified \in BOOLEAN
      BY <1>0, <1>5 DEF Ban, Fits, Rows
  <2>2. DataOK
      BY <1>0, <1>5, <2>1 DEF Ban, DataOK, ColumnsOK, Base
  <2>3. QED BY <1>0, <1>5, <2>2, ReturnMoves, DoneSuffices DEF Ban
<1>6. QED
    BY <1>1, <1>2, <1>3, <1>4, <1>5

LEMMA StartKeepsBase ==
    ASSUME Base, NEW t \in Threads, NEW request \in Requests, Start(t, request)
    PROVE  Base'
<1>0. ColumnsOK /\ current \in BOOLEAN
    BY DEF Base, ColumnsOK
<1>1. PICK items \in Subjects(request) :
          th' = [th EXCEPT ![t] = [request |-> request, step |-> FirstStep(request),
                                   copy |-> NoRow, items |-> items,
                                   inside |-> current /\ request \in LookInside]]
    BY DEF Start
<1>2. items \subseteq Items /\ (request = "answer" => items \subseteq Questions)
    BY DEF Subjects, Items, Requests, Entering, Leaving
<1>3. FirstStep(request) \in StepNames
    BY DEF FirstStep, StepNames, Requests, Entering, Leaving
<1>4. /\ th'[t] = [request |-> request, step |-> FirstStep(request),
                   copy |-> NoRow, items |-> items,
                   inside |-> current /\ request \in LookInside]
      /\ Others(t)
    BY <1>0, <1>1 DEF ColumnsOK, Others
<1>5. th' \in [Threads -> ThreadStates]
    BY <1>0, <1>1, <1>2, <1>3 DEF ColumnsOK, ThreadStates
<1>6. DataOK
    BY SameData DEF Start
<1>7. row' = row /\ (current => row # NoRow)
    BY DEF Start, Base
<1>8. request \in {"leave", "hpe_leave", "grade", "delete", "recompute", "disqualify"} => row # NoRow
    BY <1>7 DEF Start
<1>9. Fits(t)'
  <2> DEFINE s == FirstStep(request)
  <2>1. /\ th'[t].request = request /\ th'[t].step = s
        /\ th'[t].items = items
        /\ th'[t].inside = (current /\ request \in LookInside)
      BY <1>4
  <2>2. /\ s \in {"check banned", "exit", "load", "get or create", "heal", "grade", "delete"}
        /\ s = "exit" => request = "leave"
        /\ s = "load" => request \in {"hpe_leave", "recompute", "disqualify"}
        /\ s = "heal" => request = "submit"
        /\ s \in {"grade", "delete"} => s = request
        /\ request \in {"grade", "delete"} => s = request
        /\ request = "disqualify" => s = "load"
      BY DEF FirstStep, Requests, Entering, Leaving
  <2>3. request # "none"
      BY DEF Requests, Entering, Leaving
  <2>4. th'[t].inside => current
      BY <2>1, Zenon
  <2> HIDE DEF s
  <2>5. QED BY <2>4, <1>2, <1>7, <1>8, <2>1, <2>2, <2>3 DEF Fits, RowSteps, CopySteps, Leaving
<1>10. QED BY <1>4, <1>5, <1>6, <1>9, BaseSuffices

LEMMA BaseInit == Init => Base
<1> SUFFICES ASSUME Init PROVE Base
    OBVIOUS
<1>1. ColumnsOK
    BY DEF Init, ColumnsOK, ThreadStates, Idle
<1>2. \A t \in Threads : Fits(t)
    BY DEF Init, Idle, Fits, RowSteps, CopySteps, Leaving
<1>3. \A p \in Problems : points[p] < 0
    BY DEF Init, Items, Absent
<1>4. QED BY <1>1, <1>2, <1>3 DEF Init, Base

LEMMA BaseNext == Base /\ [Next]_vars => Base'
<1> SUFFICES ASSUME Base, [Next]_vars PROVE Base'
    OBVIOUS
<1>1. CASE UNCHANGED vars
    BY <1>1 DEF vars, Base, ColumnsOK, Fits
<1>2. ASSUME NEW t \in Threads, Query(t) PROVE Base'
    BY <1>2, EnteringKeepsBase, AnsweringKeepsBase, ResultsKeepBase DEF Query
<1>3. ASSUME NEW t \in Threads, NEW request \in Requests, Start(t, request) PROVE Base'
    BY <1>3, StartKeepsBase
<1>4. QED BY <1>1, <1>2, <1>3 DEF Next

LEMMA BaseAlways == Spec => []Base
    BY BaseInit, BaseNext, PTL DEF Spec

\* The type invariant: the columns and the threads hold what they may hold,
\* however the requests overlap.
THEOREM TypeCorrect == Spec => []TypeOK
<1>1. Init => HistoryOK
    BY DEF Init, HistoryOK
<1>2. HistoryOK /\ [Next]_vars => HistoryOK'
  <2> SUFFICES ASSUME HistoryOK, [Next]_vars PROVE HistoryOK'
      OBVIOUS
  <2>1. CASE UNCHANGED vars
      BY <2>1 DEF vars, history, HistoryOK
  <2>2. ASSUME NEW t \in Threads, Remember(t) PROVE HistoryOK'
    <3>1. Busy \subseteq Threads /\ Busy' \subseteq Threads
        BY DEF Busy
    <3>2. exitedSince' \in SUBSET Threads
        BY <2>2, <3>1 DEF Remember
    <3>3. flippedSince' \in SUBSET Threads
        BY <2>2, <3>1 DEF Remember
    <3>4. torn' \in BOOLEAN
      <4>1. torn' = IF Flips \/ th[t].step = "ban" THEN t \in flippedSince ELSE torn
          BY <2>2 DEF Remember
      <4>2. torn \in BOOLEAN /\ (t \in flippedSince) \in BOOLEAN
          BY DEF HistoryOK
      <4>3. QED BY <4>1, <4>2, Zenon
    <3>5. QED BY <3>2, <3>3, <3>4 DEF HistoryOK
  <2>3. QED BY <2>1, <2>2 DEF Next
<1>3. Base => ColumnsOK
    BY DEF Base
<1>4. QED BY <1>1, <1>2, <1>3, BaseAlways, PTL DEF Spec, TypeOK

-----------------------------------------------------------------------------
(* What a query may change.                                                 *)

\* Of the threads, only the one that makes it: its request goes on with the
\* same subject, or is over.
LEMMA ThreadChanges ==
    ASSUME ColumnsOK, NEW t \in Threads, Query(t)
    PROVE  /\ Others(t)
           /\ \/ th'[t] = Idle
              \/ th'[t].request = th[t].request /\ th'[t].items = th[t].items
<1>1. ASSUME NEW s, Goto(t, s)
      PROVE Others(t) /\ th'[t].request = th[t].request /\ th'[t].items = th[t].items
    BY <1>1 DEF ColumnsOK, ThreadStates, Goto, Others
<1>2. ASSUME NEW s, NEW c, GotoWith(t, s, c)
      PROVE Others(t) /\ th'[t].request = th[t].request /\ th'[t].items = th[t].items
    BY <1>2 DEF ColumnsOK, ThreadStates, GotoWith, Others
<1>3. ASSUME Return(t) PROVE Others(t) /\ th'[t] = Idle
    BY <1>3 DEF ColumnsOK, ThreadStates, Return, Others
<1>4. \/ \E s : Goto(t, s)
      \/ \E s, c : GotoWith(t, s, c)
      \/ Return(t)
    BY Zenon DEF Query, CheckBanned, CheckExited, Get, Create, Reset, Clear, Draw, Enter, GetOrCreate,
           Heal, Answer, Submit, Grade, Delete, Load, Exit, Recompute, Remove, Ban
<1>5. QED BY <1>1, <1>2, <1>3, <1>4

\* Only Load and Exit lead to a recomputation, only CheckExited and Get to the
\* queries of a user who is being let in.
LEMMA StepAfter ==
    ASSUME ColumnsOK, NEW t \in Threads, Query(t)
    PROVE  /\ th'[t].step = "recompute" => Load(t) \/ Exit(t)
           /\ th'[t].step \in {"get", "create", "reset"} => CheckExited(t) \/ Get(t)
           /\ th'[t].step = "exit" => Load(t)
<1>1. ASSUME NEW s, Goto(t, s) PROVE th'[t].step = s
    BY <1>1 DEF ColumnsOK, ThreadStates, Goto
<1>2. ASSUME NEW s, NEW c, GotoWith(t, s, c) PROVE th'[t].step = s
    BY <1>2 DEF ColumnsOK, ThreadStates, GotoWith
<1>3. Return(t) => th'[t].step = "none"
    BY DEF ColumnsOK, Return, Idle
<1>4. CheckBanned(t) => th'[t].step \in {"check exited", "none"}
    BY <1>1, <1>2, <1>3 DEF CheckBanned
<1>5. CheckExited(t) => th'[t].step \in {"get", "none"}
    BY <1>1, <1>2, <1>3 DEF CheckExited
<1>6. Get(t) => th'[t].step \in {"create", "reset", "draw"}
    BY <1>1, <1>2, <1>3 DEF Get
<1>7. Create(t) => th'[t].step \in {"draw", "none"}
    BY <1>1, <1>2, <1>3 DEF Create
<1>8. Reset(t) => th'[t].step \in {"clear"}
    BY <1>1, <1>2, <1>3 DEF Reset
<1>9. Clear(t) => th'[t].step \in {"draw"}
    BY <1>1, <1>2, <1>3 DEF Clear
<1>10. Draw(t) => th'[t].step \in {"enter"}
    BY <1>1, <1>2, <1>3 DEF Draw
<1>11. Enter(t) => th'[t].step \in {"none"}
    BY <1>1, <1>2, <1>3 DEF Enter
<1>12. GetOrCreate(t) => th'[t].step \in {"heal", "submit"}
    BY <1>1, <1>2, <1>3 DEF GetOrCreate
<1>13. Heal(t) => th'[t].step \in {"answer", "submit", "none"}
    BY <1>1, <1>2, <1>3 DEF Heal
<1>14. Answer(t) => th'[t].step \in {"none"}
    BY <1>1, <1>2, <1>3 DEF Answer
<1>15. Submit(t) => th'[t].step \in {"none"}
    BY <1>1, <1>2, <1>3 DEF Submit
<1>16. Grade(t) => th'[t].step \in {"load"}
    BY <1>1, <1>2, <1>3 DEF Grade
<1>17. Delete(t) => th'[t].step \in {"load"}
    BY <1>1, <1>2, <1>3 DEF Delete
<1>18. Load(t) => th'[t].step \in {"exit", "recompute"}
    BY <1>1, <1>2, <1>3 DEF Load
<1>19. Exit(t) => th'[t].step \in {"remove", "recompute"}
    BY <1>1, <1>2, <1>3 DEF Exit
<1>20. Recompute(t) => th'[t].step \in {"remove", "none"}
    BY <1>1, <1>2, <1>3 DEF Recompute
<1>21. Remove(t) => th'[t].step \in {"ban", "none"}
    BY <1>1, <1>2, <1>3 DEF Remove
<1>22. Ban(t) => th'[t].step \in {"none"}
    BY <1>1, <1>2, <1>3 DEF Ban
<1>23. QED BY <1>4, <1>5, <1>6, <1>7, <1>8, <1>9, <1>10, <1>11, <1>12, <1>13, <1>14, <1>15, <1>16, <1>17, <1>18, <1>19, <1>20, <1>21, <1>22 DEF Query

\* Of the row, nothing, one column, or everything: when it is created and when
\* the results are recomputed.
LEMMA RowChanges ==
    ASSUME Base, NEW t \in Threads, Query(t)
    PROVE  \/ row' = row
           \/ row = NoRow /\ row' = NewRow
           \/ row \in Rows /\ \E b \in BOOLEAN : row' = [row EXCEPT !.exited = b]
           \/ row \in Rows /\ \E s \in Selections : row' = [row EXCEPT !.selection = s]
           \/ Recompute(t) /\ th[t].copy \in Rows
<1>0. Fits(t) /\ ColumnsOK
    BY DEF Base
<1>1. CASE Reset(t) \/ Exit(t) \/ Draw(t)
  <2>1. row \in Rows
      BY <1>0, <1>1 DEF Fits, RowSteps, ColumnsOK, Reset, Exit, Draw
  <2>2. QED BY <1>1, <2>1 DEF Reset, Exit, Draw
<1>2. CASE Recompute(t)
    BY <1>0, <1>2 DEF Recompute, Fits, CopySteps
<1>3. CASE Create(t) \/ GetOrCreate(t)
    BY <1>3 DEF Create, GetOrCreate
<1>4. QED
    BY <1>1, <1>2, <1>3
       DEF Query, CheckBanned, CheckExited, Get, Clear, Enter, Heal, Answer, Submit, Grade,
           Delete, Load, Remove, Ban

-----------------------------------------------------------------------------
(* Disqualification and score.                                              *)

LEMMA LastApart == \A f \in [Items -> Points] : f # Last
    BY ConstantsAssumption DEF Points, Last

LEMMA CountedPoints == ColumnsOK => Counted \in [Items -> Points] /\ Zero \in [Items -> Points]
    BY ConstantsAssumption DEF ColumnsOK, Counted, Zero, Points, Absent, Ungraded

LEMMA ScoresLastNext ==
    ASSUME Base, [Next]_vars, DisqualifiedScoresLast
    PROVE  DisqualifiedScoresLast'
<1>1. CASE row' = row
    BY <1>1 DEF DisqualifiedScoresLast, Last, Items
<1>2. ASSUME NEW t \in Threads, Query(t) PROVE DisqualifiedScoresLast'
  <2>1. CASE row' = NewRow
    <3>1. NewRow.score # Last
        BY LastApart, CountedPoints DEF Base, NewRow
    <3>2. QED BY <2>1, <3>1 DEF DisqualifiedScoresLast, NewRow, Last, Items
  <2>2. CASE row \in Rows /\ \E b \in BOOLEAN : row' = [row EXCEPT !.exited = b]
    <3>1. row # NoRow /\ row'.disqualified = row.disqualified /\ row'.score = row.score
        BY <2>2, ConstantsAssumption DEF Rows
    <3>2. QED BY <3>1 DEF DisqualifiedScoresLast, Last, Items
  <2>3. CASE row \in Rows /\ \E s \in Selections : row' = [row EXCEPT !.selection = s]
    <3>1. row # NoRow /\ row'.disqualified = row.disqualified /\ row'.score = row.score
        BY <2>3, ConstantsAssumption DEF Rows
    <3>2. QED BY <3>1 DEF DisqualifiedScoresLast, Last, Items
  <2>4. CASE Recompute(t) /\ th[t].copy \in Rows
    <3>1. /\ row'.disqualified = th[t].copy.disqualified
          /\ row'.score = IF th[t].copy.disqualified THEN Last ELSE Counted
        BY <2>4 DEF Recompute, Recomputed
    <3>2. Counted # Last
        BY LastApart, CountedPoints DEF Base
    <3>3. th[t].copy.disqualified \in BOOLEAN
        BY <2>4 DEF Rows
    <3>4. QED BY <3>1, <3>2, <3>3 DEF DisqualifiedScoresLast, Last, Items
  <2>5. QED BY <1>1, <1>2, <2>1, <2>2, <2>3, <2>4, RowChanges
<1>3. QED BY <1>1, <1>2 DEF Next, Start, vars

\* recompute_results: the score -9999 and the column is_disqualified go
\* together, whatever copies the threads write back and in whatever order.
THEOREM DisqualifiedLast == Spec => []DisqualifiedScoresLast
<1>1. Init => DisqualifiedScoresLast
    BY DEF Init, DisqualifiedScoresLast
<1>2. QED BY <1>1, BaseAlways, ScoresLastNext, PTL DEF Spec

\* A grading or a deletion is under way until it has recomputed the results.
LEMMA StaysUnsettled ==
    ASSUME Base, NEW t \in Threads, Query(t), ~Recompute(t), NEW p, Unsettled(p)
    PROVE  Unsettled(p)'
<1>0. ColumnsOK /\ Fits(t)
    BY DEF Base
<1>1. PICK u \in Threads : th[u].request \in {"grade", "delete"} /\ p \in th[u].items
    BY DEF Unsettled
<1>2. CASE u # t
    BY <1>0, <1>1, <1>2, ThreadChanges DEF Others, Unsettled
<1>3. CASE u = t
  <2>1. th[t].step \in {"grade", "delete", "load"}
    <3>1. th[t].step \in {"grade", "delete", "load", "recompute"}
        BY <1>0, <1>1, <1>3 DEF Fits
    <3>2. th[t].step = "recompute" => Recompute(t)
        BY DEF Query, CheckBanned, CheckExited, Get, Create, Reset, Clear, Draw, Enter,
               GetOrCreate, Heal, Answer, Submit, Grade, Delete, Load, Exit, Remove, Ban
    <3>3. QED BY <3>1, <3>2
  <2>2. Grade(t) \/ Delete(t) \/ Load(t)
      BY <2>1
         DEF Query, CheckBanned, CheckExited, Get, Create, Reset, Clear, Draw, Enter,
             GetOrCreate, Heal, Answer, Submit, Exit, Recompute, Remove, Ban
  <2>3. th'[t].request = th[t].request /\ th'[t].items = th[t].items
      BY <1>0, <2>2 DEF Grade, Delete, Load, Goto, GotoWith, ColumnsOK, ThreadStates
  <2>4. QED BY <1>1, <1>3, <2>3 DEF Unsettled
<1>4. QED BY <1>2, <1>3

\* Where the stored points of a problem change, the submission waits for its
\* grading, or a grading or deletion is under way.
LEMMA PointsChanges ==
    ASSUME Base, NEW t \in Threads, Query(t), NEW p \in Problems
    PROVE  points'[p] = points[p] \/ points'[p] = Ungraded \/ Unsettled(p)'
<1>0. ColumnsOK /\ Fits(t)
    BY DEF Base
<1>1. p \in Items /\ p \notin Questions
    BY ConstantsAssumption DEF Items
<1>2. CASE Clear(t)
    BY <1>1, <1>2 DEF Clear
<1>3. CASE Answer(t)
  <2>1. p \notin th[t].items
      BY <1>0, <1>1, <1>3 DEF Answer, Fits
  <2>2. QED BY <1>1, <1>3, <2>1 DEF Answer, Store
<1>4. CASE Submit(t)
    BY <1>1, <1>4 DEF Submit, Store
<1>5. CASE Grade(t) \/ Delete(t)
  <2>1. CASE p \notin th[t].items
      BY <1>1, <1>5, <2>1 DEF Grade, Delete, Store
  <2>2. CASE p \in th[t].items
    <3>1. th[t].request \in {"grade", "delete"}
        BY <1>0, <1>5 DEF Grade, Delete, Fits
    <3>2. Unsettled(p)
        BY <2>2, <3>1 DEF Unsettled
    <3>3. ~Recompute(t)
        BY <1>5 DEF Grade, Delete, Recompute
    <3>4. QED BY <3>2, <3>3, StaysUnsettled
  <2>3. QED BY <2>1, <2>2
<1>6. QED
    BY <1>2, <1>3, <1>4, <1>5
       DEF Query, CheckBanned, CheckExited, Get, Create, Reset, Draw, Enter, GetOrCreate, Heal,
           Load, Exit, Recompute, Remove, Ban

LEMMA ScoreAddsUpQuery ==
    ASSUME Base, Base', ScoreAddsUp, NEW t \in Threads, Query(t),
           row' # NoRow, ~row'.disqualified, NEW p \in Problems,
           points'[p] # Ungraded, ~Unsettled(p)'
    PROVE  row'.score[p] = Counted'[p]
<1>1. p \in Items
    BY DEF Items
<1>2. CASE Recompute(t)
    BY <1>2 DEF Recompute, Recomputed, Counted
<1>3. CASE ~Recompute(t)
  <2>1. points'[p] = points[p] /\ ~Unsettled(p)
      BY <1>3, PointsChanges, StaysUnsettled
  <2>2. Counted'[p] = Counted[p]
      BY <1>1, <2>1 DEF Counted
  <2>3. CASE row = NoRow
    <3>1. row' = NewRow
        BY <1>3, <2>3, RowChanges, ConstantsAssumption
    <3>2. points[p] < 0
        BY <2>3 DEF Base
    <3>3. QED BY <1>1, <2>2, <3>1, <3>2 DEF NewRow, Zero, Counted
  <2>4. CASE row # NoRow
    <3>1. row \in Rows
        BY <2>4 DEF Base, ColumnsOK
    <3>2. row'.score = row.score /\ row'.disqualified = row.disqualified
        BY <1>3, <2>4, <3>1, RowChanges, Zenon DEF Rows
    <3>3. QED BY <2>1, <2>2, <2>4, <3>2 DEF ScoreAddsUp
  <2>5. QED BY <2>3, <2>4
<1>4. QED BY <1>2, <1>3

LEMMA ScoreAddsUpStart ==
    ASSUME Base, ScoreAddsUp, NEW t \in Threads, NEW request \in Requests, Start(t, request)
    PROVE  ScoreAddsUp'
<1>1. ASSUME NEW p, Unsettled(p) PROVE Unsettled(p)'
  <2>1. PICK u \in Threads : th[u].request \in {"grade", "delete"} /\ p \in th[u].items
      BY <1>1 DEF Unsettled
  <2>2. u # t
      BY <2>1 DEF Start, Busy
  <2>3. th'[u] = th[u]
      BY <2>2 DEF Start, Base, ColumnsOK
  <2>4. QED BY <2>1, <2>3 DEF Unsettled
<1>2. QED BY <1>1 DEF Start, ScoreAddsUp, Counted

\* Submission.update_contest, submission_delete: when no grading or deletion of
\* a problem is under way, the score counts what is stored for it.
THEOREM ScoreCorrect == Spec => []ScoreAddsUp
<1>1. Init => ScoreAddsUp
    BY DEF Init, ScoreAddsUp
<1>2. ASSUME Base, Base', ScoreAddsUp, [Next]_vars PROVE ScoreAddsUp'
  <2>1. CASE UNCHANGED vars
      BY <1>2, <2>1 DEF vars, ScoreAddsUp, Unsettled, Counted
  <2>2. ASSUME NEW t \in Threads, Query(t) PROVE ScoreAddsUp'
      BY <1>2, <2>2, ScoreAddsUpQuery DEF ScoreAddsUp
  <2>3. ASSUME NEW t \in Threads, NEW request \in Requests, Start(t, request) PROVE ScoreAddsUp'
      BY <1>2, <2>3, ScoreAddsUpStart
  <2>4. QED BY <1>2, <2>1, <2>2, <2>3 DEF Next
<1>3. QED BY <1>1, <1>2, BaseAlways, PTL DEF Spec

-----------------------------------------------------------------------------
(* has_exited.                                                              *)

\* While the user has exited, a request that began since then knows it: the
\* object it writes back has the column, and it does not let the user in.
ExitKnown ==
    Exited => \A t \in Threads \ exitedSince :
        /\ th[t].step = "recompute" => th[t].copy.exited
        /\ th[t].step \notin {"get", "create", "reset"}

\* Only an exit and a request that was under way before it change the column.
LEMMA ExitedChanges ==
    ASSUME Base, ExitKnown, NEW t \in Threads, Query(t), Exited, ~Exited'
    PROVE  t \in exitedSince /\ th'[t] # th[t]
<1>0. Fits(t) /\ ColumnsOK /\ row \in Rows
    BY DEF Base, ColumnsOK, Exited
<1>1. CASE Reset(t)
  <2>1. t \in exitedSince
      BY <1>1 DEF Reset, ExitKnown
  <2>2. th'[t].step = "clear"
      BY <1>0, <1>1, GotoMoves DEF Reset, Moved, StepNames
  <2>3. QED BY <1>1, <2>1, <2>2 DEF Reset
<1>2. CASE Recompute(t)
  <2>1. row'.exited = th[t].copy.exited
      BY <1>2 DEF Recompute, Recomputed
  <2>2. row' # NoRow
      BY <1>0, <1>2, RecomputedIsRow, ConstantsAssumption DEF Recompute, Fits, CopySteps
  <2>3. t \in exitedSince
      BY <1>2, <2>1, <2>2 DEF Recompute, ExitKnown, Exited
  <2>4. th'[t].step # "recompute"
    <3>1. ASSUME Return(t) PROVE th'[t].step # "recompute"
        BY <1>0, <3>1, ReturnMoves DEF Done, Idle
    <3>2. ASSUME Goto(t, "remove") PROVE th'[t].step # "recompute"
        BY <1>0, <3>2, GotoMoves DEF Moved, StepNames
    <3>3. ASSUME GotoWith(t, "remove", NoRow) PROVE th'[t].step # "recompute"
        BY <1>0, <3>3, GotoWithMoves DEF Moved, StepNames
    <3>4. QED BY <1>2, <3>1, <3>2, <3>3 DEF Recompute
  <2>5. QED BY <1>2, <2>3, <2>4 DEF Recompute
<1>3. CASE Exit(t)
    BY <1>0, <1>3, ConstantsAssumption DEF Exit, Exited, Rows
<1>4. CASE Draw(t)
    BY <1>0, <1>4, ConstantsAssumption DEF Draw, Exited, Rows
<1>5. CASE row' = row
    BY <1>5 DEF Exited
<1>6. QED
    BY <1>0, <1>1, <1>2, <1>3, <1>4, <1>5, ConstantsAssumption
       DEF Query, CheckBanned, CheckExited, Get, Create, Clear, Enter, GetOrCreate, Heal, Answer,
           Submit, Grade, Delete, Load, Remove, Ban

\* A request that makes a query while the user has exited, and has begun since
\* then, still knows it afterwards; so does the one that exits.
LEMMA OneKnows ==
    ASSUME ~RejoinDebug, Base, ExitKnown, NEW t \in Threads, Query(t), Exited',
           Exited => t \notin exitedSince
    PROVE  /\ th'[t].step = "recompute" => th'[t].copy.exited
           /\ th'[t].step \notin {"get", "create", "reset"}
<1>0. Fits(t) /\ ColumnsOK
    BY DEF Base
<1>1. CASE Exit(t)
  <2>1. CASE th[t].request = "leave"
      BY <1>0, <1>1, <2>1, GotoMoves DEF Exit, Moved, StepNames
  <2>2. CASE th[t].request # "leave"
    <3> DEFINE c == [th[t].copy EXCEPT !.exited = TRUE]
    <3>1. c \in Rows /\ c.exited
        BY <1>0, <1>1, <2>2 DEF Exit, Fits, Leaving, Rows
    <3>2. GotoWith(t, "recompute", c)
        BY <1>1, <2>2 DEF Exit
    <3> HIDE DEF c
    <3>3. Moved(t, "recompute", c)
        BY <1>0, <3>1, <3>2, GotoWithMoves DEF StepNames
    <3>4. QED BY <3>1, <3>3 DEF Moved
  <2>3. QED BY <2>1, <2>2
<1>2. CASE Recompute(t)
  <2>1. ASSUME Return(t) PROVE th'[t].step = "none"
      BY <1>0, <2>1, ReturnMoves DEF Done, Idle
  <2>2. ASSUME Goto(t, "remove") PROVE th'[t].step = "remove"
      BY <1>0, <2>2, GotoMoves DEF Moved, StepNames
  <2>3. ASSUME GotoWith(t, "remove", NoRow) PROVE th'[t].step = "remove"
      BY <1>0, <2>3, GotoWithMoves DEF Moved, StepNames
  <2>4. QED BY <1>2, <2>1, <2>2, <2>3 DEF Recompute
<1>3. CASE ~Exit(t) /\ ~Recompute(t)
  <2>1. Exited /\ row \in Rows
    <3>1. row' # row => Reset(t) \/ Draw(t) \/ Create(t) \/ GetOrCreate(t)
        BY <1>3 DEF Query, CheckBanned, CheckExited, Get, Clear, Enter, Heal, Answer, Submit,
                    Grade, Delete, Load, Remove, Ban
    <3>2. ~Reset(t)
      <4>1. ASSUME Reset(t) PROVE row \in Rows
          BY <1>0, <4>1 DEF Reset, Fits, RowSteps, ColumnsOK
      <4>2. QED BY <4>1, ConstantsAssumption DEF Reset, Exited, Rows
    <3>3. Draw(t) => Exited
      <4>1. ASSUME Draw(t) PROVE row \in Rows
          BY <1>0, <4>1 DEF Draw, Fits, RowSteps, ColumnsOK
      <4>2. QED BY <4>1, ConstantsAssumption DEF Draw, Exited, Rows
    <3>4. Create(t) \/ GetOrCreate(t) => Exited
      <4>1. Create(t) \/ GetOrCreate(t) => row' \in {row, NewRow}
          BY DEF Create, GetOrCreate
      <4>2. row' # NewRow
          BY DEF Exited, NewRow
      <4>3. QED BY <4>1, <4>2 DEF Exited
    <3>5. Exited
        BY <3>1, <3>2, <3>3, <3>4 DEF Exited
    <3>6. QED BY <3>5, <1>0 DEF Exited, ColumnsOK
  <2>2. CASE Load(t)
    <3> DEFINE c == IF th[t].request = "disqualify"
                    THEN [Loaded EXCEPT !.disqualified = ~row.disqualified] ELSE Loaded
    <3>1. c.exited
        BY <2>1, LoadedIsRow DEF Rows, Exited
    <3>2. \E s : GotoWith(t, s, c)
        BY <2>2 DEF Load
    <3> HIDE DEF c
    <3>3. th'[t].copy = c
        BY <1>0, <3>2 DEF GotoWith, ColumnsOK, ThreadStates
    <3>4. th'[t].step \notin {"get", "create", "reset"}
        BY <1>0, <2>2, StepAfter DEF Load, CheckExited, Get
    <3>5. QED BY <3>1, <3>3, <3>4
  <2>3. CASE CheckExited(t)
    <3>1. Return(t)
        BY <2>1, <2>3 DEF CheckExited, Refused, Exited
    <3>2. QED BY <1>0, <3>1, ReturnMoves DEF Done, Idle
  <2>4. ~Get(t)
      BY <2>1 DEF Get, ExitKnown
  <2>5. QED BY <1>0, <1>3, <2>2, <2>3, <2>4, StepAfter
<1>4. QED BY <1>1, <1>2, <1>3

LEMMA ExitKnownNext ==
    ASSUME ~RejoinDebug, Base, Base', ExitKnown, [Next]_vars
    PROVE  ExitKnown'
<1>0. \A u \in Threads : Fits(u) /\ Fits(u)'
    BY DEF Base
<1>1. CASE UNCHANGED vars
    BY <1>1 DEF vars, history, ExitKnown, Exited
<1>2. ASSUME NEW t \in Threads, Query(t), Remember(t) PROVE ExitKnown'
  <2> SUFFICES ASSUME Exited', NEW u \in Threads, u \notin exitedSince'
               PROVE  /\ th'[u].step = "recompute" => th'[u].copy.exited
                      /\ th'[u].step \notin {"get", "create", "reset"}
      BY DEF ExitKnown
  <2>1. CASE u \notin Busy'
      BY <1>0, <2>1 DEF Busy, Fits
  <2>2. CASE u \in Busy' /\ u # t
    <3>1. th'[u] = th[u]
        BY <1>2, <2>2, ThreadChanges DEF Others, Base
    <3>2. u \in Busy
        BY <2>2, <3>1 DEF Busy
    <3>3. Exited /\ u \notin exitedSince
        BY <1>2, <2>2, <3>2 DEF Remember
    <3>4. QED BY <3>1, <3>3 DEF ExitKnown
  <2>3. CASE u \in Busy' /\ u = t
    <3>1. Exited => t \notin exitedSince
        BY <1>2, <2>3 DEF Remember
    <3>2. QED BY <1>2, <2>3, <3>1, OneKnows
  <2>4. QED BY <2>1, <2>2, <2>3
<1>3. ASSUME NEW t \in Threads, NEW request \in Requests, Start(t, request), Remember(t)
      PROVE  ExitKnown'
  <2>1. Others(t) /\ row' = row /\ th'[t].step = FirstStep(request)
      BY <1>3 DEF Start, Others, Base, ColumnsOK
  <2>2. FirstStep(request) \notin {"recompute", "get", "create", "reset"}
      BY DEF FirstStep, Requests, Entering, Leaving
  <2>3. exitedSince' = exitedSince \cap Busy' /\ Exited' = Exited
      BY <1>3, <2>1 DEF Remember, Exited
  <2>4. ASSUME Exited, NEW u \in Threads, u # t, u \notin exitedSince'
        PROVE  /\ th'[u].step = "recompute" => th'[u].copy.exited
               /\ th'[u].step \notin {"get", "create", "reset"}
    <3>1. CASE u \in Busy'
        BY <2>1, <2>3, <2>4, <3>1 DEF ExitKnown, Others
    <3>2. CASE u \notin Busy'
        BY <1>0, <3>2 DEF Busy, Fits
    <3>3. QED BY <3>1, <3>2
  <2>5. QED BY <2>1, <2>2, <2>3, <2>4 DEF ExitKnown
<1>4. QED BY <1>1, <1>2, <1>3 DEF Next

LEMMA ExitStep ==
    ASSUME Base, ExitKnown, [Next]_vars
    PROVE  [Exited /\ ~Exited' => \E t \in exitedSince : th'[t] # th[t]]_vars
<1> SUFFICES ASSUME Exited, ~Exited', Next PROVE \E t \in exitedSince : th'[t] # th[t]
    BY DEF vars, Exited
<1>1. ASSUME NEW t \in Threads, Query(t) PROVE \E u \in exitedSince : th'[u] # th[u]
    BY <1>1, ExitedChanges
<1>2. ASSUME NEW t \in Threads, NEW request \in Requests, Start(t, request) PROVE FALSE
    BY <1>2 DEF Start, Exited
<1>3. QED BY <1>1, <1>2 DEF Next

\* "Whether this user has exited the contest and cannot rejoin": outside the
\* debug mode has_exited is unset only by a request that was under way when it
\* was set, whatever requests overlap.
THEOREM ExitIsFinal == ASSUME ~RejoinDebug PROVE Spec => ExitStays
<1>1. Init => ExitKnown
    BY DEF Init, ExitKnown, Exited
<1>2. Base /\ Base' /\ ExitKnown /\ [Next]_vars => ExitKnown'
    BY ExitKnownNext
<1>3. Base /\ ExitKnown /\ [Next]_vars =>
          [Exited /\ ~Exited' => \E t \in exitedSince : th'[t] # th[t]]_vars
    BY ExitStep
<1>4. QED BY <1>1, <1>2, <1>3, BaseAlways, PTL DEF Spec, ExitStays

-----------------------------------------------------------------------------
(* is_disqualified and contest.banned_users.                                *)

\* The thread is a disqualification that has written the row.
Writing(t) == th[t].request = "disqualify" /\ th[t].step \in {"remove", "ban"}

\* The object of a request knows the column, if no other request has changed it
\* since the request began; the object of a disqualification does once the
\* disqualification has written it.
ColumnKnown(t) ==
    \/ th[t].step = "recompute" /\ th[t].request # "disqualify"
    \/ th[t].step = "exit" /\ th[t].request = "hpe_leave"
    \/ Writing(t)
    => th[t].copy.disqualified = row.disqualified

BanKnown ==
    /\ \A t \in Threads \ flippedSince : ColumnKnown(t)
    /\ torn \/ (banned <=> Disqualified) \/ \E t \in Threads \ flippedSince : Writing(t)

LEMMA RowStays ==
    ASSUME Base, NEW t \in Threads, Query(t), row # NoRow
    PROVE  row' # NoRow
    BY RowChanges, RecomputedIsRow, RowFacts, ConstantsAssumption DEF Base, Recompute

\* Only a recomputation changes the column.
LEMMA FlipRecomputes ==
    ASSUME Base, NEW t \in Threads, Query(t), Flips
    PROVE  Recompute(t) /\ th[t].copy \in Rows
<1>0. row # NoRow => row \in Rows
    BY DEF Base, ColumnsOK
<1>1. row' # row
    BY DEF Flips, Disqualified
<1>2. ~(row = NoRow /\ row' = NewRow)
    BY DEF Flips, Disqualified, NewRow
<1>3. ~(row \in Rows /\ \E b \in BOOLEAN : row' = [row EXCEPT !.exited = b])
    BY ConstantsAssumption DEF Rows, Flips, Disqualified
<1>4. ~(row \in Rows /\ \E s \in Selections : row' = [row EXCEPT !.selection = s])
    BY ConstantsAssumption DEF Rows, Flips, Disqualified
<1>5. QED BY <1>1, <1>2, <1>3, <1>4, RowChanges

\* Otherwise the column of the row stays.
LEMMA ColumnStays ==
    ASSUME Base, Base', NEW t \in Threads, Query(t), ~Flips, row # NoRow
    PROVE  row'.disqualified = row.disqualified
<1>1. row' # NoRow
    BY RowStays
<1>2. row.disqualified \in BOOLEAN /\ row'.disqualified \in BOOLEAN
    BY <1>1 DEF Base, ColumnsOK, Rows
<1>3. QED BY <1>1, <1>2 DEF Flips, Disqualified

\* A request that changes the column: the others that are at work no longer
\* count, and it writes the list next if it is a disqualification.
LEMMA FlipKeepsBanKnown ==
    ASSUME Base, Base', BanKnown, NEW t \in Threads, Query(t), Remember(t), Flips
    PROVE  BanKnown'
<1>0. Fits(t) /\ ColumnsOK /\ Others(t) /\ Recompute(t) /\ th[t].copy \in Rows
    BY ThreadChanges, FlipRecomputes DEF Base
<1>1. /\ flippedSince' = (flippedSince \cup (Busy \ {t})) \cap Busy'
      /\ torn' = (t \in flippedSince)
    BY DEF Remember
<1>2. row'.disqualified = th[t].copy.disqualified
    BY <1>0 DEF Recompute, Recomputed
<1>3. ASSUME NEW u \in Threads, u # t, u \notin flippedSince' PROVE th'[u].step = "none"
  <2>1. u \notin Busy'
      BY <1>0, <1>1, <1>3 DEF Others, Busy
  <2>2. QED BY <2>1 DEF Base, Fits, Busy
<1>4. CASE th[t].request = "disqualify"
  <2>1. Moved(t, "remove", th[t].copy)
      BY <1>0, <1>4, GotoMoves DEF Recompute, StepNames
  <2>2. Writing(t)' /\ th'[t].copy.disqualified = row'.disqualified
      BY <1>2, <1>4, <2>1 DEF Moved, Writing
  <2>3. torn' \/ t \notin flippedSince'
      BY <1>1
  <2>4. QED BY <1>3, <2>2, <2>3 DEF BanKnown, ColumnKnown, Writing
<1>5. CASE th[t].request # "disqualify"
  <2>1. t \in flippedSince
    <3>1. row # NoRow /\ row' # NoRow
        BY <1>0, RowStays DEF Recompute, Fits, RowSteps
    <3>2. th[t].copy.disqualified # row.disqualified
        BY <1>2, <3>1 DEF Flips, Disqualified
    <3>3. QED BY <1>0, <1>5, <3>2 DEF BanKnown, ColumnKnown, Recompute
  <2>2. th'[t].step \in {"remove", "none"} /\ th'[t].request # "disqualify"
    <3>1. ASSUME Return(t) PROVE th'[t] = Idle
        BY <1>0, <3>1, ReturnMoves DEF Done
    <3>2. ASSUME GotoWith(t, "remove", NoRow) PROVE Moved(t, "remove", NoRow)
        BY <1>0, <3>2, GotoWithMoves DEF StepNames
    <3>3. QED BY <1>0, <1>5, <3>1, <3>2 DEF Recompute, Moved, Idle
  <2>3. QED BY <1>1, <1>3, <2>1, <2>2 DEF BanKnown, ColumnKnown, Writing
<1>6. QED BY <1>4, <1>5

\* The object of a request that loads, exits or writes the row knows the column
\* afterwards, if it knew it before.
LEMMA OneKnowsColumn ==
    ASSUME Base, Base', NEW t \in Threads, ColumnKnown(t), Query(t), ~Flips
    PROVE  ColumnKnown(t)'
<1>0. Fits(t) /\ ColumnsOK /\ (row # NoRow => row'.disqualified = row.disqualified)
    BY ColumnStays DEF Base
<1>1. CASE Load(t)
  <2>1. row \in Rows /\ row' = row
      BY <1>0, <1>1 DEF Load, Fits, RowSteps, ColumnsOK
  <2>2. th[t].request # "disqualify" => \E s : GotoWith(t, s, Loaded)
      BY <1>1 DEF Load
  <2>3. th[t].request # "disqualify" => th'[t].copy = Loaded
      BY <1>0, <2>2 DEF GotoWith, ColumnsOK, ThreadStates
  <2>4. th'[t].step \in {"exit", "recompute"} /\ th'[t].request = th[t].request
    <3>1. \E c : \E s \in {"exit", "recompute"} : GotoWith(t, s, c)
        BY <1>1 DEF Load
    <3>2. QED BY <1>0, <3>1 DEF GotoWith, ColumnsOK, ThreadStates
  <2>5. QED BY <1>1, <2>1, <2>3, <2>4, <1>0, LoadedIsRow DEF ColumnKnown, Writing, Load, Fits
<1>2. CASE Exit(t)
  <2>1. CASE th[t].request = "leave"
    <3>1. Moved(t, "remove", th[t].copy)
        BY <1>0, <1>2, <2>1, GotoMoves DEF Exit, StepNames
    <3>2. QED BY <2>1, <3>1 DEF Moved, ColumnKnown, Writing
  <2>2. CASE th[t].request = "hpe_leave"
    <3> DEFINE c == [th[t].copy EXCEPT !.exited = TRUE]
    <3>1. row # NoRow /\ c \in Rows /\ c.disqualified = row.disqualified
        BY <1>0, <1>2, <2>2 DEF Exit, Fits, RowSteps, Rows, ColumnKnown
    <3>2. GotoWith(t, "recompute", c)
        BY <1>2, <2>2 DEF Exit
    <3> HIDE DEF c
    <3>3. Moved(t, "recompute", c)
        BY <1>0, <3>1, <3>2, GotoWithMoves DEF StepNames
    <3>4. QED BY <1>0, <3>1, <3>3 DEF Moved, ColumnKnown, Writing
  <2>3. QED BY <1>0, <1>2, <2>1, <2>2 DEF Exit, Fits, Leaving
<1>3. CASE Recompute(t)
  <2>1. CASE th[t].request = "disqualify"
    <3>1. Moved(t, "remove", th[t].copy)
        BY <1>0, <1>3, <2>1, GotoMoves DEF Recompute, StepNames
    <3>2. row'.disqualified = th[t].copy.disqualified
        BY <1>3 DEF Recompute, Recomputed
    <3>3. QED BY <3>1, <3>2 DEF Moved, ColumnKnown
  <2>2. CASE th[t].request # "disqualify"
    <3>1. ASSUME Return(t) PROVE th'[t] = Idle
        BY <1>0, <3>1, ReturnMoves DEF Done
    <3>2. ASSUME GotoWith(t, "remove", NoRow) PROVE Moved(t, "remove", NoRow)
        BY <1>0, <3>2, GotoWithMoves DEF StepNames
    <3>3. QED BY <1>3, <2>2, <3>1, <3>2 DEF Recompute, Moved, Idle, ColumnKnown, Writing
  <2>3. QED BY <2>1, <2>2
<1>4. CASE Remove(t)
  <2>1. CASE th[t].request = "disqualify"
    <3>1. Moved(t, "ban", th[t].copy) /\ row' = row
        BY <1>0, <1>4, <2>1, GotoMoves DEF Remove, StepNames
    <3>2. th[t].copy.disqualified = row.disqualified
        BY <1>4, <2>1 DEF Remove, ColumnKnown, Writing
    <3>3. QED BY <3>1, <3>2 DEF Moved, ColumnKnown
  <2>2. CASE th[t].request # "disqualify"
    <3>1. Done(t)
        BY <1>0, <1>4, <2>2, ReturnMoves DEF Remove
    <3>2. QED BY <3>1 DEF Done, Idle, ColumnKnown, Writing
  <2>3. QED BY <2>1, <2>2
<1>5. CASE ~Load(t) /\ ~Exit(t) /\ ~Recompute(t) /\ ~Remove(t)
  <2>1. th[t].step \notin {"remove", "load", "exit", "recompute"}
      BY <1>5 DEF Query, CheckBanned, CheckExited, Get, Create, Reset, Clear, Draw, Enter,
             GetOrCreate, Heal, Answer, Submit, Grade, Delete, Load, Exit, Recompute, Remove, Ban
  <2>2. th'[t].step \notin {"recompute", "exit"}
      BY <1>0, <1>5, StepAfter
  <2>3. ~Writing(t)'
    <3>1. th'[t] = Idle \/ th'[t].request = th[t].request
        BY <1>0, ThreadChanges
    <3>2. CASE th[t].request = "disqualify"
      <4>1. Ban(t)
          BY <1>0, <2>1, <3>2
             DEF Fits, Query, CheckBanned, CheckExited, Get, Create, Reset, Clear, Draw, Enter,
                 GetOrCreate, Heal, Answer, Submit, Grade, Delete, Load, Exit, Recompute, Remove
      <4>2. QED BY <1>0, <4>1, ReturnMoves DEF Ban, Done, Idle, Writing
    <3>3. CASE th[t].request # "disqualify"
        BY <3>1, <3>3 DEF Idle, Writing
    <3>4. QED BY <3>2, <3>3
  <2>4. QED BY <2>2, <2>3 DEF ColumnKnown
<1>6. QED BY <1>1, <1>2, <1>3, <1>4, <1>5

LEMMA QueryKeepsBanKnown ==
    ASSUME Base, Base', BanKnown, NEW t \in Threads, Query(t), Remember(t), ~Flips
    PROVE  BanKnown'
<1>0. Fits(t) /\ ColumnsOK /\ Others(t) /\ (Disqualified' <=> Disqualified)
    BY ThreadChanges DEF Base, Flips
<1>1. /\ flippedSince' = flippedSince \cap Busy'
      /\ th[t].step = "ban" => torn' = (t \in flippedSince)
      /\ th[t].step # "ban" => torn' = torn
    BY DEF Remember
<1>2. ASSUME NEW u \in Threads, u \notin flippedSince' PROVE ColumnKnown(u)'
  <2>1. CASE u \notin Busy'
      BY <2>1 DEF Base, Fits, Busy, ColumnKnown, Writing
  <2>2. CASE u \in Busy' /\ u = t
    <3>1. ColumnKnown(t)
        BY <1>1, <1>2, <2>2 DEF BanKnown
    <3>2. QED BY <2>2, <3>1, OneKnowsColumn
  <2>3. CASE u \in Busy' /\ u # t
    <3>1. ColumnKnown(u) /\ th'[u] = th[u] /\ Fits(u)
        BY <1>0, <1>1, <1>2, <2>3 DEF BanKnown, Others, Base
    <3>2. row # NoRow => row'.disqualified = row.disqualified
        BY ColumnStays
    <3>3. QED BY <3>1, <3>2 DEF ColumnKnown, Writing, Fits, RowSteps
  <2>4. QED BY <2>1, <2>2, <2>3
<1>3. torn' \/ (banned' <=> Disqualified') \/ \E u \in Threads \ flippedSince' : Writing(u)'
  <2>1. CASE Ban(t)
    <3>1. torn' = (t \in flippedSince) /\ banned' = th[t].copy.disqualified
        BY <1>1, <2>1 DEF Ban
    <3>2. ASSUME t \notin flippedSince PROVE banned' <=> Disqualified'
      <4>1. th[t].copy.disqualified = row.disqualified /\ row # NoRow
          BY <1>0, <2>1, <3>2 DEF BanKnown, ColumnKnown, Writing, Ban, Fits, RowSteps
      <4>2. QED BY <1>0, <3>1, <4>1 DEF Disqualified
    <3>3. QED BY <3>1, <3>2
  <2>2. CASE ~Ban(t)
    <3>1. th[t].step # "ban" /\ banned' = banned
        BY <2>2
           DEF Query, CheckBanned, CheckExited, Get, Create, Reset, Clear, Draw, Enter,
               GetOrCreate, Heal, Answer, Submit, Grade, Delete, Load, Exit, Recompute, Remove, Ban
    <3>2. ASSUME NEW u \in Threads \ flippedSince, Writing(u) PROVE Writing(u)'
      <4>1. CASE u # t
          BY <1>0, <3>2, <4>1 DEF Others, Writing
      <4>2. CASE u = t
        <5>1. Remove(t)
            BY <2>2, <3>1, <3>2, <4>2
               DEF Writing, Query, CheckBanned, CheckExited, Get, Create, Reset, Clear, Draw,
                   Enter, GetOrCreate, Heal, Answer, Submit, Grade, Delete, Load, Exit, Recompute
        <5>2. Moved(t, "ban", th[t].copy)
            BY <1>0, <3>2, <4>2, <5>1, GotoMoves DEF Writing, Remove, StepNames
        <5>3. QED BY <3>2, <4>2, <5>2 DEF Writing, Moved
      <4>3. QED BY <4>1, <4>2
    <3>3. QED BY <1>0, <1>1, <3>1, <3>2 DEF BanKnown
  <2>3. QED BY <2>1, <2>2
<1>4. QED BY <1>2, <1>3 DEF BanKnown

LEMMA StartKeepsBanKnown ==
    ASSUME Base, Base', BanKnown, NEW t \in Threads, NEW request \in Requests,
           Start(t, request), Remember(t)
    PROVE  BanKnown'
<1>1. /\ Others(t) /\ row' = row /\ banned' = banned
      /\ th'[t].step = FirstStep(request) /\ th'[t].request = request
    BY DEF Start, Others, Base, ColumnsOK
<1>2. th[t].request = "none" /\ th[t].step = "none"
    BY DEF Start, Busy, Base, Fits
<1>3. FirstStep(request) \notin {"recompute", "remove", "ban"}
    BY DEF FirstStep, Requests, Entering, Leaving
<1>4. FirstStep(request) = "exit" => request # "hpe_leave"
    BY DEF FirstStep, Requests, Entering, Leaving
<1>5. /\ flippedSince' = flippedSince \cap Busy' /\ torn' = torn
      /\ Disqualified' <=> Disqualified
    BY <1>1, <1>2 DEF Remember, Flips, Disqualified
<1>6. ASSUME NEW u \in Threads, u \notin flippedSince' PROVE ColumnKnown(u)'
  <2>1. CASE u = t
      BY <1>1, <1>3, <1>4, <2>1 DEF ColumnKnown, Writing
  <2>2. CASE u # t /\ u \in Busy'
    <3>1. ColumnKnown(u) /\ th'[u] = th[u]
        BY <1>1, <1>5, <1>6, <2>2 DEF BanKnown, Others
    <3>2. QED BY <1>1, <3>1 DEF ColumnKnown, Writing
  <2>3. CASE u \notin Busy'
      BY <2>3 DEF Base, Fits, Busy, ColumnKnown, Writing
  <2>4. QED BY <2>1, <2>2, <2>3
<1>7. ASSUME NEW u \in Threads \ flippedSince, Writing(u) PROVE Writing(u)'
    BY <1>1, <1>2, <1>7 DEF Others, Writing
<1>8. QED BY <1>1, <1>5, <1>6, <1>7 DEF BanKnown

\* set_disqualified: when no disqualification is under way, the column and the
\* list of banned users agree, unless the last request that wrote one of them
\* had been overtaken by another that changed the column; whatever overlaps.
THEOREM BansFollow == Spec => []BannedAsDisqualified
<1>1. Init => BanKnown
  <2>1. ASSUME Init, NEW t \in Threads PROVE th[t].step = "none"
      BY <2>1 DEF Init, Idle
  <2>2. Init => banned = FALSE /\ row = NoRow
      BY DEF Init
  <2>3. QED BY <2>1, <2>2 DEF BanKnown, ColumnKnown, Writing, Disqualified
<1>2. ASSUME Base, Base', BanKnown, [Next]_vars PROVE BanKnown'
  <2>1. CASE UNCHANGED vars
      BY <1>2, <2>1 DEF vars, history, BanKnown, ColumnKnown, Writing, Disqualified
  <2>2. ASSUME NEW t \in Threads, Query(t), Remember(t) PROVE BanKnown'
      BY <1>2, <2>2, FlipKeepsBanKnown, QueryKeepsBanKnown
  <2>3. ASSUME NEW t \in Threads, NEW request \in Requests, Start(t, request), Remember(t)
        PROVE  BanKnown'
      BY <1>2, <2>3, StartKeepsBanKnown
  <2>4. QED BY <1>2, <2>1, <2>2, <2>3 DEF Next
<1>3. BanKnown => BannedAsDisqualified
    BY DEF BanKnown, BannedAsDisqualified, Disqualifying, Writing
<1>4. QED BY <1>1, <1>2, <1>3, BaseAlways, PTL DEF Spec

=============================================================================
