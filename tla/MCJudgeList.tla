----------------------------- MODULE MCJudgeList -----------------------------
(* Small instances of JudgeList for TLC: two or three judges and two        *)
(* submissions.                                                             *)
EXTENDS JudgeList, TLC

CONSTANTS j1, j2, s1

\* Each connection belongs to a judge of its own.
OwnNames == [j \in Judge |-> IF j = j1 THEN "one" ELSE IF j = j2 THEN "two" ELSE "three"]

\* One tier, or the judge j1 preferred to the others.
OneTier == [j \in Judge |-> 1]
TwoTiers == [j \in Judge |-> IF j = j1 THEN 1 ELSE 2]

DefaultAndRejudge == {1, 2}

Unpinned == {NoPin}
PinnedToo == {NoPin, "one"}

AllProblems == {Submission}

\* Where all judges have all problems, submissions differ by nothing.
AnySubmission == Permutations(Submission)

SomeProblems == {Submission, Submission \ {s1}}

\* Every submission is requested once; or again and again, and more.
Once == {}
Rejudges == {"rejudge"}
Disable == {"rejudge", "disable"}
Reload == {"rejudge", "reload"}
DatabaseError == {"rejudge", "db_error"}
=============================================================================
