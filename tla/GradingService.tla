---------------------------- MODULE GradingService ----------------------------
(***************************************************************************)
(* What the bridge promises the site, without order, tiers or locks.  A    *)
(* submission waits or is given to one judge; a judge has one submission   *)
(* at a time; what a judge was given ends once, and only then is a result  *)
(* recorded.  "open" are the submissions the site shows as in progress.    *)
(***************************************************************************)
EXTENDS FiniteSets

CONSTANTS Judge, Submission, Nobody

VARIABLES open,     \* submissions shown as in progress
          waiting,  \* submissions no judge has yet
          grading,  \* what each judge has
          ended     \* for each judge, what its handler has still to record

gvars == <<open, waiting, grading, ended>>

GTypeOK ==
    /\ open \subseteq Submission
    /\ waiting \subseteq Submission
    /\ grading \in [Judge -> Submission \cup {Nobody}]
    /\ ended \in [Judge -> Submission \cup {Nobody}]

GInit ==
    /\ open = {} /\ waiting = {}
    /\ grading = [j \in Judge |-> Nobody]
    /\ ended = [j \in Judge |-> Nobody]

Idle(j) == grading[j] = Nobody
Given(s) == \E j \in Judge : grading[j] = s

\* The site asks for s: it is known already, or it waits, or an idle judge
\* gets it at once.
Ask(s) ==
    /\ open' = open \cup {s}
    /\ \/ (s \in waiting \/ Given(s)) /\ UNCHANGED <<waiting, grading>>
       \/ ~Given(s) /\ waiting' = waiting \cup {s} /\ grading' = grading
       \/ /\ s \notin waiting /\ ~Given(s)
          /\ \E j \in Judge : Idle(j) /\ grading' = [grading EXCEPT ![j] = s]
          /\ waiting' = waiting
    /\ ended' = ended

\* A waiting submission is given to an idle judge.
Give(j, s) ==
    /\ s \in waiting /\ Idle(j)
    /\ waiting' = waiting \ {s}
    /\ grading' = [grading EXCEPT ![j] = s]
    /\ UNCHANGED <<open, ended>>

\* A judge finishes what it was given, or is lost while it has it.
End(j) ==
    /\ ~Idle(j) /\ ended[j] = Nobody
    /\ ended' = [ended EXCEPT ![j] = grading[j]]
    /\ grading' = [grading EXCEPT ![j] = Nobody]
    /\ UNCHANGED <<open, waiting>>

\* The result is recorded.
Close(j) ==
    /\ ended[j] # Nobody
    /\ open' = open \ {ended[j]}
    /\ ended' = [ended EXCEPT ![j] = Nobody]
    /\ UNCHANGED <<waiting, grading>>

\* The site gives up a submission that no judge has.
Withdraw(s) ==
    /\ s \in open /\ ~Given(s)
    /\ open' = open \ {s}
    /\ waiting' = waiting \ {s}
    /\ UNCHANGED <<grading, ended>>

GNext ==
    \/ \E s \in Submission : Ask(s) \/ Withdraw(s)
    \/ \E j \in Judge : End(j) \/ Close(j)
    \/ \E j \in Judge, s \in Submission : Give(j, s)

GSpec == GInit /\ [][GNext]_gvars
=============================================================================
