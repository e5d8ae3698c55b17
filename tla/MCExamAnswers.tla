---------------------------- MODULE MCExamAnswers ----------------------------
(* Instances of ExamAnswers for TLC: two questions of two options each.     *)
EXTENDS ExamAnswers
=============================================================================
