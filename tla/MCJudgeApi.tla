------------------------------ MODULE MCJudgeApi ------------------------------
(* Instances of JudgeApi for TLC: one submission of one or two test cases,  *)
(* up to two judges and two web workers.                                    *)
EXTENDS JudgeApi

CONSTANT w1

Failures == {"lose", "kill"}
Everything == Events
Answering == Events \ {"kill", "mute"}
Overlap == {"overlap"}
Aborts == {"abort"}
=============================================================================
