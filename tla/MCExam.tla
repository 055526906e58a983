------------------------------- MODULE MCExam -------------------------------
(* The exam with a few children and questions, started twice.              *)
EXTENDS Exam
=============================================================================
