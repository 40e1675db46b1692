------------------------- MODULE MCSubmissionQueue -------------------------
(* Small instances of SubmissionQueue for TLC.                             *)
EXTENDS SubmissionQueue

CONSTANTS q1, q2, r1, r2

ElCount3 == [q \in SQs |-> 3]
ElCount2 == [q \in SQs |-> 2]
CqElCount3 == [c \in CQs |-> 3]
CqElCount2 == [c \in CQs |-> 2]
OneSleeper == [q \in SQs |-> IF q = q1 THEN 1 ELSE 0]
OneCq == [q \in SQs |-> 1]
OwnCq == [q \in SQs |-> IF q = q1 THEN 1 ELSE CQCount]
=============================================================================
