------------------------------- MODULE MCSaga -------------------------------
(* Values of Saga's constants for TLC.                                     *)
EXTENDS Saga

CONSTANTS t1, t2, t3, m1, m2, h

\* One tree where the mutation edits a file, others where it creates one.
EditAndCreate == [t \in Trees |-> IF t = t1 THEN Old ELSE Absent]
=============================================================================
