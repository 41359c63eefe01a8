-------------------------- MODULE MCAdmissionRefund --------------------------
(* Four questions from one address, at most two of them in flight, and     *)
(* counters that allow two questions in two ticks.  Every charge gets its  *)
(* lock at once, so that what is seen is the work of the refunds.          *)
EXTENDS Admission, TLC

CONSTANTS q1, q2, q3, q4, a1, u1, s1

OneAddress == [q \in Questions |-> a1]
OneUser == [q \in Questions |-> u1]
OneSession == [q \in Questions |-> s1]

NobodyWaits == \A q \in Questions : read[q] \in {NotRead, now}

Interchangeable == Permutations({q1, q2, q3, q4})
=============================================================================
