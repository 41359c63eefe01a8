----------------------------- MODULE Confidence -----------------------------
(* The badge on an answer (backend/app/query/confidence.py): points, in      *)
(* hundredths, for what was observed while the question was answered.       *)
EXTENDS Integers, FiniteSets, FiniteSetsExt

\* mutant: a doubled count weighs no more than a repair
LightWeight == [agreed |-> 15, disagreed |-> -35, fan_out |-> -15, period_unfiltered |-> -20,
                weak_join |-> -15, nulls |-> -10, unconfirmed_link |-> -10,
                narration_fallback |-> -5, truncated |-> -5, assumptions |-> -5, vetted |-> 5]

(* The signals that are present or absent; `repairs` is counted apart.       *)
Weight == [agreed |-> 15, disagreed |-> -35, fan_out |-> -25, period_unfiltered |-> -20,
           weak_join |-> -15, nulls |-> -10, unconfirmed_link |-> -10,
           narration_fallback |-> -5, truncated |-> -5, assumptions |-> -5, vetted |-> 5]
Signals == DOMAIN Weight

Clamp(n) == Max({0, Min({100, n})})
Score(signals, repairs) == Clamp(80 - 15 * repairs + MapThenSumSet(LAMBDA s : Weight[s], signals))

High == 80
Medium == 55
Level(signals, repairs) ==
  LET total == Score(signals, repairs)
  IN IF total >= High THEN "high" ELSE IF total >= Medium THEN "medium" ELSE "low"
=============================================================================
