------------------------------ MODULE Attempts ------------------------------
(* One question from the first prompt to the badge on its answer: the loop   *)
(* that generates SQL, guards it, runs it and repairs it                     *)
(* (_generate_and_execute in backend/app/query/pipeline.py, generate in      *)
(* generator.py, execute in executor.py), and the rest of _run: caveats,     *)
(* narration and cross-check side by side, confidence.                       *)
EXTENDS Integers, Sequences, FiniteSets, Confidence

CONSTANTS
  MaxRepairs,     \* MAX_REPAIRS
  BudgetS,        \* ATTEMPT_BUDGET_S
  Delays,         \* the seconds one model call or one query can take
  Extras          \* the signals, apart from those of the loop, that may be present

ASSUME AttemptsAssumption ==
  /\ MaxRepairs \in Nat
  /\ BudgetS \in Nat
  /\ Delays \subseteq Nat
  /\ Extras \subseteq Signals \ {"fan_out", "period_unfiltered", "agreed", "disagreed",
                                 "narration_fallback"}

VARIABLES
  clarified,  \* the request carries a choice of column (req.clarification)
  moved,      \* history: session.catalog is not the `catalog` of _run any more
  pc,         \* where the question is
  elapsed,    \* seconds since `started`, counted until the budget is used up
  asks,       \* history: completions the loop asked for, counted to one too many
  try,        \* the tries left to generate() for a readable reply
  repairs,    \* signals.repairs
  why, told,  \* `why`, and the problem in `repair`
  tried,      \* tried_period_repair, tried_empty_repair, asked_again
  attempts,   \* work.attempts: the reason and the problem of each
  found,      \* what is known of the last query that ran
  cross, narration,   \* the two halves that run at the same time
  signals,    \* the signals given to score()
  answer      \* its kind and level

vars == <<clarified, moved, pc, elapsed, asks, try, repairs, why, told, tried, attempts,
          found, cross, narration, signals, answer>>

None == "none"
Problems == {"guard_rejected", "sql_error", "fan_out", "period_missing", "empty_result"}
Facts == {"fan_out", "period", "empty"}     \* what a query that ran may show
NoAnswer == [kind |-> None, level |-> None]
Kinds == {"answer", "refusal", "meta", "clarify", "error"}
Levels == {"high", "medium", "low"}

Init ==
  /\ clarified \in BOOLEAN
  /\ moved = FALSE
  /\ pc = "generate"
  /\ elapsed = 0
  /\ asks = 0
  /\ try = 2
  /\ repairs = 0
  /\ why = "initial"
  /\ told = None
  /\ tried = {}
  /\ attempts = <<>>
  /\ found = {}
  /\ cross = "idle"
  /\ narration = "idle"
  /\ signals = {}
  /\ answer = NoAnswer

Loop == <<repairs, why, told, tried, attempts, found>>
Halves == <<cross, narration, signals>>

End(kind) == /\ pc' = "done"
             /\ answer' = [NoAnswer EXCEPT !.kind = kind]

\* only whether the budget is used up is ever asked
TimePasses == \E s \in Delays : elapsed' = Min({elapsed + s, BudgetS + 1})

----------------------------------------------------------------------------
(* First try, MAX_REPAIRS repairs, one repeated clarification, each of two   *)
(* completions.                                                              *)
MostAsks == 2 * (MaxRepairs + 2)

(* generate(): at most two completions for one readable reply.               *)

Complete ==
  /\ pc = "generate"
  /\ TimePasses
  /\ asks' = Min({asks + 1, MostAsks + 1})
  /\ \/ pc' = "reply" /\ try' = 2 /\ UNCHANGED answer
     \/ try = 2 /\ try' = 1 /\ UNCHANGED <<pc, answer>>      \* unreadable: once more
     \/ try = 1 /\ End("error") /\ UNCHANGED try              \* ValueError
     \/ End("error") /\ UNCHANGED try                         \* LLMUnavailable
  /\ UNCHANGED <<clarified, moved, Loop, Halves>>

\* mutant: asked_again is never read
NeverAsked == FALSE
AlreadyAsked == "asked" \in tried

(* The model asks for the choice the analyst has made: told once, then given *)
(* up.  This way round neither counts a repair nor looks at the clock.       *)
AsksAgain ==
  /\ pc = "reply"
  /\ clarified
  /\ IF AlreadyAsked
     THEN End("error") /\ UNCHANGED <<tried, told>>
     ELSE /\ tried' = tried \cup {"asked"}
          /\ told' = "choice"
          /\ pc' = "generate"
          /\ UNCHANGED answer
  /\ UNCHANGED <<clarified, moved, elapsed, asks, try, repairs, why, attempts, found, Halves>>

(* Any other reply without SQL ends the question (_non_sql_answer).  A        *)
(* clarification needs two real columns, or it is a refusal.                 *)
NoSql ==
  /\ pc = "reply"
  /\ \E kind \in {"meta", "refusal", "clarify"} :
       /\ kind = "clarify" => ~clarified
       /\ End(kind)
  /\ UNCHANGED <<clarified, moved, elapsed, asks, try, Loop, Halves>>

----------------------------------------------------------------------------
(* One attempt: guard, execute, look at what came back.                      *)

(* Which of the things wrong with a result is repaired: a doubled count      *)
(* always, a missing period and an empty result once each.                   *)
Problem(facts) ==
  IF "fan_out" \in facts THEN "fan_out"
  ELSE IF "period" \in facts /\ "period" \notin tried THEN "period_missing"
  ELSE IF "empty" \in facts /\ "empty" \notin tried THEN "empty_result"
  ELSE None


Marked(problem) ==
  tried \cup IF problem = "period_missing" THEN {"period"}
             ELSE IF problem = "empty_result" THEN {"empty"} ELSE {}

(* No new attempt is made once the repairs or the time are used up.          *)
OutOfRepairs == repairs >= MaxRepairs
OutOfTime == elapsed' > BudgetS

\* mutant: the reason of the attempt is left as it was
RepairAsBefore(problem) ==
  /\ repairs' = repairs + 1
  /\ told' = problem
  /\ pc' = "generate"
  /\ UNCHANGED <<why, answer>>

RepairNext(problem) ==
  /\ repairs' = repairs + 1
  /\ why' = problem
  /\ told' = problem
  /\ pc' = "generate"
  /\ UNCHANGED answer

Keep == pc' = "verify" /\ UNCHANGED <<repairs, why, told, answer>>
Fail == End("error") /\ UNCHANGED <<repairs, why, told>>

(* The query ran.  A result with a caveat beats no result.                   *)
Ran ==
  /\ pc = "reply"
  /\ TimePasses
  /\ \E facts \in SUBSET Facts :
       LET problem == Problem(facts)
       IN /\ attempts' = Append(attempts, [why |-> why, problem |-> problem])
          /\ tried' = Marked(problem)
          /\ found' = facts
          /\ IF problem = None \/ OutOfRepairs \/ OutOfTime THEN Keep ELSE RepairNext(problem)
  /\ UNCHANGED <<clarified, moved, asks, try, Halves>>

(* The guard or the database rejected it.                                    *)
Rejected ==
  /\ pc = "reply"
  /\ TimePasses
  /\ \E problem \in {"guard_rejected", "sql_error"} :
       /\ attempts' = Append(attempts, [why |-> why, problem |-> problem])
       /\ IF OutOfRepairs \/ OutOfTime THEN Fail ELSE RepairNext(problem)
  /\ UNCHANGED <<clarified, moved, asks, try, tried, found, Halves>>

TimedOut ==
  /\ pc = "reply"
  /\ TimePasses
  /\ End("error")
  /\ UNCHANGED <<clarified, moved, asks, try, Loop, Halves>>

----------------------------------------------------------------------------
(* The rest of _run.                                                         *)

(* Another request of the session publishes a new catalog: the next attempt   *)
(* reads it, the rest of _run has the one from before the loop.              *)
CatalogMoves ==
  /\ pc \in {"generate", "reply"}
  /\ ~moved
  /\ moved' = TRUE
  /\ UNCHANGED <<clarified, pc, elapsed, asks, try, Loop, Halves, answer>>

(* Caveats and signals are computed again from the query that was kept: by    *)
(* another catalog the same query may look better or worse.                  *)
Observed == {s \in {"fan_out", "period_unfiltered"} :
               \/ s = "fan_out" /\ "fan_out" \in found
               \/ s = "period_unfiltered" /\ "period" \in found}

Verify ==
  /\ pc = "verify"
  /\ signals' \in IF moved THEN SUBSET {"fan_out", "period_unfiltered"} ELSE {Observed}
  /\ pc' = "halves"
  /\ cross' = "running"
  /\ narration' = "running"
  /\ UNCHANGED <<clarified, moved, elapsed, asks, try, Loop, answer>>

CrossCheck ==
  /\ cross = "running"
  /\ cross' \in {"agreed", "disagreed", "unavailable", "skipped"}
  /\ UNCHANGED <<clarified, moved, pc, elapsed, asks, try, Loop, narration, signals, answer>>

\* "failed": something narrate() does not expect; the pool still waits for the other half
Narrate ==
  /\ narration = "running"
  /\ narration' \in {"written", "fallback", "failed"}
  /\ UNCHANGED <<clarified, moved, pc, elapsed, asks, try, Loop, cross, signals, answer>>

AllSignals ==
  signals \cup ({cross} \cap Signals) \cup
  (IF narration = "fallback" THEN {"narration_fallback"} ELSE {})

Finish ==
  /\ pc = "halves"
  /\ "running" \notin {cross, narration}
  /\ IF narration = "failed" THEN End("error") /\ UNCHANGED signals
     ELSE \E extra \in SUBSET Extras :
            /\ signals' = AllSignals \cup extra
            /\ answer' = [kind |-> "answer", level |-> Level(signals', repairs)]
            /\ pc' = "done"
  /\ UNCHANGED <<clarified, moved, elapsed, asks, try, Loop, cross, narration>>

Next == \/ Complete \/ AsksAgain \/ NoSql \/ Ran \/ Rejected \/ TimedOut
        \/ CatalogMoves \/ Verify \/ CrossCheck \/ Narrate \/ Finish

(* Every call the question waits for returns: model calls and queries have   *)
(* timeouts, and the two halves run on threads of their own.                 *)
Spec == Init /\ [][Next]_vars /\ WF_vars(Next) /\ WF_vars(CrossCheck) /\ WF_vars(Narrate)

----------------------------------------------------------------------------
(* Properties.                                                               *)

(* Every variable has its type: the state of the code named above.            *)
TypeOK ==
  /\ clarified \in BOOLEAN /\ moved \in BOOLEAN
  /\ pc \in {"generate", "reply", "verify", "halves", "done"}
  /\ elapsed \in 0..(BudgetS + 1)
  /\ asks \in Nat
  /\ try \in 1..2
  /\ repairs \in 0..MaxRepairs
  /\ why \in Problems \cup {"initial"}
  /\ told \in Problems \cup {None, "choice"}
  /\ tried \subseteq {"period", "empty", "asked"}
  /\ attempts \in Seq([why : Problems \cup {"initial"}, problem : Problems \cup {None}])
  /\ found \subseteq Facts
  /\ cross \in {"idle", "running", "agreed", "disagreed", "unavailable", "skipped"}
  /\ narration \in {"idle", "running", "written", "fallback", "failed"}
  /\ signals \subseteq Signals
  /\ answer \in [kind : Kinds \cup {None}, level : Levels \cup {None}]

(* One question costs a bounded number of completions whatever the model     *)
(* replies: first try, MAX_REPAIRS repairs and one repeated clarification,   *)
(* two completions each.                                                     *)
CallsBounded == asks <= MostAsks

(* The attempts under "How I got this" tell the story of the loop: the first *)
(* is the initial one, every other was made for the problem of the one       *)
(* before it, and there is one more of them than there were repairs.         *)
AttemptsChain ==
  /\ \A i \in DOMAIN attempts :
       attempts[i].why = IF i = 1 THEN "initial" ELSE attempts[i - 1].problem
  /\ pc \in {"verify", "halves"} => Len(attempts) = repairs + 1

(* An answer with something wrong with it never wears the best badge: not    *)
(* one whose rows may be counted twice, nor one a second model disagrees     *)
(* with, however good the rest looks; and one that ignores the period in the *)
(* question only when the time ran out before a repair was tried, or when    *)
(* the catalog has changed since and the loop saw no period to repair.       *)
BadgeIsHonest ==
  answer.level = "high" =>
    /\ {"fan_out", "disagreed"} \cap signals = {}
    /\ "period_unfiltered" \in signals => moved \/ (repairs = 0 /\ elapsed > BudgetS)

(* What is wrong with a result is kept only after the repair it deserves:    *)
(* a doubled count after every repair, an empty result or a missing period   *)
(* after one attempt was repaired for just that, unless the repairs or the   *)
(* time ran out.                                                             *)
Repaired(problem) == \E i \in DOMAIN attempts : attempts[i].problem = problem
KeptForAReason ==
  (pc = "verify" /\ repairs < MaxRepairs /\ elapsed <= BudgetS) =>
    /\ "fan_out" \notin found
    /\ "period" \in found => Repaired("period_missing")
    /\ "empty" \in found => Repaired("empty_result")

(* Every question ends.                                                      *)
QuestionEnds == <>(pc = "done")

(* "No new attempt starts after this long."                                  *)
NoLateAttempt == [][pc # "generate" /\ pc' = "generate" => elapsed' <= BudgetS]_vars

(* "`why` records why the attempt was made": the reason recorded is the      *)
(* problem the model was told about.                                         *)
ReasonIsTold == [][attempts' # attempts => why = told \/ (why = "initial" /\ told = None)]_vars
=============================================================================
