----------------------------- MODULE MCAnswering -----------------------------
(* Questions q1 and q2 are asked of one session and q3 of another, which   *)
(* starts with the same files; all but q2 ask the same thing.              *)
EXTENDS Answering, TLC

CONSTANTS q1, q2, q3, q4, s1, s2

SpreadOut == q1 :> s1 @@ q2 :> s1 @@ q3 :> s2
Asked == q1 :> "pay" @@ q2 :> "leave" @@ q3 :> "pay"

OneChange == [s \in Sessions |-> IF s = s1 THEN 1 ELSE 0]

(* Questions asked of one session: two, and four that take turns. *)
Together == q1 :> s1 @@ q2 :> s1
InTurn == q1 :> s1 @@ q2 :> s1 @@ q3 :> s1 @@ q4 :> s1
AskedInTurn == q1 :> "pay" @@ q2 :> "leave" @@ q3 :> "pay" @@ q4 :> "leave"
=============================================================================
