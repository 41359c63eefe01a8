----------------------------- MODULE MCLlmPool -----------------------------
(* Two questions over two entries, the second entry named twice by a chain.  *)
(* Race: three questions at once of one entry that no call may wait for.     *)
EXTENDS LlmPool

CONSTANTS c1, c2, c3, e1, e2

MCChain == c1 :> <<e1, e2, e1>> @@ c2 :> <<e1>>
MCAvoided == c1 :> {} @@ c2 :> {e2}
MCPrompt == c1 :> "a" @@ c2 :> "b"
MCNeed == c1 :> 1 @@ c2 :> 2

RaceChain == [c \in {c1, c2, c3} |-> <<e1>>]
RaceAvoided == [c \in {c1, c2, c3} |-> {}]
RacePrompt == c1 :> "a" @@ c2 :> "b" @@ c3 :> "c"
RaceNeed == [c \in {c1, c2, c3} |-> 2]
=============================================================================
