----------------------------- MODULE MCMcpServer -----------------------------
(* An agent with one question left to ask, that sends right and wrong calls. *)
EXTENDS McpServer

Plainly(id, call) == [ill |-> FALSE, id |-> id, call |-> call, flag |-> "absent",
                      session |-> "mine", words |-> TRUE]

MCMessages ==
  {Plainly("own", c) : c \in Plain \cup Tools}
  \cup {Plainly(i, "ask") : i \in {"none", "null", "bad"}}
  \cup {[Plainly(i, "ping") EXCEPT !.ill = TRUE] : i \in {"none", "own"}}
  \cup {[Plainly("own", "ask") EXCEPT !.flag = f] : f \in {"true", "text"}}
  \cup {[Plainly("own", "ask") EXCEPT !.words = FALSE],
        [Plainly("own", "ask") EXCEPT !.session = "foreign"],
        [Plainly("own", "run_analysis") EXCEPT !.flag = "text"],
        [Plainly("own", "get_overview") EXCEPT !.session = "missing"]}
=============================================================================
