------------------------------ MODULE RateLimit ------------------------------
(***************************************************************************)
(* What a rate limiter promises its caller, with a perfect memory.  Each   *)
(* request carries the time its thread read before its turn came.  It is   *)
(* refused only if Limit hits of its key are younger than Window by that   *)
(* time, and admitted only if fewer than Limit are younger than Window     *)
(* less the longest wait for a turn; without a wait the two meet.  Nothing *)
(* is ever expired from the log; the only losses are the ones the code     *)
(* announces, a refund and the eviction of OTHER keys when memory is short.*)
(*                                                                         *)
(* A specification, not a translation: SlidingWindow implements it         *)
(* (SlidingWindow!DecidesAlike).                                           *)
(***************************************************************************)
EXTENDS Integers, FiniteSets

CONSTANTS Keys,    (* addresses, user ids or session ids                  *)
          Limit,   (* admitted hits per window                            *)
          Window,  (* length of the window, in clock ticks                *)
          Dawdle   (* the longest wait between reading the clock and a turn *)

VARIABLES now,     (* the clock                                           *)
          log,     (* every hit of a key not refunded and not forgotten   *)
          reply    (* the last call: its key, and whether it was admitted *)

vars == <<now, log, reply>>

Times == {t \in 0..now : now - t <= Dawdle}

Younger(S, t, age) == {h \in S : t - h.at < age}

(* Keys other than k may be forgotten when k is served, never k itself. *)
Forgetting(k, kept) ==
  \E gone \in SUBSET (Keys \ {k}) :
    log' = [j \in Keys |-> IF j \in gone THEN {} ELSE IF j = k THEN kept ELSE log[j]]

Admit(k) ==
  /\ \E t \in Times :
       /\ Cardinality(Younger(log[k], t, Window - Dawdle)) < Limit
       /\ \E h \in log'[k] :
            /\ h.at = t
            /\ \A g \in log[k] : g.n < h.n
            /\ Forgetting(k, log[k] \cup {h})
  /\ reply' = [key |-> k, ok |-> TRUE]
  /\ UNCHANGED now

Refuse(k) ==
  /\ \E t \in Times : Cardinality(Younger(log[k], t, Window)) >= Limit
  /\ Forgetting(k, log[k])
  /\ reply' = [key |-> k, ok |-> FALSE]
  /\ UNCHANGED now

(* No hit that still counts is newer than the one given back.  Newer hits  *)
(* have larger numbers.                                                    *)
GiveBack(k) ==
  /\ \E h \in log[k] :
       /\ \A g \in Younger(log[k], now, Window) : g.n <= h.n
       /\ log' = [log EXCEPT ![k] = @ \ {h}]
  /\ UNCHANGED <<now, reply>>

TimePasses == now' = now + 1 /\ UNCHANGED <<log, reply>>

Init ==
  /\ now = 0
  /\ log = [k \in Keys |-> {}]
  /\ reply \in [key : Keys, ok : {TRUE}]

Next == TimePasses \/ \E k \in Keys : Admit(k) \/ Refuse(k) \/ GiveBack(k)

Spec == Init /\ [][Next]_vars
=============================================================================
