---------------------------- MODULE SlidingWindow ----------------------------
(***************************************************************************)
(* app/limits.py, class SlidingWindow: the one counter every limit of the  *)
(* demo is made of.  A key's hits are kept in an OrderedDict; expired ones *)
(* are dropped when the key is next seen, and the least recently seen key  *)
(* is forgotten when more than MaxKeys are stored.                         *)
(*                                                                         *)
(* A list of times is modelled as a set of numbered hits: the code only    *)
(* asks for its length, its first and its last member.  One call is one    *)
(* step (it runs under the object's lock), but its time is an argument:    *)
(* Limits._charge reads the clock before the lock is taken, so calls of    *)
(* different threads may be served out of the order of their times, and a  *)
(* call is served with any time up to Dawdle ago.  A clock tick is a       *)
(* fraction of a second, so that the rounding of the retry hint shows.     *)
(***************************************************************************)
EXTENDS Integers, Sequences, FiniteSets

CONSTANTS Keys,        (* addresses, user ids or session ids              *)
          Limit,       (* hits a key may have inside one window           *)
          Window,      (* length of the window, in ticks                  *)
          MaxKeys,     (* keys the counter stores                         *)
          SecondTicks, (* ticks in a second                               *)
          Dawdle,      (* no thread waits longer than this for the lock   *)
          MaxTime      (* BOUND of the model: the clock stops here        *)

ASSUME WindowAssumption ==
  /\ Limit \in Nat \ {0}   \* zero switches the kind of request off
  /\ Window \in Nat \ {0}
  /\ MaxKeys \in Nat \ {0}
  /\ SecondTicks \in Nat \ {0}
  /\ {Dawdle, MaxTime} \subseteq Nat

VARIABLES now,     (* the injected monotonic clock                        *)
          hits,    (* _hits: the stored hits of each key                  *)
          order,   (* _hits: its stored keys, least recently seen first   *)
          reply,   (* what the last allow() returned, and for which key   *)
          log,     (* history: hits neither refunded nor evicted          *)
          serial,  (* history: numbers the hits of a key                  *)
          promise  (* history: when the last refusal said to come back    *)

windowVars == <<now, hits, order, reply, log, serial, promise>>

Hit == [at : Nat, n : Nat \ {0}]

NoPromise == 0

(* What _charge may have read when its call is served now. *)
Reads == {t \in 0..now : now - t <= Dawdle}

(* Hits of S still inside the window for a call that read t. *)
RecentDropsEarly(S, t) == {h \in S : t + 1 - h.at < Window}
Recent(S, t) == {h \in S : t - h.at < Window}

HasRoomOffByOne(S) == Cardinality(S) <= Limit
HasRoom(S) == Cardinality(S) < Limit

IsNewest(h, S) == \A g \in S : g.n <= h.n

IsOldest(h, S) == \A g \in S : h.n <= g.n

(* dict.pop(k): the sequence without k, wherever it was. *)
Position(s, k) == CHOOSE i \in 1..Len(s) : s[i] = k
Pop(s, k) ==
  IF \E i \in 1..Len(s) : s[i] = k
  THEN SubSeq(s, 1, Position(s, k) - 1) \o SubSeq(s, Position(s, k) + 1, Len(s))
  ELSE s

(* Put back at the end, so the head is whoever was seen longest ago. *)
Touched(k, kept) == IF kept = {} THEN Pop(order, k) ELSE Append(Pop(order, k), k)

Evicted(seen) == IF Len(seen) > MaxKeys THEN {Head(seen)} ELSE {}

Trimmed(seen) == IF Len(seen) > MaxKeys THEN Tail(seen) ELSE seen

(* Whole seconds, rounded up, until the first stored hit expires. *)
RetryRoundedDown(oldest, t) == (oldest.at + Window - t) \div SecondTicks
RetrySeconds(oldest, t) == (oldest.at + Window - t + SecondTicks - 1) \div SecondTicks

WindowInit ==
  /\ now = 0
  /\ hits = [k \in Keys |-> {}]
  /\ order = <<>>
  /\ reply \in [key : Keys, ok : {TRUE}]
  /\ log = [k \in Keys |-> {}]
  /\ serial = [k \in Keys |-> 0]
  /\ promise = [k \in Keys |-> NoPromise]

(* The dictionary after key k's hits became `kept`: k moves to the end and *)
(* whoever was seen longest ago is forgotten if that is one key too many.  *)
Store(k, kept, logged, numbered, promised) ==
  LET seen == Touched(k, kept)
      gone == Evicted(seen)
      Put(f, new, empty) ==
        [j \in Keys |-> IF j \in gone THEN empty ELSE IF j = k THEN new ELSE f[j]]
  IN  /\ order' = Trimmed(seen)
      /\ hits' = Put(hits, kept, {})
      /\ log' = Put(log, logged, {})
      /\ serial' = Put(serial, numbered, 0)
      /\ promise' = Put(promise, promised, NoPromise)

(* allow(), the branch that counts a hit. *)
AllowYes(k) ==
  \E t \in Reads :
    LET live == Recent(hits[k], t)
        hit == [at |-> t, n |-> serial[k] + 1]
    IN  /\ HasRoom(live)
        /\ Store(k, live \cup {hit}, log[k] \cup {hit}, serial[k] + 1, NoPromise)
        /\ reply' = [key |-> k, ok |-> TRUE]
        /\ UNCHANGED now

(* allow(), the branch that refuses: expired hits go, nothing is counted. *)
AllowNo(k) ==
  \E t \in Reads :
    LET live == Recent(hits[k], t)
    IN  /\ ~HasRoom(live)
        /\ \E oldest \in live :
             /\ IsOldest(oldest, live)
             /\ Store(k, live, log[k], serial[k], t + SecondTicks * RetrySeconds(oldest, t))
        /\ reply' = [key |-> k, ok |-> FALSE]
        /\ UNCHANGED now

(* refund(): takes the hit stored last; a key that is not stored is fine. *)
OrderAfterRefund(k, h) == IF hits[k] = {h} THEN Pop(order, k) ELSE order

Refund(k) ==
  \E h \in hits[k] :
    /\ IsNewest(h, hits[k])
    /\ hits' = [hits EXCEPT ![k] = @ \ {h}]
    /\ order' = OrderAfterRefund(k, h)
    /\ log' = [log EXCEPT ![k] = @ \ {h}]
    /\ serial' = [serial EXCEPT ![k] = IF h.n = @ THEN @ - 1 ELSE @]
    /\ promise' = [promise EXCEPT ![k] = NoPromise]
    /\ UNCHANGED <<now, reply>>

Tick ==
  /\ now < MaxTime
  /\ now' = now + 1
  /\ UNCHANGED <<hits, order, reply, log, serial, promise>>

WindowNext == Tick \/ \E k \in Keys : AllowYes(k) \/ AllowNo(k) \/ Refund(k)

WindowSpec == WindowInit /\ [][WindowNext]_windowVars

-----------------------------------------------------------------------------
(* Types, and the memory bound: never more than MaxKeys stored keys. *)
WindowTypeOK ==
  /\ now \in Nat
  /\ hits \in [Keys -> SUBSET Hit]
  /\ order \in Seq(Keys) /\ Len(order) <= MaxKeys
  /\ reply \in [key : Keys, ok : BOOLEAN]
  /\ log \in [Keys -> SUBSET Hit]
  /\ serial \in [Keys -> Nat]
  /\ promise \in [Keys -> Int]

(* At most Limit hits of a key in any span of time, wherever it starts (no *)
(* two allowances back to back across a boundary), whatever mixture of     *)
(* expiry, refunds, evictions and late calls occurs.  What late calls cost *)
(* is the length of the span: Window less the longest wait for the lock.   *)
FitsEverySpan(length) ==
  \A k \in Keys : \A start \in 0..now :
    Cardinality({h \in log[k] : start <= h.at /\ h.at < start + length}) <= Limit

WithinLimit == FitsEverySpan(Window - Dawdle)

(* The class docstring, "limit hits per key in any window_s seconds".  It  *)
(* fails: a call that read the clock early and is served late finds hits   *)
(* gone that a call with a later time has dropped.                         *)
InAnyWindow == FitsEverySpan(Window)

(* The recency list and the hit lists tell the same story: exactly the     *)
(* keys with hits are listed, each of them once.                           *)
OrderMatches ==
  /\ \A k \in Keys : hits[k] # {} <=> \E i \in 1..Len(order) : order[i] = k
  /\ \A i, j \in 1..Len(order) : order[i] = order[j] => i = j

(* "Returns seconds until a retry can succeed": a call that reads the      *)
(* clock when that many seconds have passed, or later, finds room, however *)
(* long it then waits for the lock, if nobody used the key meanwhile.      *)
PromiseKept ==
  \A k \in Keys, t \in 0..now :
    promise[k] # NoPromise /\ t >= promise[k] => HasRoom(Recent(hits[k], t))

(* The hint is the earliest whole second: nobody gets in more than one     *)
(* second (and the wait for a lock) before the time the refusal named.     *)
PromiseIsTight ==
  [][\A k \in Keys : \A h \in log'[k] \ log[k] :
       promise[k] # NoPromise => h.at + SecondTicks + Dawdle > promise[k]]_windowVars

(* The counter with expiry on sight, bounded memory and refunds decides    *)
(* like one that remembers everything: never a refusal too many, and an    *)
(* admission too many only of hits that a call with a later time, at most  *)
(* Dawdle later, saw expire; a key just served is never the one forgotten. *)
Promised ==
  INSTANCE RateLimit WITH
    Keys <- Keys, Limit <- Limit, Window <- Window, Dawdle <- Dawdle,
    now <- now, log <- log, reply <- reply
DecidesAlike == Promised!Spec
=============================================================================
