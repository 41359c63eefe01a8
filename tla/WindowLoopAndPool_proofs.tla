--------------------- MODULE WindowLoopAndPool_proofs ---------------------
(* Proofs about modules SlidingWindow, Attempts and LlmPool, what is rationed: *)
(* for every set of keys, limit, window and memory bound, the counter never    *)
(* admits too much and implements RateLimit; for every number of repairs,      *)
(* budget, delay, chain of entries, number of calls, cooldown and allowance,   *)
(* what the loop costs, tells and keeps, what its badge is worth, what is held *)
(* against an entry's allowance, how long a rejected key rests, whom a call    *)
(* asks and how long it waits.                                                 *)
EXTENDS SlidingWindow, Attempts, LlmPool, SequenceTheorems, FiniteSetTheorems, TLAPS

----------------------------------------------------------------------------
(* The sliding window.                                                         *)

NoRepeats(s) == \A i, j \in 1..Len(s) : s[i] = s[j] => i = j

(* What history and store have in common.  Only hits that no call may count *)
(* any more are missing from the store, and of two hits the later counted   *)
(* one is not much older.                                                   *)
Consistent ==
  \A k \in Keys :
    /\ IsFiniteSet(log[k])
    /\ hits[k] \subseteq log[k]
    /\ Cardinality(hits[k]) <= Limit
    /\ Recent(log[k], now) \subseteq hits[k]
    /\ \A h \in log[k] : h.at <= now /\ h.n <= serial[k]
    /\ \A g, h \in log[k] : g.n = h.n => g = h
    /\ \A g, h \in log[k] : g.n < h.n => g.at <= h.at + Dawdle

(* The inductive invariant. *)
WindowInv == WindowTypeOK /\ NoRepeats(order) /\ Consistent /\ WithinLimit

(* Removing a key from a list without repeats leaves a list of the others. *)
LEMMA PopProperties ==
  ASSUME NEW s \in Seq(Keys), NoRepeats(s), NEW k \in Keys
  PROVE  /\ Pop(s, k) \in Seq(Keys)
         /\ Len(Pop(s, k)) <= Len(s)
         /\ NoRepeats(Pop(s, k))
         /\ \A i \in 1..Len(Pop(s, k)) : Pop(s, k)[i] # k
         /\ (\E i \in 1..Len(s) : s[i] = k) => Len(Pop(s, k)) = Len(s) - 1
<1>1. CASE ~ \E i \in 1..Len(s) : s[i] = k
  BY <1>1 DEF Pop, NoRepeats
<1>2. CASE \E i \in 1..Len(s) : s[i] = k
  <2> DEFINE p == Position(s, k)
             front == SubSeq(s, 1, p - 1)
             back == SubSeq(s, p + 1, Len(s))
  <2>1. p \in 1..Len(s) /\ s[p] = k
    BY <1>2 DEF Position
  <2>2. Len(s) \in Nat /\ \A i \in 1..Len(s) : s[i] \in Keys
    BY LenProperties, ElementOfSeq
  <2>3. /\ front \in Seq(Keys)
        /\ Len(front) = p - 1
        /\ \A i \in 1..(p - 1) : front[i] = s[i]
    <3>1. \A i \in 1..(p - 1) : s[i] \in Keys
      BY <2>1, <2>2
    <3>2. /\ front \in Seq(Keys)
          /\ Len(front) = IF 1 <= p - 1 THEN p - 1 - 1 + 1 ELSE 0
          /\ \A i \in 1..(p - 1 - 1 + 1) : front[i] = s[1 + i - 1]
      BY <2>1, <2>2, <3>1, SubSeqProperties
    <3> QED BY <2>1, <2>2, <3>2
  <2>4. /\ back \in Seq(Keys)
        /\ Len(back) = Len(s) - p
        /\ \A i \in 1..(Len(s) - p) : back[i] = s[p + i]
    <3>1. \A i \in (p + 1)..Len(s) : s[i] \in Keys
      BY <2>1, <2>2
    <3>2. /\ back \in Seq(Keys)
          /\ Len(back) = IF p + 1 <= Len(s) THEN Len(s) - (p + 1) + 1 ELSE 0
          /\ \A i \in 1..(Len(s) - (p + 1) + 1) : back[i] = s[(p + 1) + i - 1]
      BY <2>1, <2>2, <3>1, SubSeqProperties
    <3> QED BY <2>1, <2>2, <3>2
  <2>5. Pop(s, k) = front \o back
    BY <1>2 DEF Pop
  <2>6. /\ Pop(s, k) \in Seq(Keys)
        /\ Len(Pop(s, k)) = Len(s) - 1
        /\ \A i \in 1..(Len(s) - 1) : Pop(s, k)[i] = IF i <= p - 1 THEN s[i] ELSE s[i + 1]
    <3> HIDE DEF front, back, p
    <3>1. /\ front \o back \in Seq(Keys)
          /\ Len(front \o back) = Len(front) + Len(back)
          /\ \A i \in 1..(Len(front) + Len(back)) :
               (front \o back)[i] = IF i <= Len(front) THEN front[i] ELSE back[i - Len(front)]
      BY <2>3, <2>4, ConcatProperties
    <3> QED BY <2>1, <2>2, <2>3, <2>4, <2>5, <3>1
  <2> HIDE DEF front, back, p
  <2>7. \A i \in 1..(Len(s) - 1) : Pop(s, k)[i] # k
    BY <2>1, <2>2, <2>6 DEF NoRepeats
  <2>8. \A i, j \in 1..(Len(s) - 1) : Pop(s, k)[i] = Pop(s, k)[j] => i = j
    BY <2>1, <2>2, <2>6 DEF NoRepeats
  <2>9. NoRepeats(Pop(s, k))
    BY <2>6, <2>8 DEF NoRepeats
  <2> QED BY <2>2, <2>6, <2>7, <2>9
<1> QED BY <1>1, <1>2

-----------------------------------------------------------------------------
(* The recency list after a call: typed, bounded, free of repeats, and the *)
(* key just served is not the one that is dropped.                         *)
LEMMA StoreKeepsOrder ==
  ASSUME order \in Seq(Keys), Len(order) <= MaxKeys, NoRepeats(order),
         NEW k \in Keys, NEW kept
  PROVE  /\ Trimmed(Touched(k, kept)) \in Seq(Keys)
         /\ Len(Trimmed(Touched(k, kept))) <= MaxKeys
         /\ NoRepeats(Trimmed(Touched(k, kept)))
         /\ Evicted(Touched(k, kept)) \in SUBSET (Keys \ {k})
<1> DEFINE rest == Pop(order, k)
           seen == Touched(k, kept)
<1>1. /\ rest \in Seq(Keys) /\ Len(rest) \in Nat /\ Len(rest) <= Len(order)
      /\ NoRepeats(rest) /\ \A i \in 1..Len(rest) : rest[i] # k
      /\ \A i \in 1..Len(rest) : rest[i] \in Keys
  BY PopProperties, LenProperties, ElementOfSeq
<1>2. MaxKeys \in Nat \ {0} /\ Len(order) \in Nat
  BY WindowAssumption, LenProperties
<1> HIDE DEF rest
<1>3. CASE kept = {}
  <2>1. seen = rest
    BY <1>3 DEF Touched, rest
  <2> QED BY <1>1, <1>2, <2>1 DEF Trimmed, Evicted
<1>4. CASE kept # {}
  <2>1. seen = Append(rest, k)
    BY <1>4 DEF Touched, rest
  <2>2. /\ seen \in Seq(Keys) /\ Len(seen) = Len(rest) + 1
        /\ \A i \in 1..Len(rest) : seen[i] = rest[i]
        /\ seen[Len(rest) + 1] = k
    BY <1>1, <2>1
  <2> HIDE DEF seen
  <2>3. NoRepeats(seen)
    <3> SUFFICES ASSUME NEW i \in 1..Len(seen), NEW j \in 1..Len(seen), seen[i] = seen[j]
                 PROVE  i = j
      BY DEF NoRepeats
    <3>1. /\ i \in 1..Len(rest) \/ i = Len(rest) + 1
          /\ j \in 1..Len(rest) \/ j = Len(rest) + 1
      BY <1>1, <2>2
    <3>2. ASSUME i \in 1..Len(rest), j \in 1..Len(rest) PROVE i = j
      <4>1. rest[i] = rest[j] BY <2>2, <3>2
      <4>2. QED BY <1>1, <3>2, <4>1 DEF NoRepeats
    <3>3. ASSUME i \in 1..Len(rest), j = Len(rest) + 1 PROVE FALSE BY <1>1, <2>2, <3>3
    <3>4. ASSUME i = Len(rest) + 1, j \in 1..Len(rest) PROVE FALSE BY <1>1, <2>2, <3>4
    <3>5. QED BY <3>1, <3>2, <3>3, <3>4
  <2>4. CASE Len(seen) <= MaxKeys
    BY <1>1, <1>2, <2>2, <2>3, <2>4 DEF Trimmed, Evicted, seen
  <2>5. CASE Len(seen) > MaxKeys
    <3>1. /\ Tail(seen) \in Seq(Keys) /\ Len(Tail(seen)) = Len(seen) - 1
          /\ \A i \in 1..(Len(seen) - 1) : Tail(seen)[i] = seen[i + 1]
      BY <1>1, <1>2, <2>2, <2>5
    <3>2. NoRepeats(Tail(seen))
      <4> SUFFICES ASSUME NEW i \in 1..(Len(seen) - 1), NEW j \in 1..(Len(seen) - 1), Tail(seen)[i] = Tail(seen)[j]
                   PROVE  i = j
        BY <1>1, <2>2, <3>1 DEF NoRepeats
      <4>1. i + 1 \in 1..Len(seen) /\ j + 1 \in 1..Len(seen) BY <1>1, <2>2
      <4>2. seen[i + 1] = seen[j + 1] BY <3>1
      <4>3. i + 1 = j + 1 BY <2>3, <4>1, <4>2 DEF NoRepeats
      <4>4. QED BY <4>3
    <3>3. Head(seen) = seen[1] /\ seen[1] \in Keys \ {k}
      BY <1>1, <1>2, <2>2, <2>5
    <3> QED BY <1>1, <1>2, <2>2, <2>5, <3>1, <3>2, <3>3 DEF Trimmed, Evicted, seen
  <2> QED BY <1>1, <1>2, <2>2, <2>4, <2>5
<1> QED BY <1>3, <1>4

-----------------------------------------------------------------------------
LEMMA InitWindowInv == WindowInit => WindowInv
<1> SUFFICES ASSUME WindowInit PROVE WindowInv
  OBVIOUS
<1>1. WindowTypeOK
  <2>1. order \in Seq(Keys) /\ Len(order) = 0
    BY EmptySeq DEF WindowInit
  <2>2. reply \in [key : Keys, ok : BOOLEAN]
    BY Zenon DEF WindowInit
  <2>3. MaxKeys \in Nat
    BY WindowAssumption
  <2>4. /\ hits \in [Keys -> SUBSET Hit] /\ log \in [Keys -> SUBSET Hit]
        /\ serial \in [Keys -> Nat] /\ promise \in [Keys -> Int] /\ now \in Nat
    BY DEF WindowInit, NoPromise
  <2> QED BY <2>1, <2>2, <2>3, <2>4 DEF WindowTypeOK
<1>2. NoRepeats(order) /\ Consistent
  BY FS_EmptySet, WindowAssumption DEF WindowInit, NoRepeats, Consistent, Recent
<1>3. WithinLimit
  <2> SUFFICES ASSUME NEW k \in Keys, NEW start \in 0..now
               PROVE  Cardinality({h \in log[k] : start <= h.at /\ h.at < start + (Window - Dawdle)}) <= Limit
    BY DEF WithinLimit, FitsEverySpan
  <2>1. PICK S : S = {h \in log[k] : start <= h.at /\ h.at < start + (Window - Dawdle)}
    OBVIOUS
  <2>2. S = {}
    BY <2>1 DEF WindowInit
  <2>3. Cardinality(S) = 0
    BY <2>2, FS_EmptySet
  <2> QED BY <2>1, <2>3, WindowAssumption
<1> QED BY <1>1, <1>2, <1>3 DEF WindowInv

(* A window of a finite history holds no more hits than any finite set     *)
(* around it.                                                              *)
LEMMA SmallerWindow ==
  ASSUME NEW S, NEW T, IsFiniteSet(S), T \subseteq S, Cardinality(S) <= Limit
  PROVE  IsFiniteSet(T) /\ Cardinality(T) <= Limit
<1>1. T \in SUBSET S
  OBVIOUS
<1>2. IsFiniteSet(T) /\ Cardinality(T) <= Cardinality(S)
  BY <1>1, FS_Subset
<1> QED BY <1>2, FS_CardinalityType, WindowAssumption

(* The hits of S within the span of time that WithinLimit is about.        *)
Spanned(S, start) == {h \in S : start <= h.at /\ h.at < start + (Window - Dawdle)}

(* A call is served at most Dawdle after it read the clock.                *)
LEMMA ReadsAre ==
  ASSUME WindowTypeOK, NEW t \in Reads
  PROVE  t \in Nat /\ t <= now /\ now <= t + Dawdle /\ now \in Nat
BY WindowAssumption DEF Reads, WindowTypeOK

(* What is still counted of the store, and that it is never too much.      *)
LEMMA LiveFits ==
  ASSUME WindowInv, NEW k \in Keys, NEW t
  PROVE  /\ IsFiniteSet(Recent(hits[k], t)) /\ Cardinality(Recent(hits[k], t)) \in Nat
         /\ Cardinality(Recent(hits[k], t)) <= Limit
         /\ IsFiniteSet(hits[k]) /\ Cardinality(hits[k]) \in Nat
<1>1. IsFiniteSet(hits[k]) /\ Cardinality(hits[k]) <= Limit
  BY FS_Subset DEF WindowInv, Consistent
<1>2. Recent(hits[k], t) \in SUBSET hits[k]
  BY DEF Recent
<1> QED BY <1>1, <1>2, SmallerWindow, FS_CardinalityType

(* One more element is at most one more.                                   *)
LEMMA OneMore ==
  ASSUME NEW S, IsFiniteSet(S), NEW e
  PROVE  /\ IsFiniteSet(S \cup {e})
         /\ Cardinality(S) \in Nat /\ Cardinality(S \cup {e}) \in Nat
         /\ Cardinality(S \cup {e}) <= Cardinality(S) + 1
BY FS_AddElement, FS_CardinalityType

LEMMA AllowYesStep ==
  ASSUME WindowInv, NEW k \in Keys, AllowYes(k)
  PROVE  WindowInv'
<1>0. PICK t \in Reads :
        LET live == Recent(hits[k], t)
            hit == [at |-> t, n |-> serial[k] + 1]
        IN  /\ HasRoom(live)
            /\ Store(k, live \cup {hit}, log[k] \cup {hit}, serial[k] + 1, NoPromise)
            /\ reply' = [key |-> k, ok |-> TRUE]
            /\ UNCHANGED now
  BY DEF AllowYes
<1> DEFINE live == Recent(hits[k], t)
           hit == [at |-> t, n |-> serial[k] + 1]
           kept == live \cup {hit}
           gone == Evicted(Touched(k, kept))
<1>t. t \in Nat /\ t <= now /\ now <= t + Dawdle /\ now \in Nat
  BY ReadsAre DEF WindowInv
<1>1. /\ gone \in SUBSET (Keys \ {k})
      /\ order' \in Seq(Keys) /\ Len(order') <= MaxKeys /\ NoRepeats(order')
  BY <1>0, StoreKeepsOrder DEF WindowInv, WindowTypeOK, Store
<1>2. /\ \A j \in Keys \ {k} : /\ hits'[j] = IF j \in gone THEN {} ELSE hits[j]
                               /\ log'[j] = IF j \in gone THEN {} ELSE log[j]
                               /\ serial'[j] = IF j \in gone THEN 0 ELSE serial[j]
      /\ hits'[k] = kept /\ log'[k] = log[k] \cup {hit} /\ serial'[k] = serial[k] + 1
      /\ now' = now
  BY <1>0, <1>1 DEF Store
<1>3. hit \in Hit
  BY <1>t DEF WindowInv, WindowTypeOK, Hit
<1>4. WindowTypeOK'
  <2> HIDE DEF gone
  <2>1. hits' \in [Keys -> SUBSET Hit] /\ log' \in [Keys -> SUBSET Hit]
    BY <1>0, <1>3 DEF WindowInv, WindowTypeOK, Store, Recent
  <2>2. serial' \in [Keys -> Nat] /\ promise' \in [Keys -> Int]
    BY <1>0 DEF WindowInv, WindowTypeOK, Store, NoPromise
  <2> QED BY <1>0, <1>1, <2>1, <2>2 DEF WindowInv, WindowTypeOK
<1> HIDE DEF gone
<1>5. IsFiniteSet(live) /\ Cardinality(live) \in Nat /\ Cardinality(live) < Limit /\ Limit \in Nat
  BY <1>0, LiveFits, WindowAssumption DEF HasRoom
<1>k. IsFiniteSet(kept) /\ Cardinality(kept) <= Limit
  <2> HIDE DEF live, hit
  <2>1. /\ IsFiniteSet(live \cup {hit}) /\ Cardinality(live \cup {hit}) \in Nat
        /\ Cardinality(live \cup {hit}) <= Cardinality(live) + 1
    BY <1>5, OneMore
  <2> QED BY <1>5, <2>1 DEF kept
<1>6. Consistent'
  <2> SUFFICES ASSUME NEW j \in Keys
               PROVE  /\ IsFiniteSet(log'[j])
                      /\ hits'[j] \subseteq log'[j]
                      /\ Cardinality(hits'[j]) <= Limit
                      /\ Recent(log'[j], now') \subseteq hits'[j]
                      /\ \A h \in log'[j] : h.at <= now' /\ h.n <= serial'[j]
                      /\ \A g, h \in log'[j] : g.n = h.n => g = h
                      /\ \A g, h \in log'[j] : g.n < h.n => g.at <= h.at + Dawdle
    BY DEF Consistent
  <2>1. CASE j # k
    <3>1. CASE j \in gone
      BY <1>2, <2>1, <3>1, FS_EmptySet, WindowAssumption DEF Recent
    <3>2. CASE j \notin gone
      BY <1>2, <2>1, <3>2 DEF WindowInv, Consistent
    <3> QED BY <3>1, <3>2
  <2>2. CASE j = k
    <3>1. IsFiniteSet(log'[k]) /\ Cardinality(hits'[k]) <= Limit
      <4> HIDE DEF live, hit
      <4>1. IsFiniteSet(log[k])
        BY DEF WindowInv, Consistent
      <4>2. IsFiniteSet(log[k] \cup {hit})
        BY <4>1, OneMore
      <4> HIDE DEF kept
      <4> QED BY <1>2, <1>k, <4>2
    <3>2. \A h \in log[k] : h \in Hit /\ h.at \in Nat /\ h.at <= now /\ h.n \in Nat /\ h.n <= serial[k]
      BY DEF WindowInv, WindowTypeOK, Consistent, Hit
    <3>3. hits'[k] \subseteq log'[k] /\ Recent(log'[k], now') \subseteq hits'[k]
      <4>1. hits[k] \subseteq log[k] /\ Recent(log[k], now) \subseteq hits[k]
        BY DEF WindowInv, Consistent
      <4>2. live \subseteq hits[k] /\ \A h \in hits[k] : t - h.at < Window => h \in live
        BY DEF Recent
      <4>3. ASSUME NEW h \in log[k], now - h.at < Window PROVE h \in live
        <5>1. t - h.at < Window
          BY <1>t, <3>2, <4>3, WindowAssumption
        <5>2. h \in hits[k]
          BY <4>1, <4>3 DEF Recent
        <5> QED BY <4>2, <5>1, <5>2
      <4> HIDE DEF live, hit
      <4>4. \A h \in Recent(log[k] \cup {hit}, now) : h \in log[k] \cup {hit} /\ now - h.at < Window
        BY DEF Recent
      <4>5. Recent(log[k] \cup {hit}, now) \subseteq live \cup {hit}
        BY <4>3, <4>4
      <4> QED BY <1>2, <4>1, <4>2, <4>5
    <3>4. /\ \A h \in log'[k] : h.at <= now' /\ h.n <= serial'[k]
          /\ \A g, h \in log'[k] : g.n = h.n => g = h
          /\ \A g, h \in log'[k] : g.n < h.n => g.at <= h.at + Dawdle
      <4>1. hit.at = t /\ hit.n = serial[k] + 1 /\ serial[k] \in Nat
        BY DEF WindowInv, WindowTypeOK
      <4>2. \A g, h \in log[k] : (g.n = h.n => g = h) /\ (g.n < h.n => g.at <= h.at + Dawdle)
        BY DEF WindowInv, Consistent
      <4> HIDE DEF live, hit, kept
      <4>3. \A h \in log'[k] : h = hit \/ h \in log[k]
        BY <1>2
      <4>4. \A h \in log'[k] : h.at <= now' /\ h.n <= serial'[k]
        BY <1>t, <1>2, <3>2, <4>1, <4>3
      <4>5. \A h \in log[k] : h.n # hit.n /\ ~(hit.n < h.n)
        BY <3>2, <4>1
      <4>6. \A g \in log[k] : g.at <= hit.at + Dawdle
        BY <1>t, <3>2, <4>1, WindowAssumption
      <4>7. hit.at \in Nat /\ hit.at <= hit.at + Dawdle /\ ~(hit.n < hit.n)
        BY <1>t, <4>1, WindowAssumption
      <4> QED BY <4>2, <4>3, <4>4, <4>5, <4>6, <4>7
    <3> QED BY <2>2, <3>1, <3>3, <3>4
  <2> QED BY <2>1, <2>2
<1>7. WithinLimit'
  <2> SUFFICES ASSUME NEW j \in Keys, NEW start \in 0..now
               PROVE  Cardinality(Spanned(log'[j], start)) <= Limit
    BY <1>2 DEF WithinLimit, FitsEverySpan, Spanned
  <2>1. CASE j # k
    <3>1. CASE j \in gone
      <4>1. Spanned(log'[j], start) = {}
        BY <1>2, <2>1, <3>1 DEF Spanned
      <4> QED BY <1>5, <4>1, FS_EmptySet
    <3>2. CASE j \notin gone
      BY <1>2, <2>1, <3>2 DEF WindowInv, WithinLimit, FitsEverySpan, Spanned
    <3> QED BY <3>1, <3>2
  <2>2. CASE j = k /\ hit \notin Spanned(log'[k], start)
    <3>1. Spanned(log'[k], start) = Spanned(log[k], start)
      BY <1>2, <2>2 DEF Spanned
    <3> QED BY <2>2, <3>1 DEF WindowInv, WithinLimit, FitsEverySpan, Spanned
  <2>3. CASE j = k /\ hit \in Spanned(log'[k], start)
    <3>1. start \in Nat /\ start <= t /\ t < start + (Window - Dawdle)
      BY <2>3 DEF Spanned
    <3>2. Spanned(log[k], start) \subseteq live
      <4> SUFFICES ASSUME NEW h \in Spanned(log[k], start) PROVE h \in live
        OBVIOUS
      <4>1. h \in log[k] /\ h.at \in Nat /\ start <= h.at
        BY DEF Spanned, WindowInv, WindowTypeOK, Hit
      <4>2. t - h.at < Window /\ now - h.at < Window
        BY <1>t, <3>1, <4>1, WindowAssumption
      <4> QED BY <4>1, <4>2 DEF WindowInv, Consistent, Recent
    <3>3. Spanned(log'[k], start) \subseteq Spanned(log[k], start) \cup {hit}
      BY <1>2 DEF Spanned
    <3>4. Spanned(log'[k], start) \subseteq live \cup {hit}
      BY <3>2, <3>3
    <3> HIDE DEF live, hit
    <3>5. IsFiniteSet(live \cup {hit}) /\ Cardinality(live \cup {hit}) <= Limit
      BY <1>k DEF kept
    <3> QED BY <2>3, <3>4, <3>5, SmallerWindow
  <2> QED BY <2>1, <2>2, <2>3
<1> QED BY <1>1, <1>4, <1>6, <1>7 DEF WindowInv

(* A refusal and the passing of time only let hits leave the store that    *)
(* have left the window.                                                   *)
LEMMA AllowNoStep ==
  ASSUME WindowInv, NEW k \in Keys, AllowNo(k)
  PROVE  WindowInv'
<1>r. PICK t \in Reads : \E oldest \in Recent(hits[k], t) :
        /\ Store(k, Recent(hits[k], t), log[k], serial[k], t + SecondTicks * RetrySeconds(oldest, t))
        /\ reply' = [key |-> k, ok |-> FALSE]
        /\ UNCHANGED now
  BY DEF AllowNo
<1>0. PICK oldest \in Recent(hits[k], t) :
        /\ Store(k, Recent(hits[k], t), log[k], serial[k], t + SecondTicks * RetrySeconds(oldest, t))
        /\ reply' = [key |-> k, ok |-> FALSE]
        /\ UNCHANGED now
  BY <1>r
<1> DEFINE live == Recent(hits[k], t)
           gone == Evicted(Touched(k, live))
<1>t. t \in Nat /\ t <= now /\ now <= t + Dawdle /\ now \in Nat
  BY ReadsAre DEF WindowInv
<1>1. /\ gone \in SUBSET (Keys \ {k})
      /\ order' \in Seq(Keys) /\ Len(order') <= MaxKeys /\ NoRepeats(order')
  BY <1>0, StoreKeepsOrder DEF WindowInv, WindowTypeOK, Store
<1>2. /\ \A j \in Keys \ {k} : /\ hits'[j] = IF j \in gone THEN {} ELSE hits[j]
                               /\ log'[j] = IF j \in gone THEN {} ELSE log[j]
                               /\ serial'[j] = IF j \in gone THEN 0 ELSE serial[j]
      /\ hits'[k] = live /\ log'[k] = log[k] /\ serial'[k] = serial[k]
      /\ now' = now
  BY <1>0, <1>1 DEF Store
<1>3. WindowTypeOK'
  <2> HIDE DEF gone
  <2>1. hits' \in [Keys -> SUBSET Hit] /\ log' \in [Keys -> SUBSET Hit]
    BY <1>0 DEF WindowInv, WindowTypeOK, Store, Recent
  <2>2. serial' \in [Keys -> Nat]
    BY <1>0 DEF WindowInv, WindowTypeOK, Store
  <2>3. promise' \in [Keys -> Int]
    <3>1. oldest.at \in Nat
      BY <1>0 DEF WindowInv, WindowTypeOK, Recent, Hit
    <3>2. RetrySeconds(oldest, t) \in Int
      BY <1>t, <3>1, WindowAssumption DEF RetrySeconds
    <3>3. t + SecondTicks * RetrySeconds(oldest, t) \in Int
      BY <1>t, <3>2, WindowAssumption
    <3> QED BY <1>0, <3>3 DEF Store, WindowInv, WindowTypeOK, NoPromise
  <2>4. reply' \in [key : Keys, ok : BOOLEAN]
    BY <1>0, Zenon
  <2> QED BY <1>1, <1>2, <2>1, <2>2, <2>3, <2>4 DEF WindowInv, WindowTypeOK
<1> HIDE DEF gone
<1>4. Consistent'
  <2> SUFFICES ASSUME NEW j \in Keys
               PROVE  /\ IsFiniteSet(log'[j])
                      /\ hits'[j] \subseteq log'[j]
                      /\ Cardinality(hits'[j]) <= Limit
                      /\ Recent(log'[j], now') \subseteq hits'[j]
                      /\ \A h \in log'[j] : h.at <= now' /\ h.n <= serial'[j]
                      /\ \A g, h \in log'[j] : g.n = h.n => g = h
                      /\ \A g, h \in log'[j] : g.n < h.n => g.at <= h.at + Dawdle
    BY DEF Consistent
  <2>1. CASE j # k
    <3>1. CASE j \in gone
      BY <1>2, <2>1, <3>1, FS_EmptySet, WindowAssumption DEF Recent
    <3>2. CASE j \notin gone
      BY <1>2, <2>1, <3>2 DEF WindowInv, Consistent
    <3> QED BY <3>1, <3>2
  <2>2. CASE j = k
    <3>1. Cardinality(live) <= Limit
      BY LiveFits
    <3>2. \A h \in log[k] : h.at \in Nat
      BY DEF WindowInv, WindowTypeOK, Hit
    <3>3. Recent(log[k], now) \subseteq live
      BY <1>t, <3>2, WindowAssumption DEF WindowInv, Consistent, Recent
    <3> QED BY <1>2, <2>2, <3>1, <3>3 DEF WindowInv, Consistent, Recent
  <2> QED BY <2>1, <2>2
<1>5. WithinLimit'
  <2> SUFFICES ASSUME NEW j \in Keys, NEW start \in 0..now
               PROVE  Cardinality(Spanned(log'[j], start)) <= Limit
    BY <1>2 DEF WithinLimit, FitsEverySpan, Spanned
  <2>1. CASE j \in gone
    <3>1. Spanned(log'[j], start) = {}
      BY <1>1, <1>2, <2>1 DEF Spanned
    <3> QED BY <3>1, FS_EmptySet, WindowAssumption
  <2>2. CASE j \notin gone
    BY <1>2, <2>2 DEF WindowInv, WithinLimit, FitsEverySpan, Spanned
  <2> QED BY <2>1, <2>2
<1> QED BY <1>1, <1>3, <1>4, <1>5 DEF WindowInv

LEMMA RefundStep ==
  ASSUME WindowInv, NEW k \in Keys, Refund(k)
  PROVE  WindowInv'
<1>1. PICK h \in hits[k] :
        /\ IsNewest(h, hits[k])
        /\ hits' = [hits EXCEPT ![k] = @ \ {h}]
        /\ order' = OrderAfterRefund(k, h)
        /\ log' = [log EXCEPT ![k] = @ \ {h}]
        /\ serial' = [serial EXCEPT ![k] = IF h.n = @ THEN @ - 1 ELSE @]
        /\ promise' = [promise EXCEPT ![k] = NoPromise]
        /\ UNCHANGED <<now, reply>>
  BY DEF Refund
<1>2. /\ order' \in Seq(Keys) /\ Len(order') <= MaxKeys /\ NoRepeats(order')
  <2>1. /\ Pop(order, k) \in Seq(Keys) /\ Len(Pop(order, k)) <= Len(order) /\ NoRepeats(Pop(order, k))
    BY PopProperties DEF WindowInv, WindowTypeOK
  <2> QED BY <1>1, <2>1, LenProperties, WindowAssumption DEF OrderAfterRefund, WindowInv, WindowTypeOK
<1>3. h \in Hit /\ h \in log[k] /\ \A g \in log[k] : g \in Hit /\ g.n \in Nat \ {0} /\ g.n <= serial[k]
  BY DEF WindowInv, WindowTypeOK, Consistent, Hit
<1>4. \A g \in log[k] \ {h} : g.n # h.n
  BY <1>3 DEF WindowInv, Consistent
<1>5. serial'[k] \in Nat /\ \A g \in log[k] \ {h} : g.n <= serial'[k]
  BY <1>1, <1>3, <1>4 DEF WindowInv, WindowTypeOK
<1>6. WindowTypeOK'
  BY <1>1, <1>2, <1>5 DEF WindowInv, WindowTypeOK, NoPromise
<1>7. Consistent'
  <2> SUFFICES ASSUME NEW j \in Keys
               PROVE  /\ IsFiniteSet(log'[j])
                      /\ hits'[j] \subseteq log'[j]
                      /\ Cardinality(hits'[j]) <= Limit
                      /\ Recent(log'[j], now') \subseteq hits'[j]
                      /\ \A g \in log'[j] : g.at <= now' /\ g.n <= serial'[j]
                      /\ \A f, g \in log'[j] : f.n = g.n => f = g
                      /\ \A f, g \in log'[j] : f.n < g.n => f.at <= g.at + Dawdle
    BY DEF Consistent
  <2>1. CASE j # k
    BY <1>1, <2>1 DEF WindowInv, WindowTypeOK, Consistent, Recent
  <2>2. CASE j = k
    <3>1. log'[k] = log[k] \ {h} /\ hits'[k] = hits[k] \ {h} /\ now' = now
      BY <1>1 DEF WindowInv, WindowTypeOK
    <3>2. IsFiniteSet(log'[k])
      BY <3>1, FS_RemoveElement DEF WindowInv, Consistent
    <3>3. Cardinality(hits'[k]) <= Limit
      <4>1. hits'[k] \subseteq hits[k]
        BY <3>1
      <4> QED BY <4>1, LiveFits, SmallerWindow DEF WindowInv, Consistent
    <3> QED BY <1>5, <2>2, <3>1, <3>2, <3>3 DEF WindowInv, Consistent, Recent
  <2> QED BY <2>1, <2>2
<1>8. WithinLimit'
  <2> SUFFICES ASSUME NEW j \in Keys, NEW start \in 0..now
               PROVE  Cardinality(Spanned(log'[j], start)) <= Limit
    BY <1>1 DEF WithinLimit, FitsEverySpan, Spanned
  <2>1. Spanned(log'[j], start) \subseteq Spanned(log[j], start)
    BY <1>1 DEF WindowInv, WindowTypeOK, Spanned
  <2>2. IsFiniteSet(Spanned(log[j], start))
    <3>1. Spanned(log[j], start) \in SUBSET log[j]
      BY DEF Spanned
    <3> QED BY <3>1, FS_Subset DEF WindowInv, Consistent
  <2>3. Cardinality(Spanned(log[j], start)) <= Limit
    BY DEF WindowInv, WithinLimit, FitsEverySpan, Spanned
  <2> QED BY <2>1, <2>2, <2>3, SmallerWindow
<1> QED BY <1>2, <1>6, <1>7, <1>8 DEF WindowInv

LEMMA TickStep ==
  ASSUME WindowInv, Tick
  PROVE  WindowInv'
<1>1. WindowTypeOK' /\ NoRepeats(order')
  BY DEF WindowInv, WindowTypeOK, Tick
<1>2. Consistent'
  BY WindowAssumption DEF WindowInv, WindowTypeOK, Tick, Consistent, Recent, Hit
<1>3. WithinLimit'
  <2> SUFFICES ASSUME NEW k \in Keys, NEW start \in 0..(now + 1)
               PROVE  Cardinality(Spanned(log[k], start)) <= Limit
    BY DEF Tick, WithinLimit, FitsEverySpan, Spanned
  <2>1. CASE start \in 0..now
    BY <2>1 DEF WindowInv, WithinLimit, FitsEverySpan, Spanned
  <2>2. CASE start = now + 1
    <3>1. Spanned(log[k], start) = {}
      BY <2>2 DEF WindowInv, WindowTypeOK, Consistent, Hit, Spanned
    <3> QED BY <3>1, FS_EmptySet, WindowAssumption
  <2> QED BY <2>1, <2>2 DEF WindowInv, WindowTypeOK
<1> QED BY <1>1, <1>2, <1>3 DEF WindowInv

LEMMA NextWindowInv == WindowInv /\ [WindowNext]_windowVars => WindowInv'
<1> SUFFICES ASSUME WindowInv, [WindowNext]_windowVars PROVE WindowInv'
  OBVIOUS
<1>1. CASE UNCHANGED windowVars
  BY <1>1 DEF windowVars, WindowInv, WindowTypeOK, NoRepeats, Consistent, WithinLimit, FitsEverySpan, Recent
<1>2. CASE Tick
  BY <1>2, TickStep
<1>3. CASE \E k \in Keys : AllowYes(k) \/ AllowNo(k) \/ Refund(k)
  BY <1>3, AllowYesStep, AllowNoStep, RefundStep
<1> QED BY <1>1, <1>2, <1>3 DEF WindowNext

-----------------------------------------------------------------------------
(* The invariant holds of every behaviour. *)
THEOREM Invariance == WindowSpec => []WindowInv
BY InitWindowInv, NextWindowInv, PTL DEF WindowSpec

(* The counter never stores more than MaxKeys keys and keeps its types     *)
(* (class SlidingWindow, "bounded memory").                                *)
THEOREM WindowTypes == WindowSpec => []WindowTypeOK
<1>1. WindowInv => WindowTypeOK
  BY DEF WindowInv
<1> QED BY <1>1, Invariance, PTL

(* "Allows limit hits per key in any window_s seconds" (limits.py:89), less *)
(* the longest wait for the lock: for every limit, window and wait, and     *)
(* every interleaving of late calls, refunds and evictions.                 *)
THEOREM NeverOverLimit == WindowSpec => []WithinLimit
<1>1. WindowInv => WithinLimit
  BY DEF WindowInv
<1> QED BY <1>1, Invariance, PTL

-----------------------------------------------------------------------------
(* Whoever was told to come back holds the limit exactly, and the hint is  *)
(* the whole second at which the first of those hits is gone.  (After a    *)
(* refusal nothing is stored: PromiseKept alone is not inductive.)         *)
Standing(k) ==
  \E oldest \in hits[k] :
    /\ \A h \in hits[k] : oldest.at <= h.at + Dawdle
    /\ oldest.at + Window <= promise[k]
    /\ promise[k] < oldest.at + Window + SecondTicks

Pending ==
  \A k \in Keys : promise[k] # NoPromise => Cardinality(hits[k]) = Limit /\ Standing(k)

(* Rounding up to whole seconds adds less than one.                        *)
LEMMA RoundedUp ==
  ASSUME NEW x \in Nat
  PROVE  LET r == SecondTicks * ((x + SecondTicks - 1) \div SecondTicks)
         IN  r \in Int /\ x <= r /\ r < x + SecondTicks
<1> DEFINE m == x + SecondTicks - 1
           d == m \div SecondTicks
<1>1. SecondTicks \in Nat /\ SecondTicks > 0 /\ m \in Nat BY WindowAssumption
<1> HIDE DEF m
<1>2. d \in Int
  BY <1>1
<1>3. SecondTicks * d <= m /\ m < SecondTicks * d + SecondTicks
  BY <1>1
<1> HIDE DEF d
<1>4. SecondTicks * d \in Int BY <1>1, <1>2
<1> QED BY <1>1, <1>3, <1>4 DEF m, d

LEMMA NextPending == WindowInv /\ Pending /\ [WindowNext]_windowVars => Pending'
<1> SUFFICES ASSUME WindowInv, Pending, [WindowNext]_windowVars PROVE Pending'
  OBVIOUS
<1>1. CASE UNCHANGED <<hits, promise>>
  BY <1>1 DEF Pending, Standing
<1>2. ASSUME NEW k \in Keys, AllowYes(k) PROVE Pending'
  <2>0. PICK t \in Reads :
          Store(k, Recent(hits[k], t) \cup {[at |-> t, n |-> serial[k] + 1]},
                log[k] \cup {[at |-> t, n |-> serial[k] + 1]}, serial[k] + 1, NoPromise)
    BY <1>2 DEF AllowYes
  <2>1. promise'[k] = NoPromise
    BY <2>0, StoreKeepsOrder DEF Store, WindowInv, WindowTypeOK
  <2>2. \A j \in Keys \ {k} : \/ promise'[j] = NoPromise
                              \/ promise'[j] = promise[j] /\ hits'[j] = hits[j]
    BY <2>0 DEF Store
  <2> QED BY <2>1, <2>2 DEF Pending, Standing
<1>3. ASSUME NEW k \in Keys, AllowNo(k) PROVE Pending'
  <2>r. PICK t \in Reads : \E oldest \in Recent(hits[k], t) :
          /\ ~HasRoom(Recent(hits[k], t))
          /\ IsOldest(oldest, Recent(hits[k], t))
          /\ Store(k, Recent(hits[k], t), log[k], serial[k], t + SecondTicks * RetrySeconds(oldest, t))
    BY <1>3 DEF AllowNo
  <2>0. PICK oldest \in Recent(hits[k], t) :
          /\ ~HasRoom(Recent(hits[k], t))
          /\ IsOldest(oldest, Recent(hits[k], t))
          /\ Store(k, Recent(hits[k], t), log[k], serial[k], t + SecondTicks * RetrySeconds(oldest, t))
    BY <2>r
  <2> DEFINE live == Recent(hits[k], t)
  <2>1. t \in Nat /\ t <= now
    BY ReadsAre DEF WindowInv
  <2>2. /\ hits'[k] = live /\ promise'[k] = t + SecondTicks * RetrySeconds(oldest, t)
    BY <2>0, StoreKeepsOrder DEF Store, WindowInv, WindowTypeOK
  <2>3. \A j \in Keys \ {k} : \/ promise'[j] = NoPromise
                              \/ promise'[j] = promise[j] /\ hits'[j] = hits[j]
    BY <2>0 DEF Store
  <2>4. Cardinality(live) = Limit
    BY <2>0, LiveFits, WindowAssumption DEF HasRoom
  <2>5. \A h \in live : h \in log[k] /\ h \in Hit /\ h.at \in Nat /\ h.n \in Nat
    BY DEF WindowInv, WindowTypeOK, Consistent, Recent, Hit
  <2>6. \A h \in live : oldest.at <= h.at + Dawdle
    <3> SUFFICES ASSUME NEW h \in live PROVE oldest.at <= h.at + Dawdle
      OBVIOUS
    <3>1. oldest.n <= h.n
      BY <2>0 DEF IsOldest
    <3>2. oldest.n = h.n => oldest = h
      BY <2>5 DEF WindowInv, Consistent
    <3>3. oldest.n < h.n => oldest.at <= h.at + Dawdle
      BY <2>5 DEF WindowInv, Consistent
    <3> QED BY <2>5, <3>1, <3>2, <3>3, WindowAssumption
  <2>7. t - oldest.at < Window /\ Window \in Nat /\ SecondTicks \in Nat
    BY <2>0, WindowAssumption DEF Recent
  <2>8. oldest.at + Window <= promise'[k] /\ promise'[k] < oldest.at + Window + SecondTicks
    <3> DEFINE x == oldest.at + Window - t
               r == SecondTicks * ((x + SecondTicks - 1) \div SecondTicks)
    <3>1. x \in Nat
      BY <2>1, <2>5, <2>7
    <3>2. promise'[k] = t + r
      BY <2>2 DEF RetrySeconds
    <3>3. r \in Int /\ x <= r /\ r < x + SecondTicks
      <4> HIDE DEF x
      <4> QED BY <3>1, RoundedUp
    <3> HIDE DEF r
    <3> QED BY <2>1, <2>5, <2>7, <3>2, <3>3
  <2>9. Cardinality(hits'[k]) = Limit /\ Standing(k)'
    BY <2>2, <2>4, <2>6, <2>8 DEF Standing
  <2> QED BY <2>3, <2>9 DEF Pending, Standing
<1>4. ASSUME NEW k \in Keys, Refund(k) PROVE Pending'
  <2>1. \A j \in Keys : promise'[j] = NoPromise \/ (promise'[j] = promise[j] /\ hits'[j] = hits[j])
    BY <1>4 DEF Refund, WindowInv, WindowTypeOK
  <2> QED BY <2>1 DEF Pending, Standing
<1> QED BY <1>1, <1>2, <1>3, <1>4 DEF WindowNext, Tick, windowVars

(* What a refusal said stays tied to the hits that made it refuse.         *)
THEOREM PendingHolds == WindowSpec => []Pending
<1>1. WindowInit => Pending
  BY DEF WindowInit, Pending
<1> QED BY <1>1, NextPending, Invariance, PTL DEF WindowSpec

(* "Returns seconds until a retry can succeed": whoever comes back when    *)
(* told, and left the key alone, has room (SlidingWindow.allow), however   *)
(* long the call then waits for the lock.                                  *)
THEOREM RetryCanSucceed == WindowSpec => []PromiseKept
<1>1. WindowInv /\ Pending => PromiseKept
  <2> SUFFICES ASSUME WindowInv, Pending, NEW k \in Keys, NEW t \in 0..now,
                      promise[k] # NoPromise, t >= promise[k]
               PROVE  Cardinality(Recent(hits[k], t)) < Limit
    BY DEF PromiseKept, HasRoom
  <2>1. PICK oldest \in hits[k] : oldest.at + Window <= promise[k]
    BY DEF Pending, Standing
  <2>2. IsFiniteSet(hits[k])
    BY LiveFits
  <2>3. oldest \notin Recent(hits[k], t)
    BY <2>1, WindowAssumption DEF Recent, WindowInv, WindowTypeOK, Hit
  <2>4. Recent(hits[k], t) \subseteq hits[k] \ {oldest}
    BY <2>3 DEF Recent
  <2>5. IsFiniteSet(hits[k] \ {oldest}) /\ Cardinality(hits[k] \ {oldest}) = Limit - 1
    BY <2>1, <2>2, FS_RemoveElement DEF Pending
  <2>6. Cardinality(Recent(hits[k], t)) <= Cardinality(hits[k] \ {oldest})
    BY <2>4, <2>5, FS_Subset
  <2> QED BY <2>5, <2>6, LiveFits, WindowAssumption
<1> QED BY <1>1, PendingHolds, Invariance, PTL

(* The hint is no later than it must be: nobody is let in a whole second,  *)
(* and the longest wait for the lock, before the time it names.            *)
THEOREM RetryIsNotTooLate == WindowSpec => PromiseIsTight
<1>1. ASSUME WindowInv, Pending, [WindowNext]_windowVars, NEW k \in Keys,
             NEW h \in log'[k] \ log[k], promise[k] # NoPromise
      PROVE  h.at + SecondTicks + Dawdle > promise[k]
  <2>1. AllowYes(k)
    <3>1. ~Tick /\ ~UNCHANGED windowVars
      BY <1>1 DEF Tick, windowVars
    <3>2. PICK j \in Keys : AllowYes(j) \/ AllowNo(j) \/ Refund(j)
      BY <1>1, <3>1 DEF WindowNext
    <3>3. ~Refund(j)
      <4>1. Refund(j) => log'[k] \subseteq log[k]
        BY <1>1 DEF Refund, WindowInv, WindowTypeOK
      <4> QED BY <1>1, <4>1
    <3>4. ~AllowNo(j)
      BY <1>1 DEF AllowNo, Store
    <3>5. j = k
      BY <1>1, <3>2, <3>3, <3>4 DEF AllowYes, Store
    <3> QED BY <3>2, <3>3, <3>4, <3>5
  <2>2. PICK t \in Reads :
          /\ HasRoom(Recent(hits[k], t))
          /\ Store(k, Recent(hits[k], t) \cup {[at |-> t, n |-> serial[k] + 1]},
                   log[k] \cup {[at |-> t, n |-> serial[k] + 1]}, serial[k] + 1, NoPromise)
    BY <2>1 DEF AllowYes
  <2>3. h.at = t
    <3>1. log'[k] \subseteq log[k] \cup {[at |-> t, n |-> serial[k] + 1]}
      BY <2>2 DEF Store
    <3> QED BY <1>1, <3>1
  <2>4. Recent(hits[k], t) # hits[k]
    BY <1>1, <2>2, WindowAssumption DEF Pending, HasRoom
  <2>5. PICK g \in hits[k] : ~(t - g.at < Window)
    BY <2>4 DEF Recent
  <2>6. PICK oldest \in hits[k] : oldest.at <= g.at + Dawdle /\ promise[k] < oldest.at + Window + SecondTicks
    BY <1>1 DEF Pending, Standing
  <2>7. g.at \in Nat /\ oldest.at \in Nat /\ t \in Nat /\ promise[k] \in Int
    BY <1>1, <2>5, <2>6, ReadsAre DEF WindowInv, WindowTypeOK, Hit
  <2> QED BY <2>3, <2>5, <2>6, <2>7, WindowAssumption
<1>2. WindowInv /\ Pending /\ [WindowNext]_windowVars =>
        [\A k \in Keys : \A h \in log'[k] \ log[k] :
           promise[k] # NoPromise => h.at + SecondTicks + Dawdle > promise[k]]_windowVars
  BY <1>1
<1> QED BY <1>2, PendingHolds, Invariance, PTL DEF WindowSpec, PromiseIsTight

-----------------------------------------------------------------------------
(* The store misses only hits that no longer count: a call counts all that *)
(* are younger than the window less its wait, and nothing older than it.   *)
LEMMA StoreDecidesAlike ==
  ASSUME WindowInv, NEW k \in Keys, NEW t \in Reads
  PROVE  /\ Promised!Younger(log[k], t, Window - Dawdle) \subseteq Recent(hits[k], t)
         /\ Recent(hits[k], t) \subseteq Promised!Younger(log[k], t, Window)
         /\ t \in Promised!Times
<1>1. t \in Nat /\ t <= now /\ now <= t + Dawdle /\ now \in Nat
  BY ReadsAre DEF WindowInv
<1>2. \A h \in log[k] : h.at \in Nat
  BY DEF WindowInv, WindowTypeOK, Hit
<1>3. Promised!Younger(log[k], t, Window - Dawdle) \subseteq Recent(hits[k], t)
  <2> SUFFICES ASSUME NEW h \in log[k], t - h.at < Window - Dawdle
               PROVE  h \in Recent(hits[k], t)
    BY DEF Promised!Younger
  <2>1. t - h.at < Window /\ now - h.at < Window
    BY <1>1, <1>2, WindowAssumption
  <2> QED BY <2>1 DEF WindowInv, Consistent, Recent
<1> QED BY <1>3 DEF WindowInv, Consistent, Recent, Promised!Younger, Promised!Times, Reads

(* RateLimit counts with the same Cardinality. *)
LEMMA SameCount ==
  ASSUME NEW S
  PROVE  Promised!Cardinality(S) = Cardinality(S)
BY DEF Promised!Cardinality, Cardinality

LEMMA AdmissionRefines ==
  ASSUME WindowInv, NEW k \in Keys, AllowYes(k)
  PROVE  Promised!Admit(k)
<1>0. PICK t \in Reads :
        /\ HasRoom(Recent(hits[k], t))
        /\ Store(k, Recent(hits[k], t) \cup {[at |-> t, n |-> serial[k] + 1]},
                 log[k] \cup {[at |-> t, n |-> serial[k] + 1]}, serial[k] + 1, NoPromise)
        /\ reply' = [key |-> k, ok |-> TRUE]
        /\ UNCHANGED now
  BY DEF AllowYes
<1> DEFINE live == Recent(hits[k], t)
           hit == [at |-> t, n |-> serial[k] + 1]
           gone == Evicted(Touched(k, live \cup {hit}))
           young == Promised!Younger(log[k], t, Window - Dawdle)
<1>1. gone \in SUBSET (Keys \ {k})
  BY StoreKeepsOrder DEF WindowInv, WindowTypeOK
<1>2. log' = [j \in Keys |-> IF j \in gone THEN {} ELSE IF j = k THEN log[k] \cup {hit} ELSE log[j]]
  BY <1>0 DEF Store
<1>3. Promised!Cardinality(young) < Limit
  <2>1. young \in SUBSET live
    BY StoreDecidesAlike
  <2>2. IsFiniteSet(live) /\ Cardinality(live) \in Nat /\ Cardinality(live) < Limit
    BY <1>0, LiveFits DEF HasRoom
  <2>3. Cardinality(young) <= Cardinality(live) /\ Cardinality(young) \in Nat
    BY <2>1, <2>2, FS_Subset, FS_CardinalityType
  <2> QED BY <2>2, <2>3, SameCount, WindowAssumption
<1> HIDE DEF gone
<1>4. hit \in log'[k] /\ hit.at = t /\ \A g \in log[k] : g.n < hit.n
  BY <1>1, <1>2 DEF WindowInv, WindowTypeOK, Consistent, Hit
<1>5. Promised!Forgetting(k, log[k] \cup {hit})
  BY <1>1, <1>2 DEF Promised!Forgetting
<1>6. t \in Promised!Times
  BY StoreDecidesAlike
<1> HIDE DEF hit, young
<1>7. \E h \in log'[k] : /\ h.at = t
                         /\ \A g \in log[k] : g.n < h.n
                         /\ Promised!Forgetting(k, log[k] \cup {h})
  BY <1>4, <1>5
<1> QED BY <1>0, <1>3, <1>6, <1>7 DEF Promised!Admit, young

LEMMA RefusalRefines ==
  ASSUME WindowInv, NEW k \in Keys, AllowNo(k)
  PROVE  Promised!Refuse(k)
<1>r. PICK t \in Reads : \E oldest \in Recent(hits[k], t) :
        /\ ~HasRoom(Recent(hits[k], t))
        /\ Store(k, Recent(hits[k], t), log[k], serial[k], t + SecondTicks * RetrySeconds(oldest, t))
        /\ reply' = [key |-> k, ok |-> FALSE]
        /\ UNCHANGED now
  BY DEF AllowNo
<1>0. PICK oldest \in Recent(hits[k], t) :
        /\ ~HasRoom(Recent(hits[k], t))
        /\ Store(k, Recent(hits[k], t), log[k], serial[k], t + SecondTicks * RetrySeconds(oldest, t))
        /\ reply' = [key |-> k, ok |-> FALSE]
        /\ UNCHANGED now
  BY <1>r
<1> DEFINE live == Recent(hits[k], t)
           gone == Evicted(Touched(k, live))
           young == Promised!Younger(log[k], t, Window)
<1>1. gone \in SUBSET (Keys \ {k})
  BY StoreKeepsOrder DEF WindowInv, WindowTypeOK
<1>2. log' = [j \in Keys |-> IF j \in gone THEN {} ELSE IF j = k THEN log[k] ELSE log[j]]
  BY <1>0 DEF Store
<1>3. Promised!Cardinality(young) >= Limit
  <2>1. live \in SUBSET young
    BY StoreDecidesAlike
  <2>2. IsFiniteSet(young)
    <3>1. young \in SUBSET log[k]
      BY DEF Promised!Younger
    <3> QED BY <3>1, FS_Subset DEF WindowInv, Consistent
  <2>3. Cardinality(live) \in Nat /\ ~(Cardinality(live) < Limit)
    BY <1>0, LiveFits DEF HasRoom
  <2>4. Cardinality(live) <= Cardinality(young) /\ Cardinality(young) \in Nat
    BY <2>1, <2>2, FS_Subset, FS_CardinalityType
  <2> QED BY <2>3, <2>4, SameCount, WindowAssumption
<1> HIDE DEF gone
<1>4. Promised!Forgetting(k, log[k])
  BY <1>1, <1>2 DEF Promised!Forgetting
<1>5. t \in Promised!Times
  BY StoreDecidesAlike
<1> QED BY <1>0, <1>3, <1>4, <1>5 DEF Promised!Refuse

LEMMA RefundRefines ==
  ASSUME WindowInv, NEW k \in Keys, Refund(k)
  PROVE  Promised!GiveBack(k)
<1>1. PICK h \in hits[k] : /\ IsNewest(h, hits[k])
                           /\ log' = [log EXCEPT ![k] = @ \ {h}]
                           /\ UNCHANGED <<now, reply>>
  BY DEF Refund
<1>2. \A g \in Promised!Younger(log[k], now, Window) : g.n <= h.n
  BY <1>1 DEF IsNewest, WindowInv, Consistent, Recent, Promised!Younger
<1>3. h \in log[k]
  BY DEF WindowInv, Consistent
<1> QED BY <1>1, <1>2, <1>3 DEF Promised!GiveBack

(* The counter of the code, which forgets expired hits and strangers and   *)
(* is called with times out of order, implements RateLimit: it decides     *)
(* like a limiter that remembers everything, but for the wait for a lock.  *)
THEOREM WindowImplementsRateLimit == WindowSpec => DecidesAlike
<1>1. WindowInit => Promised!Init
  BY DEF WindowInit, Promised!Init
<1>2. WindowInv /\ [WindowNext]_windowVars => [Promised!Next]_(Promised!vars)
  <2> SUFFICES ASSUME WindowInv, [WindowNext]_windowVars PROVE [Promised!Next]_(Promised!vars)
    OBVIOUS
  <2>1. CASE UNCHANGED windowVars
    BY <2>1 DEF windowVars, Promised!vars
  <2>2. CASE Tick
    BY <2>2 DEF Tick, Promised!Next, Promised!TimePasses
  <2>3. CASE \E k \in Keys : AllowYes(k) \/ AllowNo(k) \/ Refund(k)
    BY <2>3, AdmissionRefines, RefusalRefines, RefundRefines DEF Promised!Next
  <2> QED BY <2>1, <2>2, <2>3 DEF WindowNext
<1> QED BY <1>1, <1>2, Invariance, PTL DEF WindowSpec, DecidesAlike, Promised!Spec

----------------------------------------------------------------------------
(* Sums over finite sets.                                                      *)

(* Every set of natural numbers has a least one.                               *)
LEMMA Least ==
  ASSUME NEW T, T \subseteq Nat, T # {}
  PROVE  \E m \in T : \A k \in T : m <= k
<1>1. IsWellFoundedOn(OpToRel(<, Nat), Nat) BY NatLessThanWellFounded
<1>2. PICK m \in T : \A k \in T : ~(<<k, m>> \in OpToRel(<, Nat)) BY <1>1, WFMin
<1>3. \A k \in T : ~(k < m) BY <1>2 DEF OpToRel
<1>4. QED BY <1>3

Sum(w, S) == MapThenSumSet(LAMBDA x : w[x], S)
Chosen(s) == CHOOSE x \in s : TRUE

(* What the fold of MapThenSumSet looks for.                                   *)
Adds(g, w, S) == g = [s \in SUBSET S |-> IF s = {} THEN 0 ELSE w[Chosen(s)] + g[s \ {Chosen(s)}]]

LEMMA SumIsChosen == 
  ASSUME NEW w, NEW S
  PROVE  Sum(w, S) = (CHOOSE g : Adds(g, w, S))[S]
BY DEF Sum, MapThenSumSet, MapThenFoldSet, Adds, Chosen

Sized(S, n) == {s \in SUBSET S : Cardinality(s) <= n}

LEMMA FewerSized ==
  ASSUME NEW S, IsFiniteSet(S), NEW n \in Nat, NEW s \in Sized(S, n), NEW x \in s
  PROVE  n > 0 /\ s \ {x} \in Sized(S, n - 1) /\ Cardinality(s \ {x}) = Cardinality(s) - 1 /\ IsFiniteSet(s)
<1>1. IsFiniteSet(s) BY FS_Subset DEF Sized
<1>2. Cardinality(s) \in Nat /\ Cardinality(s \ {x}) \in Nat BY <1>1, FS_CardinalityType, FS_Subset
<1>3. Cardinality(s \ {x}) = Cardinality(s) - 1 BY <1>1, FS_RemoveElement
<1>4. QED BY <1>1, <1>2, <1>3 DEF Sized

(* There is a function that adds up, on the subsets of ever larger size.       *)
LEMMA SumExists ==
  ASSUME NEW S, IsFiniteSet(S), NEW w \in [S -> Int]
  PROVE  \E g \in [SUBSET S -> Int] : Adds(g, w, S)
<1> DEFINE AddsTo(g, n) == g = [s \in Sized(S, n) |-> IF s = {} THEN 0 ELSE w[Chosen(s)] + g[s \ {Chosen(s)}]]
           Missing == {n \in Nat : ~ \E g \in [Sized(S, n) -> Int] : AddsTo(g, n)}
<1>0. \A s \in SUBSET S : s # {} => Chosen(s) \in s BY DEF Chosen
<1>1. Missing = {}
  <2> SUFFICES ASSUME Missing # {} PROVE FALSE OBVIOUS
  <2>0. Missing \subseteq Nat OBVIOUS
  <2>1. PICK m \in Missing : \A k \in Missing : m <= k BY <2>0, Least
  <2> HIDE DEF Missing
  <2>2. ASSUME m = 0 PROVE FALSE
    <3> DEFINE g == [s \in Sized(S, 0) |-> 0]
    <3>1. \A s \in Sized(S, 0) : s = {}
      <4>1. ASSUME NEW s \in Sized(S, 0), NEW x \in s PROVE FALSE
        <5>1. 0 \in Nat /\ ~(0 > 0) OBVIOUS
        <5>2. QED BY ONLY <4>1, <5>1, FewerSized, IsFiniteSet(S)
      <4>2. QED BY <4>1
    <3>2. AddsTo(g, 0) BY <3>1
    <3>3. g \in [Sized(S, 0) -> Int] OBVIOUS
    <3>4. QED BY <2>1, <2>2, <3>2, <3>3 DEF Missing
  <2>3. ASSUME m # 0 PROVE FALSE
    <3>1. m - 1 \in Nat /\ m - 1 \notin Missing BY <2>0, <2>1, <2>3
    <3>2. PICK h \in [Sized(S, m - 1) -> Int] : AddsTo(h, m - 1) BY <3>1 DEF Missing
    <3> DEFINE g == [s \in Sized(S, m) |-> IF s = {} THEN 0 ELSE w[Chosen(s)] + h[s \ {Chosen(s)}]]
    <3>3. ASSUME NEW s \in Sized(S, m), s # {} 
          PROVE  s \ {Chosen(s)} \in Sized(S, m - 1) /\ Chosen(s) \in S
      BY <1>0, <2>0, <2>1, <3>3, FewerSized DEF Sized
    <3>4. Sized(S, m - 1) \subseteq Sized(S, m)
      <4>1. ASSUME NEW s \in Sized(S, m - 1) PROVE s \in Sized(S, m)
        <5>1. Cardinality(s) \in Nat BY FS_Subset, FS_CardinalityType DEF Sized
        <5>2. QED BY <2>0, <2>1, <5>1 DEF Sized
      <4>2. QED BY <4>1
    <3>5. \A s \in Sized(S, m - 1) : g[s] = h[s] BY <3>2, <3>4
    <3>6. g \in [Sized(S, m) -> Int] BY <3>3
    <3>7. AddsTo(g, m) BY <3>3, <3>5
    <3> HIDE DEF g
    <3>8. QED BY <2>1, <3>6, <3>7 DEF Missing
  <2>4. QED BY <2>2, <2>3
<1>2. PICK g \in [Sized(S, Cardinality(S)) -> Int] : AddsTo(g, Cardinality(S))
  BY <1>1, FS_CardinalityType
<1>3. Sized(S, Cardinality(S)) = SUBSET S BY FS_Subset DEF Sized
<1>4. QED BY <1>2, <1>3 DEF Adds

AnyFirst(g, w, S) == g[{}] = 0 /\ \A s \in SUBSET S : \A x \in s : g[s] = w[x] + g[s \ {x}]

(* The order in which the elements are taken does not matter.                  *)
LEMMA AnyOrder ==
  ASSUME NEW S, IsFiniteSet(S), NEW w \in [S -> Int], NEW g \in [SUBSET S -> Int], Adds(g, w, S)
  PROVE  AnyFirst(g, w, S)
<1> DEFINE Bad == {n \in Nat : \E s \in SUBSET S : Cardinality(s) = n /\ \E x \in s : g[s] # w[x] + g[s \ {x}]}
<1>0. \A s \in SUBSET S : s # {} => Chosen(s) \in s /\ g[s] = w[Chosen(s)] + g[s \ {Chosen(s)}]
  BY DEF Adds, Chosen
<1>1. Bad = {}
  <2> SUFFICES ASSUME Bad # {} PROVE FALSE OBVIOUS
  <2>0. Bad \subseteq Nat OBVIOUS
  <2>1. PICK m \in Bad : \A k \in Bad : m <= k BY <2>0, Least
  <2>2. PICK s \in SUBSET S : Cardinality(s) = m /\ \E x \in s : g[s] # w[x] + g[s \ {x}] BY <2>1
  <2>3. PICK x \in s : g[s] # w[x] + g[s \ {x}] BY <2>2
  <2> DEFINE y == Chosen(s)
  <2>4. y \in s /\ g[s] = w[y] + g[s \ {y}] BY <1>0, <2>3
  <2>5. x # y BY <2>3, <2>4
  <2>6. IsFiniteSet(s) BY FS_Subset
  <2>7. \A z \in s : Cardinality(s \ {z}) \in Nat /\ Cardinality(s \ {z}) = m - 1
    BY <2>2, <2>6, FS_RemoveElement, FS_CardinalityType
  <2>8. \A z \in s : Cardinality(s \ {z}) \notin Bad BY <2>0, <2>1, <2>7
  <2>9. \A z \in s : \A v \in s \ {z} : g[s \ {z}] = w[v] + g[(s \ {z}) \ {v}]
    <3>1. \A z \in s : s \ {z} \in SUBSET S OBVIOUS
    <3>2. QED BY <2>7, <2>8, <3>1
  <2> HIDE DEF Bad, y
  <2>10. (s \ {x}) \ {y} = (s \ {y}) \ {x} OBVIOUS
  <2>11. g[s \ {x}] = w[y] + g[(s \ {x}) \ {y}] BY <2>4, <2>5, <2>9
  <2>12. g[s \ {y}] = w[x] + g[(s \ {x}) \ {y}] BY <2>4, <2>5, <2>9, <2>10
  <2>13. w[x] \in Int /\ w[y] \in Int /\ g[(s \ {x}) \ {y}] \in Int BY <2>4
  <2>14. QED BY <2>3, <2>4, <2>11, <2>12, <2>13
<1>2. \A s \in SUBSET S : \A x \in s : g[s] = w[x] + g[s \ {x}]
  <2>1. ASSUME NEW s \in SUBSET S, NEW x \in s, g[s] # w[x] + g[s \ {x}] PROVE FALSE
    <3>1. Cardinality(s) \in Nat BY FS_Subset, FS_CardinalityType
    <3>2. Cardinality(s) \in Bad BY <2>1, <3>1
    <3>3. QED BY <1>1, <3>2
  <2>2. QED BY <2>1
<1>3. g[{}] = 0 BY DEF Adds
<1>4. QED BY <1>2, <1>3 DEF AnyFirst

(* A sum is the value of one additive function, whatever it is asked of.       *)
LEMMA SumIsAdditive ==
  ASSUME NEW D, IsFiniteSet(D), NEW w \in [D -> Int], NEW g \in [SUBSET D -> Int], Adds(g, w, D), NEW S \in SUBSET D
  PROVE  Sum(w, S) = g[S]
<1> DEFINE h == CHOOSE f : Adds(f, w, S)
           r == [s \in SUBSET S |-> g[s]]
<1>1. Adds(r, w, S)
  <2>1. \A s \in SUBSET S : s # {} => Chosen(s) \in s BY DEF Chosen
  <2>2. \A s \in SUBSET S : g[s] = IF s = {} THEN 0 ELSE w[Chosen(s)] + g[s \ {Chosen(s)}] BY DEF Adds
  <2>3. \A s \in SUBSET S : s \ {Chosen(s)} \in SUBSET S OBVIOUS
  <2>4. \A s \in SUBSET S : r[s] = g[s] OBVIOUS
  <2>5. r = [s \in SUBSET S |-> IF s = {} THEN 0 ELSE w[Chosen(s)] + r[s \ {Chosen(s)}]]
    BY <2>2, <2>3, <2>4
  <2>6. QED BY <2>5 DEF Adds
<1>2. Adds(h, w, S) BY <1>1
<1> HIDE DEF h, r
<1> DEFINE Bad == {n \in Nat : \E s \in SUBSET S : Cardinality(s) = n /\ h[s] # g[s]}
<1>3. Bad = {}
  <2> SUFFICES ASSUME Bad # {} PROVE FALSE OBVIOUS
  <2>0. Bad \subseteq Nat OBVIOUS
  <2>1. PICK m \in Bad : \A k \in Bad : m <= k BY <2>0, Least
  <2>2. PICK s \in SUBSET S : Cardinality(s) = m /\ h[s] # g[s] BY <2>1
  <2> DEFINE y == Chosen(s)
  <2>3. g[s] = (IF s = {} THEN 0 ELSE w[y] + g[s \ {y}]) /\ h[s] = (IF s = {} THEN 0 ELSE w[y] + h[s \ {y}])
    BY <1>2 DEF Adds
  <2>4. s # {} /\ y \in s BY <2>2, <2>3 DEF Chosen
  <2>5. IsFiniteSet(s) BY FS_Subset
  <2>6. Cardinality(s \ {y}) \in Nat /\ Cardinality(s \ {y}) = m - 1
    BY <2>2, <2>4, <2>5, FS_RemoveElement, FS_CardinalityType
  <2> HIDE DEF Bad, y
  <2>7. Cardinality(s \ {y}) \notin Bad BY <2>0, <2>1, <2>6
  <2>8. h[s \ {y}] = g[s \ {y}]
    <3>1. s \ {y} \in SUBSET S OBVIOUS
    <3>2. QED BY <2>6, <2>7, <3>1 DEF Bad
  <2>9. QED BY <2>2, <2>3, <2>4, <2>8
<1>4. h[S] = g[S]
  <2>1. Cardinality(S) \in Nat BY FS_Subset, FS_CardinalityType
  <2>2. QED BY <1>3, <2>1
<1>5. QED BY <1>4, SumIsChosen DEF h

LEMMA SumFacts ==
  ASSUME NEW D, IsFiniteSet(D), NEW w \in [D -> Int]
  PROVE  /\ Sum(w, {}) = 0
         /\ \A S \in SUBSET D : Sum(w, S) \in Int
         /\ \A S \in SUBSET D : \A x \in S : Sum(w, S) = w[x] + Sum(w, S \ {x})
<1>1. PICK g \in [SUBSET D -> Int] : Adds(g, w, D) BY SumExists
<1>2. \A S \in SUBSET D : Sum(w, S) = g[S] BY <1>1, SumIsAdditive
<1>3. AnyFirst(g, w, D) BY <1>1, AnyOrder
<1>4. \A S \in SUBSET D : \A x \in S : S \ {x} \in SUBSET D OBVIOUS
<1>5. QED BY <1>2, <1>3, <1>4 DEF AnyFirst

----------------------------------------------------------------------------
(* Attempts.                                                                   *)

Whys == Problems \cup {"initial"}
Attempt == [why : Whys, problem : Problems \cup {None}]
Latest == attempts[Len(attempts)]

(* While the loop runs there is one attempt per repair, and `why` is the       *)
(* problem of the last one.                                                    *)
Chained ==
  /\ \A i \in 1..Len(attempts) :
       attempts[i].why = IF i = 1 THEN "initial" ELSE attempts[i - 1].problem
  /\ pc \in {"generate", "reply"} =>
       /\ Len(attempts) = repairs
       /\ why = IF repairs = 0 THEN "initial" ELSE Latest.problem
  /\ pc \in {"verify", "halves"} => Len(attempts) = repairs + 1

(* Every round was paid for: by the first try, a repair, or the one repeated   *)
(* clarification.                                                              *)
Rounds == 1 + repairs + IF "asked" \in tried THEN 1 ELSE 0
Costs ==
  /\ asks <= MostAsks
  /\ pc = "generate" => asks + try <= 2 * Rounds
  /\ pc = "reply" => asks <= 2 * Rounds

(* A repair that is tried once was tried where the attempts show it.           *)
Shown ==
  /\ "period" \in tried => Repaired("period_missing")
  /\ "empty" \in tried => Repaired("empty_result")

LoopInv == TypeOK /\ Chained /\ Costs /\ Shown /\ KeptForAReason

LEMMA MinOfTwo ==
  ASSUME NEW a \in Nat, NEW b \in Nat
  PROVE  Min({a, b}) = IF a <= b THEN a ELSE b
<1>1. \E x \in {a, b} : \A y \in {a, b} : x <= y OBVIOUS
<1>2. Min({a, b}) \in {a, b} /\ \A y \in {a, b} : Min({a, b}) <= y BY <1>1 DEF Min
<1>3. QED BY <1>2

LEMMA SignalsAre ==
  Signals = {"agreed", "disagreed", "fan_out", "period_unfiltered", "weak_join", "nulls",
             "unconfirmed_link", "narration_fallback", "truncated", "assumptions", "vetted"}
BY DEF Signals, Weight

LEMMA LoopBegins == Init => LoopInv
<1> SUFFICES ASSUME Init PROVE LoopInv OBVIOUS
<1> USE AttemptsAssumption DEF Init
<1>1. TypeOK
  <2>1. clarified \in BOOLEAN /\ moved \in BOOLEAN BY Zenon
  <2>2. /\ pc \in {"generate", "reply", "verify", "halves", "done"}
        /\ elapsed \in 0..(BudgetS + 1) /\ asks \in Nat /\ try \in 1..2 /\ repairs \in 0..MaxRepairs
        /\ why \in Problems \cup {"initial"} /\ told \in Problems \cup {None, "choice"}
        /\ tried \subseteq {"period", "empty", "asked"}
        /\ attempts \in Seq([why : Problems \cup {"initial"}, problem : Problems \cup {None}])
        /\ found \subseteq Facts /\ signals \subseteq Signals
        /\ cross \in {"idle", "running", "agreed", "disagreed", "unavailable", "skipped"}
        /\ narration \in {"idle", "running", "written", "fallback", "failed"}
    OBVIOUS
  <2>3. answer \in [kind : Kinds \cup {None}, level : Levels \cup {None}] BY DEF NoAnswer, None
  <2> HIDE DEF Init
  <2>4. QED BY <2>1, <2>2, <2>3 DEF TypeOK
<1>2. Chained BY DEF Chained
<1>3. Costs BY DEF Costs, Rounds, MostAsks
<1>4. Shown /\ KeptForAReason BY DEF Shown, KeptForAReason
<1>5. QED BY <1>1, <1>2, <1>3, <1>4 DEF LoopInv

LEMMA TimePassesWithin ==
  ASSUME TypeOK, TimePasses
  PROVE  elapsed' \in 0..(BudgetS + 1)
<1>1. PICK s \in Delays : elapsed' = Min({elapsed + s, BudgetS + 1}) BY DEF TimePasses
<1>2. elapsed + s \in Nat /\ BudgetS + 1 \in Nat BY AttemptsAssumption DEF TypeOK
<1>3. QED BY <1>1, <1>2, MinOfTwo

(* The reply: one completion, or two, and the loop's own state is as it was.   *)
LEMMA CompleteKeeps ==
  ASSUME LoopInv, Complete
  PROVE  LoopInv'
<1>1. pc = "generate" /\ UNCHANGED <<clarified, moved, repairs, why, told, tried, attempts, found, cross, narration, signals>>
  BY DEF Complete, Loop, Halves
<1>2. /\ repairs \in 0..MaxRepairs /\ MaxRepairs \in Nat /\ asks \in Nat /\ try \in 1..2
      /\ asks + try <= 2 * Rounds
  BY <1>1, AttemptsAssumption DEF LoopInv, TypeOK, Costs
<1>3. Rounds \in Nat /\ 2 * Rounds <= MostAsks BY <1>2 DEF Rounds, MostAsks
<1>4. asks' = asks + 1 /\ Rounds' = Rounds
  <2>1. MostAsks \in Nat BY <1>2 DEF MostAsks
  <2>2. asks + 1 \in Nat /\ MostAsks + 1 \in Nat /\ asks + 1 <= MostAsks + 1 BY <1>2, <1>3, <2>1
  <2>3. asks' = Min({asks + 1, MostAsks + 1}) BY DEF Complete
  <2>4. asks' = asks + 1 BY <2>2, <2>3, MinOfTwo
  <2>5. Rounds' = Rounds BY <1>1 DEF Rounds
  <2>6. QED BY <2>4, <2>5
<1>5. \/ pc' = "reply" /\ try' = 2 /\ UNCHANGED answer
      \/ try = 2 /\ try' = 1 /\ UNCHANGED <<pc, answer>>
      \/ End("error") /\ UNCHANGED try
  BY DEF Complete
<1>6. TypeOK'
  <2>1. elapsed' \in 0..(BudgetS + 1) BY TimePassesWithin DEF Complete, LoopInv
  <2>2. pc' \in {"generate", "reply", "done"} /\ try' \in 1..2
        /\ answer' \in [kind : Kinds \cup {None}, level : Levels \cup {None}]
    BY <1>1, <1>2, <1>5 DEF End, NoAnswer, Kinds, LoopInv, TypeOK
  <2>3. asks' \in Nat BY <1>2, <1>4
  <2>4. QED BY <1>1, <2>1, <2>2, <2>3 DEF LoopInv, TypeOK
<1>7. Chained' BY <1>1, <1>5 DEF LoopInv, Chained, End, Latest
<1>8. Costs' BY <1>1, <1>2, <1>3, <1>4, <1>5 DEF Costs, MostAsks, End
<1>9. Shown' BY <1>1 DEF LoopInv, Shown, Repaired
<1>10. KeptForAReason' BY <1>1, <1>5 DEF KeptForAReason, End
<1>11. QED BY <1>6, <1>7, <1>8, <1>9, <1>10 DEF LoopInv

(* A reply without SQL: the question ends, or the choice is told once more.    *)
LEMMA RepliesKeep ==
  ASSUME LoopInv, AsksAgain \/ NoSql \/ TimedOut
  PROVE  LoopInv'
<1>1. pc = "reply" /\ UNCHANGED <<clarified, moved, asks, try, repairs, why, attempts, found, cross, narration, signals>>
  BY DEF AsksAgain, NoSql, TimedOut, Loop, Halves
<1>2. elapsed' \in 0..(BudgetS + 1)
  BY TimePassesWithin DEF AsksAgain, NoSql, TimedOut, LoopInv, TypeOK
<1>3. \/ \E kind \in Kinds : End(kind) /\ UNCHANGED <<tried, told>>
      \/ /\ "asked" \notin tried /\ tried' = tried \cup {"asked"}
         /\ told' = "choice" /\ pc' = "generate" /\ UNCHANGED answer
  BY DEF AsksAgain, AlreadyAsked, NoSql, TimedOut, Loop, Kinds
<1>4. TypeOK' BY <1>1, <1>2, <1>3 DEF LoopInv, TypeOK, End, NoAnswer
<1>5. Chained' BY <1>1, <1>3 DEF LoopInv, Chained, End, Latest
<1>6. Costs'
  <2>1. repairs \in Nat /\ asks \in Nat /\ try \in 1..2 /\ asks <= 2 * Rounds
    BY <1>1 DEF LoopInv, TypeOK, Costs
  <2>2. QED BY <1>1, <1>3, <2>1 DEF LoopInv, Costs, Rounds, End
<1>7. Shown' BY <1>1, <1>3 DEF LoopInv, Shown, Repaired
<1>8. KeptForAReason' BY <1>1, <1>3 DEF KeptForAReason, End
<1>9. QED BY <1>4, <1>5, <1>6, <1>7, <1>8 DEF LoopInv

(* An attempt is written down with its reason and its problem.                 *)
LEMMA AttemptWritten ==
  ASSUME LoopInv, pc = "reply", NEW problem \in Problems \cup {None},
         attempts' = Append(attempts, [why |-> why, problem |-> problem])
  PROVE  /\ attempts' \in Seq(Attempt) /\ Len(attempts') = repairs + 1
         /\ attempts'[Len(attempts')].problem = problem
         /\ \A i \in 1..Len(attempts') :
              attempts'[i].why = IF i = 1 THEN "initial" ELSE attempts'[i - 1].problem
         /\ \A p : Repaired(p) => Repaired(p)'
         /\ Repaired(problem)'
<1> DEFINE a == [why |-> why, problem |-> problem]
<1>1. attempts \in Seq(Attempt) /\ a \in Attempt /\ Len(attempts) = repairs /\ repairs \in Nat
  BY DEF LoopInv, TypeOK, Chained, Attempt, Whys
<1>2. a.why = IF repairs = 0 THEN "initial" ELSE attempts[repairs].problem
  BY <1>1 DEF LoopInv, Chained, Latest
<1>3. a.problem = problem OBVIOUS
<1>4. \A i \in 1..repairs : attempts[i].why = IF i = 1 THEN "initial" ELSE attempts[i - 1].problem
  BY <1>1 DEF LoopInv, Chained
<1>5. attempts' = Append(attempts, a) OBVIOUS
<1> HIDE DEF a
<1>6. /\ attempts' \in Seq(Attempt) /\ Len(attempts') = repairs + 1 /\ attempts'[repairs + 1] = a
      /\ \A i \in 1..repairs : attempts'[i] = attempts[i]
      /\ DOMAIN attempts' = 1..(repairs + 1) /\ DOMAIN attempts = 1..repairs
  BY <1>1, <1>5
<1>7. \A i \in 1..(repairs + 1) : attempts'[i].why = IF i = 1 THEN "initial" ELSE attempts'[i - 1].problem
  BY <1>1, <1>2, <1>4, <1>6
<1>8. \A p : Repaired(p) => Repaired(p)' BY <1>1, <1>6 DEF Repaired
<1>9. Repaired(problem)' BY <1>1, <1>3, <1>6 DEF Repaired
<1>10. QED BY <1>3, <1>6, <1>7, <1>8, <1>9

(* The next round has been paid for by the repair.                             *)
LEMMA RepairingKeeps ==
  ASSUME LoopInv, pc = "reply", NEW problem \in Problems, ~OutOfRepairs, RepairNext(problem),
         attempts' = Append(attempts, [why |-> why, problem |-> problem]),
         UNCHANGED <<asks, try, cross, narration, signals, clarified, moved>>,
         elapsed' \in 0..(BudgetS + 1), found' \subseteq Facts,
         tried' \subseteq {"period", "empty", "asked"}, "asked" \in tried' <=> "asked" \in tried, Shown'
  PROVE  LoopInv'
<1>1. problem \in Problems \cup {None} OBVIOUS
<1>2. /\ attempts' \in Seq(Attempt) /\ Len(attempts') = repairs + 1
      /\ attempts'[Len(attempts')].problem = problem
      /\ \A i \in 1..Len(attempts') :
           attempts'[i].why = IF i = 1 THEN "initial" ELSE attempts'[i - 1].problem
  BY <1>1, AttemptWritten
<1>3. /\ repairs' = repairs + 1 /\ why' = problem /\ told' = problem /\ pc' = "generate" /\ UNCHANGED answer
      /\ repairs \in 0..MaxRepairs /\ repairs + 1 \in 0..MaxRepairs /\ MaxRepairs \in Nat
  BY AttemptsAssumption DEF RepairNext, OutOfRepairs, LoopInv, TypeOK
<1>4. TypeOK' BY <1>2, <1>3 DEF LoopInv, TypeOK, Attempt, Whys
<1>5. Chained' BY <1>2, <1>3 DEF Chained, Latest
<1>6. Costs'
  <2>1. asks \in Nat /\ try \in 1..2 /\ asks <= 2 * Rounds /\ asks <= MostAsks BY DEF LoopInv, TypeOK, Costs
  <2>2. Rounds' = Rounds + 1 /\ Rounds \in Nat BY <1>3 DEF Rounds
  <2>3. MostAsks' = MostAsks BY DEF MostAsks
  <2>4. QED BY <1>3, <2>1, <2>2, <2>3 DEF Costs
<1>7. KeptForAReason' BY <1>3 DEF KeptForAReason
<1>8. QED BY <1>4, <1>5, <1>6, <1>7 DEF LoopInv

(* A query that ran: what is wrong with its rows is repaired, or kept for a    *)
(* reason.                                                                     *)
LEMMA RanKeeps ==
  ASSUME LoopInv, Ran
  PROVE  LoopInv'
<1>1. PICK facts \in SUBSET Facts :
        /\ attempts' = Append(attempts, [why |-> why, problem |-> Problem(facts)])
        /\ tried' = Marked(Problem(facts))
        /\ found' = facts
        /\ IF Problem(facts) = None \/ OutOfRepairs \/ OutOfTime THEN Keep ELSE RepairNext(Problem(facts))
  BY DEF Ran
<1>2. PICK problem \in Problems \cup {None} : problem = Problem(facts) BY DEF Problem, Problems
<1>3. pc = "reply" /\ elapsed' \in 0..(BudgetS + 1) /\ UNCHANGED <<clarified, moved, asks, try, cross, narration, signals>>
  BY TimePassesWithin DEF Ran, Halves, LoopInv
<1>4. attempts' = Append(attempts, [why |-> why, problem |-> problem]) BY <1>1, <1>2
<1>5. /\ attempts' \in Seq(Attempt) /\ Len(attempts') = repairs + 1
      /\ \A i \in 1..Len(attempts') :
           attempts'[i].why = IF i = 1 THEN "initial" ELSE attempts'[i - 1].problem
      /\ \A p : Repaired(p) => Repaired(p)'
      /\ Repaired(problem)'
  BY <1>3, <1>4, AttemptWritten
<1>6. /\ tried \subseteq tried' /\ tried' \subseteq {"period", "empty", "asked"}
      /\ "asked" \in tried' <=> "asked" \in tried
      /\ "period" \in tried' => "period" \in tried \/ problem = "period_missing"
      /\ "empty" \in tried' => "empty" \in tried \/ problem = "empty_result"
  BY <1>1, <1>2 DEF Marked, LoopInv, TypeOK
<1>7. Shown' BY <1>5, <1>6 DEF LoopInv, Shown
<1>8. found' \subseteq Facts BY <1>1
<1>9. CASE Keep
  <2>1. pc' = "verify" /\ UNCHANGED <<repairs, why, told, answer>> BY <1>9 DEF Keep
  <2>2. TypeOK' BY <1>3, <1>5, <1>6, <1>8, <2>1 DEF LoopInv, TypeOK, Attempt, Whys
  <2>3. Chained' BY <1>5, <2>1 DEF Chained
  <2>4. Costs' BY <1>3, <2>1 DEF LoopInv, Costs, MostAsks
  <2>5. KeptForAReason'
    <3>1. SUFFICES ASSUME repairs' < MaxRepairs, elapsed' <= BudgetS
                   PROVE  /\ "fan_out" \notin found'
                          /\ "period" \in found' => Repaired("period_missing")'
                          /\ "empty" \in found' => Repaired("empty_result")'
      BY DEF KeptForAReason
    <3>2. ~OutOfRepairs /\ ~OutOfTime
      BY <2>1, <3>1, AttemptsAssumption, <1>3 DEF OutOfRepairs, OutOfTime, LoopInv, TypeOK
    <3>3. Problem(facts) = None
      <4>1. SUFFICES ASSUME Problem(facts) # None PROVE FALSE OBVIOUS
      <4>2. RepairNext(Problem(facts)) BY <1>1, <3>2, <4>1
      <4>3. QED BY <2>1, <4>2 DEF RepairNext
    <3>4. /\ "fan_out" \notin facts
          /\ "period" \in facts => "period" \in tried
          /\ "empty" \in facts => "empty" \in tried
      BY <3>3 DEF Problem, None
    <3>5. /\ "period" \in tried => Repaired("period_missing")
          /\ "empty" \in tried => Repaired("empty_result") BY DEF LoopInv, Shown
    <3>6. QED BY <1>1, <1>5, <3>4, <3>5
  <2>6. QED BY <1>7, <2>2, <2>3, <2>4, <2>5 DEF LoopInv
<1>10. CASE RepairNext(Problem(facts)) /\ Problem(facts) # None /\ ~OutOfRepairs
  <2>1. problem \in Problems /\ RepairNext(problem) BY <1>2, <1>10
  <2>2. QED BY <1>3, <1>4, <1>6, <1>7, <1>8, <1>10, <2>1, RepairingKeeps
<1>11. QED BY <1>1, <1>9, <1>10

(* A query that the guard or the database refused.                             *)
LEMMA RejectedKeeps ==
  ASSUME LoopInv, Rejected
  PROVE  LoopInv'
<1>1. PICK problem \in {"guard_rejected", "sql_error"} :
        /\ attempts' = Append(attempts, [why |-> why, problem |-> problem])
        /\ IF OutOfRepairs \/ OutOfTime THEN Fail ELSE RepairNext(problem)
  BY DEF Rejected
<1>2. /\ pc = "reply" /\ elapsed' \in 0..(BudgetS + 1)
      /\ UNCHANGED <<clarified, moved, asks, try, tried, found, cross, narration, signals>>
  BY TimePassesWithin DEF Rejected, Halves, LoopInv
<1>3. problem \in Problems BY DEF Problems
<1>4. /\ attempts' \in Seq(Attempt) /\ Len(attempts') = repairs + 1
      /\ \A i \in 1..Len(attempts') :
           attempts'[i].why = IF i = 1 THEN "initial" ELSE attempts'[i - 1].problem
      /\ \A p : Repaired(p) => Repaired(p)'
  BY <1>1, <1>2, <1>3, AttemptWritten
<1>5. Shown' BY <1>2, <1>4 DEF LoopInv, Shown
<1>6. CASE Fail
  <2>1. pc' = "done" /\ UNCHANGED <<repairs, why, told>>
        /\ answer' \in [kind : Kinds \cup {None}, level : Levels \cup {None}]
    BY <1>6 DEF Fail, End, NoAnswer, Kinds
  <2>2. TypeOK' BY <1>2, <1>4, <2>1 DEF LoopInv, TypeOK, Attempt, Whys
  <2>3. Chained' BY <1>4, <2>1 DEF Chained
  <2>4. Costs' /\ KeptForAReason' BY <1>2, <2>1 DEF LoopInv, Costs, MostAsks, KeptForAReason
  <2>5. QED BY <1>5, <2>2, <2>3, <2>4 DEF LoopInv
<1>7. CASE RepairNext(problem) /\ ~OutOfRepairs
  <2>1. found' \subseteq Facts /\ tried' \subseteq {"period", "empty", "asked"} BY <1>2 DEF LoopInv, TypeOK
  <2>2. QED BY <1>1, <1>2, <1>3, <1>5, <1>7, <2>1, RepairingKeeps
<1>8. QED BY <1>1, <1>6, <1>7

(* A new catalog is nothing the loop keeps.                                    *)
LEMMA MovingKeeps ==
  ASSUME LoopInv, CatalogMoves
  PROVE  LoopInv'
<1>1. moved' = TRUE /\ UNCHANGED <<clarified, pc, elapsed, asks, try, repairs, why, told, tried, attempts, found,
                                  cross, narration, signals, answer>>
  BY DEF CatalogMoves, Loop, Halves
<1>2. TypeOK' BY <1>1 DEF LoopInv, TypeOK
<1>3. Chained' /\ Costs' BY <1>1 DEF LoopInv, Chained, Latest, Costs, Rounds, MostAsks
<1>4. Shown' /\ KeptForAReason' BY <1>1 DEF LoopInv, Shown, KeptForAReason, Repaired
<1>5. QED BY <1>2, <1>3, <1>4 DEF LoopInv

(* After the loop: the loop's state is only read.                              *)
LEMMA RestKeeps ==
  ASSUME LoopInv, Verify \/ CrossCheck \/ Narrate \/ Finish \/ UNCHANGED vars
  PROVE  LoopInv'
<1>1. UNCHANGED <<clarified, moved, elapsed, asks, try, repairs, why, told, tried, attempts, found>>
  BY DEF Verify, CrossCheck, Narrate, Finish, Loop, vars
<1>2. \/ pc' = pc
      \/ pc = "verify" /\ pc' = "halves"
      \/ pc' = "done"
  BY DEF Verify, CrossCheck, Narrate, Finish, End, vars
<1>3. TypeOK'
  <2>1. pc' \in {"generate", "reply", "verify", "halves", "done"} BY <1>2 DEF LoopInv, TypeOK
  <2>2. cross' \in {"idle", "running", "agreed", "disagreed", "unavailable", "skipped"}
        /\ narration' \in {"idle", "running", "written", "fallback", "failed"}
    BY DEF Verify, CrossCheck, Narrate, Finish, vars, LoopInv, TypeOK
  <2>3. signals' \subseteq Signals
    <3>1. CASE Verify BY <3>1, SignalsAre DEF Verify, Observed
    <3>2. CASE Finish
      <4>1. AllSignals \subseteq Signals BY SignalsAre DEF AllSignals, LoopInv, TypeOK
      <4>2. Extras \subseteq Signals BY AttemptsAssumption
      <4>3. QED BY <3>2, <4>1, <4>2 DEF Finish, LoopInv, TypeOK
    <3>3. QED BY <3>1, <3>2 DEF CrossCheck, Narrate, vars, LoopInv, TypeOK
  <2>4. answer' \in [kind : Kinds \cup {None}, level : Levels \cup {None}]
    <3>1. CASE Finish
      <4>1. Level(signals', repairs) \in Levels BY DEF Level, Levels
      <4>2. QED BY <3>1, <4>1 DEF Finish, End, NoAnswer, Kinds
    <3>2. QED BY <3>1 DEF Verify, CrossCheck, Narrate, vars, LoopInv, TypeOK
  <2>5. QED BY <1>1, <2>1, <2>2, <2>3, <2>4 DEF LoopInv, TypeOK
<1>4. Chained' BY <1>1, <1>2 DEF LoopInv, Chained, Latest
<1>5. Costs' BY <1>1, <1>2 DEF LoopInv, Costs, Rounds, MostAsks
<1>6. Shown' BY <1>1 DEF LoopInv, Shown, Repaired
<1>7. KeptForAReason' BY <1>1, <1>2 DEF LoopInv, KeptForAReason, Repaired
<1>8. QED BY <1>3, <1>4, <1>5, <1>6, <1>7 DEF LoopInv

LEMMA LoopHolds == Spec => []LoopInv
<1>1. LoopInv /\ [Next]_vars => LoopInv'
  BY CompleteKeeps, RepliesKeep, RanKeeps, RejectedKeeps, MovingKeeps, RestKeeps DEF Next
<1>2. QED BY <1>1, LoopBegins, PTL DEF Spec

(* The locals of a question keep their types; in particular no repair is made  *)
(* beyond MAX_REPAIRS.                                                         *)
THEOREM LoopTypeCorrect == Spec => []TypeOK
<1>1. LoopInv => TypeOK BY DEF LoopInv
<1>2. QED BY <1>1, LoopHolds, PTL

(* Whatever the model replies and however often it asks again, a question      *)
(* costs at most two completions for the first try, for each of MAX_REPAIRS    *)
(* repairs and for one repeated clarification.                                 *)
THEOREM LoopIsAffordable == Spec => []CallsBounded
<1>1. LoopInv => CallsBounded BY DEF LoopInv, Costs, CallsBounded
<1>2. QED BY <1>1, LoopHolds, PTL

(* "How I got this" tells the loop as it was: each attempt was made for the    *)
(* problem of the one before it.                                               *)
THEOREM TheStoryIsTrue == Spec => []AttemptsChain
<1>1. LoopInv => AttemptsChain
  <2>1. SUFFICES ASSUME LoopInv PROVE AttemptsChain OBVIOUS
  <2>2. DOMAIN attempts = 1..Len(attempts) BY DEF LoopInv, TypeOK
  <2>3. \A i \in DOMAIN attempts :
          attempts[i].why = IF i = 1 THEN "initial" ELSE attempts[i - 1].problem
    BY <2>1, <2>2 DEF LoopInv, Chained
  <2>4. pc \in {"verify", "halves"} => Len(attempts) = repairs + 1 BY <2>1 DEF LoopInv, Chained
  <2>5. QED BY <2>3, <2>4 DEF AttemptsChain
<1>2. QED BY <1>1, LoopHolds, PTL

(* A result with something wrong in it is kept only after the repair it        *)
(* deserves, unless the repairs or the time ran out.                           *)
THEOREM NothingWrongIsKeptUntried == Spec => []KeptForAReason
<1>1. LoopInv => KeptForAReason BY DEF LoopInv
<1>2. QED BY <1>1, LoopHolds, PTL

(* What a badge is given for: the signals of the query that was kept. A        *)
(* missing period kept without any repair means that the time had run out,     *)
(* for the repair of a missing period is tried first.                          *)
Given ==
  /\ pc \in {"generate", "reply"} /\ repairs = 0 => "period" \notin tried
  /\ pc \in {"verify", "halves"} /\ repairs = 0 /\ "period" \in found => elapsed > BudgetS
  /\ pc = "halves" => moved \/ signals = Observed
  /\ pc # "done" => answer = NoAnswer

BadgeInv == LoopInv /\ Given /\ BadgeIsHonest

LEMMA SignalsFinite == IsFiniteSet(Signals)
<1>1. \A a, b, c : IsFiniteSet({a, b, c})
  <2> SUFFICES ASSUME NEW a, NEW b, NEW c PROVE IsFiniteSet({a, b, c}) OBVIOUS
  <2>1. IsFiniteSet({a} \cup {b}) BY FS_Singleton, FS_Union
  <2>2. IsFiniteSet(({a} \cup {b}) \cup {c}) BY <2>1, FS_Singleton, FS_Union
  <2>3. {a, b, c} = ({a} \cup {b}) \cup {c} OBVIOUS
  <2>4. QED BY <2>2, <2>3
<1> DEFINE some == {"agreed", "disagreed", "fan_out"} \cup {"period_unfiltered", "weak_join", "nulls"}
           others == {"unconfirmed_link", "narration_fallback", "truncated"} \cup {"truncated", "assumptions", "vetted"}
<1>2. IsFiniteSet(some) /\ IsFiniteSet(others) BY <1>1, FS_Union
<1>3. Signals = some \cup others BY SignalsAre
<1> HIDE DEF some, others
<1>4. QED BY <1>2, <1>3, FS_Union

(* A signal is taken out of the sum when it is in it.                          *)
LEMMA SignalsAddUp ==
  /\ Sum(Weight, {}) = 0
  /\ \A S \in SUBSET Signals : Sum(Weight, S) \in Int
  /\ \A S \in SUBSET Signals : \A x \in S : Sum(Weight, S) = Weight[x] + Sum(Weight, S \ {x})
<1>1. Weight \in [Signals -> Int] BY SignalsAre DEF Weight
<1>2. QED BY <1>1, SignalsFinite, SumFacts

(* Only agreement and vetting raise a score, by twenty points at most.         *)
LEMMA TwentyAtMost ==
  ASSUME NEW S \in SUBSET Signals
  PROVE  Sum(Weight, S) <= 20
<1> DEFINE raising == {"agreed", "vetted"}
<1>1. \A R \in SUBSET Signals : R \cap raising = {} => Sum(Weight, R) <= 0
  <2> DEFINE Bad == {n \in Nat : \E R \in SUBSET Signals :
                       Cardinality(R) = n /\ R \cap raising = {} /\ ~(Sum(Weight, R) <= 0)}
  <2>1. Bad = {}
    <3> SUFFICES ASSUME Bad # {} PROVE FALSE OBVIOUS
    <3>1. PICK n \in Bad : \A k \in Bad : n <= k
      <4>1. Bad \subseteq Nat OBVIOUS
      <4>2. QED BY <4>1, Least
    <3>2. PICK R \in SUBSET Signals : Cardinality(R) = n /\ R \cap raising = {} /\ ~(Sum(Weight, R) <= 0)
      BY <3>1
    <3>3. PICK x \in R : TRUE BY <3>2, SignalsAddUp
    <3>4. IsFiniteSet(R) BY SignalsFinite, FS_Subset
    <3>5. Cardinality(R \ {x}) \in Nat /\ Cardinality(R \ {x}) = n - 1 /\ n \in Nat
      BY <3>2, <3>4, FS_RemoveElement, FS_CardinalityType, FS_Subset
    <3>6. Sum(Weight, R) = Weight[x] + Sum(Weight, R \ {x}) /\ Sum(Weight, R \ {x}) \in Int
      BY SignalsAddUp
    <3>7. Weight[x] \in Int /\ Weight[x] <= 0 BY <3>2, SignalsAre DEF Weight
    <3>8. ~(Sum(Weight, R \ {x}) <= 0) BY <3>2, <3>6, <3>7
    <3>9. n - 1 \in Bad BY <3>2, <3>5, <3>8
    <3>10. QED BY <3>1, <3>5, <3>9
  <2>2. ASSUME NEW R \in SUBSET Signals, R \cap raising = {} PROVE Sum(Weight, R) <= 0
    <3>1. Cardinality(R) \in Nat BY SignalsFinite, FS_Subset, FS_CardinalityType
    <3>2. QED BY <2>1, <2>2, <3>1
  <2>3. QED BY <2>2
<1> DEFINE T == S \ {"agreed"}
           R == T \ {"vetted"}
<1>2. Sum(Weight, R) \in Int /\ Sum(Weight, R) <= 0 BY <1>1, SignalsAddUp
<1>3. Sum(Weight, T) \in Int /\ Sum(Weight, T) <= 5 + Sum(Weight, R)
  <2>1. CASE "vetted" \in T BY <2>1, <1>2, SignalsAddUp DEF Weight
  <2>2. CASE "vetted" \notin T
    <3>1. R = T BY <2>2
    <3>2. QED BY <1>2, <3>1
  <2>3. QED BY <2>1, <2>2
<1>4. Sum(Weight, S) <= 15 + Sum(Weight, T)
  <2>1. CASE "agreed" \in S BY <2>1, <1>3, SignalsAddUp DEF Weight
  <2>2. CASE "agreed" \notin S
    <3>1. T = S BY <2>2
    <3>2. QED BY <1>3, <3>1
  <2>3. QED BY <2>1, <2>2
<1> HIDE DEF T, R
<1>5. Sum(Weight, S) \in Int BY SignalsAddUp
<1>6. QED BY <1>2, <1>3, <1>4, <1>5

LEMMA Clamped == ASSUME NEW n \in Int, Clamp(n) >= High PROVE n >= 80
<1>1. \A a, b \in Int : Min({a, b}) = IF a <= b THEN a ELSE b
  <2> SUFFICES ASSUME NEW a \in Int, NEW b \in Int PROVE Min({a, b}) = IF a <= b THEN a ELSE b OBVIOUS
  <2>1. \E x \in {a, b} : \A y \in {a, b} : x <= y OBVIOUS
  <2>2. Min({a, b}) \in {a, b} /\ \A y \in {a, b} : Min({a, b}) <= y BY <2>1 DEF Min
  <2>3. QED BY <2>2
<1>2. \A a, b \in Int : Max({a, b}) = IF a >= b THEN a ELSE b
  <2> SUFFICES ASSUME NEW a \in Int, NEW b \in Int PROVE Max({a, b}) = IF a >= b THEN a ELSE b OBVIOUS
  <2>1. \E x \in {a, b} : \A y \in {a, b} : x >= y OBVIOUS
  <2>2. Max({a, b}) \in {a, b} /\ \A y \in {a, b} : Max({a, b}) >= y BY <2>1 DEF Max
  <2>3. QED BY <2>2
<1>3. QED BY <1>1, <1>2 DEF Clamp, High

(* The best badge leaves no room for a doubled count or a disagreement, and    *)
(* for an ignored period only without any repair.                              *)
LEMMA HighMeans ==
  ASSUME NEW S \in SUBSET Signals, NEW r \in Nat, Level(S, r) = "high"
  PROVE  /\ "fan_out" \notin S /\ "disagreed" \notin S
         /\ "period_unfiltered" \in S => r = 0
<1> DEFINE total == Sum(Weight, S)
<1>1. total \in Int BY SignalsAddUp
<1>2. Score(S, r) >= High
  <2>1. Level(S, r) = IF Score(S, r) >= High THEN "high" ELSE IF Score(S, r) >= Medium THEN "medium" ELSE "low"
    BY DEF Level
  <2>2. QED BY <2>1
<1>3. Score(S, r) = Clamp(80 - 15 * r + total) BY DEF Score, Sum
<1> HIDE DEF total
<1>4. 80 - 15 * r + total >= 80
  <2>1. 80 - 15 * r + total \in Int BY <1>1
  <2>2. QED BY <1>2, <1>3, <2>1, Clamped
<1>5. ASSUME NEW x \in S PROVE total <= Weight[x] + 20 /\ Weight[x] \in Int
  <2>1. S \ {x} \in SUBSET Signals OBVIOUS
  <2>2. Sum(Weight, S \ {x}) \in Int /\ Sum(Weight, S \ {x}) <= 20 BY <2>1, SignalsAddUp, TwentyAtMost
  <2>3. Weight[x] \in Int BY SignalsAre DEF Weight
  <2>4. total = Weight[x] + Sum(Weight, S \ {x}) BY SignalsAddUp DEF total
  <2>5. QED BY <2>2, <2>3, <2>4
<1>6. Weight["fan_out"] = -25 /\ Weight["disagreed"] = -35 /\ Weight["period_unfiltered"] = -20 BY DEF Weight
<1>7. "fan_out" \in S => total <= -5 BY <1>1, <1>5, <1>6
<1>8. "disagreed" \in S => total <= -15 BY <1>1, <1>5, <1>6
<1>9. "period_unfiltered" \in S => total <= 0 BY <1>1, <1>5, <1>6
<1>10. QED BY <1>1, <1>4, <1>7, <1>8, <1>9

LEMMA LoopKeeps == ASSUME LoopInv, [Next]_vars PROVE LoopInv'
BY CompleteKeeps, RepliesKeep, RanKeeps, RejectedKeeps, MovingKeeps, RestKeeps DEF Next

LEMMA BadgeKept ==
  ASSUME MaxRepairs > 0, BadgeInv, [Next]_vars
  PROVE  BadgeInv'
<1>1. LoopInv' BY LoopKeeps DEF BadgeInv
<1> SUFFICES Given' /\ BadgeIsHonest' BY <1>1 DEF BadgeInv
<1>2. repairs \in Nat /\ pc \in {"generate", "reply", "verify", "halves", "done"} /\ MaxRepairs \in Nat
  BY AttemptsAssumption DEF BadgeInv, LoopInv, TypeOK
<1>3. ASSUME Given', pc' # "done" PROVE BadgeIsHonest'
  BY <1>3 DEF Given, BadgeIsHonest, NoAnswer, None
<1>4. ASSUME NEW kind, End(kind) PROVE Given' /\ BadgeIsHonest'
  BY <1>4 DEF End, Given, BadgeIsHonest, NoAnswer, None
<1>5. CASE Complete
  <2>1. CASE \E kind : End(kind) BY <1>4, <2>1
  <2>2. CASE ~ \E kind : End(kind)
    <3>1. pc = "generate" /\ pc' \in {"generate", "reply"} /\ UNCHANGED <<repairs, tried, answer>>
      BY <1>5, <2>2 DEF Complete, Loop
    <3>2. Given' BY <3>1 DEF BadgeInv, Given
    <3>3. QED BY <1>3, <3>1, <3>2
  <2>3. QED BY <2>1, <2>2
<1>6. CASE AsksAgain
  <2>1. CASE \E kind : End(kind) BY <1>4, <2>1
  <2>2. CASE ~ \E kind : End(kind)
    <3>1. /\ pc = "reply" /\ pc' = "generate" /\ UNCHANGED <<repairs, answer>>
          /\ tried' = tried \cup {"asked"}
      BY <1>6, <2>2 DEF AsksAgain
    <3>2. Given' BY <3>1 DEF BadgeInv, Given
    <3>3. QED BY <1>3, <3>1, <3>2
  <2>3. QED BY <2>1, <2>2
<1>7. CASE NoSql \/ TimedOut BY <1>4, <1>7 DEF NoSql, TimedOut
<1>8. CASE Ran
  <2>1. PICK facts \in SUBSET Facts :
          /\ tried' = Marked(Problem(facts))
          /\ found' = facts
          /\ IF Problem(facts) = None \/ OutOfRepairs \/ OutOfTime THEN Keep ELSE RepairNext(Problem(facts))
    BY <1>8 DEF Ran
  <2>2. pc = "reply" /\ elapsed' \in Int /\ BudgetS \in Int
    BY <1>1, <1>8, AttemptsAssumption DEF Ran, LoopInv, TypeOK
  <2>3. answer = NoAnswer BY <2>2 DEF BadgeInv, Given
  <2>4. CASE RepairNext(Problem(facts))
    <3>1. pc' = "generate" /\ repairs' = repairs + 1 /\ UNCHANGED answer BY <2>4 DEF RepairNext
    <3>2. Given' BY <1>2, <2>3, <3>1 DEF Given
    <3>3. QED BY <1>3, <3>1, <3>2
  <2>5. CASE Keep /\ (Problem(facts) = None \/ OutOfRepairs \/ OutOfTime)
    <3>1. pc' = "verify" /\ repairs' = repairs /\ UNCHANGED answer BY <2>5 DEF Keep
    <3>2. repairs = 0 /\ "period" \in facts => elapsed' > BudgetS
      <4>1. SUFFICES ASSUME repairs = 0, "period" \in facts PROVE elapsed' > BudgetS OBVIOUS
      <4>2. Problem(facts) # None BY <2>2, <4>1 DEF BadgeInv, Given, Problem, None
      <4>3. ~OutOfRepairs BY <1>2, <4>1 DEF OutOfRepairs
      <4>4. QED BY <2>5, <4>2, <4>3 DEF OutOfTime
    <3>3. Given' BY <2>1, <2>3, <3>1, <3>2 DEF Given
    <3>4. QED BY <1>3, <3>1, <3>3
  <2>6. QED BY <2>1, <2>4, <2>5
<1>9. CASE Rejected
  <2>1. CASE Fail BY <1>4, <2>1 DEF Fail
  <2>2. CASE \E problem : RepairNext(problem)
    <3>1. pc' = "generate" /\ repairs' = repairs + 1 /\ UNCHANGED answer BY <2>2 DEF RepairNext
    <3>2. answer = NoAnswer BY <1>9 DEF Rejected, BadgeInv, Given
    <3>3. Given' BY <1>2, <3>1, <3>2 DEF Given
    <3>4. QED BY <1>3, <3>1, <3>3
  <2>3. QED BY <1>9, <2>1, <2>2 DEF Rejected
<1>10. CASE Verify
  <2>1. pc = "verify" /\ pc' = "halves" /\ UNCHANGED <<repairs, found, elapsed, answer, moved>>
        /\ (moved \/ signals' = Observed)
    BY <1>10 DEF Verify, Loop
  <2>2. Observed' = Observed BY <2>1 DEF Observed
  <2>3. Given' BY <2>1, <2>2 DEF BadgeInv, Given
  <2>4. QED BY <1>3, <2>1, <2>3
<1>11. CASE CrossCheck \/ Narrate
  <2>1. UNCHANGED <<moved, pc, repairs, tried, found, elapsed, signals, answer>> BY <1>11 DEF CrossCheck, Narrate, Loop
  <2>2. QED BY <2>1 DEF BadgeInv, Given, Observed, BadgeIsHonest
<1>12. CASE Finish
  <2>1. CASE End("error") BY <1>4, <2>1
  <2>2. CASE ~End("error")
    <3>1. PICK extra \in SUBSET Extras :
            /\ signals' = AllSignals \cup extra
            /\ answer' = [kind |-> "answer", level |-> Level(signals', repairs)]
            /\ pc' = "done"
      BY <1>12, <2>2 DEF Finish
    <3>2. pc = "halves" /\ UNCHANGED <<moved, elapsed, repairs, found>> BY <1>12 DEF Finish, Loop
    <3>3. Given' BY <3>1 DEF Given
    <3>4. SUFFICES ASSUME answer'.level = "high"
                   PROVE  /\ {"fan_out", "disagreed"} \cap signals' = {}
                          /\ "period_unfiltered" \in signals' => moved' \/ (repairs' = 0 /\ elapsed' > BudgetS)
      BY <3>3 DEF BadgeIsHonest
    <3>5. signals' \in SUBSET Signals BY <1>1 DEF LoopInv, TypeOK
    <3>6. Level(signals', repairs) = "high" BY <3>1, <3>4
    <3>7. /\ "fan_out" \notin signals' /\ "disagreed" \notin signals'
          /\ "period_unfiltered" \in signals' => repairs = 0
      BY <1>2, <3>5, <3>6, HighMeans
    <3>8. "period_unfiltered" \in signals' => moved \/ "period" \in found
      <4>1. "period_unfiltered" \notin extra BY AttemptsAssumption
      <4>2. cross # "period_unfiltered" BY DEF BadgeInv, LoopInv, TypeOK
      <4>3. moved \/ signals = Observed BY <3>2 DEF BadgeInv, Given
      <4>4. QED BY <3>1, <4>1, <4>2, <4>3 DEF AllSignals, Observed
    <3>9. "period_unfiltered" \in signals' => moved \/ elapsed > BudgetS BY <3>2, <3>7, <3>8 DEF BadgeInv, Given
    <3>10. QED BY <3>2, <3>7, <3>9
  <2>3. QED BY <2>1, <2>2
<1>13. CASE UNCHANGED vars
  BY <1>13 DEF vars, BadgeInv, Given, Observed, BadgeIsHonest
<1>14. CASE CatalogMoves
  <2>1. moved' = TRUE /\ UNCHANGED <<pc, repairs, tried, found, elapsed, signals, answer>>
    BY <1>14 DEF CatalogMoves, Loop, Halves
  <2>2. Given' BY <2>1 DEF BadgeInv, Given
  <2>3. pc' # "done" BY <1>14, <2>1 DEF CatalogMoves
  <2>4. QED BY <1>3, <2>2, <2>3
<1>15. QED
  BY <1>5, <1>6, <1>7, <1>8, <1>9, <1>10, <1>11, <1>12, <1>13, <1>14 DEF Next

(* An answer with something wrong with it never wears the best badge: not one  *)
(* whose rows may be counted twice, nor one a second model disagrees with,     *)
(* however good the rest looks; and one that ignores the period only when the  *)
(* time ran out before any repair, or the catalog changed under the loop.      *)
(* This needs a loop that may repair at all.                                   *)
THEOREM BestBadgeIsEarned ==
  ASSUME MaxRepairs > 0
  PROVE  Spec => []BadgeIsHonest
<1>1. Init => BadgeInv
  <2>1. ASSUME Init PROVE Given /\ BadgeIsHonest
    BY <2>1 DEF Init, Given, BadgeIsHonest, NoAnswer, None
  <2>2. QED BY <2>1, LoopBegins DEF BadgeInv
<1>2. BadgeInv /\ [Next]_vars => BadgeInv' BY BadgeKept
<1>3. BadgeInv => BadgeIsHonest BY DEF BadgeInv
<1>4. QED BY <1>1, <1>2, <1>3, PTL DEF Spec

----------------------------------------------------------------------------
(* LlmPool.                                                                    *)

HealthRecord == [cool : Nat, why : Reasons, left : Int, reset : Nat, reserved : Int]

(* Of a call's locals the claims need the failure it is about to note, and     *)
(* that no local is ever lost.                                                 *)
Fields == {"pc", "providers", "at", "walk", "waited", "nap", "step", "today", "failed",
           "refusedBy", "ending", "hint"}
LocalOf(local) == DOMAIN local = Fields /\ local.failed \in Failures \cup {NoFailure}
Locals == DOMAIN call = Calls /\ \A c \in Calls : LocalOf(call[c])

Tables == health \in [Entries -> HealthRecord] /\ parked \in [Entries -> Nat]

PoolInv == Tables /\ Locals /\ ParkedStaysParked

LEMMA FailureTypes ==
  ASSUME NEW f \in Failures
  PROVE  f.cool \in Nat /\ f.why \in Reasons
<1>1. /\ Hints \cup {Trouble, Parked} \subseteq Nat BY PoolAssumption
<1>2. CASE f \in {[why |-> "busy", cool |-> s] : s \in Hints \cup {Trouble, Parked}}
  <2>1. PICK s \in Hints \cup {Trouble, Parked} : f = [why |-> "busy", cool |-> s] BY <1>2
  <2>2. s \in Nat BY <1>1
  <2>3. f.cool = s /\ f.why = "busy" BY <2>1
  <2>4. QED BY <2>2, <2>3 DEF Reasons
<1>3. CASE f \in {[why |-> "key rejected", cool |-> Parked], [why |-> "", cool |-> 0]}
  <2>1. Parked \in Nat /\ 0 \in Nat BY <1>1
  <2>2. CASE f = [why |-> "key rejected", cool |-> Parked]
    <3>1. f.cool = Parked /\ f.why = "key rejected" BY <2>2
    <3>2. QED BY <2>1, <3>1 DEF Reasons
  <2>3. CASE f = [why |-> "", cool |-> 0]
    <3>1. f.cool = 0 /\ f.why = "" BY <2>3
    <3>2. QED BY <2>1, <3>1 DEF Reasons
  <2>4. QED BY <1>3, <2>2, <2>3
<1>4. QED BY <1>2, <1>3 DEF Failures

LEMMA PoolBegins == PoolInit => PoolInv
<1> SUFFICES ASSUME PoolInit PROVE PoolInv OBVIOUS
<1>1. Healthy \in HealthRecord BY DEF HealthRecord, Healthy, Reasons, NoLimit
<1>2. Tables BY <1>1 DEF PoolInit, Tables
<1>3. Locals BY DEF PoolInit, Locals, LocalOf, Fields, Fresh
<1>4. ParkedStaysParked
  <2>1. \A e \in Entries : health[e].cool = 0 /\ parked[e] = 0 BY DEF PoolInit, Healthy
  <2>2. QED BY <2>1 DEF ParkedStaysParked
<1>5. QED BY <1>2, <1>3, <1>4 DEF PoolInv

(* A call goes on with other locals and the failure it had, or none.           *)
LEMMA LocalsKeep ==
  ASSUME Locals, NEW c \in Calls, NEW q, LocalOf(q), call' = [call EXCEPT ![c] = q]
  PROVE  Locals'
BY DEF Locals

LEMMA OnwardKeeps ==
  ASSUME NEW q, LocalOf(q)
  PROVE  LocalOf(Onward(q))
BY DEF Onward, LocalOf, Fields

(* Steps that only move the call: where it is, its walk, its counters.         *)
LEMMA MovesKeep ==
  ASSUME Locals, NEW c \in Calls,
         Start(c) \/ Look(c) \/ Reserve(c) \/ ReadToday(c) \/ SpendOneCall(c) \/ FormatRejected(c)
         \/ Settle(c) \/ EndOfWalk(c) \/ Wake(c) \/ GiveUp(c)
  PROVE  Locals'
<1>1. LocalOf(call[c]) BY DEF Locals
<1>2. ASSUME NEW x, Goto(c, x) PROVE Locals'
  <2>1. LocalOf([call[c] EXCEPT !.pc = x]) BY <1>1 DEF LocalOf, Fields
  <2>2. QED BY <1>2, <2>1, LocalsKeep DEF Goto
<1>3. ASSUME NEW x, NEW y, EndWith(c, x, y) PROVE Locals'
  <2>1. LocalOf([Fresh EXCEPT !.pc = "done", !.ending = x, !.hint = y]) BY DEF LocalOf, Fields, Fresh
  <2>2. QED BY <1>3, <2>1, LocalsKeep DEF EndWith
<1>4. ASSUME NewWalk(c) PROVE Locals'
  <2>1. LocalOf([call[c] EXCEPT !.pc = "look", !.providers = Remaining(c), !.walk = @ + 1])
    BY <1>1 DEF LocalOf, Fields
  <2>2. QED BY <1>4, <2>1, LocalsKeep DEF NewWalk
<1>5. CASE Start(c)
  <2> DEFINE providers == Distinct(Usable(c))
             q == [call[c] EXCEPT !.pc = "look", !.providers = providers]
  <2>1. LocalOf(q) BY <1>1 DEF LocalOf, Fields
  <2>2. \/ EndWith(c, "unconfigured", Unset) \/ EndWith(c, "answered", Unset)
        \/ call' = [call EXCEPT ![c] = q]
    BY <1>5 DEF Start
  <2> HIDE DEF q
  <2>3. QED BY <1>3, <2>1, <2>2, LocalsKeep
<1>6. CASE Look(c)
  <2>1. LocalOf(Onward(call[c])) BY <1>1, OnwardKeeps
  <2>2. QED BY <1>2, <1>6, <2>1, LocalsKeep DEF Look
<1>7. CASE Reserve(c)
  <2> DEFINE q == [call[c] EXCEPT !.pc = "today",
                                  !.step = IF c \in WithSchema THEN floor[Here(c)] ELSE LastFormat]
  <2>1. LocalOf(q) BY <1>1 DEF LocalOf, Fields
  <2>2. call' = [call EXCEPT ![c] = q] BY <1>7 DEF Reserve
  <2> HIDE DEF q
  <2>3. QED BY <2>1, <2>2, LocalsKeep
<1>8. CASE ReadToday(c)
  <2>1. LocalOf([call[c] EXCEPT !.pc = "spend", !.today = day]) BY <1>1 DEF LocalOf, Fields
  <2>2. QED BY <1>8, <2>1, LocalsKeep DEF ReadToday
<1>9. CASE SpendOneCall(c)
  <2>1. PICK x, y : call' = [call EXCEPT ![c].pc = x, ![c].today = 0, ![c].ending = y]
    <3>1. ASSUME NEW x, NEW y, call' = [call EXCEPT ![c].pc = x, ![c].today = 0, ![c].ending = y]
          PROVE  \E a, b : call' = [call EXCEPT ![c].pc = a, ![c].today = 0, ![c].ending = b]
      BY <3>1
    <3>2. QED BY <1>9, <3>1 DEF SpendOneCall
  <2> DEFINE q == [call[c] EXCEPT !.pc = x, !.today = 0, !.ending = y]
  <2>2. LocalOf(q) BY <1>1 DEF LocalOf, Fields
  <2>3. call' = [call EXCEPT ![c] = q] BY <2>1
  <2> HIDE DEF q
  <2>4. QED BY <2>2, <2>3, LocalsKeep
<1>10. CASE FormatRejected(c)
  <2>1. LocalOf([call[c] EXCEPT !.pc = "today", !.step = @ + 1]) BY <1>1 DEF LocalOf, Fields
  <2>2. QED BY <1>10, <2>1, LocalsKeep DEF FormatRejected
<1>11. CASE Settle(c) BY <1>2, <1>3, <1>11 DEF Settle
<1>12. CASE EndOfWalk(c)
  <2> DEFINE q == [call[c] EXCEPT !.pc = "nap", !.nap = SoonestFree(c), !.waited = @ + SoonestFree(c)]
  <2>1. LocalOf(q) BY <1>1 DEF LocalOf, Fields
  <2>2. EndWith(c, "refused", Unset) \/ Goto(c, "giveup") \/ NewWalk(c) \/ call' = [call EXCEPT ![c] = q]
    BY <1>12 DEF EndOfWalk
  <2> HIDE DEF q
  <2>3. QED BY <1>2, <1>3, <1>4, <2>1, <2>2, LocalsKeep
<1>13. CASE Wake(c) BY <1>4, <1>13 DEF Wake
<1>14. CASE GiveUp(c) BY <1>2, <1>3, <1>14 DEF GiveUp
<1>15. QED BY <1>5, <1>6, <1>7, <1>8, <1>9, <1>10, <1>11, <1>12, <1>13, <1>14

(* A failure comes out of the wire, a success leaves the failure as it was.    *)
LEMMA SendsKeep ==
  ASSUME Locals, NEW c \in Calls, RequestFailed(c) \/ RequestAnswered(c)
  PROVE  Locals'
<1>1. LocalOf(call[c]) BY DEF Locals
<1>2. ASSUME NEW f \in Failures, call' = [call EXCEPT ![c].pc = "settle", ![c].failed = f]
      PROVE  Locals'
  <2> DEFINE q == [call[c] EXCEPT !.pc = "settle", !.failed = f]
  <2>1. LocalOf(q) BY <1>1 DEF LocalOf, Fields
  <2>2. call' = [call EXCEPT ![c] = q] BY <1>2
  <2> HIDE DEF q
  <2>3. QED BY <2>1, <2>2, LocalsKeep
<1>3. CASE RequestFailed(c) BY <1>2, <1>3 DEF RequestFailed
<1>4. CASE call' = [call EXCEPT ![c].pc = "settle", ![c].ending = "answered"]
  <2>1. LocalOf([call[c] EXCEPT !.pc = "settle", !.ending = "answered"]) BY <1>1 DEF LocalOf, Fields
  <2>2. QED BY <1>4, <2>1, LocalsKeep
<1>5. [why |-> "busy", cool |-> Trouble] \in Failures BY DEF Failures
<1>6. QED BY <1>2, <1>3, <1>4, <1>5 DEF RequestAnswered

LEMMA NoteKeeps ==
  ASSUME Locals, NEW c \in Calls, NoteFailure(c)
  PROVE  Locals'
<1>1. LocalOf(call[c]) BY DEF Locals
<1>2. LocalOf(Noted(c)) BY <1>1 DEF Noted, LocalOf, Fields
<1>3. call' = [call EXCEPT ![c] = Onward(Noted(c))] BY DEF NoteFailure
<1>4. QED BY <1>2, <1>3, OnwardKeeps, LocalsKeep

(* Requests change an entry's allowance and what is held against it, never its *)
(* cooldown.                                                                   *)
LEMMA RequestsKeepCool ==
  ASSUME Tables, NEW c \in Calls, Step(c), ~NoteFailure(c)
  PROVE  /\ health' \in [Entries -> HealthRecord]
         /\ \A e \in Entries : health'[e].cool = health[e].cool
         /\ parked' = parked
<1> DEFINE h == Here(c)
           Changes(q) == /\ h \in Entries => q \in HealthRecord /\ q.cool = health[h].cool
                         /\ health' = [health EXCEPT ![h] = q]
                         /\ parked' = parked
<1>1. Need[c] \in Int BY PoolAssumption
<1>2. ASSUME NEW q, Changes(q)
      PROVE  /\ health' \in [Entries -> HealthRecord]
             /\ \A e \in Entries : health'[e].cool = health[e].cool
             /\ parked' = parked
  <2> HIDE DEF h
  <2>1. QED BY <1>2 DEF Tables
<1>3. CASE Reserve(c)
  <2> DEFINE q == [health[h] EXCEPT !.reserved = @ + Need[c]]
  <2>1. h \in Entries => q \in HealthRecord /\ q.cool = health[h].cool
    BY <1>1 DEF Tables, HealthRecord
  <2>2. Changes(q) BY <1>3, <2>1 DEF Reserve
  <2> HIDE DEF q, Changes
  <2>3. QED BY <1>2, <2>2
<1>4. CASE Settle(c)
  <2> DEFINE q == [health[h] EXCEPT !.reserved = @ - Need[c]]
  <2>1. h \in Entries => q \in HealthRecord /\ q.cool = health[h].cool
    BY <1>1 DEF Tables, HealthRecord
  <2>2. Changes(q) BY <1>4, <2>1 DEF Settle, GivenBack
  <2> HIDE DEF q, Changes
  <2>3. QED BY <1>2, <2>2
<1>5. CASE RequestAnswered(c)
  <2>1. CASE UNCHANGED health BY <1>5, <2>1 DEF RequestAnswered, Tables
  <2>2. CASE \E left \in Allowances, reset \in Resets :
               health' = [health EXCEPT ![Here(c)].left = left, ![Here(c)].reset = reset]
    <3>1. PICK left \in Allowances, reset \in Resets :
            health' = [health EXCEPT ![Here(c)].left = left, ![Here(c)].reset = reset]
      BY <2>2
    <3> DEFINE q == [health[h] EXCEPT !.left = left, !.reset = reset]
    <3>2. left \in Int /\ reset \in Nat BY PoolAssumption
    <3>3. h \in Entries => q \in HealthRecord /\ q.cool = health[h].cool
      BY <3>2 DEF Tables, HealthRecord
    <3>4. Changes(q) BY <1>5, <3>1, <3>3 DEF RequestAnswered
    <3> HIDE DEF q, Changes
    <3>5. QED BY <1>2, <3>4
  <2>3. QED BY <1>5, <2>1, <2>2 DEF RequestAnswered
<1>6. CASE UNCHANGED <<health, parked>> BY <1>6 DEF Tables
<1>7. QED
  BY <1>3, <1>4, <1>5, <1>6
  DEF Step, Start, Look, ReadToday, SpendOneCall, FormatRejected, RequestFailed, EndOfWalk, Wake, GiveUp

LEMMA NothingNoted == NoFailure.cool = -1 /\ NoFailure.why = ""
BY DEF NoFailure

(* A failure to note only ever lengthens a cooldown, so a key that was rejected*)
(* earlier outlasts it, and one rejected now is parked for at least its hour.  *)
LEMMA NoteKeepsParked ==
  ASSUME PoolInv, NEW c \in Calls, NoteFailure(c)
  PROVE  Tables' /\ ParkedStaysParked'
<1> DEFINE e == Here(c)
           f == call[c].failed
<1>1. f \in Failures \cup {NoFailure} BY DEF PoolInv, Locals, LocalOf, Fields
<1>2. f.cool \in Int /\ f.why \in Reasons /\ (f.cool > 0 => f.cool \in Nat)
  <2>1. CASE f = NoFailure
    <3>0. -1 \in Int /\ ~(-1 > 0) OBVIOUS
    <3>1. NoFailure.cool \in Int /\ NoFailure.why \in Reasons /\ ~(NoFailure.cool > 0)
      BY <3>0, NothingNoted DEF Reasons
    <3>2. QED BY <2>1, <3>1
  <2>2. CASE f \in Failures
    <3>1. f.cool \in Nat /\ f.why \in Reasons BY <2>2, FailureTypes
    <3>2. QED BY <3>1
  <2>3. QED BY <1>1, <2>1, <2>2
<1>3. f.why = "key rejected" => f.cool \in Nat
  <2>1. f = NoFailure => f.why # "key rejected" BY NothingNoted
  <2>2. QED BY <1>1, <2>1, FailureTypes
<1>4. /\ health' = [health EXCEPT ![e] = Cooled(health[e], f)]
      /\ parked' = IF f.why = "key rejected" THEN [parked EXCEPT ![e] = f.cool] ELSE parked
  BY DEF NoteFailure
<1>5. Tables BY DEF PoolInv
<1> HIDE DEF e, f
<1>6. parked' \in [Entries -> Nat] BY <1>3, <1>4, <1>5 DEF Tables
<1>7. health' \in [Entries -> HealthRecord]
  <2>1. ASSUME e \in Entries PROVE Cooled(health[e], f) \in HealthRecord
    <3>1. health[e] \in HealthRecord /\ health[e].cool \in Nat BY <1>5, <2>1 DEF Tables, HealthRecord
    <3>2. CASE f.cool > health[e].cool
      <4>1. f.cool \in Nat /\ f.why \in Reasons BY <1>2, <3>1, <3>2
      <4>2. QED BY <3>1, <3>2, <4>1 DEF HealthRecord, Cooled
    <3>3. CASE ~(f.cool > health[e].cool) BY <3>1, <3>3 DEF Cooled
    <3>4. QED BY <3>2, <3>3
  <2>2. QED BY <1>4, <1>5, <2>1 DEF Tables
<1>8. ASSUME NEW x \in Entries PROVE health'[x].cool >= parked'[x]
  <2>1. health[x].cool \in Nat /\ parked[x] \in Nat /\ health[x].cool >= parked[x]
    BY <1>5 DEF PoolInv, Tables, HealthRecord, ParkedStaysParked
  <2>2. CASE x # e BY <1>4, <1>5, <2>1, <2>2 DEF Tables
  <2>3. CASE x = e
    <3>1. health'[x] = Cooled(health[x], f) BY <1>4, <1>5, <2>3 DEF Tables
    <3>2. Cooled(health[x], f).cool = IF f.cool > health[x].cool THEN f.cool ELSE health[x].cool
      BY <1>5 DEF Cooled, Tables, HealthRecord
    <3>3. parked'[x] = IF f.why = "key rejected" THEN f.cool ELSE parked[x]
      BY <1>4, <1>5, <2>3 DEF Tables
    <3>4. CASE f.cool > health[x].cool
      <4>1. health'[x].cool = f.cool BY <2>3, <3>1, <3>2, <3>4
      <4>2. parked'[x] = f.cool \/ parked'[x] = parked[x] BY <3>3
      <4>3. QED BY <1>2, <2>1, <3>4, <4>1, <4>2
    <3>5. CASE ~(f.cool > health[x].cool)
      <4>1. health'[x].cool = health[x].cool BY <2>3, <3>1, <3>2, <3>5
      <4>2. parked'[x] = f.cool \/ parked'[x] = parked[x] BY <3>3
      <4>3. QED BY <1>2, <2>1, <3>5, <4>1, <4>2
    <3>6. QED BY <3>4, <3>5
  <2>4. QED BY <2>2, <2>3
<1>9. QED BY <1>6, <1>7, <1>8 DEF Tables, ParkedStaysParked

(* A second shortens the cooldown and what is left of the hour alike.          *)
LEMMA SecondKeeps ==
  ASSUME PoolInv, Second
  PROVE  PoolInv'
<1>1. /\ health' = [e \in Entries |-> [health[e] EXCEPT !.cool = Less(@), !.reset = Less(@)]]
      /\ parked' = [e \in Entries |-> Less(parked[e])]
      /\ call' = [c \in Calls |-> [call[c] EXCEPT !.nap = Less(@)]]
  BY DEF Second
<1>2. \A n \in Nat : Less(n) \in Nat BY DEF Less
<1>3. ASSUME NEW e \in Entries
      PROVE  /\ health[e] \in HealthRecord /\ parked[e] \in Nat /\ health[e].cool >= parked[e]
             /\ health'[e] \in HealthRecord /\ parked'[e] \in Nat /\ health'[e].cool >= parked'[e]
  <2>1. health[e] \in HealthRecord /\ parked[e] \in Nat /\ health[e].cool >= parked[e]
    BY DEF PoolInv, Tables, ParkedStaysParked
  <2>2. health'[e] = [health[e] EXCEPT !.cool = Less(@), !.reset = Less(@)] BY <1>1
  <2>3. health'[e] \in HealthRecord BY <1>2, <2>1, <2>2 DEF HealthRecord
  <2>4. health'[e].cool = Less(health[e].cool) BY <2>1, <2>2 DEF HealthRecord
  <2>5. health[e].cool \in Nat BY <2>1 DEF HealthRecord
  <2>6. parked'[e] = Less(parked[e]) BY <1>1
  <2>7. health'[e].cool >= parked'[e] BY <2>1, <2>4, <2>5, <2>6 DEF Less
  <2>8. QED BY <1>2, <2>1, <2>3, <2>6, <2>7
<1>4. Tables'
  <2>1. DOMAIN health' = Entries /\ DOMAIN parked' = Entries BY <1>1
  <2>2. health' = [e \in Entries |-> health'[e]] /\ parked' = [e \in Entries |-> parked'[e]] BY <1>1
  <2>3. QED BY <1>3, <2>2 DEF Tables
<1>5. Locals'
  <2>1. ASSUME NEW c \in Calls PROVE LocalOf(call'[c])
    <3>1. LocalOf(call[c]) BY DEF PoolInv, Locals
    <3>2. call'[c] = [call[c] EXCEPT !.nap = Less(@)] BY <1>1
    <3>3. QED BY <3>1, <3>2 DEF LocalOf, Fields
  <2>2. DOMAIN call' = Calls BY <1>1
  <2>3. QED BY <2>1, <2>2 DEF Locals
<1>6. ParkedStaysParked' BY <1>3 DEF ParkedStaysParked
<1>7. QED BY <1>4, <1>5, <1>6 DEF PoolInv

LEMMA PoolStep ==
  ASSUME PoolInv, [PoolNext]_poolVars
  PROVE  PoolInv'
<1>1. ASSUME NEW c \in Calls, Step(c), ~NoteFailure(c) PROVE PoolInv'
  <2>1. Tables' /\ ParkedStaysParked'
    BY <1>1, RequestsKeepCool DEF PoolInv, Tables, ParkedStaysParked
  <2>2. Locals' BY <1>1, MovesKeep, SendsKeep DEF PoolInv, Step
  <2>3. QED BY <2>1, <2>2 DEF PoolInv
<1>2. ASSUME NEW c \in Calls, NoteFailure(c) PROVE PoolInv'
  BY <1>2, NoteKeeps, NoteKeepsParked DEF PoolInv
<1>3. CASE Second BY <1>3, SecondKeeps
<1>4. CASE UNCHANGED poolVars
  BY <1>4 DEF poolVars, PoolInv, Tables, Locals, ParkedStaysParked
<1>5. QED BY <1>1, <1>2, <1>3, <1>4 DEF PoolNext

(* An entry whose key was rejected is left alone for the whole hour, whatever  *)
(* shorter cooldowns the requests that overlap with it report later            *)
(* (_note_failure).                                                            *)
THEOREM KeysStayParked == PoolSpec => []ParkedStaysParked
<1>1. PoolInit => PoolInv BY PoolBegins
<1>2. PoolInv /\ [PoolNext]_poolVars => PoolInv' BY PoolStep
<1>3. PoolInv => ParkedStaysParked BY DEF PoolInv
<1>4. QED BY <1>1, <1>2, <1>3, PTL DEF PoolSpec

(* Who is in flight where, once a call has other locals.                       *)
LEMMA InFlightNow ==
  ASSUME Locals, NEW c \in Calls, NEW q, call' = [call EXCEPT ![c] = q], NEW e
  PROVE  InFlight(e)' = IF q.pc \in Holding /\ q.providers[q.at] = e
                        THEN InFlight(e) \cup {c} ELSE InFlight(e) \ {c}
<1>1. \A d \in Calls : call'[d] = IF d = c THEN q ELSE call[d] BY DEF Locals
<1>2. InFlight(e) = {d \in Calls : call[d].pc \in Holding /\ call[d].providers[call[d].at] = e}
  BY DEF InFlight, Here, Walked
<1>3. InFlight(e)' = {d \in Calls : call'[d].pc \in Holding /\ call'[d].providers[call'[d].at] = e}
  BY DEF InFlight, Here, Walked
<1> HIDE DEF Holding
<1>4. QED BY <1>1, <1>2, <1>3

(* The request goes on where it is, or there is none before and none after.    *)
LEMMA StaysPut ==
  ASSUME Locals, NEW c \in Calls, NEW q, call' = [call EXCEPT ![c] = q],
         q.pc \in Holding <=> call[c].pc \in Holding,
         q.pc \in Holding => q.providers = call[c].providers /\ q.at = call[c].at
  PROVE  \A e : InFlight(e)' = InFlight(e)
<1> SUFFICES ASSUME NEW e PROVE InFlight(e)' = InFlight(e) OBVIOUS
<1>1. c \in InFlight(e) <=> q.pc \in Holding /\ q.providers[q.at] = e BY DEF InFlight, Here, Walked
<1>2. InFlight(e)' = IF q.pc \in Holding /\ q.providers[q.at] = e
                     THEN InFlight(e) \cup {c} ELSE InFlight(e) \ {c}
  BY InFlightNow
<1>3. CASE c \in InFlight(e) BY <1>1, <1>2, <1>3
<1>4. CASE c \notin InFlight(e) BY <1>1, <1>2, <1>4
<1>5. QED BY <1>3, <1>4

LEMMA EstimatesAddUp ==
  /\ Sum(Need, {}) = 0
  /\ \A S \in SUBSET Calls : Sum(Need, S) \in Int
  /\ \A S \in SUBSET Calls : \A c \in S : Sum(Need, S) = Need[c] + Sum(Need, S \ {c})
<1>1. IsFiniteSet(Calls) /\ Need \in [Calls -> Int] BY PoolAssumption
<1>2. QED BY <1>1, SumFacts

Settled == \A e \in Entries : health[e].reserved = Sum(Need, InFlight(e))

LEMMA SettledIs == Settled <=> ReservationsSettled
BY DEF Settled, ReservationsSettled, Sum

SettledInv == PoolInv /\ Settled

(* Nothing is reserved or given back, and the same requests are in flight.     *)
LEMMA NothingReserved ==
  ASSUME Settled, \A e \in Entries : InFlight(e)' = InFlight(e) /\ health'[e].reserved = health[e].reserved
  PROVE  Settled'
BY DEF Settled

LEMMA ReserveSettles ==
  ASSUME SettledInv, NEW c \in Calls, Reserve(c)
  PROVE  Settled'
<1> DEFINE h == Here(c)
           q == [call[c] EXCEPT !.pc = "today",
                                !.step = IF c \in WithSchema THEN floor[Here(c)] ELSE LastFormat]
<1>1. DOMAIN call[c] = Fields BY DEF SettledInv, PoolInv, Locals, LocalOf
<1>2. q.pc = "today" /\ q.providers[q.at] = h BY <1>1 DEF Fields, Here, Walked
<1>3. call' = [call EXCEPT ![c] = q] BY DEF Reserve
<1>4. call[c].pc = "reserve" /\ health' = [health EXCEPT ![h].reserved = @ + Need[c]] BY DEF Reserve
<1>5. Need[c] \in Int BY PoolAssumption
<1> HIDE DEF h, q
<1>6. ASSUME NEW e \in Entries PROVE health'[e].reserved = Sum(Need, InFlight(e)')
  <2>1. InFlight(e)' = IF h = e THEN InFlight(e) \cup {c} ELSE InFlight(e) \ {c}
    BY <1>2, <1>3, InFlightNow DEF SettledInv, PoolInv, Holding
  <2>2. InFlight(e) \in SUBSET Calls /\ c \notin InFlight(e) BY <1>4 DEF InFlight, Holding
  <2>3. health[e] \in HealthRecord /\ health[e].reserved = Sum(Need, InFlight(e))
    BY DEF SettledInv, PoolInv, Tables, Settled
  <2>4. Sum(Need, InFlight(e)) \in Int BY <2>2, EstimatesAddUp
  <2>5. CASE h = e
    <3>1. (InFlight(e) \cup {c}) \ {c} = InFlight(e) /\ InFlight(e) \cup {c} \in SUBSET Calls BY <2>2
    <3>2. Sum(Need, InFlight(e) \cup {c}) = Need[c] + Sum(Need, InFlight(e))
      BY <3>1, EstimatesAddUp
    <3>3. health'[e].reserved = health[e].reserved + Need[c]
      BY <1>4, <2>3, <2>5 DEF SettledInv, PoolInv, Tables, HealthRecord
    <3>4. QED BY <1>5, <2>1, <2>3, <2>4, <2>5, <3>2, <3>3
  <2>6. CASE h # e
    <3>1. InFlight(e) \ {c} = InFlight(e) BY <2>2
    <3>2. health'[e] = health[e] BY <1>4, <2>6 DEF SettledInv, PoolInv, Tables
    <3>3. QED BY <2>1, <2>3, <2>6, <3>1, <3>2
  <2>7. QED BY <2>5, <2>6
<1>7. QED BY <1>6 DEF Settled

LEMMA SettleSettles ==
  ASSUME SettledInv, NEW c \in Calls, Settle(c)
  PROVE  Settled'
<1> DEFINE h == Here(c)
<1>1. DOMAIN call[c] = Fields BY DEF SettledInv, PoolInv, Locals, LocalOf
<1>2. PICK q : call' = [call EXCEPT ![c] = q] /\ q.pc \notin Holding
  <2>1. CASE Goto(c, "note")
    <3>1. [call[c] EXCEPT !.pc = "note"].pc = "note" BY <1>1 DEF Fields
    <3>2. QED BY <2>1, <3>1 DEF Goto, Holding
  <2>2. CASE EndWith(c, call[c].ending, Unset)
    <3>1. [Fresh EXCEPT !.pc = "done", !.ending = call[c].ending, !.hint = Unset].pc = "done" BY DEF Fresh
    <3>2. QED BY <2>2, <3>1 DEF EndWith, Holding
  <2>3. QED BY <2>1, <2>2 DEF Settle
<1>3. call[c].pc = "settle" /\ health' = [health EXCEPT ![h].reserved = @ - Need[c]]
  BY DEF Settle, GivenBack
<1>4. Need[c] \in Int BY PoolAssumption
<1>5. \A e : c \in InFlight(e) <=> e = h BY <1>3 DEF InFlight, Holding
<1> HIDE DEF h
<1>6. ASSUME NEW e \in Entries PROVE health'[e].reserved = Sum(Need, InFlight(e)')
  <2>1. InFlight(e)' = InFlight(e) \ {c} BY <1>2, InFlightNow DEF SettledInv, PoolInv
  <2>2. InFlight(e) \in SUBSET Calls BY DEF InFlight
  <2>3. health[e] \in HealthRecord /\ health[e].reserved = Sum(Need, InFlight(e))
    BY DEF SettledInv, PoolInv, Tables, Settled
  <2>4. InFlight(e) \ {c} \in SUBSET Calls BY <2>2
  <2>5. Sum(Need, InFlight(e) \ {c}) \in Int BY <2>4, EstimatesAddUp
  <2>6. CASE h = e
    <3>1. Sum(Need, InFlight(e)) = Need[c] + Sum(Need, InFlight(e) \ {c})
      BY <1>5, <2>2, <2>6, EstimatesAddUp
    <3>2. health'[e].reserved = health[e].reserved - Need[c]
      BY <1>3, <2>3, <2>6 DEF SettledInv, PoolInv, Tables, HealthRecord
    <3>3. QED BY <1>4, <2>1, <2>3, <2>5, <3>1, <3>2
  <2>7. CASE h # e
    <3>1. InFlight(e) \ {c} = InFlight(e) BY <1>5, <2>7
    <3>2. health'[e] = health[e] BY <1>3, <2>7 DEF SettledInv, PoolInv, Tables
    <3>3. QED BY <2>1, <2>3, <3>1, <3>2
  <2>8. QED BY <2>6, <2>7
<1>7. QED BY <1>6 DEF Settled

(* Every other step of a call leaves its request in flight where it is, or     *)
(* begins and ends without one.                                                *)
LEMMA OthersStayPut ==
  ASSUME Locals, NEW c \in Calls, Step(c), ~Reserve(c), ~Settle(c)
  PROVE  \A e : InFlight(e)' = InFlight(e)
<1>1. DOMAIN call[c] = Fields BY DEF Locals, LocalOf
<1> DEFINE Same == \A e : InFlight(e)' = InFlight(e)
           Keeps(q) == q.pc \in Holding <=> call[c].pc \in Holding
           Stays(q) == q.pc \in Holding => q.providers = call[c].providers /\ q.at = call[c].at
<1> SUFFICES Same OBVIOUS
<1>2. ASSUME NEW q, call' = [call EXCEPT ![c] = q], Keeps(q), Stays(q) PROVE Same
  BY <1>2, StaysPut
<1>3. ASSUME NEW x, Goto(c, x), x \notin Holding, call[c].pc \notin Holding PROVE Same
  <2> DEFINE q == [call[c] EXCEPT !.pc = x]
  <2>1. q.pc = x BY <1>1 DEF Fields
  <2>2. call' = [call EXCEPT ![c] = q] BY <1>3 DEF Goto
  <2> HIDE DEF q, Same
  <2>3. QED BY <1>2, <1>3, <2>1, <2>2
<1>4. ASSUME NEW x, NEW y, EndWith(c, x, y), call[c].pc \notin Holding PROVE Same
  <2> DEFINE q == [Fresh EXCEPT !.pc = "done", !.ending = x, !.hint = y]
  <2>1. q.pc = "done" BY DEF Fresh
  <2>2. call' = [call EXCEPT ![c] = q] BY <1>4 DEF EndWith
  <2>3. q.pc \notin Holding BY <2>1 DEF Holding
  <2> HIDE DEF q, Same
  <2>4. QED BY <1>2, <1>4, <2>2, <2>3
<1>5. ASSUME NewWalk(c), call[c].pc \notin Holding PROVE Same
  <2> DEFINE q == [call[c] EXCEPT !.pc = "look", !.providers = Remaining(c), !.walk = @ + 1]
  <2>1. q.pc = "look" BY <1>1 DEF Fields
  <2>2. call' = [call EXCEPT ![c] = q] BY <1>5 DEF NewWalk
  <2>3. q.pc \notin Holding BY <2>1 DEF Holding
  <2> HIDE DEF q, Same
  <2>4. QED BY <1>2, <1>5, <2>2, <2>3
<1>6. ASSUME NEW r, DOMAIN r = Fields, call' = [call EXCEPT ![c] = Onward(r)], call[c].pc \notin Holding PROVE Same
  <2> DEFINE q == Onward(r)
  <2>1. q.pc \in {"look", "soonest"} BY <1>6 DEF Fields, Onward
  <2>2. q.pc \notin Holding BY <2>1 DEF Holding
  <2> HIDE DEF q, Same
  <2>3. QED BY <1>2, <1>6, <2>2 DEF q
<1>7. CASE Start(c)
  <2> DEFINE q == [call[c] EXCEPT !.pc = "look", !.providers = Distinct(Usable(c))]
  <2>1. q.pc = "look" BY <1>1 DEF Fields
  <2>2. q.pc \notin Holding BY <2>1 DEF Holding
  <2>3. \/ EndWith(c, "unconfigured", Unset) \/ EndWith(c, "answered", Unset)
        \/ call' = [call EXCEPT ![c] = q]
    BY <1>7 DEF Start
  <2>4. call[c].pc \notin Holding BY <1>7 DEF Start, Holding
  <2> HIDE DEF q, Same
  <2>5. QED BY <1>2, <1>4, <2>2, <2>3, <2>4
<1>8. CASE Look(c)
  <2>1. call[c].pc \notin Holding /\ "reserve" \notin Holding BY <1>8 DEF Look, Holding
  <2>2. Goto(c, "reserve") \/ call' = [call EXCEPT ![c] = Onward(call[c])] BY <1>8 DEF Look
  <2> HIDE DEF Same
  <2>3. QED BY <1>1, <1>3, <1>6, <2>1, <2>2
<1>9. CASE ReadToday(c)
  <2> DEFINE q == [call[c] EXCEPT !.pc = "spend", !.today = day]
  <2>1. Keeps(q) /\ Stays(q) BY <1>1, <1>9 DEF Fields, ReadToday, Holding
  <2>2. call' = [call EXCEPT ![c] = q] BY <1>9 DEF ReadToday
  <2> HIDE DEF q, Same
  <2>3. QED BY <1>2, <2>1, <2>2
<1>10. CASE SpendOneCall(c)
  <2>1. PICK x \in {"settle", "sent"}, y \in {"spent", call[c].ending} :
           call' = [call EXCEPT ![c].pc = x, ![c].today = 0, ![c].ending = y]
    BY <1>10 DEF SpendOneCall
  <2> DEFINE q == [call[c] EXCEPT !.pc = x, !.today = 0, !.ending = y]
  <2>2. Keeps(q) /\ Stays(q) BY <1>1, <1>10 DEF Fields, SpendOneCall, Holding
  <2>3. call' = [call EXCEPT ![c] = q] BY <2>1
  <2> HIDE DEF q, Same
  <2>4. QED BY <1>2, <2>2, <2>3
<1>11. CASE FormatRejected(c)
  <2> DEFINE q == [call[c] EXCEPT !.pc = "today", !.step = @ + 1]
  <2>1. Keeps(q) /\ Stays(q) BY <1>1, <1>11 DEF Fields, FormatRejected, Holding
  <2>2. call' = [call EXCEPT ![c] = q] BY <1>11 DEF FormatRejected
  <2> HIDE DEF q, Same
  <2>3. QED BY <1>2, <2>1, <2>2
<1>12. ASSUME NEW f, call[c].pc = "sent", call' = [call EXCEPT ![c].pc = "settle", ![c].failed = f] PROVE Same
  <2> DEFINE q == [call[c] EXCEPT !.pc = "settle", !.failed = f]
  <2>1. Keeps(q) /\ Stays(q) BY <1>1, <1>12 DEF Fields, Holding
  <2>2. call' = [call EXCEPT ![c] = q] BY <1>12
  <2> HIDE DEF q, Same
  <2>3. QED BY <1>2, <2>1, <2>2
<1>13. CASE RequestFailed(c)
  <2> HIDE DEF Same
  <2>1. QED BY <1>12, <1>13 DEF RequestFailed
<1>14. CASE RequestAnswered(c)
  <2>1. CASE call' = [call EXCEPT ![c].pc = "settle", ![c].ending = "answered"]
    <3> DEFINE q == [call[c] EXCEPT !.pc = "settle", !.ending = "answered"]
    <3>1. Keeps(q) /\ Stays(q) BY <1>1, <1>14 DEF Fields, RequestAnswered, Holding
    <3>2. call' = [call EXCEPT ![c] = q] BY <2>1
    <3> HIDE DEF q, Same
    <3>3. QED BY <1>2, <3>1, <3>2
  <2> HIDE DEF Same
  <2>2. QED BY <1>12, <1>14, <2>1 DEF RequestAnswered
<1>15. CASE NoteFailure(c)
  <2>1. call[c].pc \notin Holding BY <1>15 DEF NoteFailure, Holding
  <2>2. call' = [call EXCEPT ![c] = Onward(Noted(c))] BY <1>15 DEF NoteFailure
  <2>3. DOMAIN Noted(c) = Fields BY <1>1 DEF Noted
  <2> HIDE DEF Same
  <2>4. QED BY <1>6, <2>1, <2>2, <2>3
<1>16. CASE EndOfWalk(c)
  <2> DEFINE q == [call[c] EXCEPT !.pc = "nap", !.nap = SoonestFree(c), !.waited = @ + SoonestFree(c)]
  <2>1. q.pc = "nap" BY <1>1 DEF Fields
  <2>2. call[c].pc \notin Holding /\ q.pc \notin Holding /\ "giveup" \notin Holding
    BY <1>16, <2>1 DEF EndOfWalk, Holding
  <2>3. EndWith(c, "refused", Unset) \/ Goto(c, "giveup") \/ NewWalk(c) \/ call' = [call EXCEPT ![c] = q]
    BY <1>16 DEF EndOfWalk
  <2> HIDE DEF q, Same
  <2>4. QED BY <1>2, <1>3, <1>4, <1>5, <2>2, <2>3
<1>17. CASE Wake(c)
  <2>1. call[c].pc \notin Holding BY <1>17 DEF Wake, Holding
  <2> HIDE DEF Same
  <2>2. QED BY <1>5, <1>17, <2>1 DEF Wake
<1>18. CASE GiveUp(c)
  <2>1. call[c].pc \notin Holding BY <1>18 DEF GiveUp, Holding
  <2> HIDE DEF Same
  <2>2. QED BY <1>4, <1>18, <2>1 DEF GiveUp
<1> HIDE DEF Same
<1>19. QED
  BY <1>7, <1>8, <1>9, <1>10, <1>11, <1>13, <1>14, <1>15, <1>16, <1>17, <1>18 DEF Step

LEMMA OthersReserveNothing ==
  ASSUME Tables, NEW c \in Calls, Step(c), ~Reserve(c), ~Settle(c), NEW e \in Entries
  PROVE  health'[e].reserved = health[e].reserved
<1>1. health \in [Entries -> HealthRecord] BY DEF Tables
<1>2. ASSUME NEW h, NEW q, h \in Entries => q.reserved = health[h].reserved, health' = [health EXCEPT ![h] = q]
      PROVE  health'[e].reserved = health[e].reserved
  BY <1>1, <1>2
<1> DEFINE h == Here(c)
<1>3. CASE RequestAnswered(c)
  <2>1. CASE UNCHANGED health BY <2>1
  <2>2. CASE \E left \in Allowances, reset \in Resets :
               health' = [health EXCEPT ![Here(c)].left = left, ![Here(c)].reset = reset]
    <3>1. PICK left \in Allowances, reset \in Resets :
            health' = [health EXCEPT ![Here(c)].left = left, ![Here(c)].reset = reset]
      BY <2>2
    <3> DEFINE q == [health[h] EXCEPT !.left = left, !.reset = reset]
    <3>2. h \in Entries => q.reserved = health[h].reserved BY <1>1 DEF HealthRecord
    <3>3. health' = [health EXCEPT ![h] = q] BY <3>1
    <3> HIDE DEF q, h
    <3>4. QED BY <1>2, <3>2, <3>3
  <2>3. QED BY <1>3, <2>1, <2>2 DEF RequestAnswered
<1>4. CASE NoteFailure(c)
  <2> DEFINE q == Cooled(health[h], call[c].failed)
  <2>1. h \in Entries => q.reserved = health[h].reserved BY <1>1 DEF HealthRecord, Cooled
  <2>2. health' = [health EXCEPT ![h] = q] BY <1>4 DEF NoteFailure
  <2> HIDE DEF q, h
  <2>3. QED BY <1>2, <2>1, <2>2
<1>5. CASE UNCHANGED health BY <1>5
<1>6. QED
  BY <1>3, <1>4, <1>5
  DEF Step, Start, Look, ReadToday, SpendOneCall, FormatRejected, RequestFailed, EndOfWalk, Wake, GiveUp

LEMMA SecondSettles ==
  ASSUME SettledInv, Second
  PROVE  Settled'
<1>1. /\ health' = [e \in Entries |-> [health[e] EXCEPT !.cool = Less(@), !.reset = Less(@)]]
      /\ call' = [c \in Calls |-> [call[c] EXCEPT !.nap = Less(@)]]
  BY DEF Second
<1>2. ASSUME NEW c \in Calls
      PROVE  call'[c].pc = call[c].pc /\ call'[c].providers = call[c].providers /\ call'[c].at = call[c].at
  BY <1>1 DEF SettledInv, PoolInv, Locals, LocalOf, Fields
<1>3. \A e : InFlight(e)' = InFlight(e) BY <1>2 DEF InFlight, Here, Walked
<1>4. \A e \in Entries : health'[e].reserved = health[e].reserved
  BY <1>1 DEF SettledInv, PoolInv, Tables, HealthRecord
<1>5. QED BY <1>3, <1>4, NothingReserved DEF SettledInv

(* What is held against an entry's allowance is exactly the estimates of the   *)
(* requests in flight there, however they end: an answer, a failure, a step    *)
(* down the formats or a refusal by the daily budget (_reserve, _ask).         *)
THEOREM NothingStaysReserved == PoolSpec => []ReservationsSettled
<1>1. PoolInit => SettledInv
  <2> SUFFICES ASSUME PoolInit PROVE Settled BY PoolBegins DEF SettledInv
  <2>1. \A e \in Entries : health[e].reserved = 0 BY DEF PoolInit, Healthy
  <2>2. \A e : InFlight(e) = {} BY DEF PoolInit, InFlight, Fresh, Holding
  <2>3. QED BY <2>1, <2>2, EstimatesAddUp DEF Settled
<1>2. SettledInv /\ [PoolNext]_poolVars => SettledInv'
  <2> SUFFICES ASSUME SettledInv, [PoolNext]_poolVars PROVE Settled' BY PoolStep DEF SettledInv
  <2>1. ASSUME NEW c \in Calls, Reserve(c) PROVE Settled' BY <2>1, ReserveSettles
  <2>2. ASSUME NEW c \in Calls, Settle(c) PROVE Settled' BY <2>2, SettleSettles
  <2>3. ASSUME NEW c \in Calls, Step(c), ~Reserve(c), ~Settle(c) PROVE Settled'
    BY <2>3, OthersStayPut, OthersReserveNothing, NothingReserved DEF SettledInv, PoolInv
  <2>4. CASE Second BY <2>4, SecondSettles
  <2>5. CASE UNCHANGED poolVars
    <3>1. \A e : InFlight(e)' = InFlight(e) BY <2>5 DEF poolVars, InFlight, Here, Walked
    <3>2. QED BY <2>5, <3>1, NothingReserved DEF poolVars, SettledInv
  <2>6. QED BY <2>1, <2>2, <2>3, <2>4, <2>5 DEF PoolNext
<1>3. SettledInv => ReservationsSettled BY SettledIs DEF SettledInv
<1>4. QED BY <1>1, <1>2, <1>3, PTL DEF PoolSpec

----------------------------------------------------------------------------
(* The walks over the entries: none is asked again that refused the request,  *)
(* and a call naps no more and no longer than it may.                          *)

(* What stands at some places of a list: as many as there are places, each of  *)
(* them from a place of its own.                                               *)
LEMMA KeptAtIs ==
  ASSUME NEW T, NEW s \in Seq(T), NEW places, places \subseteq DOMAIN s
  PROVE  /\ KeptAt(s, places) \in Seq(T)
         /\ places # {} => KeptAt(s, places) # <<>>
         /\ \E f \in [DOMAIN KeptAt(s, places) -> places] :
              /\ \A n \in DOMAIN KeptAt(s, places) : KeptAt(s, places)[n] = s[f[n]]
              /\ \A m, n \in DOMAIN KeptAt(s, places) : f[m] = f[n] => m = n
<1> DEFINE Below(i) == {j \in places : j < i}
           Nth(n) == CHOOSE i \in places : Cardinality(Below(i)) = n - 1
           c == Cardinality(places)
<1>1. Len(s) \in Nat /\ DOMAIN s = 1..Len(s) /\ \A i \in 1..Len(s) : s[i] \in T OBVIOUS
<1>2. IsFiniteSet(1..Len(s)) BY <1>1, FS_Interval
<1>3. IsFiniteSet(places) /\ c \in Nat /\ places \subseteq Nat /\ (places # {} => c # 0)
  <2>1. IsFiniteSet(places) BY <1>1, <1>2, FS_Subset
  <2>2. QED BY <1>1, <2>1, FS_CardinalityType, FS_EmptySet
<1>4. KeptAt(s, places) = [n \in 1..c |-> s[Nth(n)]] BY DEF KeptAt
<1>5. \A i \in places : Below(i) \subseteq places /\ i \notin Below(i) /\ i \in Nat BY <1>3
<1>6. \A i \in places : IsFiniteSet(Below(i)) /\ Cardinality(Below(i)) \in Nat
  BY <1>3, <1>5, FS_Subset, FS_CardinalityType
<1>7. \A i, k \in places : i < k => Below(i) \cup {i} \subseteq Below(k) BY <1>5
<1> HIDE DEF Nth, Below, c
<1>8. ASSUME NEW i \in places, NEW k \in places, i < k PROVE Cardinality(Below(i)) < Cardinality(Below(k))
  <2>1. Below(i) \cup {i} \subseteq Below(k) BY <1>7, <1>8
  <2>2. Cardinality(Below(i) \cup {i}) = Cardinality(Below(i)) + 1 BY <1>5, <1>6, FS_AddElement
  <2>3. Cardinality(Below(i) \cup {i}) <= Cardinality(Below(k)) BY <1>6, <2>1, FS_Subset
  <2>4. QED BY <1>6, <2>2, <2>3
<1>9. \A i \in places : Cardinality(Below(i)) < c
  <2> TAKE i \in places
  <2>1. Below(i) # places BY <1>5
  <2>2. Cardinality(Below(i)) <= Cardinality(places) /\ Cardinality(Below(i)) # Cardinality(places)
    BY <1>3, <1>5, <2>1, FS_Subset
  <2>3. QED BY <1>3, <1>6, <2>2 DEF c
<1>10. \A n \in 1..c : \E i \in places : Cardinality(Below(i)) = n - 1
  <2> DEFINE rank == [i \in places |-> Cardinality(Below(i)) + 1]
  <2>1. rank \in [places -> 1..c]
    <3>1. \A i \in places : Cardinality(Below(i)) + 1 \in 1..c BY <1>3, <1>6, <1>9
    <3>2. QED BY <3>1
  <2>2. \A i, k \in places : rank[i] = rank[k] => i = k
    <3> TAKE i, k \in places
    <3>1. i \in Nat /\ k \in Nat /\ (i < k \/ k < i \/ i = k) BY <1>5
    <3>2. rank[i] = rank[k] => Cardinality(Below(i)) = Cardinality(Below(k)) BY <1>6
    <3>3. QED BY <1>6, <1>8, <3>1, <3>2
  <2>3. IsFiniteSet(1..c) /\ Cardinality(1..c) = c
    <3>1. IsFiniteSet(1..c) /\ Cardinality(1..c) = IF 1 > c THEN 0 ELSE c - 1 + 1 BY <1>3, FS_Interval
    <3>2. QED BY <1>3, <3>1
  <2>4. rank \in Injection(places, 1..c) BY <2>1, <2>2 DEF Injection, IsInjective
  <2>5. rank \in Surjection(places, 1..c)
    <3>1. Cardinality(places) = Cardinality(1..c) BY <2>3 DEF c
    <3> HIDE DEF rank
    <3>2. QED BY <2>3, <2>4, <3>1, FS_Injection
  <2>6. \A n \in 1..c : \E i \in places : rank[i] = n BY <2>5 DEF Surjection
  <2>7. QED
    <3> TAKE n \in 1..c
    <3>1. PICK i \in places : rank[i] = n BY <2>6
    <3>2. Cardinality(Below(i)) + 1 = n /\ Cardinality(Below(i)) \in Nat BY <1>6, <3>1
    <3>3. Cardinality(Below(i)) = n - 1 BY <3>2
    <3>4. QED BY <3>3
<1>11. \A n \in 1..c : Nth(n) \in places /\ Cardinality(Below(Nth(n))) = n - 1 BY <1>10 DEF Nth
<1>12. DOMAIN KeptAt(s, places) = 1..c BY <1>4
<1>13. KeptAt(s, places) \in Seq(T)
  <2>1. \A n \in 1..c : s[Nth(n)] \in T BY <1>1, <1>11
  <2>2. QED BY <1>3, <1>4, <2>1
<1>14. places # {} => KeptAt(s, places) # <<>> BY <1>3, <1>12
<1> DEFINE f == [n \in 1..c |-> Nth(n)]
<1>15. f \in [1..c -> places] BY <1>11
<1>16. \A n \in 1..c : KeptAt(s, places)[n] = s[f[n]] BY <1>4
<1>17. ASSUME NEW m \in 1..c, NEW n \in 1..c, f[m] = f[n] PROVE m = n
  <2>1. Cardinality(Below(Nth(m))) = m - 1 /\ Cardinality(Below(Nth(n))) = n - 1 BY <1>11
  <2>2. Nth(m) = Nth(n) BY <1>17
  <2>3. m \in Nat /\ n \in Nat BY <1>3
  <2>4. QED BY <2>1, <2>2, <2>3
<1> HIDE DEF f
<1>18. QED BY <1>12, <1>13, <1>14, <1>15, <1>16, <1>17

(* The first places of what a list names name each thing once.                 *)
LEMMA DistinctIs ==
  ASSUME NEW T, NEW s \in Seq(T)
  PROVE  Distinct(s) \in Seq(T) /\ IsInjective(Distinct(s))
<1> DEFINE places == {i \in DOMAIN s : \A k \in 1..(i - 1) : s[k] # s[i]}
<1>1. Distinct(s) = KeptAt(s, places) BY DEF Distinct
<1>2. places \subseteq DOMAIN s /\ DOMAIN s = 1..Len(s) /\ Len(s) \in Nat OBVIOUS
<1>3. \A i, k \in places : s[i] = s[k] => i = k
  <2> SUFFICES ASSUME NEW i \in places, NEW k \in places, s[i] = s[k], i # k PROVE FALSE OBVIOUS
  <2>1. i \in Nat /\ k \in Nat /\ i > 0 /\ k > 0 BY <1>2
  <2>2. i \in 1..(k - 1) \/ k \in 1..(i - 1) BY <2>1
  <2>3. QED BY <2>2
<1> HIDE DEF places
<1>4. PICK t : t = KeptAt(s, places) OBVIOUS
<1>5. /\ t \in Seq(T)
      /\ \E f \in [DOMAIN t -> places] :
           (\A n \in DOMAIN t : t[n] = s[f[n]]) /\ (\A m, n \in DOMAIN t : f[m] = f[n] => m = n)
  BY <1>2, <1>4, KeptAtIs
<1>6. IsInjective(t) BY <1>3, <1>5 DEF IsInjective
<1>7. QED BY <1>1, <1>4, <1>5, <1>6

(* One walk of a call: within the naps it may take, over entries named once,   *)
(* with those that refused the request behind it.                              *)
UnderWay == {"look", "reserve", "today", "spend", "sent", "settle", "note"}
OneWalk(c, r) ==
  /\ r.walk \in 0..MaxWaits /\ r.waited \in 0..MaxWaitS /\ (c \notin Waits => r.walk = 0 /\ r.waited = 0)
  /\ r.providers \in Seq(Entries) /\ IsInjective(r.providers)
  /\ r.pc \in {"new", "soonest", "nap"} => r.at = 1
  /\ r.pc = "new" => r.refusedBy = {}
  /\ r.pc = "nap" => /\ c \in Waits /\ r.walk < MaxWaits
                     /\ \E i \in DOMAIN r.providers : r.providers[i] \notin r.refusedBy
  /\ r.pc \in UnderWay => /\ r.at \in DOMAIN r.providers
                          /\ \A i \in r.at..Len(r.providers) : r.providers[i] \notin r.refusedBy
WalkInv == \A c \in Calls : OneWalk(c, call[c])

LEMMA WalksKeep ==
  ASSUME Locals, WalkInv, NEW c \in Calls, NEW q, OneWalk(c, q), call' = [call EXCEPT ![c] = q]
  PROVE  WalkInv'
BY DEF WalkInv, Locals, OneWalk, UnderWay

LEMMA FreshWalks ==
  ASSUME NEW c, NEW x, NEW y
  PROVE  OneWalk(c, [Fresh EXCEPT !.pc = "done", !.ending = x, !.hint = y])
<1>1. MaxWaits \in Nat /\ MaxWaitS \in Nat BY PoolAssumption
<1>2. <<>> \in Seq(Entries) /\ IsInjective(<<>>) BY DEF IsInjective
<1>3. QED BY <1>1, <1>2 DEF OneWalk, UnderWay, Fresh

LEMMA RemainingIs ==
  ASSUME Locals, WalkInv, NEW c \in Calls
  PROVE  /\ Remaining(c) \in Seq(Entries) /\ IsInjective(Remaining(c))
         /\ \A i \in DOMAIN Remaining(c) : Remaining(c)[i] \notin call[c].refusedBy
         /\ (\E i \in DOMAIN call[c].providers : call[c].providers[i] \notin call[c].refusedBy) => Remaining(c) # <<>>
         /\ Remaining(c) # <<>> => \E i \in DOMAIN call[c].providers : call[c].providers[i] \notin call[c].refusedBy
<1> DEFINE s == call[c].providers
           places == {i \in DOMAIN s : s[i] \notin call[c].refusedBy}
<1>1. s \in Seq(Entries) /\ IsInjective(s) BY DEF WalkInv, OneWalk
<1>2. PICK t : t = Remaining(c) OBVIOUS
<1>3. t = KeptAt(s, places) BY <1>2 DEF Remaining, Walked
<1>4. \A i, k \in places : s[i] = s[k] => i = k BY <1>1 DEF IsInjective
<1>5. \A i \in places : s[i] \notin call[c].refusedBy OBVIOUS
<1>6. places \subseteq DOMAIN s OBVIOUS
<1>7. places # {} <=> \E i \in DOMAIN s : s[i] \notin call[c].refusedBy OBVIOUS
<1> HIDE DEF places
<1>8. /\ t \in Seq(Entries) /\ (places # {} => t # <<>>)
      /\ \E f \in [DOMAIN t -> places] :
           (\A n \in DOMAIN t : t[n] = s[f[n]]) /\ (\A m, n \in DOMAIN t : f[m] = f[n] => m = n)
  BY <1>1, <1>3, <1>6, KeptAtIs
<1>9. PICK f \in [DOMAIN t -> places] :
        (\A n \in DOMAIN t : t[n] = s[f[n]]) /\ (\A m, n \in DOMAIN t : f[m] = f[n] => m = n)
  BY <1>8
<1>10. IsInjective(t) BY <1>4, <1>9 DEF IsInjective
<1>11. \A i \in DOMAIN t : t[i] \notin call[c].refusedBy BY <1>5, <1>9
<1>12. t # <<>> => places # {}
  <2> SUFFICES ASSUME t # <<>> PROVE places # {} OBVIOUS
  <2>1. 1 \in DOMAIN t BY <1>8
  <2>2. f[1] \in places BY <2>1
  <2>3. QED BY <2>2
<1>13. QED BY <1>2, <1>7, <1>8, <1>10, <1>11, <1>12

(* The next entry of the walk has not refused either, also when this one just  *)
(* did: no other place names it.                                               *)
LEMMA OnwardWalks ==
  ASSUME NEW c \in Calls, NEW r, NEW R, LocalOf(r), OneWalk(c, r), r.pc \in UnderWay,
         R = r.refusedBy \/ R = r.refusedBy \cup {r.providers[r.at]}
  PROVE  OneWalk(c, Onward([r EXCEPT !.failed = NoFailure, !.step = 0, !.refusedBy = R])) /\ OneWalk(c, Onward(r))
<1> PICK s, a : s = r.providers /\ a = r.at OBVIOUS
<1>1. s \in Seq(Entries) /\ IsInjective(s) /\ a \in DOMAIN s /\ \A i \in a..Len(s) : s[i] \notin r.refusedBy
  BY DEF OneWalk
<1>2. Len(s) \in Nat /\ DOMAIN s = 1..Len(s) /\ a \in Nat BY <1>1
<1>3. \A i \in (a + 1)..Len(s) : s[i] \notin R
  <2> TAKE i \in (a + 1)..Len(s)
  <2>1. i \in DOMAIN s /\ i \in a..Len(s) /\ i # a BY <1>2
  <2>2. s[i] # s[a] BY <1>1, <2>1 DEF IsInjective
  <2>3. QED BY <1>1, <2>1, <2>2
<1>4. a < Len(s) => a + 1 \in DOMAIN s BY <1>2
<1> DEFINE n == [r EXCEPT !.failed = NoFailure, !.step = 0, !.refusedBy = R]
<1>5. LocalOf(n) /\ n.refusedBy = R /\ n.providers = s /\ n.at = a /\ n.walk = r.walk /\ n.waited = r.waited
  BY DEF LocalOf, Fields
<1>6. \A i \in (a + 1)..Len(s) : s[i] \notin r.refusedBy
  <2> TAKE i \in (a + 1)..Len(s)
  <2>1. i \in a..Len(s) BY <1>2
  <2>2. QED BY <1>1, <2>1
<1>7. ASSUME NEW m, LocalOf(m), m.providers = s, m.at = a, m.walk = r.walk, m.waited = r.waited,
             \A i \in (a + 1)..Len(s) : s[i] \notin m.refusedBy
      PROVE  OneWalk(c, Onward(m))
  <2>1. CASE a < Len(s)
    <3> PICK k : k = Onward(m) OBVIOUS
    <3>1. k = [m EXCEPT !.pc = "look", !.at = @ + 1] BY <1>7, <2>1 DEF Onward
    <3>2. /\ k.pc = "look" /\ k.at = a + 1 /\ k.providers = s /\ k.refusedBy = m.refusedBy
          /\ k.walk = r.walk /\ k.waited = r.waited
      BY <1>7, <3>1 DEF LocalOf, Fields
    <3>3. QED BY <1>1, <1>4, <1>7, <2>1, <3>2 DEF OneWalk, UnderWay
  <2>2. CASE ~(a < Len(s))
    <3> PICK k : k = Onward(m) OBVIOUS
    <3>1. k = [m EXCEPT !.pc = "soonest", !.at = 1] BY <1>7, <2>2 DEF Onward
    <3>2. k.pc = "soonest" /\ k.at = 1 /\ k.providers = s /\ k.walk = r.walk /\ k.waited = r.waited
      BY <1>7, <3>1 DEF LocalOf, Fields
    <3>3. QED BY <1>1, <3>2 DEF OneWalk, UnderWay
  <2>3. QED BY <2>1, <2>2
<1>8. OneWalk(c, Onward(n))
  <2> HIDE DEF n
  <2>1. QED BY <1>3, <1>5, <1>7
<1>9. OneWalk(c, Onward(r)) BY <1>6, <1>7
<1>10. QED BY <1>8, <1>9

(* A call waits a number of seconds, if it waits for anything.                 *)
LEMMA SoonestIs ==
  ASSUME Tables, Locals, WalkInv, NEW c \in Calls, Busy(c) # {}
  PROVE  SoonestFree(c) \in Nat
<1> DEFINE S == {BlockedFor(e, Need[c]) : e \in Busy(c)}
<1>1. \A e \in Busy(c) : BlockedFor(e, Need[c]) \in Nat
  <2> SUFFICES ASSUME NEW e \in Busy(c) PROVE BlockedFor(e, Need[c]) \in Nat OBVIOUS
  <2>1. e \in Entries
    <3>1. Remaining(c) \in Seq(Entries) BY RemainingIs
    <3>2. PICK i \in DOMAIN Remaining(c) : e = Remaining(c)[i] BY DEF Busy, Range
    <3>3. QED BY <3>1, <3>2
  <2>2. health[e].cool \in Nat /\ health[e].reset \in Nat BY <2>1 DEF Tables, HealthRecord
  <2>3. QED BY <2>2 DEF BlockedFor
<1>2. S \subseteq Nat /\ S # {} BY <1>1
<1>3. \E m \in S : \A x \in S : m <= x BY <1>2, Least
<1>4. SoonestFree(c) = CHOOSE m \in S : \A x \in S : m <= x BY DEF SoonestFree, Min
<1>5. QED BY <1>2, <1>3, <1>4

(* Steps within a walk move the call along and leave the walk as it is.        *)
LEMMA AlongWalks ==
  ASSUME Locals, WalkInv, NEW c \in Calls, NEW q, LocalOf(q), call[c].pc \in UnderWay,
         q.pc \in UnderWay \cup {"giveup"}, q.providers = call[c].providers, q.at = call[c].at,
         q.refusedBy = call[c].refusedBy, q.walk = call[c].walk, q.waited = call[c].waited,
         call' = [call EXCEPT ![c] = q]
  PROVE  WalkInv'
<1>1. OneWalk(c, call[c]) BY DEF WalkInv
<1>2. OneWalk(c, q) BY <1>1 DEF OneWalk, UnderWay
<1>3. QED BY <1>2, WalksKeep

(* The next walk goes over what has not refused.                               *)
LEMMA NewWalks ==
  ASSUME Locals, WalkInv, NEW c \in Calls, NewWalk(c), call[c].at = 1,
         c \in Waits, call[c].walk < MaxWaits, Remaining(c) # <<>>
  PROVE  WalkInv'
<1> DEFINE q == [call[c] EXCEPT !.pc = "look", !.providers = Remaining(c), !.walk = @ + 1]
<1>1. LocalOf(call[c]) /\ OneWalk(c, call[c]) BY DEF Locals, WalkInv
<1>2. /\ q.pc = "look" /\ q.providers = Remaining(c) /\ q.walk = call[c].walk + 1 /\ q.at = 1
      /\ q.waited = call[c].waited /\ q.refusedBy = call[c].refusedBy
  BY <1>1 DEF LocalOf, Fields
<1>3. call' = [call EXCEPT ![c] = q] BY DEF NewWalk
<1> HIDE DEF q
<1>4. PICK t : t = Remaining(c) OBVIOUS
<1>5. /\ t \in Seq(Entries) /\ IsInjective(t) /\ t # <<>>
      /\ \A i \in DOMAIN t : t[i] \notin call[c].refusedBy
  BY <1>4, RemainingIs
<1>6. 1 \in DOMAIN t /\ DOMAIN t = 1..Len(t) BY <1>5
<1>7. MaxWaits \in Nat BY PoolAssumption
<1>8. q.walk \in 0..MaxWaits BY <1>1, <1>2, <1>7 DEF OneWalk
<1>9. OneWalk(c, q) BY <1>1, <1>2, <1>4, <1>5, <1>6, <1>8 DEF OneWalk, UnderWay
<1>10. QED BY <1>3, <1>9, WalksKeep

LEMMA EndWalks ==
  ASSUME Locals, WalkInv, NEW c \in Calls, NEW x, NEW y, EndWith(c, x, y)
  PROVE  WalkInv'
<1>1. OneWalk(c, [Fresh EXCEPT !.pc = "done", !.ending = x, !.hint = y]) BY FreshWalks
<1>2. QED BY <1>1, WalksKeep DEF EndWith

LEMMA StartWalks ==
  ASSUME Locals, WalkInv, NEW c \in Calls, Start(c)
  PROVE  WalkInv'
<1> DEFINE providers == Distinct(Usable(c))
           q == [call[c] EXCEPT !.pc = "look", !.providers = providers]
<1>1. LocalOf(call[c]) /\ OneWalk(c, call[c]) /\ call[c].pc = "new" BY DEF Locals, WalkInv, Start
<1>2. providers \in Seq(Entries) /\ IsInjective(providers)
  <2>1. Chain[c] \in Seq(Entries) BY PoolAssumption
  <2>2. Usable(c) \in Seq(Entries) BY <2>1, KeptAtIs DEF Usable
  <2>3. QED BY <2>2, DistinctIs
<1>3. CASE call' = [call EXCEPT ![c] = q] /\ providers # <<>> /\ call[c].refusedBy = {}
  <2>1. /\ q.pc = "look" /\ q.providers = providers /\ q.walk = call[c].walk /\ q.at = 1
        /\ q.waited = call[c].waited /\ q.refusedBy = {}
    BY <1>1, <1>3 DEF LocalOf, Fields, OneWalk
  <2>2. 1 \in DOMAIN providers BY <1>2, <1>3
  <2> HIDE DEF q, providers
  <2>3. OneWalk(c, q) BY <1>1, <1>2, <2>1, <2>2 DEF OneWalk, UnderWay
  <2>4. QED BY <1>3, <2>3, WalksKeep
<1>4. call[c].refusedBy = {} BY <1>1 DEF OneWalk
<1>5. QED BY <1>3, <1>4, EndWalks DEF Start

LEMMA SendsWalk ==
  ASSUME Locals, WalkInv, NEW c \in Calls,
         Look(c) \/ Reserve(c) \/ ReadToday(c) \/ SpendOneCall(c) \/ FormatRejected(c)
         \/ RequestFailed(c) \/ RequestAnswered(c) \/ Settle(c)
  PROVE  WalkInv'
<1>1. LocalOf(call[c]) /\ OneWalk(c, call[c]) BY DEF Locals, WalkInv
<1> DEFINE Along(q) == /\ LocalOf(q) /\ q.pc \in UnderWay /\ q.providers = call[c].providers /\ q.at = call[c].at
                       /\ q.refusedBy = call[c].refusedBy /\ q.walk = call[c].walk /\ q.waited = call[c].waited
<1>2. ASSUME NEW q, Along(q), call[c].pc \in UnderWay, call' = [call EXCEPT ![c] = q] PROVE WalkInv'
  BY <1>2, AlongWalks
<1>3. ASSUME NEW x \in UnderWay, call[c].pc \in UnderWay, Goto(c, x) PROVE WalkInv'
  <2>1. Along([call[c] EXCEPT !.pc = x]) BY <1>1, <1>3 DEF LocalOf, Fields
  <2> HIDE DEF Along
  <2>2. QED BY <1>2, <1>3, <2>1 DEF Goto
<1>4. CASE Look(c)
  <2>1. call[c].pc \in UnderWay BY <1>4 DEF Look, UnderWay
  <2>2. CASE Goto(c, "reserve") BY <1>3, <2>1, <2>2 DEF UnderWay
  <2>3. CASE call' = [call EXCEPT ![c] = Onward(@)]
    <3>1. OneWalk(c, Onward(call[c])) BY <1>1, <2>1, OnwardWalks
    <3>2. call' = [call EXCEPT ![c] = Onward(call[c])] BY <2>3
    <3>3. QED BY <3>1, <3>2, WalksKeep
  <2>4. QED BY <1>4, <2>2, <2>3 DEF Look
<1>5. CASE Reserve(c)
  <2> DEFINE q == [call[c] EXCEPT !.pc = "today",
                                  !.step = IF c \in WithSchema THEN floor[Here(c)] ELSE LastFormat]
  <2>1. Along(q) BY <1>1 DEF LocalOf, Fields, UnderWay
  <2>2. call' = [call EXCEPT ![c] = q] /\ call[c].pc \in UnderWay BY <1>5 DEF Reserve, UnderWay
  <2> HIDE DEF q, Along
  <2>3. QED BY <1>2, <2>1, <2>2
<1>6. CASE ReadToday(c)
  <2> DEFINE q == [call[c] EXCEPT !.pc = "spend", !.today = day]
  <2>1. Along(q) BY <1>1 DEF LocalOf, Fields, UnderWay
  <2>2. call' = [call EXCEPT ![c] = q] /\ call[c].pc \in UnderWay BY <1>6 DEF ReadToday, UnderWay
  <2> HIDE DEF q, Along
  <2>3. QED BY <1>2, <2>1, <2>2
<1>7. CASE SpendOneCall(c)
  <2> DEFINE Goes(x, y) == call' = [call EXCEPT ![c].pc = x, ![c].today = 0, ![c].ending = y]
  <2>1. PICK x, y : x \in {"settle", "sent"} /\ Goes(x, y)
    <3>1. (\E y : Goes("settle", y)) \/ \E y : Goes("sent", y) BY <1>7 DEF SpendOneCall
    <3> HIDE DEF Goes
    <3>2. QED BY <3>1
  <2> DEFINE q == [call[c] EXCEPT !.pc = x, !.today = 0, !.ending = y]
  <2>2. Along(q) BY <1>1, <2>1 DEF LocalOf, Fields, UnderWay
  <2>3. call' = [call EXCEPT ![c] = q] /\ call[c].pc \in UnderWay BY <1>7, <2>1 DEF SpendOneCall, UnderWay
  <2> HIDE DEF q, Along
  <2>4. QED BY <1>2, <2>2, <2>3
<1>8. CASE FormatRejected(c)
  <2> DEFINE q == [call[c] EXCEPT !.pc = "today", !.step = @ + 1]
  <2>1. Along(q) BY <1>1 DEF LocalOf, Fields, UnderWay
  <2>2. call' = [call EXCEPT ![c] = q] /\ call[c].pc \in UnderWay BY <1>8 DEF FormatRejected, UnderWay
  <2> HIDE DEF q, Along
  <2>3. QED BY <1>2, <2>1, <2>2
<1>9. ASSUME NEW f \in Failures, call' = [call EXCEPT ![c].pc = "settle", ![c].failed = f], call[c].pc \in UnderWay
      PROVE  WalkInv'
  <2> DEFINE q == [call[c] EXCEPT !.pc = "settle", !.failed = f]
  <2>1. Along(q) BY <1>1 DEF LocalOf, Fields, UnderWay
  <2>2. call' = [call EXCEPT ![c] = q] BY <1>9
  <2> HIDE DEF q, Along
  <2>3. QED BY <1>2, <1>9, <2>1, <2>2
<1>10. CASE RequestFailed(c) BY <1>9, <1>10 DEF RequestFailed, UnderWay
<1>11. CASE RequestAnswered(c)
  <2>1. call[c].pc \in UnderWay BY <1>11 DEF RequestAnswered, UnderWay
  <2>2. [why |-> "busy", cool |-> Trouble] \in Failures BY DEF Failures
  <2>3. CASE call' = [call EXCEPT ![c].pc = "settle", ![c].ending = "answered"]
    <3> DEFINE q == [call[c] EXCEPT !.pc = "settle", !.ending = "answered"]
    <3>1. Along(q) BY <1>1 DEF LocalOf, Fields, UnderWay
    <3>2. call' = [call EXCEPT ![c] = q] BY <2>3
    <3> HIDE DEF q, Along
    <3>3. QED BY <1>2, <2>1, <3>1, <3>2
  <2>4. QED BY <1>9, <1>11, <2>1, <2>2, <2>3 DEF RequestAnswered
<1>12. CASE Settle(c)
  <2>1. call[c].pc \in UnderWay BY <1>12 DEF Settle, UnderWay
  <2>2. QED BY <1>3, <1>12, <2>1, EndWalks DEF Settle, UnderWay
<1>13. QED BY <1>4, <1>5, <1>6, <1>7, <1>8, <1>10, <1>11, <1>12

LEMMA NoteWalks ==
  ASSUME Locals, WalkInv, NEW c \in Calls, NoteFailure(c)
  PROVE  WalkInv'
<1>1. LocalOf(call[c]) /\ OneWalk(c, call[c]) BY DEF Locals, WalkInv
<1>2. call[c].pc \in UnderWay BY DEF NoteFailure, UnderWay
<1> DEFINE R == IF call[c].failed.cool = 0 THEN call[c].refusedBy \cup {Here(c)} ELSE call[c].refusedBy
<1>3. R = call[c].refusedBy \/ R = call[c].refusedBy \cup {call[c].providers[call[c].at]} BY DEF Here, Walked
<1>4. Noted(c) = [call[c] EXCEPT !.failed = NoFailure, !.step = 0, !.refusedBy = R] BY DEF Noted
<1> HIDE DEF R
<1>5. OneWalk(c, Onward(Noted(c))) BY <1>1, <1>2, <1>3, <1>4, OnwardWalks
<1>6. QED BY <1>5, WalksKeep DEF NoteFailure

LEMMA EndOfWalkWalks ==
  ASSUME Tables, Locals, WalkInv, NEW c \in Calls, EndOfWalk(c) \/ Wake(c) \/ GiveUp(c)
  PROVE  WalkInv'
<1>1. LocalOf(call[c]) /\ OneWalk(c, call[c]) BY DEF Locals, WalkInv
<1>2. CASE Wake(c)
  <2>1. /\ call[c].pc = "nap" /\ call[c].at = 1 /\ c \in Waits /\ call[c].walk < MaxWaits
        /\ \E i \in DOMAIN call[c].providers : call[c].providers[i] \notin call[c].refusedBy
    BY <1>1, <1>2 DEF Wake, OneWalk
  <2>2. Remaining(c) # <<>> BY <2>1, RemainingIs
  <2>3. QED BY <1>2, <2>1, <2>2, NewWalks DEF Wake
<1>3. CASE GiveUp(c) BY <1>3, EndWalks DEF GiveUp
<1>4. CASE EndOfWalk(c)
  <2>1. call[c].pc = "soonest" /\ call[c].at = 1 BY <1>1, <1>4 DEF EndOfWalk, OneWalk
  <2>2. CASE Goto(c, "giveup")
    <3> DEFINE q == [call[c] EXCEPT !.pc = "giveup"]
    <3>1. q.pc = "giveup" /\ q.providers = call[c].providers /\ q.walk = call[c].walk /\ q.waited = call[c].waited
      BY <1>1 DEF LocalOf, Fields
    <3> HIDE DEF q
    <3>2. OneWalk(c, q) BY <1>1, <3>1 DEF OneWalk, UnderWay
    <3>3. QED BY <2>2, <3>2, WalksKeep DEF Goto, q
  <2>3. CASE Remaining(c) # <<>> /\ MayNap(c) /\ ~OutOfPatience(c)
    <3>1. c \in Waits /\ call[c].walk < MaxWaits BY <2>3 DEF MayNap
    <3>2. Busy(c) # {} /\ ~(call[c].waited + SoonestFree(c) > MaxWaitS) BY <2>3 DEF OutOfPatience
    <3>3. SoonestFree(c) \in Nat BY <3>2, SoonestIs
    <3>4. CASE NewWalk(c) BY <2>1, <2>3, <3>1, <3>4, NewWalks
    <3>5. CASE call' = [call EXCEPT ![c].pc = "nap", ![c].nap = SoonestFree(c), ![c].waited = @ + SoonestFree(c)]
      <4> DEFINE q == [call[c] EXCEPT !.pc = "nap", !.nap = SoonestFree(c), !.waited = @ + SoonestFree(c)]
      <4>1. /\ q.pc = "nap" /\ q.providers = call[c].providers /\ q.walk = call[c].walk /\ q.at = 1
            /\ q.waited = call[c].waited + SoonestFree(c) /\ q.refusedBy = call[c].refusedBy
        BY <1>1, <2>1 DEF LocalOf, Fields
      <4>2. \E i \in DOMAIN call[c].providers : call[c].providers[i] \notin call[c].refusedBy BY <2>3, RemainingIs
      <4>3. MaxWaitS \in Nat BY PoolAssumption
      <4>4. q.waited \in 0..MaxWaitS BY <1>1, <3>2, <3>3, <4>1, <4>3 DEF OneWalk
      <4>5. call' = [call EXCEPT ![c] = q] BY <3>5
      <4> HIDE DEF q
      <4>6. OneWalk(c, q) BY <1>1, <3>1, <4>1, <4>2, <4>4 DEF OneWalk, UnderWay
      <4>7. QED BY <4>5, <4>6, WalksKeep
    <3>6. QED BY <1>4, <2>3, <3>4, <3>5 DEF EndOfWalk
  <2>4. QED BY <1>4, <2>2, <2>3, EndWalks DEF EndOfWalk
<1>5. QED BY <1>2, <1>3, <1>4

LEMMA SecondWalks ==
  ASSUME Locals, WalkInv, Second
  PROVE  WalkInv'
<1> SUFFICES ASSUME NEW c \in Calls PROVE OneWalk(c, call'[c]) BY DEF WalkInv, OneWalk, UnderWay
<1>1. LocalOf(call[c]) /\ OneWalk(c, call[c]) BY DEF Locals, WalkInv
<1>2. call'[c] = [call[c] EXCEPT !.nap = Less(@)] BY DEF Second
<1>3. /\ call'[c].pc = call[c].pc /\ call'[c].providers = call[c].providers /\ call'[c].at = call[c].at
      /\ call'[c].refusedBy = call[c].refusedBy /\ call'[c].walk = call[c].walk /\ call'[c].waited = call[c].waited
  BY <1>1, <1>2 DEF LocalOf, Fields
<1>4. QED BY <1>1, <1>3 DEF OneWalk, UnderWay

LEMMA WalksHold == PoolSpec => [](PoolInv /\ WalkInv)
<1>1. PoolInit => PoolInv /\ WalkInv
  <2> SUFFICES ASSUME PoolInit PROVE WalkInv BY PoolBegins
  <2>1. MaxWaits \in Nat /\ MaxWaitS \in Nat BY PoolAssumption
  <2>2. \A c \in Calls : OneWalk(c, Fresh)
    <3>1. <<>> \in Seq(Entries) /\ IsInjective(<<>>) BY DEF IsInjective
    <3>2. QED BY <2>1, <3>1 DEF OneWalk, UnderWay, Fresh
  <2>3. QED BY <2>2 DEF PoolInit, WalkInv
<1>2. PoolInv /\ WalkInv /\ [PoolNext]_poolVars => (PoolInv /\ WalkInv)'
  <2> SUFFICES ASSUME PoolInv, WalkInv, [PoolNext]_poolVars PROVE WalkInv' BY PoolStep
  <2>1. Tables /\ Locals BY DEF PoolInv
  <2>2. ASSUME NEW c \in Calls, Step(c) PROVE WalkInv'
    BY <2>1, <2>2, StartWalks, SendsWalk, NoteWalks, EndOfWalkWalks DEF Step
  <2>3. CASE Second BY <2>1, <2>3, SecondWalks
  <2>4. CASE UNCHANGED poolVars BY <2>4 DEF poolVars, WalkInv, OneWalk, UnderWay
  <2>5. QED BY <2>2, <2>3, <2>4 DEF PoolNext
<1>3. QED BY <1>1, <1>2, PTL DEF PoolSpec

(* A request is never sent again to an entry that refused it, in this walk or  *)
(* after a nap, also when the chain names the entry twice (_complete).         *)
THEOREM RefusalIsFinal == PoolSpec => []RefusedNotReplayed
<1>1. PoolInv /\ WalkInv => RefusedNotReplayed
  <2> SUFFICES ASSUME WalkInv, NEW c \in Calls, call[c].pc \in {"reserve", "today", "spend", "sent"}
               PROVE  Here(c) \notin call[c].refusedBy
    BY DEF RefusedNotReplayed
  <2>1. OneWalk(c, call[c]) /\ call[c].pc \in UnderWay BY DEF WalkInv, UnderWay
  <2> DEFINE s == call[c].providers
             a == call[c].at
  <2>2. a \in DOMAIN s /\ s \in Seq(Entries) /\ \A i \in a..Len(s) : s[i] \notin call[c].refusedBy BY <2>1 DEF OneWalk
  <2>3. a \in a..Len(s) BY <2>2
  <2>4. QED BY <2>2, <2>3 DEF Here, Walked
<1>2. QED BY <1>1, WalksHold, PTL

(* Only the user's own question naps, its naps together last no longer than    *)
(* llm_max_wait_s and its walks are counted, whatever puts the entries back on *)
(* cooldown between them (_complete).                                          *)
THEOREM PatienceEnds == PoolSpec => []NapsBounded
<1>1. PoolInv /\ WalkInv => NapsBounded
  <2> SUFFICES ASSUME WalkInv, NEW c \in Calls
               PROVE  /\ call[c].waited <= MaxWaitS /\ call[c].walk <= MaxWaits
                      /\ c \notin Waits => call[c].waited = 0 /\ call[c].walk = 0
    BY DEF NapsBounded
  <2>1. OneWalk(c, call[c]) BY DEF WalkInv
  <2>2. MaxWaits \in Nat /\ MaxWaitS \in Nat BY PoolAssumption
  <2>3. QED BY <2>1, <2>2 DEF OneWalk
<1>2. QED BY <1>1, WalksHold, PTL
==============================================================================
