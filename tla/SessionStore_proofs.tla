-------------------------- MODULE SessionStore_proofs --------------------------
(* Proofs about module SessionStore: for any sessions, requests and sizes, *)
(* each session has exactly one holder, sessions are dropped only when     *)
(* that is due, and an overview served from the cache is a current one.    *)
EXTENDS SessionStore, FiniteSetTheorems, TLAPS

-----------------------------------------------------------------------------
(* Lists and the members of them that are in a set.                        *)
Increasing(f) == \A m, n \in DOMAIN f : m < n => f[m] < f[n]

(* Only(s, S) takes the positions of s that hold members of S, in order.   *)
LEMMA OnlyTakes ==
  ASSUME NEW T, NEW s \in Seq(T), NEW S
  PROVE  /\ Only(s, S) \in Seq(T) /\ Len(Only(s, S)) \in Nat /\ Len(Only(s, S)) <= Len(s)
         /\ (\E i \in 1..Len(s) : s[i] \notin S) => Len(Only(s, S)) < Len(s)
         /\ \E f \in [1..Len(Only(s, S)) -> 1..Len(s)] :
              /\ Increasing(f)
              /\ \A n \in 1..Len(Only(s, S)) : Only(s, S)[n] = s[f[n]] /\ s[f[n]] \in S
              /\ \A i \in 1..Len(s) : s[i] \in S => \E n \in 1..Len(Only(s, S)) : f[n] = i
<1> DEFINE at == {i \in DOMAIN s : s[i] \in S}
           Below(i) == {j \in at : j < i}
           Nth(n) == CHOOSE i \in at : Cardinality(Below(i)) = n - 1
           c == Cardinality(at)
<1>1. Len(s) \in Nat /\ DOMAIN s = 1..Len(s) /\ \A i \in 1..Len(s) : s[i] \in T OBVIOUS
<1>2. IsFiniteSet(1..Len(s)) /\ Cardinality(1..Len(s)) = Len(s)
  <2>1. IsFiniteSet(1..Len(s)) /\ Cardinality(1..Len(s)) = IF 1 > Len(s) THEN 0 ELSE Len(s) - 1 + 1
    BY <1>1, FS_Interval
  <2>2. QED BY <1>1, <2>1
<1>3. at \subseteq 1..Len(s) BY <1>1
<1>4. IsFiniteSet(at) /\ c \in Nat /\ c <= Len(s) /\ (c = Len(s) => at = 1..Len(s))
  BY <1>2, <1>3, FS_Subset, FS_CardinalityType
<1>5. Only(s, S) = [n \in 1..c |-> s[Nth(n)]] BY DEF Only
<1>6. \A i \in at : Below(i) \subseteq at /\ i \notin Below(i) /\ i \in Nat BY <1>1, <1>3
<1>7. \A i \in at : IsFiniteSet(Below(i)) /\ Cardinality(Below(i)) \in Nat
  BY <1>4, <1>6, FS_Subset, FS_CardinalityType
<1>20. \A i, k \in at : i < k => Below(i) \cup {i} \subseteq Below(k) BY <1>6
<1>21. \A i \in 1..Len(s) : i \in at <=> s[i] \in S BY <1>1
<1> HIDE DEF Nth, at, Below, c
<1>8. ASSUME NEW i \in at, NEW k \in at, i < k PROVE Cardinality(Below(i)) < Cardinality(Below(k))
  <2>1. Below(i) \cup {i} \subseteq Below(k) BY <1>8, <1>20
  <2>2. Cardinality(Below(i) \cup {i}) = Cardinality(Below(i)) + 1 BY <1>6, <1>7, FS_AddElement
  <2>3. Cardinality(Below(i) \cup {i}) <= Cardinality(Below(k)) BY <1>7, <2>1, FS_Subset
  <2>4. QED BY <1>7, <2>2, <2>3
<1>9. \A i \in at : Cardinality(Below(i)) < c
  <2> TAKE i \in at
  <2>1. Below(i) # at BY <1>6
  <2>2. Cardinality(Below(i)) <= Cardinality(at) /\ Cardinality(Below(i)) # Cardinality(at)
    BY <1>4, <1>6, <2>1, FS_Subset
  <2>3. QED BY <1>4, <1>7, <2>2 DEF c
<1>10. \A n \in 1..c : \E i \in at : Cardinality(Below(i)) = n - 1
  <2> DEFINE rank == [i \in at |-> Cardinality(Below(i)) + 1]
  <2>1. rank \in [at -> 1..c]
    <3>1. \A i \in at : Cardinality(Below(i)) + 1 \in 1..c BY <1>4, <1>7, <1>9
    <3>2. QED BY <3>1
  <2>2. \A i, k \in at : rank[i] = rank[k] => i = k
    <3> TAKE i, k \in at
    <3>1. i \in Nat /\ k \in Nat /\ (i < k \/ k < i \/ i = k) BY <1>6
    <3>2. rank[i] = rank[k] => Cardinality(Below(i)) = Cardinality(Below(k)) BY <1>7
    <3>3. QED BY <1>7, <1>8, <3>1, <3>2
  <2>3. IsFiniteSet(1..c) /\ Cardinality(1..c) = c
    <3>1. IsFiniteSet(1..c) /\ Cardinality(1..c) = IF 1 > c THEN 0 ELSE c - 1 + 1
      BY <1>4, FS_Interval
    <3>2. QED BY <1>4, <3>1
  <2>4. rank \in Injection(at, 1..c)
    BY <2>1, <2>2 DEF Injection, IsInjective
  <2>5. rank \in Surjection(at, 1..c)
    <3>1. Cardinality(at) = Cardinality(1..c) BY <2>3 DEF c
    <3> HIDE DEF rank
    <3>2. QED BY <2>3, <2>4, <3>1, FS_Injection
  <2>6. \A n \in 1..c : \E i \in at : rank[i] = n BY <2>5 DEF Surjection
  <2>7. QED
    <3> TAKE n \in 1..c
    <3>1. PICK i \in at : rank[i] = n BY <2>6
    <3>2. Cardinality(Below(i)) + 1 = n /\ Cardinality(Below(i)) \in Nat BY <1>7, <3>1
    <3>3. Cardinality(Below(i)) = n - 1 BY <3>2
    <3>4. QED BY <3>3
<1>11. \A n \in 1..c : Nth(n) \in at /\ Cardinality(Below(Nth(n))) = n - 1 BY <1>10 DEF Nth
<1>12. Only(s, S) \in Seq(T) /\ Len(Only(s, S)) = c
  <2>1. \A n \in 1..c : s[Nth(n)] \in T BY <1>1, <1>3, <1>11
  <2>2. QED BY <1>4, <1>5, <2>1
<1> DEFINE f == [n \in 1..c |-> Nth(n)]
<1>13. f \in [1..c -> 1..Len(s)] BY <1>3, <1>11
<1>14. Increasing(f)
  <2> SUFFICES ASSUME NEW m \in 1..c, NEW n \in 1..c, m < n PROVE Nth(m) < Nth(n)
    BY DEF Increasing
  <2>1. Cardinality(Below(Nth(m))) < Cardinality(Below(Nth(n))) BY <1>4, <1>11
  <2>2. Nth(m) \in at /\ Nth(n) \in at /\ Nth(m) \in Nat /\ Nth(n) \in Nat BY <1>6, <1>11
  <2>3. ~(Nth(n) < Nth(m)) BY <1>7, <1>8, <2>1, <2>2
  <2>4. Nth(n) # Nth(m) BY <1>7, <2>1, <2>2
  <2>5. QED BY <2>2, <2>3, <2>4
<1>15. \A n \in 1..c : Only(s, S)[n] = s[f[n]] /\ s[f[n]] \in S BY <1>3, <1>5, <1>11, <1>21
<1>16. ASSUME NEW i \in 1..Len(s), s[i] \in S PROVE \E n \in 1..c : f[n] = i
  <2>1. i \in at BY <1>16, <1>21
  <2> DEFINE n == Cardinality(Below(i)) + 1
  <2>2. n \in 1..c /\ Cardinality(Below(i)) = n - 1 BY <1>4, <1>7, <1>9, <2>1
  <2>3. Cardinality(Below(Nth(n))) = Cardinality(Below(i)) /\ Nth(n) \in at BY <1>11, <2>2
  <2>4. Nth(n) \in Nat /\ i \in Nat BY <1>6, <2>1, <2>3
  <2>5. Nth(n) = i BY <1>7, <1>8, <2>1, <2>3, <2>4
  <2>6. QED BY <2>2, <2>5
<1>17. (\E i \in 1..Len(s) : s[i] \notin S) => c < Len(s)
  <2> SUFFICES ASSUME NEW i \in 1..Len(s), s[i] \notin S PROVE c < Len(s) OBVIOUS
  <2>1. at # 1..Len(s) BY <1>21
  <2>2. c # Len(s) BY <1>4, <2>1
  <2>3. c \in Nat /\ c <= Len(s) /\ Len(s) \in Nat BY <1>1, <1>4
  <2>4. QED BY <2>2, <2>3
<1> HIDE DEF f
<1>18. QED BY <1>4, <1>12, <1>13, <1>14, <1>15, <1>16, <1>17

(* What a list without repeats keeps of itself.                            *)
LEMMA OnlyKeeps ==
  ASSUME NEW T, NEW s \in Seq(T), NEW S
  PROVE  /\ ToSet(Only(s, S)) = ToSet(s) \cap S
         /\ IsInjective(s) => IsInjective(Only(s, S))
<1> PICK t : t = Only(s, S) OBVIOUS
<1>1. PICK f \in [1..Len(t) -> 1..Len(s)] :
        /\ Increasing(f)
        /\ \A n \in 1..Len(t) : t[n] = s[f[n]] /\ s[f[n]] \in S
        /\ \A i \in 1..Len(s) : s[i] \in S => \E n \in 1..Len(t) : f[n] = i
  BY OnlyTakes
<1>2. /\ t \in Seq(T) /\ Len(t) \in Nat /\ DOMAIN t = 1..Len(t)
      /\ Len(s) \in Nat /\ DOMAIN s = 1..Len(s)
  BY OnlyTakes
<1>3. ToSet(t) = ToSet(s) \cap S
  <2>1. ASSUME NEW x \in ToSet(t) PROVE x \in ToSet(s) \cap S
    <3>1. PICK n \in 1..Len(t) : x = t[n] BY <1>2 DEF ToSet
    <3>2. f[n] \in 1..Len(s) OBVIOUS
    <3>3. QED BY <1>1, <1>2, <3>1, <3>2 DEF ToSet
  <2>2. ASSUME NEW x \in ToSet(s) \cap S PROVE x \in ToSet(t)
    <3>1. PICK i \in 1..Len(s) : x = s[i] BY <1>2 DEF ToSet
    <3>2. PICK n \in 1..Len(t) : f[n] = i BY <1>1, <3>1
    <3>3. QED BY <1>1, <1>2, <3>1, <3>2 DEF ToSet
  <2>3. QED BY <2>1, <2>2
<1>4. IsInjective(s) => IsInjective(t)
  <2> SUFFICES ASSUME IsInjective(s), NEW m \in 1..Len(t), NEW n \in 1..Len(t), t[m] = t[n] PROVE m = n
    BY <1>2 DEF IsInjective
  <2>1. f[m] = f[n] BY <1>1, <1>2 DEF IsInjective
  <2>2. f[m] \in Nat /\ f[n] \in Nat /\ m \in Nat /\ n \in Nat BY <1>2
  <2>3. ~(m < n) /\ ~(n < m) BY <1>1, <2>1, <2>2 DEF Increasing
  <2>4. QED BY <2>2, <2>3
<1>5. QED BY <1>3, <1>4

(* Elements of an appended list, of its end and of its rest.               *)
LEMMA AppendAdds ==
  ASSUME NEW T, NEW s \in Seq(T), NEW x \in T
  PROVE  /\ Append(s, x) \in Seq(T) /\ Len(Append(s, x)) = Len(s) + 1
         /\ ToSet(Append(s, x)) = ToSet(s) \cup {x}
         /\ IsInjective(s) /\ x \notin ToSet(s) => IsInjective(Append(s, x))
<1> PICK t : t = Append(s, x) OBVIOUS
<1>1. /\ t \in Seq(T) /\ Len(t) = Len(s) + 1 /\ Len(s) \in Nat
      /\ DOMAIN t = 1..(Len(s) + 1) /\ DOMAIN s = 1..Len(s)
      /\ t[Len(s) + 1] = x /\ \A i \in 1..Len(s) : t[i] = s[i]
  OBVIOUS
<1>2. ToSet(t) = ToSet(s) \cup {x}
  <2>1. \A i \in 1..(Len(s) + 1) : i \in 1..Len(s) \/ i = Len(s) + 1 BY <1>1
  <2>2. \A i \in 1..Len(s) : i \in 1..(Len(s) + 1) BY <1>1
  <2>3. Len(s) + 1 \in 1..(Len(s) + 1) BY <1>1
  <2>4. QED BY <1>1, <2>1, <2>2, <2>3 DEF ToSet
<1>3. IsInjective(s) /\ x \notin ToSet(s) => IsInjective(t)
  <2>1. \A i \in 1..(Len(s) + 1) : i \in 1..Len(s) \/ i = Len(s) + 1 BY <1>1
  <2>2. QED BY <1>1, <2>1 DEF IsInjective, ToSet
<1>4. QED BY <1>1, <1>2, <1>3

LEMMA HeadAndTail ==
  ASSUME NEW T, NEW s \in Seq(T), s # <<>>
  PROVE  /\ Head(s) \in T /\ Tail(s) \in Seq(T) /\ Head(s) \in ToSet(s)
         /\ ToSet(s) = ToSet(Tail(s)) \cup {Head(s)}
         /\ IsInjective(s) => IsInjective(Tail(s)) /\ Head(s) \notin ToSet(Tail(s))
<1> PICK t : t = Tail(s) OBVIOUS
<1>1. /\ t \in Seq(T) /\ Len(s) \in Nat /\ Len(s) > 0 /\ Len(t) = Len(s) - 1
      /\ DOMAIN t = 1..(Len(s) - 1) /\ DOMAIN s = 1..Len(s)
      /\ Head(s) = s[1] /\ Head(s) \in T /\ \A i \in 1..(Len(s) - 1) : t[i] = s[i + 1]
  OBVIOUS
<1>2. \A i \in 1..Len(s) : i = 1 \/ (i - 1 \in 1..(Len(s) - 1) /\ i = (i - 1) + 1) BY <1>1
<1>3. \A i \in 1..(Len(s) - 1) : i + 1 \in 1..Len(s) /\ i + 1 # 1 BY <1>1
<1>4. 1 \in 1..Len(s) BY <1>1
<1>5. ToSet(s) = ToSet(t) \cup {Head(s)}
  <2>1. \A i \in 1..Len(s) : s[i] \in ToSet(t) \cup {Head(s)}
    <3> TAKE i \in 1..Len(s)
    <3>1. CASE i = 1 BY <1>1, <3>1
    <3>2. CASE i # 1
      <4>1. PICK j \in 1..(Len(s) - 1) : i = j + 1 BY <1>2, <3>2
      <4>2. s[i] = t[j] BY <1>1, <4>1
      <4>3. QED BY <1>1, <4>2 DEF ToSet
    <3>3. QED BY <3>1, <3>2
  <2>2. \A j \in 1..(Len(s) - 1) : t[j] \in ToSet(s)
    <3> TAKE j \in 1..(Len(s) - 1)
    <3>1. t[j] = s[j + 1] /\ j + 1 \in DOMAIN s BY <1>1, <1>3
    <3>2. QED BY <3>1 DEF ToSet
  <2>3. s[1] \in ToSet(s) BY <1>1, <1>4 DEF ToSet
  <2>4. QED
    <3>1. ToSet(s) \subseteq ToSet(t) \cup {Head(s)} BY <1>1, <2>1 DEF ToSet
    <3>2. ToSet(t) \subseteq ToSet(s) BY <1>1, <2>2 DEF ToSet
    <3>3. QED BY <1>1, <2>3, <3>1, <3>2
<1>6. ASSUME IsInjective(s) PROVE IsInjective(t) /\ Head(s) \notin ToSet(t)
  <2>1. Head(s) \notin ToSet(t) BY <1>1, <1>3, <1>4, <1>6 DEF IsInjective, ToSet
  <2>2. IsInjective(t)
    <3> SUFFICES ASSUME NEW m \in 1..(Len(s) - 1), NEW n \in 1..(Len(s) - 1), t[m] = t[n] PROVE m = n
      BY <1>1 DEF IsInjective
    <3>1. m + 1 = n + 1 BY <1>1, <1>3, <1>6 DEF IsInjective
    <3>2. QED BY <3>1
  <2>3. QED BY <2>1, <2>2
<1>7. QED BY <1>1, <1>5, <1>6

(* A list cut in two.                                                      *)
LEMMA CutInTwo ==
  ASSUME NEW T, NEW s \in Seq(T), NEW n \in Nat, n <= Len(s)
  PROVE  LET front == SubSeq(s, 1, n)
             back == SubSeq(s, n + 1, Len(s))
         IN  /\ front \in Seq(T) /\ back \in Seq(T) /\ Len(front) = n /\ Len(back) = Len(s) - n
             /\ \A i \in 1..n : front[i] = s[i]
             /\ \A i \in 1..(Len(s) - n) : back[i] = s[n + i]
             /\ ToSet(s) = ToSet(front) \cup ToSet(back)
             /\ IsInjective(s) => /\ IsInjective(front) /\ IsInjective(back)
                                  /\ ToSet(front) \cap ToSet(back) = {}
<1> PICK front : front = SubSeq(s, 1, n) OBVIOUS
<1> PICK back : back = SubSeq(s, n + 1, Len(s)) OBVIOUS
<1>1. Len(s) \in Nat /\ DOMAIN s = 1..Len(s) OBVIOUS
<1>2. /\ front \in Seq(T) /\ Len(front) = n /\ DOMAIN front = 1..n
      /\ \A i \in 1..n : front[i] = s[i]
  OBVIOUS
<1>3. /\ back \in Seq(T) /\ Len(back) = Len(s) - n /\ DOMAIN back = 1..(Len(s) - n)
      /\ \A i \in 1..(Len(s) - n) : back[i] = s[n + i]
  OBVIOUS
<1>4. \A i \in 1..Len(s) : i \in 1..n \/ (i - n \in 1..(Len(s) - n) /\ i = n + (i - n)) BY <1>1
<1>5. \A i \in 1..n : i \in 1..Len(s) BY <1>1
<1>6. \A i \in 1..(Len(s) - n) : n + i \in 1..Len(s) /\ n + i \notin 1..n BY <1>1
<1>7. ToSet(s) = ToSet(front) \cup ToSet(back)
  <2>1. \A i \in 1..Len(s) : s[i] \in ToSet(front) \cup ToSet(back)
    <3> TAKE i \in 1..Len(s)
    <3>1. CASE i \in 1..n BY <1>2, <3>1 DEF ToSet
    <3>2. CASE i \notin 1..n
      <4>1. PICK j \in 1..(Len(s) - n) : i = n + j BY <1>4, <3>2
      <4>2. s[i] = back[j] BY <1>3, <4>1
      <4>3. QED BY <1>3, <4>2 DEF ToSet
    <3>3. QED BY <3>1, <3>2
  <2>2. \A j \in 1..n : front[j] \in ToSet(s) BY <1>1, <1>2, <1>5 DEF ToSet
  <2>3. \A j \in 1..(Len(s) - n) : back[j] \in ToSet(s)
    <3> TAKE j \in 1..(Len(s) - n)
    <3>1. back[j] = s[n + j] /\ n + j \in DOMAIN s BY <1>1, <1>3, <1>6
    <3>2. QED BY <3>1 DEF ToSet
  <2>4. QED
    <3>1. ToSet(s) \subseteq ToSet(front) \cup ToSet(back) BY <1>1, <2>1 DEF ToSet
    <3>2. ToSet(front) \subseteq ToSet(s) BY <1>2, <2>2 DEF ToSet
    <3>3. ToSet(back) \subseteq ToSet(s) BY <1>3, <2>3 DEF ToSet
    <3>4. QED BY <3>1, <3>2, <3>3
<1>8. ASSUME IsInjective(s)
      PROVE  IsInjective(front) /\ IsInjective(back) /\ ToSet(front) \cap ToSet(back) = {}
  <2>1. IsInjective(front) BY <1>1, <1>2, <1>5, <1>8 DEF IsInjective
  <2>2. IsInjective(back)
    <3> SUFFICES ASSUME NEW i \in 1..(Len(s) - n), NEW k \in 1..(Len(s) - n), back[i] = back[k] PROVE i = k
      BY <1>3 DEF IsInjective
    <3>1. n + i = n + k BY <1>1, <1>3, <1>6, <1>8 DEF IsInjective
    <3>2. QED BY <3>1
  <2>3. ToSet(front) \cap ToSet(back) = {}
    <3>0. SUFFICES ASSUME NEW x \in ToSet(front), x \in ToSet(back) PROVE FALSE OBVIOUS
    <3> PICK i \in 1..n : x = front[i] BY <1>2 DEF ToSet
    <3> PICK k \in 1..(Len(s) - n) : x = back[k] BY <1>3, <3>0 DEF ToSet
    <3>1. s[i] = s[n + k] BY <1>2, <1>3
    <3>2. i \in DOMAIN s /\ n + k \in DOMAIN s BY <1>1, <1>5, <1>6
    <3>3. i = n + k BY <1>8, <3>1, <3>2 DEF IsInjective
    <3>4. QED BY <1>6, <3>3
  <2>4. QED BY <2>1, <2>2, <2>3
<1>9. QED BY <1>2, <1>3, <1>7, <1>8

(* Two lists in a row.                                                     *)
LEMMA OneAfterTheOther ==
  ASSUME NEW T, NEW s \in Seq(T), NEW t \in Seq(T)
  PROVE  /\ s \o t \in Seq(T) /\ ToSet(s \o t) = ToSet(s) \cup ToSet(t)
         /\ IsInjective(s) /\ IsInjective(t) /\ ToSet(s) \cap ToSet(t) = {} => IsInjective(s \o t)
<1> PICK u : u = s \o t OBVIOUS
<1>1. /\ Len(s) \in Nat /\ Len(t) \in Nat /\ DOMAIN s = 1..Len(s) /\ DOMAIN t = 1..Len(t)
      /\ u \in Seq(T) /\ DOMAIN u = 1..(Len(s) + Len(t))
  OBVIOUS
<1>2. \A i \in 1..Len(s) : u[i] = s[i] /\ i \in 1..(Len(s) + Len(t)) OBVIOUS
<1>3. \A i \in 1..Len(t) : u[Len(s) + i] = t[i] /\ Len(s) + i \in 1..(Len(s) + Len(t)) OBVIOUS
<1>4. \A i \in 1..(Len(s) + Len(t)) : i \in 1..Len(s) \/ (i - Len(s) \in 1..Len(t) /\ i = Len(s) + (i - Len(s)))
  BY <1>1
<1>5. ToSet(u) = ToSet(s) \cup ToSet(t)
  <2>1. \A i \in 1..(Len(s) + Len(t)) : u[i] \in ToSet(s) \cup ToSet(t)
    <3> TAKE i \in 1..(Len(s) + Len(t))
    <3>1. CASE i \in 1..Len(s) BY <1>1, <1>2, <3>1 DEF ToSet
    <3>2. CASE i \notin 1..Len(s)
      <4>1. PICK j \in 1..Len(t) : i = Len(s) + j BY <1>4, <3>2
      <4>2. u[i] = t[j] BY <1>3, <4>1
      <4>3. QED BY <1>1, <4>2 DEF ToSet
    <3>3. QED BY <3>1, <3>2
  <2>2. \A j \in 1..Len(s) : s[j] \in ToSet(u)
    <3> TAKE j \in 1..Len(s)
    <3>1. s[j] = u[j] /\ j \in DOMAIN u BY <1>1, <1>2
    <3>2. QED BY <3>1 DEF ToSet
  <2>3. \A j \in 1..Len(t) : t[j] \in ToSet(u)
    <3> TAKE j \in 1..Len(t)
    <3>1. t[j] = u[Len(s) + j] /\ Len(s) + j \in DOMAIN u BY <1>1, <1>3
    <3>2. QED BY <3>1 DEF ToSet
  <2>4. QED
    <3>1. ToSet(u) \subseteq ToSet(s) \cup ToSet(t) BY <1>1, <2>1 DEF ToSet
    <3>2. ToSet(s) \subseteq ToSet(u) BY <1>1, <2>2 DEF ToSet
    <3>3. ToSet(t) \subseteq ToSet(u) BY <1>1, <2>3 DEF ToSet
    <3>4. QED BY <3>1, <3>2, <3>3
<1>6. ASSUME IsInjective(s), IsInjective(t), ToSet(s) \cap ToSet(t) = {} PROVE IsInjective(u)
  <2> SUFFICES ASSUME NEW i \in 1..(Len(s) + Len(t)), NEW k \in 1..(Len(s) + Len(t)), u[i] = u[k] PROVE i = k
    BY <1>1 DEF IsInjective
  <2>1. CASE i \in 1..Len(s) /\ k \in 1..Len(s) BY <1>1, <1>2, <1>6, <2>1 DEF IsInjective
  <2>2. \A m \in 1..Len(s), n \in 1..Len(t) : s[m] # t[n] BY <1>1, <1>6 DEF ToSet
  <2>3. CASE i \in 1..Len(s) /\ k \notin 1..Len(s) BY <1>2, <1>3, <1>4, <2>2, <2>3
  <2>4. CASE i \notin 1..Len(s) /\ k \in 1..Len(s) BY <1>2, <1>3, <1>4, <2>2, <2>4
  <2>5. CASE i \notin 1..Len(s) /\ k \notin 1..Len(s)
    <3> PICK m \in 1..Len(t) : i = Len(s) + m BY <1>4, <2>5
    <3> PICK n \in 1..Len(t) : k = Len(s) + n BY <1>4, <2>5
    <3>1. t[m] = t[n] BY <1>3
    <3>2. m = n BY <1>1, <1>6, <3>1 DEF IsInjective
    <3>3. QED BY <3>2
  <2>6. QED BY <2>1, <2>3, <2>4, <2>5
<1>7. QED BY <1>1, <1>5, <1>6

-----------------------------------------------------------------------------
(* Types, which need that nothing is created twice.                        *)
LEMMA InitTypeOK == Init => TypeOK
<1> SUFFICES ASSUME Init PROVE TypeOK OBVIOUS
<1> USE StoreAssumption DEF Init
<1>1. AnyId \in Ids /\ (CHOOSE u \in Users : TRUE) \in Users BY DEF AnyId
<1>2. Fresh \in Locals BY <1>1 DEF Fresh, Locals, Kinds, CacheKey
<1>3. order \in Seq(Created)
  <2>1. \A i \in DOMAIN Existing : Existing[i] \in Created BY DEF Created, ToSet
  <2>2. QED BY <2>1
<1>4. pc \in [Requests -> Stages] BY DEF Stages
<1>5. QED BY <1>2, <1>3, <1>4 DEF TypeOK

(* Writing one local variable of one request.                              *)
LEMMA SetOne ==
  ASSUME TypeOK, NEW r \in Requests, NEW field \in {"stamp", "dropped", "todo", "key", "plan", "stale"},
         NEW value, Set(r, field, value),
         field = "stamp" => value \in Nat, field \in {"dropped", "todo"} => value \in Seq(Ids),
         field = "key" => value \in CacheKey, field = "plan" => value \in Nat,
         field = "stale" => value \in Seq(CacheKey)
  PROVE  /\ mine' \in [Requests -> Locals]
         /\ \A q \in Requests \ {r} : mine'[q] = mine[q]
         /\ mine'[r] = [mine[r] EXCEPT ![field] = value]
<1>1. mine' = [mine EXCEPT ![r] = [mine[r] EXCEPT ![field] = value]] BY DEF Set
<1>2. mine \in [Requests -> Locals] BY DEF TypeOK
<1>3. mine[r] \in Locals BY <1>2
<1>4. [mine[r] EXCEPT ![field] = value] \in Locals BY <1>3 DEF Locals
<1>5. QED BY <1>1, <1>2, <1>4

(* What the overviews' cache is made of.                                   *)
LEMMA CacheTypes ==
  ASSUME TypeOK
  PROVE  /\ \A id \in Ids : KeysOf(id) \in Seq(CacheKey)
         /\ \A key \in CacheKey : Uncached(key) \in Seq(Overview) /\ ToSet(Uncached(key)) \subseteq ToSet(overviews)
         /\ \A o \in ToSet(overviews) : o \in Overview
<1>1. overviews \in Seq(Overview) BY DEF TypeOK
<1>2. ASSUME NEW id \in Ids PROVE KeysOf(id) \in Seq(CacheKey)
  <2> DEFINE S == {o \in ToSet(overviews) : o.id = id}
  <2> PICK of : of = Only(overviews, S) OBVIOUS
  <2>1. of \in Seq(Overview) BY <1>1, OnlyTakes
  <2>2. \A i \in 1..Len(of) : of[i].version \in Nat
    <3>1. \A i \in 1..Len(of) : of[i] \in Overview BY <2>1
    <3>2. QED BY <3>1 DEF Overview
  <2>3. KeysOf(id) = [i \in 1..Len(of) |-> [id |-> id, version |-> of[i].version]]
    <3>1. DOMAIN of = 1..Len(of) BY <2>1
    <3>2. QED BY <3>1 DEF KeysOf
  <2>4. Len(of) \in Nat BY <2>1
  <2>5. QED BY <2>2, <2>3, <2>4 DEF CacheKey
<1>3. ASSUME NEW key \in CacheKey
      PROVE  Uncached(key) \in Seq(Overview) /\ ToSet(Uncached(key)) \subseteq ToSet(overviews)
  <2> DEFINE S == ToSet(overviews) \ {o \in ToSet(overviews) : KeyOf(o) = key}
  <2>1. Uncached(key) = Only(overviews, S) BY DEF Uncached, Without
  <2> HIDE DEF S
  <2>2. Only(overviews, S) \in Seq(Overview) BY <1>1, OnlyTakes
  <2>3. ToSet(Only(overviews, S)) = ToSet(overviews) \cap S BY <1>1, OnlyKeeps
  <2>4. QED BY <2>1, <2>2, <2>3
<1>4. \A o \in ToSet(overviews) : o \in Overview BY <1>1 DEF ToSet
<1>5. QED BY <1>2, <1>3, <1>4

(* What a request is about, by where its thread is.                        *)
Flow(r) ==
  /\ pc[r] \in {"timing", "locking"} => mine[r].kind # "leave"
  /\ pc[r] = "listing" => mine[r].kind = "leave"
  /\ pc[r] \in {"looking", "planning", "building", "inserting"} => mine[r].kind = "overview"
  /\ pc[r] = "dropping" => mine[r].kind \in {"delete", "leave"}
  /\ pc[r] = "clearing" => mine[r].kind \in {"delete", "leave"} /\ mine[r].todo # <<>>
  /\ pc[r] = "forgetting" /\ mine[r].kind # "overview" => mine[r].kind \in {"delete", "leave"} /\ mine[r].todo # <<>>
  /\ pc[r] = "closing" /\ mine[r].kind = "leave" => mine[r].todo # <<>>
  /\ pc[r] # "closing" => mine[r].dropped = <<>>

Typed == TypeOK /\ \A r \in Requests : Flow(r)

(* A request that is away from the store's lock and closes nothing.        *)
Away(r) ==
  \/ Authenticate(r) \/ ReadClock(r) \/ List(r) \/ Clear(r) \/ Forget(r) \/ Erase(r)
  \/ LookUp(r) \/ Plan(r) \/ Build(r) \/ Insert(r) \/ Trim(r) \/ Discard(r)

(* ... changes nothing of the store and is not about to close anything.    *)
Untouched(r) ==
  /\ Typed' /\ StoreSame /\ UNCHANGED <<now, version, closed>>
  /\ \A q \in Requests \ {r} : mine'[q] = mine[q] /\ pc'[q] = pc[q]
  /\ mine'[r].dropped = mine[r].dropped
  /\ pc[r] \notin {"closing", "locking"} /\ pc'[r] # "closing"
  /\ pc'[r] = "locking" => mine'[r].stamp = now

LEMMA OneFlows ==
  ASSUME Typed, NEW r \in Requests, TypeOK', Flow(r)',
         \A q \in Requests \ {r} : mine'[q] = mine[q] /\ pc'[q] = pc[q]
  PROVE  Typed'
<1>1. ASSUME NEW q \in Requests \ {r} PROVE Flow(q)'
  <2>1. mine'[q] = mine[q] /\ pc'[q] = pc[q] /\ Flow(q) BY DEF Typed
  <2>2. QED BY <2>1 DEF Flow
<1>2. QED BY <1>1 DEF Typed

LEMMA AwayIsUntouched ==
  ASSUME Typed, NEW r \in Requests, Away(r)
  PROVE  Untouched(r)
<1>1. TypeOK /\ pc \in [Requests -> Stages] /\ mine \in [Requests -> Locals] /\ mine[r] \in Locals
  BY DEF Typed, TypeOK
<1>2. /\ mine[r].user \in Users /\ mine[r].id \in Ids /\ mine[r].todo \in Seq(Ids) /\ mine[r].plan \in Nat
      /\ mine[r].key \in CacheKey /\ mine[r].stale \in Seq(CacheKey) /\ mine[r].dropped \in Seq(Ids)
      /\ mine[r].kind \in Kinds /\ Flow(r)
  BY <1>1 DEF Locals, Typed
<1>3. SUFFICES ASSUME Away(r), pc[r] \notin {"closing", "locking"}
               PROVE  /\ TypeOK' /\ StoreSame /\ UNCHANGED <<now, version, closed>>
                      /\ \A q \in Requests \ {r} : mine'[q] = mine[q] /\ pc'[q] = pc[q]
                      /\ pc'[r] # "closing" /\ Flow(r)' /\ mine'[r].dropped = mine[r].dropped
                      /\ pc'[r] = "locking" => mine'[r].stamp = now
  <2>1. pc[r] \notin {"closing", "locking"}
    BY DEF Away, Authenticate, ReadClock, List, Clear, Forget, Erase, LookUp, Plan, Build, Insert, Trim, Discard
  <2>2. QED BY <1>3, <2>1, OneFlows DEF Untouched
<1>4. ASSUME NEW stage \in Stages, Go(r, stage)
      PROVE  pc' \in [Requests -> Stages] /\ pc'[r] = stage /\ \A q \in Requests \ {r} : pc'[q] = pc[q]
  BY <1>1, <1>4 DEF Go
<1>5. ASSUME UNCHANGED pc
      PROVE  pc' \in [Requests -> Stages] /\ pc'[r] = pc[r] /\ \A q \in Requests \ {r} : pc'[q] = pc[q]
  BY <1>1, <1>5
<1>6. ASSUME NEW field \in {"stamp", "todo", "key", "plan", "stale"}, NEW value, Set(r, field, value),
             field = "stamp" => value \in Nat,
             field = "todo" => value \in Seq(Ids), field = "key" => value \in CacheKey,
             field = "plan" => value \in Nat, field = "stale" => value \in Seq(CacheKey)
      PROVE  /\ mine' \in [Requests -> Locals] /\ \A q \in Requests \ {r} : mine'[q] = mine[q]
             /\ mine'[r].dropped = mine[r].dropped /\ mine'[r].kind = mine[r].kind
             /\ mine'[r].todo = IF field = "todo" THEN value ELSE mine[r].todo
             /\ mine'[r].stamp = IF field = "stamp" THEN value ELSE mine[r].stamp
  <2>0. /\ field \in {"stamp", "dropped", "todo", "key", "plan", "stale"} /\ field # "dropped"
        /\ field \in {"dropped", "todo"} => value \in Seq(Ids)
    BY <1>6
  <2>1. mine' \in [Requests -> Locals] /\ \A q \in Requests \ {r} : mine'[q] = mine[q]
    BY <1>1, <1>6, <2>0, SetOne
  <2>2. mine'[r] = [mine[r] EXCEPT ![field] = value] BY <1>1, <1>6, <2>0, SetOne
  <2>3. QED BY <1>1, <2>1, <2>2 DEF Locals
<1>7. ASSUME UNCHANGED mine
      PROVE  /\ mine' \in [Requests -> Locals] /\ \A q \in Requests \ {r} : mine'[q] = mine[q]
             /\ mine'[r] = mine[r]
  BY <1>1, <1>7
<1>8. ASSUME StoreSame, UNCHANGED <<now, version, closed>>, accounts' \subseteq Users, overviews' \in Seq(Overview),
             mine' \in [Requests -> Locals], pc' \in [Requests -> Stages]
      PROVE  TypeOK'
  BY <1>1, <1>8 DEF TypeOK, StoreSame, Created
<1>9. now \in Nat /\ accounts \subseteq Users /\ overviews \in Seq(Overview) BY <1>1 DEF TypeOK
<1>10. CASE Authenticate(r)
  <2>1. PICK kind \in Kinds, user \in accounts, id \in Created :
          /\ mine' = [mine EXCEPT ![r].kind = kind, ![r].user = user, ![r].id = id]
          /\ Go(r, IF kind = "leave" THEN "listing" ELSE "timing")
    BY <1>10 DEF Authenticate
  <2>2. user \in Users /\ id \in Ids BY <1>9 DEF Created
  <2>3. mine' \in [Requests -> Locals] BY <1>1, <2>1, <2>2 DEF Locals
  <2>4. /\ \A q \in Requests \ {r} : mine'[q] = mine[q]
        /\ mine'[r].dropped = mine[r].dropped /\ mine'[r].kind = kind
    BY <1>1, <2>1 DEF Locals
  <2>5. pc' \in [Requests -> Stages] /\ \A q \in Requests \ {r} : pc'[q] = pc[q] BY <1>4, <2>1 DEF Stages
  <2>6. pc'[r] = IF kind = "leave" THEN "listing" ELSE "timing" BY <1>4, <2>1 DEF Stages
  <2>7. StoreSame /\ UNCHANGED <<now, accounts, version, overviews, closed>> BY <1>10 DEF Authenticate
  <2>8. TypeOK' BY <1>8, <1>9, <2>3, <2>5, <2>7
  <2>9. Flow(r)' BY <1>2, <1>3, <2>4, <2>6 DEF Flow
  <2>10. QED BY <2>4, <2>5, <2>6, <2>7, <2>8, <2>9
<1>11. CASE ReadClock(r)
  <2>1. Set(r, "stamp", now) /\ Go(r, "locking") /\ StoreSame /\ UNCHANGED <<now, accounts, version, overviews, closed>>
    BY <1>11 DEF ReadClock
  <2>2. /\ mine' \in [Requests -> Locals] /\ \A q \in Requests \ {r} : mine'[q] = mine[q]
        /\ mine'[r].dropped = mine[r].dropped /\ mine'[r].kind = mine[r].kind /\ mine'[r].stamp = now
    BY <1>6, <1>9, <2>1
  <2>3. pc' \in [Requests -> Stages] /\ pc'[r] = "locking" /\ \A q \in Requests \ {r} : pc'[q] = pc[q]
    BY <1>4, <2>1 DEF Stages
  <2>4. TypeOK' BY <1>8, <1>9, <2>1, <2>2, <2>3
  <2>5. Flow(r)' BY <1>2, <1>11, <2>2, <2>3 DEF Flow, ReadClock
  <2>6. QED BY <2>1, <2>2, <2>3, <2>4, <2>5
<1>12. CASE List(r)
  <2> DEFINE theirs == Only(order, {id \in Ids : owner[id] = mine[r].user})
  <2>1. theirs \in Seq(Ids)
    <3>1. order \in Seq(Ids) BY <1>1 DEF TypeOK, Created
    <3>2. QED BY <3>1, OnlyTakes
  <2>2. /\ Set(r, "todo", theirs) /\ Go(r, "dropping") /\ StoreSame
        /\ UNCHANGED <<now, accounts, version, overviews, closed>>
    BY <1>12 DEF List
  <2> HIDE DEF theirs
  <2>3. /\ mine' \in [Requests -> Locals] /\ \A q \in Requests \ {r} : mine'[q] = mine[q]
        /\ mine'[r].dropped = mine[r].dropped /\ mine'[r].kind = mine[r].kind
    BY <1>6, <2>1, <2>2
  <2>4. pc' \in [Requests -> Stages] /\ pc'[r] = "dropping" /\ \A q \in Requests \ {r} : pc'[q] = pc[q]
    BY <1>4, <2>2 DEF Stages
  <2>5. TypeOK' BY <1>8, <1>9, <2>2, <2>3, <2>4
  <2>6. Flow(r)' BY <1>2, <1>12, <2>3, <2>4 DEF Flow, List
  <2>7. QED BY <2>2, <2>3, <2>4, <2>5, <2>6
<1>13. CASE Clear(r)
  <2>1. /\ Set(r, "stale", KeysOf(Head(mine[r].todo))) /\ Go(r, "forgetting") /\ pc[r] = "clearing" /\ StoreSame
        /\ UNCHANGED <<now, accounts, version, overviews, closed>>
    BY <1>13 DEF Clear
  <2>2. mine[r].todo # <<>> BY <1>2, <2>1 DEF Flow
  <2>3. KeysOf(Head(mine[r].todo)) \in Seq(CacheKey) BY <1>1, <1>2, <2>2, HeadAndTail, CacheTypes
  <2>4. /\ mine' \in [Requests -> Locals] /\ \A q \in Requests \ {r} : mine'[q] = mine[q]
        /\ mine'[r].dropped = mine[r].dropped /\ mine'[r].kind = mine[r].kind /\ mine'[r].todo = mine[r].todo
    BY <1>6, <2>1, <2>3
  <2>5. pc' \in [Requests -> Stages] /\ pc'[r] = "forgetting" /\ \A q \in Requests \ {r} : pc'[q] = pc[q]
    BY <1>4, <2>1 DEF Stages
  <2>6. TypeOK' BY <1>8, <1>9, <2>1, <2>4, <2>5
  <2>7. Flow(r)' BY <1>2, <2>1, <2>4, <2>5 DEF Flow
  <2>8. QED BY <2>1, <2>4, <2>5, <2>6, <2>7
<1>14. CASE Forget(r)
  <2> DEFINE stale == mine[r].stale
             todo == mine[r].todo
  <2>1. /\ pc[r] = "forgetting" /\ StoreSame /\ UNCHANGED <<now, accounts, version, closed>>
    BY <1>14 DEF Forget
  <2>2. CASE stale = <<>> /\ mine[r].kind = "overview"
    <3>1. Go(r, "inserting") /\ UNCHANGED <<mine, overviews>> BY <1>14, <2>2 DEF Forget
    <3>2. pc' \in [Requests -> Stages] /\ pc'[r] = "inserting" /\ \A q \in Requests \ {r} : pc'[q] = pc[q]
      BY <1>4, <3>1 DEF Stages
    <3>3. TypeOK' BY <1>7, <1>8, <1>9, <2>1, <3>1, <3>2
    <3>4. Flow(r)' BY <1>2, <1>7, <2>1, <2>2, <3>1, <3>2 DEF Flow
    <3>5. QED BY <1>7, <2>1, <3>1, <3>2, <3>3, <3>4
  <2>3. CASE stale = <<>> /\ mine[r].kind # "overview"
    <3>1. Go(r, "dropping") /\ Set(r, "todo", Tail(todo)) /\ UNCHANGED overviews BY <1>14, <2>3 DEF Forget
    <3>2. todo # <<>> /\ mine[r].kind \in {"delete", "leave"} BY <1>2, <2>1, <2>3 DEF Flow
    <3>3. Tail(todo) \in Seq(Ids) BY <1>2, <3>2, HeadAndTail
    <3>4. /\ mine' \in [Requests -> Locals] /\ \A q \in Requests \ {r} : mine'[q] = mine[q]
          /\ mine'[r].dropped = mine[r].dropped /\ mine'[r].kind = mine[r].kind
      BY <1>6, <3>1, <3>3
    <3>5. pc' \in [Requests -> Stages] /\ pc'[r] = "dropping" /\ \A q \in Requests \ {r} : pc'[q] = pc[q]
      BY <1>4, <3>1 DEF Stages
    <3>6. TypeOK' BY <1>8, <1>9, <2>1, <3>1, <3>4, <3>5
    <3>7. Flow(r)' BY <1>2, <2>1, <3>2, <3>4, <3>5 DEF Flow
    <3>8. QED BY <2>1, <3>4, <3>5, <3>6, <3>7
  <2>4. CASE stale # <<>> /\ Cached(Head(stale))
    <3>1. Set(r, "stale", Tail(stale)) /\ UNCHANGED pc /\ overviews' = Uncached(Head(stale))
      BY <1>14, <2>4 DEF Forget
    <3>2. Head(stale) \in CacheKey /\ Tail(stale) \in Seq(CacheKey) BY <1>2, <2>4, HeadAndTail
    <3>3. overviews' \in Seq(Overview) BY <1>1, <3>1, <3>2, CacheTypes
    <3>4. /\ mine' \in [Requests -> Locals] /\ \A q \in Requests \ {r} : mine'[q] = mine[q]
          /\ mine'[r].dropped = mine[r].dropped /\ mine'[r].kind = mine[r].kind /\ mine'[r].todo = mine[r].todo
      BY <1>6, <3>1, <3>2
    <3>5. TypeOK' BY <1>5, <1>8, <1>9, <2>1, <3>1, <3>3, <3>4
    <3>6. Flow(r)' BY <1>2, <1>5, <2>1, <3>1, <3>4 DEF Flow
    <3>7. QED BY <1>5, <2>1, <3>1, <3>4, <3>5, <3>6
  <2>5. CASE stale # <<>> /\ ~Cached(Head(stale))
    <3>1. Go(r, "raised") /\ UNCHANGED <<mine, overviews>> BY <1>14, <2>5 DEF Forget
    <3>2. pc' \in [Requests -> Stages] /\ pc'[r] = "raised" /\ \A q \in Requests \ {r} : pc'[q] = pc[q]
      BY <1>4, <3>1 DEF Stages
    <3>3. TypeOK' BY <1>7, <1>8, <1>9, <2>1, <3>1, <3>2
    <3>4. Flow(r)' BY <1>2, <1>7, <2>1, <3>1, <3>2 DEF Flow
    <3>5. QED BY <1>7, <2>1, <3>1, <3>2, <3>3, <3>4
  <2>6. QED BY <2>2, <2>3, <2>4, <2>5
<1>15. CASE Erase(r)
  <2>1. /\ accounts' \subseteq Users /\ Go(r, "done") /\ StoreSame /\ UNCHANGED <<now, version, overviews, closed, mine>>
        /\ pc[r] = "erasing"
    BY <1>9, <1>15 DEF Erase
  <2>2. pc' \in [Requests -> Stages] /\ pc'[r] = "done" /\ \A q \in Requests \ {r} : pc'[q] = pc[q]
    BY <1>4, <2>1 DEF Stages
  <2>3. TypeOK' BY <1>7, <1>8, <1>9, <2>1, <2>2
  <2>4. Flow(r)' BY <1>2, <1>7, <2>1, <2>2 DEF Flow
  <2>5. QED BY <1>7, <2>1, <2>2, <2>3, <2>4
<1>16. CASE LookUp(r)
  <2> DEFINE stage == IF Cached(KeyNow(mine[r].id)) THEN "done" ELSE "planning"
  <2>1. /\ Set(r, "key", KeyNow(mine[r].id)) /\ Go(r, stage) /\ pc[r] = "looking" /\ StoreSame
        /\ UNCHANGED <<now, accounts, version, overviews, closed>>
    BY <1>16 DEF LookUp
  <2>2. KeyNow(mine[r].id) \in CacheKey BY <1>1, <1>2 DEF KeyNow, CacheKey, TypeOK
  <2>3. /\ mine' \in [Requests -> Locals] /\ \A q \in Requests \ {r} : mine'[q] = mine[q]
        /\ mine'[r].dropped = mine[r].dropped /\ mine'[r].kind = mine[r].kind
    BY <1>6, <2>1, <2>2
  <2>4. pc' \in [Requests -> Stages] /\ pc'[r] = stage /\ \A q \in Requests \ {r} : pc'[q] = pc[q]
    BY <1>4, <2>1 DEF Stages
  <2>5. stage \in {"done", "planning"} OBVIOUS
  <2> HIDE DEF stage
  <2>6. TypeOK' BY <1>8, <1>9, <2>1, <2>3, <2>4
  <2>7. Flow(r)' BY <1>2, <2>1, <2>3, <2>4, <2>5 DEF Flow
  <2>8. QED BY <2>1, <2>3, <2>4, <2>5, <2>6, <2>7
<1>17. CASE Plan(r)
  <2>1. /\ Set(r, "plan", version[mine[r].id]) /\ Go(r, "building") /\ pc[r] = "planning" /\ StoreSame
        /\ UNCHANGED <<now, accounts, version, overviews, closed>>
    BY <1>17 DEF Plan
  <2>2. version[mine[r].id] \in Nat BY <1>1, <1>2 DEF TypeOK
  <2>3. /\ mine' \in [Requests -> Locals] /\ \A q \in Requests \ {r} : mine'[q] = mine[q]
        /\ mine'[r].dropped = mine[r].dropped /\ mine'[r].kind = mine[r].kind
    BY <1>6, <2>1, <2>2
  <2>4. pc' \in [Requests -> Stages] /\ pc'[r] = "building" /\ \A q \in Requests \ {r} : pc'[q] = pc[q]
    BY <1>4, <2>1 DEF Stages
  <2>5. TypeOK' BY <1>8, <1>9, <2>1, <2>3, <2>4
  <2>6. Flow(r)' BY <1>2, <2>1, <2>3, <2>4 DEF Flow
  <2>7. QED BY <2>1, <2>3, <2>4, <2>5, <2>6
<1>18. CASE Build(r)
  <2>1. pc[r] = "building" /\ StoreSame /\ UNCHANGED <<now, accounts, version, overviews, closed>> BY <1>18 DEF Build
  <2>2. CASE Go(r, "raised") /\ UNCHANGED mine
    <3>1. pc' \in [Requests -> Stages] /\ pc'[r] = "raised" /\ \A q \in Requests \ {r} : pc'[q] = pc[q]
      BY <1>4, <2>2 DEF Stages
    <3>2. TypeOK' BY <1>7, <1>8, <1>9, <2>1, <2>2, <3>1
    <3>3. Flow(r)' BY <1>2, <1>7, <2>1, <2>2, <3>1 DEF Flow
    <3>4. QED BY <1>7, <2>1, <2>2, <3>1, <3>2, <3>3
  <2>3. CASE Go(r, "forgetting") /\ Set(r, "stale", KeysOf(mine[r].id))
    <3>1. KeysOf(mine[r].id) \in Seq(CacheKey) BY <1>1, <1>2, CacheTypes
    <3>2. /\ mine' \in [Requests -> Locals] /\ \A q \in Requests \ {r} : mine'[q] = mine[q]
          /\ mine'[r].dropped = mine[r].dropped /\ mine'[r].kind = mine[r].kind
      BY <1>6, <2>3, <3>1
    <3>3. pc' \in [Requests -> Stages] /\ pc'[r] = "forgetting" /\ \A q \in Requests \ {r} : pc'[q] = pc[q]
      BY <1>4, <2>3 DEF Stages
    <3>4. TypeOK' BY <1>8, <1>9, <2>1, <3>2, <3>3
    <3>5. Flow(r)' BY <1>2, <2>1, <3>2, <3>3 DEF Flow
    <3>6. QED BY <2>1, <3>2, <3>3, <3>4, <3>5
  <2>4. QED BY <1>18, <2>2, <2>3 DEF Build
<1>19. CASE Insert(r)
  <2> DEFINE key == mine[r].key
             new == [id |-> key.id, version |-> key.version, of |-> mine[r].plan]
  <2>1. /\ Go(r, "trimming") /\ UNCHANGED mine /\ pc[r] = "inserting" /\ StoreSame
        /\ UNCHANGED <<now, accounts, version, closed>>
        /\ overviews' = IF Cached(key)
                        THEN [i \in DOMAIN overviews |-> IF KeyOf(overviews[i]) = key THEN new ELSE overviews[i]]
                        ELSE Append(overviews, new)
    BY <1>19 DEF Insert
  <2>2. new \in Overview BY <1>2 DEF Overview, CacheKey
  <2> HIDE DEF new
  <2>3. overviews' \in Seq(Overview)
    <3>1. DOMAIN overviews = 1..Len(overviews) /\ Len(overviews) \in Nat BY <1>9
    <3>2. \A i \in 1..Len(overviews) : overviews[i] \in Overview BY <1>9
    <3>3. QED BY <1>9, <2>1, <2>2, <3>1, <3>2
  <2>4. pc' \in [Requests -> Stages] /\ pc'[r] = "trimming" /\ \A q \in Requests \ {r} : pc'[q] = pc[q]
    BY <1>4, <2>1 DEF Stages
  <2>5. TypeOK' BY <1>7, <1>8, <1>9, <2>1, <2>3, <2>4
  <2>6. Flow(r)' BY <1>2, <1>7, <2>1, <2>4 DEF Flow
  <2>7. QED BY <1>7, <2>1, <2>4, <2>5, <2>6
<1>20. CASE Trim(r)
  <2>1. pc[r] = "trimming" /\ StoreSame /\ UNCHANGED <<now, accounts, version, overviews, closed>> BY <1>20 DEF Trim
  <2>2. CASE Overfull
    <3>1. Go(r, "discarding") /\ Set(r, "key", KeyOf(Head(overviews))) BY <1>20, <2>2 DEF Trim
    <3>2. overviews # <<>>
      <4>1. Len(overviews) > CacheCap /\ CacheCap \in Nat BY <2>2, StoreAssumption DEF Overfull
      <4>2. QED BY <4>1
    <3>3. KeyOf(Head(overviews)) \in CacheKey
      <4>1. Head(overviews) \in Overview BY <1>9, <3>2, HeadAndTail
      <4>2. QED BY <4>1 DEF KeyOf, Overview, CacheKey
    <3>4. /\ mine' \in [Requests -> Locals] /\ \A q \in Requests \ {r} : mine'[q] = mine[q]
          /\ mine'[r].dropped = mine[r].dropped /\ mine'[r].kind = mine[r].kind
      BY <1>6, <3>1, <3>3
    <3>5. pc' \in [Requests -> Stages] /\ pc'[r] = "discarding" /\ \A q \in Requests \ {r} : pc'[q] = pc[q]
      BY <1>4, <3>1 DEF Stages
    <3>6. TypeOK' BY <1>8, <1>9, <2>1, <3>4, <3>5
    <3>7. Flow(r)' BY <1>2, <2>1, <3>4, <3>5 DEF Flow
    <3>8. QED BY <2>1, <3>4, <3>5, <3>6, <3>7
  <2>3. CASE ~Overfull
    <3>1. Go(r, "done") /\ UNCHANGED mine BY <1>20, <2>3 DEF Trim
    <3>2. pc' \in [Requests -> Stages] /\ pc'[r] = "done" /\ \A q \in Requests \ {r} : pc'[q] = pc[q]
      BY <1>4, <3>1 DEF Stages
    <3>3. TypeOK' BY <1>7, <1>8, <1>9, <2>1, <3>1, <3>2
    <3>4. Flow(r)' BY <1>2, <1>7, <2>1, <3>1, <3>2 DEF Flow
    <3>5. QED BY <1>7, <2>1, <3>1, <3>2, <3>3, <3>4
  <2>4. QED BY <2>2, <2>3
<1>21. CASE Discard(r)
  <2>1. /\ pc[r] = "discarding" /\ StoreSame /\ UNCHANGED <<now, accounts, version, closed, mine>>
        /\ overviews' = Uncached(mine[r].key) \/ overviews' = overviews
    BY <1>21 DEF Discard
  <2>2. PICK stage \in {"trimming", "raised"} : Go(r, stage) BY <1>21 DEF Discard
  <2>3. pc' \in [Requests -> Stages] /\ pc'[r] = stage /\ \A q \in Requests \ {r} : pc'[q] = pc[q]
    BY <1>4, <2>2 DEF Stages
  <2>4. overviews' \in Seq(Overview) BY <1>1, <1>2, <1>9, <2>1, CacheTypes
  <2>5. TypeOK' BY <1>7, <1>8, <1>9, <2>1, <2>3, <2>4
  <2>6. Flow(r)' BY <1>2, <1>7, <2>1, <2>3 DEF Flow
  <2>7. QED BY <1>7, <2>1, <2>3, <2>5, <2>6
<1>22. QED
  BY <1>3, <1>10, <1>11, <1>12, <1>13, <1>14, <1>15, <1>16, <1>17, <1>18, <1>19, <1>20, <1>21 DEF Away

-----------------------------------------------------------------------------
(* Every session that was created is in one place: with the store, with    *)
(* one thread that is going to close it, or closed.                        *)
Dropping(r, id) == id \in ToSet(mine[r].dropped)

InOnePlace(id) ==
  /\ closed[id] <= 1
  /\ closed[id] = 1 => id \notin ToSet(order) /\ \A r \in Requests : ~Dropping(r, id)
  /\ id \in ToSet(order) => \A r \in Requests : ~Dropping(r, id)
  /\ \A q, r \in Requests : Dropping(q, id) /\ Dropping(r, id) => q = r
  /\ owner[id] = Nobody <=>
       closed[id] = 0 /\ id \notin ToSet(order) /\ \A r \in Requests : ~Dropping(r, id)

Held ==
  /\ \A r \in Requests : IsInjective(mine[r].dropped)
  /\ \A id \in Ids : InOnePlace(id)

(* How a session may change places in one step of r.                       *)
Stays(r, id) ==
  /\ id \in ToSet(order') <=> id \in ToSet(order)
  /\ Dropping(r, id)' <=> Dropping(r, id)
  /\ closed'[id] = closed[id] /\ owner'[id] = owner[id]
IsTaken(r, id) ==
  /\ id \in ToSet(order) /\ id \notin ToSet(order') /\ Dropping(r, id)'
  /\ closed'[id] = closed[id] /\ owner'[id] = owner[id]
IsClosed(r, id) ==
  /\ Dropping(r, id) /\ ~Dropping(r, id)' /\ id \notin ToSet(order')
  /\ closed'[id] = closed[id] + 1 /\ owner'[id] = owner[id]
IsBorn(r, id) ==
  /\ owner[id] = Nobody /\ owner'[id] # Nobody /\ closed'[id] = closed[id]
  /\ id \in ToSet(order') <=> ~Dropping(r, id)'

LEMMA PlacesChange ==
  ASSUME TypeOK, Held, NEW r \in Requests, IsInjective(mine'[r].dropped),
         \A q \in Requests \ {r} : mine'[q] = mine[q],
         \A id \in Ids : Stays(r, id) \/ IsTaken(r, id) \/ IsClosed(r, id) \/ IsBorn(r, id)
  PROVE  Held'
<1>1. \A q \in Requests : IsInjective(mine'[q].dropped) BY DEF Held
<1>2. ASSUME NEW id \in Ids PROVE InOnePlace(id)'
  <2>1. InOnePlace(id) /\ closed[id] \in Nat BY DEF Held, TypeOK
  <2>2. \A q \in Requests \ {r} : Dropping(q, id)' <=> Dropping(q, id) BY DEF Dropping
  <2>3. CASE Stays(r, id)
    <3>1. \A q \in Requests : Dropping(q, id)' <=> Dropping(q, id) BY <2>2, <2>3 DEF Stays
    <3>2. QED BY <2>1, <2>3, <3>1 DEF Stays, InOnePlace
  <2>4. CASE IsTaken(r, id)
    <3>1. \A q \in Requests : ~Dropping(q, id) BY <2>1, <2>4 DEF IsTaken, InOnePlace
    <3>2. closed[id] = 0 BY <2>1, <2>4 DEF IsTaken, InOnePlace
    <3>3. QED BY <2>1, <2>2, <2>4, <3>1, <3>2 DEF IsTaken, InOnePlace
  <2>5. CASE IsClosed(r, id)
    <3>1. \A q \in Requests \ {r} : ~Dropping(q, id) BY <2>1, <2>5 DEF IsClosed, InOnePlace
    <3>2. closed[id] = 0 BY <2>1, <2>5 DEF IsClosed, InOnePlace
    <3>3. QED BY <2>1, <2>2, <2>5, <3>1, <3>2 DEF IsClosed, InOnePlace
  <2>6. CASE IsBorn(r, id)
    <3>1. (\A q \in Requests : ~Dropping(q, id)) /\ closed[id] = 0 /\ id \notin ToSet(order)
      BY <2>1, <2>6 DEF IsBorn, InOnePlace
    <3>2. QED BY <2>1, <2>2, <2>6, <3>1 DEF IsBorn, InOnePlace
  <2>7. QED BY <2>3, <2>4, <2>5, <2>6
<1>3. QED BY <1>1, <1>2 DEF Held

-----------------------------------------------------------------------------
(* The store's list is in the order in which its sessions were handed out, *)
(* and a clock that was read before the lock is not much behind.           *)
Sorted(s, at) == \A i, j \in 1..Len(s) : i < j => at[s[i]] <= at[s[j]]

Recency ==
  /\ Sorted(order, served)
  /\ \A id \in Ids : /\ lastUsed[id] <= served[id] /\ served[id] <= now
                     /\ served[id] <= lastUsed[id] + Dawdle
  /\ \A r \in Requests : pc[r] = "locking" => mine[r].stamp <= now /\ now <= mine[r].stamp + Dawdle

StoreInv == Typed /\ Held /\ Recency

(* What may be dropped, and handed out, in a step of r under the lock.     *)
DropIsDue(r) ==
  /\ \A id \in ToSet(order) \ ToSet(order') :
       \/ now - served[id] > Ttl - Dawdle
       \/ /\ Len(order') = MaxSessions
          /\ \A other \in ToSet(order) \cap ToSet(order') : served[other] >= served[id]
  /\ \A id \in ToSet(order) : mine[r].id = id /\ pc'[r] \in {"done", "looking", "dropping"}
       => now - served[id] <= Ttl + Dawdle

(* The store without some of its sessions.                                 *)
LEMMA StoreWithout ==
  ASSUME TypeOK, NEW gone, Sorted(order, served)
  PROVE  LET rest == Without(order, gone)
         IN  /\ rest \in Seq(Created) /\ rest \in Seq(Ids) /\ Len(rest) \in Nat /\ Len(rest) <= Len(order)
             /\ ToSet(rest) = ToSet(order) \ gone /\ IsInjective(rest)
             /\ (\E x \in ToSet(order) : x \in gone) => Len(rest) < Len(order)
             /\ Sorted(rest, served)
<1> DEFINE S == ToSet(order) \ gone
<1>a. PICK rest : rest = Only(order, S) OBVIOUS
<1>1. order \in Seq(Created) /\ order \in Seq(Ids) /\ IsInjective(order) BY DEF TypeOK, Created
<1>2. Without(order, gone) = rest BY <1>a DEF Without
<1>3. rest \in Seq(Created) BY <1>a, <1>1, OnlyTakes
<1>4. rest \in Seq(Ids) /\ Len(rest) \in Nat /\ Len(rest) <= Len(order) BY <1>a, <1>1, OnlyTakes
<1>5. ToSet(rest) = ToSet(order) \cap S /\ IsInjective(rest) BY <1>a, <1>1, OnlyKeeps
<1>6. ASSUME NEW x \in ToSet(order), x \in gone PROVE Len(rest) < Len(order)
  <2>1. PICK i \in 1..Len(order) : order[i] = x BY <1>1 DEF ToSet
  <2>2. order[i] \notin S BY <1>6, <2>1
  <2>3. QED BY <1>1, <1>a, <2>2, OnlyTakes
<1>7. Sorted(rest, served)
  <2>1. PICK f \in [1..Len(rest) -> 1..Len(order)] :
          Increasing(f) /\ \A n \in 1..Len(rest) : rest[n] = order[f[n]]
    <3>1. order \in Seq(Ids) BY <1>1
    <3> HIDE DEF S
    <3>2. \E f \in [1..Len(rest) -> 1..Len(order)] :
            Increasing(f) /\ \A n \in 1..Len(rest) : rest[n] = order[f[n]] /\ order[f[n]] \in S
      <4>1. \E f \in [1..Len(Only(order, S)) -> 1..Len(order)] :
              /\ Increasing(f)
              /\ \A n \in 1..Len(Only(order, S)) :
                   Only(order, S)[n] = order[f[n]] /\ order[f[n]] \in S
        BY <3>1, OnlyTakes
      <4>2. QED BY <1>a, <4>1
    <3>3. QED BY <3>2
  <2>2. \A i, j \in 1..Len(rest) : i < j => f[i] < f[j] BY <2>1 DEF Increasing
  <2>3. SUFFICES ASSUME NEW i \in 1..Len(rest), NEW j \in 1..Len(rest), i < j
                 PROVE  served[rest[i]] <= served[rest[j]]
    BY DEF Sorted
  <2>4. f[i] \in 1..Len(order) /\ f[j] \in 1..Len(order) /\ f[i] < f[j] BY <2>2, <2>3
  <2>5. served[order[f[i]]] <= served[order[f[j]]] BY <2>4 DEF Sorted
  <2>6. QED BY <2>1, <2>5
<1>8. QED BY <1>2, <1>3, <1>4, <1>5, <1>6, <1>7

(* Writing down what was dropped.                                          *)
LEMMA DroppedSet ==
  ASSUME Typed, NEW r \in Requests, NEW value \in Seq(Ids), Set(r, "dropped", value)
  PROVE  /\ mine' \in [Requests -> Locals] /\ \A q \in Requests \ {r} : mine'[q] = mine[q]
         /\ mine'[r].dropped = value /\ mine'[r].kind = mine[r].kind /\ mine'[r].todo = mine[r].todo
         /\ mine'[r].stamp = mine[r].stamp /\ mine'[r].id = mine[r].id
<1>1. TypeOK /\ mine[r] \in Locals BY DEF Typed, TypeOK
<1>2. /\ mine' \in [Requests -> Locals] /\ \A q \in Requests \ {r} : mine'[q] = mine[q]
      /\ mine'[r] = [mine[r] EXCEPT !["dropped"] = value]
  BY <1>1, SetOne
<1>3. QED BY <1>1, <1>2 DEF Locals

LEMMA GoOne ==
  ASSUME TypeOK, NEW r \in Requests, NEW stage \in Stages, Go(r, stage)
  PROVE  pc' \in [Requests -> Stages] /\ pc'[r] = stage /\ \A q \in Requests \ {r} : pc'[q] = pc[q]
BY DEF TypeOK, Go

(* A session is taken from the store by the thread that will close it.     *)
LEMMA TakenToClose ==
  ASSUME StoreInv, NEW r \in Requests, pc[r] # "closing", NEW id \in ToSet(order),
         order' = Without(order, {id}), Set(r, "dropped", <<id>>), Go(r, "closing"),
         mine[r].kind = "leave" => mine[r].todo # <<>>,
         UNCHANGED <<now, accounts, version, overviews, closed, lastUsed, owner, served>>
  PROVE  StoreInv'
<1>1. /\ Typed /\ TypeOK /\ Held /\ Recency /\ id \in Ids /\ order \in Seq(Ids) /\ Flow(r)
      /\ mine[r] \in Locals /\ owner \in [Ids -> Users \cup {Nobody}]
  <2>1. Typed /\ TypeOK /\ Held /\ Recency /\ Flow(r) BY DEF StoreInv, Typed
  <2>2. order \in Seq(Ids) /\ mine[r] \in Locals /\ owner \in [Ids -> Users \cup {Nobody}]
    BY <2>1 DEF TypeOK, Created
  <2>3. id \in Ids BY <2>2 DEF ToSet
  <2>4. QED BY <2>1, <2>2, <2>3
<1>2. <<id>> \in Seq(Ids) /\ ToSet(<<id>>) = {id} /\ IsInjective(<<id>>)
  <2>1. <<id>> \in Seq(Ids) /\ DOMAIN <<id>> = {1} /\ <<id>>[1] = id BY <1>1
  <2>2. QED BY <2>1 DEF ToSet, IsInjective
<1>3. /\ mine' \in [Requests -> Locals] /\ \A q \in Requests \ {r} : mine'[q] = mine[q]
      /\ mine'[r].dropped = <<id>> /\ mine'[r].kind = mine[r].kind /\ mine'[r].todo = mine[r].todo
  BY <1>1, <1>2, DroppedSet
<1>4. pc' \in [Requests -> Stages] /\ pc'[r] = "closing" /\ \A q \in Requests \ {r} : pc'[q] = pc[q]
  BY <1>1, GoOne DEF Stages
<1>5. /\ order' \in Seq(Created) /\ order' \in Seq(Ids) /\ ToSet(order') = ToSet(order) \ {id} /\ IsInjective(order')
      /\ Len(order') <= Len(order) /\ Len(order') \in Nat /\ Sorted(order', served)
  BY <1>1, StoreWithout DEF Recency
<1>6. TypeOK'
  <2>1. Len(order') <= MaxSessions BY <1>1, <1>5, StoreAssumption DEF TypeOK
  <2>2. QED BY <1>1, <1>3, <1>4, <1>5, <2>1 DEF TypeOK, Created
<1>7. Flow(r)' BY <1>3, <1>4 DEF Flow
<1>8. Typed' BY <1>1, <1>3, <1>4, <1>6, <1>7, OneFlows
<1>9. Held'
  <2>1. ToSet(mine[r].dropped) = {}
    <3>1. mine[r].dropped = <<>> BY <1>1 DEF Flow
    <3>2. QED BY <3>1 DEF ToSet
  <2>2. IsInjective(mine'[r].dropped) /\ ToSet(mine'[r].dropped) = {id} BY <1>2, <1>3
  <2>3. ASSUME NEW other \in Ids PROVE Stays(r, other) \/ IsTaken(r, other)
    BY <1>5, <2>1, <2>2 DEF Stays, IsTaken, Dropping
  <2>4. QED BY <1>1, <1>3, <2>2, <2>3, PlacesChange
<1>10. Recency' BY <1>1, <1>3, <1>4, <1>5 DEF Recency, Sorted
<1>11. QED BY <1>8, <1>9, <1>10 DEF StoreInv

(* Steps that leave the store as it is.                                    *)
LEMMA StoreLeftAlone ==
  ASSUME StoreInv, NEW r \in Requests, Typed', StoreSame, UNCHANGED <<now, closed>>,
         \A q \in Requests \ {r} : mine'[q] = mine[q] /\ pc'[q] = pc[q],
         mine'[r].dropped = mine[r].dropped, pc'[r] = "locking" => mine'[r].stamp = now
  PROVE  StoreInv'
<1>1. Typed /\ TypeOK /\ Held /\ Recency /\ now \in Nat /\ Dawdle \in Nat
  BY StoreAssumption DEF StoreInv, Typed, TypeOK
<1>2. Held'
  <2>1. IsInjective(mine'[r].dropped) BY <1>1 DEF Held
  <2>2. \A id \in Ids : Stays(r, id) BY DEF Stays, StoreSame, Dropping
  <2>3. QED BY <1>1, <2>1, <2>2, PlacesChange
<1>3. Recency'
  <2>1. \A q \in Requests : pc'[q] = "locking" => mine'[q].stamp <= now /\ now <= mine'[q].stamp + Dawdle
    <3> TAKE q \in Requests
    <3>1. CASE q = r BY <1>1, <3>1
    <3>2. CASE q # r BY <1>1, <3>2 DEF Recency
    <3>3. QED BY <3>1, <3>2
  <2>2. QED BY <1>1, <2>1 DEF Recency, StoreSame, Sorted
<1>4. QED BY <1>2, <1>3 DEF StoreInv

(* One connection closed, or none left to close.                           *)
LEMMA CloseStep ==
  ASSUME StoreInv, NEW r \in Requests, Close(r)
  PROVE  StoreInv'
<1> DEFINE dropped == mine[r].dropped
<1>1. Typed /\ TypeOK /\ Held /\ Recency /\ Flow(r) BY DEF StoreInv, Typed
<1>2. /\ mine \in [Requests -> Locals] /\ mine[r] \in Locals /\ dropped \in Seq(Ids)
      /\ pc[r] = "closing" /\ closed \in [Ids -> Nat] /\ pc \in [Requests -> Stages] /\ mine[r].kind \in Kinds
  BY <1>1 DEF TypeOK, Locals, Close
<1>3. UNCHANGED <<now, accounts, version, overviews>> /\ StoreSame BY DEF Close
<1>4. CASE dropped = <<>>
  <2> DEFINE stage == CASE mine[r].kind = "create" -> "done"
                        [] mine[r].kind \in {"open", "overview"} -> "gone"
                        [] mine[r].kind = "delete" /\ mine[r].todo = <<>> -> "gone"
                        [] OTHER -> "clearing"
  <2>1. Go(r, stage) /\ UNCHANGED <<mine, closed>> BY <1>4 DEF Close
  <2>2. stage \in {"done", "gone", "clearing"} BY DEF Stages
  <2>3. stage = "clearing" => mine[r].kind \in {"delete", "leave"} /\ mine[r].todo # <<>>
    BY <1>1, <1>2 DEF Flow, Kinds
  <2> HIDE DEF stage
  <2>4. stage \in Stages BY <2>2 DEF Stages
  <2>5. pc' \in [Requests -> Stages] /\ pc'[r] = stage /\ \A q \in Requests \ {r} : pc'[q] = pc[q]
    BY <1>1, <2>1, <2>4, GoOne
  <2>6. TypeOK' BY <1>1, <1>3, <2>1, <2>5 DEF TypeOK, StoreSame, Created
  <2>7. Flow(r)' BY <1>1, <1>4, <2>1, <2>2, <2>3, <2>5 DEF Flow
  <2>8. Typed' BY <1>1, <2>1, <2>5, <2>6, <2>7, OneFlows
  <2>9. QED BY <1>3, <2>1, <2>2, <2>5, <2>8, StoreLeftAlone
<1>5. CASE dropped # <<>>
  <2> PICK id : id = Head(dropped) OBVIOUS
  <2>1. closed' = [closed EXCEPT ![id] = @ + 1] /\ Set(r, "dropped", Tail(dropped)) /\ UNCHANGED pc
    BY <1>5 DEF Close
  <2>2. IsInjective(dropped) BY <1>1 DEF Held
  <2>3. /\ id \in Ids /\ Tail(dropped) \in Seq(Ids) /\ id \in ToSet(dropped)
        /\ ToSet(dropped) = ToSet(Tail(dropped)) \cup {id}
        /\ IsInjective(Tail(dropped)) /\ id \notin ToSet(Tail(dropped))
    BY <1>2, <1>5, <2>2, HeadAndTail
  <2>4. /\ mine' \in [Requests -> Locals] /\ \A q \in Requests \ {r} : mine'[q] = mine[q]
        /\ mine'[r].dropped = Tail(dropped) /\ mine'[r].kind = mine[r].kind /\ mine'[r].todo = mine[r].todo
    BY <1>1, <2>1, <2>3, DroppedSet
  <2>5. closed' \in [Ids -> Nat] /\ closed'[id] = closed[id] + 1 /\ \A other \in Ids \ {id} : closed'[other] = closed[other]
    BY <1>2, <2>1, <2>3
  <2>6. TypeOK' BY <1>1, <1>3, <2>1, <2>4, <2>5 DEF TypeOK, StoreSame, Created
  <2>7. Flow(r)' BY <1>1, <1>2, <2>1, <2>4 DEF Flow
  <2>8. Typed' BY <1>1, <2>1, <2>4, <2>6, <2>7, OneFlows
  <2>9. Held'
    <3>1. IsInjective(mine'[r].dropped) BY <2>3, <2>4
    <3>2. id \notin ToSet(order)
      <4>1. InOnePlace(id) /\ Dropping(r, id) BY <1>1, <2>3 DEF Held, Dropping
      <4>2. QED BY <4>1 DEF InOnePlace
    <3>3. IsClosed(r, id) BY <1>3, <2>3, <2>4, <2>5, <3>2 DEF IsClosed, Dropping, StoreSame
    <3>4. \A other \in Ids \ {id} : Stays(r, other)
      BY <1>3, <2>3, <2>4, <2>5 DEF Stays, Dropping, StoreSame
    <3>5. QED BY <1>1, <2>4, <3>1, <3>3, <3>4, PlacesChange
  <2>10. Recency' BY <1>1, <1>2, <1>3, <2>1, <2>4 DEF Recency, Sorted, StoreSame
  <2>11. QED BY <2>8, <2>9, <2>10 DEF StoreInv
<1>6. QED BY <1>4, <1>5

(* SessionStore.delete for one of the sessions of a deletion.              *)
LEMMA DropStep ==
  ASSUME StoreInv, NEW r \in Requests, Drop(r)
  PROVE  StoreInv'
<1> DEFINE todo == mine[r].todo
<1>1. Typed /\ TypeOK /\ Flow(r) /\ pc[r] = "dropping" /\ mine[r].kind \in {"delete", "leave"} /\ pc \in [Requests -> Stages]
  BY DEF StoreInv, Typed, TypeOK, Drop, Flow
<1>2. UNCHANGED <<now, accounts, version, overviews, closed, lastUsed, owner, served>> BY DEF Drop
<1>3. CASE todo # <<>> /\ Head(todo) \in ToSet(order)
  <2>1. order' = Without(order, {Head(todo)}) /\ Set(r, "dropped", <<Head(todo)>>) /\ Go(r, "closing")
    BY <1>3 DEF Drop
  <2> PICK id : id = Head(todo) OBVIOUS
  <2>2. QED BY <1>1, <1>2, <1>3, <2>1, TakenToClose
<1>4. CASE ~(todo # <<>> /\ Head(todo) \in ToSet(order))
  <2> DEFINE stage == IF todo # <<>> THEN "clearing" ELSE IF mine[r].kind = "leave" THEN "erasing" ELSE "done"
  <2>1. Go(r, stage) /\ UNCHANGED <<order, mine>> BY <1>4 DEF Drop
  <2>2. stage \in {"clearing", "erasing", "done"} /\ (stage = "clearing" => todo # <<>>) OBVIOUS
  <2> HIDE DEF stage
  <2>3. stage \in Stages BY <2>2 DEF Stages
  <2>4. pc' \in [Requests -> Stages] /\ pc'[r] = stage /\ \A q \in Requests \ {r} : pc'[q] = pc[q]
    BY <1>1, <2>1, <2>3, GoOne
  <2>5. TypeOK' BY <1>1, <1>2, <2>1, <2>4 DEF TypeOK, Created
  <2>6. Flow(r)' BY <1>1, <2>1, <2>2, <2>4 DEF Flow
  <2>7. Typed' BY <1>1, <2>1, <2>4, <2>5, <2>6, OneFlows
  <2>8. QED BY <1>2, <2>1, <2>2, <2>4, <2>7, StoreLeftAlone DEF StoreSame
<1>5. QED BY <1>3, <1>4

-----------------------------------------------------------------------------
(* What is handed out goes to the end of the list, with the time.          *)
LEMMA NewestLast ==
  ASSUME TypeOK, \A other \in Ids : served[other] <= now, NEW id \in Ids, NEW s \in Seq(Ids), id \notin ToSet(s),
         Sorted(s, served), served' = [served EXCEPT ![id] = now]
  PROVE  Sorted(Append(s, id), served')
<1> PICK t : t = Append(s, id) OBVIOUS
<1>1. /\ Len(t) = Len(s) + 1 /\ Len(s) \in Nat /\ DOMAIN s = 1..Len(s)
      /\ t[Len(s) + 1] = id /\ \A i \in 1..Len(s) : t[i] = s[i] /\ s[i] \in Ids
  OBVIOUS
<1>2. /\ now \in Nat /\ served \in [Ids -> Nat] /\ served'[id] = now
      /\ \A other \in Ids \ {id} : served'[other] = served[other]
  BY DEF TypeOK
<1>3. \A i \in 1..Len(s) : s[i] # id /\ served'[s[i]] = served[s[i]] /\ served[s[i]] <= now
  BY <1>1, <1>2 DEF ToSet
<1>4. SUFFICES ASSUME NEW i \in 1..Len(t), NEW j \in 1..Len(t), i < j PROVE served'[t[i]] <= served'[t[j]]
  BY DEF Sorted
<1>5. i \in 1..Len(s) /\ (j \in 1..Len(s) \/ j = Len(s) + 1) BY <1>1, <1>4
<1>6. CASE j \in 1..Len(s)
  <2>1. served[s[i]] <= served[s[j]] BY <1>4, <1>5, <1>6 DEF Sorted
  <2>2. QED BY <1>1, <1>3, <1>5, <1>6, <2>1
<1>7. CASE j = Len(s) + 1 BY <1>1, <1>2, <1>3, <1>5, <1>7
<1>8. QED BY <1>5, <1>6, <1>7

LEMMA HandedOut ==
  ASSUME StoreInv, NEW r \in Requests, pc[r] = "locking", pc'[r] # "locking", NEW id \in Ids,
         \A q \in Requests \ {r} : mine'[q] = mine[q] /\ pc'[q] = pc[q], UNCHANGED now,
         lastUsed' = [lastUsed EXCEPT ![id] = mine[r].stamp], served' = [served EXCEPT ![id] = now],
         Sorted(order', served')
  PROVE  Recency'
<1>1. /\ Recency /\ now \in Nat /\ Dawdle \in Nat /\ mine[r].stamp \in Nat
      /\ lastUsed \in [Ids -> Nat] /\ served \in [Ids -> Nat]
  BY StoreAssumption DEF StoreInv, Typed, TypeOK, Locals
<1>2. /\ lastUsed'[id] = mine[r].stamp /\ served'[id] = now
      /\ \A other \in Ids \ {id} : lastUsed'[other] = lastUsed[other] /\ served'[other] = served[other]
  BY <1>1
<1>3. \A other \in Ids : /\ lastUsed'[other] <= served'[other] /\ served'[other] <= now
                         /\ served'[other] <= lastUsed'[other] + Dawdle
  <2> TAKE other \in Ids
  <2>1. CASE other = id BY <1>1, <1>2, <2>1 DEF Recency
  <2>2. CASE other # id BY <1>1, <1>2, <2>2 DEF Recency
  <2>3. QED BY <2>1, <2>2
<1>4. QED BY <1>1, <1>3 DEF Recency

(* SessionStore.get under the lock.                                        *)
LEMMA GetStep ==
  ASSUME StoreInv, NEW r \in Requests, Get(r)
  PROVE  StoreInv' /\ DropIsDue(r)
<1> DEFINE stamp == mine[r].stamp
<1> PICK id : id = mine[r].id OBVIOUS
<1>1. Typed /\ TypeOK /\ Held /\ Recency /\ Flow(r) BY DEF StoreInv, Typed
<1>2. /\ pc[r] = "locking" /\ mine[r].kind # "create" /\ mine[r].kind # "leave" /\ mine[r] \in Locals
      /\ id \in Ids /\ stamp \in Nat /\ mine[r].kind \in {"open", "overview", "delete"} /\ mine[r].dropped = <<>>
  BY <1>1 DEF Get, TypeOK, Locals, Flow, Kinds
<1>3. UNCHANGED <<now, accounts, version, overviews, closed, owner>> BY DEF Get, StoreSame
<1>4. /\ now \in Nat /\ Ttl \in Nat /\ Dawdle \in Nat /\ lastUsed \in [Ids -> Nat] /\ served \in [Ids -> Nat]
      /\ stamp <= now /\ now <= stamp + Dawdle
      /\ \A other \in Ids : /\ lastUsed[other] <= served[other] /\ served[other] <= now
                            /\ served[other] <= lastUsed[other] + Dawdle
      /\ order \in Seq(Ids) /\ IsInjective(order) /\ owner \in [Ids -> Users \cup {Nobody}]
  <2>1. /\ now \in Nat /\ Ttl \in Nat /\ Dawdle \in Nat /\ lastUsed \in [Ids -> Nat] /\ served \in [Ids -> Nat]
        /\ IsInjective(order) /\ owner \in [Ids -> Users \cup {Nobody}]
    BY <1>1, StoreAssumption DEF TypeOK
  <2>2. order \in Seq(Ids) BY <1>1 DEF TypeOK, Created
  <2>3. QED BY <1>1, <1>2, <2>1, <2>2 DEF Recency
<1>5. CASE id \notin ToSet(order)
  <2>1. Go(r, "gone") /\ UNCHANGED mine /\ StoreSame BY <1>5 DEF Get
  <2>2. pc' \in [Requests -> Stages] /\ pc'[r] = "gone" /\ \A q \in Requests \ {r} : pc'[q] = pc[q]
    BY <1>1, <2>1, GoOne DEF Stages
  <2>3. TypeOK' BY <1>1, <1>3, <2>1, <2>2 DEF TypeOK, StoreSame, Created
  <2>4. Flow(r)' BY <1>2, <2>1, <2>2 DEF Flow
  <2>5. Typed' BY <1>1, <2>1, <2>2, <2>3, <2>4, OneFlows
  <2>6. StoreInv' BY <1>3, <2>1, <2>2, <2>5, StoreLeftAlone
  <2>7. DropIsDue(r) BY <1>5, <2>1, <2>2 DEF DropIsDue, StoreSame
  <2>8. QED BY <2>6, <2>7
<1>6. CASE id \in ToSet(order) /\ Expired(id, stamp)
  <2>1. /\ order' = Without(order, {id}) /\ Set(r, "dropped", <<id>>) /\ Go(r, "closing")
        /\ UNCHANGED <<lastUsed, owner, served>>
    BY <1>6 DEF Get, ExpiredGone
  <2>2. StoreInv' BY <1>2, <1>3, <1>6, <2>1, TakenToClose
  <2>3. ToSet(order') = ToSet(order) \ {id} BY <1>1, <2>1, StoreWithout DEF Recency
  <2>4. pc'[r] = "closing" BY <1>1, <2>1, GoOne DEF Stages
  <2>5. now - served[id] > Ttl - Dawdle
    <3>1. stamp - lastUsed[id] > Ttl BY <1>6 DEF Expired
    <3>2. /\ lastUsed[id] \in Nat /\ served[id] \in Nat /\ served[id] <= lastUsed[id] + Dawdle
          /\ now \in Nat /\ stamp \in Nat /\ stamp <= now /\ Ttl \in Nat /\ Dawdle \in Nat
      BY <1>2, <1>4
    <3>3. QED BY <3>1, <3>2
  <2>6. DropIsDue(r) BY <2>3, <2>4, <2>5 DEF DropIsDue
  <2>7. QED BY <2>2, <2>6
<1>7. CASE id \in ToSet(order) /\ ~Expired(id, stamp)
  <2> DEFINE theirs == mine[r].user = owner[id]
             stage == CASE ~theirs -> "gone" [] mine[r].kind = "open" -> "done"
                        [] mine[r].kind = "overview" -> "looking" [] OTHER -> "dropping"
             todo == IF theirs /\ mine[r].kind = "delete" THEN <<id>> ELSE <<>>
  <2> PICK rest : rest = Without(order, {id}) OBVIOUS
  <2>1. /\ order' = Append(rest, id)
        /\ lastUsed' = [lastUsed EXCEPT ![id] = stamp] /\ served' = [served EXCEPT ![id] = now]
        /\ Set(r, "todo", todo) /\ Go(r, stage)
    BY <1>7 DEF Get, Refreshed
  <2>2. /\ stage \in {"gone", "done", "looking", "dropping"}
        /\ stage = "looking" => mine[r].kind = "overview"
        /\ stage = "dropping" => mine[r].kind = "delete"
    BY <1>2
  <2> HIDE DEF stage
  <2>3. stage \in Stages BY <2>2 DEF Stages
  <2>4. pc' \in [Requests -> Stages] /\ pc'[r] = stage /\ \A q \in Requests \ {r} : pc'[q] = pc[q]
    BY <1>1, <2>1, <2>3, GoOne
  <2>5. todo \in Seq(Ids) BY <1>2
  <2> HIDE DEF todo
  <2>6. /\ mine' \in [Requests -> Locals] /\ \A q \in Requests \ {r} : mine'[q] = mine[q]
        /\ mine'[r].dropped = <<>> /\ mine'[r].kind = mine[r].kind
    <3>1. /\ mine' \in [Requests -> Locals] /\ \A q \in Requests \ {r} : mine'[q] = mine[q]
          /\ mine'[r] = [mine[r] EXCEPT !["todo"] = todo]
      BY <1>1, <2>1, <2>5, SetOne
    <3>2. QED BY <1>2, <3>1 DEF Locals
  <2>7. /\ rest \in Seq(Created) /\ rest \in Seq(Ids) /\ Len(rest) \in Nat /\ Len(rest) < Len(order)
        /\ ToSet(rest) = ToSet(order) \ {id} /\ IsInjective(rest) /\ Sorted(rest, served)
    BY <1>1, <1>7, StoreWithout DEF Recency
  <2>8. id \in Created BY <1>1, <1>7 DEF TypeOK, ToSet
  <2>9. /\ order' \in Seq(Created) /\ Len(order') = Len(rest) + 1 /\ IsInjective(order')
        /\ ToSet(order') = ToSet(order)
    <3>1. id \notin ToSet(rest) BY <2>7
    <3>2. /\ order' \in Seq(Created) /\ Len(order') = Len(rest) + 1
          /\ ToSet(order') = ToSet(rest) \cup {id}
          /\ IsInjective(rest) /\ id \notin ToSet(rest) => IsInjective(order')
      <4> PICK T : T = Created OBVIOUS
      <4>1. rest \in Seq(T) /\ id \in T BY <2>7, <2>8
      <4>2. /\ Append(rest, id) \in Seq(T) /\ Len(Append(rest, id)) = Len(rest) + 1
            /\ ToSet(Append(rest, id)) = ToSet(rest) \cup {id}
            /\ IsInjective(rest) /\ id \notin ToSet(rest) => IsInjective(Append(rest, id))
        <5> PICK s : s = rest OBVIOUS
        <5>1. s \in Seq(T) /\ id \in T BY <4>1
        <5>2. Append(s, id) \in Seq(T) /\ Len(Append(s, id)) = Len(s) + 1 BY <5>1, AppendAdds
        <5>3. ToSet(Append(s, id)) = ToSet(s) \cup {id} BY <5>1, AppendAdds
        <5>4. IsInjective(s) /\ id \notin ToSet(s) => IsInjective(Append(s, id)) BY <5>1, AppendAdds
        <5>5. QED BY <5>2, <5>3, <5>4
      <4>3. QED BY <2>1, <4>2
    <3>3. QED BY <1>7, <2>7, <3>1, <3>2
  <2>10. TypeOK'
    <3>1. Len(order') <= MaxSessions
      <4>1. Len(order) \in Nat /\ Len(order) <= MaxSessions /\ MaxSessions \in Nat
        BY <1>1, <1>4, StoreAssumption DEF TypeOK
      <4>2. QED BY <2>7, <2>9, <4>1
    <3>2. lastUsed' \in [Ids -> Nat] /\ served' \in [Ids -> Nat] BY <1>2, <1>4, <2>1
    <3>3. order' \in Seq(Created') BY <1>3, <2>9 DEF Created
    <3>4. QED BY <1>1, <1>3, <2>4, <2>6, <2>9, <3>1, <3>2, <3>3 DEF TypeOK
  <2>11. Flow(r)' BY <2>2, <2>4, <2>6 DEF Flow
  <2>12. Typed' BY <1>1, <2>4, <2>6, <2>10, <2>11, OneFlows
  <2>13. Held'
    <3>1. IsInjective(mine'[r].dropped) BY <1>1, <1>2, <2>6 DEF Held
    <3>2. \A other \in Ids : Stays(r, other) BY <1>2, <1>3, <2>6, <2>9 DEF Stays, Dropping
    <3>3. QED BY <1>1, <2>6, <3>1, <3>2, PlacesChange
  <2>14. Recency'
    <3>1. id \notin ToSet(rest) BY <2>7
    <3>2. Sorted(Append(rest, id), served') BY <1>1, <1>2, <1>4, <2>1, <2>7, <3>1, NewestLast
    <3>3. Sorted(order', served') BY <2>1, <3>2
    <3>4. QED BY <1>2, <1>3, <2>1, <2>2, <2>4, <2>6, <3>3, HandedOut
  <2>15. DropIsDue(r)
    <3>1. stamp - lastUsed[id] <= Ttl
      <4>1. ~(stamp - lastUsed[id] > Ttl) /\ lastUsed[id] \in Nat BY <1>2, <1>4, <1>7 DEF Expired
      <4>2. QED BY <1>2, <1>4, <4>1
    <3>2. now - served[id] <= Ttl + Dawdle
      <4>1. lastUsed[id] \in Nat /\ served[id] \in Nat BY <1>2, <1>4
      <4>2. now \in Nat /\ stamp \in Nat /\ Ttl \in Nat /\ Dawdle \in Nat /\ now <= stamp + Dawdle
            /\ lastUsed[id] <= served[id]
        BY <1>2, <1>4
      <4>3. QED BY <3>1, <4>1, <4>2
    <3>3. QED BY <2>9, <3>2 DEF DropIsDue
  <2>16. QED BY <2>12, <2>13, <2>14, <2>15 DEF StoreInv
<1>8. QED BY <1>5, <1>6, <1>7

LEMMA InAnotherSet ==
  ASSUME NEW T, NEW s \in Seq(T), NEW U, ToSet(s) \subseteq U
  PROVE  s \in Seq(U)
<1>1. Len(s) \in Nat /\ DOMAIN s = 1..Len(s) /\ s = [i \in 1..Len(s) |-> s[i]] OBVIOUS
<1>2. \A i \in 1..Len(s) : s[i] \in U BY <1>1 DEF ToSet
<1>3. QED BY <1>1, <1>2

(* SessionStore.create under the lock, where the new session is id and n   *)
(* of those that are not expired are one too many.                         *)
LEMMA CreateStep ==
  ASSUME StoreInv, NEW r \in Requests, Create(r)
  PROVE  StoreInv' /\ DropIsDue(r)
<1> DEFINE stamp == mine[r].stamp
<1>a. PICK expired : expired = {x \in ToSet(order) : Expired(x, stamp)} OBVIOUS
<1>b. PICK kept : kept = Without(order, expired) OBVIOUS
<1>1. Typed /\ TypeOK /\ Held /\ Recency /\ Flow(r) BY DEF StoreInv, Typed
<1>2. PICK id \in Ids \ Created :
        LET all == Append(kept, id)
            n == IF Surplus(all) > 0 THEN Surplus(all) ELSE 0
        IN  /\ order' = SubSeq(all, n + 1, Len(all))
            /\ mine' = [mine EXCEPT ![r].dropped = Only(order, expired) \o SubSeq(all, 1, n), ![r].id = id]
            /\ lastUsed' = [lastUsed EXCEPT ![id] = stamp]
            /\ served' = [served EXCEPT ![id] = now]
            /\ owner' = [owner EXCEPT ![id] = mine[r].user]
  BY <1>a, <1>b DEF Create
<1>c. PICK all : all = Append(kept, id) OBVIOUS
<1>d. PICK n : n = IF Surplus(all) > 0 THEN Surplus(all) ELSE 0 OBVIOUS
<1>e. PICK old : old = Only(order, expired) OBVIOUS
<1>f. PICK front : front = SubSeq(all, 1, n) OBVIOUS
<1>3. /\ order' = SubSeq(all, n + 1, Len(all))
      /\ mine' = [mine EXCEPT ![r].dropped = old \o front, ![r].id = id]
      /\ lastUsed' = [lastUsed EXCEPT ![id] = stamp]
      /\ served' = [served EXCEPT ![id] = now]
      /\ owner' = [owner EXCEPT ![id] = mine[r].user]
  BY <1>2, <1>c, <1>d, <1>e, <1>f
<1>4. /\ pc[r] = "locking" /\ mine[r].kind = "create" /\ Go(r, "closing")
      /\ UNCHANGED <<now, accounts, version, overviews, closed>>
  BY DEF Create
<1>5. /\ mine \in [Requests -> Locals] /\ mine[r] \in Locals /\ mine[r].user \in Users /\ stamp \in Nat
      /\ mine[r].dropped = <<>>
      /\ order \in Seq(Ids) /\ order \in Seq(Created) /\ IsInjective(order)
  <2>1. mine \in [Requests -> Locals] /\ order \in Seq(Created) /\ IsInjective(order) BY <1>1 DEF TypeOK
  <2>2. order \in Seq(Ids) BY <2>1 DEF Created
  <2>3. mine[r] \in Locals BY <2>1
  <2>4. mine[r].user \in Users /\ stamp \in Nat BY <2>3 DEF Locals
  <2>5. mine[r].dropped = <<>> BY <1>1, <1>4 DEF Flow
  <2>6. QED BY <2>1, <2>2, <2>3, <2>4, <2>5
<1>6. /\ now \in Nat /\ Ttl \in Nat /\ Dawdle \in Nat /\ MaxSessions \in Nat \ {0}
      /\ lastUsed \in [Ids -> Nat] /\ served \in [Ids -> Nat] /\ owner \in [Ids -> Users \cup {Nobody}]
      /\ Nobody \notin Users
  BY <1>1, StoreAssumption DEF TypeOK
<1>7. /\ stamp <= now /\ now <= stamp + Dawdle /\ Sorted(order, served)
      /\ \A other \in Ids : /\ lastUsed[other] <= served[other] /\ served[other] <= now
                            /\ served[other] <= lastUsed[other] + Dawdle
  BY <1>1, <1>4 DEF Recency
<1>8. id \notin ToSet(order) /\ owner[id] = Nobody
  <2>1. \A x \in ToSet(order) : x \in Created BY <1>5 DEF ToSet
  <2>2. QED BY <1>2, <2>1 DEF Created
<1>9. /\ kept \in Seq(Ids) /\ ToSet(kept) = ToSet(order) \ expired /\ IsInjective(kept)
      /\ Sorted(kept, served) /\ id \notin ToSet(kept)
  BY <1>1, <1>7, <1>8, <1>b, StoreWithout
<1>10. /\ all \in Seq(Ids) /\ Len(all) \in Nat /\ ToSet(all) = ToSet(kept) \cup {id} /\ IsInjective(all)
       /\ Sorted(all, served')
  <2>0. kept \in Seq(Ids) /\ id \in Ids BY <1>2, <1>9
  <2>1. all \in Seq(Ids) /\ ToSet(all) = ToSet(kept) \cup {id}
    <3>1. Append(kept, id) \in Seq(Ids) BY <2>0
    <3>2. ToSet(Append(kept, id)) = ToSet(kept) \cup {id} BY <2>0, AppendAdds
    <3>3. QED BY <1>c, <3>1, <3>2
  <2>2. IsInjective(kept) /\ id \notin ToSet(kept) => IsInjective(all) BY <1>c, <2>0, AppendAdds
  <2>3. Sorted(all, served') BY <1>1, <1>3, <1>7, <1>9, <1>c, <2>0, NewestLast
  <2>4. QED BY <1>9, <2>1, <2>2, <2>3
<1>11. /\ n \in Nat /\ n <= Len(all) /\ Len(all) - n <= MaxSessions
       /\ n > 0 => Len(all) - n = MaxSessions
  BY <1>6, <1>10, <1>d DEF Surplus
<1>12. /\ front \in Seq(Ids) /\ order' \in Seq(Ids) /\ Len(front) = n /\ Len(order') = Len(all) - n
       /\ \A i \in 1..n : front[i] = all[i]
       /\ \A i \in 1..(Len(all) - n) : order'[i] = all[n + i]
       /\ ToSet(all) = ToSet(front) \cup ToSet(order') /\ ToSet(front) \cap ToSet(order') = {}
       /\ IsInjective(front) /\ IsInjective(order')
  <2>f. PICK back : back = SubSeq(all, n + 1, Len(all)) OBVIOUS
  <2>0. all \in Seq(Ids) /\ n \in Nat /\ n <= Len(all) BY <1>10, <1>11
  <2>1. /\ front \in Seq(Ids) /\ back \in Seq(Ids) /\ Len(front) = n /\ Len(back) = Len(all) - n
        /\ \A i \in 1..n : front[i] = all[i]
        /\ \A i \in 1..(Len(all) - n) : back[i] = all[n + i]
    BY <2>0, <1>f, <2>f
  <2>2. /\ ToSet(all) = ToSet(front) \cup ToSet(back)
        /\ IsInjective(all) => /\ IsInjective(front) /\ IsInjective(back)
                               /\ ToSet(front) \cap ToSet(back) = {}
    <3>1. ToSet(all) = ToSet(SubSeq(all, 1, n)) \cup ToSet(SubSeq(all, n + 1, Len(all))) BY <2>0, CutInTwo
    <3>2. IsInjective(all) => /\ IsInjective(SubSeq(all, 1, n)) /\ IsInjective(SubSeq(all, n + 1, Len(all)))
                              /\ ToSet(SubSeq(all, 1, n)) \cap ToSet(SubSeq(all, n + 1, Len(all))) = {}
      BY <2>0, CutInTwo
    <3>3. QED BY <1>f, <2>f, <3>1, <3>2
  <2>3. order' = back BY <1>3, <2>f
  <2>4. QED BY <1>10, <2>1, <2>2, <2>3
<1>13. /\ old \in Seq(Ids) /\ ToSet(old) = ToSet(order) \cap expired /\ IsInjective(old)
  BY <1>5, <1>e, OnlyTakes, OnlyKeeps
<1>14. \A x \in expired : x \in ToSet(order) /\ stamp - lastUsed[x] > Ttl BY <1>a DEF Expired
<1>15. /\ old \o front \in Seq(Ids) /\ ToSet(old \o front) = ToSet(old) \cup ToSet(front)
       /\ IsInjective(old \o front)
  <2>1. ToSet(old) \cap ToSet(front) = {}
    <3>1. \A x \in ToSet(front) : x \in ToSet(kept) \/ x = id BY <1>10, <1>12
    <3>2. \A x \in ToSet(old) : x \in ToSet(order) /\ x \in expired BY <1>13
    <3>3. QED BY <1>8, <1>9, <3>1, <3>2
  <2>2. front \in Seq(Ids) /\ old \in Seq(Ids) BY <1>12, <1>13
  <2>3. old \o front \in Seq(Ids) /\ ToSet(old \o front) = ToSet(old) \cup ToSet(front)
    <3>1. old \o front \in Seq(Ids) BY <2>2
    <3>2. ToSet(old \o front) = ToSet(old) \cup ToSet(front) BY <2>2, OneAfterTheOther
    <3>3. QED BY <3>1, <3>2
  <2>4. IsInjective(old) /\ IsInjective(front) /\ ToSet(old) \cap ToSet(front) = {} => IsInjective(old \o front)
    BY <2>2, OneAfterTheOther
  <2>5. QED BY <1>12, <1>13, <2>1, <2>3, <2>4
<1>16. /\ mine' \in [Requests -> Locals] /\ \A q \in Requests \ {r} : mine'[q] = mine[q]
       /\ mine'[r].dropped = old \o front /\ mine'[r].kind = "create"
  <2> PICK new : new = old \o front OBVIOUS
  <2>1. mine' = [mine EXCEPT ![r].dropped = new, ![r].id = id] /\ new \in Seq(Ids) BY <1>3, <1>15
  <2>2. [mine[r] EXCEPT !.dropped = new, !.id = id] \in Locals BY <1>2, <1>5, <2>1 DEF Locals
  <2>3. /\ mine' \in [Requests -> Locals] /\ \A q \in Requests \ {r} : mine'[q] = mine[q]
        /\ mine'[r] = [mine[r] EXCEPT !.dropped = new, !.id = id]
    BY <1>5, <2>1, <2>2
  <2>4. QED BY <1>4, <1>5, <2>3 DEF Locals
<1>17. pc' \in [Requests -> Stages] /\ pc'[r] = "closing" /\ \A q \in Requests \ {r} : pc'[q] = pc[q]
  BY <1>1, <1>4, GoOne DEF Stages
<1>18. /\ owner' \in [Ids -> Users \cup {Nobody}] /\ owner'[id] \in Users
       /\ \A other \in Ids \ {id} : owner'[other] = owner[other]
       /\ lastUsed' \in [Ids -> Nat] /\ served' \in [Ids -> Nat]
       /\ \A other \in Ids \ {id} : served'[other] = served[other]
  <2>1. id \in Ids BY <1>2
  <2>2. /\ owner' \in [Ids -> Users \cup {Nobody}] /\ owner'[id] \in Users
        /\ \A other \in Ids \ {id} : owner'[other] = owner[other]
    BY <1>3, <1>5, <1>6, <2>1
  <2>3. lastUsed' \in [Ids -> Nat] BY <1>3, <1>5, <1>6, <2>1
  <2>4. served' \in [Ids -> Nat] /\ \A other \in Ids \ {id} : served'[other] = served[other]
    BY <1>3, <1>6, <2>1
  <2>5. QED BY <2>2, <2>3, <2>4
<1>19. TypeOK'
  <2>1. ToSet(order') \subseteq Created'
    <3>1. \A x \in ToSet(order) : x \in Created BY <1>5 DEF ToSet
    <3>2. \A x \in ToSet(order') : x \in ToSet(order) \/ x = id BY <1>9, <1>10, <1>12
    <3>3. Created \subseteq Created' /\ id \in Created' BY <1>2, <1>6, <1>18 DEF Created
    <3>4. QED BY <3>1, <3>2, <3>3
  <2>2. order' \in Seq(Created') BY <1>12, <2>1, InAnotherSet
  <2>3. Len(order') <= MaxSessions BY <1>11, <1>12
  <2>4. QED BY <1>1, <1>4, <1>12, <1>16, <1>17, <1>18, <2>2, <2>3 DEF TypeOK
<1>20. Flow(r)' BY <1>16, <1>17 DEF Flow
<1>21. Typed' BY <1>1, <1>16, <1>17, <1>19, <1>20, OneFlows
<1>22. Held'
  <2>1. IsInjective(mine'[r].dropped) BY <1>15, <1>16
  <2>2. \A other \in Ids : ~Dropping(r, other) BY <1>5 DEF Dropping, ToSet
  <2>3. \A other \in Ids : Dropping(r, other)' <=> other \in ToSet(old) \/ other \in ToSet(front)
    BY <1>15, <1>16 DEF Dropping
  <2>4. closed' = closed BY <1>4
  <2>5. ASSUME NEW other \in Ids PROVE Stays(r, other) \/ IsTaken(r, other) \/ IsBorn(r, other)
    <3>1. CASE other = id
      <4>1. id \in ToSet(order') <=> ~Dropping(r, id)' BY <1>8, <1>10, <1>12, <1>13, <2>3
      <4>2. QED BY <1>6, <1>8, <1>18, <2>4, <3>1, <4>1 DEF IsBorn
    <3>2. CASE other # id /\ other \in ToSet(order) /\ other \notin ToSet(order')
      <4>1. Dropping(r, other)' BY <1>9, <1>10, <1>12, <1>13, <2>3, <3>2
      <4>2. QED BY <1>18, <2>4, <3>2, <4>1 DEF IsTaken
    <3>3. CASE other # id /\ (other \notin ToSet(order) \/ other \in ToSet(order'))
      <4>1. /\ other \in ToSet(order') <=> other \in ToSet(order)
            /\ ~(other \in ToSet(old) \/ other \in ToSet(front))
        BY <1>9, <1>10, <1>12, <1>13, <3>3
      <4>2. Dropping(r, other)' <=> Dropping(r, other) BY <2>2, <2>3, <4>1
      <4>3. QED BY <1>18, <2>4, <3>3, <4>1, <4>2 DEF Stays
    <3>4. QED BY <3>1, <3>2, <3>3
  <2>6. QED BY <1>1, <1>16, <2>1, <2>5, PlacesChange
<1>23. Recency'
  <2>1. Sorted(order', served')
    <3> SUFFICES ASSUME NEW i \in 1..Len(order'), NEW j \in 1..Len(order'), i < j
                 PROVE  served'[order'[i]] <= served'[order'[j]]
      BY DEF Sorted
    <3>1. i \in 1..(Len(all) - n) /\ j \in 1..(Len(all) - n) BY <1>12
    <3>2. n + i \in 1..Len(all) /\ n + j \in 1..Len(all) /\ n + i < n + j BY <1>10, <1>11, <3>1
    <3>3. served'[all[n + i]] <= served'[all[n + j]] BY <1>10, <3>2 DEF Sorted
    <3>4. QED BY <1>12, <3>1, <3>3
  <2>2. id \in Ids /\ pc'[r] # "locking" BY <1>2, <1>17
  <2>3. QED BY <1>3, <1>4, <1>16, <1>17, <2>1, <2>2, HandedOut
<1>24. DropIsDue(r)
  <2>1. ASSUME NEW x \in ToSet(order) \ ToSet(order')
        PROVE  \/ now - served[x] > Ttl - Dawdle
               \/ /\ Len(order') = MaxSessions
                  /\ \A other \in ToSet(order) \cap ToSet(order') : served[other] >= served[x]
    <3>1. x \in Ids BY <1>5 DEF ToSet
    <3>2. CASE x \in expired
      <4>1. lastUsed[x] \in Nat /\ served[x] \in Nat BY <1>6, <3>1
      <4>2. now - served[x] > Ttl - Dawdle BY <1>5, <1>6, <1>7, <1>14, <3>1, <3>2, <4>1
      <4>3. QED BY <4>2
    <3>3. CASE x \notin expired
      <4>1. x \in ToSet(front) BY <1>9, <1>10, <1>12, <3>3
      <4>2. PICK i \in 1..n : x = front[i]
        <5>1. DOMAIN front = 1..n BY <1>11, <1>12
        <5>2. QED BY <4>1, <5>1 DEF ToSet
      <4>3. n > 0 /\ Len(order') = MaxSessions BY <1>11, <1>12, <4>2
      <4>4. ASSUME NEW other \in ToSet(order) \cap ToSet(order') PROVE served[other] >= served[x]
        <5>1. PICK k \in 1..(Len(all) - n) : other = order'[k]
          <6>1. DOMAIN order' = 1..(Len(all) - n) BY <1>12
          <6>2. QED BY <4>4, <6>1 DEF ToSet
        <5>2. x = all[i] /\ other = all[n + k] BY <1>12, <4>2, <5>1
        <5>3. i \in 1..Len(all) /\ n + k \in 1..Len(all) /\ i < n + k BY <1>10, <1>11, <4>2, <5>1
        <5>4. served'[x] <= served'[other] BY <1>10, <5>2, <5>3 DEF Sorted
        <5>5. other \in Ids /\ other # id /\ x # id BY <1>5, <1>8, <4>4 DEF ToSet
        <5>6. served[x] <= served[other] BY <1>18, <3>1, <5>4, <5>5
        <5>7. served[x] \in Nat /\ served[other] \in Nat BY <1>6, <3>1, <5>5
        <5>8. QED BY <5>6, <5>7
      <4>5. QED BY <4>3, <4>4
    <3>4. QED BY <3>2, <3>3
  <2>2. QED BY <1>17, <2>1 DEF DropIsDue
<1>25. QED BY <1>21, <1>22, <1>23, <1>24 DEF StoreInv

-----------------------------------------------------------------------------
(* The invariant is inductive.                                             *)
LEMMA InitStoreInv == Init => StoreInv
<1> SUFFICES ASSUME Init PROVE StoreInv OBVIOUS
<1>1. TypeOK BY InitTypeOK
<1>2. \A r \in Requests : pc[r] = "idle" /\ mine[r].dropped = <<>> BY DEF Init, Fresh
<1>3. Typed BY <1>1, <1>2 DEF Typed, Flow
<1>4. \A r \in Requests : IsInjective(mine[r].dropped)
  <2>1. IsInjective(<<>>) BY DEF IsInjective
  <2>2. QED BY <1>2, <2>1
<1>5. ASSUME NEW id \in Ids PROVE InOnePlace(id)
  <2>1. \A r \in Requests : ~Dropping(r, id) BY <1>2 DEF Dropping, ToSet
  <2>2. closed[id] = 0 /\ order = Existing /\ owner = OwnerAtFirst BY DEF Init
  <2>3. QED BY <2>1, <2>2, StoreAssumption DEF InOnePlace
<1>6. Recency
  <2>1. order \in Seq(Ids) BY <1>1 DEF TypeOK, Created
  <2>2. \A i \in 1..Len(order) : order[i] \in Ids BY <2>1
  <2>3. \A id \in Ids : served[id] = 0 /\ lastUsed[id] = 0 BY DEF Init
  <2>4. Sorted(order, served) BY <2>2, <2>3 DEF Sorted
  <2>5. now = 0 /\ Dawdle \in Nat BY StoreAssumption DEF Init
  <2>6. QED BY <1>2, <2>3, <2>4, <2>5 DEF Recency
<1>7. QED BY <1>3, <1>4, <1>5, <1>6 DEF StoreInv, Held

(* Steps that move neither a session nor a thread.                         *)
LEMMA NobodyMoves ==
  ASSUME StoreInv, TypeOK', UNCHANGED <<order, lastUsed, owner, served, closed, pc, mine>>, now <= now',
         \A r \in Requests : pc[r] = "locking" => now' <= mine[r].stamp + Dawdle
  PROVE  StoreInv'
<1>1. Typed /\ TypeOK /\ Held /\ Recency /\ now \in Nat /\ now' \in Nat BY DEF StoreInv, Typed, TypeOK
<1>2. Typed' BY <1>1 DEF Typed, Flow
<1>3. Held' BY <1>1 DEF Held, InOnePlace, Dropping
<1>4. Recency'
  <2>1. \A id \in Ids : served[id] \in Nat BY <1>1 DEF TypeOK
  <2>2. \A id \in Ids : served[id] <= now' BY <1>1, <2>1 DEF Recency
  <2>3. \A r \in Requests : pc[r] = "locking" => mine[r].stamp <= now'
    <3>1. \A r \in Requests : mine[r].stamp \in Nat BY <1>1 DEF TypeOK, Locals
    <3>2. QED BY <1>1, <3>1 DEF Recency
  <2>4. QED BY <1>1, <2>2, <2>3 DEF Recency, Sorted
<1>5. QED BY <1>2, <1>3, <1>4 DEF StoreInv

LEMMA RequestStep ==
  ASSUME StoreInv, NEW r \in Requests, Authenticate(r) \/ Progress(r)
  PROVE  /\ StoreInv'
         /\ \A q \in Requests \ {r} : pc'[q] = pc[q]
         /\ pc[r] = "locking" => DropIsDue(r)
<1>1. Typed /\ TypeOK /\ pc \in [Requests -> Stages] BY DEF StoreInv, Typed, TypeOK
<1>2. CASE Create(r)
  <2>1. \A q \in Requests \ {r} : pc'[q] = pc[q] BY <1>1, <1>2, GoOne DEF Create, Stages
  <2>2. QED BY <1>2, <2>1, CreateStep
<1>3. CASE Get(r)
  <2>1. \A q \in Requests \ {r} : pc'[q] = pc[q] BY <1>1, <1>3 DEF Get, Go
  <2>2. QED BY <1>3, <2>1, GetStep
<1>4. CASE Close(r)
  <2>1. pc[r] # "locking" /\ \A q \in Requests \ {r} : pc'[q] = pc[q] BY <1>1, <1>4 DEF Close, Go
  <2>2. QED BY <1>4, <2>1, CloseStep
<1>5. CASE Drop(r)
  <2>1. pc[r] # "locking" /\ \A q \in Requests \ {r} : pc'[q] = pc[q] BY <1>1, <1>5 DEF Drop, Go
  <2>2. QED BY <1>5, <2>1, DropStep
<1>6. CASE Away(r)
  <2>1. Untouched(r) BY <1>1, <1>6, AwayIsUntouched
  <2>2. StoreInv' BY <2>1, StoreLeftAlone DEF Untouched
  <2>3. QED BY <2>1, <2>2 DEF Untouched
<1>7. QED BY <1>2, <1>3, <1>4, <1>5, <1>6 DEF Progress, Away

LEMMA NextStoreInv == StoreInv /\ [Next]_vars => StoreInv'
<1> SUFFICES ASSUME StoreInv, [Next]_vars PROVE StoreInv' OBVIOUS
<1>1. TypeOK /\ Recency /\ now \in Nat /\ Dawdle \in Nat
  BY StoreAssumption DEF StoreInv, Typed, TypeOK
<1>2. CASE UNCHANGED vars
  <2>1. TypeOK' BY <1>1, <1>2 DEF TypeOK, vars, Created
  <2>2. QED BY <1>1, <1>2, <2>1, NobodyMoves DEF vars, Recency
<1>3. CASE Tick
  <2>1. /\ now' = now + 1 /\ UNCHANGED <<accounts, version, overviews, closed, pc, mine>> /\ StoreSame
        /\ \A r \in Requests : pc[r] = "locking" => now + 1 - mine[r].stamp <= Dawdle
    BY <1>3 DEF Tick
  <2>2. TypeOK' BY <1>1, <2>1 DEF TypeOK, StoreSame, Created
  <2>3. \A r \in Requests : mine[r].stamp \in Nat BY <1>1 DEF TypeOK, Locals
  <2>4. \A r \in Requests : pc[r] = "locking" => now' <= mine[r].stamp + Dawdle BY <1>1, <2>1, <2>3
  <2>5. QED BY <1>1, <2>1, <2>2, <2>4, NobodyMoves DEF StoreSame
<1>4. CASE \E r \in Requests : Authenticate(r) \/ Progress(r) BY <1>4, RequestStep
<1>5. CASE \E id \in Ids : Operate(id)
  <2>1. PICK id \in Ids : Operate(id) BY <1>5
  <2>2. /\ version' = [version EXCEPT ![id] = @ + 1] /\ StoreSame
        /\ UNCHANGED <<now, accounts, overviews, closed, pc, mine>>
    BY <2>1 DEF Operate
  <2>3. version \in [Ids -> Nat] BY <1>1 DEF TypeOK
  <2>4. version' \in [Ids -> Nat] BY <2>2, <2>3
  <2>5. TypeOK' BY <1>1, <2>2, <2>4 DEF TypeOK, StoreSame, Created
  <2>6. QED BY <1>1, <2>2, <2>5, NobodyMoves DEF StoreSame, Recency
<1>6. QED BY <1>2, <1>3, <1>4, <1>5 DEF Next

(* What the store, the threads and the clock are to each other holds in    *)
(* every state.                                                            *)
THEOREM StoreInvariance == Spec => []StoreInv
BY InitStoreInv, NextStoreInv, PTL DEF Spec

(* The types, among them that no two places of the store's list are one    *)
(* session's and that there are never more than max_sessions.              *)
THEOREM SessionTypes == Spec => []TypeOK
<1>1. StoreInv => TypeOK BY DEF StoreInv, Typed
<1>2. QED BY <1>1, StoreInvariance, PTL

LEMMA HeldOnce ==
  ASSUME TypeOK, NEW r \in Requests, IsInjective(mine[r].dropped), NEW id
  PROVE  Holding(r, id) = IF Dropping(r, id) THEN 1 ELSE 0
<1> DEFINE dropped == mine[r].dropped
           at == {i \in DOMAIN dropped : dropped[i] = id}
<1>1. CASE Dropping(r, id)
  <2>1. PICK i \in DOMAIN dropped : dropped[i] = id BY <1>1 DEF Dropping, ToSet
  <2>2. at = {i} BY <2>1 DEF IsInjective
  <2>3. Cardinality(at) = 1 BY <2>2, FS_Singleton
  <2>4. QED BY <1>1, <2>3 DEF Holding
<1>2. CASE ~Dropping(r, id)
  <2>1. at = {} BY <1>2 DEF Dropping, ToSet
  <2>2. Cardinality(at) = 0 BY <2>1, FS_EmptySet
  <2>3. QED BY <1>2, <2>2 DEF Holding
<1>3. QED BY <1>1, <1>2

(* Every session that was created is in the store, or with exactly one     *)
(* thread that is going to close it, or closed, once: create, get and      *)
(* delete take it under the lock, _close_all closes it after it.           *)
THEOREM OneHolderEach == Spec => []OneHolder
<1>1. StoreInv => OneHolder
  <2> SUFFICES ASSUME StoreInv, NEW id \in Created
               PROVE  LET holders == {r \in Requests : Holding(r, id) > 0}
                      IN  /\ \A r \in holders : Holding(r, id) = 1
                          /\ Cardinality(holders) + closed[id] + (IF id \in ToSet(order) THEN 1 ELSE 0) = 1
    BY DEF OneHolder
  <2> DEFINE holders == {r \in Requests : Holding(r, id) > 0}
  <2>1. TypeOK /\ Held /\ InOnePlace(id) /\ id \in Ids /\ owner[id] # Nobody /\ closed[id] \in Nat
    BY DEF StoreInv, Typed, Held, Created, TypeOK
  <2>2. \A r \in Requests : Holding(r, id) = IF Dropping(r, id) THEN 1 ELSE 0
    BY <2>1, HeldOnce DEF Held
  <2>3. \A r \in holders : Holding(r, id) = 1 BY <2>2
  <2>4. \A r \in Requests : r \in holders <=> Dropping(r, id) BY <2>2
  <2>5. CASE \E r \in Requests : Dropping(r, id)
    <3>1. PICK r \in Requests : Dropping(r, id) BY <2>5
    <3>2. holders = {r} BY <2>1, <2>4, <3>1 DEF InOnePlace
    <3>3. Cardinality(holders) = 1 BY <3>2, FS_Singleton
    <3>4. closed[id] = 0 /\ id \notin ToSet(order) BY <2>1, <3>1 DEF InOnePlace
    <3>5. QED BY <2>3, <3>3, <3>4
  <2>6. CASE \A r \in Requests : ~Dropping(r, id)
    <3>1. holders = {} BY <2>4, <2>6
    <3>2. Cardinality(holders) = 0 BY <3>1, FS_EmptySet
    <3>3. closed[id] + (IF id \in ToSet(order) THEN 1 ELSE 0) = 1 BY <2>1, <2>6 DEF InOnePlace
    <3>4. QED BY <2>1, <2>3, <3>2, <3>3
  <2>7. QED BY <2>5, <2>6
<1>2. QED BY <1>1, StoreInvariance, PTL

(* create and get drop a session only when that is due, and get hands none *)
(* out that was left for longer than the time to live.                     *)
THEOREM DropsWhenDue == Spec => DropsAreDue
<1>1. ASSUME StoreInv, [Next]_vars, NEW r \in Requests, pc[r] = "locking", pc'[r] # "locking"
      PROVE  DropIsDue(r)
  <2>1. Next BY <1>1 DEF vars
  <2>2. CASE \E q \in Requests : Authenticate(q) \/ Progress(q)
    <3>1. PICK q \in Requests : Authenticate(q) \/ Progress(q) BY <2>2
    <3>2. q = r BY <1>1, <3>1, RequestStep
    <3>3. QED BY <1>1, <3>1, <3>2, RequestStep
  <2>3. QED BY <1>1, <2>1, <2>2 DEF Next, Tick, Operate
<1>2. StoreInv /\ [Next]_vars =>
        [\A r \in Requests : pc[r] = "locking" /\ pc'[r] # "locking" =>
           /\ \A id \in ToSet(order) \ ToSet(order') :
                \/ now - served[id] > Ttl - Dawdle
                \/ /\ Len(order') = MaxSessions
                   /\ \A other \in ToSet(order) \cap ToSet(order') : served[other] >= served[id]
           /\ \A id \in ToSet(order) : mine[r].id = id /\ pc'[r] \in {"done", "looking", "dropping"}
                => now - served[id] <= Ttl + Dawdle]_vars
  BY <1>1 DEF DropIsDue
<1>3. QED BY <1>2, StoreInvariance, PTL DEF Spec, DropsAreDue

-----------------------------------------------------------------------------
(* An overview is kept under a version no newer than the one it is of.     *)
Computing(r) ==
  \/ pc[r] \in {"planning", "building", "inserting"}
  \/ pc[r] = "forgetting" /\ mine[r].kind = "overview"

Planned(r) ==
  LET key == mine[r].key
  IN  Computing(r) =>
        /\ key.id = mine[r].id /\ key.version <= version[key.id]
        /\ pc[r] # "planning" => key.version <= mine[r].plan /\ mine[r].plan <= version[key.id]

CacheInv ==
  /\ \A o \in ToSet(overviews) : o.version <= o.of /\ o.of <= version[o.id]
  /\ \A r \in Requests : Planned(r)

(* One request's step, when what it is about to keep is right.             *)
LEMMA CacheStep ==
  ASSUME CacheInv, NEW r \in Requests, UNCHANGED version,
         \A q \in Requests \ {r} : mine'[q] = mine[q] /\ pc'[q] = pc[q],
         \A o \in ToSet(overviews') : o \in ToSet(overviews) \/ (o.version <= o.of /\ o.of <= version[o.id]),
         Planned(r)'
  PROVE  CacheInv'
<1>1. ASSUME NEW q \in Requests \ {r} PROVE Planned(q)'
  <2>1. Planned(q) /\ mine'[q] = mine[q] /\ pc'[q] = pc[q] BY DEF CacheInv
  <2>2. QED BY <2>1 DEF Planned, Computing
<1>2. QED BY <1>1 DEF CacheInv

LEMMA RequestCacheStep ==
  ASSUME StoreInv, CacheInv, NEW r \in Requests, Authenticate(r) \/ Progress(r)
  PROVE  CacheInv'
<1>1. /\ Typed /\ TypeOK /\ Flow(r) /\ Planned(r) /\ pc \in [Requests -> Stages] /\ mine \in [Requests -> Locals]
      /\ mine[r] \in Locals /\ version \in [Ids -> Nat] /\ overviews \in Seq(Overview)
  BY DEF StoreInv, Typed, TypeOK, CacheInv
<1>2. /\ mine[r].id \in Ids /\ mine[r].key \in CacheKey /\ mine[r].kind \in Kinds /\ mine[r].plan \in Nat
      /\ mine[r].stale \in Seq(CacheKey)
  BY <1>1 DEF Locals
<1>3. \A stage : Go(r, stage) => pc'[r] = stage /\ \A q \in Requests \ {r} : pc'[q] = pc[q]
  BY <1>1 DEF Go
<1>4. \A field, value : Set(r, field, value) =>
        /\ mine'[r] = [mine[r] EXCEPT ![field] = value] /\ \A q \in Requests \ {r} : mine'[q] = mine[q]
  BY <1>1 DEF Set
<1>9. ASSUME NEW value, Set(r, "stale", value)
      PROVE  /\ mine'[r].key = mine[r].key /\ mine'[r].id = mine[r].id /\ mine'[r].plan = mine[r].plan
             /\ mine'[r].kind = mine[r].kind
  <2>1. mine'[r] = [mine[r] EXCEPT !["stale"] = value] BY <1>4, <1>9
  <2>2. QED BY <1>1, <2>1 DEF Locals
<1>5. CASE Authenticate(r) \/ ReadClock(r) \/ List(r) \/ Erase(r) \/ Trim(r) \/ Discard(r)
  <2>1. UNCHANGED version /\ \A q \in Requests \ {r} : mine'[q] = mine[q] /\ pc'[q] = pc[q]
    BY <1>1, <1>5, AwayIsUntouched DEF Away, Untouched
  <2>2. pc'[r] \in {"listing", "timing", "locking", "dropping", "done", "discarding", "trimming", "raised"}
    BY <1>3, <1>5 DEF Authenticate, ReadClock, List, Erase, Trim, Discard
  <2>3. Planned(r)' BY <2>2 DEF Planned, Computing
  <2>4. ToSet(overviews') \subseteq ToSet(overviews)
    <3>1. overviews' = overviews \/ overviews' = Uncached(mine[r].key)
      BY <1>5 DEF Authenticate, ReadClock, List, Erase, Trim, Discard
    <3>2. QED BY <1>1, <1>2, <3>1, CacheTypes
  <2>5. QED BY <2>1, <2>3, <2>4, CacheStep
<1>6. CASE Create(r) \/ Get(r) \/ Close(r) \/ Drop(r)
  <2>1. UNCHANGED <<version, overviews>> BY <1>6 DEF Create, Get, Close, Drop
  <2>2. pc'[r] \in {"closing", "gone", "done", "looking", "dropping", "clearing", "erasing"}
        /\ \A q \in Requests \ {r} : pc'[q] = pc[q]
    <3>1. CASE Create(r) BY <1>3, <3>1 DEF Create
    <3>2. CASE Get(r)
      <4>1. \E stage \in {"gone", "closing", "done", "looking", "dropping"} : Go(r, stage) BY <3>2 DEF Get
      <4>2. QED BY <1>3, <4>1
    <3>3. CASE Close(r)
      <4>1. (pc' = pc /\ pc[r] = "closing") \/ \E stage \in {"gone", "done", "clearing"} : Go(r, stage)
        BY <3>3 DEF Close
      <4>2. QED BY <1>3, <4>1
    <3>4. CASE Drop(r)
      <4>1. \E stage \in {"closing", "clearing", "erasing", "done"} : Go(r, stage) BY <3>4 DEF Drop
      <4>2. QED BY <1>3, <4>1
    <3>5. QED BY <1>6, <3>1, <3>2, <3>3, <3>4
  <2>3. \A q \in Requests \ {r} : mine'[q] = mine[q]
    <3>1. CASE Create(r)
      <4>1. PICK dropped, id : mine' = [mine EXCEPT ![r].dropped = dropped, ![r].id = id]
        <5> DEFINE expired == {id \in ToSet(order) : Expired(id, mine[r].stamp)}
                   Kept(id) == Append(Without(order, expired), id)
                   Cut(id) == IF Surplus(Kept(id)) > 0 THEN Surplus(Kept(id)) ELSE 0
        <5>1. \E id \in Ids \ Created :
                mine' = [mine EXCEPT ![r].dropped = Only(order, expired) \o SubSeq(Kept(id), 1, Cut(id)), ![r].id = id]
          BY <3>1 DEF Create
        <5> HIDE DEF expired, Kept, Cut
        <5>2. QED BY <5>1
      <4>2. QED BY <1>1, <4>1
    <3>2. CASE ~Create(r)
      <4>1. mine' = mine \/ \E field, value : Set(r, field, value) BY <1>6, <3>2 DEF Get, Close, Drop
      <4>2. QED BY <1>4, <4>1
    <3>3. QED BY <3>1, <3>2
  <2>4. Planned(r)' BY <2>2 DEF Planned, Computing
  <2>5. QED BY <2>1, <2>2, <2>3, <2>4, CacheStep
<1>7. CASE Clear(r) \/ LookUp(r) \/ Plan(r) \/ Build(r) \/ Forget(r) \/ Insert(r)
  <2>1. UNCHANGED version /\ \A q \in Requests \ {r} : mine'[q] = mine[q] /\ pc'[q] = pc[q]
    BY <1>1, <1>7, AwayIsUntouched DEF Away, Untouched
  <2>2. CASE Clear(r)
    <3>1. Go(r, "forgetting") /\ Set(r, "stale", KeysOf(Head(mine[r].todo))) /\ UNCHANGED overviews /\ pc[r] = "clearing"
      BY <2>2 DEF Clear
    <3>2. mine'[r].kind = mine[r].kind BY <1>9, <3>1
    <3>3. ~Computing(r)' BY <1>1, <1>3, <3>1, <3>2 DEF Computing, Flow
    <3>4. QED BY <2>1, <3>1, <3>3, CacheStep DEF Planned
  <2>3. CASE LookUp(r)
    <3> DEFINE key == KeyNow(mine[r].id)
    <3>1. Set(r, "key", key) /\ UNCHANGED overviews /\ (Go(r, "done") \/ Go(r, "planning")) BY <2>3 DEF LookUp
    <3>2. mine'[r].key = key /\ mine'[r].id = mine[r].id
      <4> PICK value : value = key OBVIOUS
      <4>1. mine'[r] = [mine[r] EXCEPT !["key"] = value] BY <1>4, <3>1
      <4>2. QED BY <1>1, <4>1 DEF Locals
    <3>3. pc'[r] \in {"done", "planning"} BY <1>3, <3>1
    <3>4. key.id = mine[r].id /\ key.version = version[mine[r].id] /\ version[mine[r].id] \in Nat
      BY <1>1, <1>2 DEF KeyNow
    <3>5. Planned(r)' BY <2>1, <3>2, <3>3, <3>4 DEF Planned, Computing
    <3>6. QED BY <2>1, <3>1, <3>5, CacheStep
  <2>4. CASE Plan(r)
    <3>1. /\ Set(r, "plan", version[mine[r].id]) /\ UNCHANGED overviews /\ Go(r, "building") /\ pc[r] = "planning"
      BY <2>4 DEF Plan
    <3>2. /\ mine'[r].key = mine[r].key /\ mine'[r].id = mine[r].id
          /\ mine'[r].plan = version[mine[r].id]
      <4> PICK value : value = version[mine[r].id] OBVIOUS
      <4>1. mine'[r] = [mine[r] EXCEPT !["plan"] = value] BY <1>4, <3>1
      <4>2. QED BY <1>1, <4>1 DEF Locals
    <3>3. pc'[r] = "building" BY <1>3, <3>1
    <3>4. mine[r].key.id = mine[r].id /\ mine[r].key.version <= version[mine[r].id] /\ version[mine[r].id] \in Nat
      BY <1>1, <1>2, <3>1 DEF Planned, Computing
    <3>5. Planned(r)' BY <2>1, <3>2, <3>3, <3>4 DEF Planned, Computing
    <3>6. QED BY <2>1, <3>1, <3>5, CacheStep
  <2>5. CASE Build(r)
    <3>1. pc[r] = "building" /\ UNCHANGED overviews BY <2>5 DEF Build
    <3>2. Go(r, "raised") \/ (Go(r, "forgetting") /\ Set(r, "stale", KeysOf(mine[r].id))) BY <2>5 DEF Build
    <3>3. CASE Go(r, "raised")
      <4>1. Planned(r)' BY <1>3, <3>3 DEF Planned, Computing
      <4>2. QED BY <2>1, <3>1, <4>1, CacheStep
    <3>4. CASE Go(r, "forgetting") /\ Set(r, "stale", KeysOf(mine[r].id))
      <4>1. /\ mine'[r].key = mine[r].key /\ mine'[r].id = mine[r].id /\ mine'[r].plan = mine[r].plan
        BY <1>9, <3>4
      <4>2. pc'[r] = "forgetting" BY <1>3, <3>4
      <4>3. Planned(r)' BY <1>1, <2>1, <3>1, <4>1, <4>2 DEF Planned, Computing
      <4>4. QED BY <2>1, <3>1, <4>3, CacheStep
    <3>5. QED BY <3>2, <3>3, <3>4
  <2>6. CASE Forget(r)
    <3>1. pc[r] = "forgetting" BY <2>6 DEF Forget
    <3>2. ToSet(overviews') \subseteq ToSet(overviews)
      <4>1. overviews' = overviews \/ (mine[r].stale # <<>> /\ overviews' = Uncached(Head(mine[r].stale)))
        BY <2>6 DEF Forget
      <4>2. mine[r].stale # <<>> => Head(mine[r].stale) \in CacheKey BY <1>2, HeadAndTail
      <4>3. QED BY <1>1, <4>1, <4>2, CacheTypes
    <3>3. Planned(r)'
      <4>1. \/ Go(r, "inserting") /\ UNCHANGED mine /\ mine[r].kind = "overview"
            \/ \E stage \in {"dropping", "raised"} : Go(r, stage)
            \/ UNCHANGED pc /\ Set(r, "stale", Tail(mine[r].stale))
        BY <2>6 DEF Forget
      <4>2. CASE Go(r, "inserting") /\ UNCHANGED mine /\ mine[r].kind = "overview"
        BY <1>1, <1>3, <2>1, <3>1, <4>2 DEF Planned, Computing
      <4>3. CASE \E stage \in {"dropping", "raised"} : Go(r, stage) BY <1>3, <4>3 DEF Planned, Computing
      <4>4. CASE UNCHANGED pc /\ Set(r, "stale", Tail(mine[r].stale))
        <5>1. /\ mine'[r].key = mine[r].key /\ mine'[r].id = mine[r].id /\ mine'[r].plan = mine[r].plan
              /\ mine'[r].kind = mine[r].kind
          BY <1>9, <4>4
        <5>2. QED BY <1>1, <2>1, <4>4, <5>1 DEF Planned, Computing
      <4>5. QED BY <4>1, <4>2, <4>3, <4>4
    <3>4. QED BY <2>1, <3>2, <3>3, CacheStep
  <2>7. CASE Insert(r)
    <3> DEFINE key == mine[r].key
    <3> PICK new : new = [id |-> key.id, version |-> key.version, of |-> mine[r].plan] OBVIOUS
    <3>1. /\ pc[r] = "inserting" /\ Go(r, "trimming")
          /\ overviews' = IF Cached(key)
                          THEN [i \in DOMAIN overviews |-> IF KeyOf(overviews[i]) = key THEN new ELSE overviews[i]]
                          ELSE Append(overviews, new)
      BY <2>7 DEF Insert
    <3>2. new.version <= new.of /\ new.of <= version[new.id] BY <1>1, <3>1 DEF Planned, Computing
    <3>3. \A o \in ToSet(overviews') : o \in ToSet(overviews) \/ o = new
      <4>1. new \in Overview BY <1>2 DEF Overview, CacheKey
      <4>2. CASE ~Cached(key) BY <1>1, <3>1, <4>1, <4>2, AppendAdds
      <4>3. CASE Cached(key)
        <5>1. overviews' = [i \in DOMAIN overviews |-> IF KeyOf(overviews[i]) = key THEN new ELSE overviews[i]]
          BY <3>1, <4>3
        <5>2. QED BY <5>1 DEF ToSet
      <4>4. QED BY <4>2, <4>3
    <3>4. Planned(r)' BY <1>3, <3>1 DEF Planned, Computing
    <3>5. QED BY <2>1, <3>2, <3>3, <3>4, CacheStep
  <2>8. QED BY <1>7, <2>2, <2>3, <2>4, <2>5, <2>6, <2>7
<1>8. QED BY <1>5, <1>6, <1>7 DEF Progress

LEMMA NextCacheInv == StoreInv /\ CacheInv /\ [Next]_vars => CacheInv'
<1> SUFFICES ASSUME StoreInv, CacheInv, [Next]_vars PROVE CacheInv' OBVIOUS
<1>1. TypeOK /\ version \in [Ids -> Nat] BY DEF StoreInv, Typed, TypeOK
<1>2. CASE UNCHANGED <<version, overviews, pc, mine>> BY <1>2 DEF CacheInv, Planned, Computing
<1>3. CASE \E r \in Requests : Authenticate(r) \/ Progress(r) BY <1>3, RequestCacheStep
<1>4. CASE \E id \in Ids : Operate(id)
  <2>1. PICK id \in Ids : Operate(id) BY <1>4
  <2>2. version' = [version EXCEPT ![id] = @ + 1] /\ UNCHANGED <<overviews, pc, mine>> BY <2>1 DEF Operate
  <2>3. \A other \in Ids : version[other] <= version'[other] /\ version[other] \in Nat /\ version'[other] \in Nat
    BY <1>1, <2>2
  <2>4. \A o \in ToSet(overviews) : o.id \in Ids /\ o.of \in Nat BY <1>1, CacheTypes DEF Overview
  <2>5. \A r \in Requests : mine[r].key.id \in Ids /\ mine[r].key.version \in Nat /\ mine[r].plan \in Nat
    <3>1. \A r \in Requests : mine[r] \in Locals BY <1>1 DEF TypeOK
    <3>2. \A r \in Requests : mine[r].key \in CacheKey /\ mine[r].plan \in Nat BY <3>1 DEF Locals
    <3>3. QED BY <3>2 DEF CacheKey
  <2>6. \A o \in ToSet(overviews) : o.version <= o.of /\ o.of <= version'[o.id]
    BY <2>3, <2>4 DEF CacheInv
  <2>7. ASSUME NEW r \in Requests PROVE Planned(r)'
    <3>1. Planned(r) BY DEF CacheInv
    <3>2. QED BY <2>2, <2>3, <2>5, <3>1 DEF Planned, Computing
  <2>8. QED BY <2>2, <2>6, <2>7 DEF CacheInv
<1>5. QED BY <1>2, <1>3, <1>4 DEF Next, Tick, vars

(* An overview that is served from the cache was computed from the version *)
(* of the catalog the session has at that moment, although dashboard.build *)
(* reads the version twice and the cache has no lock.                      *)
THEOREM OverviewsAreCurrent == Spec => OverviewIsCurrent
<1>1. Init => CacheInv
  <2> SUFFICES ASSUME Init PROVE CacheInv OBVIOUS
  <2>1. ToSet(overviews) = {} BY DEF Init, ToSet
  <2>2. \A r \in Requests : pc[r] = "idle" BY DEF Init
  <2>3. QED BY <2>1, <2>2 DEF CacheInv, Planned, Computing
<1>2. ASSUME StoreInv, CacheInv, [Next]_vars, NEW r \in Requests, pc[r] = "looking", pc'[r] = "done"
      PROVE  \E o \in ToSet(overviews) : o.id = mine[r].id /\ KeyOf(o) = mine'[r].key /\ o.of = version[o.id]
  <2>1. TypeOK /\ pc \in [Requests -> Stages] /\ version \in [Ids -> Nat] /\ mine \in [Requests -> Locals]
    BY <1>2 DEF StoreInv, Typed, TypeOK
  <2>2. PICK q \in Requests : Authenticate(q) \/ Progress(q) BY <1>2 DEF Next, Tick, Operate, vars
  <2>3. q = r BY <1>2, <2>2, RequestStep
  <2>4. LookUp(r)
    BY <1>2, <2>2, <2>3 DEF Progress, Authenticate, ReadClock, Create, Get, Close, List, Drop, Clear,
                            Forget, Erase, Plan, Build, Insert, Trim, Discard
  <2> DEFINE key == KeyNow(mine[r].id)
  <2>5. Set(r, "key", key) /\ Go(r, IF Cached(key) THEN "done" ELSE "planning") BY <2>4 DEF LookUp
  <2>6. Cached(key) BY <1>2, <2>1, <2>5 DEF Go
  <2>7. PICK o \in ToSet(overviews) : KeyOf(o) = key BY <2>6 DEF Cached
  <2>8. o.id = mine[r].id /\ o.version = version[mine[r].id] BY <2>7 DEF KeyOf, KeyNow
  <2>9. o.version \in Nat /\ o.of \in Nat /\ o.id \in Ids BY <2>1, CacheTypes DEF Overview
  <2>10. o.version <= o.of /\ o.of <= version[o.id] BY <1>2 DEF CacheInv
  <2>11. o.of = version[o.id] BY <2>8, <2>9, <2>10
  <2>12. mine'[r].key = key BY <2>1, <2>5 DEF Set, Locals
  <2>13. QED BY <2>7, <2>8, <2>11, <2>12
<1>3. StoreInv /\ CacheInv /\ [Next]_vars =>
        [\A r \in Requests : pc[r] = "looking" /\ pc'[r] = "done" =>
           \E o \in ToSet(overviews) : o.id = mine[r].id /\ KeyOf(o) = mine'[r].key /\ o.of = version[o.id]]_vars
  BY <1>2
<1>4. QED BY <1>1, <1>3, NextCacheInv, StoreInvariance, PTL DEF Spec, OverviewIsCurrent

------------------------------------------------------------------------------
(* The requests that are trimming the cache, or have raised.               *)
Trimmers == {r \in Requests : pc[r] \in {"trimming", "discarding", "raised"}}

(* A key is in a cache once. *)
KeyedOnce(s) == \A i, j \in 1..Len(s) : KeyOf(s[i]) = KeyOf(s[j]) => i = j

SizeInv == KeyedOnce(overviews) /\ Len(overviews) <= CacheCap + Cardinality(Trimmers)

(* A cache some keys were deleted from. *)
LEMMA OnlyOnce ==
  ASSUME NEW s \in Seq(Overview), NEW S, KeyedOnce(s)
  PROVE  KeyedOnce(Only(s, S))
<1> PICK t : t = Only(s, S) OBVIOUS
<1>1. PICK f \in [1..Len(t) -> 1..Len(s)] :
        Increasing(f) /\ \A n \in 1..Len(t) : t[n] = s[f[n]]
  BY OnlyTakes
<1>2. Len(t) \in Nat /\ Len(s) \in Nat BY OnlyTakes
<1>3. ASSUME NEW m \in 1..Len(t), NEW n \in 1..Len(t), KeyOf(t[m]) = KeyOf(t[n]) PROVE m = n
  <2>1. f[m] = f[n]
    <3>1. f[m] \in 1..Len(s) /\ f[n] \in 1..Len(s) OBVIOUS
    <3>2. t[m] = s[f[m]] /\ t[n] = s[f[n]] BY <1>1
    <3>3. KeyOf(s[f[m]]) = KeyOf(s[f[n]]) BY <1>3, <3>2
    <3>4. QED BY <3>1, <3>3 DEF KeyedOnce
  <2>2. f[m] \in Nat /\ f[n] \in Nat /\ m \in Nat /\ n \in Nat BY <1>2
  <2>3. ~(m < n) /\ ~(n < m) BY <1>1, <2>1, <2>2 DEF Increasing
  <2>4. QED BY <2>2, <2>3
<1>4. QED BY <1>3 DEF KeyedOnce

LEMMA TrimmersAre ==
  ASSUME StoreAssumption
  PROVE  IsFiniteSet(Trimmers) /\ Cardinality(Trimmers) \in Nat
BY FS_Subset, FS_CardinalityType DEF Trimmers, StoreAssumption

(* A step that adds nothing to the cache, and does not end a trimming.     *)
LEMMA NothingAdded ==
  ASSUME StoreAssumption, TypeOK, SizeInv, IsFiniteSet(Trimmers'), Trimmers \subseteq Trimmers',
         overviews' = overviews \/ \E key \in CacheKey : overviews' = Uncached(key)
  PROVE  SizeInv'
<1>1. /\ overviews \in Seq(Overview) /\ Len(overviews) \in Nat /\ CacheCap \in Nat
      /\ Len(overviews) <= CacheCap + Cardinality(Trimmers)
  BY DEF TypeOK, StoreAssumption, SizeInv
<1>2. Cardinality(Trimmers) \in Nat /\ Cardinality(Trimmers') \in Nat /\ Cardinality(Trimmers) <= Cardinality(Trimmers')
  BY TrimmersAre, FS_Subset, FS_CardinalityType
<1>3. KeyedOnce(overviews') /\ Len(overviews') \in Nat /\ Len(overviews') <= Len(overviews)
  <2>1. CASE overviews' = overviews BY <1>1, <2>1 DEF SizeInv
  <2>2. ASSUME NEW key \in CacheKey, overviews' = Uncached(key)
        PROVE  KeyedOnce(overviews') /\ Len(overviews') \in Nat /\ Len(overviews') <= Len(overviews)
    <3> PICK S : S = ToSet(overviews) \ {o \in ToSet(overviews) : KeyOf(o) = key} OBVIOUS
    <3>1. overviews' = Only(overviews, S) BY <2>2 DEF Uncached, Without
    <3>2. Len(Only(overviews, S)) \in Nat /\ Len(Only(overviews, S)) <= Len(overviews) BY <1>1, OnlyTakes
    <3>3. KeyedOnce(Only(overviews, S)) BY <1>1, OnlyOnce DEF SizeInv
    <3>4. QED BY <3>1, <3>2, <3>3
  <2>3. QED BY <2>1, <2>2
<1>4. Len(overviews') <= CacheCap + Cardinality(Trimmers') BY <1>1, <1>2, <1>3
<1>5. QED BY <1>3, <1>4 DEF SizeInv

LEMMA InsertBounds ==
  ASSUME StoreAssumption, TypeOK, SizeInv, NEW r \in Requests, Insert(r)
  PROVE  SizeInv'
<1> PICK key : key = mine[r].key OBVIOUS
<1> PICK new : new = [id |-> key.id, version |-> key.version, of |-> mine[r].plan] OBVIOUS
<1>1. /\ pc[r] = "inserting" /\ Go(r, "trimming")
      /\ overviews' = IF Cached(key)
                      THEN [i \in DOMAIN overviews |-> IF KeyOf(overviews[i]) = key THEN new ELSE overviews[i]]
                      ELSE Append(overviews, new)
  BY DEF Insert
<1>2. /\ overviews \in Seq(Overview) /\ Len(overviews) \in Nat /\ CacheCap \in Nat
      /\ DOMAIN overviews = 1..Len(overviews)
      /\ Len(overviews) <= CacheCap + Cardinality(Trimmers) /\ KeyedOnce(overviews)
  BY DEF TypeOK, StoreAssumption, SizeInv
<1>3. key \in CacheKey /\ new \in Overview
  <2>1. mine[r] \in Locals BY DEF TypeOK
  <2>2. key \in CacheKey /\ mine[r].plan \in Nat BY <2>1 DEF Locals
  <2>3. QED BY <2>2 DEF CacheKey, Overview
<1>4. KeyOf(new) = key BY <1>3 DEF KeyOf, CacheKey
<1>5. KeyedOnce(overviews') /\ Len(overviews') \in Nat /\ Len(overviews') <= Len(overviews) + 1
  <2>1. CASE Cached(key)
    <3> PICK put : put = [i \in DOMAIN overviews |-> IF KeyOf(overviews[i]) = key THEN new ELSE overviews[i]] OBVIOUS
    <3>1. Len(put) = Len(overviews) BY <1>2
    <3>2. \A i \in 1..Len(overviews) : KeyOf(put[i]) = KeyOf(overviews[i]) BY <1>2, <1>4
    <3>3. overviews' = put BY <1>1, <2>1
    <3>4. QED BY <1>2, <3>1, <3>2, <3>3 DEF KeyedOnce
  <2>2. CASE ~Cached(key)
    <3>1. \A i \in 1..Len(overviews) : KeyOf(overviews[i]) # key BY <1>2, <2>2 DEF Cached, ToSet
    <3>2. /\ overviews' = Append(overviews, new) /\ Len(Append(overviews, new)) = Len(overviews) + 1
          /\ Append(overviews, new)[Len(overviews) + 1] = new
          /\ \A i \in 1..Len(overviews) : Append(overviews, new)[i] = overviews[i]
      BY <1>1, <1>2, <1>3, <2>2
    <3>3. \A i \in 1..(Len(overviews) + 1) : i \in 1..Len(overviews) \/ i = Len(overviews) + 1 BY <1>2
    <3>4. QED BY <1>2, <1>4, <3>1, <3>2, <3>3 DEF KeyedOnce
  <2>3. QED BY <2>1, <2>2
<1>6. Cardinality(Trimmers') = Cardinality(Trimmers) + 1 /\ Cardinality(Trimmers) \in Nat
  <2>1. Trimmers' = Trimmers \cup {r} /\ r \notin Trimmers BY <1>1 DEF Trimmers, Go, TypeOK
  <2>2. QED BY <2>1, TrimmersAre, FS_AddElement
<1>7. Len(overviews') <= CacheCap + Cardinality(Trimmers') BY <1>2, <1>5, <1>6
<1>8. QED BY <1>5, <1>7 DEF SizeInv

LEMMA RequestBounds ==
  ASSUME StoreAssumption, TypeOK, SizeInv, NEW r \in Requests, Authenticate(r) \/ Progress(r)
  PROVE  SizeInv'
<1>1. /\ pc \in [Requests -> Stages] /\ mine \in [Requests -> Locals] /\ overviews \in Seq(Overview)
      /\ Len(overviews) \in Nat /\ CacheCap \in Nat
  BY DEF TypeOK, StoreAssumption
<1>2. mine[r].key \in CacheKey /\ mine[r].stale \in Seq(CacheKey)
  <2>1. mine[r] \in Locals BY <1>1
  <2>2. QED BY <2>1 DEF Locals
<1>3. IsFiniteSet(Trimmers') BY FS_Subset DEF Trimmers, StoreAssumption
<1>4. ASSUME pc' = pc \/ \E stage : Go(r, stage) /\ (r \in Trimmers => stage \in {"trimming", "discarding", "raised"}),
             overviews' = overviews \/ \E key \in CacheKey : overviews' = Uncached(key)
      PROVE  SizeInv'
  <2>1. Trimmers \subseteq Trimmers' BY <1>1, <1>4 DEF Trimmers, Go
  <2>2. QED BY <1>3, <1>4, <2>1, NothingAdded
<1>5. CASE Insert(r) BY <1>5, InsertBounds
<1>6. CASE Trim(r)
  <2>1. overviews' = overviews BY <1>6 DEF Trim
  <2>2. CASE Overfull BY <1>4, <1>6, <2>1, <2>2 DEF Trim
  <2>3. CASE ~Overfull
    <3>1. Len(overviews) <= CacheCap BY <1>1, <2>3 DEF Overfull
    <3>2. Cardinality(Trimmers') \in Nat BY <1>3, FS_CardinalityType
    <3>3. QED BY <1>1, <2>1, <3>1, <3>2 DEF SizeInv
  <2>4. QED BY <2>2, <2>3
<1>7. CASE Discard(r)
  <2>1. \E stage \in {"trimming", "raised"} : Go(r, stage) BY <1>7 DEF Discard
  <2>2. overviews' = overviews \/ overviews' = Uncached(mine[r].key) BY <1>7 DEF Discard
  <2>3. QED BY <1>2, <1>4, <2>1, <2>2
<1>8. CASE Forget(r)
  <2>1. pc[r] = "forgetting" /\ (pc' = pc \/ \E stage : Go(r, stage)) BY <1>8 DEF Forget
  <2>2. overviews' = overviews \/ (mine[r].stale # <<>> /\ overviews' = Uncached(Head(mine[r].stale)))
    BY <1>8 DEF Forget
  <2>3. mine[r].stale # <<>> => Head(mine[r].stale) \in CacheKey BY <1>2, HeadAndTail
  <2>4. QED BY <1>4, <2>1, <2>2, <2>3 DEF Trimmers
<1>9. CASE ~(Insert(r) \/ Trim(r) \/ Discard(r) \/ Forget(r))
  <2>1. overviews' = overviews /\ r \notin Trimmers
    BY <1>9 DEF Progress, Trimmers, Authenticate, ReadClock, Create, Get, Close, List, Drop, Clear, Erase,
                LookUp, Plan, Build
  <2>2. pc' = pc \/ \E stage : Go(r, stage)
    BY <1>9 DEF Progress, Authenticate, ReadClock, Create, Get, Close, List, Drop, Clear, Erase, LookUp, Plan, Build
  <2>3. QED BY <1>4, <2>1, <2>2
<1>10. QED BY <1>5, <1>6, <1>7, <1>8, <1>9

(* "Keep the dict small" (dashboard._remember), which tests the size and       *)
(* deletes without a lock: the cache is over its size by no more than the      *)
(* threads still trimming and those that raised, and a key is in it once.      *)
THEOREM OverviewsStayBounded == Spec => []OverviewsBounded
<1>1. Init => SizeInv
  <2> SUFFICES ASSUME Init PROVE SizeInv OBVIOUS
  <2>1. overviews = <<>> /\ Len(<<>>) = 0 BY DEF Init
  <2>2. Cardinality(Trimmers) \in Nat /\ CacheCap \in Nat BY StoreAssumption, TrimmersAre DEF StoreAssumption
  <2>3. QED BY <2>1, <2>2 DEF SizeInv, KeyedOnce
<1>2. TypeOK /\ SizeInv /\ [Next]_vars => SizeInv'
  <2> SUFFICES ASSUME TypeOK, SizeInv, [Next]_vars PROVE SizeInv' OBVIOUS
  <2>1. CASE UNCHANGED <<overviews, pc>> BY <2>1 DEF SizeInv, Trimmers
  <2>2. ASSUME NEW r \in Requests, Authenticate(r) \/ Progress(r) PROVE SizeInv'
    BY <2>2, StoreAssumption, RequestBounds
  <2>3. QED BY <2>1, <2>2 DEF Next, Tick, Operate, vars
<1>3. TypeOK /\ SizeInv => OverviewsBounded
  <2> SUFFICES ASSUME TypeOK, SizeInv PROVE OverviewsBounded OBVIOUS
  <2>1. DOMAIN overviews = 1..Len(overviews) BY DEF TypeOK
  <2>2. IsInjective([i \in DOMAIN overviews |-> KeyOf(overviews[i])])
    BY <2>1 DEF SizeInv, KeyedOnce, IsInjective
  <2>3. QED BY <2>2 DEF SizeInv, OverviewsBounded, Trimmers
<1>4. QED BY <1>1, <1>2, <1>3, SessionTypes, PTL DEF Spec

=============================================================================
