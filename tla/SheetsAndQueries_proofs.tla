------------------------ MODULE SheetsAndQueries_proofs ------------------------
(* Proofs about module Algorithms, what happens to a sheet and to a query: for *)
(* any cells, the header is found, the limits are kept, columns are converted  *)
(* and spellings folded as they should be; for any tables and queries, what is *)
(* joined, read and compared is what it should be.  And what these and later   *)
(* proofs need of numbers, lists, finite sets and sums.                        *)
EXTENDS Algorithms, FiniteSetTheorems, SequenceTheorems, TLAPS

------------------------------------------------------------------------------
(* Numbers, lists, finite sets and sums.                                      *)
(* Every set of natural numbers has a least one.                              *)
LEMMA Least ==
  ASSUME NEW T, T \subseteq Nat, T # {}
  PROVE  \E m \in T : \A k \in T : m <= k
<1>1. IsWellFoundedOn(OpToRel(<, Nat), Nat) BY NatLessThanWellFounded
<1>2. PICK m \in T : \A k \in T : ~(<<k, m>> \in OpToRel(<, Nat)) BY <1>1, WFMin
<1>3. \A k \in T : ~(k < m) BY <1>2 DEF OpToRel
<1>4. QED BY <1>3

(* What holds before the first member of a list, and after each member if it  *)
(* held before it, holds throughout.                                          *)
LEMMA Throughout ==
  ASSUME NEW n \in Nat, NEW G, 0 \in G, \A i \in 1..n : i - 1 \in G => i \in G
  PROVE  \A i \in 0..n : i \in G
<1> DEFINE Out == {i \in 0..n : i \notin G}
<1> SUFFICES ASSUME Out # {} PROVE FALSE OBVIOUS
<1>1. Out \subseteq Nat OBVIOUS
<1>2. PICK m \in Out : \A k \in Out : m <= k BY <1>1, Least
<1>3. m # 0 /\ m - 1 \in 0..n /\ m \in 1..n OBVIOUS
<1>4. m - 1 \in G BY <1>2, <1>3
<1>5. QED BY <1>3, <1>4

(* A recursion over the positions of a list has a result at each.             *)
Follows(g, A, b, n, F) == g \in [0..n -> A] /\ g[0] = b /\ \A i \in 1..n : g[i] = F[i][g[i - 1]]

LEMMA Recursion ==
  ASSUME NEW A, NEW b \in A, NEW n \in Nat, NEW F \in [1..n -> [A -> A]]
  PROVE  \E g : Follows(g, A, b, n, F)
<1> DEFINE Run(g, m) == g = [i \in 0..m |-> IF i = 0 THEN b ELSE F[i][g[i - 1]]]
           G == {m \in 0..n : \E g \in [0..m -> A] : Run(g, m)}
<1>1. 0 \in G
  <2> DEFINE g == [i \in 0..0 |-> b]
  <2>1. g \in [0..0 -> A] /\ g = [i \in 0..0 |-> IF i = 0 THEN b ELSE F[i][g[i - 1]]] OBVIOUS
  <2> HIDE DEF g
  <2>2. 0 \in 0..n OBVIOUS
  <2>3. QED BY <2>1, <2>2
<1>2. ASSUME NEW m \in 1..n, m - 1 \in G PROVE m \in G
  <2>1. PICK h \in [0..(m - 1) -> A] : Run(h, m - 1) BY <1>2
  <2> DEFINE g == [i \in 0..m |-> IF i = m THEN F[m][h[m - 1]] ELSE h[i]]
  <2>2. m - 1 \in 0..(m - 1) /\ m # 0 OBVIOUS
  <2>3. F[m][h[m - 1]] \in A BY <2>2
  <2>4. \A i \in 0..m : i # m => i \in 0..(m - 1) OBVIOUS
  <2>5. g \in [0..m -> A] BY <2>3, <2>4
  <2>6. ASSUME NEW i \in 0..m PROVE g[i] = IF i = 0 THEN b ELSE F[i][g[i - 1]]
    <3>1. CASE i = m
      <4>1. m - 1 \in 0..m /\ m - 1 # m OBVIOUS
      <4>2. g[m - 1] = h[m - 1] BY <4>1
      <4>3. QED BY <2>2, <3>1, <4>2
    <3>2. CASE i # m
      <4>1. i \in 0..(m - 1) /\ g[i] = h[i] BY <3>2
      <4>2. h[i] = IF i = 0 THEN b ELSE F[i][h[i - 1]] BY <2>1, <4>1
      <4>3. i # 0 => i - 1 \in 0..m /\ i - 1 # m BY <4>1
      <4>4. i # 0 => g[i - 1] = h[i - 1] BY <4>3
      <4>5. QED BY <4>1, <4>2, <4>4
    <3>3. QED BY <3>1, <3>2
  <2> HIDE DEF g
  <2>7. g = [i \in 0..m |-> g[i]] BY <2>5
  <2>8. Run(g, m) BY <2>6, <2>7
  <2>9. m \in 0..n OBVIOUS
  <2>10. QED BY <2>5, <2>8, <2>9
<1> HIDE DEF G
<1>3. \A i \in 0..n : i \in G BY <1>1, <1>2, Throughout
<1>4. n \in G BY <1>3
<1>5. PICK g \in [0..n -> A] : Run(g, n) BY <1>4 DEF G
<1>6. g[0] = b /\ \A i \in 1..n : g[i] = F[i][g[i - 1]] BY <1>5
<1>7. QED BY <1>6 DEF Follows

------------------------------------------------------------------------------
(* Lists.                                                                      *)
LEMMA InList ==
  ASSUME NEW T, NEW s \in Seq(T)
  PROVE  /\ Len(s) \in Nat /\ DOMAIN s = 1..Len(s) /\ \A i \in 1..Len(s) : s[i] \in T
         /\ \A x : x \in ToSet(s) <=> \E i \in 1..Len(s) : s[i] = x
         /\ ToSet(s) \subseteq T
         /\ IsFiniteSet(ToSet(s))
<1>1. Len(s) \in Nat /\ DOMAIN s = 1..Len(s) /\ \A i \in 1..Len(s) : s[i] \in T OBVIOUS
<1>2. \A x : x \in ToSet(s) <=> \E i \in 1..Len(s) : s[i] = x BY <1>1 DEF ToSet
<1>3. IsFiniteSet(1..Len(s)) BY <1>1, FS_Interval
<1>4. IsFiniteSet(ToSet(s))
  <2> DEFINE f == [i \in 1..Len(s) |-> s[i]]
  <2>1. f \in Surjection(1..Len(s), ToSet(s)) BY <1>2 DEF Surjection
  <2>2. QED BY <1>3, <2>1, FS_Surjection
<1>5. QED BY <1>1, <1>2, <1>4

LEMMA AsList ==
  ASSUME NEW T, NEW n \in Nat, NEW f \in [1..n -> T]
  PROVE  f \in Seq(T) /\ Len(f) = n
<1>1. f \in Seq(T) OBVIOUS
<1>2. DOMAIN f = 1..n /\ DOMAIN f = 1..Len(f) /\ Len(f) \in Nat BY <1>1, LenProperties
<1>3. QED BY <1>1, <1>2

LEMMA Appended ==
  ASSUME NEW T, NEW s \in Seq(T), NEW x \in T
  PROVE  Append(s, x) \in Seq(T) /\ ToSet(Append(s, x)) = ToSet(s) \cup {x} /\ Len(Append(s, x)) = Len(s) + 1
<1>1. /\ Append(s, x) \in Seq(T) /\ Len(Append(s, x)) = Len(s) + 1 /\ Len(s) \in Nat
      /\ Append(s, x)[Len(s) + 1] = x
      /\ \A i \in 1..Len(s) : Append(s, x)[i] = s[i]
  OBVIOUS
<1>a. PICK t : t = Append(s, x) OBVIOUS
<1>b. t \in Seq(T) /\ Len(t) = Len(s) + 1 BY <1>1, <1>a
<1>2. \A y : y \in ToSet(t) <=> \E i \in 1..(Len(s) + 1) : t[i] = y BY <1>b, InList
<1>3. \A y : y \in ToSet(s) <=> \E i \in 1..Len(s) : s[i] = y BY InList
<1>4. \A i \in 1..(Len(s) + 1) : i \in 1..Len(s) \/ i = Len(s) + 1 BY <1>1
<1>5. \A i \in 1..Len(s) : i \in 1..(Len(s) + 1) BY <1>1
<1>6. Len(s) + 1 \in 1..(Len(s) + 1) BY <1>1
<1>7. ASSUME NEW y PROVE y \in ToSet(t) <=> y \in ToSet(s) \cup {x}
  <2>1. y \in ToSet(t) => y \in ToSet(s) \cup {x} BY <1>1, <1>a, <1>2, <1>3, <1>4
  <2>2. y \in ToSet(s) \cup {x} => y \in ToSet(t) BY <1>1, <1>a, <1>2, <1>3, <1>5, <1>6
  <2>3. QED BY <2>1, <2>2
<1>8. QED BY <1>1, <1>a, <1>7

LEMMA Concatenated ==
  ASSUME NEW T, NEW s \in Seq(T), NEW u \in Seq(T)
  PROVE  s \o u \in Seq(T) /\ ToSet(s \o u) = ToSet(s) \cup ToSet(u) /\ Len(s \o u) = Len(s) + Len(u)
<1>1. /\ s \o u \in Seq(T) /\ Len(s \o u) = Len(s) + Len(u) /\ Len(s) \in Nat /\ Len(u) \in Nat
      /\ \A i \in 1..Len(s) : (s \o u)[i] = s[i]
      /\ \A i \in 1..Len(u) : (s \o u)[Len(s) + i] = u[i]
  OBVIOUS
<1>a. PICK t : t = s \o u OBVIOUS
<1>b. t \in Seq(T) /\ Len(t) = Len(s) + Len(u) BY <1>1, <1>a
<1>2. \A y : y \in ToSet(t) <=> \E i \in 1..(Len(s) + Len(u)) : t[i] = y BY <1>b, InList
<1>3. \A y : y \in ToSet(s) <=> \E i \in 1..Len(s) : s[i] = y BY InList
<1>4. \A y : y \in ToSet(u) <=> \E i \in 1..Len(u) : u[i] = y BY InList
<1>5. \A i \in 1..(Len(s) + Len(u)) : i \in 1..Len(s) \/ (i - Len(s) \in 1..Len(u) /\ i = Len(s) + (i - Len(s))) BY <1>1
<1>6. /\ \A i \in 1..Len(s) : i \in 1..(Len(s) + Len(u))
      /\ \A i \in 1..Len(u) : Len(s) + i \in 1..(Len(s) + Len(u))
  BY <1>1
<1>7. ASSUME NEW y PROVE y \in ToSet(t) <=> y \in ToSet(s) \cup ToSet(u)
  <2>1. y \in ToSet(t) => y \in ToSet(s) \cup ToSet(u)
    <3>1. SUFFICES ASSUME NEW i \in 1..(Len(s) + Len(u)), t[i] = y PROVE y \in ToSet(s) \cup ToSet(u) BY <1>2
    <3>2. CASE i \in 1..Len(s) BY <1>1, <1>a, <1>3, <3>1, <3>2
    <3>3. CASE i - Len(s) \in 1..Len(u) /\ i = Len(s) + (i - Len(s)) 
      <4>1. t[i] = u[i - Len(s)] BY <1>1, <1>a, <3>3
      <4>2. QED BY <1>4, <3>1, <3>3, <4>1
    <3>4. QED BY <1>5, <3>2, <3>3
  <2>2. y \in ToSet(s) => y \in ToSet(t) BY <1>1, <1>a, <1>2, <1>3, <1>6
  <2>3. y \in ToSet(u) => y \in ToSet(t) BY <1>1, <1>a, <1>2, <1>4, <1>6
  <2>4. QED BY <2>1, <2>2, <2>3
<1>8. QED BY <1>1, <1>a, <1>7

------------------------------------------------------------------------------
(* Sums over finite sets.                                                      *)
Sum(w, S) == MapThenSumSet(LAMBDA x : w[x], S)
Chosen(s) == CHOOSE x \in s : TRUE

(* What the fold of MapThenSumSet looks for.                                   *)
Adds(g, w, S) == g = [s \in SUBSET S |-> IF s = {} THEN 0 ELSE w[Chosen(s)] + g[s \ {Chosen(s)}]]

LEMMA SumIsChosen == 
  ASSUME NEW w, NEW S
  PROVE  Sum(w, S) = (CHOOSE g : Adds(g, w, S))[S]
BY DEF Sum, MapThenSumSet, MapThenFoldSet, Adds, Chosen

Sized(S, n) == {s \in SUBSET S : Cardinality(s) <= n}

LEMMA FewerSized ==
  ASSUME NEW S, IsFiniteSet(S), NEW n \in Nat, NEW s \in Sized(S, n), NEW x \in s
  PROVE  n > 0 /\ s \ {x} \in Sized(S, n - 1) /\ Cardinality(s \ {x}) = Cardinality(s) - 1 /\ IsFiniteSet(s)
<1>1. IsFiniteSet(s) BY FS_Subset DEF Sized
<1>2. Cardinality(s) \in Nat /\ Cardinality(s \ {x}) \in Nat BY <1>1, FS_CardinalityType, FS_Subset
<1>3. Cardinality(s \ {x}) = Cardinality(s) - 1 BY <1>1, FS_RemoveElement
<1>4. QED BY <1>1, <1>2, <1>3 DEF Sized

(* There is a function that adds up, on the subsets of ever larger size.       *)
LEMMA SumExists ==
  ASSUME NEW S, IsFiniteSet(S), NEW w \in [S -> Int]
  PROVE  \E g \in [SUBSET S -> Int] : Adds(g, w, S)
<1> DEFINE AddsTo(g, n) == g = [s \in Sized(S, n) |-> IF s = {} THEN 0 ELSE w[Chosen(s)] + g[s \ {Chosen(s)}]]
           Lacking == {n \in Nat : ~ \E g \in [Sized(S, n) -> Int] : AddsTo(g, n)}
<1>0. \A s \in SUBSET S : s # {} => Chosen(s) \in s BY DEF Chosen
<1>1. Lacking = {}
  <2> SUFFICES ASSUME Lacking # {} PROVE FALSE OBVIOUS
  <2>0. Lacking \subseteq Nat OBVIOUS
  <2>1. PICK m \in Lacking : \A k \in Lacking : m <= k BY <2>0, Least
  <2> HIDE DEF Lacking
  <2>2. ASSUME m = 0 PROVE FALSE
    <3> DEFINE g == [s \in Sized(S, 0) |-> 0]
    <3>1. \A s \in Sized(S, 0) : s = {}
      <4>1. ASSUME NEW s \in Sized(S, 0), NEW x \in s PROVE FALSE
        <5>1. 0 \in Nat /\ ~(0 > 0) OBVIOUS
        <5>2. QED BY ONLY <4>1, <5>1, FewerSized, IsFiniteSet(S)
      <4>2. QED BY <4>1
    <3>2. AddsTo(g, 0) BY <3>1
    <3>3. g \in [Sized(S, 0) -> Int] OBVIOUS
    <3>4. QED BY <2>1, <2>2, <3>2, <3>3 DEF Lacking
  <2>3. ASSUME m # 0 PROVE FALSE
    <3>1. m - 1 \in Nat /\ m - 1 \notin Lacking BY <2>0, <2>1, <2>3
    <3>2. PICK h \in [Sized(S, m - 1) -> Int] : AddsTo(h, m - 1) BY <3>1 DEF Lacking
    <3> DEFINE g == [s \in Sized(S, m) |-> IF s = {} THEN 0 ELSE w[Chosen(s)] + h[s \ {Chosen(s)}]]
    <3>3. ASSUME NEW s \in Sized(S, m), s # {} 
          PROVE  s \ {Chosen(s)} \in Sized(S, m - 1) /\ Chosen(s) \in S
      BY <1>0, <2>0, <2>1, <3>3, FewerSized DEF Sized
    <3>4. Sized(S, m - 1) \subseteq Sized(S, m)
      <4>1. ASSUME NEW s \in Sized(S, m - 1) PROVE s \in Sized(S, m)
        <5>1. Cardinality(s) \in Nat BY FS_Subset, FS_CardinalityType DEF Sized
        <5>2. QED BY <2>0, <2>1, <5>1 DEF Sized
      <4>2. QED BY <4>1
    <3>5. \A s \in Sized(S, m - 1) : g[s] = h[s] BY <3>2, <3>4
    <3>6. g \in [Sized(S, m) -> Int] BY <3>3
    <3>7. AddsTo(g, m) BY <3>3, <3>5
    <3> HIDE DEF g
    <3>8. QED BY <2>1, <3>6, <3>7 DEF Lacking
  <2>4. QED BY <2>2, <2>3
<1>2. PICK g \in [Sized(S, Cardinality(S)) -> Int] : AddsTo(g, Cardinality(S))
  BY <1>1, FS_CardinalityType
<1>3. Sized(S, Cardinality(S)) = SUBSET S BY FS_Subset DEF Sized
<1>4. QED BY <1>2, <1>3 DEF Adds

AnyFirst(g, w, S) == g[{}] = 0 /\ \A s \in SUBSET S : \A x \in s : g[s] = w[x] + g[s \ {x}]

(* The order in which the elements are taken does not matter.                  *)
LEMMA AnyOrder ==
  ASSUME NEW S, IsFiniteSet(S), NEW w \in [S -> Int], NEW g \in [SUBSET S -> Int], Adds(g, w, S)
  PROVE  AnyFirst(g, w, S)
<1> DEFINE Bad == {n \in Nat : \E s \in SUBSET S : Cardinality(s) = n /\ \E x \in s : g[s] # w[x] + g[s \ {x}]}
<1>0. \A s \in SUBSET S : s # {} => Chosen(s) \in s /\ g[s] = w[Chosen(s)] + g[s \ {Chosen(s)}]
  BY DEF Adds, Chosen
<1>1. Bad = {}
  <2> SUFFICES ASSUME Bad # {} PROVE FALSE OBVIOUS
  <2>0. Bad \subseteq Nat OBVIOUS
  <2>1. PICK m \in Bad : \A k \in Bad : m <= k BY <2>0, Least
  <2>2. PICK s \in SUBSET S : Cardinality(s) = m /\ \E x \in s : g[s] # w[x] + g[s \ {x}] BY <2>1
  <2>3. PICK x \in s : g[s] # w[x] + g[s \ {x}] BY <2>2
  <2> DEFINE y == Chosen(s)
  <2>4. y \in s /\ g[s] = w[y] + g[s \ {y}] BY <1>0, <2>3
  <2>5. x # y BY <2>3, <2>4
  <2>6. IsFiniteSet(s) BY FS_Subset
  <2>7. \A z \in s : Cardinality(s \ {z}) \in Nat /\ Cardinality(s \ {z}) = m - 1
    BY <2>2, <2>6, FS_RemoveElement, FS_CardinalityType
  <2>8. \A z \in s : Cardinality(s \ {z}) \notin Bad BY <2>0, <2>1, <2>7
  <2>9. \A z \in s : \A v \in s \ {z} : g[s \ {z}] = w[v] + g[(s \ {z}) \ {v}]
    <3>1. \A z \in s : s \ {z} \in SUBSET S OBVIOUS
    <3>2. QED BY <2>7, <2>8, <3>1
  <2> HIDE DEF Bad, y
  <2>10. (s \ {x}) \ {y} = (s \ {y}) \ {x} OBVIOUS
  <2>11. g[s \ {x}] = w[y] + g[(s \ {x}) \ {y}] BY <2>4, <2>5, <2>9
  <2>12. g[s \ {y}] = w[x] + g[(s \ {x}) \ {y}] BY <2>4, <2>5, <2>9, <2>10
  <2>13. w[x] \in Int /\ w[y] \in Int /\ g[(s \ {x}) \ {y}] \in Int BY <2>4
  <2>14. QED BY <2>3, <2>4, <2>11, <2>12, <2>13
<1>2. \A s \in SUBSET S : \A x \in s : g[s] = w[x] + g[s \ {x}]
  <2>1. ASSUME NEW s \in SUBSET S, NEW x \in s, g[s] # w[x] + g[s \ {x}] PROVE FALSE
    <3>1. Cardinality(s) \in Nat BY FS_Subset, FS_CardinalityType
    <3>2. Cardinality(s) \in Bad BY <2>1, <3>1
    <3>3. QED BY <1>1, <3>2
  <2>2. QED BY <2>1
<1>3. g[{}] = 0 BY DEF Adds
<1>4. QED BY <1>2, <1>3 DEF AnyFirst

(* A sum is the value of one additive function, whatever it is asked of.       *)
LEMMA SumIsAdditive ==
  ASSUME NEW D, IsFiniteSet(D), NEW w \in [D -> Int], NEW g \in [SUBSET D -> Int], Adds(g, w, D), NEW S \in SUBSET D
  PROVE  Sum(w, S) = g[S]
<1> DEFINE h == CHOOSE f : Adds(f, w, S)
           r == [s \in SUBSET S |-> g[s]]
<1>1. Adds(r, w, S)
  <2>1. \A s \in SUBSET S : s # {} => Chosen(s) \in s BY DEF Chosen
  <2>2. \A s \in SUBSET S : g[s] = IF s = {} THEN 0 ELSE w[Chosen(s)] + g[s \ {Chosen(s)}] BY DEF Adds
  <2>3. \A s \in SUBSET S : s \ {Chosen(s)} \in SUBSET S OBVIOUS
  <2>4. \A s \in SUBSET S : r[s] = g[s] OBVIOUS
  <2>5. r = [s \in SUBSET S |-> IF s = {} THEN 0 ELSE w[Chosen(s)] + r[s \ {Chosen(s)}]]
    BY <2>2, <2>3, <2>4
  <2>6. QED BY <2>5 DEF Adds
<1>2. Adds(h, w, S) BY <1>1
<1> HIDE DEF h, r
<1> DEFINE Bad == {n \in Nat : \E s \in SUBSET S : Cardinality(s) = n /\ h[s] # g[s]}
<1>3. Bad = {}
  <2> SUFFICES ASSUME Bad # {} PROVE FALSE OBVIOUS
  <2>0. Bad \subseteq Nat OBVIOUS
  <2>1. PICK m \in Bad : \A k \in Bad : m <= k BY <2>0, Least
  <2>2. PICK s \in SUBSET S : Cardinality(s) = m /\ h[s] # g[s] BY <2>1
  <2> DEFINE y == Chosen(s)
  <2>3. g[s] = (IF s = {} THEN 0 ELSE w[y] + g[s \ {y}]) /\ h[s] = (IF s = {} THEN 0 ELSE w[y] + h[s \ {y}])
    BY <1>2 DEF Adds
  <2>4. s # {} /\ y \in s BY <2>2, <2>3 DEF Chosen
  <2>5. IsFiniteSet(s) BY FS_Subset
  <2>6. Cardinality(s \ {y}) \in Nat /\ Cardinality(s \ {y}) = m - 1
    BY <2>2, <2>4, <2>5, FS_RemoveElement, FS_CardinalityType
  <2> HIDE DEF Bad, y
  <2>7. Cardinality(s \ {y}) \notin Bad BY <2>0, <2>1, <2>6
  <2>8. h[s \ {y}] = g[s \ {y}]
    <3>1. s \ {y} \in SUBSET S OBVIOUS
    <3>2. QED BY <2>6, <2>7, <3>1 DEF Bad
  <2>9. QED BY <2>2, <2>3, <2>4, <2>8
<1>4. h[S] = g[S]
  <2>1. Cardinality(S) \in Nat BY FS_Subset, FS_CardinalityType
  <2>2. QED BY <1>3, <2>1
<1>5. QED BY <1>4, SumIsChosen DEF h

LEMMA SumFacts ==
  ASSUME NEW D, IsFiniteSet(D), NEW w \in [D -> Int]
  PROVE  /\ Sum(w, {}) = 0
         /\ \A S \in SUBSET D : Sum(w, S) \in Int
         /\ \A S \in SUBSET D : \A x \in S : Sum(w, S) = w[x] + Sum(w, S \ {x})
<1>1. PICK g \in [SUBSET D -> Int] : Adds(g, w, D) BY SumExists
<1>2. \A S \in SUBSET D : Sum(w, S) = g[S] BY <1>1, SumIsAdditive
<1>3. AnyFirst(g, w, D) BY <1>1, AnyOrder
<1>4. \A S \in SUBSET D : \A x \in S : S \ {x} \in SUBSET D OBVIOUS
<1>5. QED BY <1>2, <1>3, <1>4 DEF AnyFirst

LEMMA SumStep ==
  ASSUME NEW D, IsFiniteSet(D), NEW w \in [D -> Int], NEW S \in SUBSET D, NEW x \in S
  PROVE  Sum(w, S) = w[x] + Sum(w, S \ {x}) /\ Sum(w, S) \in Int /\ Sum(w, S \ {x}) \in Int /\ w[x] \in Int
<1>1. Sum(w, S) = w[x] + Sum(w, S \ {x}) BY SumFacts
<1>2. S \ {x} \in SUBSET D OBVIOUS
<1>3. Sum(w, S) \in Int /\ Sum(w, S \ {x}) \in Int BY <1>2, SumFacts
<1>4. QED BY <1>1, <1>3

(* The library's sum is this one, and a sum over the first positions grows     *)
(* position by position.                                                       *)
LEMMA SumIsSum ==
  ASSUME NEW w, NEW S
  PROVE  SumFunctionOnSet(w, S) = Sum(w, S)
BY DEF SumFunctionOnSet, FoldFunctionOnSet, Sum, MapThenSumSet

LEMMA SumOfFirst ==
  ASSUME NEW n \in Nat, NEW D, D = 1..n, NEW w \in [D -> Int]
  PROVE  /\ Sum(w, 1..0) = 0
         /\ \A k \in D : Sum(w, 1..k) = Sum(w, 1..(k - 1)) + w[k] /\ Sum(w, 1..k) \in Int /\ Sum(w, 1..(k - 1)) \in Int
<1>1. IsFiniteSet(D) BY FS_Interval
<1>2. 1..0 = {} OBVIOUS
<1>3. \A k \in D : 1..k \in SUBSET D /\ 1..(k - 1) \in SUBSET D /\ k \in 1..k /\ (1..k) \ {k} = 1..(k - 1) OBVIOUS
<1>4. Sum(w, {}) = 0 BY <1>1, SumFacts
<1>5. ASSUME NEW k \in D
      PROVE  Sum(w, 1..k) = Sum(w, 1..(k - 1)) + w[k] /\ Sum(w, 1..k) \in Int /\ Sum(w, 1..(k - 1)) \in Int
  <2>1. PICK S \in SUBSET D : S = 1..k BY <1>3
  <2>2. k \in S /\ S \ {k} = 1..(k - 1) BY <1>3, <2>1
  <2>3. /\ Sum(w, S) = w[k] + Sum(w, S \ {k}) /\ Sum(w, S) \in Int /\ Sum(w, S \ {k}) \in Int /\ w[k] \in Int
    BY ONLY <1>1, <2>2, SumStep
  <2> HIDE DEF Sum
  <2>4. S = 1..k /\ S \ {k} = 1..(k - 1) BY <1>3, <2>1, <2>2
  <2>5. /\ Sum(w, 1..k) = w[k] + Sum(w, 1..(k - 1))
        /\ Sum(w, 1..k) \in Int /\ Sum(w, 1..(k - 1)) \in Int /\ w[k] \in Int
    BY ONLY <2>3, <2>4
  <2>6. QED BY ONLY <2>5
<1>6. QED BY <1>2, <1>4, <1>5

LEMMA SumGrows ==
  ASSUME NEW n \in Nat, NEW w \in [1..n -> Int]
  PROVE  /\ Sum(w, 1..0) = 0
         /\ \A k \in 1..n : Sum(w, 1..k) = Sum(w, 1..(k - 1)) + w[k] /\ Sum(w, 1..k) \in Int /\ Sum(w, 1..(k - 1)) \in Int
<1>1. PICK D : D = 1..n OBVIOUS
<1>2. w \in [D -> Int] BY <1>1
<1>3. /\ Sum(w, 1..0) = 0
      /\ \A k \in D : Sum(w, 1..k) = Sum(w, 1..(k - 1)) + w[k] /\ Sum(w, 1..k) \in Int /\ Sum(w, 1..(k - 1)) \in Int
  BY ONLY n \in Nat, <1>1, <1>2, SumOfFirst
<1>4. QED BY ONLY <1>1, <1>3

------------------------------------------------------------------------------
(* Finite sets.                                                                *)

(* In a finite set that is not empty, and in which any two can be compared,    *)
(* one is at least as good as all.                                             *)
Comparable(S, R) ==
  /\ \A x, y \in S : <<x, y>> \in R \/ <<y, x>> \in R
  /\ \A x, y, z \in S : <<x, y>> \in R /\ <<y, z>> \in R => <<x, z>> \in R

LEMMA Best ==
  ASSUME NEW S, IsFiniteSet(S), S # {}, NEW R, Comparable(S, R)
  PROVE  \E m \in S : \A x \in S : <<m, x>> \in R
<1> DEFINE HasBest(T) == \E m \in T : \A x \in T : <<m, x>> \in R
           Bad == {n \in Nat : \E T \in SUBSET S : T # {} /\ Cardinality(T) = n /\ ~HasBest(T)}
<1>1. Bad = {}
  <2> SUFFICES ASSUME Bad # {} PROVE FALSE OBVIOUS
  <2>0. Bad \subseteq Nat OBVIOUS
  <2>1. PICK n \in Bad : \A k \in Bad : n <= k BY <2>0, Least
  <2>2. PICK T \in SUBSET S : T # {} /\ Cardinality(T) = n /\ ~HasBest(T) BY <2>1
  <2>3. PICK y \in T : TRUE BY <2>2
  <2>4. IsFiniteSet(T) BY FS_Subset
  <2>5. Cardinality(T \ {y}) \in Nat /\ Cardinality(T \ {y}) = n - 1
    BY <2>2, <2>3, <2>4, FS_RemoveElement, FS_CardinalityType
  <2>6. Cardinality(T \ {y}) \notin Bad
    <3> HIDE DEF Bad
    <3>1. n \in Nat /\ ~(n <= n - 1) BY <2>0, <2>1
    <3>2. QED BY <2>1, <2>5, <3>1
  <2>7. T \ {y} # {} => HasBest(T \ {y})
    <3>1. T \ {y} \in SUBSET S OBVIOUS
    <3>2. QED BY <2>5, <2>6, <3>1
  <2>8. <<y, y>> \in R BY <2>3 DEF Comparable
  <2>9. CASE T \ {y} = {} BY <2>2, <2>3, <2>8, <2>9
  <2>10. CASE T \ {y} # {}
    <3>1. PICK m \in T \ {y} : \A x \in T \ {y} : <<m, x>> \in R BY <2>7, <2>10
    <3>2. CASE <<m, y>> \in R BY <2>2, <3>1, <3>2
    <3>3. CASE <<y, m>> \in R
      <4>1. \A x \in T : <<y, x>> \in R BY <2>3, <2>8, <3>1, <3>3 DEF Comparable
      <4>2. QED BY <2>2, <2>3, <4>1
    <3>4. QED BY <2>3, <3>1, <3>2, <3>3 DEF Comparable
  <2>11. QED BY <2>9, <2>10
<1>2. Cardinality(S) \in Nat BY FS_CardinalityType
<1>3. QED BY <1>1, <1>2

(* What a function makes of a finite set is one.                               *)
LEMMA Images ==
  ASSUME NEW S, IsFiniteSet(S), NEW f
  PROVE  IsFiniteSet({f[x] : x \in S}) /\ Cardinality({f[x] : x \in S}) <= Cardinality(S)
<1> DEFINE g == [x \in S |-> f[x]]
           T == {f[x] : x \in S}
<1>1. g \in Surjection(S, T) BY DEF Surjection
<1>2. QED BY <1>1, FS_Surjection

LEMMA MaxIs ==
  ASSUME NEW S, IsFiniteSet(S), S # {}, S \subseteq Int
  PROVE  Max(S) \in S /\ \A x \in S : x <= Max(S)
<1> DEFINE R == {p \in Int \X Int : p[1] >= p[2]}
<1>1. \A x, y \in S : <<x, y>> \in R <=> x >= y OBVIOUS
<1>2. Comparable(S, R) BY <1>1 DEF Comparable
<1> HIDE DEF R
<1>3. \E m \in S : \A x \in S : m >= x BY <1>1, <1>2, Best
<1>4. Max(S) \in S /\ \A x \in S : Max(S) >= x BY <1>3 DEF Max
<1>5. QED BY <1>4

LEMMA MinIs ==
  ASSUME NEW S, IsFiniteSet(S), S # {}, S \subseteq Int
  PROVE  Min(S) \in S /\ \A x \in S : Min(S) <= x
<1> DEFINE R == {p \in Int \X Int : p[1] <= p[2]}
<1>1. \A x, y \in S : <<x, y>> \in R <=> x <= y OBVIOUS
<1>2. Comparable(S, R) BY <1>1 DEF Comparable
<1> HIDE DEF R
<1>3. \E m \in S : \A x \in S : m <= x BY <1>1, <1>2, Best
<1>4. QED BY <1>3 DEF Min

(* How many there are.                                                         *)
LEMMA Counted ==
  ASSUME NEW S, IsFiniteSet(S)
  PROVE  /\ Cardinality(S) \in Nat
         /\ Cardinality(S) = 0 <=> S = {}
         /\ \A T \in SUBSET S : IsFiniteSet(T) /\ Cardinality(T) \in Nat /\ Cardinality(T) <= Cardinality(S)
         /\ \A T \in SUBSET S : Cardinality(T) = Cardinality(S) => T = S
         /\ Cardinality(S) = 1 <=> \E x : S = {x}
         /\ \A T \in SUBSET S : Cardinality(S \ T) = Cardinality(S) - Cardinality(T)
<1>1. Cardinality(S) \in Nat /\ (Cardinality(S) = 0 <=> S = {}) BY FS_CardinalityType, FS_EmptySet
<1>2. \A T \in SUBSET S : IsFiniteSet(T) /\ Cardinality(T) <= Cardinality(S) /\ (Cardinality(T) = Cardinality(S) => T = S)
  BY FS_Subset
<1>3. \A T \in SUBSET S : Cardinality(T) \in Nat BY <1>2, FS_CardinalityType
<1>4. Cardinality(S) = 1 <=> \E x : S = {x} BY FS_Singleton
<1>5. \A T \in SUBSET S : Cardinality(S \ T) = Cardinality(S) - Cardinality(T)
  <2>1. ASSUME NEW T \in SUBSET S PROVE Cardinality(S \ T) = Cardinality(S) - Cardinality(T)
    <3>1. S \cap T = T OBVIOUS
    <3>2. QED BY <3>1, FS_Difference
  <2>2. QED BY <2>1
<1>6. QED BY <1>1, <1>2, <1>3, <1>4, <1>5

(* The positions of a list that meet a condition are finitely many.            *)
LEMMA Positions ==
  ASSUME NEW n \in Nat, NEW S, S \subseteq 1..n
  PROVE  IsFiniteSet(S) /\ Cardinality(S) \in 0..n /\ Cardinality(1..n) = n
<1>1. IsFiniteSet(1..n) /\ Cardinality(1..n) = n BY FS_Interval
<1>2. S \in SUBSET (1..n) OBVIOUS
<1>3. IsFiniteSet(S) /\ Cardinality(S) \in Nat /\ Cardinality(S) <= Cardinality(1..n) BY <1>1, <1>2, Counted
<1>4. QED BY <1>1, <1>3

(* What holds of no elements, and of any of them if it holds of one less,      *)
(* holds of all.                                                               *)
LEMMA SetGrows ==
  ASSUME NEW S, IsFiniteSet(S), NEW G, {} \in G,
         \A T \in SUBSET S : \A x \in T : T \ {x} \in G => T \in G
  PROVE  \A T \in SUBSET S : T \in G
<1> DEFINE n == Cardinality(S)
           H == {k \in 0..n : \A T \in SUBSET S : Cardinality(T) = k => T \in G}
<1>1. n \in Nat /\ \A T \in SUBSET S : IsFiniteSet(T) /\ Cardinality(T) \in 0..n
  <2>1. Cardinality(S) \in Nat BY FS_CardinalityType
  <2>2. \A T \in SUBSET S : IsFiniteSet(T) /\ Cardinality(T) \in Nat /\ Cardinality(T) <= Cardinality(S) BY Counted
  <2>3. QED BY <2>1, <2>2
<1>2. 0 \in H
  <2>1. \A T \in SUBSET S : Cardinality(T) = 0 => T = {} BY <1>1, FS_EmptySet
  <2>2. 0 \in 0..n BY <1>1
  <2>3. \A T \in SUBSET S : Cardinality(T) = 0 => T \in G BY <2>1
  <2>4. QED BY <2>2, <2>3
<1>3. ASSUME NEW i \in 1..n, i - 1 \in H PROVE i \in H
  <2>1. ASSUME NEW T \in SUBSET S, Cardinality(T) = i PROVE T \in G
    <3>1. IsFiniteSet(T) /\ T # {} BY <1>1, <2>1, FS_EmptySet
    <3>2. PICK x : x \in T BY <3>1
    <3>3. Cardinality(T \ {x}) = i - 1 BY <2>1, <3>1, <3>2, FS_RemoveElement
    <3>4. T \ {x} \in G BY <1>3, <3>3
    <3>5. QED BY <3>2, <3>4
  <2>2. QED BY <1>1, <2>1
<1>4. \A i \in 0..n : i \in H
  <2> HIDE DEF H, n
  <2>1. QED BY <1>1, <1>2, <1>3, Throughout
<1>5. QED BY <1>1, <1>4

------------------------------------------------------------------------------
(* A sum lies between as many times the least and the greatest.               *)
LEMMA SumBounds ==
  ASSUME NEW D, IsFiniteSet(D), NEW w \in [D -> Int], NEW low \in Int, NEW high \in Int,
         NEW S \in SUBSET D, \A x \in S : low <= w[x] /\ w[x] <= high
  PROVE  low * Cardinality(S) <= Sum(w, S) /\ Sum(w, S) <= high * Cardinality(S)
<1> DEFINE Good(T) == low * Cardinality(T) <= Sum(w, T) /\ Sum(w, T) <= high * Cardinality(T)
           G == {T \in SUBSET S : Good(T)}
<1>1. IsFiniteSet(S) BY FS_Subset
<1>2. {} \in G
  <2>1. Cardinality({}) = 0 /\ Sum(w, {}) = 0 BY FS_EmptySet, SumFacts
  <2>2. QED BY <2>1
<1>3. ASSUME NEW T \in SUBSET S, NEW x \in T, T \ {x} \in G PROVE T \in G
  <2> DEFINE c == Cardinality(T)
             a == Sum(w, T)
             b == Sum(w, T \ {x})
  <2>1. T \in SUBSET D OBVIOUS
  <2>2. a = w[x] + b /\ a \in Int /\ b \in Int /\ w[x] \in Int BY ONLY <2>1, IsFiniteSet(D), w \in [D -> Int], x \in T, SumStep
  <2>3. IsFiniteSet(T) BY <1>1, FS_Subset
  <2>4. c \in Nat /\ Cardinality(T \ {x}) = c - 1 BY <2>3, FS_RemoveElement, FS_CardinalityType
  <2>5. low * (c - 1) <= b /\ b <= high * (c - 1) BY <1>3, <2>4
  <2>6. low <= w[x] /\ w[x] <= high OBVIOUS
  <2>7. low * c = low * (c - 1) + low /\ high * c = high * (c - 1) + high /\ low * (c - 1) \in Int /\ high * (c - 1) \in Int
    <3> HIDE DEF c
    <3>1. QED BY ONLY <2>4, low \in Int, high \in Int
  <2>8. low * c <= a /\ a <= high * c
    <3> DEFINE l == low * (c - 1)
               h == high * (c - 1)
    <3>1. l \in Int /\ h \in Int /\ l <= b /\ b <= h /\ low * c = l + low /\ high * c = h + high BY <2>5, <2>7
    <3> HIDE DEF a, b, c, l, h
    <3>2. QED BY ONLY <2>2, <2>6, <3>1, low \in Int, high \in Int
  <2>9. QED BY <2>8
<1>4. S \in G
  <2>1. \A T \in SUBSET S : \A x \in T : T \ {x} \in G => T \in G BY <1>3
  <2> HIDE DEF G
  <2>2. QED BY <1>1, <1>2, <2>1, SetGrows
<1>5. QED BY <1>4

(* Parts add up.                                                              *)
LEMMA SumSplit ==
  ASSUME NEW D, IsFiniteSet(D), NEW w \in [D -> Int], NEW S \in SUBSET D, NEW T \in SUBSET S
  PROVE  Sum(w, S) = Sum(w, T) + Sum(w, S \ T) /\ Sum(w, S) \in Int /\ Sum(w, T) \in Int /\ Sum(w, S \ T) \in Int
<1> DEFINE G == {U \in SUBSET S : Sum(w, S) = Sum(w, U) + Sum(w, S \ U)}
<1>1. \A U \in SUBSET S : Sum(w, U) \in Int
  <2>1. \A U \in SUBSET D : Sum(w, U) \in Int BY SumFacts
  <2>2. QED BY <2>1
<1>2. {} \in G
  <2>1. Sum(w, {}) = 0 /\ S \ {} = S BY SumFacts
  <2>2. Sum(w, S) \in Int BY <1>1
  <2>3. Sum(w, S) = Sum(w, {}) + Sum(w, S \ {}) BY <2>1, <2>2
  <2>4. QED BY <2>3
<1>3. ASSUME NEW U \in SUBSET S, NEW x \in U, U \ {x} \in G PROVE U \in G
  <2> DEFINE V == S \ (U \ {x})
  <2>1. U \in SUBSET D /\ V \in SUBSET D /\ x \in V /\ V \ {x} = S \ U OBVIOUS
  <2>2. Sum(w, U) = w[x] + Sum(w, U \ {x}) /\ Sum(w, U \ {x}) \in Int /\ w[x] \in Int
    BY ONLY <2>1, IsFiniteSet(D), w \in [D -> Int], x \in U, SumStep
  <2>3. Sum(w, V) = w[x] + Sum(w, V \ {x}) /\ Sum(w, V \ {x}) \in Int
    BY ONLY <2>1, IsFiniteSet(D), w \in [D -> Int], SumStep
  <2>4. Sum(w, S) = Sum(w, U \ {x}) + Sum(w, V) BY <1>3
  <2>5. Sum(w, S) = Sum(w, U) + Sum(w, V \ {x})
    <3> HIDE DEF V
    <3>1. QED BY ONLY <2>2, <2>3, <2>4
  <2>6. QED BY <2>1, <2>5
<1>4. T \in G
  <2>1. IsFiniteSet(S) BY FS_Subset
  <2>2. \A U \in SUBSET S : \A x \in U : U \ {x} \in G => U \in G BY <1>3
  <2> HIDE DEF G
  <2>3. \A U \in SUBSET S : U \in G BY ONLY <1>2, <2>1, <2>2, SetGrows
  <2>4. QED BY <2>3
<1>5. S \ T \in SUBSET S OBVIOUS
<1>6. QED BY <1>1, <1>4, <1>5

(* Of what is not negative, no part is more than the whole.                   *)
LEMMA SumOfParts ==
  ASSUME NEW D, IsFiniteSet(D), NEW w \in [D -> Int], NEW S \in SUBSET D, \A x \in S : w[x] >= 0
  PROVE  \A T \in SUBSET S : 0 <= Sum(w, T) /\ Sum(w, T) <= Sum(w, S) /\ Sum(w, T) \in Int /\ Sum(w, S) \in Int
<1>1. \A T \in SUBSET S : 0 <= Sum(w, T)
  <2>1. ASSUME NEW U \in SUBSET S PROVE 0 <= Sum(w, U)
    <3> DEFINE G == {T \in SUBSET S : 0 <= Sum(w, T)}
    <3>1. {} \in G
      <4>1. Sum(w, {}) = 0 BY SumFacts
      <4>2. QED BY <4>1
    <3>2. ASSUME NEW T \in SUBSET S, NEW x \in T, T \ {x} \in G PROVE T \in G
      <4>1. T \in SUBSET D OBVIOUS
      <4>2. Sum(w, T) = w[x] + Sum(w, T \ {x}) /\ Sum(w, T \ {x}) \in Int /\ w[x] \in Int
        BY ONLY <4>1, IsFiniteSet(D), w \in [D -> Int], x \in T, SumStep
      <4>3. w[x] >= 0 /\ 0 <= Sum(w, T \ {x}) BY <3>2
      <4>4. 0 <= Sum(w, T) BY ONLY <4>2, <4>3
      <4>5. QED BY <4>4
    <3>3. U \in G
      <4>1. IsFiniteSet(S) BY FS_Subset
      <4>2. \A T \in SUBSET S : \A x \in T : T \ {x} \in G => T \in G BY <3>2
      <4> HIDE DEF G
      <4>3. \A T \in SUBSET S : T \in G BY ONLY <3>1, <4>1, <4>2, SetGrows
      <4>4. QED BY <4>3
    <3>4. QED BY <3>3
  <2>2. QED BY <2>1
<1>2. ASSUME NEW T \in SUBSET S PROVE Sum(w, T) <= Sum(w, S) /\ Sum(w, T) \in Int /\ Sum(w, S) \in Int
  <2>1. Sum(w, S) = Sum(w, T) + Sum(w, S \ T) /\ Sum(w, S) \in Int /\ Sum(w, T) \in Int /\ Sum(w, S \ T) \in Int
    BY ONLY IsFiniteSet(D), w \in [D -> Int], S \in SUBSET D, T \in SUBSET S, SumSplit
  <2>2. S \ T \in SUBSET S OBVIOUS
  <2>3. 0 <= Sum(w, S \ T) BY <1>1, <2>2
  <2>4. QED BY ONLY <2>1, <2>3
<1>3. QED BY <1>1, <1>2

(* Only the figures that are added matter.                                    *)
LEMMA SumSame ==
  ASSUME NEW D, IsFiniteSet(D), NEW w \in [D -> Int], NEW E, IsFiniteSet(E), NEW v \in [E -> Int],
         NEW S, S \in SUBSET D, S \in SUBSET E, \A x \in S : w[x] = v[x]
  PROVE  Sum(w, S) = Sum(v, S)
<1> DEFINE G == {T \in SUBSET S : Sum(w, T) = Sum(v, T)}
<1>1. {} \in G
  <2>1. Sum(w, {}) = 0 BY SumFacts
  <2>2. Sum(v, {}) = 0 BY SumFacts
  <2>3. QED BY <2>1, <2>2
<1>2. ASSUME NEW T \in SUBSET S, NEW x \in T, T \ {x} \in G PROVE T \in G
  <2>1. T \in SUBSET D /\ T \in SUBSET E OBVIOUS
  <2>2. Sum(w, T) = w[x] + Sum(w, T \ {x}) BY ONLY <2>1, IsFiniteSet(D), w \in [D -> Int], x \in T, SumStep
  <2>3. Sum(v, T) = v[x] + Sum(v, T \ {x}) BY ONLY <2>1, IsFiniteSet(E), v \in [E -> Int], x \in T, SumStep
  <2>4. w[x] = v[x] /\ Sum(w, T \ {x}) = Sum(v, T \ {x}) BY <1>2
  <2>5. QED BY <2>2, <2>3, <2>4
<1>3. S \in G
  <2>1. IsFiniteSet(S) BY FS_Subset
  <2>2. \A T \in SUBSET S : \A x \in T : T \ {x} \in G => T \in G BY <1>2
  <2> HIDE DEF G
  <2>3. QED BY <1>1, <2>1, <2>2, SetGrows
<1>4. QED BY <1>3

(* The sums of the classes of a division add up to the sum.                   *)
LEMMA SumOfClasses ==
  ASSUME NEW D, IsFiniteSet(D), NEW w \in [D -> Int], NEW N, IsFiniteSet(N), NEW f \in [D -> N]
  PROVE  Sum([s \in N |-> Sum(w, {x \in D : f[x] = s})], N) = Sum(w, D)
<1> DEFINE Class(T, s) == {x \in T : f[x] = s}
           H(T) == [s \in N |-> Sum(w, Class(T, s))]
           G == {T \in SUBSET D : Sum(H(T), N) = Sum(w, T)}
<1>1. \A T \in SUBSET D : \A s \in N : Sum(w, Class(T, s)) \in Int
  <2>1. \A U \in SUBSET D : Sum(w, U) \in Int BY SumFacts
  <2>2. QED BY <2>1
<1>2. \A T \in SUBSET D : H(T) \in [N -> Int] BY <1>1
<1>3. {} \in G
  <2>1. Sum(w, {}) = 0 BY SumFacts
  <2>2. \A s \in N : Class({}, s) = {} OBVIOUS
  <2>3. PICK h : h = H({}) OBVIOUS
  <2>4. h \in [N -> Int] /\ \A s \in N : 0 <= h[s] /\ h[s] <= 0 BY <1>2, <2>1, <2>2, <2>3
  <2>5. 0 * Cardinality(N) <= Sum(h, N) /\ Sum(h, N) <= 0 * Cardinality(N) /\ N \in SUBSET N /\ 0 \in Int
    <3>1. N \in SUBSET N /\ 0 \in Int OBVIOUS
    <3>2. QED BY ONLY <2>4, <3>1, IsFiniteSet(N), SumBounds
  <2>6. Sum(h, N) \in Int /\ Cardinality(N) \in Nat
    <3>1. \A T \in SUBSET N : Sum(h, T) \in Int BY ONLY <2>4, IsFiniteSet(N), SumFacts
    <3>2. QED BY <3>1, FS_CardinalityType
  <2>7. Sum(h, N) = 0 BY ONLY <2>5, <2>6
  <2>8. QED BY <2>1, <2>3, <2>7
<1>4. ASSUME NEW T \in SUBSET D, NEW x \in T, T \ {x} \in G PROVE T \in G
  <2>1. PICK h : h = H(T) OBVIOUS
  <2>2. PICK k : k = H(T \ {x}) OBVIOUS
  <2>3. PICK s : s = f[x] OBVIOUS
  <2>4. h \in [N -> Int] /\ k \in [N -> Int] /\ s \in N BY <1>2, <2>1, <2>2, <2>3
  <2>5. Sum(h, N) = h[s] + Sum(h, N \ {s}) /\ h[s] \in Int
    <3>1. N \in SUBSET N OBVIOUS
    <3>2. QED BY ONLY <2>4, <3>1, IsFiniteSet(N), SumStep
  <2>6. Sum(k, N) = k[s] + Sum(k, N \ {s}) /\ Sum(k, N \ {s}) \in Int /\ k[s] \in Int
    <3>1. N \in SUBSET N OBVIOUS
    <3>2. QED BY ONLY <2>4, <3>1, IsFiniteSet(N), SumStep
  <2>7. Sum(h, N \ {s}) = Sum(k, N \ {s})
    <3>1. \A r \in N \ {s} : Class(T, r) = Class(T \ {x}, r) BY <2>3
    <3>2. \A r \in N \ {s} : h[r] = k[r] BY <2>1, <2>2, <3>1
    <3>3. N \ {s} \in SUBSET N OBVIOUS
    <3>4. QED BY ONLY <2>4, <3>2, <3>3, IsFiniteSet(N), SumSame
  <2>8. h[s] = w[x] + k[s] /\ w[x] \in Int
    <3>1. PICK C : C = Class(T, s) OBVIOUS
    <3>2. x \in C /\ C \ {x} = Class(T \ {x}, s) /\ C \in SUBSET D BY <2>3, <3>1
    <3>3. Sum(w, C) = w[x] + Sum(w, C \ {x}) /\ w[x] \in Int BY ONLY <3>2, IsFiniteSet(D), w \in [D -> Int], SumStep
    <3>4. h[s] = Sum(w, C) /\ k[s] = Sum(w, C \ {x}) BY <2>1, <2>2, <2>4, <3>1, <3>2
    <3>5. QED BY <3>3, <3>4
  <2>9. Sum(w, T) = w[x] + Sum(w, T \ {x}) /\ Sum(w, T \ {x}) \in Int
    <3>1. PICK C : C = T OBVIOUS
    <3>2. C \in SUBSET D /\ x \in C BY <3>1
    <3>3. Sum(w, C) = w[x] + Sum(w, C \ {x}) /\ Sum(w, C \ {x}) \in Int
      BY ONLY <3>2, IsFiniteSet(D), w \in [D -> Int], SumStep
    <3>4. QED BY <3>1, <3>3
  <2>10. Sum(k, N) = Sum(w, T \ {x}) BY <1>4, <2>2
  <2>11. Sum(h, N) = Sum(w, T) BY ONLY <2>5, <2>6, <2>7, <2>8, <2>9, <2>10
  <2>12. QED BY <2>1, <2>11
<1>5. D \in G
  <2>1. \A T \in SUBSET D : \A x \in T : T \ {x} \in G => T \in G BY <1>4
  <2> HIDE DEF G
  <2>2. QED BY <1>3, <2>1, SetGrows
<1>6. QED BY <1>5

------------------------------------------------------------------------------
(* A question that was asked was asked of one of its inputs.                  *)
AnInput == question # "none" => input \in Inputs[question]

LEMMA OnlyInputs == Spec => []AnInput
<1>1. Init => AnInput BY DEF Init, AnInput
<1>2. AnInput /\ [Next]_vars => AnInput' BY DEF AnInput, Next, Ask, vars
<1>3. QED BY <1>1, <1>2, PTL DEF Spec

------------------------------------------------------------------------------
(* Sheets.                                                                    *)
(* The widest row. *)
LEMMA WidthIs ==
  ASSUME NEW T, NEW grid \in Seq(Seq(T))
  PROVE  /\ Width(grid) \in Nat /\ \A i \in 1..Len(grid) : Len(grid[i]) <= Width(grid)
         /\ grid # <<>> => Width(grid) = WidthUpTo(grid, Len(grid))
<1> DEFINE n == Len(grid)
           lengths == {Len(grid[i]) : i \in 1..n}
           all == {0} \cup {Len(r) : r \in ToSet(grid)}
<1>1. n \in Nat /\ \A i \in 1..n : grid[i] \in Seq(T) /\ Len(grid[i]) \in Nat OBVIOUS
<1>2. all = {0} \cup lengths BY InList
<1>3. IsFiniteSet(lengths)
  <2> DEFINE f == [i \in 1..n |-> Len(grid[i])]
  <2>1. f \in Surjection(1..n, lengths) BY DEF Surjection
  <2>2. IsFiniteSet(1..n) BY <1>1, FS_Interval
  <2>3. QED BY <2>1, <2>2, FS_Surjection
<1>4. IsFiniteSet({0} \cup lengths) /\ {0} \cup lengths # {} /\ {0} \cup lengths \subseteq Int
  <2>1. IsFiniteSet(lengths \cup {0}) BY <1>3, FS_AddElement
  <2>2. lengths \cup {0} = {0} \cup lengths OBVIOUS
  <2>3. lengths \subseteq Int BY <1>1
  <2>4. {0} \cup lengths \subseteq Int BY <2>3
  <2> HIDE DEF lengths
  <2>5. QED BY <2>1, <2>2, <2>4
<1>5. Width(grid) = Max({0} \cup lengths) BY <1>2 DEF Width
<1>6. Width(grid) \in {0} \cup lengths /\ \A x \in {0} \cup lengths : x <= Width(grid) BY <1>4, <1>5, MaxIs
<1>7. Width(grid) \in Nat BY <1>1, <1>6
<1>8. ASSUME grid # <<>> PROVE Width(grid) = WidthUpTo(grid, n)
  <2>1. n > 0 /\ 1 \in 1..n BY <1>1, <1>8
  <2>2. lengths # {} /\ lengths \subseteq Int BY <1>1, <2>1
  <2>3. WidthUpTo(grid, n) = Max(lengths) BY DEF WidthUpTo
  <2>4. WidthUpTo(grid, n) \in lengths /\ \A x \in lengths : x <= WidthUpTo(grid, n) BY <1>3, <2>2, <2>3, MaxIs
  <2>5. WidthUpTo(grid, n) \in Nat BY <1>1, <2>4
  <2>6. Width(grid) <= WidthUpTo(grid, n) /\ WidthUpTo(grid, n) <= Width(grid) BY <1>6, <2>4, <2>5
  <2>7. QED BY <1>7, <2>5, <2>6
<1>9. QED BY <1>6, <1>7, <1>8

LEMMA PaddedIs ==
  ASSUME NEW T, NEW grid \in Seq(Seq(T))
  PROVE  Len(Pad(grid)) * Width(Pad(grid)) = Size(grid) /\ Size(grid) \in Nat
<1> DEFINE w == Width(grid)
           n == Len(grid)
           padded == Pad(grid)
<1>1. w \in Nat /\ n \in Nat BY WidthIs
<1>2. padded = [i \in 1..n |-> [j \in 1..w |-> IF j <= Len(grid[i]) THEN grid[i][j] ELSE Blank]] BY DEF Pad
<1>3. \A i \in 1..n : padded[i] \in Seq(T \cup {Blank}) /\ Len(padded[i]) = w
  <2>1. ASSUME NEW i \in 1..n PROVE padded[i] \in Seq(T \cup {Blank}) /\ Len(padded[i]) = w
    <3>1. grid[i] \in Seq(T) OBVIOUS
    <3>2. \A j \in 1..w : j <= Len(grid[i]) => grid[i][j] \in T BY <1>1, <3>1
    <3>3. padded[i] \in [1..w -> T \cup {Blank}] BY <1>2, <3>2
    <3>4. QED BY <1>1, <3>3, AsList
  <2>2. QED BY <2>1
<1>4. padded \in Seq(Seq(T \cup {Blank})) /\ Len(padded) = n
  <2>1. padded \in [1..n -> Seq(T \cup {Blank})] BY <1>2, <1>3
  <2>2. QED BY <1>1, <2>1, AsList
<1> HIDE DEF padded, w
<1>5. n = 0 \/ Width(padded) = w
  <2>1. SUFFICES ASSUME n # 0 PROVE Width(padded) = w OBVIOUS
  <2>2. 1 \in 1..n BY <1>1, <2>1
  <2>3. padded # <<>> BY <1>1, <1>4, <2>1
  <2>4. {Len(padded[i]) : i \in 1..n} = {w} BY <1>3, <2>2
  <2>5. WidthUpTo(padded, n) = Max({w}) BY <2>4 DEF WidthUpTo
  <2>6. Max({w}) = w BY <1>1 DEF Max
  <2>7. QED BY <1>4, <2>3, <2>5, <2>6, WidthIs
<1>6. Width(padded) \in Nat BY <1>4, WidthIs
<1>7. Size(grid) = w * n BY DEF Size, w
<1>8. n * Width(padded) = w * n
  <2>1. CASE n = 0 BY <1>1, <1>6, <2>1
  <2>2. CASE Width(padded) = w BY <1>1, <2>2
  <2>3. QED BY <1>5, <2>1, <2>2
<1>9. w * n \in Nat BY <1>1
<1>10. QED BY <1>4, <1>7, <1>8, <1>9 DEF padded

LEMMA MemoryBound ==
  ASSUME NEW T, NEW sheets \in Seq(Seq(Seq(T))), NEW limits \in [columns : Nat, rows : Nat, cells : Nat]
  PROVE  MemoryIsBounded(sheets, limits)
<1> DEFINE n == Len(sheets)
           rows == [s \in 1..n |-> Len(sheets[s])]
           cells == [s \in 1..n |-> Size(sheets[s])]
           padded == [s \in 1..n |-> Len(Pad(sheets[s])) * Width(Pad(sheets[s]))]
<1> SUFFICES ASSUME ReadsAll(sheets, limits)
             PROVE  RowsOf(sheets, n) <= limits.rows /\ SumFunctionOnSet(padded, 1..n) <= limits.cells
  BY DEF MemoryIsBounded
<1>1. n \in Nat /\ \A s \in 1..n : sheets[s] \in Seq(Seq(T)) /\ Len(sheets[s]) \in Nat OBVIOUS
<1>2. \A s \in 1..n : Len(Pad(sheets[s])) * Width(Pad(sheets[s])) = Size(sheets[s]) /\ Size(sheets[s]) \in Nat
  BY <1>1, PaddedIs
<1>3. padded = cells /\ cells \in [1..n -> Nat] /\ cells \in [1..n -> Int] BY <1>2
<1>4. rows \in [1..n -> Nat] /\ rows \in [1..n -> Int] BY <1>1
<1>5. \A k \in 0..n : RowsOf(sheets, k) = Sum(rows, 1..k) /\ CellsOf(sheets, k) = Sum(cells, 1..k)
  BY SumIsSum DEF RowsOf, CellsOf
<1>6. \A s \in 1..n : Readable(sheets[s], limits, limits.rows - Sum(rows, 1..(s - 1)), limits.cells - Sum(cells, 1..(s - 1)))
  <2>1. ASSUME NEW s \in 1..n
        PROVE  Readable(sheets[s], limits, limits.rows - Sum(rows, 1..(s - 1)), limits.cells - Sum(cells, 1..(s - 1)))
    <3>1. s - 1 \in 0..n BY <1>1
    <3>2. QED BY <1>5, <2>1, <3>1 DEF ReadsAll
  <2>2. QED BY <2>1
<1> DEFINE G == {k \in 0..n : Sum(rows, 1..k) <= limits.rows /\ Sum(cells, 1..k) <= limits.cells}
<1>7. 0 \in G
  <2>1. Sum(rows, 1..0) = 0 /\ Sum(cells, 1..0) = 0 BY <1>1, <1>3, <1>4, SumGrows
  <2>2. QED BY <1>1, <2>1
<1>8. ASSUME NEW s \in 1..n, s - 1 \in G PROVE s \in G
  <2> DEFINE sheet == sheets[s]
             r == Sum(rows, 1..(s - 1))
             c == Sum(cells, 1..(s - 1))
  <2>1. Sum(rows, 1..s) = r + rows[s] /\ r \in Int BY <1>1, <1>4, SumGrows
  <2>2. Sum(cells, 1..s) = c + cells[s] /\ c \in Int BY <1>1, <1>3, SumGrows
  <2>3. r <= limits.rows /\ c <= limits.cells BY <1>8
  <2>4. rows[s] = Len(sheet) /\ cells[s] = Width(sheet) * Len(sheet) BY DEF Size
  <2>5. sheet \in Seq(Seq(T)) BY <1>1
  <2>6. Width(sheet) \in Nat BY <2>5, WidthIs
  <2>7. Len(sheet) <= limits.rows - r /\ Width(sheet) * Len(sheet) <= limits.cells - c
    <3>1. CASE sheet = <<>>
      <4>1. Len(sheet) = 0 BY <3>1
      <4>2. Width(sheet) * Len(sheet) = 0 BY <2>6, <4>1
      <4>3. r \in Int /\ c \in Int /\ limits.rows \in Nat /\ limits.cells \in Nat BY <2>1, <2>2
      <4> HIDE DEF r, c
      <4>4. QED BY <2>3, <4>1, <4>2, <4>3
    <3>2. CASE sheet # <<>>
      <4>1. Len(sheet) \in 1..Len(sheet) BY <2>5, <3>2
      <4>2. WithinBudget(sheet, Len(sheet), limits.rows - r, limits.cells - c) BY <1>6, <4>1 DEF Readable
      <4>3. Width(sheet) = WidthUpTo(sheet, Len(sheet)) BY <2>5, <3>2, WidthIs
      <4>4. QED BY <4>2, <4>3 DEF WithinBudget
    <3>3. QED BY <3>1, <3>2
  <2>8. Len(sheet) \in Nat /\ Width(sheet) * Len(sheet) \in Nat BY <1>2, <2>5 DEF Size
  <2> HIDE DEF sheet, r, c
  <2>9. Sum(rows, 1..s) <= limits.rows /\ Sum(cells, 1..s) <= limits.cells
    <3> HIDE DEF rows, cells
    <3>1. QED BY <2>1, <2>2, <2>4, <2>7, <2>8
  <2>10. QED BY <2>9
<1>9. \A k \in 0..n : k \in G
  <2> HIDE DEF G
  <2>1. QED BY <1>1, <1>7, <1>8, Throughout
<1>10. n \in G
  <2>1. n \in 0..n BY <1>1
  <2> HIDE DEF G
  <2>2. QED BY <1>9, <2>1
<1>11. QED BY <1>1, <1>3, <1>5, <1>10, SumIsSum

(* Fractions.                                                                 *)
LEMMA Times ==
  ASSUME NEW x \in Nat, NEW y \in Nat, NEW k \in Nat
  PROVE  /\ x * k \in Nat /\ x * k = k * x
         /\ x <= y => x * k <= y * k
         /\ x < y /\ 0 < k => x * k < y * k
         /\ 0 < x /\ 0 < k => 0 < x * k
OBVIOUS

LEMMA Thrice ==
  ASSUME NEW x \in Nat, NEW y \in Nat, NEW z \in Nat
  PROVE  (x * y) * z = (x * z) * y
OBVIOUS

Fraction(x) == x.num \in Nat /\ x.den \in Nat /\ 0 < x.den

LEMMA FractionsAreOrdered ==
  ASSUME NEW x, NEW y, NEW z, Fraction(x), Fraction(y), Fraction(z)
  PROVE  /\ AtLeast(x, 10, y) \/ AtLeast(y, 10, x)
         /\ AtLeast(x, 10, y) /\ AtLeast(y, 10, z) => AtLeast(x, 10, z)
<1>1. PICK a, b, c, d, e, f : a = x.num /\ b = x.den /\ c = y.num /\ d = y.den /\ e = z.num /\ f = z.den OBVIOUS
<1>2. /\ a \in Nat /\ b \in Nat /\ c \in Nat /\ d \in Nat /\ e \in Nat /\ f \in Nat
      /\ 0 < b /\ 0 < d /\ 0 < f
  BY <1>1 DEF Fraction
<1>3. a * d \in Nat /\ c * b \in Nat /\ c * f \in Nat /\ e * d \in Nat /\ a * f \in Nat /\ e * b \in Nat BY <1>2, Times
<1>4. /\ \A m, n, q, r \in Nat : 10 * m * n >= 10 * q * r <=> m * n >= q * r
  <2>1. ASSUME NEW m \in Nat, NEW n \in Nat, NEW q \in Nat, NEW r \in Nat
        PROVE  10 * m * n >= 10 * q * r <=> m * n >= q * r
    <3>1. PICK s, t : s = m * n /\ t = q * r OBVIOUS
    <3>2. s \in Nat /\ t \in Nat BY <3>1, Times
    <3>3. 10 * m * n = 10 * s /\ 10 * q * r = 10 * t BY <3>1
    <3>4. QED BY <3>1, <3>2, <3>3
  <2>2. QED BY <2>1
<1>5. /\ AtLeast(x, 10, y) <=> a * d >= c * b
      /\ AtLeast(y, 10, x) <=> c * b >= a * d
      /\ AtLeast(y, 10, z) <=> c * f >= e * d
      /\ AtLeast(x, 10, z) <=> a * f >= e * b
  BY <1>1, <1>2, <1>4 DEF AtLeast
<1>6. ASSUME a * d >= c * b, c * f >= e * d PROVE a * f >= e * b
  <2> SUFFICES ASSUME a * f < e * b PROVE FALSE BY <1>3
  <2>1. (a * f) * d < (e * b) * d BY <1>2, <1>3, Times
  <2>2. (c * b) * f <= (a * d) * f BY <1>2, <1>3, <1>6, Times
  <2>3. (e * d) * b <= (c * f) * b BY <1>2, <1>3, <1>6, Times
  <2>4. (a * d) * f = (a * f) * d /\ (c * b) * f = (c * f) * b /\ (e * d) * b = (e * b) * d BY <1>2, Thrice
  <2>5. (a * f) * d \in Nat /\ (e * b) * d \in Nat /\ (c * f) * b \in Nat BY <1>2, <1>3, Times
  <2>6. QED BY <2>1, <2>2, <2>3, <2>4, <2>5
<1>7. QED BY <1>3, <1>5, <1>6

------------------------------------------------------------------------------
(* What a row of a grid scores.                                               *)
LEMMA FilledIs ==
  ASSUME NEW T, NEW w \in Nat, NEW row \in [1..w -> T]
  PROVE  /\ Filled(row) \subseteq 1..w /\ IsFiniteSet(Filled(row))
         /\ Cardinality(Filled(row)) \in 0..w
         /\ Cardinality({i \in Filled(row) : IsWording(row[i])}) \in 0..Cardinality(Filled(row))
         /\ Cardinality({row[i] : i \in Filled(row)}) \in 0..Cardinality(Filled(row))
<1>1. Filled(row) \subseteq 1..w BY DEF Filled
<1>2. PICK F : F = Filled(row) OBVIOUS
<1>3. IsFiniteSet(F) /\ Cardinality(F) \in 0..w BY <1>1, <1>2, Positions
<1>4. {i \in F : IsWording(row[i])} \in SUBSET F OBVIOUS
<1>5. Cardinality({i \in F : IsWording(row[i])}) \in Nat
      /\ Cardinality({i \in F : IsWording(row[i])}) <= Cardinality(F)
  BY <1>3, <1>4, Counted
<1>6. IsFiniteSet({row[i] : i \in F}) /\ Cardinality({row[i] : i \in F}) <= Cardinality(F) BY <1>3, Images
<1>7. Cardinality({row[i] : i \in F}) \in Nat BY <1>6, FS_CardinalityType
<1>8. QED BY <1>1, <1>2, <1>3, <1>5, <1>6, <1>7

LEMMA ScoreIs ==
  ASSUME NEW T, NEW w \in Nat, NEW row \in [1..w -> T]
  PROVE  /\ Fraction(Score(row, w)) /\ Score(row, w).num <= Score(row, w).den
         /\ 2 * Cardinality(Filled(row)) < w => Score(row, w).num = 0
<1>1. PICK n : n = Cardinality(Filled(row)) OBVIOUS
<1>2. PICK a : a = Cardinality({i \in Filled(row) : IsWording(row[i])}) OBVIOUS
<1>3. PICK d : d = Cardinality({row[i] : i \in Filled(row)}) OBVIOUS
<1>4. n \in 0..w /\ a \in 0..n /\ d \in 0..n BY <1>1, <1>2, <1>3, FilledIs
<1>5. Score(row, w) = IF n = 0 \/ 2 * n < w THEN [num |-> 0, den |-> 1] ELSE [num |-> a * d, den |-> w * n]
  BY <1>1, <1>2, <1>3 DEF Score
<1>6. CASE n = 0 \/ 2 * n < w BY <1>1, <1>5, <1>6 DEF Fraction
<1>7. CASE ~(n = 0 \/ 2 * n < w)
  <2>1. n \in Nat /\ w \in Nat /\ a \in Nat /\ d \in Nat /\ 0 < n /\ 0 < w /\ d <= w /\ a <= n BY <1>4, <1>7
  <2>2. a * d \in Nat /\ w * n \in Nat /\ 0 < w * n BY <2>1, Times
  <2>3. a * d <= n * d /\ d * n <= w * n /\ n * d = d * n BY <2>1, Times
  <2>4. n * d \in Nat BY <2>1, Times
  <2>5. a * d <= w * n BY <2>2, <2>3, <2>4
  <2>6. QED BY <1>1, <1>5, <1>7, <2>2, <2>5 DEF Fraction
<1>8. QED BY <1>6, <1>7

(* A grid: rows of one width.                                                  *)
Grid(grid, T, w) == w \in Nat /\ grid \in Seq([1..w -> T])

LEMMA GridIs ==
  ASSUME NEW T, NEW w, NEW grid, Grid(grid, T, w), grid # <<>>
  PROVE  /\ Len(grid) \in Nat /\ 0 < Len(grid)
         /\ \A i \in 1..Len(grid) : grid[i] \in [1..w -> T] /\ Len(grid[i]) = w
         /\ Width(grid) = w
<1>1. PICK R : R = [1..w -> T] OBVIOUS
<1>2. grid \in Seq(R) /\ w \in Nat BY <1>1 DEF Grid
<1>3. Len(grid) \in Nat /\ \A i \in 1..Len(grid) : grid[i] \in R BY <1>2, InList
<1>4. 0 < Len(grid) BY <1>2, EmptySeq
<1>5. \A i \in 1..Len(grid) : Len(grid[i]) = w BY <1>1, <1>2, <1>3, AsList
<1>6. {Len(r) : r \in ToSet(grid)} = {w}
  <2>1. \A r : r \in ToSet(grid) <=> \E i \in 1..Len(grid) : grid[i] = r BY <1>2, InList
  <2>2. \A r \in ToSet(grid) : Len(r) = w BY <1>5, <2>1
  <2>3. 1 \in 1..Len(grid) BY <1>3, <1>4
  <2>4. grid[1] \in ToSet(grid) BY <2>1, <2>3
  <2>5. QED BY <2>2, <2>4
<1>7. Width(grid) = Max({0, w})
  <2>1. {0} \cup {Len(r) : r \in ToSet(grid)} = {0, w} BY <1>6
  <2>2. QED BY <2>1 DEF Width
<1>8. PICK S : S = {0, w} OBVIOUS
<1>9. IsFiniteSet(S) /\ S # {} /\ S \subseteq Int
  <2>1. IsFiniteSet({0}) /\ IsFiniteSet({0} \cup {w}) BY FS_Singleton, FS_AddElement
  <2>2. S = {0} \cup {w} BY <1>8
  <2>3. IsFiniteSet(S) BY <2>1, <2>2
  <2>4. S # {} /\ S \subseteq Int BY <1>2, <1>8
  <2>5. QED BY <2>3, <2>4
<1>10. Max(S) \in S /\ \A x \in S : x <= Max(S) BY <1>9, MaxIs
<1>11. Max(S) = w BY <1>2, <1>8, <1>10
<1>12. QED BY <1>1, <1>3, <1>4, <1>5, <1>7, <1>8, <1>11

Top(grid) == 1..Min({SearchRows, Len(grid)})

LEMMA TopIs ==
  ASSUME NEW grid, Len(grid) \in Nat, 0 < Len(grid)
  PROVE  /\ IsFiniteSet(Top(grid)) /\ Top(grid) # {} /\ Top(grid) \subseteq 1..Len(grid)
         /\ \A h \in 1..Len(grid) : h <= SearchRows => h \in Top(grid)
         /\ \A i \in Top(grid) : \A j \in 1..i : j \in Top(grid)
<1>1. PICK S : S = {SearchRows, Len(grid)} OBVIOUS
<1>2. IsFiniteSet(S) /\ S # {} /\ S \subseteq Int
  <2>1. IsFiniteSet({SearchRows}) /\ IsFiniteSet({SearchRows} \cup {Len(grid)}) BY FS_Singleton, FS_AddElement
  <2>2. S = {SearchRows} \cup {Len(grid)} BY <1>1
  <2>3. IsFiniteSet(S) /\ S # {} BY <2>1, <2>2
  <2>4. S \subseteq Int BY <1>1 DEF SearchRows
  <2>5. QED BY <2>3, <2>4
<1>3. Min(S) \in S /\ \A x \in S : Min(S) <= x BY <1>2, MinIs
<1>4. PICK m : m = Min(S) OBVIOUS
<1>5. m \in Nat /\ 0 < m /\ m <= Len(grid) /\ (m = SearchRows \/ m = Len(grid)) BY <1>1, <1>3, <1>4 DEF SearchRows
<1>6. Top(grid) = 1..m BY <1>1, <1>4 DEF Top
<1>7. IsFiniteSet(1..m) BY <1>5, FS_Interval
<1>8. QED BY <1>5, <1>6, <1>7 DEF SearchRows

(* The best score, and the first row close to it.                              *)
LEMMA HeaderRowIs ==
  ASSUME NEW T, NEW w, NEW grid, Grid(grid, T, w), grid # <<>>
  PROVE  \E best : /\ Fraction(best) /\ best.num <= best.den
                   /\ \A j \in Top(grid) : AtLeast(best, 10, Score(grid[j], w))
                   /\ HeaderRow(grid) = IF best.num = 0
                                        THEN FirstWhere({i \in Top(grid) : Filled(grid[i]) # {}}, 1)
                                        ELSE Min({i \in Top(grid) : CloseToBest(Score(grid[i], w), best)})
                   /\ \E i \in Top(grid) : best = Score(grid[i], w)
<1> DEFINE top == Top(grid)
           score == [i \in top |-> Score(grid[i], w)]
           R == {p \in top \X top : AtLeast(score[p[1]], 10, score[p[2]])}
<1>1. /\ Len(grid) \in Nat /\ 0 < Len(grid) /\ Width(grid) = w
      /\ \A i \in 1..Len(grid) : grid[i] \in [1..w -> T]
  BY GridIs
<1>2. IsFiniteSet(top) /\ top # {} /\ top \subseteq 1..Len(grid) BY <1>1, TopIs
<1>3. \A i \in top : Fraction(score[i]) /\ score[i].num <= score[i].den BY <1>1, <1>2, ScoreIs DEF Grid
<1>4. score = [i \in top |-> Score(grid[i], w)] OBVIOUS
<1>5. \A i, j \in top : <<i, j>> \in R <=> AtLeast(score[i], 10, score[j]) OBVIOUS
<1> HIDE DEF top, R, score
<1>6. Comparable(top, R)
  <2>1. \A i, j \in top : <<i, j>> \in R \/ <<j, i>> \in R BY <1>3, <1>5, FractionsAreOrdered
  <2>2. \A i, j, k \in top : <<i, j>> \in R /\ <<j, k>> \in R => <<i, k>> \in R BY <1>3, <1>5, FractionsAreOrdered
  <2>3. QED BY <2>1, <2>2 DEF Comparable
<1>7. \E m \in top : \A x \in top : <<m, x>> \in R BY <1>2, <1>6, Best
<1>8. \E m \in top : \A j \in top : AtLeast(score[m], 10, score[j]) BY <1>5, <1>7
<1>9. PICK place : place = CHOOSE i \in top : \A j \in top : AtLeast(score[i], 10, score[j]) OBVIOUS
<1>10. place \in top /\ \A j \in top : AtLeast(score[place], 10, score[j]) BY <1>8, <1>9
<1>11. PICK best : best = score[place] OBVIOUS
<1>12. HeaderRow(grid) = IF best.num = 0
                         THEN FirstWhere({i \in top : Filled(grid[i]) # {}}, 1)
                         ELSE Min({i \in top : CloseToBest(score[i], best)})
  BY <1>1, <1>4, <1>9, <1>11 DEF HeaderRow, top, Top
<1>13. \A i \in top : score[i] = Score(grid[i], w) BY <1>4
<1>14. {i \in top : CloseToBest(score[i], best)} = {i \in top : CloseToBest(Score(grid[i], w), best)} BY <1>13
<1>15. Fraction(best) /\ best.num <= best.den BY <1>3, <1>10, <1>11
<1>16. \A j \in top : AtLeast(best, 10, Score(grid[j], w)) BY <1>10, <1>11, <1>13
<1>17. best = Score(grid[place], w) BY <1>10, <1>11, <1>13
<1>18. QED BY <1>10, <1>12, <1>14, <1>15, <1>16, <1>17 DEF top

LEMMA HeaderIsARow ==
  ASSUME NEW T, NEW w, NEW grid, Grid(grid, T, w), grid # <<>>
  PROVE  HeaderRow(grid) \in 1..Len(grid)
<1>1. PICK best : /\ Fraction(best)
                  /\ HeaderRow(grid) = IF best.num = 0
                                       THEN FirstWhere({i \in Top(grid) : Filled(grid[i]) # {}}, 1)
                                       ELSE Min({i \in Top(grid) : CloseToBest(Score(grid[i], w), best)})
                  /\ \E i \in Top(grid) : best = Score(grid[i], w)
  BY HeaderRowIs
<1>2. Len(grid) \in Nat /\ 0 < Len(grid) BY GridIs
<1>3. IsFiniteSet(Top(grid)) /\ Top(grid) \subseteq 1..Len(grid) BY <1>2, TopIs
<1>4. ASSUME NEW S, S \subseteq Top(grid), S # {} PROVE Min(S) \in 1..Len(grid)
  <2>1. IsFiniteSet(S) /\ S \subseteq Int BY <1>3, <1>4, FS_Subset
  <2>2. Min(S) \in S BY <1>4, <2>1, MinIs
  <2>3. QED BY <1>3, <1>4, <2>2
<1>5. CloseToBest(best, best)
  <2>1. PICK a, b : a = best.num /\ b = best.den OBVIOUS
  <2>2. a \in Nat /\ b \in Nat BY <1>1, <2>1 DEF Fraction
  <2>3. PICK c : c = a * b OBVIOUS
  <2>4. c \in Nat BY <2>2, <2>3, Times
  <2>5. 10 * a * b = 10 * c /\ 7 * a * b = 7 * c BY <2>2, <2>3
  <2>6. 10 * a * b >= 7 * a * b BY <2>4, <2>5
  <2>7. QED BY <2>1, <2>6 DEF CloseToBest, AtLeast
<1>6. CASE best.num = 0
  <2>1. PICK S : S = {i \in Top(grid) : Filled(grid[i]) # {}} OBVIOUS
  <2>2. HeaderRow(grid) = IF S = {} THEN 1 ELSE Min(S) BY <1>1, <1>6, <2>1 DEF FirstWhere
  <2>3. CASE S = {} BY <1>2, <2>2, <2>3
  <2>4. CASE S # {} BY <1>4, <2>1, <2>2, <2>4
  <2>5. QED BY <2>3, <2>4
<1>7. CASE best.num # 0
  <2>1. PICK S : S = {i \in Top(grid) : CloseToBest(Score(grid[i], w), best)} OBVIOUS
  <2>2. S # {} BY <1>1, <1>5, <2>1
  <2>3. Min(S) \in 1..Len(grid) BY <1>4, <2>1, <2>2
  <2>4. QED BY <1>1, <1>7, <2>1, <2>3
<1>8. QED BY <1>6, <1>7

(* Titles above, one cell of the header blank or repeated.                     *)
LEMMA HeadersAreFound ==
  ASSUME NEW T, NEW w, NEW grid, Grid(grid, T, w), w >= 4, NEW h \in 1..Len(grid), h <= SearchRows
  PROVE  HeaderIsFound(grid, h)
<1> SUFFICES ASSUME IsHeaderLike(grid[h]), \A i \in 1..(h - 1) : IsTitle(grid[i])
             PROVE  HeaderRow(grid) = h
  BY DEF HeaderIsFound
<1>0. grid # <<>> BY GridIs DEF Grid
<1>1. /\ Len(grid) \in Nat /\ 0 < Len(grid) /\ w \in Nat
      /\ \A i \in 1..Len(grid) : grid[i] \in [1..w -> T] /\ Len(grid[i]) = w
  BY <1>0, GridIs DEF Grid
<1>2. /\ IsFiniteSet(Top(grid)) /\ Top(grid) \subseteq 1..Len(grid) /\ h \in Top(grid)
      /\ \A j \in 1..h : j \in Top(grid)
  BY <1>1, TopIs
<1>3. PICK best : /\ Fraction(best) /\ best.num <= best.den
                  /\ \A j \in Top(grid) : AtLeast(best, 10, Score(grid[j], w))
                  /\ HeaderRow(grid) = IF best.num = 0
                                       THEN FirstWhere({i \in Top(grid) : Filled(grid[i]) # {}}, 1)
                                       ELSE Min({i \in Top(grid) : CloseToBest(Score(grid[i], w), best)})
                  /\ \E i \in Top(grid) : best = Score(grid[i], w)
  BY <1>0, HeaderRowIs
<1>4. PICK u, v : u = best.num /\ v = best.den OBVIOUS
<1>5. u \in Nat /\ v \in Nat /\ 0 < v /\ u <= v BY <1>3, <1>4 DEF Fraction
<1>6. PICK n : n = Cardinality(Filled(grid[h])) OBVIOUS
<1>7. PICK d : d = Cardinality({grid[h][i] : i \in Filled(grid[h])}) OBVIOUS
<1>8. n \in 0..w /\ d \in 0..n /\ d >= w - 1 BY <1>1, <1>6, <1>7, FilledIs DEF IsHeaderLike
<1>9. Score(grid[h], w) = [num |-> n * d, den |-> w * n]
  <2>1. {i \in Filled(grid[h]) : IsWording(grid[h][i])} = Filled(grid[h]) BY DEF IsHeaderLike
  <2>2. ~(n = 0 \/ 2 * n < w) BY <1>1, <1>8
  <2>3. QED BY <1>6, <1>7, <2>1, <2>2 DEF Score
<1>10. n \in Nat /\ d \in Nat /\ 0 < n /\ 0 < d BY <1>1, <1>8
<1>11. n * d \in Nat /\ 0 < n * d /\ w * n \in Nat /\ 0 < w * n BY <1>1, <1>10, Times
<1>12. u # 0
  <2> SUFFICES ASSUME u = 0 PROVE FALSE OBVIOUS
  <2>1. 10 * u * (w * n) >= 10 * (n * d) * v BY <1>2, <1>3, <1>4, <1>9 DEF AtLeast
  <2>2. 10 * u * (w * n) = 0
    <3>1. PICK k : k = w * n OBVIOUS
    <3>2. 10 * 0 * k = 0 BY <1>11, <3>1
    <3>3. QED BY <3>1, <3>2
  <2>3. PICK k : k = n * d OBVIOUS
  <2>4. k * v \in Nat /\ 0 < k * v BY <1>5, <1>11, <2>3, Times
  <2>5. 10 * k * v = 10 * (k * v) BY <1>5, <1>11, <2>3
  <2>6. QED BY <2>1, <2>2, <2>3, <2>4, <2>5
<1>13. CloseToBest(Score(grid[h], w), best)
  <2>1. 7 * w <= 10 * d BY <1>1, <1>8
  <2>2. (7 * w) * n <= (10 * d) * n BY <1>1, <1>10, <2>1, Times
  <2>3. PICK p, q : p = (7 * w) * n /\ q = (10 * d) * n OBVIOUS
  <2>4. p \in Nat /\ q \in Nat /\ p <= q BY <1>1, <1>10, <2>2, <2>3, Times
  <2>5. p * u <= p * v /\ p * v <= q * v /\ p * u \in Nat /\ p * v \in Nat /\ q * v \in Nat
    BY <1>5, <2>4, Times
  <2>6. p * u <= q * v BY <2>5
  <2>7. 10 * (n * d) * v = q * v
    <3>1. 10 * (n * d) = q BY <1>10, <2>3
    <3>2. QED BY <3>1
  <2>8. 7 * u * (w * n) = p * u
    <3>1. PICK k : k = w * n OBVIOUS
    <3>2. p = 7 * k BY <1>1, <1>10, <2>3, <3>1
    <3>3. 7 * u * k = (7 * k) * u BY <1>5, <1>11, <3>1
    <3>4. QED BY <3>1, <3>2, <3>3
  <2>9. 10 * (n * d) * v >= 7 * u * (w * n) BY <2>5, <2>6, <2>7, <2>8
  <2>10. QED BY <1>4, <1>9, <2>9 DEF CloseToBest, AtLeast
<1>14. ASSUME NEW i \in 1..(h - 1) PROVE ~CloseToBest(Score(grid[i], w), best)
  <2>1. i \in 1..Len(grid) /\ i \in Top(grid) BY <1>1, <1>2
  <2>2. PICK m : m = Cardinality(Filled(grid[i])) OBVIOUS
  <2>3. m \in 0..w /\ m <= 1 BY <1>1, <1>14, <2>1, <2>2, FilledIs DEF IsTitle
  <2>4. 2 * m < w BY <1>1, <2>3
  <2>5. Score(grid[i], w) = [num |-> 0, den |-> 1] BY <2>2, <2>4 DEF Score
  <2>6. 10 * 0 * v = 0 /\ 7 * u * 1 = 7 * u BY <1>5
  <2>7. ~(10 * 0 * v >= 7 * u * 1) BY <1>5, <1>12, <2>6
  <2>8. QED BY <1>4, <2>5, <2>7 DEF CloseToBest, AtLeast
<1>15. PICK S : S = {i \in Top(grid) : CloseToBest(Score(grid[i], w), best)} OBVIOUS
<1>16. h \in S /\ \A i \in S : i >= h
  <2>1. \A i \in S : i \in 1..Len(grid) /\ i \notin 1..(h - 1) BY <1>2, <1>14, <1>15
  <2>2. \A i \in 1..Len(grid) : i \notin 1..(h - 1) => i >= h BY <1>1
  <2>3. QED BY <1>2, <1>13, <1>15, <2>1, <2>2
<1>17. IsFiniteSet(S) /\ S # {} /\ S \subseteq Int BY <1>2, <1>15, <1>16, FS_Subset
<1>18. Min(S) \in S /\ \A i \in S : Min(S) <= i BY <1>17, MinIs
<1>19. Min(S) = h
  <2>1. PICK m : m = Min(S) OBVIOUS
  <2>2. m \in S /\ m <= h /\ m >= h /\ m \in Int /\ h \in Int BY <1>16, <1>17, <1>18, <2>1
  <2>3. m = h BY <2>2
  <2>4. QED BY <2>1, <2>3
<1>20. QED BY <1>3, <1>4, <1>12, <1>15, <1>19

------------------------------------------------------------------------------
(* The totals and sign-offs at the end, and nothing else.                      *)
LEMMA FootersAreTotals ==
  ASSUME NEW T, NEW rows \in Seq(T)
  PROVE  FooterIsOnlyTotals(rows)
<1> DEFINE n == Len(rows)
           Starts == {i \in 1..n : IsTotalRow(rows[i]) /\ IsFooter(rows, i)}
<1>1. n \in Nat BY InList
<1>2. PICK cut : cut = FirstWhere(Starts, n + 1) OBVIOUS
<1>3. PICK kept : kept = DropFooterTotals(rows) OBVIOUS
<1>4. PICK tt : tt = {i \in cut..n : IsTotalRow(rows[i])} OBVIOUS
<1>5. PICK nn : nn = {i \in cut..n : ~IsTotalRow(rows[i])} OBVIOUS
<1>6. kept = [rows |-> SubSeq(rows, 1, cut - 1), totals |-> Cardinality(tt), notes |-> Cardinality(nn)]
  BY <1>2, <1>3, <1>4, <1>5 DEF DropFooterTotals
<1> HIDE DEF Starts
<1>7. /\ cut \in 1..(n + 1)
      /\ cut <= n => cut \in Starts
      /\ \A i \in Starts : cut <= i
  <2>1. CASE Starts = {} BY <1>1, <1>2, <2>1 DEF FirstWhere
  <2>2. CASE Starts # {}
    <3>1. Starts \subseteq 1..n BY DEF Starts
    <3>2. IsFiniteSet(Starts) BY <1>1, <3>1, Positions
    <3>3. cut = Min(Starts) BY <1>2, <2>2 DEF FirstWhere
    <3>4. Starts \subseteq Int BY <1>1, <3>1
    <3>5. cut \in Starts /\ \A i \in Starts : cut <= i BY <2>2, <3>2, <3>3, <3>4, MinIs
    <3>6. QED BY <1>1, <3>1, <3>5
  <2>3. QED BY <2>1, <2>2
<1>8. /\ Len(kept.rows) = cut - 1
      /\ \A i \in 1..(cut - 1) : kept.rows[i] = rows[i]
      /\ kept.rows \in Seq(T)
  BY <1>1, <1>6, <1>7
<1>9. IsPrefix(kept.rows, rows)
  <2>1. kept.rows = SubSeq(rows, 1, Len(kept.rows)) BY <1>6, <1>8
  <2>2. Len(kept.rows) <= n BY <1>1, <1>7, <1>8
  <2>3. QED BY <2>1, <2>2 DEF IsPrefix
<1>10. /\ tt \subseteq 1..n /\ nn \subseteq 1..n
       /\ IsFiniteSet(tt) /\ IsFiniteSet(nn) /\ Cardinality(tt) \in Nat /\ Cardinality(nn) \in Nat
       /\ Cardinality(tt) + Cardinality(nn) = n + 1 - cut
  <2>1. tt \subseteq 1..n /\ nn \subseteq 1..n BY <1>1, <1>4, <1>5, <1>7
  <2>2. IsFiniteSet(tt) /\ IsFiniteSet(nn) /\ Cardinality(tt) \in Nat /\ Cardinality(nn) \in Nat
    <3>1. Cardinality(tt) \in 0..n /\ IsFiniteSet(tt) BY <1>1, <2>1, Positions
    <3>2. Cardinality(nn) \in 0..n /\ IsFiniteSet(nn) BY <1>1, <2>1, Positions
    <3>3. QED BY <1>1, <3>1, <3>2
  <2>3. tt \cup nn = cut..n /\ tt \cap nn = {} BY <1>4, <1>5
  <2>4. Cardinality(cut..n) = n + 1 - cut
    <3>1. cut \in Int /\ n \in Int BY <1>1, <1>7
    <3>2. Cardinality(cut..n) = IF cut > n THEN 0 ELSE n - cut + 1 BY <3>1, FS_Interval
    <3>3. CASE cut > n
      <4>1. cut = n + 1 BY <1>1, <1>7, <3>3
      <4>2. QED BY <3>1, <3>2, <3>3, <4>1
    <3>4. CASE ~(cut > n) BY <3>1, <3>2, <3>4
    <3>5. QED BY <3>3, <3>4
  <2>5. Cardinality(tt \cup nn) = Cardinality(tt) + Cardinality(nn) - Cardinality(tt \cap nn) BY <2>2, FS_Union
  <2>6. Cardinality(tt \cap nn) = 0 BY <2>3, FS_EmptySet
  <2>7. Cardinality(tt) + Cardinality(nn) = n + 1 - cut
    <3>1. PICK a, b : a = Cardinality(tt) /\ b = Cardinality(nn) OBVIOUS
    <3>2. a \in Nat /\ b \in Nat /\ n + 1 - cut = a + b - 0 BY <2>2, <2>3, <2>4, <2>5, <2>6, <3>1
    <3>3. QED BY <3>1, <3>2
  <2>8. QED BY <2>1, <2>2, <2>7
<1>11. Len(kept.rows) + kept.totals + kept.notes = n BY <1>1, <1>6, <1>7, <1>8, <1>10
<1>12. ASSUME kept.rows # <<>> PROVE ~IsTotalRow(Last(kept.rows))
  <2> SUFFICES ASSUME IsTotalRow(Last(kept.rows)) PROVE FALSE OBVIOUS
  <2>1. Len(kept.rows) # 0 BY <1>8, <1>12, EmptySeq
  <2>2. cut - 1 \in 1..n /\ cut - 1 \in 1..(cut - 1) BY <1>1, <1>7, <1>8, <2>1
  <2>3. IsTotalRow(rows[cut - 1]) BY <1>8, <2>2 DEF Last
  <2>4. IsFooter(rows, cut - 1)
    <3>1. ASSUME NEW j \in (cut - 1)..n PROVE IsTotalRow(rows[j]) \/ IsNote(rows[j])
      <4>1. CASE j = cut - 1 BY <2>3, <4>1
      <4>2. CASE j # cut - 1
        <5>1. j \in cut..n /\ cut <= n BY <1>1, <1>7, <4>2
        <5>2. IsFooter(rows, cut) BY <1>7, <5>1 DEF Starts
        <5>3. QED BY <5>1, <5>2 DEF IsFooter
      <4>3. QED BY <4>1, <4>2
    <3>2. QED BY <3>1 DEF IsFooter
  <2>5. cut - 1 \in Starts BY <2>2, <2>3, <2>4 DEF Starts
  <2>6. QED BY <1>1, <1>7, <2>5
<1>13. kept.totals = 0 => kept.notes = 0
  <2> SUFFICES ASSUME kept.totals = 0 PROVE kept.notes = 0 OBVIOUS
  <2>1. tt = {} BY <1>6, <1>10, Counted
  <2>2. ~(cut <= n)
    <3> SUFFICES ASSUME cut <= n PROVE FALSE OBVIOUS
    <3>1. IsTotalRow(rows[cut]) BY <1>7 DEF Starts
    <3>2. cut \in cut..n BY <1>1, <1>7
    <3>3. QED BY <1>4, <2>1, <3>1, <3>2
  <2>3. nn = {} BY <1>1, <1>5, <1>7, <2>2
  <2>4. QED BY <1>6, <2>3, FS_EmptySet
<1>14. \A i \in (Len(kept.rows) + 1)..n : IsTotalRow(rows[i]) \/ IsNote(rows[i])
  <2>1. TAKE i \in (Len(kept.rows) + 1)..n
  <2>2. i \in cut..n /\ cut <= n BY <1>1, <1>7, <1>8
  <2>3. IsFooter(rows, cut) BY <1>7, <2>2 DEF Starts
  <2>4. QED BY <2>2, <2>3 DEF IsFooter
<1>15. ASSUME NEW i \in 1..n, IsTotalRow(rows[i]), \A j \in (i + 1)..n : IsTotalRow(rows[j]) \/ IsNote(rows[j])
       PROVE  i > Len(kept.rows)
  <2>1. \A j \in i..n : j = i \/ j \in (i + 1)..n BY <1>1
  <2>2. IsFooter(rows, i) BY <1>15, <2>1 DEF IsFooter
  <2>3. i \in Starts BY <1>15, <2>2 DEF Starts
  <2>4. QED BY <1>1, <1>7, <1>8, <2>3
<1>16. QED BY <1>3, <1>9, <1>11, <1>12, <1>13, <1>14, <1>15 DEF FooterIsOnlyTotals

------------------------------------------------------------------------------
(* A base name, or the first of its copies that is free.                       *)
LEMMA UniqueIsFree ==
  ASSUME NEW U, Nat \subseteq U, NEW base \in Seq(U), NEW taken, IsFiniteSet(taken)
  PROVE  Unique(base, taken) \in Seq(U) /\ Unique(base, taken) \notin taken
<1> DEFINE m == Cardinality(taken)
           K == 1..(m + 1)
           free == {c \in K : Copy(base, c) \notin taken}
<1>1. m \in Nat /\ Len(base) \in Nat BY FS_CardinalityType
<1>2. \A c \in K : Copy(base, c) \in Seq(U) /\ Len(Copy(base, c)) = (IF c = 1 THEN Len(base) ELSE Len(base) + 1)
                   /\ (c # 1 => Copy(base, c)[Len(base) + 1] = c)
  <2>1. TAKE c \in K
  <2>2. c \in U BY <1>1
  <2>3. QED BY <2>2 DEF Copy
<1>3. \A b, c \in K : Copy(base, b) = Copy(base, c) => b = c
  <2>1. TAKE b, c \in K
  <2>2. PICK x : x = Copy(base, b) OBVIOUS
  <2>3. PICK y : y = Copy(base, c) OBVIOUS
  <2>4. /\ Len(x) = (IF b = 1 THEN Len(base) ELSE Len(base) + 1) /\ (b # 1 => x[Len(base) + 1] = b)
        /\ Len(y) = (IF c = 1 THEN Len(base) ELSE Len(base) + 1) /\ (c # 1 => y[Len(base) + 1] = c)
    BY <1>2, <2>2, <2>3
  <2>5. x = y => b = c BY <1>1, <2>4
  <2>6. QED BY <2>2, <2>3, <2>5
<1>4. free # {}
  <2> SUFFICES ASSUME free = {} PROVE FALSE OBVIOUS
  <2>1. \A c \in K : Copy(base, c) \in taken OBVIOUS
  <2>2. PICK f : f = [c \in K |-> Copy(base, c)] OBVIOUS
  <2>3. f \in Injection(K, taken)
    <3>1. f \in [K -> taken] BY <2>1, <2>2
    <3>2. \A b, c \in K : f[b] = f[c] => b = c BY <1>3, <2>2
    <3>3. QED BY <3>1, <3>2 DEF Injection, IsInjective
  <2>4. IsFiniteSet(K) /\ Cardinality(K) = m + 1
    <3>1. PICK q : q = m + 1 OBVIOUS
    <3>2. q \in Nat /\ 1..q \subseteq 1..q BY <1>1, <3>1
    <3>3. IsFiniteSet(1..q) /\ Cardinality(1..q) = q BY <3>2, Positions
    <3>4. QED BY <3>1, <3>3
  <2>5. Cardinality(K) <= Cardinality(taken) BY <2>3, FS_Injection
  <2>6. QED BY <1>1, <2>4, <2>5
<1>5. free \subseteq K /\ IsFiniteSet(free) /\ free \subseteq Int
  <2>1. IsFiniteSet(free) BY <1>1, Positions
  <2>2. QED BY <1>1, <2>1
<1>6. Unique(base, taken) = Copy(base, Min(free)) BY DEF Unique
<1> HIDE DEF K, free
<1>7. Min(free) \in free BY <1>4, <1>5, MinIs
<1>8. Min(free) \in K /\ Copy(base, Min(free)) \notin taken BY <1>5, <1>7 DEF free
<1>9. QED BY <1>2, <1>6, <1>8

(* A list of different things, and one more.                                   *)
LEMMA OneMore ==
  ASSUME NEW T, NEW s \in Seq(T), IsInjective(s), NEW x \in T, x \notin ToSet(s)
  PROVE  Append(s, x) \in Seq(T) /\ IsInjective(Append(s, x))
<1>1. PICK t : t = Append(s, x) OBVIOUS
<1>2. /\ t \in Seq(T) /\ Len(s) \in Nat /\ Len(t) = Len(s) + 1 /\ t[Len(s) + 1] = x
      /\ \A i \in 1..Len(s) : t[i] = s[i]
      /\ DOMAIN s = 1..Len(s) /\ DOMAIN t = 1..Len(t)
  BY <1>1
<1>3. \A i \in 1..Len(s) : s[i] # x BY InList
<1>4. \A i, j \in 1..Len(s) : s[i] = s[j] => i = j BY <1>2 DEF IsInjective
<1>5. \A i \in 1..Len(t) : i \in 1..Len(s) \/ i = Len(s) + 1 BY <1>2
<1>6. \A i, j \in 1..Len(t) : t[i] = t[j] => i = j
  <2>1. TAKE i, j \in 1..Len(t)
  <2>2. CASE i \in 1..Len(s) /\ j \in 1..Len(s) BY <1>2, <1>4, <2>2
  <2>3. CASE i = Len(s) + 1 /\ j \in 1..Len(s) BY <1>2, <1>3, <2>3
  <2>4. CASE i \in 1..Len(s) /\ j = Len(s) + 1 BY <1>2, <1>3, <2>4
  <2>5. QED BY <1>5, <2>2, <2>3, <2>4
<1>7. QED BY <1>1, <1>2, <1>6 DEF IsInjective

LEMMA ColumnNamesDiffer ==
  ASSUME NEW T, NEW headers \in Seq(T)
  PROVE  IsInjective(ColumnNames(headers))
<1> DEFINE n == Len(headers)
           U == T \cup Nat \cup {"column", "pay"}
           N == Seq(U)
           A == Seq(N)
           After(a, i) == Append(a, Unique(BaseName(headers[i], i), ToSet(a)))
           Recurs(g) == g = [i \in 0..n |-> IF i = 0 THEN <<>> ELSE After(g[i - 1], i)]
           F == [i \in 1..n |-> [a \in A |-> After(a, i)]]
<1>1. n \in Nat /\ \A i \in 1..n : headers[i] \in T BY InList
<1>2. <<>> \in A /\ IsInjective(<<>>) BY DEF IsInjective
<1>3. ASSUME NEW i \in 1..n, NEW a \in A PROVE After(a, i) \in A /\ (IsInjective(a) => IsInjective(After(a, i)))
  <2>1. PICK b : b = BaseName(headers[i], i) OBVIOUS
  <2>2. b \in Seq(U)
    <3>1. PICK V : V = U OBVIOUS
    <3>2. headers[i] \in V /\ i \in V /\ 2 \in V /\ "column" \in V /\ "pay" \in V BY <1>1, <3>1
    <3>3. <<"column", i>> \in Seq(V) /\ <<"pay", 2>> \in Seq(V) /\ <<headers[i]>> \in Seq(V) BY <3>2
    <3>4. b = <<"column", i>> \/ b = <<"pay", 2>> \/ b = <<headers[i]>> BY <2>1 DEF BaseName
    <3>5. QED BY <3>1, <3>3, <3>4
  <2>3. IsFiniteSet(ToSet(a)) BY InList
  <2>4. PICK x : x = Unique(b, ToSet(a)) OBVIOUS
  <2>5. x \in N /\ x \notin ToSet(a)
    <3>1. PICK V : V = U OBVIOUS
    <3>2. Nat \subseteq V /\ b \in Seq(V) BY <2>2, <3>1
    <3>3. x \in Seq(V) /\ x \notin ToSet(a) BY ONLY <2>3, <2>4, <3>2, UniqueIsFree
    <3>4. QED BY <3>1, <3>3
  <2>6. After(a, i) = Append(a, x) BY <2>1, <2>4
  <2> HIDE DEF U, N
  <2>7. Append(a, x) \in Seq(N) BY <2>5
  <2>8. IsInjective(a) => IsInjective(Append(a, x)) BY <2>5, OneMore
  <2>9. QED BY <2>6, <2>7, <2>8
<1>4. ColumnNames(headers) = (CHOOSE g : Recurs(g))[n] BY DEF ColumnNames
<1> HIDE DEF After, A
<1>5. F \in [1..n -> [A -> A]] /\ \A i \in 1..n : \A a \in A : F[i][a] = After(a, i) BY <1>3
<1> HIDE DEF F, n
<1>6. PICK g : Follows(g, A, <<>>, n, F) BY <1>1, <1>2, <1>5, Recursion
<1>7. g[0] = <<>> /\ g \in [0..n -> A] /\ \A i \in 1..n : g[i] = After(g[i - 1], i)
  <2>1. \A i \in 1..n : i - 1 \in 0..n BY <1>1
  <2>2. QED BY <1>5, <1>6, <2>1 DEF Follows
<1>8. Recurs(g)
  <2>1. \A i \in 0..n : i # 0 => i \in 1..n /\ i - 1 \in 0..n BY <1>1
  <2>2. \A i \in 0..n : g[i] = IF i = 0 THEN <<>> ELSE After(g[i - 1], i) BY <1>7, <2>1
  <2>3. g = [i \in 0..n |-> g[i]] BY <1>7
  <2>4. QED BY <2>2, <2>3
<1>9. PICK h : Recurs(h) /\ ColumnNames(headers) = h[n] BY <1>4, <1>8
<1>10. h[0] = <<>> /\ \A i \in 1..n : h[i] = After(h[i - 1], i) BY <1>1, <1>9
<1> DEFINE G == {i \in 0..n : h[i] \in A /\ IsInjective(h[i])}
<1>11. 0 \in G BY <1>1, <1>2, <1>10
<1>12. ASSUME NEW i \in 1..n, i - 1 \in G PROVE i \in G
  <2>1. h[i - 1] \in A /\ IsInjective(h[i - 1]) /\ h[i] = After(h[i - 1], i) BY <1>10, <1>12
  <2>2. h[i] \in A /\ IsInjective(h[i]) BY <1>3, <2>1
  <2>3. QED BY <1>1, <2>2
<1>13. \A i \in 0..n : i \in G
  <2> HIDE DEF G
  <2>1. QED BY <1>1, <1>11, <1>12, Throughout
<1>14. n \in 0..n BY <1>1
<1>15. QED BY <1>9, <1>13, <1>14

LEMMA InOrderIs ==
  ASSUME NEW n \in Nat, NEW S, S \subseteq 1..n
  PROVE  /\ Len(InOrder(S)) \in Nat /\ DOMAIN InOrder(S) = 1..Len(InOrder(S))
         /\ S = {} => Len(InOrder(S)) = 0
<1>1. Cardinality(S) \in Nat /\ (S = {} => Cardinality(S) = 0)
  <2>1. Cardinality(S) \in 0..n BY Positions
  <2>2. Cardinality(S) \in Nat BY <2>1
  <2>3. IsFiniteSet(S) BY Positions
  <2>4. S = {} => Cardinality(S) = 0 BY ONLY <2>3, Counted
  <2>5. QED BY <2>2, <2>4
<1>2. PICK f : f = InOrder(S) OBVIOUS
<1>3. DOMAIN f = 1..Cardinality(S) BY <1>2 DEF InOrder
<1>4. f \in [1..Cardinality(S) -> {f[k] : k \in 1..Cardinality(S)}] BY <1>2 DEF InOrder
<1>5. Len(f) = Cardinality(S) BY <1>1, <1>4, AsList
<1>6. QED BY <1>1, <1>2, <1>3, <1>5

(* A table that is built has different names in its columns.                   *)
LEMMA NamesOfATable ==
  ASSUME NEW raw, Len(raw) \in Nat, Width(raw) \in Nat, BuildTable(raw) # NoTable
  PROVE  IsInjective(BuildTable(raw).names)
<1>1. PICK grid : grid = DropEmptyColumns(raw) OBVIOUS
<1>2. PICK h : h = HeaderRow(grid) OBVIOUS
<1>3. PICK body : body = DropFooterTotals([k \in DOMAIN InOrder({i \in (h + 1)..Len(grid) : Filled(grid[i]) # {}}) |->
                           grid[InOrder({i \in (h + 1)..Len(grid) : Filled(grid[i]) # {}})[k]]]) OBVIOUS
<1>4. /\ body.rows # <<>>
      /\ BuildTable(raw).names = ColumnNames(HeaderCells(grid, h))
  <2>1. BuildTable(raw) = IF body.rows = <<>> THEN NoTable
                          ELSE [names |-> ColumnNames(HeaderCells(grid, h)), rows |-> body.rows,
                                receipt |-> [skipped |-> h - 1, totals |-> body.totals, notes |-> body.notes,
                                             inner |-> CountInnerTotals(body.rows)]]
    BY <1>1, <1>2, <1>3 DEF BuildTable
  <2>2. QED BY <2>1
<1>5. PICK n : n = Len(raw) OBVIOUS
<1>6. \E w, C : Grid(grid, C, w) /\ Len(grid) = n
  <2> DEFINE Cell(row, j) == IF j <= Len(row) THEN row[j] ELSE Blank
             S == {j \in 1..Width(raw) : \E r \in ToSet(raw) : ~IsNull(Cell(r, j))}
  <2>1. PICK keep : keep = InOrder(S) OBVIOUS
  <2>2. PICK w : w = Len(keep) OBVIOUS
  <2>3. w \in Nat BY <2>1, <2>2, InOrderIs
  <2>4. grid = [i \in 1..n |-> [j \in 1..w |-> Cell(raw[i], keep[j])]] BY <1>1, <1>5, <2>1, <2>2 DEF DropEmptyColumns
  <2> HIDE DEF Cell
  <2>5. PICK C : C = UNION {{Cell(raw[i], keep[j]) : j \in 1..w} : i \in 1..n} OBVIOUS
  <2>6. \A i \in 1..n : \A j \in 1..w : Cell(raw[i], keep[j]) \in C BY <2>5
  <2>7. grid \in [1..n -> [1..w -> C]] BY <2>4, <2>6
  <2>8. PICK R : R = [1..w -> C] OBVIOUS
  <2>9. grid \in [1..n -> R] /\ n \in Nat BY <1>5, <2>7, <2>8
  <2>10. grid \in Seq(R) /\ Len(grid) = n BY ONLY <2>9, AsList
  <2>11. Grid(grid, C, w) BY <2>3, <2>8, <2>10 DEF Grid
  <2>12. QED BY <2>3, <2>10, <2>11
<1>7. PICK w, C : Grid(grid, C, w) /\ Len(grid) = n BY <1>6
<1>8. grid # <<>>
  <2> SUFFICES ASSUME grid = <<>> PROVE FALSE OBVIOUS
  <2>1. n = 0 /\ Len(grid) = 0 BY <1>7
  <2>2. h = 1 BY <1>2 DEF HeaderRow
  <2>3. PICK S : S = {i \in (h + 1)..Len(grid) : Filled(grid[i]) # {}} OBVIOUS
  <2>4. S = {} BY <2>1, <2>2, <2>3
  <2>5. Len(InOrder(S)) = 0 /\ DOMAIN InOrder(S) = 1..0
    <3>1. S \subseteq 1..0 BY <2>4
    <3>2. QED BY <2>4, <3>1, InOrderIs
  <2>6. PICK below : below = [k \in DOMAIN InOrder(S) |-> grid[InOrder(S)[k]]] OBVIOUS
  <2>7. below \in [1..0 -> {}] BY <2>5, <2>6
  <2>8. below \in Seq({}) /\ Len(below) = 0 BY <2>7, AsList
  <2>9. below = <<>> BY <2>8, EmptySeq
  <2>10. body = DropFooterTotals(<<>>) BY <1>3, <2>3, <2>6, <2>9
  <2>11. body.rows = SubSeq(<<>>, 1, 1 - 1)
    <3>1. {i \in 1..Len(<<>>) : IsTotalRow(<<>>[i]) /\ IsFooter(<<>>, i)} = {} OBVIOUS
    <3>2. FirstWhere({i \in 1..Len(<<>>) : IsTotalRow(<<>>[i]) /\ IsFooter(<<>>, i)}, Len(<<>>) + 1) = 1 BY <3>1 DEF FirstWhere
    <3>3. QED BY <2>10, <3>2 DEF DropFooterTotals
  <2>12. body.rows = <<>> BY <2>11
  <2>13. QED BY <1>4, <2>12
<1>9. h \in 1..n /\ \A i \in 1..n : grid[i] \in [1..w -> C]
  <2>1. h \in 1..n BY <1>2, <1>7, <1>8, HeaderIsARow
  <2>2. QED BY <1>7, <1>8, <2>1, GridIs
<1>10. HeaderCells(grid, h) \in [1..w -> C]
  <2>1. CASE h = 1 \/ Cardinality(Filled(grid[h - 1])) < 2 BY <1>9, <2>1 DEF HeaderCells
  <2>2. CASE ~(h = 1 \/ Cardinality(Filled(grid[h - 1])) < 2)
    <3>1. h - 1 \in 1..n BY <1>5, <1>9, <2>2
    <3>2. PICK x, y : x = grid[h] /\ y = grid[h - 1] OBVIOUS
    <3>3. x \in [1..w -> C] /\ y \in [1..w -> C] BY <1>9, <3>1, <3>2
    <3>4. HeaderCells(grid, h) = [j \in 1..w |-> IF IsNull(x[j]) THEN y[j] ELSE x[j]]
      BY <2>2, <3>2, <3>3 DEF HeaderCells
    <3>5. QED BY <3>3, <3>4
  <2>3. QED BY <2>1, <2>2
<1>11. HeaderCells(grid, h) \in Seq(C)
  <2>1. w \in Nat BY <1>7 DEF Grid
  <2>2. QED BY <1>10, <2>1, AsList
<1>12. QED BY <1>4, <1>11, ColumnNamesDiffer

(* The tables of a file, one after the other.                                  *)
LEMMA TablesDiffer ==
  ASSUME NEW T, NEW sheets \in Seq(Seq(Seq(T))), NEW stem, NEW taken, IsFiniteSet(taken)
  PROVE  NamesAreDistinct(stem, sheets, taken)
<1> DEFINE n == Len(sheets)
           U == Nat \cup {stem}
           N == Seq(U)
           Tables == {BuildTable(sheets[i]) : i \in 1..n}
           E == [name : N, table : Tables]
           A == Seq(E)
           Names(a) == taken \cup {t.name : t \in ToSet(a)}
           Entry(a, i) == [name |-> Unique(Hint(stem, sheets, i), Names(a)), table |-> BuildTable(sheets[i])]
           After(a, i) == IF BuildTable(sheets[i]) = NoTable THEN a ELSE Append(a, Entry(a, i))
           Recurs(g) == g = [i \in 0..n |-> IF i = 0 THEN <<>> ELSE After(g[i - 1], i)]
           F == [i \in 1..n |-> [a \in A |-> After(a, i)]]
           Apart(a) == /\ \A i, j \in 1..Len(a) : i # j => a[i].name # a[j].name
                       /\ \A i \in 1..Len(a) : a[i].name \notin taken /\ a[i].table # NoTable
<1>1. n \in Nat /\ \A i \in 1..n : sheets[i] \in Seq(Seq(T)) BY InList
<1>2. <<>> \in A /\ Apart(<<>>) OBVIOUS
<1>3. ASSUME NEW i \in 1..n, NEW a \in A PROVE After(a, i) \in A /\ (Apart(a) => Apart(After(a, i)))
  <2>1. PICK V : V = U OBVIOUS
  <2>2. PICK b : b = Hint(stem, sheets, i) OBVIOUS
  <2>3. b \in Seq(V) /\ Nat \subseteq V
    <3>1. stem \in V /\ i \in V /\ Nat \subseteq V BY <1>1, <2>1
    <3>2. <<stem>> \in Seq(V) /\ <<stem, i>> \in Seq(V) BY <3>1
    <3>3. QED BY <2>2, <3>1, <3>2 DEF Hint
  <2>4. PICK names : names = Names(a) OBVIOUS
  <2>5. IsFiniteSet(names) /\ \A k \in 1..Len(a) : a[k].name \in names
    <3>1. IsFiniteSet(ToSet(a)) /\ \A k \in 1..Len(a) : a[k] \in ToSet(a) BY InList
    <3>2. PICK f : f = [t \in ToSet(a) |-> t.name] OBVIOUS
    <3>3. IsFiniteSet({f[t] : t \in ToSet(a)}) BY <3>1, Images
    <3>4. {f[t] : t \in ToSet(a)} = {t.name : t \in ToSet(a)} BY <3>2
    <3>5. IsFiniteSet(taken \cup {t.name : t \in ToSet(a)}) BY <3>3, <3>4, FS_Union
    <3>6. QED BY <2>4, <3>1, <3>5
  <2>6. taken \subseteq names BY <2>4
  <2>7. PICK u : u = Unique(b, names) OBVIOUS
  <2>8. u \in Seq(V) /\ u \notin names BY ONLY <2>3, <2>5, <2>7, UniqueIsFree
  <2>9. PICK e : e = Entry(a, i) OBVIOUS
  <2>10. e.name = u /\ e.table = BuildTable(sheets[i]) /\ e \in E BY <2>1, <2>2, <2>4, <2>7, <2>8, <2>9
  <2>11. After(a, i) = IF BuildTable(sheets[i]) = NoTable THEN a ELSE Append(a, e) BY <2>9
  <2>12. CASE BuildTable(sheets[i]) = NoTable BY <2>11, <2>12
  <2>13. CASE BuildTable(sheets[i]) # NoTable
    <3>1. PICK t : t = Append(a, e) OBVIOUS
    <3> HIDE DEF E
    <3>2. /\ t \in Seq(E) /\ Len(a) \in Nat /\ Len(t) = Len(a) + 1 /\ t[Len(a) + 1] = e
          /\ \A k \in 1..Len(a) : t[k] = a[k]
      BY <2>10, <3>1
    <3>3. \A k \in 1..Len(t) : k \in 1..Len(a) \/ k = Len(a) + 1 BY <3>2
    <3>4. ASSUME Apart(a) PROVE Apart(t)
      <4>1. ASSUME NEW k \in 1..Len(t), NEW j \in 1..Len(t), k # j PROVE t[k].name # t[j].name
        <5>1. CASE k \in 1..Len(a) /\ j \in 1..Len(a) BY <3>2, <3>4, <4>1, <5>1
        <5>2. CASE k \in 1..Len(a) /\ j = Len(a) + 1 BY <2>5, <2>8, <2>10, <3>2, <5>2
        <5>3. CASE k = Len(a) + 1 /\ j \in 1..Len(a) BY <2>5, <2>8, <2>10, <3>2, <5>3
        <5>4. QED BY <3>3, <4>1, <5>1, <5>2, <5>3
      <4>2. ASSUME NEW k \in 1..Len(t) PROVE t[k].name \notin taken /\ t[k].table # NoTable
        <5>1. CASE k \in 1..Len(a) BY <3>2, <3>4, <5>1
        <5>2. CASE k = Len(a) + 1 BY <2>6, <2>8, <2>10, <2>13, <3>2, <5>2
        <5>3. QED BY <3>3, <5>1, <5>2
      <4>3. QED BY <4>1, <4>2
    <3>5. After(a, i) = t BY <2>11, <2>13, <3>1
    <3> HIDE DEF After, Apart
    <3>6. QED BY <3>2, <3>4, <3>5
  <2>14. QED BY <2>12, <2>13
<1>4. IngestFile(stem, sheets, taken) = (CHOOSE g : Recurs(g))[n] BY DEF IngestFile
<1> HIDE DEF After, A, Apart
<1>5. F \in [1..n -> [A -> A]] /\ \A i \in 1..n : \A a \in A : F[i][a] = After(a, i) BY <1>3
<1> HIDE DEF F, n
<1>6. PICK g : Follows(g, A, <<>>, n, F) BY <1>1, <1>2, <1>5, Recursion
<1>7. g[0] = <<>> /\ g \in [0..n -> A] /\ \A i \in 1..n : g[i] = After(g[i - 1], i)
  <2>1. \A i \in 1..n : i - 1 \in 0..n BY <1>1
  <2>2. QED BY <1>5, <1>6, <2>1 DEF Follows
<1>8. Recurs(g)
  <2>1. \A i \in 0..n : i # 0 => i \in 1..n /\ i - 1 \in 0..n BY <1>1
  <2>2. \A i \in 0..n : g[i] = IF i = 0 THEN <<>> ELSE After(g[i - 1], i) BY <1>7, <2>1
  <2>3. g = [i \in 0..n |-> g[i]] BY <1>7
  <2>4. QED BY <2>2, <2>3
<1>9. PICK h : Recurs(h) /\ IngestFile(stem, sheets, taken) = h[n] BY <1>4, <1>8
<1>10. h[0] = <<>> /\ \A i \in 1..n : h[i] = After(h[i - 1], i) BY <1>1, <1>9
<1> DEFINE G == {i \in 0..n : h[i] \in A /\ Apart(h[i])}
<1>11. 0 \in G BY <1>1, <1>2, <1>10
<1>12. ASSUME NEW i \in 1..n, i - 1 \in G PROVE i \in G
  <2>1. h[i - 1] \in A /\ Apart(h[i - 1]) /\ h[i] = After(h[i - 1], i) BY <1>10, <1>12
  <2>2. h[i] \in A /\ Apart(h[i]) BY <1>3, <2>1
  <2>3. QED BY <1>1, <2>2
<1>13. \A i \in 0..n : i \in G
  <2> HIDE DEF G
  <2>1. QED BY <1>1, <1>11, <1>12, Throughout
<1>14. n \in 0..n BY <1>1
<1>15. PICK tables : tables = IngestFile(stem, sheets, taken) OBVIOUS
<1>16. tables \in A /\ Apart(tables) BY <1>9, <1>13, <1>14, <1>15
<1>17. \A i \in 1..n : BuildTable(sheets[i]) # NoTable => IsInjective(BuildTable(sheets[i]).names)
  <2>1. TAKE i \in 1..n
  <2>2. Len(sheets[i]) \in Nat BY <1>1
  <2>3. Width(sheets[i]) \in Nat BY <1>1, WidthIs
  <2>4. QED BY <2>2, <2>3, NamesOfATable
<1>18. \A t \in ToSet(tables) : t.name \notin taken /\ IsInjective(t.table.names)
  <2>1. TAKE t \in ToSet(tables)
  <2>2. PICK k \in 1..Len(tables) : tables[k] = t /\ t \in E BY <1>16, InList DEF A
  <2>3. t.name \notin taken /\ t.table # NoTable BY <1>16, <2>2 DEF Apart
  <2>4. \E i \in 1..n : t.table = BuildTable(sheets[i]) BY <2>2 DEF n
  <2>5. QED BY <1>17, <2>3, <2>4
<1>19. \A i, j \in 1..Len(tables) : i # j => tables[i].name # tables[j].name BY <1>16 DEF Apart
<1>20. QED BY <1>15, <1>18, <1>19 DEF NamesAreDistinct

(* Reading a sheet: whatever the grid, the header is found, the footer loses  *)
(* its totals only, and no two columns or tables get one name.                *)
THEOREM TablesAreRead == Spec => []TablesHold
<1>1. AnInput => TablesHold
  <2>1. SUFFICES ASSUME AnInput PROVE TablesHold OBVIOUS
  <2>2. ASSUME question = "layout" PROVE HeaderIsFound(input.grid, input.header)
    <3>1. Layout(input) BY <2>1, <2>2, SheetsAssumption DEF AnInput
    <3>2. Grid(input.grid, Cells, input.width) BY <3>1 DEF Layout, Grid, Row
    <3>3. QED BY <3>1, <3>2, HeadersAreFound DEF Layout
  <2>3. ASSUME question = "footer" PROVE FooterIsOnlyTotals(input)
    <3>1. input \in Seq(Seq(Cells)) BY <2>1, <2>3, SheetsAssumption DEF AnInput, Sheet
    <3>2. QED BY <3>1, FootersAreTotals
  <2>4. ASSUME question = "named" PROVE NamesAreDistinct(input.stem, input.sheets, input.taken)
    <3>1. input.sheets \in Seq(Seq(Seq(Cells))) /\ IsFiniteSet(input.taken)
      BY <2>1, <2>4, SheetsAssumption DEF AnInput, Sheet
    <3>2. QED BY <3>1, TablesDiffer
  <2>5. QED BY <2>2, <2>3, <2>4 DEF TablesHold
<1>2. QED BY <1>1, OnlyInputs, PTL

(* A workbook that is read is within its limits, whatever they are.           *)
THEOREM MemoryIsKept == Spec => []MemoryHolds
<1>1. AnInput => MemoryHolds
  <2>1. SUFFICES ASSUME AnInput, question = "book" PROVE MemoryIsBounded(input.sheets, input.limits) BY DEF MemoryHolds
  <2>2. Book(input) BY <2>1, SheetsAssumption DEF AnInput
  <2>3. QED BY <2>2, MemoryBound DEF Book, Sheet
<1>2. QED BY <1>1, OnlyInputs, PTL

------------------------------------------------------------------------------
(* Columns.                                                                   *)
(* Every text of a column, and one vote for each.                              *)
Ballots(columns) == (DOMAIN columns) \X UNION {ToSet(columns[k]) : k \in DOMAIN columns}
NumericCells(columns) ==
  {v \in Ballots(columns) : v[2] \in ToSet(columns[v[1]]) /\ IsNumericDate(v[2])}

LEMMA VotesAreCounted ==
  ASSUME NEW T, NEW columns \in Seq(Seq(T))
  PROVE  IsFiniteSet(Ballots(columns))
<1> DEFINE n == Len(columns)
<1>1. n \in Nat /\ DOMAIN columns = 1..n /\ \A k \in 1..n : columns[k] \in Seq(T) BY InList
<1>2. PICK D : D = 1..n OBVIOUS
<1>3. IsFiniteSet(D) BY <1>1, <1>2, FS_Interval
<1>4. PICK f : f = [k \in D |-> ToSet(columns[k])] OBVIOUS
<1>5. \A k \in D : IsFiniteSet(ToSet(columns[k])) BY <1>1, <1>2, InList
<1>6. IsFiniteSet({f[k] : k \in D}) BY <1>3, Images
<1>7. \A s \in {f[k] : k \in D} : IsFiniteSet(s) BY <1>4, <1>5
<1>8. IsFiniteSet(UNION {f[k] : k \in D}) BY <1>6, <1>7, FS_UNION
<1>9. {f[k] : k \in D} = {ToSet(columns[k]) : k \in DOMAIN columns} BY <1>1, <1>2, <1>4
<1>10. IsFiniteSet(D \X UNION {f[k] : k \in D}) BY <1>3, <1>8, FS_Product
<1>11. QED BY <1>1, <1>2, <1>9, <1>10 DEF Ballots

(* A date is read the wrong way round only when nothing was evidence.          *)
LEMMA MisreadingsAreTold ==
  ASSUME NEW T, NEW columns \in Seq(Seq(T)), NEW names, NEW truth \in BOOLEAN
  PROVE  NoDateMisreadInSilence(names, columns, truth)
<1> DEFINE W == NumericCells(columns)
           day == {v \in W : Parts[v[2]][1] > 12 /\ Parts[v[2]][2] <= 12}
           month == {v \in W : Parts[v[2]][2] > 12 /\ Parts[v[2]][1] <= 12}
           order == InferDayfirst(columns)
           read == ReadColumns(names, columns)
<1>1. IsFiniteSet(W) BY VotesAreCounted, FS_Subset DEF NumericCells
<1>2. order = IF Cardinality(month) > Cardinality(day) THEN [dayfirst |-> FALSE, undecidable |-> FALSE]
              ELSE [dayfirst |-> TRUE, undecidable |-> Undecided(Cardinality(W), Cardinality(day))]
  <2>1. day = {v \in Ballots(columns) : v[2] \in ToSet(columns[v[1]]) /\ IsNumericDate(v[2])
                 /\ Parts[v[2]][1] > 12 /\ Parts[v[2]][2] <= 12} BY DEF NumericCells
  <2>2. month = {v \in Ballots(columns) : v[2] \in ToSet(columns[v[1]]) /\ IsNumericDate(v[2])
                   /\ Parts[v[2]][2] > 12 /\ Parts[v[2]][1] <= 12} BY DEF NumericCells
  <2>3. W = {v \in Ballots(columns) : v[2] \in ToSet(columns[v[1]]) /\ IsNumericDate(v[2]) /\ TRUE} BY DEF NumericCells
  <2> HIDE DEF W, day, month
  <2>4. QED BY <2>1, <2>2, <2>3 DEF InferDayfirst, Ballots
<1>3. /\ read.types = [c \in DOMAIN columns |-> InferColumn(names[c], columns[c], order.dayfirst)]
      /\ read.dayfirst = order.dayfirst
      /\ \A c \in DOMAIN columns : \A d \in ToSet(columns[c]) :
           order.undecidable /\ read.types[c] = "date" /\ IsNumericDate(d)
           /\ ParseDate(d, order.dayfirst) \notin {NotADate, NoDay}
             => read.ambiguous
  BY DEF ReadColumns
<1> HIDE DEF order, read
<1> SUFFICES ASSUME WrittenIn(columns, truth), NEW c \in DOMAIN columns, read.types[c] = "date",
                    NEW cell \in ToSet(columns[c]), Misread(cell, read.dayfirst, truth)
             PROVE  read.ambiguous
  BY DEF NoDateMisreadInSilence, read
<1>4. IsNumericDate(cell) /\ ParseDate(cell, order.dayfirst) \notin {NotADate, NoDay} /\ order.dayfirst # truth BY <1>3 DEF Misread
<1>5. <<c, cell>> \in W
  <2>1. <<c, cell>> \in Ballots(columns) BY DEF Ballots
  <2>2. QED BY <1>4, <2>1 DEF NumericCells
<1>6. \A v \in W : ParseDate(v[2], truth) # NotADate /\ IsNumericDate(v[2]) BY DEF NumericCells, WrittenIn, Ballots
<1>7. ~(Cardinality(month) > Cardinality(day))
  <2> SUFFICES ASSUME Cardinality(month) > Cardinality(day) PROVE FALSE OBVIOUS
  <2>1. truth = TRUE BY <1>2, <1>4
  <2>2. \A v \in W : ~(Parts[v[2]][2] > 12) BY <1>6, <2>1 DEF ParseDate, DayAndMonth
  <2>3. month = {} BY <2>2
  <2>4. day \subseteq W OBVIOUS
  <2>5. Cardinality(month) = 0 /\ Cardinality(day) \in Nat BY <1>1, <2>3, <2>4, FS_EmptySet, FS_Subset, FS_CardinalityType
  <2>6. QED BY <2>5
<1>8. order.dayfirst = TRUE /\ order.undecidable = Undecided(Cardinality(W), Cardinality(day)) BY <1>2, <1>7
<1>9. truth = FALSE BY <1>4, <1>8
<1>10. day = {}
  <2>1. \A v \in W : ~(Parts[v[2]][1] > 12) BY <1>6, <1>9 DEF ParseDate, DayAndMonth
  <2>2. QED BY <2>1
<1>11. Cardinality(day) = 0 BY <1>10, FS_EmptySet
<1>12. Cardinality(W) > 0
  <2>1. Cardinality(W) \in Nat /\ (Cardinality(W) = 0 <=> W = {}) BY <1>1, Counted
  <2>2. QED BY <1>5, <2>1
<1>13. order.undecidable BY <1>8, <1>11, <1>12 DEF Undecided
<1>14. QED BY <1>3, <1>4, <1>13

(* What converts a column has read nineteen in twenty of its cells.            *)
LEMMA TypeIsDeserved ==
  ASSUME NEW name, NEW cells, NEW dayfirst, InferColumn(name, cells, dayfirst) # "text"
  PROVE  LET kind == Reading(InferColumn(name, cells, dayfirst))
         IN /\ kind \in {"boolean", "percent", "date", "number"}
            /\ Deserves(kind, name, cells, dayfirst)
            /\ ~IsCodeColumn(name, cells)
<1> DEFINE right == {i \in 1..4 : Deserves(Order[i], name, cells, dayfirst)}
           place == CHOOSE i \in right : \A j \in right : i <= j
           type == InferColumn(name, cells, dayfirst)
<1>1. /\ ~IsCodeColumn(name, cells) /\ right # {}
      /\ type = IF Order[place] = "number" THEN NumberType(name, cells) ELSE Order[place]
  BY DEF InferColumn
<1>2. right \subseteq Nat OBVIOUS
<1> HIDE DEF right
<1>3. \E i \in right : \A j \in right : i <= j BY <1>1, <1>2, Least
<1>4. place \in right BY <1>3
<1> HIDE DEF place, type
<1>5. place \in 1..4 /\ Deserves(Order[place], name, cells, dayfirst) BY <1>4 DEF right
<1>6. PICK first : first = Order[place] OBVIOUS
<1>7. first \in {"boolean", "percent", "date", "number"}
  <2>1. place = 1 \/ place = 2 \/ place = 3 \/ place = 4 BY <1>5
  <2>2. QED BY <1>6, <2>1 DEF Order
<1>8. Reading(type) = first
  <2>1. CASE first = "number"
    <3>1. type \in {"currency", "decimal", "integer"} BY <1>1, <1>6, <2>1 DEF NumberType
    <3>2. QED BY <2>1, <3>1 DEF Reading
  <2>2. CASE first # "number"
    <3>1. type = first BY <1>1, <1>6, <2>2
    <3>2. QED BY <1>7, <2>2, <3>1 DEF Reading
  <2>3. QED BY <2>1, <2>2
<1>9. QED BY <1>1, <1>5, <1>6, <1>7, <1>8 DEF type

LEMMA ColumnsAreDeserved ==
  ASSUME NEW T, NEW cells \in Seq(T), NEW name \in Name, NEW dayfirst \in BOOLEAN
  PROVE  ConversionsAreDeserved(name, cells, dayfirst)
<1> DEFINE type == InferColumn(name, cells, dayfirst)
           kind == Reading(type)
           n == Len(cells)
           R == {i \in 1..n : Reads(kind, name, cells[i], dayfirst)}
           C == {i \in 1..n : ~Placeholder(kind, cells[i], dayfirst)}
           L == {i \in 1..n : ~Placeholder(kind, cells[i], dayfirst) /\ ~Reads(kind, name, cells[i], dayfirst)}
           G == {i \in 1..n : cells[i] \in Digits}
<1> SUFFICES ASSUME type # "text"
             PROVE  /\ 20 * Cardinality(L) <= n
                    /\ ToSet(cells) \cap {"007", "4111111111111111"} # {} => 100 * Cardinality(G) < 95 * n
                    /\ name.identifier => FALSE
  BY DEF ConversionsAreDeserved, Count
<1>1. n \in Nat BY InList
<1>2. /\ kind \in {"boolean", "percent", "date", "number"}
      /\ Deserves(kind, name, cells, dayfirst)
      /\ ~IsCodeColumn(name, cells)
  BY TypeIsDeserved
<1>3. ~name.identifier
      /\ (ToSet(cells) \cap {"007", "4111111111111111"} # {} => ~(100 * Cardinality(G) >= 95 * n))
  <2>1. ~name.identifier /\ ("007" \in ToSet(cells) => ~(100 * Cardinality(G) >= 95 * n)) BY <1>2 DEF IsCodeColumn, Count
  <2>2. "4111111111111111" \in Digits /\ Digit("4111111111111111") > 15 BY DEF Digits, Digit
  <2>3. "4111111111111111" \in ToSet(cells) => ~(100 * Cardinality(G) >= 95 * n)
    BY <1>2, <2>2 DEF IsCodeColumn, Count
  <2>4. QED BY <2>1, <2>3
<1>4. Cardinality(G) \in Nat BY <1>1, Positions
<1>5. 100 * Cardinality(R) >= 95 * Cardinality(C) BY <1>2 DEF Deserves, Count
<1>6. R \subseteq C
  <2>1. ASSUME NEW i \in R PROVE ~Placeholder(kind, cells[i], dayfirst)
    <3> SUFFICES ASSUME kind = "date", ParseDate(cells[i], dayfirst) = NoDay PROVE FALSE BY DEF Placeholder
    <3>1. cells[i] = "45658" BY DEF Reads
    <3>2. ~IsNumericDate("45658") BY DEF IsNumericDate, NumericDates, Unending
    <3>3. QED BY <3>1, <3>2 DEF ParseDate, NotADate, NoDay
  <2>2. QED BY <2>1
<1>7. L \subseteq C \ R OBVIOUS
<1> HIDE DEF type, kind, R, C, L, G
<1>8. /\ IsFiniteSet(C) /\ Cardinality(C) \in Nat /\ Cardinality(C) <= n
      /\ Cardinality(R) \in Nat
      /\ Cardinality(L) \in Nat /\ Cardinality(L) <= Cardinality(C) - Cardinality(R)
  <2>1. IsFiniteSet(C) /\ Cardinality(C) \in 0..n
    <3>1. C \subseteq 1..n BY DEF C
    <3>2. QED BY <1>1, <3>1, Positions
  <2>2. Cardinality(R) \in Nat /\ Cardinality(C \ R) = Cardinality(C) - Cardinality(R)
    <3>1. R \in SUBSET C BY <1>6
    <3>2. QED BY <2>1, <3>1, Counted
  <2>3. IsFiniteSet(C \ R) BY <2>1, FS_Subset
  <2>4. Cardinality(L) \in Nat /\ Cardinality(L) <= Cardinality(C \ R)
    <3>1. L \in SUBSET (C \ R) BY <1>7
    <3>2. QED BY <2>3, <3>1, Counted
  <2>5. QED BY <1>1, <2>1, <2>2, <2>4
<1>9. 20 * Cardinality(L) <= n BY <1>1, <1>5, <1>8
<1>10. QED BY <1>1, <1>3, <1>4, <1>9

(* A column is converted within the tolerance of its kind, and no date is     *)
(* misread in silence.                                                        *)
THEOREM ConversionsAreKept == Spec => []ConversionsHold
<1>1. AnInput => ConversionsHold
  <2>1. SUFFICES ASSUME AnInput PROVE ConversionsHold OBVIOUS
  <2>2. ASSUME question = "typed" PROVE NoDateMisreadInSilence(input.names, input.columns, input.truth)
    <3>1. input.columns \in Seq(Seq(STRING)) /\ input.truth \in BOOLEAN BY <2>1, <2>2, ColumnsAssumption DEF AnInput
    <3>2. QED BY <3>1, MisreadingsAreTold
  <2>3. ASSUME question = "column" PROVE ConversionsAreDeserved(input.name, input.cells, input.dayfirst)
    <3>1. input.cells \in Seq(STRING) /\ input.name \in Name /\ input.dayfirst \in BOOLEAN
      BY <2>1, <2>3, ColumnsAssumption DEF AnInput
    <3>2. QED BY <3>1, ColumnsAreDeserved
  <2>4. QED BY <2>2, <2>3 DEF ConversionsHold
<1>2. QED BY <1>1, OnlyInputs, PTL

------------------------------------------------------------------------------
(* People.                                                                    *)
(* The order "more frequent, then capital, then first" has a first.            *)
LEMMA WinnerIsOne ==
  ASSUME NEW V, Spellings(V), NEW S, S \subseteq V, IsFiniteSet(S), NEW counts \in [S -> Nat], NEW v \in S
  PROVE  Winner(v, counts) \in S /\ Winner(v, counts).word = v.word
<1> DEFINE same == {w \in S : w.word = v.word}
           R == {p \in S \X S : p[1] = p[2] \/ Beats(p[1], p[2], counts)}
<1>1. same \subseteq S /\ same # {} /\ IsFiniteSet(same) BY FS_Subset
<1>2. \A x, y \in S : <<x, y>> \in R <=> x = y \/ Beats(x, y, counts) OBVIOUS
<1>3. ASSUME NEW x \in S, NEW y \in S PROVE x = y \/ Beats(x, y, counts) \/ Beats(y, x, counts)
  <2>1. counts[x] \in Nat /\ counts[y] \in Nat OBVIOUS
  <2>2. /\ x.rank \in Int /\ y.rank \in Int /\ x.capital \in BOOLEAN /\ y.capital \in BOOLEAN
        /\ (x.rank = y.rank => x = y)
    BY DEF Spellings
  <2>3. QED BY <2>1, <2>2 DEF Beats
<1>4. ASSUME NEW x \in S, NEW y \in S, NEW z \in S, Beats(x, y, counts), Beats(y, z, counts) PROVE Beats(x, z, counts)
  <2>1. counts[x] \in Nat /\ counts[y] \in Nat /\ counts[z] \in Nat OBVIOUS
  <2>2. /\ x.rank \in Int /\ y.rank \in Int /\ z.rank \in Int
        /\ x.capital \in BOOLEAN /\ y.capital \in BOOLEAN /\ z.capital \in BOOLEAN
    BY DEF Spellings
  <2>3. QED BY <1>4, <2>1, <2>2 DEF Beats
<1>5. Comparable(same, R)
  <2>1. \A x, y \in same : <<x, y>> \in R \/ <<y, x>> \in R BY <1>1, <1>2, <1>3
  <2>2. \A x, y, z \in same : <<x, y>> \in R /\ <<y, z>> \in R => <<x, z>> \in R BY <1>1, <1>2, <1>4
  <2>3. QED BY ONLY <2>1, <2>2 DEF Comparable
<1> HIDE DEF R, same
<1>6. PICK m \in same : \A x \in same : <<m, x>> \in R BY ONLY <1>1, <1>5, Best
<1>7. \A x \in same \ {m} : Beats(m, x, counts) BY <1>1, <1>2, <1>6
<1>8. Winner(v, counts) = CHOOSE w \in same : \A x \in same \ {w} : Beats(w, x, counts) BY DEF Winner, same
<1>9. Winner(v, counts) \in same BY <1>6, <1>7, <1>8
<1>10. QED BY <1>9 DEF same

LEMMA WordDecides ==
  ASSUME NEW counts, NEW v, NEW w, v.word = w.word
  PROVE  Winner(v, counts) = Winner(w, counts)
BY DEF Winner

LEMMA FoldIs ==
  ASSUME NEW counts, NEW v \in DOMAIN counts
  PROVE  Fold(v, SpellingVariants(counts)) = IF Cardinality(DOMAIN counts) > MaxFold THEN v ELSE Winner(v, counts)
<1>1. CASE Cardinality(DOMAIN counts) > MaxFold
  <2>1. SpellingVariants(counts) = <<>> BY <1>1 DEF SpellingVariants
  <2>2. v \notin DOMAIN <<>> OBVIOUS
  <2>3. QED BY <1>1, <2>1, <2>2 DEF Fold
<1>2. CASE ~(Cardinality(DOMAIN counts) > MaxFold) BY <1>2 DEF SpellingVariants, Fold
<1>3. QED BY <1>1, <1>2

(* The rows that are kept: every row's first, and all of them only in order.   *)
KeptOf(rows, k) ==
  /\ k \in Seq(1..Len(rows)) /\ Len(k) <= Len(rows)
  /\ \A i \in 1..Len(rows) : \E j \in 1..Len(k) : rows[k[j]] = rows[i]
  /\ Len(k) = Len(rows) => \A j \in 1..Len(k) : k[j] = j

LEMMA KeptIs ==
  ASSUME NEW T, NEW rows \in Seq(T)
  PROVE  KeptOf(rows, FirstOccurrences(rows))
<1> DEFINE n == Len(rows)
           D == 1..n
           A == Seq(D)
           Again(i) == \E j \in 1..(i - 1) : rows[j] = rows[i]
           After(a, i) == IF Again(i) THEN a ELSE Append(a, i)
           Recurs(g) == g = [i \in 0..n |-> IF i = 0 THEN <<>> ELSE After(g[i - 1], i)]
           F == [i \in 1..n |-> [a \in A |-> After(a, i)]]
<1>1. n \in Nat BY InList
<1>2. <<>> \in A /\ Len(<<>>) = 0 OBVIOUS
<1>3. \A i \in 1..n : \A a \in A : After(a, i) \in A
  <2> HIDE DEF D
  <2>1. \A i \in D : \A a \in A : Append(a, i) \in A OBVIOUS
  <2>2. QED BY <2>1 DEF D
<1>4. FirstOccurrences(rows) = (CHOOSE g : Recurs(g))[n] BY DEF FirstOccurrences
<1>5. F \in [1..n -> [A -> A]] /\ \A i \in 1..n : \A a \in A : F[i][a] = After(a, i) BY <1>3
<1> HIDE DEF After, F, A, n
<1>6. PICK g : Follows(g, A, <<>>, n, F) BY <1>1, <1>2, <1>5, Recursion
<1>7. g[0] = <<>> /\ g \in [0..n -> A] /\ \A i \in 1..n : g[i] = After(g[i - 1], i)
  <2>1. \A i \in 1..n : i - 1 \in 0..n BY <1>1
  <2>2. QED BY <1>5, <1>6, <2>1 DEF Follows
<1>8. Recurs(g)
  <2>1. \A i \in 0..n : i # 0 => i \in 1..n /\ i - 1 \in 0..n BY <1>1
  <2>2. \A i \in 0..n : g[i] = IF i = 0 THEN <<>> ELSE After(g[i - 1], i) BY <1>7, <2>1
  <2>3. g = [i \in 0..n |-> g[i]] BY <1>7
  <2>4. QED BY <2>2, <2>3
<1>9. PICK h : Recurs(h) /\ FirstOccurrences(rows) = h[n] BY <1>4, <1>8
<1>10. h[0] = <<>> /\ \A i \in 1..n : h[i] = After(h[i - 1], i) BY <1>1, <1>9
<1> DEFINE Kept(i, k) == /\ k \in A /\ Len(k) <= i
                         /\ \A a \in 1..i : \E j \in 1..Len(k) : rows[k[j]] = rows[a]
                         /\ Len(k) = i => \A j \in 1..Len(k) : k[j] = j
           G == {i \in 0..n : Kept(i, h[i])}
<1>11. 0 \in G BY <1>1, <1>2, <1>10
<1>12. ASSUME NEW i \in 1..n, i - 1 \in G PROVE i \in G
  <2>1. PICK a : a = h[i - 1] OBVIOUS
  <2>2. Kept(i - 1, a) /\ h[i] = After(a, i) BY <1>10, <1>12, <2>1
  <2>3. Len(a) \in Nat /\ \A j \in 1..Len(a) : a[j] \in 1..n BY <2>2, InList DEF A, D
  <2>4. \A b \in 1..i : b = i \/ b \in 1..(i - 1) BY <1>1
  <2>5. CASE Again(i)
    <3>1. h[i] = a BY <2>2, <2>5 DEF After
    <3>2. \A b \in 1..i : \E j \in 1..Len(a) : rows[a[j]] = rows[b] BY <2>2, <2>4, <2>5
    <3>3. Len(a) <= i /\ Len(a) # i BY <1>1, <2>2, <2>3
    <3>4. Kept(i, a) BY <2>2, <3>2, <3>3
    <3>5. Kept(i, h[i]) /\ i \in 0..n BY <1>1, <3>1, <3>4
    <3> HIDE DEF Kept
    <3>6. QED BY <3>5
  <2>6. CASE ~Again(i)
    <3>1. PICK t : t = Append(a, i) OBVIOUS
    <3>2. h[i] = t BY <2>2, <2>6, <3>1 DEF After
    <3>3. t \in A /\ Len(t) = Len(a) + 1 /\ t[Len(a) + 1] = i /\ \A j \in 1..Len(a) : t[j] = a[j]
      BY <2>2, <3>1 DEF A, D
    <3>4. ASSUME NEW b \in 1..i PROVE \E j \in 1..Len(t) : rows[t[j]] = rows[b]
      <4>1. CASE b = i
        <5>1. Len(a) + 1 \in 1..Len(t) BY <2>3, <3>3
        <5>2. QED BY <3>3, <4>1, <5>1
      <4>2. CASE b \in 1..(i - 1)
        <5>1. PICK j \in 1..Len(a) : rows[a[j]] = rows[b] BY <2>2, <4>2
        <5>2. j \in 1..Len(t) /\ t[j] = a[j] BY <2>3, <3>3, <5>1
        <5>3. QED BY <5>1, <5>2
      <4>3. QED BY <2>4, <4>1, <4>2
    <3>5. Len(t) <= i BY <1>1, <2>2, <2>3, <3>3
    <3>6. ASSUME Len(t) = i, NEW j \in 1..Len(t) PROVE t[j] = j
      <4>1. Len(a) = i - 1 BY <2>3, <3>3, <3>6
      <4>2. \A q \in 1..Len(a) : a[q] = q BY <2>2, <4>1
      <4>3. j = i \/ j \in 1..Len(a) BY <1>1, <3>6, <4>1
      <4>4. QED BY <3>3, <4>1, <4>2, <4>3
    <3>7. Kept(i, t) BY <3>3, <3>4, <3>5, <3>6
    <3>8. Kept(i, h[i]) /\ i \in 0..n BY <1>1, <3>2, <3>7
    <3> HIDE DEF Kept
    <3>9. QED BY <3>8
  <2>7. QED BY <2>5, <2>6
<1>13. \A i \in 0..n : i \in G
  <2> HIDE DEF G
  <2>1. QED BY <1>1, <1>11, <1>12, Throughout
<1>14. n \in 0..n BY <1>1
<1>15. Kept(n, h[n]) BY <1>13, <1>14
<1>16. QED BY <1>9, <1>15 DEF KeptOf, A, D, n

------------------------------------------------------------------------------
(* A column of a folded table: every cell a spelling of the same word, and no  *)
(* cell that a second folding would change.                                    *)
FoldedTo(then, rows, c, V) ==
  /\ Len(rows) \in Nat /\ Len(then) = Len(rows)
  /\ \A i \in 1..Len(rows) : rows[i][c] \in V /\ then[i][c] \in V
  /\ \A i \in 1..Len(rows) :
       then[i][c] = IF rows[i][c] # Empty THEN Fold(rows[i][c], SpellingVariants(CountsOf(rows, c))) ELSE Empty

FoldsOnce(then, rows, c) ==
  /\ \A i \in 1..Len(rows) : SameWord(rows[i][c], then[i][c])
  /\ \A i \in 1..Len(rows) : then[i][c] # Empty =>
       Fold(then[i][c], SpellingVariants(CountsOf(then, c))) = then[i][c]

LEMMA ColumnFolds ==
  ASSUME NEW V, Spellings(V), NEW rows, NEW c, NEW then, FoldedTo(then, rows, c, V)
  PROVE  FoldsOnce(then, rows, c)
<1> DEFINE n == Len(rows)
           x == CountsOf(rows, c)
           y == CountsOf(then, c)
           S == Values(rows, c)
           T == Values(then, c)
           Large == Cardinality(S) > MaxFold
<1>1. n \in Nat /\ Len(then) = n BY DEF FoldedTo
<1>2. \A i \in 1..n : rows[i][c] \in V /\ then[i][c] \in V BY DEF FoldedTo
<1>3. IsFiniteSet(S) /\ S \subseteq V
  <2>1. PICK f : f = [i \in 1..n |-> rows[i][c]] OBVIOUS
  <2>2. PICK P : P = Present(rows, c) OBVIOUS
  <2>3. P \subseteq 1..n BY <2>2 DEF Present
  <2>4. IsFiniteSet(P) BY <1>1, <2>3, Positions
  <2>5. IsFiniteSet({f[i] : i \in P}) BY <2>4, Images
  <2>6. S = {f[i] : i \in P} BY <2>1, <2>2, <2>3 DEF Values
  <2>7. QED BY <1>2, <2>1, <2>3, <2>5, <2>6
<1>4. DOMAIN x = S /\ DOMAIN y = T /\ x \in [S -> Nat]
  <2>1. \A v : {i \in 1..n : rows[i][c] = v} \subseteq 1..n OBVIOUS
  <2>2. \A v : Cardinality({i \in 1..n : rows[i][c] = v}) \in Nat BY <1>1, <2>1, Positions
  <2>3. QED BY <2>2 DEF CountsOf
<1>5. /\ \A i \in 1..n : rows[i][c] # Empty => rows[i][c] \in S
      /\ \A v \in S : v # Empty /\ \E i \in 1..n : rows[i][c] = v
      /\ \A i \in 1..n : then[i][c] # Empty => then[i][c] \in T
      /\ \A v \in T : v # Empty /\ \E i \in 1..n : then[i][c] = v
  BY <1>1 DEF Values, Present
<1> HIDE DEF n, x, y, S, T
<1>6. \A v \in S : Winner(v, x) \in S /\ Winner(v, x).word = v.word BY <1>3, <1>4, WinnerIsOne
<1>7. \A v \in S : Fold(v, SpellingVariants(x)) = IF Large THEN v ELSE Winner(v, x) BY <1>4, FoldIs
<1>8. \A v \in T : Fold(v, SpellingVariants(y)) = IF Cardinality(T) > MaxFold THEN v ELSE Winner(v, y) BY <1>4, FoldIs
<1>9. \A i \in 1..n : then[i][c] = IF rows[i][c] # Empty THEN Fold(rows[i][c], SpellingVariants(x)) ELSE Empty
  BY DEF n, x, FoldedTo
<1>10. \A i \in 1..n : IF rows[i][c] # Empty
                      THEN /\ rows[i][c] \in S /\ then[i][c] \in S
                           /\ then[i][c] = IF Large THEN rows[i][c] ELSE Winner(rows[i][c], x)
                      ELSE then[i][c] = Empty
  BY <1>5, <1>6, <1>7, <1>9
<1>11. \A i \in 1..n : SameWord(rows[i][c], then[i][c])
  <2>1. TAKE i \in 1..n
  <2>2. CASE rows[i][c] = Empty BY <1>10, <2>2 DEF SameWord
  <2>3. CASE rows[i][c] # Empty BY <1>5, <1>6, <1>10, <2>3 DEF SameWord
  <2>4. QED BY <2>2, <2>3
<1>12. ASSUME NEW v \in T PROVE Fold(v, SpellingVariants(y)) = v
  <2>1. PICK i \in 1..n : then[i][c] = v /\ v # Empty BY <1>5
  <2>2. CASE Large
    <3>1. \A k \in 1..n : then[k][c] = rows[k][c] BY <1>10, <2>2
    <3>2. S = T
      <4>1. ASSUME NEW u \in S PROVE u \in T
        <5>1. PICK k \in 1..n : rows[k][c] = u /\ u # Empty BY <1>5
        <5>2. then[k][c] = u BY <3>1, <5>1
        <5>3. QED BY <1>5, <5>1, <5>2
      <4>2. ASSUME NEW u \in T PROVE u \in S
        <5>1. PICK k \in 1..n : then[k][c] = u /\ u # Empty BY <1>5
        <5>2. rows[k][c] = u BY <3>1, <5>1
        <5>3. QED BY <1>5, <5>1, <5>2
      <4>3. QED BY <4>1, <4>2
    <3>3. QED BY <1>8, <2>2, <3>2
  <2>3. CASE ~Large
    <3>1. \A w \in T : \E u \in S : w = Winner(u, x) /\ w.word = u.word BY <1>5, <1>6, <1>10, <2>3
    <3>2. \A w \in T : w.word = v.word => w = v
      <4>1. TAKE w \in T
      <4>2. PICK u \in S : w = Winner(u, x) /\ w.word = u.word BY <3>1
      <4>3. PICK t \in S : v = Winner(t, x) /\ v.word = t.word BY <3>1
      <4>4. QED BY <4>2, <4>3, WordDecides
    <3>3. {w \in DOMAIN y : w.word = v.word} = {v} BY <1>4, <3>2
    <3>4. Winner(v, y) = v BY <3>3 DEF Winner
    <3>5. QED BY <1>8, <3>4
  <2>4. QED BY <2>2, <2>3
<1>13. QED BY <1>5, <1>11, <1>12 DEF n, y, FoldsOnce

LEMMA FoldingHolds ==
  ASSUME NEW V, Spellings(V), NEW columns, NEW rows \in Seq([DOMAIN columns -> V])
  PROVE  /\ FoldSpellings(rows, columns) \in Seq([DOMAIN columns -> V])
         /\ Len(FoldSpellings(rows, columns)) = Len(rows)
         /\ \A i \in 1..Len(rows) : \A c \in DOMAIN columns :
              IF Foldable(columns[c]) THEN SameWord(rows[i][c], FoldSpellings(rows, columns)[i][c])
              ELSE rows[i][c] = FoldSpellings(rows, columns)[i][c]
         /\ FoldSpellings(FoldSpellings(rows, columns), columns) = FoldSpellings(rows, columns)
<1> DEFINE n == Len(rows)
           C == DOMAIN columns
           then == FoldSpellings(rows, columns)
           Folded(r, i, c) == IF Foldable(columns[c]) /\ r[i][c] # Empty
                              THEN Fold(r[i][c], SpellingVariants(CountsOf(r, c))) ELSE r[i][c]
<1>1. n \in Nat /\ \A i \in 1..n : rows[i] \in [C -> V] BY InList
<1>2. ASSUME NEW i \in 1..n, NEW c \in C PROVE Folded(rows, i, c) \in V
  <2>1. CASE Foldable(columns[c]) /\ rows[i][c] # Empty
    <3> DEFINE S == Values(rows, c)
               x == CountsOf(rows, c)
    <3>1. PICK f : f = [k \in 1..n |-> rows[k][c]] OBVIOUS
    <3>2. PICK P : P = Present(rows, c) OBVIOUS
    <3>3. P \subseteq 1..n BY <3>2 DEF Present
    <3>4. IsFiniteSet({f[k] : k \in P})
      <4>1. IsFiniteSet(P) BY <1>1, <3>3, Positions
      <4>2. QED BY <4>1, Images
    <3>5. S = {f[k] : k \in P} BY <3>1, <3>2, <3>3 DEF Values
    <3>6. S \subseteq V /\ rows[i][c] \in S
      <4>1. S \subseteq V BY <1>1 DEF Values, Present
      <4>2. rows[i][c] \in S BY <2>1 DEF Values, Present
      <4>3. QED BY <4>1, <4>2
    <3>7. \A v : Cardinality({k \in 1..n : rows[k][c] = v}) \in Nat
      <4>1. \A v : {k \in 1..n : rows[k][c] = v} \subseteq 1..n OBVIOUS
      <4>2. QED BY <1>1, <4>1, Positions
    <3>8. DOMAIN x = S /\ x \in [S -> Nat] BY <3>7 DEF CountsOf
    <3> HIDE DEF S, x
    <3>9. PICK v : v = rows[i][c] OBVIOUS
    <3>10. Winner(v, x) \in S BY <3>4, <3>5, <3>6, <3>8, <3>9, WinnerIsOne
    <3>11. Fold(v, SpellingVariants(x)) \in V BY <3>6, <3>8, <3>9, <3>10, FoldIs
    <3>12. QED BY <2>1, <3>9, <3>11 DEF x
  <2>2. CASE ~(Foldable(columns[c]) /\ rows[i][c] # Empty)
    <3>1. rows[i][c] \in V BY <1>1
    <3>2. QED BY <2>2, <3>1
  <2>3. QED BY <2>1, <2>2
<1>3. then = [i \in 1..n |-> [c \in C |-> Folded(rows, i, c)]] BY DEF FoldSpellings
<1> HIDE DEF then, Folded
<1>4. then \in [1..n -> [C -> V]] BY <1>2, <1>3
<1>5. then \in Seq([C -> V]) /\ Len(then) = n BY <1>1, <1>4, AsList
<1>6. \A i \in 1..n : \A c \in C : then[i][c] = Folded(rows, i, c) BY <1>3
<1>7. ASSUME NEW c \in C, Foldable(columns[c])
      PROVE  /\ \A i \in 1..n : SameWord(rows[i][c], then[i][c])
             /\ \A i \in 1..n : Folded(then, i, c) = then[i][c]
  <2>1. \A i \in 1..n : then[i][c] = IF rows[i][c] # Empty THEN Fold(rows[i][c], SpellingVariants(CountsOf(rows, c))) ELSE Empty
    BY <1>6, <1>7 DEF Folded
  <2>2. /\ \A i \in 1..n : SameWord(rows[i][c], then[i][c])
        /\ \A i \in 1..n : then[i][c] # Empty => Fold(then[i][c], SpellingVariants(CountsOf(then, c))) = then[i][c]
    <3>1. PICK t : t = then OBVIOUS
    <3>2. Len(t) = Len(rows) /\ Len(rows) \in Nat BY <1>1, <1>5, <3>1
    <3>3. \A i \in 1..Len(rows) :
            t[i][c] = IF rows[i][c] # Empty THEN Fold(rows[i][c], SpellingVariants(CountsOf(rows, c))) ELSE Empty
      BY <2>1, <3>1
    <3>4. \A i \in 1..Len(rows) : rows[i][c] \in V /\ t[i][c] \in V BY <1>1, <1>4, <3>1
    <3>5. FoldedTo(t, rows, c, V) BY <3>2, <3>3, <3>4 DEF FoldedTo
    <3>6. FoldsOnce(t, rows, c) BY <3>5, ColumnFolds
    <3>7. QED BY <1>1, <3>1, <3>6 DEF FoldsOnce
  <2>3. QED BY <2>2 DEF Folded
<1>8. \A i \in 1..n : \A c \in C : ~Foldable(columns[c]) => rows[i][c] = then[i][c] BY <1>6 DEF Folded
<1>9. \A i \in 1..n : \A c \in C : Folded(then, i, c) = then[i][c]
  <2>1. TAKE i \in 1..n
  <2>2. TAKE c \in C
  <2>3. CASE Foldable(columns[c]) BY <1>7, <2>3
  <2>4. CASE ~Foldable(columns[c]) BY <2>4 DEF Folded
  <2>5. QED BY <2>3, <2>4
<1>10. FoldSpellings(then, columns) = then
  <2>1. FoldSpellings(then, columns) = [i \in 1..n |-> [c \in C |-> Folded(then, i, c)]]
    BY <1>5 DEF FoldSpellings, Folded
  <2>2. \A i \in 1..n : [c \in C |-> Folded(then, i, c)] = then[i] BY <1>4, <1>9
  <2>3. then = [i \in 1..n |-> then[i]] BY <1>4
  <2>4. QED BY <2>1, <2>2, <2>3
<1>11. \A i \in 1..n : \A c \in C : IF Foldable(columns[c]) THEN SameWord(rows[i][c], then[i][c]) ELSE rows[i][c] = then[i][c]
  BY <1>7, <1>8
<1>12. QED BY <1>5, <1>10, <1>11 DEF then

LEMMA NobodyIsLost ==
  ASSUME NEW V, Spellings(V), NEW columns, NEW rows \in Seq([DOMAIN columns -> V])
  PROVE  NoPersonIsLost(rows, columns)
<1> DEFINE C == DOMAIN columns
           p == ProfileTable(rows, columns)
           remove == \E c \in C : columns[c].identifier
<1>1. PICK then : then = FoldSpellings(rows, columns) OBVIOUS
<1>2. PICK k : k = FirstOccurrences(then) OBVIOUS
<1>3. PICK n : n = Len(rows) OBVIOUS
<1>4. then \in Seq([C -> V]) /\ Len(then) = n /\ n \in Nat BY <1>1, <1>3, FoldingHolds, InList
<1>5. /\ k \in Seq(1..n) /\ Len(k) <= n
      /\ \A i \in 1..n : \E j \in 1..Len(k) : then[k[j]] = then[i]
      /\ Len(k) = n => \A j \in 1..Len(k) : k[j] = j
  BY <1>2, <1>4, KeptIs DEF KeptOf
<1>6. Len(k) \in Nat /\ \A j \in 1..Len(k) : k[j] \in 1..n BY <1>5, InList
<1>7. PICK few : few = [i \in 1..Len(k) |-> then[k[i]]] OBVIOUS
<1>8. few \in [1..Len(k) -> [C -> V]]
  <2>1. \A i \in 1..n : then[i] \in [C -> V] BY <1>4, InList
  <2>2. QED BY <1>6, <1>7, <2>1
<1>9. Len(few) = Len(k) BY <1>6, <1>8, AsList
<1>10. /\ p.rows = IF remove THEN few ELSE then
       /\ p.duplicates = n - Len(k)
       /\ p.removed <=> remove /\ Len(k) < n
  BY <1>1, <1>2, <1>4, <1>7 DEF ProfileTable
<1> HIDE DEF p
<1>11. \A i \in 1..n : \E j \in 1..Len(p.rows) : p.rows[j] = then[i]
  <2>1. CASE remove BY <1>5, <1>7, <1>9, <1>10, <2>1
  <2>2. CASE ~remove BY <1>4, <1>10, <2>2
  <2>3. QED BY <2>1, <2>2
<1>12. \A i \in 1..n : \A c \in C : IF Foldable(columns[c]) THEN SameWord(rows[i][c], then[i][c]) ELSE rows[i][c] = then[i][c]
  BY <1>1, <1>3, FoldingHolds
<1>13. \A i \in 1..n : \E j \in 1..Len(p.rows) : \A c \in C :
         IF Foldable(columns[c]) THEN SameWord(rows[i][c], p.rows[j][c]) ELSE rows[i][c] = p.rows[j][c]
  <2>1. TAKE i \in 1..n
  <2>2. PICK j \in 1..Len(p.rows) : p.rows[j] = then[i] BY <1>11
  <2>3. QED BY <1>12, <2>2
<1>14. \A i \in 1..n : \A c \in C : columns[c].identifier => \E j \in 1..Len(p.rows) : p.rows[j][c] = rows[i][c]
  <2>1. TAKE i \in 1..n
  <2>2. TAKE c \in C
  <2>3. PICK j \in 1..Len(p.rows) : p.rows[j] = then[i] BY <1>11
  <2>4. columns[c].identifier => ~Foldable(columns[c]) BY DEF Foldable
  <2>5. QED BY <1>12, <2>3, <2>4
<1>15. Len(p.rows) = n - (IF p.removed THEN p.duplicates ELSE 0)
  <2>1. CASE remove
    <3>1. CASE Len(k) < n
      <4>1. p.removed BY ONLY <1>10, <2>1, <3>1, Zenon
      <4>2. (IF p.removed THEN p.duplicates ELSE 0) = n - Len(k) BY <1>10, <4>1
      <4>3. p.rows = few BY ONLY <1>10, <2>1
      <4>4. n - (n - Len(k)) = Len(k) BY <1>4, <1>6
      <4>5. QED BY <1>9, <4>2, <4>3, <4>4
    <3>2. CASE Len(k) = n BY <1>4, <1>6, <1>9, <1>10, <2>1, <3>2
    <3>3. QED BY <1>4, <1>5, <1>6, <3>1, <3>2
  <2>2. CASE ~remove BY <1>4, <1>10, <2>2
  <2>3. QED BY <2>1, <2>2
<1>16. FoldSpellings(p.rows, columns) = p.rows \/ p.removed
  <2>1. SUFFICES ASSUME ~p.removed PROVE p.rows = then BY <1>1, FoldingHolds
  <2>2. CASE ~remove BY <1>10, <2>2
  <2>3. CASE remove
    <3>0. ~(Len(k) < n) BY ONLY <1>10, <2>1, <2>3, Zenon
    <3>1. Len(k) = n BY <1>4, <1>5, <1>6, <3>0
    <3>2. then = [i \in 1..n |-> then[i]]
      <4>1. then \in [1..n -> [C -> V]] BY <1>4, InList
      <4>2. QED BY <4>1
    <3>3. few = then BY <1>5, <1>7, <3>1, <3>2
    <3>4. QED BY <1>10, <2>3, <3>3
  <2>4. QED BY <2>2, <2>3
<1>17. QED BY <1>3, <1>13, <1>14, <1>15, <1>16 DEF NoPersonIsLost, p

(* Folding spellings never folds two people into one.                         *)
THEOREM PeopleAreKept == Spec => []PeopleHold
<1>1. AnInput => PeopleHold
  <2>1. SUFFICES ASSUME AnInput, question = "people" PROVE NoPersonIsLost(input.rows, input.columns) BY DEF PeopleHold
  <2>2. Spellings(Written) /\ input.rows \in Seq([DOMAIN input.columns -> Written])
    BY <2>1, ColumnsAssumption DEF AnInput
  <2>3. QED BY <2>2, NobodyIsLost
<1>2. QED BY <1>1, OnlyInputs, PTL

------------------------------------------------------------------------------
(* Joins.                                                                     *)
(* A unique column of one side of a join meets every row of the other once.    *)
LEMMA UniqueMeetsOnce ==
  ASSUME NEW tables, NEW joins, BothWays(joins),
         NEW t \in {"a", "b"}, UniqueSide(t, joins, UniqueColumns(tables)),
         NEW p \in Joined(tables, "a", "b", joins), NEW q \in Joined(tables, "a", "b", joins),
         p[IF t = "a" THEN 2 ELSE 1] = q[IF t = "a" THEN 2 ELSE 1]
  PROVE  p = q
<1>1. PICK j \in joins : <<t, KeyColumn(j, t)>> \in UniqueColumns(tables) BY DEF UniqueSide
<1>2. IsUnique(tables[t], KeyColumn(j, t)) BY <1>1 DEF UniqueColumns
<1> DEFINE u == IF t = "a" THEN "b" ELSE "a"
           own == IF t = "a" THEN 1 ELSE 2
           other == IF t = "a" THEN 2 ELSE 1
<1>3. ASSUME NEW r \in Joined(tables, "a", "b", joins)
      PROVE  /\ r = <<r[1], r[2]>> /\ r[own] \in DOMAIN tables[t]
             /\ tables[t][r[own]][KeyColumn(j, t)] = tables[u][r[other]][KeyColumn(j, u)]
  BY DEF Joined
<1>4. tables[t][p[own]][KeyColumn(j, t)] = tables[t][q[own]][KeyColumn(j, t)] BY <1>3
<1>5. p[own] = q[own] BY <1>2, <1>3, <1>4 DEF IsUnique
<1>6. p[1] = q[1] /\ p[2] = q[2] BY <1>5
<1>7. QED BY <1>3, <1>6

LEMMA OnePair ==
  ASSUME NEW joins, BothWays(joins)
  PROVE  PairsOf(joins) = {{"a", "b"}} /\ KeysOf(joins, {"a", "b"}) = joins
BY DEF BothWays, PairsOf, KeysOf

LEMMA QuietJoins ==
  ASSUME NEW tables, NEW query, BothWays(query.joins), \A agg \in query.aggregated : agg.table \in {"a", "b"}
  PROVE  QuietJoinCountsOnce(tables, query)
<1> DEFINE unique == UniqueColumns(tables)
           joined == Joined(tables, "a", "b", query.joins)
           pair == {"a", "b"}
           one == {t \in pair : UniqueSide(t, query.joins, unique)}
           Repeated == {<<"repeated", a>> : a \in {a \in query.aggregated : a.table \in one /\ a.func \in InflatedByRepeats}}
           Risks(p) == LET keys == KeysOf(query.joins, p)
                           sure == {t \in p : UniqueSide(t, keys, unique)}
                       IN CASE sure = p -> {}
                            [] sure = {} -> IF Cardinality(keys) = 1 THEN {<<"many to many", p>>} ELSE {}
                            [] OTHER -> {<<"repeated", a>> :
                                           a \in {a \in query.aggregated : a.table \in sure /\ a.func \in InflatedByRepeats}}
<1>1. FanOutRisks(query, unique) = Risks(pair)
  <2>1. FanOutRisks(query, unique) = UNION {Risks(p) : p \in PairsOf(query.joins)} BY DEF FanOutRisks
  <2>2. PairsOf(query.joins) = {pair} BY OnePair
  <2> HIDE DEF Risks
  <2>3. QED BY <2>1, <2>2
<1>a. /\ one = {} /\ Cardinality(query.joins) = 1 => Risks(pair) # {}
      /\ one # {} /\ one # pair => Risks(pair) = Repeated
  <2>1. KeysOf(query.joins, pair) = query.joins BY OnePair
  <2>2. one # pair \/ one # {} OBVIOUS
  <2>3. one = {} /\ Cardinality(query.joins) = 1 => Risks(pair) = {<<"many to many", pair>>} BY <2>1, <2>2
  <2>4. one # {} /\ one # pair => Risks(pair) = Repeated BY <2>1
  <2>5. QED BY <2>3, <2>4
<1> HIDE DEF Risks
<1> SUFFICES ASSUME Cardinality(query.joins) = 1 \/ (\E t \in pair : UniqueSide(t, query.joins, unique)),
                    FanOutRisks(query, unique) = {},
                    NEW agg \in query.aggregated, agg.func \in InflatedByRepeats,
                    NEW p \in joined, NEW q \in joined,
                    p[IF agg.table = "a" THEN 1 ELSE 2] = q[IF agg.table = "a" THEN 1 ELSE 2]
             PROVE  p = q
  BY DEF QuietJoinCountsOnce
<1>2. one # {} BY <1>1, <1>a
<1>3. PICK t \in pair : UniqueSide(t, query.joins, unique) /\ t # agg.table
  <2>1. CASE one = pair BY <2>1
  <2>2. CASE one # pair
    <3>1. Repeated = {} BY <1>1, <1>a, <1>2, <2>2
    <3>2. agg.table \notin one BY <3>1
    <3>3. QED BY <1>2, <3>2
  <2>3. QED BY <2>1, <2>2
<1>4. (IF t = "a" THEN 2 ELSE 1) = (IF agg.table = "a" THEN 1 ELSE 2) BY <1>3
<1>5. QED BY <1>3, <1>4, UniqueMeetsOnce

LEMMA GuidedJoins ==
  ASSUME NEW tables, NEW keys, BothWays(keys)
  PROVE  GuidedCountsOnce(tables, keys)
<1> DEFINE link == Cardinal(tables, keys)
           unique == UniqueColumns(tables)
           joined == Joined(tables, "a", "b", keys)
           side(t) == IF t = "a" THEN 1 ELSE 2
<1>1. \A t \in {"a", "b"} : link[t] <=> UniqueSide(t, keys, unique) BY DEF Cardinal
<1>2. ASSUME NEW t \in {"a", "b"}, Guides(link, t, "sum"), NEW p \in joined, NEW q \in joined, p[side(t)] = q[side(t)]
      PROVE  p = q
  <2>1. PICK u \in {"a", "b"} : u # t /\ UniqueSide(u, keys, unique)
    BY <1>1, <1>2 DEF Guides, ManyToMany, OneSide, RepeatsMatter
  <2>2. side(t) = (IF u = "a" THEN 2 ELSE 1) BY <2>1
  <2>3. QED BY <1>2, <2>1, <2>2, UniqueMeetsOnce
<1>3. ~ManyToMany(link) => Guides(link, Suggested(link), "sum")
  BY DEF Guides, ManyToMany, OneSide, RepeatsMatter, Suggested
<1> HIDE DEF link
<1>4. GuidedCountsOnce(tables, keys)
        <=> /\ \A t \in {"a", "b"} : Guides(link, t, "sum") => \A p, q \in joined : p # q => p[side(t)] # q[side(t)]
            /\ ~ManyToMany(link) => Guides(link, Suggested(link), "sum")
  BY DEF GuidedCountsOnce, link
<1>5. QED BY <1>2, <1>3, <1>4

LEMMA OffersAreTaken ==
  ASSUME NEW column, column.pii \in BOOLEAN, column.identifier \in BOOLEAN
  PROVE  EveryOfferIsTaken(column)
<1> DEFINE kind == PickerKind(column)
<1>1. kind \in Slots3 => ~column.pii /\ ~column.identifier BY DEF PickerKind, Slots3
<1> HIDE DEF kind
<1>2. ASSUME NEW slot \in Slots3 PROVE Offered(column, slot) <=> Fills(column, {slot})
  <2>1. Offered(column, slot) <=> kind # "text" /\ kind = slot BY DEF Offered, kind
  <2>2. Fills(column, {slot}) <=> ~column.pii /\ ~column.identifier /\ kind = slot BY DEF Fills, kind
  <2>3. slot # "text" BY DEF Slots3
  <2>4. QED BY <1>1, <2>1, <2>2, <2>3
<1>3. QED BY <1>2 DEF EveryOfferIsTaken

(* A sum over a join nobody is warned about counts every row once.            *)
THEOREM JoinsAreCounted == Spec => []JoinsHold
<1>1. AnInput => JoinsHold
  <2>1. SUFFICES ASSUME AnInput PROVE JoinsHold OBVIOUS
  <2>2. ASSUME question = "joined" PROVE QuietJoinCountsOnce(input.tables, input.query)
    <3>1. BothWays(input.query.joins) /\ \A agg \in input.query.aggregated : agg.table \in {"a", "b"}
      BY <2>1, <2>2, QueriesAssumption DEF AnInput
    <3>2. QED BY <3>1, QuietJoins
  <2>3. ASSUME question = "guided" PROVE GuidedCountsOnce(input.tables, input.keys)
    <3>1. BothWays(input.keys) BY <2>1, <2>3, QueriesAssumption DEF AnInput
    <3>2. QED BY <3>1, GuidedJoins
  <2>4. ASSUME question = "slot" PROVE EveryOfferIsTaken(input)
    <3>1. input.pii \in BOOLEAN /\ input.identifier \in BOOLEAN BY <2>1, <2>4, QueriesAssumption DEF AnInput
    <3>2. QED BY <3>1, OffersAreTaken
  <2>5. QED BY <2>2, <2>3, <2>4 DEF JoinsHold
<1>2. QED BY <1>1, OnlyInputs, PTL

------------------------------------------------------------------------------
(* The guard.                                                                 *)
(* The least level of a set of levels is one of them.                         *)
LEMMA LeastLevel ==
  ASSUME NEW query, Query(query), NEW S, S \subseteq Levels(query), S # {}
  PROVE  Min(S) \in S /\ Min(S) \in Levels(query)
<1>1. PICK n \in Nat : Levels(query) = 1..n BY DEF Query, Levels
<1>2. IsFiniteSet(S) /\ S \subseteq Int BY <1>1, Positions
<1>3. QED BY <1>2, MinIs

(* An alias stands for the source that the one scope that has it gives it.    *)
LEMMA SourceIs ==
  ASSUME NEW query, Query(query), NEW l \in Levels(query), NEW a \in DOMAIN query.chain[l].sources
  PROVE  SourceOf(query, a) = query.chain[l].sources[a]
<1> DEFINE knows == {m \in Levels(query) : a \in DOMAIN query.chain[m].sources}
<1>1. knows = {l} BY DEF Query, Levels
<1>2. knows \subseteq Levels(query) /\ knows # {} BY <1>1
<1>3. Min(knows) = l
  <2> HIDE DEF knows
  <2>1. QED BY <1>1, <1>2, LeastLevel
<1>4. SourceOf(query, a) = query.chain[Min(knows)].sources[a] BY <1>2 DEF SourceOf
<1>5. QED BY <1>3, <1>4

LEMMA NearestIs ==
  ASSUME NEW query, Query(query), NEW name, Nearest(query, name) # <<>>
  PROVE  /\ Nearest(query, name)[1] \in Levels(query)
         /\ Nearest(query, name)[2] \in Providers(query, Nearest(query, name)[1], name)
<1> DEFINE levels == {l \in Levels(query) : Providers(query, l, name) # {}}
<1>1. levels # {} /\ Nearest(query, name) = <<Min(levels), CHOOSE a \in Providers(query, Min(levels), name) : TRUE>>
  BY DEF Nearest
<1>2. levels \subseteq Levels(query) OBVIOUS
<1>3. Min(levels) \in levels /\ Min(levels) \in Levels(query)
  <2> HIDE DEF levels
  <2>1. QED BY <1>1, <1>2, LeastLevel
<1>4. Providers(query, Min(levels), name) # {} BY <1>3
<1>5. QED BY <1>1, <1>3, <1>4

(* What the guard says of a name that qualify left bare.                      *)
LEMMA BareIsListed ==
  ASSUME NEW query, Query(query), NEW name, Unresolved(query, name).code = "ok",
         GivesUp(query) \/ Nearest(query, name) = <<>>
  PROVE  DatabaseReads(query, name, Bare) \subseteq Unresolved(query, name).reads
<1> DEFINE owners == OwnersOf(query, name)
<1>1. ~ \E l \in Levels(query) : name \in DOMAIN query.chain[l].sources BY DEF Unresolved, Refused
<1>2. SourceOf(query, name) = Bare BY <1>1 DEF SourceOf
<1>3. ~IsRealTable(Bare) BY CatalogAssumption DEF IsRealTable
<1>4. CASE Nearest(query, name) = <<>>
  <2>1. DatabaseReads(query, name, Bare) = {} BY <1>2, <1>3, <1>4 DEF DatabaseReads
  <2>2. QED BY <2>1
<1>5. CASE Nearest(query, name) # <<>>
  <2>1. PICK l, a : l = Nearest(query, name)[1] /\ a = Nearest(query, name)[2] OBVIOUS
  <2>2. PICK at : at = query.chain[l].sources[a] OBVIOUS
  <2>3. l \in Levels(query) /\ a \in Providers(query, l, name) BY <1>5, <2>1, NearestIs
  <2>4. DatabaseReads(query, name, Bare) = IF IsRealTable(at) /\ name \in Catalog[at] THEN {<<at, name>>} ELSE {}
    BY <1>5, <2>1, <2>2 DEF DatabaseReads
  <2>5. CASE IsRealTable(at) /\ name \in Catalog[at]
    <3>1. a \in DOMAIN query.chain[l].sources BY <2>3 DEF Providers
    <3>2. at \in Visible(query) BY <2>2, <2>3, <3>1 DEF Visible, AllSources
    <3>3. <<l, a>> \in owners
      <4>1. <<l, a>> \in Levels(query) \X UNION {DOMAIN query.chain[m].sources : m \in Levels(query)} BY <2>3, <3>1
      <4>2. PICK o : o = <<l, a>> OBVIOUS
      <4>3. o[1] = l /\ o[2] = a /\ o \in Levels(query) \X UNION {DOMAIN query.chain[m].sources : m \in Levels(query)}
        BY <4>1, <4>2
      <4>4. o \in owners BY <2>2, <2>5, <3>1, <3>2, <4>3 DEF OwnersOf
      <4>5. QED BY <4>2, <4>4
    <3> HIDE DEF owners
    <3>4. ~query.chain[1].set
      <4>1. DOMAIN query.chain[1].sources # {} BY <1>5 DEF GivesUp
      <4>2. QED BY <4>1 DEF Query
    <3>5. \E o \in owners : owners = {o}
      <4>1. Unresolved(query, name).code = "unknown_column" \/ \E o \in owners : owners = {o}
        BY <1>1, <3>3, <3>4 DEF Unresolved, Refused, owners
      <4>2. QED BY <4>1
    <3>6. Unresolved(query, name) =
            LET o == CHOOSE o \in owners : TRUE IN Listed({<<query.chain[o[1]].sources[o[2]], name>>})
      BY <1>1, <3>4, <3>5 DEF Unresolved, owners
    <3>7. PICK o : o = CHOOSE p \in owners : TRUE OBVIOUS
    <3>8. o = <<l, a>> BY <3>3, <3>5, <3>7
    <3>a. o[1] = l /\ o[2] = a BY <3>8
    <3>b. Unresolved(query, name) = Listed({<<query.chain[o[1]].sources[o[2]], name>>}) BY <3>6, <3>7
    <3>c. Unresolved(query, name).reads = {<<at, name>>} BY <2>2, <3>a, <3>b DEF Listed
    <3>9. QED BY <2>4, <2>5, <3>c
  <2>6. CASE ~(IsRealTable(at) /\ name \in Catalog[at])
    <3>1. DatabaseReads(query, name, Bare) = {} BY <2>4, <2>6
    <3>2. QED BY <3>1
  <2>7. QED BY <2>5, <2>6
<1>6. QED BY <1>4, <1>5

(* What the guard says of a name with a table, written or found by qualify.   *)
LEMMA NamedIsListed ==
  ASSUME NEW query, Query(query), NEW name, NEW table, table # Bare, NEW at, at = SourceOf(query, table),
         Resolve(query, name, table).code = "ok", IsRealTable(at), name \in Catalog[at]
  PROVE  <<at, name>> \in Resolve(query, name, table).reads
BY DEF Resolve, Listed

LEMMA ReadIsListed ==
  ASSUME NEW query, Query(query), NEW name, NEW table,
         NEW found, found = (IF table # Bare THEN table ELSE Qualified(query, name)),
         Resolve(query, name, found).code = "ok"
  PROVE  DatabaseReads(query, name, table) \subseteq Resolve(query, name, found).reads
<1>1. CASE table # Bare
  <2>1. PICK at : at = SourceOf(query, table) OBVIOUS
  <2>2. DatabaseReads(query, name, table) = IF IsRealTable(at) /\ name \in Catalog[at] THEN {<<at, name>>} ELSE {}
    BY <1>1, <2>1 DEF DatabaseReads
  <2>3. IsRealTable(at) /\ name \in Catalog[at] => <<at, name>> \in Resolve(query, name, table).reads
    BY <1>1, <2>1, NamedIsListed
  <2>4. QED BY <1>1, <2>2, <2>3
<1>2. CASE table = Bare /\ (GivesUp(query) \/ Nearest(query, name) = <<>>)
  <2>1. found = Bare BY <1>2 DEF Qualified
  <2>2. Resolve(query, name, found) = Unresolved(query, name) BY <2>1 DEF Resolve
  <2>3. QED BY <1>2, <2>2, BareIsListed
<1>3. CASE table = Bare /\ ~GivesUp(query) /\ Nearest(query, name) # <<>>
  <2>1. PICK l, a : l = Nearest(query, name)[1] /\ a = Nearest(query, name)[2] OBVIOUS
  <2>2. l \in Levels(query) /\ a \in DOMAIN query.chain[l].sources BY <1>3, <2>1, NearestIs DEF Providers
  <2>3. found = a /\ a # Bare BY <1>3, <2>1, <2>2 DEF Qualified, Query, Levels
  <2>4. PICK at : at = query.chain[l].sources[a] OBVIOUS
  <2>5. SourceOf(query, found) = at BY <2>2, <2>3, <2>4, SourceIs
  <2>6. DatabaseReads(query, name, table) = IF IsRealTable(at) /\ name \in Catalog[at] THEN {<<at, name>>} ELSE {}
    BY <1>3, <2>1, <2>4 DEF DatabaseReads
  <2>7. IsRealTable(at) /\ name \in Catalog[at] => <<at, name>> \in Resolve(query, name, found).reads
    BY <2>3, <2>5, NamedIsListed
  <2>8. QED BY <2>6, <2>7
<1>4. QED BY <1>1, <1>2, <1>3

(* No refusal has the code of an acceptance.                                  *)
LEMMA RefusalsAre ==
  DOMAIN Refusals = 1..17 /\ \A i \in 1..17 : Refusals[i].code # "ok"
<1>1. DOMAIN Refusals = 1..17 BY DEF Refusals
<1>2. Refusals[1].code # "ok" /\ Refusals[2].code # "ok" /\ Refusals[3].code # "ok" /\ Refusals[4].code # "ok" /\ Refusals[5].code # "ok"
  BY DEF Refusals
<1>3. Refusals[6].code # "ok" /\ Refusals[7].code # "ok" /\ Refusals[8].code # "ok" /\ Refusals[9].code # "ok" /\ Refusals[10].code # "ok"
  BY DEF Refusals
<1>4. Refusals[11].code # "ok" /\ Refusals[12].code # "ok" /\ Refusals[13].code # "ok" /\ Refusals[14].code # "ok"
  BY DEF Refusals
<1>5. Refusals[15].code # "ok" /\ Refusals[16].code # "ok" /\ Refusals[17].code # "ok"
  BY DEF Refusals
<1>6. \A i \in 1..17 : i \in {1, 2, 3, 4, 5, 6, 7, 8, 9, 10, 11, 12, 13, 14, 15, 16, 17} OBVIOUS
<1>7. QED BY <1>1, <1>2, <1>3, <1>4, <1>5, <1>6

LEMMA ReadsAreListed ==
  ASSUME NEW query, Query(query)
  PROVE  AcceptedReadsAreListed(query)
<1> DEFINE verdict == ValidateSql(query)
           found(c) == IF c.table # Bare THEN c.table ELSE Qualified(query, c.name)
<1> SUFFICES ASSUME verdict.code = "ok"
             PROVE  /\ \A c \in query.columns : DatabaseReads(query, c.name, c.table) \subseteq verdict.reads
                    /\ query.star => BehindStar(query) \subseteq verdict.reads
                    /\ AllSources(query) \subseteq DOMAIN Catalog \cup {"series", "cte"}
  BY DEF AcceptedReadsAreListed
<1>1. Structural(query) = {}
  <2>1. SUFFICES ASSUME Structural(query) # {} PROVE FALSE OBVIOUS
  <2>2. Structural(query) \subseteq 1..17 BY RefusalsAre DEF Structural
  <2>3. Min(Structural(query)) \in 1..17
    <3>1. PICK n \in Nat : n = 17 OBVIOUS
    <3>2. Structural(query) \subseteq 1..n BY <2>2, <3>1
    <3>3. IsFiniteSet(Structural(query)) /\ Structural(query) \subseteq Int BY <3>2, Positions
    <3>4. QED BY <2>1, <2>2, <3>3, MinIs
  <2>4. \A i \in 1..17 : Refusals[i].code # "ok" BY RefusalsAre
  <2>5. verdict = Refused(Refusals[Min(Structural(query))].code) BY <2>1 DEF ValidateSql
  <2>6. verdict.code = Refusals[Min(Structural(query))].code BY <2>5 DEF Refused
  <2>7. QED BY <2>3, <2>4, <2>6
<1>2. \A t \in RealTables(query) : t \in DOMAIN Catalog
  BY <1>1 DEF ValidateSql, Refused
<1>3. \A a \in Answers(query) : a.code = "ok" BY <1>1, <1>2 DEF ValidateSql, Refused
<1>4. verdict.reads = (UNION {a.reads : a \in Answers(query)}) \cup (IF query.star THEN BehindStar(query) ELSE {})
  BY <1>1, <1>2, <1>3 DEF ValidateSql, Listed
<1>5. \A c \in query.columns : Resolve(query, c.name, found(c)) \in Answers(query) BY DEF Answers
<1>6. ASSUME NEW c \in query.columns PROVE DatabaseReads(query, c.name, c.table) \subseteq verdict.reads
  <2>1. Resolve(query, c.name, found(c)).code = "ok" BY <1>3, <1>5
  <2>2. DatabaseReads(query, c.name, c.table) \subseteq Resolve(query, c.name, found(c)).reads BY <2>1, ReadIsListed
  <2>3. QED BY <1>4, <1>5, <2>2
<1>7. AllSources(query) \subseteq DOMAIN Catalog \cup {"series", "cte"} BY <1>2 DEF RealTables
<1>8. query.star => BehindStar(query) \subseteq verdict.reads
  <2>1. ASSUME query.star, NEW x \in BehindStar(query) PROVE x \in verdict.reads
    <3>1. verdict.reads = (UNION {a.reads : a \in Answers(query)}) \cup BehindStar(query) BY <1>4, <2>1
    <3>2. QED BY <2>1, <3>1
  <2>2. QED BY <2>1
<1> HIDE DEF verdict
<1>9. QED BY <1>6, <1>7, <1>8

(* Every table and column an accepted query reads is one the guard resolved.  *)
THEOREM ReadsAreResolved == Spec => []ReadsHold
<1>1. AnInput => ReadsHold
  <2>1. SUFFICES ASSUME AnInput, question = "query" PROVE AcceptedReadsAreListed(input) BY DEF ReadsHold
  <2>2. Query(input) BY <2>1, QueriesAssumption DEF AnInput
  <2>3. QED BY <2>2, ReadsAreListed
<1>2. QED BY <1>1, OnlyInputs, PTL

------------------------------------------------------------------------------
(* Checks of a result.                                                        *)
(* Every month that a match names is in the period it resolves to.            *)
LEMMA NamedMonthsAreIn ==
  ASSUME NEW match, Match(match), NEW p, p = ResolvePeriod(match), p # NoPeriod, NEW m \in Int, IsNamed(match, m)
  PROVE  p[1] <= m /\ m <= p[2]
<1> DEFINE year == IF match.kind = "fy" THEN FourDigit(match.ends) - 1 ELSE match.year
           q == match.quarter
<1>1. PICK y : y = year OBVIOUS
<1>2. y \in Int /\ q \in 0..4 /\ match.month \in 1..12
      /\ (match.kind = "fy" => y = FourDigit(match.ends) - 1 /\ FourDigit(match.ends) = y + 1)
      /\ (match.kind # "fy" => y = match.year)
  BY <1>1 DEF Match, FourDigit
<1>3. PICK month : month = IF q # 0 THEN 4 + 3 * (q - 1) ELSE IF match.kind = "fy" THEN 4 ELSE IF match.kind = "month" THEN match.month ELSE 1
  OBVIOUS
<1>4. PICK months : months = IF q # 0 THEN 3 ELSE IF match.kind = "month" THEN 1 ELSE 12 OBVIOUS
<1>5. p = <<y * 12 + month - 1, y * 12 + month - 1 + months - 1>> /\ ~(match.kind = "month" /\ q # 0)
  BY <1>1, <1>3, <1>4 DEF ResolvePeriod, FiscalStart, Match
<1>6. month \in Int /\ months \in Int BY <1>2, <1>3, <1>4
<1>7. SUFFICES y * 12 + month - 1 <= m /\ m <= y * 12 + month - 1 + months - 1 BY <1>2, <1>5, <1>6
<1>8. PICK d, r : d = m \div 12 /\ r = m % 12 OBVIOUS
<1>9. d \in Int /\ r \in 0..11 /\ m = 12 * d + r BY <1>8
<1> HIDE DEF year
<1>10. CASE q # 0
  <2>1. month = 4 + 3 * (q - 1) /\ months = 3 BY <1>3, <1>4, <1>10
  <2>2. FiscalQuarter(m) = q BY <1>10 DEF IsNamed
  <2>3. FiscalYear(m) = y + 1 BY <1>2, <1>5, <1>10 DEF IsNamed, Match
  <2>4. CASE r >= 3
    <3>1. d = y BY <1>2, <1>8, <1>9, <2>3, <2>4 DEF FiscalYear
    <3>2. PICK k : k = r \div 3 OBVIOUS
    <3>3. k = q BY <1>8, <2>2, <2>4, <3>2 DEF FiscalQuarter
    <3>4. 3 * k <= r /\ r <= 3 * k + 2 /\ k \in Int BY <1>9, <3>2
    <3> HIDE DEF q
    <3>5. QED BY <1>2, <1>9, <2>1, <3>1, <3>3, <3>4
  <2>5. CASE r < 3
    <3>1. d = y + 1 BY <1>2, <1>8, <1>9, <2>3, <2>5 DEF FiscalYear
    <3>2. q = 4 BY <1>8, <1>9, <2>2, <2>5 DEF FiscalQuarter
    <3>3. QED BY <1>2, <1>9, <2>1, <2>5, <3>1, <3>2
  <2>6. QED BY <1>9, <2>4, <2>5
<1>11. CASE q = 0 /\ match.kind = "fy"
  <2>1. month = 4 /\ months = 12 BY <1>3, <1>4, <1>11
  <2>2. FiscalYear(m) = y + 1 BY <1>2, <1>11 DEF IsNamed
  <2>3. (d = y /\ r >= 3) \/ (d = y + 1 /\ r < 3) BY <1>2, <1>8, <1>9, <2>2 DEF FiscalYear
  <2>4. QED BY <1>2, <1>9, <2>1, <2>3
<1>12. CASE q = 0 /\ match.kind = "month"
  <2>1. month = match.month /\ months = 1 BY <1>3, <1>4, <1>12
  <2>2. m = 12 * y + match.month - 1 BY <1>2, <1>12 DEF IsNamed
  <2>3. QED BY <1>2, <2>1, <2>2
<1>13. CASE q = 0 /\ match.kind = "year"
  <2>1. month = 1 /\ months = 12 BY <1>3, <1>4, <1>13
  <2>2. d = y BY <1>2, <1>8, <1>13 DEF IsNamed
  <2>3. QED BY <1>2, <1>9, <2>1, <2>2
<1>14. QED BY <1>10, <1>11, <1>12, <1>13 DEF Match

(* A table is named for a period only if it has months the question does not  *)
(* name, fiscal quarters included.                                             *)
LEMMA CaveatsAreTrue ==
  ASSUME NEW match, Match(match), NEW span \in Int \X Int, span[1] <= span[2]
  PROVE  CaveatIsTrue(match, span, {})
<1> DEFINE spans == [t \in {"t"} |-> span]
           named == {m \in (12 * 2022)..(12 * 2028) : IsNamed(match, m)}
<1>1. SUFFICES ASSUME span[1]..span[2] \subseteq named
               PROVE  PeriodRisks({match}, {"t"}, spans, {}, {}) = {}
  BY DEF CaveatIsTrue
<1>2. PICK p : p = NamedPeriod({match}) OBVIOUS
<1>3. p = NoPeriod \/ (p = ResolvePeriod(match) /\ p # NoPeriod)
  <2>1. {ResolvePeriod(m) : m \in {match}} = {ResolvePeriod(match)} OBVIOUS
  <2>2. Cardinality({ResolvePeriod(match)}) = 1 BY FS_Singleton
  <2>3. QED BY <1>2, <2>1, <2>2 DEF NamedPeriod
<1>4. CASE p = NoPeriod BY <1>2, <1>4 DEF PeriodRisks
<1>5. CASE p = ResolvePeriod(match) /\ p # NoPeriod
  <2>1. span[1] \in Int /\ span[2] \in Int /\ span[1] \in span[1]..span[2] /\ span[2] \in span[1]..span[2] OBVIOUS
  <2>2. IsNamed(match, span[1]) /\ IsNamed(match, span[2]) BY <1>1, <2>1
  <2>3. p[1] <= span[1] /\ span[2] <= p[2] BY <1>5, <2>1, <2>2, NamedMonthsAreIn
  <2>4. "t" \in {"t"} \cap DOMAIN spans /\ spans["t"] = span OBVIOUS
  <2> HIDE DEF spans
  <2>5. QED BY <1>2, <2>3, <2>4 DEF PeriodRisks
<1>6. QED BY <1>3, <1>4, <1>5

(* The place of an element among those of a finite set, in a strict order of   *)
(* it: every place is somebody's, and nobody's twice.                          *)
StrictOrder(S, R) ==
  /\ \A i \in S : <<i, i>> \notin R
  /\ \A i, j, k \in S : <<i, j>> \in R /\ <<j, k>> \in R => <<i, k>> \in R
  /\ \A i, j \in S : i # j => <<i, j>> \in R \/ <<j, i>> \in R
Rank(S, R, i) == Cardinality({k \in S : <<k, i>> \in R})

LEMMA RanksAre ==
  ASSUME NEW S, IsFiniteSet(S), NEW R, StrictOrder(S, R)
  PROVE  /\ Cardinality(S) \in Nat
         /\ \A i \in S : Rank(S, R, i) \in 0..(Cardinality(S) - 1)
         /\ \A i, j \in S : <<i, j>> \in R => Rank(S, R, i) < Rank(S, R, j)
         /\ \A r \in 0..(Cardinality(S) - 1) : \E i \in S : Rank(S, R, i) = r
<1> DEFINE Before(i) == {k \in S : <<k, i>> \in R}
<1>1. \A i \in S : <<i, i>> \notin R BY DEF StrictOrder
<1>2. \A i, j, k \in S : <<i, j>> \in R /\ <<j, k>> \in R => <<i, k>> \in R BY DEF StrictOrder
<1>3. \A i, j \in S : i # j => <<i, j>> \in R \/ <<j, i>> \in R BY DEF StrictOrder
<1>4. PICK n : n = Cardinality(S) OBVIOUS
<1>5. n \in Nat BY <1>4, Counted
<1>6. ASSUME NEW T, T \subseteq S, NEW x \in S, x \notin T
      PROVE  IsFiniteSet(T) /\ Cardinality(T) \in Nat /\ Cardinality(T) + 1 <= n
  <2>1. IsFiniteSet(T) /\ Cardinality(T) \in Nat BY <1>6, Counted
  <2>2. Cardinality(T \cup {x}) = Cardinality(T) + 1 /\ IsFiniteSet(T \cup {x}) BY <1>6, <2>1, FS_AddElement
  <2>3. T \cup {x} \in SUBSET S BY <1>6
  <2>4. Cardinality(T \cup {x}) <= n BY <1>4, <2>3, Counted
  <2>5. QED BY <2>1, <2>2, <2>4
<1>7. \A i \in S : Rank(S, R, i) \in 0..(n - 1)
  <2>1. TAKE i \in S
  <2>2. Before(i) \subseteq S /\ i \notin Before(i) BY <1>1
  <2>3. PICK c : c = Cardinality(Before(i)) OBVIOUS
  <2>4. c \in Nat /\ c + 1 <= n BY <1>6, <2>2, <2>3
  <2>5. QED BY <1>5, <2>3, <2>4 DEF Rank
<1>8. ASSUME NEW i \in S, NEW j \in S, <<i, j>> \in R PROVE Rank(S, R, i) < Rank(S, R, j)
  <2>1. PICK A, B : A = Before(i) /\ B = Before(j) OBVIOUS
  <2>2. A \subseteq B /\ i \in B /\ i \notin A /\ B \subseteq S BY <1>1, <1>2, <1>8, <2>1
  <2>3. IsFiniteSet(B) BY <2>2, Counted
  <2>4. IsFiniteSet(A) /\ Cardinality(A) \in Nat BY <1>6, <2>2
  <2>5. Cardinality(A \cup {i}) = Cardinality(A) + 1 BY <2>2, <2>4, FS_AddElement
  <2>6. A \cup {i} \in SUBSET B BY <2>2
  <2>7. Cardinality(A \cup {i}) <= Cardinality(B) /\ Cardinality(B) \in Nat BY <2>3, <2>6, Counted
  <2>8. QED BY <2>1, <2>4, <2>5, <2>7 DEF Rank
<1>9. \A r \in 0..(n - 1) : \E i \in S : Rank(S, R, i) = r
  <2>1. PICK f : f = [i \in S |-> Rank(S, R, i) + 1] OBVIOUS
  <2>2. f \in [S -> 1..n] BY <1>5, <1>7, <2>1
  <2>3. \A i, j \in S : f[i] = f[j] => i = j
    <3>1. TAKE i, j \in S
    <3>2. SUFFICES ASSUME i # j PROVE f[i] # f[j] OBVIOUS
    <3>3. Rank(S, R, i) \in Int /\ Rank(S, R, j) \in Int BY <1>5, <1>7
    <3>4. <<i, j>> \in R \/ <<j, i>> \in R BY <1>3, <3>2
    <3>5. Rank(S, R, i) < Rank(S, R, j) \/ Rank(S, R, j) < Rank(S, R, i) BY <1>8, <3>4
    <3>6. QED BY <2>1, <3>3, <3>5
  <2>4. f \in Injection(S, 1..n) BY <2>2, <2>3 DEF Injection, IsInjective
  <2>5. IsFiniteSet(1..n) /\ Cardinality(1..n) = n BY <1>5, FS_Interval
  <2>6. f \in Surjection(S, 1..n) BY <1>4, <2>4, <2>5, FS_Injection
  <2>7. TAKE r \in 0..(n - 1)
  <2>8. r + 1 \in 1..n /\ r \in Int BY <1>5
  <2>9. PICK i \in S : f[i] = r + 1 BY <2>6, <2>8 DEF Surjection
  <2>10. Rank(S, R, i) \in Int BY <1>5, <1>7
  <2>11. QED BY <2>1, <2>8, <2>9, <2>10
<1>10. QED BY <1>4, <1>5, <1>7, <1>8, <1>9

------------------------------------------------------------------------------
(* The sort key of a row is two lists of its cells.                            *)
LEMMA SelectedIs ==
  ASSUME NEW row \in Seq(ResultCell), NEW numbers \in BOOLEAN
  PROVE  /\ Selected(row, numbers) \in Seq(ResultCell)
         /\ \A j \in 1..Len(row) : (row[j][1] = NumberKind) = numbers => Len(Selected(row, numbers)) > 0
         /\ \A n \in 1..Len(Selected(row, numbers)) : \E j \in 1..Len(row) :
              (row[j][1] = NumberKind) = numbers /\ Selected(row, numbers)[n] = row[j]
<1>1. PICK K : K = {j \in DOMAIN row : (row[j][1] = NumberKind) = numbers} OBVIOUS
<1>2. K \subseteq 1..Len(row) /\ Len(row) \in Nat /\ \A j \in 1..Len(row) : row[j] \in ResultCell BY <1>1, InList
<1>3. IsFiniteSet(K) BY <1>2, Positions
<1>4. PICK R : R = {p \in K \X K : p[1] < p[2]} OBVIOUS
<1>5. \A i, j \in K : <<i, j>> \in R <=> i < j BY <1>4
<1>6. \A i \in K : i \in Int BY <1>2
<1>7. StrictOrder(K, R)
  <2>1. \A i \in K : <<i, i>> \notin R BY <1>5, <1>6
  <2>2. ASSUME NEW i \in K, NEW j \in K, NEW k \in K, <<i, j>> \in R, <<j, k>> \in R PROVE <<i, k>> \in R
    <3>1. i < j /\ j < k BY <1>5, <2>2
    <3>2. i \in Int /\ j \in Int /\ k \in Int BY <1>6
    <3>3. i < k BY <3>1, <3>2
    <3>4. QED BY <1>5, <3>3
  <2>3. ASSUME NEW i \in K, NEW j \in K, i # j PROVE <<i, j>> \in R \/ <<j, i>> \in R
    <3>1. i \in Int /\ j \in Int BY <1>6
    <3>2. i < j \/ j < i BY <2>3, <3>1
    <3>3. QED BY <1>5, <3>2
  <2>4. QED BY ONLY <2>1, <2>2, <2>3 DEF StrictOrder
<1>8. PICK c : c = Cardinality(K) OBVIOUS
<1>9. c \in Nat /\ \A r \in 0..(c - 1) : \E j \in K : Rank(K, R, j) = r BY <1>3, <1>7, <1>8, RanksAre
<1>10. \A j \in K : {k \in K : k < j} = {k \in K : <<k, j>> \in R} BY <1>5
<1>11. \A n \in 1..c : \E j \in K : Cardinality({k \in K : k < j}) = n - 1
  <2>1. TAKE n \in 1..c
  <2>2. n - 1 \in 0..(c - 1) BY <1>9
  <2>3. PICK j \in K : Rank(K, R, j) = n - 1 BY <1>9, <2>2
  <2>4. QED BY <1>10, <2>3 DEF Rank
<1>12. PICK f : f = [n \in 1..c |-> row[CHOOSE j \in K : Cardinality({k \in K : k < j}) = n - 1]] OBVIOUS
<1>13. f = Selected(row, numbers) BY <1>1, <1>8, <1>12 DEF Selected
<1>14. \A n \in 1..c : \E j \in K : f[n] = row[j] BY <1>11, <1>12
<1>15. f \in [1..c -> ResultCell] BY <1>2, <1>12, <1>14
<1>16. f \in Seq(ResultCell) BY <1>9, <1>15, AsList
<1>17. Len(f) = c BY <1>9, <1>15, AsList
<1>18. ASSUME NEW j \in 1..Len(row), (row[j][1] = NumberKind) = numbers PROVE c > 0
  <2>1. j \in K BY <1>1, <1>2, <1>18, InList
  <2>2. c # 0 BY <1>3, <1>8, <2>1, Counted
  <2>3. QED BY <1>9, <2>2
<1>19. \A n \in 1..c : \E j \in 1..Len(row) : (row[j][1] = NumberKind) = numbers /\ f[n] = row[j] BY <1>1, <1>2, <1>14
<1>20. QED BY <1>13, <1>16, <1>17, <1>18, <1>19

(* Keys compare like words in a dictionary.                                    *)
LEMMA CellsCompare ==
  ASSUME NEW x \in ResultCell, NEW y \in ResultCell, NEW z \in ResultCell
  PROVE  /\ ~CellBelow(x, x) /\ (x = y \/ CellBelow(x, y) \/ CellBelow(y, x))
         /\ CellBelow(x, y) /\ CellBelow(y, z) => CellBelow(x, z)
<1>1. /\ x = <<x[1], x[2]>> /\ y = <<y[1], y[2]>>
      /\ x[1] \in Int /\ x[2] \in Int /\ y[1] \in Int /\ y[2] \in Int /\ z[1] \in Int /\ z[2] \in Int
  BY DEF ResultCell
<1>2. x[1] = y[1] /\ x[2] = y[2] => x = y BY <1>1
<1>3. QED BY <1>1, <1>2 DEF CellBelow

FirstApart(xs, ys, i) ==
  /\ i \in DOMAIN ys /\ \A j \in 1..(i - 1) : j \in DOMAIN xs /\ xs[j] = ys[j]
  /\ i \in DOMAIN xs => CellBelow(xs[i], ys[i])

LEMMA BelowIs ==
  ASSUME NEW xs, NEW ys
  PROVE  Below(xs, ys) <=> \E i \in DOMAIN ys : FirstApart(xs, ys, i)
BY DEF Below, FirstApart

LEMMA WordsCompare ==
  ASSUME NEW xs \in Seq(ResultCell), NEW ys \in Seq(ResultCell), NEW zs \in Seq(ResultCell)
  PROVE  /\ ~Below(xs, xs)
         /\ xs = ys \/ Below(xs, ys) \/ Below(ys, xs)
         /\ Below(xs, ys) /\ Below(ys, zs) => Below(xs, zs)
<1> DEFINE a == Len(xs)
           b == Len(ys)
           c == Len(zs)
<1>1. /\ a \in Nat /\ DOMAIN xs = 1..a /\ \A i \in 1..a : xs[i] \in ResultCell
      /\ b \in Nat /\ DOMAIN ys = 1..b /\ \A i \in 1..b : ys[i] \in ResultCell
      /\ c \in Nat /\ DOMAIN zs = 1..c /\ \A i \in 1..c : zs[i] \in ResultCell
  BY InList
<1> HIDE DEF a, b, c
<1>2. ~Below(xs, xs)
  <2>1. SUFFICES ASSUME NEW i \in DOMAIN xs, FirstApart(xs, xs, i) PROVE FALSE BY BelowIs
  <2>2. xs[i] \in ResultCell /\ CellBelow(xs[i], xs[i]) BY <1>1, <2>1 DEF FirstApart
  <2>3. QED BY <2>2, CellsCompare
<1>3. xs = ys \/ Below(xs, ys) \/ Below(ys, xs)
  <2>1. SUFFICES ASSUME xs # ys PROVE Below(xs, ys) \/ Below(ys, xs) OBVIOUS
  <2> DEFINE Apart == {i \in 1..(a + b + 1) : i \notin 1..a \/ i \notin 1..b \/ xs[i] # ys[i]}
  <2>2. Apart \subseteq Nat /\ a + b + 1 \in Apart BY <1>1
  <2>3. PICK i \in Apart : \A k \in Apart : i <= k BY <2>2, Least
  <2>4. i \in 1..(a + b + 1) /\ (i \notin 1..a \/ i \notin 1..b \/ xs[i] # ys[i]) OBVIOUS
  <2>5. \A j \in 1..(i - 1) : j \in 1..a /\ j \in 1..b /\ xs[j] = ys[j]
    <3>1. TAKE j \in 1..(i - 1)
    <3>2. j \in 1..(a + b + 1) /\ j < i BY <1>1, <2>4
    <3>3. j \notin Apart BY <1>1, <2>3, <3>2
    <3>4. QED BY <3>2, <3>3
  <2> HIDE DEF Apart
  <2>6. i \in 1..a \/ i \in 1..b
    <3>1. SUFFICES ASSUME i \notin 1..a, i \notin 1..b PROVE xs = ys BY <2>1
    <3>2. i > a /\ i > b BY <1>1, <2>4, <3>1
    <3>3. a = b
      <4>1. CASE a < b
        <5>1. b \in 1..(i - 1) BY <1>1, <2>4, <3>2, <4>1
        <5>2. b \in 1..a BY <2>5, <5>1
        <5>3. QED BY <1>1, <4>1, <5>2
      <4>2. CASE b < a
        <5>1. a \in 1..(i - 1) BY <1>1, <2>4, <3>2, <4>2
        <5>2. a \in 1..b BY <2>5, <5>1
        <5>3. QED BY <1>1, <4>2, <5>2
      <4>3. QED BY <1>1, <4>1, <4>2
    <3>4. \A j \in 1..a : xs[j] = ys[j]
      <4>1. TAKE j \in 1..a
      <4>2. j \in 1..(i - 1) BY <1>1, <2>4, <3>2
      <4>3. QED BY <2>5, <4>2
    <3>5. QED BY <1>1, <3>3, <3>4
  <2>7. \A j \in 1..(i - 1) : j \in DOMAIN xs /\ j \in DOMAIN ys /\ xs[j] = ys[j] BY <1>1, <2>5
  <2>8. CASE i \in 1..a /\ i \notin 1..b
    <3>1. FirstApart(ys, xs, i) BY <1>1, <2>7, <2>8 DEF FirstApart
    <3>2. QED BY <1>1, <2>8, <3>1, BelowIs
  <2>9. CASE i \notin 1..a /\ i \in 1..b
    <3>1. FirstApart(xs, ys, i) BY <1>1, <2>7, <2>9 DEF FirstApart
    <3>2. QED BY <1>1, <2>9, <3>1, BelowIs
  <2>10. CASE i \in 1..a /\ i \in 1..b
    <3>1. CellBelow(xs[i], ys[i]) \/ CellBelow(ys[i], xs[i]) BY <1>1, <2>4, <2>10, CellsCompare
    <3>2. FirstApart(xs, ys, i) \/ FirstApart(ys, xs, i) BY <1>1, <2>7, <2>10, <3>1 DEF FirstApart
    <3>3. QED BY <1>1, <2>10, <3>2, BelowIs
  <2>11. QED BY <2>6, <2>8, <2>9, <2>10
<1>4. ASSUME Below(xs, ys), Below(ys, zs) PROVE Below(xs, zs)
  <2>1. PICK i \in 1..b : FirstApart(xs, ys, i) BY <1>1, <1>4, BelowIs
  <2>2. PICK k \in 1..c : FirstApart(ys, zs, k) BY <1>1, <1>4, BelowIs
  <2>3. /\ \A j \in 1..(i - 1) : j \in 1..a /\ xs[j] = ys[j]
        /\ i \in 1..a => CellBelow(xs[i], ys[i])
    BY <1>1, <2>1 DEF FirstApart
  <2>4. /\ \A j \in 1..(k - 1) : j \in 1..b /\ ys[j] = zs[j]
        /\ k \in 1..b => CellBelow(ys[k], zs[k])
    BY <1>1, <2>2 DEF FirstApart
  <2>5. i \in Int /\ k \in Int OBVIOUS
  <2>6. CASE i < k
    <3>1. \A j \in 1..(i - 1) : j \in 1..(k - 1) BY <2>5, <2>6
    <3>2. i \in 1..(k - 1) BY <2>5, <2>6
    <3>3. ys[i] = zs[i] /\ \A j \in 1..(i - 1) : j \in 1..a /\ xs[j] = zs[j] BY <2>3, <2>4, <3>1, <3>2
    <3>4. i \in 1..c BY <1>1, <2>5, <2>6
    <3>5. FirstApart(xs, zs, i) BY <1>1, <2>3, <3>3, <3>4 DEF FirstApart
    <3>6. QED BY <1>1, <3>4, <3>5, BelowIs
  <2>7. CASE i = k
    <3>1. \A j \in 1..(i - 1) : j \in 1..a /\ xs[j] = zs[j] BY <2>3, <2>4, <2>7
    <3>2. i \in 1..a => CellBelow(xs[i], zs[i])
      <4>1. HAVE i \in 1..a
      <4>2. CellBelow(xs[i], ys[i]) /\ CellBelow(ys[i], zs[i]) BY <2>3, <2>4, <2>7, <4>1
      <4>3. QED BY <1>1, <2>7, <4>1, <4>2, CellsCompare
    <3>3. FirstApart(xs, zs, i) BY <1>1, <2>7, <3>1, <3>2 DEF FirstApart
    <3>4. QED BY <1>1, <2>7, <3>3, BelowIs
  <2>8. CASE k < i
    <3>1. \A j \in 1..(k - 1) : j \in 1..(i - 1) BY <2>5, <2>8
    <3>2. k \in 1..(i - 1) BY <2>5, <2>8
    <3>3. k \in 1..a /\ xs[k] = ys[k] /\ k \in 1..b BY <1>1, <2>3, <2>5, <2>8, <3>2
    <3>4. \A j \in 1..(k - 1) : j \in 1..a /\ xs[j] = zs[j] BY <2>3, <2>4, <3>1
    <3>5. CellBelow(xs[k], zs[k]) BY <2>4, <3>3
    <3>6. FirstApart(xs, zs, k) BY <1>1, <3>4, <3>5 DEF FirstApart
    <3>7. QED BY <1>1, <3>6, BelowIs
  <2>9. QED BY <2>5, <2>6, <2>7, <2>8
<1>5. QED BY <1>2, <1>3, <1>4

LEMMA RowsCompare ==
  ASSUME NEW x \in Seq(ResultCell), NEW y \in Seq(ResultCell), NEW z \in Seq(ResultCell)
  PROVE  /\ ~RowBelow(x, x)
         /\ SortKey(x) = SortKey(y) \/ RowBelow(x, y) \/ RowBelow(y, x)
         /\ RowBelow(x, y) /\ RowBelow(y, z) => RowBelow(x, z)
         /\ SortKey(x) = SortKey(y) => (RowBelow(x, z) <=> RowBelow(y, z)) /\ (RowBelow(z, x) <=> RowBelow(z, y))
<1>1. PICK x1, x2, y1, y2, z1, z2 :
        /\ x1 = Selected(x, FALSE) /\ x2 = Selected(x, TRUE)
        /\ y1 = Selected(y, FALSE) /\ y2 = Selected(y, TRUE)
        /\ z1 = Selected(z, FALSE) /\ z2 = Selected(z, TRUE)
  OBVIOUS
<1>2. /\ x1 \in Seq(ResultCell) /\ x2 \in Seq(ResultCell) /\ y1 \in Seq(ResultCell) /\ y2 \in Seq(ResultCell)
      /\ z1 \in Seq(ResultCell) /\ z2 \in Seq(ResultCell)
  BY <1>1, SelectedIs
<1>3. /\ ~Below(x1, x1) /\ ~Below(x2, x2)
      /\ x1 = y1 \/ Below(x1, y1) \/ Below(y1, x1)
      /\ x2 = y2 \/ Below(x2, y2) \/ Below(y2, x2)
      /\ Below(x1, y1) /\ Below(y1, z1) => Below(x1, z1)
      /\ Below(x2, y2) /\ Below(y2, z2) => Below(x2, z2)
  BY <1>2, WordsCompare
<1>4. /\ SortKey(x) = <<x1, x2>> /\ SortKey(y) = <<y1, y2>> /\ SortKey(z) = <<z1, z2>> BY <1>1 DEF SortKey
<1>5. /\ RowBelow(x, x) <=> Below(x1, x1) \/ (x1 = x1 /\ Below(x2, x2))
      /\ RowBelow(x, y) <=> Below(x1, y1) \/ (x1 = y1 /\ Below(x2, y2))
      /\ RowBelow(y, x) <=> Below(y1, x1) \/ (y1 = x1 /\ Below(y2, x2))
      /\ RowBelow(y, z) <=> Below(y1, z1) \/ (y1 = z1 /\ Below(y2, z2))
      /\ RowBelow(x, z) <=> Below(x1, z1) \/ (x1 = z1 /\ Below(x2, z2))
      /\ RowBelow(z, x) <=> Below(z1, x1) \/ (z1 = x1 /\ Below(z2, x2))
      /\ RowBelow(z, y) <=> Below(z1, y1) \/ (z1 = y1 /\ Below(z2, y2))
  BY <1>4 DEF RowBelow
<1>6. SortKey(x) = SortKey(y) <=> x1 = y1 /\ x2 = y2 BY <1>4
<1>7. QED BY ONLY <1>3, <1>5, <1>6

------------------------------------------------------------------------------
(* Sorting gives every row a place of its own, and every place a row.          *)
Ordered(rows, n) == {p \in (1..n) \X (1..n) :
  RowBelow(rows[p[1]], rows[p[2]]) \/ (SortKey(rows[p[1]]) = SortKey(rows[p[2]]) /\ p[1] < p[2])}

LEMMA PlacesAre ==
  ASSUME NEW rows, NEW n \in Nat, DOMAIN rows = 1..n, \A i \in 1..n : rows[i] \in Seq(ResultCell)
  PROVE  /\ \A i \in 1..n : SortedPlace(rows, i) \in 1..n
         /\ \A i, k \in 1..n : SortedPlace(rows, i) = SortedPlace(rows, k) => i = k
         /\ \A p \in 1..n : \E i \in 1..n : SortedPlace(rows, i) = p
<1>1. PICK R : R = Ordered(rows, n) OBVIOUS
<1>2. \A i, k \in 1..n : <<i, k>> \in R <=> RowBelow(rows[i], rows[k]) \/ (SortKey(rows[i]) = SortKey(rows[k]) /\ i < k)
  BY <1>1 DEF Ordered
<1>3. \A i, j, k \in 1..n :
        /\ ~RowBelow(rows[i], rows[i])
        /\ SortKey(rows[i]) = SortKey(rows[j]) \/ RowBelow(rows[i], rows[j]) \/ RowBelow(rows[j], rows[i])
        /\ RowBelow(rows[i], rows[j]) /\ RowBelow(rows[j], rows[k]) => RowBelow(rows[i], rows[k])
        /\ SortKey(rows[i]) = SortKey(rows[j]) =>
             (RowBelow(rows[i], rows[k]) <=> RowBelow(rows[j], rows[k])) /\ (RowBelow(rows[k], rows[i]) <=> RowBelow(rows[k], rows[j]))
  BY RowsCompare
<1>4. StrictOrder(1..n, R)
  <2>1. \A i \in 1..n : <<i, i>> \notin R BY <1>2, <1>3
  <2>2. ASSUME NEW i \in 1..n, NEW j \in 1..n, NEW k \in 1..n, <<i, j>> \in R, <<j, k>> \in R PROVE <<i, k>> \in R
    <3>1. RowBelow(rows[i], rows[j]) \/ (SortKey(rows[i]) = SortKey(rows[j]) /\ i < j) BY <1>2, <2>2
    <3>2. RowBelow(rows[j], rows[k]) \/ (SortKey(rows[j]) = SortKey(rows[k]) /\ j < k) BY <1>2, <2>2
    <3>3. i < j /\ j < k => i < k OBVIOUS
    <3>4. CASE RowBelow(rows[i], rows[j]) /\ RowBelow(rows[j], rows[k]) BY <1>2, <1>3, <3>4
    <3>5. CASE RowBelow(rows[i], rows[j]) /\ SortKey(rows[j]) = SortKey(rows[k])
      <4>1. RowBelow(rows[i], rows[k]) BY <1>3, <3>5
      <4>2. QED BY <1>2, <4>1
    <3>6. CASE SortKey(rows[i]) = SortKey(rows[j]) /\ RowBelow(rows[j], rows[k])
      <4>1. RowBelow(rows[i], rows[k]) BY <1>3, <3>6
      <4>2. QED BY <1>2, <4>1
    <3>7. CASE SortKey(rows[i]) = SortKey(rows[j]) /\ i < j /\ SortKey(rows[j]) = SortKey(rows[k]) /\ j < k
      BY <1>2, <3>3, <3>7
    <3>8. QED BY <3>1, <3>2, <3>4, <3>5, <3>6, <3>7
  <2>3. ASSUME NEW i \in 1..n, NEW j \in 1..n, i # j PROVE <<i, j>> \in R \/ <<j, i>> \in R
    <3>1. i < j \/ j < i BY <2>3
    <3>2. QED BY <1>2, <1>3, <3>1
  <2>4. QED BY ONLY <2>1, <2>2, <2>3 DEF StrictOrder
<1>5. IsFiniteSet(1..n) /\ Cardinality(1..n) = n BY Positions
<1>6. /\ \A i \in 1..n : Rank(1..n, R, i) \in 0..(n - 1)
      /\ \A i, j \in 1..n : <<i, j>> \in R => Rank(1..n, R, i) < Rank(1..n, R, j)
      /\ \A r \in 0..(n - 1) : \E i \in 1..n : Rank(1..n, R, i) = r
  <2>1. PICK S : S = 1..n OBVIOUS
  <2>2. IsFiniteSet(S) /\ Cardinality(S) = n /\ StrictOrder(S, R) BY <1>4, <1>5, <2>1
  <2>3. /\ \A i \in S : Rank(S, R, i) \in 0..(n - 1)
        /\ \A i, j \in S : <<i, j>> \in R => Rank(S, R, i) < Rank(S, R, j)
        /\ \A r \in 0..(n - 1) : \E i \in S : Rank(S, R, i) = r
    BY <2>2, RanksAre
  <2>4. QED BY <2>1, <2>3
<1>7. ASSUME NEW i \in 1..n PROVE SortedPlace(rows, i) = Rank(1..n, R, i) + 1
  <2>1. PICK A : A = {k \in 1..n : <<k, i>> \in R} OBVIOUS
  <2>2. i \notin A /\ A \subseteq 1..n BY <1>2, <1>3, <2>1
  <2>3. IsFiniteSet(A) BY <2>2, Positions
  <2>4. Cardinality(A \cup {i}) = Cardinality(A) + 1 BY <2>2, <2>3, FS_AddElement
  <2>5. \A k \in 1..n : RowBelow(rows[k], rows[i]) \/ (k <= i /\ ~RowBelow(rows[i], rows[k])) <=> k \in A \cup {i}
    <3>1. TAKE k \in 1..n
    <3>2. k <= i <=> k < i \/ k = i OBVIOUS
    <3>3. k \in A <=> RowBelow(rows[k], rows[i]) \/ (SortKey(rows[k]) = SortKey(rows[i]) /\ k < i) BY <1>2, <2>1
    <3>4. ~RowBelow(rows[i], rows[k]) <=> SortKey(rows[k]) = SortKey(rows[i]) \/ RowBelow(rows[k], rows[i])
      <4>1. RowBelow(rows[k], rows[i]) => ~RowBelow(rows[i], rows[k])
        <5>1. RowBelow(rows[k], rows[i]) /\ RowBelow(rows[i], rows[k]) => RowBelow(rows[k], rows[k]) BY <1>3
        <5>2. QED BY <1>3, <5>1
      <4>2. SortKey(rows[k]) = SortKey(rows[i]) => ~RowBelow(rows[i], rows[k])
        <5>1. SortKey(rows[i]) = SortKey(rows[k]) => (RowBelow(rows[i], rows[k]) <=> RowBelow(rows[k], rows[k])) BY <1>3
        <5>2. QED BY <1>3, <5>1
      <4>3. SortKey(rows[k]) = SortKey(rows[i]) \/ RowBelow(rows[k], rows[i]) \/ RowBelow(rows[i], rows[k]) BY <1>3
      <4>4. QED BY <4>1, <4>2, <4>3
    <3>5. QED BY <1>3, <3>2, <3>3, <3>4
  <2>6. {k \in DOMAIN rows : RowBelow(rows[k], rows[i]) \/ (k <= i /\ ~RowBelow(rows[i], rows[k]))} = A \cup {i} BY <2>2, <2>5
  <2>7. QED BY <2>1, <2>4, <2>6 DEF SortedPlace, Rank
<1>8. \A i \in 1..n : SortedPlace(rows, i) \in 1..n /\ Rank(1..n, R, i) \in Int
  <2>1. TAKE i \in 1..n
  <2>2. PICK r : r = Rank(1..n, R, i) OBVIOUS
  <2>3. r \in 0..(n - 1) BY <1>6, <2>2
  <2>4. SortedPlace(rows, i) = r + 1 BY <1>7, <2>2
  <2>5. QED BY <2>2, <2>3, <2>4
<1>9. ASSUME NEW i \in 1..n, NEW k \in 1..n, SortedPlace(rows, i) = SortedPlace(rows, k) PROVE i = k
  <2>1. PICK r, s : r = Rank(1..n, R, i) /\ s = Rank(1..n, R, k) OBVIOUS
  <2>2. r \in Int /\ s \in Int /\ r + 1 = s + 1 BY <1>7, <1>8, <1>9, <2>1
  <2>3. ~(r < s) /\ ~(s < r) BY <2>2
  <2>4. <<i, k>> \notin R /\ <<k, i>> \notin R BY <1>6, <2>1, <2>3
  <2>5. QED BY <1>4, <2>4 DEF StrictOrder
<1>10. ASSUME NEW p \in 1..n PROVE \E i \in 1..n : SortedPlace(rows, i) = p
  <2>1. p - 1 \in 0..(n - 1) OBVIOUS
  <2>2. PICK i \in 1..n : Rank(1..n, R, i) = p - 1 BY <1>6, <2>1
  <2>3. SortedPlace(rows, i) = (p - 1) + 1 BY <1>7, <2>2
  <2>4. QED BY <2>3
<1>11. QED BY <1>8, <1>9, <1>10

------------------------------------------------------------------------------
(* Rows that are the same place by place are the same rows.                    *)
InRows(rows, n) == DOMAIN rows = 1..n /\ \A i \in 1..n : rows[i] \in Seq(ResultCell)

LEMMA SameRowsAreABag ==
  ASSUME NEW n \in Nat, NEW xs, InRows(xs, n), NEW ys, InRows(ys, n), SameRows(xs, ys)
  PROVE  SameBag(xs, ys, FALSE)
<1>1. /\ DOMAIN xs = 1..n /\ \A i \in 1..n : SortedPlace(xs, i) \in 1..n
      /\ \A i, k \in 1..n : SortedPlace(xs, i) = SortedPlace(xs, k) => i = k
  BY PlacesAre DEF InRows
<1>2. DOMAIN ys = 1..n /\ \A p \in 1..n : \E i \in 1..n : SortedPlace(ys, i) = p BY PlacesAre DEF InRows
<1>3. PICK q : q = [i \in 1..n |-> CHOOSE k \in 1..n : SortedPlace(ys, k) = SortedPlace(xs, i)] OBVIOUS
<1>4. \A i \in 1..n : q[i] \in 1..n /\ SortedPlace(ys, q[i]) = SortedPlace(xs, i) BY <1>1, <1>2, <1>3
<1>5. q \in [1..n -> 1..n] BY <1>3, <1>4
<1>6. IsInjective(q)
  <2>1. \A i, k \in 1..n : q[i] = q[k] => i = k BY <1>1, <1>4
  <2>2. QED BY <1>5, <2>1 DEF IsInjective
<1>7. \A i \in 1..n : \A j \in DOMAIN xs[i] : SameCell(xs[i][j], ys[q[i]][j])
  <2>1. TAKE i \in 1..n
  <2>2. [m \in DOMAIN xs |-> SortedPlace(xs, m)][i] = [m \in DOMAIN ys |-> SortedPlace(ys, m)][q[i]] BY <1>1, <1>2, <1>4
  <2>3. QED BY <1>1, <1>2, <1>4, <2>2 DEF SameRows
<1>8. PICK f \in {f \in [DOMAIN xs -> DOMAIN ys] : IsInjective(f)} : f = q BY <1>1, <1>2, <1>5, <1>6
<1>9. QED BY <1>1, <1>7, <1>8 DEF SameBag

LEMMA LowerStandsFirst ==
  ASSUME NEW n \in Nat, NEW xs, InRows(xs, n), NEW ys, InRows(ys, n),
         NEW q \in [1..n -> 1..n], \A i, k \in 1..n : q[i] = q[k] => i = k, \A i \in 1..n : xs[i] = ys[q[i]],
         NEW i \in 1..n, NEW k \in 1..n, RowBelow(xs[i], ys[k])
  PROVE  SortedPlace(xs, i) < SortedPlace(ys, k)
<1> DEFINE low == xs[i]
           A == {m \in 1..n : ~RowBelow(low, xs[m])}
           B == {m \in 1..n : ~RowBelow(low, ys[m])}
           P == {m \in 1..n : RowBelow(xs[m], low) \/ (m <= i /\ ~RowBelow(low, xs[m]))}
           C == {m \in 1..n : RowBelow(ys[m], ys[k]) \/ (m <= k /\ ~RowBelow(ys[k], ys[m]))}
<1>1. /\ DOMAIN xs = 1..n /\ \A m \in 1..n : xs[m] \in Seq(ResultCell)
      /\ DOMAIN ys = 1..n /\ \A m \in 1..n : ys[m] \in Seq(ResultCell)
  BY DEF InRows
<1>2. SortedPlace(xs, i) = Cardinality(P) /\ SortedPlace(ys, k) = Cardinality(C) BY <1>1 DEF SortedPlace
<1>3. \A x, y, z \in Seq(ResultCell) :
        /\ ~RowBelow(x, x)
        /\ SortKey(x) = SortKey(y) \/ RowBelow(x, y) \/ RowBelow(y, x)
        /\ RowBelow(x, y) /\ RowBelow(y, z) => RowBelow(x, z)
        /\ SortKey(x) = SortKey(y) => (RowBelow(x, z) <=> RowBelow(y, z)) /\ (RowBelow(z, x) <=> RowBelow(z, y))
  BY RowsCompare
<1>4. low \in Seq(ResultCell) /\ ys[k] \in Seq(ResultCell) /\ RowBelow(low, ys[k]) BY <1>1
<1> HIDE DEF low
<1>5. P \subseteq A
  <2>1. ASSUME NEW m \in 1..n, RowBelow(xs[m], low) PROVE ~RowBelow(low, xs[m])
    <3>1. RowBelow(low, xs[m]) => RowBelow(low, low) BY <1>1, <1>3, <1>4, <2>1
    <3>2. QED BY <1>3, <1>4, <3>1
  <2>2. QED BY <2>1
<1>6. IsFiniteSet(A) /\ IsFiniteSet(B) /\ IsFiniteSet(C) /\ IsFiniteSet(P)
  <2>1. A \subseteq 1..n /\ B \subseteq 1..n /\ C \subseteq 1..n /\ P \subseteq 1..n OBVIOUS
  <2> HIDE DEF A, B, C, P
  <2>2. QED BY <2>1, Positions
<1>7. PICK f : f = [m \in A |-> q[m]] OBVIOUS
<1>8. f \in [A -> B] BY <1>7
<1>9. \A m, l \in A : f[m] = f[l] => m = l BY <1>7
<1>10. \A m \in B : m \in C /\ m # k
  <2>1. TAKE m \in B
  <2>2. ys[m] \in Seq(ResultCell) /\ ~RowBelow(low, ys[m]) BY <1>1
  <2>3. SortKey(low) = SortKey(ys[m]) \/ RowBelow(ys[m], low) BY <1>3, <1>4, <2>2
  <2>4. RowBelow(ys[m], ys[k]) BY <1>3, <1>4, <2>2, <2>3
  <2>5. QED BY <1>4, <2>2, <2>4
<1>11. k \in C BY <1>3, <1>4
<1> HIDE DEF A, B, C, P
<1>12. f \in Injection(A, B) BY <1>8, <1>9 DEF Injection, IsInjective
<1>13. Cardinality(A) <= Cardinality(B) BY <1>6, <1>12, FS_Injection
<1>14. Cardinality(P) <= Cardinality(A) /\ Cardinality(P) \in Nat /\ Cardinality(A) \in Nat BY <1>5, <1>6, Counted
<1>15. Cardinality(B) \in Nat /\ k \notin B /\ B \cup {k} \in SUBSET C BY <1>6, <1>10, <1>11, Counted
<1>16. Cardinality(B \cup {k}) = Cardinality(B) + 1 BY <1>6, <1>15, FS_AddElement
<1>17. Cardinality(B \cup {k}) <= Cardinality(C) /\ Cardinality(C) \in Nat BY <1>6, <1>15, Counted
<1>18. QED BY <1>2, <1>13, <1>14, <1>15, <1>16, <1>17

(* The same rows are the same place by place, where the keys tell them apart.  *)
Matched(xs, ys, q, n) == q \in [1..n -> 1..n] /\ IsInjective(q) /\ \A i \in 1..n : xs[i] = ys[q[i]]

LEMMA BagsAreSameRows ==
  ASSUME NEW n \in Nat, NEW xs, InRows(xs, n), NEW ys, InRows(ys, n), KeysTellRows(xs),
         NEW q, Matched(xs, ys, q, n)
  PROVE  SameRows(xs, ys)
<1> USE DEF Matched
<1>1. \A i, k \in 1..n : q[i] = q[k] => i = k BY DEF IsInjective
<1>2. q \in Injection(1..n, 1..n) BY <1>1 DEF Injection, IsInjective
<1>3. IsFiniteSet(1..n) BY Positions
<1>4. q \in Surjection(1..n, 1..n) BY <1>2, <1>3, FS_Injection
<1>5. \A k \in 1..n : \E i \in 1..n : q[i] = k BY <1>4 DEF Surjection
<1>6. PICK p : p = [k \in 1..n |-> CHOOSE i \in 1..n : q[i] = k] OBVIOUS
<1>7. p \in [1..n -> 1..n] /\ \A k \in 1..n : q[p[k]] = k BY <1>5, <1>6
<1>8. /\ \A i, k \in 1..n : p[i] = p[k] => i = k
      /\ \A k \in 1..n : ys[k] = xs[p[k]]
  BY <1>7
<1>9. /\ DOMAIN xs = 1..n /\ \A m \in 1..n : xs[m] \in Seq(ResultCell)
      /\ DOMAIN ys = 1..n /\ \A m \in 1..n : ys[m] \in Seq(ResultCell)
  BY DEF InRows
<1>10. \A i \in 1..n : SortedPlace(xs, i) \in 1..n /\ SortedPlace(ys, i) \in 1..n BY <1>9, PlacesAre
<1>11. ASSUME NEW i \in 1..n, NEW k \in 1..n, SortedPlace(xs, i) = SortedPlace(ys, k) PROVE xs[i] = ys[k]
  <2>1. xs[i] \in Seq(ResultCell) /\ ys[k] \in Seq(ResultCell) BY <1>9
  <2>2. ~RowBelow(xs[i], ys[k])
    <3>1. RowBelow(xs[i], ys[k]) => SortedPlace(xs, i) < SortedPlace(ys, k) BY <1>1, LowerStandsFirst
    <3>2. QED BY <1>10, <1>11, <3>1
  <2>3. ~RowBelow(ys[k], xs[i])
    <3>1. RowBelow(ys[k], xs[i]) => SortedPlace(ys, k) < SortedPlace(xs, i) BY <1>7, <1>8, LowerStandsFirst
    <3>2. QED BY <1>10, <1>11, <3>1
  <2>4. SortKey(xs[i]) = SortKey(ys[k]) BY <2>1, <2>2, <2>3, RowsCompare
  <2>5. ys[k] = xs[p[k]] /\ p[k] \in 1..n BY <1>7, <1>8
  <2>6. QED BY <1>9, <2>4, <2>5 DEF KeysTellRows
<1>12. \A x : SameCell(x, x) BY DEF SameCell
<1>13. QED BY <1>9, <1>11, <1>12 DEF SameRows

------------------------------------------------------------------------------
(* Two results.                                                                *)
LEMMA TablesAre ==
  ASSUME NEW w \in Nat, NEW rows \in Seq([1..w -> ResultCell])
  PROVE  /\ Len(rows) \in Nat /\ InRows(rows, Len(rows)) /\ Columns(rows) \in 0..w
         /\ \A i \in 1..Len(rows) : rows[i] \in [1..Columns(rows) -> ResultCell] /\ Columns(rows) = w
<1>1. PICK T : T = [1..w -> ResultCell] OBVIOUS
<1>2. rows \in Seq(T) BY <1>1
<1>3. DOMAIN rows = 1..Len(rows) /\ Len(rows) \in Nat /\ \A i \in 1..Len(rows) : rows[i] \in T BY <1>2, InList
<1>4. \A r \in T : r \in Seq(ResultCell) /\ Len(r) = w
  <2>1. TAKE r \in T
  <2>2. r \in [1..w -> ResultCell] BY <1>1
  <2>3. QED BY <2>2, AsList
<1>5. InRows(rows, Len(rows)) BY <1>3, <1>4 DEF InRows
<1>6. rows # <<>> => 1 \in 1..Len(rows)
  <2>1. rows # <<>> => Len(rows) # 0 BY <1>2
  <2>2. QED BY <1>3, <2>1
<1>7. rows # <<>> => Columns(rows) = w BY <1>3, <1>4, <1>6 DEF Columns
<1>8. rows = <<>> => Columns(rows) = 0 /\ Len(rows) = 0 BY DEF Columns
<1>9. QED BY <1>1, <1>3, <1>5, <1>7, <1>8

LEMMA ProjectionsAre ==
  ASSUME NEW w \in Nat, NEW rows \in Seq([1..w -> ResultCell]), NEW n \in Nat, NEW m \in [1..n -> 1..Columns(rows)]
  PROVE  /\ InRows(Project(rows, m), Len(rows))
         /\ \A i \in 1..Len(rows) : /\ Project(rows, m)[i] \in [1..n -> ResultCell]
                                    /\ \A j \in 1..n : Project(rows, m)[i][j] = rows[i][m[j]]
<1>1. /\ Len(rows) \in Nat /\ DOMAIN rows = 1..Len(rows)
      /\ \A i \in 1..Len(rows) : rows[i] \in [1..Columns(rows) -> ResultCell]
  BY TablesAre DEF InRows
<1>2. PICK f : f = Project(rows, m) OBVIOUS
<1>3. f = [i \in 1..Len(rows) |-> [j \in 1..n |-> rows[i][m[j]]]] BY <1>1, <1>2 DEF Project
<1>4. \A i \in 1..Len(rows) : f[i] \in [1..n -> ResultCell] /\ \A j \in 1..n : f[i][j] = rows[i][m[j]]
  <2>1. TAKE i \in 1..Len(rows)
  <2>2. f[i] = [j \in 1..n |-> rows[i][m[j]]] BY <1>3
  <2>3. \A j \in 1..n : rows[i][m[j]] \in ResultCell BY <1>1
  <2>4. QED BY <2>2, <2>3
<1>5. \A i \in 1..Len(rows) : f[i] \in Seq(ResultCell) BY <1>4, AsList
<1>6. QED BY <1>2, <1>3, <1>4, <1>5 DEF InRows

(* A single cell is its own key.                                               *)
LEMMA SingleCells ==
  ASSUME NEW x \in Seq(ResultCell), NEW y \in Seq(ResultCell), Len(x) = 1, Len(y) = 1, SortKey(x) = SortKey(y)
  PROVE  x[1] = y[1]
<1>1. PICK b : b = (x[1][1] = NumberKind) OBVIOUS
<1>2. b \in BOOLEAN BY <1>1
<1>3. PICK s, t : s = Selected(x, b) /\ t = Selected(y, b) OBVIOUS
<1>4. s = t
  <2>1. Selected(x, FALSE) = Selected(y, FALSE) /\ Selected(x, TRUE) = Selected(y, TRUE) BY DEF SortKey
  <2>2. QED BY <1>2, <1>3, <2>1
<1>5. 1 \in 1..Len(x) /\ (x[1][1] = NumberKind) = b BY <1>1
<1>6. Len(s) > 0 BY <1>2, <1>3, <1>5, SelectedIs
<1>7. s \in Seq(ResultCell) BY <1>2, <1>3, SelectedIs
<1>8. 1 \in 1..Len(s) BY <1>6, <1>7, InList
<1>9. \E j \in 1..Len(x) : s[1] = x[j] BY <1>2, <1>3, <1>8, SelectedIs
<1>10. \E j \in 1..Len(y) : t[1] = y[j] BY <1>2, <1>3, <1>4, <1>8, SelectedIs
<1>11. QED BY <1>4, <1>9, <1>10

(* There are finitely many ways to give columns their own.                     *)
LEMMA MappingsAreFew ==
  ASSUME NEW c \in Nat, NEW d \in Nat, NEW M \in SUBSET [1..c -> 1..d]
  PROVE  IsFiniteSet(M)
<1> DEFINE P == SUBSET ((1..c) \X (1..d))
<1>1. IsFiniteSet((1..c) \X (1..d))
  <2>1. IsFiniteSet(1..c) /\ IsFiniteSet(1..d) BY FS_Interval
  <2>2. QED BY <2>1, FS_Product
<1>2. IsFiniteSet(P) BY <1>1, FS_SUBSET
<1>3. PICK f : f = [G \in P |-> [i \in 1..c |-> CHOOSE j \in 1..d : <<i, j>> \in G]] OBVIOUS
<1>4. IsFiniteSet({f[G] : G \in P})
  <2> HIDE DEF P
  <2>1. QED BY <1>2, Images
<1>5. ASSUME NEW m \in M PROVE m \in {f[G] : G \in P}
  <2>1. m \in [1..c -> 1..d] OBVIOUS
  <2>2. PICK G : G = {<<i, m[i]>> : i \in 1..c} OBVIOUS
  <2>3. G \in P BY <2>1, <2>2
  <2>4. \A i \in 1..c : \A j : <<i, j>> \in G <=> j = m[i] BY <2>2
  <2>5. \A i \in 1..c : (CHOOSE j \in 1..d : <<i, j>> \in G) = m[i] BY <2>1, <2>4
  <2>6. f[G] = [i \in 1..c |-> CHOOSE j \in 1..d : <<i, j>> \in G] BY <1>3, <2>3
  <2>7. f[G] = [i \in 1..c |-> m[i]] BY <2>5, <2>6
  <2>8. m = [i \in 1..c |-> m[i]] BY <2>1
  <2>9. m = f[G] BY <2>7, <2>8
  <2>10. QED BY <2>3, <2>9
<1>6. M \in SUBSET {f[G] : G \in P} BY <1>5
<1>7. QED BY <1>4, <1>6, FS_Subset

ColumnsMatch(small, large, i, j) == SameRows(Project(small, <<i>>), Project(large, <<j>>))

LEMMA AgreementsAreReal ==
  ASSUME NEW narrow, Table(narrow), NEW wide, Table(wide), Columns(narrow) <= Columns(wide)
  PROVE  AgreementIsReal(narrow, wide)
<1>1. PICK v \in Nat : narrow \in Seq([1..v -> ResultCell]) BY DEF Table
<1>2. PICK w \in Nat : wide \in Seq([1..w -> ResultCell]) BY DEF Table
<1>3. PICK n, c, d : n = Len(narrow) /\ c = Columns(narrow) /\ d = Columns(wide) OBVIOUS
<1>4. /\ n \in Nat /\ InRows(narrow, n) /\ c \in Nat /\ d \in Nat /\ Len(wide) \in Nat
      /\ DOMAIN narrow = 1..n /\ \A i \in 1..n : narrow[i] \in [1..c -> ResultCell]
  <2>1. /\ Len(narrow) \in Nat /\ InRows(narrow, Len(narrow)) /\ Columns(narrow) \in 0..v
        /\ \A i \in 1..Len(narrow) : narrow[i] \in [1..Columns(narrow) -> ResultCell]
    BY <1>1, TablesAre
  <2>2. Len(wide) \in Nat /\ Columns(wide) \in 0..w BY <1>2, TablesAre
  <2>3. QED BY <1>3, <2>1, <2>2 DEF InRows
<1>5. ~(d < c) BY <1>3, <1>4
<1>6. PICK mappings : mappings = {m \in [1..c -> 1..d] : IsInjective(m)} OBVIOUS
<1>7. ASSUME NEW m \in mappings, n = Len(wide)
      PROVE  /\ m \in [1..c -> 1..d] /\ IsInjective(m) /\ DOMAIN m = 1..c
             /\ InRows(Project(wide, m), n) /\ DOMAIN Project(wide, m) = 1..n
             /\ \A i \in 1..n : /\ Project(wide, m)[i] \in [1..c -> ResultCell]
                                /\ \A j \in 1..c : Project(wide, m)[i][j] = wide[i][m[j]]
  <2>1. m \in [1..c -> 1..d] /\ IsInjective(m) BY <1>6
  <2>2. m \in [1..c -> 1..Columns(wide)] BY <1>3, <2>1
  <2>3. /\ InRows(Project(wide, m), Len(wide))
        /\ \A i \in 1..Len(wide) : /\ Project(wide, m)[i] \in [1..c -> ResultCell]
                                   /\ \A j \in 1..c : Project(wide, m)[i][j] = wide[i][m[j]]
    BY ONLY <1>2, <1>4, <2>2, ProjectionsAre
  <2>4. QED BY ONLY <1>7, <2>1, <2>3 DEF InRows
<1>8. PICK candidates : candidates = Mappings(narrow, wide) OBVIOUS
<1>9. /\ candidates \subseteq mappings
       /\ \A m \in mappings : (\A i \in 1..c : ColumnsMatch(narrow, wide, i, m[i])) => m \in candidates
  BY <1>3, <1>6, <1>8 DEF Mappings, ColumnsMatch
<1>10. ResultsEquivalent(narrow, wide) <=> n = Len(wide) /\ \E m \in TriedMappings(candidates) : AgreeOn(narrow, wide, m)
  BY <1>3, <1>5, <1>8 DEF ResultsEquivalent
<1>11. TriedMappings(candidates) \subseteq candidates BY DEF TriedMappings
<1>12. ASSUME Cardinality(candidates) <= MaxMappings, NEW m \in candidates PROVE m \in TriedMappings(candidates)
  <2> DEFINE before == {k \in candidates : EarlierMapping(k, m)}
  <2>1. IsFiniteSet(candidates)
    <3>1. candidates \in SUBSET [1..c -> 1..d] BY <1>6, <1>9
    <3>2. QED BY <1>4, <3>1, MappingsAreFew
  <2>2. ~EarlierMapping(m, m)
    <3>1. m \in [1..c -> 1..d] BY <1>6, <1>9
    <3>2. \A i \in DOMAIN m : m[i] \in Int BY <3>1
    <3>3. QED BY <3>2 DEF EarlierMapping
  <2>3. before \in SUBSET (candidates \ {m}) BY <2>2
  <2>4. IsFiniteSet(candidates \ {m}) /\ Cardinality(candidates \ {m}) = Cardinality(candidates) - 1
    BY <2>1, FS_RemoveElement
  <2> HIDE DEF before
  <2>5. Cardinality(before) <= Cardinality(candidates) - 1 BY <2>3, <2>4, FS_Subset
  <2>6. Cardinality(before) \in Nat /\ Cardinality(candidates) \in Nat
    BY <2>1, <2>3, <2>4, FS_Subset, FS_CardinalityType
  <2>7. Cardinality(before) < MaxMappings BY <1>12, <2>5, <2>6, MappingsAssumption
  <2>8. QED BY <2>7 DEF TriedMappings, before
<1>13. ASSUME ResultsEquivalent(narrow, wide)
      PROVE  n = Len(wide) /\ \E m \in mappings : SameBag(narrow, Project(wide, m), FALSE)
  <2>1. PICK m \in mappings : AgreeOn(narrow, wide, m) BY <1>13, <1>9, <1>10, <1>11
  <2>2. n = Len(wide) BY <1>13, <1>10
  <2>3. InRows(Project(wide, m), n) BY <1>7, <2>2
  <2>4. SameRows(narrow, Project(wide, m)) BY <2>1 DEF AgreeOn
  <2>5. SameBag(narrow, Project(wide, m), FALSE) BY <1>4, <2>3, <2>4, SameRowsAreABag
  <2>6. QED BY <2>2, <2>5
<1>14. ASSUME KeysTellRows(narrow), n = Len(wide), NEW m \in mappings, SameBag(narrow, Project(wide, m), TRUE),
              Cardinality(candidates) <= MaxMappings
       PROVE  ResultsEquivalent(narrow, wide)
  <2>1. PICK ys : ys = Project(wide, m) OBVIOUS
  <2>2. /\ m \in [1..c -> 1..d] /\ DOMAIN m = 1..c /\ InRows(ys, n) /\ DOMAIN ys = 1..n
        /\ \A i \in 1..n : ys[i] \in [1..c -> ResultCell] /\ \A j \in 1..c : ys[i][j] = wide[i][m[j]]
    BY <1>7, <1>14, <2>1
  <2>3. PICK q \in [1..n -> 1..n] : IsInjective(q) /\ \A i \in 1..n : \A j \in DOMAIN narrow[i] : narrow[i][j] = ys[q[i]][j]
    BY <1>4, <1>14, <2>1, <2>2 DEF SameBag
  <2>4. \A i \in 1..n : \A j \in 1..c : narrow[i][j] = ys[q[i]][j] BY <1>4, <2>3
  <2>5. \A i \in 1..n : narrow[i] = ys[q[i]]
    <3>1. TAKE i \in 1..n
    <3>2. narrow[i] \in [1..c -> ResultCell] /\ ys[q[i]] \in [1..c -> ResultCell] BY <1>4, <2>2
    <3>3. PICK r, s : r = narrow[i] /\ s = ys[q[i]] OBVIOUS
    <3>4. r \in [1..c -> ResultCell] /\ s \in [1..c -> ResultCell] BY <3>2, <3>3
    <3>5. \A j \in 1..c : r[j] = s[j] BY <2>4, <3>3
    <3>6. r = [j \in 1..c |-> r[j]] /\ s = [j \in 1..c |-> s[j]] BY ONLY <3>4
    <3>7. [j \in 1..c |-> r[j]] = [j \in 1..c |-> s[j]] BY ONLY <3>5
    <3>8. QED BY ONLY <3>3, <3>6, <3>7
  <2>6. Matched(narrow, ys, q, n) BY <2>3, <2>5 DEF Matched
  <2>7. SameRows(narrow, ys) BY ONLY <1>4, <1>14, <2>2, <2>6, BagsAreSameRows
  <2>8. AgreeOn(narrow, wide, m) BY <2>1, <2>7 DEF AgreeOn
  <2>9. ASSUME NEW k \in 1..c PROVE ColumnsMatch(narrow, wide, k, m[k])
    <3>1. PICK one, other : one = <<k>> /\ other = <<m[k]>> OBVIOUS
    <3>2. one \in [1..1 -> 1..c] /\ other \in [1..1 -> 1..d] /\ one[1] = k /\ other[1] = m[k] BY <2>2, <3>1
    <3>3. PICK x, y : x = Project(narrow, one) /\ y = Project(wide, other) OBVIOUS
    <3>4. /\ InRows(x, n) /\ DOMAIN x = 1..n
          /\ \A i \in 1..n : x[i] \in [1..1 -> ResultCell] /\ x[i][1] = narrow[i][k]
      <4>1. /\ InRows(Project(narrow, one), Len(narrow))
            /\ \A i \in 1..Len(narrow) : /\ Project(narrow, one)[i] \in [1..1 -> ResultCell]
                                         /\ \A j \in 1..1 : Project(narrow, one)[i][j] = narrow[i][one[j]]
        <5>1. one \in [1..1 -> 1..Columns(narrow)] /\ 1 \in Nat BY <1>3, <3>2
        <5>2. QED BY ONLY <1>1, <5>1, ProjectionsAre
      <4>2. QED BY <1>3, <3>2, <3>3, <4>1 DEF InRows
    <3>5. /\ InRows(y, n) /\ DOMAIN y = 1..n
          /\ \A i \in 1..n : y[i] \in [1..1 -> ResultCell] /\ y[i][1] = wide[i][m[k]]
      <4>1. /\ InRows(Project(wide, other), Len(wide))
            /\ \A i \in 1..Len(wide) : /\ Project(wide, other)[i] \in [1..1 -> ResultCell]
                                       /\ \A j \in 1..1 : Project(wide, other)[i][j] = wide[i][other[j]]
        <5>1. other \in [1..1 -> 1..Columns(wide)] /\ 1 \in Nat BY <1>3, <3>2
        <5>2. QED BY ONLY <1>2, <5>1, ProjectionsAre
      <4>2. QED BY <1>14, <3>2, <3>3, <4>1 DEF InRows
    <3>6. \A i \in 1..n : x[i] = y[q[i]]
      <4>1. TAKE i \in 1..n
      <4>2. x[i] \in [1..1 -> ResultCell] /\ y[q[i]] \in [1..1 -> ResultCell] BY <3>4, <3>5
      <4>3. x[i][1] = y[q[i]][1] BY <2>2, <2>4, <3>4, <3>5
      <4>4. QED BY <4>2, <4>3
    <3>7. \A i \in 1..n : x[i] \in Seq(ResultCell) /\ Len(x[i]) = 1
      <4>1. TAKE i \in 1..n
      <4>2. x[i] \in [1..1 -> ResultCell] BY <3>4
      <4>3. QED BY <4>2, AsList
    <3>8. KeysTellRows(x)
      <4>1. ASSUME NEW i \in 1..n, NEW l \in 1..n, SortKey(x[i]) = SortKey(x[l]) PROVE x[i] = x[l]
        <5>1. x[i][1] = x[l][1] BY <3>7, <4>1, SingleCells
        <5>2. x[i] \in [1..1 -> ResultCell] /\ x[l] \in [1..1 -> ResultCell] BY <3>4
        <5>3. QED BY <5>1, <5>2
      <4>2. QED BY <3>4, <4>1 DEF KeysTellRows
    <3>9. Matched(x, y, q, n) BY <2>3, <3>6 DEF Matched
    <3>10. SameRows(x, y) BY ONLY <1>4, <3>4, <3>5, <3>8, <3>9, BagsAreSameRows
    <3>11. QED BY <3>1, <3>3, <3>10 DEF ColumnsMatch
  <2>10. m \in TriedMappings(candidates) BY <1>14, <1>9, <1>12, <2>9
  <2>11. QED BY <1>14, <1>10, <2>8, <2>10
<1>15. QED BY ONLY <1>3, <1>6, <1>8, <1>13, <1>14 DEF AgreementIsReal

(* Results that the cross-check calls equal agree row by row, and a period is *)
(* said to be missing only where it is.                                       *)
THEOREM ChecksAreReal == Spec => []ChecksHold
<1>1. AnInput => ChecksHold
  <2>1. SUFFICES ASSUME AnInput PROVE ChecksHold OBVIOUS
  <2>2. ASSUME question = "results" PROVE AgreementIsReal(input.narrow, input.wide)
    <3>1. Table(input.narrow) /\ Table(input.wide) /\ Columns(input.narrow) <= Columns(input.wide)
      BY <2>1, <2>2, ChecksAssumption DEF AnInput
    <3>2. QED BY <3>1, AgreementsAreReal
  <2>3. ASSUME question = "period" PROVE CaveatIsTrue(input.match, input.span, {})
    <3>1. Match(input.match) /\ input.span \in Int \X Int /\ input.span[1] <= input.span[2]
      BY <2>1, <2>3, ChecksAssumption DEF AnInput
    <3>2. QED BY <3>1, CaveatsAreTrue
  <2>4. QED BY <2>2, <2>3 DEF ChecksHold
<1>2. QED BY <1>1, OnlyInputs, PTL
==============================================================================
