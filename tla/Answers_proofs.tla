---------------------------- MODULE Answers_proofs ----------------------------
(* Proofs about module Algorithms, what an answer is made of: for any results, *)
(* expressions, rows, plans and people, what is said, shown, kept and counted  *)
(* is what it should be.                                                       *)
EXTENDS SheetsAndQueries_proofs

------------------------------------------------------------------------------
(* Sentences.                                                                 *)
(* The rows that are kept are the first ones.                                  *)
LEMMA FirstRowsAre ==
  ASSUME NEW T, NEW rows \in Seq(T), NEW n \in Nat
  PROVE  /\ FirstRows(rows, n) \in Seq(T) /\ Len(FirstRows(rows, n)) <= Len(rows)
         /\ \A i \in 1..Len(FirstRows(rows, n)) : FirstRows(rows, n)[i] = rows[i]
         /\ Len(rows) <= n => FirstRows(rows, n) = rows
<1>1. PICK S : S = {n, Len(rows)} OBVIOUS
<1>2. IsFiniteSet(S) /\ S # {}
  <2>1. IsFiniteSet({n}) /\ IsFiniteSet({n} \cup {Len(rows)}) BY FS_Singleton, FS_AddElement
  <2>2. S = {n} \cup {Len(rows)} BY <1>1
  <2>3. QED BY <2>1, <2>2
<1>3. Len(rows) \in Nat BY InList
<1>4. S \subseteq Int BY <1>1, <1>3
<1>5. PICK m : m = Min(S) OBVIOUS
<1>6. m \in S /\ \A x \in S : m <= x BY <1>2, <1>4, <1>5, MinIs
<1>7. m \in 0..Len(rows) /\ (Len(rows) <= n => m = Len(rows)) BY <1>1, <1>3, <1>6
<1>8. FirstRows(rows, n) = SubSeq(rows, 1, m) BY <1>1, <1>5 DEF FirstRows
<1>9. SubSeq(rows, 1, m) = [i \in 1..m |-> rows[i]] BY <1>3, <1>7
<1>10. [i \in 1..m |-> rows[i]] \in [1..m -> T] BY <1>3, <1>7, InList
<1>11. [i \in 1..m |-> rows[i]] \in Seq(T) /\ Len([i \in 1..m |-> rows[i]]) = m
  <2>1. PICK f : f = [i \in 1..m |-> rows[i]] OBVIOUS
  <2>2. f \in Seq(T) /\ Len(f) = m BY <1>7, <1>10, <2>1, AsList
  <2>3. QED BY <2>1, <2>2
<1>12. rows = [i \in 1..Len(rows) |-> rows[i]] OBVIOUS
<1>13. QED BY <1>3, <1>7, <1>8, <1>9, <1>11, <1>12

(* What is displayed grows with the value.                                     *)
LEMMA ShownGrows ==
  ASSUME NEW x \in Int, NEW y \in Int, x <= y
  PROVE  Shown(x) <= Shown(y) /\ Shown(x) \in Int
<1>1. PICK q, r : q = x \div 10 /\ r = x % 10 OBVIOUS
<1>2. PICK u, v : u = y \div 10 /\ v = y % 10 OBVIOUS
<1>3. q \in Int /\ r \in 0..9 /\ x = 10 * q + r /\ u \in Int /\ v \in 0..9 /\ y = 10 * u + v BY <1>1, <1>2
<1>4. q <= u BY <1>3
<1>5. QED BY <1>1, <1>2, <1>3, <1>4 DEF Shown

(* The rows of the highest and the lowest values, as displayed.                *)
Beyond(rows, rank, i) ==
  \A j \in Ranked(rows) : IF rank = "lowest" THEN Shown(rows[i].value) <= Shown(rows[j].value)
                          ELSE Shown(rows[i].value) >= Shown(rows[j].value)

LEMMA WinnersAre ==
  ASSUME NEW rows, NEW n \in Nat, DOMAIN rows = 1..n, \A i \in 1..n : rows[i].value \in Int, Ranked(rows) # {}, NEW rank
  PROVE  /\ Winners(rows, rank) # {} /\ Winners(rows, rank) \subseteq Ranked(rows)
         /\ \A i \in Winners(rows, rank) : Beyond(rows, rank, i)
<1> DEFINE R == Ranked(rows)
           Up == {p \in R \X R : rows[p[1]].value >= rows[p[2]].value}
           Down == {p \in R \X R : rows[p[1]].value <= rows[p[2]].value}
<1>1. R \subseteq 1..n /\ IsFiniteSet(R)
  <2>1. R \subseteq 1..n BY DEF Ranked
  <2>2. QED BY <2>1, Positions
<1>2. \A i \in R : rows[i].value \in Int BY <1>1
<1> HIDE DEF R
<1>3. \E i \in R : \A j \in R : rows[i].value >= rows[j].value
  <2>1. \A i, j \in R : <<i, j>> \in Up <=> rows[i].value >= rows[j].value OBVIOUS
  <2> HIDE DEF Up
  <2>2. Comparable(R, Up)
    <3>1. ASSUME NEW i \in R, NEW j \in R PROVE <<i, j>> \in Up \/ <<j, i>> \in Up
      <4>1. rows[i].value \in Int /\ rows[j].value \in Int BY <1>2
      <4>2. rows[i].value >= rows[j].value \/ rows[j].value >= rows[i].value BY <4>1
      <4>3. (<<i, j>> \in Up <=> rows[i].value >= rows[j].value) /\ (<<j, i>> \in Up <=> rows[j].value >= rows[i].value)
        BY <2>1
      <4>4. QED BY <4>2, <4>3
    <3>2. ASSUME NEW i \in R, NEW j \in R, NEW k \in R, <<i, j>> \in Up, <<j, k>> \in Up PROVE <<i, k>> \in Up
      <4>1. rows[i].value \in Int /\ rows[j].value \in Int /\ rows[k].value \in Int BY <1>2
      <4>2. rows[i].value >= rows[j].value /\ rows[j].value >= rows[k].value BY <2>1, <3>2
      <4>3. rows[i].value >= rows[k].value BY <4>1, <4>2
      <4>4. QED BY <2>1, <4>3
    <3>3. QED BY ONLY <3>1, <3>2 DEF Comparable
  <2>3. \E i \in R : \A j \in R : <<i, j>> \in Up BY <1>1, <2>2, Best DEF R
  <2>4. QED BY <2>1, <2>3
<1>4. \E i \in R : \A j \in R : rows[i].value <= rows[j].value
  <2>1. \A i, j \in R : <<i, j>> \in Down <=> rows[i].value <= rows[j].value OBVIOUS
  <2> HIDE DEF Down
  <2>2. Comparable(R, Down)
    <3>1. ASSUME NEW i \in R, NEW j \in R PROVE <<i, j>> \in Down \/ <<j, i>> \in Down
      <4>1. rows[i].value \in Int /\ rows[j].value \in Int BY <1>2
      <4>2. rows[i].value <= rows[j].value \/ rows[j].value <= rows[i].value BY <4>1
      <4>3. (<<i, j>> \in Down <=> rows[i].value <= rows[j].value) /\ (<<j, i>> \in Down <=> rows[j].value <= rows[i].value)
        BY <2>1
      <4>4. QED BY <4>2, <4>3
    <3>2. ASSUME NEW i \in R, NEW j \in R, NEW k \in R, <<i, j>> \in Down, <<j, k>> \in Down PROVE <<i, k>> \in Down
      <4>1. rows[i].value \in Int /\ rows[j].value \in Int /\ rows[k].value \in Int BY <1>2
      <4>2. rows[i].value <= rows[j].value /\ rows[j].value <= rows[k].value BY <2>1, <3>2
      <4>3. rows[i].value <= rows[k].value BY <4>1, <4>2
      <4>4. QED BY <2>1, <4>3
    <3>3. QED BY ONLY <3>1, <3>2 DEF Comparable
  <2>3. \E i \in R : \A j \in R : <<i, j>> \in Down BY <1>1, <2>2, Best DEF R
  <2>4. QED BY <2>1, <2>3
<1>5. ASSUME NEW w \in R, NEW high \in BOOLEAN,
             \A j \in R : IF high THEN rows[w].value >= rows[j].value ELSE rows[w].value <= rows[j].value
      PROVE  /\ w \in TiedWith(rows, w) /\ TiedWith(rows, w) \subseteq R
             /\ \A i \in TiedWith(rows, w), j \in R :
                  IF high THEN Shown(rows[i].value) >= Shown(rows[j].value) ELSE Shown(rows[i].value) <= Shown(rows[j].value)
  <2>1. w \in TiedWith(rows, w) /\ TiedWith(rows, w) \subseteq R BY DEF TiedWith, R
  <2>2. \A i \in TiedWith(rows, w) : Shown(rows[i].value) = Shown(rows[w].value) BY DEF TiedWith
  <2>3. \A j \in R : IF high THEN Shown(rows[w].value) >= Shown(rows[j].value) ELSE Shown(rows[w].value) <= Shown(rows[j].value)
    <3>1. TAKE j \in R
    <3>2. rows[w].value \in Int /\ rows[j].value \in Int BY <1>2
    <3>3. CASE high
      <4>1. Shown(rows[j].value) <= Shown(rows[w].value) /\ Shown(rows[j].value) \in Int BY <1>5, <3>2, <3>3, ShownGrows
      <4>2. rows[w].value <= rows[w].value BY <3>2
      <4>3. Shown(rows[w].value) \in Int BY <3>2, <4>2, ShownGrows
      <4>4. QED BY <3>3, <4>1, <4>3
    <3>4. CASE ~high BY <1>5, <3>2, <3>4, ShownGrows
    <3>5. QED BY <3>3, <3>4
  <2>4. QED BY <2>1, <2>2, <2>3
<1>6. CASE rank # "lowest"
  <2>1. PICK w : w = CHOOSE i \in Ranked(rows) : \A j \in Ranked(rows) : rows[i].value >= rows[j].value OBVIOUS
  <2>2. w \in R /\ \A j \in R : rows[w].value >= rows[j].value BY <1>3, <2>1 DEF R
  <2>3. Winners(rows, rank) = TiedWith(rows, w) BY <1>6, <2>1 DEF Winners, Highest
  <2>4. w \in TiedWith(rows, w) /\ TiedWith(rows, w) \subseteq R
        /\ \A i \in TiedWith(rows, w), j \in R : Shown(rows[i].value) >= Shown(rows[j].value)
    BY <1>5, <2>2
  <2>5. QED BY <1>6, <2>3, <2>4 DEF Beyond, R
<1>7. CASE rank = "lowest"
  <2>1. PICK w : w = CHOOSE i \in Ranked(rows) : \A j \in Ranked(rows) : rows[i].value <= rows[j].value OBVIOUS
  <2>2. w \in R /\ \A j \in R : rows[w].value <= rows[j].value BY <1>4, <2>1 DEF R
  <2>3. Winners(rows, rank) = TiedWith(rows, w) BY <1>7, <2>1 DEF Winners, Lowest
  <2>4. w \in TiedWith(rows, w) /\ TiedWith(rows, w) \subseteq R
        /\ \A i \in TiedWith(rows, w), j \in R : Shown(rows[i].value) <= Shown(rows[j].value)
    BY <1>5, <2>2
  <2>5. QED BY <1>7, <2>3, <2>4 DEF Beyond, R
<1>8. QED BY <1>6, <1>7

------------------------------------------------------------------------------
(* Putting the hidden names back changes no number and no row a name is of.    *)
Real(item, rows) ==
  IF IsLabel(item) /\ \E r \in ToSet(rows) : r.hidden /\ Token(r.label) = item.of
  THEN [item EXCEPT !.of = (CHOOSE r \in ToSet(rows) : r.hidden /\ Token(r.label) = item.of).label] ELSE item
RowsNamed(result, label) == {i \in DOMAIN result : result[i].label = label}

LEMMA NamesAreTheSame ==
  ASSUME NEW result, Result(result), NEW item, DOMAIN item = {"form", "of"},
         IsLabel(item) => \A r \in ToSet(result) : r.hidden => item.of # r.label
  PROVE  LET real == Real(item, result)
         IN /\ IsLabel(real) <=> IsLabel(item)
            /\ ~IsLabel(item) => real = item
            /\ IsLabel(item) => (item.of \in Labels(Masked(result)) <=> \E r \in ToSet(result) : r.label = real.of)
            /\ IsLabel(item) /\ item.of \in Labels(Masked(result))
                 => NamedRows(Masked(result), item.of) = RowsNamed(result, real.of)
<1> DEFINE real == Real(item, result)
           D == DOMAIN result
<1>1. PICK masked : masked = Masked(result) OBVIOUS
<1>2. /\ D = DOMAIN masked /\ \A i \in D : result[i] \in ToSet(result) /\ result[i] \in [label : STRING, value : Int, hidden : BOOLEAN, day : Int]
      /\ \A r \in ToSet(result) : \E i \in D : result[i] = r
      /\ \A i \in D : masked[i].label = IF result[i].hidden THEN Token(result[i].label) ELSE result[i].label
  <2>1. /\ D = 1..Len(result) /\ \A i \in D : result[i] \in ToSet(result) /\ result[i] \in [label : STRING, value : Int, hidden : BOOLEAN, day : Int]
        /\ \A r \in ToSet(result) : \E i \in D : result[i] = r
    <3>1. PICK T : T = [label : STRING, value : Int, hidden : BOOLEAN, day : Int] OBVIOUS
    <3>2. result \in Seq(T) BY <3>1 DEF Result
    <3>3. /\ D = 1..Len(result) /\ \A i \in D : result[i] \in ToSet(result) /\ result[i] \in T
          /\ \A r \in ToSet(result) : \E i \in D : result[i] = r
      BY <3>2, InList
    <3>4. QED BY ONLY <3>1, <3>3
  <2>2. masked = [i \in D |-> IF result[i].hidden THEN [result[i] EXCEPT !.label = Token(result[i].label)] ELSE result[i]]
    BY <1>1 DEF Masked
  <2>3. QED BY <2>1, <2>2
<1>3. \A r, s \in ToSet(result) :
        /\ r.label = s.label => r.hidden = s.hidden
        /\ r.hidden => s.label # Token(r.label)
        /\ r.hidden /\ s.hidden /\ Token(r.label) = Token(s.label) => r.label = s.label
  BY DEF Result
<1>4. Labels(masked) = {masked[i].label : i \in D} BY <1>2 DEF Labels
<1>5. \A label : NamedRows(masked, label) = {i \in D : masked[i].label = label} BY <1>2 DEF NamedRows
<1>6. CASE ~IsLabel(item) BY <1>6 DEF Real
<1>7. CASE IsLabel(item) /\ \E r \in ToSet(result) : r.hidden /\ Token(r.label) = item.of
  <2>1. PICK s \in ToSet(result) : s.hidden /\ Token(s.label) = item.of /\ real = [item EXCEPT !.of = s.label]
    BY <1>7 DEF Real
  <2>2. real.of = s.label /\ real.form = item.form BY <2>1
  <2>3. PICK k \in D : result[k] = s BY <1>2
  <2>4. masked[k].label = item.of BY <1>2, <2>1, <2>3
  <2>5. \A i \in D : masked[i].label = item.of <=> result[i].label = s.label BY <1>2, <1>3, <2>1
  <2>6. NamedRows(masked, item.of) = RowsNamed(result, real.of) BY <1>5, <2>2, <2>5 DEF RowsNamed
  <2>7. item.of \in Labels(masked) BY <1>4, <2>4
  <2>8. QED BY <1>1, <1>7, <2>2, <2>6, <2>7 DEF IsLabel
<1>8. CASE IsLabel(item) /\ ~ \E r \in ToSet(result) : r.hidden /\ Token(r.label) = item.of
  <2>1. real = item BY <1>8 DEF Real
  <2>2. \A i \in D : masked[i].label = item.of <=> result[i].label = item.of BY <1>2, <1>8
  <2>3. NamedRows(masked, item.of) = RowsNamed(result, item.of) BY <1>5, <2>2 DEF RowsNamed
  <2>4. item.of \in Labels(masked) <=> \E r \in ToSet(result) : r.label = item.of BY <1>2, <1>4, <2>2
  <2>5. QED BY <1>1, <1>8, <2>1, <2>3, <2>4
<1>9. QED BY <1>6, <1>7, <1>8

------------------------------------------------------------------------------
(* A clause of code names one row, and a number in it is that row's.           *)
Extreme(row, rank, result) ==
  /\ row.value # NoValue
  /\ \A v \in {r.value : r \in ToSet(result)} \ {NoValue} :
       IF rank = "lowest" THEN Shown(row.value) <= Shown(v) ELSE Shown(row.value) >= Shown(v)

LEMMA RowClauseIsTrue ==
  ASSUME NEW result, NEW row \in ToSet(result), NEW rank, rank # "course", ClaimsRank(rank, result) => Extreme(row, rank, result)
  PROVE  ClauseIsTrue(RowClause(row, rank), result)
<1>1. PICK clause : clause = RowClause(row, rank) OBVIOUS
<1>2. clause.rank = rank BY <1>1 DEF RowClause
<1>3. \A k \in DOMAIN clause.items : \/ k = 1 /\ clause.items[k] = LabelItem(row)
                                     \/ k = 2 /\ row.value # NoValue /\ clause.items[k] = ShownItem(row)
  <2>1. CASE row.value = NoValue
    <3>1. clause.items = <<LabelItem(row)>> BY <1>1, <2>1 DEF RowClause
    <3>2. QED BY <3>1
  <2>2. CASE row.value # NoValue
    <3>1. clause.items = <<LabelItem(row), ShownItem(row)>> BY <1>1, <2>2 DEF RowClause
    <3>2. QED BY <2>2, <3>1
  <2>3. QED BY <2>1, <2>2
<1>4. IsLabel(LabelItem(row)) /\ LabelItem(row).of = row.label /\ ~IsLabel(ShownItem(row))
  BY DEF IsLabel, LabelItem, ShownItem
<1>5. row.value # NoValue => ShownItem(row) \in RowNumbers(row) BY DEF ShownItem, RowNumbers
<1>6. \A k \in DOMAIN clause.items : IsLabel(clause.items[k]) => clause.items[k].of = row.label BY <1>3, <1>4
<1>7. \A n \in NumbersOf(clause) : clause.items[n] \in RowNumbers(row) BY <1>3, <1>4, <1>5 DEF NumbersOf
<1>8. ClauseIsTrue(clause, result) BY <1>2, <1>6, <1>7 DEF ClauseIsTrue, Extreme
<1>9. QED BY <1>1, <1>8

(* The rows of a result that is sent whole: the rows themselves, and the same  *)
(* with the hidden names masked.                                               *)
LEMMA MaskingKeepsRows ==
  ASSUME NEW result, Result(result)
  PROVE  LET masked == Masked(result)
         IN /\ DOMAIN result = 1..Len(result) /\ Len(result) \in Nat /\ DOMAIN masked = 1..Len(result)
            /\ \A i \in 1..Len(result) : result[i] \in ToSet(result) /\ result[i].value \in Int /\ masked[i].value = result[i].value
            /\ \A r \in ToSet(result) : \E i \in 1..Len(result) : result[i] = r
            /\ Ranked(masked) = Ranked(result)
<1>1. PICK T : T = [label : STRING, value : Int, hidden : BOOLEAN, day : Int] OBVIOUS
<1>2. result \in Seq(T) BY <1>1 DEF Result
<1>3. /\ DOMAIN result = 1..Len(result) /\ Len(result) \in Nat
      /\ \A i \in 1..Len(result) : result[i] \in ToSet(result) /\ result[i] \in T
      /\ \A r \in ToSet(result) : \E i \in 1..Len(result) : result[i] = r
  BY <1>2, InList
<1>4. PICK masked : masked = Masked(result) OBVIOUS
<1>5. masked = [i \in 1..Len(result) |-> IF result[i].hidden THEN [result[i] EXCEPT !.label = Token(result[i].label)] ELSE result[i]]
  BY <1>3, <1>4 DEF Masked
<1>6. \A i \in 1..Len(result) : result[i].value \in Int /\ masked[i].value = result[i].value
  <2>1. TAKE i \in 1..Len(result)
  <2>2. result[i] \in [label : STRING, value : Int, hidden : BOOLEAN, day : Int] BY <1>1, <1>3
  <2>3. QED BY <1>5, <2>2
<1>7. DOMAIN masked = 1..Len(result) BY <1>5
<1>8. Ranked(masked) = Ranked(result) BY <1>3, <1>6, <1>7 DEF Ranked
<1>9. QED BY <1>3, <1>4, <1>6, <1>7, <1>8

(* A row among the winners is the highest, or the lowest, of the result.       *)
LEMMA WinnersAreExtreme ==
  ASSUME NEW result, Result(result), Ranked(result) # {}, NEW rows, rows \in {result, Masked(result)}, NEW rank
  PROVE  /\ Winners(rows, rank) # {} /\ Winners(rows, rank) \subseteq 1..Len(result)
         /\ \A i \in Winners(rows, rank) : Extreme(result[i], rank, result)
<1>1. PICK n : n = Len(result) OBVIOUS
<1>2. PICK masked : masked = Masked(result) OBVIOUS
<1>3. /\ DOMAIN result = 1..n /\ n \in Nat /\ DOMAIN masked = 1..n
      /\ \A i \in 1..n : result[i] \in ToSet(result) /\ result[i].value \in Int /\ masked[i].value = result[i].value
      /\ \A r \in ToSet(result) : \E i \in 1..n : result[i] = r
      /\ Ranked(masked) = Ranked(result)
  BY <1>1, <1>2, MaskingKeepsRows
<1>4. /\ DOMAIN rows = 1..n /\ Ranked(rows) = Ranked(result) /\ \A i \in 1..n : rows[i].value = result[i].value
  BY <1>2, <1>3
<1>5. \A i \in 1..n : rows[i].value \in Int BY <1>3, <1>4
<1>6. /\ Winners(rows, rank) # {} /\ Winners(rows, rank) \subseteq Ranked(rows)
      /\ \A i \in Winners(rows, rank) : Beyond(rows, rank, i)
  BY <1>3, <1>4, <1>5, WinnersAre
<1>7. \A i : i \in Ranked(rows) <=> i \in 1..n /\ result[i].value # NoValue BY <1>4 DEF Ranked
<1>8. ASSUME NEW i \in Winners(rows, rank) PROVE Extreme(result[i], rank, result)
  <2>1. i \in 1..n /\ result[i].value # NoValue /\ rows[i].value = result[i].value BY <1>4, <1>6, <1>7
  <2>2. ASSUME NEW v \in {r.value : r \in ToSet(result)} \ {NoValue}
        PROVE  IF rank = "lowest" THEN Shown(result[i].value) <= Shown(v) ELSE Shown(result[i].value) >= Shown(v)
    <3>1. PICK j \in 1..n : result[j].value = v BY <1>3
    <3>2. j \in Ranked(rows) /\ rows[j].value = v BY <1>4, <1>7, <3>1
    <3>3. QED BY <1>6, <2>1, <3>2 DEF Beyond
  <2>3. QED BY <2>1, <2>2 DEF Extreme
<1>9. QED BY <1>1, <1>6, <1>7, <1>8

(* The name beside a number, where the clause names one row.                   *)
LEMMA OneNameBeside ==
  ASSUME NEW k0 \in Int, NEW n \in Int
  PROVE  LabelBeside({k0}, n) = k0
<1>1. Gap(k0, n) <= Gap(k0, n)
  <2>1. Gap(k0, n) \in Int BY DEF Gap
  <2>2. QED BY <2>1
<1>2. \A j \in {k0} : Gap(k0, n) <= Gap(j, n) BY <1>1
<1>3. QED BY <1>2 DEF LabelBeside

------------------------------------------------------------------------------
(* A clause of a checked reply, with the hidden names put back, is true.       *)
LEMMA CheckedIsTrue ==
  ASSUME NEW result, Result(result), Ranked(result) # {}, NEW clause, Named(clause, result),
         ~RankProblem(clause, Masked(result)), ~PairingProblem(clause, Masked(result)),
         NEW said, said.rank = clause.rank,
         said.items = [k \in DOMAIN clause.items |-> Real(clause.items[k], result)]
  PROVE  ClauseIsTrue(said, result)
<1>1. PICK masked : masked = Masked(result) OBVIOUS
<1>2. PICK len : len = Len(result) OBVIOUS
<1>3. /\ DOMAIN result = 1..len /\ len \in Nat /\ DOMAIN masked = 1..len
      /\ \A i \in 1..len : result[i] \in ToSet(result) /\ masked[i].value = result[i].value
      /\ \A r \in ToSet(result) : \E i \in 1..len : result[i] = r
  BY <1>1, <1>2, MaskingKeepsRows
<1>4. PICK K : K = DOMAIN clause.items OBVIOUS
<1>5. DOMAIN said.items = K /\ \A k \in K : said.items[k] = Real(clause.items[k], result) BY <1>4
<1>6. K \subseteq Int /\ IsFiniteSet(K) /\ \A k \in K : clause.items[k] \in ToSet(clause.items)
  <2>1. PICK T, items : T = ToSet(clause.items) /\ items = clause.items OBVIOUS
  <2>2. items \in Seq(T) BY <2>1 DEF Named
  <2>3. DOMAIN items = 1..Len(items) /\ Len(items) \in Nat /\ \A k \in 1..Len(items) : items[k] \in T BY <2>2, InList
  <2>4. IsFiniteSet(1..Len(items)) BY <2>3, Positions
  <2>5. QED BY <1>4, <2>1, <2>3, <2>4
<1>7. ASSUME NEW k \in K
      PROVE  /\ IsLabel(said.items[k]) <=> IsLabel(clause.items[k])
             /\ ~IsLabel(clause.items[k]) => said.items[k] = clause.items[k]
             /\ IsLabel(clause.items[k]) =>
                  (clause.items[k].of \in Labels(masked) <=> \E r \in ToSet(result) : r.label = said.items[k].of)
             /\ IsLabel(clause.items[k]) /\ clause.items[k].of \in Labels(masked)
                  => NamedRows(masked, clause.items[k].of) = RowsNamed(result, said.items[k].of)
  <2>1. PICK item : item = clause.items[k] OBVIOUS
  <2>2. DOMAIN item = {"form", "of"} /\ (IsLabel(item) => \A r \in ToSet(result) : r.hidden => item.of # r.label)
    BY <1>6, <2>1 DEF Named
  <2>3. said.items[k] = Real(item, result) BY <1>5, <2>1
  <2>4. PICK real : real = Real(item, result) OBVIOUS
  <2>5. /\ IsLabel(real) <=> IsLabel(item)
        /\ ~IsLabel(item) => real = item
        /\ IsLabel(item) => (item.of \in Labels(Masked(result)) <=> \E r \in ToSet(result) : r.label = real.of)
        /\ IsLabel(item) /\ item.of \in Labels(Masked(result))
             => NamedRows(Masked(result), item.of) = RowsNamed(result, real.of)
    BY <2>2, <2>4, NamesAreTheSame
  <2>6. QED BY <1>1, <2>1, <2>3, <2>4, <2>5
<1>8. PICK spans : spans = SpansOf(clause, masked) OBVIOUS
<1>9. spans = {k \in K : IsLabel(clause.items[k]) /\ clause.items[k].of \in Labels(masked)} BY <1>4, <1>8 DEF SpansOf
<1>10. spans = {k \in DOMAIN said.items : IsLabel(said.items[k]) /\ \E r \in ToSet(result) : r.label = said.items[k].of}
  BY <1>5, <1>7, <1>9
<1>11. \A k \in spans : /\ NamedRows(masked, clause.items[k].of) = RowsNamed(result, said.items[k].of)
                        /\ NamedRows(masked, clause.items[k].of) # {}
  <2>1. TAKE k \in spans
  <2>2. k \in K /\ IsLabel(clause.items[k]) /\ clause.items[k].of \in Labels(masked) BY <1>9
  <2>3. QED BY <1>7, <2>2 DEF Labels, NamedRows
<1>12. \A label, i : i \in RowsNamed(result, label) => i \in 1..len /\ result[i] \in ToSet(result) /\ result[i].label = label
  BY <1>3 DEF RowsNamed
<1>13. ASSUME ClaimsRank(said.rank, result), NEW k \in spans
       PROVE  \E r \in ToSet(result) : r.label = said.items[k].of /\ Extreme(r, said.rank, result)
  <2>1. PICK i \in NamedRows(masked, clause.items[k].of) : i \in Winners(masked, clause.rank)
    <3>1. clause.rank # "none" BY <1>13 DEF ClaimsRank
    <3>2. QED BY <1>1, <1>8, <3>1 DEF RankProblem
  <2>2. Extreme(result[i], said.rank, result) BY <1>1, <2>1, WinnersAreExtreme
  <2>3. QED BY <1>11, <1>12, <2>1, <2>2
<1>14. ASSUME Cardinality(spans) = 1, NEW k \in spans, NEW n \in NumbersOf(said), NEW s \in ToSet(result), said.items[n] \in RowNumbers(s)
       PROVE  \E r \in ToSet(result) : r.label = said.items[k].of /\ said.items[n] \in RowNumbers(r)
  <2>1. n \in K /\ n \in NumbersOf(clause) /\ said.items[n] = clause.items[n]
    <3>1. n \in K /\ ~IsLabel(said.items[n]) BY <1>5 DEF NumbersOf
    <3>2. QED BY <1>4, <1>7, <3>1 DEF NumbersOf
  <2>2. \A i \in 1..len : RowNumbers(masked[i]) = RowNumbers(result[i]) BY <1>3 DEF RowNumbers
  <2>3. PICK owners : owners = {i \in DOMAIN masked : clause.items[n] \in RowNumbers(masked[i])} OBVIOUS
  <2>4. owners # {}
    <3>1. PICK i \in 1..len : result[i] = s BY <1>3
    <3>2. QED BY <1>3, <1>14, <2>1, <2>2, <2>3, <3>1
  <2>5. spans = {k}
    <3>1. spans \subseteq K /\ IsFiniteSet(spans) BY <1>6, <1>9, FS_Subset
    <3>2. PICK e : spans = {e} BY <1>14, <3>1, FS_Singleton
    <3>3. QED BY <3>2
  <2>6. k \in Int /\ n \in Int BY <1>6, <1>9, <2>1
  <2>7. LabelBeside(spans, n) = k BY <2>5, <2>6, OneNameBeside
  <2>8. NamedRows(masked, clause.items[k].of) \cap owners # {}
    BY <1>1, <1>8, <2>1, <2>3, <2>4, <2>5, <2>7 DEF PairingProblem
  <2>9. PICK i \in owners : i \in NamedRows(masked, clause.items[k].of) BY <2>8
  <2>10. i \in 1..len /\ result[i].label = said.items[k].of /\ result[i] \in ToSet(result) BY <1>11, <1>12, <2>9
  <2>11. said.items[n] \in RowNumbers(result[i]) BY <1>3, <2>1, <2>2, <2>3, <2>9
  <2>12. QED BY <2>10, <2>11
<1>15. said.rank # "course" BY DEF Named
<1>16. QED BY ONLY <1>10, <1>13, <1>14, <1>15 DEF ClauseIsTrue, Extreme

(* The sentence of code is true, ranked or not: "top", of rows that run down.  *)
LEMMA TemplateIsTrue ==
  ASSUME NEW result, Result(result), NEW clause \in ToSet(TemplateAnswer(ResultTable(result)))
  PROVE  ClauseIsTrue(clause, result)
<1>1. PICK T : T = [label : STRING, value : Int, hidden : BOOLEAN, day : Int] OBVIOUS
<1>2. result \in Seq(T) BY <1>1 DEF Result
<1>3. PICK rows : rows = ResultTable(result).rows OBVIOUS
<1>4. rows = FirstRows(result, MaxRows) BY <1>3 DEF ResultTable
<1>5. /\ rows \in Seq(T) /\ Len(rows) <= Len(result) /\ \A i \in 1..Len(rows) : rows[i] = result[i]
  BY <1>2, <1>4, FirstRowsAre, RowsAssumption
<1>6. rows # <<>> /\ \E rank \in {"none", "top"} : clause = RowClause(rows[1], rank)
  <2>1. CASE rows = <<>>
    <3>1. TemplateAnswer(ResultTable(result)) = <<>> BY <1>3, <2>1 DEF TemplateAnswer
    <3>2. QED BY <3>1 DEF ToSet
  <2>2. CASE rows # <<>>
    <3>1. PICK rank \in {"none", "top"} : TemplateAnswer(ResultTable(result)) = <<RowClause(rows[1], rank)>>
      BY <1>3, <2>2 DEF TemplateAnswer
    <3>2. clause = RowClause(rows[1], rank) BY <3>1 DEF ToSet
    <3>3. QED BY <2>2, <3>2
  <2>3. QED BY <2>1, <2>2
<1>7. PICK rank \in {"none", "top"} : clause = RowClause(rows[1], rank) BY <1>6
<1>8. Len(rows) \in Nat /\ Len(rows) # 0 /\ Len(result) \in Nat BY <1>2, <1>5, <1>6, InList
<1>9. rows[1] = result[1] /\ 1 \in 1..Len(result) BY <1>5, <1>8
<1>10. rows[1] \in ToSet(result) BY <1>2, <1>9, InList
<1>11. ASSUME RunsDown(result) PROVE Extreme(rows[1], "top", result)
  <2>1. /\ DOMAIN result = 1..Len(result) /\ \A i \in 1..Len(result) : result[i].value \in Int
        /\ \A r \in ToSet(result) : \E i \in 1..Len(result) : result[i] = r
    BY MaskingKeepsRows
  <2>2. result[1].value # NoValue BY <1>9, <1>11, <2>1 DEF RunsDown
  <2>3. ASSUME NEW v \in {r.value : r \in ToSet(result)} \ {NoValue} PROVE Shown(result[1].value) >= Shown(v)
    <3>1. PICK k \in 1..Len(result) : result[k].value = v BY <2>1
    <3>2. v \in Int /\ result[1].value \in Int BY <1>9, <2>1, <3>1
    <3>3. v <= result[1].value
      <4>1. CASE k = 1 BY <3>1, <3>2, <4>1
      <4>2. CASE k # 1
        <5>1. 1 < k BY <1>8, <4>2
        <5>2. result[1].value >= result[k].value BY <1>9, <1>11, <2>1, <2>3, <3>1, <5>1 DEF RunsDown
        <5>3. QED BY <3>1, <3>2, <5>2
      <4>3. QED BY <4>1, <4>2
    <3>4. result[1].value <= result[1].value BY <3>2
    <3>5. Shown(v) <= Shown(result[1].value) /\ Shown(v) \in Int /\ Shown(result[1].value) \in Int
      BY <3>2, <3>3, <3>4, ShownGrows
    <3>6. QED BY <3>5
  <2>4. QED BY <1>9, <2>2, <2>3 DEF Extreme
<1>12. rank # "course" /\ (ClaimsRank(rank, result) => Extreme(rows[1], rank, result)) BY <1>7, <1>11 DEF ClaimsRank
<1>13. ClauseIsTrue(RowClause(rows[1], rank), result) BY <1>10, <1>12, RowClauseIsTrue
<1>14. QED BY <1>7, <1>13

(* The first and the last date of a series, and what is said of its course.    *)
LEMMA EndsAre ==
  ASSUME NEW result, Result(result), Ranked(result) # {}
  PROVE  /\ Earliest(result) \in Ranked(result) /\ Latest(result) \in Ranked(result)
         /\ \A j \in Ranked(result) : result[Earliest(result)].day <= result[j].day /\ result[j].day <= result[Latest(result)].day
<1> DEFINE R == Ranked(result)
           d == [i \in R |-> result[i].day]
           Before(i, j) == d[i] < d[j] \/ (d[i] = d[j] /\ i <= j)
           Up == {p \in R \X R : Before(p[1], p[2])}
           Down == {p \in R \X R : Before(p[2], p[1])}
<1>1. R \subseteq 1..Len(result) /\ IsFiniteSet(R)
  <2>1. R \subseteq 1..Len(result) /\ Len(result) \in Nat BY MaskingKeepsRows DEF Ranked
  <2>2. QED BY <2>1, Positions
<1>2. \A i \in R : i \in Int /\ d[i] \in Int /\ d[i] = result[i].day
  <2>1. PICK T : T = [label : STRING, value : Int, hidden : BOOLEAN, day : Int] OBVIOUS
  <2>2. result \in Seq(T) BY <2>1 DEF Result
  <2>3. \A i \in 1..Len(result) : result[i] \in T BY <2>2, InList
  <2>4. TAKE i \in R
  <2>5. i \in 1..Len(result) /\ result[i] \in [label : STRING, value : Int, hidden : BOOLEAN, day : Int] BY <1>1, <2>1, <2>3
  <2>6. d[i] = result[i].day OBVIOUS
  <2>7. QED BY <2>5, <2>6
<1> HIDE DEF R, d
<1>3. /\ \A i, j \in R : Before(i, j) \/ Before(j, i)
      /\ \A i, j, k \in R : Before(i, j) /\ Before(j, k) => Before(i, k)
  BY <1>2
<1>4. \A i, j \in R : (<<i, j>> \in Up <=> Before(i, j)) /\ (<<i, j>> \in Down <=> Before(j, i)) OBVIOUS
<1> HIDE DEF Up, Down, Before
<1>5. Comparable(R, Up)
  <2>1. ASSUME NEW i \in R, NEW j \in R PROVE <<i, j>> \in Up \/ <<j, i>> \in Up
    <3>1. (<<i, j>> \in Up \/ <<j, i>> \in Up) <=> (Before(i, j) \/ Before(j, i)) BY <1>4
    <3>2. QED BY <1>3, <3>1
  <2>2. \A i, j, k \in R : <<i, j>> \in Up /\ <<j, k>> \in Up => <<i, k>> \in Up BY <1>3, <1>4
  <2>3. QED BY ONLY <2>1, <2>2 DEF Comparable
<1>6. Comparable(R, Down)
  <2>1. ASSUME NEW i \in R, NEW j \in R PROVE <<i, j>> \in Down \/ <<j, i>> \in Down
    <3>1. (<<i, j>> \in Down \/ <<j, i>> \in Down) <=> (Before(i, j) \/ Before(j, i)) BY <1>4
    <3>2. QED BY <1>3, <3>1
  <2>2. \A i, j, k \in R : <<i, j>> \in Down /\ <<j, k>> \in Down => <<i, k>> \in Down BY <1>3, <1>4
  <2>3. QED BY ONLY <2>1, <2>2 DEF Comparable
<1>7. (\E i \in R : \A j \in R : <<i, j>> \in Up) /\ (\E i \in R : \A j \in R : <<i, j>> \in Down)
  BY <1>1, <1>5, <1>6, Best DEF R
<1>8. (\E i \in R : \A j \in R : Before(i, j)) /\ (\E i \in R : \A j \in R : Before(j, i)) BY <1>4, <1>7
<1>9. \A i, j \in R : Before(i, j) <=> result[i].day < result[j].day \/ (result[i].day = result[j].day /\ i <= j) BY <1>2 DEF Before
<1>10. Earliest(result) \in R /\ \A j \in R : Before(Earliest(result), j) BY <1>8, <1>9 DEF Earliest, R
<1>11. Latest(result) \in R /\ \A j \in R : Before(j, Latest(result))
  <2>1. \A i, j \in R : Before(j, i) <=> result[j].day < result[i].day \/ (result[i].day = result[j].day /\ j <= i) BY <1>9
  <2>2. QED BY <1>8, <2>1 DEF Latest, R
<1>12. \A i, j \in R : Before(i, j) => result[i].day <= result[j].day BY <1>2, <1>9
<1>13. QED BY <1>10, <1>11, <1>12 DEF R

LEMMA CourseIsTrue ==
  ASSUME NEW result, Result(result), Ranked(result) # {}
  PROVE  ClauseIsTrue(CourseClause(result[Earliest(result)], result[Latest(result)]), result)
<1>1. PICK from, to : from = result[Earliest(result)] /\ to = result[Latest(result)] OBVIOUS
<1>2. /\ \A i \in 1..Len(result) : result[i] \in ToSet(result)
      /\ \A r \in ToSet(result) : \E i \in 1..Len(result) : result[i] = r
      /\ DOMAIN result = 1..Len(result)
  BY MaskingKeepsRows
<1>3. \A i : i \in Ranked(result) <=> i \in 1..Len(result) /\ result[i].value # NoValue BY <1>2 DEF Ranked
<1>4. from \in ToSet(result) /\ to \in ToSet(result) /\ from.value # NoValue /\ to.value # NoValue
  BY <1>1, <1>2, <1>3, EndsAre
<1>5. \A r \in ToSet(result) : r.value # NoValue => from.day <= r.day /\ r.day <= to.day BY <1>1, <1>2, <1>3, EndsAre
<1>6. PICK clause : clause = CourseClause(from, to) OBVIOUS
<1>7. IsCourse(clause, result) BY <1>4, <1>5, <1>6 DEF IsCourse
<1>8. clause.rank = "course" /\ clause.items = <<ShownItem(from), LabelItem(from), ShownItem(to), LabelItem(to)>>
  BY <1>6 DEF CourseClause
<1>9. ~ClaimsRank(clause.rank, result) BY <1>8 DEF ClaimsRank
<1>10. PICK named : named = {k \in DOMAIN clause.items : IsLabel(clause.items[k]) /\ \E r \in ToSet(result) : r.label = clause.items[k].of}
  OBVIOUS
<1>11. 2 \in named /\ 4 \in named /\ named \subseteq 1..4
  <2>1. IsLabel(LabelItem(from)) /\ LabelItem(from).of = from.label /\ IsLabel(LabelItem(to)) /\ LabelItem(to).of = to.label
    BY DEF IsLabel, LabelItem
  <2>2. DOMAIN clause.items = 1..4 /\ clause.items[2] = LabelItem(from) /\ clause.items[4] = LabelItem(to) BY <1>8
  <2>3. QED BY <1>4, <1>10, <2>1, <2>2
<1>12. Cardinality(named) # 1
  <2>1. IsFiniteSet(named)
    <3>1. 4 \in Nat OBVIOUS
    <3>2. QED BY <1>11, <3>1, Positions
  <2>2. Cardinality(named) = 1 => \E e : named = {e} BY <2>1, FS_Singleton
  <2>3. QED BY <1>11, <2>2
<1>13. ClauseIsTrue(clause, result) BY ONLY <1>7, <1>9, <1>10, <1>12 DEF ClauseIsTrue
<1>14. QED BY <1>1, <1>6, <1>13

LEMMA RankedIsTrue ==
  ASSUME NEW result, Result(result), Ranked(result) # {}, ResultTable(result).rows = result,
         NEW clause \in ToSet(RankedAnswer(ResultTable(result)))
  PROVE  ClauseIsTrue(clause, result)
<1>1. PICK len : len = Len(result) OBVIOUS
<1>2. len \in Nat /\ \A i \in 1..len : result[i] \in ToSet(result) BY <1>1, MaskingKeepsRows
<1>3. ASSUME NEW rank
      PROVE  LET w == Min(Winners(result, rank)) IN result[w] \in ToSet(result) /\ Extreme(result[w], rank, result)
  <2>1. PICK W : W = Winners(result, rank) OBVIOUS
  <2>2. W # {} /\ W \subseteq 1..len /\ \A i \in W : Extreme(result[i], rank, result) BY <1>1, <2>1, WinnersAreExtreme
  <2>3. IsFiniteSet(W) /\ W \subseteq Int BY <1>2, <2>2, Positions
  <2>4. Min(W) \in W BY <2>2, <2>3, MinIs
  <2>5. QED BY <1>2, <2>1, <2>2, <2>4
<1>4. PICK top, bottom : top = Min(Highest(result)) /\ bottom = Min(Lowest(result)) OBVIOUS
<1>5. top = Min(Winners(result, "highest")) /\ bottom = Min(Winners(result, "lowest")) BY <1>4 DEF Winners
<1>6. /\ result[top] \in ToSet(result) /\ Extreme(result[top], "highest", result)
      /\ result[bottom] \in ToSet(result) /\ Extreme(result[bottom], "lowest", result)
  BY <1>3, <1>5
<1>7. CASE top = bottom
  <2>1. RankedAnswer(ResultTable(result)) = TemplateAnswer(ResultTable(result)) BY <1>4, <1>7 DEF RankedAnswer
  <2>2. QED BY <2>1, TemplateIsTrue
<1>8. CASE top # bottom
  <2>1. PICK course : course = CourseClause(result[Earliest(result)], result[Latest(result)]) OBVIOUS
  <2>2. RankedAnswer(ResultTable(result)) =
          IF IsDated(result) THEN <<course, RowClause(result[top], "highest")>>
          ELSE <<RowClause(result[top], "highest"), RowClause(result[bottom], "lowest")>>
    BY <1>4, <1>8, <2>1 DEF RankedAnswer
  <2>3. clause \in {course, RowClause(result[top], "highest"), RowClause(result[bottom], "lowest")}
    <3>1. CASE IsDated(result) BY <2>2, <3>1 DEF ToSet
    <3>2. CASE ~IsDated(result) BY <2>2, <3>2 DEF ToSet
    <3>3. QED BY <3>1, <3>2
  <2>4. ClauseIsTrue(course, result) BY <2>1, CourseIsTrue
  <2>5. QED BY <1>6, <2>3, <2>4, RowClauseIsTrue
<1>9. QED BY <1>7, <1>8

(* Where there are facts, all of the result was sent.                          *)
LEMMA FactsAreOfAll ==
  ASSUME NEW result, Result(result), NEW labelColumns, HasFacts(ResultTable(result), labelColumns)
  PROVE  ResultTable(result).rows = result /\ Sent(ResultTable(result)) = Masked(result) /\ Ranked(result) # {}
<1>1. PICK T : T = [label : STRING, value : Int, hidden : BOOLEAN, day : Int] OBVIOUS
<1>2. result \in Seq(T) /\ Len(result) \in Nat BY <1>1, InList DEF Result
<1>3. PICK table : table = ResultTable(result) OBVIOUS
<1>4. ~table.truncated /\ Len(table.rows) <= MaxSent /\ Ranked(Sent(table)) # {} BY <1>3 DEF HasFacts, SentWhole
<1>5. table.rows = FirstRows(result, MaxRows) /\ table.truncated = (Len(result) > MaxRows) BY <1>3 DEF ResultTable
<1>6. table.rows = result
  <2>1. PICK len, max : len = Len(result) /\ max = MaxRows OBVIOUS
  <2>2. len \in Nat /\ max \in Nat BY <1>2, <2>1, RowsAssumption
  <2>3. ~(len > max) BY <1>4, <1>5, <2>1
  <2>4. Len(result) <= MaxRows BY <2>1, <2>2, <2>3
  <2>5. QED BY <1>2, <1>5, <2>4, FirstRowsAre, RowsAssumption
<1>7. FirstRows(result, MaxSent) = result BY <1>2, <1>4, <1>6, FirstRowsAre, RowsAssumption
<1>8. Sent(table) = Masked(result) BY <1>6, <1>7 DEF Sent
<1>9. Ranked(Masked(result)) = Ranked(result) BY MaskingKeepsRows
<1>10. QED BY <1>3, <1>4, <1>6, <1>8, <1>9

(* A reply that passed the checks says what is so.                             *)
LEMMA ReplyIsTrue ==
  ASSUME NEW result, Result(result), NEW labelColumns, HasFacts(ResultTable(result), labelColumns), NEW numbers,
         NEW reply, Reply(reply, result), Check(reply, Sent(ResultTable(result)), TRUE, numbers) = "good",
         NEW clause \in ToSet(Rehydrate(reply.text, ResultTable(result).rows))
  PROVE  ClauseIsTrue(clause, result)
<1>1. ResultTable(result).rows = result /\ Sent(ResultTable(result)) = Masked(result) /\ Ranked(result) # {} BY FactsAreOfAll
<1>2. PICK T, text : T = ToSet(reply.text) /\ text = reply.text OBVIOUS
<1>3. text \in Seq(T) BY <1>2 DEF Reply
<1>4. DOMAIN text = 1..Len(text) /\ \A c \in 1..Len(text) : text[c] \in T BY <1>3, InList
<1>5. PICK masked : masked = Masked(result) OBVIOUS
<1>6. ~WrongClaim(text, masked) BY <1>1, <1>2, <1>5 DEF Check
<1>7. PICK spoken : spoken = Rehydrate(text, result) OBVIOUS
<1>8. spoken = [c \in DOMAIN text |-> [text[c] EXCEPT !.items = [k \in DOMAIN text[c].items |-> Real(text[c].items[k], result)]]]
  BY <1>7 DEF Rehydrate, Real
<1>9. PICK c \in DOMAIN text : clause = [text[c] EXCEPT !.items = [k \in DOMAIN text[c].items |-> Real(text[c].items[k], result)]]
  <2>1. clause \in ToSet(spoken) BY <1>1, <1>2, <1>7
  <2>2. PICK c \in DOMAIN spoken : clause = spoken[c] BY <2>1 DEF ToSet
  <2>3. QED BY <1>8, <2>2
<1>10. text[c] \in T BY <1>4
<1>11. Named(text[c], result) BY <1>2, <1>10 DEF Reply
<1>12. DOMAIN text[c] = {"rank", "items"} BY <1>11 DEF Named
<1>13. clause.rank = text[c].rank /\ clause.items = [k \in DOMAIN text[c].items |-> Real(text[c].items[k], result)]
  BY <1>9, <1>12
<1>14. ~RankProblem(text[c], masked) /\ ~PairingProblem(text[c], masked) BY <1>2, <1>6, <1>10 DEF WrongClaim
<1>15. QED BY <1>1, <1>5, <1>11, <1>13, <1>14, CheckedIsTrue

(* What is said of a result is true of it.                                     *)
LEMMA SaidHolds ==
  ASSUME NEW result, Result(result), NEW labelColumns, NEW numbers, NEW first, Reply(first, result), NEW second, Reply(second, result)
  PROVE  SaidIsTrue(result, labelColumns, numbers, first, second)
<1>1. PICK table : table = ResultTable(result) OBVIOUS
<1>2. PICK rows : rows = Sent(table) OBVIOUS
<1>3. PICK facts : facts = HasFacts(table, labelColumns) OBVIOUS
<1>4. facts \in BOOLEAN BY <1>3 DEF HasFacts
<1>5. PICK v1 : v1 = Check(first, rows, facts, numbers) OBVIOUS
<1>6. PICK v2 : v2 = IF second.kind = "unavailable" THEN v1 ELSE Check(second, rows, facts, numbers) OBVIOUS
<1>7. PICK said : said = Narrate(table, labelColumns, numbers, first, second) OBVIOUS
<1>8. SUFFICES ASSUME said.by = "code" \/ said.facts, NEW clause \in ToSet(said.text) PROVE ClauseIsTrue(clause, result)
  BY <1>1, <1>7 DEF SaidIsTrue
<1>9. \/ said = [by |-> "caller", facts |-> facts, text |-> <<>>]
      \/ \E reply \in {first, second} :
           Check(reply, rows, facts, numbers) = "good" /\ said = [by |-> "model", facts |-> facts, text |-> Rehydrate(reply.text, table.rows)]
      \/ v2 = "wrong" /\ said = [by |-> "code", facts |-> facts, text |-> RankedAnswer(table)]
      \/ said = [by |-> "code", facts |-> facts, text |-> TemplateAnswer(table)]
  BY <1>2, <1>3, <1>5, <1>6, <1>7 DEF Narrate
<1>10. CASE said = [by |-> "caller", facts |-> facts, text |-> <<>>]
  <2>1. said.text = <<>> BY <1>10
  <2>2. QED BY <1>8, <2>1 DEF ToSet
<1>11. CASE \E reply \in {first, second} :
              Check(reply, rows, facts, numbers) = "good" /\ said = [by |-> "model", facts |-> facts, text |-> Rehydrate(reply.text, table.rows)]
  <2>1. PICK reply \in {first, second} :
          Check(reply, rows, facts, numbers) = "good" /\ said = [by |-> "model", facts |-> facts, text |-> Rehydrate(reply.text, table.rows)]
    BY <1>11
  <2>2. said.by = "model" /\ said.facts = facts /\ said.text = Rehydrate(reply.text, table.rows) BY <2>1
  <2>3. facts = TRUE BY <1>4, <1>8, <2>2
  <2>4. Reply(reply, result) OBVIOUS
  <2>5. Check(reply, Sent(ResultTable(result)), TRUE, numbers) = "good" BY <1>1, <1>2, <2>1, <2>3
  <2>6. clause \in ToSet(Rehydrate(reply.text, ResultTable(result).rows)) BY <1>1, <1>8, <2>2
  <2>7. HasFacts(ResultTable(result), labelColumns) BY <1>1, <1>3, <2>3
  <2>8. QED BY <2>4, <2>5, <2>6, <2>7, ReplyIsTrue
<1>12. CASE v2 = "wrong" /\ said = [by |-> "code", facts |-> facts, text |-> RankedAnswer(table)]
  <2>1. facts
    <3>1. \A reply : Check(reply, rows, facts, numbers) = "wrong" => facts BY DEF Check
    <3>2. QED BY <1>5, <1>6, <1>12, <3>1
  <2>2. ResultTable(result).rows = result /\ Ranked(result) # {} BY <1>1, <1>3, <2>1, FactsAreOfAll
  <2>3. said.text = RankedAnswer(ResultTable(result)) BY <1>1, <1>12
  <2>4. QED BY <1>8, <2>2, <2>3, RankedIsTrue
<1>13. CASE said = [by |-> "code", facts |-> facts, text |-> TemplateAnswer(table)]
  <2>1. said.text = TemplateAnswer(ResultTable(result)) BY <1>1, <1>13
  <2>2. QED BY <1>8, <2>1, TemplateIsTrue
<1>14. QED BY <1>9, <1>10, <1>11, <1>12, <1>13

(* A sentence made with the facts, or by code, is true of the rows it names.  *)
THEOREM SentencesAreTrue == Spec => []SentencesHold
<1>1. AnInput => SentencesHold
  <2>1. SUFFICES ASSUME AnInput, question = "said" PROVE SaidIsTrue(input.result, 1, {}, input.first, input.second)
    BY DEF SentencesHold
  <2>2. Result(input.result) /\ Reply(input.first, input.result) /\ Reply(input.second, input.result)
    BY <2>1, SaidAssumption DEF AnInput
  <2>3. QED BY <2>2, SaidHolds
<1>2. QED BY <1>1, OnlyInputs, PTL

------------------------------------------------------------------------------
(* What is shown.                                                             *)
LEMMA NodesAre ==
  ASSUME NEW e, Expression(e), NEW i \in 1..Len(e)
  PROVE  /\ e[i].op \in Operators /\ e[i].money \in BOOLEAN /\ TakesItsParts(e[i])
         /\ e[i].parts \in Seq(1..(i - 1)) /\ Len(e[i].parts) \in Nat
         /\ \A k \in 1..Len(e[i].parts) : e[i].parts[k] \in 1..(i - 1)
<1>1. e[i] \in [op : Operators, money : BOOLEAN, parts : Seq(Nat)]
  <2>1. PICK R : R = [op : Operators, money : BOOLEAN, parts : Seq(Nat)] OBVIOUS
  <2>2. e \in Seq(R) BY <2>1 DEF Expression
  <2>3. e[i] \in R BY ONLY <2>2, i \in 1..Len(e), InList
  <2>4. QED BY <2>1, <2>3
<1>2. e[i].parts \in Seq(Nat) /\ TakesItsParts(e[i]) /\ \A k \in 1..Len(e[i].parts) : e[i].parts[k] \in 1..(i - 1)
  BY <1>1 DEF Expression
<1>3. PICK s, T : s = e[i].parts /\ T = 1..(i - 1) OBVIOUS
<1>4. s \in Seq(Nat) /\ \A k \in 1..Len(s) : s[k] \in T BY <1>2, <1>3
<1>5. s \in Seq(T) BY ONLY <1>4
<1>6. QED BY <1>1, <1>2, <1>3, <1>5

(* What is found of a node, from what was found of those before it.           *)
LEMMA AmountsAreTyped ==
  ASSUME NEW e, Expression(e), NEW i \in 1..Len(e), NEW below \in Seq(BOOLEAN), Len(below) = i - 1
  PROVE  AmountOf(e[i], below) \in BOOLEAN
<1>1. \A p \in 1..(i - 1) : below[p] \in BOOLEAN OBVIOUS
<1>2. /\ e[i].op \in Operators /\ e[i].money \in BOOLEAN /\ TakesItsParts(e[i])
      /\ Len(e[i].parts) \in Nat
      /\ \A k \in 1..Len(e[i].parts) : e[i].parts[k] \in 1..(i - 1)
  BY NodesAre
<1>3. e[i].op = "window" => below[e[i].parts[1]] \in BOOLEAN BY <1>1, <1>2 DEF TakesItsParts
<1>4. (below[e[i].parts[1]] /\ ~below[e[i].parts[2]]) \in BOOLEAN OBVIOUS
<1>5. (\E p \in ToSet(e[i].parts) : below[p]) \in BOOLEAN OBVIOUS
<1>6. CASE e[i].op = "column" BY <1>2, <1>6 DEF AmountOf
<1>7. CASE e[i].op = "div" BY <1>4, <1>7 DEF AmountOf, DivIsAmount, Unitless
<1>8. CASE e[i].op = "window" BY <1>3, <1>8 DEF AmountOf, Unitless
<1>9. CASE e[i].op \notin {"column", "div", "window"} BY <1>5, <1>9 DEF AmountOf
<1>10. QED BY <1>6, <1>7, <1>8, <1>9

LEMMA PowersAreTyped ==
  ASSUME NEW e, Expression(e), NEW i \in 1..Len(e), NEW below \in Seq(Int), Len(below) = i - 1
  PROVE  PowerOf(e[i], below) \in Int
<1>1. \A p \in 1..(i - 1) : below[p] \in Int OBVIOUS
<1>2. /\ e[i].op \in Operators /\ e[i].money \in BOOLEAN /\ TakesItsParts(e[i])
      /\ Len(e[i].parts) \in Nat
      /\ \A k \in 1..Len(e[i].parts) : e[i].parts[k] \in 1..(i - 1)
  BY NodesAre
<1>3. e[i].op \in {"sum", "window"} => below[e[i].parts[1]] \in Int BY <1>1, <1>2 DEF TakesItsParts
<1>4. e[i].op \in {"add", "mul", "div"} => below[e[i].parts[1]] \in Int /\ below[e[i].parts[2]] \in Int
  BY <1>1, <1>2 DEF TakesItsParts
<1>5. CASE e[i].op \in {"column", "literal", "count", "corr", "compare"} BY <1>2, <1>5 DEF PowerOf
<1>6. CASE e[i].op \in {"sum", "window"} BY <1>3, <1>6 DEF PowerOf
<1>7. CASE e[i].op \in {"add", "mul", "div"}
  <2>1. PICK a, b : a = below[e[i].parts[1]] /\ b = below[e[i].parts[2]] OBVIOUS
  <2>2. a \in Int /\ b \in Int /\ NoUnit \in Int BY <1>4, <1>7, <2>1 DEF NoUnit
  <2>3. a + b \in Int /\ a - b \in Int BY <2>2
  <2>4. PowerOf(e[i], below) \in {NoUnit, a, a + b, a - b} BY <1>7, <2>1 DEF PowerOf
  <2>5. QED BY <2>2, <2>3, <2>4
<1>8. QED BY <1>2, <1>5, <1>6, <1>7 DEF Operators

(* The lists grow by one node at a time.                                      *)
Grows(h, e, T, F(_, _)) ==
  /\ h[0] = <<>>
  /\ \A i \in 1..Len(e) : h[i] = Append(h[i - 1], F(e[i], h[i - 1]))
  /\ \A i \in 0..Len(e) : h[i] \in Seq(T) /\ Len(h[i]) = i

LEMMA AmountsGrow ==
  ASSUME NEW e, Expression(e)
  PROVE  \E h : Amounts(e) = h[Len(e)] /\ Grows(h, e, BOOLEAN, AmountOf)
<1> DEFINE n == Len(e)
           A == Seq(BOOLEAN)
           After(a, i) == Append(a, AmountOf(e[i], a))
           Safe(a, i) == IF Len(a) = i - 1 THEN After(a, i) ELSE a
           Recurs(g) == g = [i \in 0..n |-> IF i = 0 THEN <<>> ELSE After(g[i - 1], i)]
           F == [i \in 1..n |-> [a \in A |-> Safe(a, i)]]
<1>1. n \in Nat BY DEF Expression
<1>2. <<>> \in A /\ Len(<<>>) = 0 OBVIOUS
<1>3. \A i \in 1..n : \A a \in A : Len(a) = i - 1 => After(a, i) \in A /\ Len(After(a, i)) = i
  <2>1. ASSUME NEW i \in 1..n, NEW a \in A, Len(a) = i - 1 PROVE After(a, i) \in A /\ Len(After(a, i)) = i
    <3>1. AmountOf(e[i], a) \in BOOLEAN BY <2>1, AmountsAreTyped
    <3>2. PICK x : x = AmountOf(e[i], a) OBVIOUS
    <3>3. x \in BOOLEAN /\ a \in Seq(BOOLEAN) BY <3>1, <3>2
    <3>4. Append(a, x) \in Seq(BOOLEAN) /\ Len(Append(a, x)) = Len(a) + 1 BY ONLY <3>3, Appended
    <3>5. QED BY <2>1, <3>2, <3>4
  <2>2. QED BY <2>1
<1>4. Amounts(e) = (CHOOSE g : Recurs(g))[n] BY DEF Amounts
<1> HIDE DEF After
<1>5. F \in [1..n -> [A -> A]] /\ \A i \in 1..n : \A a \in A : F[i][a] = Safe(a, i) BY <1>3
<1> HIDE DEF n, F, A
<1>6. PICK g : Follows(g, A, <<>>, n, F) BY <1>1, <1>2, <1>5, Recursion
<1>7. g[0] = <<>> /\ g \in [0..n -> A] /\ \A i \in 1..n : g[i] = Safe(g[i - 1], i) /\ g[i - 1] \in A
  <2>1. \A i \in 1..n : i - 1 \in 0..n BY <1>1
  <2>2. QED BY <1>5, <1>6, <2>1 DEF Follows
<1> DEFINE G == {i \in 0..n : Len(g[i]) = i}
<1>8. 0 \in G BY <1>1, <1>2, <1>7
<1>9. ASSUME NEW i \in 1..n, i - 1 \in G PROVE i \in G
  <2>1. Len(g[i - 1]) = i - 1 /\ g[i] = Safe(g[i - 1], i) /\ g[i - 1] \in A BY <1>7, <1>9
  <2>2. Len(g[i]) = i BY <1>3, <2>1
  <2>3. QED BY <1>1, <2>2
<1>10. \A i \in 0..n : i \in G
  <2> HIDE DEF G
  <2>1. QED BY <1>1, <1>8, <1>9, Throughout
<1>11. Recurs(g)
  <2>1. \A i \in 0..n : i # 0 => i \in 1..n /\ i - 1 \in 0..n BY <1>1
  <2>2. \A i \in 0..n : g[i] = IF i = 0 THEN <<>> ELSE After(g[i - 1], i) BY <1>7, <1>10, <2>1
  <2>3. g = [i \in 0..n |-> g[i]] BY <1>7
  <2>4. QED BY <2>2, <2>3
<1>12. PICK h : Recurs(h) /\ Amounts(e) = h[n] BY <1>4, <1>11
<1>13. h[0] = <<>> /\ \A i \in 1..n : h[i] = After(h[i - 1], i) BY <1>1, <1>12
<1> DEFINE H == {i \in 0..n : h[i] \in A /\ Len(h[i]) = i}
<1>14. 0 \in H BY <1>1, <1>2, <1>13
<1>15. ASSUME NEW i \in 1..n, i - 1 \in H PROVE i \in H
  <2>1. Len(h[i - 1]) = i - 1 /\ h[i] = After(h[i - 1], i) /\ h[i - 1] \in A BY <1>13, <1>15
  <2>2. QED BY <1>1, <1>3, <2>1
<1>16. \A i \in 0..n : i \in H
  <2> HIDE DEF H
  <2>1. QED BY <1>1, <1>14, <1>15, Throughout
<1>17. QED BY <1>12, <1>13, <1>16 DEF Grows, After, n, A

LEMMA PowersGrow ==
  ASSUME NEW e, Expression(e)
  PROVE  \E h : Powers(e) = h[Len(e)] /\ Grows(h, e, Int, PowerOf)
<1> DEFINE n == Len(e)
           A == Seq(Int)
           After(a, i) == Append(a, PowerOf(e[i], a))
           Safe(a, i) == IF Len(a) = i - 1 THEN After(a, i) ELSE a
           Recurs(g) == g = [i \in 0..n |-> IF i = 0 THEN <<>> ELSE After(g[i - 1], i)]
           F == [i \in 1..n |-> [a \in A |-> Safe(a, i)]]
<1>1. n \in Nat BY DEF Expression
<1>2. <<>> \in A /\ Len(<<>>) = 0 OBVIOUS
<1>3. \A i \in 1..n : \A a \in A : Len(a) = i - 1 => After(a, i) \in A /\ Len(After(a, i)) = i
  <2>1. ASSUME NEW i \in 1..n, NEW a \in A, Len(a) = i - 1 PROVE After(a, i) \in A /\ Len(After(a, i)) = i
    <3>1. PowerOf(e[i], a) \in Int BY <2>1, PowersAreTyped
    <3>2. PICK x : x = PowerOf(e[i], a) OBVIOUS
    <3>3. x \in Int /\ a \in Seq(Int) BY <3>1, <3>2
    <3>4. Append(a, x) \in Seq(Int) /\ Len(Append(a, x)) = Len(a) + 1 BY ONLY <3>3, Appended
    <3>5. QED BY <2>1, <3>2, <3>4
  <2>2. QED BY <2>1
<1>4. Powers(e) = (CHOOSE g : Recurs(g))[n] BY DEF Powers
<1> HIDE DEF After
<1>5. F \in [1..n -> [A -> A]] /\ \A i \in 1..n : \A a \in A : F[i][a] = Safe(a, i) BY <1>3
<1> HIDE DEF n, F, A
<1>6. PICK g : Follows(g, A, <<>>, n, F) BY <1>1, <1>2, <1>5, Recursion
<1>7. g[0] = <<>> /\ g \in [0..n -> A] /\ \A i \in 1..n : g[i] = Safe(g[i - 1], i) /\ g[i - 1] \in A
  <2>1. \A i \in 1..n : i - 1 \in 0..n BY <1>1
  <2>2. QED BY <1>5, <1>6, <2>1 DEF Follows
<1> DEFINE G == {i \in 0..n : Len(g[i]) = i}
<1>8. 0 \in G BY <1>1, <1>2, <1>7
<1>9. ASSUME NEW i \in 1..n, i - 1 \in G PROVE i \in G
  <2>1. Len(g[i - 1]) = i - 1 /\ g[i] = Safe(g[i - 1], i) /\ g[i - 1] \in A BY <1>7, <1>9
  <2>2. Len(g[i]) = i BY <1>3, <2>1
  <2>3. QED BY <1>1, <2>2
<1>10. \A i \in 0..n : i \in G
  <2> HIDE DEF G
  <2>1. QED BY <1>1, <1>8, <1>9, Throughout
<1>11. Recurs(g)
  <2>1. \A i \in 0..n : i # 0 => i \in 1..n /\ i - 1 \in 0..n BY <1>1
  <2>2. \A i \in 0..n : g[i] = IF i = 0 THEN <<>> ELSE After(g[i - 1], i) BY <1>7, <1>10, <2>1
  <2>3. g = [i \in 0..n |-> g[i]] BY <1>7
  <2>4. QED BY <2>2, <2>3
<1>12. PICK h : Recurs(h) /\ Powers(e) = h[n] BY <1>4, <1>11
<1>13. h[0] = <<>> /\ \A i \in 1..n : h[i] = After(h[i - 1], i) BY <1>1, <1>12
<1> DEFINE H == {i \in 0..n : h[i] \in A /\ Len(h[i]) = i}
<1>14. 0 \in H BY <1>1, <1>2, <1>13
<1>15. ASSUME NEW i \in 1..n, i - 1 \in H PROVE i \in H
  <2>1. Len(h[i - 1]) = i - 1 /\ h[i] = After(h[i - 1], i) /\ h[i - 1] \in A BY <1>13, <1>15
  <2>2. QED BY <1>1, <1>3, <2>1
<1>16. \A i \in 0..n : i \in H
  <2> HIDE DEF H
  <2>1. QED BY <1>1, <1>14, <1>15, Throughout
<1>17. QED BY <1>12, <1>13, <1>16 DEF Grows, After, n, A

------------------------------------------------------------------------------
(* A node of which no part is out of place is an amount just when its power   *)
(* is one, if that is so of its parts.                                        *)
LEMMA NodeIsRight ==
  ASSUME NEW e, Expression(e), NEW i \in 1..Len(e), NEW amounts \in Seq(BOOLEAN), NEW powers \in Seq(Int),
         Len(amounts) = i - 1, Len(powers) = i - 1,
         \A j \in 1..(i - 1) : powers[j] \in {0, 1} /\ (amounts[j] <=> powers[j] = 1),
         PowerOf(e[i], powers) \in {0, 1}
  PROVE  AmountOf(e[i], amounts) <=> PowerOf(e[i], powers) = 1
<1> DEFINE op == e[i].op
           parts == e[i].parts
<1>1. /\ op \in Operators /\ e[i].money \in BOOLEAN /\ TakesItsParts(e[i])
      /\ parts \in Seq(1..(i - 1)) /\ Len(parts) \in Nat
      /\ \A k \in 1..Len(parts) : parts[k] \in 1..(i - 1)
  BY NodesAre
<1>2. PICK x, y : x = parts[1] /\ y = parts[2] OBVIOUS
<1>3. op \in {"sum", "window", "add", "mul", "div"} => x \in 1..(i - 1)
  <2>1. PICK p, len : p = parts /\ len = Len(parts) OBVIOUS
  <2>2. len \in Nat /\ \A k \in 1..len : p[k] \in 1..(i - 1) BY <1>1, <2>1
  <2>3. op \in {"sum", "window", "add", "mul", "div"} => len > 0
    <3>1. PICK o : o = op OBVIOUS
    <3>2. /\ o = "sum" => len = 1
          /\ o = "window" => len > 0
          /\ o \in {"add", "mul", "div"} => len = 2
      BY <1>1, <2>1, <3>1 DEF TakesItsParts
    <3>3. o \in {"sum", "window", "add", "mul", "div"} => len > 0 BY ONLY <2>2, <3>2
    <3>4. QED BY ONLY <3>1, <3>3
  <2>4. len > 0 => 1 \in 1..len BY <2>2
  <2>5. len > 0 => p[1] \in 1..(i - 1) BY <2>2, <2>4
  <2>6. QED BY <1>2, <2>1, <2>3, <2>5
<1>4. op \in {"add", "mul", "div"} => y \in 1..(i - 1) BY <1>1, <1>2 DEF TakesItsParts
<1>5. PICK a, b : a = powers[x] /\ b = powers[y] OBVIOUS
<1>6. op \in {"sum", "window", "add", "mul", "div"} => a \in {0, 1} /\ (amounts[x] <=> a = 1) BY <1>3, <1>5
<1>7. op \in {"add", "mul", "div"} => b \in {0, 1} /\ (amounts[y] <=> b = 1) BY <1>4, <1>5
<1>8. CASE op = "column"
  <2>1. AmountOf(e[i], amounts) = e[i].money BY <1>8 DEF AmountOf
  <2>2. PowerOf(e[i], powers) = IF e[i].money THEN 1 ELSE 0 BY <1>8 DEF PowerOf
  <2>3. QED BY <1>1, <2>1, <2>2
<1>9. CASE op \in Unitless
  <2>1. ~AmountOf(e[i], amounts) BY <1>9 DEF AmountOf, Unitless
  <2>2. PowerOf(e[i], powers) = 0 BY <1>9 DEF PowerOf, Unitless
  <2>3. QED BY <2>1, <2>2
<1>10. CASE op = "div"
  <2>1. AmountOf(e[i], amounts) <=> (amounts[x] /\ ~amounts[y]) BY <1>2, <1>10 DEF AmountOf, DivIsAmount, Unitless
  <2>2. PowerOf(e[i], powers) = IF NoUnit \in {a, b} THEN NoUnit ELSE a - b BY <1>2, <1>5, <1>10 DEF PowerOf
  <2>3. PowerOf(e[i], powers) = a - b BY <1>6, <1>7, <1>10, <2>2 DEF NoUnit
  <2>4. QED BY <1>6, <1>7, <1>10, <2>1, <2>3
<1>11. CASE op = "window"
  <2>1. AmountOf(e[i], amounts) <=> amounts[x] BY <1>2, <1>11 DEF AmountOf, Unitless
  <2>2. PowerOf(e[i], powers) = a BY <1>2, <1>5, <1>11 DEF PowerOf
  <2>3. QED BY <1>6, <1>11, <2>1, <2>2
<1>12. CASE op = "sum"
  <2>1. AmountOf(e[i], amounts) <=> \E p \in ToSet(parts) : amounts[p] BY <1>12 DEF AmountOf, Unitless
  <2>2. ToSet(parts) = {x}
    <3>1. Len(parts) = 1 BY <1>1, <1>12 DEF TakesItsParts
    <3>2. \A p : p \in ToSet(parts) <=> \E k \in 1..Len(parts) : parts[k] = p
      <4>1. PICK t, T : t = parts /\ T = 1..(i - 1) OBVIOUS
      <4>2. t \in Seq(T) BY <1>1, <4>1
      <4>3. \A p : p \in ToSet(t) <=> \E k \in 1..Len(t) : t[k] = p BY ONLY <4>2, InList
      <4>4. QED BY <4>1, <4>3
    <3>3. QED BY <1>2, <3>1, <3>2
  <2>3. PowerOf(e[i], powers) = a BY <1>2, <1>5, <1>12 DEF PowerOf
  <2>4. QED BY <1>6, <1>12, <2>1, <2>2, <2>3
<1>13. CASE op \in {"add", "mul"}
  <2>1. AmountOf(e[i], amounts) <=> \E p \in ToSet(parts) : amounts[p] BY <1>13 DEF AmountOf, Unitless
  <2>2. ToSet(parts) = {x, y}
    <3>1. Len(parts) = 2 BY <1>1, <1>13 DEF TakesItsParts
    <3>2. \A p : p \in ToSet(parts) <=> \E k \in 1..Len(parts) : parts[k] = p
      <4>1. PICK t, T : t = parts /\ T = 1..(i - 1) OBVIOUS
      <4>2. t \in Seq(T) BY <1>1, <4>1
      <4>3. \A p : p \in ToSet(t) <=> \E k \in 1..Len(t) : t[k] = p BY ONLY <4>2, InList
      <4>4. QED BY <4>1, <4>3
    <3>3. QED BY <1>2, <3>1, <3>2
  <2>3. AmountOf(e[i], amounts) <=> (amounts[x] \/ amounts[y]) BY <2>1, <2>2
  <2>4. CASE op = "add"
    <3>1. PowerOf(e[i], powers) = IF a = b THEN a ELSE NoUnit BY <1>2, <1>5, <2>4 DEF PowerOf
    <3>2. a = b /\ PowerOf(e[i], powers) = a BY <3>1 DEF NoUnit
    <3>3. QED BY <1>6, <1>7, <1>13, <2>3, <3>2
  <2>5. CASE op = "mul"
    <3>1. PowerOf(e[i], powers) = IF NoUnit \in {a, b} THEN NoUnit ELSE a + b BY <1>2, <1>5, <2>5 DEF PowerOf
    <3>2. PowerOf(e[i], powers) = a + b BY <1>6, <1>7, <1>13, <3>1 DEF NoUnit
    <3>3. QED BY <1>6, <1>7, <1>13, <2>3, <3>2
  <2>6. QED BY <1>13, <2>4, <2>5
<1>14. QED BY <1>1, <1>8, <1>9, <1>10, <1>11, <1>12, <1>13 DEF Operators, Unitless

LEMMA UnitIs ==
  ASSUME NEW e, Expression(e)
  PROVE  UnitIsRight(e)
<1> DEFINE n == Len(e)
<1>1. PICK h : Amounts(e) = h[n] /\ Grows(h, e, BOOLEAN, AmountOf) BY AmountsGrow
<1>2. PICK p : Powers(e) = p[n] /\ Grows(p, e, Int, PowerOf) BY PowersGrow
<1>3. n \in Nat /\ n > 0 BY DEF Expression
<1> DEFINE Fits(i) == \A j \in 1..i : p[i][j] \in {0, 1}
           Right(i) == \A j \in 1..i : h[i][j] <=> p[i][j] = 1
           G == {i \in 0..n : Fits(i) => Right(i)}
<1>4. 0 \in G BY <1>3
<1>5. ASSUME NEW i \in 1..n, i - 1 \in G PROVE i \in G
  <2>1. PICK a, b : a = h[i - 1] /\ b = p[i - 1] OBVIOUS
  <2>2. a \in Seq(BOOLEAN) /\ b \in Seq(Int) /\ Len(a) = i - 1 /\ Len(b) = i - 1
    <3>1. i - 1 \in 0..n BY <1>3
    <3>2. QED BY <1>1, <1>2, <2>1, <3>1 DEF Grows
  <2>3. PICK x, y : x = AmountOf(e[i], a) /\ y = PowerOf(e[i], b) OBVIOUS
  <2>4. x \in BOOLEAN /\ y \in Int BY <2>2, <2>3, AmountsAreTyped, PowersAreTyped
  <2>5. h[i] = Append(a, x) /\ p[i] = Append(b, y) BY <1>1, <1>2, <2>1, <2>3 DEF Grows
  <2>6. Append(a, x)[i] = x /\ \A j \in 1..(i - 1) : Append(a, x)[j] = a[j]
    <3>1. Append(a, x)[Len(a) + 1] = x /\ \A j \in 1..Len(a) : Append(a, x)[j] = a[j] BY ONLY <2>2, <2>4, Appended
    <3>2. QED BY <2>2, <3>1
  <2>7. Append(b, y)[i] = y /\ \A j \in 1..(i - 1) : Append(b, y)[j] = b[j]
    <3>1. Append(b, y)[Len(b) + 1] = y /\ \A j \in 1..Len(b) : Append(b, y)[j] = b[j] BY ONLY <2>2, <2>4, Appended
    <3>2. QED BY <2>2, <3>1
  <2>8. \A j \in 1..i : j \in 1..(i - 1) \/ j = i OBVIOUS
  <2>9. \A j \in 1..(i - 1) : j \in 1..i OBVIOUS
  <2>10. ASSUME Fits(i) PROVE Right(i)
    <3>1. y \in {0, 1} /\ \A j \in 1..(i - 1) : b[j] \in {0, 1}
      <4>1. \A j \in 1..i : Append(b, y)[j] \in {0, 1} BY <2>5, <2>10
      <4>2. i \in 1..i OBVIOUS
      <4>3. QED BY <2>7, <2>9, <4>1, <4>2
    <3>2. Fits(i - 1) BY <2>1, <3>1
    <3>3. Right(i - 1) BY <1>5, <3>2
    <3>4. \A j \in 1..(i - 1) : a[j] <=> b[j] = 1 BY <2>1, <3>3
    <3>5. x <=> y = 1 BY <2>2, <2>3, <3>1, <3>4, NodeIsRight
    <3>6. QED BY <2>5, <2>6, <2>7, <2>8, <3>4, <3>5
  <2>11. i \in 0..n BY <1>3
  <2>12. QED BY <2>10, <2>11
<1>6. \A i \in 0..n : i \in G
  <2> HIDE DEF G
  <2>1. QED BY <1>3, <1>4, <1>5, Throughout
<1>7. n \in 0..n /\ n \in 1..n BY <1>3
<1>8. InRupees(e) => Fits(n) BY <1>2 DEF InRupees
<1>9. QED BY <1>1, <1>2, <1>6, <1>7, <1>8 DEF UnitIsRight, IsAmount

------------------------------------------------------------------------------
(* An amount is written to the nearest of its last digit.                     *)
LEMMA Rounding ==
  ASSUME NEW n \in Nat, NEW unit \in {100000, 10000000}
  PROVE  /\ RoundedTo(n, unit) \in Nat
         /\ 2 * n < 2 * unit * RoundedTo(n, unit) + unit
         /\ 2 * unit * RoundedTo(n, unit) <= 2 * n + unit
<1>1. CASE unit = 100000 BY <1>1 DEF RoundedTo
<1>2. CASE unit = 10000000 BY <1>2 DEF RoundedTo
<1>3. QED BY <1>1, <1>2

LEMMA ReadIs ==
  ASSUME NEW n \in Nat
  PROVE  LET r == Rupees(n)
         IN /\ r.unit \in {1, 100000, 10000000} /\ r.digits \in Nat
            /\ r.unit = 1 => n < 10000000 /\ r.digits = n
            /\ r.unit = 100000 => n >= 10000000 /\ r.digits = RoundedTo(n, 100000) /\ r.digits < 10000
            /\ r.unit = 10000000 => r.digits = RoundedTo(n, 10000000) /\ n >= 10000000 /\ RoundedTo(n, 100000) >= 10000
<1>1. Lakh \div 100 = 100000 /\ Crore \div 100 = 10000000 BY DEF Lakh, Crore
<1>2. RoundedTo(n, 100000) \in Nat /\ RoundedTo(n, 10000000) \in Nat BY Rounding
<1>3. CASE n < Lakh BY <1>3 DEF Rupees, Lakh
<1>4. CASE ~(n < Lakh) /\ RoundedTo(n, 100000) < 10000 BY <1>1, <1>2, <1>4 DEF Rupees, BelowCrore, Lakh
<1>5. CASE ~(n < Lakh) /\ ~(RoundedTo(n, 100000) < 10000) BY <1>1, <1>2, <1>5 DEF Rupees, BelowCrore, Lakh
<1>6. QED BY <1>3, <1>4, <1>5

LEMMA AmountsAreRead ==
  ASSUME NEW n \in Nat, NEW m \in Nat
  PROVE  AmountsRead(n, m)
<1> DEFINE r == Rupees(n)
           s == Rupees(m)
           a == RoundedTo(n, 100000)
           c == RoundedTo(n, 10000000)
           b == RoundedTo(m, 100000)
           d == RoundedTo(m, 10000000)
<1>1. Lakh \div 100 = 100000 BY DEF Lakh
<1>2. /\ a \in Nat /\ 2 * n < 200000 * a + 100000 /\ 200000 * a <= 2 * n + 100000
      /\ c \in Nat /\ 2 * n < 20000000 * c + 10000000 /\ 20000000 * c <= 2 * n + 10000000
      /\ b \in Nat /\ 2 * m < 200000 * b + 100000 /\ 200000 * b <= 2 * m + 100000
      /\ d \in Nat /\ 2 * m < 20000000 * d + 10000000 /\ 20000000 * d <= 2 * m + 10000000
  BY Rounding
<1>3. \/ r.unit = 1 /\ n < 10000000 /\ r.digits = n
      \/ r.unit = 100000 /\ n >= 10000000 /\ r.digits = a /\ a < 10000
      \/ r.unit = 10000000 /\ r.digits = c /\ n >= 10000000 /\ a >= 10000
  BY ReadIs
<1>4. \/ s.unit = 1 /\ m < 10000000 /\ s.digits = m
      \/ s.unit = 100000 /\ m >= 10000000 /\ s.digits = b /\ b < 10000
      \/ s.unit = 10000000 /\ s.digits = d /\ m >= 10000000 /\ b >= 10000
  BY ReadIs
<1>5. n \in Int /\ m \in Int OBVIOUS
<1>6. PICK x, y : x = Read(r) /\ y = Read(s) OBVIOUS
<1> HIDE DEF a, b, c, d
<1>7. \/ x = n /\ n < 10000000
      \/ x = 100000 * a /\ n >= 10000000 /\ a < 10000
      \/ x = 10000000 * c /\ n >= 10000000 /\ a >= 10000
  BY <1>2, <1>3, <1>6 DEF Read
<1>8. \/ y = m /\ m < 10000000
      \/ y = 100000 * b /\ m >= 10000000 /\ b < 10000
      \/ y = 10000000 * d /\ m >= 10000000 /\ b >= 10000
  BY <1>2, <1>4, <1>6 DEF Read
<1>9. n <= m => x <= y BY ONLY <1>2, <1>5, <1>7, <1>8
<1>10. 2 * (IF x > n THEN x - n ELSE n - x) <= r.unit
  <2>1. PICK u : u = r.unit OBVIOUS
  <2>2. \/ u = 1 /\ x = n
        \/ u = 100000 /\ x = 100000 * a
        \/ u = 10000000 /\ x = 10000000 * c
    BY <1>2, <1>3, <1>6, <2>1 DEF Read
  <2>3. x \in Int BY <1>2, <1>5, <2>2
  <2>4. 2 * (x - n) <= u /\ 2 * (n - x) <= u BY ONLY <1>2, <1>5, <2>2, <2>3
  <2>5. QED BY <2>1, <2>4
<1>11. r.unit = Lakh \div 100 => r.digits < 10000 BY <1>1, <1>3
<1>12. QED BY <1>6, <1>9, <1>10, <1>11 DEF AmountsRead

------------------------------------------------------------------------------
(* Bars of which each two that follow each other fall, fall throughout.       *)

LEMMA FallsThroughout ==
  ASSUME NEW D, NEW rows \in Seq([D -> Int]), NEW c \in D, LargestFirst(rows, c)
  PROVE  \A i, k \in WithCell(rows, c) : i < k => rows[i][c] >= rows[k][c]
<1> DEFINE n == Len(rows)
           S == WithCell(rows, c)
           G == {m \in 0..n : \A i, k \in S : i < k /\ k <= m => rows[i][c] >= rows[k][c]}
<1>1. n \in Nat OBVIOUS
<1>2. S \subseteq 1..n BY DEF WithCell
<1>3. \A i \in S : rows[i][c] \in Int
  <2>1. \A i \in 1..n : rows[i] \in [D -> Int] OBVIOUS
  <2>2. QED BY <1>2, <2>1
<1>4. 0 \in G BY <1>1, <1>2
<1>5. ASSUME NEW m \in 1..n, m - 1 \in G PROVE m \in G
  <2>1. m \in 0..n BY <1>1
  <2>2. ASSUME NEW i \in S, NEW k \in S, i < k, k <= m PROVE rows[i][c] >= rows[k][c]
    <3>1. i \in Int /\ k \in Int BY <1>2
    <3>2. CASE k < m
      <4>1. k <= m - 1 BY <3>1, <3>2
      <4>2. QED BY <1>5, <2>2, <4>1
    <3>3. CASE k = m
      <4> DEFINE Before == {j \in S : j < m}
      <4>1. Before \subseteq 1..n /\ i \in Before BY <1>2, <2>2, <3>3
      <4>2. IsFiniteSet(Before) BY <1>1, <4>1, Positions
      <4>3. Before \subseteq Int /\ Before # {} BY <4>1
      <4>4. PICK p \in Before : \A j \in Before : j <= p
        <5> HIDE DEF Before
        <5>1. QED BY <4>2, <4>3, MaxIs
      <4>5. p \in S /\ p < m /\ p \in Int BY <4>1
      <4>6. \A j \in S : j <= p \/ m <= j BY <1>2, <4>4
      <4>7. rows[p][c] >= rows[m][c] BY <2>2, <3>3, <4>5, <4>6 DEF LargestFirst
      <4>8. rows[i][c] >= rows[p][c]
        <5>1. i <= p BY <4>1, <4>4
        <5>2. CASE i = p BY <1>3, <5>2
        <5>3. CASE i < p
          <6>1. p <= m - 1 BY <4>5
          <6>2. QED BY <1>5, <4>5, <5>3, <6>1
        <5>4. QED BY <3>1, <4>5, <5>1, <5>2, <5>3
      <4>9. rows[i][c] \in Int /\ rows[p][c] \in Int /\ rows[m][c] \in Int BY <1>3, <2>2, <3>3, <4>5
      <4>10. QED BY <3>3, <4>7, <4>8, <4>9
    <3>4. QED BY <2>2, <3>1, <3>2, <3>3
  <2>3. QED BY <2>1, <2>2
<1>6. \A m \in 0..n : m \in G
  <2>1. \A m \in 1..n : m - 1 \in G => m \in G BY <1>5
  <2> HIDE DEF G, n
  <2>2. QED BY ONLY <1>1, <1>4, <2>1, Throughout
<1>7. n \in G BY <1>1, <1>6
<1>8. QED BY <1>2, <1>7

LEMMA ChartIs ==
  ASSUME NEW kinds, NEW D, D = DOMAIN kinds, IsFiniteSet(D), D \subseteq Int, NEW rows \in Seq([D -> Int])
  PROVE  ChartIsHonest(rows, kinds)
<1> DEFINE measures == Are(kinds, Measures)
           c == Min(measures)
           chart == ChooseChart(rows, kinds, TRUE)
<1> SUFFICES ASSUME chart.type = "bar"
             PROVE  /\ chart.note = "none" => Len(rows) <= MaxBars
                    /\ chart.note = "top" => \A i \in WithCell(rows, c), k \in WithCell(rows, c) :
                                               i <= MaxBars /\ MaxBars < k => rows[i][c] >= rows[k][c]
  BY DEF ChartIsHonest
<1>1. measures # {} /\ chart = Chart("bar", BarNote(rows, c)) BY DEF ChooseChart, Chart
<1>2. measures \in SUBSET D BY DEF Are
<1>3. c \in D
  <2>1. IsFiniteSet(measures) /\ measures \subseteq Int BY <1>2, FS_Subset
  <2> HIDE DEF measures
  <2>2. Min(measures) \in measures BY <1>1, <2>1, MinIs
  <2>3. QED BY <1>2, <2>2
<1> HIDE DEF c, measures, chart
<1>4. chart.note = BarNote(rows, c) BY <1>1 DEF Chart
<1>5. chart.note = "none" => Len(rows) <= MaxBars BY <1>4 DEF BarNote
<1>6. ASSUME chart.note = "top"
      PROVE  \A i \in WithCell(rows, c), k \in WithCell(rows, c) : i <= MaxBars /\ MaxBars < k => rows[i][c] >= rows[k][c]
  <2>1. LargestFirst(rows, c) BY <1>4, <1>6 DEF BarNote
  <2>2. \A i, k \in WithCell(rows, c) : i < k => rows[i][c] >= rows[k][c] BY <1>3, <2>1, FallsThroughout
  <2>3. \A i \in WithCell(rows, c) : i \in Int BY DEF WithCell
  <2>4. QED BY <2>2, <2>3, BarsAssumption
<1>7. QED BY <1>5, <1>6

(* A rupee sign only on rupees, amounts in their order, charts that tell what *)
(* their table tells.                                                         *)
THEOREM ShownIsRight == Spec => []ShownHolds
<1>1. AnInput => ShownHolds
  <2>1. SUFFICES ASSUME AnInput PROVE ShownHolds OBVIOUS
  <2>2. ASSUME question = "expression" PROVE UnitIsRight(input)
    <3>1. Expression(input) BY <2>1, <2>2, ShownAssumption DEF AnInput
    <3>2. QED BY <3>1, UnitIs
  <2>3. ASSUME question = "amount" PROVE AmountsRead(input[1], input[2])
    <3>1. input \in Nat \X Nat BY <2>1, <2>3, ShownAssumption DEF AnInput
    <3>2. input[1] \in Nat /\ input[2] \in Nat BY <3>1
    <3>3. QED BY <3>2, AmountsAreRead
  <2>4. ASSUME question = "bars" PROVE ChartIsHonest(input.rows, input.kinds)
    <3>1. DOMAIN input.kinds \subseteq Int /\ IsFiniteSet(DOMAIN input.kinds) /\ input.rows \in Seq([DOMAIN input.kinds -> Int])
      BY <2>1, <2>4, ShownAssumption DEF AnInput
    <3>2. QED BY <3>1, ChartIs
  <2>5. QED BY <2>2, <2>3, <2>4 DEF ShownHolds
<1>2. QED BY <1>1, OnlyInputs, PTL

------------------------------------------------------------------------------
(* The overview.                                                              *)
(* Every section gets a turn.                                                  *)
Triple(x) == x[1] \in Int /\ x[2] \in Int /\ x[3] \in Int /\ x = <<x[1], x[2], x[3]>>

LEMMA SlotsAre ==
  ASSUME NEW plan, Plan(plan)
  PROVE  /\ IsFiniteSet(Slots(plan))
         /\ \A x \in Slots(plan) : Triple(x) /\ Candidate(At(plan, x))
<1>1. PICK S : plan \in Seq(S) /\ \A i \in DOMAIN plan : Section(plan[i]) BY DEF Plan
<1>2. PICK n : n = Len(plan) OBVIOUS
<1>3. n \in Nat /\ DOMAIN plan = 1..n BY <1>1, <1>2, InList
<1>4. \A s \in 1..n : /\ plan[s].depth \in Nat \ {0} /\ Len(plan[s].candidates) \in Nat
                     /\ DOMAIN plan[s].candidates = 1..Len(plan[s].candidates)
                     /\ \A r \in DOMAIN plan[s].candidates : Candidate(plan[s].candidates[r])
  <2>1. TAKE s \in 1..n
  <2>2. Section(plan[s]) BY <1>1, <1>3
  <2>3. PICK C : plan[s].candidates \in Seq(C) /\ \A i \in DOMAIN plan[s].candidates : Candidate(plan[s].candidates[i])
    BY <2>2 DEF Section
  <2>4. Len(plan[s].candidates) \in Nat /\ DOMAIN plan[s].candidates = 1..Len(plan[s].candidates) BY <2>3, InList
  <2>5. QED BY <2>2, <2>3, <2>4 DEF Section
<1>5. PICK F : F = [s \in 1..n |-> {<<(r - 1) \div plan[s].depth, s, r>> : r \in DOMAIN plan[s].candidates}] OBVIOUS
<1>6. Slots(plan) = UNION {F[s] : s \in 1..n} BY <1>3, <1>5 DEF Slots
<1>7. \A s \in 1..n : IsFiniteSet(F[s])
  <2>1. TAKE s \in 1..n
  <2>2. PICK f : f = [r \in DOMAIN plan[s].candidates |-> <<(r - 1) \div plan[s].depth, s, r>>] OBVIOUS
  <2>3. PICK D : D = DOMAIN plan[s].candidates OBVIOUS
  <2>4. IsFiniteSet(D) BY <1>4, <2>3, FS_Interval
  <2>5. IsFiniteSet({f[r] : r \in D}) BY <2>4, Images
  <2>6. F[s] = {f[r] : r \in D} BY <1>5, <2>2, <2>3
  <2>7. QED BY <2>5, <2>6
<1>8. IsFiniteSet({F[s] : s \in 1..n})
  <2>1. IsFiniteSet(1..n) BY <1>3, FS_Interval
  <2>2. QED BY <2>1, Images
<1>9. IsFiniteSet(UNION {F[s] : s \in 1..n})
  <2>1. \A T \in {F[s] : s \in 1..n} : IsFiniteSet(T) BY <1>7
  <2>2. QED BY <1>8, <2>1, FS_UNION
<1>10. ASSUME NEW x \in Slots(plan) PROVE Triple(x) /\ Candidate(At(plan, x))
  <2>1. PICK s \in 1..n : x \in F[s] BY <1>6
  <2>2. PICK r \in DOMAIN plan[s].candidates : x = <<(r - 1) \div plan[s].depth, s, r>> BY <1>5, <2>1
  <2>3. PICK d : d = plan[s].depth OBVIOUS
  <2>4. r \in 1..Len(plan[s].candidates) /\ d \in Nat /\ d > 0 BY <1>4, <2>2, <2>3
  <2>5. (r - 1) \div d \in Int BY <1>4, <2>4
  <2>6. x[1] = (r - 1) \div d /\ x[2] = s /\ x[3] = r BY <2>2, <2>3
  <2>7. Triple(x) BY <1>3, <1>4, <2>2, <2>3, <2>4, <2>5, <2>6 DEF Triple
  <2>8. Candidate(At(plan, x)) BY <1>4, <2>2, <2>6 DEF At
  <2>9. QED BY <2>7, <2>8
<1>11. QED BY <1>6, <1>9, <1>10

LEMMA EarlierIs ==
  ASSUME NEW x, NEW y, Triple(x), Triple(y)
  PROVE  /\ Earlier(x, y) <=> \/ x[1] < y[1]
                              \/ x[1] = y[1] /\ x[2] < y[2]
                              \/ x[1] = y[1] /\ x[2] = y[2] /\ x[3] < y[3]
         /\ x[1] = y[1] /\ x[2] = y[2] /\ x[3] = y[3] => x = y
<1>1. \A i \in 1..3 : i = 1 \/ i = 2 \/ i = 3 OBVIOUS
<1>2. ASSUME Earlier(x, y)
      PROVE  \/ x[1] < y[1]
             \/ x[1] = y[1] /\ x[2] < y[2]
             \/ x[1] = y[1] /\ x[2] = y[2] /\ x[3] < y[3]
  <2>1. PICK i \in 1..3 : x[i] < y[i] /\ \A j \in 1..(i - 1) : x[j] = y[j] BY <1>2 DEF Earlier
  <2>2. CASE i = 1 BY <2>1, <2>2
  <2>3. CASE i = 2
    <3>1. 1 \in 1..(2 - 1) OBVIOUS
    <3>2. QED BY <2>1, <2>3, <3>1
  <2>4. CASE i = 3
    <3>1. 1 \in 1..(3 - 1) /\ 2 \in 1..(3 - 1) OBVIOUS
    <3>2. QED BY <2>1, <2>4, <3>1
  <2>5. QED BY <1>1, <2>2, <2>3, <2>4
<1>3. ASSUME x[1] < y[1] PROVE Earlier(x, y)
  <2>1. 1 \in 1..3 /\ \A j \in 1..(1 - 1) : x[j] = y[j] OBVIOUS
  <2>2. QED BY <1>3, <2>1 DEF Earlier
<1>4. ASSUME x[1] = y[1], x[2] < y[2] PROVE Earlier(x, y)
  <2>1. 2 \in 1..3 /\ \A j \in 1..(2 - 1) : j = 1 OBVIOUS
  <2>2. \A j \in 1..(2 - 1) : x[j] = y[j] BY <1>4, <2>1
  <2>3. QED BY <1>4, <2>1, <2>2 DEF Earlier
<1>5. ASSUME x[1] = y[1], x[2] = y[2], x[3] < y[3] PROVE Earlier(x, y)
  <2>1. 3 \in 1..3 /\ \A j \in 1..(3 - 1) : j = 1 \/ j = 2 OBVIOUS
  <2>2. \A j \in 1..(3 - 1) : x[j] = y[j] BY <1>5, <2>1
  <2>3. QED BY <1>5, <2>1, <2>2 DEF Earlier
<1>6. x[1] = y[1] /\ x[2] = y[2] /\ x[3] = y[3] => x = y BY DEF Triple
<1>7. QED BY <1>2, <1>3, <1>4, <1>5, <1>6

LEMMA UsefulnessIs ==
  ASSUME NEW tile, Tile(tile), ReadableGroups \in Int
  PROVE  Usefulness(tile) \in Int
<1> DEFINE groups == Len(tile.rows)
           present == {tile.rows[i].value : i \in 1..groups} \ {Unset}
           filled == Cardinality({i \in 1..groups : tile.rows[i].value # Unset})
           spread == IF Max(present) > 0 THEN <<Max(present) - Min(present), Max(present)>>
                     ELSE IF Max(present) # Min(present) THEN <<1, 1>> ELSE <<0, 1>>
<1>1. groups \in Nat /\ IsFiniteSet(present) /\ present \subseteq Int
  <2>1. tile.rows \in Seq([label : STRING, value : Int]) BY DEF Tile
  <2>2. groups \in Nat /\ \A i \in 1..groups : tile.rows[i] \in [label : STRING, value : Int] BY <2>1, InList
  <2>3. \A i \in 1..groups : tile.rows[i].value \in Int BY <2>2
  <2>4. PICK f : f = [i \in 1..groups |-> tile.rows[i].value] OBVIOUS
  <2>5. PICK D : D = 1..groups OBVIOUS
  <2>6. IsFiniteSet(D) BY <2>2, <2>5, FS_Interval
  <2>7. IsFiniteSet({f[i] : i \in D}) BY <2>6, Images
  <2>8. present \subseteq {f[i] : i \in D} BY <2>4, <2>5
  <2>9. IsFiniteSet(present)
    <3> HIDE DEF present
    <3>1. QED BY <2>7, <2>8, FS_Subset
  <2>10. QED BY <2>2, <2>3, <2>9
<1>2. filled \in Nat
  <2>1. {i \in 1..groups : tile.rows[i].value # Unset} \subseteq 1..groups OBVIOUS
  <2>2. filled \in 0..groups BY <1>1, <2>1, Positions
  <2>3. QED BY <1>1, <2>2
<1>3. Usefulness(tile) = IF present = {} THEN 0
                         ELSE IF groups = 1 THEN (IF tile.kind \in PerGroup THEN 0 ELSE 70)
                         ELSE (Fit(groups) * (4 * spread[2] + 6 * spread[1]) * filled) \div (spread[2] * groups)
  BY DEF Usefulness
<1> HIDE DEF filled
<1>4. CASE present = {} BY <1>3, <1>4
<1>5. CASE present # {} /\ groups = 1 BY <1>3, <1>5
<1>6. CASE present # {} /\ groups # 1
  <2>1. PICK hi, lo : hi = Max(present) /\ lo = Min(present) OBVIOUS
  <2>2. hi \in Int /\ lo \in Int BY <1>1, <1>6, <2>1, MaxIs, MinIs
  <2>3. PICK a, b : a = spread[1] /\ b = spread[2] OBVIOUS
  <2>4. a \in Int /\ b \in Int /\ b > 0 BY <2>1, <2>2, <2>3
  <2>5. groups > 0
    <3>1. \E i \in 1..groups : TRUE BY <1>6
    <3>2. QED BY <1>1, <3>1
  <2>6. PICK f : f = Fit(groups) OBVIOUS
  <2>7. f \in Int BY <2>6 DEF Fit
  <2>8. PICK g : g = groups OBVIOUS
  <2>9. g \in Int /\ g > 0 /\ filled \in Int BY <1>1, <1>2, <2>5, <2>8
  <2>10. b * g \in Int /\ b * g > 0 BY <2>4, <2>9
  <2>11. f * (4 * b + 6 * a) * filled \in Int BY <2>4, <2>7, <2>9
  <2>12. (f * (4 * b + 6 * a) * filled) \div (b * g) \in Int BY <2>10, <2>11
  <2> HIDE DEF spread
  <2>13. Usefulness(tile) = (f * (4 * b + 6 * a) * filled) \div (b * g) BY <1>3, <1>6, <2>3, <2>6, <2>8
  <2>14. QED BY <2>12, <2>13
<1>7. QED BY <1>4, <1>5, <1>6

(* The order the tiles are taken in is total, and keeps the waves apart.       *)
LEMMA AheadIs ==
  ASSUME NEW plan, Plan(plan), ReadableGroups \in Int, NEW x \in Slots(plan), NEW y \in Slots(plan), NEW z \in Slots(plan)
  PROVE  /\ x = y \/ Ahead(plan, x, y) \/ Ahead(plan, y, x)
         /\ Ahead(plan, x, y) /\ Ahead(plan, y, z) => Ahead(plan, x, z)
         /\ Ahead(plan, x, y) => x[1] <= y[1]
<1>1. Triple(x) /\ Triple(y) /\ Triple(z) BY SlotsAre
<1>2. PICK u : u = [s \in Slots(plan) |-> Usefulness(At(plan, s).tile)] OBVIOUS
<1>3. \A s \in Slots(plan) : u[s] = Usefulness(At(plan, s).tile) /\ u[s] \in Int BY <1>2, SlotsAre, UsefulnessIs DEF Candidate
<1> DEFINE Lex(p, q) == \/ p[1] < q[1]
                        \/ p[1] = q[1] /\ p[2] < q[2]
                        \/ p[1] = q[1] /\ p[2] = q[2] /\ p[3] < q[3]
           Goes(p, q) == IF p[1] = q[1] /\ p[2] = q[2] THEN u[p] > u[q] \/ (u[p] = u[q] /\ Lex(p, q)) ELSE Lex(p, q)
<1>4. \A p, q \in Slots(plan) : Ahead(plan, p, q) <=> Goes(p, q)
  <2>1. TAKE p, q \in Slots(plan)
  <2>2. Earlier(p, q) <=> Lex(p, q) BY SlotsAre, EarlierIs
  <2>3. <<p[1], p[2]>> = <<q[1], q[2]>> <=> p[1] = q[1] /\ p[2] = q[2] OBVIOUS
  <2> HIDE DEF Lex
  <2>4. QED BY <1>3, <2>2, <2>3 DEF Ahead, BestFirst
<1>5. u[x] \in Int /\ u[y] \in Int /\ u[z] \in Int BY <1>3
<1>6. x[1] = y[1] /\ x[2] = y[2] /\ x[3] = y[3] => x = y BY <1>1, EarlierIs
<1>7. PICK x1, x2, x3, y1, y2, y3, z1, z2, z3, a, b, c :
         /\ x1 = x[1] /\ x2 = x[2] /\ x3 = x[3] /\ y1 = y[1] /\ y2 = y[2] /\ y3 = y[3]
         /\ z1 = z[1] /\ z2 = z[2] /\ z3 = z[3] /\ a = u[x] /\ b = u[y] /\ c = u[z] OBVIOUS
<1>8. /\ x1 \in Int /\ x2 \in Int /\ x3 \in Int /\ y1 \in Int /\ y2 \in Int /\ y3 \in Int
      /\ z1 \in Int /\ z2 \in Int /\ z3 \in Int /\ a \in Int /\ b \in Int /\ c \in Int
  BY <1>1, <1>5, <1>7 DEF Triple
<1>9. /\ (x1 = y1 /\ x2 = y2 /\ x3 = y3) \/ Goes(x, y) \/ Goes(y, x)
      /\ Goes(x, y) => x1 <= y1
      /\ Goes(x, y) /\ Goes(y, z) => Goes(x, z)
  BY <1>7, <1>8
<1> HIDE DEF Goes
<1>10. QED BY <1>4, <1>6, <1>7, <1>9

LEMMA ForemostIs ==
  ASSUME NEW plan, Plan(plan), ReadableGroups \in Int, NEW S, S \subseteq Slots(plan), S # {}
  PROVE  Foremost(plan, S) \in S /\ \A y \in S : Foremost(plan, S)[1] <= y[1]
<1> DEFINE R == {p \in S \X S : p[1] = p[2] \/ Ahead(plan, p[1], p[2])}
<1>1. IsFiniteSet(S) BY SlotsAre, FS_Subset
<1>2. \A x, y \in S : <<x, y>> \in R <=> x = y \/ Ahead(plan, x, y) OBVIOUS
<1>3. Comparable(S, R)
  <2>1. \A x, y \in S : <<x, y>> \in R \/ <<y, x>> \in R BY <1>2, AheadIs
  <2>2. \A x, y, z \in S : <<x, y>> \in R /\ <<y, z>> \in R => <<x, z>> \in R
    <3>1. TAKE x, y, z \in S
    <3>2. Ahead(plan, x, y) /\ Ahead(plan, y, z) => Ahead(plan, x, z) BY AheadIs
    <3>3. QED BY <1>2, <3>2
  <2> HIDE DEF R
  <2>3. QED BY ONLY <2>1, <2>2 DEF Comparable
<1> HIDE DEF R
<1>4. \E m \in S : \A x \in S : <<m, x>> \in R BY <1>1, <1>3, Best
<1>5. \E m \in S : \A x \in S \ {m} : Ahead(plan, m, x) BY <1>2, <1>4
<1>6. PICK m : m = Foremost(plan, S) OBVIOUS
<1>7. m \in S /\ \A x \in S \ {m} : Ahead(plan, m, x) BY <1>5, <1>6 DEF Foremost
<1>8. \A y \in S : m[1] <= y[1]
  <2>1. TAKE y \in S
  <2>2. CASE y = m
    <3>1. m[1] \in Int BY <1>7, SlotsAre DEF Triple
    <3>2. QED BY <2>2, <3>1
  <2>3. CASE y # m BY <1>7, <2>3, AheadIs
  <2>4. QED BY <2>2, <2>3
<1>9. QED BY <1>6, <1>7, <1>8

LEMMA WavesAreTried ==
  ASSUME NEW plan, Plan(plan), QueryBudget \in Int
  PROVE  \A x \in Tried(plan), y \in Slots(plan) : y[1] < x[1] => y \in Tried(plan)
<1> DEFINE S == Slots(plan)
           w == [s \in S |-> At(plan, s).takes]
           Before(x) == {s \in S : Earlier(s, x)}
<1>1. IsFiniteSet(S) /\ w \in [S -> Int] /\ \A s \in S : w[s] >= 0 BY SlotsAre DEF Candidate
<1>2. \A x \in S : SpentBefore(plan, x) = Sum(w, Before(x)) BY SumIsSum DEF SpentBefore
<1>3. \A x, y \in S : y[1] < x[1] => Before(y) \subseteq Before(x)
  <2>1. TAKE x, y \in S
  <2>2. Triple(x) /\ Triple(y) BY SlotsAre
  <2>3. SUFFICES ASSUME y[1] < x[1], NEW s \in S, Earlier(s, y) PROVE Earlier(s, x) OBVIOUS
  <2>4. Triple(s) BY SlotsAre
  <2>5. s[1] <= y[1] BY <2>2, <2>3, <2>4, EarlierIs DEF Triple
  <2>6. s[1] < x[1] BY <2>2, <2>3, <2>4, <2>5 DEF Triple
  <2>7. QED BY <2>2, <2>4, <2>6, EarlierIs
<1> HIDE DEF S, w
<1>4. ASSUME NEW x \in Tried(plan), NEW y \in Slots(plan), y[1] < x[1] PROVE y \in Tried(plan)
  <2>1. x \in S /\ SpentBefore(plan, x) < QueryBudget /\ y \in S BY <1>4 DEF Tried, S
  <2>2. PICK P, Q : P = Before(x) /\ Q = Before(y) OBVIOUS
  <2>3. Q \in SUBSET P /\ P \in SUBSET S BY <1>3, <1>4, <2>1, <2>2
  <2>4. Sum(w, Q) <= Sum(w, P) /\ Sum(w, Q) \in Int /\ Sum(w, P) \in Int BY ONLY <1>1, <2>3, SumOfParts
  <2>5. SpentBefore(plan, y) < QueryBudget BY <1>2, <2>1, <2>2, <2>4
  <2>6. QED BY <2>1, <2>5 DEF Tried, S
<1>5. QED BY <1>4

(* What is kept, one tile after the other.                                     *)
Worth(plan, kept) == {x \in Worthwhile(plan) \ kept : ~Repeats(plan, kept, x)}
KeptWell(plan, n, kept) ==
  /\ kept \subseteq Slots(plan)
  /\ IsFiniteSet(kept) /\ Cardinality(kept) <= n
  /\ \A x, y \in kept : Alike(plan, x, y) => x = y
  /\ Worth(plan, kept) # {} =>
       /\ Cardinality(kept) = n
       /\ \A x \in Worth(plan, kept) : \A k \in kept : k[1] <= x[1]

LEMMA OneMoreTile ==
  ASSUME NEW plan, Plan(plan), ReadableGroups \in Int, NEW n \in Nat \ {0}, NEW kept,
         KeptWell(plan, n - 1, kept)
  PROVE  LET left == Worth(plan, kept)
         IN KeptWell(plan, n, IF left = {} THEN kept ELSE kept \cup {Foremost(plan, left)})
<1>1. PICK left : left = Worth(plan, kept) OBVIOUS
<1>2. Worthwhile(plan) \subseteq Slots(plan) BY DEF Worthwhile, Tried
<1>3. /\ kept \subseteq Slots(plan) /\ IsFiniteSet(kept) /\ Cardinality(kept) <= n - 1 /\ Cardinality(kept) \in Nat
      /\ \A x, y \in kept : Alike(plan, x, y) => x = y
  BY FS_CardinalityType DEF KeptWell
<1>4. CASE left = {}
  <2>1. KeptWell(plan, n, kept) BY <1>1, <1>3, <1>4 DEF KeptWell
  <2>2. QED BY <1>1, <1>4, <2>1
<1>5. CASE left # {}
  <2>1. PICK f : f = Foremost(plan, left) OBVIOUS
  <2>2. left \subseteq Slots(plan) BY <1>1, <1>2 DEF Worth
  <2>3. f \in left /\ \A y \in left : f[1] <= y[1] BY <1>5, <2>1, <2>2, ForemostIs
  <2>4. f \notin kept /\ f \in Slots(plan) /\ ~Repeats(plan, kept, f) BY <1>1, <2>2, <2>3 DEF Worth
  <2>5. PICK more : more = kept \cup {f} OBVIOUS
  <2>6. IsFiniteSet(more) /\ Cardinality(more) = Cardinality(kept) + 1 /\ more \subseteq Slots(plan)
    BY <1>3, <2>4, <2>5, FS_AddElement
  <2>7. Cardinality(kept) = n - 1 /\ \A x \in left : \A k \in kept : k[1] <= x[1] BY <1>1, <1>5 DEF KeptWell
  <2>8. \A k \in kept : ~Alike(plan, k, f) /\ ~Alike(plan, f, k) BY <2>4 DEF Repeats, Alike
  <2>9. \A x, y \in more : Alike(plan, x, y) => x = y
    <3>1. TAKE x, y \in more
    <3>2. SUFFICES ASSUME Alike(plan, x, y), x # y PROVE FALSE OBVIOUS
    <3>3. CASE x \in kept /\ y \in kept BY <1>3, <3>2, <3>3
    <3>4. CASE x \in kept /\ y = f BY <2>8, <3>2, <3>4
    <3>5. CASE x = f /\ y \in kept BY <2>8, <3>2, <3>5
    <3>6. QED BY <2>5, <3>2, <3>3, <3>4, <3>5
  <2>10. Worth(plan, more) \subseteq left BY <1>1, <2>5 DEF Worth, Repeats
  <2>11. \A x \in Worth(plan, more) : \A k \in more : k[1] <= x[1] BY <2>3, <2>5, <2>7, <2>10
  <2>12. Cardinality(more) = n BY <2>6, <2>7
  <2>13. KeptWell(plan, n, more) BY <2>6, <2>9, <2>11, <2>12 DEF KeptWell
  <2>14. QED BY <1>1, <1>5, <2>1, <2>5, <2>13
<1>6. QED BY <1>4, <1>5

LEMMA TilesAreKept ==
  ASSUME NEW plan, Plan(plan), ReadableGroups \in Int, NEW budget \in Nat
  PROVE  KeptWell(plan, budget, KeepTiles(plan, budget))
<1> DEFINE A == SUBSET Slots(plan)
           Next1(kept) == IF Worth(plan, kept) = {} THEN kept ELSE kept \cup {Foremost(plan, Worth(plan, kept))}
           Recurs(g) == g = [n \in 0..budget |-> IF n = 0 THEN {} ELSE Next1(g[n - 1])]
           F == [n \in 1..budget |-> [kept \in A |-> Next1(kept)]]
<1>1. KeepTiles(plan, budget) = (CHOOSE g : Recurs(g))[budget] BY DEF KeepTiles, Worth
<1>2. \A kept \in A : Next1(kept) \in A
  <2>1. TAKE kept \in A
  <2>2. Worth(plan, kept) \subseteq Slots(plan) BY DEF Worth, Worthwhile, Tried
  <2>3. CASE Worth(plan, kept) = {} BY <2>3
  <2>4. CASE Worth(plan, kept) # {}
    <3>1. Foremost(plan, Worth(plan, kept)) \in Worth(plan, kept) BY <2>2, <2>4, ForemostIs
    <3>2. QED BY <2>2, <2>4, <3>1
  <2>5. QED BY <2>3, <2>4
<1> HIDE DEF Next1
<1>3. F \in [1..budget -> [A -> A]] /\ \A n \in 1..budget : \A kept \in A : F[n][kept] = Next1(kept) BY <1>2
<1>4. {} \in A OBVIOUS
<1> HIDE DEF F, A
<1>5. PICK g : Follows(g, A, {}, budget, F) BY <1>3, <1>4, Recursion
<1>6. g[0] = {} /\ g \in [0..budget -> A] /\ \A n \in 1..budget : g[n] = Next1(g[n - 1])
  <2>1. \A n \in 1..budget : n - 1 \in 0..budget OBVIOUS
  <2>2. QED BY <1>3, <1>5, <2>1 DEF Follows
<1>7. Recurs(g)
  <2>1. \A n \in 0..budget : n # 0 => n \in 1..budget OBVIOUS
  <2>2. \A n \in 0..budget : g[n] = IF n = 0 THEN {} ELSE Next1(g[n - 1]) BY <1>6, <2>1
  <2>3. g = [n \in 0..budget |-> g[n]] BY <1>6
  <2>4. QED BY <2>2, <2>3
<1>8. PICK h : Recurs(h) /\ KeepTiles(plan, budget) = h[budget] BY <1>1, <1>7
<1>9. h[0] = {} /\ \A n \in 1..budget : h[n] = Next1(h[n - 1])
  <2>1. h = [n \in 0..budget |-> IF n = 0 THEN {} ELSE Next1(h[n - 1])] BY <1>8
  <2>2. \A n \in 0..budget : h[n] = IF n = 0 THEN {} ELSE Next1(h[n - 1]) BY <2>1
  <2>3. 0 \in 0..budget /\ \A n \in 1..budget : n \in 0..budget /\ n # 0 OBVIOUS
  <2>4. QED BY <2>2, <2>3
<1> DEFINE G == {n \in 0..budget : KeptWell(plan, n, h[n])}
<1>10. 0 \in G
  <2>1. IsFiniteSet({}) /\ Cardinality({}) = 0 BY FS_EmptySet
  <2>2. KeptWell(plan, 0, {}) BY <2>1 DEF KeptWell
  <2>3. QED BY <1>9, <2>2
<1>11. ASSUME NEW n \in 1..budget, n - 1 \in G PROVE n \in G
  <2>1. KeptWell(plan, n - 1, h[n - 1]) BY <1>11
  <2>2. KeptWell(plan, n, Next1(h[n - 1])) BY <2>1, OneMoreTile DEF Next1
  <2>3. QED BY <1>9, <2>2
<1>12. \A n \in 0..budget : n \in G
  <2> HIDE DEF G
  <2>1. QED BY <1>10, <1>11, Throughout
<1>13. QED BY <1>8, <1>12

LEMMA TurnsAreTaken ==
  ASSUME NEW plan, Plan(plan), ReadableGroups \in Int, QueryBudget \in Int, NEW budget \in Nat
  PROVE  EverySectionGetsATurn(plan, budget)
<1>1. PICK kept : kept = KeepTiles(plan, budget) OBVIOUS
<1>2. KeptWell(plan, budget, kept) BY <1>1, TilesAreKept
<1>3. \A x \in Tried(plan), y \in Slots(plan) : y[1] < x[1] => y \in Tried(plan) BY WavesAreTried
<1>4. \A x \in Worthwhile(plan) \ kept :
        \/ \E k \in kept : Alike(plan, k, x)
        \/ Cardinality(kept) = budget /\ \A k \in kept : k[1] <= x[1]
  <2>1. TAKE x \in Worthwhile(plan) \ kept
  <2>2. CASE Repeats(plan, kept, x) BY <2>2 DEF Repeats
  <2>3. CASE ~Repeats(plan, kept, x)
    <3>1. x \in Worth(plan, kept) BY <2>3 DEF Worth
    <3>2. QED BY <1>2, <3>1 DEF KeptWell
  <2>4. QED BY <2>2, <2>3
<1>5. QED BY <1>1, <1>2, <1>3, <1>4 DEF EverySectionGetsATurn, KeptWell

------------------------------------------------------------------------------
(* No file disappears.                                                        *)
LEMMA FilesAreRead ==
  ASSUME NEW T, NEW tables \in Seq(T), NEW stacked
  PROVE  NoFileDisappears(tables, stacked)
<1> DEFINE names == Usable(tables, stacked)
           homes == Homes(tables, names)
           covered == (UNION {ReadBy(tables, homes, topic) : topic \in Topics}) \cup (names \ Used(tables, homes))
<1> SUFFICES ASSUME NEW t \in names \ covered
             PROVE  t = homes.pay /\ "gross" \notin tables[t].accepted /\ "ctc" \in tables[homes.people].accepted
  BY DEF NoFileDisappears
<1>1. Topics = {"people", "pay", "attendance", "performance"} BY DEF Topics, Required
<1>2. PICK topic \in Topics : Built(tables, homes, topic) /\ t = homes[topic] BY DEF Used
<1>3. \A other \in Topics : t \notin ReadBy(tables, homes, other) OBVIOUS
<1>4. homes = [other \in Topics |-> Home(tables, names, other)] BY DEF Homes
<1>5. PICK hm : hm = homes OBVIOUS
<1>6. /\ hm[topic] # Nobody /\ ReadBy(tables, hm, topic) # {} /\ t = hm[topic]
      /\ t \notin ReadBy(tables, hm, topic)
  BY <1>2, <1>3, <1>5 DEF Built
<1> HIDE DEF homes, covered, names
<1>7. CASE topic = "people" BY <1>6, <1>7 DEF ReadBy
<1>8. CASE topic = "attendance" BY <1>6, <1>8 DEF ReadBy
<1>9. CASE topic = "performance" BY <1>6, <1>9 DEF ReadBy
<1>10. CASE topic = "pay"
  <2>1. ReadBy(tables, hm, "pay") = (IF "gross" \in Refs(tables, hm["pay"], Wanted["pay"]) THEN {hm.pay} ELSE {})
                                    \cup (IF Refs(tables, hm.people, {"ctc"}) # {} THEN {hm.people} ELSE {})
    BY DEF ReadBy
  <2>2. "gross" \notin Refs(tables, hm["pay"], Wanted["pay"]) BY <1>6, <1>10, <2>1
  <2>3. Refs(tables, hm.people, {"ctc"}) # {} BY <1>6, <1>10, <2>1, <2>2
  <2>4. Wanted["pay"] = {"pay_month", "gross"} BY DEF Wanted
  <2>5. "gross" \notin tables[t].accepted BY <1>6, <1>10, <2>2, <2>4 DEF Refs
  <2>6. "ctc" \in tables[hm.people].accepted BY <2>3 DEF Refs
  <2>7. QED BY <1>5, <1>6, <1>10, <2>5, <2>6
<1>11. QED BY <1>1, <1>7, <1>8, <1>9, <1>10

------------------------------------------------------------------------------
(* The books balance.                                                         *)
LEMMA TwoParts ==
  ASSUME NEW S, IsFiniteSet(S), NEW A, NEW B, A \cup B = S, A \cap B = {}
  PROVE  /\ Cardinality(S) = Cardinality(A) + Cardinality(B)
         /\ Cardinality(A) \in Nat /\ Cardinality(B) \in Nat /\ Cardinality(S) \in Nat
<1>1. IsFiniteSet(A) /\ IsFiniteSet(B) BY FS_Subset
<1>2. Cardinality(A \cup B) = Cardinality(A) + Cardinality(B) - Cardinality(A \cap B) BY <1>1, FS_Union
<1>3. Cardinality(A \cap B) = 0 BY FS_EmptySet
<1>4. Cardinality(A) \in Nat /\ Cardinality(B) \in Nat /\ Cardinality(S) \in Nat BY <1>1, FS_CardinalityType
<1>5. PICK a, b : a = Cardinality(A) /\ b = Cardinality(B) OBVIOUS
<1>6. a \in Nat /\ b \in Nat /\ Cardinality(S) = a + b - 0 BY <1>2, <1>3, <1>4, <1>5
<1>7. Cardinality(S) = a + b BY <1>6
<1>8. QED BY <1>4, <1>5, <1>7

Sizes(A, f, groups) == [g \in groups |-> Cardinality({i \in A : f[i] = g})]
InAny(A, f, groups) == {i \in A : f[i] \in groups}

LEMMA GroupsAddUp ==
  ASSUME NEW n \in Nat, NEW A, A \subseteq 1..n, NEW f, NEW groups, IsFiniteSet(groups)
  PROVE  SumFunctionOnSet(Sizes(A, f, groups), groups) = Cardinality(InAny(A, f, groups))
<1>0. PICK w : w = [g \in groups |-> Cardinality({i \in A : f[i] = g})] OBVIOUS
<1> DEFINE G == {T \in SUBSET groups : Sum(w, T) = Cardinality({i \in A : f[i] \in T})}
<1>1. IsFiniteSet(A) BY Positions
<1>2. w \in [groups -> Int]
  <2>1. \A g \in groups : Cardinality({i \in A : f[i] = g}) \in Int
    <3>1. TAKE g \in groups
    <3>2. IsFiniteSet({i \in A : f[i] = g}) BY <1>1, FS_Subset
    <3>3. QED BY <3>2, FS_CardinalityType
  <2>2. QED BY <1>0, <2>1
<1>3. {} \in G
  <2>1. {i \in A : f[i] \in {}} = {} OBVIOUS
  <2>2. Sum(w, {}) = 0 BY <1>2, SumFacts
  <2>3. QED BY <2>1, <2>2, FS_EmptySet
<1>4. ASSUME NEW T \in SUBSET groups, NEW x \in T, T \ {x} \in G PROVE T \in G
  <2>1. PICK P : P = {i \in A : f[i] \in T} OBVIOUS
  <2>2. PICK Q : Q = {i \in A : f[i] \in T \ {x}} OBVIOUS
  <2>3. PICK X : X = {i \in A : f[i] = x} OBVIOUS
  <2>4. IsFiniteSet(P) /\ Q \cup X = P /\ Q \cap X = {} BY <1>1, <2>1, <2>2, <2>3, FS_Subset
  <2>5. Cardinality(P) = Cardinality(Q) + Cardinality(X) /\ Cardinality(Q) \in Nat /\ Cardinality(X) \in Nat
    BY <2>4, TwoParts
  <2>6. w[x] = Cardinality(X) BY <1>0, <2>3
  <2>7. Sum(w, T \ {x}) = Cardinality(Q) BY <1>4, <2>2
  <2>8. Sum(w, T) = w[x] + Sum(w, T \ {x}) BY ONLY <1>2, IsFiniteSet(groups), T \in SUBSET groups, x \in T, SumStep
  <2>9. Sum(w, T) = Cardinality(P) BY <2>5, <2>6, <2>7, <2>8
  <2>10. QED BY <2>1, <2>9
<1>5. \A T \in SUBSET groups : T \in G
  <2> HIDE DEF G
  <2>1. QED BY <1>3, <1>4, SetGrows
<1>6. Sum(w, groups) = Cardinality({i \in A : f[i] \in groups})
  <2>1. groups \in G BY <1>5
  <2>2. QED BY <2>1
<1>7. QED BY <1>0, <1>6, SumIsSum DEF Sizes, InAny

LEMMA BooksAreRight ==
  ASSUME NEW people \in Seq([joined : Days, left : Days, group : STRING]), people # <<>>, NEW today \in Nat,
         NEW groups, IsFiniteSet(groups), "none" \notin groups,
         \A p \in ToSet(people) : p.group \in groups \cup {"none"}
  PROVE  BooksBalance(people, today, groups)
<1> DEFINE n == Len(people)
           D == 1..n
           year == ReportingYear(people)
           first == FirstDay(year)
           final == FinalDay(year)
<1> SUFFICES ASSUME \A p \in ToSet(people) : p.joined # Unset /\ (p.left = Unset \/ p.joined <= p.left)
             PROVE  /\ Opening(people, first) + JoinedIn(people, year) - LeftIn(people, year) = Closing(people, final)
                    /\ Closing(people, final) = Opening(people, FirstDay(year + 1))
                    /\ Exits(people, first, final) = LeftIn(people, year)
                    /\ \E p \in ToSet(people) : {p.joined, p.left} \cap ((final - 1)..(final + 12)) # {}
                    /\ ActiveHeadcount(people, today) =
                         SumFunctionOnSet([g \in groups |-> InGroup(people, today, g)], groups)
                         + Headcount(people, LAMBDA p : StillHere(p, today) /\ p.group = "none")
                    /\ ActiveHeadcount(people, today) = TenureBands(people, today)[1] + TenureBands(people, today)[2]
  BY DEF BooksBalance
<1>1. n \in Nat /\ DOMAIN people = D /\ \A i \in D : people[i] \in ToSet(people) /\ people[i] \in [joined : Days, left : Days, group : STRING]
  BY InList
<1>2. 0 < n /\ 1 \in D BY <1>1, EmptySeq
<1>3. \A i \in D : /\ people[i].joined \in Nat /\ people[i].left \in Days
                   /\ (people[i].left = Unset \/ people[i].joined <= people[i].left)
                   /\ people[i].group \in groups \cup {"none"}
  BY <1>1 DEF Days, Unset
<1>4. PICK last : last = LastDay(people) OBVIOUS
<1>5. last \in Nat /\ \E p \in ToSet(people) : last \in {p.joined, p.left}
  <2>1. PICK S : S = ToSet(people) OBVIOUS
  <2>2. IsFiniteSet(S) BY <2>1, InList
  <2>3. PICK f : f = [p \in S |-> {p.joined, p.left}] OBVIOUS
  <2>4. PICK U : U = UNION {f[p] : p \in S} OBVIOUS
  <2>5. IsFiniteSet(U)
    <3>1. IsFiniteSet({f[p] : p \in S}) BY <2>2, Images
    <3>2. \A p \in S : IsFiniteSet(f[p])
      <4>1. TAKE p \in S
      <4>2. IsFiniteSet({p.joined}) /\ IsFiniteSet({p.joined} \cup {p.left}) BY FS_Singleton, FS_AddElement
      <4>3. f[p] = {p.joined} \cup {p.left} BY <2>3
      <4>4. QED BY <4>2, <4>3
    <3>3. \A s \in {f[p] : p \in S} : IsFiniteSet(s) BY <3>2
    <3>4. QED BY <2>4, <3>1, <3>3, FS_UNION
  <2>6. U \subseteq Int /\ people[1].joined \in U
    <3>1. \A p \in S : p.joined \in Int /\ p.left \in Int
      <4>1. TAKE p \in S
      <4>2. PICK i \in D : people[i] = p BY <2>1, InList
      <4>3. QED BY <1>3, <4>2 DEF Days, Unset
    <3>2. people[1] \in S BY <1>1, <1>2, <2>1
    <3>3. QED BY <2>3, <2>4, <3>1, <3>2
  <2>7. last = Max(U) BY <1>4, <2>1, <2>3, <2>4 DEF LastDay
  <2>8. Max(U) \in U /\ \A x \in U : x <= Max(U) BY <2>5, <2>6, MaxIs
  <2>9. people[1].joined <= last /\ people[1].joined \in Nat /\ last \in Int BY <1>2, <1>3, <2>6, <2>7, <2>8
  <2>10. last \in U BY <2>7, <2>8
  <2>11. PICK p \in S : last \in f[p] BY <2>4, <2>10
  <2>12. last \in {p.joined, p.left} BY <2>3, <2>11
  <2>13. QED BY <2>1, <2>9, <2>11, <2>12
<1>6. PICK y : y = year OBVIOUS
<1>7. y \in Int /\ (last % 4 >= 2 => y = last \div 4) /\ (~(last % 4 >= 2) => y = last \div 4 - 1)
  BY <1>4, <1>5, <1>6 DEF ReportingYear, InDecember, YearOf
<1>8. first = 4 * y /\ final = 4 * y + 3 /\ FirstDay(year + 1) = 4 * y + 4 BY <1>6, <1>7 DEF FirstDay, FinalDay
<1> HIDE DEF year, first, final
<1>9. last \in (final - 1)..(final + 12)
  <2>1. PICK q, r : q = last \div 4 /\ r = last % 4 OBVIOUS
  <2>2. q \in Int /\ r \in 0..3 /\ last = 4 * q + r BY <1>5, <2>1
  <2>3. QED BY <1>7, <1>8, <2>1, <2>2
<1>10. PICK O : O = {i \in D : people[i].joined # Unset /\ people[i].joined < first /\ ~GoneBefore(people[i], first)} OBVIOUS
<1>11. PICK J : J = {i \in D : people[i].joined # Unset /\ YearOf(people[i].joined) = y} OBVIOUS
<1>12. PICK L : L = {i \in D : people[i].left # Unset /\ YearOf(people[i].left) = y} OBVIOUS
<1>13. PICK C : C = {i \in D : people[i].joined # Unset /\ people[i].joined <= final
                       /\ (people[i].left = Unset \/ people[i].left > final)} OBVIOUS
<1>14. /\ Opening(people, first) = Cardinality(O) /\ JoinedIn(people, year) = Cardinality(J)
       /\ LeftIn(people, year) = Cardinality(L) /\ Closing(people, final) = Cardinality(C)
  BY <1>1, <1>6, <1>10, <1>11, <1>12, <1>13 DEF Opening, JoinedIn, LeftIn, Closing, Headcount
<1>15. \A i \in D : /\ (people[i].joined # Unset) /\ (people[i].left # Unset => people[i].left \in Nat)
                    /\ (YearOf(people[i].joined) = y <=> first <= people[i].joined /\ people[i].joined <= final)
                    /\ (people[i].left # Unset => (YearOf(people[i].left) = y <=> first <= people[i].left /\ people[i].left <= final))
  <2>1. ASSUME NEW d \in Nat PROVE d \div 4 = y <=> first <= d /\ d <= final
    <3>1. PICK q, r : q = d \div 4 /\ r = d % 4 OBVIOUS
    <3>2. q \in Int /\ r \in 0..3 /\ d = 4 * q + r BY <2>1, <3>1
    <3>3. QED BY <1>7, <1>8, <3>1, <3>2
  <2>2. QED BY <1>3, <2>1 DEF YearOf, Days, Unset
<1>16. first \in Int /\ final \in Int /\ first <= final BY <1>7, <1>8
<1>17. \A i \in D : (i \in O \/ i \in J) <=> (i \in C \/ i \in L)
  <2>1. TAKE i \in D
  <2>2. PICK from, to : from = people[i].joined /\ to = people[i].left OBVIOUS
  <2>3. from \in Nat /\ from # Unset /\ (to = Unset \/ (to \in Nat /\ from <= to)) BY <1>3, <1>15, <2>2
  <2>4. i \in O <=> from < first /\ ~(to # Unset /\ to < first) BY <1>10, <2>2, <2>3 DEF GoneBefore
  <2>5. i \in J <=> first <= from /\ from <= final BY <1>11, <1>15, <2>2, <2>3
  <2>6. i \in L <=> to # Unset /\ first <= to /\ to <= final BY <1>12, <1>15, <2>2, <2>3
  <2>7. i \in C <=> from <= final /\ (to = Unset \/ to > final) BY <1>13, <2>2, <2>3
  <2>8. QED BY <1>16, <2>3, <2>4, <2>5, <2>6, <2>7
<1>18. \A i \in D : ~(i \in O /\ i \in J) /\ ~(i \in C /\ i \in L)
  BY <1>3, <1>10, <1>11, <1>12, <1>13, <1>15, <1>16
<1>19. Opening(people, first) + JoinedIn(people, year) - LeftIn(people, year) = Closing(people, final)
  <2>1. PICK S : S = O \cup J OBVIOUS
  <2>2. S \subseteq D /\ C \cup L = S /\ O \cap J = {} /\ C \cap L = {} BY <1>10, <1>11, <1>12, <1>13, <1>17, <1>18, <2>1
  <2>3. IsFiniteSet(S) BY <1>1, <2>2, Positions
  <2>4. Cardinality(S) = Cardinality(O) + Cardinality(J) /\ Cardinality(O) \in Nat /\ Cardinality(J) \in Nat
    BY <2>1, <2>2, <2>3, TwoParts
  <2>5. Cardinality(S) = Cardinality(C) + Cardinality(L) /\ Cardinality(C) \in Nat /\ Cardinality(L) \in Nat
    BY <2>2, <2>3, TwoParts
  <2>6. PICK a, b, c, d : a = Cardinality(O) /\ b = Cardinality(J) /\ c = Cardinality(C) /\ d = Cardinality(L) OBVIOUS
  <2>7. a \in Nat /\ b \in Nat /\ c \in Nat /\ d \in Nat /\ a + b = c + d BY <2>4, <2>5, <2>6
  <2>8. a + b - d = c BY <2>7
  <2>9. QED BY <1>14, <2>6, <2>8
<1>20. Closing(people, final) = Opening(people, FirstDay(year + 1))
  <2>1. PICK N : N = {i \in D : people[i].joined # Unset /\ people[i].joined < FirstDay(year + 1)
                        /\ ~GoneBefore(people[i], FirstDay(year + 1))} OBVIOUS
  <2>2. Opening(people, FirstDay(year + 1)) = Cardinality(N) BY <1>1, <2>1 DEF Opening, Headcount
  <2>3. \A i \in D : i \in N <=> i \in C BY <1>3, <1>7, <1>8, <1>13, <1>15, <2>1 DEF GoneBefore
  <2>4. N = C BY <1>13, <2>1, <2>3
  <2>5. QED BY <1>14, <2>2, <2>4
<1>21. Exits(people, first, final) = LeftIn(people, year)
  <2>1. PICK X : X = {i \in D : people[i].left # Unset /\ first <= people[i].left /\ people[i].left <= final} OBVIOUS
  <2>2. Exits(people, first, final) = Cardinality(X) BY <1>1, <2>1 DEF Exits, Headcount
  <2>3. X = L BY <1>12, <1>15, <2>1
  <2>4. QED BY <1>14, <2>2, <2>3
<1>22. \E p \in ToSet(people) : {p.joined, p.left} \cap ((final - 1)..(final + 12)) # {} BY <1>5, <1>9
<1>23. PICK A : A = {i \in D : StillHere(people[i], today)} OBVIOUS
<1>24. A \subseteq D /\ IsFiniteSet(A) /\ ActiveHeadcount(people, today) = Cardinality(A)
  <2>1. A \subseteq D BY <1>23
  <2>2. IsFiniteSet(A) BY <1>1, <2>1, Positions
  <2>3. ActiveHeadcount(people, today) = Cardinality(A) BY <1>1, <1>23 DEF ActiveHeadcount, Headcount
  <2>4. QED BY <2>1, <2>2, <2>3
<1>25. ActiveHeadcount(people, today) =
         SumFunctionOnSet([g \in groups |-> InGroup(people, today, g)], groups)
         + Headcount(people, LAMBDA p : StillHere(p, today) /\ p.group = "none")
  <2>1. PICK f : f = [i \in D |-> people[i].group] OBVIOUS
  <2>2. \A g : {i \in D : CountedInBars(people[i], today) /\ people[i].group = g} = {i \in A : f[i] = g}
    BY <1>23, <2>1 DEF CountedInBars
  <2>3. \A g : InGroup(people, today, g) = Cardinality({i \in A : f[i] = g}) BY <1>1, <2>2 DEF InGroup, Headcount
  <2>4. [g \in groups |-> InGroup(people, today, g)] = [g \in groups |-> Cardinality({i \in A : f[i] = g})] BY <2>3
  <2>5. PICK P : P = {i \in A : f[i] \in groups} OBVIOUS
  <2>6. PICK Q : Q = {i \in A : f[i] = "none"} OBVIOUS
  <2>7. SumFunctionOnSet([g \in groups |-> InGroup(people, today, g)], groups) = Cardinality(P)
    <3>1. PICK m : m = n OBVIOUS
    <3>2. m \in Nat /\ A \subseteq 1..m BY <1>1, <1>24, <3>1
    <3>3. SumFunctionOnSet(Sizes(A, f, groups), groups) = Cardinality(InAny(A, f, groups))
      BY ONLY <3>2, IsFiniteSet(groups), GroupsAddUp
    <3>4. QED BY <2>4, <2>5, <3>3 DEF Sizes, InAny
  <2>8. Headcount(people, LAMBDA p : StillHere(p, today) /\ p.group = "none") = Cardinality(Q)
    <3>1. {i \in D : StillHere(people[i], today) /\ people[i].group = "none"} = Q BY <1>23, <2>1, <2>6
    <3>2. QED BY <1>1, <3>1 DEF Headcount
  <2>9. P \cup Q = A /\ P \cap Q = {}
    <3>1. \A i \in A : f[i] \in groups \cup {"none"} BY <1>3, <1>24, <2>1
    <3>2. QED BY <2>5, <2>6, <3>1
  <2>10. IsFiniteSet(A) BY <1>24
  <2>12. Cardinality(A) = Cardinality(P) + Cardinality(Q) BY ONLY <2>10, <2>9, TwoParts
  <2>11. QED BY <1>24, <2>7, <2>8, <2>12
<1>26. ActiveHeadcount(people, today) = TenureBands(people, today)[1] + TenureBands(people, today)[2]
  <2>1. PICK P : P = {i \in D : StillHere(people[i], today) /\ today - people[i].joined < 4} OBVIOUS
  <2>2. PICK Q : Q = {i \in D : StillHere(people[i], today) /\ today - people[i].joined >= 4} OBVIOUS
  <2>3. P \cup Q = A /\ P \cap Q = {}
    <3>1. \A i \in D : today - people[i].joined \in Int BY <1>3
    <3>2. \A i \in D : today - people[i].joined < 4 <=> ~(today - people[i].joined >= 4) BY <3>1
    <3>3. QED BY <1>23, <2>1, <2>2, <3>2
  <2>4. TenureBands(people, today)[1] = Cardinality(P) /\ TenureBands(people, today)[2] = Cardinality(Q)
    BY <1>1, <2>1, <2>2 DEF TenureBands, Headcount
  <2>7. IsFiniteSet(A) BY <1>24
  <2>5. Cardinality(A) = Cardinality(P) + Cardinality(Q) BY ONLY <2>7, <2>3, TwoParts
  <2>6. QED BY <1>24, <2>4, <2>5
<1>27. QED BY <1>19, <1>20, <1>21, <1>22, <1>25, <1>26

(* Every section has its turn, every readable file its section, and the       *)
(* headcounts add up.                                                         *)
THEOREM OverviewIsRight == Spec => []OverviewHolds
<1>1. AnInput => OverviewHolds
  <2>1. SUFFICES ASSUME AnInput PROVE OverviewHolds OBVIOUS
  <2>2. ASSUME question = "page" PROVE EverySectionGetsATurn(input.plan, input.budget)
    <3>1. Plan(input.plan) /\ input.budget \in Nat BY <2>1, <2>2, OverviewAssumption DEF AnInput
    <3>2. ReadableGroups \in Int /\ QueryBudget \in Int BY BudgetAssumption
    <3>3. QED BY <3>1, <3>2, TurnsAreTaken
  <2>3. ASSUME question = "files" PROVE NoFileDisappears(input.tables, input.stacked)
    <3>1. input.tables \in Seq(ToSet(input.tables)) BY <2>1, <2>3, OverviewAssumption DEF AnInput
    <3>2. QED BY <3>1, FilesAreRead
  <2>4. ASSUME question = "staff" PROVE BooksBalance(input.people, input.today, input.groups)
    <3>1. Staff(input) BY <2>1, <2>4, OverviewAssumption DEF AnInput
    <3>2. QED BY <3>1, BooksAreRight DEF Staff
  <2>5. QED BY <2>2, <2>3, <2>4 DEF OverviewHolds
<1>2. QED BY <1>1, OnlyInputs, PTL

------------------------------------------------------------------------------
(* Facts.                                                                     *)
(* The rows with a figure, and their figures.                                 *)
LEMMA FiguresAre ==
  ASSUME NEW result, ReadResult(result)
  PROVE  LET D == DOMAIN result.figures
             W == WithFigure(result)
             F == Figures(result)
         IN /\ IsFiniteSet(D) /\ result.figures \in [D -> Int] /\ D \subseteq Int
            /\ W \in SUBSET D /\ IsFiniteSet(W) /\ W \subseteq Int
            /\ F \subseteq Int /\ IsFiniteSet(F) /\ (F = {} <=> W = {})
            /\ \A i \in W : result.figures[i] \in F /\ result.figures[i] \in Int
            /\ \A v \in F : \E i \in W : result.figures[i] = v
<1> DEFINE D == DOMAIN result.figures
           W == WithFigure(result)
           F == Figures(result)
<1>1. PICK n \in Nat : D = 1..n /\ result.figures \in [1..n -> Int] BY DEF ReadResult
<1>2. IsFiniteSet(D) /\ D \subseteq Int /\ result.figures \in [D -> Int]
  <2>1. IsFiniteSet(1..n) BY <1>1, FS_Interval
  <2>2. QED BY <1>1, <2>1
<1>3. W \in SUBSET D BY DEF WithFigure
<1>4. IsFiniteSet(W) /\ W \subseteq Int BY <1>2, <1>3, FS_Subset
<1>5. F = {result.figures[i] : i \in W} BY DEF Figures
<1>6. IsFiniteSet(F) BY <1>4, <1>5, Images
<1>7. QED BY <1>2, <1>3, <1>4, <1>5, <1>6

(* The rows of the greatest figure, and of the least.                         *)
LEMMA ExtremesAre ==
  ASSUME NEW result, ReadResult(result), WithFigure(result) # {}
  PROVE  LET F == Figures(result)
         IN /\ Max(F) \in F /\ (\A v \in F : v <= Max(F)) /\ Max(F) \in Int
            /\ Min(F) \in F /\ (\A v \in F : Min(F) <= v) /\ Min(F) \in Int
            /\ {result.figures[i] : i \in Tops(result)} = {Max(F)}
            /\ {result.figures[i] : i \in Bottoms(result)} = {Min(F)}
            /\ Tops(result) = {i \in WithFigure(result) : result.figures[i] = Max(F)}
            /\ Bottoms(result) = {i \in WithFigure(result) : result.figures[i] = Min(F)}
<1> DEFINE F == Figures(result)
           W == WithFigure(result)
<1>1. /\ F \subseteq Int /\ IsFiniteSet(F) /\ F # {}
      /\ \A v \in F : \E i \in W : result.figures[i] = v
  BY FiguresAre
<1>2. /\ Tops(result) = {i \in W : result.figures[i] = Max(F)}
      /\ Bottoms(result) = {i \in W : result.figures[i] = Min(F)}
  BY DEF Tops, Bottoms, TiedAt
<1> HIDE DEF F, W
<1>3. Max(F) \in F /\ \A v \in F : v <= Max(F) BY <1>1, MaxIs
<1>4. Min(F) \in F /\ \A v \in F : Min(F) <= v BY <1>1, MinIs
<1>5. {result.figures[i] : i \in Tops(result)} = {Max(F)} BY <1>1, <1>2, <1>3
<1>6. {result.figures[i] : i \in Bottoms(result)} = {Min(F)} BY <1>1, <1>2, <1>4
<1>7. Max(F) \in Int /\ Min(F) \in Int BY <1>1, <1>3, <1>4
<1>8. QED BY <1>2, <1>3, <1>4, <1>5, <1>6, <1>7 DEF F, W

LEMMA TotalIsSum ==
  ASSUME NEW result, NEW rows
  PROVE  Total(result, rows) = Sum(result.figures, rows)
BY DEF Total, Sum

(* A winner is named with every other of the same figure.                     *)
LEMMA WinnersAreSupported ==
  ASSUME NEW result, ReadResult(result), WithFigure(result) # {}, NEW says \in {"highest", "tied"},
         says = "tied" => Cardinality(Tops(result)) > 1
  PROVE  Supported(result, Claim(says, Tops(result), <<>>))
<1> DEFINE claim == Claim(says, Tops(result), <<>>)
           figure == {result.figures[i] : i \in claim.rows}
           F == Figures(result)
<1>1. claim.says = says /\ claim.rows = Tops(result) BY DEF Claim
<1>2. /\ Max(F) \in F /\ (\A v \in F : v <= Max(F)) /\ F \subseteq Int
      /\ figure = {Max(F)}
      /\ Tops(result) = {i \in WithFigure(result) : result.figures[i] = Max(F)}
  BY <1>1, ExtremesAre, FiguresAre
<1>3. Cardinality(figure) = 1 BY <1>2, FS_Singleton
<1>4. \A v \in figure, w \in F \ figure : v > w
  <2> HIDE DEF F, figure
  <2>1. ASSUME NEW w \in F \ figure PROVE Max(F) > w
    <3>1. w \in Int /\ Max(F) \in Int /\ w <= Max(F) /\ w # Max(F) BY <1>2
    <3>2. QED BY ONLY <3>1
  <2>2. QED BY <1>2, <2>1
<1>5. claim.rows = {i \in WithFigure(result) : result.figures[i] \in figure} BY <1>1, <1>2
<1>6. claim.says # "share" BY <1>1
<1>7. QED BY <1>1, <1>3, <1>4, <1>5, <1>6 DEF Supported

LEMMA LosersAreSupported ==
  ASSUME NEW result, ReadResult(result), WithFigure(result) # {}
  PROVE  Supported(result, Claim("lowest", Bottoms(result), <<>>))
<1> DEFINE claim == Claim("lowest", Bottoms(result), <<>>)
           figure == {result.figures[i] : i \in claim.rows}
           F == Figures(result)
<1>1. claim.says = "lowest" /\ claim.rows = Bottoms(result) BY DEF Claim
<1>2. /\ Min(F) \in F /\ (\A v \in F : Min(F) <= v) /\ F \subseteq Int
      /\ figure = {Min(F)}
      /\ Bottoms(result) = {i \in WithFigure(result) : result.figures[i] = Min(F)}
  BY <1>1, ExtremesAre, FiguresAre
<1>3. Cardinality(figure) = 1 BY <1>2, FS_Singleton
<1>4. \A v \in figure, w \in F \ figure : v < w
  <2> HIDE DEF F, figure
  <2>1. ASSUME NEW w \in F \ figure PROVE Min(F) < w
    <3>1. w \in Int /\ Min(F) \in Int /\ Min(F) <= w /\ w # Min(F) BY <1>2
    <3>2. QED BY ONLY <3>1
  <2>2. QED BY <1>2, <2>1
<1>5. claim.rows = {i \in WithFigure(result) : result.figures[i] \in figure} BY <1>1, <1>2
<1>6. QED BY <1>1, <1>3, <1>4, <1>5 DEF Supported

(* One figure for all the rows is the only one there is.                      *)
LEMMA LevelIsSupported ==
  ASSUME NEW result, ReadResult(result), NEW says \in {"only", "level"}, Cardinality(Figures(result)) = 1
  PROVE  Supported(result, Claim(says, WithFigure(result), <<>>))
<1> DEFINE claim == Claim(says, WithFigure(result), <<>>)
           figure == {result.figures[i] : i \in claim.rows}
<1>1. claim.says = says /\ claim.rows = WithFigure(result) BY DEF Claim
<1>2. figure = Figures(result) BY <1>1 DEF Figures
<1>3. Figures(result) \ figure = {} BY <1>2
<1>4. QED BY <1>1, <1>2, <1>3 DEF Supported

LEMMA OneFigure ==
  ASSUME NEW result, ReadResult(result), WithFigure(result) # {}
  PROVE  /\ Cardinality(WithFigure(result)) = 1 => Cardinality(Figures(result)) = 1
         /\ Tops(result) = WithFigure(result) => Cardinality(Figures(result)) = 1
<1> DEFINE W == WithFigure(result)
           F == Figures(result)
<1>1. IsFiniteSet(W) /\ F = {result.figures[i] : i \in W} BY FiguresAre DEF Figures
<1>2. ASSUME Cardinality(W) = 1 PROVE Cardinality(F) = 1
  <2>1. PICK i : W = {i} BY <1>1, <1>2, FS_Singleton
  <2>2. F = {result.figures[i]} BY <1>1, <2>1
  <2>3. QED BY <2>2, FS_Singleton
<1>3. ASSUME Tops(result) = W PROVE Cardinality(F) = 1
  <2>1. F = {Max(F)} BY <1>1, <1>3, ExtremesAre
  <2>2. QED BY <2>1, FS_Singleton
<1>4. QED BY <1>2, <1>3

------------------------------------------------------------------------------
(* The figures of any three rows that no other row exceeds.                   *)
Leading(result, S) ==
  \A i \in S, j \in WithFigure(result) \ S : result.figures[i] >= result.figures[j]

LEMMA ThreeLead ==
  ASSUME NEW result, ReadResult(result), Cardinality(WithFigure(result)) > 3
  PROVE  /\ BestThree(result) \in SUBSET WithFigure(result)
         /\ Cardinality(BestThree(result)) = 3 /\ Leading(result, BestThree(result))
<1> DEFINE W == WithFigure(result)
           fig == result.figures
           H == {k \in 0..3 : \E S \in SUBSET W : Cardinality(S) = k /\ Leading(result, S)}
<1>1. IsFiniteSet(W) /\ \A i \in W : fig[i] \in Int BY FiguresAre
<1>2. Cardinality(W) \in Nat /\ Cardinality(W) > 3 BY <1>1, FS_CardinalityType
<1>3. 0 \in H
  <2>1. {} \in SUBSET W /\ Cardinality({}) = 0 /\ Leading(result, {}) BY FS_EmptySet DEF Leading
  <2>2. QED BY <2>1
<1>4. ASSUME NEW k \in 1..3, k - 1 \in H PROVE k \in H
  <2>1. PICK S \in SUBSET W : Cardinality(S) = k - 1 /\ Leading(result, S) BY <1>4
  <2>2. IsFiniteSet(S) /\ IsFiniteSet(W \ S) /\ W \ S # {}
    <3>1. IsFiniteSet(S) /\ IsFiniteSet(W \ S) BY <1>1, FS_Subset
    <3>2. W \ S # {} BY <1>2, <2>1
    <3>3. QED BY <3>1, <3>2
  <2> DEFINE R == {p \in W \X W : fig[p[1]] >= fig[p[2]]}
  <2>3. \A x, y \in W : <<x, y>> \in R <=> fig[x] >= fig[y] OBVIOUS
  <2>4. Comparable(W \ S, R)
    <3> HIDE DEF R, W, fig
    <3>1. QED BY <1>1, <2>3 DEF Comparable
  <2>5. PICK m \in W \ S : \A j \in W \ S : <<m, j>> \in R
    <3> HIDE DEF R, W
    <3>1. QED BY <2>2, <2>4, Best
  <2>6. Cardinality(S \cup {m}) = k
    <3>1. Cardinality(S \cup {m}) = Cardinality(S) + 1 BY <2>2, FS_AddElement
    <3>2. QED BY <2>1, <3>1
  <2>7. Leading(result, S \cup {m})
    <3>1. SUFFICES ASSUME NEW i \in S \cup {m}, NEW j \in W \ (S \cup {m}) PROVE fig[i] >= fig[j] BY DEF Leading
    <3>2. CASE i = m BY <2>3, <2>5, <3>2
    <3>3. CASE i \in S BY <2>1, <3>3 DEF Leading
    <3>4. QED BY <3>2, <3>3
  <2>8. S \cup {m} \in SUBSET W OBVIOUS
  <2>9. QED BY <2>6, <2>7, <2>8
<1>5. \A k \in 0..3 : k \in H
  <2> HIDE DEF H
  <2>1. 3 \in Nat OBVIOUS
  <2>2. QED BY <1>3, <1>4, <2>1, Throughout
<1>6. \E S \in SUBSET W : Cardinality(S) = 3 /\ Leading(result, S) BY <1>5
<1>7. QED BY <1>6 DEF BestThree, Leading

LEMMA TopThreeIsSupported ==
  ASSUME NEW result, ReadResult(result), Summable(result), Cardinality(WithFigure(result)) > 3,
         Total(result, WithFigure(result)) > 0
  PROVE  Supported(result, Claim("top three", BestThree(result),
                                 <<Total(result, BestThree(result)), Total(result, WithFigure(result))>>))
<1> DEFINE W == WithFigure(result)
           D == DOMAIN result.figures
<1>1. PICK fig : fig = result.figures OBVIOUS
<1>2. PICK B : B = BestThree(result) OBVIOUS
<1>3. IsFiniteSet(D) /\ fig \in [D -> Int] /\ W \in SUBSET D /\ IsFiniteSet(W) BY <1>1, FiguresAre
<1>4. \A i \in W : fig[i] >= 0 BY <1>1, FiguresAre DEF Summable, Addable
<1>5. B \in SUBSET W /\ Cardinality(B) = 3 /\ \A i \in B, j \in W \ B : fig[i] >= fig[j]
  BY <1>1, <1>2, ThreeLead DEF Leading
<1>6. Total(result, W) = Sum(fig, W) /\ Total(result, B) = Sum(fig, B) BY <1>1, TotalIsSum
<1> HIDE DEF W, D
<1>7. 0 <= Sum(fig, B) /\ Sum(fig, B) <= Sum(fig, W) /\ Sum(fig, B) \in Int /\ Sum(fig, W) \in Int
  BY ONLY <1>3, <1>4, <1>5, SumOfParts
<1>8. 0 < Sum(fig, B)
  <2> SUFFICES ASSUME Sum(fig, B) = 0 PROVE FALSE BY <1>7
  <2>1. ASSUME NEW i \in B PROVE fig[i] = 0
    <3>1. PICK S : S = {i} OBVIOUS
    <3>2. S \in SUBSET B /\ B \in SUBSET D /\ i \in S /\ S \in SUBSET D /\ S \ {i} = {} BY <1>3, <1>5, <3>1
    <3>3. \A x \in B : fig[x] >= 0 BY <1>4, <1>5
    <3>4. Sum(fig, S) <= Sum(fig, B) BY ONLY <1>3, <3>2, <3>3, SumOfParts
    <3>5. Sum(fig, S) = fig[i] + Sum(fig, S \ {i}) /\ fig[i] \in Int BY ONLY <1>3, <3>2, SumStep
    <3>6. Sum(fig, {}) = 0 BY ONLY <1>3, SumFacts
    <3>7. fig[i] <= 0 BY <3>2, <3>4, <3>5, <3>6
    <3>8. QED BY <3>3, <3>5, <3>7
  <2>2. PICK i : i \in B
    <3>1. B # {} BY <1>5, FS_EmptySet
    <3>2. QED BY <3>1
  <2>3. \A j \in W : 0 <= fig[j] /\ fig[j] <= 0
    <3>1. ASSUME NEW j \in W PROVE 0 <= fig[j] /\ fig[j] <= 0
      <4>1. fig[j] \in Int BY <1>3
      <4>2. CASE j \in B BY <2>1, <4>2
      <4>3. CASE j \notin B BY <1>4, <1>5, <2>1, <2>2, <4>1, <4>3
      <4>4. QED BY <4>2, <4>3
    <3>2. QED BY <3>1
  <2>4. Sum(fig, W) <= 0 * Cardinality(W)
    <3>1. 0 \in Int OBVIOUS
    <3>2. QED BY ONLY <1>3, <2>3, <3>1, SumBounds
  <2>5. Cardinality(W) \in Nat BY <1>3, FS_CardinalityType
  <2>6. Sum(fig, W) > 0 BY <1>6 DEF W
  <2>7. QED BY <1>7, <2>4, <2>5, <2>6
<1>9. ~result.truncated /\ result.addable BY DEF Summable, Addable, ReadResult
<1>10. QED BY <1>2, <1>6, <1>7, <1>8, <1>9 DEF Supported, Claim, W

(* An average lies between the least figure and the greatest.                 *)
LEMMA AverageIsSupported ==
  ASSUME NEW result, ReadResult(result), WithFigure(result) # {}
  PROVE  Supported(result, Claim("average", WithFigure(result),
                                 <<Total(result, WithFigure(result)), Cardinality(WithFigure(result))>>))
<1> DEFINE W == WithFigure(result)
           D == DOMAIN result.figures
           F == Figures(result)
<1>1. PICK fig : fig = result.figures OBVIOUS
<1>2. IsFiniteSet(D) /\ fig \in [D -> Int] /\ W \in SUBSET D BY <1>1, FiguresAre
<1>3. Max(F) \in F /\ Min(F) \in F /\ Max(F) \in Int /\ Min(F) \in Int
  BY ExtremesAre
<1>4. \A i \in W : Min(F) <= fig[i] /\ fig[i] <= Max(F) BY <1>1, ExtremesAre, FiguresAre
<1>5. Total(result, W) = Sum(fig, W) BY <1>1, TotalIsSum
<1> HIDE DEF W, D, F
<1>6. PICK low, high : low = Min(F) /\ high = Max(F) OBVIOUS
<1>7. low * Cardinality(W) <= Sum(fig, W) /\ Sum(fig, W) <= high * Cardinality(W)
  <2>1. low \in Int /\ high \in Int /\ \A i \in W : low <= fig[i] /\ fig[i] <= high BY <1>3, <1>4, <1>6
  <2>2. QED BY ONLY <1>2, <2>1, SumBounds
<1>8. QED BY <1>3, <1>5, <1>6, <1>7 DEF Supported, Claim, W, F

LEMMA SpreadIsSupported ==
  ASSUME NEW result, ReadResult(result), WithFigure(result) # {}, NEW claim \in SpreadLines(result)
  PROVE  Supported(result, claim)
<1> DEFINE W == WithFigure(result)
           low == Min(Figures(result))
           high == Max(Figures(result))
<1>1. \/ /\ claim = Claim("top three", BestThree(result), <<Total(result, BestThree(result)), Total(result, W)>>)
         /\ Summable(result) /\ Cardinality(W) > 3 /\ Total(result, W) > 0
      \/ claim = Claim("times the lowest", {}, <<high, low>>) /\ low > 0 /\ high # low
      \/ claim = Claim("average", W, <<Total(result, W), Cardinality(W)>>)
  BY DEF SpreadLines
<1>2. ASSUME claim = Claim("times the lowest", {}, <<high, low>>), low > 0, high # low
      PROVE  Supported(result, claim)
  <2>1. high \in Int /\ low \in Int /\ low <= high BY ExtremesAre
  <2>2. high # low BY <1>2
  <2>3. high > low
    <3> HIDE DEF high, low
    <3>1. QED BY ONLY <2>1, <2>2
  <2>4. QED BY <1>2, <2>3 DEF Supported, Claim
<1>3. QED BY <1>1, <1>2, TopThreeIsSupported, AverageIsSupported

------------------------------------------------------------------------------
LEMMA BreakdownIsSupported ==
  ASSUME NEW result, ReadResult(result), NEW claim \in BreakdownSays(result)
  PROVE  Supported(result, claim)
<1> DEFINE W == WithFigure(result)
<1>1. W # {} BY DEF BreakdownSays
<1>2. \/ claim \in SpreadLines(result)
      \/ Cardinality(W) = 1 /\ claim = Claim("only", W, <<>>)
      \/ Cardinality(Figures(result)) = 1 /\ claim = Claim("level", W, <<>>)
      \/ claim = Claim("highest", Tops(result), <<>>)
      \/ claim = Claim("lowest", Bottoms(result), <<>>)
  BY <1>1 DEF BreakdownSays
<1>3. QED BY <1>1, <1>2, SpreadIsSupported, OneFigure, LevelIsSupported, WinnersAreSupported, LosersAreSupported

LEMMA ShareIsSupported ==
  ASSUME NEW result, ReadResult(result), NEW claim \in ShareSays(result)
  PROVE  Supported(result, claim)
<1> DEFINE W == WithFigure(result)
           D == DOMAIN result.figures
           F == Figures(result)
           share == Claim("share", Tops(result), <<Max(F), Total(result, W)>>)
<1>1. W # {} BY DEF ShareSays
<1>2. \/ claim \in SpreadLines(result) \cup BreakdownSays(result)
      \/ claim = Claim("highest", Tops(result), <<>>)
      \/ /\ claim = share
         /\ ~result.truncated /\ result.addable /\ \A v \in F : v >= 0
  BY <1>1 DEF ShareSays
<1>3. ASSUME ~result.truncated, result.addable, \A v \in F : v >= 0
      PROVE  Supported(result, share)
  <2> DEFINE figure == {result.figures[i] : i \in share.rows}
  <2>1. share.says = "share" /\ share.rows = Tops(result) /\ share.numbers[1] = Max(F) /\ share.numbers[2] = Total(result, W)
    BY DEF Claim
  <2>2. /\ Max(F) \in F /\ (\A v \in F : v <= Max(F)) /\ F \subseteq Int
        /\ figure = {Max(F)}
        /\ Tops(result) = {i \in W : result.figures[i] = Max(F)}
    BY <1>1, <2>1, ExtremesAre, FiguresAre
  <2>3. Cardinality(figure) = 1 BY <2>2, FS_Singleton
  <2>4. \A v \in figure, w \in F \ figure : v > w
    <3> HIDE DEF F, figure
    <3>1. QED BY <2>2
  <2>5. share.rows = {i \in W : result.figures[i] \in figure} BY <2>1, <2>2
  <2>6. Max(F) <= Total(result, W)
    <3>1. PICK fig : fig = result.figures OBVIOUS
    <3>2. IsFiniteSet(D) /\ fig \in [D -> Int] /\ W \in SUBSET D BY <3>1, FiguresAre
    <3>3. PICK i \in W : fig[i] = Max(F) BY <2>2, <3>1, FiguresAre
    <3>4. \A j \in W : fig[j] >= 0 BY <1>3, <3>1, FiguresAre
    <3>5. Total(result, W) = Sum(fig, W) BY <3>1, TotalIsSum
    <3> HIDE DEF W, D
    <3>6. Sum(fig, W) = fig[i] + Sum(fig, W \ {i}) /\ Sum(fig, W \ {i}) \in Int /\ fig[i] \in Int
      BY ONLY <3>2, <3>3, SumStep
    <3>7. W \ {i} \in SUBSET W OBVIOUS
    <3>8. 0 <= Sum(fig, W \ {i}) BY ONLY <3>2, <3>4, <3>7, SumOfParts
    <3>9. fig[i] <= Sum(fig, W) BY ONLY <3>6, <3>8
    <3>10. QED BY <3>3, <3>5, <3>9
  <2>7. QED BY <1>3, <2>1, <2>3, <2>4, <2>5, <2>6 DEF Supported
<1>4. QED BY <1>1, <1>2, <1>3, SpreadIsSupported, BreakdownIsSupported, WinnersAreSupported

LEMMA TrendIsSupported ==
  ASSUME NEW result, ReadResult(result), NEW claim \in TrendSays(result)
  PROVE  Supported(result, claim)
<1> DEFINE W == WithFigure(result)
           first == Min(W)
           last == Max(W)
           start == result.figures[first]
           end == result.figures[last]
<1>1. Cardinality(W) >= 2 /\ IsFiniteSet(W) /\ W \subseteq Int
  <2>1. IsFiniteSet(W) /\ W \subseteq Int BY FiguresAre
  <2>2. Cardinality(W) \in Nat BY <2>1, FS_CardinalityType
  <2>3. QED BY <2>1, <2>2 DEF TrendSays
<1>2. W # {} BY <1>1, FS_EmptySet
<1>3. first \in W /\ last \in W /\ first <= last /\ first \in Int /\ last \in Int
  <2> HIDE DEF W
  <2>1. Min(W) \in W /\ \A x \in W : Min(W) <= x BY <1>1, <1>2, MinIs
  <2>2. Max(W) \in W BY <1>1, <1>2, MaxIs
  <2>3. QED BY <1>1, <2>1, <2>2
<1>4. start \in Int /\ end \in Int BY <1>3, FiguresAre
<1>5. claim = Claim(Moved(start, end), {first, last}, IF start > 0 /\ start # end THEN <<end - start, start>> ELSE <<>>)
  BY <1>1 DEF TrendSays
<1> HIDE DEF first, last
<1>6. Min({first, last}) = first /\ Max({first, last}) = last
  <2>1. PICK P : P = {first, last} OBVIOUS
  <2>2. P = {first} \cup {last} BY <2>1
  <2>3. IsFiniteSet(P) BY <2>2, FS_Singleton, FS_AddElement
  <2>4. P # {} /\ P \subseteq Int BY <1>3, <2>1
  <2>5. Min(P) \in P /\ (\A x \in P : Min(P) <= x) BY <2>3, <2>4, MinIs
  <2>6. Max(P) \in P /\ (\A x \in P : x <= Max(P)) BY <2>3, <2>4, MaxIs
  <2>7. first \in P /\ last \in P BY <2>1
  <2>8. QED BY <1>3, <2>1, <2>5, <2>6, <2>7
<1>7. claim.says = Moved(start, end) /\ claim.rows = {first, last}
      /\ claim.numbers = IF start > 0 /\ start # end THEN <<end - start, start>> ELSE <<>>
  BY <1>5 DEF Claim
<1>8. result.figures[Min(claim.rows)] = start /\ result.figures[Max(claim.rows)] = end BY <1>6, <1>7
<1>9. claim.numbers # <<>> => claim.numbers[2] > 0 BY <1>7
<1> HIDE DEF start, end
<1>10. claim.says \in {"unchanged", "up", "down"} /\ (claim.says = "up" <=> end > start) /\ (claim.says = "unchanged" <=> end = start)
  BY <1>4, <1>7 DEF Moved
<1>11. QED BY <1>8, <1>9, <1>10 DEF Supported

LEMMA TwoWayIsSupported ==
  ASSUME NEW result, ReadResult(result), NEW claim \in TwoWaySays(result)
  PROVE  Supported(result, claim)
<1>1. WithFigure(result) # {} BY DEF TwoWaySays
<1>2. \/ claim \in SpreadLines(result)
      \/ Tops(result) = WithFigure(result) /\ claim = Claim("level", WithFigure(result), <<>>)
      \/ Cardinality(Tops(result)) > 1 /\ claim = Claim("tied", Tops(result), <<>>)
      \/ claim = Claim("highest", Tops(result), <<>>)
  BY <1>1 DEF TwoWaySays
<1>3. QED BY <1>1, <1>2, SpreadIsSupported, OneFigure, LevelIsSupported, WinnersAreSupported

LEMMA FactsAre ==
  ASSUME NEW result, ReadResult(result)
  PROVE  FactsAreTrue(result)
BY BreakdownIsSupported, ShareIsSupported, TrendIsSupported, TwoWayIsSupported DEF FactsAreTrue

------------------------------------------------------------------------------
(* The last two periods.                                                      *)
LEMMA PairIs ==
  ASSUME NEW a \in Int, NEW b \in Int, a < b
  PROVE  Min({a, b}) = a /\ Max({a, b}) = b /\ Cardinality({a, b}) = 2
<1>1. PICK P : P = {a, b} OBVIOUS
<1>2. P = {a} \cup {b} /\ b \notin {a} BY <1>1
<1>3. IsFiniteSet(P) /\ Cardinality(P) = 2
  <2>1. IsFiniteSet({a}) /\ Cardinality({a}) = 1 BY FS_Singleton
  <2>2. IsFiniteSet({a} \cup {b}) /\ Cardinality({a} \cup {b}) = Cardinality({a}) + 1 BY <1>2, <2>1, FS_AddElement
  <2>3. QED BY <1>2, <2>1, <2>2
<1>4. P # {} /\ P \subseteq Int BY <1>1
<1>5. Min(P) \in P /\ (\A x \in P : Min(P) <= x) BY <1>3, <1>4, MinIs
<1>6. Max(P) \in P /\ (\A x \in P : x <= Max(P)) BY <1>3, <1>4, MaxIs
<1>7. QED BY <1>1, <1>3, <1>5, <1>6

LEMMA ChangeIs ==
  ASSUME NEW rows \in Seq([period : Nat, amount : Int])
  PROVE  ChangeIsTold(rows)
<1> DEFINE P == Periods(rows)
           latest == Max(P)
           before == PeriodsBefore(rows, latest)
           claim == Change(rows)
<1>1. IsFiniteSet(P) /\ P \subseteq Int
  <2> DEFINE n == Len(rows)
             period == [i \in 1..n |-> rows[i].period]
  <2>1. n \in Nat /\ DOMAIN rows = 1..n /\ \A i \in 1..n : rows[i].period \in Nat /\ period[i] = rows[i].period
    <3>1. n \in Nat /\ DOMAIN rows = 1..n OBVIOUS
    <3>2. \A i \in 1..Len(rows) : rows[i] \in [period : Nat, amount : Int]
      BY ONLY rows \in Seq([period : Nat, amount : Int]), InList
    <3> HIDE DEF n
    <3>3. \A i \in 1..n : rows[i].period \in Nat BY <3>2 DEF n
    <3>4. QED BY <3>1, <3>3
  <2>2. \A i \in 1..n : period[i] \in Nat BY <2>1
  <2> HIDE DEF n, period
  <2>3. IsFiniteSet(1..n) BY <2>1, FS_Interval
  <2>4. IsFiniteSet({period[i] : i \in 1..n}) BY <2>3, Images
  <2>5. P \subseteq {period[i] : i \in 1..n} BY <2>1 DEF Periods
  <2>6. QED BY <2>2, <2>4, <2>5, FS_Subset
<1>2. CASE P = {}
  <2>1. claim.says = "no dates" /\ claim.numbers = <<>> BY <1>2 DEF Change, Claim
  <2>2. Cardinality(P) # 1 BY <1>2, FS_EmptySet
  <2>3. QED BY <2>1, <2>2 DEF ChangeIsTold
<1>3. CASE P # {} /\ before = {}
  <2>1. claim.says = "one period" /\ claim.numbers = <<>> BY <1>3 DEF Change, Claim
  <2>2. latest \in P /\ (\A p \in P : p <= latest)
    <3> HIDE DEF P
    <3>1. QED BY <1>1, <1>3, MaxIs
  <2>3. \A p \in P : ~(p < latest) BY <1>3 DEF PeriodsBefore
  <2>4. P = {latest}
    <3> HIDE DEF P, latest
    <3>1. \A p \in P : p = latest BY <1>1, <2>2, <2>3
    <3>2. QED BY <2>2, <3>1
  <2>5. Cardinality(P) = 1 BY <2>4, FS_Singleton
  <2>6. QED BY <2>1, <2>5 DEF ChangeIsTold
<1>4. CASE P # {} /\ before # {}
  <2>1. latest \in P /\ latest \in Int /\ (\A p \in P : p <= latest)
    <3> HIDE DEF P
    <3>1. QED BY <1>1, <1>4, MaxIs
  <2>2. before = {p \in P : p < latest} BY DEF PeriodsBefore
  <2>3. before \in SUBSET P BY <2>2
  <2>4. IsFiniteSet(before) /\ before \subseteq Int BY <1>1, <2>3, FS_Subset
  <2>5. Max(before) \in before /\ Max(before) \in Int /\ (\A p \in before : p <= Max(before))
    <3> HIDE DEF before
    <3>1. QED BY <1>4, <2>4, MaxIs
  <2>6. Max(before) \in P /\ Max(before) < latest BY <2>2, <2>5
  <2>7. claim = Claim(Moved(In(rows, Max(before)), In(rows, latest)), {Max(before), latest},
                      <<In(rows, Max(before)), In(rows, latest)>>)
    BY <1>4 DEF Change
  <2>8. PICK last : last = Max(before) OBVIOUS
  <2> HIDE DEF before, latest, P
  <2>9. claim.says # "one period" BY <2>7 DEF Claim, Moved
  <2>10. claim.rows = {last, latest} /\ claim.numbers = <<In(rows, last), In(rows, latest)>> BY <2>7, <2>8 DEF Claim
  <2>11. Min({last, latest}) = last /\ Max({last, latest}) = latest /\ Cardinality({last, latest}) = 2
    BY <2>1, <2>5, <2>6, <2>8, PairIs
  <2>12. \A p \in P : p <= latest /\ (p > last => p = latest)
    <3>1. ASSUME NEW p \in P PROVE p <= latest /\ (p > last => p = latest)
      <4>1. p \in Int /\ p <= latest BY <1>1, <2>1
      <4>2. p < latest => p <= last BY <2>2, <2>5, <2>8
      <4>3. QED BY <2>1, <2>5, <2>8, <4>1, <4>2
    <3>2. QED BY <3>1
  <2>13. Cardinality(P) # 1
    <3>1. ASSUME Cardinality(P) = 1 PROVE FALSE
      <4>1. PICK p : P = {p} BY <1>1, <3>1, FS_Singleton
      <4>2. QED BY <2>1, <2>6, <4>1
    <3>2. QED BY <3>1
  <2>14. QED BY <2>9, <2>10, <2>11, <2>12, <2>13 DEF ChangeIsTold, P
<1>5. QED BY <1>2, <1>3, <1>4

------------------------------------------------------------------------------
(* The groups that are slices of their own are the MaxSlices largest.         *)

LEMMA SlicesAre ==
  ASSUME NEW D, IsFiniteSet(D), NEW groups \in [D -> Int], NEW order \in [D -> Int],
         \A g, h \in D : order[g] = order[h] => g = h
  PROVE  SlicesAddUp(groups, order)
<1> DEFINE InFront(g) == {h \in D : groups[h] > groups[g] \/ (groups[h] = groups[g] /\ order[h] <= order[g])}
           slice == [g \in D |-> SliceOf(groups, g, order)]
           names == {slice[g] : g \in D}
           slices == Slices(groups, order)
           Own == {g \in D : Place(groups, g, order) <= MaxSlices}
<1>1. \A g \in D : Place(groups, g, order) = Cardinality(InFront(g)) BY DEF Place
<1>2. \A g \in D : slice[g] = IF g \in Own THEN g ELSE OtherGroup BY DEF SliceOf
<1>3. slices = [s \in names |-> Sum(groups, {g \in D : slice[g] = s})]
  <2>1. {SliceOf(groups, g, order) : g \in DOMAIN groups} = names OBVIOUS
  <2>2. \A s \in names : {g \in DOMAIN groups : SliceOf(groups, g, order) = s} = {g \in D : slice[g] = s} OBVIOUS
  <2>3. QED BY <2>1, <2>2 DEF Slices, Sum
<1>4. IsFiniteSet(names)
  <2> HIDE DEF slice
  <2>1. QED BY Images
<1>5. Sum(slices, names) = Sum(groups, D)
  <2>1. slice \in [D -> names] OBVIOUS
  <2> HIDE DEF slice, names, slices
  <2>2. Sum([s \in names |-> Sum(groups, {g \in D : slice[g] = s})], names) = Sum(groups, D)
    BY ONLY IsFiniteSet(D), groups \in [D -> Int], <1>4, <2>1, SumOfClasses
  <2>3. QED BY <1>3, <2>2
<1>6. \A s \in names \ {OtherGroup} : slices[s] = groups[s]
  <2>1. ASSUME NEW s \in names \ {OtherGroup} PROVE slices[s] = groups[s]
    <3>1. s \in D /\ {g \in D : slice[g] = s} = {s} BY <1>2
    <3>2. slices[s] = Sum(groups, {s}) BY <1>3, <3>1
    <3>3. PICK C : C = {s} OBVIOUS
    <3>4. C \in SUBSET D /\ s \in C /\ C \ {s} = {} BY <3>1, <3>3
    <3>5. Sum(groups, C) = groups[s] + Sum(groups, C \ {s}) /\ groups[s] \in Int
      BY ONLY IsFiniteSet(D), groups \in [D -> Int], <3>4, SumStep
    <3>6. Sum(groups, {}) = 0 BY ONLY IsFiniteSet(D), groups \in [D -> Int], SumFacts
    <3>7. Sum(groups, C) = groups[s]
      <4>1. Sum(groups, C \ {s}) = 0 BY <3>4, <3>6
      <4>2. QED BY ONLY <3>5, <4>1
    <3>8. QED BY <3>2, <3>3, <3>7
  <2>2. QED BY <2>1
<1>7. IsFiniteSet(Own) /\ Cardinality(Own) <= MaxSlices
  <2> DEFINE place == [g \in Own |-> Place(groups, g, order)]
  <2>1. \A g \in D : IsFiniteSet(InFront(g)) /\ g \in InFront(g)
    <3>1. \A g \in D : InFront(g) \in SUBSET D OBVIOUS
    <3>2. QED BY <3>1, FS_Subset
  <2>2. \A g \in Own : place[g] \in 1..MaxSlices
    <3>1. ASSUME NEW g \in Own PROVE place[g] \in 1..MaxSlices
      <4>1. place[g] = Cardinality(InFront(g)) /\ place[g] <= MaxSlices BY <1>1
      <4>2. PICK A : A = InFront(g) OBVIOUS
      <4>3. IsFiniteSet(A) /\ A # {} BY <2>1, <4>2
      <4>4. Cardinality(A) \in Nat /\ Cardinality(A) # 0 BY <4>3, Counted
      <4>5. QED BY <4>1, <4>2, <4>4, SlicesAssumption
    <3>2. QED BY <3>1
  <2>3. \A g, h \in Own : place[g] = place[h] => g = h
    <3>0. \A g \in Own : g \in D /\ place[g] = Cardinality(InFront(g)) BY <1>1
    <3>1. SUFFICES ASSUME NEW g \in D, NEW h \in D, g # h, Cardinality(InFront(g)) = Cardinality(InFront(h)) PROVE FALSE
      <4> HIDE DEF place, InFront, Own
      <4>1. QED BY <3>0
    <3>2. order[g] # order[h] /\ order[g] \in Int /\ order[h] \in Int /\ groups[g] \in Int /\ groups[h] \in Int BY <3>1
    <3>3. \A x \in D : groups[x] \in Int /\ order[x] \in Int OBVIOUS
    <3>4. CASE g \in InFront(h)
      <4>1. InFront(g) \subseteq InFront(h) /\ h \notin InFront(g) BY <3>2, <3>3, <3>4
      <4>2. PICK A, B : A = InFront(g) /\ B = InFront(h) OBVIOUS
      <4>3. IsFiniteSet(B) /\ A \in SUBSET B /\ A # B BY <2>1, <4>1, <4>2
      <4>4. QED BY <3>1, <4>2, <4>3, FS_Subset
    <3>5. CASE g \notin InFront(h)
      <4>1. InFront(h) \subseteq InFront(g) BY <3>2, <3>3, <3>5
      <4>2. PICK A, B : A = InFront(g) /\ B = InFront(h) OBVIOUS
      <4>3. IsFiniteSet(A) /\ B \in SUBSET A /\ A # B BY <2>1, <3>5, <4>1, <4>2
      <4>4. QED BY <3>1, <4>2, <4>3, FS_Subset
    <3>6. QED BY <3>4, <3>5
  <2>4. place \in Injection(Own, 1..MaxSlices) BY <2>2, <2>3 DEF Injection, IsInjective
  <2>5. IsFiniteSet(1..MaxSlices) /\ Cardinality(1..MaxSlices) = MaxSlices
    <3>1. 1 \in Int /\ MaxSlices \in Int /\ MaxSlices >= 0 BY SlicesAssumption
    <3>2. IsFiniteSet(1..MaxSlices) /\ Cardinality(1..MaxSlices) = IF 1 > MaxSlices THEN 0 ELSE MaxSlices - 1 + 1
      BY ONLY <3>1, FS_Interval
    <3>3. QED BY <3>1, <3>2
  <2> HIDE DEF place, Own
  <2>6. QED BY <2>4, <2>5, FS_Injection
<1>8. Cardinality(names) <= MaxSlices + 1
  <2>1. names \subseteq Own \cup {OtherGroup} BY <1>2
  <2> HIDE DEF names, Own
  <2>2. IsFiniteSet(Own \cup {OtherGroup}) /\ Cardinality(Own \cup {OtherGroup}) <= MaxSlices + 1
    <3>1. IsFiniteSet(Own \cup {OtherGroup})
          /\ Cardinality(Own \cup {OtherGroup}) = IF OtherGroup \in Own THEN Cardinality(Own) ELSE Cardinality(Own) + 1
      BY <1>7, FS_AddElement
    <3>2. Cardinality(Own) \in Nat BY <1>7, FS_CardinalityType
    <3>3. QED BY <1>7, <3>1, <3>2, SlicesAssumption
  <2>3. Cardinality(names) <= Cardinality(Own \cup {OtherGroup}) /\ Cardinality(names) \in Nat
        /\ Cardinality(Own \cup {OtherGroup}) \in Nat
    BY <1>4, <2>1, <2>2, FS_Subset, FS_CardinalityType
  <2>4. QED BY <2>2, <2>3, SlicesAssumption
<1>9. DOMAIN slices = names BY <1>3
<1> HIDE DEF slices, names
<1>10. MapThenSumSet(LAMBDA s : slices[s], DOMAIN slices) = MapThenSumSet(LAMBDA g : groups[g], DOMAIN groups)
  <2>1. DOMAIN groups = D OBVIOUS
  <2>2. QED BY <1>5, <1>9, <2>1 DEF Sum
<1>11. QED BY <1>6, <1>8, <1>9, <1>10 DEF SlicesAddUp, slices

(* A fact under a chart is true of its rows, and the slices are the whole.    *)
THEOREM FactsAreRight == Spec => []FactsHold
<1>1. AnInput => FactsHold
  <2>1. SUFFICES ASSUME AnInput PROVE FactsHold OBVIOUS
  <2>2. ASSUME question = "reading" PROVE FactsAreTrue(input)
    <3>1. ReadResult(input) BY <2>1, <2>2, FactsAssumption DEF AnInput
    <3>2. QED BY <3>1, FactsAre
  <2>3. ASSUME question = "moves" PROVE ChangeIsTold(input)
    <3>1. input \in Seq([period : Nat, amount : Int]) BY <2>1, <2>3, FactsAssumption DEF AnInput
    <3>2. QED BY <3>1, ChangeIs
  <2>4. ASSUME question = "groups" PROVE SlicesAddUp(input.groups, input.order)
    <3>1. Groups(input) BY <2>1, <2>4, FactsAssumption DEF AnInput
    <3>2. PICK D : D = DOMAIN input.groups OBVIOUS
    <3>3. IsFiniteSet(D) /\ input.groups \in [D -> Int] /\ input.order \in [D -> Int] BY <3>1, <3>2 DEF Groups
    <3>4. \A g, h \in D : input.order[g] = input.order[h] => g = h BY <3>1, <3>3 DEF Groups, IsInjective
    <3>5. QED BY <3>3, <3>4, SlicesAre
  <2>5. QED BY <2>2, <2>3, <2>4 DEF FactsHold
<1>2. QED BY <1>1, OnlyInputs, PTL

------------------------------------------------------------------------------
(* Questions.                                                                 *)
(* A place where a metric is named is a range of the words of the question.   *)
LEMMA SpansAreRanges ==
  ASSUME NEW T, NEW text \in Seq(T), NEW phrase \in Seq(T), NEW span \in Mentions(text, phrase)
  PROVE  span[1] \in Int /\ span[2] \in Int /\ span = <<span[1], span[2]>>
      /\ 1 <= span[1] /\ span[1] <= span[2] /\ span[2] <= Len(text)
<1>1. PICK i \in DOMAIN text : /\ phrase # <<>> /\ i + Len(phrase) - 1 <= Len(text)
                               /\ span = <<i, i + Len(phrase) - 1>>
  BY DEF Mentions
<1>2. i \in Nat /\ 1 <= i /\ Len(phrase) \in Nat /\ Len(phrase) > 0 /\ Len(text) \in Nat BY <1>1
<1>3. QED BY <1>1, <1>2

Ranges(n) == {p \in Int \X Int : 1 <= p[1] /\ p[1] <= p[2] /\ p[2] <= n}

LEMMA SpansOfMetrics ==
  ASSUME NEW T, NEW text \in Seq(T), NEW M, NEW glossary \in [M -> SUBSET Seq(T)], NEW m \in M
  PROVE  SpansIn(text, glossary)[m] \subseteq Ranges(Len(text))
<1> SUFFICES ASSUME NEW span \in SpansIn(text, glossary)[m] PROVE span \in Ranges(Len(text)) OBVIOUS
<1>1. PICK phrase \in glossary[m] : span \in Mentions(text, phrase) BY DEF SpansIn
<1>2. phrase \in Seq(T) OBVIOUS
<1>3. QED BY <1>1, <1>2, SpansAreRanges DEF Ranges

(* Of the places that take in this one, the longest is inside no other.       *)
LEMMA LongestIsGiven ==
  ASSUME NEW T, NEW text \in Seq(T), NEW M, NEW glossary \in [M -> SUBSET Seq(T)]
  PROVE  EveryMetricNamedIsDefined(text, glossary)
<1> DEFINE n == Len(text)
           spans == SpansIn(text, glossary)
           given == MatchMetrics(text, glossary)
<1> SUFFICES ASSUME NEW m \in M, NEW span \in spans[m]
             PROVE  \E k \in given : \E o \in spans[k] : o[1] <= span[1] /\ span[2] <= o[2]
  BY DEF EveryMetricNamedIsDefined
<1>1. n \in Nat /\ \A k \in M : spans[k] \subseteq Ranges(n) BY SpansOfMetrics
<1>2. DOMAIN spans = M /\ DOMAIN glossary = M BY DEF SpansIn
<1> DEFINE TakesIn(o) == o[1] <= span[1] /\ span[2] <= o[2]
           Left == {n - (o[2] - o[1]) : o \in {o \in Ranges(n) : TakesIn(o) /\ \E k \in M : o \in spans[k]}}
<1> HIDE DEF spans
<1>3. span \in Ranges(n) /\ TakesIn(span) BY <1>1 DEF Ranges
<1>4. Left \subseteq Nat BY <1>1 DEF Ranges
<1>5. n - (span[2] - span[1]) \in Left BY <1>3
<1>6. PICK least \in Left : \A l \in Left : least <= l
  <2> HIDE DEF Left
  <2>1. QED BY <1>4, <1>5, Least
<1>7. PICK o \in Ranges(n), k \in M : least = n - (o[2] - o[1]) /\ TakesIn(o) /\ o \in spans[k] BY <1>6
<1>8. ASSUME InsideAnother(spans, o, k) PROVE FALSE
  <2>1. PICK j \in M : \E p \in spans[j] : Covers(p, o) BY <1>2, <1>8 DEF InsideAnother
  <2>2. PICK p \in spans[j] : Covers(p, o) BY <2>1
  <2>3. p \in Ranges(n) BY <1>1, <2>2
  <2>4. p[1] <= o[1] /\ o[2] <= p[2] /\ p # o BY <2>2 DEF Covers
  <2>5. p = <<p[1], p[2]>> /\ o = <<o[1], o[2]>> BY <2>3, <1>7 DEF Ranges
  <2>6. p[1] # o[1] \/ p[2] # o[2] BY <2>4, <2>5
  <2>7. p[1] \in Int /\ p[2] \in Int /\ o[1] \in Int /\ o[2] \in Int /\ span[1] \in Int /\ span[2] \in Int
    BY <2>3, <1>7, <1>3 DEF Ranges
  <2>8. TakesIn(p) BY <1>7, <2>4, <2>7
  <2>9. n - (p[2] - p[1]) \in Left BY <2>1, <2>2, <2>3, <2>8
  <2>10. n - (o[2] - o[1]) <= n - (p[2] - p[1]) BY <1>6, <1>7, <2>9
  <2>11. QED BY <1>1, <2>4, <2>6, <2>7, <2>10
<1>9. k \in given BY <1>2, <1>7, <1>8 DEF MatchMetrics, spans
<1>10. QED BY <1>7, <1>9

------------------------------------------------------------------------------
(* What a table carries of some roles is at most all of them, and all of them *)
(* only if it carries each.                                                   *)
LEMMA CoveredIs ==
  ASSUME NEW table, NEW roles, IsFiniteSet(roles)
  PROVE  /\ Covered(table, roles) \in Nat /\ Covered(table, roles) <= Cardinality(roles) /\ Cardinality(roles) \in Nat
         /\ Covered(table, roles) = Cardinality(roles) <=> \A r \in roles : Carries(table, r)
<1> DEFINE S == {r \in roles : Carries(table, r)}
<1>1. S \in SUBSET roles OBVIOUS
<1> HIDE DEF S
<1>2. Cardinality(S) \in Nat /\ Cardinality(S) <= Cardinality(roles) /\ Cardinality(roles) \in Nat
      /\ (Cardinality(S) = Cardinality(roles) => S = roles)
  BY <1>1, Counted
<1>3. Covered(table, roles) = Cardinality(S) BY DEF Covered, S
<1>4. S = roles <=> \A r \in roles : Carries(table, r) BY DEF S
<1>5. QED BY <1>2, <1>3, <1>4

RoleScore(t, metric) == <<Covered(t, metric.required), Covered(t, metric.named), IF t.view THEN 1 ELSE 0>>


LEMMA FitterIs ==
  ASSUME NEW t, NEW u, NEW metric
  PROVE  Fitter(t, u, metric) <=>
           \/ Covered(t, metric.required) > Covered(u, metric.required)
           \/ /\ Covered(t, metric.required) = Covered(u, metric.required)
              /\ \/ Covered(t, metric.named) > Covered(u, metric.named)
                 \/ /\ Covered(t, metric.named) = Covered(u, metric.named)
                    /\ RoleScore(t, metric)[3] >= RoleScore(u, metric)[3]
<1> DEFINE a == RoleScore(t, metric)
           b == RoleScore(u, metric)
<1>1. a[1] = Covered(t, metric.required) /\ a[2] = Covered(t, metric.named) /\ a[3] \in {0, 1} BY DEF RoleScore
<1>2. b[1] = Covered(u, metric.required) /\ b[2] = Covered(u, metric.named) /\ b[3] \in {0, 1} BY DEF RoleScore
<1>3. a = b <=> a[1] = b[1] /\ a[2] = b[2] /\ a[3] = b[3] BY DEF RoleScore
<1>4. Fitter(t, u, metric) <=> a = b \/ \E i \in 1..3 : a[i] > b[i] /\ \A j \in 1..(i - 1) : a[j] = b[j]
  BY DEF Fitter, RoleScore
<1> HIDE DEF a, b
<1>5. Fitter(t, u, metric) <=> \/ a = b
                               \/ a[1] > b[1]
                               \/ a[2] > b[2] /\ a[1] = b[1]
                               \/ a[3] > b[3] /\ a[1] = b[1] /\ a[2] = b[2]
  BY <1>4
<1>6. a[3] >= b[3] <=> a[3] > b[3] \/ a[3] = b[3] BY <1>1, <1>2
<1>7. QED BY <1>1, <1>2, <1>3, <1>5, <1>6 DEF a, b

(* Some table is at least as fit as all, and the first of those is taken.     *)
LEMMA GroundIsFittest ==
  ASSUME NEW C, NEW tables \in Seq([columns : SUBSET C, view : BOOLEAN]), tables # <<>>, NEW metric, Metric(metric)
  PROVE  /\ Ground(metric, tables) \in DOMAIN tables
         /\ \A u \in DOMAIN tables : Fitter(tables[Ground(metric, tables)], tables[u], metric)
<1> DEFINE D == DOMAIN tables
           R == {p \in D \X D : Fitter(tables[p[1]], tables[p[2]], metric)}
           first(t) == Covered(tables[t], metric.required)
           second(t) == Covered(tables[t], metric.named)
           third(t) == RoleScore(tables[t], metric)[3]
           Fittest == {t \in D : \A u \in D : Fitter(tables[t], tables[u], metric)}
<1>1. D = 1..Len(tables) /\ D # {} /\ IsFiniteSet(D) /\ D \subseteq Int
  <2>1. Len(tables) \in Nat /\ D = 1..Len(tables) /\ Len(tables) > 0 OBVIOUS
  <2>2. IsFiniteSet(1..Len(tables)) BY <2>1, FS_Interval
  <2>3. 1 \in D /\ D \subseteq Int BY <2>1
  <2>4. QED BY <2>1, <2>2, <2>3
<1>2. IsFiniteSet(metric.required) /\ IsFiniteSet(metric.named) BY FS_Subset DEF Metric
<1>3. \A t \in D : first(t) \in Int /\ second(t) \in Int /\ third(t) \in Int BY <1>2, CoveredIs DEF RoleScore
<1>4. \A t, u \in D : <<t, u>> \in R <=> \/ first(t) > first(u)
                                         \/ first(t) = first(u) /\ (second(t) > second(u) \/ (second(t) = second(u) /\ third(t) >= third(u)))
  BY FitterIs
<1>5. Comparable(D, R)
  <2> HIDE DEF D, R, first, second, third
  <2>1. ASSUME NEW x \in D, NEW y \in D PROVE <<x, y>> \in R \/ <<y, x>> \in R
    <3>1. first(x) \in Int /\ second(x) \in Int /\ third(x) \in Int /\ first(y) \in Int /\ second(y) \in Int /\ third(y) \in Int
      BY <1>3
    <3>2. QED BY <1>4, <3>1
  <2>2. ASSUME NEW x \in D, NEW y \in D, NEW z \in D, <<x, y>> \in R, <<y, z>> \in R PROVE <<x, z>> \in R
    <3>1. /\ first(x) \in Int /\ second(x) \in Int /\ third(x) \in Int /\ first(y) \in Int /\ second(y) \in Int
          /\ third(y) \in Int /\ first(z) \in Int /\ second(z) \in Int /\ third(z) \in Int
      BY <1>3
    <3>2. \/ first(x) > first(y)
          \/ first(x) = first(y) /\ (second(x) > second(y) \/ (second(x) = second(y) /\ third(x) >= third(y)))
      BY <1>4, <2>2
    <3>3. \/ first(y) > first(z)
          \/ first(y) = first(z) /\ (second(y) > second(z) \/ (second(y) = second(z) /\ third(y) >= third(z)))
      BY <1>4, <2>2
    <3>4. \/ first(x) > first(z)
          \/ first(x) = first(z) /\ (second(x) > second(z) \/ (second(x) = second(z) /\ third(x) >= third(z)))
      BY ONLY <3>1, <3>2, <3>3
    <3>5. QED BY <1>4, <3>4
  <2>3. QED BY <2>1, <2>2 DEF Comparable
<1>6. PICK m \in D : \A u \in D : <<m, u>> \in R
  <2> HIDE DEF D, R
  <2>1. QED BY <1>1, <1>5, Best
<1>7. Fittest # {} /\ Fittest \subseteq D BY <1>6
<1>8. IsFiniteSet(Fittest) /\ Fittest \subseteq Int BY <1>1, <1>7, FS_Subset
<1>9. Ground(metric, tables) = Min(Fittest) BY DEF Ground
<1>10. Min(Fittest) \in Fittest
  <2> HIDE DEF Fittest
  <2>1. QED BY <1>7, <1>8, MinIs
<1>11. QED BY <1>9, <1>10

LEMMA MetricIsRead ==
  ASSUME NEW C, NEW tables \in Seq([columns : SUBSET C, view : BOOLEAN]), NEW metric, Metric(metric)
  PROVE  MetricIsReadFromOneTable(metric, tables)
<1> DEFINE able == {t \in DOMAIN tables : \A r \in metric.named : Carries(tables[t], r)}
           g == Ground(metric, tables)
<1>1. SUFFICES /\ (Missing(metric, tables) = {}) <=> able # {}
               /\ able # {} => /\ g \in able
                               /\ (\E t \in able : tables[t].view) => tables[g].view
  BY DEF MetricIsReadFromOneTable, Carries, Binds
<1>2. CASE tables = <<>>
  <2>1. able = {} BY <1>2
  <2>2. Missing(metric, tables) = metric.named BY <1>2 DEF Missing
  <2>3. QED BY <2>1, <2>2 DEF Metric
<1>3. CASE tables # <<>>
  <2>1. g \in DOMAIN tables /\ \A u \in DOMAIN tables : Fitter(tables[g], tables[u], metric) BY <1>3, GroundIsFittest
  <2> HIDE DEF g
  <2>2. Missing(metric, tables) = {} <=> g \in able BY <1>3, <2>1 DEF Missing, g
  <2>3. ASSUME NEW t \in able PROVE g \in able /\ (tables[t].view => tables[g].view)
    <3>1. t \in DOMAIN tables /\ Fitter(tables[g], tables[t], metric) BY <2>1
    <3>2. IsFiniteSet(metric.required) /\ IsFiniteSet(metric.named) BY FS_Subset DEF Metric
    <3>3. \A r \in metric.required : Carries(tables[t], r) BY DEF Metric
    <3>4. Covered(tables[t], metric.required) = Cardinality(metric.required)
          /\ Covered(tables[t], metric.named) = Cardinality(metric.named)
      BY <3>2, <3>3, CoveredIs
    <3>5. Covered(tables[g], metric.required) <= Cardinality(metric.required)
          /\ Covered(tables[g], metric.required) \in Nat /\ Cardinality(metric.required) \in Nat
          /\ Covered(tables[g], metric.named) <= Cardinality(metric.named)
          /\ Covered(tables[g], metric.named) \in Nat /\ Cardinality(metric.named) \in Nat
      BY <3>2, CoveredIs
    <3>6. Covered(tables[g], metric.named) = Cardinality(metric.named)
          /\ RoleScore(tables[g], metric)[3] >= RoleScore(tables[t], metric)[3]
      BY <3>1, <3>4, <3>5, FitterIs
    <3>7. g \in able BY <2>1, <3>2, <3>6, CoveredIs
    <3>8. RoleScore(tables[t], metric)[3] = (IF tables[t].view THEN 1 ELSE 0)
          /\ RoleScore(tables[g], metric)[3] = (IF tables[g].view THEN 1 ELSE 0)
      BY DEF RoleScore
    <3>9. QED BY <3>6, <3>7, <3>8
  <2>4. QED BY <2>2, <2>3
<1>4. QED BY <1>2, <1>3

------------------------------------------------------------------------------
(* What is offered is in the files, so a word that was answered is not asked. *)
LEMMA FindIs ==
  ASSUME NEW text, NEW files, NEW picked
  PROVE  LET found == FindAmbiguity(text, files, picked)
         IN \/ /\ found.term = "none" /\ found.options = {}
               /\ \A i \in 1..2 : ~Asked(text, files, picked, Terms[i])
            \/ \E i \in 1..2 : /\ found.term = Terms[i] /\ found.options = Candidates(Terms[i], files)
                               /\ Asked(text, files, picked, Terms[i])
<1> DEFINE asked == {i \in DOMAIN Terms : Asked(text, files, picked, Terms[i])}
<1>1. DOMAIN Terms = 1..2 BY DEF Terms
<1>2. CASE asked = {} BY <1>1, <1>2 DEF FindAmbiguity
<1>3. CASE asked # {}
  <2>1. asked \subseteq 1..2 BY <1>1
  <2>2. IsFiniteSet(asked) /\ asked \subseteq Int
    <3>1. 1 \in Int /\ 2 \in Int /\ 1..2 \subseteq Int OBVIOUS
    <3>2. IsFiniteSet(1..2) BY ONLY <3>1, FS_Interval
    <3>3. QED BY <2>1, <3>1, <3>2, FS_Subset
  <2>3. Min(asked) \in asked
    <3> HIDE DEF asked
    <3>1. QED BY <1>3, <2>2, MinIs
  <2>4. QED BY <1>1, <1>3, <2>3 DEF FindAmbiguity
<1>4. QED BY <1>2, <1>3

LEMMA AsksOnce ==
  ASSUME NEW text, NEW files
  PROVE  AskedOnce(text, files)
<1> DEFINE first == FindAmbiguity(text, files, <<>>)
<1> SUFFICES ASSUME NEW option \in first.options
             PROVE  LET second == FindAmbiguity(text, files, [t \in {first.term} |-> option])
                    IN /\ second.term # first.term /\ ~files[option[1]].stacked
                       /\ \A other \in second.options :
                            FindAmbiguity(text, files, [t \in {first.term, second.term} |-> IF t = first.term THEN option ELSE other]).term = "none"
  BY DEF AskedOnce
<1> DEFINE once == [t \in {first.term} |-> option]
           second == FindAmbiguity(text, files, once)
<1>1. PICK i \in 1..2 : first.term = Terms[i] /\ first.options = Candidates(Terms[i], files) BY FindIs
<1>2. IsReal(option, files) /\ ~files[option[1]].stacked BY <1>1 DEF Candidates, IsReal
<1>3. Terms[1] # Terms[2] /\ Terms[1] # "none" /\ Terms[2] # "none" BY DEF Terms
<1> HIDE DEF first
<1>4. ~Asked(text, files, once, first.term) BY <1>2 DEF Asked
<1> HIDE DEF once
<1>5. second.term # first.term BY <1>1, <1>3, <1>4, FindIs
<1>6. ASSUME NEW other \in second.options
      PROVE  FindAmbiguity(text, files, [t \in {first.term, second.term} |-> IF t = first.term THEN option ELSE other]).term = "none"
  <2> DEFINE both == [t \in {first.term, second.term} |-> IF t = first.term THEN option ELSE other]
  <2>1. PICK j \in 1..2 : second.term = Terms[j] /\ second.options = Candidates(Terms[j], files) BY FindIs
  <2>2. IsReal(other, files) BY <2>1 DEF Candidates, IsReal
  <2> HIDE DEF second
  <2>3. ~Asked(text, files, both, first.term) BY <1>2 DEF Asked
  <2>4. ~Asked(text, files, both, second.term) BY <1>5, <2>2 DEF Asked
  <2>5. \A k \in 1..2 : Terms[k] = first.term \/ Terms[k] = second.term BY <1>1, <1>5, <2>1
  <2> HIDE DEF both
  <2>6. \A k \in 1..2 : ~Asked(text, files, both, Terms[k]) BY <2>3, <2>4, <2>5
  <2>7. FindAmbiguity(text, files, both).term = "none" BY <2>6, FindIs
  <2>8. QED BY <2>7 DEF both
<1>7. QED BY <1>2, <1>5, <1>6 DEF once

(* Every metric named is defined, from one table, and a doubt is asked about  *)
(* once.                                                                      *)
THEOREM QuestionsAreRight == Spec => []QuestionsHold
<1>1. AnInput => QuestionsHold
  <2>1. SUFFICES ASSUME AnInput PROVE QuestionsHold OBVIOUS
  <2>2. ASSUME question = "naming" PROVE EveryMetricNamedIsDefined(input.text, input.glossary)
    <3>1. input.text \in Seq(Words) /\ input.glossary \in [DOMAIN input.glossary -> SUBSET Seq(Words)]
      BY <2>1, <2>2, QuestionsAssumption DEF AnInput
    <3>2. QED BY <3>1, LongestIsGiven
  <2>3. ASSUME question = "metric" PROVE MetricIsReadFromOneTable(input.metric, input.tables)
    <3>1. Metric(input.metric) /\ input.tables \in Seq([columns : SUBSET RoleColumns, view : BOOLEAN])
      BY <2>1, <2>3, QuestionsAssumption DEF AnInput
    <3>2. QED BY <3>1, MetricIsRead
  <2>4. ASSUME question = "asking" PROVE AskedOnce(input.text, input.files) BY AsksOnce
  <2>5. QED BY <2>2, <2>3, <2>4 DEF QuestionsHold
<1>2. QED BY <1>1, OnlyInputs, PTL
==============================================================================
