----------------------------- MODULE Presentation -----------------------------
(* What the user sees of a result (backend/app/query/presentation.py): which  *)
(* columns are money, how a number is written, and which chart is drawn.      *)
EXTENDS Integers, Sequences, FiniteSets, SequencesExt, FiniteSetsExt

------------------------------------------------------------------------------
(* _is_amount, over the expression a column was selected by.  An expression   *)
(* is the list of its nodes, parts before wholes: an operator, and where its  *)
(* parts are in the list.  below: what was found of the nodes before.         *)
Unitless == {"literal", "count", "corr", "compare"} \* exp.Count and its kind, predicates

DivIsAmount(left, right) == left /\ ~right
AmountOf(node, below) ==
  IF node.op = "column" THEN node.money
  ELSE IF node.op \in Unitless THEN FALSE
  ELSE IF node.op = "div" THEN DivIsAmount(below[node.parts[1]], below[node.parts[2]])
  ELSE IF node.op = "window" THEN below[node.parts[1]] \* not what it is ordered by
  ELSE \E p \in ToSet(node.parts) : below[p]
Amounts(e) ==
  LET found[i \in 0..Len(e)] == IF i = 0 THEN <<>> ELSE Append(found[i - 1], AmountOf(e[i], found[i - 1]))
  IN found[Len(e)]
IsAmount(e) == Amounts(e)[Len(e)]

(* column_kinds.  name: what the column's name ends in; type: DuckDB's.       *)
ColumnKind(type, name, percent, rupees, groupKey, years) ==
  IF type \notin {"integer", "decimal"} THEN type
  ELSE IF name = "_pct" \/ percent THEN "percent"
  ELSE IF rupees THEN "currency"
  ELSE IF type = "integer" /\ (groupKey \/ (name = "year" /\ years)) THEN "text" ELSE type

(* The power of the rupee an expression measures, and whether it measures     *)
(* anything: a sum of unlike things does not.                                 *)
NoUnit == 99
PowerOf(node, below) ==
  IF node.op = "column" THEN (IF node.money THEN 1 ELSE 0)
  ELSE IF node.op \in {"literal", "count", "corr", "compare"} THEN 0
  ELSE IF node.op \in {"sum", "window"} THEN below[node.parts[1]]
  ELSE IF node.op = "add" THEN (IF below[node.parts[1]] = below[node.parts[2]] THEN below[node.parts[1]] ELSE NoUnit)
  ELSE IF NoUnit \in {below[node.parts[1]], below[node.parts[2]]} THEN NoUnit
  ELSE IF node.op = "mul" THEN below[node.parts[1]] + below[node.parts[2]] ELSE below[node.parts[1]] - below[node.parts[2]]
Powers(e) ==
  LET found[i \in 0..Len(e)] == IF i = 0 THEN <<>> ELSE Append(found[i - 1], PowerOf(e[i], found[i - 1]))
  IN found[Len(e)]
InRupees(e) == \A i \in 1..Len(e) : Powers(e)[i] \in {0, 1}

(* "A unit must never be guessed": an expression that measures rupees is      *)
(* shown in rupees, and one that measures nothing in rupees is not.  What is  *)
(* in squares of rupees or per rupee, in any part, is not in the claim.       *)
UnitIsRight(e) == InRupees(e) => (IsAmount(e) <=> Powers(e)[Len(e)] = 1)

------------------------------------------------------------------------------
(* _rupees, in paise: the digits shown and the unit they count.               *)
Lakh == 10000000
Crore == 1000000000
RoundedTo(n, unit) == (n + unit \div 2) \div unit

BelowCrore(paise, hundredths) == hundredths < 10000
Rupees(paise) ==
  IF paise < Lakh THEN [unit |-> 1, digits |-> paise]
  ELSE LET hundredths == RoundedTo(paise, Lakh \div 100)
       IN IF BelowCrore(paise, hundredths) THEN [unit |-> Lakh \div 100, digits |-> hundredths]
          ELSE [unit |-> Crore \div 100, digits |-> RoundedTo(paise, Crore \div 100)]

(* What is shown is the amount to the nearest last digit, never as many as a  *)
(* hundred lakh, and a larger amount never reads as a smaller one.            *)
Read(shown) == shown.unit * shown.digits
AmountsRead(n, m) ==
  /\ 2 * (IF Read(Rupees(n)) > n THEN Read(Rupees(n)) - n ELSE n - Read(Rupees(n))) <= Rupees(n).unit
  /\ Rupees(n).unit = Lakh \div 100 => Rupees(n).digits < 10000
  /\ n <= m => Read(Rupees(n)) <= Read(Rupees(m))

------------------------------------------------------------------------------
(* choose_chart.  kinds: the kind of each column; rows: their values.         *)
CONSTANTS MaxBars, MaxSeries
ASSUME BarsAssumption == MaxBars \in Nat
Measures == {"currency", "percent", "integer", "decimal"}
DistinctIn(rows, c) == Cardinality({rows[i][c] : i \in DOMAIN rows})
Are(kinds, S) == {c \in DOMAIN kinds : kinds[c] \in S}
NoCell == -1

\* mutant: called the top whatever the order
FirstIsTop(rows, c) == TRUE
WithCell(rows, c) == {i \in DOMAIN rows : rows[i][c] # NoCell}
LargestFirst(rows, c) == \* of each two that follow each other
  \A i, j \in WithCell(rows, c) :
    i < j /\ (\A k \in WithCell(rows, c) : k <= i \/ j <= k) => rows[i][c] >= rows[j][c]
BarNote(rows, c) ==
  IF Len(rows) <= MaxBars THEN "none" ELSE IF LargestFirst(rows, c) THEN "top" ELSE "first"

Chart(type, note) == [type |-> type, note |-> note]
ChooseChart(rows, kinds, uniqueNames) ==
  LET measures == Are(kinds, Measures)
      dates == Are(kinds, {"date"})
      labels == Are(kinds, {"text"})
      few == \E x, s \in labels \cup dates : x < s /\ DistinctIn(rows, x) <= MaxBars /\ DistinctIn(rows, s) <= MaxSeries
  IN IF rows = <<>> \/ measures = {} \/ ~uniqueNames THEN Chart("table", "none")
     ELSE IF Len(rows) = 1 THEN Chart("kpi", "none")
     ELSE IF Cardinality(dates) = 1 /\ labels = {} THEN Chart("line", "none")
     ELSE IF Cardinality(labels) = 1 /\ dates = {} /\ Cardinality(measures) = 1 THEN Chart("bar", BarNote(rows, Min(measures)))
     ELSE IF labels # {} /\ Cardinality(labels \cup dates) = 2 /\ Cardinality(measures) = 1 THEN
       IF few THEN Chart("grouped_bar", "none") ELSE Chart("table", "too many")
     ELSE IF Cardinality(measures) = 2 /\ labels \cup dates = {} THEN Chart("scatter", "none")
     ELSE Chart("table", "none")

(* "Say what the chart leaves out, and only claim top when the rows really    *)
(* are sorted."  The browser draws the first bars (external).  Every group is *)
(* drawn or a note says it is not, and of the groups with a figure those that *)
(* are called the top are the largest.                                        *)
ChartIsHonest(rows, kinds) ==
  LET chart == ChooseChart(rows, kinds, TRUE)
      c == Min(Are(kinds, Measures))
  IN chart.type = "bar" =>
       /\ chart.note = "none" => Len(rows) <= MaxBars
       /\ chart.note = "top" => \A i \in WithCell(rows, c), k \in WithCell(rows, c) :
                                  i <= MaxBars /\ MaxBars < k => rows[i][c] >= rows[k][c]
=============================================================================
