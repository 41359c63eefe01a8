----------------------------- MODULE ResultChecks -----------------------------
(* Answers that run fine and are still wrong (backend/app/query/verify.py):   *)
(* joins that repeat rows, empty cells that are skipped, two results that say *)
(* the same, and a period the question names and the query ignores.           *)
EXTENDS Integers, Sequences, FiniteSets, SequencesExt, FiniteSetsExt

CONSTANT MaxMappings   \* the mappings of columns that are tried before it gives up, 200
ASSUME MappingsAssumption == MaxMappings \in Nat

Null == 0 \* an empty cell; the other values are positive

------------------------------------------------------------------------------
(* fan_out_risks.  A query: its equality joins and its aggregated columns, as *)
(* the guard reports them.  unique: the columns the profile calls unique.     *)
Joins == [lt : STRING, lc : STRING, rt : STRING, rc : STRING]
InflatedByRepeats == {"sum", "avg", "count"}

PairsOf(joins) == {{j.lt, j.rt} : j \in {j \in joins : j.lt # j.rt}}
KeysOf(joins, pair) == {j \in joins : {j.lt, j.rt} = pair}
KeyColumn(join, table) == IF join.lt = table THEN join.lc ELSE join.rc

\* mutant: any unique column of the table, whatever the join is on
UniqueOnAny(table, keys, unique) == \E t \in unique : t[1] = table
UniqueSide(table, keys, unique) == \E j \in keys : <<table, KeyColumn(j, table)>> \in unique

FanOutRisks(query, unique) ==
  UNION {LET keys == KeysOf(query.joins, pair)
             one == {t \in pair : UniqueSide(t, keys, unique)}
         IN CASE one = pair -> {}
              [] one = {} -> IF Cardinality(keys) = 1 THEN {<<"many to many", pair>>} ELSE {}
              [] OTHER -> {<<"repeated", a>> : a \in {a \in query.aggregated : a.table \in one /\ a.func \in InflatedByRepeats}} :
         pair \in PairsOf(query.joins)}

(* The database's own join: the pairs of rows of two tables that agree on     *)
(* every key.  An empty key matches nothing.                                  *)
Joined(tables, left, right, keys) ==
  {p \in (DOMAIN tables[left]) \X (DOMAIN tables[right]) :
     \A j \in keys : LET a == tables[left][p[1]][KeyColumn(j, left)]
                         b == tables[right][p[2]][KeyColumn(j, right)]
                     IN a # Null /\ a = b}

IsUnique(rows, column) ==
  /\ rows # <<>>
  /\ \A i \in DOMAIN rows : rows[i][column] # Null
  /\ \A i, k \in DOMAIN rows : i # k => rows[i][column] # rows[k][column]
UniqueColumns(tables) ==
  {<<t, c>> : t \in DOMAIN tables, c \in {"k", "m"}} \cap
  {p \in (DOMAIN tables) \X {"k", "m"} : IsUnique(tables[p[1]], p[2])}

(* "Report (a) N:M joins and (b) SUM/AVG/COUNT over a column of the unique    *)
(* side of a 1:N join; empty when safe."  When two tables are joined and no   *)
(* risk is reported, no row of the aggregated table is counted twice.  A join *)
(* on several keys neither of which is unique is outside the promise, and so  *)
(* is a third table (README).                                                 *)
QuietJoinCountsOnce(tables, query) ==
  LET unique == UniqueColumns(tables)
      joined == Joined(tables, "a", "b", query.joins)
      certain == Cardinality(query.joins) = 1 \/ \E t \in {"a", "b"} : UniqueSide(t, query.joins, unique)
  IN certain /\ FanOutRisks(query, unique) = {} =>
       \A agg \in query.aggregated : agg.func \in InflatedByRepeats =>
         LET side == IF agg.table = "a" THEN 1 ELSE 2
         IN \A p, q \in joined : p # q => p[side] # q[side]

------------------------------------------------------------------------------
(* null_caveats.  null: the share of empty cells in a column, in percent.     *)
Threshold == 5
EmptyIsMeaningful == {"exit_date"}
Touched(query, members) == query.tables \cup UNION {members[t] : t \in query.tables \cap DOMAIN members}
NullCaveats(query, columns, duplicates, members) ==
  {c \in query.columns \cap DOMAIN columns : columns[c].role \notin EmptyIsMeaningful /\ columns[c].null >= Threshold}
  \cup {t \in Touched(query, members) \cap DOMAIN duplicates : duplicates[t] > 0}

------------------------------------------------------------------------------
(* results_equivalent.  A cell is its kind (NumberKind or another) and value; *)
(* rows are compared as multisets, columns by their values.                   *)
NumberKind == 2
\* A number is in hundredths; a tie is rounded to the even digit.
Decimals(n) == IF n % 100 = 0 THEN 0 ELSE IF n % 10 = 0 THEN 1 ELSE 2
OneDecimal(n) ==
  LET down == n \div 10
  IN IF n % 10 > 5 \/ (n % 10 = 5 /\ down % 2 = 1) THEN down + 1 ELSE down
SameWhenRounded(m, n) ==
  Decimals(m) > 0 /\ Decimals(n) > 0 /\ (Decimals(m) = 1 \/ Decimals(n) = 1) /\ OneDecimal(m) = OneDecimal(n)
(* math.isclose: within one part in RelTol of the larger.  Its absolute       *)
(* tolerance of 1e-9 is below a hundredth.                                    *)
RelTol == 1000000
Magnitude(n) == IF n < 0 THEN -n ELSE n
IsClose(m, n) == Magnitude(m - n) <= (IF Magnitude(m) < Magnitude(n) THEN Magnitude(n) ELSE Magnitude(m)) \div RelTol
SameCell(x, y) ==
  \/ x = y
  \/ x[1] = NumberKind /\ y[1] = NumberKind /\ (IsClose(x[2], y[2]) \/ SameWhenRounded(x[2], y[2]))

CellBelow(x, y) == x[1] < y[1] \/ (x[1] = y[1] /\ x[2] < y[2])
Below(xs, ys) ==
  \E i \in DOMAIN ys :
    /\ \A j \in 1..(i - 1) : j \in DOMAIN xs /\ xs[j] = ys[j]
    /\ i \in DOMAIN xs => CellBelow(xs[i], ys[i])

(* Text and dates lead the sort key, numbers follow.                          *)
Selected(row, numbers) ==
  LET kept == {j \in DOMAIN row : (row[j][1] = NumberKind) = numbers}
  IN [n \in 1..Cardinality(kept) |-> row[CHOOSE j \in kept : Cardinality({k \in kept : k < j}) = n - 1]]
SortKey(row) == <<Selected(row, FALSE), Selected(row, TRUE)>>
RowBelow(x, y) ==
  LET a == SortKey(x) b == SortKey(y)
  IN Below(a[1], b[1]) \/ (a[1] = b[1] /\ Below(a[2], b[2]))

(* Where a row stands when all are sorted; equal keys keep their order.       *)
SortedPlace(rows, i) ==
  Cardinality({k \in DOMAIN rows : RowBelow(rows[k], rows[i]) \/ (k <= i /\ ~RowBelow(rows[i], rows[k]))})
SameRows(xs, ys) ==
  LET a == [i \in DOMAIN xs |-> SortedPlace(xs, i)]
      b == [k \in DOMAIN ys |-> SortedPlace(ys, k)]
  IN \A i \in DOMAIN xs, k \in DOMAIN ys : a[i] = b[k] => \A j \in DOMAIN xs[i] : SameCell(xs[i][j], ys[k][j])

Project(rows, mapping) == [i \in DOMAIN rows |-> [j \in DOMAIN mapping |-> rows[i][mapping[j]]]]
Columns(rows) == IF rows = <<>> THEN 0 ELSE Len(rows[1])

\* mutant: columns that agree one by one are enough
AgreeColumnwise(small, large, mapping) ==
  \A j \in DOMAIN mapping : SameRows(Project(small, <<j>>), Project(large, <<mapping[j]>>))
AgreeOn(small, large, mapping) == SameRows(small, Project(large, mapping))

(* _injective: every way to give each narrow column its own wide one of the   *)
(* same values, in the order in which they are tried.                         *)
Mappings(small, large) ==
  {m \in [1..Columns(small) -> 1..Columns(large)] :
     IsInjective(m) /\ \A i \in DOMAIN m : SameRows(Project(small, <<i>>), Project(large, <<m[i]>>))}
EarlierMapping(k, m) == \E i \in DOMAIN m : k[i] < m[i] /\ \A j \in 1..(i - 1) : k[j] = m[j]
TriedMappings(mappings) == {m \in mappings : Cardinality({k \in mappings : EarlierMapping(k, m)}) < MaxMappings}

ResultsEquivalent(a, b) ==
  LET small == IF Columns(b) < Columns(a) THEN b ELSE a
      large == IF Columns(b) < Columns(a) THEN a ELSE b
  IN Len(a) = Len(b) /\ \E m \in TriedMappings(Mappings(small, large)) : AgreeOn(small, large, m)

(* Agreement is what the badge rests on.  Results that agree have, column for *)
(* column, the same rows as often, up to the rounding and the tolerance of a  *)
(* cell; and results that differ only in the order of rows and of columns, or *)
(* by one more column, agree, when their sort keys tell their rows apart      *)
(* (README) and no more mappings are left to try than are tried.              *)
KeysTellRows(rows) == \A i, k \in DOMAIN rows : SortKey(rows[i]) = SortKey(rows[k]) => rows[i] = rows[k]
SameBag(xs, ys, exactly) ==
  \E p \in {q \in [DOMAIN xs -> DOMAIN ys] : IsInjective(q)} :
    \A i \in DOMAIN xs : \A j \in DOMAIN xs[i] :
      xs[i][j] = ys[p[i]][j] \/ (~exactly /\ SameCell(xs[i][j], ys[p[i]][j]))

AgreementIsReal(narrow, wide) ==
  LET mappings == {m \in [1..Columns(narrow) -> 1..Columns(wide)] : IsInjective(m)}
      alike(exactly) == Len(narrow) = Len(wide) /\ \E m \in mappings : SameBag(narrow, Project(wide, m), exactly)
  IN /\ ResultsEquivalent(narrow, wide) => alike(FALSE)
     /\ KeysTellRows(narrow) /\ alike(TRUE) /\ Cardinality(Mappings(narrow, wide)) <= MaxMappings
          => ResultsEquivalent(narrow, wide)

------------------------------------------------------------------------------
(* period_risks.  A month is counted from year zero.  A match: its quarter (0 *)
(* for none), and a fiscal year, a month of a year, or a year.                *)
FourDigit(n) == IF n < 100 THEN n + 2000 ELSE n
NoPeriod == <<0, -1>>

FiscalStart(match) == FourDigit(match.ends) - 1

ResolvePeriod(match) ==
  LET year == IF match.kind = "fy" THEN FiscalStart(match) ELSE match.year
      month == IF match.quarter # 0 THEN 4 + 3 * (match.quarter - 1)
               ELSE CASE match.kind = "fy" -> 4 [] match.kind = "month" -> match.month [] OTHER -> 1
      months == IF match.quarter # 0 THEN 3 ELSE IF match.kind = "month" THEN 1 ELSE 12
      start == year * 12 + month - 1
  IN IF \/ match.kind = "fy" /\ match.begins # 0 /\ FourDigit(match.begins) + 1 # FourDigit(match.ends)
        \/ match.kind = "month" /\ match.quarter # 0
     THEN NoPeriod ELSE <<start, start + months - 1>>

(* The one period all matches name, or none.                                  *)
NamedPeriod(matches) ==
  LET found == {ResolvePeriod(m) : m \in matches}
  IN IF NoPeriod \in found \/ Cardinality(found) # 1 THEN NoPeriod ELSE CHOOSE p \in found : TRUE

(* spans: the first and last month in the date columns of each table that has *)
(* any; dated: the tables a date of which the query uses; measured: those the *)
(* number comes from, or all.                                                 *)
PeriodRisks(matches, tables, spans, dated, aggregated) ==
  LET period == NamedPeriod(matches)
      measured == IF aggregated \cap tables = {} THEN tables ELSE aggregated \cap tables
      within(t) == period[1] <= spans[t][1] /\ spans[t][2] <= period[2]
      known == tables \cap DOMAIN spans
  IN IF period = NoPeriod \/ (\E t \in known : within(t)) THEN {}
     ELSE {t \in known \cap measured : t \notin dated}

(* "Reading one wrong would put a false caveat on a right answer."  A table   *)
(* is named only if it has a month whose fiscal or calendar year, quarter or  *)
(* month is not the one the question names.                                   *)
FiscalYear(m) == IF m % 12 >= 3 THEN m \div 12 + 1 ELSE m \div 12
FiscalQuarter(m) == IF m % 12 >= 3 THEN (m % 12) \div 3 ELSE 4
IsNamed(match, m) ==
  /\ match.kind = "fy" => FiscalYear(m) = FourDigit(match.ends)
  /\ match.kind = "month" => m = 12 * match.year + match.month - 1
  /\ match.kind = "year" =>
       IF match.quarter = 0 THEN m \div 12 = match.year ELSE FiscalYear(m) = match.year + 1
  /\ match.quarter # 0 => FiscalQuarter(m) = match.quarter

CaveatIsTrue(match, span, dated) ==
  LET named == {m \in (12 * 2022)..(12 * 2028) : IsNamed(match, m)}
      risks == PeriodRisks({match}, {"t"}, [t \in {"t"} |-> span], dated, {})
  IN risks # {} => ~(span[1]..span[2] \subseteq named)
=============================================================================
