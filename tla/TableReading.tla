----------------------------- MODULE TableReading -----------------------------
(* From the text grid of an uploaded file to a table: the limits of the       *)
(* readers (backend/app/ingest/readers.py), the header row and the trailing   *)
(* totals (header.py), the names of the columns (cleaning.py) and the order   *)
(* in which one sheet, and one file, is put together (ingest/__init__.py).    *)
(* A grid is a sequence of rows of one width; a cell is a word (its spelling  *)
(* reduced to a model value), a number or a date, a total label, or blank.    *)
EXTENDS Integers, Sequences, FiniteSets, SequencesExt, FiniteSetsExt

Blank == "blank"
Number == "12"
TotalLabel == "total"
IsNull(cell) == cell = Blank
IsWording(cell) == cell # Number

Row(width, cells) == [1..width -> cells]
Filled(row) == {i \in DOMAIN row : ~IsNull(row[i])}
Width(grid) == Max({0} \cup {Len(r) : r \in ToSet(grid)})

------------------------------------------------------------------------------
(* readers.py: a sheet is a sequence of rows of any lengths.  _bounded stops   *)
(* at the file's remaining budget of rows and cells, before padding.          *)
(* limits: the columns, rows and cells a file may have.                       *)
WidthUpTo(rows, n) == Max({Len(rows[i]) : i \in 1..n})

\* mutant: the width of this row, not of the widest row so far
WithinBudgetOfOwnRow(rows, n, rowsLeft, cellsLeft) ==
  n <= rowsLeft /\ Len(rows[n]) * n <= cellsLeft
WithinBudget(rows, n, rowsLeft, cellsLeft) ==
  n <= rowsLeft /\ WidthUpTo(rows, n) * n <= cellsLeft

Readable(rows, limits, rowsLeft, cellsLeft) ==
  \A n \in 1..Len(rows) :
    Len(rows[n]) <= limits.columns /\ WithinBudget(rows, n, rowsLeft, cellsLeft)

Pad(rows) ==
  [i \in 1..Len(rows) |->
     [j \in 1..Width(rows) |-> IF j <= Len(rows[i]) THEN rows[i][j] ELSE Blank]]

Size(grid) == Width(grid) * Len(grid)

(* _read_workbook: every sheet may use what the others left.  A text file is  *)
(* a workbook of one sheet.                                                   *)
RowsOf(sheets, n) == SumFunctionOnSet([s \in 1..Len(sheets) |-> Len(sheets[s])], 1..n)
CellsOf(sheets, n) == SumFunctionOnSet([s \in 1..Len(sheets) |-> Size(sheets[s])], 1..n)

HasValue(grid) == \E r \in ToSet(grid) : Filled(r) # {}

ReadsAll(sheets, limits) ==
  /\ \A n \in 1..Len(sheets) :
       Readable(sheets[n], limits, limits.rows - RowsOf(sheets, n - 1),
                limits.cells - CellsOf(sheets, n - 1))
  /\ \E g \in ToSet(sheets) : HasValue(g)

------------------------------------------------------------------------------
(* header.py.  A score is a fraction: full * wording * distinct.              *)
InOrder(S) == [k \in 1..Cardinality(S) |-> CHOOSE x \in S : Cardinality({y \in S : y < x}) = k - 1]

DropEmptyColumns(grid) ==
  LET Cell(row, j) == IF j <= Len(row) THEN row[j] ELSE Blank
      keep == InOrder({j \in 1..Width(grid) : \E r \in ToSet(grid) : ~IsNull(Cell(r, j))})
  IN [i \in 1..Len(grid) |-> [j \in 1..Len(keep) |-> Cell(grid[i], keep[j])]]

Score(row, width) ==
  LET n == Cardinality(Filled(row))
      wording == Cardinality({i \in Filled(row) : IsWording(row[i])})
      distinct == Cardinality({row[i] : i \in Filled(row)})
  IN IF n = 0 \/ 2 * n < width THEN [num |-> 0, den |-> 1]
     ELSE [num |-> wording * distinct, den |-> width * n]

(* x >= the tenths of y: 0.7 for a header close to the best.                  *)
AtLeast(x, tenths, y) == 10 * x.num * y.den >= tenths * y.num * x.den

FirstWhere(S, default) == IF S = {} THEN default ELSE Min(S)

CloseToBest(score, best) == AtLeast(score, 7, best)

SearchRows == 15
HeaderRow(grid) ==
  LET top == 1..Min({SearchRows, Len(grid)})
      score == [i \in top |-> Score(grid[i], Width(grid))]
      best == score[CHOOSE i \in top : \A j \in top : AtLeast(score[i], 10, score[j])]
  IN IF grid = <<>> THEN 1
     ELSE IF best.num = 0 THEN FirstWhere({i \in top : Filled(grid[i]) # {}}, 1)
     ELSE Min({i \in top : CloseToBest(score[i], best)})

(* A blank header cell takes the name above it, when the row above names at   *)
(* least two columns.  Cells too long to be a name are not in the model.      *)
HeaderCells(grid, h) ==
  IF h = 1 \/ Cardinality(Filled(grid[h - 1])) < 2 THEN grid[h]
  ELSE [j \in DOMAIN grid[h] |-> IF IsNull(grid[h][j]) THEN grid[h - 1][j] ELSE grid[h][j]]

IsTotalRow(row) == Filled(row) # {} /\ row[Min(Filled(row))] = TotalLabel
IsNote(row) == Cardinality(Filled(row)) = 1 /\ Len(row) >= 3

(* The rows from here down are totals and the notes under them.               *)
IsFooter(rows, i) == \A j \in i..Len(rows) : IsTotalRow(rows[j]) \/ IsNote(rows[j])

DropFooterTotals(rows) ==
  LET cut == FirstWhere({i \in 1..Len(rows) : IsTotalRow(rows[i]) /\ IsFooter(rows, i)}, Len(rows) + 1)
  IN [rows |-> SubSeq(rows, 1, cut - 1),
      totals |-> Cardinality({i \in cut..Len(rows) : IsTotalRow(rows[i])}),
      notes |-> Cardinality({i \in cut..Len(rows) : ~IsTotalRow(rows[i])})]

CountInnerTotals(rows) == Cardinality({i \in 1..Len(rows) : IsTotalRow(rows[i])})

------------------------------------------------------------------------------
(* normalise_names and _unique_table_name: a base name, or base_2, base_3...  *)
(* A name is a sequence of words and numbers, so a header that already reads  *)
(* "pay_2" is the second copy of "pay"; a header with no usable word is named *)
(* by its place.                                                              *)
Copy(base, c) == IF c = 1 THEN base ELSE Append(base, c)

\* mutant: the copies are counted, not looked up
UniqueByCount(base, taken) ==
  Copy(base, 1 + Cardinality({t \in taken : t = base \/ \E c \in 2..9 : t = Copy(base, c)}))
Unique(base, taken) ==
  Copy(base, Min({c \in 1..(Cardinality(taken) + 1) : Copy(base, c) \notin taken}))

BaseName(header, position) ==
  IF IsNull(header) \/ header = Number THEN <<"column", position>>
  ELSE IF header = "pay_2" THEN <<"pay", 2>>
  ELSE <<header>>

ColumnNames(headers) ==
  LET named[n \in 0..Len(headers)] ==
        IF n = 0 THEN <<>>
        ELSE Append(named[n - 1], Unique(BaseName(headers[n], n), ToSet(named[n - 1])))
  IN named[Len(headers)]

(* _build_table: NoTable for a sheet without a data row.                      *)
NoTable == [names |-> <<>>, rows |-> <<>>, receipt |-> [skipped |-> 0, totals |-> 0, notes |-> 0, inner |-> 0]]

BuildTable(raw) ==
  LET grid == DropEmptyColumns(raw)
      h == HeaderRow(grid)
      data == InOrder({i \in (h + 1)..Len(grid) : Filled(grid[i]) # {}})
      body == DropFooterTotals([k \in DOMAIN data |-> grid[data[k]]])
  IN IF body.rows = <<>> THEN NoTable
     ELSE [names |-> ColumnNames(HeaderCells(grid, h)),
           rows |-> body.rows,
           receipt |-> [skipped |-> h - 1, totals |-> body.totals, notes |-> body.notes,
                        inner |-> CountInnerTotals(body.rows)]]

(* ingest_file: the sheets with data, under table names nobody else has.  A   *)
(* multi-sheet file names its tables after the sheets that hold something.    *)
Hint(stem, sheets, n) ==
  IF Cardinality({s \in 1..Len(sheets) : HasValue(sheets[s])}) <= 1 THEN <<stem>> ELSE <<stem, n>>

IngestFile(stem, sheets, taken) ==
  LET built[n \in 0..Len(sheets)] ==
        IF n = 0 THEN <<>>
        ELSE LET table == BuildTable(sheets[n])
                 names == taken \cup {t.name : t \in ToSet(built[n - 1])}
             IN IF table = NoTable THEN built[n - 1]
                ELSE Append(built[n - 1], [name |-> Unique(Hint(stem, sheets, n), names),
                                           table |-> table])
  IN built[Len(sheets)]

------------------------------------------------------------------------------
(* Properties of every grid, checked over the small ones.                     *)

(* detect_header_row, comment at CLOSE_TO_BEST: "a header with a blank cell   *)
(* or a repeated name still scores this well".  Under titles of one cell, a   *)
(* header of words with one cell blank or repeated is found, even when every  *)
(* cell of the data below it is a word too.                                   *)
IsHeaderLike(row) ==
  /\ \A i \in Filled(row) : IsWording(row[i]) /\ row[i] # TotalLabel
  /\ Cardinality({row[i] : i \in Filled(row)}) >= Len(row) - 1
IsTitle(row) == Cardinality(Filled(row)) <= 1

HeaderIsFound(grid, h) ==
  IsHeaderLike(grid[h]) /\ (\A i \in 1..(h - 1) : IsTitle(grid[i])) => HeaderRow(grid) = h

(* "Both double-count": after the footer is dropped no total ends the table,  *)
(* every row dropped was a total or a sign-off under one, and what is left    *)
(* and what the receipt counts are all the rows there were.                   *)
FooterIsOnlyTotals(rows) ==
  LET kept == DropFooterTotals(rows)
  IN /\ IsPrefix(kept.rows, rows)
     /\ Len(kept.rows) + kept.totals + kept.notes = Len(rows)
     /\ kept.rows # <<>> => ~IsTotalRow(Last(kept.rows))
     /\ kept.totals = 0 => kept.notes = 0
     /\ \A i \in (Len(kept.rows) + 1)..Len(rows) : IsTotalRow(rows[i]) \/ IsNote(rows[i])
     /\ \A i \in 1..Len(rows) :
          IsTotalRow(rows[i]) /\ (\A j \in (i + 1)..Len(rows) : IsTotalRow(rows[j]) \/ IsNote(rows[j]))
            => i > Len(kept.rows)

(* "All three limits are per file, so a workbook cannot multiply them": what  *)
(* is in memory once every accepted sheet is padded stays inside the limits.  *)
MemoryIsBounded(sheets, limits) ==
  LET padded == [s \in 1..Len(sheets) |-> Len(Pad(sheets[s])) * Width(Pad(sheets[s]))]
  IN ReadsAll(sheets, limits) =>
       RowsOf(sheets, Len(sheets)) <= limits.rows /\ SumFunctionOnSet(padded, 1..Len(sheets)) <= limits.cells

(* Two columns of a table, and two tables of a session, never share a name.   *)
NamesAreDistinct(stem, sheets, taken) ==
  LET tables == IngestFile(stem, sheets, taken)
  IN /\ \A i, j \in 1..Len(tables) : i # j => tables[i].name # tables[j].name
     /\ \A t \in ToSet(tables) : t.name \notin taken /\ IsInjective(t.table.names)
=============================================================================
