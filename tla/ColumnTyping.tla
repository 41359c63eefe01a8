----------------------------- MODULE ColumnTyping -----------------------------
(* How a column of text becomes a column of a type                            *)
(* (backend/app/ingest/cleaning.py): codes stay text; then yes/no, percent,   *)
(* date, number, by the share of its values that can be read so; and how the  *)
(* order of day and month is settled once for the whole table.                *)
(* A column is a sequence of cells that are not empty.                        *)
EXTENDS Integers, Sequences, FiniteSets, SequencesExt

(* A numeric date has a first and a second part, a placeholder too: a year    *)
(* that is out of range still says which part is the day.  The other cells    *)
(* are classes.                                                               *)
Unending == {"31/12/9999", "12/31/9999"}
NumericDates == {"3/4", "4/4", "25/4", "4/25"} \cup Unending
Parts == [cell \in NumericDates |->
            CASE cell = "3/4" -> <<3, 4>> [] cell = "4/4" -> <<4, 4>> [] cell = "25/4" -> <<25, 4>>
              [] cell = "4/25" -> <<4, 25>> [] cell = "31/12/9999" -> <<31, 12>> [] cell = "12/31/9999" -> <<12, 31>>]
Classes == {"yes", "45%", "2025-01-31", "31/12/9999", "45658", "12", "1.5", "Rs 12", "1.2L",
            "007", "9876543210", "919876543210", "4111111111111111", "word"}

IsNumericDate(cell) == cell \in NumericDates
Digits == {"45658", "12", "007", "9876543210", "919876543210", "4111111111111111"}
Digit(cell) == CASE cell = "45658" -> 5 [] cell = "12" -> 2 [] cell = "007" -> 3 [] cell = "9876543210" -> 10
                 [] cell = "919876543210" -> 12 [] cell = "4111111111111111" -> 16
Numbers == Digits \cup {"1.5", "Rs 12", "1.2L"}

Count(cells, Test(_)) == Cardinality({i \in 1..Len(cells) : Test(cells[i])})

------------------------------------------------------------------------------
(* infer_dayfirst: the first part above 12 can only be a day, the second only *)
(* the day of a month-first date.  One decision over all columns of a table;  *)
(* each text of a column counts once.                                         *)
\* mutant: no evidence at all reads as evidence for day-first
UndecidedIfUnseen(seen, dayVotes) == seen = 0
Undecided(seen, dayVotes) == seen > 0 /\ dayVotes = 0

InferDayfirst(columns) ==
  LET votes(Test(_)) == Cardinality({v \in (DOMAIN columns) \X UNION {ToSet(columns[k]) : k \in DOMAIN columns} :
                                       v[2] \in ToSet(columns[v[1]]) /\ IsNumericDate(v[2]) /\ Test(Parts[v[2]])})
      day == votes(LAMBDA d : d[1] > 12 /\ d[2] <= 12)
      month == votes(LAMBDA d : d[2] > 12 /\ d[1] <= 12)
      seen == votes(LAMBDA d : TRUE)
  IN IF month > day THEN [dayfirst |-> FALSE, undecidable |-> FALSE]
     ELSE [dayfirst |-> TRUE, undecidable |-> Undecided(seen, day)]

(* _build: a day of a month that has it, here every month has 31 days; a      *)
(* placeholder that can be written so is a date without a day.                *)
NotADate == <<0, 0>>
NoDay == <<0, 1>>
DayAndMonth(cell, dayfirst) == IF dayfirst THEN Parts[cell] ELSE <<Parts[cell][2], Parts[cell][1]>>
ParseDate(cell, dayfirst) ==
  IF IsNumericDate(cell)
  THEN IF DayAndMonth(cell, dayfirst)[2] > 12 THEN NotADate
       ELSE IF cell \in Unending THEN NoDay ELSE DayAndMonth(cell, dayfirst)
  ELSE IF cell = "2025-01-31" THEN <<31, 1>> ELSE NotADate

------------------------------------------------------------------------------
(* infer_column.  name: what its header says it is.                           *)
Name == [identifier : BOOLEAN, money : BOOLEAN, dated : BOOLEAN]

IsCodeColumn(name, cells) ==
  \/ name.identifier
  \/ /\ 100 * Count(cells, LAMBDA c : c \in Digits) >= 95 * Len(cells)
     /\ \/ "007" \in ToSet(cells)
        \/ \E c \in ToSet(cells) \cap Digits : Digit(c) > 15
        \/ /\ ToSet(cells) \subseteq Digits
           /\ Cardinality({Digit(c) : c \in ToSet(cells)}) = 1
           /\ Digit(cells[1]) >= 9
           /\ ~name.money

(* What one reading makes of one cell.  An Excel serial is a date only under  *)
(* a header that speaks of dates and not of money.                            *)
Reads(type, name, cell, dayfirst) ==
  CASE type = "boolean" -> cell = "yes"
    [] type = "percent" -> cell = "45%"
    [] type = "date" -> \/ ParseDate(cell, dayfirst) \notin {NotADate, NoDay}
                        \/ cell = "45658" /\ name.dated /\ ~name.money
    [] type = "number" -> cell \in Numbers

Placeholder(type, cell, dayfirst) == type = "date" /\ ParseDate(cell, dayfirst) = NoDay

Deserves(type, name, cells, dayfirst) ==
  LET considered == Count(cells, LAMBDA c : ~Placeholder(type, c, dayfirst))
  IN /\ considered > 0
     /\ 100 * Count(cells, LAMBDA c : Reads(type, name, c, dayfirst)) >= 95 * considered

NumberType(name, cells) ==
  IF ToSet(cells) \cap {"Rs 12", "1.2L"} # {} \/ name.money THEN "currency"
  ELSE IF "1.5" \in ToSet(cells) THEN "decimal" ELSE "integer"

Order == <<"boolean", "percent", "date", "number">>
InferColumn(name, cells, dayfirst) ==
  IF cells = <<>> \/ IsCodeColumn(name, cells) THEN "text"
  ELSE LET right == {i \in 1..4 : Deserves(Order[i], name, cells, dayfirst)}
           first == Order[CHOOSE i \in right : \A j \in right : i <= j]
       IN IF right = {} THEN "text"
          ELSE IF first = "number" THEN NumberType(name, cells) ELSE first

Reading(type) == IF type \in {"currency", "decimal", "integer"} THEN "number" ELSE type
Unparseable(type, name, cells, dayfirst) ==
  IF type = "text" THEN 0
  ELSE Count(cells, LAMBDA c : ~Reads(Reading(type), name, c, dayfirst))

(* The receipt of a table: the types, what became empty, and whether the      *)
(* dates could be either way round.                                           *)
ReadColumns(names, columns) ==
  LET order == InferDayfirst(columns)
      type == [c \in DOMAIN columns |-> InferColumn(names[c], columns[c], order.dayfirst)]
      dated(c) == type[c] = "date"
                  /\ \E d \in ToSet(columns[c]) : IsNumericDate(d) /\ ParseDate(d, order.dayfirst) \notin {NotADate, NoDay}
  IN [types |-> type, dayfirst |-> order.dayfirst,
      unparseable |-> [c \in DOMAIN columns |-> Unparseable(type[c], names[c], columns[c], order.dayfirst)],
      ambiguous |-> order.undecidable /\ \E c \in DOMAIN columns : dated(c)]

------------------------------------------------------------------------------
(* infer_dayfirst: "03/04 silently read the wrong way moves people between    *)
(* quarters".  In a table whose dates, placeholders too, are all written in   *)
(* one order, a date column is read the wrong way round only if the receipt   *)
(* says so.                                                                   *)
Misread(cell, dayfirst, truth) ==
  /\ IsNumericDate(cell)
  /\ ParseDate(cell, dayfirst) \notin {NotADate, NoDay}
  /\ ParseDate(cell, dayfirst) # ParseDate(cell, truth)

WrittenIn(columns, truth) ==
  \A c \in DOMAIN columns : \A cell \in ToSet(columns[c]) :
    IsNumericDate(cell) => ParseDate(cell, truth) # NotADate

NoDateMisreadInSilence(names, columns, truth) ==
  WrittenIn(columns, truth) =>
    LET read == ReadColumns(names, columns)
    IN \A c \in DOMAIN columns :
         read.types[c] = "date" /\ (\E cell \in ToSet(columns[c]) : Misread(cell, read.dayfirst, truth))
           => read.ambiguous

(* The module's rule: at most one in twenty cells of a converted column is    *)
(* lost (placeholders that could be read apart), and a code keeps its leading *)
(* zeros, and all of its digits, unless most of its column says it is         *)
(* something else.                                                            *)
ConversionsAreDeserved(name, cells, dayfirst) ==
  LET type == InferColumn(name, cells, dayfirst)
      kind == Reading(type)
      lost == Count(cells, LAMBDA c : ~Placeholder(kind, c, dayfirst) /\ ~Reads(kind, name, c, dayfirst))
  IN type # "text" =>
       /\ 20 * lost <= Len(cells)
       /\ ToSet(cells) \cap {"007", "4111111111111111"} # {}
            => 100 * Count(cells, LAMBDA c : c \in Digits) < 95 * Len(cells)
       /\ name.identifier => FALSE
=============================================================================
