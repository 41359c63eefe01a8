-------------------------------- MODULE Profile --------------------------------
(* What the rest of the app may know about a table: profile_table and its     *)
(* helpers (backend/app/profile/__init__.py), personal data (pii.py), roles   *)
(* (roles.py) and the folding of spellings (cleaning.py).  A table is a       *)
(* sequence of rows; a row is a function from columns to values; the empty    *)
(* cell is Empty.                                                             *)
EXTENDS Integers, Sequences, FiniteSets, SequencesExt

------------------------------------------------------------------------------
(* spelling_variants.  A spelling is a record: the word it spells, whether it *)
(* starts with a capital, and the spelling itself, which settles ties.        *)
(* counts: how often each occurs.  "More frequent, then capital, then first". *)
Empty == [word |-> "", capital |-> FALSE, rank |-> 0]

Beats(v, w, counts) ==
  \/ counts[v] > counts[w]
  \/ counts[v] = counts[w] /\ v.capital /\ ~w.capital
  \/ counts[v] = counts[w] /\ v.capital = w.capital /\ v.rank < w.rank

Winner(v, counts) ==
  LET same == {w \in DOMAIN counts : w.word = v.word}
  IN CHOOSE w \in same : \A x \in same \ {w} : Beats(w, x, counts)

MaxFold == 50
SpellingVariants(counts) ==
  IF Cardinality(DOMAIN counts) > MaxFold THEN <<>>
  ELSE LET variants == {v \in DOMAIN counts : Winner(v, counts) # v}
       IN [v \in variants |-> Winner(v, counts)]

Fold(v, folded) == IF v \in DOMAIN folded THEN folded[v] ELSE v

------------------------------------------------------------------------------
(* detect_pii: values first, then headers, with the numbers' exception.       *)
(* looks: the patterns that at least six tenths of the sampled values match;  *)
(* header: the kind a whole word of the header names; person: a person header.*)
Patterns == <<"email", "phone", "pan", "ifsc", "aadhaar">>
DetectPii(type, looks, header, account, person) ==
  IF type \in {"date", "boolean", "percent"} THEN "none"
  ELSE IF account /\ "account digits" \in looks THEN "bank_account"
  ELSE IF ToSet(Patterns) \cap looks # {}
  THEN LET kind == SelectSeq(Patterns, LAMBDA k : k \in looks)[1]
       IN IF kind = "aadhaar" /\ header = "uan" THEN "uan" ELSE kind
  ELSE IF type # "text" THEN (IF "long number" \in looks THEN header ELSE "none")
  ELSE IF header # "none" THEN header
  ELSE IF person THEN "person_name" ELSE "none"

(* _profile_column: what of a column's values may be shown.                   *)
MaxListed == 30
MayShowRange(type, pii, role) ==
  pii = "none" /\ role # "birth_date" /\ type \in {"integer", "decimal", "currency", "percent", "date"}

Present(rows, c) == {i \in 1..Len(rows) : rows[i][c] # Empty}
Values(rows, c) == {rows[i][c] : i \in Present(rows, c)}
Distinct(rows, c) == Cardinality(Values(rows, c))

ProfileColumn(rows, c, col) ==
  [unique |-> rows # <<>> /\ Cardinality(Present(rows, c)) = Len(rows) /\ Distinct(rows, c) = Len(rows),
   nulls |-> Len(rows) - Cardinality(Present(rows, c)),
   range |-> MayShowRange(col.type, col.pii, col.role) /\ Present(rows, c) # {},
   listed |-> col.pii = "none" /\ col.type \in {"text", "boolean"} /\ Distinct(rows, c) <= MaxListed]

------------------------------------------------------------------------------
(* profile_table: fold the spellings of every category, then drop the exact   *)
(* duplicates if the table has an identifier column, then profile.            *)
(* columns: [name -> [type, pii, role, identifier]].                          *)
\* mutant: personal and identifying columns are folded as well
FoldableAny(col) == col.type = "text"
Foldable(col) == col.type = "text" /\ col.pii = "none" /\ ~col.identifier

CountsOf(rows, c) ==
  [v \in Values(rows, c) |-> Cardinality({i \in 1..Len(rows) : rows[i][c] = v})]

FoldSpellings(rows, columns) ==
  [i \in 1..Len(rows) |->
     [c \in DOMAIN columns |->
        IF Foldable(columns[c]) /\ rows[i][c] # Empty
        THEN Fold(rows[i][c], SpellingVariants(CountsOf(rows, c))) ELSE rows[i][c]]]

FirstOccurrences(rows) ==
  LET kept[i \in 0..Len(rows)] ==
        IF i = 0 THEN <<>>
        ELSE IF \E j \in 1..(i - 1) : rows[j] = rows[i] THEN kept[i - 1] ELSE Append(kept[i - 1], i)
  IN kept[Len(rows)]

ProfileTable(rows, columns) ==
  LET folded == FoldSpellings(rows, columns)
      kept == FirstOccurrences(folded)
      remove == \E c \in DOMAIN columns : columns[c].identifier
      final == IF remove THEN [i \in 1..Len(kept) |-> folded[kept[i]]] ELSE folded
  IN [rows |-> final,
      duplicates |-> Len(folded) - Len(kept),
      removed |-> remove /\ Len(kept) < Len(folded),
      columns |-> [c \in DOMAIN columns |-> ProfileColumn(final, c, columns[c])]]

------------------------------------------------------------------------------
(* Folding and dropping never lose a person: every row of the file is still   *)
(* there, the same in each identifying and personal column, with each         *)
(* category in a spelling of the same word; the receipt counts the rest; and  *)
(* a second look at the result changes nothing.                               *)
SameWord(v, w) == v = w \/ (v # Empty /\ w # Empty /\ v.word = w.word)

NoPersonIsLost(rows, columns) ==
  LET p == ProfileTable(rows, columns)
  IN /\ \A i \in 1..Len(rows) : \E k \in 1..Len(p.rows) :
          \A c \in DOMAIN columns :
            IF Foldable(columns[c]) THEN SameWord(rows[i][c], p.rows[k][c]) ELSE rows[i][c] = p.rows[k][c]
     /\ \A i \in 1..Len(rows) : \A c \in DOMAIN columns :
          columns[c].identifier => \E k \in 1..Len(p.rows) : p.rows[k][c] = rows[i][c]
     /\ Len(p.rows) = Len(rows) - (IF p.removed THEN p.duplicates ELSE 0)
     /\ FoldSpellings(p.rows, columns) = p.rows \/ p.removed
=============================================================================
