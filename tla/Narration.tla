------------------------------- MODULE Narration -------------------------------
(* Words around the numbers (backend/app/query/narrator.py): what of a result *)
(* the model is sent, the facts about it that code works out, the checks of   *)
(* the sentence that comes back, one more try, and the sentence built by code *)
(* when neither can be used.                                                  *)
(* The rows of a result are [label, value, hidden, day]: hidden for a         *)
(* personal label or one with a number in it, day for a label that is a date. *)
(* A clause of a sentence is its rank word and, in order, the labels and the  *)
(* numbers it names.                                                          *)
EXTENDS Integers, Sequences, FiniteSets, SequencesExt, FiniteSetsExt

CONSTANTS
  MaxRows,  \* rows the executor keeps of what the query returns
  MaxSent   \* rows the model is sent
ASSUME RowsAssumption == MaxRows \in Nat /\ MaxSent \in Nat

NoValue == -1 \* of a row without a number, and without a date

(* The display string of a number keeps its tens; a row grounds that string   *)
(* and the number itself.                                                     *)
Shown(value) == value \div 10
RowNumbers(row) ==
  IF row.value = NoValue THEN {} ELSE {[form |-> "shown", of |-> Shown(row.value)], [form |-> "raw", of |-> row.value]}

FirstRows(rows, n) == SubSeq(rows, 1, Min({n, Len(rows)}))
ResultTable(rows) ==
  [rows |-> FirstRows(rows, MaxRows), truncated |-> Len(rows) > MaxRows]

------------------------------------------------------------------------------
(* _mask, _corner.  One placeholder for each hidden label, wherever it stands. *)
Token(label) == "hidden " \o label
Masked(rows) ==
  [i \in DOMAIN rows |-> IF rows[i].hidden THEN [rows[i] EXCEPT !.label = Token(rows[i].label)] ELSE rows[i]]
Sent(table) == Masked(FirstRows(table.rows, MaxSent))

(* _facts: of the first measure, and only of a result that was sent whole and *)
(* has one column of labels.  labelColumns: how many it has.                  *)
\* mutant: the facts of what was sent, whole or not
SentInPart(table) == table.rows # <<>>
SentWhole(table) == ~table.truncated /\ table.rows # <<>> /\ Len(table.rows) <= MaxSent

Ranked(rows) == {i \in DOMAIN rows : rows[i].value # NoValue}
HasFacts(table, labelColumns) == SentWhole(table) /\ labelColumns = 1 /\ Ranked(Sent(table)) # {}

TiedWith(rows, winner) ==
  {i \in Ranked(rows) : rows[i].value = rows[winner].value \/ Shown(rows[i].value) = Shown(rows[winner].value)}
Highest(rows) == TiedWith(rows, CHOOSE i \in Ranked(rows) : \A j \in Ranked(rows) : rows[i].value >= rows[j].value)
Lowest(rows) == TiedWith(rows, CHOOSE i \in Ranked(rows) : \A j \in Ranked(rows) : rows[i].value <= rows[j].value)
Winners(rows, rank) == IF rank = "lowest" THEN Lowest(rows) ELSE Highest(rows)
NamedRows(rows, label) == {i \in DOMAIN rows : rows[i].label = label}

(* A series of dates starts and ends where it does, in whatever order it is.  *)
IsDated(rows) == \A i \in DOMAIN rows : rows[i].day # NoValue /\ ~rows[i].hidden
Earliest(rows) ==
  CHOOSE i \in Ranked(rows) : \A j \in Ranked(rows) : rows[i].day < rows[j].day \/ (rows[i].day = rows[j].day /\ i <= j)
Latest(rows) ==
  CHOOSE i \in Ranked(rows) : \A j \in Ranked(rows) : rows[j].day < rows[i].day \/ (rows[i].day = rows[j].day /\ j <= i)

------------------------------------------------------------------------------
(* The checks, in order.  question: the numbers in it and in the notes.       *)
IsLabel(item) == item.form = "label"
Labels(rows) == {rows[i].label : i \in DOMAIN rows}
SpansOf(clause, rows) == {k \in DOMAIN clause.items : IsLabel(clause.items[k]) /\ clause.items[k].of \in Labels(rows)}
NumbersOf(clause) == {k \in DOMAIN clause.items : ~IsLabel(clause.items[k])}

BadPlaceholder(sentence, rows) ==
  \E clause \in ToSet(sentence) : \E item \in ToSet(clause.items) :
    IsLabel(item) /\ item.of = "made up"

Ungrounded(sentence, rows, question) ==
  \E clause \in ToSet(sentence) : \E k \in NumbersOf(clause) :
    clause.items[k] \notin question \cup UNION {RowNumbers(r) : r \in ToSet(rows)}

RankProblem(clause, rows) ==
  /\ clause.rank # "none"
  /\ \E k \in SpansOf(clause, rows) : NamedRows(rows, clause.items[k].of) \cap Winners(rows, clause.rank) = {}

(* A number belongs to the label nearest to it: of two as near, to the longer *)
(* in the code, to either here, where labels have no length.                  *)
Gap(k, n) == IF k < n THEN n - k ELSE k - n
LabelBeside(spans, n) == CHOOSE k \in spans : \A j \in spans : Gap(k, n) <= Gap(j, n)

PairingProblem(clause, rows) ==
  LET spans == SpansOf(clause, rows)
  IN spans # {} /\ \E n \in NumbersOf(clause) :
       LET owners == {i \in DOMAIN rows : clause.items[n] \in RowNumbers(rows[i])}
       IN owners # {} /\ NamedRows(rows, clause.items[LabelBeside(spans, n)].of) \cap owners = {}

WrongClaim(sentence, rows) ==
  \E clause \in ToSet(sentence) : RankProblem(clause, rows) \/ PairingProblem(clause, rows)

(* _check: the verdict on one reply.                                          *)
Check(reply, rows, facts, question) ==
  IF reply.kind # "sentence" \/ reply.text = <<>> THEN "unusable"
  ELSE IF BadPlaceholder(reply.text, rows) \/ Ungrounded(reply.text, rows, question) THEN "unusable"
  ELSE IF facts /\ WrongClaim(reply.text, rows) THEN "wrong"
  ELSE "good"

------------------------------------------------------------------------------
(* template_answer and _ranked_answer, as clauses.                            *)
LabelItem(row) == [form |-> "label", of |-> row.label]
ShownItem(row) == [form |-> "shown", of |-> Shown(row.value)]
RowClause(row, rank) ==
  [rank |-> rank, items |-> IF row.value = NoValue THEN <<LabelItem(row)>> ELSE <<LabelItem(row), ShownItem(row)>>]

(* "Top result" is said of the first row, and "top" is a rank word.           *)
TemplateAnswer(table) ==
  IF table.rows = <<>> THEN <<>>
  ELSE <<RowClause(table.rows[1], IF Len(table.rows) = 1 THEN "none" ELSE "top")>>

\* "went from ... in ... to ... in ..."
CourseClause(from, to) ==
  [rank |-> "course", items |-> <<ShownItem(from), LabelItem(from), ShownItem(to), LabelItem(to)>>]

RankedAnswer(table) ==
  LET rows == table.rows
      top == Min(Highest(rows))
      bottom == Min(Lowest(rows))
  IN IF top = bottom THEN TemplateAnswer(table)
     ELSE IF IsDated(rows) THEN <<CourseClause(rows[Earliest(rows)], rows[Latest(rows)]), RowClause(rows[top], "highest")>>
     ELSE <<RowClause(rows[top], "highest"), RowClause(rows[bottom], "lowest")>>

(* A placeholder is what stands for a hidden label; put back, it is the label. *)
Rehydrate(sentence, rows) ==
  LET real(item) == IF IsLabel(item) /\ \E r \in ToSet(rows) : r.hidden /\ Token(r.label) = item.of
                    THEN [item EXCEPT !.of = (CHOOSE r \in ToSet(rows) : r.hidden /\ Token(r.label) = item.of).label]
                    ELSE item
  IN [c \in DOMAIN sentence |-> [sentence[c] EXCEPT !.items = [k \in DOMAIN sentence[c].items |-> real(sentence[c].items[k])]]]

(* narrate: the first reply, one more with the correction, then code.  A      *)
(* missing first reply is the caller's to handle; a missing second leaves the *)
(* verdict on the first.                                                      *)
Narrate(table, labelColumns, question, first, second) ==
  LET rows == Sent(table)
      facts == HasFacts(table, labelColumns)
      v1 == Check(first, rows, facts, question)
      v2 == IF second.kind = "unavailable" THEN v1 ELSE Check(second, rows, facts, question)
      said(reply) == [by |-> "model", facts |-> facts, text |-> Rehydrate(reply.text, table.rows)]
  IN IF first.kind = "unavailable" THEN [by |-> "caller", facts |-> facts, text |-> <<>>]
     ELSE IF v1 = "good" THEN said(first)
     ELSE IF v2 = "good" THEN said(second)
     ELSE [by |-> "code", facts |-> facts,
           text |-> IF v2 = "wrong" THEN RankedAnswer(table) ELSE TemplateAnswer(table)]

------------------------------------------------------------------------------
(* "A number can be right and the sentence still wrong."  Where there are     *)
(* facts, and in every sentence built by code: each row a clause calls the    *)
(* highest or the lowest is so, as displayed, among all rows of the query's   *)
(* result, sent or not; a number beside the one row a clause names is that    *)
(* row's; and a course runs from the first date with a number to the last.    *)
(* "Top result" is held to what "top" says only where the rows come from the  *)
(* highest down: code says it of the first row in any order (a finding).      *)
RunsDown(result) ==
  /\ \A i \in DOMAIN result : result[1].value # NoValue
  /\ \A i, k \in DOMAIN result : i < k /\ result[k].value # NoValue => result[i].value >= result[k].value
ClaimsRank(rank, result) == rank \in {"highest", "lowest"} \/ (rank = "top" /\ RunsDown(result))

IsCourse(clause, result) ==
  \E from, to \in ToSet(result) :
    /\ from.value # NoValue /\ to.value # NoValue /\ clause.items = CourseClause(from, to).items
    /\ \A r \in ToSet(result) : r.value # NoValue => from.day <= r.day /\ r.day <= to.day

ClauseIsTrue(clause, result) ==
  LET named == {k \in DOMAIN clause.items : IsLabel(clause.items[k]) /\ \E r \in ToSet(result) : r.label = clause.items[k].of}
      rows(k) == {r \in ToSet(result) : r.label = clause.items[k].of}
      values == {r.value : r \in ToSet(result)} \ {NoValue}
      holds(r) == r.value # NoValue /\ \A v \in values :
                    IF clause.rank = "lowest" THEN Shown(r.value) <= Shown(v) ELSE Shown(r.value) >= Shown(v)
  IN /\ ClaimsRank(clause.rank, result) => \A k \in named : \E r \in rows(k) : holds(r)
     /\ clause.rank = "course" => IsCourse(clause, result)
     /\ Cardinality(named) = 1 => \A k \in named, n \in NumbersOf(clause) :
          (\E r \in ToSet(result) : clause.items[n] \in RowNumbers(r)) => \E r \in rows(k) : clause.items[n] \in RowNumbers(r)

SaidIsTrue(result, labelColumns, question, first, second) ==
  LET said == Narrate(ResultTable(result), labelColumns, question, first, second)
  IN said.by = "code" \/ said.facts => \A clause \in ToSet(said.text) : ClauseIsTrue(clause, result)
=============================================================================
