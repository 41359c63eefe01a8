------------------------------ MODULE Algorithms ------------------------------
(* The pure functions of the program, asked one question each: a behaviour    *)
(* picks a question and an input for it, and the invariants say what the      *)
(* functions answer.  Inputs: what may be asked, by question.  The shapes     *)
(* below are what the code's callers guarantee of an input.                   *)
EXTENDS TableReading, ColumnTyping, Profile, ResultChecks, Guard, Narration, Presentation, Overview,
        Insights, Glossary

CONSTANTS
  Inputs,  \* the inputs of each question
  Cells,   \* what a cell of a sheet can hold
  Written, \* what is written in a column of text
  Words    \* of a question, of the phrases of a glossary

(* A sheet is read into rows, and the readers fill the short ones, so that all *)
(* rows of a grid are as wide as the widest.  Its header has four columns or   *)
(* more, within the rows the search looks at.                                 *)
Sheet == Seq(Seq(Cells))
Layout(x) ==
  /\ x.width \in Nat /\ x.width >= 4 /\ x.grid \in Seq(Row(x.width, Cells))
  /\ x.header \in 1..Len(x.grid) /\ x.header <= SearchRows
Book(x) == x.sheets \in Seq(Sheet) /\ x.limits \in [columns : Nat, rows : Nat, cells : Nat]
ASSUME SheetsAssumption ==
  /\ \A x \in Inputs.layout : Layout(x)
  /\ \A x \in Inputs.footer : x \in Sheet
  /\ \A x \in Inputs.named : x.sheets \in Seq(Sheet) /\ IsFiniteSet(x.taken)
  /\ \A x \in Inputs.book : Book(x)

(* The spellings of a text column are told apart by their rank, the order in  *)
(* which strings compare, and the empty one is among them.                    *)
Spellings(V) ==
  /\ Empty \in V
  /\ \A v \in V : v.rank \in Int /\ v.capital \in BOOLEAN
  /\ \A v, w \in V : v.rank = w.rank => v = w
ASSUME ColumnsAssumption ==
  /\ \A x \in Inputs.typed : x.columns \in Seq(Seq(STRING)) /\ x.truth \in BOOLEAN
  /\ \A x \in Inputs.column : x.cells \in Seq(STRING) /\ x.name \in Name /\ x.dayfirst \in BOOLEAN
  /\ Spellings(Written) /\ \A x \in Inputs.people : x.rows \in Seq([DOMAIN x.columns -> Written])

(* Two tables and the equalities that join them, written one way round.  No   *)
(* alias names a source in two scopes of a query, and none is Bare.           *)
BothWays(joins) == joins # {} /\ \A j \in joins : j.lt = "a" /\ j.rt = "b"
Query(query) ==
  /\ Len(query.chain) \in Nat \ {0} /\ DOMAIN query.chain = 1..Len(query.chain)
  /\ query.chain[1].set => DOMAIN query.chain[1].sources = {}
  /\ \A l, m \in DOMAIN query.chain : DOMAIN query.chain[l].sources \cap DOMAIN query.chain[m].sources # {} => l = m
  /\ \A l \in DOMAIN query.chain : Bare \notin DOMAIN query.chain[l].sources
ASSUME QueriesAssumption ==
  /\ \A x \in Inputs.joined : BothWays(x.query.joins) /\ \A agg \in x.query.aggregated : agg.table \in {"a", "b"}
  /\ \A x \in Inputs.guided : BothWays(x.keys)
  /\ \A x \in Inputs.slot : x.pii \in BOOLEAN /\ x.identifier \in BOOLEAN
  /\ \A x \in Inputs.query : Query(x)

(* A result is a list of rows of one width, of two the narrower first; a match *)
(* is what the patterns find in the question: a fiscal year has both its       *)
(* years or its last one, a month is one of twelve.                            *)
ResultCell == Int \X Int
Table(rows) == Columns(rows) \in Nat /\ rows \in Seq([1..Columns(rows) -> ResultCell])
Match(match) ==
  /\ match.kind \in {"fy", "month", "year"} /\ match.quarter \in 0..4 /\ match.month \in 1..12
  /\ match.begins \in Nat /\ match.ends \in Nat /\ match.year \in Nat
ASSUME ChecksAssumption ==
  /\ \A x \in Inputs.results : Table(x.narrow) /\ Table(x.wide) /\ Columns(x.narrow) <= Columns(x.wide)
  /\ \A x \in Inputs.period : Match(x.match) /\ x.span \in Int \X Int /\ x.span[1] <= x.span[2]

(* A label is hidden wherever it stands in a result, and its token is nothing  *)
(* else.  The model was never sent a hidden label: a reply does not name one.  *)
Result(result) ==
  /\ result \in Seq([label : STRING, value : Int, hidden : BOOLEAN, day : Int])
  /\ \A r, s \in ToSet(result) :
       /\ r.label = s.label => r.hidden = s.hidden
       /\ r.hidden => s.label # Token(r.label)
       /\ r.hidden /\ s.hidden /\ Token(r.label) = Token(s.label) => r.label = s.label
Named(clause, result) ==
  /\ DOMAIN clause = {"rank", "items"} /\ clause.rank \in {"none", "highest", "lowest"}
  /\ clause.items \in Seq(ToSet(clause.items))
  /\ \A item \in ToSet(clause.items) :
       DOMAIN item = {"form", "of"} /\ (IsLabel(item) => \A r \in ToSet(result) : r.hidden => item.of # r.label)
Reply(reply, result) ==
  reply.text \in Seq(ToSet(reply.text)) /\ \A clause \in ToSet(reply.text) : Named(clause, result)
ASSUME SaidAssumption ==
  \A x \in Inputs.said : Result(x.result) /\ Reply(x.first, x.result) /\ Reply(x.second, x.result)

(* The nodes of an expression name their parts, which come before them.  A    *)
(* row has a cell for every column.                                           *)
Operators == {"column", "literal", "count", "corr", "compare", "sum", "window", "add", "mul", "div"}
TakesItsParts(node) ==
  /\ node.op = "sum" => Len(node.parts) = 1
  /\ node.op = "window" => Len(node.parts) > 0
  /\ node.op \in {"add", "mul", "div"} => Len(node.parts) = 2
Expression(e) ==
  /\ e \in Seq([op : Operators, money : BOOLEAN, parts : Seq(Nat)]) /\ e # <<>>
  /\ \A i \in 1..Len(e) : TakesItsParts(e[i]) /\ \A k \in 1..Len(e[i].parts) : e[i].parts[k] \in 1..(i - 1)
ASSUME ShownAssumption ==
  /\ \A x \in Inputs.expression : Expression(x)
  /\ \A x \in Inputs.amount : x \in Nat \X Nat
  /\ \A x \in Inputs.bars :
       DOMAIN x.kinds \subseteq Int /\ IsFiniteSet(DOMAIN x.kinds) /\ x.rows \in Seq([DOMAIN x.kinds -> Int])

(* A section shows at least one tile a turn, a candidate takes its time; a    *)
(* person's group is one of the groups or none.                               *)
Tile(tile) == tile.rows \in Seq([label : STRING, value : Int])
Candidate(c) == Tile(c.tile) /\ c.takes \in Nat
Section(s) ==
  /\ s.depth \in Nat \ {0} /\ s.candidates \in Seq(ToSet(s.candidates))
  /\ \A i \in DOMAIN s.candidates : Candidate(s.candidates[i])
Plan(plan) == plan \in Seq(ToSet(plan)) /\ \A i \in DOMAIN plan : Section(plan[i])
Days == Nat \cup {Unset}
Staff(x) ==
  /\ x.people \in Seq([joined : Days, left : Days, group : STRING]) /\ x.people # <<>> /\ x.today \in Nat
  /\ IsFiniteSet(x.groups) /\ "none" \notin x.groups /\ \A p \in ToSet(x.people) : p.group \in x.groups \cup {"none"}
ASSUME OverviewAssumption ==
  /\ \A x \in Inputs.page : Plan(x.plan) /\ x.budget \in Nat
  /\ \A x \in Inputs.files : x.tables \in Seq(ToSet(x.tables))
  /\ \A x \in Inputs.staff : Staff(x)

(* The rows of a chart, the size of each group and the order of their names.  *)
ReadResult(result) == result \in [figures : Seq(Int), truncated : BOOLEAN, addable : BOOLEAN, percent : BOOLEAN]
Groups(x) ==
  /\ IsFiniteSet(DOMAIN x.groups) /\ x.groups \in [DOMAIN x.groups -> Int] /\ x.order \in [DOMAIN x.groups -> Int]
  /\ IsInjective(x.order)
ASSUME FactsAssumption ==
  /\ \A x \in Inputs.reading : ReadResult(x)
  /\ \A x \in Inputs.moves : x \in Seq([period : Nat, amount : Int])
  /\ \A x \in Inputs.groups : Groups(x)

(* A metric requires columns among those it names, and names at least one.    *)
RoleColumns == [role : STRING, filled : BOOLEAN]
Metric(metric) ==
  /\ metric.required \subseteq metric.named
  /\ IsFiniteSet(metric.named) /\ metric.named # {}
ASSUME QuestionsAssumption ==
  /\ \A x \in Inputs.naming : x.text \in Seq(Words) /\ x.glossary \in [DOMAIN x.glossary -> SUBSET Seq(Words)]
  /\ \A x \in Inputs.metric : Metric(x.metric) /\ x.tables \in Seq([columns : SUBSET RoleColumns, view : BOOLEAN])

------------------------------------------------------------------------------
VARIABLES question, input
vars == <<question, input>>

Init == question = "none" /\ input = <<>>
Ask(name) == question = "none" /\ question' = name /\ input' \in Inputs[name]
Next == \E name \in DOMAIN Inputs : Ask(name)
Spec == Init /\ [][Next]_vars

------------------------------------------------------------------------------
(* Reading a sheet: the header is found under the titles above it, the footer *)
(* loses its totals and nothing else, and however headings and files repeat    *)
(* no two columns or tables get one name (header.py, cleaning.py, ingest).     *)
TablesHold ==
  /\ question = "layout" => HeaderIsFound(input.grid, input.header)
  /\ question = "footer" => FooterIsOnlyTotals(input)
  /\ question = "named" => NamesAreDistinct(input.stem, input.sheets, input.taken)

(* A workbook that is read is within its limits as it will be held: every row  *)
(* padded to the widest, whichever row is the wide one (readers._bounded).     *)
MemoryHolds == question = "book" => MemoryIsBounded(input.sheets, input.limits)

(* A column is converted only if what is left behind is within the tolerance   *)
(* of its kind, and a date read the wrong way round is a date somebody was      *)
(* told about (cleaning.infer_column, infer_dayfirst).                         *)
ConversionsHold ==
  /\ question = "typed" => NoDateMisreadInSilence(input.names, input.columns, input.truth)
  /\ question = "column" => ConversionsAreDeserved(input.name, input.cells, input.dayfirst)

(* Folding two spellings of a value never folds two people into one           *)
(* (cleaning.category_counts, spelling_variants; pii.py).                      *)
PeopleHold == question = "people" => NoPersonIsLost(input.rows, input.columns)

(* A sum over a join that the page does not warn about counts every row once; *)
(* the guided analyses refuse the joins that would not, and whatever their      *)
(* pickers offer is accepted (verify.find_fan_out_risks, sqlbuild.py).          *)
JoinsHold ==
  /\ question = "joined" => QuietJoinCountsOnce(input.tables, input.query)
  /\ question = "guided" => GuidedCountsOnce(input.tables, input.keys)
  /\ question = "slot" => EveryOfferIsTaken(input)

(* What the page says of a result is true: two results that the cross-check    *)
(* calls equal agree row by row on the columns they share, and "your data does *)
(* not cover this period" is said only of a period it does not cover, fiscal    *)
(* quarters included (verify.results_equivalent, period_risks).                 *)
ChecksHold ==
  /\ question = "results" => AgreementIsReal(input.narrow, input.wide)
  /\ question = "period" => CaveatIsTrue(input.match, input.span, {})

(* Every table and column the database reads for an accepted query is one the  *)
(* guard resolved, through CTEs, subqueries and stars (guard.validate_sql).     *)
ReadsHold == question = "query" => AcceptedReadsAreListed(input)

(* No sentence shown makes a claim of a row it names that the result does not   *)
(* bear out, hidden names put back included; but "Top result", which code says  *)
(* of the first row, is true only of rows that come from the highest down       *)
(* (narrator.narrate, _ranked_answer, template_answer).                         *)
SentencesHold == question = "said" => SaidIsTrue(input.result, 1, {}, input.first, input.second)

(* A rupee sign only on rupees, an amount that never reads smaller than a       *)
(* smaller one, a chart that tells no other story than its table               *)
(* (presentation.py).                                                          *)
ShownHolds ==
  /\ question = "expression" => UnitIsRight(input)
  /\ question = "amount" => AmountsRead(input[1], input[2])
  /\ question = "bars" => ChartIsHonest(input.rows, input.kinds)

(* The overview gives every section a turn before any takes a second, and      *)
(* every file it can read has a section.  Who was here at the start, who came   *)
(* and who left give who is here, and the bars add up to the tile above them    *)
(* (dashboard._run, _plan, _attrition, _flow, _still_here).                     *)
OverviewHolds ==
  /\ question = "page" => EverySectionGetsATurn(input.plan, input.budget)
  /\ question = "files" => NoFileDisappears(input.tables, input.stacked)
  /\ question = "staff" => BooksBalance(input.people, input.today, input.groups)

(* A fact written under a chart is true of the rows the chart was drawn from,  *)
(* ties and gaps in time included, and the slices of a share are the whole     *)
(* (facts.py, analyses._change, _share).                                       *)
FactsHold ==
  /\ question = "reading" => FactsAreTrue(input)
  /\ question = "moves" => ChangeIsTold(input)
  /\ question = "groups" => SlicesAddUp(input.groups, input.order)

(* Every metric a question names is defined to the model, from one table, and  *)
(* a term that could mean several columns is asked about once (glossary.py).    *)
QuestionsHold ==
  /\ question = "naming" => EveryMetricNamedIsDefined(input.text, input.glossary)
  /\ question = "metric" => MetricIsReadFromOneTable(input.metric, input.tables)
  /\ question = "asking" => AskedOnce(input.text, input.files)
=============================================================================
