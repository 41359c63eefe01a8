---------------------------- MODULE MCAlgorithms ----------------------------
EXTENDS Algorithms

MCSheetCells == {"a", "b", "c", "d", "pay", "pay_2", Blank, Number, TotalLabel}
MCLayouts == \* a header of four, titles above it, one row of data under it
  {[width |-> 4, grid |-> [i \in 1..h |-> IF i < h THEN t ELSE r] \o <<d>>, header |-> h] :
     h \in 1..3, t \in {<<"c", Blank, Blank, Blank>>},
     r \in Row(4, {"a", "b", "c", Blank, Number}),
     d \in {<<"a", "b", "c", "d">>, <<"a", "a", Number, Number>>, <<"d", "c", "b", Number>>}}

MCFooters == UNION {[1..n -> {<<"a", Number, Number>>, <<TotalLabel, Number, Number>>,
                              <<Blank, TotalLabel, Blank>>, <<"c", Blank, Blank>>, <<"a", Blank, Number>>}] : n \in 1..4}

MCSheet == UNION {[1..n -> {<<>>, <<"a">>, <<"a", "a">>, <<"a", "a", "a">>}] : n \in 0..3}
MCBooks == [sheets : {<<s>> : s \in MCSheet} \cup {<<s, t>> : s, t \in MCSheet},
            limits : {[columns |-> 2, rows |-> 4, cells |-> 6]}]

MCNamed == {[stem |-> "f", taken |-> taken,
             sheets |-> <<<<h, [j \in 1..3 |-> "d"]>>, <<k, [j \in 1..3 |-> "d"]>>>>] :
             h, k \in Row(3, {"pay", "pay_2", Number}), taken \in SUBSET {<<"f">>, <<"f", 1>>, <<"f", 2>>}}

MCDates == NumericDates \cup {"word"}
MCTyped == {[names |-> [c \in 1..2 |-> [identifier |-> FALSE, money |-> FALSE, dated |-> TRUE]],
             columns |-> <<s, t>>, truth |-> truth] : s, t \in UNION {[1..n -> MCDates] : n \in 1..2}, truth \in BOOLEAN}

MCColumns == {[name |-> name, dayfirst |-> dayfirst,
               cells |-> [i \in 1..n |-> IF i <= k THEN odd ELSE usual]] :
                name \in Name, dayfirst \in BOOLEAN, n \in {1, 20, 21}, k \in 0..2, odd, usual \in Classes}

MCValues == {Empty, [word |-> "HR", capital |-> TRUE, rank |-> 1],
             [word |-> "HR", capital |-> FALSE, rank |-> 2], [word |-> "Ops", capital |-> TRUE, rank |-> 3]}
MCPeople == {[rows |-> rows, columns |-> "id" :> id @@ "team" :> team] :
             rows \in UNION {[1..n -> [{"id", "team"} -> MCValues]] : n \in 1..3},
             id \in {[type |-> "text", pii |-> "none", identifier |-> TRUE, role |-> "none"]},
             team \in {[type |-> "text", pii |-> "none", identifier |-> FALSE, role |-> "none"],
                       [type |-> "text", pii |-> "person_name", identifier |-> FALSE, role |-> "none"]}}

MCRows == UNION {[1..n -> [{"k", "m"} -> 0..2]] : n \in 1..2}
MCJoin(l, r) == [lt |-> "a", lc |-> l, rt |-> "b", rc |-> r]
MCJoined == {[tables |-> "a" :> a @@ "b" :> b, query |-> [joins |-> joins, aggregated |-> {agg}]] :
             a, b \in MCRows, joins \in {{MCJoin("k", "k")}, {MCJoin("k", "k"), MCJoin("m", "m")}},
             agg \in {[func |-> "sum", table |-> "a", column |-> "m"]}}

MCWordCells == {<<4, 1>>, <<4, 2>>}
MCNumberCells == {<<NumberKind, 130>>, <<NumberKind, 134>>}
MCHoles == {<<<<0, 0>>, <<NumberKind, 500>>>>, <<<<NumberKind, 500>>, <<0, 0>>>>, <<<<0, 0>>, <<NumberKind, 700>>>>}
MCBigCells == {<<4, 1>>, <<NumberKind, 10000000>>, <<NumberKind, 10000001>>}
MCPairs(n, cells, others) == [narrow : [1..2 -> Row(n, cells)], wide : [1..2 -> Row(2, others)]]
MCResults == MCPairs(1, MCWordCells \cup MCNumberCells, MCWordCells \cup MCNumberCells)
             \cup MCPairs(2, MCWordCells \cup {<<NumberKind, 130>>}, MCWordCells \cup {<<NumberKind, 130>>})
             \cup MCPairs(2, MCWordCells \cup {<<NumberKind, 130>>}, MCWordCells \cup {<<NumberKind, 134>>})
             \cup MCPairs(2, MCBigCells, MCBigCells) \cup [narrow : [1..3 -> MCHoles], wide : [1..3 -> MCHoles]]

MCMatches == {[kind |-> kind, quarter |-> q, begins |-> begins, ends |-> ends, year |-> 2025, month |-> month] :
              kind \in {"fy", "month", "year"}, q \in 0..4, begins \in {0, 24, 2025}, ends \in {25, 2026}, month \in {1, 12}}
MCPeriods == {[match |-> match, span |-> <<from, from + n>>] :
              match \in MCMatches, from \in (12 * 2024 + 2)..(12 * 2026 + 4), n \in {0, 11}}

MCCatalog == "staff" :> {"id", "pay"} @@ "teams" :> {"id", "lead"}
MCSources == {"staff", "teams", "unlisted", "series", "cte"}
MCLevel(aliases) == {[sources |-> f, set |-> FALSE] : f \in [aliases -> MCSources]}
MCInner == {[sources |-> <<>>, set |-> TRUE]} \cup MCLevel({"s"}) \cup MCLevel({"s", "t"})
MCQueries == {[traits |-> traits, chain |-> chain, star |-> star, series |-> series, cte |-> cte,
               columns |-> {[name |-> name, table |-> table]}] :
              chain \in {<<l>> : l \in MCInner} \cup (MCInner \X MCLevel({"u"})),
              name \in {"id", "pay", "n", "s"}, table \in {Bare, "s", "u"}, star \in BOOLEAN,
              series \in {{"n"}, {"pay"}}, cte \in {{"pay"}}, traits \in {{}}}

MCResultRow == [label : {"A"}, value : {NoValue, 14, 25}, hidden : {FALSE}, day : {NoValue}]
               \cup [label : {"B"}, value : {NoValue, 14, 18}, hidden : {TRUE}, day : {NoValue}]
MCMonthRow == UNION {[label : {month}, value : {NoValue, 14, 25, 34}, hidden : {FALSE}, day : {IF month = "A" THEN 2 ELSE 1}] : month \in {"A", "C"}}
MCItems == {[form |-> "label", of |-> "A"], [form |-> "label", of |-> Token("B")],
            [form |-> "shown", of |-> 1], [form |-> "shown", of |-> 2], [form |-> "raw", of |-> 14]}
MCReply == {[kind |-> "sentence", text |-> <<[rank |-> rank, items |-> items]>>] :
            rank \in {"none", "highest", "lowest"}, items \in UNION {[1..n -> MCItems] : n \in 1..2}}
NoReply(kind) == [kind |-> kind, text |-> <<>>]
MCSaid == {[result |-> result, first |-> first, second |-> NoReply("unavailable")] :
             result \in UNION {[1..n -> MCResultRow] : n \in 1..3}, first \in MCReply}
          \cup {[result |-> result, first |-> first, second |-> NoReply("unavailable")] :
             result \in [1..2 -> MCMonthRow], first \in {reply \in MCReply : Len(reply.text[1].items) = 1}}
          \cup {[result |-> result, first |-> NoReply("not json"), second |-> second] :
             result \in [1..1 -> MCResultRow] \cup [1..2 -> MCResultRow], second \in MCReply}

Node(op, parts) == [op |-> op, money |-> FALSE, parts |-> parts]
MCLeaf == {<<Node("literal", <<>>)>>} \cup {<<[op |-> "column", money |-> money, parts |-> <<>>]>> : money \in BOOLEAN}
Beside(x, y) == x \o [i \in DOMAIN y |-> [y[i] EXCEPT !.parts = [k \in DOMAIN @ |-> Len(x) + @[k]]]]
MCTree(S) == {Append(Beside(x, y), Node(op, <<Len(x), Len(x) + Len(y)>>)) :
                op \in {"add", "mul", "div", "window", "compare"}, x, y \in S}
             \cup {Append(x, Node(op, <<Len(x)>>)) : op \in {"sum", "count"}, x \in S}
MCExpressions == MCLeaf \cup MCTree(MCLeaf) \cup MCTree(MCLeaf \cup MCTree(MCLeaf))

MCNear == {n + d : n \in {0, Lakh, Crore, Crore - 50000, 2 * Lakh}, d \in {-50001, -50000, -49999, -1, 0, 1, 49999, 50000}}
MCAmounts == {<<n, m>> : n, m \in {n \in MCNear : n >= 0}}

MCBars == {[kinds |-> kinds, rows |-> [i \in 1..Len(values) |-> <<i, values[i]>>]] :
           kinds \in {<<"text", "integer">>, <<"date", "integer">>}, values \in UNION {[1..n -> {NoCell, 0, 1, 2}] : n \in 0..4}}

MCBar(labels, values) == [kind |-> "breakdown", rows |-> [i \in DOMAIN labels |-> [label |-> labels[i], value |-> values[i]]]]
MCTile == \* the second reads as the first does, the third is of other groups, the fourth is below zero
  {[tile |-> MCBar(<<"A", "B">>, <<90, 10>>), takes |-> 1, fails |-> FALSE],
   [tile |-> MCBar(<<"A", "B">>, <<91, 12>>), takes |-> 1, fails |-> FALSE],
   [tile |-> MCBar(<<"C", "D">>, <<90, 10>>), takes |-> 1, fails |-> FALSE],
   [tile |-> MCBar(<<"A", "B">>, <<-20, -50>>), takes |-> 1, fails |-> FALSE],
   [tile |-> MCBar(<<"A", "B", "C">>, <<30, Unset, 10>>), takes |-> 2, fails |-> FALSE],
   [tile |-> MCBar(<<"A">>, <<50>>), takes |-> 0, fails |-> FALSE],
   [tile |-> MCBar(<<"A", "B">>, <<90, 20>>), takes |-> 1, fails |-> TRUE]}
MCPlans == {<<[depth |-> d, candidates |-> c], [depth |-> 1, candidates |-> e]>> :
            d \in 1..2, c \in UNION {[1..n -> MCTile] : n \in 1..3},
            e \in {<<x>> : x \in MCTile} \cup {<<x, y>> : x, y \in {x \in MCTile : x.tile.rows[1].value = 90}}}
MCPages == {[plan |-> plan, budget |-> budget] : plan \in MCPlans, budget \in 1..3}

MCTable == {[roles |-> roles, accepted |-> roles \ refused, rows |-> rows, view |-> FALSE] :
            roles \in {{"join_date", "ctc"}, {"pay_month", "gross"}, {"rating"}, {"days_absent", "working_days", "pay_month"}},
            refused \in {{}, {"gross"}, {"ctc", "rating"}, {"join_date", "working_days"}}, rows \in 1..2}
MCFiles == [tables : UNION {[1..n -> MCTable] : n \in 1..2}, stacked : {{}, {1}}]

MCPerson == [joined : {0, 2, 3, 4, 7}, left : {Unset, 3, 4, 5, 8}, group : {"none", "g"}]
MCStaff == [people : UNION {[1..n -> MCPerson] : n \in 1..2}, today : {3, 7}, groups : {{"g"}}]

MCGuided == {[tables |-> "a" :> a @@ "b" :> b, keys |-> {MCJoin("k", "k")}] : a, b \in MCRows}
MCReadings == [figures : UNION {[1..n -> {NoFigure, -1, 1, 2, 4}] : n \in 1..4}, truncated : BOOLEAN,
               addable : BOOLEAN, percent : BOOLEAN]
MCMoves == UNION {[1..n -> [period : {NoDate, 1, 2, 4}, amount : {0, 1, 3}]] : n \in 0..2}
MCGroups == [groups : [{"A", "B", "C", OtherGroup} -> 0..2],
             order : {"A" :> 1 @@ "B" :> 2 @@ "C" :> 3 @@ OtherGroup :> 4}]

MCColumn == [pii : BOOLEAN, identifier : BOOLEAN, type : {"integer", "date", "boolean", "text"}, unique : BOOLEAN, distinct : {0, 2, 3}]

MCWords == {"early", "attrition", "rate"}
MCPhrases == {{}, {<<"attrition">>}, {<<"early", "attrition">>}, {<<"attrition", "rate">>, <<"rate">>}, {<<"attrition">>, <<"rate">>}}
MCNamings == [text : UNION {[1..n -> MCWords] : n \in 0..3}, glossary : [{"m", "n", "o"} -> MCPhrases]]
MCRoleTable == [columns : SUBSET {[role |-> "join", filled |-> TRUE], [role |-> "exit", filled |-> TRUE], [role |-> "exit", filled |-> FALSE]}, view : BOOLEAN]
MCMetrics == [metric : {[required |-> {"join", "exit"}, named |-> {"join", "exit"}], [required |-> {"join"}, named |-> {"join", "exit"}]},
              tables : UNION {[1..n -> MCRoleTable] : n \in 0..2}]
MCPayColumns == {[name |-> <<"gross">>, role |-> "gross", filled |-> TRUE], [name |-> <<"net", "pay">>, role |-> "net", filled |-> TRUE],
                 [name |-> <<"take", "home">>, role |-> "net", filled |-> FALSE]}
MCPayFiles == {<<[name |-> <<"salary", "register">>, columns |-> s, stacked |-> st, view |-> FALSE],
                 [name |-> <<"master">>, columns |-> r, stacked |-> FALSE, view |-> v]>> :
               s, r \in SUBSET MCPayColumns, st, v \in BOOLEAN}
MCAsking == [text : UNION {[1..n -> {"salary", "pay", "net", "register", "bonus"}] : n \in 1..2}, files : MCPayFiles]

MCInputs == [
  layout |-> MCLayouts, footer |-> MCFooters, book |-> MCBooks, named |-> MCNamed,
  typed |-> MCTyped, column |-> MCColumns, people |-> MCPeople,
  joined |-> MCJoined, guided |-> MCGuided, slot |-> MCColumn,
  results |-> MCResults, period |-> MCPeriods, query |-> MCQueries, said |-> MCSaid,
  expression |-> MCExpressions, amount |-> MCAmounts, bars |-> MCBars,
  page |-> MCPages, files |-> MCFiles, staff |-> MCStaff,
  reading |-> MCReadings, moves |-> MCMoves, groups |-> MCGroups,
  naming |-> MCNamings, metric |-> MCMetrics, asking |-> MCAsking]
=============================================================================
