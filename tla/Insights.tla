------------------------------- MODULE Insights -------------------------------
(* The guided analyses and the sentences computed from their rows (backend    *)
(* app/insights: sqlbuild.py, analyses.py, facts.py; catalog/suggest.py).     *)
EXTENDS ResultChecks

------------------------------------------------------------------------------
(* column_kind and resolve: the slots a column can fill.                      *)
CONSTANT MaxCategoryValues
MeasureTypes == {"currency", "integer", "decimal", "percent"}
PickerKind(column) ==
  IF column.pii \/ column.identifier THEN "text"
  ELSE CASE column.type \in MeasureTypes -> "measure"
         [] column.type = "date" -> "date"
         [] column.type = "boolean" -> "category"
         [] OTHER -> IF column.unique \/ column.distinct > MaxCategoryValues THEN "text" ELSE "category"
Fills(column, slots) ==
  ~column.pii /\ ~column.identifier /\ (slots = {} \/ PickerKind(column) \in slots)

(* catalog (analyses.py) offers a column for a slot; run takes it there.      *)
Slots3 == {"measure", "date", "category"}
Offered(column, slot) == PickerKind(column) # "text" /\ PickerKind(column) = slot
EveryOfferIsTaken(column) == \A slot \in Slots3 : Offered(column, slot) <=> Fills(column, {slot})

(* from_clause, over two tables a and b and the one link between them.  A     *)
(* link: whether its key is unique on each side, as the detector records it.  *)
Cardinal(tables, keys) == [t \in {"a", "b"} |-> UniqueSide(t, keys, UniqueColumns(tables))]
ManyToMany(link) == ~link["a"] /\ ~link["b"]
RepeatsMatter == {"sum", "average", "count", "median"}

OneSide(link) == {t \in {"a", "b"} : link[t] /\ \E u \in {"a", "b"} : ~link[u]}
Guides(link, measure, func) == ~ManyToMany(link) /\ (func \in RepeatsMatter => measure \notin OneSide(link))

(* _cross_file_questions: the table whose number is offered by the other's    *)
(* groups.                                                                    *)
Suggested(link) == IF ~link["a"] /\ link["b"] THEN "a" ELSE "b"

(* "One salary joined to twelve payslips is added up twelve times."  In a     *)
(* guided analysis no row of the measured table is met twice, unless only its *)
(* least or greatest matters; and the question suggested for a link is one    *)
(* that a guided analysis would answer.                                       *)
GuidedCountsOnce(tables, keys) ==
  LET link == Cardinal(tables, keys)
      joined == Joined(tables, "a", "b", keys)
      side(t) == IF t = "a" THEN 1 ELSE 2
  IN /\ \A t \in {"a", "b"} : Guides(link, t, "sum") => \A p, q \in joined : p # q => p[side(t)] # q[side(t)]
     /\ ~ManyToMany(link) => Guides(link, Suggested(link), "sum")

------------------------------------------------------------------------------
(* facts.py.  A result: its figures in row order, whether rows were cut off,  *)
(* whether its figures can be added (no averages, no rates) and whether they  *)
(* are percentages.  A claim: what is said, of which rows, with what numbers. *)
NoFigure == 1000
Claim(says, rows, numbers) == [says |-> says, rows |-> rows, numbers |-> numbers]
WithFigure(result) == {i \in DOMAIN result.figures : result.figures[i] # NoFigure}
Figures(result) == {result.figures[i] : i \in WithFigure(result)}
Total(result, rows) == MapThenSumSet(LAMBDA i : result.figures[i], rows)

\* mutant: one of those that tie
FirstAt(result, value) == {Min({i \in WithFigure(result) : result.figures[i] = value})}
TiedAt(result, value) == {i \in WithFigure(result) : result.figures[i] = value}
Tops(result) == TiedAt(result, Max(Figures(result)))
Bottoms(result) == TiedAt(result, Min(Figures(result)))

Addable(result) == ~result.percent /\ ~result.truncated /\ \A v \in Figures(result) : v >= 0
Summable(result) == Addable(result) /\ result.addable
BestThree(result) == CHOOSE S \in SUBSET WithFigure(result) :
  Cardinality(S) = 3 /\ \A i \in S, j \in WithFigure(result) \ S : result.figures[i] >= result.figures[j]

SpreadLines(result) ==
  LET rows == WithFigure(result)
      total == Total(result, rows)
      low == Min(Figures(result))
      high == Max(Figures(result))
  IN {Claim("top three", BestThree(result), <<Total(result, BestThree(result)), total>>) :
        x \in {x \in {1} : Summable(result) /\ Cardinality(rows) > 3 /\ total > 0}}
     \cup {Claim("times the lowest", {}, <<high, low>>) : x \in {x \in {1} : low > 0 /\ high # low}}
     \cup {Claim("average", rows, <<total, Cardinality(rows)>>) : x \in {x \in {1} : Addable(result) /\ Cardinality(rows) > 1}}

BreakdownSays(result) ==
  LET rows == WithFigure(result)
      says == IF Cardinality(rows) = 1 THEN {Claim("only", rows, <<>>)}
              ELSE IF Cardinality(Figures(result)) = 1 THEN {Claim("level", rows, <<>>)}
              ELSE {Claim("highest", Tops(result), <<>>), Claim("lowest", Bottoms(result), <<>>)}
  IN IF rows = {} THEN {} ELSE says \cup SpreadLines(result)

ShareSays(result) ==
  LET total == Total(result, WithFigure(result))
      whole == ~result.truncated /\ total > 0 /\ result.addable /\ \A v \in Figures(result) : v >= 0
  IN IF WithFigure(result) = {} THEN {}
     ELSE IF result.percent THEN {Claim("highest", Tops(result), <<>>)} \cup SpreadLines(result)
     ELSE IF whole THEN {Claim("share", Tops(result), <<Max(Figures(result)), total>>)} \cup SpreadLines(result)
     ELSE BreakdownSays(result)

(* A trend's rows are read in the order of their dates.                       *)
Moved(start, end) == IF start = end THEN "unchanged" ELSE IF end > start THEN "up" ELSE "down"
TrendSays(result) ==
  LET first == Min(WithFigure(result))
      last == Max(WithFigure(result))
      start == result.figures[first]
      end == result.figures[last]
  IN IF Cardinality(WithFigure(result)) < 2 THEN {}
     ELSE {Claim(Moved(start, end), {first, last},
                 IF start > 0 /\ start # end THEN <<end - start, start>> ELSE <<>>)}

TwoWaySays(result) ==
  LET tops == Tops(result)
  IN IF WithFigure(result) = {} THEN {}
     ELSE IF tops = WithFigure(result) THEN {Claim("level", tops, <<>>)}
     ELSE {Claim(IF Cardinality(tops) > 1 THEN "tied" ELSE "highest", tops, <<>>)} \cup SpreadLines(result)

(* "A claim is only made when the rows support it": a winner is named with    *)
(* every other of the same figure, a share is of the whole of something that  *)
(* adds up and is at most all of it, a ratio is of positive figures, and what *)
(* moved up ends higher.  Extremes are of the rows shown, and the smallest    *)
(* cell and the peak are outside the claim: they do name one of several.      *)
Supported(result, claim) ==
  LET figure == {result.figures[i] : i \in claim.rows}
      whole == WithFigure(result) = DOMAIN result.figures \/ ~result.truncated
      others == Figures(result) \ figure
  IN CASE claim.says \in {"highest", "tied", "share"} ->
            /\ Cardinality(figure) = 1 /\ \A v \in figure, w \in others : v > w
            /\ claim.rows = {i \in WithFigure(result) : result.figures[i] \in figure}
            /\ claim.says = "tied" => Cardinality(claim.rows) > 1
            /\ claim.says = "share" => whole /\ ~result.truncated /\ result.addable /\ claim.numbers[1] <= claim.numbers[2]
       [] claim.says = "lowest" -> Cardinality(figure) = 1 /\ (\A v \in figure, w \in others : v < w)
                                   /\ claim.rows = {i \in WithFigure(result) : result.figures[i] \in figure}
       [] claim.says \in {"only", "level"} -> Cardinality(figure) = 1 /\ others = {}
       [] claim.says = "top three" -> /\ ~result.truncated /\ result.addable /\ 0 < claim.numbers[1]
                                      /\ claim.numbers[1] <= claim.numbers[2]
       [] claim.says = "times the lowest" -> claim.numbers[1] > claim.numbers[2] /\ claim.numbers[2] > 0
       [] claim.says = "average" -> \E v, w \in Figures(result) :
                                      v * claim.numbers[2] <= claim.numbers[1] /\ claim.numbers[1] <= w * claim.numbers[2]
       [] OTHER -> LET first == result.figures[Min(claim.rows)]
                       last == result.figures[Max(claim.rows)]
                   IN /\ (claim.says = "up") <=> last > first
                      /\ (claim.says = "unchanged") <=> last = first
                      /\ claim.numbers # <<>> => claim.numbers[2] > 0

FactsAreTrue(result) ==
  \A claim \in BreakdownSays(result) \cup ShareSays(result) \cup TrendSays(result) \cup TwoWaySays(result) :
    Supported(result, claim)

------------------------------------------------------------------------------
(* _change.  A row: its period (none when it has no date) and its amount.     *)
NoDate == 0
Periods(rows) == {rows[i].period : i \in DOMAIN rows} \ {NoDate}
PeriodsBefore(rows, period) == {p \in Periods(rows) : p < period}
In(rows, period) == MapThenSumSet(LAMBDA i : rows[i].amount, {i \in DOMAIN rows : rows[i].period = period})
Change(rows) ==
  LET latest == Max(Periods(rows))
      before == PeriodsBefore(rows, latest)
      was == In(rows, Max(before))
      now == In(rows, latest)
  IN IF Periods(rows) = {} THEN Claim("no dates", {}, <<>>)
     ELSE IF before = {} THEN Claim("one period", {latest}, <<>>)
     ELSE Claim(Moved(was, now), {Max(before), latest}, <<was, now>>)

(* _share.  The rest of the groups are one slice, which a group of that name  *)
(* joins.                                                                     *)
CONSTANT MaxSlices
ASSUME SlicesAssumption == MaxSlices \in Nat
OtherGroup == "Other"
Place(groups, g, order) ==
  Cardinality({h \in DOMAIN groups : groups[h] > groups[g] \/ (groups[h] = groups[g] /\ order[h] <= order[g])})
SliceOf(groups, g, order) == IF Place(groups, g, order) <= MaxSlices THEN g ELSE OtherGroup
Slices(groups, order) ==
  LET names == {SliceOf(groups, g, order) : g \in DOMAIN groups}
  IN [s \in names |-> MapThenSumSet(LAMBDA g : groups[g], {g \in DOMAIN groups : SliceOf(groups, g, order) = s})]

(* "The last period against the one before it", "found in the data", and a    *)
(* file with one period is not called unchanged.                              *)
ChangeIsTold(rows) ==
  LET claim == Change(rows)
  IN /\ (claim.says = "one period") <=> Cardinality(Periods(rows)) = 1
     /\ claim.numbers # <<>> =>
          /\ Cardinality(claim.rows) = 2
          /\ \A p \in Periods(rows) : p <= Max(claim.rows) /\ (p > Min(claim.rows) => p = Max(claim.rows))
          /\ claim.numbers = <<In(rows, Min(claim.rows)), In(rows, Max(claim.rows))>>

(* "The slices still add up to the whole", and there is never one too many.   *)
SlicesAddUp(groups, order) ==
  LET slices == Slices(groups, order)
  IN /\ MapThenSumSet(LAMBDA s : slices[s], DOMAIN slices) = MapThenSumSet(LAMBDA g : groups[g], DOMAIN groups)
     /\ Cardinality(DOMAIN slices) <= MaxSlices + 1
     /\ \A s \in DOMAIN slices \ {OtherGroup} : slices[s] = groups[s]
=============================================================================
