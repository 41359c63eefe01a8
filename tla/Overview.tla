------------------------------- MODULE Overview -------------------------------
(* The page drawn after an upload (backend/app/insights/dashboard.py): which  *)
(* files it covers, which tiles earn a place, and what its headcount tiles    *)
(* count.                                                                     *)
EXTENDS Integers, Sequences, FiniteSets, SequencesExt, FiniteSetsExt

------------------------------------------------------------------------------
(* _usefulness, in percent.  A tile: its kind and its rows, each the label and *)
(* the value of the column it is read on.                                     *)
CONSTANTS ReadableGroups, QueryBudget, MinScore
ASSUME BudgetAssumption == ReadableGroups \in Nat /\ QueryBudget \in Nat
Unset == -1 \* an empty cell
PerGroup == {"breakdown", "trend", "share", "comparison"}
Fit(groups) == IF groups <= ReadableGroups THEN 10 ELSE IF groups <= 2 * ReadableGroups THEN 8 ELSE 5

Usefulness(tile) ==
  LET groups == Len(tile.rows)
      present == {tile.rows[i].value : i \in 1..groups} \ {Unset}
      filled == Cardinality({i \in 1..groups : tile.rows[i].value # Unset})
      spread == IF Max(present) > 0 THEN <<Max(present) - Min(present), Max(present)>>
                ELSE IF Max(present) # Min(present) THEN <<1, 1>> ELSE <<0, 1>>
  IN IF present = {} THEN 0
     ELSE IF groups = 1 THEN (IF tile.kind \in PerGroup THEN 0 ELSE 70)
     ELSE (Fit(groups) * (4 * spread[2] + 6 * spread[1]) * filled) \div (spread[2] * groups)

(* _signature: what the analyst sees, the labels and the numbers as displayed, *)
(* which keep their tens.                                                     *)
Displayed(value) == IF value = Unset THEN Unset ELSE value \div 10
Signature(tile) == [i \in DOMAIN tile.rows |-> <<tile.rows[i].label, Displayed(tile.rows[i].value)>>]

------------------------------------------------------------------------------
(* A plan is a sequence of sections: how many tiles each may show before the  *)
(* others have had their turn, and its candidates, each a tile, whether its   *)
(* query fails, and how long it takes.  A slot is a wave, a section, a place. *)
Slots(plan) == UNION {{<<(r - 1) \div plan[s].depth, s, r>> : r \in DOMAIN plan[s].candidates} : s \in DOMAIN plan}
At(plan, slot) == plan[slot[2]].candidates[slot[3]]

Earlier(x, y) == \E i \in 1..3 : x[i] < y[i] /\ \A j \in 1..(i - 1) : x[j] = y[j]

(* _run: in wave order until the time is spent; what fails or says nothing is *)
(* dropped, its time is not given back.                                       *)
SpentBefore(plan, slot) ==
  SumFunctionOnSet([s \in Slots(plan) |-> At(plan, s).takes], {s \in Slots(plan) : Earlier(s, slot)})
Tried(plan) == {slot \in Slots(plan) : SpentBefore(plan, slot) < QueryBudget}
Worthwhile(plan) == {slot \in Tried(plan) : ~At(plan, slot).fails /\ Usefulness(At(plan, slot).tile) >= MinScore}

(* _keep: by wave, then section, then score, then place.                      *)
BestFirst(plan, x, y) ==
  \/ Usefulness(At(plan, x).tile) > Usefulness(At(plan, y).tile)
  \/ Usefulness(At(plan, x).tile) = Usefulness(At(plan, y).tile) /\ Earlier(x, y)
Ahead(plan, x, y) ==
  IF <<x[1], x[2]>> = <<y[1], y[2]>> THEN BestFirst(plan, x, y) ELSE Earlier(x, y)

Alike(plan, x, y) == x[2] = y[2] /\ Signature(At(plan, x).tile) = Signature(At(plan, y).tile)
Repeats(plan, kept, slot) == \E k \in kept : Alike(plan, k, slot)
Foremost(plan, S) == CHOOSE x \in S : \A y \in S \ {x} : Ahead(plan, x, y)
KeepTiles(plan, budget) ==
  LET kept[n \in 0..budget] ==
        IF n = 0 THEN {}
        ELSE LET before == kept[n - 1]
                 left == {x \in Worthwhile(plan) \ before : ~Repeats(plan, before, x)}
             IN IF left = {} THEN before ELSE before \cup {Foremost(plan, left)}
  IN kept[budget]

(* "Every section gets a turn", "the order is the order of importance".  No   *)
(* query runs before those of earlier waves, the page is within its budget    *)
(* and no section shows the same labels with the same numbers twice; a tile   *)
(* that is worth a place and is not on the page says what its section says     *)
(* already, or the page is full and holds nothing of a later wave.            *)
EverySectionGetsATurn(plan, budget) ==
  LET kept == KeepTiles(plan, budget)
  IN /\ \A x \in Tried(plan), y \in Slots(plan) : y[1] < x[1] => y \in Tried(plan)
     /\ Cardinality(kept) <= budget
     /\ \A x, y \in kept : Alike(plan, x, y) => x = y
     /\ \A x \in Worthwhile(plan) \ kept :
          \/ \E k \in kept : Alike(plan, k, x)
          \/ Cardinality(kept) = budget /\ \A k \in kept : k[1] <= x[1]

------------------------------------------------------------------------------
(* _plan.  A table: the roles its columns carry, the ones of them resolve     *)
(* accepts, its rows, and whether it is a combined view.  A role that only    *)
(* stands in for another one (net for gross, a date for a month) is left out. *)
Required == [people |-> {{"join_date", "department"}}, pay |-> {{"pay_month"}, {"gross"}},
             attendance |-> {{"days_absent"}, {"working_days"}}, performance |-> {{"rating"}}]
Wanted == [people |-> {"join_date", "department"}, pay |-> {"pay_month", "gross"},
           attendance |-> {"days_absent", "working_days", "pay_month"}, performance |-> {"rating"}]

Usable(tables, stacked) == DOMAIN tables \ stacked
Nobody == 0 \* tables are numbered in the order of their names
Home(tables, names, topic) ==
  LET fit == {t \in names : \A group \in Required[topic] : tables[t].roles \cap group # {}}
      carried(t) == Cardinality(tables[t].roles \cap Wanted[topic])
      before(t, u) == \/ carried(t) > carried(u)
                      \/ carried(t) = carried(u) /\ tables[t].view /\ ~tables[u].view
                      \/ /\ carried(t) = carried(u) /\ tables[t].view = tables[u].view
                         /\ tables[t].rows > tables[u].rows \/ (tables[t].rows = tables[u].rows /\ t < u)
  IN IF fit = {} THEN Nobody ELSE CHOOSE t \in fit : \A u \in fit \ {t} : before(t, u)

Refs(tables, name, roles) == IF name = Nobody THEN {} ELSE tables[name].accepted \cap roles

(* The tables each section reads; none when the section is not built.         *)
ReadBy(tables, homes, topic) ==
  LET refs == Refs(tables, homes[topic], Wanted[topic])
      ctc == Refs(tables, homes.people, {"ctc"}) # {}
  IN CASE topic = "people" -> IF refs # {} THEN {homes.people} ELSE {}
       [] topic = "pay" -> (IF "gross" \in refs THEN {homes.pay} ELSE {}) \cup (IF ctc THEN {homes.people} ELSE {})
       [] topic = "attendance" -> IF {"days_absent", "pay_month", "working_days"} \subseteq refs THEN {homes[topic]} ELSE {}
       [] topic = "performance" -> IF "rating" \in refs THEN {homes[topic]} ELSE {}

Built(tables, homes, topic) == homes[topic] # Nobody /\ ReadBy(tables, homes, topic) # {}
Topics == DOMAIN Required
Homes(tables, names) == [topic \in Topics |-> Home(tables, names, topic)]
Used(tables, homes) == {homes[topic] : topic \in {topic \in Topics : Built(tables, homes, topic)}}

(* "A table has to fall through to the generic treatment rather than          *)
(* disappear."  Every usable table is read by a section of its own or by a    *)
(* generic one: but a pay table whose amounts are all refused is lost when    *)
(* the CTC of the people table builds the pay section (README).               *)
NoFileDisappears(tables, stacked) ==
  LET names == Usable(tables, stacked)
      homes == Homes(tables, names)
      covered == (UNION {ReadBy(tables, homes, topic) : topic \in Topics}) \cup (names \ Used(tables, homes))
  IN \A t \in names \ covered : t = homes.pay /\ "gross" \notin tables[t].accepted /\ "ctc" \in tables[homes.people].accepted

------------------------------------------------------------------------------
(* The headcount tiles.  A person: the dates they joined and left, and their  *)
(* group.  A year has four days: its first, one before December, one in it    *)
(* and its last; a missing date is Unset.                                       *)
FirstDay(year) == 4 * year
FinalDay(year) == 4 * year + 3
YearOf(day) == day \div 4
InDecember(day) == day % 4 >= 2
Headcount(people, Test(_)) == Cardinality({i \in DOMAIN people : Test(people[i])})

(* _still_here, and the tiles that count with it.                             *)
StillHere(p, today) == p.joined # Unset /\ p.joined <= today /\ (p.left = Unset \/ p.left > today)
ActiveHeadcount(people, today) == Headcount(people, LAMBDA p : StillHere(p, today))
\* mutant: the bars forget the joining test
NotGone(p, today) == p.left = Unset \/ p.left > today
CountedInBars(p, today) == StillHere(p, today)
InGroup(people, today, group) == Headcount(people, LAMBDA p : CountedInBars(p, today) /\ p.group = group)
TenureBands(people, today) == \* fewer than so many days, or more
  <<Headcount(people, LAMBDA p : StillHere(p, today) /\ today - p.joined < 4),
    Headcount(people, LAMBDA p : StillHere(p, today) /\ today - p.joined >= 4)>>

(* _attrition and the glossary's pattern, over a period; _flow, by year.      *)
Exits(people, first, final) == Headcount(people, LAMBDA p : p.left # Unset /\ first <= p.left /\ p.left <= final)
GoneBefore(p, first) == p.left # Unset /\ p.left < first
Opening(people, first) == Headcount(people, LAMBDA p : p.joined # Unset /\ p.joined < first /\ ~GoneBefore(p, first))
Closing(people, final) == Headcount(people, LAMBDA p : p.joined # Unset /\ p.joined <= final /\ (p.left = Unset \/ p.left > final))
JoinedIn(people, year) == Headcount(people, LAMBDA p : p.joined # Unset /\ YearOf(p.joined) = year)
LeftIn(people, year) == Headcount(people, LAMBDA p : p.left # Unset /\ YearOf(p.left) = year)

LastDay(people) == Max(UNION {{p.joined, p.left} : p \in ToSet(people)})
ReportingYear(people) == IF InDecember(LastDay(people)) THEN YearOf(LastDay(people)) ELSE YearOf(LastDay(people)) - 1

(* The tiles of one page agree.  For people who joined, and before they left: *)
(* the opening headcount and who joined, less who left, is the closing one,   *)
(* which is the next year's opening one; the exits of the rate are the bar of *)
(* that year, and its year is over in the files.  The bars add up to the      *)
(* headcount but for people of no group, the bands to all of it.              *)
BooksBalance(people, today, groups) ==
  LET year == ReportingYear(people)
      first == FirstDay(year)
      final == FinalDay(year)
  IN (\A p \in ToSet(people) : p.joined # Unset /\ (p.left = Unset \/ p.joined <= p.left)) =>
       /\ Opening(people, first) + JoinedIn(people, year) - LeftIn(people, year) = Closing(people, final)
       /\ Closing(people, final) = Opening(people, FirstDay(year + 1))
       /\ Exits(people, first, final) = LeftIn(people, year)
       /\ \E p \in ToSet(people) : {p.joined, p.left} \cap ((final - 1)..(final + 12)) # {}
       /\ ActiveHeadcount(people, today) =
            SumFunctionOnSet([g \in groups |-> InGroup(people, today, g)], groups)
            + Headcount(people, LAMBDA p : StillHere(p, today) /\ p.group = "none")
       /\ ActiveHeadcount(people, today) = TenureBands(people, today)[1] + TenureBands(people, today)[2]
=============================================================================
