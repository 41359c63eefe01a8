----------------------------- MODULE MCWorkbook -----------------------------
(* Two monthly staff files, of which one has a corrected copy that lists   *)
(* fewer people, a payroll file and a list of visits: both point at the    *)
(* staff of January, neither has one row per person.  These two come from  *)
(* one system, with the same columns, of which one is named source_file.   *)
EXTENDS Workbook

Jan == "staff_jan.csv"
Feb == "staff_feb.csv"
Pay == "pay.csv"
Visits == "visits.csv"

AllFiles == {Jan, Feb, Pay, Visits}
Stems == Jan :> <<"staff", "jan">> @@ Feb :> <<"staff", "feb">> @@ Pay :> <<"pay">> @@ Visits :> <<"visits">>

AllContents == {"jan", "jan corrected", "feb", "odd feb", "pay", "visits", "damaged"}
CanBeRead == AllContents \ {"damaged"}
Columns == [c \in AllContents |-> IF c \in {"pay", "visits"} THEN "export" ELSE "staff"]
ValueTypes == [c \in AllContents |->
                 CASE c = "odd feb" -> "text" [] c \in {"jan corrected", "visits"} -> NoValues
                   [] OTHER -> "date"]
Keys == "jan" :> {1, 2, 3, 4} @@ "jan corrected" :> {1, 2, 7} @@ "feb" :> {5, 6}
          @@ "odd feb" :> {5, 6} @@ "pay" :> {1, 2, 3} @@ "visits" :> {1, 2} @@ "damaged" :> {}
OneRowPerKey == {"jan", "jan corrected", "feb", "odd feb"}
HaveSource == {"export"}
SameHeaders == {{"staff", "export"}, {"staff"}}

OneByOne ==
  {<< <<Jan, "jan">> >>, << <<Jan, "jan corrected">> >>, << <<Feb, "feb">> >>,
   << <<Feb, "odd feb">> >>, << <<Pay, "pay">> >>, << <<Visits, "visits">> >>}
Together ==
  {<< <<Jan, "jan">>, <<Feb, "feb">> >>, << <<Feb, "feb">>, <<Pay, "damaged">> >>,
   << <<Jan, "jan corrected">>, <<Jan, "jan corrected">>, <<Pay, "pay">> >>}
Uploads == OneByOne \cup Together

(* Two different files of one name, chosen together. *)
SameName == {<< <<Feb, "feb">> >>, << <<Feb, "odd feb">>, <<Feb, "jan">> >>}
=============================================================================
