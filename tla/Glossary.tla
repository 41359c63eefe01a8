------------------------------- MODULE Glossary -------------------------------
(* What the app knows of HR words (backend/app/catalog/glossary.py): which    *)
(* metrics a question names, the columns a metric is read from, and the word  *)
(* that could mean several columns and is asked about.                        *)
EXTENDS Integers, Sequences, FiniteSets, SequencesExt, FiniteSetsExt

(* _mentions: where a phrase stands in a text, both sequences of words.       *)
Mentions(text, phrase) ==
  {<<i, i + Len(phrase) - 1>> : i \in {i \in DOMAIN text : phrase # <<>> /\ i + Len(phrase) - 1 <= Len(text)
                                                            /\ SubSeq(text, i, i + Len(phrase) - 1) = phrase}}

------------------------------------------------------------------------------
(* match_metrics.  glossary: the phrases of each metric.                      *)
SpansIn(text, glossary) == [m \in DOMAIN glossary |-> UNION {Mentions(text, p) : p \in glossary[m]}]

Covers(o, span) == o[1] <= span[1] /\ span[2] <= o[2] /\ o # span
InsideAnother(spans, span, m) == \E k \in DOMAIN spans \ {m} : \E o \in spans[k] : Covers(o, span)
MatchMetrics(text, glossary) ==
  LET spans == SpansIn(text, glossary)
  IN {m \in DOMAIN glossary : \E span \in spans[m] : ~InsideAnother(spans, span, m)}

(* "Only the more specific metric is returned": a question that names any     *)
(* metric is given one, and every place where one is named is named by one    *)
(* that is given.                                                             *)
EveryMetricNamedIsDefined(text, glossary) ==
  LET spans == SpansIn(text, glossary)
      given == MatchMetrics(text, glossary)
  IN \A m \in DOMAIN glossary : \A span \in spans[m] :
       \E k \in given : \E o \in spans[k] : o[1] <= span[1] /\ span[2] <= o[2]

------------------------------------------------------------------------------
(* _resolve.  A table is the set of its columns, a column its role and        *)
(* whether it has values; a metric, the roles it must have and all it names.  *)
Binds(column, role) == column.role = role /\ column.filled
Carries(table, role) == \E c \in table.columns : Binds(c, role)
Covered(table, roles) == Cardinality({r \in roles : Carries(table, r)})

Fitter(t, u, metric) ==
  LET a == <<Covered(t, metric.required), Covered(t, metric.named), IF t.view THEN 1 ELSE 0>>
      b == <<Covered(u, metric.required), Covered(u, metric.named), IF u.view THEN 1 ELSE 0>>
  IN a = b \/ \E i \in 1..3 : a[i] > b[i] /\ \A j \in 1..(i - 1) : a[j] = b[j]
Ground(metric, tables) == Min({t \in DOMAIN tables : \A u \in DOMAIN tables : Fitter(tables[t], tables[u], metric)})
Missing(metric, tables) ==
  IF tables = <<>> THEN metric.named ELSE {r \in metric.named : ~Carries(tables[Ground(metric, tables)], r)}

(* "A refusal turned into a number": a metric is offered just when one table  *)
(* alone has values for all it names, and is then read from such a table, a   *)
(* combined view of the data before one of its files.                         *)
MetricIsReadFromOneTable(metric, tables) ==
  LET able == {t \in DOMAIN tables : \A r \in metric.named : \E c \in tables[t].columns : c.role = r /\ c.filled}
  IN /\ (Missing(metric, tables) = {}) <=> able # {}
     /\ able # {} => /\ Ground(metric, tables) \in able
                     /\ (\E t \in able : tables[t].view) => tables[Ground(metric, tables)].view

------------------------------------------------------------------------------
(* find_ambiguity.  A file: its name and its columns, each with a name (names *)
(* are sequences of words), a role and values, and whether a combined view    *)
(* stands for it.  Two of the four terms, and of the pay components (the      *)
(* roles) what two terms and a named component need.                          *)
Ambiguous == [salary |-> {"gross", "net"}, pay |-> {"gross", "net"}]
Terms == <<"salary", "pay">>
NamedComponents == {"bonus"}
RoleSynonyms == [gross |-> {<<"gross">>, <<"gross", "pay">>}, net |-> {<<"net">>, <<"net", "pay">>}, bonus |-> {<<"bonus">>}]
ColumnsOfAll(files) == UNION {{<<f, c>> : c \in files[f].columns} : f \in DOMAIN files}
RealNames(files) == {c[2].name : c \in ColumnsOfAll(files)}
KnownNames(files) ==
  RealNames(files) \cup {files[f].name : f \in DOMAIN files}
                   \cup UNION {RoleSynonyms[c[2].role] : c \in {c \in ColumnsOfAll(files) : c[2].role \in DOMAIN RoleSynonyms}}

Without(text, name) ==
  FoldRight(LAMBDA i, t : IF i + Len(name) - 1 <= Len(t) /\ SubSeq(t, i, i + Len(name) - 1) = name
                          THEN SubSeq(t, 1, i - 1) \o SubSeq(t, i + Len(name), Len(t)) ELSE t,
            [i \in DOMAIN text |-> i], text)
AsksAbout(text, term, files) ==
  LET holding == {n \in KnownNames(files) : n # <<term>> /\ Mentions(n, <<term>>) # {}}
      longestFirst == SetToSortSeq(holding, LAMBDA x, y : Len(x) > Len(y))
  IN /\ <<term>> \notin RealNames(files)
     /\ Mentions(FoldLeft(Without, text, longestFirst), <<term>>) # {}

\* mutant: what was picked has to be in a file of its own
InFiles(c, files) == c \in ColumnsOfAll(files) /\ ~files[c[1]].view
IsReal(c, files) == c \in ColumnsOfAll(files)

Candidates(term, files) ==
  {c \in ColumnsOfAll(files) : ~files[c[1]].stacked /\ c[2].filled /\ c[2].role \in Ambiguous[term]}
Asked(text, files, picked, term) ==
  LET candidates == Candidates(term, files)
      roles == {c[2].role : c \in candidates}
      explicit == {c[2].name : c \in candidates} \cup UNION {RoleSynonyms[r] : r \in roles \cup NamedComponents}
  IN /\ ~(term \in DOMAIN picked /\ IsReal(picked[term], files))
     /\ AsksAbout(text, term, files)
     /\ Cardinality(roles) >= 2
     /\ \A phrase \in explicit : Mentions(text, phrase) = {}
FindAmbiguity(text, files, picked) ==
  LET asked == {i \in DOMAIN Terms : Asked(text, files, picked, Terms[i])}
  IN IF asked = {} THEN [term |-> "none", options |-> {}]
     ELSE [term |-> Terms[Min(asked)], options |-> Candidates(Terms[Min(asked)], files)]

(* A user who picks what is offered is asked once about a word, and the next  *)
(* question is about another one; a file is not offered beside the combined   *)
(* view it is part of.                                                        *)
AskedOnce(text, files) ==
  LET first == FindAmbiguity(text, files, <<>>)
  IN \A option \in first.options :
       LET second == FindAmbiguity(text, files, [t \in {first.term} |-> option])
       IN /\ second.term # first.term /\ ~files[option[1]].stacked
          /\ \A other \in second.options :
               FindAmbiguity(text, files, [t \in {first.term, second.term} |-> IF t = first.term THEN option ELSE other]).term = "none"
=============================================================================
