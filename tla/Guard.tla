-------------------------------- MODULE Guard --------------------------------
(* What the SQL guard lets through, and what it says a query touches          *)
(* (backend/app/query/guard.py).  The pipeline hides personal data by that    *)
(* list of columns, and the fan-out check reads its joins and aggregates, so  *)
(* a column that is read and not listed is a column nobody hides.             *)
(* A query is its structural traits and the chain of its scopes, the          *)
(* innermost first: a correlated subquery sees the queries around it.  A      *)
(* scope has sources by alias, the columns it names, and perhaps a star.      *)
EXTENDS Naturals, Sequences, FiniteSets, SequencesExt, FiniteSetsExt

CONSTANT Catalog \* the columns of each table of the session
IsRealTable(source) == source \in DOMAIN Catalog
IsFunction(source) == source = "series"     \* generate_series(1, 12) AS g(n)
Bare == "none"
ASSUME CatalogAssumption == DOMAIN Catalog \cap {"series", "cte", Bare} = {}

------------------------------------------------------------------------------
(* The structural checks, in the order the code makes them, and the code of   *)
(* the refusal.                                                               *)
Refusals ==
  << [trait |-> "too long", code |-> "parse"], [trait |-> "not sql", code |-> "parse"],
     [trait |-> "empty", code |-> "parse"], [trait |-> "two statements", code |-> "multi"],
     [trait |-> "writes", code |-> "write"], [trait |-> "not a select", code |-> "not_select"],
     [trait |-> "summarize inside", code |-> "not_select"],
     [trait |-> "reads from a function", code |-> "table_function"],
     [trait |-> "schema prefix", code |-> "qualified"],
     [trait |-> "unlisted function", code |-> "function"], [trait |-> "engine info", code |-> "function"],
     [trait |-> "runaway function", code |-> "function"], [trait |-> "built length", code |-> "function"],
     [trait |-> "series in select", code |-> "function"],
     [trait |-> "columns by pattern", code |-> "unknown_column"], [trait |-> "pivot", code |-> "unknown_column"],
     [trait |-> "renamed by position", code |-> "unknown_column"] >>

Structural(query) == {i \in DOMAIN Refusals : Refusals[i].trait \in query.traits}

------------------------------------------------------------------------------
(* Names.  A level is [sources, set]: a UNION has no sources of its own.      *)
Levels(query) == DOMAIN query.chain
AllSources(query) == UNION {{query.chain[l].sources[a] : a \in DOMAIN query.chain[l].sources} : l \in Levels(query)}

RealTables(query) == {s \in AllSources(query) : s \notin {"series", "cte"}}

\* _source: the nearest level that knows the alias.
SourceOf(query, alias) ==
  LET knows == {l \in Levels(query) : alias \in DOMAIN query.chain[l].sources}
  IN IF knows = {} THEN Bare ELSE query.chain[Min(knows)].sources[alias]

\* mutant: only the tables of this scope can own a name
VisibleHere(query) == {query.chain[1].sources[a] : a \in DOMAIN query.chain[1].sources}
Visible(query) == AllSources(query)

(* The owners of a bare name are counted per alias: a table joined to itself  *)
(* owns its columns twice.                                                    *)
OwnersOf(query, name) ==
  {o \in Levels(query) \X UNION {DOMAIN query.chain[l].sources : l \in Levels(query)} :
     LET sources == query.chain[o[1]].sources
     IN /\ o[2] \in DOMAIN sources
        /\ IsRealTable(sources[o[2]])
        /\ sources[o[2]] \in Visible(query)
        /\ name \in Catalog[sources[o[2]]]}

Refused(code) == [code |-> code, reads |-> {}]
Listed(refs) == [code |-> "ok", reads |-> refs]

\* _unresolved
Unresolved(query, name) ==
  LET owners == OwnersOf(query, name)
  IN IF \E l \in Levels(query) : name \in DOMAIN query.chain[l].sources THEN Refused("unknown_column")
     ELSE IF query.chain[1].set THEN Listed({})
     ELSE IF \E o \in owners : owners = {o}
     THEN LET o == CHOOSE o \in owners : TRUE IN Listed({<<query.chain[o[1]].sources[o[2]], name>>})
     ELSE IF owners # {} THEN Refused("unknown_column")
     ELSE IF \E s \in Visible(query) : IsFunction(s) THEN Listed({})
     ELSE Refused("unknown_column")

\* _resolve: table is the alias written, or the one qualify() found.
Resolve(query, name, table) ==
  IF table = Bare THEN Unresolved(query, name)
  ELSE LET source == SourceOf(query, table)
       IN IF ~IsRealTable(source) THEN Listed({})
          ELSE IF name \in Catalog[source] THEN Listed({<<source, name>>})
          ELSE Refused("unknown_column")

\* _columns_behind_unexpanded_stars
BehindStar(query) ==
  UNION {{<<s, c>> : c \in Catalog[s]} :
           s \in {query.chain[1].sources[a] : a \in DOMAIN query.chain[1].sources} \cap DOMAIN Catalog}

------------------------------------------------------------------------------
(* What the database and sqlglot do with a name (external).  The database     *)
(* takes a bare name from the nearest level one of whose sources has it; a    *)
(* name two sources of that level have is an error.  qualify() finds the same *)
(* source, or leaves the name bare: it does so when a function is in FROM.    *)
ColumnsOf(query, source) ==
  IF IsRealTable(source) THEN Catalog[source]
  ELSE IF IsFunction(source) THEN query.series ELSE IF source = "cte" THEN query.cte ELSE {}

Providers(query, l, name) ==
  {a \in DOMAIN query.chain[l].sources : name \in ColumnsOf(query, query.chain[l].sources[a])}

Nearest(query, name) ==
  LET levels == {l \in Levels(query) : Providers(query, l, name) # {}}
  IN IF levels = {} \/ Cardinality(Providers(query, Min(levels), name)) > 1 THEN <<>>
     ELSE <<Min(levels), CHOOSE a \in Providers(query, Min(levels), name) : TRUE>>

GivesUp(query) == \E a \in DOMAIN query.chain[1].sources : IsFunction(query.chain[1].sources[a])
Qualified(query, name) ==
  IF GivesUp(query) \/ Nearest(query, name) = <<>> THEN Bare ELSE Nearest(query, name)[2]

(* The catalog columns that running the query reads for this name.  An alias  *)
(* used as a column is the whole row.                                         *)
DatabaseReads(query, name, table) ==
  LET at == IF table # Bare THEN SourceOf(query, table)
            ELSE IF Nearest(query, name) = <<>> THEN Bare
            ELSE query.chain[Nearest(query, name)[1]].sources[Nearest(query, name)[2]]
  IN IF IsRealTable(at) /\ name \in Catalog[at] THEN {<<at, name>>}
     ELSE IF table = Bare /\ Nearest(query, name) = <<>> /\ IsRealTable(SourceOf(query, name))
     THEN {<<SourceOf(query, name), c>> : c \in Catalog[SourceOf(query, name)]} ELSE {}

------------------------------------------------------------------------------
(* validate_sql.                                                              *)
Answers(query) ==
  {Resolve(query, c.name, IF c.table # Bare THEN c.table ELSE Qualified(query, c.name)) : c \in query.columns}

ValidateSql(query) ==
  LET structural == Structural(query)
      refused == {a \in Answers(query) : a.code # "ok"}
  IN IF structural # {} THEN Refused(Refusals[Min(structural)].code)
     ELSE IF \E t \in RealTables(query) : t \notin DOMAIN Catalog THEN Refused("unknown_table")
     ELSE IF refused # {} THEN Refused("unknown_column")
     ELSE Listed((UNION {a.reads : a \in Answers(query)}) \cup (IF query.star THEN BehindStar(query) ELSE {}))

(* _joins, _aggregates: equalities and aggregates over real tables of the     *)
(* scope itself; DISTINCT aggregates are left out.                            *)
JoinRefs(query) ==
  {e \in query.equalities :
     /\ e.left.table # e.right.table
     /\ \A side \in {e.left, e.right} :
          side.table \in DOMAIN query.chain[1].sources /\ IsRealTable(query.chain[1].sources[side.table])}
Aggregated(query) ==
  UNION {IF g.name = "*" THEN {<<g.func, "*", "*">>}
         ELSE {<<g.func>> \o r : r \in Resolve(query, g.name, g.table).reads} :
           g \in {g \in query.aggregates : ~g.distinct}}

(* "The list the pipeline uses to decide what to hide": every catalog column  *)
(* that running an accepted query reads is in the list, whatever scope it is  *)
(* read from, and no table outside the catalog is read.                       *)
AcceptedReadsAreListed(query) ==
  LET verdict == ValidateSql(query)
  IN verdict.code = "ok" =>
       /\ \A c \in query.columns : DatabaseReads(query, c.name, c.table) \subseteq verdict.reads
       /\ query.star => BehindStar(query) \subseteq verdict.reads
       /\ AllSources(query) \subseteq DOMAIN Catalog \cup {"series", "cte"}
=============================================================================
