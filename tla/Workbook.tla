------------------------------- MODULE Workbook -------------------------------
(* One session's tables, combined views and links, as its files and the    *)
(* user's decisions change them: Session.add_files, _stage, _rebuild and   *)
(* set_link_status (app/sessions.py), detect_unions and create_union_views *)
(* (app/catalog/unions.py), detect_relationships                           *)
(* (app/catalog/relationships.py).  Every operation holds the session's    *)
(* lock from its first read to its last write, so each is one step here;   *)
(* what other threads can see in the middle of one is module Answering.    *)
(*                                                                         *)
(* A name is the sequence of words `_` joins in it.  A file holds one      *)
(* table; of its contents the model keeps what the operations look at: the *)
(* column names, the type of one column, the values of one key column and  *)
(* whether that key is unique.                                             *)
EXTENDS Naturals, Sequences, FiniteSets, SequencesExt, TLC

CONSTANTS FileNames,
          Contents,       (* the bytes a file can have                       *)
          Stem,           (* [FileNames -> names]: the table name it hints   *)
          Readable,       (* the contents ingest_file can read               *)
          ColumnsOf,      (* [Contents -> the set of column names]           *)
          TypeOf,         (* [Contents -> type of one column, or NoValues]   *)
          KeysOf,         (* [Contents -> SUBSET Nat]: the key column        *)
          UniqueIn,       (* the contents whose key column is unique         *)
          Sourced,        (* the column sets that have SOURCE_COLUMN already *)
          HeadersAgree,   (* pairs of column sets whose key headers agree    *)
          Batches,        (* the uploads tried: sequences of <<name, bytes>> *)
          MaxTables,      (* MAX_TABLES_PER_SESSION                          *)
          MaxVersion,     (* BOUND of the model: operations per session      *)
          NoValues,
          EmptyType       (* the type a column without values is read as     *)

ASSUME WorkbookAssumption ==
  /\ Readable \subseteq Contents /\ UniqueIn \subseteq Contents
  /\ Stem \in [FileNames -> Seq(STRING)] /\ KeysOf \in [Contents -> SUBSET Nat]
  /\ Batches \subseteq Seq(FileNames \X Contents)
  /\ MaxTables \in Nat /\ MaxVersion \in Nat

VARIABLES uploads,  (* the (name, hash) pairs of Session.uploads             *)
          base,     (* catalog.tables that are no views, in order            *)
          unions,   (* catalog.unions                                        *)
          links,    (* catalog.relationships                                 *)
          version,  (* catalog.version                                       *)
          stored,   (* the tables of the database: name -> bytes loaded      *)
          views,    (* the views of the database: name -> its members        *)
          decided,  (* history: the last decision of the user on each link   *)
          vetoed    (* history: the unions the user last rejected            *)

bookVars == <<uploads, base, unions, links, version, stored, views, decided, vetoed>>

Table == [name : Seq(STRING), file : FileNames, bytes : Contents]
Union == [id : Seq(STRING), tables : Seq(Seq(STRING)), status : {"active", "rejected"}]
Statuses == {"active", "suggested", "rejected"}

Names(tables) == {t.name : t \in ToSet(tables)}
ActiveViews(us) == {u.id : u \in {v \in ToSet(us) : v.status = "active"}}

-----------------------------------------------------------------------------
(* Names. *)

(* "_2", "_3" and so on until the name is free. *)
FirstFree(name, taken) ==
  IF name \notin taken THEN name
  ELSE LET suffixed(n) == Append(name, ToString(n))
           n == CHOOSE k \in 2..(Cardinality(taken) + 2) :
                  /\ suffixed(k) \notin taken
                  /\ \A j \in 2..(k - 1) : suffixed(j) \in taken
       IN  suffixed(n)

(* The leading words the members share, then "all"; else combined_<n>. *)
ViewName(members, taken, fallback) ==
  LET shared == LongestCommonPrefix(members)
  IN  FirstFree(IF shared # <<>> THEN Append(shared, "all") ELSE <<"combined", ToString(fallback)>>, taken)

-----------------------------------------------------------------------------
(* Combined views. *)

(* resolve_columns does not fail: one type, columns without values aside. *)
Compatible(tables) ==
  Cardinality({TypeOf[t.bytes] : t \in ToSet(tables)} \ {NoValues}) <= 1

(* The members of a list that are in a set, in their order. *)
Among(list, S) ==
  LET among[i \in 0..Len(list)] ==
        IF i = 0 THEN <<>>
        ELSE IF list[i] \in S THEN Append(among[i - 1], list[i]) ELSE among[i - 1]
  IN  among[Len(list)]

(* The tables with the column names of the i-th, if it is the first such;  *)
(* a table that has SOURCE_COLUMN already is stacked with none.            *)
Group(tables, i) ==
  LET alike == {t \in ToSet(tables) : ColumnsOf[t.bytes] = ColumnsOf[tables[i].bytes]}
      seen == \E j \in 1..(i - 1) : tables[j] \in alike
  IN  IF seen \/ ColumnsOf[tables[i].bytes] \in Sourced THEN <<>> ELSE Among(tables, alike)

(* First fit: a table joins the first part whose types it agrees with. *)
Fit(parts, t) ==
  LET fits == {i \in DOMAIN parts : Compatible(Append(parts[i], t))}
      first == CHOOSE i \in fits : \A j \in fits : i <= j
  IN  IF fits = {} THEN Append(parts, <<t>>) ELSE [parts EXCEPT ![first] = Append(@, t)]

Parts(group) ==
  LET parts[i \in 0..Len(group)] == IF i = 0 THEN <<>> ELSE Fit(parts[i - 1], group[i])
  IN  parts[Len(group)]

AllParts(tables) ==
  LET parts[i \in 0..Len(tables)] == IF i = 0 THEN <<>> ELSE parts[i - 1] \o Parts(Group(tables, i))
  IN  parts[Len(tables)]

RejectedIds(us) == {u.id : u \in {v \in ToSet(us) : v.status = "rejected"}}

(* A view of every part with two or more tables. *)
NamePart(acc, part, rejected) ==
  LET members == [i \in DOMAIN part |-> part[i].name]
      name == ViewName(ToSet(members), acc.taken, acc.fallbacks + 1)
  IN  IF Len(part) < 2 THEN acc
      ELSE [taken |-> acc.taken \cup {name},
            fallbacks |-> acc.fallbacks + (IF name[1] = "combined" THEN 1 ELSE 0),
            found |-> Append(acc.found, [id |-> name, tables |-> members,
                        status |-> IF name \in rejected THEN "rejected" ELSE "active"])]

DetectUnions(tables, existing) ==
  LET parts == AllParts(tables)
      naming[i \in 0..Len(parts)] ==
        IF i = 0 THEN [taken |-> Names(tables), fallbacks |-> 0, found |-> <<>>]
        ELSE NamePart(naming[i - 1], parts[i], RejectedIds(existing))
  IN  naming[Len(parts)].found

-----------------------------------------------------------------------------
(* Links. *)

(* What link detection sees of a table, and of a view over its members. *)
ReadAs(bytes) == IF TypeOf[bytes] = NoValues THEN EmptyType ELSE TypeOf[bytes]
Seen(t) == [name |-> t.name, columns |-> ColumnsOf[t.bytes], schema |-> <<ColumnsOf[t.bytes], ReadAs(t.bytes)>>,
            keys |-> KeysOf[t.bytes], unique |-> t.bytes \in UniqueIn]

SeenView(u, tables) ==
  LET members == {Seen(t) : t \in {x \in ToSet(tables) : x.name \in ToSet(u.tables)}}
      one == CHOOSE m \in members : TRUE
  IN  [name |-> u.id, columns |-> one.columns, schema |-> <<u.id>>,
       keys |-> UNION {m.keys : m \in members},
       unique |-> \A m \in members : m.unique /\ \A n \in members \ {m} : m.keys \cap n.keys = {}]

(* linkable_tables: an active view stands in for its members. *)
Hidden(us) == UNION {ToSet(u.tables) : u \in {v \in ToSet(us) : v.status = "active"}}
LinkableWithMembers(tables, us) ==
  {Seen(t) : t \in ToSet(tables)}
    \cup {SeenView(u, tables) : u \in {v \in ToSet(us) : v.status = "active"}}
Linkable(tables, us) ==
  {Seen(t) : t \in {x \in ToSet(tables) : x.name \notin Hidden(us)}}
    \cup {SeenView(u, tables) : u \in {v \in ToSet(us) : v.status = "active"}}

(* At least num/den of one side's keys are found on the other side. *)
Overlaps(l, r, num, den) ==
  \E side \in {l, r} :
    side.keys # {} /\ den * Cardinality(l.keys \cap r.keys) >= num * Cardinality(side.keys)

Automatic(l, r) ==
  IF Overlaps(l, r, 4, 5) /\ {l.columns, r.columns} \in HeadersAgree THEN "active" ELSE "suggested"

(* The unique keys a link that is not rejected leads this key to. *)
Masters(t, found) ==
  {m \in UNION {f.ends : f \in found} : m.unique /\ ~t.unique
     /\ \E f \in found : f.ends = {t, m} /\ f.status # "rejected"}

RejectionsOnly(existing) == {r \in existing : r.status = "rejected"}
Remembered(existing) == {r \in existing : r.status \in {"active", "rejected"}}

DetectLinks(tables, existing, us) ==
  LET seen == Linkable(tables, us)
      pairs == {{p[1], p[2]} : p \in {q \in seen \X seen :
                  q[1].schema # q[2].schema /\ Overlaps(q[1], q[2], 1, 2)}}
      Id(p) == {t.name : t \in p}
      Auto(p) == LET l == CHOOSE x \in p : TRUE
                     r == CHOOSE x \in p : x # l
                 IN  Automatic(l, r)
      Status(p) == LET before == {r \in Remembered(existing) : r.id = Id(p)}
                   IN  IF before = {} THEN Auto(p) ELSE (CHOOSE r \in before : TRUE).status
      found == {[ends |-> p, status |-> Status(p)] : p \in pairs}
      ThroughMaster(f) ==
        /\ \A t \in f.ends : ~t.unique
        /\ \E m \in UNION pairs : \A t \in f.ends : m \in Masters(t, found)
      kept == {f \in found : f.status # Auto(f.ends) \/ ~ThroughMaster(f)}
  IN  {[id |-> Id(f.ends), status |-> f.status] : f \in kept}

-----------------------------------------------------------------------------
(* The session. *)

ViewsOfRejectedToo(us) == [v \in {u.id : u \in ToSet(us)} |-> (CHOOSE u \in ToSet(us) : u.id = v).tables]
ViewsOf(us) == [v \in ActiveViews(us) |-> (CHOOSE u \in ToSet(us) : u.id = v).tables]

BookInit ==
  /\ uploads = {} /\ base = <<>> /\ unions = <<>> /\ links = {}
  /\ version = 0 /\ stored = <<>> /\ views = <<>>
  /\ decided = <<>> /\ vetoed = {}

(* _stage: read every new file, without touching the session.  A file the  *)
(* session has with the same bytes is skipped; a new copy of a file takes  *)
(* over the names of the tables of the one it replaces.                    *)
ReadFile(acc, up) ==
  LET own == {t.name : t \in {x \in ToSet(base) : x.file = up[1]}}
      taken == IF \E u \in uploads : u[1] = up[1] THEN acc.taken \ own ELSE acc.taken
      name == FirstFree(Stem[up[1]], taken)
  IN  IF up \in acc.seen THEN acc
      ELSE [seen |-> acc.seen \cup {up}, taken |-> taken \cup {name},
            tables |-> Append(acc.tables, [name |-> name, file |-> up[1], bytes |-> up[2]]),
            new |-> acc.new \cup {up}, bad |-> acc.bad \/ up[2] \notin Readable]

Stage(batch) ==
  LET staged[i \in 0..Len(batch)] ==
        IF i = 0 THEN [seen |-> uploads, taken |-> Names(base) \cup ActiveViews(unions),
                       tables |-> <<>>, new |-> {}, bad |-> FALSE]
        ELSE ReadFile(staged[i - 1], batch[i])
  IN  staged[Len(batch)]

Total(kept, new) == Len(kept) + Len(new)

Replaced(new) == {u[1] : u \in uploads} \cap {u[1] : u \in new}

(* External: the database refuses to drop a table twice, or as a view.     *)
Droppable(gone, loaded) ==
  /\ Cardinality({gone[i].name : i \in DOMAIN gone}) = Len(gone)
  /\ \A u \in ToSet(unions) : u.id \notin loaded

(* _rebuild over the tables that stay and come, then _publish. *)
Rebuild(tables, existingLinks, existingUnions) ==
  LET us == DetectUnions(tables, existingUnions)
  IN  /\ base' = tables
      /\ unions' = us
      /\ views' = ViewsOf(us)
      /\ links' = DetectLinks(tables, existingLinks, us)
      /\ version' = version + 1

(* All or nothing: an unreadable file, too many tables or a statement that *)
(* fails half-way leave the session as it was.                             *)
AddFiles(batch) ==
  LET s == Stage(batch)
      gone == Among(base, {t \in ToSet(base) : t.file \in Replaced(s.new)})
      stay == Among(base, {t \in ToSet(base) : t.file \notin Replaced(s.new)})
      tables == stay \o s.tables
      kept == DOMAIN stored \ Names(gone)
      Bytes(n) == LET i == CHOOSE j \in DOMAIN s.tables :
                             s.tables[j].name = n /\ \A k \in (j + 1)..Len(s.tables) : s.tables[k].name # n
                  IN  s.tables[i].bytes
  IN  /\ version < MaxVersion
      /\ s.new # {} /\ ~s.bad
      /\ Total(stay, s.tables) <= MaxTables
      /\ Droppable(gone, Names(tables))
      /\ stored' = [n \in kept \cup Names(s.tables) |->
                      IF n \in Names(s.tables) THEN Bytes(n) ELSE stored[n]]
      /\ uploads' = {u \in uploads : u[1] \notin Replaced(s.new)} \cup s.new
      /\ Rebuild(tables, links, unions)
      /\ UNCHANGED <<decided, vetoed>>

SetLinkStatus(id, status) ==
  /\ version < MaxVersion
  /\ \E r \in links : r.id = id
  /\ Rebuild(base, {IF r.id = id THEN [r EXCEPT !.status = status] ELSE r : r \in links}, unions)
  /\ decided' = [i \in DOMAIN decided \cup {id} |-> IF i = id THEN status ELSE decided[i]]
  /\ UNCHANGED <<uploads, stored, vetoed>>

SetUnionStatus(id, status) ==
  /\ version < MaxVersion
  /\ \E u \in ToSet(unions) : u.id = id
  /\ Rebuild(base, links, [i \in DOMAIN unions |->
                             IF unions[i].id = id THEN [unions[i] EXCEPT !.status = status] ELSE unions[i]])
  /\ vetoed' = IF status = "rejected" THEN vetoed \cup {id} ELSE vetoed \ {id}
  /\ UNCHANGED <<uploads, stored, decided>>

BookNext ==
  \/ \E batch \in Batches : AddFiles(batch)
  \/ \E status \in {"active", "rejected"} :
       \/ \E r \in links : SetLinkStatus(r.id, status)
       \/ \E u \in ToSet(unions) : SetUnionStatus(u.id, status)

BookSpec == BookInit /\ [][BookNext]_bookVars

-----------------------------------------------------------------------------
BookTypeOK ==
  /\ uploads \subseteq FileNames \X Contents
  /\ base \in Seq(Table) /\ Len(base) <= MaxTables
  /\ unions \in Seq(Union)
  /\ \A r \in links : Cardinality(r.id) = 2 /\ r.status \in Statuses
  /\ version \in 0..MaxVersion

(* The catalog describes the database: the same tables with the same bytes *)
(* in them, and a view for every active union and for nothing else.  It is *)
(* what the prompt, the guard and the preview build their SQL from, and    *)
(* files replace tables that views stand on.                               *)
CatalogIsDatabase ==
  /\ DOMAIN stored = Names(base)
  /\ \A t \in ToSet(base) : stored[t.name] = t.bytes
  /\ DOMAIN views = ActiveViews(unions)
  /\ DOMAIN stored \cap DOMAIN views = {}
  /\ \A v \in DOMAIN views : ToSet(views[v]) \subseteq DOMAIN stored

(* "Keeping both would stack them in a union view and count every employee *)
(* twice": every upload the session counts as loaded is one table, every   *)
(* table is one upload, and no table is stacked twice.                     *)
NothingCountedTwice ==
  /\ Cardinality(uploads) = Len(base)
  /\ uploads = {<<t.file, t.bytes>> : t \in ToSet(base)}
  /\ \A u \in ToSet(unions) : IsInjective(u.tables)
  /\ \A u, v \in ToSet(unions) : u # v => ToSet(u.tables) \cap ToSet(v.tables) = {}

(* "Half a dataset is worse than none": a link joins two things the        *)
(* catalog has, and never one file of a dataset that is stacked in a view. *)
LinksStand ==
  \A r \in links : r.id \subseteq (Names(base) \ Hidden(unions)) \cup ActiveViews(unions)

(* "User decisions kept": no operation but the user's own changes the      *)
(* status of a link the user has decided, as long as the link stays.       *)
DecisionsKept ==
  [][\A r \in links, s \in links' :
       r.id = s.id /\ r.id \in DOMAIN decided /\ r.status = decided[r.id]
         => s.status = decided'[r.id]]_bookVars

(* "A union the user rejected stays rejected": it is so at once, and while *)
(* the union is there no upload and no other decision brings it back.      *)
UnionsStayRejected ==
  [][\A u \in ToSet(unions), v \in ToSet(unions') :
       u.id = v.id /\ v.id \in vetoed' /\ (u.status = "rejected" \/ v.id \notin vetoed)
         => v.status = "rejected"]_bookVars

(* "Picked together [...], they are two files, not two versions": every    *)
(* upload the session counts as loaded is in the database, in its own table *)
BothKept ==
  \A up \in uploads :
    \E t \in ToSet(base) : <<t.file, t.bytes>> = up /\ stored[t.name] = up[2]
=============================================================================
